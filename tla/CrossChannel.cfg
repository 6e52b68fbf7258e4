CONSTANTS
    Versions = 4
    MaxMinor = 3
SPECIFICATION CrossSpec
INVARIANTS
    UpgradesConnect
    UnblockedReachesRequested
