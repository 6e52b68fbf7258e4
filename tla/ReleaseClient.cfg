CONSTANTS
    Archs <- TwoArchs
    Configs <- ChannelConfigs
    Answers <- Offers
SPECIFICATION Spec
INVARIANTS
    ChannelsMirrored
    CrossSpansAll
