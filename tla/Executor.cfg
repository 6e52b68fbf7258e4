CONSTANTS
    Releases <- TwoReleases
    ReleaseImages <- TwoReleaseImages
    PullSpec <- TwoPullSpecs
    Catalogs <- OneCatalog
    RelatedImages <- OneCatalogImages
    Component <- SameComponent
    AdditionalImages <- TwoTags
    CacheDir <- TagsCacheDir
    Destinations = {"oci", "dir", "docker"}
    Readings = {"unreadable", "loose", "strict"}
    MaxRuns = 3
SPECIFICATION FairSpec
INVARIANTS
    ExecutorInv
    DistinctDestinations
    CleanCacheSound
    CleanRunMirrorsReleases
    OkMeansIndexes
    RoundTrip
PROPERTIES
    NeverCopiedTwice
    UnreadIsInert
    RunEnds
