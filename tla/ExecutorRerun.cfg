CONSTANTS
    Releases <- OneRelease
    ReleaseImages <- OneReleaseImages
    PullSpec <- OnePullSpecs
    Catalogs <- NoCatalog
    RelatedImages <- NoImages
    Component <- OwnComponent
    AdditionalImages <- NoAdditional
    CacheDir <- NoCacheDir
    Destinations = {"oci"}
    Readings = {"strict"}
    MaxRuns = 2
SPECIFICATION Spec
INVARIANT DownloadsEachImage
