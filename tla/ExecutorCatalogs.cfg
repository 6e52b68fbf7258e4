CONSTANTS
    Releases <- OneRelease
    ReleaseImages <- OneReleaseImages
    PullSpec <- OnePullSpecs
    Catalogs <- TwoCatalogs
    RelatedImages <- TwoCatalogImages
    Component <- SameComponent
    AdditionalImages <- NoAdditional
    CacheDir <- NoCacheDir
    Destinations = {"oci"}
    Readings = {"strict"}
    MaxRuns = 1
SPECIFICATION Spec
INVARIANT DownloadsEachRelatedImage
