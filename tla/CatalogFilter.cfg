CONSTANTS
    Packages <- TwoPackages
    CatalogFiles <- Files
    Versioning <- Numbering
    Configs <- OperatorConfigs
    Nines = 2
SPECIFICATION Spec
INVARIANTS
    RangeRespected
    InsideSelected
    
