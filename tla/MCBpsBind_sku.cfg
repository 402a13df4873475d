CONSTANTS
    FirstSku = 771
    LastSku = 774
    IntBits = 16
    SkuValues <- MCSkuValues
    Faults = TRUE
SPECIFICATION Spec
INVARIANT
    SkuReportValid
