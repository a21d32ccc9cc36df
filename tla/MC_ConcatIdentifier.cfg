CONSTANTS
    DQ = DQ
    BQ = BQ
    BS = BS
    Fatal = Fatal
    Unprintable = Unprintable
    ConstructorPkgs = {"prometheus", "opmetrics"}
    IdentMapping <- MCIdentMapping
    InputFiles <- ConcatIdentFiles
INIT RInit
NEXT RNext
INVARIANT ScanMatchesSpec
