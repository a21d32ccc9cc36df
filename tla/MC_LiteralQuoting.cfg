CONSTANTS
    DQ = DQ
    BQ = BQ
    BS = BS
    Fatal = Fatal
    Unprintable = Unprintable
    ConstructorPkgs = {"prometheus", "opmetrics"}
    IdentMapping <- MCIdentMapping
    InputFiles <- QuotingFiles
INIT RInit
NEXT RNext
INVARIANT ScanMatchesSpec
