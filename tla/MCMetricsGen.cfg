CONSTANTS
    Chars <- MCChars
    Underscore = "_"
    Slash = "/"
    Space = " "
    ByteOf <- MCByteOf
    UpperOf <- MCUpperOf
    H1 = H1
    H2 = H2
    H0 = H0
    Helps = {H1, H2, H0}
    NRoots = 2
    Files <- MCFiles
    FileRoot <- MCFileRoot
    FileDir <- MCFileDir
    FileTest <- MCFileTest
    FatalDecl = FatalDecl
    FileContents <- MCFileContents
    StableMetrics <- MCStable
    BetaMetrics <- MCBeta
    DeprecatedMetrics <- MCDeprecated
    DropSubsystems <- MCDrop
    FoldSubsystems <- MCFold
    SubSystemSortOrder <- MCSortOrder
    SubsystemMap <- MCSubsystemMap
    Acronyms <- MCAcronyms
    CRDKinds <- MCKinds
    NodeKind <- B
    OperatorNamespace <- B
    StatusConditionNames <- MCStatusNames
    TerminationNames <- MCTermNames
    EventTotalName <- AA
    StatusConditionSubsystem <- B_A
    LegacyStatusNames <- MCStatusNames
    TerminationSubsystem <- A_A
    LegacyTerminationNames <- MCTermNames
    ClientGoNames <- MCClientGo
SPECIFICATION Spec
INVARIANT TypeOK
INVARIANT DocumentMatchesSources
INVARIANT UngroupedFirst
