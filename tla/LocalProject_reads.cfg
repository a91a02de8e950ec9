SPECIFICATION Spec
CONSTANTS
    None = None
    Malformed = Malformed
    WordRank <- MCWordRank
    Dotted = {"."}
    Builtin = "minecraft"
    BuiltinNamespaces = {"minecraft", "c"}
    Modid = "m"
    SchemaVersions = {"legacy", "v1"}
    Catalog <- MCCatalog
    FirstFiles <- MCFirstFiles
    Deletable = {"a"}
    Others <- MCOthers
    OthersKnown <- MCOthersKnown
    NamesOfOthers <- MCNamesOfOthers
    SomeLocale = "fr"
    SomeRequests <- MCSomeRequests
    MaxChanges <- MCMaxChanges
    MaxDeployments = 2
    MaxReads = 2
INVARIANTS
    TypeOK
    
    ReferencesOpen
    TreesAreServed
    RecipesAreShown
    ReportsAreTrue
    StatusTellsOfIssues
    FailureIsExplained
CHECK_DEADLOCK FALSE
