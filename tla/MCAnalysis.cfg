\* A session over each of the directories, edited while the engines run, with
\* an ending context and spool files that refuse to be written or removed;
\* every function body of a few declarations; every reading of a package of
\* three files; every way a file is read while its folder is moved about.
SPECIFICATION MCSpec
CONSTANTS
    Trees <- MCTrees
    Edits <- MCEdits
    LanguageOf <- MCLanguageOf
    Manifests = {"package.json"}
    BuildFiles = {"go.mod", "go.work"}
    Presence <- MCPresence
    MaxEdits = 2
    PathNames <- MCPathNames
    Interruptible = TRUE
    TestFiles = {"a_test.go"}
    Exported = {"A", "B", "D", "T", "V", "X", "Y", "Z"}
    Predeclared = {"len", "int"}
    PredeclaredTypes = {"int"}
    MaxArtifacts = 9
    MaxStuck = 1
    Names = {"a", "p"}
    PackageNames = {"a"}
    Aliases = {"p"}
    Builtins = {}
    MaxOffset = 4
    MaxNesting = 4
    Files = {1, 2, 3}
    Methods <- MCMethods
    TypedPackages <- MCTypedPackages
    MaxPackageFiles = 3
    MaxRelationships = 2
    MaxUnread = 1
    MaxFound = 1
    Engines = {"golang", "go-package-identity", "go-semantic"}
    Directories = {"d1", "d2"}
    Texts <- MCTexts
    MaxFileSize = 2
    MaxDisturbances = 2
INVARIANTS
    
    InventoryTrue
    EnginesAgree
    ProofsExact
    EdgesTrue
    SessionReleases
    ReadsTrue
PROPERTIES
    IgnoreExact
CHECK_DEADLOCK FALSE
