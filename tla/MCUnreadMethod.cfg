\* A method of T stands in a file that changed.
SPECIFICATION InterfacesSpec
CONSTANTS
    Files = {1, 2, 3}
    Methods <- MCMethods
    TypedPackages <- MCTypedPackages
    MaxPackageFiles = 3
    MaxRelationships = 2
    MaxUnread = 1
    MaxFound = 1
INVARIANTS
    DecidedOnlyWhenComplete
CHECK_DEADLOCK FALSE
