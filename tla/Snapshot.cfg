CONSTANTS
    net = net
    web = web
    plain = plain
    line = line
    app = app
    c1 = c1
    c2 = c2
    None = None
    Folders <- MCFolders
    ComposeName <- MCComposeName
    UnraidName <- MCUnraidName
    Project <- MCProject
    Place <- MCPlace
    Failures <- MCFailures
    Label <- MCLabel
    Service <- MCService
    Container <- MCContainer
    Groups <- MCGroups
    Budget <- MCBudget
    Cap <- MCCap
    Need <- MCNeed
    Listed <- MCListed
    File <- MCFile
    PictureKind <- MCPictureKind
    OwnName = FALSE
    OwnKey = TRUE
    PictureFailures <- MCFailures
    MaxListed = 3
    Grace = 1
    Slots = 2
    Bound = 2
    Limit = 5
    MaxUptime = 4
    MaxPassed = 4
    MaxBoots = 2
    MaxOwners = 2
SPECIFICATION SnapshotSpec
INVARIANT TypeOK
INVARIANT NameBeforePath
INVARIANT Distinct
INVARIANT StartsOnce
INVARIANT WholeInTime
PROPERTY NoAlias
PROPERTY KeepsItsPlace
PROPERTY RatesAreReal
 
CHECK_DEADLOCK FALSE
