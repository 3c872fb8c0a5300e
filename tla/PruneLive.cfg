CONSTANTS
    Stack = {}
    ProjectOf <- MCProjectOf
    Loose <- MCLoose
    Vm = {}
    Disk <- MCDisk
    Shape = {"container_", "disk_usage_"}
    Failures <- UnitFailures
    Grace = 1
    MaxReloads = 1
SPECIFICATION FairSpec
PROPERTY RemovedRightly
PROPERTY FollowsServer
