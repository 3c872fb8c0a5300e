CONSTANTS
    Stack <- MCStack
    ProjectOf <- MCProjectOf
    Loose = {}
    Vm = {}
    Disk = {}
    Shape = {"container_"}
    Failures <- FolderFailures
    Grace = 1
    MaxReloads = 0
SPECIFICATION Spec
PROPERTY RemovedOnlyWhenGone
