CONSTANTS
    Stack <- MCStack
    ProjectOf <- MCProjectOf
    Loose = {}
    Vm = {}
    Disk = {}
    Shape = {"container_"}
    Failures <- WholeFailures
    Grace = 2
    MaxReloads = 1
SPECIFICATION Spec
INVARIANT TypeOK
INVARIANT RegistryHolds
PROPERTY RemovedRightly
