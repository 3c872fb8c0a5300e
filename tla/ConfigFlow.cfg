CONSTANTS
    a1 = a1
    a2 = a2
    k1 = k1
    k2 = k2
    e1 = e1
    e2 = e2
    f1 = f1
    f2 = f2
    Down = Down
    Address <- MCAddress
    HostKey <- MCHostKey
    Entry <- MCEntry
    Flow <- MCFlow
SPECIFICATION Spec
INVARIANT TypeOK
INVARIANT KeyOfItsServer
INVARIANT OneEntryPerServer
PROPERTY TrustsWhatWasShown
SYMMETRY Symmetry
