CONSTANTS
    b1 = b1
    b2 = b2
    Press <- MCPress
    MaxVersion = 3
    MaxReloads = 1
    MaxDropped = 1
SPECIFICATION Spec
INVARIANT TypeOK
INVARIANT Exclusive
INVARIANT CompletedWasCurrent
PROPERTY Judged
