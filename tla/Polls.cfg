CONSTANTS
    array = array
    pools = pools
    users = users
    p1 = p1
    p2 = p2
    Dash <- MCDash
    Inv <- MCInv
    Array = array
    Pools = pools
    Period <- MCPeriod
    Poll <- MCPoll
SPECIFICATION Spec
INVARIANT TypeOK
INVARIANT NoRevival
PROPERTY FreshVerdict
PROPERTY Spaced
PROPERTY Recovers
