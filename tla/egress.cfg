SPECIFICATION EgressFairSpec
CONSTANTS
    Clients = {c1, c2, c3}
    MaxConnections = 2
    MaxTunnels = 1
INVARIANTS SlotsReturned EpisodesLogged
PROPERTIES EndingsReached
CHECK_DEADLOCK FALSE
