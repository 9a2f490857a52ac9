SPECIFICATION Spec
CONSTANTS
    u1 = u1
    u2 = u2
    n1 = n1
    n2 = n2
    p1 = p1
    p2 = p2
    p3 = p3
    p4 = p4
    NoPage = NoPage
    NoUser = NoUser
    ClosedPort = ClosedPort
    Users <- MCUsers
    Ports <- MCPorts
    Pages <- MCPages
    StaticPages <- MCStatic
    MaxSockets = 2
    QueueSize = 2
    MaxSignals = 1
SYMMETRY Symmetry
INVARIANTS
    PopTypeOK
    PagesHeldOnce
    OneAnswerPerReceive
    NoMailForgotten
    MailReachesItsPort
CONSTRAINT Bound
