SPECIFICATION Spec
CONSTANTS
    s1 = s1  s2 = s2  r1 = r1  r2 = r2
    tx1 = tx1  tx2 = tx2  rx1 = rx1  rx2 = rx2
    Senders = {s1, s2}  Receivers = {r1, r2}
    SendHandles = {tx1, tx2}  RecvHandles = {rx1, rx2}
    Via <- OwnHandles
    Timed = {}
    FirstSend = tx1  FirstRecv = rx1
    Unbounded = Unbounded
    Capacity = 0
    MaxItems = 2
INVARIANTS
    RendezvousPairsUp
