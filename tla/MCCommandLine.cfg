CONSTANTS
    p1 = p1
    p2 = p2
    p3 = p3
    tcp = tcp
    unix = unix
    noport = noport
    Procs = {p1, p2, p3}
    Addrs <- MCAddrs
    Parses = {tcp, unix}
    Jobs <- MCJobs
    Earlier <- MCEarlier
    Commands <- MCCommands
    MaxText = 5
SPECIFICATION Spec
INVARIANTS TypeOK UsesWhatWasRegistered EffectsLast TopicIsItsText
SYMMETRY Symmetry
CHECK_DEADLOCK FALSE
