\* The listener's requests reach t1 through t2; requests and responses for addresses
\* get lost, and raft is set up all the same.
SPECIFICATION Spec
CONSTANTS
    t1 = t1
    t2 = t2
    l1 = l1
    NoNode = NoNode
    Trusted = {t1, t2}
    Listeners = {l1}
    Links <- Line
    Lossy = {"RaftAddrsRequest", "RaftAddrsResponse"}
    MaxElections = 1
INVARIANTS TypeOK DemotedOnlyByRelay DownIsExplained
PROPERTY RaftStarts
CHECK_DEADLOCK FALSE
