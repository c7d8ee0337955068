CONSTANTS
    i1 = i1
    i2 = i2
    u1 = u1
    u2 = u2
    m1 = m1
    q1 = q1
    q2 = q2
    Incidents = {i1, i2}
    Users = {u1, u2, m1}
    Moderators = {m1}
    Reporter <- MCReporter
    InitialVotes <- MCVoted
    InitialTrust <- MCTrust
    Requests = {q1, q2}
    NoVote = NoVote
    NoUser = NoUser
    MIN_DECISIVE_VOTES = 2
    FULL_EVIDENCE = 2
    MaxTime = 2

SPECIFICATION Spec

INVARIANTS
    TypeOK
    CountsMatchVotes
    StatusJustified
    TrustAccounted

PROPERTIES
    EveryRequestAnswered

\* Once MaxTime transactions have begun and ended nothing happens any more.
CHECK_DEADLOCK FALSE
