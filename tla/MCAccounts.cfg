CONSTANTS
    a1 = a1
    a2 = a2
    t1 = t1
    t2 = t2
    q1 = q1
    q2 = q2
    m1 = m1
    d1 = d1
    None = None
    Accounts = {a1, a2}
    Mails = {m1}
    Devices = {d1}
    Tokens = {t1, t2}
    Slots = {q1, q2}

SYMMETRY Interchangeable

SPECIFICATION Spec

INVARIANTS
    TypeOK
    EndedSessionsRefused
    ErasureLasts

\* Once every token has expired and every e-mail is taken nothing happens any more.
CHECK_DEADLOCK FALSE
