\* Three requests, two logins that may be under way, one person who shares an email.
SPECIFICATION Spec
CONSTANTS
    p1 = p1
    p2 = p2
    e1 = e1
    e2 = e2
    Users = {u1, u2}
    Sessions = {s1, s2}
    Requests = {r1, r2, r3}
    Persons = {p1, p2}
    Emails = {e1, e2}
    Issuers = {i1, i2}
    None = None
CONSTANT
    Identities <- MCIdentities
SYMMETRY Symmetry
INVARIANTS
    TypeOK
    OneAccountPerPerson
    StateUsedOnce
    ConfigurationIsTheSavedOne
CHECK_DEADLOCK FALSE
