SPECIFICATION Spec
CONSTANTS
    p1 = p1
    s1 = s1
    s2 = s2
    Passwords = {p1}
    Webmail = webmail
    Sessions = {s1, s2}
    NoOne = NoOne
    HourlyCap = 2
    DailyCap = 3
    AccountHourly = 3
    AccountDaily = 4
    Hour = 1
    Day = 2
    MaxRecipients = 1
    MaxTime = 2
    MaxThaws = 2
    MaxFaults = 1
SYMMETRY Symmetry
INVARIANTS
    WithinPathCaps
    WithinAccountCaps
    ToldOnce
CHECK_DEADLOCK FALSE
