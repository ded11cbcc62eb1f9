\* Two webapps and two browsers; one name is all a race needs.
CONSTANTS
    q1 = q1  q2 = q2  q3 = q3  q4 = q4  w1 = w1  w2 = w2  b1 = b1  b2 = b2
    ann = ann  p1 = p1  p2 = p2
    Requests <- FourRequests
    Webapps <- TwoWebapps
    Browsers <- TwoBrowsers
    UserNames <- OneName
    Passwords <- TwoPasswords
    None = None
    MaxFaults = 2
SPECIFICATION Spec
CHECK_DEADLOCK FALSE
INVARIANTS
    TypeOK
    NameTakenOnce
    RightPasswordIsAccepted
    ActsAsWhoLoggedIn
SYMMETRY Symmetry
