SPECIFICATION MCSpec
CONSTANTS
    AccessLife = 1
    RefreshLife = 3
    MaxTokens = 4
    MaxPasswords = 4
    MaxTime = 5
    Browsers = {b1, b2}
    Local = {b2}
    MaxSessions = 4
    WebPasswords = 3
    WebTime = 2
INVARIANTS TokensDieWithPassword SpentStaysSpent SignedOutByPassword LogoutLasts
