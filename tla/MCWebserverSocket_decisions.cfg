SPECIFICATION FairSpec
CONSTANTS
    client = client
    proxy = proxy
    forged = forged
    good = good
    short = short
    IPs = {client, proxy}
    Private = {proxy}
    NoIP = NoIP
    Cookies = {forged, good, short}
    CookieOf <- MCCookieOf
    KeyIs32 = TRUE
    Lines <- MCLines
    Omitted = Omitted
    Mistyped = Mistyped
    TooLong = TooLong
    Conns = {c1, c2}
    MaxLines = 2
    InboxCap = 1
    BlockTTL = 1
INVARIANTS TypeOK BlocksJustified PassesJustified NoLookupLeftBehind OneMoreConnection
\* The process may end, and the lines are counted.
PROPERTIES LinesAnswered
CHECK_DEADLOCK FALSE
