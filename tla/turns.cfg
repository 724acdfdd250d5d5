CONSTANTS
    Telnet = {t}
    Binary = {b}
    Changed = {b}
    NoConn = nc
    maxusers = 2
    INBUF_SIZE = 2
    MAX_STRLEN = 2
    Input = {"char", "LF", "IAC"}
    MaxRead = 2
    MaxSent = 1
    MaxOps = 1
SPECIFICATION FairSpec
INVARIANTS UsersSound Settled
PROPERTIES Heard Noticed
