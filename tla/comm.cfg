CONSTANTS
    Telnet = {t}
    Binary = {b}
    Changed = {t}
    NoConn = nc
    maxusers = 1
    INBUF_SIZE = 2
    MAX_STRLEN = 2
    Input = {"char", "LF", "CR", "BS", "IAC", "AYT", "DO", "OPTION"}
    MaxRead = 3
    MaxSent = 2
    MaxOps = 2
SPECIFICATION Spec
INVARIANTS InOrder EchoKnown FullWithoutLine
