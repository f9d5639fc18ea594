SPECIFICATION FairSpec
CONSTANTS
    MaxStreams = 6
    MaxMessages <- TwoToDialer
    MaxBreaks = 2
INVARIANTS DialerOrder NoOrphanStream RedialsBounded
PROPERTIES Reconnects
CHECK_DEADLOCK FALSE
