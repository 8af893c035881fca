CONSTANTS
  Lanes = 2
  Base = 4
  Image <- MCImage
  Tail = "tail"
  Bss <- MCBss
  Data <- MCData
  Requests <- MCRequests
  Timeout = 18
SPECIFICATION Spec
INVARIANTS TypeOK ServedSoon BytesKept
PROPERTIES ServedOnce PendingFollows MainEnds
