CONSTANTS
  Callers = {c1, c2, c3}
  Requests <- MCThree
  Size <- MCThreeSize
  Missing = {"absent"}
  Cancelling = TRUE
  Unloading = TRUE
  MaxUnread = 0
  None = None

SPECIFICATION FairSpec

INVARIANT OneOutstanding
INVARIANT OneInside
PROPERTY OwnAnswers
PROPERTY CallsEnd
