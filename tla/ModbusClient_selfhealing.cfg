CONSTANTS
  Callers = {c1}
  Requests <- MCTwoSpans
  Size <- MCTwoSize
  Missing = {}
  Cancelling = TRUE
  Unloading = FALSE
  MaxUnread = 1
  None = None

SPECIFICATION AnsweringSpec

PROPERTY SelfHeals
