\* Connections that break, and a timeoutMs that the server rejects.
SPECIFICATION Spec
CONSTANTS
  Callers = {a, b}
  Slots = {s, t}
  Free = Free
  Lost = Lost
  Kinds = {"query", "stream", "client", "unit", "bulk"}
  Dies = TRUE
  BadBudgets = TRUE
  Swallows = FALSE
INVARIANT NoConnectionIsLost
