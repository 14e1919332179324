\* Two callers, two connections, everything that may fail fails.
SPECIFICATION FairSpec
CONSTANTS
  Callers = {a, b}
  Slots = {s, t}
  Free = Free
  Lost = Lost
  Kinds = {"query", "stream", "client", "unit", "bulk"}
  Dies = TRUE
  BadBudgets = TRUE
  Swallows = FALSE
INVARIANTS
  SessionsAreClean
  OutcomesAreTrue
  TransactionsNeverLeak
PROPERTY CallsEnd
