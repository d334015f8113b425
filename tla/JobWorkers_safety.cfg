\* Two jobs with different budgets share a slot and a remote worker.
CONSTANTS
  j1 = j1
  j2 = j2
  NoJob = NoJob
  NoToken = NoToken
  Jobs = {j1, j2}
  Slots = {s1}
  Remotes = {r1}
  Tokens = {t1, t2, t3, t4}
  MaxRetries <- MCMaxRetries
SYMMETRY MCTokenSymmetry
SPECIFICATION Spec
INVARIANTS TypeOK ExecutionBudget OneOwner
PROPERTIES ZombiesAreFenced ImplementsLifecycle
CHECK_DEADLOCK FALSE
