CONSTANTS
  Accounts = {a1}
  Sessions = {s1}
  Procs = {p1}
  Steps = {c1,c2,c3}
  Requests = {}
  Flights = {f1,f2}
  Passkeys = {}
  Configured = {"google"}
  Purposes = {"signIn"}
  Initial <- ResetAsked
  Opened = {}
  Forgetful = {}
  Blockable = {}
  Refreshing = {s1}
  Null = Null
  FlowTTL = 2
  ChallengeTTL = 1
  GrantTTL = 1
  ReuseTTL = 2
  SessionTTL = 2
  RequestTTL = 2
  DeletionDelay = 1
  MaxAttempts = 2
  BackupCodes = 1
  MaxTime = 2
  MaxChanges = 1
SPECIFICATION Spec
INVARIANTS EvidenceIsCurrent BudgetIsDurable PendingStepsAreOffered
PROPERTIES EndedStaysEnded
