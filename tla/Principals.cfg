CONSTANTS
  Accounts = {a1,a2}
  Sessions = {s1,s2}
  Procs = {p1}
  Steps = {c1}
  Requests = {}
  Flights = {f1}
  Passkeys = {}
  Configured = {"google"}
  Purposes = {"accountDeletion", "passwordChange", "emailChange"}
  Initial <- PasswordGoogle
  Opened = {s1,s2}
  Forgetful = {a1}
  Blockable = {a1}
  Refreshing = {}
  Null = Null
  FlowTTL = 1
  ChallengeTTL = 1
  GrantTTL = 1
  ReuseTTL = 1
  SessionTTL = 3
  RequestTTL = 1
  DeletionDelay = 2
  MaxAttempts = 1
  BackupCodes = 0
  MaxTime = 2
  MaxChanges = 1
SPECIFICATION FairSpec
INVARIANTS SensitiveStaysWithPrincipal
PROPERTIES DeletionIsFirm PendingDeletionFreezesSessions DueAccountsGo
