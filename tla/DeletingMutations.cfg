CONSTANTS
  Accounts = {a1}
  Sessions = {s1}
  Procs = {p1,p2}
  Steps = {c1}
  Requests = {}
  Flights = {}
  Passkeys = {}
  Configured = {}
  Purposes = {"accountDeletion", "emailChange"}
  Initial <- PasswordOnly
  Opened = {s1}
  Forgetful = {}
  Blockable = {}
  Refreshing = {}
  Null = Null
  FlowTTL = 1
  ChallengeTTL = 1
  GrantTTL = 1
  ReuseTTL = 1
  SessionTTL = 3
  RequestTTL = 1
  DeletionDelay = 2
  MaxAttempts = 1
  BackupCodes = 0
  MaxTime = 2
  MaxChanges = 1
SPECIFICATION FairSpec
PROPERTIES PendingDeletionRestrictsMutations
