CONSTANTS
  Accounts = {a1}
  Sessions = {s1}
  Procs = {p1,p2}
  Steps = {c1}
  Requests = {r1}
  Flights = {f1}
  Passkeys = {k1}
  Configured = {"passkey", "google"}
  Purposes = {"passkeyRemoval", "passkeyEnrollment", "identityLink", "identityUnlink"}
  Initial <- NoPassword
  Opened = {s1}
  Forgetful = {}
  Blockable = {}
  Refreshing = {}
  Null = Null
  FlowTTL = 1
  ChallengeTTL = 1
  GrantTTL = 1
  ReuseTTL = 1
  SessionTTL = 4
  RequestTTL = 1
  DeletionDelay = 1
  MaxAttempts = 1
  BackupCodes = 0
  MaxTime = 2
  MaxChanges = 3
SPECIFICATION Spec
INVARIANTS AccountIsReachable
