CONSTANTS
  Accounts = {a1}
  Sessions = {s1,s2}
  Procs = {p1,p2}
  Steps = {c1,c2}
  Requests = {r1,r2}
  Flights = {}
  Passkeys = {}
  Configured = {}
  Purposes = {"totpEnrollment", "totpRemoval", "backupCodesRotation"}
  Initial <- MaybeTotp
  Opened = {s1,s2}
  Forgetful = {}
  Blockable = {}
  Refreshing = {}
  Null = Null
  FlowTTL = 1
  ChallengeTTL = 1
  GrantTTL = 1
  ReuseTTL = 3
  SessionTTL = 5
  RequestTTL = 1
  DeletionDelay = 1
  MaxAttempts = 1
  BackupCodes = 1
  MaxTime = 4
  MaxChanges = 2
SPECIFICATION Spec
INVARIANTS TypeOK OneTotpActivation GrantMeetsPolicy TrustWindowIsFixed
PROPERTIES CleanupKeepsUsable
