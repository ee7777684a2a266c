CONSTANTS
  Users = {1, 2}
  Emails = {e1, e2}
  Names = {n1}
  Passwords = {p1, p2}
  Providers = {"google", "vk"}
  Subjects = {s1}
  Refused = {bad}
  Callers = {1, 2, 3, 4}
  InFlight = 2
  Replicas = {r1}
  Scenes <- WorkflowScenes
  None = None
  Offset = 2
  Ttl = 1
  FreshFor = 0
  Skew = 1
  ProofTtl = 2
  MaxSessions = 1
  MaxTime = 2
  MaxTokens = 3
SPECIFICATION PrevSpec
CHECK_DEADLOCK FALSE
INVARIANTS KeepsSignInMethod OneTimeTokensSpentOnce QueuedMailIsCurrent SessionsAreBounded
PROPERTY AddressProvedByBoth
