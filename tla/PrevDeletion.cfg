CONSTANTS
  Users = {1, 2}
  Emails = {e1, e2}
  Names = {n1}
  Passwords = {p1}
  Providers = {"google", "vk"}
  Subjects = {s1}
  Refused = {bad}
  Callers = {1, 2}
  InFlight = 2
  Replicas = {r1, r2}
  Scenes <- DeletionScenes
  None = None
  Offset = 2
  Ttl = 1
  FreshFor = 0
  Skew = 1
  ProofTtl = 2
  MaxSessions = 1
  MaxTime = 3
  MaxTokens = 2
SPECIFICATION PrevFairSpec
CHECK_DEADLOCK FALSE
PROPERTIES DueRequestIsFinal DueProfilesAreRemoved EventsAreHanded
