CONSTANTS
  Accounts = {a1, a2}
  Replicas = {r1}
  Secrets = {s1, s2}
  Codes <- AnyCode
  Hotp <- Alternating
  Null = Null
  Period = 1
  RequestTTL = 2
  Window = 2
  Budget = 2
  Capacity = 1
  MaxTime = 3
  Users = {u1, u2}
  Nobody = Nobody
  Credentials = {c1}
  Kinds <- AllKinds
  Devices = {d1, d2}
  Ceremonies = {1, 2, 3}
  CeremonyTTL = 1
  MaxSigns = 2
  MaxClock = 1
SPECIFICATION FactorsSpec
SYMMETRY Interchangeable
INVARIANTS NoReplay BurstIsBounded SpeaksForEnroller CopiesAreNoticed HonestKeysPass
PROPERTY RemovedStaysRemoved
