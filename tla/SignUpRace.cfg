CONSTANTS
  Accounts = {a1, a2}
  Emails = {e1, e2}
  Flows = {p1, p2}
  Owned <- OneAccount
  Null = Null
  FlowTTL = 1
  ChallengeTTL = 1
  GrantTTL = 1
  ReuseTTL = 1
  RequestTTL = 1
  MaxAttempts = 1
  MaxTime = 2
SPECIFICATION SignUpFairSpec
INVARIANTS OneOwner AddressIsProved DisclosedAfterProof
PROPERTIES BothAddressesConfirm StaleChangeGoes
