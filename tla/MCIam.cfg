SPECIFICATION Spec
CONSTANTS
  Users <- MCUsers
  Local = "u1"
  Words <- MCWords
  Sids <- MCSids
  Toks <- MCToks
  Keys <- MCKeys
  Codes <- MCCodes
  States <- MCStates
  Clients <- MCClients
  Workloads <- MCWorkloads
  RefreshTTL = 2
  AccessTTL = 1
  Lockout = 2
  ClaimTTL = 2
  StateTTL = 2
  LockAfter = 2
  CaptchaAt = 1
  MaxNow = 3
CHECK_DEADLOCK FALSE
INVARIANTS
  GoodOnce
  SignedOutStaysOut
  PromisesKept
  
