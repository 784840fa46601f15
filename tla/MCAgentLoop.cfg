SPECIFICATION FairSpec
CONSTANTS
  m1 = m1  m2 = m2  lookup = lookup  payout = payout  unknown = unknown
  NoEndpoint = NoEndpoint
  Endpoints = {m1, m2}
  Tools = {lookup, payout, unknown}
  Serves <- TwoServers
  AllowedTools = {lookup}
  HasLLM = TRUE
  MaxAgentTurns = 8
  MaxCalls = 2
INVARIANT TypeOK
INVARIANT CallsAreAnswered
PROPERTY TaskEnds
CHECK_DEADLOCK FALSE
