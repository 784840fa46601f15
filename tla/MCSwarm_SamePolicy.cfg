SPECIFICATION FairSpec
CONSTANTS
  ingest = ingest  fraud = fraud  coverage = coverage  decision = decision  approval = approval
  e1 = e1  e2 = e2  claim1 = claim1  claim2 = claim2  policy = policy
  Outside = Outside
  NodeOrder <- ClaimsNodes
  DependsOn <- ClaimsDependsOn
  Workers = {ingest, fraud, coverage, decision}
  Gate = approval
  Events = {e1, e2}
  Ids = {claim1, claim2, policy}
  MintedIds <- TwoIdFields
  MaxDisruptions = 0
INVARIANT Coherent
CHECK_DEADLOCK FALSE
