SPECIFICATION FairSpec
CONSTANTS
  ingest = ingest  fraud = fraud  coverage = coverage  decision = decision  approval = approval
  e1 = e1  e2 = e2  claim1 = claim1  claim2 = claim2  policy = policy
  Outside = Outside
  NodeOrder <- ClaimsNodes
  DependsOn <- ClaimsDependsOn
  Workers = {ingest, fraud, coverage, decision}
  Gate = approval
  Events = {e1}
  Ids = {claim1, policy}
  MintedIds <- TwoIdFields
  MaxDisruptions = 2
INVARIANT TypeOK
INVARIANT LeftoversAreHarmless
INVARIANT CleanWithoutDisruption
PROPERTY EveryEventDecided
CHECK_DEADLOCK FALSE
