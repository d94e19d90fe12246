SPECIFICATION SemanticSpec
CONSTANTS
  NoCandidate = NoCandidate
  Requests <- MCRequests
  Confidences = {1, 2}
  Counts <- MCCounts
  VerifierCodes <- MCVerifierCodes
  MaxRuns = 1
  Products = {p1, p2}
  Documents = {"d"}
  Setups = {"s"}
  Questions = {"table", "spacing"}
  Leads = {"table"}
  Answers = {"a", "b"}
  Render <- MCRender
  Strict = TRUE
  Natives <- MCNatives
  Settings <- MCSettings
  MaxConversions = 2
  MaxRevisions = 1
INVARIANTS
  EveryAnswerIsDecided
CHECK_DEADLOCK FALSE
