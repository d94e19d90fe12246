SPECIFICATION SemanticSpec
CONSTANTS
  NoCandidate = NoCandidate
  Requests <- MCRequests
  Confidences = {1, 2}
  Counts <- MCCounts
  VerifierCodes <- MCVerifierCodes
  MaxRuns = 3
  Products = {p1, p2}
  Documents = {"d"}
  Setups = {"s"}
  Questions = {"table", "spacing"}
  Leads = {"table"}
  Answers = {"a", "b"}
  Render <- MCRender
  Strict = TRUE
  Natives <- MCNatives
  Settings <- MCSettings
  MaxConversions = 2
  MaxRevisions = 4
INVARIANTS
  DecisionsAreEarned
  DecisionsReplay
  SameSourceSameBytes
  ReplayAsksNothing
  NothingIsLost
  TablesStayWhole
  BatchesCompose
  PublishedIsSettled
  ReuseReproduces
CHECK_DEADLOCK FALSE
