SPECIFICATION CallsSpec
CONSTANTS
  Issues = {"i1", "i2"}
  Requests <- MCRequests
  Sources = {"a", "b"}
  Descriptions = {"told"}
  Ids = {"p0", "p1", "p2", "p3"}
  ExistingId = "p0"
  None = None
  MaxApprovals = 2
  MaxMishaps = 2
  MaxOutput = 1  Chunk = 2  PipeSize = 1  InputSize = 2  MaxBytes <- MCBytes
  MaxAttempts = 3  MaxRepairs = 2  NoCode = NoCode
  Providers = {"openai_chat", "openai_responses", "gemini", "claude"}
  Conversation <- MCConversation
INVARIANTS
  HandoverIsApproved
  SynchronisedIsClean
  UpdatesReplaceWhatTheySaw
  ReturnIsFinal
  CallsFollowAnswers
PROPERTIES
  OthersWorkSurvives
  CommandsReturn
CHECK_DEADLOCK FALSE
