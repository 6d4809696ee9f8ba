CONSTANTS
  Phase = {"A", "B", "C"}
  Before <- MCBefore
  Talks = {"B", "C"}
  Text = {"k", "l"}
  Gated = {"A", "B"}
  Reviewable = {"A", "B"}
  MaxTries = 1
  NULL = NULL
  Stage = {"c1", "c2"}
  WriterOf <- MCWriterOf
  Expected <- MCExpected
  MaxRedo = 1
  MaxRuns = 2
  NoFile = NoFile
  Call = {"a", "b", "c", "d"}
  Mode <- MCMode
  MaxCrash = 2
  Process = {"p", "q"}
  BufferSize = 2
  QueueSize = 1
  MaxEvents = 3
  MaxRestart = 1
  Nobody = Nobody
  Client = {"c1", "c2"}
  NoClient = NoClient
  MaxOpen = 4
  MaxBreaks = 2
  MaxFails = 1
  Agent = {"w1", "w2"}
  Worker = {"w1", "w2"}
  ToolUser = {"w1"}
  Reviewed = {"w1"}
  MaxIters <- MCMaxIters
  MaxAsk <- MCMaxAsk
  MaxDepth = 2
  MaxReply = 2
  EmptyRetries = 1
  NodeRetries = 1
  TotalIterations = 2
  Speaker = {"b", "c"}
  Author = "a"
  MaxRounds <- MCMaxRounds
  MaxEntries <- MCMaxEntries
  MaxRollbacks = 1
  CharOverlap <- MCCharOverlap
  WordOverlap <- MCWordOverlap
  Templates <- MCTemplates
  Fits = {"x", "g"}
  General = {"g"}
  Tags <- MCTags
  Synonym = {}
  Related <- MCRelated
  Similar <- MCSimilar
  None = None
  Planner = {"p", "q"}
  Streams = {"q"}
  KnowsDomain = {"p", "q"}
  Tasks <- MCTasks
  Title <- MCTitle
  Caps <- MCCaps
  Vocabulary <- MCVocabulary
  Generic <- MCGeneric
  GenericSkill <- MCGenericSkill
  TotalUnits = 3
  Threads = {"t"}
  ResolveAt <- MCResolveAt
  Window = 2
  Plans <- MCPlans
  Ingested <- MCIngested
  MaxRetries = 1
  MaxSentBack = 1
  Unset = Unset
  Starter = {"p", "q"}
  Script <- MCScript
  Statements <- MCStatements
  Conditional = {"026"}
  Baseline <- MCBaseline
  Parts = {"negotiation", "artifacts", "agents", "approvals", "feed", "planning",
           "writing", "team", "talk", "database", "starts"}
SPECIFICATION Spec
INVARIANTS
  NoneUnjudged
  NothingFromNothing
  RunsOnceUnlessLost
  FeedHasNoGap
  CallsAnswered
  DepthIsPeers
  ValidPlanRuns
  PlannedOrderKept
  MemoryMovesTogether
  TasksHaveAgents
  AnswersThread
  OneUndisturbed
  SimpleScriptsDone
PROPERTIES
  ResolvedStays
  RowsKept
CHECK_DEADLOCK FALSE
