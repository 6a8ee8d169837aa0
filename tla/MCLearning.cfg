CONSTANTS
    i1 = i1
    i2 = i2
    r1 = r1
    r2 = r2
    Instances <- MCInstances
    Runs <- MCRuns
    Symptoms <- MCSymptoms
    SymptomOf <- MCSymptomOf
    HomeOf <- MCHomeOf
    Queries <- MCQueries
    CaseCacheSize = 2
    SuppressCapacity = 1
    MaxFailures = 1
    MaxRestarts = 1
    Slots = 1
    MaxWithdrawals = 2
    WithCases = {TRUE, FALSE}
    Samples <- MCSamples
    Types <- MCTypes
    MessageOf <- MCMessageOf
    SelectedOf <- MCSelectedOf
    AgentList <- MCAgentList
    Available <- MCAvailable
    Questions <- MCQuestions
    ScoreOf <- MCScoreOf
    LikenessOf <- MCLikenessOf
    QuestionOf <- MCQuestionOf
    FewShotLimit = 1
    Replies <- MCReplies
    RouteCacheSize = 2
    MinSamples = 2
    MaxLost = 1
    MaxJobs = 2
    WithRoutes = {TRUE, FALSE}
SPECIFICATION MCSpec
CHECK_DEADLOCK FALSE
INVARIANTS
  VerdictsHold
  RoutingFollowsSamples
PROPERTIES
  ExamplesAreBoundedList
