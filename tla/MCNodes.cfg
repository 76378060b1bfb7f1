SPECIFICATION PartsSpec
CONSTANTS
  Subs <- TwoSubs
  Setups <- AllEvents
  MaxEvents = 2
  Apps <- TwoApps
  Reqs <- TwoReqs
  MaxCalls = 3
  Calling <- AllCalls
CHECK_DEADLOCK FALSE
INVARIANTS
  CallbacksSafe
  SubscribersGetEvents
  OwnAnswers
  AskedOnce
PROPERTIES
  SubscribersAnswered
  CallReturns
