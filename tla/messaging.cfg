SPECIFICATION Spec
CONSTANTS
  Msg = {"q1", "q2", "q3", "s", "r"}
  Question = {"q1", "q2", "q3"}
  Direct = {"s"}
  Target <- MCTarget
  Chat <- MCChat
  Alike <- MCAlike
  Event <- MCEvent
  MaxAttempts = 2
  Batch = 2
  Window = 2
  Flaky = {"telegram"}
  Together = {{"q1", "q2"}, {"q1", "q3"}, {"s", "r"}}
  MaxTraffic = 3
  MaxEvents = 2
  MaxStarts = 2
INVARIANTS PostsExplained ConfirmedHandled EffectsBounded
PROPERTIES StraysOnlyBy
CHECK_DEADLOCK FALSE
