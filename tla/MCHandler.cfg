SPECIFICATION Spec
CONSTANTS
  Prompt = {p1}
  Item = {i1}
  Reply = {r1}
  None = None
  TransientCeiling = 2
  LimitCeiling = 2
  MaxReasks = 1
  MaxConsecutive = 2
  RepeatWindow = 2
  MaxReports = 1
  MaxTurns = 2
  MaxActs = 3
  MaxTroubles = 1
  MaxArms = 2
  MaxCrashes = 1
INVARIANTS ParkIsTimed HandlingIsAPass PromptsAreRows AnswerHasProducer
CHECK_DEADLOCK FALSE
