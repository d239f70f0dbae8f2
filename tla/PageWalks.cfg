SPECIFICATION Spec
CONSTANTS
  Row <- MCRow
  Queries <- MCQueries
  Stampings <- MCStampings
  Limits <- MCLimits
  MaxChanges = 3
INVARIANTS
  TypeOK
  AnswerAddsUp
  MissedWereShifted
  RepeatedWerePushed
CHECK_DEADLOCK FALSE
