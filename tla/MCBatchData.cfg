SPECIFICATION Spec
CONSTANTS
  Uploads <- MCUploads
  Answers <- MCAnswers
INVARIANTS
  TypeOK
  EveryCellBecomesACheck
  BirthDaysAreTheCells
  RequestsCarryTheItems
  EveryCheckIsShown
  AnswersReachTheReport
  NothingIsMixedUp
