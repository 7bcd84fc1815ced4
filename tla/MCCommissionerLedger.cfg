SPECIFICATION Spec
CONSTANTS
  Stores = {s1}
  Commands <- AllCommands
  Submissions <- MostSubmissions
  Start <- FoundStart
  MaxEntries = 6
INVARIANTS
  ServedAsRecorded
  BooksAgree
  ReversalsUndone
  SeasonKept
  AnswersAreTrue
PROPERTY ImplementsRequestLog
CHECK_DEADLOCK FALSE
