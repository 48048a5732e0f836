CONSTANTS
  query = query
  answer = answer
  invalid = invalid
  None = None
  Requests = {query, answer, invalid}
  Answers = {answer}
  Invalid = {invalid}
  MaxCancels = 1
  MaxLines = 3
  MaxFaults = 1
SPECIFICATION Spec
INVARIANTS
  WaitingHasTimer
  AnswerInTime
PROPERTY Answered
CHECK_DEADLOCK FALSE
