SPECIFICATION FairHttpSpec
CONSTANTS
  Texts <- SomeLines
  Pages = {"/index", "/quiet"}
  Silent = {"/quiet"}
  MaxLines = 5
INVARIANT
  AnswersAsAWhole
PROPERTY
  MessageHandled
CHECK_DEADLOCK FALSE
