SPECIFICATION Spec
CONSTANTS
  handler = handler
  reporter = reporter
  Writers = {handler, reporter}
  MaxMessage = 2
  Sizes = {1, 2, 3}
  MaxMsgs = 2
CHECK_DEADLOCK FALSE
INVARIANTS
  IntactApart
  NothingInvented
PROPERTY
  AllArrive
