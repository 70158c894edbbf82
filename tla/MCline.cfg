CONSTANTS
  x = x
  Space = blank
  NUL = nul
  Tab = tab
  Bytes = {x, blank, nul}
  Printable = {x, blank}
  COLUMNS = 3
  MAX_COMMAND_LENGTH = 4
  MAX_ARGS = 2
  HISTORY_SIZE = 2
  TEST_BUFFER = 2
  MAX_LINE = 3
  Edit <- EditIsX
  Panic <- PanicIsXX
  EditQuits <- QuitIsX
  MaxCommands = 3
SPECIFICATION Spec
INVARIANTS TypeOK EchoMatches
PROPERTIES RecallsInOrder DraftComesBack TerminatorStays
CHECK_DEADLOCK FALSE
