CONSTANTS
  MAX_LINES = 4
  MAX_LINE_LENGTH = 4
  BUFFER_SIZE = 8
  view_height = 2
  x = x
  Chars = {x}
  NL = nl
  Missing = missing
  Files <- SomeFiles
SPECIFICATION Spec
INVARIANTS TypeOK CursorInText QuitLosesNothing SaveFits ReloadKeepsText
PROPERTIES DownShowsCursor
