CONSTANTS
  MAX_FILES = 3
  MAX_FILE_SIZE = 1
  MAX_FILENAME = 3
  MAX_PATH_LENGTH = 4
  MAX_DEPTH = 4
  root = root
  a = a
  b = b
  long = long
  Names <- LongNames
  RootName = root
  Dot = dot
  DotDot = dotdot
  EmptyName = empty
  NameLen <- NameLengths
  Components <- NameComponents
  Bytes <- TwoBytes
  Zero = 0
  Contents <- ClippedContents
  CreateTypes = {"REGULAR"}
  Home = root
  Bin = root
  Etc = root
SPECIFICATION Spec
INVARIANTS TypeOK AllocatorIsAhead
PROPERTIES ReadBack FailedMoveChangesNothing
VIEW Relevant
CHECK_DEADLOCK FALSE
