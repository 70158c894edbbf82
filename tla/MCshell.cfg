CONSTANTS
  MAX_FILES = 3
  MAX_FILE_SIZE = 4
  MAX_FILENAME = 64
  MAX_PATH_LENGTH = 256
  MAX_DEPTH = 4
  root = root
  a = a
  b = b
  long = long
  Names <- TwoNames
  RootName = root
  Dot = dot
  DotDot = dotdot
  EmptyName = empty
  NameLen <- NameLengths
  Components <- NameComponents
  Bytes <- ThreeBytes
  Zero = 0
  Contents <- NoData
  CreateTypes = {}
  Home = root
  Bin = root
  Etc = root
  Newline = 2
  Lines <- OneLine
  Texts <- SomeTexts
SPECIFICATION ShellSpec
SYMMETRY NameSymmetry
INVARIANTS NothingIsCut
PROPERTIES EditOnlyAppends MvDelivers
VIEW ShellRelevant
CHECK_DEADLOCK FALSE
