CONSTANTS
  MAX_FILES = 5
  MAX_FILE_SIZE = 1
  MAX_FILENAME = 64
  MAX_PATH_LENGTH = 256
  MAX_DEPTH = 4
  root = root
  a = a
  b = b
  long = long
  Names <- TwoNamesAndRoot
  RootName = root
  Dot = dot
  DotDot = dotdot
  EmptyName = empty
  NameLen <- NameLengths
  Components <- NameComponents
  Bytes <- ThreeBytes
  Zero = 0
  Contents <- NoData
  CreateTypes = {}
  Home = root
  Bin = root
  Etc = root
  Newline = 2
  Lines = {}
  Texts = {}
SPECIFICATION RootKeptSpec
SYMMETRY NameSymmetry
INVARIANTS PromptIsRight
VIEW ShellRelevant
