CONSTANTS
  MAX_FILES = 5
  MAX_FILE_SIZE = 1
  MAX_FILENAME = 64
  MAX_PATH_LENGTH = 256
  MAX_DEPTH = 3
  root = root
  a = a
  b = b
  long = long
  Names <- TwoNamesAndRoot
  RootName = root
  Dot = dot
  DotDot = dotdot
  EmptyName = empty
  NameLen <- NameLengths
  Components <- NameComponents
  Bytes <- TwoBytes
  Zero = 0
  Contents <- NoData
  CreateTypes = {"REGULAR", "DIRECTORY"}
  Home = root
  Bin = root
  Etc = root
SPECIFICATION DocSpec
SYMMETRY NameSymmetry
INVARIANTS TreeIsSound PathIsFresh PathResolves
VIEW Relevant
