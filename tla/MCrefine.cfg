CONSTANTS
  MAX_FILES = 4
  MAX_FILE_SIZE = 2
  MAX_FILENAME = 64
  MAX_PATH_LENGTH = 256
  MAX_DEPTH = 4
  root = root
  a = a
  b = b
  long = long
  Names <- TwoNames
  RootName = root
  Dot = dot
  DotDot = dotdot
  EmptyName = empty
  NameLen <- NameLengths
  Components <- NameComponents
  Bytes <- TwoBytes
  Zero = 0
  Contents <- ShortContents
  CreateTypes = {"REGULAR"}
  Home = root
  Bin = root
  Etc = root
SPECIFICATION TreeSpec
SYMMETRY NameSymmetry
INVARIANTS FilesAreDisjoint
PROPERTIES ImplementsTree
VIEW Relevant
