CONSTANTS
  Alphabet <- LineAlphabet
  MaxLength = 5
  Letters = {"a", "z"}
  Digits = {"1"}
  NumberLetters <- AInNumbers
  Keywords <- ZIsKeyword
  WordLimit = 2
  NumberLimit = 2
  Bytes <- SomeBytes
  Files <- SomeFiles
  Newline = "newline"
  NUL = "nul"
  WordChars = {"z"}
  Known <- ZIsKeyword
  Directive = "directive"
  ShellWord = 2
  LineLimit = 3
  Pattern <- JustZ
SPECIFICATION Spec
INVARIANTS AllShown MarkersPair KeywordsStandAlone StringsEndRight FileIsShown MatchesAreNumbered
PROPERTIES Terminates
CHECK_DEADLOCK FALSE
