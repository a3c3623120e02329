SPECIFICATION Spec
CONSTANTS
  Divs = {1, 3}
  Beats = {1, 2}
  MetaSizes = {2}
  MaxNodes = 8
  MaxTargets = 4
  Unit = 6561
INVARIANTS
  CursorAtEnd
  SpeedOfPath
  RoundFillsPhrase
  NoNullDeref
PROPERTIES
  RoundEnds
CHECK_DEADLOCK FALSE
