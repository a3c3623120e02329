SPECIFICATION Spec
CONSTANTS
  Sizes = {1, 2}
  Times = {2}
  MaxPhrases = 5
INVARIANTS
  NoNullPhrase
  OnePhraseOfMany
PROPERTIES
  RepeatedInFull
  NothingDropped
CHECK_DEADLOCK FALSE
