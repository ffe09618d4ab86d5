\* No room for the marker; rooms of two and five bytes, of which a word
\* boundary has to use one and four.
SPECIFICATION Spec
CONSTANTS
  Limits = {1, 5, 8}
  MaxLength = 7
INVARIANTS
  FitsTheLimit
  KeepsTheBeginning
  UsesTheRoom
  EndsAtAWord
\* A text of MaxLength characters is not extended.
CHECK_DEADLOCK FALSE
