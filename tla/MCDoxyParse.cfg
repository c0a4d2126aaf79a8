CONSTANTS
  Chars <- MCChars
  MaxLen = 6
SPECIFICATION Spec
INVARIANT ParseMatchesSpec
