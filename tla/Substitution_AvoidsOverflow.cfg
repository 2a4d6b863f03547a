SPECIFICATION Spec
CONSTANTS
  Chars <- MCChars
  Dollar = "$"
  Templates <- MCShortTemplates
  Variables <- MCShort
  Size = 7
  MaxVariables = 1
CHECK_DEADLOCK FALSE
INVARIANT AvoidsOverflow
