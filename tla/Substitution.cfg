SPECIFICATION FairSpec
CONSTANTS
  Chars <- MCChars
  Dollar = "$"
  Templates <- MCTemplates
  Variables <- MCVariables
  Size = 7
  MaxVariables = 2
\* The computation ends.
CHECK_DEADLOCK FALSE
INVARIANTS
  TypeOK
  ExpandsTemplate
PROPERTY Terminates
