CONSTANTS
  Lower <- Letters
  Upper = {"A"}
  Others = {" ", "-"}
  LowerOf <- Capital
  Dash = "-"
  NoName <- Org
  MaxLen = 6
SPECIFICATION Spec
INVARIANT SlugNamesWords
CHECK_DEADLOCK FALSE
