CONSTANTS
  Reader = {p1, p2}
  INPUT_BUF = 3
  WORD = 6
  Typed = {"x", "nl", "eof", "bs", "kill", "dump"}
  Keys <- MCKeys
  Counts = {2}
SPECIFICATION MCSpec
INVARIANTS
  SleepsOnEmpty
  NoStuckModifier
PROPERTIES
  LineDiscipline
  InputIsRead
