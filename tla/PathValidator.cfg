CONSTANTS
  Path = {"p", "q", "r"}
  Files <- WholeSeconds
  Frequency <- Frequencies
  Thread = {t1, t2}
  Unit = 4
  Half = 2
  Mod = 64
  DefaultMin = 8
  DefaultMax = 24
  Unset = Unset
SYMMETRY Symmetry
SPECIFICATION Spec
CHECK_DEADLOCK FALSE
INVARIANTS DbInv AnswerRight ToldIsConfigured
