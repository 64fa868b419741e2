\* Two requests in one API process, with two errors, crashes or resets.
SPECIFICATION Spec

CONSTANTS
  Orders = {o1, o2}
  MaxFaults = 2

INVARIANTS
  AnswerIsTrue
  ResidueIsVisible

PROPERTIES
  NothingResurrected
