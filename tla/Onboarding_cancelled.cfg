\* Two choices of each setting that is checked or typed twice.
SPECIFICATION Spec
CONSTANTS
  Paths = {"p", "q"}
  Databases = {"d", "e"}
  Urls = {"u"}
  Passphrases = {"x", "y"}
  None = "none"
INVARIANT CancelledMadeNothing
CHECK_DEADLOCK FALSE
