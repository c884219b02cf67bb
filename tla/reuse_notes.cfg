SPECIFICATION Spec
CONSTANTS
  Window = 2
  AssetPaths = {}
  TimingMultiple = 5
  SizeMultiple = 10
  Signatures <- DebugSignatures
  SecretKinds = {"jwt"}
  CookieHints = {"sid"}
  InlineBelow = 2
  RandomLen = 1
  Letter <- Ascii
  Kinds <- SignalsOnly
  Targets = {}
  Hellos = {}
  Streams = {}
  HostLetters <- Letters
  MaxPages = 4
  MaxPolls = 5
  MaxSignals = 5
  MaxHost = 3
INVARIANT ReuseNotesAreKept
\* Inputs end at their longest.
CHECK_DEADLOCK FALSE

