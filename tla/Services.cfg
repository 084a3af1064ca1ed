SPECIFICATION Spec
CONSTANTS
  Parents = {101}
  Children = {1, 2}
  Packaged = {"b"}
  Neutral = {}
  MaxLostCommands = 1
  PaiNames = {"a", "b"}
  FirstFleet = {"a"}
  Shells = {1, 2}
  MaxFleetCommands = 2
  MaxKilled = 1
  Bundles = {"p", "d", "b"}
  DepsOf <- MCDepsOf
  PaiBundles = {"p"}
  Managers = {"m1", "m2"}
  MaxPaimanRuns = 2
  MaxEdits = 1
  MaxPaimanFaults = 1
  LastRecord = 2
  MaxNoteMishaps = 2
  Uids = {1}
  Versions = {1, 2}
  MaxCalEdits = 2
  MaxCalFaults = 2
  Verbs = {1, 2}
  BrowseSlugs = {"x", "y"}
  MaxBrowseFaults = 1
  MaxCalls = 2
  MaxCommandFiles = 3
  MaxRecorderFaults = 2
  Docs = {"a", "b"}
  Contents = {1, 2}
  Releases = {"r1", "r2"}
  MaxDocWrites = 2
  MaxLayouts = 2
  VersionOf <- MCVersionOf
  MaxUpdates = 4
  MaxUpdateFaults = 2
  MaxKernels = 4
  MaxKernelFaults = 2
  MaxCopies = 1
  Files = {"f"}
  MaxFlips = 2
  MaxCoworkFaults = 1
  OnsetFrames = 2
  SilenceFrames = 2
  CapFrames = 5
  CooldownFrames = 1
  MaxTurns = 2
  MaxArms = 1
  MaxVoiceFaults = 1
INVARIANT EndsAsAgreed
INVARIANT FleetIsWhole
INVARIANT CursorCoversRecords
INVARIANT DocsAreKept
INVARIANT CurrentIsWhole
INVARIANT NoKernelSurvives
INVARIANT NothingRetroactive
PROPERTY InstallIsCurrent
PROPERTY ViewCatchesUp
 
PROPERTY CallIsTold
PROPERTY CaptureComesBack
PROPERTY TurnIsSettled
CHECK_DEADLOCK FALSE
