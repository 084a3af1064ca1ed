SPECIFICATION Spec
CONSTANTS
  Texts = {100}
  Sends = {1, 2}
  MaxBridges = 2
  MaxLongLines = 1
  MaxStops = 1
  Handles <- MCHandles
  Names <- MCNames
  Guids = {"g"}
  NameOf <- MCNameOf
  NoName = "none"
  Incoming <- MCIncoming
  NoGuid = "no"
  MaxSuffix = 2
  MaxCommands = 3
  LastRow = 2
  DayOf <- MCDayOf
  MaxMishaps = 2
  ReplayedDays = {2}
  Posts = {1, 2, 3}
  ConvOf <- MCConvOf
  DirectConvs = {"D"}
  Mentions = {2, 3}
  HistoryLimit = 1
  MaxSlackFaults = 1
  MaxSlackDeaths = 1
  Calls = {"c1", "c2"}
  CallTexts = {"t", "u"}
  TextOf <- MCTextOf
  Pids = {11, 12, 13}
  Sender = 11
  MaxSendMishaps = 1
INVARIANT PrivateStaysPrivate
CHECK_DEADLOCK FALSE
