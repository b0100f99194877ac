SPECIFICATION SharedSpec
INVARIANTS
  AllTypesOK
  EntriesUsed
  PatchFresh
  OnePlace
  HistoryOnce
  Durable
  LateStaysOut
  KnownIsRouted
  NoneForsaken
  AnswersOwn
  UnsavedKept
  TogetherAgree
PROPERTIES
  ImplementsMutex
  Granted
  NoRevival
  RequestsEnd
  TruthShown
CONSTANTS
  Guards = {f, g, h}
  Keys = {"a", "b"}
  MaxMutexes = 3
  Folders = {1, 2}
  Names = {1, 2}
  MaxRequests = 3
  MaxVersions = 2
  Asks <- mcAsks
  Placed <- mcPlaced
  None = None
  MaxChanges = 2
  Writers = {w}
  Readers = {r}
  States = {"s"}
  Absent = Absent
  MaxClock = 3
  MaxPeers = 2
  RingSize = 2
  Plugins = {a, b}
  Host = Host
  Nobody = Nobody
  MaxStarts = 3
  MaxEdits = 2
  Partners = {a, b}
  NoOne = NoOne
  MaxSessions = 3
  MaxCalls = 1
  Members = {1, 2}
  MaxTyped = 1
  MaxOpens = 2
  MaxLinks = 2
  MaxSaves = 1
  MaxDocs = 3
  MaxQueue = 1
CHECK_DEADLOCK FALSE
