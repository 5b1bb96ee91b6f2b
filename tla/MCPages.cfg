SPECIFICATION Spec
CONSTANTS
  View = {"logs", "monitor", "site", "terminal"}
  Server = {a, b}
  NoServer = NoServer
  Conn = {1, 2}
  NoConn = 0
  MaxRetries = 1
  MaxActs = 3
  MaxOutages = 2
  Panel <- AllPanels
  MaxWrites = 2
  MaxUpsets = 1
  Form <- AllForms
  MaxTexts = 3
  MaxSaves = 2
  MaxOpens = 2
  MaxMishaps = 1
  Dir <- SomeDirs
  Name = {"x", "y"}
  Files <- SomeFiles
  Kind = {"rename", "mkdir", "delete", "extract", "upload", "compress"}
  MaxReqs = 1
  MaxMoves = 1
  User = {u1, u2}
  NoUser = NoUser
  MaxTokens = 2
  MaxCalls = 3
  MaxMisses = 1
INVARIANTS PagesTypeOK OneStream LiveHasASource AtRestUpToDate NoBlindSave OnlyListedItems ListingUpToDate BadgeIsTrue
PROPERTIES StreamsGiveUp ReadYourWrites TypedTextStands HomeSettles
CHECK_DEADLOCK FALSE
