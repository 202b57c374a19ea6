CONSTANTS
    r1 = r1  r2 = r2  u1 = u1  a = a  b = b  k1 = k1  w1 = w1  x = x
    Viewers = {}
    Rebuilders = {r1, r2}
    Urls = {u1}
    Models = {a, b}
    NoModel = NoModel
    KeyOf <- KeysOfWorkers
    EditedUrls = {}
    LocalMachine = LocalMachine
    NoName = NoName
    NoSnapshot = NoSnapshot
    FirstConfig <- OneWorker
    Configs = {}
    ModelConfig <- TwoPorts
    Changed <- TwoPorts
    NoCommand = NoCommand
    NoPort = NoPort
    ListName = ListName
    Wants <- Asked
    NoServer = NoServer
    NoTarget = NoTarget
    NoGroup = NoGroup
    NoReply = NoReply
    MaxMoves = 2
SPECIFICATION Spec
INVARIANTS WaitersAreLed SingleFlight ListedIsRouted SentWhereItRan RetryIsRenewed
PROPERTIES ExchangeSpec RequestAnswered
CHECK_DEADLOCK FALSE
