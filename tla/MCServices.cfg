SPECIFICATION ServicesSpec
CONSTANTS
    s1 = s1  s2 = s2  c1 = c1  c2 = c2  c3 = c3  k1 = k1  d1 = d1  d2 = d2
    p1 = p1  p2 = p2  f = f  u1 = u1  u2 = u2  q1 = q1  q2 = q2
    e1 = e1  e2 = e2  e3 = e3  a = a  ch = ch  v1 = v1  v2 = v2  m1 = m1
    Streams <- TwoStreams
    Service <- ServiceOf
    MaxStreams = 1
    Pieces <- PiecesOf
    Writers <- ClientWriters
    Conns <- ThreeConns
    Keys <- OneKey
    Devices <- TwoDevices
    KeyOf <- KeyOfConn
    DeviceOf <- DeviceOfConn
    MaxPreAuth = 2
    MaxPending = 2
    MaxPerDevice = 1
    MaxPerKey = 2
    Droids <- TwoDevices
    PortRanges <- OneOrTwoPorts
    NewRanges <- OnePort
    Installations <- TwoInstallations
    Leaving <- GoesAway
    Edited <- TwoDevices
    MaxQueued = 1
    MaxOvertaken = 1
    Held = {}
    Faulty = {2}
    Nothing = Nothing
    Posts <- TwoPosts
    IdOf <- OneFlow
    Before <- ResponseAfterRequest
    UIs <- TwoUIs
    Nobody = Nobody
    Phones <- OnePhone
    Polls <- TwoPolls
    NoPoll = NoPoll
    Events <- ThreeEvents
    Critical <- CriticalEvents
    SourceOf <- SourceOfEvent
    Channels <- OneChannel
    NoSource = NoSource
    MaxRetries = 2
    Viewers <- TwoViewers
    Feeds <- OneFeed
    NoFeed = NoFeed
    MaxRestarts = 1
    MaxTimers = 1
INVARIANTS
    ServicesTypeOK NoSocketLeak NothingAfterClose OneUnacknowledged
    AuthenticatedIsApproved WaitingIsListed AskedOnce PreAuthExact
    SilentWhenOff ShownPortServes QueuesFollow SentOnce UnwatchedIsTimed
    OneStreamAtOnce
PROPERTIES
    ImplementsByteStream StreamsSettle HandshakesEnd ChangesProceed ListensInTheEnd
    HoldsEnd OnlineSettles QueueDrains
CHECK_DEADLOCK FALSE
