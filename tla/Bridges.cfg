SPECIFICATION BridgesSpec
CONSTANTS
  Bridges = {"voice", "playback", "discord", "whatsapp", "terminal"}
  Members = {u1}
  LiveChannels = {ch1}
  MaxSessions = 1
  QueueCapacity = 1
  MaxMoves = 2
  MaxFailures = 1
  NoChannel = NoChannel
  NoCall = NoCall
  ChannelCapacity = 2
  MaxBuffered = 3
  MaxPadding = 1
  MaxChunks = 2
  MaxPackets = 2
  DMChannels = {d1}
  GuildChannels = {g}
  TextMessages = {m1, m2, m3}
  MaxTextFailures = 1
  NoRun = NoRun
  NoRow = NoRow
  Chats = {c}
  Inbound = {w1, w2}
  MaxReplies = 2
  MaxParts = 1
  MaxWaFailures = 1
  NoChat = NoChat
  NoAgentRun = NoAgentRun
  ChannelSize = 1
  ViewHeights = {2}
  MaxSubmits = 2
  MaxPieces = 2
  MaxCancels = 1
  MaxScrolls = 1
  Budget = 4
INVARIANTS
  BridgesTypeOK BridgesDeliver ChatIsRight
PROPERTIES
  EndIsLastStatus ShutdownsFinish
CHECK_DEADLOCK FALSE
