\* WebServer: two connections, two requests each and three in all; one client pipelines.
CONSTANTS
  Clients = {p, q}
  Patient = {p}
  NoLength = NoLength
  BadLength = BadLength
  Requests <- MCRequests
  MaxRequests = 2
  MaxInAll = 3
  SizeMod = 64
  USER_LIMIT = 2
  MaxFd = 2
  MaxConns = 3
  MaxTexts = 2
  Streams <- MCStreams
  READ_BUFFER_SIZE = 12
  ContentLength = 3
SPECIFICATION MCSpec
INVARIANTS EntriesInv AnyChunking
PROPERTIES ImplementsExchange EveryRequestAnswered EveryClientAccepted NobodyForgotten
\* Clients may have nothing more to ask.
CHECK_DEADLOCK FALSE
