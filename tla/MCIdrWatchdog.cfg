SPECIFICATION Spec
CONSTANTS
  h1 = h1
  w = w
  Handlers = {h1}
  Writer = w
  Sid = 1
  MaxStreams = 2
  MapItems <- MCItems
  MapLines <- MCLines
  MinReceived = 2
  RequestInterval = 3
  StallIdle = 2
  Backoff <- MCBackoff
  Horizon = 5
  MaxLag = 1
  MaxDecoded = 2
INVARIANT TypeOK
INVARIANT StartAsked
PROPERTY RequestsSpaced
PROPERTY StallIsReal
PROPERTY StallAnswered
