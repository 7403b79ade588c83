SPECIFICATION FairSpec
CONSTANTS
  Conn = {1}
  MAX_FRAG_SIZE = 2
  MAX_FRAGMENTS = 4
  AES_BLOCK_SIZE = 4
  PktIds = 3
  SentValues = 6
  Counting = {TRUE, FALSE}
  HostIds = {0, 1, 2}
  HostLens = {4, 5, 8, 10}
  RspLens = {4, 8}
  MaxMessages = 3
  MaxAsked = 0
INVARIANTS RecvdAccounts
PROPERTIES ImplementsExchange 
