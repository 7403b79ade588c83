SPECIFICATION Spec
CONSTANTS
  Conn = {1, 2}
  MAX_FRAG_SIZE = 2
  MAX_FRAGMENTS = 2
  AES_BLOCK_SIZE = 4
  PktIds = 3
  SentValues = 4
  Counting = {TRUE}
  HostIds = {1, 2}
  HostLens = {3, 4}
  RspLens = {4}
  MaxMessages = 3
  MaxAsked = 2
INVARIANTS SentWithinReply
