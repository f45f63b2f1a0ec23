CONSTANTS
  Account = {a1, a2}
  None = None
  Response = {1, 2, 3}
  Starting = {a1}
  RetryMax = 1
  MaxKeepalives = 2
  MaxRounds = 1
  MaxLines = 3
SPECIFICATION FairSpec
INVARIANTS
  RetriesItsConversation
  OneVoice
  BodiesClosed
PROPERTIES
  ReplyAsPromised
  InterruptedIsNoFinish
  EveryReplyEnds
CHECK_DEADLOCK FALSE
