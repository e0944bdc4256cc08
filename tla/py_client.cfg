SPECIFICATION FairSpec
CONSTANTS
  b1 = b1
  b2 = b2
  g1 = g1
  Buddies <- TwoBuddies
  Groups <- OneGroup
  None = None
  Forms <- WrongThenRight
  MaxPush <- Pushes
  Chats = {g1}
  MaxSend = 2
  MaxExit = 1
INVARIANTS BuddiesComplete InOrder OneWaits ReceiverWakes
PROPERTIES ExitEnds LoginTold
CHECK_DEADLOCK FALSE
