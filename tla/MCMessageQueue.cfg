SPECIFICATION FairSpec
CONSTANTS
  chatA = chatA
  o1 = o1
  o2 = o2
  Chats <- OneChat
  QStates <- TwoObjects
  NoState = NoState
  NumMsgs = 3
  QueueCap = 2
INVARIANTS
  AccountedInOrder
  HandledOnce
  NothingStranded
PROPERTIES
  ClearedTurnIsInert
  DrainLosesNothing
  KeepsCustody
