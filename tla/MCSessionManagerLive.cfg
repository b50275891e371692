SPECIFICATION FairSpec
CONSTANTS
  chatA = chatA
  chatB = chatB
  k1 = k1
  k2 = k2
  n1 = n1
  n2 = n2
  n3 = n3
  t1 = t1
  t2 = t2
  t3 = t3
  None = None
  Chats <- OneChat
  Starters <- OneStarter
  Sessions <- TwoSessions
  Transcripts <- TwoTranscripts
  MaxTeardowns = 1
  MaxConcurrentSessions = 1
  MaxCrashRestarts = 1
PROPERTIES
  StartupsSettle
  ClosingEnds
VIEW Reachable
