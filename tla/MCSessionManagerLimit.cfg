SPECIFICATION Spec
CONSTANTS
  chatA = chatA
  chatB = chatB
  k1 = k1
  k2 = k2
  n1 = n1
  n2 = n2
  n3 = n3
  t1 = t1
  t2 = t2
  t3 = t3
  None = None
  Chats <- MCChats
  Starters <- MCStarters
  Sessions <- TwoSessions
  Transcripts <- TwoTranscripts
  MaxTeardowns = 2
  MaxConcurrentSessions = 1
  MaxCrashRestarts = 2
INVARIANTS
  WithinSessionLimit
VIEW Reachable
