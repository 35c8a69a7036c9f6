\* A walk of two candidates over a budget of three calls; two catalogs, one turn
\* and one refresh at a time; four chats of which the store keeps two.
SPECIFICATION AssistantSpec
CONSTANTS
  None = None
  Walk = 2
  Budget = 3
  MaxBatch = 2
  Unnamed = {2}
  Tables <- AllTables
  Turn = {t1}
  MaxReads = 1
  Chat = {a, b, c, d}
  NoChat = None
  Limit = 2
  MaxTurns = 2
SYMMETRY ChatSymmetry
INVARIANTS
  AnswerIsOneVoice
  TranscriptIsTrue
  WalkIsRight
PROPERTIES
  ChatsComeAndGoAsMeant
CHECK_DEADLOCK FALSE
