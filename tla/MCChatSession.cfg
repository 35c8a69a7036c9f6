\* Two turns, two chats switched, deleted and reopened at any time.
SPECIFICATION FairSpec
CONSTANTS
  Turn = {k1, k2}
  Chat = {c1, c2}
  FirstChat = c1
  None = None
  Deletable = {c1, c2}
INVARIANTS
  BusyHasTask
  FilesHoldTheirOwn
PROPERTIES
  ComposerFrees
CHECK_DEADLOCK FALSE
