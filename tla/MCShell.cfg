\* Two turns that each open one approval gate, in one chat or across two; two
\* downloads of a folder of two entries; two sessions for the phone, one for the shell.
SPECIFICATION ShellSpec
CONSTANTS
  None = None
  Turn = {k1, k2}
  Chat = {c1, c2}
  FirstChat = c1
  Deletable = {}
  Download = {w1, w2}
  Entry = {e, f2}
  MaxChanges = 2
  Runtime = {m1, m2}
  Section = {home}
  Home = home
  Opening = {"notebook"}
  MaxEchoes = 2
  MaxCalls = 2
  Openable = {m1}
  MaxEffects = 3
SYMMETRY TurnSymmetry
INVARIANTS
  GateHonoured
  
  PhoneFollowsSession
  
CHECK_DEADLOCK FALSE
