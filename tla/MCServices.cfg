\* Two overlapping callers beside the status loop, two ports; a drive mount and a
\* cell that reads input, two prompts each.
SPECIFICATION ServicesSpec
CONSTANTS
  None = None
  Caller = {c1, c2}
  Watchdog = w
  Span = 2
  EngineSees <- AllPorts
  MaxCalls = 2
  MaxEvents = 2
  Job = {m, c}
  Dialogued = {m}
  Drive = {m}
  Tries = 2
  MaxAsks = 2
INVARIANTS
  
  AnswersAreTheirs
PROPERTIES
  StatusLoopLearns
  
CHECK_DEADLOCK FALSE
