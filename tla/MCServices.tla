----------------------------- MODULE MCServices -----------------------------
(***************************************************************************)
(* The model router and the prompts of running kernels, which share no     *)
(* state, each explored by itself: the one not in focus rests.             *)
(***************************************************************************)
EXTENDS Router, KernelPrompts

VARIABLE focus

serviceVars == <<focus, vars, promptVars>>

ServicesInit == focus \in {"router", "prompts"} /\ Init /\ PromptsInit

InRouter(A) == focus = "router" /\ A /\ UNCHANGED <<focus, promptVars>>
InPrompts(A) == focus = "prompts" /\ A /\ UNCHANGED <<focus, vars>>

ServicesNext == InRouter(Next) \/ InPrompts(PromptsNext)

\* Fairness of the router and PromptsFairness, of the part in focus.
ServicesFairness ==
  /\ WF_serviceVars(InRouter(Boot)) /\ WF_serviceVars(InRouter(Tick)) /\ WF_serviceVars(InRouter(Look))
  /\ WF_serviceVars(InRouter(LookScan)) /\ WF_serviceVars(InRouter(MissExpires))
  /\ \A c \in Process : WF_serviceVars(InRouter(Waits(c)))
  /\ WF_serviceVars(InPrompts(PageStep))
  /\ \A j \in Job : WF_serviceVars(InPrompts(ThreadStep(j)))

ServicesSpec == ServicesInit /\ [][ServicesNext]_serviceVars /\ ServicesFairness

\* As LoopLearnsTheTruth, while the router is in focus.
StatusLoopLearns == focus = "router" => LoopLearnsTheTruth

AllPorts == 1..Span
=============================================================================
