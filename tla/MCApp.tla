------------------------------- MODULE MCApp -------------------------------
(***************************************************************************)
(* Two parts of the application that share no state, each explored by      *)
(* itself: a behaviour is one of the part in focus, the other rests.       *)
(***************************************************************************)
EXTENDS SignIn, Ads

VARIABLE focus

appVars == <<focus, signVars, adVars>>

AppInit ==
  /\ focus \in {"sign_in", "ads"}
  /\ SignInInit /\ AdsInit
  /\ focus # "sign_in" => task[CHOOSE t \in Task : TRUE].at = "lock"
  /\ focus # "ads" => interstitial = CHOOSE a \in Ad : TRUE

InSignIn(A) == focus = "sign_in" /\ A /\ UNCHANGED <<focus, adVars>>
InAds(A) == focus = "ads" /\ A /\ UNCHANGED <<focus, signVars>>

AppNext == InSignIn(SignInNext) \/ InAds(AdsNext)

\* SignInFairness and AdsFairness, of the part in focus.
AppFairness ==
  /\ \A t \in Task : WF_appVars(InSignIn(TaskStep(t)))
  /\ WF_appVars(InAds(ShowStep))
  /\ \A a \in Ad : WF_appVars(InAds(Platform(a)))

AppSpec == AppInit /\ [][AppNext]_appVars /\ AppFairness

\* As SplashEnds and QueueIsEmptied, while their part is in focus.
SplashAlwaysEnds == focus = "sign_in" => SplashEnds
=============================================================================
