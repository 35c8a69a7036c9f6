------------------------------ MODULE MCWallet ------------------------------
(***************************************************************************)
(* What the user has paid for: the credits and the licence.  They share no *)
(* state; a behaviour is one of the part in focus, the other rests.        *)
(***************************************************************************)
EXTENDS Credits, Licence

VARIABLE focus

walletVars == <<focus, creditVars, vars>>

WalletInit ==
  /\ focus \in {"credits", "licence"} /\ CreditsInit /\ Init
  /\ focus # "credits" => ~premium

InCredits(A) == focus = "credits" /\ A /\ UNCHANGED <<focus, vars>>
InLicence(A) == focus = "licence" /\ A /\ UNCHANGED <<focus, creditVars>>

WalletNext == InCredits(CreditsNext) \/ InLicence(Next)

\* The fairness of CreditsFairSpec and of FairSpec, of the part in focus.
WalletFairness ==
  /\ WF_walletVars(InCredits(Tick)) /\ WF_walletVars(InCredits(sweep_expired_holds))
  /\ WF_walletVars(InLicence(reconcile)) /\ WF_walletVars(InLicence(Reconciled))
  /\ WF_walletVars(InLicence(Serve(Hourly))) /\ WF_walletVars(InLicence(Retry(Hourly)))

WalletSpec == WalletInit /\ [][WalletNext]_walletVars /\ WalletFairness
=============================================================================
