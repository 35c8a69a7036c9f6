------------------------------ MODULE MCShell ------------------------------
(***************************************************************************)
(* The chat's approval gates, downloads, and the shell around the screens: *)
(* parts that share no state, each explored by itself.  A behaviour is one *)
(* of the part in focus, the others rest.                                  *)
(***************************************************************************)
EXTENDS ChatSession, Downloads, Background, Chrome, TLC

VARIABLE focus

shellVars == <<focus, vars, downloadVars, backgroundVars, chromeVars>>

ShellInit ==
  /\ focus \in {"chat", "downloads", "background", "chrome"}
  /\ Init /\ DownloadsInit /\ BackgroundInit /\ ChromeInit
  /\ focus # "downloads" => folder = {}

\* Bound: no chat is deleted, nor saved while it is empty.  MCChatSession has both.
NoTombstone == tombstones = {}

ShellNext ==
  \/ focus = "chat" /\ Next /\ NoTombstone'
     /\ UNCHANGED <<focus, downloadVars, backgroundVars, chromeVars>>
  \/ focus = "downloads" /\ DownloadsNext /\ UNCHANGED <<focus, vars, backgroundVars, chromeVars>>
  \/ focus = "background" /\ BackgroundNext /\ UNCHANGED <<focus, vars, downloadVars, chromeVars>>
  \/ focus = "chrome" /\ ChromeNext /\ UNCHANGED <<focus, vars, downloadVars, backgroundVars>>

ShellSpec == ShellInit /\ [][ShellNext]_shellVars

TurnSymmetry == Permutations(Turn)
=============================================================================
