-------------------------- MODULE MCSessionScreen --------------------------
(***************************************************************************)
(* The parts of an open session that share no state, each explored by      *)
(* itself: a behaviour is one of the part in focus, the others rest.       *)
(***************************************************************************)
EXTENDS Notebook, CellRuns, CellList, CellOutputs, Explain, Tools, RemoteFiles

VARIABLE focus

documentVars == <<notebookVars, cellVars, listVars, outputVars>>
helperVars == <<explainVars, toolVars, fileVars>>
screenVars == <<focus, documentVars, helperVars>>

ScreenInit ==
  /\ focus \in {"notebook", "runs", "list", "outputs", "explain", "tools", "files"}
  /\ NotebookInit /\ CellsInit /\ ListInit /\ OutputsInit /\ ExplainInit /\ ToolsInit /\ FilesInit
  /\ focus # "outputs" => outs = << >>
  /\ focus # "explain" => ~chat_busy
  /\ focus # "tools" => alive = {} /\ active_session_name = None
  /\ focus # "files" => view = "screen" /\ path = CHOOSE d \in Dir : TRUE

DocumentNext ==
  \/ focus = "notebook" /\ NotebookNext /\ UNCHANGED <<cellVars, listVars, outputVars>>
  \/ focus = "runs" /\ CellsNext /\ UNCHANGED <<notebookVars, listVars, outputVars>>
  \/ focus = "list" /\ ListNext /\ UNCHANGED <<notebookVars, cellVars, outputVars>>
  \/ focus = "outputs" /\ OutputsNext /\ UNCHANGED <<notebookVars, cellVars, listVars>>

HelperNext ==
  \/ focus = "explain" /\ ExplainNext /\ UNCHANGED <<toolVars, fileVars>>
  \/ focus = "tools" /\ ToolsNext /\ UNCHANGED <<explainVars, fileVars>>
  \/ focus = "files" /\ FilesNext /\ UNCHANGED <<explainVars, toolVars>>

ScreenNext ==
  \/ DocumentNext /\ UNCHANGED <<focus, helperVars>>
  \/ HelperNext /\ UNCHANGED <<focus, documentVars>>

ScreenSpec == ScreenInit /\ [][ScreenNext]_screenVars
=============================================================================
