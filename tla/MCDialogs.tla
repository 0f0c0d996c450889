------------------------------ MODULE MCDialogs ------------------------------
(***************************************************************************)
(* The dialogs of the web client that are modelled: the cross-seed search, *)
(* the form of a workflow and the list of workflows with its editor. One   *)
(* of them is in use; the others rest where they began.                    *)
(***************************************************************************)
EXTENDS MCCrossSeedSearch, WorkflowForm, WorkflowEditor

VARIABLE part \* "search", "form", "editor"

dialogVars == <<part, vars, formVars, editorVars>>

\* The rules of a part that is not in use do not matter.
DialogsInit ==
  /\ Init /\ FormInit /\ EditorInit
  /\ part \in {"search", "form", "editor"}
  /\ part # "form" => rule = {} /\ known /\ customs
  /\ access
  /\ part # "editor" => saved[1] = NoForm

DialogsNext ==
  /\ part' = part
  /\ \/ part = "search" /\ Next /\ UNCHANGED <<formVars, editorVars>>
     \/ part = "form" /\ FormNext /\ UNCHANGED <<vars, editorVars>>
     \/ part = "editor" /\ EditorNext /\ UNCHANGED <<vars, formVars>>

InSearch(A) == part = "search" /\ A

DialogsSpec ==
  /\ DialogsInit /\ [][DialogsNext]_dialogVars
  /\ WF_vars(InSearch(\E i \in Slots : pollForUpdates(i)))
  /\ \A i \in Slots : WF_vars(InSearch(Serve(i))) /\ WF_vars(InSearch(Deliver(i)))
  /\ \A t \in Torrents : WF_vars(InSearch(performAsyncContentFiltering(t)))

-----------------------------------------------------------------------------
\* Each part's variables are what the part says of them (the three TypeOK).
DialogsTypeOK == TypeOK /\ FormTypeOK /\ EditorTypeOK
=============================================================================
