---------------------------- MODULE WorkflowEditor ----------------------------
(***************************************************************************)
(* The list of workflows (WorkflowsOverview) and the dialog that edits one *)
(* of them (WorkflowDialog), as processes: what the user does, the         *)
(* requests under way, and their answers, which find the dialog as it is   *)
(* when they come: of another rule, closed, or with a form edited since.   *)
(*                                                                         *)
(* A rule that deletes torrents or changes their category is enabled only  *)
(* from a dialog that shows what it would do now. The same impact is shown *)
(* live, below the condition, for the form as it is.                       *)
(*                                                                         *)
(* The content of a form is one value here; WorkflowForm looks inside.     *)
(***************************************************************************)
EXTENDS Integers, FiniteSets

CONSTANTS
  Rules,       \* ids of rules
  Contents,    \* actions and condition of a rule
  Destructive, \* those that delete torrents or set their category
  Deletes,     \* those that delete torrents
  MaxGestures, \* bound: what the user does
  MaxLive,     \* bound: live previews under way at once
  MaxMishaps   \* bound: failing requests, customizations that change

ASSUME EditorAssumption ==
  /\ 0 \notin Rules /\ {"none", "empty"} \cap Contents = {}
  /\ Deletes \subseteq Destructive /\ Destructive \subseteq Contents
  /\ {MaxGestures, MaxLive, MaxMishaps} \subseteq Nat

VARIABLES
  saved,    \* the stored rules
  overview, \* the list that the overview shows
  listing,  \* the list is being fetched anew
  editor,   \* [open, target, base, form]: target 0 is a new rule
  prompt,   \* showDryRunPrompt
  prompted, \* rules for which a dry run was offered; 0 is the new rule
  confirm,  \* [show, loading, input, result, before]: the preview before saving
  enable,   \* [show, loading, rule, result]: the preview before enabling in the list
  live,     \* [loading, timer, result]: the live preview
  requests,
  gestures, faults

editorVars ==
  <<saved, overview, listing, editor, prompt, prompted, confirm, enable, live, requests,
    gestures, faults>>

NoForm == [content |-> "none", enabled |-> FALSE, dryRun |-> FALSE]
emptyForm == [NoForm EXCEPT !.content = "empty"]
Forms == {emptyForm} \cup [content : Contents \cup {"empty"}, enabled : BOOLEAN, dryRun : BOOLEAN]

NeedsPreview(f) == f.content \in Destructive
Active(f) == f.enabled /\ NeedsPreview(f)

\* latest: the hook's mutation shows this request's state. warned: it was
\* made from a dialog that showed a preview. sent: the server has yet to see it.
RuleRequest(kind, id, target, form, warned) ==
  [kind |-> kind, id |-> id, target |-> target, form |-> form, warned |-> warned,
   latest |-> TRUE, sent |-> TRUE]

Superseded(R, kinds) == {IF r.kind \in kinds THEN [r EXCEPT !.latest = FALSE] ELSE r : r \in R}
mutate(R, r) == Superseded(R, {r.kind}) \cup {r}
isPending(kind) == \E r \in requests : r.kind = kind /\ r.latest

\* Dialogs are modal: what is below them cannot be used.
AtOverview == ~editor.open /\ ~confirm.show /\ ~enable.show
AtForm == editor.open /\ ~confirm.show /\ ~prompt
Act == gestures < MaxGestures /\ gestures' = gestures + 1
Fault(ok) == ok \/ faults < MaxMishaps
FaultCount(ok) == faults' = IF ok THEN faults ELSE faults + 1

EditorInit ==
  /\ saved \in [Rules -> {NoForm} \cup [content : Contents, enabled : BOOLEAN, dryRun : {FALSE}]]
  /\ overview = saved /\ listing = FALSE
  /\ editor = [open |-> FALSE, target |-> 0, base |-> NoForm, form |-> emptyForm]
  /\ prompt = FALSE /\ prompted = {}
  /\ confirm = [show |-> FALSE, loading |-> FALSE, input |-> NoForm, result |-> NoForm, before |-> {}]
  /\ enable = [show |-> FALSE, loading |-> FALSE, target |-> 0, rule |-> NoForm, result |-> NoForm]
  /\ live = [loading |-> FALSE, timer |-> NoForm, result |-> NoForm]
  /\ requests = {} /\ gestures = 0 /\ faults = 0

(***************************************************************************)
(* The live preview follows each change of the form or of the dialog: a    *)
(* request under way is outdated at once, a new one is made after a delay. *)
(***************************************************************************)
LivePayload(d) == IF d.open /\ NeedsPreview(d.form) THEN d.form ELSE NoForm

\* Mutant: without the count of requests, an answer under way counts when it comes.
FollowUncounted(d, R) ==
  /\ editor' = d
  /\ live' = [loading |-> LivePayload(d) # NoForm, timer |-> LivePayload(d),
              result |-> IF LivePayload(d) = NoForm THEN NoForm ELSE live.result]
  /\ requests' = R

Follow(d, R) ==
  /\ editor' = d
  /\ live' = [loading |-> LivePayload(d) # NoForm, timer |-> LivePayload(d),
              result |-> IF LivePayload(d) = NoForm THEN NoForm ELSE live.result]
  /\ requests' = Superseded(R, {"live"})

LiveSend ==
  /\ live.timer # NoForm /\ Cardinality({r \in requests : r.kind = "live"}) < MaxLive
  /\ live' = [live EXCEPT !.timer = NoForm]
  /\ requests' = requests \cup {RuleRequest("live", gestures, 0, live.timer, FALSE)}
  /\ UNCHANGED <<saved, overview, listing, editor, prompt, prompted, confirm, enable, gestures, faults>>

LiveAnswer(r, ok) ==
  /\ r.kind = "live" /\ Fault(ok) /\ FaultCount(ok)
  /\ requests' = requests \ {r}
  /\ live' = IF ~r.latest THEN live
             ELSE [live EXCEPT !.loading = FALSE, !.result = IF ok THEN r.form ELSE NoForm]
  /\ UNCHANGED <<saved, overview, listing, editor, prompt, prompted, confirm, enable, gestures>>

(***************************************************************************)
(* Opening: the form is taken from the rule as the list shows it.          *)
(***************************************************************************)
Hydrated(base) == IF base = NoForm THEN emptyForm ELSE base

OpenDialog(target, base) ==
  /\ AtOverview /\ Act
  /\ Follow([open |-> TRUE, target |-> target, base |-> base, form |-> Hydrated(base)], requests)
  /\ prompted' = IF target = 0 THEN prompted \ {0}
                 ELSE IF base.enabled THEN prompted \cup {target} ELSE prompted
  /\ UNCHANGED <<saved, overview, listing, prompt, confirm, enable, faults>>

openEditDialog(id) == overview[id] # NoForm /\ OpenDialog(id, overview[id])
openCreateDialog == OpenDialog(0, NoForm)

\* The names of trackers have changed: the hydration effect runs again.
CustomizationsChange ==
  /\ editor.open /\ Fault(FALSE) /\ FaultCount(FALSE)
  /\ Follow([editor EXCEPT !.form = Hydrated(editor.base)], requests)
  /\ UNCHANGED <<saved, overview, listing, prompt, prompted, confirm, enable, gestures>>

Closed(d) == [d EXCEPT !.open = FALSE]

CloseDialog ==
  /\ AtForm /\ Act
  /\ Follow(Closed(editor), requests)
  /\ UNCHANGED <<saved, overview, listing, prompt, prompted, confirm, enable, faults>>

EditContent(c) ==
  /\ AtForm /\ Act /\ c # editor.form.content
  /\ LET starts == c \in Deletes /\ editor.form.content \notin Deletes /\ editor.target = 0
     IN  Follow([editor EXCEPT !.form.content = c, !.form.enabled = @ /\ ~starts], requests)
  /\ UNCHANGED <<saved, overview, listing, prompt, prompted, confirm, enable, faults>>

(***************************************************************************)
(* The switch that enables the rule.                                       *)
(***************************************************************************)
applyEnabledChange(checked, force) ==
  LET f == [editor.form EXCEPT !.enabled = checked, !.dryRun = @ \/ force]
  IN  IF checked /\ NeedsPreview(f)
      THEN /\ confirm' = [confirm EXCEPT !.show = TRUE, !.loading = TRUE, !.result = NoForm,
                                         !.before = {editor.form.enabled}]
           /\ Follow([editor EXCEPT !.form = f],
                     mutate(requests, RuleRequest("preview", gestures, editor.target, f, FALSE)))
      ELSE /\ confirm' = confirm
           /\ Follow([editor EXCEPT !.form = f], requests)

handleEnabledToggle ==
  /\ AtForm /\ Act
  /\ LET checked == ~editor.form.enabled
     IN  IF checked /\ ~editor.form.dryRun /\ editor.target \notin prompted
         THEN prompt' = TRUE /\ UNCHANGED <<editor, live, requests, confirm>>
         ELSE prompt' = FALSE /\ applyEnabledChange(checked, FALSE)
  /\ UNCHANGED <<saved, overview, listing, prompted, enable, faults>>

DryRunPrompt(force) ==
  /\ editor.open /\ prompt /\ prompt' = FALSE
  /\ prompted' = prompted \cup {editor.target}
  /\ applyEnabledChange(TRUE, force)
  /\ UNCHANGED <<saved, overview, listing, enable, gestures, faults>>

DryRunPromptCancel ==
  /\ prompt /\ prompt' = FALSE
  /\ UNCHANGED <<saved, overview, listing, editor, prompted, confirm, enable, live, requests, gestures, faults>>

(***************************************************************************)
(* Submit. An enabled rule has its patterns checked by the server first;   *)
(* what follows goes by the form as it was when Submit was clicked, and by *)
(* the rule that the dialog shows when the answer is there.                *)
(***************************************************************************)
StartPreview(R, id, f) ==
  /\ confirm' = [confirm EXCEPT !.show = TRUE, !.loading = TRUE, !.result = NoForm]
  /\ requests' = mutate(R, RuleRequest("preview", id, editor.target, f, FALSE))

createOrUpdate(R, id, f, warned) ==
  requests' = mutate(R, RuleRequest("save", id, editor.target, f, warned))

\* Mutant: only a rule that is not enabled yet is previewed.
AfterValidationOnce(R, id, f) ==
  IF Active(f) /\ ~editor.base.enabled THEN StartPreview(R, id, f)
  ELSE confirm' = confirm /\ createOrUpdate(R, id, f, FALSE)

AfterValidation(R, id, f) ==
  IF Active(f) THEN StartPreview(R, id, f)
  ELSE confirm' = confirm /\ createOrUpdate(R, id, f, FALSE)

handleSubmit ==
  /\ AtForm /\ Act /\ ~isPending("save") /\ ~isPending("preview")
  /\ editor.form.content # "empty"
  /\ IF editor.form.enabled
     THEN /\ requests' = requests \cup {RuleRequest("regex", gestures, 0, editor.form, FALSE)}
          /\ confirm' = confirm
     ELSE AfterValidation(requests, gestures, editor.form)
  /\ UNCHANGED <<saved, overview, listing, editor, prompt, prompted, enable, live, faults>>

\* Patterns that are not valid end it; a failing check does not.
RegexAnswer(r, valid) ==
  /\ r.kind = "regex" /\ Fault(valid) /\ FaultCount(valid)
  /\ IF valid THEN AfterValidation(requests \ {r}, r.id, r.form)
     ELSE requests' = requests \ {r} /\ confirm' = confirm
  /\ UNCHANGED <<saved, overview, listing, editor, prompt, prompted, enable, live, gestures>>

PreviewAnswer(r, ok) ==
  /\ r.kind = "preview" /\ Fault(ok) /\ FaultCount(ok)
  /\ confirm' = IF ok THEN [confirm EXCEPT !.input = r.form, !.result = r.form, !.loading = FALSE]
                ELSE [confirm EXCEPT !.loading = FALSE, !.show = FALSE]
  /\ requests' = requests \ {r}
  /\ UNCHANGED <<saved, overview, listing, editor, prompt, prompted, enable, live, gestures>>

\* Closing the preview puts the switch back to where it was.
ClosePreview(R) ==
  /\ confirm' = [confirm EXCEPT !.show = FALSE, !.loading = FALSE, !.input = NoForm,
                                !.result = NoForm, !.before = {}]
  /\ IF confirm.before = {} THEN requests' = R /\ UNCHANGED <<editor, live>>
     ELSE Follow([editor EXCEPT !.form.enabled = TRUE \in confirm.before], R)

ConfirmCancel ==
  /\ confirm.show /\ ClosePreview(requests)
  /\ UNCHANGED <<saved, overview, listing, prompt, prompted, enable, gestures, faults>>

\* The button that confirms also closes the dialog. What is saved is the form.
handleConfirmSave ==
  /\ confirm.show /\ ~confirm.loading /\ ~isPending("save")
  /\ LET r == RuleRequest("save", gestures, editor.target, editor.form, confirm.result # NoForm)
     IN  ClosePreview(mutate(requests, r))
  /\ UNCHANGED <<saved, overview, listing, prompt, prompted, enable, gestures, faults>>

(***************************************************************************)
(* The server stores a rule; the answer closes whatever dialog is open.    *)
(***************************************************************************)
FreeIds == {id \in Rules : saved[id] = NoForm}

ServeRule(r) ==
  /\ r.kind \in {"save", "toggle"} /\ r.sent
  /\ IF r.target # 0 THEN saved' = [saved EXCEPT ![r.target] = r.form]
     ELSE \E id \in FreeIds : saved' = [saved EXCEPT ![id] = r.form]
  /\ requests' = (requests \ {r}) \cup {[r EXCEPT !.sent = FALSE]}
  /\ UNCHANGED <<overview, listing, editor, prompt, prompted, confirm, enable, live, gestures, faults>>

SaveSuccess(r) ==
  /\ r.kind = "save" /\ ~r.sent
  /\ confirm' = [confirm EXCEPT !.show = FALSE, !.result = NoForm, !.input = NoForm]
  /\ Follow(Closed(editor), requests \ {r})
  /\ prompt' = FALSE /\ listing' = TRUE
  /\ UNCHANGED <<saved, overview, prompted, enable, gestures, faults>>

\* The request fails before or after the server has stored the rule.
MutationError(r) ==
  /\ r.kind \in {"save", "toggle"} /\ Fault(FALSE) /\ FaultCount(FALSE)
  /\ requests' = requests \ {r}
  /\ UNCHANGED <<saved, overview, listing, editor, prompt, prompted, confirm, enable, live, gestures>>

ListAnswer ==
  /\ listing /\ listing' = FALSE /\ overview' = saved
  /\ UNCHANGED <<saved, editor, prompt, prompted, confirm, enable, live, requests, gestures, faults>>

(***************************************************************************)
(* The switch of a rule in the list sends the rule as the list shows it.   *)
(***************************************************************************)
Toggled(f) == [f EXCEPT !.enabled = ~@]

handleToggle(id) ==
  /\ AtOverview /\ Act /\ overview[id] # NoForm
  /\ ~isPending("toggle") /\ ~isPending("enablePreview")
  /\ IF ~overview[id].enabled /\ NeedsPreview(overview[id])
     THEN /\ enable' = [show |-> TRUE, loading |-> TRUE, target |-> id, rule |-> overview[id], result |-> NoForm]
          /\ requests' = mutate(requests, RuleRequest("enablePreview", gestures, id, overview[id], FALSE))
     ELSE /\ enable' = enable
          /\ requests' = mutate(requests, RuleRequest("toggle", gestures, id, Toggled(overview[id]), FALSE))
  /\ UNCHANGED <<saved, overview, listing, editor, prompt, prompted, confirm, live, faults>>

EnableAnswer(r, ok) ==
  /\ r.kind = "enablePreview" /\ Fault(ok) /\ FaultCount(ok)
  /\ enable' = IF ~enable.show THEN enable
               ELSE IF ok THEN [enable EXCEPT !.result = r.form, !.loading = FALSE]
               ELSE [enable EXCEPT !.show = FALSE]
  /\ requests' = requests \ {r}
  /\ UNCHANGED <<saved, overview, listing, editor, prompt, prompted, confirm, live, gestures>>

EnableCancel ==
  /\ enable.show /\ enable' = [enable EXCEPT !.show = FALSE]
  /\ UNCHANGED <<saved, overview, listing, editor, prompt, prompted, confirm, live, requests, gestures, faults>>

confirmEnableRule ==
  /\ enable.show /\ ~enable.loading /\ ~isPending("toggle")
  /\ enable' = [enable EXCEPT !.show = FALSE]
  /\ requests' = mutate(requests, RuleRequest("toggle", gestures, enable.target, Toggled(enable.rule),
                                          enable.result # NoForm))
  /\ UNCHANGED <<saved, overview, listing, editor, prompt, prompted, confirm, live, gestures, faults>>

ToggleSuccess(r) ==
  /\ r.kind = "toggle" /\ ~r.sent
  /\ requests' = requests \ {r} /\ listing' = TRUE
  /\ UNCHANGED <<saved, overview, editor, prompt, prompted, confirm, enable, live, gestures, faults>>

Overview ==
  \/ openCreateDialog \/ EnableCancel \/ confirmEnableRule \/ ListAnswer
  \/ \E id \in Rules : openEditDialog(id) \/ handleToggle(id)

Dialog ==
  \/ CloseDialog \/ (\E c \in Contents : EditContent(c)) \/ CustomizationsChange
  \/ handleEnabledToggle \/ (\E force \in BOOLEAN : DryRunPrompt(force)) \/ DryRunPromptCancel
  \/ handleSubmit \/ ConfirmCancel \/ handleConfirmSave \/ LiveSend

Answers ==
  \E r \in requests :
    \/ ServeRule(r) \/ SaveSuccess(r) \/ ToggleSuccess(r) \/ MutationError(r)
    \/ \E ok \in BOOLEAN : \/ RegexAnswer(r, ok) \/ PreviewAnswer(r, ok)
                           \/ EnableAnswer(r, ok) \/ LiveAnswer(r, ok)

EditorNext == Overview \/ Dialog \/ Answers

EditorSpec == EditorInit /\ [][EditorNext]_editorVars

-----------------------------------------------------------------------------
(***************************************************************************)
(* Rules, forms and requests are what they are said to be; one dialog over *)
(* the list at a time.                                                     *)
(***************************************************************************)
EditorTypeOK ==
  /\ saved \in [Rules -> Forms \cup {NoForm}] /\ overview \in [Rules -> Forms \cup {NoForm}]
  /\ editor.form \in Forms /\ editor.target \in Rules \cup {0}
  /\ confirm.before \subseteq BOOLEAN /\ ~(editor.open /\ enable.show)
  /\ \A r \in requests : r.form \in Forms /\ r.target \in Rules \cup {0}

(***************************************************************************)
(* No request that makes a rule delete torrents or change their category   *)
(* is on its way unless it was made from a dialog that showed a preview:   *)
(* by no order of edits, switches, answers and failures, in the list or in *)
(* the dialog, and not with a list that is out of date either.             *)
(***************************************************************************)
NoSilentActivation ==
  \A r \in requests : r.kind \in {"save", "toggle"} /\ Active(r.form) => r.warned

(***************************************************************************)
(* The live preview, when it is not marked as being updated, shows what    *)
(* the form as it is now would do, or nothing.                             *)
(***************************************************************************)
LivePreviewCurrent ==
  ~live.loading /\ live.result # NoForm => live.result = LivePayload(editor)

(***************************************************************************)
(* The last warning before a rule is enabled is about the rule that is     *)
(* enabled: what the preview shows is what confirming it saves.            *)
(***************************************************************************)
ConfirmMatchesPreview ==
  /\ confirm.show /\ ~confirm.loading => confirm.result.content = editor.form.content
  /\ enable.show /\ ~enable.loading => enable.result.content = enable.rule.content
=============================================================================
