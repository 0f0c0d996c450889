---------------------------- MODULE WorkflowForm ----------------------------
(***************************************************************************)
(* The form of the workflow editor (WorkflowDialog): what a stored rule    *)
(* becomes when it is opened, the edits that the controls allow, the       *)
(* effects that correct a form behind the user's back, what is sent when   *)
(* it is saved, and what the server takes (AutomationHandler).             *)
(*                                                                         *)
(* A rule is saved along two paths. Submit checks every action. The switch *)
(* that enables a delete or category rule leads, through its preview, to a *)
(* save that checks only the source of the free space.                     *)
(*                                                                         *)
(* A value that may be undefined is a set of at most one value. Names,     *)
(* tags and the paths of a move are only known to be there or not; a path  *)
(* for the free space is one the server takes ("clean") or not ("odd": not *)
(* absolute, or with ".."). Of the fields of a condition at most one       *)
(* matters: the free space, a group of the rule's own, or a field that     *)
(* needs access to the files. Groups defined by the user are one group.    *)
(***************************************************************************)
EXTENDS Integers, Sequences, FiniteSets, SequencesExt, Keeping

CONSTANTS
  PathSupported, \* the server can read the free space of a path: not Windows
  Domains,       \* the domains of trackers
  Customizations, \* of trackers: each is the domains it joins under one name
  Combinable,    \* the actions offered, without delete
  Amounts,       \* what the user types for a limit
  MaxEdits       \* bound: edits of the form and switches of the access, together

ASSUME FormAssumption ==
  /\ PathSupported \in BOOLEAN
  /\ "*" \notin Domains /\ Customizations \subseteq SUBSET Domains
  /\ \A c, d \in Customizations : c = d \/ c \cap d = {}
  /\ "delete" \notin Combinable /\ IsFiniteSet(Combinable)
  /\ Amounts \subseteq Nat /\ MaxEdits \in Nat

VARIABLES
  rule,    \* the stored rule, as a set of at most one
  mine,    \* history: the rule was stored by this dialog
  isOpen,  \* the dialog is open
  form,    \* formState
  known,   \* the capabilities of the instance have arrived
  customs, \* the customizations of the trackers have arrived
  access,  \* hasLocalFilesystemAccess of the instance
  touched, \* history: the form was edited since it was hydrated
  cold,    \* history: it was hydrated while the capabilities were under way
  edits

read     == <<known, customs, access>>
formVars == <<rule, mine, isOpen, form, read, touched, cold, edits>>

Actions == Combinable \cup {"delete"}
Speeds  == {"upload", "download"}
Shares  == {"ratio", "seedingTime"}
Opt(p, v) == IF p THEN {v} ELSE {}
The(o, default) == IF o = {} THEN default ELSE CHOOSE v \in o : TRUE

NoChange == [mode |-> "no_change", value |-> {}]
createDefaultTagAction == [tags |-> FALSE, replace |-> FALSE, tracker |-> FALSE, display |-> FALSE]

emptyFormState ==
  [name     |-> FALSE,
   trackers |-> {},         \* {"*"} for all
   grouping |-> FALSE,      \* a group of the rule's own is defined
   cond     |-> "none", on |-> {}, enabled |-> FALSE, dryRun |-> FALSE,
   interval |-> {},         \* seconds; none is the default of the server
   limits   |-> [l \in Speeds \cup Shares |-> NoChange],
   manage   |-> TRUE,       \* autoManageMode
   mode     |-> "preserve", hardlinks |-> FALSE, group |-> {},
   source   |-> "qbittorrent", sourcePath |-> {},
   tags     |-> <<createDefaultTagAction>>,
   category |-> {}, crossSeeds |-> FALSE, block |-> FALSE,
   movePath |-> FALSE, moveBlock |-> FALSE, program |-> FALSE,
   sort     |-> "default", down |-> FALSE, scores |-> <<>>]

(***************************************************************************)
(* What is sent. An action of which a needed part is missing is left out,  *)
(* and so is every setting of an action that is off.                       *)
(***************************************************************************)
Amount(l, x) ==
  CASE x.mode = "unlimited" -> {IF l \in Speeds THEN 0 ELSE -1}
    [] x.mode = "global"    -> {-2}
    [] x.mode = "custom"    -> x.value
    [] OTHER                -> {}

ActionOf(l) == IF l \in Speeds THEN "speedLimits" ELSE "shareLimits"

TagActions == [tags : BOOLEAN, replace : BOOLEAN, tracker : BOOLEAN, display : BOOLEAN]

SentTags(f) == IF "tag" \notin f.on THEN <<>>
               ELSE Keep(f.tags, {t \in TagActions : t.tracker \/ t.tags})

Sent(f) == {a \in f.on : /\ a = "tag" => SentTags(f) # <<>>
                         /\ a = "move" => f.movePath
                         /\ a = "externalProgram" => f.program}

\* Of a score rule: its score is a number, and it has lost its condition.
ScoreRules == [number : BOOLEAN, bare : BOOLEAN]
NewScore   == [number |-> TRUE, bare |-> FALSE]

SentScores(f) == IF f.sort = "score" THEN Keep(f.scores, {s \in ScoreRules : ~s.bare}) ELSE <<>>

buildPayload(f) ==
  LET on(a) == a \in Sent(f)
  IN  [name     |-> f.name, trackers |-> f.trackers, grouping |-> f.grouping,
       enabled  |-> f.enabled, dryRun |-> f.dryRun, interval |-> f.interval,
       actions  |-> Sent(f),
       cond     |-> IF Sent(f) = {} THEN "none" ELSE f.cond,
       limits   |-> [l \in Speeds \cup Shares |->
                       IF on(ActionOf(l)) THEN Amount(l, f.limits[l]) ELSE {}],
       manage   |-> Opt(on("autoManagement"), f.manage),
       delete   |-> Opt(on("delete"), [mode |-> f.mode, group |-> f.group,
                                       hardlinks |-> f.mode = "include" /\ f.hardlinks]),
       tags     |-> SentTags(f),
       category |-> Opt(on("category"), [name |-> f.category, crossSeeds |-> f.crossSeeds,
                                         block |-> f.block]),
       move     |-> Opt(on("move"), f.moveBlock),
       source   |-> IF f.source = "path" THEN f.sourcePath ELSE {},
       sorting  |-> Opt(f.sort # "default",
                        [type |-> f.sort, down |-> f.down,
                         scores |-> SentScores(f)])]

\* buildPayload throws when a score that is sent is not a number.
Builds(f) == \A i \in DOMAIN SentScores(f) : SentScores(f)[i].number

(***************************************************************************)
(* The form of a stored rule.                                              *)
(***************************************************************************)
\* Mutant: a limit of 0 is taken for no limit.
hydrateLimitTruthy(l, v) ==
  IF v \in {{}, {0}} THEN NoChange ELSE [mode |-> "custom", value |-> v]

hydrateLimit(l, v) ==
  CASE v = {} -> NoChange
    [] v = {IF l \in Speeds THEN 0 ELSE -1} -> [mode |-> "unlimited", value |-> {}]
    [] v = {-2} -> [mode |-> "global", value |-> {}]
    [] OTHER -> [mode |-> "custom", value |-> v]

\* With the customizations (merge), a domain stands for all domains of its customization.
mapDomainsToOptionValues(S, merge) ==
  IF merge THEN S \cup UNION {c \in Customizations : c \cap S # {}} ELSE S

Hydrate(p, merge) ==
  LET del  == The(p.delete, [mode |-> "preserve", group |-> {}, hardlinks |-> FALSE])
      cat  == The(p.category, [name |-> {}, crossSeeds |-> FALSE, block |-> FALSE])
      sort == The(p.sorting, [type |-> "default", down |-> FALSE, scores |-> <<>>])
  IN  [name     |-> p.name, trackers |-> mapDomainsToOptionValues(p.trackers, merge),
       grouping |-> p.grouping, cond |-> p.cond, on |-> p.actions,
       enabled  |-> p.enabled, dryRun |-> p.dryRun, interval |-> p.interval,
       limits   |-> [l \in Speeds \cup Shares |-> hydrateLimit(l, p.limits[l])],
       manage   |-> The(p.manage, TRUE),
       mode     |-> del.mode, hardlinks |-> del.hardlinks, group |-> del.group,
       source   |-> IF p.source # {} THEN "path" ELSE "qbittorrent", sourcePath |-> p.source,
       tags     |-> IF p.tags = <<>> THEN <<createDefaultTagAction>> ELSE p.tags,
       category |-> cat.name, crossSeeds |-> cat.crossSeeds, block |-> cat.block,
       movePath |-> p.move # {}, moveBlock |-> The(p.move, FALSE),
       program  |-> "externalProgram" \in p.actions,
       sort     |-> sort.type, down |-> sort.down, scores |-> sort.scores]

(***************************************************************************)
(* The effects that follow each change of the form. No path is taken for   *)
(* a source while the capabilities are under way. Opening has cleared      *)
(* isHydrating, in a microtask, before the effects see the opened form.    *)
(***************************************************************************)
supportsFreeSpacePathSource == known /\ PathSupported

\* Mutant: the effect that takes the mode back is missing.
SettledKeepingFiles(f) ==
  [f EXCEPT !.source = IF supportsFreeSpacePathSource THEN @ ELSE "qbittorrent"]

Settled(f) ==
  LET frees == "delete" \in f.on /\ f.cond = "free"
  IN  [f EXCEPT
         !.mode     = IF frees /\ @ = "delete" THEN "withFiles" ELSE @,
         !.interval = IF frees /\ @ = {60} THEN {300} ELSE @,
         !.source   = IF supportsFreeSpacePathSource THEN @ ELSE "qbittorrent"]

(***************************************************************************)
(* What Submit asks for, and what the server asks for.                     *)
(***************************************************************************)
validateFreeSpaceSource(f) ==
  f.cond = "free" /\ f.source = "path" =>
    supportsFreeSpacePathSource /\ access /\ f.sourcePath # {}

validateTagActions(tags) ==
  /\ tags # <<>>
  /\ \A i \in DOMAIN tags : /\ ~(tags[i].replace /\ tags[i].tracker)
                            /\ tags[i].tracker \/ tags[i].tags

SpeedLimitsValid(f) ==
  /\ \E l \in Speeds : f.limits[l].mode # "no_change"
  /\ \A l \in Speeds : f.limits[l].mode = "custom" => \E v \in f.limits[l].value : v > 0

ShareLimitsValid(f) ==
  \E l \in Shares : Amount(l, f.limits[l]) # {}

Accepted(f) ==
  /\ validateFreeSpaceSource(f)
  /\ f.name /\ f.trackers # {} /\ f.on # {}
  /\ f.sort = "score" => f.scores # <<>> /\ \A i \in DOMAIN f.scores : f.scores[i].number
  /\ "speedLimits" \in f.on => SpeedLimitsValid(f)
  /\ "shareLimits" \in f.on => ShareLimitsValid(f)
  /\ "tag" \in f.on => validateTagActions(f.tags)
  /\ "category" \in f.on => f.category # {}
  /\ "externalProgram" \in f.on => f.program
  /\ "delete" \in f.on => f.cond # "none"
  /\ "move" \in f.on => f.movePath

\* local is the local access of the instance.
validatePayload(p, local) ==
  /\ p.name /\ p.trackers # {} /\ p.actions # {}
  /\ \A c \in p.category : c.name # {}
  /\ "delete" \in p.actions => p.cond # "none" /\ p.actions = {"delete"}
  /\ \A s \in p.sorting : s.type = "score" => s.scores # <<>>
  /\ \A d \in p.delete : /\ p.cond = "free" => d.mode # "delete"
                         /\ d.group # {} => d.mode = "delete"
                         /\ d.hardlinks => d.mode = "include" /\ local
  /\ p.cond = "local" => local
  /\ p.cond = "grouped" => p.grouping
  /\ \A i \in DOMAIN p.tags : p.tags[i].replace => ~p.tags[i].tracker /\ p.tags[i].tags
  /\ p.source # {} => PathSupported /\ (p.cond = "free" => local /\ p.source = {"clean"})

\* What the server refuses although Submit has not looked: a path that is not absolute
\* and clean, a group that was removed or that belongs to another delete mode, fields and
\* links that need an access that is gone, a score sort whose rules have all been dropped.
Unchecked(f) ==
  \/ f.cond = "free" /\ f.source = "path" /\ f.sourcePath # {"clean"}
  \/ f.cond = "grouped" /\ ~f.grouping
  \/ f.cond = "local" /\ ~access
  \/ "delete" \in f.on /\ f.mode = "include" /\ f.hardlinks /\ ~access
  \/ "delete" \in f.on /\ f.mode # "delete" /\ f.group # {}
  \/ f.sort = "score" /\ SentScores(f) = <<>>

(***************************************************************************)
(* Rules that other clients of the server may have stored.                 *)
(***************************************************************************)
SampleChoices ==
  {x \in [on : {{"delete"}, {"autoManagement"}, {"category"}},
          cond : {"none", "plain", "free", "grouped", "local"},
          mode : {"delete", "preserve", "include"}, group : {{}, {"g"}}, interval : {{}, {60}},
          path : {{}, {"clean"}}, sort : {"default", "score"}] :
     /\ x.on # {"delete"} => x.mode = "preserve" /\ x.group = {} /\ x.interval = {}
     /\ x.path # {} => x.cond = "free"
     /\ x.sort = "score" => x.cond = "plain"
     /\ x.on \subseteq Actions}

Sample(x) ==
  [emptyFormState EXCEPT
     !.name = TRUE, !.trackers = {The(Domains, "*")}, !.grouping = x.cond = "grouped",
     !.on = x.on, !.cond = x.cond, !.mode = x.mode, !.group = x.group, !.interval = x.interval,
     !.source = IF x.path # {} THEN "path" ELSE "qbittorrent", !.sourcePath = x.path,
     !.hardlinks = x.mode = "include", !.sort = x.sort,
     !.scores = IF x.sort = "score" THEN <<NewScore>> ELSE <<>>,
     !.category = Opt("category" \in x.on, "c"), !.manage = FALSE, !.enabled = TRUE]

Samples == {Sample(x) : x \in SampleChoices}

\* The access may have been another when the rule was stored.
FormInit ==
  /\ rule \in {{}} \cup {{buildPayload(f)} : f \in {g \in Samples :
                            \E local \in BOOLEAN : validatePayload(buildPayload(g), local)}}
  /\ mine = FALSE /\ isOpen = FALSE /\ form = emptyFormState
  /\ known \in BOOLEAN /\ customs \in BOOLEAN /\ access \in BOOLEAN
  /\ touched = FALSE /\ cold = FALSE /\ edits = 0

\* The effect that hydrates the form: when the dialog opens, and when what it maps the
\* domains with changes, whatever was edited until then.
Hydration(merge) ==
  /\ form' = IF rule = {} THEN emptyFormState
             ELSE Settled(Hydrate(CHOOSE p \in rule : TRUE, merge))
  /\ touched' = FALSE /\ cold' = ~known

Open ==
  /\ ~isOpen /\ isOpen' = TRUE /\ Hydration(customs)
  /\ UNCHANGED <<rule, mine, read, edits>>

CapabilitiesArrive ==
  /\ isOpen /\ ~known /\ known' = TRUE
  /\ UNCHANGED <<rule, mine, isOpen, form, customs, access, touched, cold, edits>>

CustomizationsArrive ==
  /\ ~customs /\ customs' = TRUE
  /\ IF isOpen THEN Hydration(TRUE) ELSE UNCHANGED <<form, touched, cold>>
  /\ UNCHANGED <<rule, mine, isOpen, known, access, edits>>

\* The local access is switched in the settings of the instance.
AccessSwitched ==
  /\ edits < MaxEdits /\ edits' = edits + 1
  /\ access' = ~access
  /\ UNCHANGED <<rule, mine, isOpen, form, known, customs, touched, cold>>

\* The form of a closed dialog is of no account: opening it hydrates the form anew.
CloseForm ==
  isOpen' = FALSE /\ form' = emptyFormState /\ touched' = FALSE /\ cold' = FALSE

\* The page is left or reloaded: what was read is read again, the rule stays stored.
LeavePage ==
  /\ CloseForm /\ known' = FALSE /\ customs' = FALSE
  /\ UNCHANGED <<rule, mine, access, edits>>

\* A control that can turn the form into one of a set of forms.
Edit(S) ==
  /\ isOpen /\ edits < MaxEdits /\ edits' = edits + 1
  /\ \E f \in S : f # form /\ form' = Settled(f)
  /\ touched' = TRUE
  /\ UNCHANGED <<rule, mine, isOpen, read, cold>>

NameAndTrackers(f) ==
  {[f EXCEPT !.name = ~@], [f EXCEPT !.trackers = IF @ = {"*"} THEN {} ELSE {"*"}]}
  \cup {[f EXCEPT !.trackers = S] : S \in IF f.trackers = {"*"} THEN {} ELSE SUBSET Domains}

\* A field is offered where it can be used; one that is there stays.
Condition(f) ==
  {[f EXCEPT !.cond = c] : c \in {"none", "plain", "free"} \cup Opt(f.grouping, "grouped")
                                                         \cup Opt(access, "local")}

\* The editor of the groups is shown for a condition on groups, which may be a plain one:
\* there are built-in groups too.
CustomGroups(f) == {[f EXCEPT !.grouping = ~@] : x \in Opt(f.cond # "none", 1)}

\* Delete is offered alone, and nothing is offered beside it.
AddAction(f) ==
  {[f EXCEPT !.on = @ \cup {a}] : a \in {x \in Combinable : f.on # {} /\ "delete" \notin f.on}}

FirstAction(f) ==
  IF f.on # {} THEN {}
  ELSE {[f EXCEPT !.on = {a}, !.enabled = IF a = "delete" /\ rule = {} THEN FALSE ELSE @] : a \in Actions}

RemoveAction(f) ==
  {[f EXCEPT !.on = @ \ {a}, !.program = IF a = "externalProgram" THEN FALSE ELSE @] : a \in f.on}

LimitMode(f) ==
  {[f EXCEPT !.limits[x[1]] = [mode |-> x[2], value |-> IF x[2] = "custom" THEN @.value ELSE {}]] :
     x \in {y \in (Speeds \cup Shares) \X {"no_change", "unlimited", "global", "custom"} :
              /\ ActionOf(y[1]) \in f.on /\ (y[2] = "global" => y[1] \in Shares)}}

LimitValue(f) ==
  {[f EXCEPT !.limits[x[1]].value = x[2]] :
     x \in {y \in (Speeds \cup Shares) \X ({{}} \cup {{n} : n \in Amounts}) :
              ActionOf(y[1]) \in f.on /\ f.limits[y[1]].mode = "custom"}}

ManageMode(f) == IF "autoManagement" \in f.on THEN {[f EXCEPT !.manage = ~@]} ELSE {}

\* The switches of a tag action.
Switched(t) ==
  {[t EXCEPT !.tags = ~@] : x \in Opt(~t.tracker, 1)}
  \cup {[t EXCEPT !.replace = ~@, !.tracker = @ /\ t.replace, !.display = @ /\ t.replace]}
  \cup {[t EXCEPT !.tracker = ~@, !.display = @ /\ ~t.tracker, !.tags = @ /\ t.tracker] :
          x \in Opt(~t.replace, 1)}
  \cup {[t EXCEPT !.display = ~@] : x \in Opt(t.tracker, 1)}

TagAction(f) ==
  IF "tag" \notin f.on THEN {}
  ELSE (UNION {{[f EXCEPT !.tags[i] = x] : x \in Switched(f.tags[i])} : i \in DOMAIN f.tags})
       \cup {[f EXCEPT !.tags = Append(@, createDefaultTagAction)]}
       \cup {[f EXCEPT !.tags = RemoveAt(@, i)] : i \in IF Len(f.tags) > 1 THEN DOMAIN f.tags ELSE {}}

CategoryAction(f) ==
  IF "category" \notin f.on THEN {}
  ELSE {[f EXCEPT !.category = c] : c \in {{}, {"c"}}}
       \cup {[f EXCEPT !.crossSeeds = ~@] : x \in f.category}
       \cup {[f EXCEPT !.block = ~@] : x \in Opt(f.crossSeeds \/ f.block, 1)}

DeleteAction(f) ==
  IF "delete" \notin f.on THEN {}
  ELSE {[f EXCEPT !.mode = m] : m \in {"withFiles", "preserve", "include"} \cup Opt(f.cond # "free", "delete")}
       \cup {[f EXCEPT !.hardlinks = ~@] : x \in Opt(f.mode = "include" /\ access, 1)}

MoveAction(f) ==
  IF "move" \in f.on THEN {[f EXCEPT !.movePath = ~@], [f EXCEPT !.moveBlock = ~@]} ELSE {}

Program(f) == IF "externalProgram" \in f.on THEN {[f EXCEPT !.program = TRUE]} ELSE {}

FreeSpaceSource(f) ==
  IF f.cond # "free" THEN {}
  ELSE {[f EXCEPT !.source = "qbittorrent"]}
       \cup {[f EXCEPT !.source = "path"] : x \in Opt(access /\ supportsFreeSpacePathSource, 1)}
       \cup {[f EXCEPT !.sourcePath = o] :
              o \in IF f.source = "path" THEN {{}, {"clean"}, {"odd"}} ELSE {}}

Sorting(f) ==
  {[f EXCEPT !.sort = s] : s \in {"default", "simple", "score"}}
  \cup {[f EXCEPT !.down = ~@] : x \in Opt(f.sort # "default", 1)}
  \cup IF f.sort # "score" THEN {}
       ELSE {[f EXCEPT !.scores = Append(@, NewScore)]}
            \cup {[f EXCEPT !.scores[i].number = ~@] : i \in DOMAIN f.scores}
            \cup {[f EXCEPT !.scores[i].bare = ~@] : i \in DOMAIN f.scores}
            \cup {[f EXCEPT !.scores = RemoveAt(@, i)] : i \in DOMAIN f.scores}

isDeleteOrCategoryRule(f) == f.on \cap {"delete", "category"} # {}

Footer(f) ==
  {[f EXCEPT !.dryRun = ~@]}
  \cup {[f EXCEPT !.enabled = ~@] : x \in Opt(f.enabled \/ ~isDeleteOrCategoryRule(f), 1)}
  \cup {[f EXCEPT !.interval = i] :
          i \in {{}, {300}} \cup Opt(~("delete" \in f.on /\ f.cond = "free"), {60})}

\* The server stores what it accepts, and the dialog closes; otherwise the
\* form stays as it was sent, with the switch on.
Store(f) ==
  LET p == buildPayload(f)
  IN  /\ IF validatePayload(p, access) THEN rule' = {p} /\ mine' = TRUE /\ CloseForm
         ELSE /\ form' = f /\ touched' = (touched \/ f # form)
              /\ UNCHANGED <<rule, mine, isOpen, cold>>
      /\ UNCHANGED <<read, edits>>

Submit == isOpen /\ Accepted(form) /\ Store(form)

EnableThroughPreview ==
  /\ isOpen /\ isDeleteOrCategoryRule(form) /\ ~form.enabled
  /\ "delete" \in form.on => form.cond # "none"
  /\ validateFreeSpaceSource(form) /\ Builds(form)
  /\ Store([form EXCEPT !.enabled = TRUE])

Cancel ==
  /\ isOpen /\ CloseForm
  /\ UNCHANGED <<rule, mine, read, edits>>

FormNext ==
  \/ Open \/ CapabilitiesArrive \/ CustomizationsArrive \/ AccessSwitched \/ LeavePage
  \/ Edit(NameAndTrackers(form)) \/ Edit(Condition(form)) \/ Edit(CustomGroups(form))
  \/ Edit(Sorting(form))
  \/ Edit(AddAction(form)) \/ Edit(FirstAction(form)) \/ Edit(RemoveAction(form))
  \/ Edit(LimitMode(form)) \/ Edit(LimitValue(form)) \/ Edit(ManageMode(form))
  \/ Edit(TagAction(form)) \/ Edit(CategoryAction(form)) \/ Edit(DeleteAction(form))
  \/ Edit(MoveAction(form)) \/ Edit(Program(form)) \/ Edit(FreeSpaceSource(form))
  \/ Edit(Footer(form))
  \/ Submit \/ EnableThroughPreview \/ Cancel

FormSpec == FormInit /\ [][FormNext]_formVars

-----------------------------------------------------------------------------
(***************************************************************************)
(* What is open and what is stored: at most one rule, of which the server  *)
(* approves with the access the instance had.                              *)
(***************************************************************************)
FormTypeOK ==
  /\ Cardinality(rule) <= 1
  /\ \A p \in rule : \E local \in BOOLEAN : validatePayload(p, local)
  /\ {mine, isOpen, known, customs, access, touched, cold} \subseteq BOOLEAN
  /\ edits \in 0 .. MaxEdits
  /\ form.on \subseteq Actions /\ DOMAIN form = DOMAIN emptyFormState

(***************************************************************************)
(* Opening a rule that this editor stored, and saving it unchanged, stores *)
(* the same rule but for two fields: each domain grows to the domains of   *)
(* its customization, and a path for the free space is lost if the form    *)
(* was hydrated before the capabilities had arrived. For all else the      *)
(* conversions of buildPayload and of the hydration effect are inverse to  *)
(* each other, and no effect corrects a form that was saved.               *)
(***************************************************************************)
ReopenKeeps ==
  isOpen /\ mine /\ ~touched =>
    \A p \in rule : buildPayload(form) =
      [p EXCEPT !.trackers = mapDomainsToOptionValues(@, customs), !.source = IF cold THEN {} ELSE @]

\* The same without the exceptions: what is opened is what was stored.
ReopenKeepsAll == isOpen /\ mine /\ ~touched => rule = {buildPayload(form)}

(***************************************************************************)
(* No sequence of edits leads to a form the server cannot take without the *)
(* form saying so: delete stays alone, it is never one that keeps files    *)
(* and waits for free space, and of the forms that Submit accepts the      *)
(* server refuses exactly those with a fault that Submit does not look     *)
(* for.                                                                    *)
(***************************************************************************)
FormFits ==
  isOpen =>
    /\ "delete" \in form.on => form.on = {"delete"}
    /\ "delete" \in form.on /\ form.cond = "free" => form.mode # "delete"
    /\ Accepted(form) => (validatePayload(buildPayload(form), access) <=> ~Unchecked(form))

\* What Submit accepts the server accepts, without exceptions.
SubmitSuffices == isOpen /\ Accepted(form) => validatePayload(buildPayload(form), access)

(***************************************************************************)
(* On a server that can read the free space of a path, opening a rule does *)
(* not change its source of free space: the effect is for Windows.         *)
(***************************************************************************)
SourceKeptOffWindows ==
  isOpen /\ ~touched /\ PathSupported => \A p \in rule : buildPayload(form).source = p.source

\* Edits are lost only when the user gives them up: not by a hydration of the open form.
EditsKept == [][isOpen /\ touched /\ isOpen' => touched']_formVars
=============================================================================
