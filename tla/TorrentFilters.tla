--------------------------- MODULE TorrentFilters ---------------------------
(***************************************************************************)
(* The filters of the torrent list: the sidebar that sets them             *)
(* (FilterSidebar), the hook that keeps them per instance in localStorage  *)
(* (usePersistedFilters) and the cross-seed filter, which replaces them    *)
(* when its answer arrives (useCrossSeedFilter).                           *)
(*                                                                         *)
(* The page stays mounted when the instance changes: its filters are still *)
(* those of the old instance in the first commit of the new one, and the   *)
(* effects of that commit load the new filters and save the old ones. The  *)
(* sidebar itself is mounted anew, and adds to the filters the             *)
(* subcategories of the chosen categories as it comes to know them.        *)
(***************************************************************************)
EXTENDS Integers, Sequences, FiniteSets, SequencesExt, Keeping

CONSTANTS
  Insts,       \* the instances
  Statuses, Categories, Trackers, \* values; tags are handled as trackers are
  Boxes,       \* checkboxes: [group, values]; a merged tracker has several values
  Below,       \* pairs <<parent, child>> of categories
  Sorted,      \* all categories in the order of their names
  Subs,        \* the instances with subcategories
  MaxFilterEvents \* bound: what user, browser and server do

VARIABLES
  inst,        \* instanceId of the page
  filters,     \* the page's filters
  storedStatus, stored, \* localStorage: of all instances, of each instance
  commit,      \* "rest", "commit": effects have to run
  switched,    \* the effects that depend on instanceId have to run
  lastInstanceId, names, \* whose categories the page holds, and which
  served,      \* the categories each instance has
  capable,     \* capabilities and preferences of inst have arrived
  press,       \* a pointer on a checkbox, and the toggles it made
  skipNext,    \* skipNextToggleRef
  crossSeed,   \* answers of the cross-seed filter under way: each row has a menu
  events,
  chosen       \* history: the filters last set under each instance; torn: the page was
               \* loaded anew before the effects had saved them

persist == <<storedStatus, stored>>
sidebar == <<lastInstanceId, names, capable>>
touch   == <<press, skipNext>>
filterVars ==
  <<inst, filters, persist, commit, switched, sidebar, served, touch, crossSeed, events, chosen>>

Groups == {"status", "categories", "trackers"}
ValuesOf == [status |-> Statuses, categories |-> Categories, trackers |-> Trackers]

ASSUME FiltersAssumption ==
  /\ Sorted \in Seq(Categories)
  /\ \A b \in Boxes : /\ b.group \in Groups /\ b.values \subseteq ValuesOf[b.group]
                      /\ IsFiniteSet(b.values)

NoBox  == [group |-> "none", values |-> {}]
NoPress == [box |-> NoBox, timer |-> FALSE, was |-> 0, toggles |-> 0]
Empty  == [inc |-> [g \in Groups |-> <<>>], exc |-> [g \in Groups |-> <<>>],
           expr |-> FALSE, exp |-> <<>>, expx |-> <<>>]
Own(f) == [inc |-> [g \in Groups \ {"status"} |-> f.inc[g]],
           exc |-> [g \in Groups \ {"status"} |-> f.exc[g]], expr |-> f.expr]
Status(f) == [inc |-> f.inc["status"], exc |-> f.exc["status"]]

Event == events < MaxFilterEvents /\ events' = events + 1

(***************************************************************************)
(* What is read back: the status of all instances with the rest of one.    *)
(* The subcategories are not stored.                                       *)
(***************************************************************************)
Load(i) ==
  [inc  |-> [g \in Groups |-> IF g = "status" THEN storedStatus.inc ELSE stored[i].inc[g]],
   exc  |-> [g \in Groups |-> IF g = "status" THEN storedStatus.exc ELSE stored[i].exc[g]],
   expr |-> stored[i].expr, exp |-> <<>>, expx |-> <<>>]

\* The categories and counts that the sidebar was given, in order of name.
EntriesOf(S) == Keep(Sorted, S)
categoryEntries == EntriesOf(names)

allowSubcategories == capable /\ inst \in Subs

Subcategories(entries, list) ==
  Keep(entries, {c \in Categories \ ToSet(list) : \E p \in ToSet(list) : <<p, c>> \in Below})

expandCategoryList(list) ==
  IF ~allowSubcategories THEN <<>> ELSE list \o Subcategories(categoryEntries, list)

Expand(f) == [f EXCEPT !.exp  = expandCategoryList(f.inc["categories"]),
                       !.expx = expandCategoryList(f.exc["categories"])]

ExpandIncluded(f) == [f EXCEPT !.exp = expandCategoryList(f.inc["categories"])]

(***************************************************************************)
(* The state of a checkbox, and its next one. A box of several values is   *)
(* in a state when all of them are.                                        *)
(***************************************************************************)
StateOf(f, b) ==
  IF b.values \subseteq ToSet(f.inc[b.group]) THEN "include"
  ELSE IF b.values \subseteq ToSet(f.exc[b.group]) THEN "exclude" ELSE "neutral"

Dropping(list, S) == Keep(list, ToSet(list) \ S)

With(list, S) == list \o SetToSeq(S \ ToSet(list))

\* Mutant: a box that is ticked is added to, and left in the other list.
setStateKeepingOther(f, b, state) ==
  LET g == b.group
  IN  IF state = "include" THEN [f EXCEPT !.inc[g] = With(f.inc[g], b.values)]
      ELSE IF state = "exclude" THEN [f EXCEPT !.exc[g] = With(f.exc[g], b.values)]
      ELSE [f EXCEPT !.inc[g] = Dropping(f.inc[g], b.values), !.exc[g] = Dropping(f.exc[g], b.values)]

setState(f, b, state) ==
  LET g == b.group
  IN  [f EXCEPT
         !.inc[g] = IF state = "include" THEN With(f.inc[g], b.values) ELSE Dropping(f.inc[g], b.values),
         !.exc[g] = IF state = "exclude" THEN With(f.exc[g], b.values) ELSE Dropping(f.exc[g], b.values)]

IncludeToggle(f, b) == setState(f, b, IF StateOf(f, b) = "neutral" THEN "include" ELSE "neutral")
ExcludeToggle(f, b) == setState(f, b, IF StateOf(f, b) = "exclude" THEN "neutral" ELSE "exclude")

FiltersInit ==
  /\ inst \in Insts /\ filters = Empty
  /\ storedStatus = Status(Empty) /\ stored = [i \in Insts |-> Own(Empty)]
  /\ commit = "commit" /\ switched = TRUE
  /\ lastInstanceId = 0 /\ names = {} /\ served = [i \in Insts |-> Categories]
  /\ capable = FALSE /\ press = NoPress /\ skipNext = NoBox
  /\ crossSeed = 0 /\ events = 0
  /\ chosen = [status |-> Status(Empty), own |-> [i \in Insts |-> Own(Empty)], torn |-> FALSE]

\* onFilterChange: the page's filters, whatever their instance was.
SetFilters(f) ==
  /\ filters' = f /\ commit' = "commit"
  /\ chosen' = [status |-> Status(f), own |-> [chosen.own EXCEPT ![inst] = Own(f)],
                 torn |-> chosen.torn]

(***************************************************************************)
(* The effects of one commit, children first: the sidebar brings the       *)
(* subcategories up to date, the page loads the filters of a new instance  *)
(* and then saves the ones it rendered, under the new instance.            *)
(***************************************************************************)
Save(f) ==
  /\ storedStatus' = Status(f)
  /\ stored' = [stored EXCEPT ![inst] = Own(f)]

\* Mutant: the load reads what the save of the same commit has just written.
CommitSaveFirst ==
  /\ commit = "commit"
  /\ filters' = IF switched THEN [filters EXCEPT !.exp = <<>>, !.expx = <<>>] ELSE Expand(filters)
  /\ commit' = IF switched \/ filters' # filters THEN "commit" ELSE "rest"
  /\ switched' = FALSE
  /\ Save(filters)
  /\ UNCHANGED <<inst, sidebar, served, touch, crossSeed, events, chosen>>

\* Mutant: the excluded categories are compared with their subcategories, not set.
CommitExpandIncluded ==
  /\ commit = "commit"
  /\ filters' = IF switched THEN Load(inst) ELSE ExpandIncluded(filters)
  /\ commit' = IF switched \/ filters # Expand(filters) THEN "commit" ELSE "rest"
  /\ switched' = FALSE
  /\ Save(filters)
  /\ UNCHANGED <<inst, sidebar, served, touch, crossSeed, events, chosen>>

RunEffects ==
  /\ commit = "commit"
  /\ filters' = IF switched THEN Load(inst) ELSE Expand(filters)
  /\ commit' = IF switched \/ filters' # filters THEN "commit" ELSE "rest"
  /\ switched' = FALSE
  /\ Save(filters)
  /\ UNCHANGED <<inst, sidebar, served, touch, crossSeed, events, chosen>>

(***************************************************************************)
(* What the user does. The sidebar of the old instance is unmounted with   *)
(* its timer; the capabilities of the new one may be cached.               *)
(***************************************************************************)
SwitchInstance ==
  /\ commit = "rest" /\ Event
  /\ \E i \in Insts \ {inst} : inst' = i
  /\ capable' \in BOOLEAN
  /\ commit' = "commit" /\ switched' = TRUE
  /\ press' = NoPress /\ skipNext' = NoBox
  /\ UNCHANGED <<filters, persist, lastInstanceId, names, served, crossSeed, chosen>>

\* The page is loaded anew, between two commits too: what is not in localStorage is lost.
Reload ==
  /\ Event
  /\ filters' = Load(inst) /\ commit' = "commit" /\ switched' = TRUE
  /\ lastInstanceId' = 0 /\ names' = {} /\ capable' = FALSE
  /\ press' = NoPress /\ skipNext' = NoBox /\ crossSeed' = 0
  /\ chosen' = [status |-> chosen.status, own |-> chosen.own,
                 torn |-> chosen.torn \/ (commit = "commit" /\ ~switched)]
  /\ UNCHANGED <<inst, persist, served>>

Clear ==
  /\ commit = "rest" /\ press.box = NoBox /\ Event
  /\ \/ SetFilters(Expand(Empty))
     \/ \E g \in Groups : SetFilters(Expand([filters EXCEPT !.inc[g] = <<>>, !.exc[g] = <<>>]))
     \/ SetFilters(Expand([filters EXCEPT !.expr = FALSE]))
  /\ UNCHANGED <<inst, persist, switched, sidebar, served, touch, crossSeed>>

(***************************************************************************)
(* A press on a checkbox: with Ctrl it excludes at once, by touch it does  *)
(* after LONG_PRESS_DURATION; the click that follows includes, unless the  *)
(* press already did something.                                            *)
(***************************************************************************)
PointerDown ==
  /\ commit = "rest" /\ press.box = NoBox /\ Event
  /\ \E b \in Boxes :
       \/ /\ SetFilters(Expand(ExcludeToggle(filters, b)))
          /\ press' = [box |-> b, timer |-> FALSE, was |-> 0, toggles |-> 1]
          /\ skipNext' = b
       \/ /\ press' = [box |-> b, timer |-> FALSE, was |-> 0, toggles |-> 0]
          /\ skipNext' = NoBox /\ UNCHANGED <<filters, commit, chosen>>
       \/ /\ press' = [box |-> b, timer |-> TRUE, was |-> filters, toggles |-> 0]
          /\ skipNext' = NoBox /\ UNCHANGED <<filters, commit, chosen>>
  /\ UNCHANGED <<inst, persist, switched, sidebar, served, crossSeed>>

\* Mutant: the click that ends a long press is not swallowed.
LongPressNoSkip ==
  /\ press.timer
  /\ SetFilters(Expand(ExcludeToggle(press.was, press.box)))
  /\ press' = [press EXCEPT !.timer = FALSE, !.was = 0, !.toggles = @ + 1]
  /\ UNCHANGED <<skipNext, inst, persist, switched, sidebar, served, crossSeed, events>>

\* The timer was scheduled with the filters of its render.
LongPress ==
  /\ press.timer
  /\ SetFilters(Expand(ExcludeToggle(press.was, press.box)))
  /\ press' = [press EXCEPT !.timer = FALSE, !.was = 0, !.toggles = @ + 1]
  /\ skipNext' = press.box
  /\ UNCHANGED <<inst, persist, switched, sidebar, served, crossSeed, events>>

\* pointerup, pointercancel or leaving the box stop the timer; no click yet.
PointerEnd ==
  /\ press.timer
  /\ press' = [press EXCEPT !.timer = FALSE, !.was = 0]
  /\ UNCHANGED <<inst, filters, persist, commit, switched, sidebar, served, skipNext, crossSeed, events, chosen>>

CheckboxChange(b) ==
  /\ skipNext' = NoBox
  /\ IF skipNext = b THEN UNCHANGED <<filters, commit, chosen>>
     ELSE SetFilters(Expand(IncludeToggle(filters, b)))

\* The click of a press, or none when the pointer has left the box.
Click ==
  /\ commit = "rest" /\ press.box # NoBox /\ ~press.timer
  /\ \/ /\ CheckboxChange(press.box)
        /\ press' = [press EXCEPT !.box = NoBox, !.toggles = IF skipNext = press.box THEN @ ELSE @ + 1]
     \/ press' = NoPress /\ UNCHANGED <<filters, commit, skipNext, chosen>>
  /\ UNCHANGED <<inst, persist, switched, sidebar, served, crossSeed, events>>

(***************************************************************************)
(* The server: the list of an instance brings categories and counts, the   *)
(* capabilities arrive, categories change.                                 *)
(***************************************************************************)
FilteredDataUpdate ==
  /\ commit = "rest"
  /\ lastInstanceId' = inst /\ names' = served[inst]
  /\ <<lastInstanceId', names'>> # <<lastInstanceId, names>>
  /\ commit' = "commit"
  /\ UNCHANGED <<inst, filters, persist, switched, served, capable, touch, crossSeed, events, chosen>>

CapabilitiesArrive ==
  /\ commit = "rest" /\ ~capable /\ capable' = TRUE /\ commit' = "commit"
  /\ UNCHANGED <<inst, filters, persist, switched, lastInstanceId, names, served, touch, crossSeed, events, chosen>>

CategoryChange ==
  /\ Event
  /\ \E i \in Insts, c \in Categories :
       served' = [served EXCEPT ![i] = IF c \in @ THEN @ \ {c} ELSE @ \cup {c}]
  /\ UNCHANGED <<inst, filters, persist, commit, switched, sidebar, touch, crossSeed, chosen>>

(***************************************************************************)
(* The cross-seed filter of a torrent: its matches replace the filters of  *)
(* the instance that is shown when the answer arrives, or are themselves   *)
(* replaced by what the effects of a switch load. One filter at a time     *)
(* holds for a menu, and each row has its own.                             *)
(***************************************************************************)
filterCrossSeeds ==
  /\ commit = "rest" /\ Event /\ crossSeed' = crossSeed + 1
  /\ UNCHANGED <<inst, filters, persist, commit, switched, sidebar, served, touch, chosen>>

CrossSeedAnswer ==
  /\ crossSeed > 0 /\ crossSeed' = crossSeed - 1
  /\ \/ ~switched /\ SetFilters([Empty EXCEPT !.expr = TRUE])
     \/ UNCHANGED <<filters, commit, chosen>>
  /\ UNCHANGED <<inst, persist, switched, sidebar, served, touch, events>>

FiltersNext ==
  \/ RunEffects \/ SwitchInstance \/ Reload \/ Clear
  \/ PointerDown \/ LongPress \/ PointerEnd \/ Click
  \/ FilteredDataUpdate \/ CapabilitiesArrive \/ CategoryChange
  \/ filterCrossSeeds \/ CrossSeedAnswer

\* React runs the effects of a commit; nothing is assumed of the rest.
FiltersFairness == WF_filterVars(RunEffects)

FiltersSpec == FiltersInit /\ [][FiltersNext]_filterVars /\ FiltersFairness

-----------------------------------------------------------------------------
\* The filters are lists of known values without doubles (setTrackerGroupState).
FiltersTypeOK ==
  /\ inst \in Insts /\ commit \in {"rest", "commit"} /\ switched \in BOOLEAN
  /\ \A g \in Groups : \A list \in {filters.inc[g], filters.exc[g]} :
       list \in Seq(Statuses \cup Categories \cup Trackers) /\ IsInjective(list)
  /\ ToSet(filters.exp) \cup ToSet(filters.expx) \subseteq Categories
  /\ names \subseteq Categories /\ lastInstanceId \in Insts \cup {0}
  /\ {capable, press.timer, chosen.torn} \subseteq BOOLEAN /\ crossSeed \in Nat
  /\ skipNext \in Boxes \cup {NoBox} /\ press.box \in Boxes \cup {NoBox}

(***************************************************************************)
(* Filters belong to their instance (usePersistedFilters): once the        *)
(* effects have run, the filters shown and the filters stored for every    *)
(* instance are those that were last set while that instance was shown,    *)
(* and the status filters are the ones last set anywhere; switching back   *)
(* and forth or loading the page anew mixes nothing, unless it is loaded   *)
(* anew while the effects have still to save what they or a gesture set.   *)
(***************************************************************************)
FiltersBelongToInstance ==
  commit = "rest" /\ ~chosen.torn =>
    /\ Own(filters) = chosen.own[inst] /\ Status(filters) = chosen.status
    /\ storedStatus = chosen.status
    /\ \A i \in Insts : stored[i] = chosen.own[i]

\* Without the exception: the filters of one instance are not kept for one that has none.
FiltersNeverMix ==
  commit = "rest" =>
    \A i, j \in Insts : chosen.own[i] = Own(Empty) /\ stored[i] = chosen.own[j]
                        => chosen.own[j] = Own(Empty)

(***************************************************************************)
(* No value is both included and excluded (set*State, setTrackerGroupState *)
(* with merged trackers that share values with single ones), neither shown *)
(* nor stored.                                                             *)
(***************************************************************************)
NeverBoth ==
  /\ \A g \in Groups : ToSet(filters.inc[g]) \cap ToSet(filters.exc[g]) = {}
  /\ \A i \in Insts : \A g \in Groups \ {"status"} :
       ToSet(stored[i].inc[g]) \cap ToSet(stored[i].exc[g]) = {}

(***************************************************************************)
(* A press toggles its checkbox at most once (skipNextToggleRef): a long   *)
(* press or a Ctrl press that excluded is not undone by its own click.     *)
(***************************************************************************)
PressTogglesOnce == press.toggles <= 1

(***************************************************************************)
(* What is sent to the server follows the categories (the normalising      *)
(* effect of FilterSidebar): at rest the expanded lists are those of the   *)
(* chosen categories, with the subcategories the sidebar knows of.         *)
(***************************************************************************)
ExpansionFollows ==
  commit = "rest" =>
    /\ filters.exp  = expandCategoryList(filters.inc["categories"])
    /\ filters.expx = expandCategoryList(filters.exc["categories"])

(***************************************************************************)
(* The effects settle (they never set filters that make them run for      *)
(* ever), and each time they do, the expanded lists are up to date.        *)
(***************************************************************************)
Settles == []<>(commit = "rest" /\ ExpansionFollows)
=============================================================================
