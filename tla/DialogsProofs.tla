---------------------------- MODULE DialogsProofs ----------------------------
(***************************************************************************)
(* Theorems about the dialogs of the web client: the form of a workflow    *)
(* and the way from it to the stored rule and back, the list of workflows  *)
(* with its editor, and the three dialogs side by side. They hold for any  *)
(* actions, amounts, rules, contents, requests under way, edits and        *)
(* faults.                                                                 *)
(***************************************************************************)
EXTENDS MCDialogs, CrossSeedSearchProofs, KeepingProofs, FiniteSetTheorems, SequenceTheorems, TLAPS

(***************************************************************************)
(* The form. It has its fields, delete is alone, and no effect has         *)
(* anything to correct.                                                    *)
(***************************************************************************)
Fields ==
  {"name", "trackers", "grouping", "cond", "on", "enabled", "dryRun", "interval", "limits",
   "manage", "mode", "hardlinks", "group", "source", "sourcePath", "tags", "category",
   "crossSeeds", "block", "movePath", "moveBlock", "program", "sort", "down", "scores"}

Shaped(f) ==
  /\ DOMAIN f = Fields /\ f.on \subseteq Actions
  /\ f.tags \in Seq(TagActions) /\ f.scores \in Seq(ScoreRules)

Fit(f) == "delete" \in f.on => f.on = {"delete"}

\* The effects have nothing to correct in the mode and in the interval.
Corrected(f) ==
  "delete" \in f.on /\ f.cond = "free" => f.mode # "delete" /\ f.interval # {60}

Rests(f) == Corrected(f) /\ (f.source = "path" => supportsFreeSpacePathSource)

\* A stored rule.
RuleFits(p) ==
  /\ \E local \in BOOLEAN : validatePayload(p, local)
  /\ p.actions \subseteq Actions /\ p.tags \in Seq(TagActions)
  /\ \A s \in p.sorting : s.scores \in Seq(ScoreRules)

\* A rule that this dialog stored is the payload of a form that was corrected.
MineIsPayload ==
  mine => \E f : Shaped(f) /\ Corrected(f) /\ rule = {buildPayload(f)}

FormInv ==
  /\ mine \in BOOLEAN /\ isOpen \in BOOLEAN /\ touched \in BOOLEAN /\ cold \in BOOLEAN
  /\ known \in BOOLEAN /\ customs \in BOOLEAN /\ access \in BOOLEAN
  /\ edits \in 0 .. MaxEdits
  /\ rule = {} \/ \E p : rule = {p} /\ RuleFits(p)
  /\ Shaped(form) /\ Fit(form) /\ Rests(form)
  /\ MineIsPayload /\ ReopenKeeps

LEMMA EmptyForm ==
  /\ Shaped(emptyFormState) /\ Fit(emptyFormState) /\ Rests(emptyFormState)
  /\ DOMAIN emptyFormState = Fields /\ emptyFormState.on = {}
  /\ emptyFormState.source = "qbittorrent"
<1>1. createDefaultTagAction \in TagActions
  BY DEF createDefaultTagAction, TagActions
<1>2. DOMAIN emptyFormState = Fields
  BY DEF emptyFormState, Fields
<1>3. <<createDefaultTagAction>> \in Seq(TagActions)
  BY <1>1
<1>4. /\ emptyFormState.on = {} /\ emptyFormState.tags = <<createDefaultTagAction>>
      /\ emptyFormState.scores = <<>> /\ emptyFormState.source = "qbittorrent"
  BY DEF emptyFormState
<1>5. <<>> \in Seq(ScoreRules)
  BY EmptySeq
<1> QED
  BY <1>2, <1>3, <1>4, <1>5 DEF Shaped, Fit, Rests, Corrected

\* The effects correct the mode, the interval and the source, and nothing else.
LEMMA SettledIs ==
  ASSUME NEW f, Shaped(f)
  PROVE  /\ DOMAIN Settled(f) = Fields
         /\ \A x \in Fields \ {"mode", "interval", "source"} : Settled(f)[x] = f[x]
         /\ Settled(f).mode = IF "delete" \in f.on /\ f.cond = "free" /\ f.mode = "delete"
                              THEN "withFiles" ELSE f.mode
         /\ Settled(f).interval = IF "delete" \in f.on /\ f.cond = "free" /\ f.interval = {60}
                                  THEN {300} ELSE f.interval
         /\ Settled(f).source = IF supportsFreeSpacePathSource THEN f.source ELSE "qbittorrent"
BY DEF Settled, Shaped, Fields

LEMMA SettledRests ==
  ASSUME NEW f, Shaped(f), Fit(f)
  PROVE  Shaped(Settled(f)) /\ Fit(Settled(f)) /\ Rests(Settled(f))
<1> DEFINE g == Settled(f)
<1>1. /\ DOMAIN g = Fields /\ g.on = f.on /\ g.tags = f.tags /\ g.cond = f.cond
      /\ g.scores = f.scores
      /\ g.mode = IF "delete" \in f.on /\ f.cond = "free" /\ f.mode = "delete"
                  THEN "withFiles" ELSE f.mode
      /\ g.interval = IF "delete" \in f.on /\ f.cond = "free" /\ f.interval = {60}
                      THEN {300} ELSE f.interval
      /\ g.source = IF supportsFreeSpacePathSource THEN f.source ELSE "qbittorrent"
  BY SettledIs DEF Fields
<1> HIDE DEF g
<1>2. Shaped(g) /\ Fit(g)
  BY <1>1 DEF Shaped, Fit
<1>3. {300} # {60}
  OBVIOUS
<1>4. Rests(g)
  BY <1>1, <1>3 DEF Rests, Corrected
<1> QED
  BY <1>2, <1>4 DEF g

-----------------------------------------------------------------------------
(***************************************************************************)
(* From the form to the rule and back.                                     *)
(***************************************************************************)
LEMMA AmountReturns ==
  \A l, v : Amount(l, hydrateLimit(l, v)) = v
BY DEF Amount, hydrateLimit, NoChange

LEMMA KeepTwice ==
  ASSUME NEW X, NEW s \in Seq(X), NEW S \in SUBSET X
  PROVE  Keep(s, S) \in Seq(X) /\ Keep(Keep(s, S), S) = Keep(s, S)
<1>1. Keep(s, S) \in Seq(X) /\ Keep(s, S) \in Seq(X \cap S)
  BY KeepFilters, KeepIn
<1>2. X \cap S = S
  OBVIOUS
<1>3. Keep(s, S) \in Seq(S)
  BY <1>1, <1>2
<1>4. Keep(Keep(s, S), S) = Keep(s, S)
  BY <1>3, KeepAll
<1> QED
  BY <1>1, <1>4

\* What the form sends of a sequence, it sends again when it holds that.
LEMMA SentReturns ==
  ASSUME NEW f, Shaped(f), NEW g,
         "tag" \in g.on <=> "tag" \in f.on /\ SentTags(f) # <<>>,
         SentTags(f) # <<>> => g.tags = SentTags(f),
         g.sort = f.sort, f.sort = "score" => g.scores = SentScores(f)
  PROVE  /\ SentTags(g) = SentTags(f) /\ SentTags(f) \in Seq(TagActions)
         /\ SentScores(g) = SentScores(f) /\ SentScores(f) \in Seq(ScoreRules)
<1> DEFINE T == {t \in TagActions : t.tracker \/ t.tags}
           R == {r \in ScoreRules : ~r.bare}
<1>1. /\ Keep(f.tags, T) \in Seq(TagActions) /\ Keep(Keep(f.tags, T), T) = Keep(f.tags, T)
      /\ Keep(f.scores, R) \in Seq(ScoreRules) /\ Keep(Keep(f.scores, R), R) = Keep(f.scores, R)
  BY KeepTwice DEF Shaped
<1>2. /\ SentTags(f) = IF "tag" \notin f.on THEN <<>> ELSE Keep(f.tags, T)
      /\ SentTags(g) = IF "tag" \notin g.on THEN <<>> ELSE Keep(g.tags, T)
      /\ SentScores(f) = IF f.sort = "score" THEN Keep(f.scores, R) ELSE <<>>
      /\ SentScores(g) = IF g.sort = "score" THEN Keep(g.scores, R) ELSE <<>>
  BY DEF SentTags, SentScores
<1> HIDE DEF T, R
<1>3. <<>> \in Seq(TagActions) /\ <<>> \in Seq(ScoreRules)
  BY EmptySeq
<1>4. SentTags(g) = SentTags(f)
  BY <1>1, <1>2
<1>5. SentScores(g) = SentScores(f)
  BY <1>1, <1>2
<1> QED
  BY <1>1, <1>2, <1>3, <1>4, <1>5

\* What a rule stored by the dialog says, read off its form.
SourceOf(f) == IF f.source = "path" THEN f.sourcePath ELSE {}

LEMMA PayloadIs ==
  ASSUME NEW f
  PROVE  LET p == buildPayload(f)
             on(act) == act \in Sent(f)
         IN  /\ p.name = f.name /\ p.trackers = f.trackers /\ p.grouping = f.grouping
             /\ p.enabled = f.enabled /\ p.dryRun = f.dryRun
             /\ p.interval = f.interval /\ p.actions = Sent(f)
             /\ p.cond = IF Sent(f) = {} THEN "none" ELSE f.cond
             /\ p.limits = [l \in Speeds \cup Shares |->
                              IF on(ActionOf(l)) THEN Amount(l, f.limits[l]) ELSE {}]
             /\ p.manage = Opt(on("autoManagement"), f.manage)
             /\ p.delete = Opt(on("delete"), [mode |-> f.mode, group |-> f.group,
                                              hardlinks |-> f.mode = "include" /\ f.hardlinks])
             /\ p.tags = SentTags(f)
             /\ p.category = Opt(on("category"), [name |-> f.category, crossSeeds |-> f.crossSeeds,
                                                  block |-> f.block])
             /\ p.move = Opt(on("move"), f.moveBlock)
             /\ p.source = SourceOf(f)
             /\ p.sorting = Opt(f.sort # "default",
                                [type |-> f.sort, down |-> f.down, scores |-> SentScores(f)])
BY DEF buildPayload, SourceOf

LEMMA ServedFits ==
  ASSUME NEW f, Shaped(f), NEW local \in BOOLEAN, validatePayload(buildPayload(f), local)
  PROVE  RuleFits(buildPayload(f))
<1> DEFINE p == buildPayload(f)
           sort == [type |-> f.sort, down |-> f.down, scores |-> SentScores(f)]
<1>1. SentTags(f) \in Seq(TagActions) /\ SentScores(f) \in Seq(ScoreRules)
  <2>1. /\ Keep(f.tags, {t \in TagActions : t.tracker \/ t.tags}) \in Seq(TagActions)
        /\ Keep(f.scores, {r \in ScoreRules : ~r.bare}) \in Seq(ScoreRules)
    BY KeepFilters DEF Shaped
  <2> QED
    BY <2>1, EmptySeq DEF SentTags, SentScores
<1>2. Sent(f) \subseteq Actions
  BY DEF Sent, Shaped
<1>3. /\ p.actions = Sent(f) /\ p.tags = SentTags(f)
      /\ p.sorting = Opt(f.sort # "default", sort)
  BY PayloadIs
<1>4. sort.scores = SentScores(f)
  OBVIOUS
<1> HIDE DEF p, sort
<1>5. \A s \in p.sorting : s = sort
  BY <1>3 DEF Opt
<1>6. validatePayload(p, local)
  BY DEF p
<1> QED
  BY <1>1, <1>2, <1>3, <1>4, <1>5, <1>6 DEF RuleFits, p

LEMMA HydrateFits ==
  ASSUME NEW p, RuleFits(p), NEW merge
  PROVE  Shaped(Hydrate(p, merge)) /\ Fit(Hydrate(p, merge))
<1> DEFINE sort == The(p.sorting, [type |-> "default", down |-> FALSE, scores |-> <<>>])
           h == Hydrate(p, merge)
<1>1. /\ DOMAIN h = Fields /\ h.on = p.actions
      /\ h.tags = (IF p.tags = <<>> THEN <<createDefaultTagAction>> ELSE p.tags)
      /\ h.scores = sort.scores
  BY DEF Hydrate, Fields
<1>2. sort \in p.sorting \/ sort.scores = <<>>
  BY DEF The
<1>3. <<>> \in Seq(ScoreRules)
  BY EmptySeq
<1> HIDE DEF h, sort
<1>4. Fit(h)
  BY <1>1 DEF Fit, RuleFits, validatePayload
<1>5. h.tags \in Seq(TagActions)
  <2>1. createDefaultTagAction \in TagActions
    BY DEF createDefaultTagAction, TagActions
  <2> QED
    BY <1>1, <2>1 DEF RuleFits
<1>6. h.scores \in Seq(ScoreRules)
  BY <1>1, <1>2, <1>3 DEF RuleFits
<1> QED
  BY <1>1, <1>4, <1>5, <1>6 DEF Shaped, RuleFits, h

\* The fields of a payload, and two of them replaced.
RecordOf(n, t, g, e, d, i, act, c, l, m, del, tags, cat, mv, s, sort) ==
  [name |-> n, trackers |-> t, grouping |-> g, enabled |-> e, dryRun |-> d, interval |-> i,
   actions |-> act, cond |-> c, limits |-> l, manage |-> m, delete |-> del, tags |-> tags,
   category |-> cat, move |-> mv, source |-> s, sorting |-> sort]

Replaced(p, trackers, source) == [p EXCEPT !.trackers = trackers, !.source = source]

LEMMA TwoFields ==
  ASSUME NEW n, NEW t, NEW g, NEW e, NEW d, NEW i, NEW act, NEW c, NEW l, NEW m, NEW del,
         NEW tags, NEW cat, NEW mv, NEW s, NEW sort, NEW u, NEW v
  PROVE  Replaced(RecordOf(n, t, g, e, d, i, act, c, l, m, del, tags, cat, mv, s, sort), u, v)
         = RecordOf(n, u, g, e, d, i, act, c, l, m, del, tags, cat, mv, v, sort)
<1>1. [RecordOf(n, t, g, e, d, i, act, c, l, m, del, tags, cat, mv, s, sort) EXCEPT !.trackers = u]
      = RecordOf(n, u, g, e, d, i, act, c, l, m, del, tags, cat, mv, s, sort)
  BY DEF RecordOf
<1>2. [RecordOf(n, u, g, e, d, i, act, c, l, m, del, tags, cat, mv, s, sort) EXCEPT !.source = v]
      = RecordOf(n, u, g, e, d, i, act, c, l, m, del, tags, cat, mv, v, sort)
  BY DEF RecordOf
<1> QED
  BY <1>1, <1>2 DEF Replaced

\* Two forms that send the same, but for the trackers and the source.
LEMMA SamePayload ==
  ASSUME NEW f, NEW g, Sent(g) = Sent(f), SentTags(g) = SentTags(f),
         SentScores(g) = SentScores(f),
         g.name = f.name, g.grouping = f.grouping,
         g.enabled = f.enabled, g.dryRun = f.dryRun, g.interval = f.interval,
         Sent(f) # {} => g.cond = f.cond,
         \A l \in Speeds \cup Shares :
           ActionOf(l) \in Sent(f) => Amount(l, g.limits[l]) = Amount(l, f.limits[l]),
         "autoManagement" \in Sent(f) => g.manage = f.manage,
         "delete" \in Sent(f) => g.mode = f.mode /\ g.group = f.group
                                 /\ g.hardlinks = (f.mode = "include" /\ f.hardlinks),
         "category" \in Sent(f) => g.category = f.category /\ g.crossSeeds = f.crossSeeds
                                   /\ g.block = f.block,
         "move" \in Sent(f) => g.moveBlock = f.moveBlock,
         g.sort = f.sort,
         f.sort # "default" => g.down = f.down
  PROVE  buildPayload(g) = Replaced(buildPayload(f), g.trackers, SourceOf(g))
<1> DEFINE on(act) == act \in Sent(f)
           Del(x) == [mode |-> x.mode, group |-> x.group,
                      hardlinks |-> x.mode = "include" /\ x.hardlinks]
           Cat(x) == [name |-> x.category, crossSeeds |-> x.crossSeeds, block |-> x.block]
           Srt(x) == [type |-> x.sort, down |-> x.down, scores |-> SentScores(x)]
           Lim(x) == [l \in Speeds \cup Shares |->
                        IF on(ActionOf(l)) THEN Amount(l, x.limits[l]) ELSE {}]
<1>1. Opt(on("delete"), Del(g)) = Opt(on("delete"), Del(f))
  <2>1. CASE on("delete")
    BY <2>1
  <2>2. CASE ~on("delete")
    BY <2>2 DEF Opt
  <2> QED BY <2>1, <2>2
<1>2. Opt(on("category"), Cat(g)) = Opt(on("category"), Cat(f))
  BY DEF Opt
<1>3. Opt(g.sort # "default", Srt(g)) = Opt(f.sort # "default", Srt(f))
  BY DEF Opt
<1>4. Lim(g) = Lim(f)
  OBVIOUS
<1>5. /\ Opt(on("autoManagement"), g.manage) = Opt(on("autoManagement"), f.manage)
      /\ Opt(on("move"), g.moveBlock) = Opt(on("move"), f.moveBlock)
  BY DEF Opt
<1>6. (IF Sent(f) = {} THEN "none" ELSE g.cond) = (IF Sent(f) = {} THEN "none" ELSE f.cond)
  OBVIOUS
<1> DEFINE R(t, s) ==
             RecordOf(f.name, t, f.grouping, f.enabled, f.dryRun, f.interval, Sent(f),
                      IF Sent(f) = {} THEN "none" ELSE f.cond, Lim(f),
                      Opt(on("autoManagement"), f.manage), Opt(on("delete"), Del(f)),
                      SentTags(f), Opt(on("category"), Cat(f)),
                      Opt(on("move"), f.moveBlock), s, Opt(f.sort # "default", Srt(f)))
<1> HIDE DEF Del, Cat, Srt, Lim
<1>7. \A x : Sent(x) = Sent(f) => buildPayload(x) =
        RecordOf(x.name, x.trackers, x.grouping, x.enabled, x.dryRun, x.interval, Sent(f),
                 IF Sent(f) = {} THEN "none" ELSE x.cond, Lim(x),
                 Opt(on("autoManagement"), x.manage), Opt(on("delete"), Del(x)),
                 SentTags(x), Opt(on("category"), Cat(x)),
                 Opt(on("move"), x.moveBlock), SourceOf(x), Opt(x.sort # "default", Srt(x)))
  BY DEF buildPayload, Del, Cat, Srt, Lim, SourceOf, RecordOf
<1>8. buildPayload(f) = R(f.trackers, SourceOf(f)) /\ buildPayload(g) = R(g.trackers, SourceOf(g))
  BY <1>1, <1>2, <1>3, <1>4, <1>5, <1>6, <1>7
<1>9. Replaced(R(f.trackers, SourceOf(f)), g.trackers, SourceOf(g)) = R(g.trackers, SourceOf(g))
  BY TwoFields
<1> HIDE DEF R
<1> QED
  BY <1>8, <1>9

\* What opening makes of the payload of a corrected form is sent as the same payload, but
\* for the trackers, which are mapped, and for the source, which needs the capabilities.
LEMMA ReopenReturns ==
  ASSUME NEW f, Shaped(f), Corrected(f), RuleFits(buildPayload(f)), NEW merge
  PROVE  LET p == buildPayload(f)
         IN  buildPayload(Settled(Hydrate(p, merge))) =
               Replaced(p, mapDomainsToOptionValues(p.trackers, merge),
                        IF known THEN p.source ELSE {})
<1> DEFINE p == buildPayload(f)
           h == Hydrate(p, merge)
           g == Settled(h)
           del == The(p.delete, [mode |-> "preserve", group |-> {}, hardlinks |-> FALSE])
           cat == The(p.category, [name |-> {}, crossSeeds |-> FALSE, block |-> FALSE])
           sort == The(p.sorting, [type |-> "default", down |-> FALSE, scores |-> <<>>])
           on(act) == act \in Sent(f)
<1>0. \A c, v, w : /\ c => The(Opt(c, v), w) = v /\ Opt(c, v) # {}
                   /\ ~c => The(Opt(c, v), w) = w /\ Opt(c, v) = {}
  BY DEF The, Opt
<1>1. /\ DOMAIN h = Fields /\ h.name = p.name /\ h.grouping = p.grouping
      /\ h.trackers = mapDomainsToOptionValues(p.trackers, merge)
      /\ h.cond = p.cond /\ h.on = p.actions
      /\ h.enabled = p.enabled /\ h.dryRun = p.dryRun /\ h.interval = p.interval
      /\ h.limits = [l \in Speeds \cup Shares |-> hydrateLimit(l, p.limits[l])]
      /\ h.manage = The(p.manage, TRUE)
      /\ h.mode = del.mode /\ h.hardlinks = del.hardlinks /\ h.group = del.group
      /\ h.source = (IF p.source # {} THEN "path" ELSE "qbittorrent")
      /\ h.sourcePath = p.source
      /\ h.tags = (IF p.tags = <<>> THEN <<createDefaultTagAction>> ELSE p.tags)
      /\ h.category = cat.name /\ h.crossSeeds = cat.crossSeeds /\ h.block = cat.block
      /\ h.movePath = (p.move # {}) /\ h.moveBlock = The(p.move, FALSE)
      /\ h.program = ("externalProgram" \in p.actions)
      /\ h.sort = sort.type /\ h.down = sort.down /\ h.scores = sort.scores
  BY DEF Hydrate, Fields
<1>2. Shaped(h)
  BY HydrateFits
<1>3. /\ p.name = f.name /\ p.grouping = f.grouping
      /\ p.enabled = f.enabled /\ p.dryRun = f.dryRun
      /\ p.interval = f.interval /\ p.actions = Sent(f) /\ p.tags = SentTags(f)
      /\ p.cond = IF Sent(f) = {} THEN "none" ELSE f.cond
      /\ p.limits = [l \in Speeds \cup Shares |->
                       IF on(ActionOf(l)) THEN Amount(l, f.limits[l]) ELSE {}]
  BY PayloadIs
<1>4. /\ p.manage = Opt(on("autoManagement"), f.manage)
      /\ p.delete = Opt(on("delete"), [mode |-> f.mode, group |-> f.group,
                                       hardlinks |-> f.mode = "include" /\ f.hardlinks])
      /\ p.category = Opt(on("category"), [name |-> f.category, crossSeeds |-> f.crossSeeds,
                                           block |-> f.block])
      /\ p.move = Opt(on("move"), f.moveBlock)
      /\ p.sorting = Opt(f.sort # "default",
                         [type |-> f.sort, down |-> f.down, scores |-> SentScores(f)])
  BY PayloadIs
<1>p. known /\ ~PathSupported => p.source = {}
  BY DEF RuleFits, validatePayload
<1> HIDE DEF p, h, g
<1>5. on("delete") => /\ del.mode = f.mode /\ del.group = f.group
                      /\ del.hardlinks = (f.mode = "include" /\ f.hardlinks)
  <2> SUFFICES ASSUME on("delete")
               PROVE  /\ del.mode = f.mode /\ del.group = f.group
                      /\ del.hardlinks = (f.mode = "include" /\ f.hardlinks)
    OBVIOUS
  <2> DEFINE r == [mode |-> f.mode, group |-> f.group,
                   hardlinks |-> f.mode = "include" /\ f.hardlinks]
  <2>1. r.mode = f.mode /\ r.group = f.group
        /\ r.hardlinks = (f.mode = "include" /\ f.hardlinks)
    OBVIOUS
  <2>2. del = r
    <3> HIDE DEF r
    <3>1. p.delete = Opt(on("delete"), r)
      BY <1>4 DEF r
    <3>2. p.delete = {r}
      BY <3>1 DEF Opt
    <3> QED
      BY <3>2 DEF The
  <2> HIDE DEF r, del
  <2> QED
    BY <2>1, <2>2, Zenon
<1>6. on("category") => cat.name = f.category /\ cat.crossSeeds = f.crossSeeds /\ cat.block = f.block
  BY <1>0, <1>4
<1>7. /\ sort.type = f.sort
      /\ f.sort # "default" => sort.down = f.down /\ sort.scores = SentScores(f)
  <2> DEFINE r == [type |-> f.sort, down |-> f.down, scores |-> SentScores(f)]
  <2>1. r.type = f.sort /\ r.down = f.down /\ r.scores = SentScores(f)
    OBVIOUS
  <2>2. CASE f.sort = "default"
    <3>1. p.sorting = {}
      BY <1>4, <2>2 DEF Opt
    <3>2. sort.type = "default"
      BY <3>1 DEF The
    <3> QED
      BY <2>2, <3>2
  <2>3. CASE f.sort # "default"
    <3> HIDE DEF r
    <3>1. p.sorting = Opt(f.sort # "default", r)
      BY <1>4 DEF r
    <3>2. p.sorting = {r}
      BY <2>3, <3>1 DEF Opt
    <3>3. sort = r
      BY <3>2 DEF The
    <3> HIDE DEF sort
    <3> QED
      BY <2>1, <2>3, <3>3
  <2> QED
    BY <2>2, <2>3
<1> HIDE DEF del, cat, sort
<1>8. /\ DOMAIN g = Fields
      /\ \A x \in Fields \ {"mode", "interval", "source"} : g[x] = h[x]
      /\ g.mode = IF "delete" \in h.on /\ h.cond = "free" /\ h.mode = "delete"
                  THEN "withFiles" ELSE h.mode
      /\ g.interval = IF "delete" \in h.on /\ h.cond = "free" /\ h.interval = {60}
                      THEN {300} ELSE h.interval
      /\ g.source = IF supportsFreeSpacePathSource THEN h.source ELSE "qbittorrent"
  BY <1>2, SettledIs DEF g
<1>9. /\ g.name = h.name /\ g.trackers = h.trackers /\ g.grouping = h.grouping
      /\ g.cond = h.cond /\ g.on = h.on /\ g.enabled = h.enabled
      /\ g.dryRun = h.dryRun /\ g.limits = h.limits /\ g.manage = h.manage
      /\ g.hardlinks = h.hardlinks /\ g.group = h.group /\ g.sourcePath = h.sourcePath
      /\ g.tags = h.tags /\ g.category = h.category /\ g.crossSeeds = h.crossSeeds
      /\ g.block = h.block /\ g.movePath = h.movePath /\ g.moveBlock = h.moveBlock
      /\ g.program = h.program /\ g.sort = h.sort /\ g.down = h.down /\ g.scores = h.scores
  BY <1>8 DEF Fields
<1>10. SentTags(g) = SentTags(f) /\ SentScores(g) = SentScores(f)
  <2>1. "tag" \in g.on <=> "tag" \in f.on /\ SentTags(f) # <<>>
    BY <1>1, <1>3, <1>9 DEF Sent
  <2>2. SentTags(f) # <<>> => g.tags = SentTags(f)
    BY <1>1, <1>3, <1>9
  <2>3. g.sort = f.sort /\ (f.sort = "score" => g.scores = SentScores(f))
    BY <1>1, <1>7, <1>9
  <2> QED
    BY <2>1, <2>2, <2>3, SentReturns
<1>11. Sent(g) = Sent(f)
  <2>1. g.on = Sent(f)
    BY <1>1, <1>3, <1>9
  <2>2. "tag" \in Sent(f) => SentTags(g) # <<>>
    BY <1>10 DEF Sent
  <2>3. "move" \in Sent(f) => g.movePath
    BY <1>0, <1>1, <1>4, <1>9
  <2>4. "externalProgram" \in Sent(f) => g.program
    BY <1>1, <1>3, <1>9
  <2>5. Sent(g) = {act \in g.on : /\ act = "tag" => SentTags(g) # <<>>
                                  /\ act = "move" => g.movePath
                                  /\ act = "externalProgram" => g.program}
    BY DEF Sent
  <2> QED
    BY <2>1, <2>2, <2>3, <2>4, <2>5
<1>12. "delete" \in Sent(f) => "delete" \in f.on /\ h.cond = f.cond
  BY <1>1, <1>3 DEF Sent
<1>13. "delete" \in Sent(f) /\ f.cond = "free" => f.mode # "delete" /\ f.interval # {60}
  BY <1>12 DEF Corrected
<1>14. g.interval = f.interval
  BY <1>1, <1>3, <1>8, <1>12, <1>13
<1>15. "delete" \in Sent(f) => g.mode = f.mode /\ g.group = f.group
                              /\ g.hardlinks = (f.mode = "include" /\ f.hardlinks)
  BY <1>1, <1>5, <1>8, <1>9, <1>12, <1>13
<1>16. SourceOf(g) = IF known THEN p.source ELSE {}
  <2>1. SourceOf(g) = IF g.source = "path" THEN p.source ELSE {}
    BY <1>1, <1>9 DEF SourceOf
  <2>2. g.source = "path" <=> known /\ PathSupported /\ p.source # {}
    BY <1>1, <1>8 DEF supportsFreeSpacePathSource
  <2> QED
    BY <1>p, <2>1, <2>2
<1>17. \A l \in Speeds \cup Shares :
         ActionOf(l) \in Sent(f) => Amount(l, g.limits[l]) = Amount(l, f.limits[l])
  <2> SUFFICES ASSUME NEW l \in Speeds \cup Shares, ActionOf(l) \in Sent(f)
               PROVE  Amount(l, g.limits[l]) = Amount(l, f.limits[l])
    OBVIOUS
  <2>1. g.limits[l] = hydrateLimit(l, p.limits[l]) /\ p.limits[l] = Amount(l, f.limits[l])
    BY <1>1, <1>3, <1>9
  <2> QED
    BY <2>1, AmountReturns
<1>18. Sent(f) # {} => g.cond = f.cond
  BY <1>1, <1>3, <1>9
<1>19. /\ g.name = f.name /\ g.grouping = f.grouping
       /\ g.enabled = f.enabled /\ g.dryRun = f.dryRun
       /\ g.sort = f.sort
       /\ f.sort # "default" => g.down = f.down
  BY <1>1, <1>3, <1>7, <1>9
<1>20. /\ "autoManagement" \in Sent(f) => g.manage = f.manage
       /\ "move" \in Sent(f) => g.moveBlock = f.moveBlock
       /\ "category" \in Sent(f) => g.category = f.category /\ g.crossSeeds = f.crossSeeds
                                    /\ g.block = f.block
  BY <1>0, <1>1, <1>4, <1>6, <1>9
<1>21. buildPayload(g) = Replaced(buildPayload(f), g.trackers, SourceOf(g))
  BY <1>10, <1>11, <1>14, <1>15, <1>17, <1>18, <1>19, <1>20, SamePayload
<1>22. g.trackers = mapDomainsToOptionValues(p.trackers, merge)
  BY <1>1, <1>9
<1> QED
  BY <1>16, <1>21, <1>22 DEF g, h, p

-----------------------------------------------------------------------------
(***************************************************************************)
(* The controls.                                                           *)
(***************************************************************************)
\* A control that leaves the actions, the tags and the score rules alone.
Leaves(f, g) ==
  DOMAIN g = DOMAIN f /\ g.on = f.on /\ g.tags = f.tags /\ g.scores = f.scores

LEMMA LeavingFits ==
  ASSUME NEW f, Shaped(f), Fit(f), NEW g, Leaves(f, g)
  PROVE  Shaped(g) /\ Fit(g)
BY DEF Leaves, Shaped, Fit

LEMMA PlainControls ==
  ASSUME NEW f, Shaped(f), Fit(f),
         NEW g \in NameAndTrackers(f) \cup Condition(f) \cup CustomGroups(f)
                   \cup LimitMode(f) \cup LimitValue(f) \cup ManageMode(f) \cup MoveAction(f) \cup Program(f)
  PROVE  Shaped(g) /\ Fit(g)
<1>1. CASE g \in NameAndTrackers(f) \cup Condition(f) \cup CustomGroups(f)
  <2>1. Leaves(f, g)
    BY <1>1 DEF NameAndTrackers, Condition, CustomGroups, Leaves, Shaped, Fields
  <2> QED
    BY <2>1, LeavingFits
<1>2. CASE g \in LimitMode(f)
  BY <1>2, LeavingFits DEF LimitMode, Leaves, Shaped, Fields
<1>3. CASE g \in LimitValue(f)
  BY <1>3, LeavingFits DEF LimitValue, Leaves, Shaped, Fields
<1>4. CASE g \in ManageMode(f) \cup MoveAction(f) \cup Program(f)
  BY <1>4, LeavingFits DEF ManageMode, MoveAction, Program, Leaves, Shaped, Fields
<1> QED
  BY <1>1, <1>2, <1>3, <1>4

LEMMA OptionalControls ==
  ASSUME NEW f, Shaped(f), Fit(f),
         NEW g \in CategoryAction(f) \cup FreeSpaceSource(f) \cup Footer(f)
  PROVE  Shaped(g) /\ Fit(g)
<1>1. CASE g \in CategoryAction(f)
  <2>1. Leaves(f, g)
    BY <1>1 DEF CategoryAction, Leaves, Shaped, Fields
  <2> QED
    BY <2>1, LeavingFits
<1>2. CASE g \in FreeSpaceSource(f)
  <2>1. Leaves(f, g)
    BY <1>2 DEF FreeSpaceSource, Leaves, Shaped, Fields
  <2> QED
    BY <2>1, LeavingFits
<1>3. CASE g \in Footer(f)
  <2>1. Leaves(f, g)
    BY <1>3 DEF Footer, Leaves, Shaped, Fields
  <2> QED
    BY <2>1, LeavingFits
<1> QED
  BY <1>1, <1>2, <1>3

LEMMA ActionControls ==
  ASSUME NEW f, Shaped(f), Fit(f),
         NEW g \in AddAction(f) \cup FirstAction(f) \cup RemoveAction(f)
  PROVE  Shaped(g) /\ Fit(g)
<1> DEFINE Beside == DOMAIN g = DOMAIN f /\ g.tags = f.tags /\ g.scores = f.scores
<1>1. CASE g \in AddAction(f)
  <2>1. PICK act \in Combinable : /\ f.on # {} /\ "delete" \notin f.on
                                  /\ g = [f EXCEPT !.on = @ \cup {act}]
    BY <1>1 DEF AddAction
  <2>2. Beside /\ g.on = f.on \cup {act}
    BY <2>1 DEF Shaped, Fields
  <2>3. "delete" \notin g.on /\ g.on \subseteq Actions
    BY <2>1, <2>2, FormAssumption DEF Shaped, Actions
  <2> QED
    BY <2>2, <2>3 DEF Shaped, Fit
<1>2. CASE g \in FirstAction(f)
  <2>1. PICK act \in Actions :
           g = [f EXCEPT !.on = {act},
                         !.enabled = IF act = "delete" /\ rule = {} THEN FALSE ELSE @]
    BY <1>2 DEF FirstAction
  <2>2. Beside /\ g.on = {act}
    BY <2>1 DEF Shaped, Fields
  <2> QED
    BY <2>2 DEF Shaped, Fit
<1>3. CASE g \in RemoveAction(f)
  <2>1. PICK act \in f.on :
           g = [f EXCEPT !.on = @ \ {act},
                         !.program = IF act = "externalProgram" THEN FALSE ELSE @]
    BY <1>3 DEF RemoveAction
  <2>2. Beside /\ g.on = f.on \ {act}
    BY <2>1 DEF Shaped, Fields
  <2>3. "delete" \in g.on => g.on = {"delete"}
    BY <2>2 DEF Fit
  <2> QED
    BY <2>2, <2>3 DEF Shaped, Fit
<1> QED
  BY <1>1, <1>2, <1>3

LEMMA DeleteControls ==
  ASSUME NEW f, Shaped(f), Fit(f), NEW g \in DeleteAction(f)
  PROVE  Shaped(g) /\ Fit(g)
<1>1. \/ \E m : g = [f EXCEPT !.mode = m]
      \/ g = [f EXCEPT !.hardlinks = ~@]
  BY DEF DeleteAction
<1>2. Leaves(f, g)
  BY <1>1 DEF Leaves, Shaped, Fields
<1> QED
  BY <1>2, LeavingFits

LEMMA SwitchedIs ==
  ASSUME NEW t \in TagActions, NEW x \in Switched(t)
  PROVE  x \in TagActions
BY DEF Switched, TagActions

LEMMA RemoveAtKeeps ==
  ASSUME NEW X, NEW q \in Seq(X), NEW i \in DOMAIN q
  PROVE  RemoveAt(q, i) \in Seq(X)
<1>1. SubSeq(q, 1, i - 1) \in Seq(X) /\ SubSeq(q, i + 1, Len(q)) \in Seq(X)
  OBVIOUS
<1> QED
  BY <1>1 DEF RemoveAt

\* The tag actions stay such through their switches, and as they are added and removed.
LEMMA TagControls ==
  ASSUME NEW f, Shaped(f), Fit(f), NEW g \in TagAction(f)
  PROVE  Shaped(g) /\ Fit(g)
<1> DEFINE With(tags) == [f EXCEPT !.tags = tags]
<1>1. ASSUME NEW tags \in Seq(TagActions), g = With(tags)
      PROVE  Shaped(g) /\ Fit(g)
  BY <1>1 DEF Shaped, Fit, Fields
<1>2. ASSUME NEW i \in DOMAIN f.tags, NEW x, x \in TagActions, g = [f EXCEPT !.tags[i] = x]
      PROVE  Shaped(g) /\ Fit(g)
  <2>1. g = With([f.tags EXCEPT ![i] = x])
    BY <1>2
  <2>2. [f.tags EXCEPT ![i] = x] \in Seq(TagActions)
    BY <1>2 DEF Shaped
  <2> QED
    BY <1>1, <2>1, <2>2
<1>3. CASE g = [f EXCEPT !.tags = Append(@, createDefaultTagAction)]
  <2>1. createDefaultTagAction \in TagActions
    BY DEF createDefaultTagAction, TagActions
  <2>2. Append(f.tags, createDefaultTagAction) \in Seq(TagActions)
    BY <2>1 DEF Shaped
  <2>3. g = With(Append(f.tags, createDefaultTagAction))
    BY <1>3
  <2> QED
    BY <1>1, <2>2, <2>3
<1>4. ASSUME NEW i \in DOMAIN f.tags, g = [f EXCEPT !.tags = RemoveAt(@, i)]
      PROVE  Shaped(g) /\ Fit(g)
  <2>1. RemoveAt(f.tags, i) \in Seq(TagActions)
    BY RemoveAtKeeps DEF Shaped
  <2>2. g = With(RemoveAt(f.tags, i))
    BY <1>4
  <2> QED
    BY <1>1, <2>1, <2>2
<1>5. ASSUME NEW i \in DOMAIN f.tags, NEW x \in Switched(f.tags[i]), g = [f EXCEPT !.tags[i] = x]
      PROVE  Shaped(g) /\ Fit(g)
  <2>1. f.tags[i] \in TagActions
    BY <1>5 DEF Shaped
  <2>2. x \in TagActions
    BY <1>5, <2>1, SwitchedIs
  <2> QED
    BY <1>2, <1>5, <2>2
<1>6. \/ g \in {[f EXCEPT !.tags = Append(@, createDefaultTagAction)]}
      \/ g \in {[f EXCEPT !.tags = RemoveAt(@, i)] : i \in IF Len(f.tags) > 1 THEN DOMAIN f.tags ELSE {}}
      \/ g \in UNION {{[f EXCEPT !.tags[i] = x] : x \in Switched(f.tags[i])} : i \in DOMAIN f.tags}
  <2>1. "tag" \in f.on
    BY DEF TagAction
  <2> QED
    BY <2>1, Zenon DEF TagAction
<1>7. CASE g \in {[f EXCEPT !.tags = RemoveAt(@, i)] : i \in IF Len(f.tags) > 1 THEN DOMAIN f.tags ELSE {}}
  <2>1. PICK i \in DOMAIN f.tags : g = [f EXCEPT !.tags = RemoveAt(@, i)]
    BY <1>7
  <2> QED
    BY <1>4, <2>1
<1>8. CASE g \in UNION {{[f EXCEPT !.tags[i] = x] : x \in Switched(f.tags[i])} : i \in DOMAIN f.tags}
  <2>1. PICK i \in DOMAIN f.tags : g \in {[f EXCEPT !.tags[i] = x] : x \in Switched(f.tags[i])}
    BY <1>8
  <2>2. PICK x \in Switched(f.tags[i]) : g = [f EXCEPT !.tags[i] = x]
    BY <2>1
  <2> QED
    BY <1>5, <2>1, <2>2
<1> QED
  BY <1>3, <1>6, <1>7, <1>8

\* And so do the score rules.
LEMMA ScoreControls ==
  ASSUME NEW f, Shaped(f), Fit(f), NEW g \in Sorting(f)
  PROVE  Shaped(g) /\ Fit(g)
<1> DEFINE With(scores) == [f EXCEPT !.scores = scores]
<1>1. ASSUME NEW scores \in Seq(ScoreRules), g = With(scores)
      PROVE  Shaped(g) /\ Fit(g)
  BY <1>1 DEF Shaped, Fit, Fields
<1>2. CASE (\E s : g = [f EXCEPT !.sort = s]) \/ g = [f EXCEPT !.down = ~@]
  <2>1. Leaves(f, g)
    BY <1>2 DEF Leaves, Shaped, Fields
  <2> QED
    BY <2>1, LeavingFits
<1>3. CASE g = [f EXCEPT !.scores = Append(@, NewScore)]
  <2>1. NewScore \in ScoreRules
    BY DEF NewScore, ScoreRules
  <2>2. Append(f.scores, NewScore) \in Seq(ScoreRules)
    BY <2>1 DEF Shaped
  <2>3. g = With(Append(f.scores, NewScore))
    BY <1>3
  <2> QED
    BY <1>1, <2>2, <2>3
<1>4. ASSUME NEW i \in DOMAIN f.scores, NEW x \in ScoreRules, g = [f EXCEPT !.scores[i] = x]
      PROVE  Shaped(g) /\ Fit(g)
  <2>1. g = With([f.scores EXCEPT ![i] = x])
    BY <1>4
  <2>2. [f.scores EXCEPT ![i] = x] \in Seq(ScoreRules)
    BY <1>4 DEF Shaped
  <2> QED
    BY <1>1, <2>1, <2>2
<1>5. ASSUME NEW i \in DOMAIN f.scores,
             g = [f EXCEPT !.scores[i].number = ~@] \/ g = [f EXCEPT !.scores[i].bare = ~@]
      PROVE  Shaped(g) /\ Fit(g)
  <2> DEFINE s == f.scores[i]
             x == [s EXCEPT !.number = ~@]
             y == [s EXCEPT !.bare = ~@]
  <2>1. s \in ScoreRules
    BY DEF Shaped
  <2>2. x \in ScoreRules /\ y \in ScoreRules
    BY <2>1 DEF ScoreRules
  <2>3. g = [f EXCEPT !.scores[i] = x] \/ g = [f EXCEPT !.scores[i] = y]
    BY <1>5
  <2> HIDE DEF x, y
  <2> QED
    BY <1>4, <2>2, <2>3
<1>6. ASSUME NEW i \in DOMAIN f.scores, g = [f EXCEPT !.scores = RemoveAt(@, i)]
      PROVE  Shaped(g) /\ Fit(g)
  <2>1. RemoveAt(f.scores, i) \in Seq(ScoreRules)
    BY RemoveAtKeeps DEF Shaped
  <2>2. g = With(RemoveAt(f.scores, i))
    BY <1>6
  <2> QED
    BY <1>1, <2>1, <2>2
<1>7. \/ \E s : g = [f EXCEPT !.sort = s]
      \/ g = [f EXCEPT !.down = ~@]
      \/ g = [f EXCEPT !.scores = Append(@, NewScore)]
      \/ \E i \in DOMAIN f.scores : g = [f EXCEPT !.scores[i].number = ~@]
      \/ \E i \in DOMAIN f.scores : g = [f EXCEPT !.scores[i].bare = ~@]
      \/ \E i \in DOMAIN f.scores : g = [f EXCEPT !.scores = RemoveAt(@, i)]
  BY DEF Sorting
<1> QED
  BY <1>2, <1>3, <1>5, <1>6, <1>7

-----------------------------------------------------------------------------
(***************************************************************************)
(* The invariant.                                                          *)
(***************************************************************************)
LEMMA FormStart ==
  FormInit => FormInv
<1> SUFFICES ASSUME FormInit PROVE FormInv
  OBVIOUS
<1>1. /\ mine = FALSE /\ isOpen = FALSE /\ form = emptyFormState /\ known \in BOOLEAN
      /\ customs \in BOOLEAN /\ access \in BOOLEAN
      /\ touched = FALSE /\ cold = FALSE /\ edits = 0
  BY DEF FormInit
<1>2. \A f \in Samples : Shaped(f)
  <2> SUFFICES ASSUME NEW x \in SampleChoices PROVE Shaped(Sample(x))
    BY DEF Samples
  <2>1. /\ DOMAIN Sample(x) = Fields /\ Sample(x).on = x.on
        /\ Sample(x).tags = emptyFormState.tags
        /\ Sample(x).scores = IF x.sort = "score" THEN <<NewScore>> ELSE <<>>
    BY EmptyForm DEF Sample, Fields
  <2>2. x.on \subseteq Actions
    BY DEF SampleChoices
  <2>3. NewScore \in ScoreRules
    BY DEF NewScore, ScoreRules
  <2>4. <<NewScore>> \in Seq(ScoreRules) /\ <<>> \in Seq(ScoreRules)
    BY <2>3, EmptySeq
  <2>5. Sample(x).scores \in Seq(ScoreRules)
    BY <2>1, <2>4
  <2> QED
    BY <2>1, <2>2, <2>5, EmptyForm DEF Shaped
<1>3. rule = {} \/ \E p : rule = {p} /\ RuleFits(p)
  <2>1. CASE rule = {}
    BY <2>1
  <2>2. CASE rule # {}
    <3>1. PICK f \in Samples : /\ rule = {buildPayload(f)}
                               /\ \E local \in BOOLEAN : validatePayload(buildPayload(f), local)
      BY <2>2 DEF FormInit
    <3> QED
      BY <1>2, <3>1, ServedFits
  <2> QED
    BY <2>1, <2>2
<1>4. MaxEdits \in Nat
  BY FormAssumption
<1>5. edits \in 0 .. MaxEdits
  BY <1>1, <1>4
<1>6. MineIsPayload /\ ReopenKeeps
  BY <1>1 DEF MineIsPayload, ReopenKeeps
<1> QED
  BY <1>1, <1>3, <1>5, <1>6, EmptyForm DEF FormInv

\* Hydrating: the effects leave a rule that this dialog stored as it was.
LEMMA HydrationKeeps ==
  ASSUME FormInv, NEW merge \in BOOLEAN, Hydration(merge), isOpen' = TRUE, customs' = merge,
         UNCHANGED <<rule, mine, known, access, edits>>
  PROVE  FormInv'
<1>1. /\ touched' = FALSE /\ cold' = ~known
      /\ form' = IF rule = {} THEN emptyFormState
                 ELSE Settled(Hydrate(CHOOSE p \in rule : TRUE, merge))
  BY DEF Hydration
<1>2. MineIsPayload'
  BY DEF FormInv, MineIsPayload
<1>3. /\ (mine \in BOOLEAN /\ isOpen \in BOOLEAN /\ touched \in BOOLEAN /\ cold \in BOOLEAN)'
      /\ (known \in BOOLEAN /\ customs \in BOOLEAN /\ access \in BOOLEAN)'
      /\ (edits \in 0 .. MaxEdits)' /\ (rule = {} \/ \E p : rule = {p} /\ RuleFits(p))'
  BY <1>1 DEF FormInv
<1>4. CASE rule = {}
  <2>1. ~mine
    BY <1>4 DEF FormInv, MineIsPayload
  <2>2. form' = emptyFormState
    BY <1>1, <1>4
  <2>3. Shaped(form') /\ Fit(form') /\ Rests(form)'
    BY <2>2, EmptyForm DEF Rests, Corrected
  <2>4. ReopenKeeps'
    BY <2>1 DEF ReopenKeeps
  <2> QED
    BY <1>2, <1>3, <2>3, <2>4 DEF FormInv
<1>5. CASE rule # {}
  <2>1. PICK p : rule = {p} /\ RuleFits(p)
    BY <1>5 DEF FormInv
  <2>2. form' = Settled(Hydrate(p, merge))
    BY <1>1, <2>1
  <2>3. Shaped(form') /\ Fit(form') /\ Rests(form')
    BY <2>1, <2>2, HydrateFits, SettledRests
  <2>4. Rests(form)'
    BY <2>3 DEF Rests, supportsFreeSpacePathSource
  <2>5. ReopenKeeps'
    <3> SUFFICES ASSUME mine
                 PROVE  buildPayload(form') =
                          Replaced(p, mapDomainsToOptionValues(p.trackers, merge),
                                   IF known THEN p.source ELSE {})
      BY <1>1, <2>1 DEF ReopenKeeps, FormInv, Replaced
    <3>1. PICK f : Shaped(f) /\ Corrected(f) /\ rule = {buildPayload(f)}
      BY DEF FormInv, MineIsPayload
    <3>2. p = buildPayload(f)
      BY <2>1, <3>1
    <3> QED
      BY <2>1, <2>2, <3>1, <3>2, ReopenReturns
  <2> QED
    BY <1>2, <1>3, <2>3, <2>4, <2>5 DEF FormInv
<1> QED
  BY <1>4, <1>5

\* A closed form is the empty one.
LEMMA CloseKeeps ==
  ASSUME FormInv, CloseForm, edits' = edits, mine' \in BOOLEAN,
         known' \in BOOLEAN, customs' \in BOOLEAN, access' \in BOOLEAN,
         (rule = {} \/ \E p : rule = {p} /\ RuleFits(p))', MineIsPayload'
  PROVE  FormInv'
<1>1. isOpen' = FALSE /\ form' = emptyFormState /\ touched' = FALSE /\ cold' = FALSE
  BY DEF CloseForm
<1>2. Shaped(form') /\ Fit(form') /\ Rests(form)'
  BY <1>1, EmptyForm DEF Rests, Corrected
<1>3. ReopenKeeps'
  BY <1>1 DEF ReopenKeeps
<1> QED
  BY <1>1, <1>2, <1>3 DEF FormInv

LEMMA EditKeeps ==
  ASSUME FormInv, NEW S, Edit(S), \A f \in S : Shaped(f) /\ Fit(f)
  PROVE  FormInv'
<1>1. PICK f \in S : form' = Settled(f)
  BY DEF Edit
<1>2. Shaped(form') /\ Fit(form') /\ Rests(form')
  BY <1>1, SettledRests
<1>3. touched' = TRUE /\ UNCHANGED <<rule, mine, isOpen, known, customs, access, cold>>
      /\ edits < MaxEdits /\ edits' = edits + 1
  BY DEF Edit, read
<1>4. Rests(form)'
  BY <1>2, <1>3 DEF Rests, supportsFreeSpacePathSource
<1>5. MineIsPayload' /\ ReopenKeeps'
  BY <1>3 DEF FormInv, MineIsPayload, ReopenKeeps
<1>6. edits' \in 0 .. MaxEdits
  BY <1>3, FormAssumption DEF FormInv
<1> QED
  BY <1>2, <1>3, <1>4, <1>5, <1>6 DEF FormInv

\* What is stored is the payload of a form at rest, of which the server approves.
LEMMA StoreKeeps ==
  ASSUME FormInv, NEW f, Shaped(f), Fit(f), Rests(f), isOpen, Store(f)
  PROVE  FormInv'
<1> DEFINE p == buildPayload(f)
<1>1. UNCHANGED <<known, customs, access, edits>>
  BY DEF Store, read
<1>2. CASE validatePayload(p, access)
  <2>1. rule' = {p} /\ mine' = TRUE /\ CloseForm
    BY <1>2 DEF Store
  <2>2. RuleFits(p)
    BY <1>2, ServedFits DEF FormInv
  <2>3. MineIsPayload'
    BY <2>1 DEF MineIsPayload, Rests
  <2> HIDE DEF p
  <2>4. (rule = {} \/ \E x : rule = {x} /\ RuleFits(x))'
    BY <2>1, <2>2
  <2> QED
    BY <1>1, <2>1, <2>3, <2>4, CloseKeeps DEF FormInv
<1>3. CASE ~validatePayload(p, access)
  <2>1. form' = f /\ touched' = (touched \/ f # form) /\ UNCHANGED <<rule, mine, isOpen, cold>>
    BY <1>3 DEF Store
  <2>2. MineIsPayload'
    BY <2>1 DEF MineIsPayload, FormInv
  <2>3. ReopenKeeps'
    BY <1>1, <2>1 DEF ReopenKeeps, FormInv
  <2>4. Rests(form)'
    BY <1>1, <2>1 DEF Rests, supportsFreeSpacePathSource
  <2>5. touched' \in BOOLEAN
    BY <2>1
  <2> QED
    BY <1>1, <2>1, <2>2, <2>3, <2>4, <2>5 DEF FormInv
<1> QED
  BY <1>2, <1>3

\* What arrives, and what is switched or left, beside the edits.
LEMMA SurroundingsKeep ==
  ASSUME FormInv, CapabilitiesArrive \/ CustomizationsArrive \/ AccessSwitched \/ LeavePage
  PROVE  FormInv'
<1>1. CASE CapabilitiesArrive
  <2>1. known' = TRUE
        /\ UNCHANGED <<rule, mine, isOpen, form, customs, access, touched, cold, edits>>
    BY <1>1 DEF CapabilitiesArrive
  <2>2. MineIsPayload' /\ ReopenKeeps'
    BY <2>1 DEF FormInv, MineIsPayload, ReopenKeeps
  <2>3. Rests(form)'
    BY <2>1 DEF FormInv, Rests, supportsFreeSpacePathSource
  <2> QED
    BY <2>1, <2>2, <2>3 DEF FormInv
<1>2. CASE CustomizationsArrive /\ isOpen
  <2>1. /\ Hydration(TRUE) /\ isOpen' = TRUE /\ customs' = TRUE
        /\ UNCHANGED <<rule, mine, known, access, edits>>
    BY <1>2 DEF CustomizationsArrive, FormInv
  <2> QED
    BY <2>1, HydrationKeeps
<1>3. CASE CustomizationsArrive /\ ~isOpen
  <2>1. /\ customs' = TRUE
        /\ UNCHANGED <<rule, mine, isOpen, form, known, access, touched, cold, edits>>
    BY <1>3 DEF CustomizationsArrive
  <2>2. MineIsPayload' /\ ReopenKeeps'
    BY <1>3, <2>1 DEF FormInv, MineIsPayload, ReopenKeeps
  <2>3. Rests(form)'
    BY <2>1 DEF FormInv, Rests, supportsFreeSpacePathSource
  <2> QED
    BY <2>1, <2>2, <2>3 DEF FormInv
<1>4. CASE AccessSwitched
  <2>1. /\ edits < MaxEdits /\ edits' = edits + 1 /\ access' = ~access
        /\ UNCHANGED <<rule, mine, isOpen, form, known, customs, touched, cold>>
    BY <1>4 DEF AccessSwitched
  <2>2. MineIsPayload' /\ ReopenKeeps'
    BY <2>1 DEF FormInv, MineIsPayload, ReopenKeeps
  <2>3. Rests(form)'
    BY <2>1 DEF FormInv, Rests, supportsFreeSpacePathSource
  <2>4. edits' \in 0 .. MaxEdits
    BY <2>1, FormAssumption DEF FormInv
  <2> QED
    BY <2>1, <2>2, <2>3, <2>4 DEF FormInv
<1>5. CASE LeavePage
  <2>1. /\ CloseForm /\ known' = FALSE /\ customs' = FALSE
        /\ UNCHANGED <<rule, mine, access, edits>>
    BY <1>5 DEF LeavePage
  <2>2. MineIsPayload'
    BY <2>1 DEF FormInv, MineIsPayload
  <2> QED
    BY <2>1, <2>2, CloseKeeps DEF FormInv
<1> QED
  BY <1>1, <1>2, <1>3, <1>4, <1>5

LEMMA FormStep ==
  FormInv /\ [FormNext]_formVars => FormInv'
<1> SUFFICES ASSUME FormInv, [FormNext]_formVars PROVE FormInv'
  OBVIOUS
<1>0. Shaped(form) /\ Fit(form) /\ Rests(form)
  BY DEF FormInv
<1>1. CASE Open
  <2>1. /\ Hydration(customs) /\ isOpen' = TRUE /\ customs' = customs /\ customs \in BOOLEAN
        /\ UNCHANGED <<rule, mine, known, access, edits>>
    BY <1>1 DEF Open, read, FormInv
  <2> QED
    BY <2>1, HydrationKeeps
<1>2. CASE CapabilitiesArrive \/ CustomizationsArrive \/ AccessSwitched \/ LeavePage
  BY <1>2, SurroundingsKeep
<1>3. CASE \/ Edit(NameAndTrackers(form)) \/ Edit(Condition(form)) \/ Edit(CustomGroups(form))
           \/ Edit(LimitMode(form)) \/ Edit(LimitValue(form)) \/ Edit(ManageMode(form))
           \/ Edit(MoveAction(form)) \/ Edit(Program(form))
  BY <1>0, <1>3, PlainControls, EditKeeps
<1>4. CASE \/ Edit(CategoryAction(form)) \/ Edit(FreeSpaceSource(form)) \/ Edit(Footer(form))
  BY <1>0, <1>4, OptionalControls, EditKeeps
<1>5. CASE Edit(AddAction(form)) \/ Edit(FirstAction(form)) \/ Edit(RemoveAction(form))
  BY <1>0, <1>5, ActionControls, EditKeeps
<1>6. CASE Edit(TagAction(form)) \/ Edit(DeleteAction(form)) \/ Edit(Sorting(form))
  BY <1>0, <1>6, TagControls, DeleteControls, ScoreControls, EditKeeps
<1>7. CASE Submit
  BY <1>0, <1>7, StoreKeeps DEF Submit
<1>8. CASE EnableThroughPreview
  <2> DEFINE g == [form EXCEPT !.enabled = TRUE]
  <2>1. DOMAIN g = DOMAIN form /\ \A x \in Fields \ {"enabled"} : g[x] = form[x]
    BY <1>0 DEF Shaped, Fields
  <2>2. /\ DOMAIN g = DOMAIN form /\ g.on = form.on /\ g.tags = form.tags
        /\ g.scores = form.scores /\ g.cond = form.cond /\ g.mode = form.mode
        /\ g.interval = form.interval /\ g.source = form.source
    BY <2>1 DEF Fields
  <2>3. isOpen /\ Store(g)
    BY <1>8 DEF EnableThroughPreview
  <2> HIDE DEF g
  <2>4. Shaped(g) /\ Fit(g) /\ Rests(g)
    BY <1>0, <2>2 DEF Shaped, Fit, Rests, Corrected
  <2> QED
    BY <2>3, <2>4, StoreKeeps
<1>9. CASE Cancel
  <2>1. CloseForm /\ UNCHANGED <<rule, mine, known, customs, access, edits>>
    BY <1>9 DEF Cancel, read
  <2>2. MineIsPayload'
    BY <2>1 DEF FormInv, MineIsPayload
  <2> QED
    BY <2>1, <2>2, CloseKeeps DEF FormInv
<1>10. CASE UNCHANGED formVars
  <2>1. UNCHANGED <<rule, mine, isOpen, form, known, customs, access, touched, cold, edits>>
    BY <1>10 DEF formVars, read
  <2>2. MineIsPayload' /\ ReopenKeeps'
    BY <2>1 DEF FormInv, MineIsPayload, ReopenKeeps
  <2>3. Rests(form)'
    BY <2>1 DEF FormInv, Rests, supportsFreeSpacePathSource
  <2> QED
    BY <2>1, <2>2, <2>3 DEF FormInv
<1> QED
  BY <1>1, <1>2, <1>3, <1>4, <1>5, <1>6, <1>7, <1>8, <1>9, <1>10 DEF FormNext

\* Submit leaves no action out: what it asks of each is what makes it be sent.
LEMMA AcceptedSendsAll ==
  ASSUME NEW f, Shaped(f), Accepted(f)
  PROVE  Sent(f) = f.on /\ ("tag" \in f.on => SentTags(f) = f.tags)
<1> DEFINE S == {t \in TagActions : t.tracker \/ t.tags}
<1>1. ASSUME "tag" \in f.on PROVE SentTags(f) = f.tags /\ f.tags # <<>>
  <2>1. validateTagActions(f.tags) /\ f.tags \in Seq(TagActions)
    BY <1>1 DEF Accepted, Shaped
  <2>2. f.tags # <<>> /\ \A i \in DOMAIN f.tags : f.tags[i].tracker \/ f.tags[i].tags
    BY <2>1 DEF validateTagActions
  <2>3. \A i \in DOMAIN f.tags : f.tags[i] \in S
    BY <2>1, <2>2
  <2> HIDE DEF S
  <2>4. f.tags \in Seq(S)
    BY <2>1, <2>3
  <2>5. Keep(f.tags, S) = f.tags
    BY <2>4, KeepAll
  <2>6. SentTags(f) = Keep(f.tags, S)
    BY <1>1 DEF SentTags, S
  <2> QED
    BY <2>2, <2>5, <2>6
<1>2. "move" \in f.on => f.movePath
  BY DEF Accepted
<1>3. "externalProgram" \in f.on => f.program
  BY DEF Accepted
<1> QED
  BY <1>1, <1>2, <1>3 DEF Sent

\* Of a form that fits and rests and that Submit accepts, the server refuses what has a
\* fault that Submit does not look for, and accepts the rest.
LEMMA AcceptedIsServed ==
  ASSUME NEW f, Shaped(f), Fit(f), Rests(f), Accepted(f), access \in BOOLEAN
  PROVE  validatePayload(buildPayload(f), access) <=> ~Unchecked(f)
<1> DEFINE p == buildPayload(f)
           del == [mode |-> f.mode, group |-> f.group,
                   hardlinks |-> f.mode = "include" /\ f.hardlinks]
           cat == [name |-> f.category, crossSeeds |-> f.crossSeeds, block |-> f.block]
           sort == [type |-> f.sort, down |-> f.down, scores |-> SentScores(f)]
<1>0. Sent(f) = f.on
  BY AcceptedSendsAll
<1>a. /\ p.name = f.name /\ p.trackers = f.trackers /\ p.grouping = f.grouping
      /\ p.actions = Sent(f) /\ p.tags = SentTags(f)
      /\ p.cond = IF Sent(f) = {} THEN "none" ELSE f.cond
      /\ p.delete = Opt("delete" \in Sent(f), del)
      /\ p.category = Opt("category" \in Sent(f), cat)
      /\ p.source = IF f.source = "path" THEN f.sourcePath ELSE {}
      /\ p.sorting = Opt(f.sort # "default", sort)
  BY PayloadIs DEF SourceOf
<1>b. /\ sort.type = f.sort /\ sort.scores = SentScores(f) /\ cat.name = f.category
      /\ del.mode = f.mode /\ del.group = f.group
      /\ del.hardlinks = (f.mode = "include" /\ f.hardlinks)
  OBVIOUS
<1> HIDE DEF p, del, cat, sort
<1>1. /\ p.name /\ p.trackers # {} /\ p.actions = f.on /\ f.on # {} /\ p.cond = f.cond
      /\ p.grouping = f.grouping
      /\ p.delete = (IF "delete" \in f.on THEN {del} ELSE {})
      /\ p.category = (IF "category" \in f.on THEN {cat} ELSE {})
      /\ p.sorting = (IF f.sort # "default" THEN {sort} ELSE {})
  BY <1>0, <1>a DEF Opt, Accepted
<1>2. \A c \in p.category : c.name # {}
  BY <1>1, <1>b DEF Accepted
<1>3. "delete" \in p.actions => p.cond # "none" /\ p.actions = {"delete"}
  BY <1>1 DEF Fit, Accepted
<1>4. (\A s \in p.sorting : s.type = "score" => s.scores # <<>>)
        <=> ~(f.sort = "score" /\ SentScores(f) = <<>>)
  BY <1>1, <1>b
<1>5. (\A d \in p.delete : /\ p.cond = "free" => d.mode # "delete"
                           /\ d.group # {} => d.mode = "delete"
                           /\ d.hardlinks => d.mode = "include" /\ access)
        <=> /\ ~("delete" \in f.on /\ f.mode = "include" /\ f.hardlinks /\ ~access)
            /\ ~("delete" \in f.on /\ f.mode # "delete" /\ f.group # {})
  <2>1. CASE "delete" \in f.on
    <3>1. p.delete = {del}
      BY <1>1, <2>1
    <3>2. f.cond = "free" => f.mode # "delete"
      BY <2>1 DEF Rests, Corrected
    <3> QED
      BY <1>1, <1>b, <2>1, <3>1, <3>2
  <2>2. CASE "delete" \notin f.on
    BY <1>1, <2>2
  <2> QED
    BY <2>1, <2>2
<1>6. \A i \in DOMAIN p.tags : p.tags[i].replace => ~p.tags[i].tracker /\ p.tags[i].tags
  <2>1. CASE "tag" \in f.on
    <3>1. p.tags = f.tags
      BY <1>a, <2>1, AcceptedSendsAll
    <3>2. validateTagActions(f.tags)
      BY <2>1 DEF Accepted
    <3> QED
      BY <3>1, <3>2 DEF validateTagActions
  <2>2. CASE "tag" \notin f.on
    <3>1. p.tags = <<>>
      BY <1>a, <2>2 DEF SentTags
    <3> QED
      BY <3>1
  <2> QED
    BY <2>1, <2>2
<1>7. (p.source # {} => PathSupported /\ (p.cond = "free" => access /\ p.source = {"clean"}))
        <=> ~(f.cond = "free" /\ f.source = "path" /\ f.sourcePath # {"clean"})
  <2>1. f.source = "path" => PathSupported
    BY DEF Rests, supportsFreeSpacePathSource
  <2>2. f.cond = "free" /\ f.source = "path" => access /\ f.sourcePath # {}
    BY DEF Accepted, validateFreeSpaceSource
  <2> QED
    BY <1>1, <1>a, <2>1, <2>2
<1>8. /\ (p.cond = "local" => access) <=> ~(f.cond = "local" /\ ~access)
      /\ (p.cond = "grouped" => p.grouping) <=> ~(f.cond = "grouped" /\ ~f.grouping)
  BY <1>1
<1> QED
  BY <1>1, <1>2, <1>3, <1>4, <1>5, <1>6, <1>7, <1>8 DEF validatePayload, Unchecked, p

LEMMA FormInvGives ==
  FormInv => ReopenKeeps /\ FormFits /\ FormTypeOK
<1> SUFFICES ASSUME FormInv PROVE ReopenKeeps /\ FormFits /\ FormTypeOK
  OBVIOUS
<1>1. Shaped(form) /\ Fit(form) /\ Rests(form) /\ ReopenKeeps
  BY DEF FormInv
<1>2. FormFits
  <2>1. Accepted(form) => (validatePayload(buildPayload(form), access) <=> ~Unchecked(form))
    BY <1>1, AcceptedIsServed DEF FormInv
  <2> QED
    BY <1>1, <2>1 DEF FormFits, Fit, Rests, Corrected
<1>3. Cardinality(rule) <= 1 /\ \A p \in rule : \E local \in BOOLEAN : validatePayload(p, local)
  <2>1. CASE rule = {}
    BY <2>1, FS_EmptySet
  <2>2. CASE \E p : rule = {p} /\ RuleFits(p)
    <3>1. PICK p : rule = {p} /\ RuleFits(p)
      BY <2>2
    <3>2. Cardinality({p}) = 1
      BY FS_Singleton
    <3> QED
      BY <3>1, <3>2 DEF RuleFits
  <2> QED
    BY <2>1, <2>2 DEF FormInv
<1>4. DOMAIN form = DOMAIN emptyFormState /\ form.on \subseteq Actions
  BY <1>1, EmptyForm DEF Shaped
<1> QED
  BY <1>1, <1>2, <1>3, <1>4 DEF FormTypeOK, FormInv

\* Whatever is edited, previewed, stored, refused, canceled and opened again, and whenever
\* capabilities and customizations arrive, the form keeps its invariant: the effects have
\* nothing left to correct in it (WorkflowDialog).
THEOREM FormKeepsFit ==
  FormSpec => []FormInv
BY FormStart, FormStep, PTL DEF FormSpec

\* Opening a rule that this dialog stored, and saving it unchanged, stores the same rule
\* with its domains grown to their customizations, and without its path for the free space
\* if the capabilities had not arrived: the hydration effect undoes buildPayload for every
\* form, every choice of limits, of customizations and every sequence of tag actions.
THEOREM ReopeningKeepsTheRule ==
  FormSpec => []ReopenKeeps
BY FormKeepsFit, FormInvGives, PTL

\* What Submit accepts the server accepts unless the form has one of the faults that Submit
\* does not look for, and those it refuses; delete stays alone, and it never keeps the files
\* while it waits for free space (handleSubmit, validatePayload).
THEOREM FormsFitTheServer ==
  FormSpec => []FormFits
BY FormKeepsFit, FormInvGives, PTL

\* At most one rule is stored, and the server approved of it with the access that the
\* instance had; the form has its fields.
THEOREM FormTyped ==
  FormSpec => []FormTypeOK
BY FormKeepsFit, FormInvGives, PTL

-----------------------------------------------------------------------------
(***************************************************************************)
(* The list and the editor. No rule is enabled without a preview, and the  *)
(* live preview is of the form as it is.                                   *)
(***************************************************************************)
AnyForm ==
  [content : Contents \cup {"none", "empty"}, enabled : BOOLEAN, dryRun : BOOLEAN]

RuleKinds == {"live", "preview", "save", "regex", "toggle", "enablePreview"}

Made == [kind : RuleKinds, id : Int, target : Rules \cup {0}, form : AnyForm,
         warned : BOOLEAN, latest : BOOLEAN, sent : BOOLEAN]

EditorTypes ==
  /\ saved \in [Rules -> AnyForm] /\ overview \in [Rules -> AnyForm]
  /\ editor \in [open : BOOLEAN, target : Rules \cup {0}, base : AnyForm, form : AnyForm]
  /\ confirm \in [show : BOOLEAN, loading : BOOLEAN, input : AnyForm, result : AnyForm,
                  before : SUBSET BOOLEAN]
  /\ enable \in [show : BOOLEAN, loading : BOOLEAN, target : Rules \cup {0}, rule : AnyForm,
                 result : AnyForm]
  /\ live \in [loading : BOOLEAN, timer : AnyForm, result : AnyForm]
  /\ requests \subseteq Made /\ gestures \in Int

\* Only what needs a preview is previewed.
PreviewsWarn ==
  \A r \in requests : r.kind \in {"preview", "enablePreview"} => NeedsPreview(r.form)

\* A dialog that can be confirmed shows a preview.
ConfirmWarns ==
  /\ confirm.show /\ ~confirm.loading => NeedsPreview(confirm.result)
  /\ enable.show /\ ~enable.loading => NeedsPreview(enable.result)

\* The live preview that counts, and the one about to be asked for, are of the form.
LiveFollows ==
  /\ \A r \in requests : r.kind = "live" /\ r.latest => r.form = LivePayload(editor)
  /\ live.timer # NoForm => live.timer = LivePayload(editor)

EditorInv ==
  /\ EditorTypes /\ PreviewsWarn /\ ConfirmWarns /\ LiveFollows
  /\ NoSilentActivation /\ LivePreviewCurrent

-----------------------------------------------------------------------------
LEMMA NoneIsHarmless == "none" \notin Destructive
BY EditorAssumption

(***************************************************************************)
(* Requests: what the hooks do with those under way.                       *)
(***************************************************************************)
Stems(s, r) ==
  s.kind = r.kind /\ s.form = r.form /\ s.warned = r.warned /\ (s.latest => r.latest)

\* A new request that outdates others keeps what they carry.
LEMMA SupersededKeeps ==
  ASSUME NEW R \in SUBSET Made, NEW K
  PROVE  /\ Superseded(R, K) \subseteq Made
         /\ \A s \in Superseded(R, K) :
              \E r \in R : Stems(s, r) /\ (s.latest => s.kind \notin K)
<1>1. ASSUME NEW r \in R
      PROVE  /\ [r EXCEPT !.latest = FALSE] \in Made
             /\ Stems([r EXCEPT !.latest = FALSE], r) /\ ~[r EXCEPT !.latest = FALSE].latest
             /\ Stems(r, r)
  <2>1. r \in Made
    OBVIOUS
  <2>2. QED
    BY <2>1 DEF Made, Stems
<1>2. ASSUME NEW s \in Superseded(R, K)
      PROVE  s \in Made /\ \E r \in R : Stems(s, r) /\ (s.latest => s.kind \notin K)
  <2>1. PICK r \in R : s = IF r.kind \in K THEN [r EXCEPT !.latest = FALSE] ELSE r
    BY DEF Superseded
  <2>2. CASE r.kind \in K
    BY <1>1, <2>1, <2>2 DEF Stems
  <2>3. CASE r.kind \notin K
    BY <1>1, <2>1, <2>3 DEF Stems
  <2>4. QED
    BY <2>2, <2>3
<1>3. QED
  BY <1>2

\* A mutation adds its request.
LEMMA MutateAdds ==
  ASSUME NEW R \in SUBSET Made, NEW q \in Made
  PROVE  /\ mutate(R, q) \subseteq Made
         /\ \A s \in mutate(R, q) : s = q \/ \E r \in R : Stems(s, r)
  BY SupersededKeeps DEF mutate

LEMMA RequestIsMade ==
  ASSUME NEW k \in RuleKinds, NEW id \in Int, NEW t \in Rules \cup {0}, NEW f \in AnyForm,
         NEW w \in BOOLEAN
  PROVE  /\ RuleRequest(k, id, t, f, w) \in Made
         /\ RuleRequest(k, id, t, f, w).kind = k /\ RuleRequest(k, id, t, f, w).form = f
         /\ RuleRequest(k, id, t, f, w).warned = w
  BY DEF RuleRequest, Made

LEMMA Forms_ ==
  /\ NoForm \in AnyForm /\ emptyForm \in AnyForm
  /\ \A f \in AnyForm : /\ Hydrated(f) \in AnyForm /\ Toggled(f) \in AnyForm
                         /\ Toggled(f).content = f.content /\ Toggled(f).enabled = ~f.enabled
  BY DEF NoForm, emptyForm, AnyForm, Hydrated, Toggled

LEMMA PayloadIsForm ==
  ASSUME NEW d \in [open : BOOLEAN, target : Rules \cup {0}, base : AnyForm, form : AnyForm]
  PROVE  LivePayload(d) \in AnyForm
  BY Forms_ DEF LivePayload

\* The live preview follows a change of the dialog, whatever it is.
LEMMA FollowKeeps ==
  ASSUME EditorTypes, NEW d, NEW R, Follow(d, R), R \subseteq Made,
         d \in [open : BOOLEAN, target : Rules \cup {0}, base : AnyForm, form : AnyForm]
  PROVE  /\ editor' = d /\ requests' \subseteq Made
         /\ live' \in [loading : BOOLEAN, timer : AnyForm, result : AnyForm]
         /\ \A s \in requests' : \E r \in R : Stems(s, r)
         /\ LiveFollows' /\ LivePreviewCurrent'
<1>1. editor' = d /\ requests' = Superseded(R, {"live"})
  BY DEF Follow
<1>2. /\ live'.loading = (LivePayload(d) # NoForm) /\ live'.timer = LivePayload(d)
      /\ live'.result = IF LivePayload(d) = NoForm THEN NoForm ELSE live.result
      /\ live' \in [loading : BOOLEAN, timer : AnyForm, result : AnyForm]
  BY PayloadIsForm, Forms_ DEF Follow, EditorTypes
<1>3. requests' \subseteq Made
  BY <1>1, SupersededKeeps
<1>4. \A s \in requests' : \E r \in R : Stems(s, r) /\ (s.latest => s.kind \notin {"live"})
  BY <1>1, SupersededKeeps
<1>5. LivePayload(d)' = LivePayload(editor)'
  BY <1>1
<1>6. LiveFollows'
  BY <1>1, <1>2, <1>4 DEF LiveFollows
<1>7. LivePreviewCurrent'
  BY <1>1, <1>2 DEF LivePreviewCurrent
<1>8. QED
  BY <1>1, <1>2, <1>3, <1>4, <1>6, <1>7

-----------------------------------------------------------------------------
(***************************************************************************)
(* A step that only carries requests on, or adds harmless ones.            *)
(***************************************************************************)
Harmless(r) ==
  /\ r.kind \in {"preview", "enablePreview"} => NeedsPreview(r.form)
  /\ r.kind \in {"save", "toggle"} /\ Active(r.form) => r.warned

\* Each request stems from an earlier one or may be made.
LEMMA RequestsStayHarmless ==
  ASSUME PreviewsWarn, NoSilentActivation,
         \A s \in requests' : Harmless(s) \/ \E r \in requests : Stems(s, r)
  PROVE  PreviewsWarn' /\ NoSilentActivation'
<1>1. \A s \in requests' : Harmless(s)
  BY DEF PreviewsWarn, NoSilentActivation, Harmless, Stems
<1>2. QED
  BY <1>1 DEF PreviewsWarn, NoSilentActivation, Harmless, NeedsPreview, Active

\* A step that leaves the dialog alone and asks for no live preview.
LEMMA LiveStays ==
  ASSUME LiveFollows, LivePreviewCurrent, UNCHANGED <<editor, live>>,
         \A s \in requests' : s.kind # "live" \/ \E r \in requests : Stems(s, r)
  PROVE  LiveFollows' /\ LivePreviewCurrent'
<1>1. LivePayload(editor)' = LivePayload(editor)
  BY DEF LivePayload, NeedsPreview, NoForm
<1>2. LiveFollows'
  BY <1>1 DEF LiveFollows, Stems
<1>3. LivePreviewCurrent'
  BY <1>1 DEF LivePreviewCurrent
<1>4. QED
  BY <1>2, <1>3

LEMMA StemsSelf == \A r \in requests : Stems(r, r)
  BY DEF Stems

-----------------------------------------------------------------------------
(***************************************************************************)
(* The dialog: each of its changes is followed by the live preview.        *)
(***************************************************************************)
DialogType ==
  [open : BOOLEAN, target : Rules \cup {0}, base : AnyForm, form : AnyForm]

\* A change of the dialog alone.
LEMMA FollowKeepsInv ==
  ASSUME EditorInv, NEW d \in DialogType, NEW R \in SUBSET requests, Follow(d, R),
         saved' \in [Rules -> AnyForm], overview' \in [Rules -> AnyForm],
         confirm' = confirm \/ confirm' = [confirm EXCEPT !.show = FALSE, !.result = NoForm,
                                                         !.input = NoForm],
         enable' = enable, gestures' \in Int
  PROVE  EditorInv'
<1>1. R \subseteq Made
  BY DEF EditorInv, EditorTypes
<1>2. /\ editor' = d /\ requests' \subseteq Made
      /\ live' \in [loading : BOOLEAN, timer : AnyForm, result : AnyForm]
      /\ \A s \in requests' : \E r \in R : Stems(s, r)
      /\ LiveFollows' /\ LivePreviewCurrent'
  BY <1>1, FollowKeeps DEF EditorInv, DialogType
<1>3. confirm' \in [show : BOOLEAN, loading : BOOLEAN, input : AnyForm, result : AnyForm,
                    before : SUBSET BOOLEAN]
  BY Forms_ DEF EditorInv, EditorTypes
<1>4. EditorTypes'
  BY <1>2, <1>3 DEF EditorInv, EditorTypes, DialogType
<1>5. PreviewsWarn' /\ NoSilentActivation'
  BY <1>2, RequestsStayHarmless DEF EditorInv
<1>6. ConfirmWarns'
  BY DEF EditorInv, EditorTypes, ConfirmWarns, NeedsPreview
<1>7. QED
  BY <1>2, <1>4, <1>5, <1>6 DEF EditorInv

LEMMA OpenDialogKeeps ==
  ASSUME EditorInv, NEW t \in Rules \cup {0}, NEW base \in AnyForm, OpenDialog(t, base)
  PROVE  EditorInv'
<1>1. [open |-> TRUE, target |-> t, base |-> base, form |-> Hydrated(base)] \in DialogType
  BY Forms_ DEF DialogType
<1>2. QED
  BY <1>1, FollowKeepsInv DEF OpenDialog, Act, EditorInv, EditorTypes

LEMMA CustomizationsChangeKeeps ==
  ASSUME EditorInv, CustomizationsChange  PROVE EditorInv'
<1>1. [editor EXCEPT !.form = Hydrated(editor.base)] \in DialogType
  BY Forms_ DEF DialogType, EditorInv, EditorTypes
<1>2. QED
  BY <1>1, FollowKeepsInv DEF CustomizationsChange, EditorInv, EditorTypes

LEMMA CloseDialogKeeps ==
  ASSUME EditorInv, CloseDialog  PROVE EditorInv'
<1>1. Closed(editor) \in DialogType
  BY DEF DialogType, EditorInv, EditorTypes, Closed
<1>2. QED
  BY <1>1, FollowKeepsInv DEF CloseDialog, Act, EditorInv, EditorTypes

LEMMA EditContentKeeps ==
  ASSUME EditorInv, NEW c \in Contents, EditContent(c)  PROVE EditorInv'
<1> DEFINE starts == c \in Deletes /\ editor.form.content \notin Deletes /\ editor.target = 0
           d == [editor EXCEPT !.form.content = c, !.form.enabled = @ /\ ~starts]
<1>1. starts \in BOOLEAN
  OBVIOUS
<1>2. d \in DialogType
  BY <1>1 DEF DialogType, EditorInv, EditorTypes, AnyForm
<1>3. Follow(d, requests)
  BY DEF EditContent
<1>4. QED
  BY <1>2, <1>3, FollowKeepsInv DEF EditContent, Act, EditorInv, EditorTypes

\* The answer to a save closes the dialog and the preview.
LEMMA SaveSuccessKeeps ==
  ASSUME EditorInv, NEW r \in requests, SaveSuccess(r)  PROVE EditorInv'
<1>1. Closed(editor) \in DialogType
  BY DEF DialogType, EditorInv, EditorTypes, Closed
<1>2. QED
  BY <1>1, FollowKeepsInv DEF SaveSuccess, EditorInv, EditorTypes

(***************************************************************************)
(* The switch of the dialog: what it enables is previewed first.           *)
(***************************************************************************)
LEMMA applyEnabledChangeKeeps ==
  ASSUME EditorInv, NEW checked \in BOOLEAN, NEW force \in BOOLEAN,
         applyEnabledChange(checked, force),
         UNCHANGED <<saved, overview, enable>>, gestures' \in Int
  PROVE  EditorInv'
<1> DEFINE f == [editor.form EXCEPT !.enabled = checked, !.dryRun = @ \/ force]
           q == RuleRequest("preview", gestures, editor.target, f, FALSE)
           d == [editor EXCEPT !.form = f]
<1>1. f \in AnyForm
  BY DEF EditorInv, EditorTypes, AnyForm
<1>2. d \in DialogType
  BY <1>1 DEF DialogType, EditorInv, EditorTypes
<1>3. q \in Made /\ q.kind = "preview" /\ q.form = f
  <2>1. /\ "preview" \in RuleKinds /\ editor.target \in Rules \cup {0} /\ gestures \in Int
        /\ FALSE \in BOOLEAN
    BY DEF RuleKinds, EditorInv, EditorTypes
  <2> HIDE DEF f
  <2>2. QED
    BY <1>1, <2>1 DEF RuleRequest, Made, RuleKinds
<1>4. CASE checked /\ NeedsPreview(f)
  <2>1. /\ confirm' = [confirm EXCEPT !.show = TRUE, !.loading = TRUE, !.result = NoForm,
                                      !.before = {editor.form.enabled}]
        /\ Follow(d, mutate(requests, q))
    BY <1>4 DEF applyEnabledChange
  <2>2. /\ mutate(requests, q) \subseteq Made
        /\ \A s \in mutate(requests, q) : s = q \/ \E r \in requests : Stems(s, r)
    BY <1>3, MutateAdds DEF EditorInv, EditorTypes
  <2>3. /\ editor' = d /\ requests' \subseteq Made
        /\ live' \in [loading : BOOLEAN, timer : AnyForm, result : AnyForm]
        /\ \A s \in requests' : \E r \in mutate(requests, q) : Stems(s, r)
        /\ LiveFollows' /\ LivePreviewCurrent'
    BY <1>2, <2>1, <2>2, FollowKeeps DEF EditorInv, DialogType
  <2>4. confirm' \in [show : BOOLEAN, loading : BOOLEAN, input : AnyForm, result : AnyForm,
                      before : SUBSET BOOLEAN] /\ confirm'.loading
    BY <2>1, Forms_ DEF EditorInv, EditorTypes, AnyForm
  <2>5. EditorTypes'
    BY <1>2, <2>3, <2>4 DEF EditorInv, EditorTypes, DialogType
  <2>6. \A s \in requests' : Harmless(s) \/ \E r \in requests : Stems(s, r)
    <3>1. TAKE s \in requests'
    <3>2. PICK p \in mutate(requests, q) : Stems(s, p)
      BY <2>3
    <3>3. CASE p = q
      BY <1>3, <1>4, <3>2, <3>3 DEF Stems, Harmless
    <3>4. CASE p # q
      <4>1. PICK r \in requests : Stems(p, r)
        BY <2>2, <3>4
      <4>2. QED
        BY <3>2, <4>1 DEF Stems
    <3>5. QED
      BY <3>3, <3>4
  <2>7. PreviewsWarn' /\ NoSilentActivation'
    BY <2>6, RequestsStayHarmless DEF EditorInv
  <2>8. ConfirmWarns'
    BY <2>4 DEF EditorInv, ConfirmWarns, NeedsPreview
  <2>9. QED
    BY <2>3, <2>5, <2>7, <2>8 DEF EditorInv
<1>5. CASE ~(checked /\ NeedsPreview(f))
  <2>1. confirm' = confirm /\ Follow(d, requests)
    BY <1>5 DEF applyEnabledChange
  <2>2. QED
    BY <1>2, <2>1, FollowKeepsInv DEF EditorInv, EditorTypes
<1>6. QED
  BY <1>4, <1>5

LEMMA handleEnabledToggleKeeps ==
  ASSUME EditorInv, handleEnabledToggle  PROVE EditorInv'
<1> DEFINE checked == ~editor.form.enabled
<1>1. CASE checked /\ ~editor.form.dryRun /\ editor.target \notin prompted
  <2>1. UNCHANGED <<editor, live, requests, confirm, saved, overview, enable>> /\ gestures' = gestures + 1
    BY <1>1 DEF handleEnabledToggle, Act
  <2>2. gestures' \in Int
    BY <2>1 DEF EditorInv, EditorTypes
  <2>3. QED
    BY <2>1, <2>2 DEF EditorInv, EditorTypes, PreviewsWarn, ConfirmWarns, LiveFollows, LivePayload,
                      NoSilentActivation, LivePreviewCurrent, NeedsPreview, Active, NoForm
<1>2. CASE ~(checked /\ ~editor.form.dryRun /\ editor.target \notin prompted)
  <2>1. /\ applyEnabledChange(checked, FALSE)
        /\ UNCHANGED <<saved, overview, enable>> /\ gestures' = gestures + 1
    BY <1>2 DEF handleEnabledToggle, Act
  <2>2. checked \in BOOLEAN /\ gestures' \in Int
    BY <2>1 DEF EditorInv, EditorTypes
  <2> HIDE DEF checked
  <2>3. QED
    BY <2>1, <2>2, applyEnabledChangeKeeps
<1>3. QED
  BY <1>1, <1>2

LEMMA DryRunPromptKeeps ==
  ASSUME EditorInv, NEW force \in BOOLEAN, DryRunPrompt(force)  PROVE EditorInv'
<1>1. gestures' \in Int /\ UNCHANGED <<saved, overview, enable>>
  BY DEF DryRunPrompt, EditorInv, EditorTypes
<1>2. applyEnabledChange(TRUE, force)
  BY DEF DryRunPrompt
<1>3. QED
  BY <1>1, <1>2, applyEnabledChangeKeeps

(***************************************************************************)
(* Steps that leave the dialog and its live preview as they are.           *)
(***************************************************************************)
ConfirmType ==
  [show : BOOLEAN, loading : BOOLEAN, input : AnyForm, result : AnyForm, before : SUBSET BOOLEAN]
EnableType ==
  [show : BOOLEAN, loading : BOOLEAN, target : Rules \cup {0}, rule : AnyForm, result : AnyForm]

LEMMA BesideTheForm ==
  ASSUME EditorInv, UNCHANGED <<editor, live>>,
         saved' \in [Rules -> AnyForm], overview' \in [Rules -> AnyForm],
         confirm' \in ConfirmType, enable' \in EnableType, gestures' \in Int,
         requests' \subseteq Made, ConfirmWarns',
         \A s \in requests' : \/ Harmless(s) /\ s.kind # "live"
                              \/ \E r \in requests : Stems(s, r)
  PROVE  EditorInv'
<1>1. EditorTypes'
  BY DEF EditorInv, EditorTypes, ConfirmType, EnableType
<1>2. PreviewsWarn' /\ NoSilentActivation'
  BY RequestsStayHarmless DEF EditorInv
<1>3. LiveFollows' /\ LivePreviewCurrent'
  BY LiveStays DEF EditorInv
<1>4. QED
  BY <1>1, <1>2, <1>3 DEF EditorInv

\* The same, when the two previews do not change either.
LEMMA RequestsAlone ==
  ASSUME EditorInv, UNCHANGED <<editor, live, confirm, enable>>,
         saved' \in [Rules -> AnyForm], overview' \in [Rules -> AnyForm], gestures' \in Int,
         requests' \subseteq Made,
         \A s \in requests' : \/ Harmless(s) /\ s.kind # "live"
                              \/ \E r \in requests : Stems(s, r)
  PROVE  EditorInv'
<1>1. confirm' \in ConfirmType /\ enable' \in EnableType
  BY DEF EditorInv, EditorTypes, ConfirmType, EnableType
<1>2. ConfirmWarns'
  BY DEF EditorInv, ConfirmWarns, NeedsPreview
<1>3. QED
  BY <1>1, <1>2, BesideTheForm

LEMMA DryRunPromptCancelKeeps ==
  ASSUME EditorInv, DryRunPromptCancel  PROVE EditorInv'
<1>1. /\ UNCHANGED <<editor, live, confirm, enable>> /\ requests' = requests
      /\ saved' \in [Rules -> AnyForm] /\ overview' \in [Rules -> AnyForm] /\ gestures' \in Int
      /\ requests' \subseteq Made
  BY DEF DryRunPromptCancel, EditorInv, EditorTypes
<1>2. QED
  BY <1>1, StemsSelf, RequestsAlone

LEMMA ListAnswerKeeps ==
  ASSUME EditorInv, ListAnswer  PROVE EditorInv'
<1>1. /\ UNCHANGED <<editor, live, confirm, enable>> /\ requests' = requests
      /\ saved' \in [Rules -> AnyForm] /\ overview' \in [Rules -> AnyForm] /\ gestures' \in Int
      /\ requests' \subseteq Made
  BY DEF ListAnswer, EditorInv, EditorTypes
<1>2. QED
  BY <1>1, StemsSelf, RequestsAlone

\* An answer that only ends its request.
LEMMA RequestEnds ==
  ASSUME EditorInv, NEW r, requests' = requests \ {r},
         UNCHANGED <<editor, live, confirm, enable, saved, overview, gestures>>
  PROVE  EditorInv'
<1>1. /\ saved' \in [Rules -> AnyForm] /\ overview' \in [Rules -> AnyForm] /\ gestures' \in Int
      /\ requests' \subseteq Made
  BY DEF EditorInv, EditorTypes
<1>2. \A s \in requests' : \E p \in requests : Stems(s, p)
  BY StemsSelf
<1>3. QED
  BY <1>1, <1>2, RequestsAlone

LEMMA AnswersKeep ==
  ASSUME EditorInv, NEW r \in requests, MutationError(r) \/ ToggleSuccess(r)  PROVE EditorInv'
<1>1. requests' = requests \ {r} /\ UNCHANGED <<editor, live, confirm, enable, saved, overview, gestures>>
  BY DEF MutationError, ToggleSuccess
<1>2. QED
  BY <1>1, RequestEnds

\* The server stores what the request carries.
LEMMA ServeRuleKeeps ==
  ASSUME EditorInv, NEW r \in requests, ServeRule(r)  PROVE EditorInv'
<1>1. r \in Made /\ [r EXCEPT !.sent = FALSE] \in Made /\ Stems([r EXCEPT !.sent = FALSE], r)
  <2>1. r \in Made
    BY DEF EditorInv, EditorTypes
  <2>2. QED
    BY <2>1 DEF Made, Stems
<1>2. requests' = (requests \ {r}) \cup {[r EXCEPT !.sent = FALSE]}
  BY DEF ServeRule
<1>3. requests' \subseteq Made
  BY <1>1, <1>2 DEF EditorInv, EditorTypes
<1>4. \A s \in requests' : \E p \in requests : Stems(s, p)
  BY <1>1, <1>2, StemsSelf
<1>5. saved' \in [Rules -> AnyForm]
  <2>1. saved \in [Rules -> AnyForm] /\ r.form \in AnyForm /\ r.target \in Rules \cup {0}
    BY <1>1 DEF EditorInv, EditorTypes, Made
  <2>2. PICK i : saved' = [saved EXCEPT ![i] = r.form]
    BY DEF ServeRule
  <2>3. QED
    BY <2>1, <2>2
<1>6. UNCHANGED <<editor, live, confirm, enable>> /\ overview' \in [Rules -> AnyForm] /\ gestures' \in Int
  BY DEF ServeRule, EditorInv, EditorTypes
<1>7. QED
  BY <1>3, <1>4, <1>5, <1>6, RequestsAlone

(***************************************************************************)
(* Submit and the preview before saving.                                   *)
(***************************************************************************)
LEMMA AfterValidationAdds ==
  ASSUME EditorInv, NEW R \in SUBSET requests, NEW i \in Int, NEW f \in AnyForm,
         AfterValidation(R, i, f)
  PROVE  /\ confirm' \in ConfirmType /\ requests' \subseteq Made
         /\ confirm' = confirm \/ confirm'.loading
         /\ \A s \in requests' : \/ Harmless(s) /\ s.kind # "live"
                                 \/ \E r \in requests : Stems(s, r)
<1>1. R \subseteq Made /\ editor.target \in Rules \cup {0} /\ confirm \in ConfirmType
  BY DEF EditorInv, EditorTypes, ConfirmType
<1>2. CASE Active(f)
  <2> DEFINE q == RuleRequest("preview", i, editor.target, f, FALSE)
  <2>1. q \in Made /\ q.kind = "preview" /\ q.form = f
    BY <1>1 DEF RuleRequest, Made, RuleKinds
  <2>2. /\ confirm' = [confirm EXCEPT !.show = TRUE, !.loading = TRUE, !.result = NoForm]
        /\ requests' = mutate(R, q)
    BY <1>2 DEF AfterValidation, StartPreview
  <2>3. confirm' \in ConfirmType /\ confirm'.loading
    BY <1>1, <2>2, Forms_ DEF ConfirmType
  <2>4. Harmless(q) /\ q.kind # "live"
    BY <1>2, <2>1 DEF Harmless, Active
  <2> HIDE DEF q
  <2>5. QED
    BY <1>1, <2>1, <2>2, <2>3, <2>4, MutateAdds
<1>3. CASE ~Active(f)
  <2> DEFINE q == RuleRequest("save", i, editor.target, f, FALSE)
  <2>1. q \in Made /\ q.kind = "save" /\ q.form = f
    BY <1>1 DEF RuleRequest, Made, RuleKinds
  <2>2. confirm' = confirm /\ requests' = mutate(R, q)
    BY <1>3 DEF AfterValidation, createOrUpdate
  <2>3. Harmless(q) /\ q.kind # "live"
    BY <1>3, <2>1 DEF Harmless
  <2> HIDE DEF q
  <2>4. QED
    BY <1>1, <2>1, <2>2, <2>3, MutateAdds
<1>4. QED
  BY <1>2, <1>3

\* What follows a check of the patterns.
LEMMA AfterValidationKeeps ==
  ASSUME EditorInv, NEW R \in SUBSET requests, NEW i \in Int, NEW f \in AnyForm,
         AfterValidation(R, i, f), gestures' \in Int,
         UNCHANGED <<saved, overview, editor, enable, live>>
  PROVE  EditorInv'
<1>1. /\ confirm' \in ConfirmType /\ requests' \subseteq Made
      /\ confirm' = confirm \/ confirm'.loading
      /\ \A s \in requests' : \/ Harmless(s) /\ s.kind # "live"
                              \/ \E r \in requests : Stems(s, r)
  BY AfterValidationAdds
<1>2. /\ saved' \in [Rules -> AnyForm] /\ overview' \in [Rules -> AnyForm]
      /\ enable' \in EnableType
  BY DEF EditorInv, EditorTypes, EnableType
<1>3. ConfirmWarns'
  BY <1>1 DEF EditorInv, ConfirmWarns, NeedsPreview
<1>4. QED
  BY <1>1, <1>2, <1>3, BesideTheForm

LEMMA handleSubmitKeeps ==
  ASSUME EditorInv, handleSubmit  PROVE EditorInv'
<1>1. /\ UNCHANGED <<saved, overview, editor, enable, live>> /\ gestures' \in Int /\ gestures \in Int
      /\ editor.form \in AnyForm /\ requests \subseteq Made
  BY DEF handleSubmit, Act, EditorInv, EditorTypes
<1>2. CASE editor.form.enabled
  <2> DEFINE q == RuleRequest("regex", gestures, 0, editor.form, FALSE)
  <2>1. q \in Made /\ q.kind = "regex"
    BY <1>1 DEF RuleRequest, Made, RuleKinds
  <2>2. requests' = requests \cup {q} /\ confirm' = confirm
    BY <1>2 DEF handleSubmit
  <2>3. /\ saved' \in [Rules -> AnyForm] /\ overview' \in [Rules -> AnyForm]
        /\ requests' \subseteq Made
    BY <1>1, <2>1, <2>2 DEF EditorInv, EditorTypes
  <2>4. Harmless(q) /\ q.kind # "live"
    BY <2>1 DEF Harmless
  <2> HIDE DEF q
  <2>5. QED
    BY <1>1, <2>2, <2>3, <2>4, StemsSelf, RequestsAlone
<1>3. CASE ~editor.form.enabled
  <2>1. AfterValidation(requests, gestures, editor.form)
    BY <1>3 DEF handleSubmit
  <2>2. QED
    BY <1>1, <2>1, AfterValidationKeeps
<1>4. QED
  BY <1>2, <1>3

LEMMA RegexAnswerKeeps ==
  ASSUME EditorInv, NEW r \in requests, NEW valid \in BOOLEAN, RegexAnswer(r, valid)
  PROVE  EditorInv'
<1>1. /\ UNCHANGED <<saved, overview, editor, enable, live, gestures>> /\ gestures' \in Int
  BY DEF RegexAnswer, EditorInv, EditorTypes
<1>2. r.id \in Int /\ r.form \in AnyForm
  BY DEF EditorInv, EditorTypes, Made
<1>3. CASE valid
  <2>1. AfterValidation(requests \ {r}, r.id, r.form)
    BY <1>3 DEF RegexAnswer
  <2>2. requests \ {r} \in SUBSET requests
    OBVIOUS
  <2>3. QED
    BY <1>1, <1>2, <2>1, <2>2, AfterValidationKeeps
<1>4. CASE ~valid
  <2>1. requests' = requests \ {r} /\ confirm' = confirm
    BY <1>4 DEF RegexAnswer
  <2>2. QED
    BY <1>1, <2>1, RequestEnds
<1>5. QED
  BY <1>3, <1>4

LEMMA PreviewAnswerKeeps ==
  ASSUME EditorInv, NEW r \in requests, NEW ok \in BOOLEAN, PreviewAnswer(r, ok)
  PROVE  EditorInv'
<1>1. /\ UNCHANGED <<saved, overview, editor, enable, live, gestures>> /\ requests' = requests \ {r}
      /\ confirm' = IF ok THEN [confirm EXCEPT !.input = r.form, !.result = r.form, !.loading = FALSE]
                    ELSE [confirm EXCEPT !.loading = FALSE, !.show = FALSE]
      /\ r.kind = "preview"
  BY DEF PreviewAnswer
<1>2. r.form \in AnyForm /\ NeedsPreview(r.form)
  BY <1>1 DEF EditorInv, EditorTypes, Made, PreviewsWarn
<1>3. confirm' \in ConfirmType
  BY <1>1, <1>2 DEF EditorInv, EditorTypes, ConfirmType
<1>4. confirm'.show => NeedsPreview(confirm.result)'
  BY <1>1, <1>2 DEF EditorInv, EditorTypes, NeedsPreview
<1>5. ConfirmWarns'
  BY <1>1, <1>4 DEF EditorInv, ConfirmWarns, NeedsPreview
<1>6. /\ saved' \in [Rules -> AnyForm] /\ overview' \in [Rules -> AnyForm] /\ gestures' \in Int
      /\ enable' \in EnableType /\ requests' \subseteq Made
  BY <1>1 DEF EditorInv, EditorTypes, EnableType
<1>7. \A s \in requests' : \E p \in requests : Stems(s, p)
  BY <1>1, StemsSelf
<1>8. QED
  BY <1>1, <1>3, <1>5, <1>6, <1>7, BesideTheForm

\* Closing the preview, alone or with the save that it confirms.
LEMMA ClosePreviewKeeps ==
  ASSUME EditorInv, NEW R \in SUBSET Made, ClosePreview(R),
         UNCHANGED <<saved, overview, enable, gestures>>,
         \A s \in R : \/ Harmless(s) /\ s.kind # "live"
                     \/ \E r \in requests : Stems(s, r)
  PROVE  EditorInv'
<1>1. /\ confirm' = [confirm EXCEPT !.show = FALSE, !.loading = FALSE, !.input = NoForm,
                                    !.result = NoForm, !.before = {}]
      /\ confirm \in ConfirmType
  BY DEF ClosePreview, EditorInv, EditorTypes, ConfirmType
<1>2. confirm' \in ConfirmType /\ ~confirm'.show
  BY <1>1, Forms_ DEF ConfirmType
<1>3. ConfirmWarns'
  BY <1>2 DEF EditorInv, ConfirmWarns, NeedsPreview
<1>4. /\ saved' \in [Rules -> AnyForm] /\ overview' \in [Rules -> AnyForm] /\ gestures' \in Int
      /\ enable' \in EnableType
  BY DEF EditorInv, EditorTypes, EnableType
<1>5. CASE confirm.before = {}
  <2>1. requests' = R /\ UNCHANGED <<editor, live>>
    BY <1>5 DEF ClosePreview
  <2>2. QED
    BY <1>2, <1>3, <1>4, <2>1, BesideTheForm
<1>6. CASE confirm.before # {}
  <2> DEFINE on == TRUE \in confirm.before
             d == [editor EXCEPT !.form.enabled = on]
  <2>1. on \in BOOLEAN
    OBVIOUS
  <2>2. d \in DialogType
    BY <2>1 DEF DialogType, EditorInv, EditorTypes, AnyForm
  <2>3. Follow(d, R)
    BY <1>6 DEF ClosePreview
  <2> HIDE DEF d
  <2>4. /\ editor' = d /\ requests' \subseteq Made
        /\ live' \in [loading : BOOLEAN, timer : AnyForm, result : AnyForm]
        /\ \A s \in requests' : \E r \in R : Stems(s, r)
        /\ LiveFollows' /\ LivePreviewCurrent'
    BY <2>2, <2>3, FollowKeeps DEF EditorInv, DialogType
  <2>5. EditorTypes'
    BY <1>2, <1>4, <2>2, <2>4 DEF EditorTypes, DialogType, ConfirmType, EnableType
  <2>6. \A s \in requests' : Harmless(s) \/ \E r \in requests : Stems(s, r)
    <3>1. TAKE s \in requests'
    <3>2. PICK p \in R : Stems(s, p)
      BY <2>4
    <3>3. CASE Harmless(p)
      BY <3>2, <3>3 DEF Stems, Harmless
    <3>4. CASE ~Harmless(p)
      <4>1. PICK r \in requests : Stems(p, r)
        BY <3>2, <3>4
      <4>2. QED
        BY <3>2, <4>1 DEF Stems
    <3>5. QED
      BY <3>3, <3>4
  <2>7. PreviewsWarn' /\ NoSilentActivation'
    BY <2>6, RequestsStayHarmless DEF EditorInv
  <2>8. QED
    BY <1>3, <2>4, <2>5, <2>7 DEF EditorInv
<1>7. QED
  BY <1>5, <1>6

LEMMA ConfirmCancelKeeps ==
  ASSUME EditorInv, ConfirmCancel  PROVE EditorInv'
<1>1. ClosePreview(requests) /\ UNCHANGED <<saved, overview, enable, gestures>>
  BY DEF ConfirmCancel
<1>2. requests \in SUBSET Made
  BY DEF EditorInv, EditorTypes
<1>3. QED
  BY <1>1, <1>2, StemsSelf, ClosePreviewKeeps

(***************************************************************************)
(* Confirming: the form that is saved has a preview, or needs none.        *)
(***************************************************************************)
LEMMA handleConfirmSaveKeeps ==
  ASSUME EditorInv, handleConfirmSave  PROVE EditorInv'
<1> DEFINE w == confirm.result # NoForm
           q == RuleRequest("save", gestures, editor.target, editor.form, w)
<1>1. w
  BY NoneIsHarmless DEF handleConfirmSave, EditorInv, ConfirmWarns, NeedsPreview, NoForm
<1>2. q \in Made /\ q.kind = "save" /\ q.warned = w
  <2>1. w \in BOOLEAN /\ gestures \in Int /\ editor.target \in Rules \cup {0} /\ editor.form \in AnyForm
    BY DEF EditorInv, EditorTypes
  <2> HIDE DEF w
  <2>2. QED
    BY <2>1 DEF RuleRequest, Made, RuleKinds
<1>3. Harmless(q) /\ q.kind # "live"
  BY <1>1, <1>2 DEF Harmless
<1>4. ClosePreview(mutate(requests, q)) /\ UNCHANGED <<saved, overview, enable, gestures>>
  BY DEF handleConfirmSave
<1> HIDE DEF q
<1>5. /\ mutate(requests, q) \in SUBSET Made
      /\ \A s \in mutate(requests, q) : s = q \/ \E r \in requests : Stems(s, r)
  BY <1>2, MutateAdds DEF EditorInv, EditorTypes
<1>6. QED
  BY <1>3, <1>4, <1>5, ClosePreviewKeeps

(***************************************************************************)
(* The list: the switch of a rule.                                         *)
(***************************************************************************)
LEMMA handleToggleKeeps ==
  ASSUME EditorInv, NEW i \in Rules, handleToggle(i)  PROVE EditorInv'
<1>1. /\ overview[i] \in AnyForm /\ gestures \in Int /\ requests \subseteq Made /\ i \in Rules \cup {0}
      /\ UNCHANGED <<saved, overview, editor, confirm, live>> /\ gestures' = gestures + 1
  BY DEF handleToggle, Act, EditorInv, EditorTypes
<1>2. /\ saved' \in [Rules -> AnyForm] /\ overview' \in [Rules -> AnyForm] /\ gestures' \in Int
      /\ confirm' \in ConfirmType
  BY <1>1 DEF EditorInv, EditorTypes, ConfirmType
<1>3. CASE ~overview[i].enabled /\ NeedsPreview(overview[i])
  <2> DEFINE q == RuleRequest("enablePreview", gestures, i, overview[i], FALSE)
  <2>1. q \in Made /\ q.kind = "enablePreview" /\ q.form = overview[i]
    BY <1>1 DEF RuleRequest, Made, RuleKinds
  <2>2. Harmless(q) /\ q.kind # "live"
    BY <1>3, <2>1 DEF Harmless
  <2>3. /\ enable' = [show |-> TRUE, loading |-> TRUE, target |-> i, rule |-> overview[i], result |-> NoForm]
        /\ requests' = mutate(requests, q)
    BY <1>3 DEF handleToggle
  <2>4. enable' \in EnableType /\ enable'.loading
    BY <1>1, <2>3, Forms_ DEF EnableType
  <2>5. ConfirmWarns'
    BY <1>1, <2>4 DEF EditorInv, ConfirmWarns, NeedsPreview
  <2> HIDE DEF q
  <2>6. /\ requests' \subseteq Made
        /\ \A s \in requests' : s = q \/ \E r \in requests : Stems(s, r)
    BY <1>1, <2>1, <2>3, MutateAdds
  <2>7. QED
    BY <1>1, <1>2, <2>2, <2>4, <2>5, <2>6, BesideTheForm
<1>4. CASE ~(~overview[i].enabled /\ NeedsPreview(overview[i]))
  <2> DEFINE q == RuleRequest("toggle", gestures, i, Toggled(overview[i]), FALSE)
  <2>1. Toggled(overview[i]) \in AnyForm /\ ~Active(Toggled(overview[i]))
    BY <1>1, <1>4, Forms_ DEF Active, NeedsPreview
  <2>2. q \in Made /\ q.kind = "toggle" /\ q.form = Toggled(overview[i])
    BY <1>1, <2>1 DEF RuleRequest, Made, RuleKinds
  <2>3. Harmless(q) /\ q.kind # "live"
    BY <2>1, <2>2 DEF Harmless
  <2>4. enable' = enable /\ requests' = mutate(requests, q)
    BY <1>4 DEF handleToggle
  <2> HIDE DEF q
  <2>5. /\ requests' \subseteq Made
        /\ \A s \in requests' : s = q \/ \E r \in requests : Stems(s, r)
    BY <1>1, <2>2, <2>4, MutateAdds
  <2>6. QED
    BY <1>1, <1>2, <2>3, <2>4, <2>5, RequestsAlone
<1>5. QED
  BY <1>3, <1>4

LEMMA EnableAnswerKeeps ==
  ASSUME EditorInv, NEW r \in requests, NEW ok \in BOOLEAN, EnableAnswer(r, ok)
  PROVE  EditorInv'
<1>1. /\ UNCHANGED <<saved, overview, editor, confirm, live, gestures>> /\ requests' = requests \ {r}
      /\ enable' = IF ~enable.show THEN enable
                   ELSE IF ok THEN [enable EXCEPT !.result = r.form, !.loading = FALSE]
                   ELSE [enable EXCEPT !.show = FALSE]
      /\ r.kind = "enablePreview"
  BY DEF EnableAnswer
<1>2. r.form \in AnyForm /\ NeedsPreview(r.form)
  BY <1>1 DEF EditorInv, EditorTypes, Made, PreviewsWarn
<1>3. enable' \in EnableType
  BY <1>1, <1>2 DEF EditorInv, EditorTypes, EnableType
<1>4. enable'.show => NeedsPreview(enable.result)'
  BY <1>1, <1>2 DEF EditorInv, EditorTypes, NeedsPreview
<1>5. ConfirmWarns'
  BY <1>1, <1>4 DEF EditorInv, ConfirmWarns, NeedsPreview
<1>6. /\ saved' \in [Rules -> AnyForm] /\ overview' \in [Rules -> AnyForm] /\ gestures' \in Int
      /\ confirm' \in ConfirmType /\ requests' \subseteq Made
  BY <1>1 DEF EditorInv, EditorTypes, ConfirmType
<1>7. \A s \in requests' : \E p \in requests : Stems(s, p)
  BY <1>1, StemsSelf
<1>8. QED
  BY <1>1, <1>3, <1>5, <1>6, <1>7, BesideTheForm

LEMMA EnableCancelKeeps ==
  ASSUME EditorInv, EnableCancel  PROVE EditorInv'
<1>1. /\ UNCHANGED <<saved, overview, editor, confirm, live, requests, gestures>>
      /\ enable' = [enable EXCEPT !.show = FALSE]
  BY DEF EnableCancel
<1>2. enable' \in EnableType /\ ~enable'.show
  BY <1>1 DEF EditorInv, EditorTypes, EnableType
<1>3. ConfirmWarns'
  BY <1>1, <1>2 DEF EditorInv, ConfirmWarns, NeedsPreview
<1>4. /\ saved' \in [Rules -> AnyForm] /\ overview' \in [Rules -> AnyForm] /\ gestures' \in Int
      /\ confirm' \in ConfirmType /\ requests' \subseteq Made
  BY <1>1 DEF EditorInv, EditorTypes, ConfirmType
<1>5. QED
  BY <1>1, <1>2, <1>3, <1>4, StemsSelf, BesideTheForm

LEMMA confirmEnableRuleKeeps ==
  ASSUME EditorInv, confirmEnableRule  PROVE EditorInv'
<1> DEFINE w == enable.result # NoForm
           q == RuleRequest("toggle", gestures, enable.target, Toggled(enable.rule), w)
<1>1. w
  BY NoneIsHarmless DEF confirmEnableRule, EditorInv, ConfirmWarns, NeedsPreview, NoForm
<1>2. q \in Made /\ q.kind = "toggle" /\ q.warned = w
  <2>1. /\ w \in BOOLEAN /\ gestures \in Int /\ enable.target \in Rules \cup {0}
        /\ Toggled(enable.rule) \in AnyForm
    BY Forms_ DEF EditorInv, EditorTypes
  <2> HIDE DEF w
  <2>2. QED
    BY <2>1 DEF RuleRequest, Made, RuleKinds
<1>3. Harmless(q) /\ q.kind # "live"
  BY <1>1, <1>2 DEF Harmless
<1>4. /\ requests' = mutate(requests, q) /\ enable' = [enable EXCEPT !.show = FALSE]
      /\ UNCHANGED <<saved, overview, editor, confirm, live, gestures>>
  BY DEF confirmEnableRule
<1> HIDE DEF q
<1>5. /\ requests' \subseteq Made
      /\ \A s \in requests' : s = q \/ \E r \in requests : Stems(s, r)
  BY <1>2, <1>4, MutateAdds DEF EditorInv, EditorTypes
<1>6. enable' \in EnableType /\ ~enable'.show
  BY <1>4 DEF EditorInv, EditorTypes, EnableType
<1>7. ConfirmWarns'
  BY <1>4, <1>6 DEF EditorInv, ConfirmWarns, NeedsPreview
<1>8. /\ saved' \in [Rules -> AnyForm] /\ overview' \in [Rules -> AnyForm] /\ gestures' \in Int
      /\ confirm' \in ConfirmType
  BY <1>4 DEF EditorInv, EditorTypes, ConfirmType
<1>9. QED
  BY <1>3, <1>4, <1>5, <1>6, <1>7, <1>8, BesideTheForm

(***************************************************************************)
(* The live preview: what is asked for, and an answer that still counts,   *)
(* is of the form as it is.                                                *)
(***************************************************************************)
LEMMA LiveSendKeeps ==
  ASSUME EditorInv, LiveSend  PROVE EditorInv'
<1> DEFINE q == RuleRequest("live", gestures, 0, live.timer, FALSE)
<1>1. /\ live.timer = LivePayload(editor) /\ live.timer \in AnyForm /\ gestures \in Int
      /\ requests \subseteq Made
  BY DEF LiveSend, EditorInv, EditorTypes, LiveFollows
<1>2. q \in Made /\ q.kind = "live" /\ q.form = LivePayload(editor)
  BY <1>1 DEF RuleRequest, Made, RuleKinds
<1>3. /\ live' = [live EXCEPT !.timer = NoForm] /\ requests' = requests \cup {q}
      /\ UNCHANGED <<saved, overview, editor, confirm, enable, gestures>>
  BY DEF LiveSend
<1> HIDE DEF q
<1>4. /\ live' \in [loading : BOOLEAN, timer : AnyForm, result : AnyForm]
      /\ live'.timer = NoForm /\ live'.loading = live.loading /\ live'.result = live.result
  BY <1>3, Forms_ DEF EditorInv, EditorTypes
<1>5. EditorTypes'
  BY <1>1, <1>2, <1>3, <1>4 DEF EditorInv, EditorTypes
<1>6. LivePayload(editor)' = LivePayload(editor)
  BY <1>3 DEF LivePayload, NeedsPreview, NoForm
<1>7. LiveFollows' /\ LivePreviewCurrent'
  BY <1>2, <1>3, <1>4, <1>6 DEF EditorInv, LiveFollows, LivePreviewCurrent, NoForm
<1>8. Harmless(q)
  BY <1>2 DEF Harmless
<1>9. PreviewsWarn' /\ NoSilentActivation'
  BY <1>3, <1>8, StemsSelf, RequestsStayHarmless DEF EditorInv
<1>10. ConfirmWarns'
  BY <1>3 DEF EditorInv, ConfirmWarns, NeedsPreview
<1>11. QED
  BY <1>5, <1>7, <1>9, <1>10 DEF EditorInv

LEMMA LiveAnswerKeeps ==
  ASSUME EditorInv, NEW r \in requests, NEW ok \in BOOLEAN, LiveAnswer(r, ok)
  PROVE  EditorInv'
<1>1. /\ UNCHANGED <<saved, overview, editor, confirm, enable, gestures>> /\ requests' = requests \ {r}
      /\ r.kind = "live"
  BY DEF LiveAnswer
<1>2. r.form \in AnyForm /\ (r.latest => r.form = LivePayload(editor))
  BY <1>1 DEF EditorInv, EditorTypes, Made, LiveFollows
<1>3. /\ live' \in [loading : BOOLEAN, timer : AnyForm, result : AnyForm]
      /\ live'.timer = live.timer
      /\ live' = live \/ live'.result \in {LivePayload(editor), NoForm}
  BY <1>2, Forms_ DEF LiveAnswer, EditorInv, EditorTypes
<1>4. EditorTypes'
  BY <1>1, <1>3 DEF EditorInv, EditorTypes
<1>5. LivePayload(editor)' = LivePayload(editor)
  BY <1>1 DEF LivePayload, NeedsPreview, NoForm
<1>6. LiveFollows' /\ LivePreviewCurrent'
  BY <1>1, <1>3, <1>5 DEF EditorInv, LiveFollows, LivePreviewCurrent, NoForm
<1>7. PreviewsWarn' /\ NoSilentActivation'
  BY <1>1, StemsSelf, RequestsStayHarmless DEF EditorInv
<1>8. ConfirmWarns'
  BY <1>1 DEF EditorInv, ConfirmWarns, NeedsPreview
<1>9. QED
  BY <1>4, <1>6, <1>7, <1>8 DEF EditorInv

-----------------------------------------------------------------------------
(***************************************************************************)
(* The theorems.                                                           *)
(***************************************************************************)
LEMMA EditorStart ==
  ASSUME EditorInit  PROVE EditorInv
<1>1. saved \in [Rules -> AnyForm] /\ overview \in [Rules -> AnyForm]
  <2>1. {NoForm} \cup [content : Contents, enabled : BOOLEAN, dryRun : {FALSE}] \subseteq AnyForm
    BY Forms_ DEF AnyForm
  <2>2. QED
    BY <2>1 DEF EditorInit
<1>2. /\ requests = {} /\ gestures \in Int /\ live.timer = NoForm /\ live.result = NoForm
      /\ ~confirm.show /\ ~enable.show
  BY DEF EditorInit
<1>3. /\ editor \in [open : BOOLEAN, target : Rules \cup {0}, base : AnyForm, form : AnyForm]
      /\ confirm \in [show : BOOLEAN, loading : BOOLEAN, input : AnyForm, result : AnyForm,
                      before : SUBSET BOOLEAN]
      /\ enable \in [show : BOOLEAN, loading : BOOLEAN, target : Rules \cup {0}, rule : AnyForm,
                     result : AnyForm]
      /\ live \in [loading : BOOLEAN, timer : AnyForm, result : AnyForm]
  BY Forms_ DEF EditorInit
<1>4. QED
  BY <1>1, <1>2, <1>3 DEF EditorInv, EditorTypes, PreviewsWarn, ConfirmWarns, LiveFollows,
                          NoSilentActivation, LivePreviewCurrent

LEMMA EditorStep ==
  ASSUME EditorInv, [EditorNext]_editorVars  PROVE EditorInv'
<1>1. CASE Overview
  <2>1. CASE openCreateDialog
    <3>1. 0 \in Rules \cup {0} /\ NoForm \in AnyForm
      BY Forms_
    <3>2. QED
      BY <2>1, <3>1, OpenDialogKeeps DEF openCreateDialog
  <2>2. ASSUME NEW i \in Rules, openEditDialog(i)  PROVE EditorInv'
    <3>1. i \in Rules \cup {0} /\ overview[i] \in AnyForm
      BY DEF EditorInv, EditorTypes
    <3>2. QED
      BY <2>2, <3>1, OpenDialogKeeps DEF openEditDialog
  <2>3. QED
    BY <1>1, <2>1, <2>2, EnableCancelKeeps, confirmEnableRuleKeeps, ListAnswerKeeps, handleToggleKeeps
    DEF Overview
<1>2. CASE Dialog
  BY <1>2, CloseDialogKeeps, EditContentKeeps, CustomizationsChangeKeeps, handleEnabledToggleKeeps,
     DryRunPromptKeeps, DryRunPromptCancelKeeps, handleSubmitKeeps, ConfirmCancelKeeps,
     handleConfirmSaveKeeps, LiveSendKeeps DEF Dialog
<1>3. CASE Answers
  BY <1>3, ServeRuleKeeps, SaveSuccessKeeps, AnswersKeep, RegexAnswerKeeps, PreviewAnswerKeeps,
     EnableAnswerKeeps, LiveAnswerKeeps DEF Answers
<1>4. CASE UNCHANGED editorVars
  <2>1. UNCHANGED <<saved, overview, editor, confirm, enable, live, requests, gestures>>
    BY <1>4 DEF editorVars
  <2>2. QED
    BY <2>1 DEF EditorInv, EditorTypes, PreviewsWarn, ConfirmWarns, LiveFollows, LivePayload,
                NoSilentActivation, LivePreviewCurrent, NeedsPreview, Active, NoForm
<1>5. QED
  BY <1>1, <1>2, <1>3, <1>4 DEF EditorNext

(***************************************************************************)
(* No rule that deletes torrents or sets their category is enabled without *)
(* a preview (handleSubmit, applyEnabledChange, handleConfirmSave,         *)
(* handleToggle, confirmEnableRule), for any rules, contents, acts,        *)
(* requests under way and faults.                                          *)
(***************************************************************************)
THEOREM NothingEnabledUnseen ==
  EditorSpec => []NoSilentActivation
<1>1. EditorInit => EditorInv
  BY EditorStart
<1>2. EditorInv /\ [EditorNext]_editorVars => EditorInv'
  BY EditorStep
<1>3. EditorInv => NoSilentActivation
  BY DEF EditorInv
<1>4. QED
  BY <1>1, <1>2, <1>3, PTL DEF EditorSpec

(***************************************************************************)
(* The live preview, once loaded, is of the form as it is (the live        *)
(* preview effect), however many requests are under way.                   *)
(***************************************************************************)
THEOREM LivePreviewFollows ==
  EditorSpec => []LivePreviewCurrent
<1>1. EditorInit => EditorInv
  BY EditorStart
<1>2. EditorInv /\ [EditorNext]_editorVars => EditorInv'
  BY EditorStep
<1>3. EditorInv => LivePreviewCurrent
  BY DEF EditorInv
<1>4. QED
  BY <1>1, <1>2, <1>3, PTL DEF EditorSpec
-----------------------------------------------------------------------------
(***************************************************************************)
(* What the forms hold. NoForm stands for no rule, and is nowhere where a  *)
(* rule or a form is used; one dialog is over the list at a time.          *)
(***************************************************************************)
MaybeForms == Forms \cup {NoForm}

StoredForms == saved \in [Rules -> MaybeForms] /\ overview \in [Rules -> MaybeForms]
EditorForms == editor.form \in Forms /\ editor.base \in MaybeForms
RequestForms == \A r \in requests : r.form \in Forms
OneDialog == ~(editor.open /\ enable.show)

FormsInv ==
  /\ StoredForms /\ EditorForms /\ RequestForms /\ OneDialog
  /\ live.timer \in MaybeForms
  /\ enable.show => enable.rule \in Forms

LEMMA FormsAre ==
  /\ emptyForm \in Forms /\ \A f \in MaybeForms : f # NoForm => f \in Forms
  /\ \A f \in MaybeForms : Hydrated(f) \in Forms
  /\ \A f \in Forms : Toggled(f) \in Forms
  /\ \A f \in Forms, e \in BOOLEAN, d \in BOOLEAN :
       [f EXCEPT !.enabled = e, !.dryRun = d] \in Forms /\ [f EXCEPT !.enabled = e] \in Forms
  /\ \A f \in Forms, c \in Contents, e \in BOOLEAN :
       [f EXCEPT !.content = c, !.enabled = e] \in Forms
<1>1. \A f \in Forms : f \in [content : Contents \cup {"empty"}, enabled : BOOLEAN, dryRun : BOOLEAN]
  BY DEF Forms, emptyForm, NoForm
<1>2. [content : Contents \cup {"empty"}, enabled : BOOLEAN, dryRun : BOOLEAN] \subseteq Forms
  BY DEF Forms
<1>3. emptyForm \in Forms /\ \A f \in MaybeForms : f # NoForm => f \in Forms
  BY DEF Forms, MaybeForms
<1>4. \A f \in Forms : Toggled(f) \in Forms
  BY <1>1, <1>2 DEF Toggled
<1>5. \A f \in Forms, e \in BOOLEAN, d \in BOOLEAN :
        [f EXCEPT !.enabled = e, !.dryRun = d] \in Forms /\ [f EXCEPT !.enabled = e] \in Forms
  BY <1>1, <1>2
<1>6. \A f \in Forms, c \in Contents, e \in BOOLEAN : [f EXCEPT !.content = c, !.enabled = e] \in Forms
  BY <1>1, <1>2
<1> QED
  BY <1>3, <1>4, <1>5, <1>6 DEF Hydrated

LEMMA MutateForms ==
  ASSUME NEW R \in SUBSET Made, NEW q \in Made, q.form \in Forms, \A r \in R : r.form \in Forms
  PROVE  \A s \in mutate(R, q) : s.form \in Forms
BY MutateAdds DEF Stems

\* A change of the dialog.
LEMMA FollowForms ==
  ASSUME EditorInv, FormsInv, NEW d \in DialogType, d.form \in Forms, d.base \in MaybeForms,
         NEW R \in SUBSET Made, Follow(d, R), \A r \in R : r.form \in Forms
  PROVE  EditorForms' /\ RequestForms' /\ live'.timer \in MaybeForms /\ editor' = d
<1>1. editor' = d /\ requests' = Superseded(R, {"live"}) /\ live'.timer = LivePayload(d)
  BY DEF Follow
<1>2. EditorForms'
  BY <1>1 DEF EditorForms
<1>3. RequestForms'
  BY <1>1, SupersededKeeps DEF RequestForms, Stems
<1>4. live'.timer \in MaybeForms
  BY <1>1 DEF LivePayload, MaybeForms
<1> QED
  BY <1>1, <1>2, <1>3, <1>4

LEMMA FollowKeepsForms ==
  ASSUME EditorInv, FormsInv, NEW d \in DialogType, d.form \in Forms, d.base \in MaybeForms,
         NEW R \in SUBSET Made, Follow(d, R), \A r \in R : r.form \in Forms,
         d.open => editor.open \/ ~enable.show,
         StoredForms', enable' = enable
  PROVE  FormsInv'
BY FollowForms DEF FormsInv, OneDialog

LEMMA SameStored ==
  ASSUME FormsInv, UNCHANGED <<saved, overview>>
  PROVE  StoredForms'
BY DEF FormsInv, StoredForms

\* A step that leaves the dialog alone.
LEMMA BesideTheDialog ==
  ASSUME FormsInv, StoredForms', RequestForms', editor' = editor,
         live'.timer \in {live.timer, NoForm},
         \/ enable'.show = FALSE \/ enable' = enable
         \/ enable'.show = enable.show /\ enable'.rule = enable.rule
  PROVE  FormsInv'
BY DEF FormsInv, EditorForms, OneDialog, MaybeForms

LEMMA OverviewForms ==
  ASSUME EditorInv, FormsInv, Overview
  PROVE  FormsInv'
<1>0. /\ requests \in SUBSET Made /\ RequestForms /\ StoredForms
      /\ editor \in DialogType /\ enable \in EnableType /\ gestures \in Int
  BY DEF EditorInv, EditorTypes, FormsInv, DialogType, EnableType
<1>1. ASSUME NEW t \in Rules \cup {0}, NEW base \in MaybeForms, base \in AnyForm,
             OpenDialog(t, base)
      PROVE  FormsInv'
  <2> DEFINE d == [open |-> TRUE, target |-> t, base |-> base, form |-> Hydrated(base)]
  <2>1. d \in DialogType /\ d.form = Hydrated(base) /\ d.base = base
    BY <1>1, Forms_ DEF DialogType
  <2>2. Follow(d, requests) /\ UNCHANGED <<saved, overview, enable>> /\ ~enable.show
    BY <1>1 DEF OpenDialog, AtOverview
  <2> HIDE DEF d
  <2> QED
    BY <1>0, <2>1, <2>2, FormsAre, SameStored, FollowKeepsForms DEF RequestForms
<1>2. CASE openCreateDialog
  <2>1. NoForm \in MaybeForms /\ NoForm \in AnyForm /\ 0 \in Rules \cup {0}
    BY Forms_ DEF MaybeForms
  <2> QED
    BY <1>1, <1>2, <2>1 DEF openCreateDialog
<1>3. ASSUME NEW i \in Rules, openEditDialog(i) PROVE FormsInv'
  <2>1. overview[i] \in MaybeForms /\ overview[i] \in AnyForm
    BY <1>0 DEF StoredForms, EditorInv, EditorTypes
  <2> QED
    BY <1>1, <1>3, <2>1 DEF openEditDialog
<1>4. ASSUME NEW i \in Rules, handleToggle(i) PROVE FormsInv'
  <2>1. /\ overview[i] \in Forms /\ overview[i] \in AnyForm /\ Toggled(overview[i]) \in Forms
        /\ Toggled(overview[i]) \in AnyForm
    <3>1. overview[i] \in MaybeForms /\ overview[i] \in AnyForm /\ overview[i] # NoForm
      BY <1>0, <1>4 DEF StoredForms, EditorInv, EditorTypes, handleToggle
    <3> QED
      BY <3>1, FormsAre, Forms_
  <2>2. /\ UNCHANGED <<saved, overview, editor, live>> /\ ~editor.open
    BY <1>4 DEF handleToggle, AtOverview
  <2>3. CASE ~overview[i].enabled /\ NeedsPreview(overview[i])
    <3> DEFINE q == RuleRequest("enablePreview", gestures, i, overview[i], FALSE)
    <3>1. q \in Made /\ q.form = overview[i]
      BY <1>0, <2>1 DEF RuleRequest, Made, RuleKinds
    <3>2. requests' = mutate(requests, q) /\ enable'.rule = overview[i]
      BY <1>4, <2>3 DEF handleToggle
    <3> HIDE DEF q
    <3>3. RequestForms'
      BY <1>0, <2>1, <3>1, <3>2, MutateForms DEF RequestForms
    <3> QED
      BY <2>1, <2>2, <3>2, <3>3, SameStored DEF FormsInv, EditorForms, OneDialog
  <2>4. CASE ~(~overview[i].enabled /\ NeedsPreview(overview[i]))
    <3> DEFINE q == RuleRequest("toggle", gestures, i, Toggled(overview[i]), FALSE)
    <3>1. q \in Made /\ q.form = Toggled(overview[i])
      BY <1>0, <2>1 DEF RuleRequest, Made, RuleKinds
    <3>2. requests' = mutate(requests, q) /\ enable' = enable
      BY <1>4, <2>4 DEF handleToggle
    <3> HIDE DEF q
    <3>3. RequestForms'
      BY <1>0, <2>1, <3>1, <3>2, MutateForms DEF RequestForms
    <3> QED
      BY <2>2, <3>2, <3>3, SameStored, BesideTheDialog
  <2> QED
    BY <2>3, <2>4
<1>5. CASE EnableCancel
  BY <1>0, <1>5, SameStored, BesideTheDialog DEF EnableCancel, EnableType, RequestForms
<1>6. CASE confirmEnableRule
  <2> DEFINE q == RuleRequest("toggle", gestures, enable.target, Toggled(enable.rule),
                              enable.result # NoForm)
  <2>1. /\ enable.rule \in Forms /\ enable.rule \in AnyForm /\ enable.target \in Rules \cup {0}
    BY <1>0, <1>6 DEF confirmEnableRule, FormsInv, EnableType
  <2>2. Toggled(enable.rule) \in Forms /\ Toggled(enable.rule) \in AnyForm
    BY <2>1, FormsAre, Forms_
  <2>3. (enable.result # NoForm) \in BOOLEAN
    OBVIOUS
  <2>4. q \in Made /\ q.form = Toggled(enable.rule)
    BY <1>0, <2>1, <2>2, <2>3 DEF RuleRequest, Made, RuleKinds
  <2>5. /\ requests' = mutate(requests, q) /\ enable' = [enable EXCEPT !.show = FALSE]
        /\ UNCHANGED <<saved, overview, editor, live>>
    BY <1>6 DEF confirmEnableRule
  <2> HIDE DEF q
  <2>6. RequestForms'
    BY <1>0, <2>2, <2>4, <2>5, MutateForms DEF RequestForms
  <2>7. enable'.show = FALSE
    BY <1>0, <2>5 DEF EnableType
  <2> QED
    BY <2>5, <2>6, <2>7, SameStored, BesideTheDialog
<1>7. CASE ListAnswer
  <2>1. StoredForms'
    BY <1>0, <1>7 DEF ListAnswer, StoredForms
  <2> QED
    BY <1>0, <1>7, <2>1, BesideTheDialog DEF ListAnswer, RequestForms
<1> QED
  BY <1>2, <1>3, <1>4, <1>5, <1>6, <1>7 DEF Overview

LEMMA applyEnabledChangeForms ==
  ASSUME EditorInv, FormsInv, NEW checked \in BOOLEAN, NEW force \in BOOLEAN,
         applyEnabledChange(checked, force), UNCHANGED <<saved, overview, enable>>
  PROVE  FormsInv'
<1> DEFINE e == editor.form.dryRun \/ force
           f == [editor.form EXCEPT !.enabled = checked, !.dryRun = @ \/ force]
           q == RuleRequest("preview", gestures, editor.target, f, FALSE)
           d == [editor EXCEPT !.form = f]
<1>0. /\ requests \in SUBSET Made /\ editor \in DialogType /\ gestures \in Int
      /\ editor.form \in Forms /\ editor.base \in MaybeForms /\ editor.form \in AnyForm
      /\ \A r \in requests : r.form \in Forms
  BY DEF EditorInv, EditorTypes, FormsInv, EditorForms, RequestForms, DialogType
<1>1. f \in Forms
  <2>1. e \in BOOLEAN
    BY <1>0 DEF AnyForm
  <2>2. [editor.form EXCEPT !.enabled = checked, !.dryRun = e] \in Forms
    <3> HIDE DEF e
    <3> QED
      BY <1>0, <2>1, FormsAre
  <2> QED
    BY <2>2
<1>2. f \in AnyForm
  BY <1>0 DEF AnyForm
<1>3. d \in DialogType /\ d.form = f /\ d.base = editor.base /\ d.open = editor.open
  <2> HIDE DEF f
  <2> QED
    BY <1>0, <1>2 DEF DialogType
<1>4. q \in Made /\ q.form = f
  <2>1. editor.target \in Rules \cup {0}
    BY <1>0 DEF DialogType
  <2> HIDE DEF f
  <2> QED
    BY <1>0, <1>2, <2>1 DEF RuleRequest, Made, RuleKinds
<1>5. \E R \in SUBSET Made : Follow(d, R) /\ \A r \in R : r.form \in Forms
  <2>1. CASE checked /\ NeedsPreview(f)
    <3>1. Follow(d, mutate(requests, q))
      BY <2>1 DEF applyEnabledChange
    <3> HIDE DEF q, d, f
    <3> QED
      BY <1>0, <1>1, <1>4, <3>1, MutateAdds, MutateForms
  <2>2. CASE ~(checked /\ NeedsPreview(f))
    BY <1>0, <2>2 DEF applyEnabledChange
  <2> QED
    BY <2>1, <2>2
<1> HIDE DEF d, f, q, e
<1> QED
  BY <1>0, <1>1, <1>3, <1>5, SameStored, FollowKeepsForms

LEMMA ClosePreviewForms ==
  ASSUME EditorInv, FormsInv, NEW R \in SUBSET Made, ClosePreview(R),
         \A r \in R : r.form \in Forms, UNCHANGED <<saved, overview, enable>>
  PROVE  FormsInv'
<1>1. CASE confirm.before = {}
  BY <1>1, SameStored, BesideTheDialog DEF ClosePreview, RequestForms
<1>2. CASE confirm.before # {}
  <2> DEFINE on == TRUE \in confirm.before
             d == [editor EXCEPT !.form.enabled = on]
             f == [editor.form EXCEPT !.enabled = on]
  <2>1. on \in BOOLEAN /\ Follow(d, R)
    BY <1>2 DEF ClosePreview
  <2>2. /\ editor \in DialogType /\ editor.form \in Forms /\ editor.base \in MaybeForms
        /\ editor.form \in AnyForm
    BY DEF EditorInv, EditorTypes, FormsInv, EditorForms, DialogType
  <2>3. f \in Forms /\ f \in AnyForm
    <3> HIDE DEF on
    <3>1. f \in AnyForm
      BY <2>1, <2>2 DEF AnyForm
    <3>2. f \in Forms
      BY <2>1, <2>2, FormsAre
    <3> QED
      BY <3>1, <3>2
  <2>4. d = [editor EXCEPT !.form = f]
    OBVIOUS
  <2> HIDE DEF f
  <2>5. d \in DialogType /\ d.form = f /\ d.base = editor.base /\ d.open = editor.open
    <3> HIDE DEF d
    <3> QED
      BY <2>2, <2>3, <2>4 DEF DialogType
  <2> HIDE DEF d
  <2> QED
    BY <2>1, <2>2, <2>3, <2>5, SameStored, FollowKeepsForms
<1> QED
  BY <1>1, <1>2

LEMMA AfterValidationForms ==
  ASSUME EditorInv, FormsInv, NEW R \in SUBSET requests, NEW i \in Int, NEW f \in AnyForm,
         f \in Forms, AfterValidation(R, i, f), UNCHANGED <<saved, overview, editor, enable, live>>
  PROVE  FormsInv'
<1>1. R \in SUBSET Made /\ editor.target \in Rules \cup {0} /\ \A r \in R : r.form \in Forms
  BY DEF EditorInv, EditorTypes, FormsInv, RequestForms
<1>2. PICK k \in {"preview", "save"} :
         requests' = mutate(R, RuleRequest(k, i, editor.target, f, FALSE))
  BY DEF AfterValidation, StartPreview, createOrUpdate
<1> DEFINE q == RuleRequest(k, i, editor.target, f, FALSE)
<1>3. q \in Made /\ q.form = f
  BY <1>1 DEF RuleRequest, Made, RuleKinds
<1> HIDE DEF q
<1>4. requests' = mutate(R, q)
  BY <1>2 DEF q
<1>5. RequestForms'
  BY <1>1, <1>3, <1>4, MutateForms DEF RequestForms
<1> QED
  BY <1>5, SameStored, BesideTheDialog

LEMMA DialogForms ==
  ASSUME EditorInv, FormsInv, Dialog
  PROVE  FormsInv'
<1>0. /\ requests \in SUBSET Made /\ editor \in DialogType /\ gestures \in Int
      /\ editor.form \in Forms /\ editor.base \in MaybeForms /\ editor.form \in AnyForm
      /\ editor.base \in AnyForm /\ \A r \in requests : r.form \in Forms
  BY DEF EditorInv, EditorTypes, FormsInv, EditorForms, RequestForms, DialogType
<1>1. CASE CloseDialog
  <2>1. Closed(editor) \in DialogType /\ Closed(editor).form = editor.form
        /\ Closed(editor).base = editor.base /\ ~Closed(editor).open
    BY <1>0 DEF Closed, DialogType
  <2> QED
    BY <1>0, <1>1, <2>1, SameStored, FollowKeepsForms DEF CloseDialog
<1>2. ASSUME NEW c \in Contents, EditContent(c) PROVE FormsInv'
  <2> DEFINE starts == c \in Deletes /\ editor.form.content \notin Deletes /\ editor.target = 0
             e == editor.form.enabled /\ ~starts
             f == [editor.form EXCEPT !.content = c, !.enabled = e]
             d == [editor EXCEPT !.form.content = c, !.form.enabled = @ /\ ~starts]
  <2>1. Follow(d, requests) /\ UNCHANGED <<saved, overview, enable>>
    BY <1>2 DEF EditContent
  <2>2. d = [editor EXCEPT !.form = f]
    BY <1>0 DEF DialogType
  <2>3. e \in BOOLEAN
    BY <1>0 DEF AnyForm
  <2> HIDE DEF e
  <2>4. f \in AnyForm
    BY <1>0, <2>3 DEF AnyForm
  <2>5. f \in Forms
    BY <1>0, <2>3, FormsAre
  <2> HIDE DEF f, d
  <2>6. d \in DialogType /\ d.form = f /\ d.base = editor.base /\ d.open = editor.open
    BY <1>0, <2>2, <2>4 DEF DialogType
  <2> QED
    BY <1>0, <2>1, <2>5, <2>6, SameStored, FollowKeepsForms
<1>3. CASE CustomizationsChange
  <2> DEFINE d == [editor EXCEPT !.form = Hydrated(editor.base)]
  <2>1. Follow(d, requests) /\ UNCHANGED <<saved, overview, enable>>
    BY <1>3 DEF CustomizationsChange
  <2>2. Hydrated(editor.base) \in Forms /\ Hydrated(editor.base) \in AnyForm
    BY <1>0, FormsAre, Forms_
  <2>3. /\ d \in DialogType /\ d.form = Hydrated(editor.base) /\ d.base = editor.base
        /\ d.open = editor.open
    BY <1>0, <2>2 DEF DialogType
  <2> HIDE DEF d
  <2> QED
    BY <1>0, <2>1, <2>2, <2>3, SameStored, FollowKeepsForms
<1>4. CASE handleEnabledToggle
  <2> DEFINE checked == ~editor.form.enabled
  <2>1. CASE UNCHANGED <<editor, live, requests>>
    <3>1. UNCHANGED <<saved, overview, enable>> /\ RequestForms'
      BY <1>0, <1>4, <2>1 DEF handleEnabledToggle, RequestForms
    <3> QED
      BY <2>1, <3>1, SameStored, BesideTheDialog
  <2>2. CASE applyEnabledChange(checked, FALSE)
    <3>1. checked \in BOOLEAN /\ UNCHANGED <<saved, overview, enable>>
      BY <1>4 DEF handleEnabledToggle
    <3> HIDE DEF checked
    <3> QED
      BY <2>2, <3>1, applyEnabledChangeForms
  <2> QED
    BY <1>4, <2>1, <2>2 DEF handleEnabledToggle
<1>5. ASSUME NEW force \in BOOLEAN, DryRunPrompt(force) PROVE FormsInv'
  BY <1>5, applyEnabledChangeForms DEF DryRunPrompt
<1>6. CASE DryRunPromptCancel
  <2>1. UNCHANGED <<saved, overview, editor, enable, live, requests>> /\ RequestForms'
    BY <1>0, <1>6 DEF DryRunPromptCancel, RequestForms
  <2> QED
    BY <2>1, SameStored, BesideTheDialog
<1>7. CASE handleSubmit
  <2>1. UNCHANGED <<saved, overview, editor, enable, live>>
    BY <1>7 DEF handleSubmit
  <2>2. CASE editor.form.enabled
    <3> DEFINE q == RuleRequest("regex", gestures, 0, editor.form, FALSE)
    <3>1. requests' = requests \cup {q} /\ q.form = editor.form
      BY <1>7, <2>2 DEF handleSubmit, RuleRequest
    <3> HIDE DEF q
    <3>2. RequestForms'
      BY <1>0, <3>1 DEF RequestForms
    <3> QED
      BY <2>1, <3>2, SameStored, BesideTheDialog
  <2>3. CASE ~editor.form.enabled
    <3>1. AfterValidation(requests, gestures, editor.form)
      BY <1>7, <2>3 DEF handleSubmit
    <3> QED
      BY <1>0, <2>1, <3>1, AfterValidationForms
  <2> QED
    BY <2>2, <2>3
<1>8. CASE ConfirmCancel
  BY <1>0, <1>8, ClosePreviewForms DEF ConfirmCancel
<1>9. CASE handleConfirmSave
  <2> DEFINE w == confirm.result # NoForm
             q == RuleRequest("save", gestures, editor.target, editor.form, w)
  <2>1. q \in Made /\ q.form = editor.form
    <3>1. w \in BOOLEAN /\ editor.target \in Rules \cup {0}
      BY <1>0 DEF DialogType
    <3> HIDE DEF w
    <3> QED
      BY <1>0, <3>1 DEF RuleRequest, Made, RuleKinds
  <2>2. ClosePreview(mutate(requests, q)) /\ UNCHANGED <<saved, overview, enable>>
    BY <1>9 DEF handleConfirmSave
  <2> HIDE DEF q
  <2>3. mutate(requests, q) \in SUBSET Made /\ \A r \in mutate(requests, q) : r.form \in Forms
    BY <1>0, <2>1, MutateAdds, MutateForms
  <2> QED
    BY <2>2, <2>3, ClosePreviewForms
<1>10. CASE LiveSend
  <2> DEFINE q == RuleRequest("live", gestures, 0, live.timer, FALSE)
  <2>1. live.timer \in Forms /\ q.form = live.timer
    BY <1>10, FormsAre DEF LiveSend, FormsInv, RuleRequest
  <2>2. /\ requests' = requests \cup {q} /\ live' = [live EXCEPT !.timer = NoForm]
        /\ UNCHANGED <<saved, overview, editor, enable>>
    BY <1>10 DEF LiveSend
  <2>3. live'.timer = NoForm
    BY <2>2 DEF EditorInv, EditorTypes
  <2> HIDE DEF q
  <2>4. RequestForms'
    BY <1>0, <2>1, <2>2 DEF RequestForms
  <2> QED
    BY <2>2, <2>3, <2>4, SameStored, BesideTheDialog
<1> QED
  BY <1>1, <1>2, <1>3, <1>4, <1>5, <1>6, <1>7, <1>8, <1>9, <1>10 DEF Dialog

LEMMA AnswerForms ==
  ASSUME EditorInv, FormsInv, Answers
  PROVE  FormsInv'
<1>0. /\ requests \in SUBSET Made /\ \A r \in requests : r.form \in Forms
      /\ StoredForms /\ editor \in DialogType /\ editor.form \in Forms
      /\ editor.base \in MaybeForms /\ enable \in EnableType
      /\ live \in [loading : BOOLEAN, timer : AnyForm, result : AnyForm]
  BY DEF EditorInv, EditorTypes, FormsInv, EditorForms, RequestForms, DialogType, EnableType
<1>1. PICK r \in requests :
        \/ ServeRule(r) \/ SaveSuccess(r) \/ ToggleSuccess(r) \/ MutationError(r)
        \/ \E ok \in BOOLEAN : \/ RegexAnswer(r, ok) \/ PreviewAnswer(r, ok)
                               \/ EnableAnswer(r, ok) \/ LiveAnswer(r, ok)
  BY DEF Answers
<1>2. r \in Made /\ r.form \in Forms
  BY <1>0
<1>3. ASSUME requests' = requests \ {r} PROVE RequestForms'
  BY <1>0, <1>3 DEF RequestForms
<1>4. CASE ServeRule(r)
  <2>1. UNCHANGED <<overview, editor, enable, live>>
    BY <1>4 DEF ServeRule
  <2>2. StoredForms'
    <3>1. PICK i : saved' = [saved EXCEPT ![i] = r.form]
      BY <1>4 DEF ServeRule
    <3>2. r.form \in MaybeForms
      BY <1>2 DEF MaybeForms
    <3> QED
      BY <1>0, <2>1, <3>1, <3>2 DEF StoredForms
  <2>3. RequestForms'
    <3>1. [r EXCEPT !.sent = FALSE].form = r.form
      BY <1>2 DEF Made
    <3>2. requests' = (requests \ {r}) \cup {[r EXCEPT !.sent = FALSE]}
      BY <1>4 DEF ServeRule
    <3> QED
      BY <1>0, <1>2, <3>1, <3>2 DEF RequestForms
  <2> QED
    BY <2>1, <2>2, <2>3, BesideTheDialog
<1>5. CASE SaveSuccess(r)
  <2>1. /\ Closed(editor) \in DialogType /\ Closed(editor).form = editor.form
        /\ Closed(editor).base = editor.base /\ ~Closed(editor).open
    BY <1>0 DEF Closed, DialogType
  <2>2. requests \ {r} \in SUBSET Made /\ \A s \in requests \ {r} : s.form \in Forms
    BY <1>0
  <2> QED
    BY <1>0, <1>5, <2>1, <2>2, SameStored, FollowKeepsForms DEF SaveSuccess
<1>6. CASE ToggleSuccess(r) \/ MutationError(r)
  <2>1. /\ requests' = requests \ {r}
        /\ UNCHANGED <<saved, overview, editor, enable, live>>
    BY <1>6 DEF ToggleSuccess, MutationError
  <2> QED
    BY <1>3, <2>1, SameStored, BesideTheDialog
<1>7. ASSUME NEW ok \in BOOLEAN, RegexAnswer(r, ok) PROVE FormsInv'
  <2>1. UNCHANGED <<saved, overview, editor, enable, live>>
    BY <1>7 DEF RegexAnswer
  <2>2. CASE ok
    <3>1. AfterValidation(requests \ {r}, r.id, r.form)
      BY <1>7, <2>2 DEF RegexAnswer
    <3>2. r.id \in Int /\ r.form \in AnyForm /\ requests \ {r} \in SUBSET requests
      BY <1>2 DEF Made
    <3> QED
      BY <1>2, <2>1, <3>1, <3>2, AfterValidationForms
  <2>3. CASE ~ok
    <3>1. requests' = requests \ {r}
      BY <1>7, <2>3 DEF RegexAnswer
    <3> QED
      BY <1>3, <2>1, <3>1, SameStored, BesideTheDialog
  <2> QED
    BY <2>2, <2>3
<1>8. ASSUME NEW ok \in BOOLEAN, PreviewAnswer(r, ok) PROVE FormsInv'
  <2>1. /\ requests' = requests \ {r}
        /\ UNCHANGED <<saved, overview, editor, enable, live>>
    BY <1>8 DEF PreviewAnswer
  <2> QED
    BY <1>3, <2>1, SameStored, BesideTheDialog
<1>9. ASSUME NEW ok \in BOOLEAN, EnableAnswer(r, ok) PROVE FormsInv'
  <2>1. /\ requests' = requests \ {r}
        /\ UNCHANGED <<saved, overview, editor, live>>
    BY <1>9 DEF EnableAnswer
  <2>2. \/ enable'.show = FALSE \/ enable' = enable
        \/ enable'.show = enable.show /\ enable'.rule = enable.rule
    BY <1>0, <1>9 DEF EnableAnswer, EnableType
  <2> QED
    BY <1>3, <2>1, <2>2, SameStored, BesideTheDialog
<1>10. ASSUME NEW ok \in BOOLEAN, LiveAnswer(r, ok) PROVE FormsInv'
  <2>1. /\ requests' = requests \ {r}
        /\ UNCHANGED <<saved, overview, editor, enable>>
    BY <1>10 DEF LiveAnswer
  <2>2. live'.timer = live.timer
    BY <1>0, <1>10 DEF LiveAnswer
  <2> QED
    BY <1>3, <2>1, <2>2, SameStored, BesideTheDialog
<1> QED
  BY <1>1, <1>4, <1>5, <1>6, <1>7, <1>8, <1>9, <1>10

LEMMA FormsStart == EditorInit => FormsInv
<1> SUFFICES ASSUME EditorInit PROVE FormsInv
  OBVIOUS
<1>1. {NoForm} \cup [content : Contents, enabled : BOOLEAN, dryRun : {FALSE}] \subseteq MaybeForms
  BY DEF MaybeForms, Forms
<1>2. StoredForms
  BY <1>1 DEF EditorInit, StoredForms
<1>3. /\ editor.form = emptyForm /\ editor.base = NoForm /\ live.timer = NoForm
      /\ requests = {} /\ ~enable.show
  BY DEF EditorInit
<1> QED
  BY <1>2, <1>3, FormsAre DEF FormsInv, EditorForms, RequestForms, OneDialog, MaybeForms

LEMMA FormsStep == EditorInv /\ FormsInv /\ [EditorNext]_editorVars => FormsInv'
<1> SUFFICES ASSUME EditorInv, FormsInv, [EditorNext]_editorVars PROVE FormsInv'
  OBVIOUS
<1>1. CASE UNCHANGED editorVars
  BY <1>1 DEF editorVars, FormsInv, StoredForms, EditorForms, RequestForms, OneDialog
<1> QED
  BY <1>1, OverviewForms, DialogForms, AnswerForms DEF EditorNext

LEMMA FormsAreTyped == EditorInv /\ FormsInv => EditorTypeOK
<1> SUFFICES ASSUME EditorInv, FormsInv PROVE EditorTypeOK
  OBVIOUS
<1>1. \A r \in requests : r.target \in Rules \cup {0}
  BY DEF EditorInv, EditorTypes, Made
<1>2. editor.target \in Rules \cup {0} /\ confirm.before \subseteq BOOLEAN
  BY DEF EditorInv, EditorTypes
<1> QED
  BY <1>1, <1>2 DEF FormsInv, StoredForms, EditorForms, RequestForms, OneDialog, MaybeForms,
                    EditorTypeOK

\* Rules, forms and requests are what they are said to be, and one dialog is over the list
\* at a time, whatever answers come late (WorkflowsOverview, WorkflowDialog).
THEOREM EditorTyped ==
  EditorSpec => []EditorTypeOK
<1>1. EditorInit => EditorInv /\ FormsInv
  BY EditorStart, FormsStart
<1>2. (EditorInv /\ FormsInv) /\ [EditorNext]_editorVars => (EditorInv /\ FormsInv)'
  BY EditorStep, FormsStep
<1> QED
  BY <1>1, <1>2, FormsAreTyped, PTL DEF EditorSpec

-----------------------------------------------------------------------------
(***************************************************************************)
(* The dialogs side by side. Each step of one leaves the others alone, so  *)
(* that what is proved of each holds of all.                               *)
(***************************************************************************)
DialogsInv ==
  /\ Inductive /\ Shape
  /\ FormInv
  /\ EditorInv /\ FormsInv

LEMMA DialogsStart == DialogsInit => DialogsInv
BY InductiveInit, ShapeInit, FormStart, EditorStart, FormsStart DEF DialogsInit, DialogsInv

LEMMA DialogsStep == DialogsInv /\ [DialogsNext]_dialogVars => DialogsInv'
<1> SUFFICES ASSUME DialogsInv, [DialogsNext]_dialogVars PROVE DialogsInv'
  OBVIOUS
<1>1. [Next]_vars /\ [FormNext]_formVars /\ [EditorNext]_editorVars
  BY DEF DialogsNext, dialogVars
<1> QED
  BY <1>1, InductiveStep, ShapeStep, FormStep, EditorStep, FormsStep DEF DialogsInv

LEMMA DialogsInvHolds == DialogsSpec => []DialogsInv
BY DialogsStart, DialogsStep, PTL DEF DialogsSpec

\* Each dialog's variables are what its TypeOK says of them, with the others beside it.
THEOREM DialogsTyped ==
  DialogsSpec => []DialogsTypeOK
<1>1. DialogsInv => DialogsTypeOK
  BY ShapeIsTypeOK, FormInvGives, FormsAreTyped DEF DialogsInv, DialogsTypeOK
<1> QED
  BY <1>1, DialogsInvHolds, PTL

\* What is proved of the form and of the editor holds of them among the dialogs: a rule
\* opened and saved unchanged stays the same but for its trackers and a cold source, of
\* what Submit accepts the server refuses what it does not look for, nothing is enabled
\* without a preview, and the live preview is not of an older form.
THEOREM DialogsKeepTheirPromises ==
  DialogsSpec => [](ReopenKeeps /\ FormFits /\ NoSilentActivation /\ LivePreviewCurrent)
<1>1. DialogsInv => ReopenKeeps /\ FormFits /\ NoSilentActivation /\ LivePreviewCurrent
  BY FormInvGives DEF DialogsInv, EditorInv
<1> QED
  BY <1>1, DialogsInvHolds, PTL

\* The refinement holds with the other dialogs beside the search: a release is added to a
\* torrent only from what that torrent's own latest search had found.
THEOREM DialogsKeepPromise ==
  DialogsSpec => KeepsPromise
<1>1. DialogsInit => Promise!Init
  BY StartsAsPromised DEF DialogsInit
<1>2. DialogsInv /\ [DialogsNext]_dialogVars => [Promise!Next]_Promise!vars
  <2>1. [DialogsNext]_dialogVars => [Next]_vars
    BY DEF DialogsNext, dialogVars
  <2> QED
    BY <2>1, StepsKeepPromise DEF DialogsInv
<1> QED
  BY <1>1, <1>2, DialogsInvHolds, PTL DEF DialogsSpec, KeepsPromise, Promise!Spec
=============================================================================
