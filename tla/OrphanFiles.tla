----------------------------- MODULE OrphanFiles -----------------------------
(***************************************************************************)
(* Which files an orphan-scan run of instance Me may erase: the file map   *)
(* built from the torrents of this and of the other active instances       *)
(* (buildFileMap), the walk that turns it into a preview (walker.go), and  *)
(* the deletion, which builds the map again and checks every row of the    *)
(* preview against it (delete.go).  The torrents, the files on disk and    *)
(* the settings change between any two reads.                              *)
(*                                                                         *)
(* tor is what qui's sync cache says of the torrents.  A path is its set   *)
(* of ancestors Up, so that the byte comparisons of isPathUnderNormalized  *)
(* and isIgnoredPath are membership.  A directory exists while it holds a  *)
(* file.  The folders and files that may stand beside a disc marker        *)
(* (CERTIFICATE, AUDIO_TS, desktop.ini) and the ignored names are left     *)
(* out.  The status of the run is the business of module OrphanRuns.       *)
(***************************************************************************)
EXTENDS Naturals, FiniteSets

CONSTANTS Dirs, Files,
          Up,        \* the ancestors of a path, itself included
          Above,     \* the parent of a path
          Markers,   \* directories named BDMV or VIDEO_TS
          Instances, Me,
          Torrents, Owner,
          Save,      \* save_path
          Payload,   \* actualSavePathFromContentPath
          Content,   \* content_path
          Claims,    \* the torrent's files below Save and below Payload
          Cap,       \* settings.MaxFilesPerRun
          Ignorable, \* the directories a user may enter as ignore paths
          MaxChanges \* bound: changes of torrents, files and settings

Paths == Dirs \cup Files

ASSUME TreeAssumption ==
  /\ Up \in [Paths -> SUBSET Paths] /\ Above \in [Paths -> Paths]
  /\ \A p \in Paths : p \in Up[p] /\ Above[p] \in Up[p]
  /\ \A p \in Paths : \A q \in Up[p] : Up[q] \subseteq Up[p]
  /\ \A p \in Paths : \A q, r \in Up[p] : q \in Up[r] \/ r \in Up[q]
  /\ \A p, q \in Paths : p \in Up[q] /\ q \in Up[p] => p = q
  /\ \A p \in Paths : \A q \in Up[p] : q = p \/ q \in Up[Above[p]]
  /\ \A p \in Paths : \A q \in Up[p] \ {p} :
        \E e \in Up[p] : e # q /\ Above[e] = q
  /\ \A p \in Paths : \A S \in SUBSET Up[p] :
        S # {} => \E q \in S : \A o \in S : q \in Up[o]
ASSUME KindsAssumption ==
  /\ Dirs \cap Files = {} /\ Markers \subseteq Dirs /\ Ignorable \subseteq Dirs
  /\ \A p \in Paths : \A f \in Files \cap Up[p] : p = f
ASSUME BoundsAssumption == Cap \in Nat \ {0} /\ MaxChanges \in Nat
ASSUME TorrentsAssumption ==
  /\ Me \in Instances
  /\ Owner \in [Torrents -> Instances]
  /\ Save \in [Torrents -> Dirs] /\ Payload \in [Torrents -> Dirs]
  /\ Content \in [Torrents -> Paths]
  /\ Claims \in [Torrents -> SUBSET Files]
  /\ \A t \in Torrents : \A f \in Claims[t] :
        Save[t] \in Up[f] \/ Content[t] \in Up[f]

VARIABLES
  \* the environment
  tor,       \* absent, meta (transient, no file list), unlisted (stable, none)
             \* or listed
  active,    \* the instances that are active with local access
  disk,      \* files that exist
  ignore,    \* settings.IgnorePaths
  changes,
  \* the run
  job,       \* "scan" or "delete"
  pc,
  cur,       \* the instance whose torrents are being read
  listing,   \* getAllTorrents, until the file lists are there
  map,       \* TorrentFileMap
  roots, skipped,
  pending,   \* other local instances still to look at
  ign,       \* ignore paths the job works with
  rows,      \* preview rows not yet dealt with
  paths,     \* run.ScanPaths
  checked,   \* the row that passed the checks and is about to be removed
  erased,    \* files this run has removed
  \* history
  watch, watchDel,   \* what each torrent has been since the scan (deletion) began
  old, oldDel,       \* files nobody else removed since then
  shield             \* ignore paths a stage has read and the user has kept

world == <<tor, active, disk, ignore, changes>>
history == <<watch, watchDel, old, oldDel, shield>>
vars == <<world, job, pc, cur, listing, map, roots, skipped, pending, ign,
          rows, paths, checked, erased, history>>

TorStates == {"absent", "meta", "unlisted", "listed"}
Watches == {"no", "present", "listed"}
Building == {"list", "files", "instances", "others", "confirm"}
Pcs == {"idle", "walk", "preview", "settings", "erase", "remove", "done"} \cup Building

NoTorrents == [t \in Torrents |-> "absent"]
Unwatched == [t \in Torrents |-> "no"]

Init ==
  /\ tor \in [Torrents -> TorStates]
  /\ active = Instances
  /\ disk \in SUBSET Files
  /\ ignore \in SUBSET Ignorable
  /\ changes = 0
  /\ job = "scan" /\ pc = "idle" /\ cur = Me
  /\ listing = NoTorrents
  /\ map = {} /\ roots = {} /\ skipped = {} /\ pending = {} /\ ign = {}
  /\ rows = {} /\ paths = {} /\ checked = {} /\ erased = {}
  /\ watch = Unwatched /\ watchDel = Unwatched
  /\ old = {} /\ oldDel = {} /\ shield = {}

-----------------------------------------------------------------------------
(* Paths *)

\* isIgnoredPath: the path or a directory above it is in the list.
Ignored(p, I) == Up[p] \cap I # {}

\* Mutant: a directory with an ignored path inside is not protected.
ProtectedAbove(p, I) == Ignored(p, I)

\* isPathProtectedByIgnorePaths
Protected(p, I) == Ignored(p, I) \/ \E q \in I : p \in Up[q]

\* scanRootsOverlap
Overlap(A, B) == \E a \in A, b \in B : a \in Up[b] \/ b \in Up[a]

\* filterScanRootsCoveredBySkippedRoots
Uncovered(R, S) == {r \in R : ~Ignored(r, S)}

-----------------------------------------------------------------------------
(* buildFileMap, for the scan and again for the deletion *)

TorrentsOf(i) == {t \in Torrents : Owner[t] = i}

\* scanRootsFromTorrents
RootsOf(i) == UNION {{Save[t], Content[t]} : t \in {u \in TorrentsOf(i) : tor[u] # "absent"}}

\* What since-when bookkeeping says of the torrents now.
WatchNow == [t \in Torrents |->
  IF tor[t] = "absent" \/ Owner[t] \notin active THEN "no"
  ELSE IF tor[t] = "listed" THEN "listed" ELSE "present"]

\* The torrents of the listing whose file lists arrive, those in a transient
\* state whose lists do not, and those that should have one.
Described == {t \in TorrentsOf(cur) : listing[t] # "absent" /\ tor[t] = "listed"}
Transient == {t \in TorrentsOf(cur) : listing[t] = "meta" /\ tor[t] # "listed"}
Partial == {t \in TorrentsOf(cur) : listing[t] \in {"unlisted", "listed"} /\ tor[t] # "listed"}

\* buildInstanceFileMap gets the torrents of an instance first ...
ListTorrents ==
  /\ pc = "list" /\ pc' = "files"
  /\ listing' = tor
  /\ UNCHANGED <<world, job, cur, map, roots, skipped, pending, ign, rows, paths,
                 checked, erased, history>>

\* ... and their file lists, freshly fetched, after it: buildFileMapFromTorrents
\* on this instance's torrents.
BuildOwn ==
  /\ pc = "files" /\ cur = Me
  /\ Partial = {}
  /\ map' = UNION {Claims[t] : t \in Described}
  /\ skipped' = {Save[t] : t \in Transient}
  /\ roots' = Uncovered(UNION {{Save[t], Payload[t]} : t \in Described}, skipped')
  /\ listing' = NoTorrents
  /\ pc' = "instances"
  /\ UNCHANGED <<world, job, cur, pending, ign, rows, paths, checked, erased, history>>

\* Mutant: the instance being scanned is not left out.
OtherInstancesAll ==
  /\ pc = "instances" /\ pc' = "others"
  /\ pending' = active
  /\ UNCHANGED <<world, job, cur, listing, map, roots, skipped, ign, rows, paths,
                 checked, erased, history>>

\* getOtherLocalInstances
OtherInstances ==
  /\ pc = "instances" /\ pc' = "others"
  /\ pending' = active \ {Me}
  /\ UNCHANGED <<world, job, cur, listing, map, roots, skipped, ign, rows, paths,
                 checked, erased, history>>

\* instanceScanRootsForOverlap: live, or the scan paths of the last completed
\* run of an instance that is not ready.  Disjoint roots must be confirmed.
CheckOverlap(i) ==
  /\ pc = "others" /\ i \in pending
  /\ \E seen \in {RootsOf(i)} \cup ((SUBSET {Save[t] : t \in TorrentsOf(i)}) \ {{}}) :
        pc' = IF Overlap(roots, seen) THEN "list" ELSE "confirm"
  /\ cur' = i
  /\ UNCHANGED <<world, job, listing, map, roots, skipped, pending, ign, rows, paths,
                 checked, erased, history>>

\* buildInstanceScanRoots a second time, live only.
ConfirmDisjoint ==
  /\ pc = "confirm"
  /\ IF Overlap(roots, RootsOf(cur))
     THEN pc' = "list" /\ UNCHANGED pending
     ELSE pc' = "others" /\ pending' = pending \ {cur}
  /\ UNCHANGED <<world, job, cur, listing, map, roots, skipped, ign, rows, paths,
                 checked, erased, history>>

\* Mutant: the skipped roots of the other instance are dropped.
MergeOtherFilesOnly ==
  /\ pc = "files" /\ cur # Me
  /\ Partial = {}
  /\ map' = map \cup UNION {Claims[t] : t \in Described}
  /\ listing' = NoTorrents
  /\ pc' = "others" /\ pending' = pending \ {cur}
  /\ UNCHANGED <<world, job, cur, roots, skipped, ign, rows, paths, checked, erased, history>>

\* MergeFrom and mergeRootLists.
MergeOther ==
  /\ pc = "files" /\ cur # Me
  /\ Partial = {}
  /\ map' = map \cup UNION {Claims[t] : t \in Described}
  /\ skipped' = skipped \cup {Save[t] : t \in Transient}
  /\ roots' = Uncovered(roots, skipped')
  /\ listing' = NoTorrents
  /\ pc' = "others" /\ pending' = pending \ {cur}
  /\ UNCHANGED <<world, job, cur, ign, rows, paths, checked, erased, history>>

\* The map is complete: executeScan goes on to the walk, executeDeletion to
\* the settings.  Without a scan root the scan fails.
MapBuilt ==
  /\ pc = "others" /\ pending = {}
  /\ pc' = IF job = "delete" THEN "settings" ELSE IF roots = {} THEN "done" ELSE "walk"
  /\ UNCHANGED <<world, job, cur, listing, map, roots, skipped, pending, ign, rows,
                 paths, checked, erased, history>>

\* A client that is not ready, a failing call, torrents without a file list
\* or a cancellation ends the run: nothing more is erased.
Fail ==
  /\ pc \in Building \cup {"erase"} /\ pc' = "done"
  /\ UNCHANGED <<world, job, cur, listing, map, roots, skipped, pending, ign, rows,
                 paths, checked, erased, history>>

-----------------------------------------------------------------------------
(* executeScan *)

\* The settings are read once, before the map is built.
StartScan ==
  /\ pc = "idle" /\ pc' = "list"
  /\ ign' = ignore /\ shield' = ignore
  /\ watch' = WatchNow /\ old' = disk
  /\ UNCHANGED <<world, job, cur, listing, map, roots, skipped, pending, rows, paths,
                 checked, erased, watchDel, oldDel>>

\* findDiscMarker: markers strictly below the scan root on the way to f.
Marks(r, f) == {k \in Markers \cap Up[f] : k # r /\ r \in Up[k]}
FirstMark(r, f) == CHOOSE k \in Marks(r, f) : \A o \in Marks(r, f) : k \in Up[o]

\* discParentIsSafeDiscRoot: no entry of u beside the marker k is or holds a
\* torrent file (HasAnyInDir counts files that are not on disk).
SafeDiscRoot(u, k) ==
  \A e \in Paths \ {k, u} :
     Above[e] = u /\ (\E g \in disk : e \in Up[g]) => \A f \in map : e \notin Up[f]

\* discOrphanUnitWithContext: the path that stands for f, found below r, in the
\* preview: the folder of a disc, its marker folder, or f itself.
Unit(r, f, I) ==
  IF Marks(r, f) = {} THEN f
  ELSE LET k == FirstMark(r, f)
           u == Above[k]
       IN IF Protected(k, I) THEN f
          ELSE IF u = r \/ Protected(u, I) \/ ~SafeDiscRoot(u, k) THEN k
          ELSE u

\* The scanWalker's orphans below one root.  spared: files in the grace period
\* or seen before through another path.  A disc in use is dropped, and with it
\* or with a disc that is an orphan the units inside; hidden: discs whose
\* in-use file the walk met before any orphan of theirs.
Found(r, I, spared, hidden) ==
  LET seen == {f \in disk : r \in Up[f] /\ ~Ignored(f, I)}
      orphans == seen \ (map \cup spared)
      discs == {Unit(r, f, I) : f \in orphans} \ Files
      inUse == {Unit(r, f, I) : f \in seen \cap map} \ Files
  IN {u \in {Unit(r, f, I) : f \in orphans} \ inUse :
        ~\E d \in discs \ (hidden \cap inUse) : d # u /\ d \in Up[u]}

Offered(readable, spared, hidden) ==
  UNION {Found(r, ign \cup skipped, spared, hidden) : r \in readable}

\* The roots the walk could read, the deduplicated orphans below them and, after
\* the sort, the first Cap of them.  The files are inserted and, if there are
\* any, the run becomes a preview.  Writing ScanPaths may fail unnoticed.
Walk ==
  /\ pc = "walk"
  /\ \E spared \in SUBSET disk, hidden \in SUBSET (Markers \cup {Above[k] : k \in Markers}),
        readable \in SUBSET roots :
       LET all == Offered(readable, spared, hidden)
       IN \E kept \in SUBSET all :
            /\ Cardinality(kept) = IF Cardinality(all) > Cap THEN Cap ELSE Cardinality(all)
            /\ rows' = kept
            /\ pc' = IF kept = {} THEN "done" ELSE "preview"
  /\ paths' \in {roots, {}}
  /\ UNCHANGED <<world, job, cur, listing, map, roots, skipped, pending, ign, checked,
                 erased, history>>

-----------------------------------------------------------------------------
(* executeDeletion *)

\* The preview is confirmed, by a user or by maybeAutoCleanup; the file map is
\* built from scratch.
StartDeletion ==
  /\ pc = "preview" /\ pc' = "list"
  /\ job' = "delete" /\ cur' = Me
  /\ map' = {} /\ roots' = {} /\ skipped' = {}
  /\ watchDel' = WatchNow /\ oldDel' = disk
  /\ UNCHANGED <<world, listing, pending, ign, rows, paths, checked, erased, watch, old,
                 shield>>

\* The ignore paths are those of the settings now.  When they cannot be read
\* the deletion goes on without any.
LoadIgnorePaths ==
  /\ pc = "settings" /\ pc' = "erase"
  /\ \/ ign' = ignore /\ shield' = shield \cup ignore
     \/ ign' = {} /\ UNCHANGED shield
  /\ UNCHANGED <<world, job, cur, listing, map, roots, skipped, pending, rows, paths,
                 checked, erased, watch, watchDel, old, oldDel>>

\* The files a removal of p would take.
Inside(p) == {f \in disk : p \in Up[f]}

\* Mutant: only the row itself is looked up in the map.
DeletableShallow(p) ==
  /\ \E r \in paths : r \in Up[p]
  /\ p \notin paths
  /\ ~Protected(p, ign)
  /\ p \notin map

\* findScanRoot, validateDeleteTarget and the checks of safeDeleteTarget.
Deletable(p) ==
  /\ \E r \in paths : r \in Up[p]
  /\ p \notin paths
  /\ ~Protected(p, ign)
  /\ Inside(p) \cap map = {}

\* safeDeleteTarget refuses or skips the row ...
SkipRow(p) ==
  /\ pc = "erase" /\ p \in rows
  /\ ~Deletable(p)
  /\ rows' = rows \ {p}
  /\ UNCHANGED <<world, job, pc, cur, listing, map, roots, skipped, pending, ign, paths,
                 checked, erased, history>>

\* ... or accepts it ...
CheckRow(p) ==
  /\ pc = "erase" /\ p \in rows
  /\ Deletable(p)
  /\ pc' = "remove" /\ checked' = {p}
  /\ UNCHANGED <<world, job, cur, listing, map, roots, skipped, pending, ign, rows, paths,
                 erased, history>>

\* ... and then removes what is there by now; os.RemoveAll may stop half way.
RemoveRow ==
  /\ pc = "remove" /\ pc' = "erase"
  /\ \E gone \in SUBSET UNION {Inside(p) : p \in checked} :
        disk' = disk \ gone /\ erased' = erased \cup gone
  /\ rows' = rows \ checked /\ checked' = {}
  /\ UNCHANGED <<tor, active, ignore, changes, job, cur, listing, map, roots, skipped,
                 pending, ign, paths, history>>

\* Empty directories are cleaned up, which takes no file.
DeletionEnd ==
  /\ pc = "erase" /\ rows = {} /\ pc' = "done"
  /\ UNCHANGED <<world, job, cur, listing, map, roots, skipped, pending, ign, rows,
                 paths, checked, erased, history>>

-----------------------------------------------------------------------------
(* The environment *)

Change == pc # "done" /\ changes < MaxChanges /\ changes' = changes + 1
run == <<job, pc, cur, listing, map, roots, skipped, pending, ign, rows, paths, checked, erased>>

\* A watched torrent that is removed, or not listed any more.
Demoted(w, s) == IF s = "absent" THEN "no"
                 ELSE IF w = "listed" /\ s # "listed" THEN "present" ELSE w

\* A torrent is added, gets its metadata, is rechecked, removed ...
SetTorrent(t, s) ==
  /\ Change
  /\ tor[t] # s
  /\ tor' = [tor EXCEPT ![t] = s]
  /\ watch' = [watch EXCEPT ![t] = Demoted(@, s)]
  /\ watchDel' = [watchDel EXCEPT ![t] = Demoted(@, s)]
  /\ UNCHANGED <<active, disk, ignore, run, old, oldDel, shield>>

\* Another instance is disabled, or loses local access.
Disable(i) ==
  /\ Change
  /\ i \in active \ {Me}
  /\ active' = active \ {i}
  /\ watch' = [t \in Torrents |-> IF Owner[t] = i THEN "no" ELSE watch[t]]
  /\ watchDel' = [t \in Torrents |-> IF Owner[t] = i THEN "no" ELSE watchDel[t]]
  /\ UNCHANGED <<tor, disk, ignore, run, old, oldDel, shield>>

Enable(i) ==
  /\ Change
  /\ i \notin active
  /\ active' = active \cup {i}
  /\ UNCHANGED <<tor, disk, ignore, run, history>>

WriteFile(f) ==
  /\ Change
  /\ f \notin disk
  /\ disk' = disk \cup {f}
  /\ UNCHANGED <<tor, active, ignore, run, history>>

RemoveFile(f) ==
  /\ Change
  /\ f \in disk
  /\ disk' = disk \ {f}
  /\ old' = old \ {f} /\ oldDel' = oldDel \ {f}
  /\ UNCHANGED <<tor, active, ignore, run, watch, watchDel, shield>>

IgnorePath(d) ==
  /\ Change
  /\ d \notin ignore
  /\ ignore' = ignore \cup {d}
  /\ UNCHANGED <<tor, active, disk, run, history>>

UnignorePath(d) ==
  /\ Change
  /\ d \in ignore
  /\ ignore' = ignore \ {d} /\ shield' = shield \ {d}
  /\ UNCHANGED <<tor, active, disk, run, watch, watchDel, old, oldDel>>

Scan == StartScan \/ Walk
Build == \/ ListTorrents \/ BuildOwn \/ OtherInstances \/ ConfirmDisjoint
         \/ MergeOther \/ MapBuilt \/ Fail
         \/ \E i \in Instances : CheckOverlap(i)
Delete == \/ StartDeletion \/ LoadIgnorePaths \/ RemoveRow \/ DeletionEnd
          \/ \E p \in Paths : SkipRow(p) \/ CheckRow(p)
Environment ==
  \/ \E t \in Torrents, s \in TorStates : SetTorrent(t, s)
  \/ \E i \in Instances : Disable(i) \/ Enable(i)
  \/ \E f \in Files : WriteFile(f) \/ RemoveFile(f)
  \/ \E d \in Ignorable : IgnorePath(d) \/ UnignorePath(d)

Next == Scan \/ Build \/ Delete \/ Environment

Spec == Init /\ [][Next]_vars

-----------------------------------------------------------------------------
(* Properties *)

\* Every variable has its type, a row is checked at a time and only in the
\* deletion's loop (executeDeletion).
TypeOK ==
  /\ tor \in [Torrents -> TorStates] /\ listing \in [Torrents -> TorStates]
  /\ active \subseteq Instances /\ pending \subseteq Instances \ {Me}
  /\ disk \subseteq Files /\ ignore \subseteq Dirs /\ changes \in 0..MaxChanges
  /\ job \in {"scan", "delete"} /\ pc \in Pcs /\ cur \in Instances
  /\ map \subseteq Files /\ erased \subseteq Files
  /\ old \subseteq Files /\ oldDel \subseteq Files
  /\ roots \subseteq Dirs /\ skipped \subseteq Dirs /\ ign \subseteq Dirs
  /\ paths \subseteq Dirs /\ shield \subseteq Dirs
  /\ rows \subseteq Paths /\ checked \subseteq rows
  /\ watch \in [Torrents -> Watches] /\ watchDel \in [Torrents -> Watches]

\* The files of a torrent that the scan can know of: all of them while qui has
\* its file list, those below its save path while its state is transient.
Held(t, w) == {f \in Claims[t] : w = "listed" \/ (w = "present" /\ Save[t] \in Up[f])}

\* A file that was there when the scan began and belongs to a torrent that has
\* been in an active instance ever since is never erased, whatever else is
\* added, removed, rechecked or reconfigured between the reads of buildFileMap,
\* the walk, the confirmation and the deletion.
SteadyFilesSafe == \A t \in Torrents : erased \cap old \cap Held(t, watch[t]) = {}

\* The re-check of executeDeletion works for this instance: a torrent whose
\* file list has been available since the confirmation keeps the files that
\* were there at the confirmation, however it came after the scan.
OwnListedSafe ==
  \A t \in Torrents : Owner[t] = Me /\ watchDel[t] = "listed" =>
     erased \cap oldDel \cap Claims[t] = {}

\* Nothing below an ignore path that a stage of the run has read, and that the
\* user has not taken back, is erased, as a file of its own or with a disc
\* folder (isPathProtectedByIgnorePaths, chooseDiscUnit).
IgnoredSafe == \A f \in erased : ~Ignored(f, shield)

\* "Re-checks TorrentFileMap before deletion to handle torrents added since
\* scan" (delete.go), read for every torrent of the instance: one present since
\* the confirmation keeps the files below its save path.
AddedSinceScanSafe ==
  \A t \in Torrents : Owner[t] = Me => erased \cap oldDel \cap Held(t, watchDel[t]) = {}

\* "qui also protects files referenced by torrents from those other instances"
\* when the SavePath directories overlap (documentation): a torrent of another
\* active instance, listed since the confirmation, keeps its files if its save
\* path overlaps the save path of a torrent here that was present as long.
OtherInstancesSafe ==
  \A t, u \in Torrents :
     /\ Owner[t] # Me /\ watchDel[t] = "listed"
     /\ Owner[u] = Me /\ watchDel[u] # "no"
     /\ Overlap({Save[t]}, {Save[u]})
     => erased \cap oldDel \cap Claims[t] = {}
-----------------------------------------------------------------------------
(* The inductive invariant behind the safety properties. *)

\* The order of the stages: before the deletion there is nothing to erase, and
\* a file leaves the disk by the deletion or by someone else.
Stages ==
  /\ job = "scan" => /\ pc \notin {"settings", "erase", "remove"}
                     /\ pc \notin {"preview", "done"} => rows = {}
                     /\ erased = {} /\ oldDel = {} /\ checked = {}
                     /\ shield \subseteq ign
                     /\ watchDel = Unwatched
  /\ job = "delete" => pc \notin {"idle", "walk", "preview"}
  /\ pc = "idle" => watch = Unwatched /\ shield = {} /\ cur = Me
  /\ pc # "remove" => checked = {}
  /\ pc = "walk" => pending = {}
  /\ pc \notin {"erase", "remove", "done"} => erased = {}
  /\ old \subseteq disk \cup erased /\ oldDel \subseteq disk \cup erased

\* A watched torrent is still there, and the listing being worked on has it.
Watching(w) ==
  \A t \in Torrents :
    /\ w[t] # "no" => tor[t] # "absent" /\ Owner[t] \in active
    /\ w[t] = "listed" => tor[t] = "listed"
    /\ pc = "files" => /\ w[t] # "no" => listing[t] # "absent"
                       /\ w[t] = "listed" => listing[t] = "listed"

\* What buildFileMap has done for the torrents of an instance it is through with.
Shielded(t) == \/ Claims[t] \subseteq map
               \/ watch[t] # "listed" /\ Save[t] \in skipped
               \/ ~Overlap(roots, {Save[t], Content[t]})
PastOwn == \/ pc \in {"others", "confirm", "walk"}
           \/ pc \in {"list", "files"} /\ cur # Me
BuiltFor(i) == (PastOwn /\ i \notin pending) \/ (pc = "instances" /\ i = Me)
MapShields ==
  job = "scan" => \A t \in Torrents : BuiltFor(Owner[t]) /\ watch[t] # "no" => Shielded(t)

\* The second map has this instance's listed torrents.
MapOwn ==
  job = "delete" /\ (PastOwn \/ pc \in {"instances", "settings", "erase", "remove"}) =>
     \A t \in Torrents : Owner[t] = Me /\ watchDel[t] = "listed" => Claims[t] \subseteq map

\* The preview holds no watched file and nothing that was ignored.
RowsClear ==
  \A p \in rows, t \in Torrents : \A f \in old \cap Held(t, watch[t]) : p \notin Up[f]
RowsAllowed ==
  \A p \in rows : ~Protected(p, IF pc \in {"erase", "remove"} THEN shield \ ign
                                 ELSE IF pc = "done" THEN {} ELSE shield)
CheckedClear ==
  \A p \in checked :
    /\ ~Protected(p, shield)
    /\ \A t \in Torrents : Owner[t] = Me /\ watchDel[t] = "listed" =>
          \A f \in oldDel \cap Claims[t] : p \notin Up[f]

Inductive == /\ TypeOK /\ Stages /\ Watching(watch) /\ Watching(watchDel)
             /\ MapShields /\ MapOwn /\ RowsClear /\ RowsAllowed /\ CheckedClear
             /\ SteadyFilesSafe /\ OwnListedSafe /\ IgnoredSafe
=============================================================================
