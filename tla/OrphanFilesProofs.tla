--------------------------- MODULE OrphanFilesProofs ---------------------------
(***************************************************************************)
(* Proofs that an orphan-scan run erases no file of a torrent that was     *)
(* there all along, for every file system, every set of instances and      *)
(* torrents, and any number of changes between the reads.  The heart is    *)
(* lemma WalkClear: what the walk puts in the preview.                     *)
(***************************************************************************)
EXTENDS OrphanFiles, TLAPS

-----------------------------------------------------------------------------
(* Paths and disc units. *)

\* Ancestors of a path are comparable, and a path below an ignored one is ignored.
LEMMA Comparable ==
  ASSUME NEW p \in Paths, NEW q \in Up[p], NEW r \in Up[p]
  PROVE  q \in Up[r] \/ r \in Up[q]
BY TreeAssumption

LEMMA UpPath ==
  ASSUME NEW p \in Paths, NEW q \in Up[p]
  PROVE  q \in Paths /\ Up[q] \subseteq Up[p] /\ p \in Up[p]
BY TreeAssumption

\* A path that contains an ignored file is protected itself.
LEMMA IgnoredInside ==
  ASSUME NEW f \in Paths, NEW u \in Up[f], NEW I, Ignored(f, I)
  PROVE  Protected(u, I)
<1>1. PICK q \in Up[f] : q \in I
  BY DEF Ignored
<1>2. q \in Up[u] \/ u \in Up[q]
  BY Comparable
<1> QED BY <1>1, <1>2 DEF Protected, Ignored

\* More ignore paths protect more.
LEMMA ProtectedMono ==
  ASSUME NEW p, NEW I, NEW J, I \subseteq J, Protected(p, I)
  PROVE  Protected(p, J)
BY DEF Protected, Ignored

\* findDiscMarker returns the topmost marker below the scan root.
LEMMA FirstMarkIsFirst ==
  ASSUME NEW r, NEW f \in Paths, Marks(r, f) # {}
  PROVE  /\ FirstMark(r, f) \in Marks(r, f)
         /\ \A o \in Marks(r, f) : FirstMark(r, f) \in Up[o]
<1>1. Marks(r, f) \in SUBSET Up[f]
  BY DEF Marks
<1>2. \A S \in SUBSET Up[f] : S # {} => \E q \in S : \A o \in S : q \in Up[o]
  BY TreeAssumption
<1>3. \E k \in Marks(r, f) : \A o \in Marks(r, f) : k \in Up[o]
  BY <1>1, <1>2, Zenon
<1> QED BY <1>3 DEF FirstMark

\* Files below the same first marker have the same one.
LEMMA SameFirstMark ==
  ASSUME NEW r, NEW g \in Paths, NEW f \in Paths, Marks(r, g) # {},
         FirstMark(r, g) \in Up[f]
  PROVE  Marks(r, f) # {} /\ FirstMark(r, f) = FirstMark(r, g)
<1> DEFINE k == FirstMark(r, g)
<1>1. k \in Marks(r, g) /\ \A o \in Marks(r, g) : k \in Up[o]
  BY FirstMarkIsFirst
<1>2. k \in Marks(r, f)
  BY <1>1 DEF Marks
<1>3. FirstMark(r, f) \in Marks(r, f) /\ \A o \in Marks(r, f) : FirstMark(r, f) \in Up[o]
  BY <1>2, FirstMarkIsFirst
<1> DEFINE x == FirstMark(r, f)
<1>4. x \in Up[k]
  BY <1>2, <1>3
<1>5. x \in Marks(r, g)
  <2>1. k \in Up[g] /\ k \in Paths
    BY <1>1, TreeAssumption DEF Marks
  <2>2. x \in Up[g]
    BY <1>4, <2>1, TreeAssumption
  <2> QED BY <2>2, <1>3 DEF Marks
<1>6. k \in Up[x]
  BY <1>1, <1>5
<1>7. x \in Paths /\ k \in Paths
  BY <1>1, <1>3, TreeAssumption DEF Marks
<1> QED BY <1>2, <1>4, <1>6, <1>7, TreeAssumption

\* A unit is the file itself or a directory on the way to it that the ignore
\* paths do not touch, and it is below the scan root.
LEMMA UnitFacts ==
  ASSUME NEW r \in Dirs, NEW g \in Files, r \in Up[g], NEW I
  PROVE  /\ Unit(r, g, I) \in Up[g] /\ r \in Up[Unit(r, g, I)]
         /\ Unit(r, g, I) \in Files => Unit(r, g, I) = g
         /\ Unit(r, g, I) # g => Unit(r, g, I) \in Dirs /\ ~Protected(Unit(r, g, I), I)
<1> DEFINE u == Unit(r, g, I)
<1>0. g \in Paths /\ g \in Up[g] /\ r \in Paths
  BY TreeAssumption DEF Paths
<1>1. CASE u = g
  BY <1>0, <1>1
<1>2. CASE u # g
  <2> DEFINE k == FirstMark(r, g)
  <2>1. Marks(r, g) # {} /\ ~Protected(k, I)
    BY <1>2 DEF Unit
  <2>2. k \in Marks(r, g)
    BY <1>0, <2>1, FirstMarkIsFirst
  <2>3. k \in Markers /\ k \in Up[g] /\ k # r /\ r \in Up[k] /\ k \in Dirs /\ k \in Paths
    BY <2>2, KindsAssumption DEF Marks, Paths
  <2>4. Above[k] \in Up[k] /\ Above[k] \in Up[g] /\ r \in Up[Above[k]]
    BY <1>0, <2>3, TreeAssumption
  <2>5. Above[k] \in Dirs
    BY <2>3, <2>4, TreeAssumption, KindsAssumption DEF Paths
  <2>6. \/ u = k
        \/ u = Above[k] /\ ~Protected(Above[k], I)
    BY <2>1 DEF Unit
  <2> QED BY <1>0, <1>2, <2>1, <2>3, <2>4, <2>5, <2>6, KindsAssumption
<1> QED BY <1>1, <1>2

\* A disc that is a unit of the preview holds no torrent file on disk: it would
\* be in use, or its parent would not have been chosen.
LEMMA UnitClear ==
  ASSUME NEW r \in Dirs, NEW g \in Files, r \in Up[g], NEW I,
         Unit(r, g, I) # g,
         NEW f \in Files, f \in disk, f \in map, Unit(r, g, I) \in Up[f]
  PROVE  Unit(r, f, I) = Unit(r, g, I)
<1> DEFINE u == Unit(r, g, I)
           k == FirstMark(r, g)
<1>0. g \in Paths /\ f \in Paths
  BY DEF Paths
<1>1. Marks(r, g) # {} /\ ~Protected(k, I)
  BY DEF Unit
<1>2. k \in Marks(r, g) /\ k \in Up[g] /\ k \in Paths
  BY <1>0, <1>1, FirstMarkIsFirst, UpPath DEF Marks
<1>3. CASE k \in Up[f]
  <2>1. Marks(r, f) # {} /\ FirstMark(r, f) = k
    BY <1>0, <1>1, <1>3, SameFirstMark
  <2> QED BY <1>1, <2>1 DEF Unit
<1>4. CASE k \notin Up[f]
  <2>1. u = Above[k] /\ SafeDiscRoot(Above[k], k)
    BY <1>1, <1>4 DEF Unit
  <2>2. u \in Paths /\ u \in Dirs /\ f # u
    BY <1>0, UnitFacts, KindsAssumption, UpPath
  <2>3. PICK e \in Up[f] : e # u /\ Above[e] = u
    BY <1>0, <2>2, TreeAssumption
  <2>4. e \in Paths \ {k, u}
    BY <1>0, <1>4, <2>3, UpPath
  <2> QED BY <2>1, <2>3, <2>4 DEF SafeDiscRoot
<1> QED BY <1>3, <1>4

\* A unit the walker reports stands for an orphan file, and is not in use.
LEMMA FoundFacts ==
  ASSUME NEW r, NEW I, NEW spared, NEW hidden, NEW u \in Found(r, I, spared, hidden)
  PROVE  /\ \E g \in disk : /\ r \in Up[g] /\ ~Ignored(g, I) /\ g \notin map
                            /\ u = Unit(r, g, I)
         /\ \A f \in disk : r \in Up[f] /\ ~Ignored(f, I) /\ f \in map /\ u \notin Files
                               => Unit(r, f, I) # u
BY DEF Found

LEMMA FoundPaths ==
  ASSUME TypeOK, NEW r \in roots, NEW I \in SUBSET Dirs, NEW spared, NEW hidden,
         NEW u \in Found(r, I, spared, hidden)
  PROVE  u \in Paths /\ \A J \in SUBSET I : ~Protected(u, J)
<1>1. PICK g \in disk : r \in Up[g] /\ ~Ignored(g, I) /\ u = Unit(r, g, I)
  BY FoundFacts
<1>2. r \in Dirs /\ g \in Files /\ g \in Paths
  BY DEF TypeOK, Paths
<1>3. u \in Paths
  BY <1>1, <1>2, UnitFacts, UpPath
<1>4. ~Protected(u, I)
  <2>1. CASE u = g
    BY <1>1, <1>2, <2>1, KindsAssumption DEF Protected, Ignored, Paths
  <2>2. CASE u # g
    BY <1>1, <1>2, <2>2, UnitFacts
  <2> QED BY <2>1, <2>2
<1>5. \A J \in SUBSET I : ~Protected(u, J)
  BY <1>4, ProtectedMono
<1> QED BY <1>3, <1>5

\* The preview has no row that is, or holds, a file of a watched torrent.
LEMMA WalkClear ==
  ASSUME TypeOK, Stages, MapShields, pc = "walk", job = "scan", pending = {},
         NEW r \in roots, NEW spared, NEW hidden,
         NEW u \in Found(r, ign \cup skipped, spared, hidden),
         NEW t \in Torrents, NEW f \in old \cap Held(t, watch[t])
  PROVE  u \notin Up[f]
<1> SUFFICES ASSUME u \in Up[f] PROVE FALSE
  OBVIOUS
<1> DEFINE I == ign \cup skipped
<1>1. PICK g \in disk : r \in Up[g] /\ ~Ignored(g, I) /\ g \notin map /\ u = Unit(r, g, I)
  BY FoundFacts
<1>2. /\ r \in Dirs /\ r \in Paths /\ g \in Files /\ f \in Files /\ f \in Paths
      /\ f \in disk /\ f \in Claims[t] /\ watch[t] # "no"
      /\ watch[t] # "listed" => Save[t] \in Up[f]
  BY DEF TypeOK, Stages, Held, Paths
<1>3. u \in Paths /\ r \in Up[u] /\ r \in Up[f]
  BY <1>1, <1>2, UnitFacts, UpPath
<1>4. Shielded(t)
  BY <1>2 DEF MapShields, BuiltFor, PastOwn
<1>5. Overlap(roots, {Save[t], Content[t]})
  <2>1. Save[t] \in Up[f] \/ Content[t] \in Up[f]
    BY <1>2, TorrentsAssumption
  <2>2. CASE Save[t] \in Up[f]
    BY <1>2, <1>3, <2>2, Comparable DEF Overlap
  <2>3. CASE Content[t] \in Up[f]
    BY <1>2, <1>3, <2>3, Comparable DEF Overlap
  <2> QED BY <2>1, <2>2, <2>3
<1>6. CASE u = g
  <2>1. f = g
    BY <1>2, <1>6, KindsAssumption
  <2>2. CASE Save[t] \in skipped /\ watch[t] # "listed"
    BY <1>1, <1>2, <2>1, <2>2 DEF Ignored
  <2>3. CASE f \in map
    BY <1>1, <2>1, <2>3
  <2> QED BY <1>2, <1>4, <1>5, <2>2, <2>3 DEF Shielded
<1>7. CASE u # g
  <2>1. u \in Dirs /\ u \notin Files /\ ~Protected(u, I)
    BY <1>1, <1>2, <1>7, UnitFacts, KindsAssumption
  <2>2. ~Ignored(f, I)
    BY <1>2, <2>1, IgnoredInside
  <2>3. f \in map
    BY <1>2, <1>4, <1>5, <2>2 DEF Shielded, Ignored
  <2>4. Unit(r, f, I) = u
    BY <1>1, <1>2, <1>7, <2>3, UnitClear
  <2> QED BY <1>2, <1>3, <2>1, <2>2, <2>3, <2>4, FoundFacts
<1> QED BY <1>6, <1>7

\* What a walk writes to the preview was found below one of the roots.
LEMMA WalkRows ==
  ASSUME Walk
  PROVE  \A p \in rows' : \E r \in roots : \E spared, hidden :
            p \in Found(r, ign \cup skipped, spared, hidden)
<1>1. PICK spared \in SUBSET disk,
           hidden \in SUBSET (Markers \cup {Above[k] : k \in Markers}),
           readable \in SUBSET roots : rows' \subseteq Offered(readable, spared, hidden)
  BY DEF Walk
<1> QED BY <1>1 DEF Offered

\* Type correctness is preserved.
LEMMA TypeNext ==
  ASSUME TypeOK, Stages, [Next]_vars
  PROVE  TypeOK'
<1> USE DEF world, history
<1>1. CASE StartScan
  BY <1>1 DEF StartScan, TypeOK, Pcs, Building, WatchNow, Watches
<1>2. CASE Walk
  <2>1. ign \cup skipped \in SUBSET Dirs
    BY DEF TypeOK
  <2>2. rows' \subseteq Paths
    BY <1>2, <2>1, WalkRows, FoundPaths
  <2> QED BY <1>2, <2>2 DEF Walk, TypeOK, Stages, Pcs, Building
<1>3. CASE ListTorrents
  BY <1>3 DEF ListTorrents, TypeOK, Pcs, Building
<1>4. CASE BuildOwn
  BY <1>4, TorrentsAssumption DEF BuildOwn, TypeOK, Pcs, Building, Described, Transient,
      TorrentsOf, Uncovered, NoTorrents, TorStates
<1>5. CASE OtherInstances
  BY <1>5 DEF OtherInstances, TypeOK, Pcs, Building
<1>6. CASE ConfirmDisjoint
  BY <1>6 DEF ConfirmDisjoint, TypeOK, Pcs, Building
<1>7. CASE MergeOther
  BY <1>7, TorrentsAssumption DEF MergeOther, TypeOK, Pcs, Building, Described, Transient,
      TorrentsOf, Uncovered, NoTorrents, TorStates
<1>8. CASE MapBuilt
  BY <1>8 DEF MapBuilt, TypeOK, Pcs, Building
<1>9. CASE Fail
  BY <1>9 DEF Fail, TypeOK, Pcs, Building
<1>10. CASE \E i \in Instances : CheckOverlap(i)
  BY <1>10 DEF CheckOverlap, TypeOK, Pcs, Building
<1>11. CASE StartDeletion
  BY <1>11, TorrentsAssumption DEF StartDeletion, TypeOK, Pcs, Building, WatchNow, Watches
<1>12. CASE LoadIgnorePaths
  BY <1>12 DEF LoadIgnorePaths, TypeOK, Pcs, Building
<1>13. CASE RemoveRow
  BY <1>13 DEF RemoveRow, TypeOK, Pcs, Building, Inside
<1>14. CASE DeletionEnd
  BY <1>14 DEF DeletionEnd, TypeOK, Pcs, Building
<1>15. CASE \E p \in Paths : SkipRow(p)
  BY <1>15 DEF SkipRow, TypeOK, Pcs, Building, Stages
<1>16. CASE \E p \in Paths : CheckRow(p)
  BY <1>16 DEF CheckRow, TypeOK, Pcs, Building
<1>17. CASE \E t \in Torrents, s \in TorStates : SetTorrent(t, s)
  BY <1>17, BoundsAssumption DEF SetTorrent, Change, run, TypeOK, Pcs, Building, Demoted,
      Watches
<1>18. CASE \E i \in Instances : Disable(i)
  BY <1>18, BoundsAssumption DEF Disable, Change, run, TypeOK, Pcs, Building, Watches
<1>19. CASE \E i \in Instances : Enable(i)
  BY <1>19, BoundsAssumption DEF Enable, Change, run, TypeOK, Pcs, Building
<1>20. CASE \E f \in Files : WriteFile(f)
  BY <1>20, BoundsAssumption DEF WriteFile, Change, run, TypeOK, Pcs, Building
<1>21. CASE \E f \in Files : RemoveFile(f)
  BY <1>21, BoundsAssumption DEF RemoveFile, Change, run, TypeOK, Pcs, Building
<1>22. CASE \E d \in Ignorable : IgnorePath(d)
  BY <1>22, BoundsAssumption, KindsAssumption DEF IgnorePath, Change, run, TypeOK, Pcs, Building
<1>23. CASE \E d \in Ignorable : UnignorePath(d)
  BY <1>23, BoundsAssumption, KindsAssumption DEF UnignorePath, Change, run, TypeOK, Pcs,
      Building
<1>24. CASE UNCHANGED vars
  BY <1>24 DEF vars, run, TypeOK, Pcs, Building
<1> QED BY <1>1, <1>2, <1>3, <1>4, <1>5, <1>6, <1>7, <1>8, <1>9, <1>10, <1>11, <1>12, <1>13,
      <1>14, <1>15, <1>16, <1>17, <1>18, <1>19, <1>20, <1>21, <1>22, <1>23, <1>24 DEF Next,
      Scan, Build, Delete, Environment

\* The order of the stages is preserved.
LEMMA StagesNext ==
  ASSUME TypeOK, Stages, [Next]_vars
  PROVE  Stages'
<1> USE DEF world, history
<1>1. CASE StartScan
  BY <1>1 DEF StartScan, TypeOK, Stages
<1>2. CASE Walk
  BY <1>2 DEF Walk, TypeOK, Stages
<1>3. CASE ListTorrents
  BY <1>3 DEF ListTorrents, TypeOK, Stages
<1>4. CASE BuildOwn
  BY <1>4 DEF BuildOwn, TypeOK, Stages
<1>5. CASE OtherInstances
  BY <1>5 DEF OtherInstances, TypeOK, Stages
<1>6. CASE ConfirmDisjoint
  BY <1>6 DEF ConfirmDisjoint, TypeOK, Stages
<1>7. CASE MergeOther
  BY <1>7 DEF MergeOther, TypeOK, Stages
<1>8. CASE MapBuilt
  BY <1>8 DEF MapBuilt, TypeOK, Stages
<1>9. CASE Fail
  BY <1>9 DEF Fail, TypeOK, Stages, Building
<1>10. CASE \E i \in Instances : CheckOverlap(i)
  BY <1>10 DEF CheckOverlap, TypeOK, Stages
<1>11. CASE StartDeletion
  BY <1>11 DEF StartDeletion, TypeOK, Stages
<1>12. CASE LoadIgnorePaths
  BY <1>12 DEF LoadIgnorePaths, TypeOK, Stages
<1>13. CASE RemoveRow
  BY <1>13 DEF RemoveRow, TypeOK, Stages, Inside
<1>14. CASE DeletionEnd
  BY <1>14 DEF DeletionEnd, TypeOK, Stages
<1>15. CASE \E p \in Paths : SkipRow(p)
  BY <1>15 DEF SkipRow, TypeOK, Stages
<1>16. CASE \E p \in Paths : CheckRow(p)
  BY <1>16 DEF CheckRow, TypeOK, Stages
<1>17. CASE \E t \in Torrents, s \in TorStates : SetTorrent(t, s)
  <2>1. PICK t \in Torrents, s \in TorStates : SetTorrent(t, s)
    BY <1>17
  <2>2. watch = Unwatched => watch' = Unwatched
    BY <2>1 DEF SetTorrent, Unwatched, Demoted
  <2>3. watchDel = Unwatched => watchDel' = Unwatched
    BY <2>1 DEF SetTorrent, Unwatched, Demoted
  <2> QED BY <2>1, <2>2, <2>3 DEF SetTorrent, Change, run, TypeOK, Stages
<1>18. CASE \E i \in Instances : Disable(i)
  BY <1>18 DEF Disable, Change, run, TypeOK, Stages, Unwatched
<1>19. CASE \E i \in Instances : Enable(i)
  BY <1>19 DEF Enable, Change, run, TypeOK, Stages
<1>20. CASE \E f \in Files : WriteFile(f)
  BY <1>20 DEF WriteFile, Change, run, TypeOK, Stages
<1>21. CASE \E f \in Files : RemoveFile(f)
  BY <1>21 DEF RemoveFile, Change, run, TypeOK, Stages
<1>22. CASE \E d \in Ignorable : IgnorePath(d)
  BY <1>22 DEF IgnorePath, Change, run, TypeOK, Stages
<1>23. CASE \E d \in Ignorable : UnignorePath(d)
  BY <1>23 DEF UnignorePath, Change, run, TypeOK, Stages
<1>24. CASE UNCHANGED vars
  BY <1>24 DEF vars, run, TypeOK, Stages
<1> QED BY <1>1, <1>2, <1>3, <1>4, <1>5, <1>6, <1>7, <1>8, <1>9, <1>10, <1>11, <1>12, <1>13,
      <1>14, <1>15, <1>16, <1>17, <1>18, <1>19, <1>20, <1>21, <1>22, <1>23, <1>24 DEF Next,
      Scan, Build, Delete, Environment

\* The torrents watched since the scan began are still there.
LEMMA WatchingScanNext ==
  ASSUME TypeOK, Stages, Watching(watch), [Next]_vars
  PROVE  Watching(watch)'
<1> USE DEF world, history
<1>1. CASE StartScan
  BY <1>1 DEF StartScan, TypeOK, Watching, WatchNow, Stages, Unwatched
<1>2. CASE Walk
  BY <1>2 DEF Walk, TypeOK, Watching
<1>3. CASE ListTorrents
  BY <1>3 DEF ListTorrents, TypeOK, Watching
<1>4. CASE BuildOwn
  BY <1>4 DEF BuildOwn, TypeOK, Watching
<1>5. CASE OtherInstances
  BY <1>5 DEF OtherInstances, TypeOK, Watching
<1>6. CASE ConfirmDisjoint
  BY <1>6 DEF ConfirmDisjoint, TypeOK, Watching
<1>7. CASE MergeOther
  BY <1>7 DEF MergeOther, TypeOK, Watching
<1>8. CASE MapBuilt
  BY <1>8 DEF MapBuilt, TypeOK, Watching
<1>9. CASE Fail
  BY <1>9 DEF Fail, TypeOK, Watching, Building
<1>10. CASE \E i \in Instances : CheckOverlap(i)
  BY <1>10 DEF CheckOverlap, TypeOK, Watching
<1>11. CASE StartDeletion
  BY <1>11 DEF StartDeletion, TypeOK, Watching, WatchNow
<1>12. CASE LoadIgnorePaths
  BY <1>12 DEF LoadIgnorePaths, TypeOK, Watching
<1>13. CASE RemoveRow
  BY <1>13 DEF RemoveRow, TypeOK, Watching
<1>14. CASE DeletionEnd
  BY <1>14 DEF DeletionEnd, TypeOK, Watching
<1>15. CASE \E p \in Paths : SkipRow(p)
  BY <1>15 DEF SkipRow, TypeOK, Watching
<1>16. CASE \E p \in Paths : CheckRow(p)
  BY <1>16 DEF CheckRow, TypeOK, Watching
<1>17. CASE \E t \in Torrents, s \in TorStates : SetTorrent(t, s)
  <2>1. PICK t \in Torrents, s \in TorStates : SetTorrent(t, s)
    BY <1>17
  <2> SUFFICES ASSUME NEW x \in Torrents
               PROVE  /\ watch'[x] # "no" => tor'[x] # "absent" /\ Owner[x] \in active'
                      /\ watch'[x] = "listed" => tor'[x] = "listed"
                      /\ pc' = "files" => /\ watch'[x] # "no" => listing'[x] # "absent"
                                          /\ watch'[x] = "listed" => listing'[x] = "listed"
    BY DEF Watching
  <2>2. CASE x = t
    BY <2>1, <2>2 DEF SetTorrent, Change, run, TypeOK, Watching, Demoted, Watches
  <2>3. CASE x # t
    BY <2>1, <2>3 DEF SetTorrent, Change, run, TypeOK, Watching
  <2> QED BY <2>2, <2>3
<1>18. CASE \E i \in Instances : Disable(i)
  BY <1>18, TorrentsAssumption DEF Disable, Change, run, TypeOK, Watching
<1>19. CASE \E i \in Instances : Enable(i)
  BY <1>19 DEF Enable, Change, run, TypeOK, Watching
<1>20. CASE \E f \in Files : WriteFile(f)
  BY <1>20 DEF WriteFile, Change, run, TypeOK, Watching
<1>21. CASE \E f \in Files : RemoveFile(f)
  BY <1>21 DEF RemoveFile, Change, run, TypeOK, Watching
<1>22. CASE \E d \in Ignorable : IgnorePath(d)
  BY <1>22 DEF IgnorePath, Change, run, TypeOK, Watching
<1>23. CASE \E d \in Ignorable : UnignorePath(d)
  BY <1>23 DEF UnignorePath, Change, run, TypeOK, Watching
<1>24. CASE UNCHANGED vars
  BY <1>24 DEF vars, run, TypeOK, Watching
<1> QED BY <1>1, <1>2, <1>3, <1>4, <1>5, <1>6, <1>7, <1>8, <1>9, <1>10, <1>11, <1>12, <1>13,
      <1>14, <1>15, <1>16, <1>17, <1>18, <1>19, <1>20, <1>21, <1>22, <1>23, <1>24 DEF Next,
      Scan, Build, Delete, Environment

\* The torrents watched since the deletion began are still there.
LEMMA WatchingDeletionNext ==
  ASSUME TypeOK, Stages, Watching(watchDel), [Next]_vars
  PROVE  Watching(watchDel)'
<1> USE DEF world, history
<1>1. CASE StartScan
  BY <1>1 DEF StartScan, TypeOK, Watching, WatchNow, Stages, Unwatched
<1>2. CASE Walk
  BY <1>2 DEF Walk, TypeOK, Watching
<1>3. CASE ListTorrents
  BY <1>3 DEF ListTorrents, TypeOK, Watching
<1>4. CASE BuildOwn
  BY <1>4 DEF BuildOwn, TypeOK, Watching
<1>5. CASE OtherInstances
  BY <1>5 DEF OtherInstances, TypeOK, Watching
<1>6. CASE ConfirmDisjoint
  BY <1>6 DEF ConfirmDisjoint, TypeOK, Watching
<1>7. CASE MergeOther
  BY <1>7 DEF MergeOther, TypeOK, Watching
<1>8. CASE MapBuilt
  BY <1>8 DEF MapBuilt, TypeOK, Watching
<1>9. CASE Fail
  BY <1>9 DEF Fail, TypeOK, Watching, Building
<1>10. CASE \E i \in Instances : CheckOverlap(i)
  BY <1>10 DEF CheckOverlap, TypeOK, Watching
<1>11. CASE StartDeletion
  BY <1>11 DEF StartDeletion, TypeOK, Watching, WatchNow
<1>12. CASE LoadIgnorePaths
  BY <1>12 DEF LoadIgnorePaths, TypeOK, Watching
<1>13. CASE RemoveRow
  BY <1>13 DEF RemoveRow, TypeOK, Watching
<1>14. CASE DeletionEnd
  BY <1>14 DEF DeletionEnd, TypeOK, Watching
<1>15. CASE \E p \in Paths : SkipRow(p)
  BY <1>15 DEF SkipRow, TypeOK, Watching
<1>16. CASE \E p \in Paths : CheckRow(p)
  BY <1>16 DEF CheckRow, TypeOK, Watching
<1>17. CASE \E t \in Torrents, s \in TorStates : SetTorrent(t, s)
  <2>1. PICK t \in Torrents, s \in TorStates : SetTorrent(t, s)
    BY <1>17
  <2> SUFFICES ASSUME NEW x \in Torrents
               PROVE  /\ watchDel'[x] # "no" => tor'[x] # "absent" /\ Owner[x] \in active'
                      /\ watchDel'[x] = "listed" => tor'[x] = "listed"
                      /\ pc' = "files" => /\ watchDel'[x] # "no" => listing'[x] # "absent"
                                          /\ watchDel'[x] = "listed" => listing'[x] = "listed"
    BY DEF Watching
  <2>2. CASE x = t
    BY <2>1, <2>2 DEF SetTorrent, Change, run, TypeOK, Watching, Demoted, Watches
  <2>3. CASE x # t
    BY <2>1, <2>3 DEF SetTorrent, Change, run, TypeOK, Watching
  <2> QED BY <2>2, <2>3
<1>18. CASE \E i \in Instances : Disable(i)
  BY <1>18, TorrentsAssumption DEF Disable, Change, run, TypeOK, Watching
<1>19. CASE \E i \in Instances : Enable(i)
  BY <1>19 DEF Enable, Change, run, TypeOK, Watching
<1>20. CASE \E f \in Files : WriteFile(f)
  BY <1>20 DEF WriteFile, Change, run, TypeOK, Watching
<1>21. CASE \E f \in Files : RemoveFile(f)
  BY <1>21 DEF RemoveFile, Change, run, TypeOK, Watching
<1>22. CASE \E d \in Ignorable : IgnorePath(d)
  BY <1>22 DEF IgnorePath, Change, run, TypeOK, Watching
<1>23. CASE \E d \in Ignorable : UnignorePath(d)
  BY <1>23 DEF UnignorePath, Change, run, TypeOK, Watching
<1>24. CASE UNCHANGED vars
  BY <1>24 DEF vars, run, TypeOK, Watching
<1> QED BY <1>1, <1>2, <1>3, <1>4, <1>5, <1>6, <1>7, <1>8, <1>9, <1>10, <1>11, <1>12, <1>13,
      <1>14, <1>15, <1>16, <1>17, <1>18, <1>19, <1>20, <1>21, <1>22, <1>23, <1>24 DEF Next,
      Scan, Build, Delete, Environment

\* buildFileMap leaves no watched torrent of an instance it is through with unprotected.
LEMMA MapShieldsNext ==
  ASSUME TypeOK, Stages, Watching(watch), MapShields, [Next]_vars
  PROVE  MapShields'
<1> USE DEF world, history
<1>1. CASE StartScan
  BY <1>1 DEF StartScan, MapShields, BuiltFor, PastOwn, Shielded, Stages
<1>2. CASE Walk
  BY <1>2 DEF Walk, MapShields, BuiltFor, PastOwn, Shielded, Stages
<1>3. CASE ListTorrents
  BY <1>3 DEF ListTorrents, MapShields, BuiltFor, PastOwn, Shielded, Stages
<1>4. CASE BuildOwn
  <2> SUFFICES ASSUME NEW t \in Torrents, BuiltFor(Owner[t])', watch[t] # "no",
      job = "scan"
               PROVE  Shielded(t)'
    BY <1>4 DEF BuildOwn, MapShields
  <2>1. Owner[t] = cur
    BY <1>4 DEF BuildOwn, BuiltFor, PastOwn
  <2>2. listing[t] # "absent" /\ (watch[t] = "listed" => tor[t] = "listed")
    BY <1>4 DEF BuildOwn, Watching
  <2>3. CASE tor[t] = "listed"
    BY <1>4, <2>1, <2>2, <2>3 DEF BuildOwn, Described, TorrentsOf, Shielded
  <2>4. CASE tor[t] # "listed"
    <3>1. t \in Transient
      BY <1>4, <2>1, <2>2, <2>4 DEF BuildOwn, Partial, Transient, TorrentsOf, TypeOK, TorStates
    <3> QED BY <1>4, <2>2, <2>4, <3>1 DEF BuildOwn, Shielded
  <2> QED BY <2>3, <2>4
<1>5. CASE OtherInstances
  BY <1>5 DEF OtherInstances, MapShields, BuiltFor, PastOwn, Shielded, Watching
<1>6. CASE ConfirmDisjoint
  <2> SUFFICES ASSUME NEW t \in Torrents, BuiltFor(Owner[t])', watch[t] # "no",
      job = "scan"
               PROVE  Shielded(t)
    BY <1>6 DEF ConfirmDisjoint, MapShields, Shielded
  <2>1. CASE Owner[t] \notin pending
    BY <1>6, <2>1 DEF ConfirmDisjoint, MapShields, BuiltFor, PastOwn
  <2>2. CASE Owner[t] \in pending
    <3>1. Owner[t] = cur /\ ~Overlap(roots, RootsOf(cur))
      BY <1>6, <2>2 DEF ConfirmDisjoint, BuiltFor, PastOwn, TypeOK
    <3>2. tor[t] # "absent"
      BY DEF Watching
    <3>3. {Save[t],
      Content[t]} \subseteq RootsOf(cur)
      BY <3>1, <3>2 DEF RootsOf, TorrentsOf
    <3> QED BY <3>1, <3>3 DEF Overlap, Shielded
  <2> QED BY <2>1, <2>2
<1>7. CASE MergeOther
  <2> SUFFICES ASSUME NEW t \in Torrents, BuiltFor(Owner[t])', watch[t] # "no",
      job = "scan"
               PROVE  Shielded(t)'
    BY <1>7 DEF MergeOther, MapShields
  <2>0. roots' \subseteq roots /\ skipped \subseteq skipped' /\ map \subseteq map'
    BY <1>7 DEF MergeOther, Uncovered
  <2>1. CASE Owner[t] # cur
    <3>1. Shielded(t)
      BY <1>7, <2>1 DEF MergeOther, MapShields, BuiltFor, PastOwn
    <3> QED BY <1>7, <2>0, <3>1 DEF MergeOther, Shielded, Overlap
  <2>2. CASE Owner[t] = cur
    <3>2. listing[t] # "absent" /\ (watch[t] = "listed" => tor[t] = "listed")
      BY <1>7 DEF MergeOther, Watching
    <3>3. CASE tor[t] = "listed"
      BY <1>7, <2>2, <3>2, <3>3 DEF MergeOther, Described, TorrentsOf, Shielded
    <3>4. CASE tor[t] # "listed"
      <4>1. t \in Transient
        BY <1>7, <2>2, <3>2, <3>4 DEF MergeOther, Partial, Transient, TorrentsOf, TypeOK, TorStates
      <4> QED BY <1>7, <3>2, <3>4, <4>1 DEF MergeOther, Shielded
    <3> QED BY <3>3, <3>4
  <2> QED BY <2>1, <2>2
<1>8. CASE MapBuilt
  BY <1>8 DEF MapBuilt, MapShields, BuiltFor, PastOwn, Shielded, Stages
<1>9. CASE Fail
  BY <1>9 DEF Fail, MapShields, BuiltFor, PastOwn, Shielded, Stages, Building
<1>10. CASE \E i \in Instances : CheckOverlap(i)
  BY <1>10 DEF CheckOverlap, MapShields, BuiltFor, PastOwn, Shielded, TypeOK
<1>11. CASE StartDeletion
  BY <1>11 DEF StartDeletion, MapShields, BuiltFor, PastOwn, Shielded, Stages
<1>12. CASE LoadIgnorePaths
  BY <1>12 DEF LoadIgnorePaths, MapShields, BuiltFor, PastOwn, Shielded, Stages
<1>13. CASE RemoveRow
  BY <1>13 DEF RemoveRow, MapShields, BuiltFor, PastOwn, Shielded, Stages
<1>14. CASE DeletionEnd
  BY <1>14 DEF DeletionEnd, MapShields, BuiltFor, PastOwn, Shielded, Stages
<1>15. CASE \E p \in Paths : SkipRow(p)
  BY <1>15 DEF SkipRow, MapShields, BuiltFor, PastOwn, Shielded, Stages
<1>16. CASE \E p \in Paths : CheckRow(p)
  BY <1>16 DEF CheckRow, MapShields, BuiltFor, PastOwn, Shielded, Stages
<1>17. CASE \E t \in Torrents, s \in TorStates : SetTorrent(t, s)
  <2>1. PICK t \in Torrents, s \in TorStates : SetTorrent(t, s)
    BY <1>17
  <2> SUFFICES ASSUME NEW x \in Torrents, job = "scan",
      BuiltFor(Owner[x]),
      watch'[x] # "no"
               PROVE  Shielded(x)'
    BY <2>1 DEF SetTorrent, run, MapShields, BuiltFor, PastOwn
  <2>2. watch[x] # "no" /\ (watch'[x] = "listed" => watch[x] = "listed")
    BY <2>1 DEF SetTorrent, TypeOK, Demoted
  <2> QED BY <2>1, <2>2 DEF SetTorrent, run, MapShields, Shielded
<1>18. CASE \E i \in Instances : Disable(i)
  <2>1. PICK i \in Instances : Disable(i)
    BY <1>18
  <2> SUFFICES ASSUME NEW x \in Torrents, job = "scan", BuiltFor(Owner[x]), watch'[x] # "no"
               PROVE  Shielded(x)'
    BY <2>1 DEF Disable, run, MapShields, BuiltFor, PastOwn
  <2> QED BY <2>1 DEF Disable, run, MapShields, Shielded
<1>19. CASE \E i \in Instances : Enable(i)
  BY <1>19 DEF Enable, Change, run, MapShields, BuiltFor, PastOwn, Shielded, Stages
<1>20. CASE \E f \in Files : WriteFile(f)
  BY <1>20 DEF WriteFile, Change, run, MapShields, BuiltFor, PastOwn, Shielded, Stages
<1>21. CASE \E f \in Files : RemoveFile(f)
  BY <1>21 DEF RemoveFile, Change, run, MapShields, BuiltFor, PastOwn, Shielded, Stages
<1>22. CASE \E d \in Ignorable : IgnorePath(d)
  BY <1>22 DEF IgnorePath, Change, run, MapShields, BuiltFor, PastOwn, Shielded, Stages
<1>23. CASE \E d \in Ignorable : UnignorePath(d)
  BY <1>23 DEF UnignorePath, Change, run, MapShields, BuiltFor, PastOwn, Shielded, Stages
<1>24. CASE UNCHANGED vars
  BY <1>24 DEF vars, run, MapShields, BuiltFor, PastOwn, Shielded, Stages
<1> QED BY <1>1, <1>2, <1>3, <1>4, <1>5, <1>6, <1>7, <1>8, <1>9, <1>10, <1>11, <1>12, <1>13,
      <1>14, <1>15, <1>16, <1>17, <1>18, <1>19, <1>20, <1>21, <1>22, <1>23, <1>24 DEF Next,
      Scan, Build, Delete, Environment

\* The second map keeps the listed torrents of this instance.
LEMMA MapOwnNext ==
  ASSUME TypeOK, Stages, Watching(watchDel), MapOwn, [Next]_vars
  PROVE  MapOwn'
<1> USE DEF world, history
<1>1. CASE StartScan
  BY <1>1 DEF StartScan, MapOwn, Stages
<1>2. CASE Walk
  BY <1>2 DEF Walk, MapOwn, PastOwn, Stages
<1>3. CASE ListTorrents
  BY <1>3 DEF ListTorrents, MapOwn, PastOwn, Stages
<1>4. CASE BuildOwn
  <2> SUFFICES ASSUME NEW t \in Torrents, Owner[t] = Me,
      watchDel[t] = "listed"
               PROVE  Claims[t] \subseteq map'
    BY <1>4 DEF BuildOwn, MapOwn
  <2>1. t \in Described
    BY <1>4 DEF BuildOwn, Described, TorrentsOf, Watching
  <2> QED BY <1>4, <2>1 DEF BuildOwn
<1>5. CASE OtherInstances
  BY <1>5 DEF OtherInstances, MapOwn, PastOwn, Stages
<1>6. CASE ConfirmDisjoint
  BY <1>6 DEF ConfirmDisjoint, MapOwn, PastOwn, Stages
<1>7. CASE MergeOther
  BY <1>7 DEF MergeOther, MapOwn, PastOwn, Stages
<1>8. CASE MapBuilt
  BY <1>8 DEF MapBuilt, MapOwn, PastOwn, Stages
<1>9. CASE Fail
  BY <1>9 DEF Fail, MapOwn, PastOwn, Stages, Building
<1>10. CASE \E i \in Instances : CheckOverlap(i)
  BY <1>10 DEF CheckOverlap, MapOwn, PastOwn, Stages, TypeOK
<1>11. CASE StartDeletion
  BY <1>11 DEF StartDeletion, MapOwn, PastOwn, Stages
<1>12. CASE LoadIgnorePaths
  BY <1>12 DEF LoadIgnorePaths, MapOwn, PastOwn, Stages
<1>13. CASE RemoveRow
  BY <1>13 DEF RemoveRow, MapOwn, PastOwn, Stages
<1>14. CASE DeletionEnd
  BY <1>14 DEF DeletionEnd, MapOwn, PastOwn, Stages
<1>15. CASE \E p \in Paths : SkipRow(p)
  BY <1>15 DEF SkipRow, MapOwn, PastOwn, Stages
<1>16. CASE \E p \in Paths : CheckRow(p)
  BY <1>16 DEF CheckRow, MapOwn, PastOwn, Stages
<1>17. CASE \E t \in Torrents, s \in TorStates : SetTorrent(t, s)
  <2>1. PICK t \in Torrents, s \in TorStates : SetTorrent(t, s)
    BY <1>17
  <2>2. \A x \in Torrents : watchDel'[x] = "listed" => watchDel[x] = "listed"
    BY <2>1 DEF SetTorrent, TypeOK, Demoted
  <2> QED BY <2>1, <2>2 DEF SetTorrent, run, MapOwn, PastOwn
<1>18. CASE \E i \in Instances : Disable(i)
  BY <1>18 DEF Disable, Change, run, MapOwn, PastOwn, Stages
<1>19. CASE \E i \in Instances : Enable(i)
  BY <1>19 DEF Enable, Change, run, MapOwn, PastOwn, Stages
<1>20. CASE \E f \in Files : WriteFile(f)
  BY <1>20 DEF WriteFile, Change, run, MapOwn, PastOwn, Stages
<1>21. CASE \E f \in Files : RemoveFile(f)
  BY <1>21 DEF RemoveFile, Change, run, MapOwn, PastOwn, Stages
<1>22. CASE \E d \in Ignorable : IgnorePath(d)
  BY <1>22 DEF IgnorePath, Change, run, MapOwn, PastOwn, Stages
<1>23. CASE \E d \in Ignorable : UnignorePath(d)
  BY <1>23 DEF UnignorePath, Change, run, MapOwn, PastOwn, Stages
<1>24. CASE UNCHANGED vars
  BY <1>24 DEF vars, run, MapOwn, PastOwn, Stages
<1> QED BY <1>1, <1>2, <1>3, <1>4, <1>5, <1>6, <1>7, <1>8, <1>9, <1>10, <1>11, <1>12, <1>13,
      <1>14, <1>15, <1>16, <1>17, <1>18, <1>19, <1>20, <1>21, <1>22, <1>23, <1>24 DEF Next,
      Scan, Build, Delete, Environment

\* A torrent that is demoted holds fewer files.
LEMMA HeldShrinks ==
  ASSUME TypeOK, NEW t \in Torrents, NEW s \in TorStates, NEW x \in Torrents,
         NEW w \in [Torrents -> Watches]
  PROVE  Held(x, [w EXCEPT ![t] = Demoted(@, s)][x]) \subseteq Held(x, w[x])
BY DEF Held, Demoted, Watches

\* No row of the preview is or holds a file of a watched torrent.
LEMMA RowsClearNext ==
  ASSUME TypeOK, Stages, MapShields, RowsClear, [Next]_vars
  PROVE  RowsClear'
<1> USE DEF world, history
<1>1. CASE StartScan
  BY <1>1 DEF StartScan, RowsClear, Stages, TypeOK
<1>2. CASE Walk
  <2> SUFFICES ASSUME NEW p \in rows', NEW t \in Torrents,
                      NEW f \in old \cap Held(t, watch[t])
               PROVE  p \notin Up[f]
    BY <1>2 DEF Walk, RowsClear
  <2>1. PICK r \in roots : \E spared, hidden : p \in Found(r, ign \cup skipped, spared, hidden)
    BY <1>2, WalkRows
  <2>2. PICK spared, hidden : p \in Found(r, ign \cup skipped, spared, hidden)
    BY <2>1
  <2>3. pc = "walk" /\ job = "scan" /\ pending = {}
    BY <1>2 DEF Walk, Stages, TypeOK
  <2> QED BY <2>2, <2>3, WalkClear
<1>3. CASE ListTorrents
  BY <1>3 DEF ListTorrents, RowsClear, Stages
<1>4. CASE BuildOwn
  BY <1>4 DEF BuildOwn, RowsClear, Stages
<1>5. CASE OtherInstances
  BY <1>5 DEF OtherInstances, RowsClear, Stages
<1>6. CASE ConfirmDisjoint
  BY <1>6 DEF ConfirmDisjoint, RowsClear, Stages
<1>7. CASE MergeOther
  BY <1>7 DEF MergeOther, RowsClear, Stages
<1>8. CASE MapBuilt
  BY <1>8 DEF MapBuilt, RowsClear, Stages
<1>9. CASE Fail
  BY <1>9 DEF Fail, RowsClear, Stages
<1>10. CASE \E i \in Instances : CheckOverlap(i)
  BY <1>10 DEF CheckOverlap, RowsClear, Stages
<1>11. CASE StartDeletion
  BY <1>11 DEF StartDeletion, RowsClear, Stages
<1>12. CASE LoadIgnorePaths
  BY <1>12 DEF LoadIgnorePaths, RowsClear, Stages
<1>13. CASE RemoveRow
  BY <1>13 DEF RemoveRow, RowsClear, Stages
<1>14. CASE DeletionEnd
  BY <1>14 DEF DeletionEnd, RowsClear, Stages
<1>15. CASE \E p \in Paths : SkipRow(p)
  BY <1>15 DEF SkipRow, RowsClear, Stages
<1>16. CASE \E p \in Paths : CheckRow(p)
  BY <1>16 DEF CheckRow, RowsClear, Stages
<1>17. CASE \E t \in Torrents, s \in TorStates : SetTorrent(t, s)
  <2>1. PICK t \in Torrents, s \in TorStates : SetTorrent(t, s)
    BY <1>17
  <2>2. \A x \in Torrents : Held(x, watch'[x]) \subseteq Held(x, watch[x])
    BY <2>1, HeldShrinks DEF SetTorrent, TypeOK
  <2> QED BY <2>1, <2>2 DEF SetTorrent, run, RowsClear
<1>18. CASE \E i \in Instances : Disable(i)
  <2>1. \A x \in Torrents : Held(x, watch'[x]) \subseteq Held(x, watch[x])
    BY <1>18 DEF Disable, TypeOK, Held
  <2> QED BY <1>18, <2>1 DEF Disable, run, RowsClear
<1>19. CASE \E i \in Instances : Enable(i)
  BY <1>19 DEF Enable, Change, run, RowsClear, Stages
<1>20. CASE \E f \in Files : WriteFile(f)
  BY <1>20 DEF WriteFile, Change, run, RowsClear, Stages
<1>21. CASE \E f \in Files : RemoveFile(f)
  BY <1>21 DEF RemoveFile, Change, run, RowsClear, Stages
<1>22. CASE \E d \in Ignorable : IgnorePath(d)
  BY <1>22 DEF IgnorePath, Change, run, RowsClear, Stages
<1>23. CASE \E d \in Ignorable : UnignorePath(d)
  BY <1>23 DEF UnignorePath, Change, run, RowsClear, Stages
<1>24. CASE UNCHANGED vars
  BY <1>24 DEF vars, run, RowsClear, Stages
<1> QED BY <1>1, <1>2, <1>3, <1>4, <1>5, <1>6, <1>7, <1>8, <1>9, <1>10, <1>11, <1>12, <1>13,
      <1>14, <1>15, <1>16, <1>17, <1>18, <1>19, <1>20, <1>21, <1>22, <1>23, <1>24 DEF Next,
      Scan, Build, Delete, Environment

\* No row of the preview is, or contains, a path ignored at the time of the scan.
LEMMA RowsAllowedNext ==
  ASSUME TypeOK, Stages, RowsAllowed, [Next]_vars
  PROVE  RowsAllowed'
<1> USE DEF world, history
<1>1. CASE StartScan
  BY <1>1 DEF StartScan, RowsAllowed, Stages, TypeOK
<1>2. CASE Walk
  <2>1. ign \cup skipped \in SUBSET Dirs /\ shield \in SUBSET (ign \cup skipped)
    BY <1>2 DEF Walk, TypeOK, Stages
  <2>2. \A p \in rows' : ~Protected(p, shield)
    BY <1>2, <2>1, WalkRows, FoundPaths
  <2>3. \A p \in rows' : ~Protected(p, {})
    BY DEF Protected, Ignored
  <2> QED BY <1>2, <2>2, <2>3 DEF Walk, RowsAllowed
<1>3. CASE ListTorrents
  BY <1>3 DEF ListTorrents, RowsAllowed, Stages
<1>4. CASE BuildOwn
  BY <1>4 DEF BuildOwn, RowsAllowed, Stages
<1>5. CASE OtherInstances
  BY <1>5 DEF OtherInstances, RowsAllowed, Stages
<1>6. CASE ConfirmDisjoint
  BY <1>6 DEF ConfirmDisjoint, RowsAllowed, Stages
<1>7. CASE MergeOther
  BY <1>7 DEF MergeOther, RowsAllowed, Stages
<1>8. CASE MapBuilt
  BY <1>8 DEF MapBuilt, RowsAllowed, Stages, TypeOK, Protected, Ignored
<1>9. CASE Fail
  BY <1>9 DEF Fail, RowsAllowed, Stages, Building, Protected, Ignored
<1>10. CASE \E i \in Instances : CheckOverlap(i)
  BY <1>10 DEF CheckOverlap, RowsAllowed, Stages
<1>11. CASE StartDeletion
  BY <1>11 DEF StartDeletion, RowsAllowed, Stages
<1>12. CASE LoadIgnorePaths
  BY <1>12 DEF LoadIgnorePaths, RowsAllowed, Stages, Protected, Ignored
<1>13. CASE RemoveRow
  BY <1>13 DEF RemoveRow, RowsAllowed, Stages
<1>14. CASE DeletionEnd
  BY <1>14 DEF DeletionEnd, RowsAllowed, Stages, Protected, Ignored
<1>15. CASE \E p \in Paths : SkipRow(p)
  BY <1>15 DEF SkipRow, RowsAllowed, Stages
<1>16. CASE \E p \in Paths : CheckRow(p)
  BY <1>16 DEF CheckRow, RowsAllowed, Stages
<1>17. CASE \E t \in Torrents, s \in TorStates : SetTorrent(t, s)
  BY <1>17 DEF SetTorrent, run, RowsAllowed
<1>18. CASE \E i \in Instances : Disable(i)
  BY <1>18 DEF Disable, run, RowsAllowed
<1>19. CASE \E i \in Instances : Enable(i)
  BY <1>19 DEF Enable, Change, run, RowsAllowed, Stages
<1>20. CASE \E f \in Files : WriteFile(f)
  BY <1>20 DEF WriteFile, Change, run, RowsAllowed, Stages
<1>21. CASE \E f \in Files : RemoveFile(f)
  BY <1>21 DEF RemoveFile, Change, run, RowsAllowed, Stages
<1>22. CASE \E d \in Ignorable : IgnorePath(d)
  BY <1>22 DEF IgnorePath, Change, run, RowsAllowed, Stages
<1>23. CASE \E d \in Ignorable : UnignorePath(d)
  BY <1>23 DEF UnignorePath, Change, run, RowsAllowed, Stages, Protected, Ignored
<1>24. CASE UNCHANGED vars
  BY <1>24 DEF vars, run, RowsAllowed, Stages
<1> QED BY <1>1, <1>2, <1>3, <1>4, <1>5, <1>6, <1>7, <1>8, <1>9, <1>10, <1>11, <1>12, <1>13,
      <1>14, <1>15, <1>16, <1>17, <1>18, <1>19, <1>20, <1>21, <1>22, <1>23, <1>24 DEF Next,
      Scan, Build, Delete, Environment

\* The row about to be removed is not protected and holds no file of this instance.
LEMMA CheckedClearNext ==
  ASSUME TypeOK, Stages, MapOwn, RowsAllowed, CheckedClear, OwnListedSafe, [Next]_vars
  PROVE  CheckedClear'
<1> USE DEF world, history
<1>1. CASE StartScan
  BY <1>1 DEF StartScan, CheckedClear, Stages
<1>2. CASE Walk
  BY <1>2 DEF Walk, CheckedClear, Stages
<1>3. CASE ListTorrents
  BY <1>3 DEF ListTorrents, CheckedClear, Stages
<1>4. CASE BuildOwn
  BY <1>4 DEF BuildOwn, CheckedClear, Stages
<1>5. CASE OtherInstances
  BY <1>5 DEF OtherInstances, CheckedClear, Stages
<1>6. CASE ConfirmDisjoint
  BY <1>6 DEF ConfirmDisjoint, CheckedClear, Stages
<1>7. CASE MergeOther
  BY <1>7 DEF MergeOther, CheckedClear, Stages
<1>8. CASE MapBuilt
  BY <1>8 DEF MapBuilt, CheckedClear, Stages
<1>9. CASE Fail
  BY <1>9 DEF Fail, CheckedClear, Stages
<1>10. CASE \E i \in Instances : CheckOverlap(i)
  BY <1>10 DEF CheckOverlap, CheckedClear, Stages
<1>11. CASE StartDeletion
  BY <1>11 DEF StartDeletion, CheckedClear, Stages
<1>12. CASE LoadIgnorePaths
  BY <1>12 DEF LoadIgnorePaths, CheckedClear, Stages
<1>13. CASE RemoveRow
  BY <1>13 DEF RemoveRow, CheckedClear, Stages
<1>14. CASE DeletionEnd
  BY <1>14 DEF DeletionEnd, CheckedClear, Stages
<1>15. CASE \E p \in Paths : SkipRow(p)
  BY <1>15 DEF SkipRow, CheckedClear, Stages
<1>16. CASE \E p \in Paths : CheckRow(p)
  <2>1. PICK p \in Paths : CheckRow(p)
    BY <1>16
  <2>2. ~Protected(p, shield)
    BY <2>1 DEF CheckRow, Deletable, RowsAllowed, Protected, Ignored
  <2>3. ASSUME NEW t \in Torrents, Owner[t] = Me,
      watchDel[t] = "listed",
               NEW f \in oldDel \cap Claims[t]
        PROVE  p \notin Up[f]
    <3>1. f \in map
      BY <2>1, <2>3 DEF CheckRow, MapOwn, Stages, TypeOK
    <3>2. f \in disk
      BY <2>3 DEF Stages, OwnListedSafe
    <3> QED BY <2>1, <3>1, <3>2 DEF CheckRow, Deletable, Inside
  <2> QED BY <2>1, <2>2, <2>3 DEF CheckRow, CheckedClear
<1>17. CASE \E t \in Torrents, s \in TorStates : SetTorrent(t, s)
  <2>1. PICK t \in Torrents, s \in TorStates : SetTorrent(t, s)
    BY <1>17
  <2>2. \A x \in Torrents : watchDel'[x] = "listed" => watchDel[x] = "listed"
    BY <2>1 DEF SetTorrent, TypeOK, Demoted
  <2> QED BY <2>1, <2>2 DEF SetTorrent, run, CheckedClear
<1>18. CASE \E i \in Instances : Disable(i)
  BY <1>18 DEF Disable, Change, run, CheckedClear, Stages
<1>19. CASE \E i \in Instances : Enable(i)
  BY <1>19 DEF Enable, Change, run, CheckedClear, Stages
<1>20. CASE \E f \in Files : WriteFile(f)
  BY <1>20 DEF WriteFile, Change, run, CheckedClear, Stages
<1>21. CASE \E f \in Files : RemoveFile(f)
  BY <1>21 DEF RemoveFile, Change, run, CheckedClear, Stages
<1>22. CASE \E d \in Ignorable : IgnorePath(d)
  BY <1>22 DEF IgnorePath, Change, run, CheckedClear, Stages
<1>23. CASE \E d \in Ignorable : UnignorePath(d)
  BY <1>23 DEF UnignorePath, Change, run, CheckedClear, Stages, Protected, Ignored
<1>24. CASE UNCHANGED vars
  BY <1>24 DEF vars, run, CheckedClear, Stages
<1> QED BY <1>1, <1>2, <1>3, <1>4, <1>5, <1>6, <1>7, <1>8, <1>9, <1>10, <1>11, <1>12, <1>13,
      <1>14, <1>15, <1>16, <1>17, <1>18, <1>19, <1>20, <1>21, <1>22, <1>23, <1>24 DEF Next,
      Scan, Build, Delete, Environment

\* Files of torrents watched since the scan began are not erased.
LEMMA SteadyNext ==
  ASSUME TypeOK, Stages, RowsClear, SteadyFilesSafe, [Next]_vars
  PROVE  SteadyFilesSafe'
<1> USE DEF world, history
<1>1. CASE StartScan
  BY <1>1 DEF StartScan, SteadyFilesSafe, Stages, TypeOK
<1>2. CASE Walk
  BY <1>2 DEF Walk, SteadyFilesSafe, Stages
<1>3. CASE ListTorrents
  BY <1>3 DEF ListTorrents, SteadyFilesSafe, Stages
<1>4. CASE BuildOwn
  BY <1>4 DEF BuildOwn, SteadyFilesSafe, Stages
<1>5. CASE OtherInstances
  BY <1>5 DEF OtherInstances, SteadyFilesSafe, Stages
<1>6. CASE ConfirmDisjoint
  BY <1>6 DEF ConfirmDisjoint, SteadyFilesSafe, Stages
<1>7. CASE MergeOther
  BY <1>7 DEF MergeOther, SteadyFilesSafe, Stages
<1>8. CASE MapBuilt
  BY <1>8 DEF MapBuilt, SteadyFilesSafe, Stages
<1>9. CASE Fail
  BY <1>9 DEF Fail, SteadyFilesSafe, Stages
<1>10. CASE \E i \in Instances : CheckOverlap(i)
  BY <1>10 DEF CheckOverlap, SteadyFilesSafe, Stages
<1>11. CASE StartDeletion
  BY <1>11 DEF StartDeletion, SteadyFilesSafe, Stages
<1>12. CASE LoadIgnorePaths
  BY <1>12 DEF LoadIgnorePaths, SteadyFilesSafe, Stages
<1>13. CASE RemoveRow
  <2>1. checked \subseteq rows
    BY DEF TypeOK
  <2> QED BY <1>13, <2>1 DEF RemoveRow, Inside, RowsClear, SteadyFilesSafe
<1>14. CASE DeletionEnd
  BY <1>14 DEF DeletionEnd, SteadyFilesSafe, Stages
<1>15. CASE \E p \in Paths : SkipRow(p)
  BY <1>15 DEF SkipRow, SteadyFilesSafe, Stages
<1>16. CASE \E p \in Paths : CheckRow(p)
  BY <1>16 DEF CheckRow, SteadyFilesSafe, Stages
<1>17. CASE \E t \in Torrents, s \in TorStates : SetTorrent(t, s)
  <2>1. PICK t \in Torrents, s \in TorStates : SetTorrent(t, s)
    BY <1>17
  <2>2. \A x \in Torrents : Held(x, watch'[x]) \subseteq Held(x, watch[x])
    BY <2>1, HeldShrinks DEF SetTorrent, TypeOK
  <2> QED BY <2>1, <2>2 DEF SetTorrent, run, SteadyFilesSafe
<1>18. CASE \E i \in Instances : Disable(i)
  <2>1. \A x \in Torrents : Held(x, watch'[x]) \subseteq Held(x, watch[x])
    BY <1>18 DEF Disable, TypeOK, Held
  <2> QED BY <1>18, <2>1 DEF Disable, run, SteadyFilesSafe
<1>19. CASE \E i \in Instances : Enable(i)
  BY <1>19 DEF Enable, Change, run, SteadyFilesSafe, Stages
<1>20. CASE \E f \in Files : WriteFile(f)
  BY <1>20 DEF WriteFile, Change, run, SteadyFilesSafe, Stages
<1>21. CASE \E f \in Files : RemoveFile(f)
  BY <1>21 DEF RemoveFile, Change, run, SteadyFilesSafe, Stages
<1>22. CASE \E d \in Ignorable : IgnorePath(d)
  BY <1>22 DEF IgnorePath, Change, run, SteadyFilesSafe, Stages
<1>23. CASE \E d \in Ignorable : UnignorePath(d)
  BY <1>23 DEF UnignorePath, Change, run, SteadyFilesSafe, Stages
<1>24. CASE UNCHANGED vars
  BY <1>24 DEF vars, run, SteadyFilesSafe, Stages
<1> QED BY <1>1, <1>2, <1>3, <1>4, <1>5, <1>6, <1>7, <1>8, <1>9, <1>10, <1>11, <1>12, <1>13,
      <1>14, <1>15, <1>16, <1>17, <1>18, <1>19, <1>20, <1>21, <1>22, <1>23, <1>24 DEF Next,
      Scan, Build, Delete, Environment

\* Files of this instance, listed since the confirmation, are not erased.
LEMMA OwnListedNext ==
  ASSUME TypeOK, Stages, CheckedClear, OwnListedSafe, [Next]_vars
  PROVE  OwnListedSafe'
<1> USE DEF world, history
<1>1. CASE StartScan
  BY <1>1 DEF StartScan, OwnListedSafe, Stages
<1>2. CASE Walk
  BY <1>2 DEF Walk, OwnListedSafe, Stages
<1>3. CASE ListTorrents
  BY <1>3 DEF ListTorrents, OwnListedSafe, Stages
<1>4. CASE BuildOwn
  BY <1>4 DEF BuildOwn, OwnListedSafe, Stages
<1>5. CASE OtherInstances
  BY <1>5 DEF OtherInstances, OwnListedSafe, Stages
<1>6. CASE ConfirmDisjoint
  BY <1>6 DEF ConfirmDisjoint, OwnListedSafe, Stages
<1>7. CASE MergeOther
  BY <1>7 DEF MergeOther, OwnListedSafe, Stages
<1>8. CASE MapBuilt
  BY <1>8 DEF MapBuilt, OwnListedSafe, Stages
<1>9. CASE Fail
  BY <1>9 DEF Fail, OwnListedSafe, Stages
<1>10. CASE \E i \in Instances : CheckOverlap(i)
  BY <1>10 DEF CheckOverlap, OwnListedSafe, Stages
<1>11. CASE StartDeletion
  BY <1>11 DEF StartDeletion, OwnListedSafe, Stages, TypeOK
<1>12. CASE LoadIgnorePaths
  BY <1>12 DEF LoadIgnorePaths, OwnListedSafe, Stages
<1>13. CASE RemoveRow
  BY <1>13 DEF RemoveRow, OwnListedSafe, Stages, Inside, CheckedClear
<1>14. CASE DeletionEnd
  BY <1>14 DEF DeletionEnd, OwnListedSafe, Stages
<1>15. CASE \E p \in Paths : SkipRow(p)
  BY <1>15 DEF SkipRow, OwnListedSafe, Stages
<1>16. CASE \E p \in Paths : CheckRow(p)
  BY <1>16 DEF CheckRow, OwnListedSafe, Stages
<1>17. CASE \E t \in Torrents, s \in TorStates : SetTorrent(t, s)
  <2>1. PICK t \in Torrents, s \in TorStates : SetTorrent(t, s)
    BY <1>17
  <2>2. \A x \in Torrents : watchDel'[x] = "listed" => watchDel[x] = "listed"
    BY <2>1 DEF SetTorrent, TypeOK, Demoted
  <2> QED BY <2>1, <2>2 DEF SetTorrent, run, OwnListedSafe
<1>18. CASE \E i \in Instances : Disable(i)
  BY <1>18 DEF Disable, Change, run, OwnListedSafe, Stages
<1>19. CASE \E i \in Instances : Enable(i)
  BY <1>19 DEF Enable, Change, run, OwnListedSafe, Stages
<1>20. CASE \E f \in Files : WriteFile(f)
  BY <1>20 DEF WriteFile, Change, run, OwnListedSafe, Stages
<1>21. CASE \E f \in Files : RemoveFile(f)
  BY <1>21 DEF RemoveFile, Change, run, OwnListedSafe, Stages
<1>22. CASE \E d \in Ignorable : IgnorePath(d)
  BY <1>22 DEF IgnorePath, Change, run, OwnListedSafe, Stages
<1>23. CASE \E d \in Ignorable : UnignorePath(d)
  BY <1>23 DEF UnignorePath, Change, run, OwnListedSafe, Stages
<1>24. CASE UNCHANGED vars
  BY <1>24 DEF vars, run, OwnListedSafe, Stages
<1> QED BY <1>1, <1>2, <1>3, <1>4, <1>5, <1>6, <1>7, <1>8, <1>9, <1>10, <1>11, <1>12, <1>13,
      <1>14, <1>15, <1>16, <1>17, <1>18, <1>19, <1>20, <1>21, <1>22, <1>23, <1>24 DEF Next,
      Scan, Build, Delete, Environment

\* Nothing below an ignore path is erased.
LEMMA IgnoredNext ==
  ASSUME TypeOK, Stages, CheckedClear, IgnoredSafe, [Next]_vars
  PROVE  IgnoredSafe'
<1> USE DEF world, history
<1>1. CASE StartScan
  BY <1>1 DEF StartScan, IgnoredSafe, Stages, TypeOK
<1>2. CASE Walk
  BY <1>2 DEF Walk, IgnoredSafe, Stages
<1>3. CASE ListTorrents
  BY <1>3 DEF ListTorrents, IgnoredSafe, Stages
<1>4. CASE BuildOwn
  BY <1>4 DEF BuildOwn, IgnoredSafe, Stages
<1>5. CASE OtherInstances
  BY <1>5 DEF OtherInstances, IgnoredSafe, Stages
<1>6. CASE ConfirmDisjoint
  BY <1>6 DEF ConfirmDisjoint, IgnoredSafe, Stages
<1>7. CASE MergeOther
  BY <1>7 DEF MergeOther, IgnoredSafe, Stages
<1>8. CASE MapBuilt
  BY <1>8 DEF MapBuilt, IgnoredSafe, Stages
<1>9. CASE Fail
  BY <1>9 DEF Fail, IgnoredSafe, Stages
<1>10. CASE \E i \in Instances : CheckOverlap(i)
  BY <1>10 DEF CheckOverlap, IgnoredSafe, Stages
<1>11. CASE StartDeletion
  BY <1>11 DEF StartDeletion, IgnoredSafe, Stages
<1>12. CASE LoadIgnorePaths
  BY <1>12 DEF LoadIgnorePaths, IgnoredSafe, Stages
<1>13. CASE RemoveRow
  <2> SUFFICES ASSUME NEW f \in erased', Ignored(f, shield) PROVE FALSE
    BY <1>13 DEF RemoveRow, IgnoredSafe
  <2>1. f \notin erased
    BY DEF IgnoredSafe
  <2>2. PICK p \in checked : f \in Inside(p)
    BY <1>13, <2>1 DEF RemoveRow
  <2>3. f \in Paths /\ p \in Up[f]
    BY <2>2 DEF Inside, TypeOK, Paths
  <2> QED BY <2>2, <2>3, IgnoredInside DEF CheckedClear
<1>14. CASE DeletionEnd
  BY <1>14 DEF DeletionEnd, IgnoredSafe, Stages
<1>15. CASE \E p \in Paths : SkipRow(p)
  BY <1>15 DEF SkipRow, IgnoredSafe, Stages
<1>16. CASE \E p \in Paths : CheckRow(p)
  BY <1>16 DEF CheckRow, IgnoredSafe, Stages
<1>17. CASE \E t \in Torrents, s \in TorStates : SetTorrent(t, s)
  BY <1>17 DEF SetTorrent, Change, run, IgnoredSafe, Stages
<1>18. CASE \E i \in Instances : Disable(i)
  BY <1>18 DEF Disable, Change, run, IgnoredSafe, Stages
<1>19. CASE \E i \in Instances : Enable(i)
  BY <1>19 DEF Enable, Change, run, IgnoredSafe, Stages
<1>20. CASE \E f \in Files : WriteFile(f)
  BY <1>20 DEF WriteFile, Change, run, IgnoredSafe, Stages
<1>21. CASE \E f \in Files : RemoveFile(f)
  BY <1>21 DEF RemoveFile, Change, run, IgnoredSafe, Stages
<1>22. CASE \E d \in Ignorable : IgnorePath(d)
  BY <1>22 DEF IgnorePath, Change, run, IgnoredSafe, Stages
<1>23. CASE \E d \in Ignorable : UnignorePath(d)
  BY <1>23 DEF UnignorePath, Change, run, IgnoredSafe, Stages, Ignored
<1>24. CASE UNCHANGED vars
  BY <1>24 DEF vars, run, IgnoredSafe, Stages
<1> QED BY <1>1, <1>2, <1>3, <1>4, <1>5, <1>6, <1>7, <1>8, <1>9, <1>10, <1>11, <1>12, <1>13,
      <1>14, <1>15, <1>16, <1>17, <1>18, <1>19, <1>20, <1>21, <1>22, <1>23, <1>24 DEF Next,
      Scan, Build, Delete, Environment

-----------------------------------------------------------------------------
(* The theorems. *)

LEMMA InductiveInit == Init => Inductive
<1> SUFFICES ASSUME Init PROVE Inductive
  OBVIOUS
<1>1. TypeOK
  BY BoundsAssumption, TorrentsAssumption, KindsAssumption
  DEF Init, TypeOK, NoTorrents, Unwatched, TorStates, Watches, Pcs, Building
<1>2. Stages
  BY DEF Init, Stages
<1>3. Watching(watch) /\ Watching(watchDel)
  BY DEF Init, Watching, Unwatched
<1>4. MapShields /\ MapOwn /\ RowsClear /\ RowsAllowed /\ CheckedClear
  BY DEF Init, MapShields, MapOwn, RowsClear, RowsAllowed, CheckedClear, BuiltFor, PastOwn
<1>5. SteadyFilesSafe /\ OwnListedSafe /\ IgnoredSafe
  BY DEF Init, SteadyFilesSafe, OwnListedSafe, IgnoredSafe
<1> QED BY <1>1, <1>2, <1>3, <1>4, <1>5 DEF Inductive

\* The invariant of OrphanFiles that the properties below follow from: the map
\* shields what is watched, hence the preview is clear of it, hence no removal
\* takes it.
THEOREM InductiveInvariant == Spec => []Inductive
<1>1. Inductive /\ [Next]_vars => Inductive'
  BY TypeNext, StagesNext, WatchingScanNext, WatchingDeletionNext, MapShieldsNext,
     MapOwnNext, RowsClearNext, RowsAllowedNext, CheckedClearNext, SteadyNext,
     OwnListedNext, IgnoredNext DEF Inductive
<1> QED BY <1>1, InductiveInit, PTL DEF Spec

\* A file that was there when the scan began, of a torrent in an active instance
\* ever since, is never erased by the run.
THEOREM SteadyFilesAreSafe == Spec => []SteadyFilesSafe
<1>1. Inductive => SteadyFilesSafe
  BY DEF Inductive
<1> QED BY <1>1, InductiveInvariant, PTL

\* The re-check of executeDeletion protects the instance's torrents that have
\* had a file list since the confirmation.
THEOREM OwnListedFilesAreSafe == Spec => []OwnListedSafe
<1>1. Inductive => OwnListedSafe
  BY DEF Inductive
<1> QED BY <1>1, InductiveInvariant, PTL

\* Ignore paths that the scan or the deletion has read protect what is below.
THEOREM IgnoredFilesAreSafe == Spec => []IgnoredSafe
<1>1. Inductive => IgnoredSafe
  BY DEF Inductive
<1> QED BY <1>1, InductiveInvariant, PTL

\* The variables keep their types, and the histories that the other theorems
\* speak of stay within the torrents and files there are.
THEOREM TypesStay == Spec => []TypeOK
<1>1. Inductive => TypeOK
  BY DEF Inductive
<1> QED BY <1>1, InductiveInvariant, PTL
=============================================================================
