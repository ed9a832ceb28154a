------------------------- MODULE RunWorkspaceProofs -------------------------
(***************************************************************************)
(* Proofs about RunWorkspace, for every set of lease ids, paths, contents  *)
(* and every bound.                                                        *)
(***************************************************************************)
EXTENDS RunWorkspace, TLAPS

-----------------------------------------------------------------------------
(* Facts about manifests *)

\* The empty tree is a tree, and no tree is the missing directory.
LEMMA TreeFacts ==
    /\ EmptyTree \in Trees
    /\ Gone \notin Trees
BY GoneAssumption DEF EmptyTree, Trees

\* ApplyChanges gives a tree.
LEMMA PatchType ==
    ASSUME NEW t \in Trees, NEW b \in Trees, NEW a \in Trees
    PROVE  Patch(t, b, a) \in Trees
BY DEF Patch, Trees, Changed

\* Applying the difference between what is there and a manifest gives the
\* manifest: sync is right when its base describes the workspace.
LEMMA PatchFromBase ==
    ASSUME NEW b \in Trees, NEW a \in Trees
    PROVE  Patch(b, b, a) = a
BY DEF Patch, Trees, Changed, Deleted

\* The key of a workspace's setup inputs is a key.
LEMMA KeyType ==
    ASSUME NEW t \in Trees
    PROVE  SetupKeyOf(t) \in Keys
BY SetupAssumption DEF SetupKeyOf, Trees, Keys

-----------------------------------------------------------------------------
(* Type correctness *)

\* What each stage of handleRunRequest knows of the request: which runs have a
\* lease, and that a handler starts with fresh local variables.
Shape ==
    /\ req.kind = "default" => req.lease = None
    /\ req.kind = "reuse" => req.lease \in LeaseIds
    /\ stage \in {"mkdir", "create"} \cup BeforeCommand \cup AfterCommandStart
           => (req.kind = "default" \/ req.lease \in LeaseIds)
    /\ stage \in {"track", "unmark", "mark", "forget", "clean"} => req.kind = "default"
    /\ stage \in {"prepare", "mkdir", "create", "manifest"} => req.kind # "default"
    /\ stage \in {"idle", "remove"} => req = NoRequest
    /\ stage \in {"idle", "remove", "prepare", "mkdir", "create"}
           => base = EmptyTree /\ ~fresh
    /\ stage = "sync" /\ req.kind = "default" => base = EmptyTree /\ ~fresh

\* The handler's variables and the mutex are reset when it returns.
LEMMA NoRunType ==
    ASSUME NoRun
    PROVE  RunTypeOK' /\ Shape'
<1>1. RunTypeOK'
  <2>1. req' \in Requests
    BY TreeFacts, TimeAssumption DEF NoRun, Requests, NoRequest, Times
  <2>2. expires' \in Expiries
    BY TimeAssumption DEF NoRun, Expiries
  <2> QED
    BY <2>1, <2>2, TreeFacts DEF NoRun, RunTypeOK, Stages
<1>2. Shape'
  BY DEF NoRun, Shape, NoRequest, BeforeCommand, AfterCommandStart
<1> QED
  BY <1>1, <1>2

\* Removing leases leaves the default workspace alone.
LEMMA RemoveLeasesType ==
    ASSUME DiskTypeOK, OthersTypeOK, NEW S, S \subseteq LeaseIds \cup {None},
           RemoveLeases(S), UNCHANGED <<tracked, cleaned, setupKey>>
    PROVE  /\ DiskTypeOK'
           /\ ws'[Default] = ws[Default]
           /\ torn' \subseteq LeaseIds
<1>1. ws' \in [Spaces -> Trees \cup {Gone}] /\ ws'[Default] = ws[Default]
  BY SpacesAssumption DEF DiskTypeOK, RemoveLeases, Spaces
<1>2. leaseMeta' \in [LeaseIds -> Metas \cup {None}] /\ leaseTree' \in [LeaseIds -> Trees]
  BY TreeFacts DEF DiskTypeOK, RemoveLeases
<1>3. outputs' \in [Spaces -> Keys \cup {None, Partial}]
  BY DEF DiskTypeOK, RemoveLeases
<1> QED
  BY <1>1, <1>2, <1>3 DEF DiskTypeOK, OthersTypeOK, RemoveLeases

\* saveWorkspaceLease touches one lease.
LEMMA SaveLeaseType ==
    ASSUME DiskTypeOK, NEW l \in LeaseIds, NEW d \in BOOLEAN, NEW u \in Expiries,
           NEW t \in Trees, SaveLease(l, d, u, t)
    PROVE  /\ leaseDirs' \subseteq LeaseIds
           /\ leaseMeta' \in [LeaseIds -> Metas \cup {None}]
           /\ leaseTree' \in [LeaseIds -> Trees]
BY DEF DiskTypeOK, SaveLease, Metas

\* The workspace of the run is one of the workspaces.
LEMMA SpaceType == ASSUME RunTypeOK PROVE Space \in Spaces
BY DEF RunTypeOK, Requests, Space, Spaces

\* Only leases have their directory removed.
LEMMA PrunableType == ASSUME DiskTypeOK, NEW t PROVE Prunable(t) \subseteq LeaseIds
BY DEF DiskTypeOK, Prunable

\* A command changes nothing outside its workspace, and leaves a tree in it.
LEMMA CommandType ==
    ASSUME DiskTypeOK, RunTypeOK, NEW t \in CommandTrees, ws' = [ws EXCEPT ![Space] = t]
    PROVE  ws' \in [Spaces -> Trees \cup {Gone}] /\ ws'[Default] \in Trees
<1>1. Space \in Spaces /\ Default \in Spaces
  BY SpaceType DEF Spaces
<1>2. t \in Trees \cup {Gone} /\ (Space = Default => t \in Trees)
  BY TreeFacts DEF CommandTrees, DiskTypeOK
<1> QED
  BY <1>1, <1>2 DEF DiskTypeOK

\* Nor does a command that is killed when its run fails.
LEMMA StopCommandType ==
    ASSUME DiskTypeOK, RunTypeOK, StopCommand
    PROVE  ws' \in [Spaces -> Trees \cup {Gone}] /\ ws'[Default] \in Trees
<1>1. CASE stage \in {"setup", "run"}
  BY <1>1, CommandType DEF StopCommand
<1>2. CASE stage \notin {"setup", "run"}
  BY <1>2 DEF StopCommand, DiskTypeOK
<1> QED
  BY <1>1, <1>2

\* A crash cuts off removals of leases only, and leaves a tree in the default
\* workspace.
LEMMA HalfRemovedType ==
    ASSUME DiskTypeOK, OthersTypeOK
    PROVE  HalfRemoved \subseteq LeaseIds /\ Default \notin HalfRemoved
BY SpacesAssumption DEF HalfRemoved, DiskTypeOK, OthersTypeOK

\* Whatever a crash cuts off, it leaves a tree in the default workspace.
LEMMA CrashTreesType ==
    ASSUME DiskTypeOK, RunTypeOK, OthersTypeOK
    PROVE  CrashTrees(Default) \subseteq Trees
<1>1. Remnants(ws[Default]) \ {Gone} \subseteq Trees
  BY TreeFacts DEF Remnants, DiskTypeOK
<1>2. PartialPatches(ws[Default], base, req.tree) \subseteq Trees
  BY DEF PartialPatches
<1>3. Space = Default => CommandTrees \subseteq Trees
  BY TreeFacts DEF CommandTrees, DiskTypeOK
<1> QED
  BY <1>1, <1>2, <1>3, HalfRemovedType DEF CrashTrees, DiskTypeOK

\* TypeOK and Shape hold initially,
LEMMA InitType == Init => TypeOK /\ Shape
<1> SUFFICES ASSUME Init PROVE TypeOK /\ Shape
  OBVIOUS
<1>1. ws \in [Spaces -> Trees \cup {Gone}] /\ ws[Default] \in Trees
  BY TreeFacts DEF Init, Spaces
<1>2. req \in Requests
  BY TreeFacts, TimeAssumption DEF Init, NoRequest, Requests, Times
<1>3. now \in Times /\ expires \in Expiries /\ crashes \in 0..MaxCrashes
  BY TimeAssumption DEF Init, Times, Expiries
<1>4. /\ leaseMeta \in [LeaseIds -> Metas \cup {None}]
      /\ leaseTree \in [LeaseIds -> Trees]
      /\ outputs \in [Spaces -> Keys \cup {None, Partial}]
  BY TreeFacts DEF Init
<1>5. cleaned \in BOOLEAN /\ fresh \in BOOLEAN
  BY DEF Init
<1>6. Shape
  BY DEF Init, Shape, NoRequest, BeforeCommand, AfterCommandStart
<1> QED
  BY <1>1, <1>2, <1>3, <1>4, <1>5, <1>6, TreeFacts
  DEF Init, TypeOK, DiskTypeOK, RunTypeOK, OthersTypeOK, Stages

\* and every step preserves them.
LEMMA TypeStep == TypeOK /\ Shape /\ [Next]_vars => TypeOK' /\ Shape'
<1> SUFFICES ASSUME DiskTypeOK, RunTypeOK, OthersTypeOK, Shape, [Next]_vars
             PROVE  DiskTypeOK' /\ RunTypeOK' /\ OthersTypeOK' /\ Shape'
  BY DEF TypeOK
<1>1. Space \in Spaces /\ (Space \in LeaseIds \/ Space = Default)
  BY SpaceType DEF Spaces
<1> USE DEF disk, leaseDisk, locals, runVars, others, history
<1>2. CASE Begin
  <2>1. DiskTypeOK'
    BY <1>2 DEF Begin, DiskTypeOK
  <2>2. RunTypeOK' /\ Shape'
    BY <1>2, KindsAssumption, SpacesAssumption
    DEF Begin, RunTypeOK, Shape, Stages, BeforeCommand, AfterCommandStart, Requests,
        OthersTypeOK
  <2>3. OthersTypeOK'
    BY <1>2 DEF Begin, OthersTypeOK
  <2> QED
    BY <2>1, <2>2, <2>3
<1>3. CASE PrepareNew
  <2>1. DiskTypeOK'
    BY <1>3, PrunableType, RemoveLeasesType DEF PrepareNew
  <2>2. RunTypeOK' /\ Shape'
    BY <1>3, TimeAssumption
    DEF PrepareNew, RunTypeOK, Shape, Stages, BeforeCommand, AfterCommandStart,
        Requests, Times, Expiries
  <2>3. OthersTypeOK'
    BY <1>3, PrunableType, RemoveLeasesType DEF PrepareNew, OthersTypeOK
  <2> QED
    BY <2>1, <2>2, <2>3
<1>4. CASE MakeLeaseDir
  <2>1. DiskTypeOK'
    BY <1>4 DEF MakeLeaseDir, DiskTypeOK, Shape, RunTypeOK, Requests
  <2>2. RunTypeOK' /\ Shape'
    BY <1>4 DEF MakeLeaseDir, RunTypeOK, Shape, Stages, BeforeCommand, AfterCommandStart
  <2>3. OthersTypeOK'
    BY <1>4 DEF MakeLeaseDir, OthersTypeOK
  <2> QED
    BY <2>1, <2>2, <2>3
<1>5. CASE CreateLease
  <2>1. DiskTypeOK'
    BY <1>5, TreeFacts, SaveLeaseType DEF CreateLease, DiskTypeOK, Shape, RunTypeOK, Spaces
  <2>2. RunTypeOK' /\ Shape'
    BY <1>5 DEF CreateLease, RunTypeOK, Shape, Stages, BeforeCommand, AfterCommandStart
  <2>3. OthersTypeOK'
    BY <1>5 DEF CreateLease, OthersTypeOK
  <2> QED
    BY <2>1, <2>2, <2>3
<1>6. CASE CreateLeaseFails
  <2>1. DiskTypeOK'
    BY <1>6 DEF CreateLeaseFails, DiskTypeOK
  <2>2. RunTypeOK' /\ Shape'
    BY <1>6, NoRunType DEF CreateLeaseFails, EndRun
  <2>3. OthersTypeOK'
    BY <1>6 DEF CreateLeaseFails, EndRun, OthersTypeOK
  <2> QED
    BY <2>1, <2>2, <2>3
<1>7. CASE PrepareReused
  <2>1. /\ leaseTree[req.lease] \in Trees
        /\ (IF req.keep THEN req.at + Keep ELSE leaseMeta[req.lease].expires) \in Expiries
    BY <1>7, TimeAssumption
    DEF PrepareReused, Shape, DiskTypeOK, RunTypeOK, Requests, Metas, Times, Expiries
  <2>2. DiskTypeOK'
    BY <1>7, <2>1, SaveLeaseType DEF PrepareReused, DiskTypeOK, Shape
  <2>3. RunTypeOK' /\ Shape'
    BY <1>7, <2>1
    DEF PrepareReused, RunTypeOK, Shape, Stages, BeforeCommand, AfterCommandStart,
        DiskTypeOK
  <2>4. OthersTypeOK'
    BY <1>7 DEF PrepareReused, OthersTypeOK, Shape
  <2> QED
    BY <2>2, <2>3, <2>4
<1>8. CASE RefuseReuse
  <2>1. DiskTypeOK'
    BY <1>8 DEF RefuseReuse, DiskTypeOK
  <2>2. RunTypeOK' /\ Shape'
    BY <1>8, NoRunType DEF RefuseReuse, EndRun
  <2>3. OthersTypeOK'
    BY <1>8 DEF RefuseReuse, EndRun, OthersTypeOK
  <2> QED
    BY <2>1, <2>2, <2>3
<1>9. CASE RefuseExpired
  <2>1. DiskTypeOK'
    BY <1>9, RemoveLeasesType DEF RefuseExpired, Shape
  <2>2. RunTypeOK' /\ Shape'
    BY <1>9, NoRunType DEF RefuseExpired, EndRun
  <2>3. OthersTypeOK'
    BY <1>9, RemoveLeasesType DEF RefuseExpired, EndRun, OthersTypeOK, Shape
  <2> QED
    BY <2>1, <2>2, <2>3
<1>10. CASE RefuseMissing
  <2>1. leaseTree[req.lease] \in Trees /\ leaseMeta[req.lease].expires \in Expiries
    BY <1>10 DEF RefuseMissing, Shape, DiskTypeOK, Metas
  <2>2. DiskTypeOK'
    BY <1>10, <2>1, SaveLeaseType DEF RefuseMissing, DiskTypeOK, Shape
  <2>3. RunTypeOK' /\ Shape'
    BY <1>10, NoRunType DEF RefuseMissing, EndRun
  <2>4. OthersTypeOK'
    BY <1>10 DEF RefuseMissing, EndRun, OthersTypeOK
  <2> QED
    BY <2>2, <2>3, <2>4
<1>11. CASE StartLeaseSync
  <2>1. DiskTypeOK'
    BY <1>11 DEF StartLeaseSync, DiskTypeOK
  <2>2. RunTypeOK' /\ Shape'
    BY <1>11 DEF StartLeaseSync, RunTypeOK, Shape, Stages, BeforeCommand, AfterCommandStart
  <2>3. OthersTypeOK'
    BY <1>11 DEF StartLeaseSync, OthersTypeOK
  <2> QED
    BY <2>1, <2>2, <2>3
<1>12. CASE StartSync
  <2>1. DiskTypeOK'
    BY <1>12 DEF StartSync, DiskTypeOK
  <2>2. RunTypeOK' /\ Shape'
    BY <1>12
    DEF StartSync, RunTypeOK, Shape, Stages, BeforeCommand, AfterCommandStart,
        DiskTypeOK
  <2>3. OthersTypeOK'
    BY <1>12 DEF StartSync, OthersTypeOK
  <2> QED
    BY <2>1, <2>2, <2>3
<1>13. CASE StartFreshSync
  <2>1. DiskTypeOK'
    BY <1>13, TreeFacts DEF StartFreshSync, DiskTypeOK, Spaces
  <2>2. RunTypeOK' /\ Shape'
    BY <1>13 DEF StartFreshSync, RunTypeOK, Shape, Stages, BeforeCommand, AfterCommandStart
  <2>3. OthersTypeOK'
    BY <1>13 DEF StartFreshSync, OthersTypeOK
  <2> QED
    BY <2>1, <2>2, <2>3
<1>14. CASE ApplySync
  <2>1. ws[Space] # Gone => Patch(ws[Space], base, req.tree) \in Trees
    BY <1>1, PatchType DEF DiskTypeOK, RunTypeOK, Requests
  <2>2. ws' \in [Spaces -> Trees \cup {Gone}] /\ ws'[Default] \in Trees
    <3>1. CASE ws[Space] = Gone
      BY <1>14, <3>1 DEF ApplySync, DiskTypeOK
    <3>2. CASE ws[Space] # Gone
      <4>1. ws' = [ws EXCEPT ![Space] = Patch(ws[Space], base, req.tree)]
        BY <1>14, <3>2 DEF ApplySync
      <4> QED
        BY <1>1, <2>1, <3>2, <4>1 DEF DiskTypeOK
    <3> QED
      BY <3>1, <3>2
  <2>3. DiskTypeOK'
    BY <1>14, <2>2 DEF ApplySync, DiskTypeOK
  <2>4. RunTypeOK' /\ Shape'
    BY <1>14 DEF ApplySync, RunTypeOK, Shape, Stages, BeforeCommand, AfterCommandStart
  <2>5. OthersTypeOK'
    BY <1>14 DEF ApplySync, OthersTypeOK
  <2> QED
    BY <2>3, <2>4, <2>5
<1>15. CASE TrackManifest
  <2>1. DiskTypeOK'
    BY <1>15 DEF TrackManifest, DiskTypeOK, RunTypeOK, Requests
  <2>2. RunTypeOK' /\ Shape'
    BY <1>15 DEF TrackManifest, RunTypeOK, Shape, Stages, BeforeCommand, AfterCommandStart
  <2>3. OthersTypeOK'
    BY <1>15 DEF TrackManifest, OthersTypeOK
  <2> QED
    BY <2>1, <2>2, <2>3
<1>16. CASE ClearMarker
  <2>1. DiskTypeOK'
    BY <1>16 DEF ClearMarker, DiskTypeOK
  <2>2. RunTypeOK' /\ Shape'
    BY <1>16 DEF ClearMarker, RunTypeOK, Shape, Stages, BeforeCommand, AfterCommandStart
  <2>3. OthersTypeOK'
    BY <1>16 DEF ClearMarker, OthersTypeOK
  <2> QED
    BY <2>1, <2>2, <2>3
<1>17. CASE StartSetup
  <2>1. DiskTypeOK'
    BY <1>17, <1>1 DEF StartSetup, DiskTypeOK
  <2>2. RunTypeOK' /\ Shape'
    BY <1>17 DEF StartSetup, RunTypeOK, Shape, Stages, BeforeCommand, AfterCommandStart
  <2>3. OthersTypeOK'
    BY <1>17 DEF StartSetup, OthersTypeOK
  <2> QED
    BY <2>1, <2>2, <2>3
<1>18. CASE SkipSetup
  <2>1. DiskTypeOK'
    BY <1>18 DEF SkipSetup, DiskTypeOK
  <2>2. RunTypeOK' /\ Shape'
    BY <1>18 DEF SkipSetup, RunTypeOK, Shape, Stages, BeforeCommand, AfterCommandStart
  <2>3. OthersTypeOK'
    BY <1>18 DEF SkipSetup, OthersTypeOK
  <2> QED
    BY <2>1, <2>2, <2>3
<1>19. CASE SaveSetup
  <2>1. DiskTypeOK'
    BY <1>19, <1>1, KeyType DEF SaveSetup, DiskTypeOK
  <2>2. RunTypeOK' /\ Shape'
    BY <1>19 DEF SaveSetup, RunTypeOK, Shape, Stages, BeforeCommand, AfterCommandStart
  <2>3. OthersTypeOK'
    BY <1>19 DEF SaveSetup, OthersTypeOK
  <2> QED
    BY <2>1, <2>2, <2>3
<1>20. CASE SetupFails
  <2>1. DiskTypeOK'
    BY <1>20, CommandType DEF SetupFails, DiskTypeOK
  <2>2. RunTypeOK' /\ Shape'
    BY <1>20 DEF SetupFails, RunTypeOK, Shape, Stages, BeforeCommand, AfterCommandStart
  <2>3. OthersTypeOK'
    BY <1>20 DEF SetupFails, OthersTypeOK
  <2> QED
    BY <2>1, <2>2, <2>3
<1>21. CASE RunCommand
  <2>1. DiskTypeOK'
    BY <1>21, CommandType DEF RunCommand, DiskTypeOK
  <2>2. RunTypeOK' /\ Shape'
    BY <1>21 DEF RunCommand, RunTypeOK, Shape, Stages, BeforeCommand, AfterCommandStart
  <2>3. OthersTypeOK'
    BY <1>21 DEF RunCommand, OthersTypeOK
  <2> QED
    BY <2>1, <2>2, <2>3
<1>22. CASE ScanWorkspace
  <2>1. DiskTypeOK'
    BY <1>22 DEF ScanWorkspace, DiskTypeOK
  <2>2. RunTypeOK' /\ Shape'
    BY <1>22, <1>1
    DEF ScanWorkspace, RunTypeOK, Shape, Stages, BeforeCommand, AfterCommandStart,
        DiskTypeOK
  <2>3. OthersTypeOK'
    BY <1>22 DEF ScanWorkspace, OthersTypeOK
  <2> QED
    BY <2>1, <2>2, <2>3
<1>23. CASE SendChanges
  <2>1. DiskTypeOK'
    BY <1>23 DEF SendChanges, DiskTypeOK
  <2>2. RunTypeOK' /\ Shape'
    BY <1>23 DEF SendChanges, RunTypeOK, Shape, Stages, BeforeCommand, AfterCommandStart
  <2>3. OthersTypeOK'
    BY <1>23 DEF SendChanges, OthersTypeOK
  <2> QED
    BY <2>1, <2>2, <2>3
<1>24. CASE SavePostRun
  <2>1. DiskTypeOK'
    BY <1>24 DEF SavePostRun, DiskTypeOK, RunTypeOK
  <2>2. RunTypeOK' /\ Shape'
    BY <1>24 DEF SavePostRun, RunTypeOK, Shape, Stages, BeforeCommand, AfterCommandStart
  <2>3. OthersTypeOK'
    BY <1>24 DEF SavePostRun, OthersTypeOK
  <2> QED
    BY <2>1, <2>2, <2>3
<1>25. CASE SaveLeaseMeta
  <2>1. req.lease \in LeaseIds /\ leaseTree[req.lease] \in Trees /\ NewExpiry \in Expiries
    BY <1>25, TimeAssumption
    DEF SaveLeaseMeta, Shape, AfterCommandStart, DiskTypeOK, RunTypeOK, OthersTypeOK,
        NewExpiry, Times, Expiries
  <2>2. DiskTypeOK'
    BY <1>25, <2>1, SaveLeaseType DEF SaveLeaseMeta, DiskTypeOK
  <2>3. RunTypeOK' /\ Shape'
    BY <1>25, <2>1
    DEF SaveLeaseMeta, RunTypeOK, Shape, Stages, BeforeCommand, AfterCommandStart
  <2>4. OthersTypeOK'
    BY <1>25 DEF SaveLeaseMeta, OthersTypeOK
  <2> QED
    BY <2>2, <2>3, <2>4
<1>26. CASE SaveLeaseManifest
  <2>1. DiskTypeOK'
    BY <1>26 DEF SaveLeaseManifest, DiskTypeOK, RunTypeOK, Shape, AfterCommandStart
  <2>2. RunTypeOK' /\ Shape'
    BY <1>26
    DEF SaveLeaseManifest, RunTypeOK, Shape, Stages, BeforeCommand, AfterCommandStart
  <2>3. OthersTypeOK'
    BY <1>26 DEF SaveLeaseManifest, OthersTypeOK
  <2> QED
    BY <2>1, <2>2, <2>3
<1>27. CASE MarkCleaned
  <2>1. DiskTypeOK'
    BY <1>27 DEF MarkCleaned, DiskTypeOK
  <2>2. RunTypeOK' /\ Shape'
    BY <1>27 DEF MarkCleaned, RunTypeOK, Shape, Stages, BeforeCommand, AfterCommandStart
  <2>3. OthersTypeOK'
    BY <1>27 DEF MarkCleaned, OthersTypeOK
  <2> QED
    BY <2>1, <2>2, <2>3
<1>28. CASE ForgetSetup
  <2>1. DiskTypeOK'
    BY <1>28 DEF ForgetSetup, DiskTypeOK
  <2>2. RunTypeOK' /\ Shape'
    BY <1>28 DEF ForgetSetup, RunTypeOK, Shape, Stages, BeforeCommand, AfterCommandStart
  <2>3. OthersTypeOK'
    BY <1>28 DEF ForgetSetup, OthersTypeOK
  <2> QED
    BY <2>1, <2>2, <2>3
<1>29. CASE CleanWorkspace
  <2>1. DiskTypeOK'
    BY <1>29, TreeFacts DEF CleanWorkspace, DiskTypeOK, Spaces
  <2>2. RunTypeOK' /\ Shape'
    BY <1>29 DEF CleanWorkspace, RunTypeOK, Shape, Stages, BeforeCommand, AfterCommandStart
  <2>3. OthersTypeOK'
    BY <1>29 DEF CleanWorkspace, OthersTypeOK
  <2> QED
    BY <2>1, <2>2, <2>3
<1>30. CASE Finish
  <2>1. DiskTypeOK'
    BY <1>30 DEF Finish, DiskTypeOK
  <2>2. RunTypeOK' /\ Shape'
    BY <1>30, NoRunType DEF Finish, EndRun
  <2>3. OthersTypeOK'
    BY <1>30 DEF Finish, EndRun, OthersTypeOK
  <2> QED
    BY <2>1, <2>2, <2>3
<1>31. CASE FailBeforeCommand
  <2>1. DiskTypeOK'
    BY <1>31 DEF FailBeforeCommand, DiskTypeOK
  <2>2. RunTypeOK' /\ Shape'
    BY <1>31, NoRunType DEF FailBeforeCommand, EndRun
  <2>3. OthersTypeOK'
    BY <1>31 DEF FailBeforeCommand, EndRun, OthersTypeOK, StaleAfter
  <2> QED
    BY <2>1, <2>2, <2>3
<1>32. CASE FailAfterCommandStart
  <2>1. NewExpiry \in Expiries /\ (req.lease = None \/ req.lease \in LeaseIds)
    BY <1>32, TimeAssumption
    DEF RunTypeOK, Requests, OthersTypeOK, NewExpiry, Times, Expiries
  <2>2. DiskTypeOK'
    BY <1>32, <2>1, StopCommandType, SaveLeaseType
    DEF FailAfterCommandStart, DiskTypeOK, RunTypeOK
  <2>3. RunTypeOK' /\ Shape'
    BY <1>32, NoRunType DEF FailAfterCommandStart, EndRun
  <2>4. OthersTypeOK'
    BY <1>32 DEF FailAfterCommandStart, EndRun, OthersTypeOK, StaleAfter
  <2> QED
    BY <2>2, <2>3, <2>4
<1>33. CASE FailAndMarkDirtyFails
  <2>1. DiskTypeOK'
    BY <1>33, StopCommandType DEF FailAndMarkDirtyFails, DiskTypeOK
  <2>2. RunTypeOK' /\ Shape'
    BY <1>33, NoRunType DEF FailAndMarkDirtyFails, EndRun
  <2>3. OthersTypeOK'
    BY <1>33 DEF FailAndMarkDirtyFails, EndRun, OthersTypeOK, RunTypeOK, Requests
  <2> QED
    BY <2>1, <2>2, <2>3
<1>34. CASE Tick
  <2>1. DiskTypeOK'
    BY <1>34 DEF Tick, DiskTypeOK
  <2>2. RunTypeOK' /\ Shape'
    BY <1>34 DEF Tick, RunTypeOK, Shape, Stages, BeforeCommand, AfterCommandStart
  <2>3. OthersTypeOK'
    BY <1>34, TimeAssumption DEF Tick, OthersTypeOK, Times
  <2> QED
    BY <2>1, <2>2, <2>3
<1>35. CASE ListLoad
  <2>1. DiskTypeOK'
    BY <1>35 DEF ListLoad, DiskTypeOK
  <2>2. RunTypeOK' /\ Shape'
    BY <1>35 DEF ListLoad, RunTypeOK, Shape, Stages, BeforeCommand, AfterCommandStart
  <2>3. OthersTypeOK'
    BY <1>35 DEF ListLoad, OthersTypeOK, DiskTypeOK
  <2> QED
    BY <2>1, <2>2, <2>3
<1>36. CASE ListCheck
  <2>1. DiskTypeOK'
    BY <1>36 DEF ListCheck, DiskTypeOK
  <2>2. RunTypeOK' /\ Shape'
    BY <1>36 DEF ListCheck, RunTypeOK, Shape, Stages, BeforeCommand, AfterCommandStart
  <2>3. OthersTypeOK'
    BY <1>36 DEF ListCheck, OthersTypeOK
  <2> QED
    BY <2>1, <2>2, <2>3
<1>37. CASE ListRemove
  <2>1. DiskTypeOK'
    BY <1>37, RemoveLeasesType DEF ListRemove, OthersTypeOK
  <2>2. RunTypeOK' /\ Shape'
    BY <1>37 DEF ListRemove, RunTypeOK, Shape, Stages, BeforeCommand, AfterCommandStart
  <2>3. OthersTypeOK'
    BY <1>37, RemoveLeasesType DEF ListRemove, OthersTypeOK
  <2> QED
    BY <2>1, <2>2, <2>3
<1>38. CASE RemoveContextBegin
  <2>1. DiskTypeOK'
    BY <1>38 DEF RemoveContextBegin, DiskTypeOK
  <2>2. RunTypeOK' /\ Shape'
    BY <1>38
    DEF RemoveContextBegin, RunTypeOK, Shape, Stages, BeforeCommand, AfterCommandStart
  <2>3. OthersTypeOK'
    BY <1>38 DEF RemoveContextBegin, OthersTypeOK
  <2> QED
    BY <2>1, <2>2, <2>3
<1>39. CASE RemoveContext
  <2>1. DiskTypeOK'
    BY <1>39, TreeFacts DEF RemoveContext, DiskTypeOK, Spaces
  <2>2. RunTypeOK' /\ Shape'
    BY <1>39 DEF RemoveContext, RunTypeOK, Shape, Stages, BeforeCommand, AfterCommandStart
  <2>3. OthersTypeOK'
    BY <1>39 DEF RemoveContext, OthersTypeOK
  <2> QED
    BY <2>1, <2>2, <2>3
<1>40. CASE Crash
  <2>1. PICK removed \in SUBSET HalfRemoved : Lose(removed \cup PrunedAtStart)
    BY <1>40 DEF Crash
  <2>2. DiskTypeOK'
    <3>1. ws' \in [Spaces -> Trees \cup {Gone}] /\ ws'[Default] \in Trees
      BY <2>1, CrashTreesType, HalfRemovedType, SpacesAssumption
      DEF Lose, PrunedAtStart, DiskTypeOK, Spaces
    <3>2. /\ outputs' \in [Spaces -> Keys \cup {None, Partial}]
          /\ leaseDirs' \subseteq LeaseIds
      BY <2>1 DEF Lose, DiskTypeOK
    <3>3. /\ leaseMeta' \in [LeaseIds -> Metas \cup {None}]
          /\ leaseTree' \in [LeaseIds -> Trees]
      BY <2>1, TreeFacts DEF Lose, DiskTypeOK
    <3>4. tracked' \in Trees /\ cleaned' \in BOOLEAN /\ setupKey' \in Keys \cup {None}
      BY <1>40, TreeFacts DEF Crash, DiskTypeOK
    <3> QED
      BY <3>1, <3>2, <3>3, <3>4 DEF DiskTypeOK
  <2>3. RunTypeOK' /\ Shape'
    BY <1>40, NoRunType DEF Crash
  <2>4. torn' \subseteq LeaseIds
    BY <2>1, HalfRemovedType DEF Lose, OthersTypeOK, Shape, AfterCommandStart
  <2>5. OthersTypeOK'
    <3>1. stale' \in {"no", "run", "remove"}
      BY <1>40 DEF Crash, OthersTypeOK, StaleAfter
    <3>2. crashes' \in 0..MaxCrashes
      BY <1>40, TimeAssumption DEF Crash, OthersTypeOK
    <3> QED
      BY <1>40, <2>4, <3>1, <3>2 DEF Crash, OthersTypeOK
  <2> QED
    BY <2>2, <2>3, <2>5
<1>41. ASSUME NEW t \in 0..now, CleanupExpired(t)
       PROVE  DiskTypeOK' /\ RunTypeOK' /\ OthersTypeOK' /\ Shape'
  <2>1. DiskTypeOK'
    BY <1>41, PrunableType, RemoveLeasesType DEF CleanupExpired, DiskTypeOK
  <2>2. RunTypeOK' /\ Shape'
    BY <1>41 DEF CleanupExpired, RunTypeOK, Shape
  <2>3. OthersTypeOK'
    BY <1>41, PrunableType, RemoveLeasesType DEF CleanupExpired, OthersTypeOK
  <2> QED
    BY <2>1, <2>2, <2>3
<1>42. ASSUME NEW l \in LeaseIds, DeleteBegin(l)
       PROVE  DiskTypeOK' /\ RunTypeOK' /\ OthersTypeOK' /\ Shape'
  <2>1. DiskTypeOK'
    BY <1>42 DEF DeleteBegin, DiskTypeOK
  <2>2. RunTypeOK' /\ Shape'
    BY <1>42 DEF DeleteBegin, RunTypeOK, Shape
  <2>3. OthersTypeOK'
    BY <1>42 DEF DeleteBegin, OthersTypeOK
  <2> QED
    BY <2>1, <2>2, <2>3
<1>43. ASSUME NEW l \in LeaseIds, DeleteLease(l)
       PROVE  DiskTypeOK' /\ RunTypeOK' /\ OthersTypeOK' /\ Shape'
  <2>1. DiskTypeOK'
    BY <1>43, RemoveLeasesType DEF DeleteLease, DiskTypeOK
  <2>2. RunTypeOK' /\ Shape'
    BY <1>43 DEF DeleteLease, RunTypeOK, Shape
  <2>3. OthersTypeOK'
    BY <1>43, RemoveLeasesType DEF DeleteLease, OthersTypeOK
  <2> QED
    BY <2>1, <2>2, <2>3
<1>44. CASE UNCHANGED vars
  BY <1>44 DEF vars, DiskTypeOK, RunTypeOK, OthersTypeOK, Shape
<1> QED
  BY <1>2, <1>3, <1>4, <1>5, <1>6, <1>7, <1>8, <1>9, <1>10, <1>11, <1>12, <1>13, <1>14,
     <1>15, <1>16, <1>17, <1>18, <1>19, <1>20, <1>21, <1>22, <1>23, <1>24, <1>25, <1>26,
     <1>27, <1>28, <1>29, <1>30, <1>31, <1>32, <1>33, <1>34, <1>35, <1>36, <1>37, <1>38,
     <1>39, <1>40, <1>41, <1>42, <1>43, <1>44
  DEF Next, RunStep, OtherStep

\* The files of a context and the variables of its run always have their type.
THEOREM TypeCorrect == Spec => []TypeOK
<1>1. Init => TypeOK /\ Shape
  BY InitType
<1>2. TypeOK /\ Shape /\ [Next]_vars => TypeOK' /\ Shape'
  BY TypeStep
<1> QED
  BY <1>1, <1>2, PTL DEF Spec

-----------------------------------------------------------------------------
(* The default workspace *)

\* No run is using the default workspace, or one is about to.
Between ==
    \/ stage \in {"idle", "remove", "prepare", "mkdir", "create", "sync"}
    \/ req.kind # "default"

\* What makes DefaultSeesClientTree inductive: between runs the tracked manifest
\* describes the default workspace or the marker tells the next run to empty it,
\* and what each stage knows of the workspace, the manifests and the marker.
BetweenInv ==
    stale = "no" /\ Between => cleaned \/ ws[Default] = tracked

SyncInv ==
    /\ stage = "apply" /\ req.kind = "default" /\ fresh
           => cleaned /\ ws[Default] = EmptyTree /\ base = EmptyTree
    /\ stage = "apply" /\ req.kind = "default" /\ ~fresh
           => base = tracked /\ (stale = "no" => ws[Default] = tracked)
    /\ stage \in {"track", "unmark", "ready"} /\ req.kind = "default" /\ stale = "no"
           => ws[Default] = req.tree
    /\ stage = "track" /\ fresh => cleaned
    /\ stage \in {"unmark", "ready"} /\ req.kind = "default" => tracked = req.tree

CleanupInv ==
    /\ stage \in {"report", "save"} /\ req.kind = "default" => post = ws[Default]
    /\ stage = "mark" => tracked = ws[Default]
    /\ stage \in {"forget", "clean", "done"} /\ req.kind = "default" => cleaned

DefaultInv == BetweenInv /\ SyncInv /\ CleanupInv

\* The invariant holds when a context is created,
LEMMA DefaultInit == Init => DefaultInv
BY DEF Init, DefaultInv, BetweenInv, SyncInv, CleanupInv, Spaces

\* No removal of leases touches the default workspace.
LEMMA RemoveLeasesDefault ==
    ASSUME DiskTypeOK, NEW S, S \subseteq LeaseIds \cup {None}, RemoveLeases(S)
    PROVE  ws'[Default] = ws[Default]
BY SpacesAssumption DEF DiskTypeOK, RemoveLeases, Spaces

\* and every step preserves it: those of a default run because each stage
\* establishes what the next one knows, all others because they leave the default
\* workspace, the tracked manifest and the marker alone.
LEMMA DefaultStep == TypeOK /\ Shape /\ DefaultInv /\ [Next]_vars => DefaultInv'
<1> SUFFICES ASSUME DiskTypeOK, RunTypeOK, OthersTypeOK, Shape, DefaultInv, [Next]_vars
             PROVE  DefaultInv'
  BY DEF TypeOK
<1>1. Default \in Spaces /\ (req.kind # "default" /\ req.lease \in LeaseIds => Space # Default)
  BY SpacesAssumption DEF Spaces, Space
<1> USE DEF disk, leaseDisk, locals, runVars, others, history,
            DefaultInv, BetweenInv, SyncInv, CleanupInv, Between
<1>2. CASE Begin
  BY <1>2 DEF Begin
<1>3. CASE PrepareNew
  BY <1>3, PrunableType, RemoveLeasesDefault DEF PrepareNew
<1>4. CASE MakeLeaseDir
  BY <1>4 DEF MakeLeaseDir
<1>5. CASE CreateLease
  BY <1>5, SpacesAssumption
  DEF CreateLease, Shape, DiskTypeOK, BeforeCommand, AfterCommandStart
<1>6. CASE CreateLeaseFails
  BY <1>6 DEF CreateLeaseFails, EndRun, NoRun
<1>7. CASE PrepareReused
  BY <1>7 DEF PrepareReused
<1>8. CASE RefuseReuse
  BY <1>8 DEF RefuseReuse, EndRun, NoRun
<1>9. CASE RefuseExpired
  BY <1>9, RemoveLeasesDefault DEF RefuseExpired, Shape, EndRun, NoRun
<1>10. CASE RefuseMissing
  BY <1>10 DEF RefuseMissing, EndRun, NoRun
<1>11. CASE StartLeaseSync
  BY <1>11 DEF StartLeaseSync
<1>12. CASE StartSync
  BY <1>12 DEF StartSync, Shape
<1>13. CASE StartFreshSync
  BY <1>13, <1>1 DEF StartFreshSync, Shape, DiskTypeOK
<1>14. CASE ApplySync
  <2>1. CASE req.kind = "default"
    <3>1. Space = Default /\ ws[Default] # Gone
      BY <2>1, TreeFacts DEF Shape, Space, DiskTypeOK
    <3>2. ws'[Default] = Patch(ws[Default], base, req.tree)
      BY <1>14, <1>1, <3>1 DEF ApplySync, DiskTypeOK
    <3>3. stale = "no" => ws[Default] = base
      BY <1>14, <2>1 DEF ApplySync
    <3>4. stale = "no" => ws'[Default] = req.tree
      BY <3>2, <3>3, PatchFromBase DEF RunTypeOK, Requests
    <3> QED
      BY <1>14, <2>1, <3>4 DEF ApplySync
  <2>2. CASE req.kind # "default"
    BY <1>14, <1>1, <2>2 DEF ApplySync, DiskTypeOK, Shape, BeforeCommand
  <2> QED
    BY <2>1, <2>2
<1>15. CASE TrackManifest
  BY <1>15 DEF TrackManifest, Shape
<1>16. CASE ClearMarker
  BY <1>16 DEF ClearMarker, Shape
<1>17. CASE StartSetup
  BY <1>17 DEF StartSetup
<1>18. CASE SkipSetup
  BY <1>18 DEF SkipSetup
<1>19. CASE SaveSetup
  BY <1>19 DEF SaveSetup
<1>20. CASE SetupFails
  BY <1>20, <1>1 DEF SetupFails, DiskTypeOK, Shape, BeforeCommand, AfterCommandStart
<1>21. CASE RunCommand
  BY <1>21, <1>1 DEF RunCommand, DiskTypeOK, Shape, BeforeCommand, AfterCommandStart
<1>22. CASE ScanWorkspace
  BY <1>22 DEF ScanWorkspace, Shape, Space
<1>23. CASE SendChanges
  BY <1>23 DEF SendChanges
<1>24. CASE SavePostRun
  BY <1>24 DEF SavePostRun
<1>25. CASE SaveLeaseMeta
  BY <1>25 DEF SaveLeaseMeta
<1>26. CASE SaveLeaseManifest
  BY <1>26 DEF SaveLeaseManifest, Shape
<1>27. CASE MarkCleaned
  BY <1>27 DEF MarkCleaned
<1>28. CASE ForgetSetup
  BY <1>28 DEF ForgetSetup
<1>29. CASE CleanWorkspace
  BY <1>29 DEF CleanWorkspace, Shape
<1>30. CASE Finish
  BY <1>30 DEF Finish, EndRun, NoRun, NoRequest
<1>31. CASE FailBeforeCommand
  BY <1>31
  DEF FailBeforeCommand, EndRun, NoRun, NoRequest, BeforeCommand, StaleAfter, LeavesEdits,
      Shape
<1>32. CASE FailAfterCommandStart
  BY <1>32, <1>1
  DEF FailAfterCommandStart, EndRun, NoRun, NoRequest, StopCommand, AfterCommandStart,
      BeforeCommand, StaleAfter, LeavesEdits, Shape, DiskTypeOK
<1>33. CASE FailAndMarkDirtyFails
  BY <1>33, <1>1
  DEF FailAndMarkDirtyFails, EndRun, NoRun, NoRequest, StopCommand, AfterCommandStart,
      BeforeCommand, Shape, DiskTypeOK
<1>34. CASE Tick
  BY <1>34 DEF Tick
<1>35. CASE ListLoad
  BY <1>35 DEF ListLoad
<1>36. CASE ListCheck
  BY <1>36 DEF ListCheck
<1>37. CASE ListRemove
  BY <1>37, RemoveLeasesDefault DEF ListRemove, OthersTypeOK
<1>38. CASE RemoveContextBegin
  BY <1>38 DEF RemoveContextBegin
<1>39. CASE RemoveContext
  BY <1>39, <1>1 DEF RemoveContext, DiskTypeOK
<1>40. CASE Crash
  <2>1. CrashTrees(Default) = {ws[Default]}
          \/ stage \in {"clean", "remove"}
          \/ (req.kind = "default" /\ stage \in {"apply", "setup", "run"})
    BY <1>1, HalfRemovedType DEF CrashTrees, Shape, BeforeCommand, AfterCommandStart
  <2>2. ws'[Default] \in CrashTrees(Default)
    <3>1. PICK removed \in SUBSET HalfRemoved : Lose(removed \cup PrunedAtStart)
      BY <1>40 DEF Crash
    <3> QED
      BY <1>1, <3>1, HalfRemovedType, SpacesAssumption DEF Lose, PrunedAtStart, DiskTypeOK
  <2>3. stage' = "idle" /\ (stage # "remove" => tracked' = tracked /\ cleaned' = cleaned)
    BY <1>40 DEF Crash, NoRun
  <2>4. stale' = "no" =>
          /\ stage # "remove"
          /\ stale = "no"
          /\ ~LeavesEdits(TRUE)
    BY <1>40 DEF Crash, StaleAfter
  <2>5. stale' = "no" => cleaned \/ ws[Default] = tracked
    BY <2>4 DEF LeavesEdits, Shape, RunTypeOK, Stages
  <2>6. stale' = "no" /\ ~cleaned => CrashTrees(Default) = {ws[Default]}
    BY <2>1, <2>4 DEF LeavesEdits, Shape
  <2> QED
    BY <2>2, <2>3, <2>4, <2>5, <2>6
<1>41. ASSUME NEW t \in 0..now, CleanupExpired(t)
       PROVE  DefaultInv'
  BY <1>41, PrunableType, RemoveLeasesDefault DEF CleanupExpired
<1>42. ASSUME NEW l \in LeaseIds, DeleteBegin(l)
       PROVE  DefaultInv'
  BY <1>42 DEF DeleteBegin
<1>43. ASSUME NEW l \in LeaseIds, DeleteLease(l)
       PROVE  DefaultInv'
  BY <1>43, RemoveLeasesDefault DEF DeleteLease
<1>44. CASE UNCHANGED vars
  BY <1>44 DEF vars
<1> QED
  BY <1>2, <1>3, <1>4, <1>5, <1>6, <1>7, <1>8, <1>9, <1>10, <1>11, <1>12, <1>13, <1>14,
     <1>15, <1>16, <1>17, <1>18, <1>19, <1>20, <1>21, <1>22, <1>23, <1>24, <1>25, <1>26,
     <1>27, <1>28, <1>29, <1>30, <1>31, <1>32, <1>33, <1>34, <1>35, <1>36, <1>37, <1>38,
     <1>39, <1>40, <1>41, <1>42, <1>43, <1>44
  DEF Next, RunStep, OtherStep

-----------------------------------------------------------------------------
(* The leases *)

\* What makes CleanLeaseTrusted inductive: the lease of a run is dirty until its
\* finalisation, its files are those of the manifest the sync starts from, and
\* later those that the command left.
DirtyDuringRun ==
    stage \in BeforeCommand \cup {"setup", "run", "scan", "report", "save"}
        /\ req.kind # "default" /\ leaseMeta[req.lease] # None
        => leaseMeta[req.lease].dirty

RunLeaseInv ==
    req.kind # "default" =>
        /\ stage \in {"sync", "apply"} /\ req.lease \notin torn /\ ws[req.lease] # Gone
               => ws[req.lease] = base
        /\ stage = "ready" /\ req.lease \notin torn /\ ws[req.lease] # Gone
               => ws[req.lease] = req.tree
        /\ stage \in {"report", "save", "manifest"} /\ ws[req.lease] # Gone
               => post = ws[req.lease]

LeaseInv == CleanLeaseTrusted /\ DirtyDuringRun /\ RunLeaseInv

\* A new context has no lease,
LEMMA LeaseInit == Init => LeaseInv
BY DEF Init, LeaseInv, CleanLeaseTrusted, DirtyDuringRun, RunLeaseInv, BeforeCommand

\* Removing leases removes their metadata with their files.
LEMMA RemoveLeasesTrust ==
    ASSUME DiskTypeOK, CleanLeaseTrusted, NEW S, RemoveLeases(S),
           stage # "manifest" \/ UNCHANGED <<stage, req>>
    PROVE  CleanLeaseTrusted'
BY DEF CleanLeaseTrusted, RemoveLeases, DiskTypeOK, Spaces

\* A run may go on after its lease was removed: nothing is left to be wrong.
LEMMA RemoveLeasesRun ==
    ASSUME DiskTypeOK, Shape, LeaseInv, NEW S, RemoveLeases(S),
           UNCHANGED <<stage, req, base, post>>
    PROVE  LeaseInv'
<1>1. CleanLeaseTrusted'
  BY RemoveLeasesTrust DEF LeaseInv
<1>2. DirtyDuringRun'
  BY DEF LeaseInv, DirtyDuringRun, RemoveLeases, DiskTypeOK, Shape, AfterCommandStart
<1>3. RunLeaseInv'
  BY DEF LeaseInv, RunLeaseInv, RemoveLeases, DiskTypeOK, Shape, Spaces,
         BeforeCommand, AfterCommandStart
<1> QED
  BY <1>1, <1>2, <1>3 DEF LeaseInv

\* A lease that is saved dirty is not trusted; the others do not change.
LEMMA SaveDirtyTrust ==
    ASSUME DiskTypeOK, CleanLeaseTrusted, NEW l \in LeaseIds, NEW u, NEW t,
           SaveLease(l, TRUE, u, t),
           \A k \in LeaseIds \ {l} : ws'[k] = ws[k],
           torn' = torn, stage = "manifest" => req.lease = l
    PROVE  CleanLeaseTrusted'
BY DEF CleanLeaseTrusted, SaveLease, DiskTypeOK

\* and every step keeps the leases right: a run makes its lease dirty before it
\* changes a file, and clean when it has the manifest of the files.
LEMMA LeaseStep == TypeOK /\ Shape /\ LeaseInv /\ [Next]_vars => LeaseInv'
<1> SUFFICES ASSUME DiskTypeOK, RunTypeOK, OthersTypeOK, Shape, LeaseInv, [Next]_vars
             PROVE  LeaseInv'
  BY DEF TypeOK
<1>1. /\ LeaseIds \subseteq Spaces
      /\ Default \notin LeaseIds
      /\ req.kind # "default" /\ req.lease \in LeaseIds => Space = req.lease
      /\ req.kind = "default" => Space = Default
  BY SpacesAssumption DEF Spaces, Space, Shape
<1> USE DEF disk, leaseDisk, locals, runVars, others, history, LeaseInv,
            CleanLeaseTrusted, DirtyDuringRun, RunLeaseInv, BeforeCommand
<1>2. CASE Begin
  BY <1>2 DEF Begin
<1>3. CASE PrepareNew
  BY <1>3, PrunableType, RemoveLeasesTrust DEF PrepareNew
<1>4. CASE MakeLeaseDir
  BY <1>4 DEF MakeLeaseDir
<1>5. CASE CreateLease
  BY <1>5, <1>1, TreeFacts DEF CreateLease, SaveLease, DiskTypeOK, Shape
<1>6. CASE CreateLeaseFails
  BY <1>6 DEF CreateLeaseFails, EndRun, NoRun, NoRequest
<1>7. CASE PrepareReused
  BY <1>7, <1>1 DEF PrepareReused, SaveLease, DiskTypeOK, Shape
<1>8. CASE RefuseReuse
  BY <1>8 DEF RefuseReuse, EndRun, NoRun, NoRequest
<1>9. CASE RefuseExpired
  BY <1>9, RemoveLeasesTrust DEF RefuseExpired, EndRun, NoRun, NoRequest
<1>10. CASE RefuseMissing
  BY <1>10 DEF RefuseMissing, SaveLease, DiskTypeOK, Shape, EndRun, NoRun, NoRequest
<1>11. CASE StartLeaseSync
  BY <1>11 DEF StartLeaseSync
<1>12. CASE StartSync
  BY <1>12, <1>1 DEF StartSync, Shape, DiskTypeOK
<1>13. CASE StartFreshSync
  BY <1>13, <1>1 DEF StartFreshSync, Shape, DiskTypeOK
<1>14. CASE ApplySync
  <2>1. CASE req.kind = "default"
    BY <1>14, <1>1, <2>1 DEF ApplySync, DiskTypeOK
  <2>2. CASE req.kind # "default"
    <3>1. req.lease \in LeaseIds /\ Space = req.lease /\ req.tree \in Trees
      BY <1>14, <1>1, <2>2 DEF ApplySync, Shape, RunTypeOK, Requests
    <3>2. req.lease \notin torn /\ ws'[req.lease] # Gone => ws'[req.lease] = req.tree
      BY <1>14, <1>1, <2>2, <3>1, PatchFromBase DEF ApplySync, DiskTypeOK, RunTypeOK
    <3>3. \A l \in LeaseIds \ {req.lease} : ws'[l] = ws[l]
      BY <1>14, <1>1, <3>1 DEF ApplySync, DiskTypeOK
    <3> QED
      BY <1>14, <2>2, <3>1, <3>2, <3>3 DEF ApplySync
  <2> QED
    BY <2>1, <2>2
<1>15. CASE TrackManifest
  BY <1>15 DEF TrackManifest, Shape
<1>16. CASE ClearMarker
  BY <1>16 DEF ClearMarker, Shape
<1>17. CASE StartSetup
  BY <1>17 DEF StartSetup
<1>18. CASE SkipSetup
  BY <1>18 DEF SkipSetup
<1>19. CASE SaveSetup
  BY <1>19 DEF SaveSetup
<1>20. CASE SetupFails
  BY <1>20, <1>1 DEF SetupFails, DiskTypeOK, Shape, AfterCommandStart
<1>21. CASE RunCommand
  BY <1>21, <1>1 DEF RunCommand, DiskTypeOK, Shape, AfterCommandStart
<1>22. CASE ScanWorkspace
  BY <1>22, <1>1 DEF ScanWorkspace, Shape, AfterCommandStart
<1>23. CASE SendChanges
  BY <1>23 DEF SendChanges
<1>24. CASE SavePostRun
  BY <1>24, <1>1 DEF SavePostRun, Shape
<1>25. CASE SaveLeaseMeta
  BY <1>25 DEF SaveLeaseMeta, SaveLease, DiskTypeOK, Shape, AfterCommandStart
<1>26. CASE SaveLeaseManifest
  BY <1>26, <1>1 DEF SaveLeaseManifest, DiskTypeOK, Shape, AfterCommandStart
<1>27. CASE MarkCleaned
  BY <1>27 DEF MarkCleaned, Shape
<1>28. CASE ForgetSetup
  BY <1>28 DEF ForgetSetup, Shape
<1>29. CASE CleanWorkspace
  BY <1>29, <1>1 DEF CleanWorkspace, Shape, DiskTypeOK
<1>30. CASE Finish
  BY <1>30 DEF Finish, EndRun, NoRun, NoRequest
<1>31. CASE FailBeforeCommand
  BY <1>31 DEF FailBeforeCommand, EndRun, NoRun, NoRequest
<1>32. CASE FailAfterCommandStart
  <2>1. \A l \in LeaseIds \ {req.lease} : ws'[l] = ws[l]
    BY <1>32, <1>1
    DEF FailAfterCommandStart, StopCommand, DiskTypeOK, Shape, AfterCommandStart
  <2>2. stage' = "idle" /\ req' = NoRequest
    BY <1>32 DEF FailAfterCommandStart, EndRun, NoRun
  <2>3. CASE req.lease = None
    BY <1>32, <2>1, <2>2, <2>3, SpacesAssumption
    DEF FailAfterCommandStart, NoRequest, Shape, AfterCommandStart
  <2>4. CASE req.lease # None
    <3>1. req.lease \in LeaseIds
      BY <2>4 DEF RunTypeOK, Requests
    <3>2. CleanLeaseTrusted'
      BY <1>32, <2>1, <2>4, <3>1, SaveDirtyTrust DEF FailAfterCommandStart
    <3> QED
      BY <2>2, <3>2 DEF NoRequest
  <2> QED
    BY <2>3, <2>4
<1>33. CASE FailAndMarkDirtyFails
  BY <1>33, <1>1
  DEF FailAndMarkDirtyFails, EndRun, NoRun, NoRequest, StopCommand, AfterCommandStart,
      Shape, DiskTypeOK, CommandTrees
<1>34. CASE Tick
  BY <1>34 DEF Tick
<1>35. CASE ListLoad
  BY <1>35 DEF ListLoad
<1>36. CASE ListCheck
  BY <1>36 DEF ListCheck
<1>37. CASE ListRemove
  BY <1>37, RemoveLeasesRun DEF ListRemove
<1>38. CASE RemoveContextBegin
  BY <1>38 DEF RemoveContextBegin, Shape, NoRequest
<1>39. CASE RemoveContext
  BY <1>39 DEF RemoveContext, DiskTypeOK, Shape, NoRequest
<1>40. CASE Crash
  <2>1. PICK removed \in SUBSET HalfRemoved : Lose(removed \cup PrunedAtStart)
    BY <1>40 DEF Crash
  <2>2. stage' = "idle" /\ req' = NoRequest
    BY <1>40 DEF Crash, NoRun
  <2>3. SUFFICES ASSUME NEW l \in LeaseIds \ torn', leaseMeta'[l] # None,
                        ~leaseMeta'[l].dirty, ws'[l] # Gone
                 PROVE  leaseTree'[l] = ws'[l]
    BY <2>2 DEF NoRequest
  <2>4. /\ l \notin removed \cup PrunedAtStart
        /\ leaseMeta'[l] = leaseMeta[l]
        /\ leaseTree'[l] = leaseTree[l]
        /\ ws'[l] \in CrashTrees(l)
    BY <1>1, <2>1, <2>3 DEF Lose
  <2>5. l \notin HalfRemoved /\ l \notin torn /\ ~(stage = "manifest" /\ req.lease = l)
    BY <2>1, <2>3, <2>4 DEF Lose
  <2>6. ws'[l] = ws[l]
    BY <1>1, <2>3, <2>4, <2>5 DEF CrashTrees, Shape, AfterCommandStart
  <2> QED
    BY <2>3, <2>4, <2>5, <2>6
<1>41. ASSUME NEW t \in 0..now, CleanupExpired(t)
       PROVE  LeaseInv'
  BY <1>41, RemoveLeasesRun DEF CleanupExpired
<1>42. ASSUME NEW l \in LeaseIds, DeleteBegin(l)
       PROVE  LeaseInv'
  BY <1>42 DEF DeleteBegin
<1>43. ASSUME NEW l \in LeaseIds, DeleteLease(l)
       PROVE  LeaseInv'
  BY <1>43, RemoveLeasesRun DEF DeleteLease
<1>44. CASE UNCHANGED vars
  BY <1>44 DEF vars
<1> QED
  BY <1>2, <1>3, <1>4, <1>5, <1>6, <1>7, <1>8, <1>9, <1>10, <1>11, <1>12, <1>13, <1>14,
     <1>15, <1>16, <1>17, <1>18, <1>19, <1>20, <1>21, <1>22, <1>23, <1>24, <1>25, <1>26,
     <1>27, <1>28, <1>29, <1>30, <1>31, <1>32, <1>33, <1>34, <1>35, <1>36, <1>37, <1>38,
     <1>39, <1>40, <1>41, <1>42, <1>43, <1>44
  DEF Next, RunStep, OtherStep

-----------------------------------------------------------------------------
(* What the invariants give *)

\* For every number of leases, paths and contents, and whatever runs, failures
\* and crashes went before: a default workspace that is announced as ready holds
\* the client's files unless a run was cut off between its sync and its cleanup.
THEOREM DefaultWorkspaceCorrect == Spec => []DefaultSeesClientTree
<1>1. Init => TypeOK /\ Shape /\ DefaultInv
  BY InitType, DefaultInit
<1>2. TypeOK /\ Shape /\ DefaultInv /\ [Next]_vars => (TypeOK /\ Shape /\ DefaultInv)'
  BY TypeStep, DefaultStep
<1>3. DefaultInv => DefaultSeesClientTree
  BY DEF DefaultInv, SyncInv, DefaultSeesClientTree
<1> QED
  BY <1>1, <1>2, <1>3, PTL DEF Spec

\* The manifest of a lease that can be reused describes its files, unless its
\* finalisation or its removal was cut in two.
THEOREM LeaseManifestCorrect == Spec => []CleanLeaseTrusted
<1>1. Init => TypeOK /\ Shape /\ LeaseInv
  BY InitType, LeaseInit
<1>2. TypeOK /\ Shape /\ LeaseInv /\ [Next]_vars => (TypeOK /\ Shape /\ LeaseInv)'
  BY TypeStep, LeaseStep
<1>3. LeaseInv => CleanLeaseTrusted
  BY DEF LeaseInv
<1> QED
  BY <1>1, <1>2, <1>3, PTL DEF Spec

\* A reused lease to which the client's changes were applied holds the client's
\* files.
THEOREM LeaseWorkspaceCorrect == Spec => []LeaseSeesClientTree
<1>1. Init => TypeOK /\ Shape /\ LeaseInv
  BY InitType, LeaseInit
<1>2. TypeOK /\ Shape /\ LeaseInv /\ [Next]_vars => (TypeOK /\ Shape /\ LeaseInv)'
  BY TypeStep, LeaseStep
<1>3. Shape /\ LeaseInv => LeaseSeesClientTree
  BY SpacesAssumption
  DEF Shape, LeaseInv, RunLeaseInv, LeaseSeesClientTree, Space, BeforeCommand
<1> QED
  BY <1>1, <1>2, <1>3, PTL DEF Spec

-----------------------------------------------------------------------------
(* Without list requests, whose pruning does not take the context's mutex *)

\* The lease of a run is active and has a workspace, a lease that is being
\* deleted is not active, and clocks were read in the past.
ActiveInv ==
    /\ lister.at = "idle"
    /\ req.at <= now
    /\ deleting \cap active = {}
    /\ deleting \subseteq used
    /\ stage \in {"mkdir", "create"} \cup BeforeCommand \cup AfterCommandStart
           => req.lease = None \/ req.lease \in active
    /\ ActiveLeaseKept

\* No lease is active at first,
LEMMA ActiveInit == Init => ActiveInv
BY DEF Init, ActiveInv, ActiveLeaseKept, NoRequest, BeforeCommand, AfterCommandStart

\* Ending a run makes fewer leases active.
LEMMA EndRunActive ==
    ASSUME ActiveInv, OthersTypeOK, EndRun, UNCHANGED others
    PROVE  ActiveInv'
BY DEF ActiveInv, ActiveLeaseKept, EndRun, NoRun, NoRequest, others, OthersTypeOK, Times,
       BeforeCommand, AfterCommandStart

\* and every step keeps the active leases.
LEMMA ActiveStep ==
    ASSUME "list" \notin Env
    PROVE  TypeOK /\ Shape /\ ActiveInv /\ [Next]_vars => ActiveInv'
<1> SUFFICES ASSUME DiskTypeOK, RunTypeOK, OthersTypeOK, Shape, ActiveInv, [Next]_vars
             PROVE  ActiveInv'
  BY DEF TypeOK
<1>1. Space \in Spaces /\ Default \in Spaces /\ ws[Default] # Gone
  BY SpaceType, TreeFacts DEF Spaces, DiskTypeOK
<1> USE DEF disk, leaseDisk, locals, runVars, others, history, ActiveInv,
            ActiveLeaseKept, BeforeCommand, AfterCommandStart
<1>2. CASE Begin
  BY <1>2, <1>1 DEF Begin, Space, OthersTypeOK, Times
<1>3. CASE PrepareNew
  BY <1>3 DEF PrepareNew, OthersTypeOK
<1>4. CASE MakeLeaseDir
  BY <1>4 DEF MakeLeaseDir
<1>5. CASE CreateLease
  BY <1>5, TreeFacts DEF CreateLease, Space, DiskTypeOK, Shape, Spaces
<1>6. CASE CreateLeaseFails
  BY <1>6, EndRunActive DEF CreateLeaseFails
<1>7. CASE PrepareReused
  BY <1>7, SpacesAssumption DEF PrepareReused, Space, Shape
<1>8. CASE RefuseReuse
  BY <1>8, EndRunActive DEF RefuseReuse
<1>9. CASE RefuseExpired
  BY <1>9, EndRunActive DEF RefuseExpired
<1>10. CASE RefuseMissing
  BY <1>10, EndRunActive DEF RefuseMissing
<1>11. CASE StartLeaseSync
  BY <1>11 DEF StartLeaseSync, Space
<1>12. CASE StartSync
  BY <1>12 DEF StartSync, Space
<1>13. CASE StartFreshSync
  BY <1>13, TreeFacts, <1>1 DEF StartFreshSync, Space, DiskTypeOK, Shape
<1>14. CASE ApplySync
  <2>1. ws[Space] # Gone
    BY <1>14 DEF ApplySync
  <2>2. Patch(ws[Space], base, req.tree) # Gone
    BY <1>1, <2>1, PatchType, TreeFacts DEF DiskTypeOK, RunTypeOK, Requests
  <2>3. ws'[Space] # Gone
    BY <1>14, <1>1, <2>1, <2>2 DEF ApplySync, DiskTypeOK
  <2> QED
    BY <1>14, <2>3 DEF ApplySync, Space
<1>15. CASE TrackManifest
  BY <1>15 DEF TrackManifest, Space
<1>16. CASE ClearMarker
  BY <1>16 DEF ClearMarker, Space
<1>17. CASE StartSetup
  BY <1>17 DEF StartSetup, Space
<1>18. CASE SkipSetup
  BY <1>18 DEF SkipSetup, Space
<1>19. CASE SaveSetup
  BY <1>19 DEF SaveSetup, Space
<1>20. CASE SetupFails
  BY <1>20, <1>1, TreeFacts DEF SetupFails, CommandTrees, DiskTypeOK, Space
<1>21. CASE RunCommand
  BY <1>21, <1>1, TreeFacts DEF RunCommand, CommandTrees, DiskTypeOK, Space
<1>22. CASE ScanWorkspace
  BY <1>22 DEF ScanWorkspace, Space
<1>23. CASE SendChanges
  BY <1>23 DEF SendChanges, Space
<1>24. CASE SavePostRun
  BY <1>24 DEF SavePostRun, Space
<1>25. CASE SaveLeaseMeta
  BY <1>25 DEF SaveLeaseMeta, Space
<1>26. CASE SaveLeaseManifest
  BY <1>26 DEF SaveLeaseManifest, Space
<1>27. CASE MarkCleaned
  BY <1>27 DEF MarkCleaned, Space
<1>28. CASE ForgetSetup
  BY <1>28 DEF ForgetSetup, Space
<1>29. CASE CleanWorkspace
  BY <1>29, <1>1, TreeFacts DEF CleanWorkspace, Space, Shape, DiskTypeOK
<1>30. CASE Finish
  BY <1>30, EndRunActive DEF Finish
<1>31. CASE FailBeforeCommand
  BY <1>31, EndRunActive DEF FailBeforeCommand
<1>32. CASE FailAfterCommandStart
  BY <1>32, EndRunActive DEF FailAfterCommandStart
<1>33. CASE FailAndMarkDirtyFails
  BY <1>33, EndRunActive DEF FailAndMarkDirtyFails
<1>34. CASE Tick
  BY <1>34 DEF Tick, Space, OthersTypeOK, RunTypeOK, Requests, Times
<1>35. CASE ListLoad
  BY <1>35 DEF ListLoad
<1>36. CASE ListCheck
  BY <1>36 DEF ListCheck
<1>37. CASE ListRemove
  BY <1>37 DEF ListRemove
<1>38. CASE RemoveContextBegin
  BY <1>38 DEF RemoveContextBegin
<1>39. CASE RemoveContext
  BY <1>39 DEF RemoveContext
<1>40. CASE Crash
  BY <1>40 DEF Crash, NoRun, NoRequest, OthersTypeOK, Times
<1>41. ASSUME NEW t \in 0..now, CleanupExpired(t)
       PROVE  ActiveInv'
  BY <1>41 DEF CleanupExpired
<1>42. ASSUME NEW l \in LeaseIds, DeleteBegin(l)
       PROVE  ActiveInv'
  BY <1>42 DEF DeleteBegin, Space
<1>43. ASSUME NEW l \in LeaseIds, DeleteLease(l)
       PROVE  ActiveInv'
  <2>1. stage \in BeforeCommand \cup AfterCommandStart => Space # l
    BY <1>43, SpacesAssumption DEF DeleteLease, Space
  <2>2. stage \in BeforeCommand \cup AfterCommandStart => ws'[Space] = ws[Space]
    BY <1>43, <1>1, <2>1 DEF DeleteLease, RemoveLeases
  <2> QED
    BY <1>43, <2>2 DEF DeleteLease, Space
<1>44. CASE UNCHANGED vars
  BY <1>44 DEF vars, Space
<1> QED
  BY <1>2, <1>3, <1>4, <1>5, <1>6, <1>7, <1>8, <1>9, <1>10, <1>11, <1>12, <1>13, <1>14,
     <1>15, <1>16, <1>17, <1>18, <1>19, <1>20, <1>21, <1>22, <1>23, <1>24, <1>25, <1>26,
     <1>27, <1>28, <1>29, <1>30, <1>31, <1>32, <1>33, <1>34, <1>35, <1>36, <1>37, <1>38,
     <1>39, <1>40, <1>41, <1>42, <1>43, <1>44
  DEF Next, RunStep, OtherStep

\* No delete, prune, failure or crash takes the workspace away from a run.
THEOREM ActiveLeaseSafe ==
    ASSUME "list" \notin Env
    PROVE  Spec => []ActiveLeaseKept
<1>1. Init => TypeOK /\ Shape /\ ActiveInv
  BY InitType, ActiveInit
<1>2. TypeOK /\ Shape /\ ActiveInv /\ [Next]_vars => (TypeOK /\ Shape /\ ActiveInv)'
  BY TypeStep, ActiveStep
<1>3. ActiveInv => ActiveLeaseKept
  BY DEF ActiveInv
<1> QED
  BY <1>1, <1>2, <1>3, PTL DEF Spec

\* A lease disappears only when its time is over, on request, or with its
\* context: never while a run renews it.
KeptUnlessDue(l) ==
    leaseMeta[l] # None /\ leaseMeta'[l] = None
        => leaseMeta[l].expires <= now \/ l \in deleting \/ stage = "remove"

\* Pruning with a time that was read in the past removes leases whose time is
\* over.
LEMMA PruneIsDue ==
    ASSUME DiskTypeOK, OthersTypeOK, NEW t \in Nat, t <= now, NEW l \in LeaseIds,
           RemoveLeases(Prunable(t))
    PROVE  KeptUnlessDue(l)
<1> SUFFICES ASSUME leaseMeta[l] # None, leaseMeta'[l] = None
             PROVE  leaseMeta[l].expires <= now
  BY DEF KeptUnlessDue
<1>1. l \in Prunable(t)
  BY DEF RemoveLeases
<1>2. leaseMeta[l].expires <= t /\ leaseMeta[l].expires \in Nat /\ now \in Nat
  BY <1>1 DEF Prunable, Expired, DiskTypeOK, OthersTypeOK, Metas, Expiries, Times
<1> QED
  BY <1>2

\* Expiry times are bounded by the clock and the duration of --keep-workspace.
LEMMA ExpiryTypes ==
    ASSUME DiskTypeOK, RunTypeOK, OthersTypeOK, Shape
    PROVE  /\ NewExpiry \in Expiries
           /\ req.at + Keep \in Expiries
           /\ req.kind = "reuse" /\ leaseMeta[req.lease] # None
                  => leaseMeta[req.lease].expires \in Expiries
BY TimeAssumption
DEF DiskTypeOK, RunTypeOK, OthersTypeOK, Shape, NewExpiry, Requests, Metas, Times, Expiries

\* No other step removes a lease that is not due.
LEMMA DueStep ==
    ASSUME "list" \notin Env, TypeOK, Shape, ActiveInv, [Next]_vars, NEW l \in LeaseIds
    PROVE  KeptUnlessDue(l)
<1>1. DiskTypeOK /\ RunTypeOK /\ OthersTypeOK
  BY DEF TypeOK
<1>2. req.at \in Nat /\ req.at <= now /\ lister.at = "idle"
  BY <1>1 DEF RunTypeOK, Requests, Times, ActiveInv
<1>3. CASE UNCHANGED leaseMeta
  BY <1>3 DEF KeptUnlessDue
<1>4. ASSUME NEW k, NEW d \in BOOLEAN, NEW u \in Expiries, NEW t, SaveLease(k, d, u, t)
      PROVE  KeptUnlessDue(l)
  BY <1>1, <1>4, NoneAssumption DEF KeptUnlessDue, SaveLease, DiskTypeOK, Metas, Expiries
<1>5. CASE PrepareNew
  BY <1>1, <1>2, <1>5, PruneIsDue DEF PrepareNew
<1>6. ASSUME NEW t \in 0..now, CleanupExpired(t)
      PROVE  KeptUnlessDue(l)
  <2>1. t \in Nat /\ t <= now
    BY <1>1 DEF OthersTypeOK, Times
  <2> QED
    BY <1>1, <1>6, <2>1, PruneIsDue DEF CleanupExpired
<1>7. CASE RefuseExpired
  BY <1>1, <1>2, <1>7
  DEF RefuseExpired, RemoveLeases, Expired, KeptUnlessDue, DiskTypeOK, OthersTypeOK,
      Metas, Expiries, Times
<1>8. ASSUME NEW k \in LeaseIds, DeleteLease(k)
      PROVE  KeptUnlessDue(l)
  BY <1>8 DEF DeleteLease, RemoveLeases, KeptUnlessDue
<1>9. CASE RemoveContext
  BY <1>9 DEF RemoveContext, KeptUnlessDue
<1>10. CASE Crash
  <2>1. PICK removed \in SUBSET HalfRemoved : Lose(removed \cup PrunedAtStart)
    BY <1>10 DEF Crash
  <2> QED
    BY <1>2, <2>1 DEF Lose, HalfRemoved, PrunedAtStart, Expired, KeptUnlessDue
<1>11. CASE CreateLease \/ SaveLeaseMeta
  BY <1>1, <1>4, <1>11, ExpiryTypes DEF CreateLease, SaveLeaseMeta, RunTypeOK
<1>12. CASE PrepareReused \/ RefuseMissing
  BY <1>1, <1>4, <1>12, ExpiryTypes DEF PrepareReused, RefuseMissing
<1>13. CASE FailAfterCommandStart
  BY <1>1, <1>3, <1>4, <1>13, ExpiryTypes DEF FailAfterCommandStart, leaseDisk, RunTypeOK
<1>14. CASE Begin \/ MakeLeaseDir \/ CreateLeaseFails \/ RefuseReuse \/ StartLeaseSync
            \/ StartSync \/ StartFreshSync \/ ApplySync \/ TrackManifest \/ ClearMarker
  BY <1>3, <1>14
  DEF Begin, MakeLeaseDir, CreateLeaseFails, RefuseReuse, StartLeaseSync, StartSync,
      StartFreshSync, ApplySync, TrackManifest, ClearMarker, disk, leaseDisk
<1>15. CASE StartSetup \/ SkipSetup \/ SaveSetup \/ SetupFails \/ RunCommand
            \/ ScanWorkspace \/ SendChanges \/ SavePostRun \/ SaveLeaseManifest
            \/ MarkCleaned \/ ForgetSetup \/ CleanWorkspace \/ Finish
  BY <1>3, <1>15
  DEF StartSetup, SkipSetup, SaveSetup, SetupFails, RunCommand, ScanWorkspace,
      SendChanges, SavePostRun, SaveLeaseManifest, MarkCleaned, ForgetSetup,
      CleanWorkspace, Finish, disk, leaseDisk
<1>16. CASE FailBeforeCommand \/ FailAndMarkDirtyFails \/ Tick \/ ListLoad \/ ListCheck
            \/ RemoveContextBegin
  BY <1>3, <1>16
  DEF FailBeforeCommand, FailAndMarkDirtyFails, Tick, ListLoad, ListCheck,
      RemoveContextBegin, disk, leaseDisk
<1>17. ASSUME NEW k \in LeaseIds, DeleteBegin(k)
       PROVE  KeptUnlessDue(l)
  BY <1>3, <1>17 DEF DeleteBegin, disk
<1>18. CASE ListRemove
  BY <1>2, <1>18 DEF ListRemove
<1>19. CASE UNCHANGED vars
  BY <1>3, <1>19 DEF vars, disk
<1> QED
  BY <1>5, <1>6, <1>7, <1>8, <1>9, <1>10, <1>11, <1>13, <1>14, <1>15, <1>16, <1>17,
     <1>18, <1>19, <1>12
  DEF Next, RunStep, OtherStep

\* Without list requests, no lease is removed before its time.
THEOREM UnexpiredLeaseSafe ==
    ASSUME "list" \notin Env
    PROVE  Spec => UnexpiredLeaseKept
<1>1. Init => TypeOK /\ Shape /\ ActiveInv
  BY InitType, ActiveInit
<1>2. TypeOK /\ Shape /\ ActiveInv /\ [Next]_vars => (TypeOK /\ Shape /\ ActiveInv)'
  BY TypeStep, ActiveStep
<1>3. TypeOK /\ Shape /\ ActiveInv /\ [Next]_vars
          => [\A l \in LeaseIds :
                leaseMeta[l] # None /\ leaseMeta'[l] = None
                    => \/ leaseMeta[l].expires <= now
                       \/ l \in deleting
                       \/ stage = "remove"]_vars
  BY DueStep DEF KeptUnlessDue
<1> QED
  BY <1>1, <1>2, <1>3, PTL DEF Spec, UnexpiredLeaseKept

-----------------------------------------------------------------------------
(* The setup of a default workspace *)

\* A stored key is that of a setup which the default workspace has had, or the next
\* sync empties the workspace and forgets the key; the key is gone before the files are.
SetupInv ==
    /\ req.kind = "default"
    /\ stale # "remove" /\ setupKey # None =>
          \/ outputs[Default] # None
          \/ cleaned /\ stage \notin {"apply", "track", "unmark", "ready", "setup", "run"}
    /\ stage = "setup" => outputs[Default] # None
    /\ stage = "clean" => setupKey = None
    /\ stage = "run" /\ req.setup /\ stale # "remove" => outputs[Default] # None

\* No setup has run in a new context.
LEMMA SetupInit == Init => SetupInv
BY DEF Init, SetupInv, NoRequest

\* No removal of leases touches the outputs of the default workspace.
LEMMA RemoveLeasesOutputs ==
    ASSUME DiskTypeOK, NEW S, S \subseteq LeaseIds \cup {None}, RemoveLeases(S)
    PROVE  outputs'[Default] = outputs[Default]
BY SpacesAssumption DEF DiskTypeOK, RemoveLeases, Spaces

\* A stop at any step leaves a key only with its outputs or with the marker.
LEMMA SetupStep ==
    ASSUME Kinds \subseteq {"default"}
    PROVE  TypeOK /\ Shape /\ SetupInv /\ [Next]_vars => SetupInv'
<1> SUFFICES ASSUME DiskTypeOK, RunTypeOK, OthersTypeOK, Shape, SetupInv, [Next]_vars
             PROVE  SetupInv'
  BY DEF TypeOK
<1>1. Default \in Spaces /\ Space = Default
  BY DEF Spaces, Space, Shape, SetupInv
<1>2. /\ None # Partial /\ ws[Default] \in Trees /\ ws[Default] # Gone
      /\ \A t \in Trees : SetupKeyOf(t) # None
      /\ outputs \in [Spaces -> Keys \cup {None, Partial}]
  BY KeyType, SetupAssumption, TreeFacts DEF Keys, DiskTypeOK
<1> USE DEF disk, leaseDisk, locals, runVars, others, history, SetupInv
<1>3. CASE Begin
  BY <1>3 DEF Begin
<1>4. CASE \/ PrepareNew \/ MakeLeaseDir \/ CreateLease \/ CreateLeaseFails \/ PrepareReused
           \/ RefuseReuse \/ RefuseExpired \/ RefuseMissing \/ StartLeaseSync \/ SaveLeaseMeta
           \/ SaveLeaseManifest \/ FailAndMarkDirtyFails
  BY <1>4
  DEF Shape, PrepareNew, MakeLeaseDir, CreateLease, CreateLeaseFails, PrepareReused, RefuseReuse,
      RefuseExpired, RefuseMissing, StartLeaseSync, SaveLeaseMeta, SaveLeaseManifest,
      FailAndMarkDirtyFails
<1>5. CASE StartSync
  BY <1>5 DEF StartSync
<1>6. CASE StartFreshSync
  BY <1>6 DEF StartFreshSync
<1>7. CASE ApplySync
  BY <1>7 DEF ApplySync
<1>8. CASE TrackManifest
  BY <1>8 DEF TrackManifest
<1>9. CASE ClearMarker
  BY <1>9 DEF ClearMarker
<1>10. CASE StartSetup
  BY <1>1, <1>2, <1>10 DEF StartSetup
<1>11. CASE SkipSetup
  <2>1. req.setup => setupKey # None
    BY <1>1, <1>2, <1>11 DEF SkipSetup, SetupNeeded
  <2> QED
    BY <1>11, <2>1 DEF SkipSetup
<1>12. CASE SaveSetup
  BY <1>1, <1>2, <1>12 DEF SaveSetup
<1>13. CASE SetupFails
  BY <1>13 DEF SetupFails
<1>14. CASE RunCommand
  BY <1>14 DEF RunCommand
<1>15. CASE ScanWorkspace \/ SendChanges \/ SavePostRun
  BY <1>15 DEF ScanWorkspace, SendChanges, SavePostRun
<1>16. CASE MarkCleaned
  BY <1>16 DEF MarkCleaned
<1>17. CASE ForgetSetup
  BY <1>17 DEF ForgetSetup
<1>18. CASE CleanWorkspace
  BY <1>18 DEF CleanWorkspace
<1>19. CASE Finish
  BY <1>19 DEF Finish, EndRun, NoRun, NoRequest
<1>20. CASE FailBeforeCommand
  BY <1>20 DEF FailBeforeCommand, EndRun, NoRun, NoRequest, StaleAfter
<1>21. CASE FailAfterCommandStart
  BY <1>21 DEF FailAfterCommandStart, EndRun, NoRun, NoRequest, StaleAfter
<1>22. CASE Tick \/ ListLoad \/ ListCheck
  BY <1>22 DEF Tick, ListLoad, ListCheck
<1>23. CASE ListRemove
  BY <1>23, RemoveLeasesOutputs DEF ListRemove, OthersTypeOK
<1>24. CASE RemoveContextBegin
  BY <1>24 DEF RemoveContextBegin, Shape, NoRequest
<1>25. CASE RemoveContext
  BY <1>25 DEF RemoveContext
<1>26. CASE Crash
  <2>1. PICK removed \in SUBSET HalfRemoved : Lose(removed \cup PrunedAtStart)
    BY <1>26 DEF Crash
  <2>2. Default \notin removed \cup PrunedAtStart
    BY HalfRemovedType, SpacesAssumption DEF PrunedAtStart, DiskTypeOK
  <2>3. stage \notin {"clean", "remove"} => outputs'[Default] = outputs[Default]
    BY <1>1, <2>1, <2>2 DEF Lose
  <2>4. /\ stage' = "idle" /\ req'.kind = "default"
        /\ stage = "remove" => stale' = "remove"
        /\ stage # "remove" => UNCHANGED <<setupKey, cleaned>>
        /\ stage # "remove" /\ stale = "remove" => stale' = "remove"
    BY <1>26 DEF Crash, NoRun, NoRequest, StaleAfter
  <2> QED
    BY <2>3, <2>4
<1>27. ASSUME NEW t \in 0..now, CleanupExpired(t)
       PROVE  SetupInv'
  BY <1>27, PrunableType, RemoveLeasesOutputs DEF CleanupExpired
<1>28. ASSUME NEW l \in LeaseIds, DeleteBegin(l)
       PROVE  SetupInv'
  BY <1>28 DEF DeleteBegin
<1>29. ASSUME NEW l \in LeaseIds, DeleteLease(l)
       PROVE  SetupInv'
  BY <1>29, RemoveLeasesOutputs DEF DeleteLease
<1>30. CASE UNCHANGED vars
  BY <1>30 DEF vars
<1> QED
  BY <1>3, <1>4, <1>5, <1>6, <1>7, <1>8, <1>9, <1>10, <1>11, <1>12, <1>13, <1>14, <1>15, <1>16,
     <1>17, <1>18, <1>19, <1>20, <1>21, <1>22, <1>23, <1>24, <1>25, <1>26, <1>27, <1>28, <1>29,
     <1>30
  DEF Next, RunStep, OtherStep

\* When context setup is skipped because its key is stored (prepareOCIContextSetup), the
\* default workspace has had that setup, whatever failed or crashed before.  Leases share
\* the key of their context, so this is about contexts without leases.
THEOREM SetupNotSkippedWrongly ==
    ASSUME Kinds \subseteq {"default"}
    PROVE  Spec => []SetupRanInWorkspace
<1>1. Init => TypeOK /\ Shape /\ SetupInv
  BY InitType, SetupInit
<1>2. TypeOK /\ Shape /\ SetupInv /\ [Next]_vars => (TypeOK /\ Shape /\ SetupInv)'
  BY TypeStep, SetupStep
<1>3. Shape /\ SetupInv => SetupRanInWorkspace
  BY DEF Shape, SetupInv, SetupRanInWorkspace, Space
<1> QED
  BY <1>1, <1>2, <1>3, PTL DEF Spec

=============================================================================
