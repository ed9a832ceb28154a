---------------------------- MODULE RunWorkspace ----------------------------
(***************************************************************************)
(* The workspaces of one context on the host, and the run requests that    *)
(* use them (internal/host: server.go, context_store.go,                   *)
(* workspace_lease.go).                                                    *)
(*                                                                         *)
(* A run holds the context's mutex from acquireContext to its deferred     *)
(* release, so one run at a time is in progress: stage says where          *)
(* handleRunRequest is, "idle" meaning that the mutex is free.  A run works*)
(* in the context's default workspace, or in a workspace lease that it     *)
(* creates (--keep-workspace) or reuses (--reuse-workspace).  Requests to  *)
(* list and to delete leases do not take the mutex and interleave with the *)
(* run.  A run may fail at every step (its client disconnects, a write     *)
(* fails) and the host may crash at every step: only what is on disk       *)
(* survives.                                                               *)
(***************************************************************************)
EXTENDS Naturals, Manifest

CONSTANTS LeaseIds,     \* lease ids that newWorkspaceLeaseID may draw
          Default,      \* the context's default workspace
          None,         \* no lease, no file, no key
          Gone,         \* a workspace directory that does not exist
          Partial,      \* the outputs of a setup that has not ended
          SetupInput,   \* the path named by setup.context_inputs
          Kinds,        \* the kinds of run that clients request
          Env,          \* which of the other actors are present
          Keep,         \* the duration of --keep-workspace
          MaxTime,      \* bound on the clock
          MaxCrashes    \* bound on the crashes of the host

ASSUME KindsAssumption == Kinds \subseteq {"default", "keep", "reuse"}
ASSUME EnvAssumption ==
    Env \subseteq {"list", "delete", "remove", "cleanup", "crash", "setup"}
ASSUME TimeAssumption ==
    Keep \in Nat \ {0} /\ MaxTime \in Nat /\ MaxCrashes \in Nat
ASSUME SpacesAssumption ==
    Default \notin LeaseIds /\ None \notin LeaseIds /\ Default # None
ASSUME NoneAssumption ==
    None \notin [dirty : BOOLEAN, expires : 0..(MaxTime + Keep)]
ASSUME SetupAssumption ==
    /\ SetupInput \in Paths
    /\ None \notin Hashes \cup {NoFile, Partial}
    /\ Partial \notin Hashes \cup {NoFile}
ASSUME GoneAssumption == Gone \notin Trees

VARIABLES
    \* files of the context
    ws,          \* the files of each workspace
    tracked,     \* manifest.json: the tracked manifest
    cleaned,     \* the marker file of a cleaned default workspace
    setupKey,    \* context-setup.json: the key of the last context setup
    outputs,     \* the key of the setup whose outputs a workspace holds;
                 \* these live in the workspace and in no manifest
    leaseDirs,   \* the directories of leases
    leaseMeta,   \* workspace.json of each lease
    leaseTree,   \* workspace-manifest.json of each lease
    \* memory of the host
    stage,       \* where the run that holds the context's mutex is
    req,         \* its request, the lease it uses and the time it started
    base,        \* currentManifest, the manifest the sync starts from
    expires,     \* lease.state.ExpiresAt
    post,        \* the manifest of the workspace after the command
    active,      \* activeLeases
    deleting,    \* deletingLeases
    lister,      \* the pruning step of a list request
    now,         \* the clock
    \* history, which the code does not keep
    used,        \* lease ids drawn so far
    fresh,       \* this run's sync began by emptying the workspace
    stale,       \* "run": the default workspace may hold edits of a run that
                 \* stopped; "remove": the context was half removed
    torn,        \* leases whose finalisation or removal was cut in two
    crashes      \* crashes so far

disk == <<ws, tracked, cleaned, setupKey, outputs, leaseDirs, leaseMeta, leaseTree>>
leaseDisk == <<leaseDirs, leaseMeta, leaseTree>>
locals == <<base, expires, post, fresh>>
runVars == <<req, locals>>
others == <<deleting, lister, now, used, crashes>>
history == <<stale, torn>>
vars == <<disk, stage, runVars, active, others, history>>

Spaces == LeaseIds \cup {Default}
Keys == Hashes \cup {NoFile}
Times == 0..MaxTime
Expiries == 0..(MaxTime + Keep)
Metas == [dirty : BOOLEAN, expires : Expiries]
Stages == {"idle", "prepare", "mkdir", "create", "sync", "apply", "track",
           "unmark", "ready", "setup", "run", "scan", "report", "save",
           "manifest", "mark", "forget", "clean", "done", "remove"}

Requests == [kind  : {"default", "keep", "reuse"},
             tree  : Trees,                   \* request.Manifest
             lease : LeaseIds \cup {None},    \* the lease of the run
             keep  : BOOLEAN,                 \* a positive KeepWorkspace
             setup : BOOLEAN,                 \* setup.context_commands
             at    : Times]                   \* now of prepareWorkspaceLease

NoRequest == [kind |-> "default", tree |-> EmptyTree, lease |-> None,
              keep |-> FALSE, setup |-> FALSE, at |-> 0]

\* handle.workspace: the workspace of the run in progress
Space == IF req.lease = None THEN Default ELSE req.lease

\* contextSetupKey, for a workspace with these files
SetupKeyOf(tree) == tree[SetupInput]

-----------------------------------------------------------------------------
Init ==
    /\ ws = [s \in Spaces |-> IF s = Default THEN EmptyTree ELSE Gone]
    /\ tracked = EmptyTree
    /\ cleaned = FALSE
    /\ setupKey = None
    /\ outputs = [s \in Spaces |-> None]
    /\ leaseDirs = {}
    /\ leaseMeta = [l \in LeaseIds |-> None]
    /\ leaseTree = [l \in LeaseIds |-> EmptyTree]
    /\ stage = "idle"
    /\ req = NoRequest
    /\ base = EmptyTree
    /\ expires = 0
    /\ post = EmptyTree
    /\ fresh = FALSE
    /\ active = {}
    /\ deleting = {}
    /\ lister = [at |-> "idle", lease |-> None]
    /\ now = 0
    /\ used = {}
    /\ stale = "no"
    /\ torn = {}
    /\ crashes = 0

-----------------------------------------------------------------------------
(* Leases on disk *)

Expired(l, t) == leaseMeta[l] # None /\ leaseMeta[l].expires <= t

\* Faults: prunes leases that have not expired; spares dirty leases.
PrunableUnexpired(t) == {l \in leaseDirs : l \notin active}
PrunableClean(t) ==
    {l \in leaseDirs : leaseMeta[l] = None
                       \/ (Expired(l, t) /\ ~leaseMeta[l].dirty /\ l \notin active)}

\* What pruneExpiredWorkspaceLeasesInContext removes: directories without
\* metadata, and expired leases that no run uses.
Prunable(t) ==
    {l \in leaseDirs : leaseMeta[l] = None \/ (Expired(l, t) /\ l \notin active)}

\* removeWorkspaceLease for every lease of S.  A missing manifest file loads
\* as an empty manifest.
RemoveLeases(S) ==
    /\ leaseDirs' = leaseDirs \ S
    /\ leaseMeta' = [l \in LeaseIds |-> IF l \in S THEN None ELSE leaseMeta[l]]
    /\ leaseTree' = [l \in LeaseIds |-> IF l \in S THEN EmptyTree ELSE leaseTree[l]]
    /\ ws' = [s \in Spaces |-> IF s \in S THEN Gone ELSE ws[s]]
    /\ outputs' = [s \in Spaces |-> IF s \in S THEN None ELSE outputs[s]]
    /\ torn' = torn \ S

\* saveWorkspaceLease: the metadata and the manifest.
SaveLease(l, dirty, until, tree) ==
    /\ leaseDirs' = leaseDirs \cup {l}
    /\ leaseMeta' = [leaseMeta EXCEPT ![l] = [dirty |-> dirty, expires |-> until]]
    /\ leaseTree' = [leaseTree EXCEPT ![l] = tree]

-----------------------------------------------------------------------------
(* The run *)

\* Nobody holds the mutex and no handler has local variables.
NoRun ==
    /\ stage' = "idle"
    /\ req' = NoRequest
    /\ base' = EmptyTree
    /\ expires' = 0
    /\ post' = EmptyTree
    /\ fresh' = FALSE

\* The handler returns: its deferred calls release the lease and the mutex.
EndRun == NoRun /\ active' = active \ {req.lease}

\* handleRunRequest up to prepareRunWorkspace: the mutex is taken.  A new lease
\* needs one of the finitely many ids.
Begin ==
    /\ stage = "idle"
    /\ \E k \in Kinds, t \in Trees, l \in LeaseIds \cup {None},
          keep \in BOOLEAN, setup \in BOOLEAN :
        /\ k = "reuse" <=> l # None
        /\ l \in used \cup {None}
        /\ k = "keep" => keep /\ LeaseIds \ used # {}
        /\ k = "default" => ~keep
        /\ setup => "setup" \in Env
        /\ req' = [kind |-> k, tree |-> t, lease |-> l, keep |-> keep,
                   setup |-> setup, at |-> now]
        /\ stage' = IF k = "default" THEN "sync" ELSE "prepare"
    /\ UNCHANGED <<disk, locals, active, others, history>>

\* prepareNewWorkspaceLease up to acquireWorkspaceLease: expired leases are
\* pruned, an unused id is drawn and made active.
PrepareNew ==
    /\ stage = "prepare"
    /\ req.kind = "keep"
    /\ RemoveLeases(Prunable(req.at))
    /\ \E l \in LeaseIds \ used :
        /\ used' = used \cup {l}
        /\ active' = active \cup {l}
        /\ req' = [req EXCEPT !.lease = l]
    /\ expires' = req.at + Keep
    /\ stage' = "mkdir"
    /\ UNCHANGED <<tracked, cleaned, setupKey, base, post, fresh, deleting, lister,
                   now, crashes, stale>>

\* The directory that writeJSONAtomically makes for the metadata.
MakeLeaseDir ==
    /\ stage = "mkdir"
    /\ leaseDirs' = leaseDirs \cup {req.lease}
    /\ stage' = "create"
    /\ UNCHANGED <<ws, tracked, cleaned, setupKey, outputs, leaseMeta, leaseTree,
                   runVars, active, others, history>>

\* saveWorkspaceLease of the dirty lease and MkdirAll of its workspace.
CreateLease ==
    /\ stage = "create"
    /\ req.lease \in leaseDirs
    /\ SaveLease(req.lease, TRUE, expires, EmptyTree)
    /\ ws' = [ws EXCEPT ![req.lease] = EmptyTree]
    /\ stage' = "sync"
    /\ UNCHANGED <<tracked, cleaned, setupKey, outputs, runVars, active, others, history>>

\* The directory is gone again, or a write fails.
CreateLeaseFails ==
    /\ stage = "create"
    /\ EndRun
    /\ UNCHANGED <<disk, others, history>>

\* Fault: reuses a dirty lease.
PrepareDirty ==
    LET l == req.lease
        until == IF req.keep THEN req.at + Keep ELSE leaseMeta[l].expires IN
    /\ stage = "prepare"
    /\ req.kind = "reuse"
    /\ l \notin deleting
    /\ leaseMeta[l] # None
    /\ ~Expired(l, req.at)
    /\ ws[l] # Gone
    /\ SaveLease(l, TRUE, until, leaseTree[l])
    /\ active' = active \cup {l}
    /\ base' = leaseTree[l]
    /\ expires' = until
    /\ stage' = "sync"
    /\ UNCHANGED <<ws, tracked, cleaned, setupKey, outputs, req, post, fresh,
                   others, history>>

\* prepareReusedWorkspaceLease, the lease can be used: it is dirty until the
\* run has finished.
PrepareReused ==
    LET l == req.lease
        until == IF req.keep THEN req.at + Keep ELSE leaseMeta[l].expires IN
    /\ stage = "prepare"
    /\ req.kind = "reuse"
    /\ l \notin deleting
    /\ leaseMeta[l] # None
    /\ ~leaseMeta[l].dirty
    /\ ~Expired(l, req.at)
    /\ ws[l] # Gone
    /\ SaveLease(l, TRUE, until, leaseTree[l])
    /\ active' = active \cup {l}
    /\ base' = leaseTree[l]
    /\ expires' = until
    /\ stage' = "sync"
    /\ UNCHANGED <<ws, tracked, cleaned, setupKey, outputs, req, post, fresh,
                   others, history>>

\* prepareReusedWorkspaceLease refuses a lease that is being deleted, unknown
\* or dirty,
RefuseReuse ==
    /\ stage = "prepare"
    /\ req.kind = "reuse"
    /\ \/ req.lease \in deleting
       \/ leaseMeta[req.lease] = None
       \/ leaseMeta[req.lease] # None /\ leaseMeta[req.lease].dirty
    /\ EndRun
    /\ UNCHANGED <<disk, others, history>>

\* removes one that has expired,
RefuseExpired ==
    LET l == req.lease IN
    /\ stage = "prepare"
    /\ req.kind = "reuse"
    /\ l \notin deleting
    /\ Expired(l, req.at)
    /\ ~leaseMeta[l].dirty
    /\ RemoveLeases({l})
    /\ EndRun
    /\ UNCHANGED <<tracked, cleaned, setupKey, others, stale>>

\* and marks one without a workspace dirty.
RefuseMissing ==
    LET l == req.lease IN
    /\ stage = "prepare"
    /\ req.kind = "reuse"
    /\ l \notin deleting
    /\ leaseMeta[l] # None
    /\ ~leaseMeta[l].dirty
    /\ ~Expired(l, req.at)
    /\ ws[l] = Gone
    /\ SaveLease(l, TRUE, leaseMeta[l].expires, leaseTree[l])
    /\ EndRun
    /\ UNCHANGED <<ws, tracked, cleaned, setupKey, outputs, others, history>>

\* currentManifestForRun of a lease: it has its own manifest.
StartLeaseSync ==
    /\ stage = "sync"
    /\ req.kind # "default"
    /\ stage' = "apply"
    /\ UNCHANGED <<disk, runVars, active, others, history>>

\* currentManifestForRun of a default workspace without the cleanup marker: the
\* sync starts from the tracked manifest.
StartSync ==
    /\ stage = "sync"
    /\ req.kind = "default"
    /\ ~cleaned
    /\ base' = tracked
    /\ stage' = "apply"
    /\ UNCHANGED <<disk, req, expires, post, fresh, active, others, history>>

\* Fault: takes the marker for a cleanup that has completed.
TrustMarker ==
    /\ stage = "sync"
    /\ req.kind = "default"
    /\ cleaned
    /\ setupKey' = None
    /\ outputs' = [outputs EXCEPT ![Default] = None]
    /\ fresh' = TRUE
    /\ stale' = "no"
    /\ stage' = "apply"
    /\ UNCHANGED <<ws, tracked, cleaned, leaseDisk, req, base, expires, post, active,
                   others, torn>>

\* Fault: the setup key survives.
FreshKeepsSetup ==
    /\ stage = "sync"
    /\ req.kind = "default"
    /\ cleaned
    /\ ws' = [ws EXCEPT ![Default] = EmptyTree]
    /\ outputs' = [outputs EXCEPT ![Default] = None]
    /\ fresh' = TRUE
    /\ stale' = "no"
    /\ stage' = "apply"
    /\ UNCHANGED <<setupKey, tracked, cleaned, leaseDisk, req, base, expires, post, active,
                   others, torn>>

\* currentManifestForRun with the cleanup marker: whatever the cleanup left is
\* removed and the sync starts from nothing.
StartFreshSync ==
    /\ stage = "sync"
    /\ req.kind = "default"
    /\ cleaned
    /\ setupKey' = None
    /\ ws' = [ws EXCEPT ![Default] = EmptyTree]
    /\ outputs' = [outputs EXCEPT ![Default] = None]
    /\ fresh' = TRUE
    /\ stale' = "no"
    /\ stage' = "apply"
    /\ UNCHANGED <<tracked, cleaned, leaseDisk, req, base, expires, post, active,
                   others, torn>>

\* syncContextFromClient: the client has sent the blobs that were missing, and
\* the difference to its manifest is applied.  Without a workspace directory
\* only an empty difference succeeds.
ApplySync ==
    /\ stage = "apply"
    /\ IF ws[Space] = Gone
       THEN base = req.tree /\ UNCHANGED ws
       ELSE ws' = [ws EXCEPT ![Space] = Patch(ws[Space], base, req.tree)]
    /\ stage' = IF req.kind = "default" THEN "track" ELSE "ready"
    /\ UNCHANGED <<tracked, cleaned, setupKey, outputs, leaseDisk, runVars, active,
                   others, history>>

\* saveTrackedManifest in syncClientManifestAndSave.
TrackManifest ==
    /\ stage = "track"
    /\ tracked' = req.tree
    /\ stage' = "unmark"
    /\ UNCHANGED <<ws, cleaned, setupKey, outputs, leaseDisk, runVars, active,
                   others, history>>

\* clearWorkspaceCleaned.
ClearMarker ==
    /\ stage = "unmark"
    /\ cleaned' = FALSE
    /\ stage' = "ready"
    /\ UNCHANGED <<ws, tracked, setupKey, outputs, leaseDisk, runVars, active,
                   others, history>>

\* writeWorkspaceReady, then prepareOCIContextSetup: the setup commands have to
\* run unless the stored key is the key of the workspace's files.
SetupNeeded ==
    req.setup /\ ws[Space] # Gone /\ setupKey # SetupKeyOf(ws[Space])

StartSetup ==
    /\ stage = "ready"
    /\ SetupNeeded
    /\ outputs' = [outputs EXCEPT ![Space] = Partial]
    /\ stage' = "setup"
    /\ UNCHANGED <<ws, tracked, cleaned, setupKey, leaseDisk, runVars, active,
                   others, history>>

SkipSetup ==
    /\ stage = "ready"
    /\ ~SetupNeeded
    /\ stage' = "run"
    /\ UNCHANGED <<disk, runVars, active, others, history>>

\* The setup commands have succeeded: saveContextSetupCache.
SaveSetup ==
    /\ stage = "setup"
    /\ ws[Space] # Gone
    /\ setupKey' = SetupKeyOf(ws[Space])
    /\ outputs' = [outputs EXCEPT ![Space] = SetupKeyOf(ws[Space])]
    /\ stage' = "run"
    /\ UNCHANGED <<ws, tracked, cleaned, leaseDisk, runVars, active, others, history>>

\* What a command, or the commands of a setup, may leave in the workspace.
CommandTrees == IF ws[Space] = Gone THEN {Gone} ELSE Trees

\* A setup command fails: executeRequest returns its error, which is reported
\* to the client like an exit code.
SetupFails ==
    /\ stage = "setup"
    /\ \E t \in CommandTrees : ws' = [ws EXCEPT ![Space] = t]
    /\ stage' = "scan"
    /\ UNCHANGED <<tracked, cleaned, setupKey, outputs, leaseDisk, runVars, active,
                   others, history>>

\* The command changes the workspace in any way and exits.
RunCommand ==
    /\ stage = "run"
    /\ \E t \in CommandTrees : ws' = [ws EXCEPT ![Space] = t]
    /\ stage' = "scan"
    /\ UNCHANGED <<tracked, cleaned, setupKey, outputs, leaseDisk, runVars, active,
                   others, history>>

\* BuildManifestContextOptions after the command; it fails without a directory.
ScanWorkspace ==
    /\ stage = "scan"
    /\ ws[Space] # Gone
    /\ post' = ws[Space]
    /\ stage' = "report"
    /\ UNCHANGED <<disk, req, base, expires, fresh, active, others, history>>

\* sendWorkspaceChanges: the client has confirmed the sync-back.
SendChanges ==
    /\ stage = "report"
    /\ stage' = "save"
    /\ UNCHANGED <<disk, runVars, active, others, history>>

\* savePostRunWorkspaceState of the default workspace.
SavePostRun ==
    /\ stage = "save"
    /\ req.kind = "default"
    /\ tracked' = post
    /\ stage' = "mark"
    /\ UNCHANGED <<ws, cleaned, setupKey, outputs, leaseDisk, runVars, active,
                   others, history>>

\* finalizeWorkspaceLease, first write: the metadata, clean from now on.
NewExpiry == IF req.keep THEN now + Keep ELSE expires

SaveLeaseMeta ==
    /\ stage = "save"
    /\ req.kind # "default"
    /\ SaveLease(req.lease, FALSE, NewExpiry, leaseTree[req.lease])
    /\ expires' = NewExpiry
    /\ stage' = "manifest"
    /\ UNCHANGED <<ws, tracked, cleaned, setupKey, outputs, req, base, post, fresh,
                   active, others, history>>

\* Fault: saves the manifest from before the command.
SaveClientManifest ==
    /\ stage = "manifest"
    /\ leaseDirs' = leaseDirs \cup {req.lease}
    /\ leaseTree' = [leaseTree EXCEPT ![req.lease] = req.tree]
    /\ torn' = torn \ {req.lease}
    /\ stage' = "done"
    /\ UNCHANGED <<ws, tracked, cleaned, setupKey, outputs, leaseMeta, runVars,
                   active, others, stale>>

\* Its second write: the manifest.
SaveLeaseManifest ==
    /\ stage = "manifest"
    /\ leaseDirs' = leaseDirs \cup {req.lease}
    /\ leaseTree' = [leaseTree EXCEPT ![req.lease] = post]
    /\ torn' = torn \ {req.lease}
    /\ stage' = "done"
    /\ UNCHANGED <<ws, tracked, cleaned, setupKey, outputs, leaseMeta, runVars,
                   active, others, stale>>

\* cleanRunWorkspace: the marker, the setup cache, the files.
MarkCleaned ==
    /\ stage = "mark"
    /\ cleaned' = TRUE
    /\ stale' = "no"
    /\ stage' = "forget"
    /\ UNCHANGED <<ws, tracked, setupKey, outputs, leaseDisk, runVars, active,
                   others, torn>>

ForgetSetup ==
    /\ stage = "forget"
    /\ setupKey' = None
    /\ stage' = "clean"
    /\ UNCHANGED <<ws, tracked, cleaned, outputs, leaseDisk, runVars, active,
                   others, history>>

CleanWorkspace ==
    /\ stage = "clean"
    /\ ws' = [ws EXCEPT ![Default] = EmptyTree]
    /\ outputs' = [outputs EXCEPT ![Default] = None]
    /\ stage' = "done"
    /\ UNCHANGED <<tracked, cleaned, setupKey, leaseDisk, runVars, active, others, history>>

\* ChangesDone is written; the deferred releases run.
Finish ==
    /\ stage = "done"
    /\ EndRun
    /\ UNCHANGED <<disk, others, history>>

-----------------------------------------------------------------------------
(* Failures of the run *)

BeforeCommand == {"sync", "apply", "track", "unmark", "ready"}
AfterCommandStart == {"setup", "run", "scan", "report", "save", "manifest",
                      "mark", "forget", "clean", "done"}

\* The run stops where the default workspace has files that the tracked
\* manifest does not describe, and no marker asks the next run to empty it.
LeavesEdits(crash) ==
    /\ req.kind = "default"
    /\ \/ stage \in {"setup", "run", "scan", "report", "save"}
       \/ stage = "track" /\ ~fresh
       \/ stage = "apply" /\ ~fresh /\ crash

StaleAfter(crash) == IF LeavesEdits(crash) /\ stale = "no" THEN "run" ELSE stale

\* An error before executeAndSyncRun: the lease stays dirty as it was saved,
\* ApplyChanges has restored the workspace.
FailBeforeCommand ==
    /\ stage \in BeforeCommand
    /\ stale' = StaleAfter(FALSE)
    /\ EndRun
    /\ UNCHANGED <<disk, others, torn>>

\* An error of executeAndSyncRun.  A command that is still running is killed.
StopCommand ==
    IF stage \in {"setup", "run"}
    THEN \E t \in CommandTrees : ws' = [ws EXCEPT ![Space] = t]
    ELSE UNCHANGED ws

\* markWorkspaceLeaseDirty saves what the run has in memory.
FailAfterCommandStart ==
    /\ stage \in AfterCommandStart
    /\ StopCommand
    /\ IF req.lease = None THEN UNCHANGED leaseDisk
       ELSE SaveLease(req.lease, TRUE,
                      IF stage = "save" THEN NewExpiry ELSE expires,
                      IF stage \in {"save", "manifest", "done"} THEN post ELSE base)
    /\ stale' = StaleAfter(FALSE)
    /\ EndRun
    /\ UNCHANGED <<tracked, cleaned, setupKey, outputs, others, torn>>

\* markWorkspaceLeaseDirty may fail too; that is only logged.
FailAndMarkDirtyFails ==
    /\ stage \in AfterCommandStart
    /\ req.lease # None
    /\ StopCommand
    /\ torn' = IF stage = "manifest" THEN torn \cup {req.lease} ELSE torn
    /\ EndRun
    /\ UNCHANGED <<tracked, cleaned, setupKey, outputs, leaseDisk, others, stale>>

-----------------------------------------------------------------------------
(* The other actors *)

Tick ==
    /\ now < MaxTime
    /\ now' = now + 1
    /\ UNCHANGED <<disk, stage, runVars, active, deleting, lister, used, crashes, history>>

\* pruneExpiredWorkspaceLeasesInAllContexts, under the mutex: the cleanup
\* ticker and cache prune requests.  t was read before the wait for the mutex.
CleanupExpired(t) ==
    /\ "cleanup" \in Env
    /\ stage = "idle"
    /\ Prunable(t) # {}
    /\ RemoveLeases(Prunable(t))
    /\ UNCHANGED <<tracked, cleaned, setupKey, stage, runVars, active, others, stale>>

\* listWorkspaceLeases prunes too, without the mutex: it reads the metadata,
ListLoad ==
    /\ "list" \in Env
    /\ lister.at = "idle"
    /\ \E l \in leaseDirs :
        /\ leaseMeta[l] = None \/ Expired(l, now)
        /\ lister' = [at |-> IF leaseMeta[l] = None THEN "remove" ELSE "check",
                      lease |-> l]
    /\ UNCHANGED <<disk, stage, runVars, active, deleting, now, used, crashes, history>>

\* asks whether a run uses the lease,
ListCheck ==
    /\ lister.at = "check"
    /\ lister' = [lister EXCEPT !.at = IF lister.lease \in active THEN "idle" ELSE "remove"]
    /\ UNCHANGED <<disk, stage, runVars, active, deleting, now, used, crashes, history>>

\* and removes it.
ListRemove ==
    /\ lister.at = "remove"
    /\ RemoveLeases({lister.lease})
    /\ lister' = [lister EXCEPT !.at = "idle"]
    /\ UNCHANGED <<tracked, cleaned, setupKey, stage, runVars, active, deleting,
                   now, used, crashes, stale>>

\* Fault: deletes a lease that a run uses.
DeleteActive(l) ==
    /\ "delete" \in Env
    /\ l \in used
    /\ l \notin deleting
    /\ deleting' = deleting \cup {l}
    /\ UNCHANGED <<disk, stage, runVars, active, lister, now, used, crashes, history>>

\* deleteWorkspaceLeases: beginWorkspaceLeaseDelete refuses active leases.
DeleteBegin(l) ==
    /\ "delete" \in Env
    /\ l \in used
    /\ l \notin active
    /\ l \notin deleting
    /\ deleting' = deleting \cup {l}
    /\ UNCHANGED <<disk, stage, runVars, active, lister, now, used, crashes, history>>

DeleteLease(l) ==
    /\ l \in deleting
    /\ RemoveLeases({l})
    /\ deleting' = deleting \ {l}
    /\ UNCHANGED <<tracked, cleaned, setupKey, stage, runVars, active, lister,
                   now, used, crashes, stale>>

\* removeContext of a delete request, under the mutex.
RemoveContextBegin ==
    /\ "remove" \in Env
    /\ stage = "idle"
    /\ stage' = "remove"
    /\ UNCHANGED <<disk, runVars, active, others, history>>

RemoveContext ==
    /\ stage = "remove"
    /\ leaseDirs' = {}
    /\ leaseMeta' = [l \in LeaseIds |-> None]
    /\ leaseTree' = [l \in LeaseIds |-> EmptyTree]
    /\ ws' = [s \in Spaces |-> IF s = Default THEN EmptyTree ELSE Gone]
    /\ outputs' = [s \in Spaces |-> None]
    /\ tracked' = EmptyTree
    /\ cleaned' = FALSE
    /\ setupKey' = None
    /\ stale' = "no"
    /\ torn' = {}
    /\ stage' = "idle"
    /\ UNCHANGED <<runVars, active, others>>

-----------------------------------------------------------------------------
(* The host crashes and starts again *)

\* The leases whose directory is being removed.
HalfRemoved ==
    deleting \cup (IF lister.at = "remove" THEN {lister.lease} ELSE {})
             \cup (IF stage = "remove" THEN leaseDirs ELSE {})

\* What a removal of these files may leave.
Remnants(tree) ==
    IF tree = Gone THEN {Gone}
    ELSE {Gone} \cup {t \in Trees : \A p \in Paths : t[p] \in {tree[p], NoFile}}

\* What is left of workspace s when the work in progress on it is cut off.
CrashTrees(s) ==
    IF s \in HalfRemoved THEN Remnants(ws[s])
    ELSE IF s = Default /\ stage \in {"clean", "remove"}
         THEN Remnants(ws[s]) \ {Gone}
    ELSE IF s = Space /\ stage = "apply" /\ ws[s] # Gone
         THEN PartialPatches(ws[s], base, req.tree)
    ELSE IF s = Space /\ stage \in {"setup", "run"} THEN CommandTrees
    ELSE {ws[s]}

\* The leases in gone are lost; New prunes expired leases and directories
\* without metadata.
Lose(gone) ==
    /\ ws' \in {w \in [Spaces -> Trees \cup {Gone}] : \A s \in Spaces :
                   IF s \in gone THEN w[s] = Gone ELSE w[s] \in CrashTrees(s)}
    /\ outputs' = [s \in Spaces |->
           IF s \in gone \/ (s = Default /\ stage \in {"clean", "remove"})
           THEN None ELSE outputs[s]]
    /\ leaseDirs' = leaseDirs \ gone
    /\ leaseMeta' = [l \in LeaseIds |-> IF l \in gone THEN None ELSE leaseMeta[l]]
    /\ leaseTree' = [l \in LeaseIds |-> IF l \in gone THEN EmptyTree ELSE leaseTree[l]]
    /\ torn' = (torn \cup HalfRemoved
                     \cup (IF stage = "manifest" THEN {req.lease} ELSE {})) \ gone

PrunedAtStart == {l \in leaseDirs : leaseMeta[l] = None \/ Expired(l, now)}

\* Memory is lost; of a lease that is being removed nothing, or some of its
\* files may be left.
Crash ==
    /\ "crash" \in Env
    /\ crashes < MaxCrashes
    /\ crashes' = crashes + 1
    /\ \E removed \in SUBSET HalfRemoved : Lose(removed \cup PrunedAtStart)
    /\ IF stage = "remove"
       THEN /\ tracked' \in {tracked, EmptyTree}
            /\ cleaned' \in {cleaned, FALSE}
            /\ setupKey' \in {setupKey, None}
            /\ stale' = "remove"
       ELSE /\ stale' = StaleAfter(TRUE)
            /\ UNCHANGED <<tracked, cleaned, setupKey>>
    /\ NoRun
    /\ active' = {}
    /\ deleting' = {}
    /\ lister' = [at |-> "idle", lease |-> None]
    /\ UNCHANGED <<now, used>>

-----------------------------------------------------------------------------
RunStep ==
    \/ Begin
    \/ PrepareNew \/ MakeLeaseDir \/ CreateLease \/ CreateLeaseFails
    \/ PrepareReused \/ RefuseReuse \/ RefuseExpired \/ RefuseMissing
    \/ StartLeaseSync \/ StartSync \/ StartFreshSync
    \/ ApplySync \/ TrackManifest \/ ClearMarker
    \/ StartSetup \/ SkipSetup \/ SaveSetup \/ SetupFails
    \/ RunCommand \/ ScanWorkspace \/ SendChanges
    \/ SavePostRun \/ SaveLeaseMeta \/ SaveLeaseManifest
    \/ MarkCleaned \/ ForgetSetup \/ CleanWorkspace \/ Finish
    \/ FailBeforeCommand \/ FailAfterCommandStart \/ FailAndMarkDirtyFails

OtherStep ==
    \/ Tick
    \/ \E t \in 0..now : CleanupExpired(t)
    \/ ListLoad \/ ListCheck \/ ListRemove
    \/ \E l \in LeaseIds : DeleteBegin(l) \/ DeleteLease(l)
    \/ RemoveContextBegin \/ RemoveContext
    \/ Crash

Next == RunStep \/ OtherStep

Spec == Init /\ [][Next]_vars

-----------------------------------------------------------------------------
(* Properties *)

DiskTypeOK ==
    /\ ws \in [Spaces -> Trees \cup {Gone}]
    /\ ws[Default] \in Trees
    /\ tracked \in Trees
    /\ cleaned \in BOOLEAN
    /\ setupKey \in Keys \cup {None}
    /\ outputs \in [Spaces -> Keys \cup {None, Partial}]
    /\ leaseDirs \subseteq LeaseIds
    /\ leaseMeta \in [LeaseIds -> Metas \cup {None}]
    /\ leaseTree \in [LeaseIds -> Trees]

RunTypeOK ==
    /\ stage \in Stages
    /\ req \in Requests
    /\ base \in Trees
    /\ expires \in Expiries
    /\ post \in Trees
    /\ fresh \in BOOLEAN

OthersTypeOK ==
    /\ active \subseteq LeaseIds
    /\ deleting \subseteq LeaseIds
    /\ lister \in [at : {"idle", "check", "remove"}, lease : LeaseIds \cup {None}]
    /\ lister.at # "idle" => lister.lease \in LeaseIds
    /\ now \in Times
    /\ used \subseteq LeaseIds
    /\ stale \in {"no", "run", "remove"}
    /\ torn \subseteq LeaseIds
    /\ crashes \in 0..MaxCrashes

\* Type correctness: what the context's files and the run's variables hold.
TypeOK == DiskTypeOK /\ RunTypeOK /\ OthersTypeOK

\* When writeWorkspaceReady tells the client that its workspace is ready, a
\* default workspace holds exactly the files of the client's manifest, also
\* after runs that failed and crashes during the sync or the cleanup: "Marker
\* first makes interrupted cleanup recoverable on the next sync" (server.go).
DefaultSeesClientTree ==
    stage = "ready" /\ req.kind = "default" /\ stale = "no"
        => ws[Default] = req.tree

\* The same for a lease, new or reused: applying only the client-side changes
\* to what the lease's manifest describes gives the client's files.
LeaseSeesClientTree ==
    stage = "ready" /\ req.kind # "default" /\ req.lease \notin torn
        /\ ws[Space] # Gone
        => ws[Space] = req.tree

\* A lease that is not dirty can be reused: its manifest describes its files.
CleanLeaseTrusted ==
    \A l \in LeaseIds \ torn :
        /\ leaseMeta[l] # None
        /\ ~leaseMeta[l].dirty
        /\ ws[l] # Gone
        /\ ~(stage = "manifest" /\ req.lease = l)
        => leaseTree[l] = ws[l]

\* The workspace of a run exists from its sync to its end: no prune or delete
\* removes it ("active lease removed" in workspace_lease_test.go).
ActiveLeaseKept ==
    stage \in BeforeCommand \cup AfterCommandStart => ws[Space] # Gone

\* A lease is removed only when it has expired, or on request: a lease that
\* its last run renewed stays.
UnexpiredLeaseKept ==
    [][\A l \in LeaseIds :
          leaseMeta[l] # None /\ leaseMeta'[l] = None
              => \/ leaseMeta[l].expires <= now
                 \/ l \in deleting
                 \/ stage = "remove"]_vars

\* A default workspace whose command runs after a skipped setup has had that
\* setup: the key of a setup never outlives the workspace that it prepared.
SetupRanInWorkspace ==
    stage = "run" /\ req.setup /\ stale # "remove" /\ ws[Space] # Gone
        => outputs[Space] # None

\* Expired leases do not pile up ("background cleanup and rmtx cache prune
\* remove expired leases"), as long as no run holds the context's mutex for ever.
ExpiredLeaseRemoved ==
    []<>(stage = "idle") =>
        \A l \in LeaseIds :
            (leaseMeta[l] # None /\ leaseMeta[l].expires <= now)
                ~> (leaseMeta[l] = None \/ leaseMeta[l].expires > now)
=============================================================================
