------------------------------- MODULE BlobGC -------------------------------
(***************************************************************************)
(* The blob store that all contexts of a host share, and its collection    *)
(* (internal/host/artifacts.go, internal/syncfs/store.go).                 *)
(*                                                                         *)
(* A run synchronizes under a read lock of blobGCMu: it asks the client    *)
(* for the blobs it misses, applies them to the workspace and saves the    *)
(* manifest that the collection takes its references from.  After the      *)
(* command it stores changed files and saves the manifest again, without   *)
(* the lock.  The collection, which `rmtx cache prune` and a deletion of   *)
(* contexts start, holds the write lock.  Runs of a context are serialized *)
(* by its mutex, so that a context has at most one.                        *)
(*                                                                         *)
(* A manifest is the set of hashes of its files; which files a run finds   *)
(* changed is a choice here and is computed in RunWorkspace.               *)
(***************************************************************************)
EXTENDS Naturals, FiniteSets

CONSTANTS Contexts, Hashes

ASSUME FiniteAssumption == IsFiniteSet(Contexts) /\ IsFiniteSet(Hashes)

VARIABLES blobs,       \* the blobs in the store
          tracked,     \* the tracked manifest of a context
          phase,       \* where the run of a context is
          lease,       \* the run works in a workspace lease
          target,      \* the client's manifest, then the post-run manifest
          changed,     \* the files that the run applies
          runTodo,     \* the blobs that the run waits for or has to store
          gc,          \* where the collection is
          gcTodo,      \* contexts whose manifest it has not read
          gcRefs,      \* references it has found
          gcOld,       \* unreferenced blobs when the sweep began
          savedSince   \* history: contexts that saved a manifest after a command
                       \* while the collection has held the lock

runVars == <<phase, lease, target, changed, runTodo>>
gcVars == <<gc, gcTodo, gcRefs, gcOld>>
storeVars == <<blobs, tracked, runVars, gcVars, savedSince>>

Manifests == SUBSET Hashes

Syncing == {"diff", "transfer", "apply", "track"}  \* phases with the read lock
PostRun == {"command", "store", "save"}
Phases == {"idle", "rlock"} \cup Syncing \cup PostRun

GcLocked == gc \in {"refs", "sweep"}
Readers == {c \in Contexts : phase[c] \in Syncing}

\* The run of c ends; its variables are local to it.
EndRun(c) ==
    /\ phase' = [phase EXCEPT ![c] = "idle"]
    /\ lease' = [lease EXCEPT ![c] = FALSE]
    /\ target' = [target EXCEPT ![c] = {}]
    /\ changed' = [changed EXCEPT ![c] = {}]
    /\ runTodo' = [runTodo EXCEPT ![c] = {}]

GcInit ==
    /\ blobs = {}
    /\ tracked = [c \in Contexts |-> {}]
    /\ phase = [c \in Contexts |-> "idle"]
    /\ lease = [c \in Contexts |-> FALSE]
    /\ target = [c \in Contexts |-> {}]
    /\ changed = [c \in Contexts |-> {}]
    /\ runTodo = [c \in Contexts |-> {}]
    /\ gc = "idle"
    /\ gcTodo = {}
    /\ gcRefs = {}
    /\ gcOld = {}
    /\ savedSince = {}

-----------------------------------------------------------------------------
(* A run: syncClientManifestAndSave *)

\* Fault: a reader passes a writer that waits.
StartBarging(c, m, l) ==
    /\ phase[c] = "idle"
    /\ phase' = [phase EXCEPT ![c] = IF GcLocked THEN "rlock" ELSE "diff"]
    /\ lease' = [lease EXCEPT ![c] = l]
    /\ target' = [target EXCEPT ![c] = m]
    /\ UNCHANGED <<blobs, tracked, changed, runTodo, gcVars, savedSince>>

\* RLock: a reader waits while the collection holds the lock or waits for it.
Start(c, m, l) ==
    /\ phase[c] = "idle"
    /\ phase' = [phase EXCEPT ![c] = IF gc = "idle" THEN "diff" ELSE "rlock"]
    /\ lease' = [lease EXCEPT ![c] = l]
    /\ target' = [target EXCEPT ![c] = m]
    /\ UNCHANGED <<blobs, tracked, changed, runTodo, gcVars, savedSince>>

\* What Diff can find: all hashes that the current manifest lacks, and hashes
\* that it has under another path.  The current manifest is a lease's, or the
\* tracked one, or empty after a cleanup.
Diffs(c) == {s \in SUBSET target[c] : lease[c] \/ target[c] \ tracked[c] \subseteq s}

Diff(c) ==
    /\ phase[c] = "diff"
    /\ \E s \in Diffs(c) :
        /\ changed' = [changed EXCEPT ![c] = s]
        /\ runTodo' = [runTodo EXCEPT ![c] = s \ blobs]
    /\ phase' = [phase EXCEPT ![c] = "transfer"]
    /\ UNCHANGED <<blobs, tracked, lease, target, gcVars, savedSince>>

\* A blob from the client is complete and verified.
ReceiveBlob(c, h) ==
    /\ phase[c] = "transfer"
    /\ h \in runTodo[c]
    /\ blobs' = blobs \cup {h}
    /\ runTodo' = [runTodo EXCEPT ![c] = @ \ {h}]
    /\ UNCHANGED <<tracked, phase, lease, target, changed, gcVars, savedSince>>

EndTransfer(c) ==
    /\ phase[c] = "transfer"
    /\ runTodo[c] = {}
    /\ phase' = [phase EXCEPT ![c] = "apply"]
    /\ UNCHANGED <<blobs, tracked, lease, target, changed, runTodo, gcVars, savedSince>>

\* ApplyChanges, which fails when a blob is missing.
Apply(c) ==
    /\ phase[c] = "apply"
    /\ changed[c] \subseteq blobs
    /\ changed' = [changed EXCEPT ![c] = {}]
    /\ phase' = [phase EXCEPT ![c] = "track"]
    /\ UNCHANGED <<blobs, tracked, lease, target, runTodo, gcVars, savedSince>>

\* saveTrackedManifest, and RUnlock.
Track(c) ==
    /\ phase[c] = "track"
    /\ tracked' = IF lease[c] THEN tracked ELSE [tracked EXCEPT ![c] = target[c]]
    /\ phase' = [phase EXCEPT ![c] = "command"]
    /\ UNCHANGED <<blobs, lease, target, changed, runTodo, gcVars, savedSince>>

\* The command leaves files, and sync_back selects the changed ones to send.
Command(c) ==
    /\ phase[c] = "command"
    /\ \E post \in Manifests : \E s \in SUBSET post :
        /\ target' = [target EXCEPT ![c] = post]
        /\ runTodo' = [runTodo EXCEPT ![c] = s]
    /\ phase' = [phase EXCEPT ![c] = "store"]
    /\ UNCHANGED <<blobs, tracked, lease, changed, gcVars, savedSince>>

\* storeChangedFileBlobs, without the lock.
Store(c, h) ==
    /\ phase[c] = "store"
    /\ h \in runTodo[c]
    /\ blobs' = blobs \cup {h}
    /\ runTodo' = [runTodo EXCEPT ![c] = @ \ {h}]
    /\ UNCHANGED <<tracked, phase, lease, target, changed, gcVars, savedSince>>

EndStore(c) ==
    /\ phase[c] = "store"
    /\ runTodo[c] = {}
    /\ phase' = [phase EXCEPT ![c] = "save"]
    /\ UNCHANGED <<blobs, tracked, lease, target, changed, runTodo, gcVars, savedSince>>

\* savePostRunWorkspaceState, without the lock.
Save(c) ==
    /\ phase[c] = "save"
    /\ tracked' = IF lease[c] THEN tracked ELSE [tracked EXCEPT ![c] = target[c]]
    /\ savedSince' = IF GcLocked /\ ~lease[c] THEN savedSince \cup {c} ELSE savedSince
    /\ EndRun(c)
    /\ UNCHANGED <<blobs, gcVars>>

\* The client is gone, or a file cannot be read or written.
Fail(c) ==
    /\ phase[c] \in Syncing \cup PostRun
    /\ EndRun(c)
    /\ UNCHANGED <<blobs, tracked, gcVars, savedSince>>

RemoveContext(c) ==
    /\ phase[c] = "idle"
    /\ tracked' = [tracked EXCEPT ![c] = {}]
    /\ UNCHANGED <<blobs, runVars, gcVars, savedSince>>

-----------------------------------------------------------------------------
(* The collection: pruneUnreferencedBlobsInRoots *)

\* It waits for the write lock.
GcRequest ==
    /\ gc = "idle"
    /\ gc' = "lock"
    /\ UNCHANGED <<blobs, tracked, runVars, gcTodo, gcRefs, gcOld, savedSince>>

\* Fault: the lock is not taken.
GcNoLock ==
    /\ gc = "lock"
    /\ gc' = "refs"
    /\ gcTodo' = Contexts
    /\ UNCHANGED <<blobs, tracked, runVars, gcRefs, gcOld, savedSince>>

GcLock ==
    /\ gc = "lock"
    /\ Readers = {}
    /\ gc' = "refs"
    /\ gcTodo' = Contexts
    /\ UNCHANGED <<blobs, tracked, runVars, gcRefs, gcOld, savedSince>>

\* loadTrackedManifest of one context.
GcRead(c) ==
    /\ gc = "refs"
    /\ c \in gcTodo
    /\ gcRefs' = gcRefs \cup tracked[c]
    /\ gcTodo' = gcTodo \ {c}
    /\ UNCHANGED <<blobs, tracked, runVars, gc, gcOld, savedSince>>

\* Fault: the sweep does not wait for the manifests of all contexts.
GcSweepEarly ==
    /\ gc = "refs"
    /\ gc' = "sweep"
    /\ gcOld' = blobs \ gcRefs
    /\ UNCHANGED <<blobs, tracked, runVars, gcTodo, gcRefs, savedSince>>

GcStartSweep ==
    /\ gc = "refs"
    /\ gcTodo = {}
    /\ gc' = "sweep"
    /\ gcOld' = blobs \ gcRefs
    /\ UNCHANGED <<blobs, tracked, runVars, gcTodo, gcRefs, savedSince>>

\* The walk meets a blob: one of the old ones, or one stored since.
GcRemove(h) ==
    /\ gc = "sweep"
    /\ h \in blobs \ gcRefs
    /\ blobs' = blobs \ {h}
    /\ UNCHANGED <<tracked, runVars, gcVars, savedSince>>

\* Unlock, which lets in all waiting readers before the next writer.
Unlock ==
    /\ gc' = "idle"
    /\ gcTodo' = {}
    /\ gcRefs' = {}
    /\ gcOld' = {}
    /\ savedSince' = {}
    /\ phase' = [c \in Contexts |-> IF phase[c] = "rlock" THEN "diff" ELSE phase[c]]
    /\ UNCHANGED <<blobs, tracked, lease, target, changed, runTodo>>

\* Fault: waiting readers are not let in.
EndKeepsReaders ==
    /\ gc = "sweep"
    /\ gcOld \cap blobs \subseteq gcRefs
    /\ gc' = "idle"
    /\ gcTodo' = {}
    /\ gcRefs' = {}
    /\ gcOld' = {}
    /\ savedSince' = {}
    /\ UNCHANGED <<blobs, tracked, runVars>>

GcEnd ==
    /\ gc = "sweep"
    /\ gcOld \cap blobs \subseteq gcRefs
    /\ Unlock

\* A manifest cannot be read, or a file disappears or cannot be removed.
GcFails ==
    /\ GcLocked
    /\ Unlock

-----------------------------------------------------------------------------
Run(c) ==
    \/ Diff(c) \/ EndTransfer(c) \/ Apply(c) \/ Track(c)
    \/ Command(c) \/ EndStore(c) \/ Save(c)
    \/ \E h \in Hashes : ReceiveBlob(c, h) \/ Store(c, h)

Collect ==
    \/ GcLock \/ GcStartSweep \/ GcEnd \/ GcFails
    \/ \E c \in Contexts : GcRead(c)
    \/ \E h \in Hashes : GcRemove(h)

GcNext ==
    \/ \E c \in Contexts :
        \/ \E m \in Manifests, l \in BOOLEAN : Start(c, m, l)
        \/ Run(c) \/ Fail(c) \/ RemoveContext(c)
    \/ GcRequest \/ Collect

GcSpec == GcInit /\ [][GcNext]_storeVars

\* A collection only works on files and goes on by itself.  A run may stop at any
\* place: it waits for its client.
GcFairSpec == GcSpec /\ WF_storeVars(Collect)

-----------------------------------------------------------------------------
(* Properties *)

\* Type correctness.
GcTypeOK ==
    /\ blobs \subseteq Hashes
    /\ tracked \in [Contexts -> Manifests]
    /\ phase \in [Contexts -> Phases]
    /\ lease \in [Contexts -> BOOLEAN]
    /\ target \in [Contexts -> Manifests]
    /\ changed \in [Contexts -> Manifests]
    /\ runTodo \in [Contexts -> Manifests]
    /\ gc \in {"idle", "lock", "refs", "sweep"}
    /\ gcTodo \subseteq Contexts
    /\ gcRefs \subseteq Hashes
    /\ gcOld \subseteq Hashes
    /\ savedSince \subseteq Contexts

\* Once the client has sent what the host asked for, ApplyChanges finds every blob
\* in the store: neither a blob found earlier nor one just received is collected,
\* whatever other contexts reference.
ApplyFindsBlobs == \A c \in Contexts : phase[c] = "apply" => changed[c] \subseteq blobs

\* A collection removes a blob that a tracked manifest lists only when a run
\* saved that manifest, after its command, during the collection.
GcKeepsReferences ==
    [][\A h \in blobs \ blobs' : \A c \in Contexts :
        h \in tracked[c] => c \in savedSince]_storeVars

\* No synchronization hangs: its client answers, or its connection ends.
SyncsEnd == \A c \in Contexts : []<>(phase[c] \notin Syncing)

\* A run that waits for the read lock gets it, however often caches are pruned,
\* unless the synchronization of another context hangs.
SyncProceeds ==
    SyncsEnd => \A c \in Contexts : phase[c] = "rlock" ~> phase[c] # "rlock"

\* A collection that waits for the write lock gets it unless a synchronization
\* hangs, although runs of other contexts may always be synchronizing.
GcProceeds == SyncsEnd => (gc = "lock" ~> GcLocked)

\* Neither side of blobGCMu starves the other.
LockProceeds == SyncProceeds /\ GcProceeds
=============================================================================
