# A TLA+ model of rmtx

`rmtx` runs commands of a client machine on a host machine: the client sends a
manifest of its files, the host asks for the blobs it lacks, rebuilds the files
in a workspace, runs the command there and sends back what it changed. This
directory models the parts of that program that are hard to test: what the host
keeps on disk and what happens to it when runs fail, the host stops, requests
interleave and the host replaces itself by a newer version; how blobs, input,
output and logs pass over connections that break; and how host and client come to
know, find and reach each other.

Paths below are relative to the repository (`src/`); `host/` stands for
`internal/host/`, and so on.

## The system

| Part | State it keeps | Operations | Source |
|---|---|---|---|
| Runs and workspaces | per context: workspace directory, tracked manifest, cleaned marker; a mutex per context | run request: acquire, sync, setup, command, sync-back, save, clean; remove a context | `host/server.go`, `host/context_store.go` |
| Workspace leases | per lease: directory, metadata (dirty, expiry), manifest; sets of active and of deleting leases | create, reuse, renew, mark dirty, list, delete, prune (ticker, list, cache prune, startup) | `host/workspace_lease*.go` |
| Context setup cache | one key per context | hit, run, save, forget | `host/oci_runner.go`, `host/artifacts.go` |
| Apply transaction | stage, backups, created directories, old modes | stage, back up, install, chmod, roll back | `syncfs/apply.go` |
| Manifests | entries; a hash cache | scan, diff, patch | `syncfs/manifest.go` |
| Blob store and collection | blobs by hash; references in all manifests; a read-write lock | has, store, materialize; collect | `syncfs/store.go`, `host/artifacts.go` |
| Host update | versions, installs, pending restart, number of active runs | ping, update, install, wait, restart, prune installs | `host/update.go`, `host/server.go`, `client/update.go`, `cmd/rmtx` |
| Blob transfer | sessions by token, receivers, chunks done | upload, download, retry, reconnect | `host/blob_transfer.go`, `syncfs/chunked_blob.go`, `client/client.go` |
| Run input, cancel, TTY | queue of input, stopped flag, cancel handle | forward, close, stop, cancel, resize | `host/run_input.go`, `host/run_tty*.go` |
| Log streaming | bounded queue, dropped and writing flags | enqueue, flush, close | `host/log_stream.go` |
| Connections | slots, deadlines, heartbeats | accept, reject, idle out | `host/server.go`, `protocol/*.go` |
| Pairing and trust | codes, lock file, rate windows, trusted clients | create, consume, limit, trust | `host/pairing_store.go`, `host/pair_limit.go`, `host/trust_store.go` |
| Host identity | four files and a pending record | create, recover, rotate | `security/pki.go` |
| Client caches | manifest cache, blob cache, a lock file | sync back, save, prune | `client/*.go` |
| Connecting | known hosts, reverse requests | discover, race dials, dial back | `client/connection.go`, `discovery`, `clientstate` |
| OCI runtime | images, shared bases, overlays, prepared references | pull, unpack, prepare, prune | `oci`, `host/oci_*.go` |

How they interact. A run request takes a run slot (refused while a restart is
pending), then its context's mutex, which it holds to the end; inside it takes
the read side of the blob collection's lock for the sync. Requests to list
leases take no mutex at all; deletes use the sets of active and deleting
leases; the cleanup ticker and `cache prune` take the context mutex. A
collection takes the write side of its lock, after the context mutexes were
released. Update requests are serialised by a mutex that is held through the
wait for active runs. A restart closes the listener, `Serve` returns an error
with the executable, and `main` replaces the process.

A synchronization moves its blobs over connections of their own, several at a time,
which belong to the session of a run by a token. The control connection of the run
carries, one after the other, the frames of the first sync, the user's input and
cancel together with the command's output, and the frames of the sync-back; a
goroutine reads it while the command runs, and the handler before and after. Log lines
of a request go over the same connection, from a queue with a goroutine of its own.
The host's identity and its file of pairing codes are shared with another process, the
command `rmtx host pair-code`; the client's table of hosts is shared by all its
commands. A command dials the host and, when that takes long, asks it by datagrams to
dial back.

What is hard. Every run can fail at every step (its client disconnects) and the
host can stop at every step, and what is then on disk is what the next run
starts from. Nothing is scanned before a sync: the host patches the workspace
by the difference of two manifests and relies on the older one describing the
files. Lists, deletes, prunes and collections work on the same files from
other goroutines. Connections break between any two frames, and a write that succeeded
may not have arrived; two readers may meet at one connection. Files are shared by
processes with a lock file, or none. `PROJECT.json` lists these hazards with their lines.

What makes each part correct:

* runs: the command starts from exactly the client's files, and a skipped setup
  has run in this workspace;
* leases: a clean lease's manifest describes its files; no lease disappears
  under a run or before its time; expired leases do disappear;
* apply: all or nothing, and what it replaces is never lost;
* blobs: what a sync found present is there when it is applied; references are
  kept; neither side starves unless a synchronization hangs;
* update: no run is cut off, the host comes back, clients are not left waiting,
  runs start on a host that is new enough;
* transfer: every requested blob arrives intact or the session fails, no chunk is
  counted twice, both sides agree; sender, receiver and workers mean the same chunks;
* run sessions: input and output in order, a cancel ends the command, the sync-back fails
  only for a known cause, both sides keep the results or neither does;
* logs: limits and order kept, losses marked, the answer last, no lost wake-up;
* pairing: a code is good once and until then; what the client keeps is trusted;
* identity: never an incomplete identity at rest, never a new one without need;
* connecting: a paired host is kept and found again, the connection leads to the
  chosen host, everything else is closed and its slots returned.

## Modules

| Module | Models | Checked by | Proofs |
|---|---|---|---|
| `Manifest` | trees of files, `Diff`, patches, partial patches | through `RunWorkspace`, `ApplyTx` | |
| `RunWorkspace` | one context: runs, workspaces, leases, setup key | `MCRunWorkspace` | `RunWorkspaceProofs` |
| `ApplyTx` | one `ApplyChanges` call | `MCApplyTx` | `ApplyTxProofs` |
| `BlobGC` | several contexts, the blob store, its collection | `BlobGC` | `BlobTransferProofs`, at its end |
| `HostUpdate` | several clients, the host process, its installs | `HostUpdate` | `HostIdentityProofs`, at its end |
| `Transfer` | what a synchronization expects of a transfer: blobs arrive, and it is done only with all of them | by refinement | `BlobTransferProofs` |
| `BlobTransfer` | one transfer over parallel connections, in either direction; implements `Transfer` | `MCBlobTransfer` | `BlobTransferProofs` |
| `ChunkPlan` | `PlanBlobChunks` and its arithmetic, chunk checks, groups and parallelism, as operators | `MCBlobTransfer` | `BlobTransferProofs` |
| `RunSession` | both ends of one run's control connection | `RunSession` | `RunSessionProofs` |
| `LogStream` | one request's log queue, its writer, its ticker and its handler | `LogStream` | `LogStreamProofs` |
| `HostIdentity` | `EnsureHostPKI` in two processes, certificates that expire, a paired client | `HostIdentity` | `HostIdentityProofs` |
| `Pairing` | codes, lock file, limits and trust of the host; two `rmtx pair` and another command of a client | `Pairing` | `PairingProofs` |
| `HostChoice` | the client's table of hosts and the choice among them | through `Connect` | `ConnectProofs` |
| `Connect` | `HostChoice`, with the race of dials and the host that dials back | `Connect` | `ConnectProofs` |

Definitions with a comment "Fault:" are deliberately wrong variants of the
one that follows them. No specification uses them; substituting one for its
original has to violate a property (`mutants` in `PROJECT.json`).

### RunWorkspace

The variables are the files of a context (`ws`, `tracked`, `cleaned`, `setupKey`,
`leaseDirs`, `leaseMeta`, `leaseTree`), the memory of the host (`stage` and what
the run has loaded, `active`, `deleting`, one list request) and a clock. A tree is
a function from paths to contents; what a path, a content and a time are does not
matter. The context's mutex is `stage`: "idle" when it is free. Each stage is
the part of `handleRunRequest` between two durable effects, because those are
the points where a failure or a stop of the host can be told apart:

    Begin, PrepareNew/MakeLeaseDir/CreateLease or PrepareReused,
    StartSync/StartFreshSync/StartLeaseSync, ApplySync, TrackManifest,
    ClearMarker, StartSetup/SaveSetup or SkipSetup, RunCommand, ScanWorkspace,
    SendChanges, SavePostRun or SaveLeaseMeta/SaveLeaseManifest,
    MarkCleaned, ForgetSetup, CleanWorkspace, Finish

A command and a setup may leave any files; a command that is stopped, too. `Crash`
loses the memory, keeps the files, leaves a partial patch, a half-emptied
workspace or a half-removed lease or context, and runs the startup prune. A list
request's prune is three steps (`ListLoad`, `ListCheck`, `ListRemove`).

History variables, which the code does not have, name the situations in which
the code does not keep its promise, so that the promise can be checked for all
the others: `stale` (an earlier default run was cut off, or the context was
half removed) and `torn` (a lease whose two files were not both written, or
that was half removed). These situations are real, see "Observations". The other
modules do the same (`acceptFailed`, `lost`, `stolen`, `raced`, `broken`, `orphaned`,
`overwritten`).

`ApplySync` takes `ApplyChanges` to apply all of a difference, and a failed one to
leave the files as they were. `ApplyTx` examines exactly that: it holds unless a
file is replaced by a directory, or an operation of the rollback fails too. A workspace that
such a rollback leaves behind is not in `RunWorkspace`: nothing in the code would notice that it
differs from its manifest.

### ApplyTx

One transaction over a small set of paths with a relation `Above`. A path holds
nothing, a file with a hash or a directory with a mode. The phases of `commit` are
steps per path, in any order of paths that respects depth; each may fail, and then
`rollback` goes on path by path: `RemoveInstalled`, `ReturnBackup`, `RestoreMode`,
`RemoveMade`, in four phases. Every one of these operations may be refused as well; the code joins
the error to the others and goes on, and `refused` has the path. Backups return before the
modes of directories do (`apply.go:327-339`), so that a directory that was already made
read-only refuses them. `DiscardBackups` is the deferred `RemoveAll` of the temporary directory
(`apply.go:57`): what has not returned by then is lost. With `Stale` the directory is not the one
that the difference was computed from. Symbolic links are left out: the code
treats them as files here, and refuses paths below them.

### BlobGC

Contexts run at most one request each (the context mutex). A run takes the read
lock, finds the missing hashes, receives them one by one, applies, saves the
tracked manifest and releases the lock; after its command it stores the changed
blobs and saves the manifest with no lock. The collector asks for the write lock,
reads the references of one context after another, and removes blobs one by one. The
lock is Go's `sync.RWMutex`: a waiting writer holds back new readers, and
`Unlock` lets the readers that waited in (external).

### HostUpdate

Clients of different versions ping the host, update it if it is older, and start
runs. The host installs, begins the restart, waits for active runs (or gives up
after its timeout and cancels), answers and closes its listener. `ServeReturns`
and `Restart` are `Serve` and `main`; a restart may fail and then ends the host's
life. `Prune` removes old installs. An error of `Accept` may make `Serve` return at any
time while a restart is pending; `acceptFailed` remembers that it did. `beginRestart`'s refusal
cannot happen, as its callers hold the update mutex and have checked for a pending restart; a
shutdown by signal is not modelled.

### Transfer, BlobTransfer, ChunkPlan

`BlobTransfer` has the receiver (`ChunkedBlobReceiver`: temporary files, chunks done,
blobs awaited, its error and its channel), which is the same on both sides and is
used by all connections at once; the connections with their frames; the client's
workers with their queues, attempts and chunks in flight; and the host's session. A
received chunk takes three steps, one per lock: `ReceiveWrite`, `ReceiveCommit`,
`ReceiveCount`. There are no acknowledgements. A worker whose write or read fails
repeats what it knows to be in flight on a new connection (`Retry`); a chunk that was
written to a connection which breaks later is not repeated in an upload, which
`lost` records. Faults are a broken connection, a failed dial, a source file that
changes, another run that stores the same blob, and a client that stops.
`ImplementsTransfer` shows `Transfer!Spec` under a mapping of the receiver's store and
of the outcome on the receiving side; `BlobGC`'s `ReceiveBlob` and `EndTransfer` rely on it.

`MCBlobTransfer` takes its plan from `ChunkPlan` and checks `ChunkPlan` itself, in
initial states only, over all pairs of blobs up to a size, all chunk sizes and numbers of connections.

### RunSession

The client, the host, the reader goroutine with its input queue, the command with its
output pipe or terminal, and the two directions of the connection. The reader's steps are those
of `consumePipeInput` and `consumeTTYInput`: check for a stop, set the deadline of the
connection, read a frame, hand it on, where it may have to wait. `StopReader` and
`ReaderStopped` are `stopInputReader`: it sets a deadline that the next `Read` of an idle
connection overwrites, and after its second gives up and goes on.

A terminal differs from a pipe in four ways. Its client sends the size of its window
(`SendResize`) from a goroutine that is told to stop when the exit code comes or the user
interrupts (`CloseSession`, `InterruptCloses`), and may send once more before it looks; its input
goes on until the client ends. Its command is given what is queued when it starts
(`StartCommand`, `AttachFails`). The reader's errors do not cancel the run. And its reader is
mostly not stopped at all: `CommandWaited`, `StartFails` and `AttachFails` have both ways, as the
output of a terminal ends with `EIO` and `run_tty_linux.go:63` then returns early, as lines 19 to
51 do. Such a reader goes on for the whole sync-back, and `BothRead` says when it waits for a
frame while the host does: the two share a buffer that has no lock, so that a frame goes to
either, or in parts to both, which ends one of them (`torn`). The race could also crash the
host; that is not modelled. `stolen` has that a frame of the sync-back was taken by a reader,
and `why` the reason for which the host failed.

What is sent on a broken connection is lost, so that the model does not send it. `got`, what the
command has read, is forgotten when the command has been waited for.

### LogStream

The queue with both limits, its goroutine, and the request's handler up to `Close`.
`Enqueue` is one step (it holds the mutex) and its loops are folds over the queue.
The condition variable is the sequence `sleepers`, so that `Signal` wakes the one that has
slept longest. Byte counts are real: lines have lengths, longer ones are cut.

### HostIdentity

Per process one call of `EnsureHostPKI`, a file operation a step: recover from the
pending record, read or create, rotate, write the record, commit the four files, remove
the record. A certificate is a number, and a pair of numbers says who signed it; dates
are the number up to which certificates have expired. `raced` records that an authority
was created while another call was under way: no lock prevents it.

### Pairing

The file of codes is a set of records: codes are numbered in the order of their creation, the file
lists each once and in that order, and `CreatePairCode` drops the oldest, so the numbers carry
the order. The lock file of the codes is a record with its owner and whether it is old; looking at
it, removing it and creating it are separate steps, as in `acquirePairCodeStoreLock`.
`broken` records that a lock was removed while its owner was still working. The client
side has the state file, read and written by two `rmtx pair` and by a command that
has found the host at another address.

### HostChoice and Connect

`HostChoice` has the table of known hosts and the operators of `app.go` and
`state.go` that search and change it, for all forms of `--host`, `--fingerprint`
and answers to a query. Hosts move between addresses. `Connect` extends it with a
command that dials: `dialFastestTLS` and its two goroutines, `acceptReverse` with the
goroutine of its own, the datagrams, the responder that claims a request, and the slots
of the host. A connection that is accepted after `acceptReverse` gave up is "leaked".

## Runs

| Run | Bounds | Shows |
|---|---|---|
| `default_ws` | 2 paths, 1 content, 2 crashes, context removal, setup | default workspaces have the client's files, and their setup has run in them |
| `lease_ws` | 2 leases, 1 path, 2 contents, clock 0..1, 1 crash, delete, ticker | reused leases have the client's files; no lease is lost under a run or early |
| `lease_cleanup` | 1 lease, clock 0..2, 1 crash, every other actor, list requests included; fair | expired leases are removed or renewed |
| `apply_tx` | paths `a`, `a/b`, `a/b/c`, 2 hashes, 2 modes, any base, target and actual directory, failure at any operation of the commit and of its rollback | a commit gives the target; nothing is lost before the backups are deleted; restored except where a directory was made or the rollback was refused |
| `blob_gc` | 2 contexts, 1 blob; fair | no hydration from a collected blob, references kept, no starvation at the lock unless a sync hangs |
| `update` | 2 clients, versions 0..2, Accept errors; fair | unless Accept fails: no run cut off, the host comes back, promises kept; always: requests and refusals end, runs are on a new enough host |
| `transfer` | 2 blobs (2 chunks and an empty one), 2 workers, 3 connections, window 2, 2 attempts, 1 fault; plans of blobs up to 5 bytes with chunks up to 3; fair | chunks and blobs counted once, stored intact; both sides agree; `Transfer` implemented; ends unless an upload's chunk was lost unnoticed; the plan is complete, accepted and shared out |
| `session` | pipe and terminal, 2 pieces of input, queue of 1, 1 fault, heartbeats and window sizes sent when nothing else is on its way (`MaxAhead` = 0); fair | input and output in order; results kept by both; the sync-back fails for a known cause only, late input is none; cancels and runs end, or wait for the user |
| `identity` | 1 pair-code call beside the host's, 2 faults, 1 expiry; fair | complete at rest; authority kept; clients accept the host after restarts; the host serves in the end |
| `pairing` | 2 sessions, 2 codes, 2 certificates, at most 2 active codes, 1 fault, 1 passage of time; fair | codes good once and until then; the kept certificate is trusted; requests end |
| `logs` | 5 lines of lengths 1, 2, 5; 4 bytes, 3 items, marker of 1; fair | limits, order, marked losses, answer last, no lost wake-up |
| `connect` | 2 hosts, 3 addresses, 3 moves, 4 pairings (1 of either before a dial), 2 requests, 3 connections, 1 fault; fair | paired hosts kept and found, connected to the chosen one, the rest closed, slots returned |

Every property has mutants: operators marked "Fault" that, put in the place of the
definition after them, violate it under the same configuration.

## Observations

Places where the code and its own words, or its evident intent, differ. Each was met
while modelling. The properties above are stated so that they hold around them, by a history
variable or an exception that their comments name; leaving it out shows the case in TLC.

* **A failed run's edits stay.** A run that ends with an error after its sync returns from
  `handleRunRequest` (`host/server.go:844`) without `cleanRunWorkspace`, and the next run
  compares manifests, not files. `README.md:285`: "default workspaces are scratch copies
  cleaned after each run". (`stale = "run"` in `DefaultSeesClientTree`;
  `run_recovery_test.go:375` keeps the workspace on purpose.)
* **A torn lease.** `saveWorkspaceLease` (`host/workspace_lease.go:404`) writes the metadata,
  clean already, before the manifest; a stop, or two failing writes, leave a clean lease with
  an old manifest. `README.md:130`: "If sync or sync-back fails, the workspace lease is
  marked dirty and cannot be reused." (`torn`)
* **List requests remove active leases.** `listWorkspaceLeases` prunes without the context's mutex
  (`host/workspace_lease.go:614`): it may take the directory of a lease that is being
  created for a leftover, or act on metadata read before a renewal. (`ActiveLeaseKept` and
  `UnexpiredLeaseKept` are checked and proved without list requests.)
* **One setup key for all workspaces.** The key is in the context's runtime directory
  (`host/oci_runner.go:585`): after a setup in one workspace a new lease skips it.
  `README.md:208`: "`setup.context_commands` run after workspace sync and before the
  requested command". A setup that fails also leaves the key of the one before.
  (`SetupRanInWorkspace` is checked for default workspaces.)
* **Rollback deletes a restored file.** When a file is replaced by a directory and the commit
  fails later, rollback moves the file back and then removes every created directory with
  `os.Remove` (`syncfs/apply.go:346`). `apply.go:35`: "restores every replaced path if commit
  fails". (`created` in `RestoredUnlessRefused`)
* **A rollback that is refused loses files.** The operations of a rollback are tried once each. Backups
  return before directory modes are restored (`apply.go:327-339`), so a directory that
  the commit has already made read-only keeps them out, and `RemoveAll(temp)` at `apply.go:57` deletes
  them: `ApplyChanges` reports the error, the old files are gone. (`refused` in
  `RestoredUnlessRefused`; `NothingLost` says that they are there until then)
* **Accept errors restart under runs.** `Serve` returns at any Accept error while a restart is
  pending (`host/server.go:569`), although `waitForActiveRuns` still waits.
  (`acceptFailed`)
* **A manifest may lose blobs.** It is saved after a command without the collection's lock;
  the next sync asks for them again. (`GcKeepsReferences`)
* **An upload can hang on a lost chunk** until its session times out: nothing repeats a chunk
  whose write succeeded. (`lost` in `TransferEnds`)
* **A late cancel fails the sync-back.** A cancel that is sent when the command has just ended is
  read where the sync-back's answer is expected, and an interrupted client stops its heartbeats.
  ("late cancel" and "silent" in `SyncBackFailsForCause`)
* **A late window size fails the sync-back.** `readClientNeedBlobs` and `readClientSyncComplete`
  (`host/server.go:1749-1811`) pass over input and heartbeats, but not over `resize_tty`, which a
  terminal's client sends until it has read the exit code, and may send a little later
  (`client/tty_linux.go:26`). ("late resize" in `SyncBackFailsForCause`)
* **A reader may still read during the sync-back.** The deadline of `stopInputReader` is overwritten by
  the next `Read`, and a terminal's reader is mostly not stopped. It can take a frame of the sync-back
  or part of one. The run then fails, or both sides wait, with heartbeats, until the
  user interrupts it. (`stolen` in `EndedCommandEndsRun`, "torn" in `SyncBackFailsForCause`)
* **A terminal's session may be closed twice at once**, by the exit code and by an interrupt
  (`client/tty_supported.go:86-91`): the second `close` of the channel panics. In `ClientReads` this is a
  way in which the client fails.
* **A cancel behind unread input is not seen**, and a terminal whose input overflows before the
  command starts no longer sees one. (exceptions in `CancelEndsCommand`)
* **A used code can come back** when two processes find the same old lock file: one removes the
  other's new one. `README.md:74` calls codes one-time. (`broken`)
* **Two creations of an identity race.** `EnsureHostPKI` takes no lock. (`raced`)
* **Pairing again can lose trust.** The previous certificate is removed before the answer is
  received (`host/server.go:1961`), and a command can save an older client state over a
  newer one. (`orphaned`, `overwritten`)
* **A pointer into the table of hosts.** `resolveClientHost` keeps it while
  `UpdateHostAddress` removes an old record without a fingerprint before it: the record behind is
  used, and the command refused. (exception in `PinnedFound`)
* **A reverse request is claimed before there is a slot** (`discovery.go:198`), so repetitions of it
  are in vain; and a connection accepted as `acceptReverse` gives up stays open until it idles
  out. ("leaked" in `OthersClosed`)
* **Stale temporary files** of transfers have names that the startup cleanup does not recognise
  (`host/artifacts.go:884`); not modelled.
* **The deferred close of an upload worker** is evaluated while its connection is nil
  (`client/client.go:2165`); the host closes the connection when it idles. Not modelled.

Why the bounds are enough to be interesting. One path with one content already
gives two trees, so a wrong base is visible; two paths are needed for partial
patches. Two leases let one be deleted or pruned while a run uses the other. A clock of two
ticks with a duration of one lets a lease expire, be renewed and expire again.
Two crashes let a recovery be interrupted. Two contexts let one sync while the
other is between storing and saving. Two clients of three versions let one run while the other updates, and one be told
of the other's restart to a version that is older than its own. Two workers with three
connections let a chunk be repeated on a third while the first still delivers it. A queue of
one piece is full at once, and the second piece comes while the command reads, after it has ended,
or in the sync-back; a window's size that is sent with nothing before it is followed by any frame
of the client, or by none. A rollback over three nested paths can be refused at each, above or
below what it restores. Four bytes and three items let each limit be the first to be
reached, and a line be longer than both. Two hosts with three addresses let one take over
the other's address and the other be found elsewhere. What is proved needs no bounds.

Fairness. A run is never assumed to go on: its command may run for ever and its client
may stay silent while the connection is kept alive. What needs others to finish says so
as a premise of the property. `RunWorkspace`: only the ticker's cleanup is fair (`SF`, as
Go's mutex hands itself to a waiter that has starved for a millisecond), and
`ExpiredLeaseRemoved` is about contexts whose mutex is free again and again. `BlobGC`:
`WF` for the collector, which only works on files; `SyncProceeds` and `GcProceeds` assume
that no synchronization hangs (`SyncsEnd`). `HostUpdate`: `WF` for the handler of each
request and for `Serve` and `main`, `SF` for the update mutex; nothing makes an active
run end, a client ask or a prune happen. `BlobTransfer`, `RunSession`, `Connect`: `WF` for the
goroutines of both programs, as idle deadlines, heartbeats and timeouts make each wait end;
nothing is assumed of the user, of the command and of the network. `LogStream`: `SF` for a write,
because a client that reads off and on lets it end. `HostIdentity`: a host that does not serve is
started again. `Pairing`: processes are not suspended for ever.

## Proofs

All theorems hold for every value of the constants that satisfies the named
assumptions: any paths, contents, leases, durations, contexts, clients, plans, limits. Each proof but
that of `PlanAgreedAlways`, which is about operators alone, has the same form: an inductive invariant holds initially, is kept by each action, and implies the
property; it was checked by TLC before it was proved.

`RunWorkspaceProofs`. `TypeCorrect` is by cases on the actions. The other
invariants are not inductive. `Shape` adds to `TypeOK` what each stage knows of the
request and its lease. `DefaultInv` says at every stage how the default workspace
relates to `tracked`, `cleaned` and `base`: between runs either the marker is there
or the files are those of the tracked manifest, unless `stale`; during a sync the
files are those of `base`. From it, `DefaultWorkspaceCorrect`. `LeaseInv` does the
same for leases: a clean lease has the files of its manifest, and the lease of a run in
progress is dirty on disk, so that a stop leaves it unusable; from it
`LeaseManifestCorrect` and `LeaseWorkspaceCorrect`. `ActiveInv` says that the lease of
a run is in `active` and neither pruned nor deleted; from it `ActiveLeaseSafe`
and `UnexpiredLeaseSafe`, both under the assumption that there are no list requests,
which is needed (see "Observations"). `SetupInv` says that a stored setup key comes with the
outputs of that setup, or with the marker that makes the next sync forget it, and that the
key is gone before the files are; from it `SetupNotSkippedWrongly`, for contexts without leases,
because leases share the key of their context.

`BlobGC`, at the end of `BlobTransferProofs`; its specification is `GcSpec`, over its own variables.
`GcLockInv` (readers exclude the collector), `GcFoundInv` (what a run found
or received is still in the store until it is applied) and `GcRefsInv` (what a
collection has read of a context covers that context's manifest, unless it was
saved since) give `HydrationSafe` and `CollectionKeepsReferences`.

`HostUpdate`, at the end of `HostIdentityProofs`; its specification is `UpdateSpec`, over its own
variables. `RunInv` (the number of active runs and where runs can be) gives `RunsOnNewHost`; `RestartInv` (what is pending, who holds the update mutex, what was
promised to whom) gives `RestartWaitsForRuns`, `RestartFindsExecutable` and
`RestartHappens`, together `RestartDone`: `RestartInv` holds until `Accept` fails while a restart is
pending.

`ApplyTxProofs`. The properties speak of the end of a commit or of its rollback; `TxInv` has
what each loop has done so far (`LoopInv`), where each path that was moved aside is (`BackupInv`), that
everything else which was there is still there but for its mode (`KeptInv`), and what new
paths there are and why (`NewInv`, `GoneInv`). The set `moved` of the paths that lie under a backup is
what connects them. `UndoInv` goes on from there through the four phases of the rollback: what each
has undone, and that a path which is not as it was is still to be undone, was refused, is
below a path that was, or is an exception that the property names. From these
`CommitGivesTargetAlways`, `NothingLostAlways` and `RestoredUnlessRefusedAlways`, for a failure at
any operation of either. The proof needs that the directories above a path form a chain, which
`PathAssumption` states.

`BlobTransferProofs`. `CountInv` says what `CountedOnce` leaves open: which connection has written the
last chunk of a blob, that no other one does so for this blob, and that the file is open until
that connection has counted it; this is why the count cannot go wrong between the locks. `OwnInv` says that
a chunk is with one worker at most, so that the attempts of one do not use up those of
another. `EndInv` relates the ends of the two sides to the store. From these `CountedOnceAlways`,
`HostAgreesAlways` and `ImplementsTransferAlways`: every step is a step of `Transfer` or changes nothing of
it, in both directions. The plan is assumed to have no chunk twice: `PlanBlobChunks` refuses
a hash that it has seen, and the offsets of a blob differ.

The same module has `PlanAgreedAlways`, about `ChunkPlan`: for any largest size, chunk sizes and limits,
`PlanCovers`, `PlanAccepted` and `PlanShared` give the three parts of `PlanAgreed`. The argument is that of
division with a remainder: `CountFacts` and `ChunkFacts` say where the chunks of a blob begin and what each has
of it, so that one chunk has a given byte (`CoveredOnce`); `PayloadIs` says when the receiver
takes a payload for right, which is only for an offset that is planned. `PlanIs` says what a plan is; its folds over the
blobs need no induction, as a plan of one or two blobs takes two steps (`TotalFacts`,
`FlattenFacts`). `GroupsFacts` is about dealing out any sequence without
repetition: chunk `j` is in one group, at one place. Besides `ChunkPlanAssumption` it assumes that the value which
stands for an error is no plan (`MCBlobTransferAssumption`).

`RunSessionProofs`. `FeedInv` says that the command's input followed by the queue is 1, 2, 3 and so on
up to what the reader has handed on, as long as it will be fed to the command; `CountInv` bounds it by
what was sent. `UploadInv`, `SyncBackInv` and `EndInv` say which frames of the synchronizations can be under way
in which states of the two ends, and `CommandInv` when there is output. `CauseInv` says where
window sizes, cancels and torn frames come from: only a terminal's client sends sizes, a pipe's
reader has been told to stop before the host reads itself, and the deadline is only set then. From these
`StreamsInOrderAlways`, `BothKeepResultsAlways` and `SyncBackFailsForCauseAlways`.

`HostIdentityProofs`. `TypeInv` and `RestInv` (a file that exists never disappears, and the record
stays until all four exist) give `CompleteAtRestAlways`, whatever calls overlap. `AuthorityInv` holds
while no creation has raced: a call that creates an authority is alone, files and calls
belong to the current authority, and clients know it or one that is over; from it `IdentityKeptAlways` and
`PinnedHostAcceptedAlways`.

`PairingProofs`. `PhaseInv` says what is known of a request at each of its steps: a code is accepted
only by its consumption, and only then is the certificate trusted. `LockHeld` says that the lock file belongs to the
one process that works on the file of codes, alive; it holds until a lock is removed while its owner
works (`broken`), which the property excepts. Under it `FileInv`: what a process is about to write back is
what the file has, a consumed code is never unused in it, and every code ever created is in it, consumed, expired or
followed by `MaxActive` others. The last part rests on `NewCodeKeeps`, a counting argument about what
`CreatePairCode` drops. From these `CodesGoodOnceAlways`. `FreshInv` says that a certificate which is signed and
not yet saved is known to one session only, so that nobody's pairing revokes it, and that it is
trusted once the request was accepted; from it `PairedIsTrustedAlways`. Both assume that
sessions are finitely many, which the bound on codes needs.

`LogStreamProofs`. `LimitsInv` is `WithinLimits` with the sleepers of the condition variable
(`Waiting`): `Enqueue` sheds items until the new one fits, so that the proof is about what
shedding leaves (`ShedFacts`) and that the sum of the bytes goes down with each
item removed (`SumWithout`). `LossInv` adds where each thread is (`ControlInv`) and `StreamInv`: the numbers
of the stream ascend, and every line that is gone has a marker behind everything older, in the queue,
at the writer or at the client. From these `LogsWithinLimits` and `LogLossMarked`. `Sum` is a recursive
function, whose value a proof may use only once it is known that such a function exists.
Induction being out of the provers' reach, `TotalsExist` takes the least length for which there is none
(`NatLessThanWellFounded`) and refutes it.

`ConnectProofs`. `Sound` says of the table of hosts that no two records have the same fingerprint, that a
record with a fingerprint is of a host that has issued a certificate and has the latest one, and that each
such host has a record. It is about any table and any certificates, so that the same lemmas hold for
the table on disk and for the one in memory of `resolveClientHost`: pairing (`UpsertSound`), removing old
records from the slice while a pointer into it is held (`RemoveFacts`), changing an address
(`UpdateFacts`). `InOrder`, the slots that are left in their order, is shown to exist and
to lose nothing in `OrderExists` and `InOrderFacts`, by a least counterexample again. `RaceInv` is
about the race: the certificate of the command is the one last issued (`CommandInv`); nothing of a command
is left over when there is none, and no request outlives its listener (`IdleInv`); which dial owns a connection that is
open (`DirectInv`, `ReverseInv`); and a connected command keeps one connection, to the right host (`KeptInv`).
From these `ConnectPinnedFound`, `ConnectConnectedToChosen` and `ConnectOthersClosed`, for any hosts,
addresses, connections and limits. `HostChoiceAssumption` has what this needs: hosts and addresses are finitely many,
there is a host, every host can have an address of its own, and `None` is none of them and no record.

Only model-checked, and why:

* all liveness properties, which need fairness;
* what a plan of more than two blobs covers: a plan is a fold over the blobs, so this needs induction. `PlanAgreed` is
  about one and two blobs, of any size;
* what list requests may do to leases, and that requests and refusals end after Accept errors.

## Not modelled, and what is left

Worth modelling next: the workspace that a partly refused rollback leaves, in `RunWorkspace`; the
client's own caches (manifest cache, cache lock, prune); the references
of prepared runtimes to shared bases and images and their pruning, which has the shape of
`BlobGC`; operators for semantic versions, exclude patterns and the selection by `sync_back`.

Left out for good: command line and configuration parsing, terminal modes, machine
statistics, the Windows and WSL variants of file operations, Linux namespaces
and mounts, registry requests and TLS itself: input and output with no state of
rmtx's own that a model could get wrong.
