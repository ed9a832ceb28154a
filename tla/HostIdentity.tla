---------------------------- MODULE HostIdentity ----------------------------
(***************************************************************************)
(* The host's identity (security/pki.go): a certificate authority and a    *)
(* server certificate, in four files that EnsureHostPKI creates, reads,    *)
(* rotates and, after a crash, completes from a pending record.  It is     *)
(* called when the host starts, for every pair-code request (pair_code.go) *)
(* and by the command `rmtx host pair-code`, which is another process; no  *)
(* lock is held.  A client that has paired remembers the fingerprint of    *)
(* the authority and refuses every other one.                              *)
(*                                                                         *)
(* An authority is a number, the same in its certificate and in its key; a *)
(* server certificate and its key are the authority that signed and a      *)
(* number of their own.                                                    *)
(***************************************************************************)
EXTENDS Integers, Sequences, FiniteSets

CONSTANTS
    None,
    MaxCalls,       \* bound: pair-code requests and commands
    MaxFaults,      \* bound: crashes, and file operations that fail
    MaxExpiries     \* bound: times at which certificates expire

\* The order in which commitHostPKI writes and readHostPKI reads.
Order == <<"CACert", "CAKey", "ServerCert", "ServerKey">>
Files == {Order[k] : k \in 1..4}
NoFiles == [f \in Files |-> None]

ASSUME HostIdentityAssumption ==
    /\ {MaxCalls, MaxFaults, MaxExpiries} \subseteq Nat
    /\ None \notin Nat /\ None \notin Nat \X Nat
    /\ None \notin [Files -> {None} \cup Nat \cup (Nat \X Nat)]

\* The host's process and the command's.  A second pair-code request that the
\* host handles at the same time does what the command does.
Procs == {"host", "cli"}

VARIABLES
    file,       \* the four files
    pending,    \* paths.Pending: the record of a write, or None
    call,       \* per process the call of EnsureHostPKI it is in
    serving,    \* the host's HostPKI in memory while it serves, or None
    started,    \* the expired server certificates when it started
    shown,      \* the fingerprint that came with the latest pairing code
    pinned,     \* the fingerprint that a paired client has remembered
    authorities, servers,   \* the numbers in use so far
    oldCA, oldServer,       \* up to which of them they have expired
    calls, faults, expiries,
    raced       \* history: an authority was created while another call was under way

disk == <<file, pending>>
numbers == <<authorities, servers>>
clock == <<oldCA, oldServer, expiries>>
vars == <<disk, call, serving, started, shown, pinned, numbers, clock,
          calls, faults, raced>>

Idle == [pc |-> "idle", k |-> 1, pki |-> NoFiles, then |-> "done", fresh |-> FALSE]

Init ==
    /\ file = NoFiles /\ pending = None
    /\ call = [p \in Procs |-> Idle]
    /\ serving = None /\ started = 0
    /\ shown = None /\ pinned = None
    /\ authorities = 0 /\ servers = 0
    /\ oldCA = 0 /\ oldServer = 0
    /\ calls = 0 /\ faults = 0 /\ expiries = 0
    /\ raced = FALSE

Active(p) == call[p].pc # "idle"
At(p, pc) == call[p].pc = pc
Goto(p, pc) == call' = [call EXCEPT ![p] = [@ EXCEPT !.pc = pc, !.k = 1]]

\* EnsureHostPKI returns an error: the host does not start, a request or the
\* command fails.
ReturnError(p) == call' = [call EXCEPT ![p] = Idle]

-----------------------------------------------------------------------------
(* What makes an identity usable *)

\* hostCARotationState: the authority is valid now, and its key is its own.
CAUsable(pki) == pki["CACert"] > oldCA /\ pki["CACert"] = pki["CAKey"]

\* validTLSKeyPair and certSignedBy.
ServerPairFits(pki) == pki["ServerCert"] = pki["ServerKey"]
SignedByCA(pki) == pki["ServerCert"][1] = pki["CACert"]

\* Fault: the dates of the server certificate are not looked at.
PairFitsAndSigned(pki) == ServerPairFits(pki) /\ SignedByCA(pki)

\* hostServerRotationState
ServerUsable(pki) ==
    /\ pki["ServerCert"][2] > oldServer
    /\ ServerPairFits(pki)
    /\ SignedByCA(pki)

\* What has to be made anew; a server certificate alone only for a sound authority.
hostPKIRotation(pki) ==
    IF ~CAUsable(pki) THEN "ca" ELSE IF ServerUsable(pki) THEN "nothing" ELSE "server"

\* generateHostPKI and generateServerKeyPair
FreshPKI ==
    [f \in Files |-> IF f \in {"CACert", "CAKey"} THEN authorities + 1
                     ELSE <<authorities + 1, servers + 1>>]
FreshServer(pki) ==
    [pki EXCEPT !["ServerCert"] = <<pki["CACert"], servers + 1>>,
                !["ServerKey"] = <<pki["CACert"], servers + 1>>]

\* verifyPeerChain: what a client demands that expects a fingerprint.  The chain
\* that the host sends is its server certificate and its authority's.
Accepts(pki, fingerprint) ==
    /\ pki["ServerCert"][2] > oldServer
    /\ pki["CACert"] = fingerprint
    /\ SignedByCA(pki)
    /\ pki["CACert"] > oldCA

-----------------------------------------------------------------------------
(* EnsureHostPKI *)

\* host.New, createPairCodeInfo for a request of a client, or for the command.
Begin(p) ==
    /\ ~Active(p)
    /\ IF p = "host" /\ serving = None THEN UNCHANGED calls
       ELSE calls < MaxCalls /\ calls' = calls + 1
    /\ Goto(p, "recover")
    /\ raced' = (raced \/ \E q \in Procs : call[q].fresh)
    /\ UNCHANGED <<disk, serving, started, shown, pinned, numbers, clock, faults>>

Unmoved == UNCHANGED <<serving, started, shown, pinned, clock, calls>>

\* Fault: a record is taken for the write of another process.
RefusePending(p) ==
    /\ At(p, "recover")
    /\ IF pending = None THEN Goto(p, "read") ELSE ReturnError(p)
    /\ UNCHANGED <<disk, numbers, faults, raced>> /\ Unmoved

\* recoverPendingHostPKI, its beginning.
RecoverRead(p) ==
    /\ At(p, "recover")
    /\ IF pending = None THEN Goto(p, "read")
       ELSE call' = [call EXCEPT ![p] =
                        [@ EXCEPT !.pc = "commit", !.pki = pending, !.then = "read"]]
    /\ UNCHANGED <<disk, numbers, faults, raced>> /\ Unmoved

\* One file of readHostPKI; one that is missing ends it.
ReadFile(p) ==
    /\ At(p, "read")
    /\ LET k == call[p].k  f == Order[k] IN
       IF file[f] = None THEN Goto(p, "missing")
       ELSE call' = [call EXCEPT ![p] =
                [@ EXCEPT !.pki[f] = file[f],
                          !.k = IF k = 4 THEN 1 ELSE k + 1,
                          !.pc = IF k = 4 THEN "rotate" ELSE "read"]]
    /\ UNCHANGED <<disk, numbers, faults, raced>> /\ Unmoved

\* A new authority, with a new server certificate.
Create(p, then) ==
    /\ call' = [call EXCEPT ![p] = [pc |-> "pending", k |-> 1, pki |-> FreshPKI,
                                    then |-> then, fresh |-> TRUE]]
    /\ authorities' = authorities + 1 /\ servers' = servers + 1
    /\ raced' = (raced \/ \E q \in Procs \ {p} : Active(q))

\* Its four calls of os.Stat are one step here.
missingHostPKIFiles == Cardinality({f \in Files : file[f] = None})

\* loadOrCreateHostPKI when a file was missing: a host without any is a new one.
LoadMissing(p) ==
    /\ At(p, "missing")
    /\ IF missingHostPKIFiles = 4 THEN Create(p, "rotate")
       ELSE ReturnError(p) /\ UNCHANGED <<numbers, raced>>
    /\ UNCHANGED <<disk, faults>> /\ Unmoved

\* Fault: an authority that has not expired but whose server certificate is of no
\* use is replaced as well.
RotateAll(p) ==
    /\ At(p, "rotate")
    /\ LET pki == call[p].pki IN
       IF ~(CAUsable(pki) /\ ServerUsable(pki)) THEN Create(p, "done")
       ELSE Goto(p, "done") /\ UNCHANGED <<numbers, raced>>
    /\ UNCHANGED <<disk, faults>> /\ Unmoved

\* Fault: a new authority is not written.
RotateInMemory(p) ==
    /\ At(p, "rotate")
    /\ LET pki == call[p].pki IN
       IF CAUsable(pki) /\ ServerUsable(pki)
       THEN Goto(p, "done") /\ UNCHANGED <<numbers, raced>>
       ELSE /\ call' = [call EXCEPT ![p] = [@ EXCEPT !.pc = "done",
                            !.pki = IF CAUsable(pki) THEN FreshServer(pki) ELSE FreshPKI]]
            /\ servers' = servers + 1
            /\ authorities' = IF CAUsable(pki) THEN authorities ELSE authorities + 1
            /\ UNCHANGED raced
    /\ UNCHANGED <<disk, faults>> /\ Unmoved

\* rotateHostPKI
Rotate(p) ==
    /\ At(p, "rotate")
    /\ LET pki == call[p].pki IN
       \/ hostPKIRotation(pki) = "ca" /\ Create(p, "done")
       \/ /\ hostPKIRotation(pki) = "server"
          /\ call' = [call EXCEPT ![p] = [@ EXCEPT !.pc = "pending",
                                               !.pki = FreshServer(pki), !.then = "done"]]
          /\ servers' = servers + 1
          /\ UNCHANGED <<authorities, raced>>
       \/ /\ hostPKIRotation(pki) = "nothing"
          /\ Goto(p, "done")
          /\ UNCHANGED <<numbers, raced>>
    /\ UNCHANGED <<disk, faults>> /\ Unmoved

\* Fault: there is no record of the write.
CommitWithoutRecord(p) ==
    /\ At(p, "pending")
    /\ Goto(p, "commit")
    /\ UNCHANGED <<disk, numbers, faults, raced>> /\ Unmoved

\* writeHostPKI, its beginning: the record is written before any file.
WritePending(p) ==
    /\ At(p, "pending")
    /\ pending' = call[p].pki
    /\ Goto(p, "commit")
    /\ UNCHANGED <<file, numbers, faults, raced>> /\ Unmoved

\* commitHostPKI: one file, written atomically.
CommitFile(p) ==
    /\ At(p, "commit")
    /\ LET k == call[p].k IN
       /\ file' = [file EXCEPT ![Order[k]] = call[p].pki[Order[k]]]
       /\ call' = [call EXCEPT ![p] = [@ EXCEPT !.k = IF k = 4 THEN 1 ELSE k + 1,
                                                !.pc = IF k = 4 THEN "remove" ELSE "commit"]]
    /\ UNCHANGED <<pending, numbers, faults, raced>> /\ Unmoved

\* The record is removed; that it is gone already is an error.
RemovePending(p) ==
    /\ At(p, "remove")
    /\ pending' = None
    /\ IF pending = None THEN ReturnError(p) ELSE Goto(p, call[p].then)
    /\ UNCHANGED <<file, numbers, faults, raced>> /\ Unmoved

\* EnsureHostPKI returns.  The host starts to serve with ServerTLSConfig, unless
\* the key does not fit; a request and the command give out the fingerprint.
Finish(p) ==
    /\ At(p, "done")
    /\ LET pki == call[p].pki IN
       IF p = "host" /\ serving = None
       THEN /\ serving' = IF ServerPairFits(pki) THEN pki ELSE None
            /\ started' = oldServer
            /\ UNCHANGED shown
       ELSE shown' = pki["CACert"] /\ UNCHANGED <<serving, started>>
    /\ call' = [call EXCEPT ![p] = Idle]
    /\ UNCHANGED <<disk, pinned, numbers, clock, calls, faults, raced>>

\* An operation on a file fails.
FileFails(p) ==
    /\ call[p].pc \in {"recover", "read", "missing", "pending", "commit", "remove"}
    /\ faults < MaxFaults /\ faults' = faults + 1
    /\ ReturnError(p)
    /\ UNCHANGED <<disk, numbers, raced>> /\ Unmoved

Ensure(p) ==
    \/ RecoverRead(p) \/ ReadFile(p) \/ LoadMissing(p) \/ Rotate(p)
    \/ WritePending(p) \/ CommitFile(p) \/ RemovePending(p) \/ Finish(p)

-----------------------------------------------------------------------------
(* The world *)

\* A process stops, at any point.  The host may also be stopped in good order,
\* which has no more effect here.
Crash(p) ==
    /\ Active(p) \/ (p = "host" /\ serving # None)
    /\ faults < MaxFaults /\ faults' = faults + 1
    /\ ReturnError(p)
    /\ serving' = IF p = "host" THEN None ELSE serving
    /\ UNCHANGED <<disk, started, shown, pinned, numbers, clock, calls, raced>>

\* A client pairs with the host that serves.
ClientPairs ==
    /\ serving # None /\ Accepts(serving, serving["CACert"])
    /\ pinned' = serving["CACert"] /\ pinned' # pinned
    /\ UNCHANGED <<disk, call, serving, started, shown, numbers, clock, calls,
                   faults, raced>>

\* A year or ten go by, in which the server certificates, or all, expire.  A call
\* takes no time in comparison.
Expire(ca) ==
    /\ expiries < MaxExpiries /\ expiries' = expiries + 1
    /\ \A p \in Procs : ~Active(p)
    /\ oldServer' = servers
    /\ oldCA' = IF ca THEN authorities ELSE oldCA
    /\ UNCHANGED <<disk, call, serving, started, shown, pinned, numbers, calls,
                   faults, raced>>

Next ==
    \/ \E p \in Procs : Begin(p) \/ Ensure(p) \/ FileFails(p) \/ Crash(p)
    \/ ClientPairs
    \/ \E ca \in BOOLEAN : Expire(ca)

Spec == Init /\ [][Next]_vars

\* A call is not suspended for ever, and a host that does not serve is started.
FairSpec ==
    /\ Spec
    /\ \A p \in Procs : WF_vars(Ensure(p))
    /\ WF_vars(serving = None /\ Begin("host"))

-----------------------------------------------------------------------------
(* Properties *)

\* A file holds nothing, an authority, or a pair of an authority and a number.
IsPKI(pki, cas, certs) ==
    /\ pki = [f \in Files |-> pki[f]]
    /\ \A f \in Files :
          pki[f] # None => pki[f] \in IF f \in {"CACert", "CAKey"} THEN 1..cas
                                     ELSE (1..cas) \X (1..certs)

TypeOK ==
    /\ IsPKI(file, authorities, servers)
    /\ pending # None => /\ IsPKI(pending, authorities, servers)
                         /\ \A f \in Files : pending[f] # None
    /\ serving # None => IsPKI(serving, authorities, servers)
    /\ \A p \in Procs :
          /\ call[p].pc \in {"idle", "recover", "commit", "remove", "read", "missing",
                             "rotate", "pending", "done"}
          /\ IsPKI(call[p].pki, authorities, servers) /\ call[p].k \in 1..4
          /\ call[p].pc \in {"rotate", "pending", "commit", "remove", "done"} =>
                \A f \in Files : call[p].pki[f] # None
    /\ {shown, pinned} \subseteq 0..authorities \cup {None}
    /\ oldCA <= authorities /\ oldServer <= servers /\ started <= oldServer

\* Every file holds what is made for it, and a record is complete.  However calls
\* overlap, fail or are cut off, they never leave some of the files behind without a
\* record that completes them: EnsureHostPKI would refuse an incomplete identity
\* from then on.
CompleteAtRest ==
    /\ TypeOK
    /\ (\A p \in Procs : ~Active(p)) =>
          \/ file = NoFiles
          \/ \A f \in Files : file[f] # None
          \/ pending # None

\* The authority, which paired clients know the host by, is replaced only when it
\* has expired: not by a crash, by the recovery from it, or by a new server
\* certificate.  Only when an authority is created while another call is under way
\* may the other one take its files for damaged, or replace them by its own.
IdentityKept ==
    [][file["CACert"] # None /\ file'["CACert"] # file["CACert"]
          => raced \/ file["CACert"] <= oldCA]_vars

\* A paired client is accepted by, and accepts, the host after every restart: the
\* certificates a host starts with are valid and belong together.  What can end it
\* are the dates passing while the host serves, and an authority's end.  Nor does a
\* pairing code come with the fingerprint of another host than the one that serves.
PinnedHostAccepted ==
    serving # None /\ ~raced =>
        /\ pinned # None => \/ Accepts(serving, pinned)
                            \/ pinned <= oldCA
                            \/ oldServer > started
        /\ shown # None => \/ shown = serving["CACert"]
                           \/ shown <= oldCA \/ serving["CACert"] <= oldCA

\* The host comes to serve and stays, once nothing fails any more: no combination
\* of crashes, failures and overlapping calls leaves files it cannot start with.
HostServes == <>[](serving # None)
=============================================================================
