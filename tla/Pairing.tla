------------------------------ MODULE Pairing -------------------------------
(***************************************************************************)
(* Pairing a client with the host: one-time codes in a file that the host  *)
(* and the command `rmtx host pair-code` share under a lock file           *)
(* (host/pairing_store.go), the host's handlers (host/server.go,           *)
(* pair_limit.go, trust_store.go) and the client's `rmtx pair`, several of *)
(* which may run on one machine (app/app.go, clientstate/state.go).        *)
(*                                                                         *)
(* Codes and certificates are numbers in the order of their creation; that *)
(* two codes among a million are the same by chance is left out.  The file *)
(* lists each code once, in that order, so a set of records stands for it. *)
(***************************************************************************)
EXTENDS Integers, FiniteSets

CONSTANTS
    Sessions,       \* runs of `rmtx pair` on one machine
    None,
    MaxActive,      \* maxActivePairCodes
    Limit,          \* maxPairCodeRequests, maxPairAttempts
    MaxWindows,     \* maxPairLimitWindows
    MaxCodes,       \* bound: codes
    MaxCerts,       \* bound: certificates
    MaxPairs,       \* bound: runs of `rmtx pair` in all
    MaxRuns,        \* bound: other commands that move the host's address
    MaxPolls,       \* bound: looks at the lock before pairCodeLockWait is over
    MaxFaults,      \* bound: crashes, broken connections and failing files
    MaxAges         \* bound: times at which something grows old

Callers == Sessions \cup {"cli"}

\* A lock file: who made it, whether that process is alive, and whether it is stale.
Locks == [by : Callers, alive : BOOLEAN, old : BOOLEAN]

ASSUME PairingAssumption ==
    /\ {MaxActive, Limit, MaxWindows} \subseteq Nat \ {0}
    /\ {MaxCodes, MaxCerts, MaxPairs, MaxRuns, MaxPolls, MaxFaults, MaxAges} \subseteq Nat
    /\ IsFiniteSet(Sessions)
    /\ "cli" \notin Sessions /\ None \notin Sessions \cup Nat \cup Locks

VARIABLES
    \* The files of the host.
    store,      \* pair-codes.json: the codes, each used or not
    lock,       \* pair-codes.lock, or None
    trusted,    \* trusted-clients.json
    \* The host.
    mu,         \* pairCodeStoreMu of the host's process: its holder, or None
    windows,    \* pairLimits: the requests counted of each kind
    handler,    \* per session the request being handled; and the command
    \* The client's machine.
    record,     \* the certificate in its state file, or None
    client,     \* per session how far completePair is
    run,        \* the certificate another command has loaded and will save, or None
    \* Clocks, counters and bounds.
    issued, expired, given, certs, pairs, runs, faults, ages,
    \* History.
    paid,       \* <<code, certificate>> for every code consumed
    orphaned,   \* certificates replaced for a session that did not save the new one
    overwritten,\* a command saved an older certificate than it found
    broken      \* a lock was removed while the process that holds it was working

hostFiles == <<store, lock, trusted>>
clientVars == <<record, client, run, pairs, runs>>
history == <<paid, orphaned, overwritten, broken>>
vars == <<hostFiles, mu, windows, handler, clientVars, issued, expired, given, certs,
          faults, ages, history>>

Free == [pc |-> "idle", op |-> "none", code |-> 0, cert |-> 0, mem |-> {}, ok |-> FALSE,
         polls |-> 0]
Away == [pc |-> "idle", prev |-> None, code |-> 0, cert |-> 0]

Init ==
    /\ store = {} /\ lock = None /\ trusted = {}
    /\ mu = None /\ windows = [k \in {} |-> 0]
    /\ handler = [c \in Callers |-> Free]
    /\ record = None /\ run = None
    /\ client = [s \in Sessions |-> Away]
    /\ issued = 0 /\ expired = 0 /\ given = {} /\ certs = 0 /\ pairs = 0 /\ runs = 0
    /\ faults = 0 /\ ages = 0
    /\ paid = {} /\ orphaned = {} /\ overwritten = FALSE /\ broken = FALSE

Busy(c) == handler[c].pc # "idle"
At(c, pc) == handler[c].pc = pc
Goto(c, pc) == handler' = [handler EXCEPT ![c].pc = pc]

\* The steps between acquiring and releasing the lock.
Working(c) == handler[c].pc \in {"load", "save", "unlock"}

-----------------------------------------------------------------------------
(* The store of codes *)

\* Lock of the mutex: the command's process has one of its own.
LockMutex(c) ==
    /\ At(c, "mutex")
    /\ c # "cli" => mu = None
    /\ mu' = IF c = "cli" THEN mu ELSE c
    /\ Goto(c, "lock")
    /\ UNCHANGED <<hostFiles, windows, clientVars, issued, expired, given, certs, faults,
                   ages, history>>

Kept == UNCHANGED <<trusted, windows, clientVars, given, certs, ages, expired>>

\* acquirePairCodeStoreLock: the file is created, or there is one.
CreateLock(c) ==
    /\ At(c, "lock")
    /\ lock' = IF lock = None THEN [by |-> c, alive |-> TRUE, old |-> FALSE] ELSE lock
    /\ Goto(c, IF lock = None THEN "load" ELSE "stat")
    /\ UNCHANGED <<store, mu, issued, faults, history>> /\ Kept

\* Fault: the result of ConsumePairCode is not looked at.
AfterStoreAnyway(c) ==
    IF handler[c].op = "pair" THEN "trust" ELSE "answer"

\* handlePairRequest goes on to trust the client if its code was accepted.
AfterStore(c) ==
    IF handler[c].op = "pair" /\ handler[c].ok THEN "trust" ELSE "answer"

\* CreatePairCode or ConsumePairCode returns.
Return(c) ==
    /\ Goto(c, AfterStore(c))
    /\ mu' = IF mu = c THEN None ELSE mu

\* Fault: an old lock file is waited for until it has gone.
StatPatiently(c) ==
    /\ At(c, "stat")
    /\ lock = None /\ Goto(c, "lock")
    /\ UNCHANGED <<store, lock, mu, issued, faults, history>> /\ Kept

\* os.Stat: a file that has gone is tried again, an old one is to be removed, for
\* any other the caller polls until its time is over.
StatLock(c) ==
    /\ At(c, "stat")
    /\ \/ lock = None /\ Goto(c, "lock") /\ UNCHANGED mu
       \/ lock # None /\ lock.old /\ Goto(c, "steal") /\ UNCHANGED mu
       \/ /\ lock # None /\ ~lock.old /\ handler[c].polls < MaxPolls
          /\ handler' = [handler EXCEPT ![c].pc = "lock", ![c].polls = @ + 1]
          /\ UNCHANGED mu
       \/ lock # None /\ ~lock.old /\ Return(c)
    /\ UNCHANGED <<store, lock, issued, faults, history>> /\ Kept

\* What becomes of history when c removes the lock file.
LockRemoved(c) ==
    /\ lock' = None
    /\ broken' = (broken \/ (lock # None /\ lock.by # c /\ lock.alive))

\* The old lock file is removed, whatever it is by now.
StealLock(c) ==
    /\ At(c, "steal")
    /\ LockRemoved(c)
    /\ Goto(c, "lock")
    /\ UNCHANGED <<store, mu, issued, faults, paid, orphaned, overwritten>> /\ Kept

LoadStore(c) ==
    /\ At(c, "load")
    /\ handler' = [handler EXCEPT ![c].pc = "save", ![c].mem = store]
    /\ UNCHANGED <<store, lock, mu, issued, faults, history>> /\ Kept

\* Fault: one code too many is dropped.
WithNewCodeTight(codes, code) ==
    LET active == {r \in codes : ~r.used /\ r.code > expired}
        newer(r) == {x \in active : x.code > r.code}
    IN  {r \in active : Cardinality(newer(r)) < MaxActive - 2}
            \cup {[code |-> code, used |-> FALSE]}

\* CreatePairCode: used and expired codes go, and the oldest if there are too many.
WithNewCode(codes, code) ==
    LET active == {r \in codes : ~r.used /\ r.code > expired}
        newer(r) == {x \in active : x.code > r.code}
    IN  {r \in active : Cardinality(newer(r)) < MaxActive - 1}
            \cup {[code |-> code, used |-> FALSE]}

CreateSave(c) ==
    /\ At(c, "save") /\ handler[c].op = "code"
    /\ issued' = issued + 1
    /\ store' = WithNewCode(handler[c].mem, issued + 1)
    /\ handler' = [handler EXCEPT ![c] =
            [@ EXCEPT !.pc = "unlock", !.code = issued + 1, !.ok = TRUE, !.mem = {}]]
    /\ UNCHANGED <<lock, mu, faults, history>> /\ Kept

\* Fault: a code that was used is taken again.
ValidUsed(codes, code) == code > expired /\ \E r \in codes : r.code = code

\* validPairCodeIndex finds the record of the code, neither used nor expired.
ValidPairCode(codes, code) ==
    code > expired /\ [code |-> code, used |-> FALSE] \in codes

\* The codes after the use of one of them.
WithUsed(codes, code) ==
    {r \in codes : r.code # code} \cup {[code |-> code, used |-> TRUE]}

ConsumeSave(c) ==
    /\ At(c, "save") /\ handler[c].op = "pair"
    /\ LET h == handler[c]
           valid == ValidPairCode(h.mem, h.code)
       IN  /\ store' = IF valid THEN WithUsed(h.mem, h.code) ELSE store
           /\ paid' = IF valid THEN paid \cup {<<h.code, h.cert>>} ELSE paid
           /\ handler' = [handler EXCEPT ![c] =
                    [@ EXCEPT !.pc = "unlock", !.ok = valid, !.mem = {}]]
    /\ UNCHANGED <<lock, mu, issued, faults, orphaned, overwritten, broken>> /\ Kept

\* The code file cannot be read or written.
StoreFails(c) ==
    /\ handler[c].pc \in {"load", "save"}
    /\ faults < MaxFaults /\ faults' = faults + 1
    /\ handler' = [handler EXCEPT ![c].pc = "unlock", ![c].mem = {}]
    /\ UNCHANGED <<store, lock, mu, issued, history>> /\ Kept

\* The deferred calls: the lock file is removed, whoever made it, and the mutex freed.
ReleaseLock(c) ==
    /\ At(c, "unlock")
    /\ LockRemoved(c)
    /\ Return(c)
    /\ UNCHANGED <<store, issued, faults, paid, orphaned, overwritten>> /\ Kept

StoreStep(c) ==
    \/ LockMutex(c) \/ CreateLock(c) \/ StatLock(c) \/ StealLock(c)
    \/ LoadStore(c) \/ CreateSave(c) \/ ConsumeSave(c) \/ ReleaseLock(c)

-----------------------------------------------------------------------------
(* The host's handlers, and the command *)

\* allowPairRequest: the requests of a kind are counted in the minute after the
\* first, for every remote address; the sessions have the same one.
allowPairRequest(kind) ==
    IF kind \in DOMAIN windows THEN windows[kind] < Limit
    ELSE Cardinality(DOMAIN windows) < MaxWindows

Count(kind) ==
    IF allowPairRequest(kind)
    THEN [k \in DOMAIN windows \cup {kind} |->
            (IF k \in DOMAIN windows THEN windows[k] ELSE 0) + (IF k = kind THEN 1 ELSE 0)]
    ELSE windows

\* The bound on codes counts those that are being created.
Pending == {c \in Callers : handler[c].op = "code" /\ ~handler[c].ok}
MoreCodes == issued + Cardinality(Pending) < MaxCodes

\* handlePairCodeRequest; the identity it makes sure of first is HostIdentity's.
HandlePairCodeRequest(s) ==
    /\ client[s].pc = "loaded" /\ ~Busy(s)
    /\ MoreCodes
    /\ windows' = Count("code")
    /\ client' = [client EXCEPT ![s].pc = "coding"]
    /\ handler' = [handler EXCEPT ![s] =
            [Free EXCEPT !.op = "code",
                         !.pc = IF allowPairRequest("code") THEN "mutex" ELSE "answer"]]
    /\ UNCHANGED <<hostFiles, mu, record, run, pairs, runs, issued, expired, given, certs, faults,
                   ages, history>>

\* handlePairRequest with a code that the user has: from the host's log or from
\* the command.  The certificate is signed first.
HandlePairRequest(s, code) ==
    /\ \/ client[s].pc = "loaded" /\ code \in given
       \/ client[s].pc = "entered" /\ code = client[s].code
    /\ ~Busy(s)
    /\ certs < MaxCerts
    /\ windows' = Count("pair")
    /\ certs' = IF allowPairRequest("pair") THEN certs + 1 ELSE certs
    /\ client' = [client EXCEPT ![s].pc = "pairing", ![s].code = code]
    /\ handler' = [handler EXCEPT ![s] =
            [Free EXCEPT !.op = "pair", !.code = code, !.cert = certs + 1,
                         !.pc = IF allowPairRequest("pair") THEN "mutex" ELSE "answer"]]
    /\ UNCHANGED <<hostFiles, mu, record, run, pairs, runs, issued, expired, given, faults, ages,
                   history>>

\* `rmtx host pair-code`.
PairCodeCommand ==
    /\ ~Busy("cli") /\ MoreCodes
    /\ handler' = [handler EXCEPT !["cli"] = [Free EXCEPT !.op = "code", !.pc = "mutex"]]
    /\ UNCHANGED <<hostFiles, mu, windows, clientVars, issued, expired, given, certs, faults,
                   ages, history>>

\* The client waits for the handler's answer to a pair request.
Waits(s) == client[s].pc = "pairing"

\* Fault: every certificate but the new one is forgotten.
TrustedOnly(cert, prev) == {cert}

\* trustClient: the new certificate takes the place of the client's former one.
\* The file is read and written by the host alone, under trustStoreMu.
TrustedWith(cert, prev) == (trusted \ {prev}) \cup {cert}

TrustClient(s) ==
    /\ At(s, "trust")
    /\ trusted' = TrustedWith(handler[s].cert, client[s].prev)
    /\ orphaned' = IF Waits(s) THEN orphaned ELSE orphaned \cup {client[s].prev}
    /\ Goto(s, "answer")
    /\ UNCHANGED <<store, lock, mu, windows, clientVars, issued, expired, given, certs,
                   faults, ages, paid, overwritten, broken>>

\* trustClient cannot write its file: the code is lost.
TrustFails(s) ==
    /\ At(s, "trust")
    /\ faults < MaxFaults /\ faults' = faults + 1
    /\ handler' = [handler EXCEPT ![s].pc = "answer", ![s].ok = FALSE]
    /\ UNCHANGED <<hostFiles, mu, windows, clientVars, issued, expired, given, certs, ages,
                   history>>

\* The handler answers and ends; an error ends the session too.  The code is in the
\* host's log, or printed by the command.
Answer(c) ==
    /\ At(c, "answer")
    /\ handler' = [handler EXCEPT ![c] = Free]
    /\ LET h == handler[c] IN
       /\ given' = IF h.op = "code" /\ h.ok THEN given \cup {h.code} ELSE given
       /\ client' = IF c = "cli" THEN client
                    ELSE IF client[c].pc = "gone" \/ ~h.ok THEN [client EXCEPT ![c] = Away]
                    ELSE IF h.op = "code"
                    THEN [client EXCEPT ![c].pc = "entered", ![c].code = h.code]
                    ELSE [client EXCEPT ![c].pc = "answered", ![c].cert = h.cert]
    /\ UNCHANGED <<hostFiles, mu, windows, record, run, pairs, runs, issued, expired, certs, faults,
                   ages, history>>

-----------------------------------------------------------------------------
(* The client's machine *)

Elsewhere == UNCHANGED <<hostFiles, mu, windows, handler, issued, expired, given, certs,
                         ages, paid, broken>>

\* completePair loads the state, long before it saves it.
CompletePairLoad(s) ==
    /\ client[s].pc = "idle"
    /\ pairs < MaxPairs /\ pairs' = pairs + 1
    /\ client' = [client EXCEPT ![s] = [Away EXCEPT !.pc = "loaded", !.prev = record]]
    /\ UNCHANGED <<record, run, runs, faults, orphaned, overwritten>> /\ Elsewhere

\* Its end: UpsertHost and Save.
CompletePairSave(s) ==
    /\ client[s].pc = "answered"
    /\ record' = client[s].cert
    /\ client' = [client EXCEPT ![s] = Away]
    /\ UNCHANGED <<run, pairs, runs, faults, orphaned, overwritten>> /\ Elsewhere

\* The session ends before that: stopped, its connection broken, or unable to save.
SessionFails(s) ==
    /\ client[s].pc \in {"loaded", "coding", "entered", "pairing", "answered"}
    /\ faults < MaxFaults /\ faults' = faults + 1
    /\ client' = [client EXCEPT ![s].pc = IF Busy(s) THEN "gone" ELSE "idle"]
    /\ orphaned' = IF \/ client[s].pc = "answered"
                      \/ handler[s].op = "pair" /\ handler[s].ok /\ At(s, "answer")
                   THEN orphaned \cup {client[s].prev} ELSE orphaned
    /\ UNCHANGED <<record, run, pairs, runs, overwritten>> /\ Elsewhere

\* resolveClientHost of any other command, when the host has a new address: the
\* state is loaded, changed and saved.
ResolveLoad ==
    /\ record # None /\ run = None
    /\ runs < MaxRuns /\ runs' = runs + 1
    /\ run' = record
    /\ UNCHANGED <<record, client, pairs, faults, orphaned, overwritten>> /\ Elsewhere

ResolveSave ==
    /\ run # None
    /\ record' = run /\ run' = None
    /\ overwritten' = (overwritten \/ record # run)
    /\ UNCHANGED <<client, pairs, runs, faults, orphaned>> /\ Elsewhere

-----------------------------------------------------------------------------
(* Crashes and time *)

\* The process of the callers in ps stops: the lock file stays.
Stop(ps) ==
    /\ faults < MaxFaults /\ faults' = faults + 1
    /\ handler' = [c \in Callers |-> IF c \in ps THEN Free ELSE handler[c]]
    /\ lock' = IF lock # None /\ lock.by \in ps THEN [lock EXCEPT !.alive = FALSE] ELSE lock
    /\ UNCHANGED <<store, trusted, record, run, pairs, runs, issued, expired, given, certs, ages,
                   paid, overwritten, broken>>

CommandStops ==
    /\ Busy("cli")
    /\ Stop({"cli"})
    /\ UNCHANGED <<mu, windows, client, orphaned>>

\* The host is started again with nothing in memory; its clients' connections break.
HostRestarts ==
    /\ \E s \in Sessions : Busy(s)
    /\ Stop(Sessions)
    /\ mu' = None /\ windows' = [k \in {} |-> 0]
    /\ client' = [s \in Sessions |-> IF Busy(s) THEN Away ELSE client[s]]
    /\ orphaned' = orphaned \cup {client[s].prev : s \in
            {t \in Sessions : At(t, "answer") /\ handler[t].op = "pair" /\ handler[t].ok}}

\* Time passes: pairCodeLockStaleAfter, after which a lock file is old, its owner
\* having crashed or being very slow; the longer pairLimitWindowDuration; or the
\* still longer time that a code is good for.
TimePasses(d) ==
    /\ ages < MaxAges /\ ages' = ages + 1
    /\ lock' = IF lock = None THEN None ELSE [lock EXCEPT !.old = TRUE]
    /\ windows' = IF d = "stale" THEN windows ELSE [k \in {} |-> 0]
    /\ expired' = IF d = "ttl" THEN issued ELSE expired
    /\ UNCHANGED <<store, trusted, mu, handler, clientVars, issued, given, certs, faults,
                   history>>

Handle(c) ==
    \/ StoreStep(c)
    \/ c \in Sessions /\ TrustClient(c)
    \/ Answer(c)

Next ==
    \/ \E c \in Callers : Handle(c) \/ StoreFails(c)
    \/ \E s \in Sessions :
          \/ HandlePairCodeRequest(s)
          \/ \E code \in 1..MaxCodes : HandlePairRequest(s, code)
          \/ TrustFails(s) \/ CompletePairLoad(s) \/ CompletePairSave(s)
          \/ SessionFails(s)
    \/ PairCodeCommand \/ ResolveLoad \/ ResolveSave
    \/ CommandStops \/ HostRestarts
    \/ \E d \in {"stale", "window", "ttl"} : TimePasses(d)

Spec == Init /\ [][Next]_vars

\* A process that works is not suspended for ever.
FairSpec == Spec /\ \A c \in Callers : WF_vars(Handle(c))

-----------------------------------------------------------------------------
(* Properties *)

Codes == 0..MaxCodes
Certs == 0..MaxCerts
Records == [code : Codes, used : BOOLEAN]

TypeOK ==
    /\ store \subseteq Records /\ Cardinality(store) <= MaxActive
    /\ lock \in Locks \cup {None}
    /\ trusted \subseteq Certs /\ mu \in Sessions \cup {None}
    /\ \A k \in DOMAIN windows : windows[k] \in 1..Limit
    /\ Cardinality(DOMAIN windows) <= MaxWindows
    /\ \A c \in Callers : handler[c].code \in Codes /\ handler[c].cert \in 0..(MaxCerts + 1)
    /\ \A s \in Sessions : mu = s => Busy(s)
    /\ record \in Certs \cup {None} /\ run \in Certs \cup {None}
    /\ issued \in Codes /\ expired \in 0..issued /\ certs \in Certs

\* A code pairs one client: it is consumed once, although the host and the command
\* read and write the same file.  Only a process that loses its lock, because it is
\* slower than pairCodeLockStaleAfter or because two find the same lock old at the
\* same time, can bring a used code back.
UsedOnce == broken \/ \A x, y \in paid : x[1] = y[1] => x = y

\* A code that was given out is good until it expires, is used or is one of too
\* many: no save of another process drops it, unless a lock was lost.
CodesKept ==
    broken \/ \A code \in given :
        \/ code <= expired
        \/ \E x \in paid : x[1] = code
        \/ issued - code >= MaxActive
        \/ [code |-> code, used |-> FALSE] \in store

\* The state is well-typed; a code that was given out is good once, and is good until
\* then; and every trusted certificate was signed for a code that was valid then.
CodesGoodOnce ==
    /\ TypeOK
    /\ UsedOnce /\ CodesKept
    /\ \A cert \in trusted : \E x \in paid : x[2] = cert

\* A session whose request has replaced the client's former certificate at the host,
\* and which has still to save the new one.
Replacing(s) ==
    \/ client[s].pc = "answered"
    \/ Waits(s) /\ At(s, "answer") /\ handler[s].ok

\* The certificate that the client would use is trusted by the host, even when
\* several sessions pair at once: unless a session is about to save the new one, it
\* ended before it could, or another command saved what it had loaded before.
PairedIsTrusted ==
    \/ record = None
    \/ record \in trusted \cup orphaned
    \/ \E s \in Sessions : Replacing(s) /\ client[s].prev = record
    \/ overwritten

\* Requests and commands, of which there are finitely many, all end: a lock that a
\* crashed process has left makes them fail, never wait for ever.
RequestsEnd == []<>(\A c \in Callers : ~Busy(c))
=============================================================================
