--------------------------- MODULE PairingProofs ----------------------------
(***************************************************************************)
(* Proofs about Pairing, for any number of sessions, codes, certificates,  *)
(* crashes and limits: a code is good once, and until it is used, expires  *)
(* or is one of too many; trust follows a code; and the certificate that   *)
(* the client has saved is trusted.                                        *)
(***************************************************************************)
EXTENDS Pairing, FiniteSetTheorems, WellFoundedInduction, TLAPS

-----------------------------------------------------------------------------
(* The invariant *)

Handler ==
    [pc : {"idle", "mutex", "lock", "stat", "steal", "load", "save", "unlock", "trust", "answer"},
     op : {"none", "code", "pair"}, code : Codes, cert : 0..(MaxCerts + 1),
     mem : SUBSET Records, ok : BOOLEAN, polls : Nat]

ClientState ==
    [pc : {"idle", "loaded", "coding", "entered", "pairing", "answered", "gone"},
     prev : Certs \cup {None}, code : Codes, cert : Certs]

\* The file fits its limit, and is finite.
Fits(codes) == codes \subseteq Records /\ IsFiniteSet(codes) /\ Cardinality(codes) <= MaxActive

\* The types of the variables.
VarTypes ==
    /\ Fits(store)
    /\ lock \in Locks \cup {None}
    /\ mu \in Sessions \cup {None}
    /\ handler \in [Callers -> Handler]
    /\ \A c \in Callers : Fits(handler[c].mem)
    /\ client \in [Sessions -> ClientState]
    /\ record \in Certs \cup {None} /\ run \in Certs \cup {None}
    /\ issued \in Codes /\ expired \in 0..issued /\ certs \in Certs
    /\ paid \subseteq Codes \X Certs
    /\ broken \in BOOLEAN /\ overwritten \in BOOLEAN

\* No more windows than allowed, and none counts too many requests.
WindowInv ==
    /\ IsFiniteSet(DOMAIN windows) /\ Cardinality(DOMAIN windows) <= MaxWindows
    /\ \A k \in DOMAIN windows : windows[k] \in 1..Limit

\* What is known of a request at each of its steps; in particular that a code is
\* accepted only by its consumption.
PhaseOK(h) ==
    /\ h.op = "none" => h.pc = "idle"
    /\ h.pc \in {"mutex", "lock", "stat", "steal", "load", "save"} => ~h.ok
    /\ h.pc = "trust" => h.op = "pair" /\ h.ok
    /\ h.op = "code" /\ h.ok => h.code \in 1..issued
    /\ h.op = "pair" => h.cert \in 1..certs \/ (h.pc = "answer" /\ ~h.ok)
    /\ h.op = "pair" /\ h.ok => <<h.code, h.cert>> \in paid

PhaseInv ==
    /\ \A c \in Callers : PhaseOK(handler[c])
    /\ \A s \in Sessions :
          mu = s => handler[s].pc \in {"lock", "stat", "steal", "load", "save", "unlock"}
    /\ given \subseteq 1..issued
    /\ \A cert \in trusted : \E x \in paid : x[2] = cert

\* There is room for the codes that are being created.
RoomInv == issued + Cardinality(Pending) <= MaxCodes

\* The lock file belongs to the one process that is working, or to none.
LockHeld ==
    /\ \A c \in Callers : Working(c) => lock # None /\ lock.by = c /\ lock.alive
    /\ (lock # None /\ lock.alive) => Working(lock.by)

\* What becomes of a code that was created.
Accounted(code) ==
    \/ code <= expired
    \/ \E x \in paid : x[1] = code
    \/ issued - code >= MaxActive
    \/ [code |-> code, used |-> FALSE] \in store

\* The file and what a working process has read of it.
FileInv ==
    /\ \A c \in Callers : At(c, "save") => handler[c].mem = store
    /\ \A r \in store : r.code <= issued
    /\ \A x \in paid : x[1] <= issued /\ [code |-> x[1], used |-> FALSE] \notin store
    /\ \A x, y \in paid : x[1] = y[1] => x = y
    /\ \A code \in 1..issued : Accounted(code)

\* While no lock was lost.
CodeInv == broken \/ (LockHeld /\ FileInv)

\* The certificates that a request of s has signed and its client has not saved.
Unsaved(s) ==
    {k \in 1..certs :
        \/ /\ handler[s].op = "pair" /\ handler[s].cert = k
           /\ handler[s].pc # "answer" \/ handler[s].ok
        \/ client[s].pc = "answered" /\ client[s].cert = k}

\* How far a client and the handler of its request are.
SessionInv ==
    \A s \in Sessions :
        /\ handler[s].pc = "idle" => handler[s].op = "none"
        /\ client[s].pc \in {"idle", "loaded", "entered", "answered"} => handler[s].pc = "idle"
        /\ client[s].pc = "pairing" => handler[s].op = "pair"
        /\ client[s].pc = "coding" => handler[s].op = "code"
        /\ client[s].pc = "answered" => client[s].cert \in 1..certs

\* The certificates that the client's machine has saved, or had.
Settled == {None, record, run} \cup {client[t].prev : t \in Sessions}

\* The host has accepted the request of s.
Confirmed(s) == client[s].pc = "answered" \/ (At(s, "answer") /\ handler[s].ok)

\* A certificate that is not saved is known to one session alone, and is trusted
\* once the request was accepted.
FreshInv ==
    /\ Settled \subseteq (0..certs) \cup {None}
    /\ \A s \in Sessions : \A k \in Unsaved(s) :
          /\ k \notin Settled
          /\ \A t \in Sessions : k \in Unsaved(t) => s = t
          /\ Confirmed(s) => k \in trusted

Inv == VarTypes /\ WindowInv /\ PhaseInv /\ RoomInv /\ CodeInv

SavedInv == SessionInv /\ FreshInv /\ PairedIsTrusted

-----------------------------------------------------------------------------
(* The file of codes *)

\* Every set of records that is not empty has one with the least code.
LEMMA OldestRecord ==
    ASSUME NEW S \in SUBSET Records, S # {}
    PROVE  \E m \in S : \A r \in S : m.code <= r.code
<1>. DEFINE T == {r.code : r \in S}
<1>1. T \subseteq Nat /\ T # {}
    BY PairingAssumption DEF Records, Codes
<1>2. PICK n \in T : \A y \in T : ~(<<y, n>> \in OpToRel(<, Nat))
    <2>. HIDE DEF T
    <2>. QED
        BY <1>1, WFMin, NatLessThanWellFounded
<1>3. ASSUME NEW y \in T
      PROVE  n <= y
    <2>1. <<y, n>> \notin OpToRel(<, Nat)
        BY <1>2
    <2>2. n \in Nat /\ y \in Nat
        BY <1>1
    <2>. QED
        BY <2>1, <2>2 DEF OpToRel
<1>4. PICK m \in S : n = m.code
    BY <1>2
<1>. QED
    BY <1>3, <1>4

\* CreatePairCode leaves a file within its limit.
LEMMA NewCodeFits ==
    ASSUME NEW codes, Fits(codes), NEW code \in Codes
    PROVE  Fits(WithNewCode(codes, code))
<1>. DEFINE active == {r \in codes : ~r.used /\ r.code > expired}
            newer(r) == {x \in active : x.code > r.code}
            kept == {r \in active : Cardinality(newer(r)) < MaxActive - 1}
            new == [code |-> code, used |-> FALSE]
<1>1. WithNewCode(codes, code) = kept \cup {new}
    BY DEF WithNewCode
<1>2. kept \subseteq Records /\ new \in Records
    BY DEF Fits, Records
<1>3. IsFiniteSet(active) /\ IsFiniteSet(kept)
    BY FS_Subset DEF Fits
<1>4. MaxActive \in Nat /\ MaxActive >= 1
    BY PairingAssumption
<1>5. Cardinality(kept) \in Nat /\ Cardinality(kept) <= MaxActive - 1
    <2>1. Cardinality(kept) \in Nat
        BY <1>3, FS_CardinalityType
    <2>2. CASE kept = {}
        <3>. HIDE DEF kept
        <3>1. Cardinality(kept) = 0
            BY <2>2, FS_EmptySet, Zenon
        <3>. QED
            BY <3>1, <1>4
    <2>3. CASE kept # {}
        <3>1. PICK m \in kept : \A r \in kept : m.code <= r.code
            <4>. HIDE DEF kept
            <4>. QED
                BY <2>3, <1>2, OldestRecord
        <3>2. kept \ {m} \subseteq newer(m)
            <4>. SUFFICES ASSUME NEW r \in kept, r # m
                          PROVE  r.code > m.code
                OBVIOUS
            <4>1. m \in Records /\ r \in Records /\ ~m.used /\ ~r.used
                BY <1>2
            <4>2. m.code # r.code
                BY <4>1, <3>1 DEF Records
            <4>3. m.code \in Int /\ r.code \in Int
                BY <4>1, PairingAssumption DEF Records, Codes
            <4>. QED
                BY <4>2, <4>3, <3>1
        <3>3. IsFiniteSet(newer(m)) /\ Cardinality(newer(m)) \in Nat
            BY <1>3, FS_Subset, FS_CardinalityType
        <3>4. Cardinality(kept \ {m}) <= Cardinality(newer(m))
            <4>. HIDE DEF kept, newer
            <4>. QED
                BY <3>2, <3>3, FS_Subset
        <3>5. Cardinality(kept \ {m}) = Cardinality(kept) - 1
            <4>. HIDE DEF kept
            <4>. QED
                BY <1>3, FS_RemoveElement
        <3>6. Cardinality(newer(m)) < MaxActive - 1
            OBVIOUS
        <3>. HIDE DEF kept, newer
        <3>. QED
            BY <2>1, <3>3, <3>4, <3>5, <3>6, <1>4
    <2>. QED
        BY <2>2, <2>3
<1>. HIDE DEF kept, new
<1>6. IsFiniteSet(kept \cup {new}) /\ Cardinality(kept \cup {new}) <= MaxActive
    <2>1. /\ IsFiniteSet(kept \cup {new})
          /\ Cardinality(kept \cup {new}) =
                IF new \in kept THEN Cardinality(kept) ELSE Cardinality(kept) + 1
        BY <1>3, FS_AddElement
    <2>. QED
        BY <2>1, <1>4, <1>5
<1>. QED
    BY <1>1, <1>2, <1>6 DEF Fits

\* ConsumePairCode leaves a file within its limit.
LEMMA UsedFits ==
    ASSUME NEW codes, Fits(codes), NEW code \in Codes, ValidPairCode(codes, code)
    PROVE  Fits(WithUsed(codes, code))
<1>. DEFINE old == [code |-> code, used |-> FALSE]
            used == [code |-> code, used |-> TRUE]
            rest == codes \ {old}
<1>1. old \in codes /\ used \in Records
    BY DEF ValidPairCode, Records
<1>2. WithUsed(codes, code) \subseteq rest \cup {used}
    BY DEF WithUsed
<1>. HIDE DEF old, used
<1>3. IsFiniteSet(rest) /\ Cardinality(rest) = Cardinality(codes) - 1 /\ rest \subseteq Records
    BY <1>1, FS_RemoveElement DEF Fits
<1>. HIDE DEF rest
<1>4. Cardinality(codes) \in Nat /\ MaxActive \in Nat
    BY FS_CardinalityType, PairingAssumption DEF Fits
<1>5. IsFiniteSet(rest \cup {used}) /\ Cardinality(rest \cup {used}) <= Cardinality(codes)
    <2>1. /\ IsFiniteSet(rest \cup {used})
          /\ Cardinality(rest \cup {used}) =
                IF used \in rest THEN Cardinality(rest) ELSE Cardinality(rest) + 1
        BY <1>3, FS_AddElement
    <2>. QED
        BY <2>1, <1>3, <1>4
<1>6. /\ IsFiniteSet(WithUsed(codes, code))
      /\ Cardinality(WithUsed(codes, code)) <= Cardinality(rest \cup {used})
    BY <1>2, <1>5, FS_Subset
<1>7. /\ Cardinality(WithUsed(codes, code)) \in Nat
      /\ Cardinality(rest \cup {used}) \in Nat
    BY <1>5, <1>6, FS_CardinalityType
<1>8. Cardinality(codes) <= MaxActive
    BY DEF Fits
<1>9. Cardinality(WithUsed(codes, code)) <= MaxActive
    BY <1>4, <1>5, <1>6, <1>7, <1>8
<1>. QED
    BY <1>1, <1>2, <1>3, <1>6, <1>9 DEF Fits

\* A good code that CreatePairCode drops is followed by as many as the file holds.
LEMMA NewCodeKeeps ==
    ASSUME NEW codes, Fits(codes), NEW n \in Nat, \A r \in codes : r.code <= n,
           NEW r \in codes, ~r.used, r.code > expired
    PROVE  r \in WithNewCode(codes, n + 1) \/ (n + 1) - r.code >= MaxActive
<1>. DEFINE active == {x \in codes : ~x.used /\ x.code > expired}
            newer == {x \in active : x.code > r.code}
            later == (r.code + 1)..n
            f == [x \in newer |-> x.code]
<1>1. r.code \in Nat /\ r.code <= n /\ MaxActive \in Nat
    BY PairingAssumption DEF Fits, Records, Codes
<1>2. r \in WithNewCode(codes, n + 1) \/ Cardinality(newer) >= MaxActive - 1
    <2>1. Cardinality(newer) \in Nat
        BY FS_Subset, FS_CardinalityType DEF Fits
    <2>2. Cardinality(newer) < MaxActive - 1 => r \in WithNewCode(codes, n + 1)
        BY DEF WithNewCode
    <2>. HIDE DEF newer
    <2>. QED
        BY <2>1, <2>2, <1>1
<1>3. f \in Injection(newer, later)
    <2>1. ASSUME NEW x \in newer
          PROVE  x.code \in later /\ x = [code |-> x.code, used |-> FALSE]
        <3>1. x \in Records /\ ~x.used /\ x.code > r.code /\ x.code <= n
            BY DEF Fits
        <3>. QED
            BY <3>1, <1>1, PairingAssumption DEF Records, Codes
    <2>. HIDE DEF newer, later
    <2>2. f \in [newer -> later]
        BY <2>1
    <2>3. \A x, y \in newer : f[x] = f[y] => x = y
        BY <2>1
    <2>. HIDE DEF f
    <2>. QED
        BY <2>2, <2>3 DEF Injection, IsInjective
<1>4. /\ IsFiniteSet(later) /\ Cardinality(later) <= n - r.code
      /\ Cardinality(later) \in Nat
    <2>1. r.code + 1 \in Int /\ n \in Int
        BY <1>1
    <2>2. /\ IsFiniteSet(later)
          /\ Cardinality(later) = IF r.code + 1 > n THEN 0 ELSE n - (r.code + 1) + 1
        BY <2>1, FS_Interval
    <2>. HIDE DEF later
    <2>. QED
        BY <2>2, <1>1
<1>. HIDE DEF newer, later, f
<1>5. IsFiniteSet(newer) /\ Cardinality(newer) <= Cardinality(later)
    BY <1>3, <1>4, FS_Injection
<1>6. Cardinality(newer) \in Nat
    BY <1>5, FS_CardinalityType
<1>. QED
    BY <1>1, <1>2, <1>4, <1>5, <1>6

-----------------------------------------------------------------------------
(* Types *)

\* The values of a handler or a client with nothing to do, and of an empty file.
LEMMA EmptyTypes ==
    Free \in Handler /\ Away \in ClientState /\ Fits({}) /\ Fits(Free.mem)
<1>1. 0 \in Codes /\ 0 \in Certs /\ 0 \in 0..(MaxCerts + 1)
    BY PairingAssumption DEF Codes, Certs
<1>2. Fits({})
    BY FS_EmptySet, PairingAssumption DEF Fits
<1>. QED
    BY <1>1, <1>2 DEF Free, Away, Handler, ClientState

\* Steps that move a handler on, and do nothing else to it.
LEMMA GotoTypes ==
    ASSUME VarTypes, NEW c \in Callers, NEW pc, Goto(c, pc),
           pc \in {"idle", "mutex", "lock", "stat", "steal", "load", "save", "unlock",
                   "trust", "answer"}
    PROVE  handler' \in [Callers -> Handler] /\ \A d \in Callers : Fits(handler'[d].mem)
<1>1. handler' \in [Callers -> Handler]
    BY DEF VarTypes, Goto, Handler
<1>2. \A d \in Callers : handler'[d].mem = handler[d].mem
    BY DEF VarTypes, Goto, Handler
<1>. QED
    BY <1>1, <1>2 DEF VarTypes

\* A handler gets a new value.
LEMMA ExceptTypes ==
    ASSUME VarTypes, NEW c \in Callers, NEW h \in Handler, Fits(h.mem),
           handler' = [handler EXCEPT ![c] = h]
    PROVE  handler' \in [Callers -> Handler] /\ \A d \in Callers : Fits(handler'[d].mem)
BY DEF VarTypes

\* The steps on the file of codes keep the types.
LEMMA StoreTypes ==
    ASSUME Inv, NEW c \in Callers, StoreStep(c) \/ StoreFails(c)
    PROVE  VarTypes'
<1>. USE DEF Inv
<1>0. VarTypes /\ handler[c] \in Handler /\ Fits(handler[c].mem)
    BY DEF VarTypes
<1>a. AfterStore(c) \in {"trust", "answer"}
    BY DEF AfterStore
<1>1. CASE LockMutex(c)
    <2>1. handler' \in [Callers -> Handler] /\ \A d \in Callers : Fits(handler'[d].mem)
        BY <1>0, <1>1, GotoTypes DEF LockMutex
    <2>. QED
        BY <1>0, <1>1, <2>1 DEF LockMutex, VarTypes, Callers, hostFiles, clientVars, history
<1>2. CASE CreateLock(c)
    <2>1. handler' \in [Callers -> Handler] /\ \A d \in Callers : Fits(handler'[d].mem)
        BY <1>0, <1>2, GotoTypes DEF CreateLock
    <2>2. lock' \in Locks \cup {None}
        BY <1>0, <1>2 DEF CreateLock, Locks, VarTypes
    <2>. QED
        BY <1>0, <1>2, <2>1, <2>2 DEF CreateLock, VarTypes, Kept, clientVars, history
<1>3. CASE StatLock(c)
    <2>1. handler' \in [Callers -> Handler] /\ \A d \in Callers : Fits(handler'[d].mem)
        <3>1. CASE Goto(c, "lock") \/ Goto(c, "steal")
            BY <1>0, <3>1, GotoTypes
        <3>2. CASE Return(c)
            BY <1>0, <1>a, <3>2, GotoTypes DEF Return
        <3>3. CASE handler' = [handler EXCEPT ![c].pc = "lock", ![c].polls = @ + 1]
            <4>1. handler' \in [Callers -> Handler]
                BY <1>0, <3>3 DEF VarTypes, Handler
            <4>2. \A d \in Callers : handler'[d].mem = handler[d].mem
                BY <1>0, <3>3 DEF VarTypes, Handler
            <4>. QED
                BY <4>1, <4>2 DEF VarTypes
        <3>. QED
            BY <1>3, <3>1, <3>2, <3>3 DEF StatLock
    <2>2. mu' \in Sessions \cup {None}
        BY <1>0, <1>3 DEF StatLock, Return, VarTypes
    <2>. QED
        BY <1>0, <1>3, <2>1, <2>2 DEF StatLock, VarTypes, Kept, clientVars, history
<1>4. CASE StealLock(c)
    <2>1. handler' \in [Callers -> Handler] /\ \A d \in Callers : Fits(handler'[d].mem)
        BY <1>0, <1>4, GotoTypes DEF StealLock
    <2>2. lock' \in Locks \cup {None} /\ broken' \in BOOLEAN
        BY <1>0, <1>4 DEF StealLock, LockRemoved, VarTypes
    <2>. QED
        BY <1>0, <1>4, <2>1, <2>2 DEF StealLock, VarTypes, Kept, clientVars
<1>5. CASE LoadStore(c)
    <2>1. handler' \in [Callers -> Handler]
        BY <1>0, <1>5 DEF LoadStore, VarTypes, Handler, Fits
    <2>2. \A d \in Callers : Fits(handler'[d].mem)
        BY <1>0, <1>5 DEF LoadStore, VarTypes, Handler
    <2>. QED
        BY <1>0, <1>5, <2>1, <2>2 DEF LoadStore, VarTypes, Kept, clientVars, history
<1>6. CASE CreateSave(c)
    <2>1. issued \in Nat /\ issued + 1 \in Codes
        <3>1. c \in Pending
            BY <1>6, <1>0 DEF CreateSave, At, Pending, PhaseInv, PhaseOK
        <3>2. IsFiniteSet(Callers)
            BY PairingAssumption, FS_AddElement DEF Callers
        <3>3. IsFiniteSet(Pending) /\ Cardinality(Pending) \in Nat
            BY <3>2, FS_Subset, FS_CardinalityType DEF Pending
        <3>4. Cardinality(Pending) # 0
            BY <3>1, <3>3, FS_EmptySet
        <3>5. issued \in Nat /\ MaxCodes \in Nat
            BY <1>0, PairingAssumption DEF VarTypes, Codes
        <3>. QED
            BY <3>3, <3>4, <3>5 DEF RoomInv, Codes
    <2>2. Fits(store')
        BY <1>0, <1>6, <2>1, NewCodeFits DEF CreateSave
    <2>. DEFINE h == [handler[c] EXCEPT !.pc = "unlock", !.code = issued + 1, !.ok = TRUE,
                                        !.mem = {}]
    <2>3. h \in Handler /\ h.mem = {} /\ handler' = [handler EXCEPT ![c] = h]
        BY <1>0, <1>6, <2>1 DEF CreateSave, Handler
    <2>. HIDE DEF h
    <2>4. handler' \in [Callers -> Handler] /\ \A d \in Callers : Fits(handler'[d].mem)
        BY <1>0, <2>3, EmptyTypes, ExceptTypes
    <2>5. issued' \in Codes /\ expired' \in 0..issued'
        BY <1>0, <1>6, <2>1 DEF CreateSave, Kept, VarTypes
    <2>. QED
        BY <1>0, <1>6, <2>2, <2>4, <2>5 DEF CreateSave, VarTypes, Kept, clientVars, history
<1>7. CASE ConsumeSave(c)
    <2>. DEFINE valid == ValidPairCode(handler[c].mem, handler[c].code)
                h == [handler[c] EXCEPT !.pc = "unlock", !.ok = valid, !.mem = {}]
    <2>1. handler[c].code \in Codes
        BY <1>0 DEF Handler
    <2>2. Fits(store')
        BY <1>0, <1>7, <2>1, UsedFits DEF ConsumeSave, VarTypes
    <2>3. valid \in BOOLEAN
        BY DEF ValidPairCode
    <2>4. handler' = [handler EXCEPT ![c] = h]
        BY <1>7 DEF ConsumeSave
    <2>5. paid' \subseteq Codes \X Certs
        <3>1. handler[c].cert \in Certs
            <4>1. PhaseOK(handler[c]) /\ handler[c].op = "pair" /\ handler[c].pc = "save"
                BY <1>7 DEF ConsumeSave, At, PhaseInv
            <4>2. handler[c].cert \in 1..certs
                BY <4>1 DEF PhaseOK
            <4>. QED
                BY <1>0, <4>2, PairingAssumption DEF VarTypes, Certs
        <3>. QED
            BY <1>0, <1>7, <2>1, <3>1 DEF ConsumeSave, VarTypes
    <2>. HIDE DEF valid
    <2>6. h \in Handler /\ h.mem = {}
        BY <1>0, <2>3 DEF Handler
    <2>. HIDE DEF h
    <2>7. handler' \in [Callers -> Handler] /\ \A d \in Callers : Fits(handler'[d].mem)
        BY <1>0, <2>4, <2>6, EmptyTypes, ExceptTypes
    <2>. QED
        BY <1>0, <1>7, <2>2, <2>5, <2>7 DEF ConsumeSave, VarTypes, Kept, clientVars
<1>8. CASE ReleaseLock(c)
    <2>1. handler' \in [Callers -> Handler] /\ \A d \in Callers : Fits(handler'[d].mem)
        BY <1>0, <1>8, <1>a, GotoTypes DEF ReleaseLock, Return
    <2>2. lock' \in Locks \cup {None} /\ broken' \in BOOLEAN
        BY <1>0, <1>8 DEF ReleaseLock, LockRemoved, VarTypes
    <2>3. mu' \in Sessions \cup {None}
        BY <1>0, <1>8 DEF ReleaseLock, Return, VarTypes
    <2>. QED
        BY <1>0, <1>8, <2>1, <2>2, <2>3 DEF ReleaseLock, VarTypes, Kept, clientVars
<1>9. CASE StoreFails(c)
    <2>. DEFINE h == [handler[c] EXCEPT !.pc = "unlock", !.mem = {}]
    <2>1. h \in Handler /\ h.mem = {} /\ handler' = [handler EXCEPT ![c] = h]
        BY <1>0, <1>9 DEF StoreFails, Handler, VarTypes
    <2>. HIDE DEF h
    <2>2. handler' \in [Callers -> Handler] /\ \A d \in Callers : Fits(handler'[d].mem)
        BY <1>0, <2>1, EmptyTypes, ExceptTypes
    <2>. QED
        BY <1>0, <1>9, <2>2 DEF StoreFails, VarTypes, Kept, clientVars, history
<1>. QED
    BY <1>1, <1>2, <1>3, <1>4, <1>5, <1>6, <1>7, <1>8, <1>9 DEF StoreStep

\* So do the handlers.
LEMMA HandlerTypes ==
    ASSUME Inv, NEW s \in Sessions,
           \/ HandlePairCodeRequest(s)
           \/ \E code \in 1..MaxCodes : HandlePairRequest(s, code)
           \/ TrustClient(s) \/ TrustFails(s)
    PROVE  VarTypes'
<1>0. VarTypes /\ s \in Callers /\ handler[s] \in Handler
    BY DEF Inv, VarTypes, Callers
<1>1. CASE HandlePairCodeRequest(s)
    <2>. DEFINE h == [Free EXCEPT !.op = "code",
                        !.pc = IF allowPairRequest("code") THEN "mutex" ELSE "answer"]
    <2>1. h \in Handler /\ Fits(h.mem)
        BY EmptyTypes DEF Handler, Free
    <2>2. handler' = [handler EXCEPT ![s] = h]
        BY <1>1 DEF HandlePairCodeRequest
    <2>. HIDE DEF h
    <2>3. handler' \in [Callers -> Handler] /\ \A d \in Callers : Fits(handler'[d].mem)
        BY <1>0, <2>1, <2>2, ExceptTypes
    <2>4. client' \in [Sessions -> ClientState]
        BY <1>0, <1>1 DEF HandlePairCodeRequest, VarTypes, ClientState
    <2>. QED
        BY <1>0, <1>1, <2>3, <2>4 DEF HandlePairCodeRequest, VarTypes, hostFiles, history
<1>2. CASE \E code \in 1..MaxCodes : HandlePairRequest(s, code)
    <2>. PICK code \in 1..MaxCodes : HandlePairRequest(s, code)
        BY <1>2
    <2>0. code \in Codes /\ certs \in Nat /\ certs + 1 \in 0..(MaxCerts + 1)
        BY <1>0, PairingAssumption DEF VarTypes, Codes, Certs
    <2>. DEFINE h == [Free EXCEPT !.op = "pair", !.code = code, !.cert = certs + 1,
                        !.pc = IF allowPairRequest("pair") THEN "mutex" ELSE "answer"]
    <2>1. h \in Handler /\ Fits(h.mem)
        BY <2>0, EmptyTypes DEF Handler, Free
    <2>2. handler' = [handler EXCEPT ![s] = h]
        BY DEF HandlePairRequest
    <2>. HIDE DEF h
    <2>3. handler' \in [Callers -> Handler] /\ \A d \in Callers : Fits(handler'[d].mem)
        BY <1>0, <2>1, <2>2, ExceptTypes
    <2>4. client' \in [Sessions -> ClientState]
        <3>. DEFINE v == [client[s] EXCEPT !.pc = "pairing", !.code = code]
        <3>1. client[s] \in ClientState /\ client \in [Sessions -> ClientState]
            BY <1>0 DEF VarTypes
        <3>2. v \in ClientState
            BY <2>0, <3>1 DEF ClientState
        <3>3. client' = [client EXCEPT ![s] = v]
            BY <3>1 DEF HandlePairRequest
        <3>. HIDE DEF v
        <3>. QED
            BY <3>1, <3>2, <3>3
    <2>5. certs' \in Certs
        <3>1. certs < MaxCerts /\ certs' \in {certs, certs + 1} /\ MaxCerts \in Nat
            BY PairingAssumption DEF HandlePairRequest
        <3>. QED
            BY <2>0, <3>1 DEF Certs
    <2>. QED
        BY <1>0, <2>3, <2>4, <2>5 DEF HandlePairRequest, VarTypes, hostFiles, history
<1>3. CASE TrustClient(s)
    <2>1. handler' \in [Callers -> Handler] /\ \A d \in Callers : Fits(handler'[d].mem)
        BY <1>0, <1>3, GotoTypes DEF TrustClient
    <2>. QED
        BY <1>0, <1>3, <2>1 DEF TrustClient, VarTypes, clientVars
<1>4. CASE TrustFails(s)
    <2>. DEFINE h == [handler[s] EXCEPT !.pc = "answer", !.ok = FALSE]
    <2>1. h \in Handler /\ h.mem = handler[s].mem /\ handler' = [handler EXCEPT ![s] = h]
        BY <1>0, <1>4 DEF TrustFails, Handler, VarTypes
    <2>. HIDE DEF h
    <2>2. Fits(h.mem)
        BY <1>0, <2>1 DEF VarTypes
    <2>3. handler' \in [Callers -> Handler] /\ \A d \in Callers : Fits(handler'[d].mem)
        BY <1>0, <2>1, <2>2, ExceptTypes
    <2>. QED
        BY <1>0, <1>4, <2>3 DEF TrustFails, VarTypes, hostFiles, clientVars, history
<1>. QED
    BY <1>1, <1>2, <1>3, <1>4

\* So does the command.
LEMMA CommandTypes ==
    ASSUME Inv, PairCodeCommand
    PROVE  VarTypes'
<1>0. VarTypes /\ "cli" \in Callers
    BY DEF Inv, VarTypes, Callers
<1>. DEFINE h == [Free EXCEPT !.op = "code", !.pc = "mutex"]
<1>1. h \in Handler /\ Fits(h.mem)
    BY EmptyTypes DEF Handler, Free
<1>2. handler' = [handler EXCEPT !["cli"] = h]
    BY DEF PairCodeCommand
<1>. HIDE DEF h
<1>3. handler' \in [Callers -> Handler] /\ \A d \in Callers : Fits(handler'[d].mem)
    BY <1>0, <1>1, <1>2, ExceptTypes
<1>. QED
    BY <1>0, <1>3 DEF PairCodeCommand, VarTypes, hostFiles, clientVars, history

\* So do answers.
LEMMA AnswerTypes ==
    ASSUME Inv, NEW c \in Callers, Answer(c)
    PROVE  VarTypes'
<1>0. VarTypes /\ handler[c] \in Handler /\ PhaseOK(handler[c])
    BY DEF Inv, VarTypes, PhaseInv
<1>1. handler' \in [Callers -> Handler] /\ \A d \in Callers : Fits(handler'[d].mem)
    BY <1>0, EmptyTypes, ExceptTypes DEF Answer
<1>2. client' \in [Sessions -> ClientState]
    <2>1. CASE c = "cli"
        BY <1>0, <2>1 DEF Answer, VarTypes
    <2>2. CASE c # "cli" /\ (client[c].pc = "gone" \/ ~handler[c].ok)
        BY <1>0, <2>2, EmptyTypes DEF Answer, VarTypes
    <2>3. CASE c # "cli" /\ ~(client[c].pc = "gone" \/ ~handler[c].ok) /\ handler[c].op = "code"
        <3>1. client' = [client EXCEPT ![c].pc = "entered", ![c].code = handler[c].code]
            BY <2>3 DEF Answer
        <3>2. handler[c].code \in Codes
            BY <1>0 DEF Handler
        <3>. DEFINE v == [client[c] EXCEPT !.pc = "entered", !.code = handler[c].code]
        <3>3. c \in Sessions /\ client[c] \in ClientState /\ client \in [Sessions -> ClientState]
            BY <1>0, <2>3 DEF VarTypes, Callers
        <3>4. v \in ClientState
            BY <3>2, <3>3 DEF ClientState
        <3>5. client' = [client EXCEPT ![c] = v]
            BY <3>1, <3>3
        <3>. HIDE DEF v
        <3>. QED
            BY <3>3, <3>4, <3>5
    <2>4. CASE c # "cli" /\ ~(client[c].pc = "gone" \/ ~handler[c].ok) /\ handler[c].op # "code"
        <3>1. client' = [client EXCEPT ![c].pc = "answered", ![c].cert = handler[c].cert]
            BY <2>4 DEF Answer
        <3>2. handler[c].cert \in Certs
            <4>1. handler[c].op = "pair" /\ handler[c].ok
                BY <1>0, <2>4 DEF PhaseOK, Handler, Answer, At
            <4>2. handler[c].cert \in 1..certs
                BY <1>0, <4>1 DEF PhaseOK
            <4>. QED
                BY <1>0, <4>2, PairingAssumption DEF VarTypes, Certs
        <3>. DEFINE v == [client[c] EXCEPT !.pc = "answered", !.cert = handler[c].cert]
        <3>3. c \in Sessions /\ client[c] \in ClientState /\ client \in [Sessions -> ClientState]
            BY <1>0, <2>4 DEF VarTypes, Callers
        <3>4. v \in ClientState
            BY <3>2, <3>3 DEF ClientState
        <3>5. client' = [client EXCEPT ![c] = v]
            BY <3>1, <3>3
        <3>. HIDE DEF v
        <3>. QED
            BY <3>3, <3>4, <3>5
    <2>. QED
        BY <2>1, <2>2, <2>3, <2>4
<1>. QED
    BY <1>0, <1>1, <1>2 DEF Answer, VarTypes, hostFiles, history

\* So do the steps of the client's machine, crashes and time.
LEMMA OtherTypes ==
    ASSUME Inv,
           \/ \E s \in Sessions : CompletePairLoad(s) \/ CompletePairSave(s) \/ SessionFails(s)
           \/ ResolveLoad \/ ResolveSave \/ CommandStops \/ HostRestarts
           \/ \E d \in {"stale", "window", "ttl"} : TimePasses(d)
    PROVE  VarTypes'
<1>0. VarTypes
    BY DEF Inv
<1>1. CASE \E s \in Sessions : CompletePairLoad(s)
    <2>. PICK s \in Sessions : CompletePairLoad(s)
        BY <1>1
    <2>1. client' \in [Sessions -> ClientState]
        BY <1>0, EmptyTypes DEF CompletePairLoad, VarTypes, ClientState, Away
    <2>. QED
        BY <1>0, <2>1 DEF CompletePairLoad, Elsewhere, VarTypes, hostFiles
<1>2. CASE \E s \in Sessions : CompletePairSave(s)
    <2>. PICK s \in Sessions : CompletePairSave(s)
        BY <1>2
    <2>1. client' \in [Sessions -> ClientState] /\ record' \in Certs
        BY <1>0, EmptyTypes DEF CompletePairSave, VarTypes, ClientState
    <2>. QED
        BY <1>0, <2>1 DEF CompletePairSave, Elsewhere, VarTypes, hostFiles
<1>3. CASE \E s \in Sessions : SessionFails(s)
    <2>. PICK s \in Sessions : SessionFails(s)
        BY <1>3
    <2>1. client' \in [Sessions -> ClientState]
        BY <1>0 DEF SessionFails, VarTypes, ClientState
    <2>. QED
        BY <1>0, <2>1 DEF SessionFails, Elsewhere, VarTypes, hostFiles
<1>4. CASE ResolveLoad
    BY <1>0, <1>4 DEF ResolveLoad, Elsewhere, VarTypes, hostFiles
<1>5. CASE ResolveSave
    <2>1. overwritten' \in BOOLEAN
        BY <1>5 DEF ResolveSave
    <2>. QED
        BY <1>0, <1>5, <2>1 DEF ResolveSave, Elsewhere, VarTypes, hostFiles
<1>6. ASSUME NEW ps, Stop(ps)
      PROVE  /\ handler' \in [Callers -> Handler]
             /\ \A d \in Callers : Fits(handler'[d].mem)
             /\ lock' \in Locks \cup {None}
    <2>1. /\ handler' \in [Callers -> Handler]
          /\ \A d \in Callers : handler'[d] = Free \/ handler'[d] = handler[d]
        BY <1>0, <1>6, EmptyTypes DEF Stop, VarTypes
    <2>2. lock' \in Locks \cup {None}
        BY <1>0, <1>6 DEF Stop, VarTypes, Locks
    <2>. QED
        BY <1>0, <2>1, <2>2, EmptyTypes DEF VarTypes
<1>7. CASE CommandStops
    <2>1. Stop({"cli"})
        BY <1>7 DEF CommandStops
    <2>. QED
        BY <1>0, <1>7, <1>6, <2>1 DEF CommandStops, Stop, VarTypes
<1>8. CASE HostRestarts
    <2>1. Stop(Sessions)
        BY <1>8 DEF HostRestarts
    <2>2. client' \in [Sessions -> ClientState] /\ mu' = None
        BY <1>0, <1>8, EmptyTypes DEF HostRestarts, VarTypes
    <2>. QED
        BY <1>0, <1>6, <2>1, <2>2 DEF Stop, VarTypes
<1>9. CASE \E d \in {"stale", "window", "ttl"} : TimePasses(d)
    <2>. PICK d \in {"stale", "window", "ttl"} : TimePasses(d)
        BY <1>9
    <2>1. lock' \in Locks \cup {None}
        BY <1>0 DEF TimePasses, VarTypes, Locks
    <2>2. expired' \in 0..issued'
        BY <1>0, PairingAssumption DEF TimePasses, VarTypes, Codes
    <2>. QED
        BY <1>0, <2>1, <2>2 DEF TimePasses, VarTypes, clientVars, history
<1>. QED
    BY <1>1, <1>2, <1>3, <1>4, <1>5, <1>7, <1>8, <1>9

-----------------------------------------------------------------------------
(* Requests *)

\* What every step on the file of codes leaves alone, and that a request for a code
\* or with a code remains one.
LEMMA StoreFrame ==
    ASSUME Inv, NEW c \in Callers, StoreStep(c) \/ StoreFails(c)
    PROVE  /\ \A d \in Callers : d # c => handler'[d] = handler[d]
           /\ handler'[c].op = handler[c].op /\ handler'[c].cert = handler[c].cert
           /\ handler[c].pc \in {"mutex", "lock", "stat", "steal", "load", "save", "unlock"}
           /\ handler'[c].pc \in {"lock", "stat", "steal", "load", "save", "unlock", "trust",
                                  "answer"}
           /\ handler'[c].pc = "answer" /\ handler'[c].op = "pair" => ~handler'[c].ok
           /\ UNCHANGED <<trusted, windows, client, record, run, given, certs, expired,
                          orphaned, overwritten>>
           /\ paid \subseteq paid' /\ issued' >= issued /\ PhaseOK(handler[c])'
           /\ c \in Sessions /\ mu' = c =>
                 handler'[c].pc \in {"lock", "stat", "steal", "load", "save", "unlock"}
           /\ \A s \in Sessions : s # c /\ mu' = s => mu = s
<1>0. /\ handler \in [Callers -> Handler] /\ handler[c] \in Handler /\ PhaseOK(handler[c])
      /\ issued \in Nat /\ mu \in Sessions \cup {None}
      /\ \A s \in Sessions :
          mu = s => handler[s].pc \in {"lock", "stat", "steal", "load", "save", "unlock"}
    BY PairingAssumption DEF Inv, VarTypes, PhaseInv, Codes
<1>a. ASSUME Goto(c, AfterStore(c))
      PROVE  /\ handler'[c].pc = IF handler[c].op = "pair" /\ handler[c].ok THEN "trust" ELSE "answer"
             /\ handler'[c].op = handler[c].op /\ handler'[c].cert = handler[c].cert
             /\ handler'[c].code = handler[c].code /\ handler'[c].ok = handler[c].ok
             /\ \A d \in Callers : d # c => handler'[d] = handler[d]
    BY <1>0, <1>a DEF Goto, AfterStore, Handler
<1>1. CASE LockMutex(c)
    BY <1>0, <1>1 DEF LockMutex, At, Goto, Handler, PhaseOK, hostFiles, clientVars, history
<1>2. CASE CreateLock(c)
    BY <1>0, <1>2 DEF CreateLock, At, Goto, Handler, PhaseOK, Kept, clientVars, history
<1>3. CASE StatLock(c)
    <2>1. CASE Goto(c, "lock") /\ UNCHANGED mu
        BY <1>0, <1>3, <2>1 DEF StatLock, At, Goto, Handler, PhaseOK, Kept, clientVars, history
    <2>2. CASE Goto(c, "steal") /\ UNCHANGED mu
        BY <1>0, <1>3, <2>2 DEF StatLock, At, Goto, Handler, PhaseOK, Kept, clientVars, history
    <2>3. CASE /\ handler' = [handler EXCEPT ![c].pc = "lock", ![c].polls = @ + 1]
               /\ UNCHANGED mu
        BY <1>0, <1>3, <2>3 DEF StatLock, At, Handler, PhaseOK, Kept, clientVars, history
    <2>4. CASE Return(c)
        <3>1. Goto(c, AfterStore(c)) /\ mu' = IF mu = c THEN None ELSE mu
            BY <2>4 DEF Return
        <3>2. /\ At(c, "stat") /\ issued' = issued /\ paid' = paid /\ certs' = certs
              /\ UNCHANGED <<trusted, windows, client, record, run, given, certs, expired,
                             orphaned, overwritten>>
            BY <1>3 DEF StatLock, Kept, clientVars, history
        <3>3. handler[c].pc = "stat" /\ ~handler[c].ok
            BY <1>0, <3>2 DEF At, PhaseOK
        <3>4. PhaseOK(handler[c])'
            BY <1>0, <1>a, <3>1, <3>2, <3>3 DEF PhaseOK
        <3>. QED
            BY <1>0, <1>a, <3>1, <3>2, <3>3, <3>4, PairingAssumption
    <2>. QED
        BY <1>3, <2>1, <2>2, <2>3, <2>4 DEF StatLock
<1>4. CASE StealLock(c)
    BY <1>0, <1>4 DEF StealLock, At, Goto, Handler, PhaseOK, Kept, clientVars
<1>5. CASE LoadStore(c)
    BY <1>0, <1>5 DEF LoadStore, At, Handler, PhaseOK, Kept, clientVars, history
<1>6. CASE CreateSave(c)
    <2>1. /\ handler'[c].pc = "unlock" /\ handler'[c].op = "code" /\ handler[c].op = "code"
          /\ handler'[c].code = issued + 1 /\ handler'[c].cert = handler[c].cert
          /\ \A d \in Callers : d # c => handler'[d] = handler[d]
        BY <1>0, <1>6 DEF CreateSave, Handler
    <2>2. /\ issued' = issued + 1 /\ mu' = mu /\ paid' = paid /\ handler[c].pc = "save"
          /\ UNCHANGED <<trusted, windows, client, record, run, given, certs, expired,
                         orphaned, overwritten>>
        BY <1>6 DEF CreateSave, At, Kept, clientVars, history
    <2>3. PhaseOK(handler[c])'
        BY <1>0, <2>1, <2>2 DEF PhaseOK
    <2>. QED
        BY <1>0, <2>1, <2>2, <2>3
<1>7. CASE ConsumeSave(c)
    <2>. DEFINE valid == ValidPairCode(handler[c].mem, handler[c].code)
    <2>1. /\ handler'[c].pc = "unlock" /\ handler'[c].op = "pair" /\ handler[c].op = "pair"
          /\ handler'[c].code = handler[c].code /\ handler'[c].cert = handler[c].cert
          /\ handler'[c].ok = valid
          /\ \A d \in Callers : d # c => handler'[d] = handler[d]
        BY <1>0, <1>7 DEF ConsumeSave, Handler
    <2>2. /\ issued' = issued /\ mu' = mu /\ handler[c].pc = "save"
          /\ paid' = IF valid THEN paid \cup {<<handler[c].code, handler[c].cert>>} ELSE paid
          /\ UNCHANGED <<trusted, windows, client, record, run, given, certs, expired,
                         orphaned, overwritten>>
        BY <1>7 DEF ConsumeSave, At, Kept, clientVars
    <2>. HIDE DEF valid
    <2>3. PhaseOK(handler[c])'
        BY <1>0, <2>1, <2>2 DEF PhaseOK
    <2>. QED
        BY <1>0, <2>1, <2>2, <2>3
<1>8. CASE ReleaseLock(c)
    <2>1. Goto(c, AfterStore(c)) /\ mu' = IF mu = c THEN None ELSE mu
        BY <1>8 DEF ReleaseLock, Return
    <2>2. /\ handler[c].pc = "unlock" /\ issued' = issued /\ paid' = paid
          /\ UNCHANGED <<trusted, windows, client, record, run, given, certs, expired,
                         orphaned, overwritten>>
        BY <1>8 DEF ReleaseLock, At, Kept, clientVars
    <2>3. PhaseOK(handler[c])'
        BY <1>0, <1>a, <2>1, <2>2 DEF PhaseOK
    <2>. QED
        BY <1>0, <1>a, <2>1, <2>2, <2>3, PairingAssumption
<1>9. CASE StoreFails(c)
    BY <1>0, <1>9 DEF StoreFails, Handler, PhaseOK, Kept, clientVars, history
<1>. QED
    BY <1>1, <1>2, <1>3, <1>4, <1>5, <1>6, <1>7, <1>8, <1>9 DEF StoreStep

\* allowPairRequest keeps its counters within their limits.
LEMMA CountWindows ==
    ASSUME WindowInv, NEW kind, windows' = Count(kind)
    PROVE  WindowInv'
<1>0. Limit \in Nat /\ Limit >= 1 /\ MaxWindows \in Nat
    BY PairingAssumption
<1>1. CASE ~allowPairRequest(kind)
    BY <1>1 DEF Count, WindowInv
<1>2. CASE allowPairRequest(kind)
    <2>. DEFINE dom == DOMAIN windows
    <2>1. windows' = [k \in dom \cup {kind} |->
            (IF k \in dom THEN windows[k] ELSE 0) + (IF k = kind THEN 1 ELSE 0)]
        BY <1>2 DEF Count
    <2>2. IsFiniteSet(dom \cup {kind}) /\ Cardinality(dom) \in Nat
          /\ Cardinality(dom \cup {kind}) = IF kind \in dom THEN Cardinality(dom)
                                            ELSE Cardinality(dom) + 1
        BY FS_AddElement, FS_CardinalityType DEF WindowInv
    <2>3. Cardinality(dom \cup {kind}) <= MaxWindows
        BY <1>0, <1>2, <2>2 DEF WindowInv, allowPairRequest
    <2>4. \A k \in dom \cup {kind} : windows'[k] \in 1..Limit
        BY <1>0, <1>2, <2>1 DEF WindowInv, allowPairRequest
    <2>. QED
        BY <2>1, <2>2, <2>3, <2>4 DEF WindowInv
<1>. QED
    BY <1>1, <1>2

\* No window is ever without room.
LEMMA WindowStep ==
    ASSUME Inv, Next
    PROVE  WindowInv'
<1>. USE DEF Inv
<1>1. CASE \E c \in Callers : StoreStep(c) \/ StoreFails(c)
    BY <1>1, StoreFrame DEF WindowInv
<1>2. CASE \E s \in Sessions : \/ HandlePairCodeRequest(s)
                               \/ \E code \in 1..MaxCodes : HandlePairRequest(s, code)
    BY <1>2, CountWindows DEF HandlePairCodeRequest, HandlePairRequest
<1>3. CASE windows' = [k \in {} |-> 0]
    BY <1>3, FS_EmptySet, PairingAssumption DEF WindowInv
<1>4. CASE \/ \E s \in Sessions : \/ TrustClient(s) \/ TrustFails(s) \/ CompletePairLoad(s)
                                  \/ CompletePairSave(s) \/ SessionFails(s)
           \/ \E c \in Callers : Answer(c)
           \/ PairCodeCommand \/ ResolveLoad \/ ResolveSave \/ CommandStops
    BY <1>4 DEF WindowInv, TrustClient, TrustFails, CompletePairLoad, CompletePairSave,
        SessionFails, Answer, PairCodeCommand, ResolveLoad, ResolveSave, CommandStops, Elsewhere
<1>5. CASE HostRestarts \/ \E d \in {"stale", "window", "ttl"} : TimePasses(d)
    BY <1>3, <1>5 DEF WindowInv, HostRestarts, TimePasses
<1>. QED
    BY <1>1, <1>2, <1>4, <1>5 DEF Next, Handle

\* Nobody starts to create a code: the room stays.
LEMMA RoomKept ==
    ASSUME Inv, Pending' \subseteq Pending, issued' = issued
    PROVE  RoomInv'
<1>1. IsFiniteSet(Callers)
    BY PairingAssumption, FS_AddElement DEF Callers
<1>2. IsFiniteSet(Pending)
    BY <1>1, FS_Subset DEF Pending
<1>3. IsFiniteSet(Pending') /\ Cardinality(Pending') <= Cardinality(Pending)
    BY <1>2, FS_Subset
<1>4. Cardinality(Pending) \in Nat /\ Cardinality(Pending') \in Nat
    BY <1>2, <1>3, FS_CardinalityType
<1>5. issued \in Nat /\ MaxCodes \in Nat /\ issued + Cardinality(Pending) <= MaxCodes
    BY PairingAssumption DEF Inv, VarTypes, RoomInv, Codes
<1>. QED
    BY <1>3, <1>4, <1>5 DEF RoomInv

\* One starts, with a code to spare.
LEMMA RoomTaken ==
    ASSUME Inv, MoreCodes, NEW c, Pending' \subseteq Pending \cup {c}, issued' = issued
    PROVE  RoomInv'
<1>1. IsFiniteSet(Callers)
    BY PairingAssumption, FS_AddElement DEF Callers
<1>2. IsFiniteSet(Pending) /\ Cardinality(Pending) \in Nat
    BY <1>1, FS_Subset, FS_CardinalityType DEF Pending
<1>3. IsFiniteSet(Pending \cup {c}) /\ Cardinality(Pending \cup {c}) <= Cardinality(Pending) + 1
    <2>1. IsFiniteSet(Pending \cup {c})
          /\ Cardinality(Pending \cup {c}) =
                IF c \in Pending THEN Cardinality(Pending) ELSE Cardinality(Pending) + 1
        BY <1>2, FS_AddElement
    <2>. QED
        BY <1>2, <2>1
<1>4. IsFiniteSet(Pending') /\ Cardinality(Pending') <= Cardinality(Pending \cup {c})
    BY <1>3, FS_Subset
<1>5. Cardinality(Pending') \in Nat /\ Cardinality(Pending \cup {c}) \in Nat
    BY <1>3, <1>4, FS_CardinalityType
<1>6. issued \in Nat /\ MaxCodes \in Nat /\ issued + Cardinality(Pending) < MaxCodes
    BY PairingAssumption DEF Inv, VarTypes, MoreCodes, Codes
<1>. QED
    BY <1>2, <1>3, <1>4, <1>5, <1>6 DEF RoomInv

\* There is always room for the codes that are being created.
LEMMA RoomStep ==
    ASSUME Inv, Next
    PROVE  RoomInv'
<1>0. /\ handler \in [Callers -> Handler] /\ issued \in Nat
      /\ Sessions \subseteq Callers /\ "cli" \in Callers
      /\ \A c \in Callers : PhaseOK(handler[c])
    BY PairingAssumption DEF Inv, VarTypes, PhaseInv, Codes, Callers
<1>1. ASSUME NEW c \in Callers, StoreStep(c) \/ StoreFails(c)
      PROVE  RoomInv'
    <2>1. CASE CreateSave(c)
        <3>1. c \in Pending /\ Pending' \subseteq Pending \ {c}
            BY <1>0, <2>1 DEF CreateSave, At, Pending, PhaseOK, Handler
        <3>2. IsFiniteSet(Callers)
            BY PairingAssumption, FS_AddElement DEF Callers
        <3>3. IsFiniteSet(Pending) /\ Cardinality(Pending) \in Nat
            BY <3>2, FS_Subset, FS_CardinalityType DEF Pending
        <3>4. IsFiniteSet(Pending \ {c}) /\ Cardinality(Pending \ {c}) = Cardinality(Pending) - 1
            BY <3>1, <3>3, FS_RemoveElement
        <3>5. IsFiniteSet(Pending') /\ Cardinality(Pending') <= Cardinality(Pending \ {c})
            BY <3>1, <3>4, FS_Subset
        <3>6. Cardinality(Pending') \in Nat
            BY <3>5, FS_CardinalityType
        <3>7. issued' = issued + 1
            BY <2>1 DEF CreateSave
        <3>8. issued + Cardinality(Pending) <= MaxCodes /\ MaxCodes \in Nat
            BY PairingAssumption DEF Inv, RoomInv
        <3>. QED
            BY <1>0, <3>3, <3>4, <3>5, <3>6, <3>7, <3>8 DEF RoomInv
    <2>2. CASE ~CreateSave(c)
        <3>1. issued' = issued
            BY <1>1, <2>2 DEF StoreStep, StoreFails, LockMutex, CreateLock, StatLock, StealLock,
                LoadStore, ConsumeSave, ReleaseLock
        <3>2. ASSUME handler'[c].op = "code" PROVE handler'[c].ok = handler[c].ok
            <4>1. ASSUME NEW pc, Goto(c, pc) PROVE handler'[c].ok = handler[c].ok
                BY <1>0, <4>1 DEF Goto, Handler
            <4>2. ~ConsumeSave(c)
                BY <1>0, <3>2 DEF ConsumeSave, Handler
            <4>3. CASE LoadStore(c) \/ StoreFails(c)
                BY <1>0, <4>3 DEF LoadStore, StoreFails, Handler
            <4>4. CASE StatLock(c)
                BY <1>0, <4>1, <4>4 DEF StatLock, Return, Handler
            <4>. QED
                BY <1>1, <2>2, <4>1, <4>2, <4>3, <4>4
                    DEF StoreStep, LockMutex, CreateLock, StealLock, ReleaseLock, Return
        <3>3. Pending' \subseteq Pending
            BY <1>0, <1>1, <3>2, StoreFrame DEF Pending
        <3>. QED
            BY <3>1, <3>3, RoomKept
    <2>. QED
        BY <2>1, <2>2
<1>2. ASSUME NEW s \in Sessions, HandlePairCodeRequest(s)
      PROVE  RoomInv'
    <2>1. Pending' \subseteq Pending \cup {s}
        BY <1>0, <1>2 DEF HandlePairCodeRequest, Pending
    <2>. QED
        BY <1>2, <2>1, RoomTaken DEF HandlePairCodeRequest
<1>3. ASSUME PairCodeCommand
      PROVE  RoomInv'
    <2>1. Pending' \subseteq Pending \cup {"cli"}
        BY <1>0, <1>3 DEF PairCodeCommand, Pending
    <2>. QED
        BY <1>3, <2>1, RoomTaken DEF PairCodeCommand
<1>4. ASSUME NEW s \in Sessions, NEW code, HandlePairRequest(s, code)
      PROVE  RoomInv'
    <2>1. Pending' \subseteq Pending
        BY <1>0, <1>4 DEF HandlePairRequest, Pending, Free
    <2>. QED
        BY <1>4, <2>1, RoomKept DEF HandlePairRequest
<1>5. ASSUME NEW s \in Sessions, TrustClient(s) \/ TrustFails(s)
      PROVE  RoomInv'
    <2>1. handler[s].op = "pair" /\ s \in Callers
        BY <1>0, <1>5 DEF TrustClient, TrustFails, At, PhaseOK
    <2>2. Pending' \subseteq Pending
        BY <1>0, <1>5, <2>1 DEF TrustClient, TrustFails, Goto, Pending, Handler
    <2>. QED
        BY <1>5, <2>2, RoomKept DEF TrustClient, TrustFails
<1>6. ASSUME NEW c \in Callers, Answer(c)
      PROVE  RoomInv'
    <2>1. Pending' \subseteq Pending
        BY <1>0, <1>6 DEF Answer, Pending, Free
    <2>. QED
        BY <1>6, <2>1, RoomKept DEF Answer
<1>7. ASSUME NEW ps, Stop(ps)
      PROVE  RoomInv'
    <2>1. Pending' \subseteq Pending
        BY <1>0, <1>7 DEF Stop, Pending, Free
    <2>. QED
        BY <1>7, <2>1, RoomKept DEF Stop
<1>8. ASSUME UNCHANGED <<handler, issued>>
      PROVE  RoomInv'
    BY <1>8, RoomKept DEF Pending
<1>9. CASE \/ \E s \in Sessions : CompletePairLoad(s) \/ CompletePairSave(s) \/ SessionFails(s)
           \/ ResolveLoad \/ ResolveSave
           \/ \E d \in {"stale", "window", "ttl"} : TimePasses(d)
    <2>1. UNCHANGED <<handler, issued>>
        BY <1>9 DEF CompletePairLoad, CompletePairSave, SessionFails, ResolveLoad, ResolveSave,
            TimePasses, Elsewhere
    <2>. QED
        BY <1>8, <2>1
<1>10. CASE CommandStops \/ HostRestarts
    BY <1>7, <1>10 DEF CommandStops, HostRestarts
<1>. QED
    BY <1>1, <1>2, <1>3, <1>4, <1>5, <1>6, <1>9, <1>10 DEF Next, Handle

\* A request is accepted only when its code was consumed, and trust follows.
LEMMA PhaseStep ==
    ASSUME Inv, Next
    PROVE  PhaseInv'
<1>0. /\ handler \in [Callers -> Handler] /\ issued \in Nat /\ certs \in Nat /\ PhaseInv
      /\ client \in [Sessions -> ClientState] /\ mu \in Sessions \cup {None}
      /\ Sessions \subseteq Callers /\ "cli" \in Callers /\ None \notin Sessions
      /\ "cli" \notin Sessions
    BY PairingAssumption DEF Inv, VarTypes, Codes, Certs, Callers
<1>1. ASSUME NEW c \in Callers, StoreStep(c) \/ StoreFails(c)
      PROVE  PhaseInv'
    <2>1. /\ issued' \in Nat /\ issued' >= issued /\ paid \subseteq paid' /\ certs' = certs
          /\ UNCHANGED <<client, given, trusted>>
        <3>1. VarTypes'
            BY <1>1, StoreTypes
        <3>. QED
            BY <1>1, <3>1, StoreFrame, PairingAssumption DEF VarTypes, Codes
    <2>2. \A d \in Callers : PhaseOK(handler[d])'
        <3>. TAKE d \in Callers
        <3>1. CASE d = c
            BY <1>1, <3>1, StoreFrame
        <3>2. CASE d # c
            <4>1. handler'[d] = handler[d] /\ PhaseOK(handler[d])
                BY <1>0, <1>1, <3>2, StoreFrame DEF PhaseInv
            <4>. QED
                BY <1>0, <2>1, <4>1 DEF PhaseOK
        <3>. QED
            BY <3>1, <3>2
    <2>3. \A s \in Sessions :
            mu' = s => handler'[s].pc \in {"lock", "stat", "steal", "load", "save", "unlock"}
        <3>. SUFFICES ASSUME NEW s \in Sessions, mu' = s
                      PROVE  handler'[s].pc \in {"lock", "stat", "steal", "load", "save", "unlock"}
            OBVIOUS
        <3>1. CASE s = c
            BY <1>1, <3>1, StoreFrame
        <3>2. CASE s # c
            <4>1. mu = s /\ handler'[s] = handler[s]
                BY <1>0, <1>1, <3>2, StoreFrame
            <4>. QED
                BY <1>0, <4>1 DEF PhaseInv
        <3>. QED
            BY <3>1, <3>2
    <2>. QED
        BY <1>0, <2>1, <2>2, <2>3 DEF PhaseInv
<1>2. ASSUME NEW c \in Callers, \A d \in Callers : d # c => handler'[d] = handler[d],
             PhaseOK(handler[c])', UNCHANGED <<issued, paid>>, certs' \in {certs, certs + 1},
             mu' = mu, c \in Sessions => mu # c
      PROVE  /\ \A d \in Callers : PhaseOK(handler[d])'
             /\ \A s \in Sessions :
                   mu' = s => handler'[s].pc \in {"lock", "stat", "steal", "load", "save", "unlock"}
    <2>1. ASSUME NEW d \in Callers
          PROVE  PhaseOK(handler[d])'
        <3>1. CASE d = c
            BY <1>0, <1>2, <3>1
        <3>2. CASE d # c
            <4>1. handler'[d] = handler[d] /\ PhaseOK(handler[d])
                BY <1>0, <1>2, <3>2 DEF PhaseInv
            <4>. QED
                BY <1>0, <1>2, <4>1 DEF PhaseOK
        <3>. QED
            BY <3>1, <3>2
    <2>. QED
        BY <1>0, <1>2, <2>1 DEF PhaseInv
<1>3. ASSUME NEW s \in Sessions, HandlePairCodeRequest(s)
      PROVE  PhaseInv'
    <2>. DEFINE h == [Free EXCEPT !.op = "code",
                        !.pc = IF allowPairRequest("code") THEN "mutex" ELSE "answer"]
    <2>0. handler' = [handler EXCEPT ![s] = h]
        BY <1>3 DEF HandlePairCodeRequest
    <2>1. (\A d \in Callers : d # s => handler'[d] = handler[d]) /\ PhaseOK(handler[s])'
        BY <1>0, <2>0 DEF PhaseOK, Free
    <2>2. mu # s
        BY <1>0, <1>3 DEF HandlePairCodeRequest, Busy, PhaseInv
    <2>. QED
        BY <1>0, <1>2, <1>3, <2>1, <2>2 DEF HandlePairCodeRequest, PhaseInv, hostFiles, history
<1>4. ASSUME NEW s \in Sessions, NEW code, HandlePairRequest(s, code)
      PROVE  PhaseInv'
    <2>. DEFINE h == [Free EXCEPT !.op = "pair", !.code = code, !.cert = certs + 1,
                        !.pc = IF allowPairRequest("pair") THEN "mutex" ELSE "answer"]
    <2>0. handler' = [handler EXCEPT ![s] = h]
        BY <1>4 DEF HandlePairRequest
    <2>3. certs' = IF allowPairRequest("pair") THEN certs + 1 ELSE certs
        BY <1>4 DEF HandlePairRequest
    <2>1. (\A d \in Callers : d # s => handler'[d] = handler[d]) /\ PhaseOK(handler[s])'
        BY <1>0, <2>0, <2>3 DEF PhaseOK, Free
    <2>2. mu # s
        BY <1>0, <1>4 DEF HandlePairRequest, Busy, PhaseInv
    <2>. QED
        BY <1>0, <1>2, <1>4, <2>1, <2>2, <2>3 DEF HandlePairRequest, PhaseInv, hostFiles, history
<1>5. ASSUME PairCodeCommand
      PROVE  PhaseInv'
    <2>. DEFINE h == [Free EXCEPT !.op = "code", !.pc = "mutex"]
    <2>0. handler' = [handler EXCEPT !["cli"] = h]
        BY <1>5 DEF PairCodeCommand
    <2>1. (\A d \in Callers : d # "cli" => handler'[d] = handler[d]) /\ PhaseOK(handler["cli"])'
        BY <1>0, <2>0 DEF PhaseOK, Free
    <2>. QED
        BY <1>0, <1>2, <1>5, <2>1 DEF PairCodeCommand, PhaseInv, hostFiles, history
<1>6. ASSUME NEW s \in Sessions, TrustClient(s)
      PROVE  PhaseInv'
    <2>. DEFINE h == [handler[s] EXCEPT !.pc = "answer"]
    <2>1. PhaseOK(handler[s]) /\ handler[s].pc = "trust" /\ handler[s] \in Handler
        BY <1>0, <1>6 DEF TrustClient, At, PhaseInv
    <2>0. handler' = [handler EXCEPT ![s] = h] /\ UNCHANGED <<issued, paid, certs, mu, given>>
        BY <1>0, <1>6 DEF TrustClient, Goto
    <2>2. (\A d \in Callers : d # s => handler'[d] = handler[d]) /\ PhaseOK(handler[s])'
        BY <1>0, <2>0, <2>1 DEF PhaseOK, Handler
    <2>3. mu # s
        BY <1>0, <2>1 DEF PhaseInv
    <2>4. \A cert \in trusted' : \E x \in paid' : x[2] = cert
        <3>1. <<handler[s].code, handler[s].cert>> \in paid
            BY <2>1 DEF PhaseOK
        <3>. QED
            BY <1>0, <1>6, <3>1 DEF TrustClient, TrustedWith, PhaseInv
    <2>. QED
        BY <1>0, <1>2, <2>0, <2>2, <2>3, <2>4 DEF PhaseInv
<1>7. ASSUME NEW s \in Sessions, TrustFails(s)
      PROVE  PhaseInv'
    <2>. DEFINE h == [handler[s] EXCEPT !.pc = "answer", !.ok = FALSE]
    <2>1. PhaseOK(handler[s]) /\ handler[s].pc = "trust" /\ handler[s] \in Handler
        BY <1>0, <1>7 DEF TrustFails, At, PhaseInv
    <2>0. handler' = [handler EXCEPT ![s] = h]
          /\ UNCHANGED <<issued, paid, certs, mu, given, trusted>>
        BY <1>0, <1>7 DEF TrustFails, hostFiles, history
    <2>2. (\A d \in Callers : d # s => handler'[d] = handler[d]) /\ PhaseOK(handler[s])'
        BY <1>0, <2>0, <2>1 DEF PhaseOK, Handler
    <2>3. mu # s
        BY <1>0, <2>1 DEF PhaseInv
    <2>. QED
        BY <1>0, <1>2, <2>0, <2>2, <2>3 DEF PhaseInv
<1>8. ASSUME NEW c \in Callers, Answer(c)
      PROVE  PhaseInv'
    <2>1. PhaseOK(handler[c]) /\ handler[c].pc = "answer"
        BY <1>0, <1>8 DEF Answer, At, PhaseInv
    <2>2. (\A d \in Callers : d # c => handler'[d] = handler[d]) /\ PhaseOK(handler[c])'
        BY <1>0, <1>8 DEF Answer, PhaseOK, Free
    <2>3. c \in Sessions => mu # c
        BY <1>0, <2>1 DEF PhaseInv
    <2>4. given' \subseteq 1..issued'
        BY <1>0, <1>8, <2>1 DEF Answer, PhaseOK, PhaseInv
    <2>5. UNCHANGED <<issued, paid, certs, mu, trusted>>
        BY <1>8 DEF Answer, hostFiles, history
    <2>. QED
        BY <1>0, <1>2, <2>2, <2>3, <2>4, <2>5 DEF PhaseInv
<1>9. ASSUME NEW ps, Stop(ps), UNCHANGED mu \/ mu' = None, ps \cap Sessions = {} \/ mu' = None
      PROVE  PhaseInv'
    <2>1. PhaseOK(Free)
        BY DEF PhaseOK, Free
    <2>2. \A d \in Callers : PhaseOK(handler'[d])
        BY <1>0, <1>9, <2>1 DEF Stop, PhaseInv
    <2>3. UNCHANGED <<issued, paid, certs, given, trusted>>
        BY <1>9 DEF Stop
    <2>4. \A d \in Callers : PhaseOK(handler[d])'
        BY <2>2, <2>3 DEF PhaseOK
    <2>5. \A s \in Sessions :
            mu' = s => handler'[s].pc \in {"lock", "stat", "steal", "load", "save", "unlock"}
        BY <1>0, <1>9 DEF Stop, PhaseInv
    <2>. QED
        BY <1>0, <2>3, <2>4, <2>5 DEF PhaseInv
<1>10. CASE CommandStops \/ HostRestarts
    BY <1>0, <1>9, <1>10 DEF CommandStops, HostRestarts
<1>11. CASE \/ \E s \in Sessions : CompletePairLoad(s) \/ CompletePairSave(s) \/ SessionFails(s)
            \/ ResolveLoad \/ ResolveSave
            \/ \E d \in {"stale", "window", "ttl"} : TimePasses(d)
    <2>1. UNCHANGED <<handler, issued, certs, paid, mu, given, trusted>>
        BY <1>11 DEF CompletePairLoad, CompletePairSave, SessionFails, ResolveLoad, ResolveSave,
            TimePasses, Elsewhere, hostFiles, history
    <2>. QED
        BY <1>0, <2>1 DEF PhaseInv, PhaseOK
<1>. QED
    BY <1>1, <1>3, <1>4, <1>5, <1>6, <1>7, <1>8, <1>10, <1>11 DEF Next, Handle

-----------------------------------------------------------------------------
(* The lock and the file *)

\* Steps that neither start nor end anyone's work leave the lock where it is.
LEMMA LockFrame ==
    ASSUME Inv, LockHeld, lock' = lock, \A c \in Callers : Working(c)' <=> Working(c)
    PROVE  LockHeld'
<1>1. lock # None => lock.by \in Callers
    BY DEF Inv, VarTypes, Locks
<1>. QED
    BY <1>1 DEF LockHeld

\* While no lock is lost, the lock file belongs to the process that works.
LEMMA LockStep ==
    ASSUME Inv, Next, ~broken'
    PROVE  ~broken /\ LockHeld /\ LockHeld'
<1>0. /\ handler \in [Callers -> Handler] /\ lock \in Locks \cup {None} /\ None \notin Locks
      /\ Sessions \subseteq Callers /\ "cli" \in Callers /\ "cli" \notin Sessions
    BY PairingAssumption DEF Inv, VarTypes, Callers
<1>a. ASSUME ~broken
      PROVE  LockHeld
    BY <1>a DEF Inv, CodeInv
<1>b. ASSUME NEW c \in Callers, NEW pc, Goto(c, pc)
      PROVE  /\ \A d \in Callers : d # c => (Working(d)' <=> Working(d))
             /\ Working(c)' <=> pc \in {"load", "save", "unlock"}
    BY <1>0, <1>b DEF Goto, Working, Handler
<1>c. \A c \in Callers : AfterStore(c) \notin {"load", "save", "unlock"}
    BY DEF AfterStore
<1>1. ASSUME NEW c \in Callers, LockMutex(c)
      PROVE  ~broken /\ LockHeld /\ LockHeld'
    <2>1. UNCHANGED <<lock, broken>> /\ Goto(c, "lock") /\ ~Working(c)
        BY <1>1 DEF LockMutex, At, Working, hostFiles, history
    <2>. QED
        BY <1>a, <1>b, <2>1, LockFrame
<1>2. ASSUME NEW c \in Callers, CreateLock(c)
      PROVE  ~broken /\ LockHeld /\ LockHeld'
    <2>1. ~Working(c) /\ ~broken /\ LockHeld
        BY <1>a, <1>2 DEF CreateLock, At, Working, history
    <2>2. CASE lock = None
        <3>1. Goto(c, "load") /\ lock' = [by |-> c, alive |-> TRUE, old |-> FALSE]
            BY <1>2, <2>2 DEF CreateLock
        <3>2. \A d \in Callers : ~Working(d)
            BY <2>1, <2>2 DEF LockHeld
        <3>3. \A d \in Callers : Working(d)' <=> d = c
            BY <1>b, <3>1, <3>2
        <3>4. lock' # None /\ lock'.by = c /\ lock'.alive
            <4>1. lock' \in Locks /\ lock'.by = c /\ lock'.alive
                BY <3>1 DEF Locks
            <4>. QED
                BY <1>0, <4>1
        <3>. QED
            BY <2>1, <3>3, <3>4 DEF LockHeld
    <2>3. CASE lock # None
        <3>1. Goto(c, "stat") /\ lock' = lock
            BY <1>2, <2>3 DEF CreateLock
        <3>. QED
            BY <1>b, <2>1, <3>1, LockFrame
    <2>. QED
        BY <2>2, <2>3
<1>3. ASSUME NEW c \in Callers, StatLock(c)
      PROVE  ~broken /\ LockHeld /\ LockHeld'
    <2>1. UNCHANGED <<lock, broken>> /\ ~Working(c)
        BY <1>3 DEF StatLock, At, Working, history
    <2>2. \A d \in Callers : Working(d)' <=> Working(d)
        <3>1. CASE \/ Goto(c, "lock") \/ Goto(c, "steal") \/ Return(c)
            BY <1>b, <1>c, <2>1, <3>1 DEF Return
        <3>2. CASE handler' = [handler EXCEPT ![c].pc = "lock", ![c].polls = @ + 1]
            BY <1>0, <2>1, <3>2 DEF Working, Handler
        <3>. QED
            BY <1>3, <3>1, <3>2 DEF StatLock
    <2>. QED
        BY <1>a, <2>1, <2>2, LockFrame
<1>4. ASSUME NEW c \in Callers, StealLock(c)
      PROVE  ~broken /\ LockHeld /\ LockHeld'
    <2>1. /\ ~Working(c) /\ Goto(c, "lock") /\ lock' = None
          /\ ~broken /\ ~(lock # None /\ lock.by # c /\ lock.alive)
        BY <1>4 DEF StealLock, LockRemoved, At, Working
    <2>2. LockHeld
        BY <1>a, <2>1
    <2>3. \A d \in Callers : ~Working(d)
        BY <2>1, <2>2 DEF LockHeld
    <2>4. \A d \in Callers : ~Working(d)'
        BY <1>b, <2>1, <2>3
    <2>. QED
        BY <2>1, <2>2, <2>4 DEF LockHeld
<1>5. ASSUME NEW c \in Callers, LoadStore(c) \/ CreateSave(c) \/ ConsumeSave(c) \/ StoreFails(c)
      PROVE  ~broken /\ LockHeld /\ LockHeld'
    <2>1. UNCHANGED <<lock, broken>> /\ Working(c)
        BY <1>5 DEF LoadStore, CreateSave, ConsumeSave, StoreFails, At, Working, history
    <2>2. \A d \in Callers : d # c => handler'[d] = handler[d]
        BY <1>5, StoreFrame DEF StoreStep
    <2>3. handler'[c].pc \in {"save", "unlock"}
        <3>1. CASE LoadStore(c)
            BY <1>0, <3>1 DEF LoadStore, Handler
        <3>2. CASE CreateSave(c)
            BY <1>0, <3>2 DEF CreateSave, Handler
        <3>3. CASE ConsumeSave(c)
            BY <1>0, <3>3 DEF ConsumeSave, Handler
        <3>4. CASE StoreFails(c)
            BY <1>0, <3>4 DEF StoreFails, Handler
        <3>. QED
            BY <1>5, <3>1, <3>2, <3>3, <3>4
    <2>4. \A d \in Callers : Working(d)' <=> Working(d)
        BY <2>1, <2>2, <2>3 DEF Working
    <2>. QED
        BY <1>a, <2>1, <2>4, LockFrame
<1>6. ASSUME NEW c \in Callers, ReleaseLock(c)
      PROVE  ~broken /\ LockHeld /\ LockHeld'
    <2>1. Working(c) /\ Goto(c, AfterStore(c)) /\ lock' = None /\ ~broken
        BY <1>6 DEF ReleaseLock, Return, LockRemoved, At, Working
    <2>2. LockHeld
        BY <1>a, <2>1
    <2>3. \A d \in Callers : Working(d) => d = c
        BY <2>1, <2>2 DEF LockHeld
    <2>4. \A d \in Callers : ~Working(d)'
        BY <1>b, <1>c, <2>1, <2>3
    <2>. QED
        BY <2>1, <2>2, <2>4 DEF LockHeld
<1>7. ASSUME NEW c \in Callers, UNCHANGED <<lock, broken>>,
             \A d \in Callers : d # c => handler'[d] = handler[d], ~Working(c), ~Working(c)'
      PROVE  ~broken /\ LockHeld /\ LockHeld'
    <2>1. \A d \in Callers : Working(d)' <=> Working(d)
        BY <1>7 DEF Working
    <2>. QED
        BY <1>a, <1>7, <2>1, LockFrame
<1>8. ASSUME NEW s \in Sessions,
             \/ HandlePairCodeRequest(s)
             \/ \E code \in 1..MaxCodes : HandlePairRequest(s, code)
             \/ TrustClient(s) \/ TrustFails(s)
      PROVE  ~broken /\ LockHeld /\ LockHeld'
    <2>1. UNCHANGED <<lock, broken>> /\ ~Working(s)
        BY <1>8 DEF HandlePairCodeRequest, HandlePairRequest, TrustClient, TrustFails, At, Busy,
            Working, hostFiles, history
    <2>2. (\A d \in Callers : d # s => handler'[d] = handler[d]) /\ ~Working(s)'
        <3>1. CASE HandlePairCodeRequest(s)
            BY <1>0, <3>1 DEF HandlePairCodeRequest, Working, Free
        <3>2. CASE \E code \in 1..MaxCodes : HandlePairRequest(s, code)
            BY <1>0, <3>2 DEF HandlePairRequest, Working, Free
        <3>3. CASE TrustClient(s) \/ TrustFails(s)
            BY <1>0, <3>3 DEF TrustClient, TrustFails, Goto, Working, Handler
        <3>. QED
            BY <1>8, <3>1, <3>2, <3>3
    <2>. QED
        BY <1>0, <1>7, <2>1, <2>2
<1>9. ASSUME NEW c \in Callers, Answer(c) \/ (c = "cli" /\ PairCodeCommand)
      PROVE  ~broken /\ LockHeld /\ LockHeld'
    <2>1. UNCHANGED <<lock, broken>> /\ ~Working(c)
        BY <1>9 DEF Answer, PairCodeCommand, At, Busy, Working, hostFiles, history
    <2>2. (\A d \in Callers : d # c => handler'[d] = handler[d]) /\ ~Working(c)'
        <3>1. CASE Answer(c)
            BY <1>0, <3>1 DEF Answer, Working, Free
        <3>2. CASE c = "cli" /\ PairCodeCommand
            BY <1>0, <3>2 DEF PairCodeCommand, Working, Free
        <3>. QED
            BY <1>9, <3>1, <3>2
    <2>. QED
        BY <1>7, <2>1, <2>2
<1>10. ASSUME NEW ps, Stop(ps)
       PROVE  ~broken /\ LockHeld /\ LockHeld'
    <2>1. ~broken /\ LockHeld
        BY <1>a, <1>10 DEF Stop
    <2>2. \A d \in Callers : Working(d)' <=> d \notin ps /\ Working(d)
        BY <1>0, <1>10 DEF Stop, Working, Free
    <2>3. CASE lock # None /\ lock.by \in ps
        <3>1. lock' # None /\ ~lock'.alive
            BY <1>0, <1>10, <2>3 DEF Stop, Locks
        <3>2. \A d \in Callers : ~Working(d)'
            BY <2>1, <2>2, <2>3 DEF LockHeld
        <3>. QED
            BY <2>1, <3>1, <3>2 DEF LockHeld
    <2>4. CASE ~(lock # None /\ lock.by \in ps)
        <3>1. lock' = lock /\ (lock # None => lock.by \in Callers)
            BY <1>0, <1>10, <2>4 DEF Stop, Locks
        <3>. QED
            BY <2>1, <2>2, <2>4, <3>1 DEF LockHeld
    <2>. QED
        BY <2>3, <2>4
<1>11. CASE CommandStops \/ HostRestarts
    BY <1>10, <1>11 DEF CommandStops, HostRestarts
<1>12. CASE \/ \E s \in Sessions : CompletePairLoad(s) \/ CompletePairSave(s) \/ SessionFails(s)
            \/ ResolveLoad \/ ResolveSave
    <2>1. UNCHANGED <<handler, lock, broken>>
        BY <1>12 DEF CompletePairLoad, CompletePairSave, SessionFails, ResolveLoad, ResolveSave,
            Elsewhere, hostFiles
    <2>. QED
        BY <1>a, <2>1, LockFrame DEF Working
<1>13. CASE \E d \in {"stale", "window", "ttl"} : TimePasses(d)
    <2>1. /\ UNCHANGED <<handler, broken>>
          /\ lock' = IF lock = None THEN None ELSE [lock EXCEPT !.old = TRUE]
        BY <1>13 DEF TimePasses, history
    <2>2. /\ lock' = None <=> lock = None
          /\ lock # None => lock'.by = lock.by /\ lock'.alive = lock.alive /\ lock.by \in Callers
        BY <1>0, <2>1 DEF Locks
    <2>. QED
        BY <1>a, <2>1, <2>2 DEF LockHeld, Working
<1>. QED
    BY <1>0, <1>1, <1>2, <1>3, <1>4, <1>5, <1>6, <1>8, <1>9, <1>11, <1>12, <1>13
        DEF Next, Handle, StoreStep

\* Steps that neither write the file nor read it.
LEMMA FileFrame ==
    ASSUME Inv, FileInv, UNCHANGED <<store, paid, issued>>,
           expired' \in Int, expired' >= expired,
           \A c \in Callers : At(c, "save")' =>
              \/ At(c, "save") /\ handler'[c].mem = handler[c].mem
              \/ handler'[c].mem = store
    PROVE  FileInv'
<1>1. \A c \in Callers : At(c, "save")' => handler'[c].mem = store'
    BY DEF FileInv
<1>2. ASSUME NEW code \in 1..issued'
      PROVE  Accounted(code)'
    <2>1. Accounted(code) /\ code \in Int
        BY DEF FileInv
    <2>2. expired \in Int
        BY DEF Inv, VarTypes
    <2>. QED
        BY <2>1, <2>2 DEF Accounted
<1>. QED
    BY <1>1, <1>2 DEF FileInv

\* CreatePairCode keeps every code that is good, unless there are too many.
LEMMA CreateFile ==
    ASSUME Inv, ~broken, NEW c \in Callers, CreateSave(c)
    PROVE  FileInv'
<1>0. /\ LockHeld /\ FileInv /\ Fits(store) /\ issued \in Nat /\ expired \in Int
      /\ handler \in [Callers -> Handler] /\ MaxActive \in Nat
    BY PairingAssumption DEF Inv, CodeInv, VarTypes, Codes
<1>1. /\ handler[c].pc = "save" /\ handler'[c].pc = "unlock" /\ handler[c].mem = store
      /\ \A d \in Callers : d # c => handler'[d] = handler[d]
    BY <1>0 DEF CreateSave, At, Handler, FileInv
<1>2. /\ issued' = issued + 1 /\ store' = WithNewCode(store, issued + 1)
      /\ UNCHANGED <<paid, expired>>
    BY <1>1 DEF CreateSave, Kept, history
<1>3. /\ store' \subseteq store \cup {[code |-> issued + 1, used |-> FALSE]}
      /\ [code |-> issued + 1, used |-> FALSE] \in store'
    BY <1>2 DEF WithNewCode
<1>4. \A d \in Callers : At(d, "save")' => handler'[d].mem = store'
    <2>. SUFFICES ASSUME NEW d \in Callers, At(d, "save")'
                  PROVE  FALSE
        OBVIOUS
    <2>1. d # c
        BY <1>1 DEF At
    <2>2. Working(d) /\ Working(c)
        BY <1>1, <2>1 DEF At, Working
    <2>. QED
        BY <1>0, <2>1, <2>2 DEF LockHeld
<1>5. \A r \in store : r.code \in Int /\ r.code <= issued
    BY <1>0, PairingAssumption DEF FileInv, Fits, Records, Codes
<1>6. \A r \in store' : r.code <= issued'
    BY <1>0, <1>2, <1>3, <1>5
<1>7. ASSUME NEW x \in paid'
      PROVE  x[1] <= issued' /\ [code |-> x[1], used |-> FALSE] \notin store'
    <2>1. x[1] \in Int /\ x[1] <= issued /\ [code |-> x[1], used |-> FALSE] \notin store
        BY <1>0, <1>2, PairingAssumption DEF FileInv, Inv, VarTypes, Codes
    <2>2. [code |-> x[1], used |-> FALSE] # [code |-> issued + 1, used |-> FALSE]
        BY <1>0, <2>1
    <2>. QED
        BY <1>0, <1>2, <1>3, <2>1, <2>2
<1>8. ASSUME NEW code \in 1..issued'
      PROVE  Accounted(code)'
    <2>. DEFINE r == [code |-> code, used |-> FALSE]
    <2>1. CASE code = issued + 1
        BY <1>2, <1>3, <2>1 DEF Accounted
    <2>2. CASE code # issued + 1
        <3>1. code \in 1..issued /\ code \in Int /\ Accounted(code)
            BY <1>0, <1>2, <2>2 DEF FileInv
        <3>2. CASE \/ code <= expired \/ \E x \in paid : x[1] = code
                   \/ issued - code >= MaxActive
            BY <1>0, <1>2, <3>1, <3>2 DEF Accounted
        <3>3. CASE r \in store /\ ~(code <= expired)
            <4>1. ~r.used /\ r.code > expired /\ r.code = code
                BY <1>0, <3>1, <3>3
            <4>. HIDE DEF r
            <4>2. r \in WithNewCode(store, issued + 1) \/ (issued + 1) - r.code >= MaxActive
                BY <1>0, <1>5, <3>3, <4>1, NewCodeKeeps
            <4>. USE DEF r
            <4>. QED
                BY <1>2, <4>1, <4>2 DEF Accounted
        <3>. QED
            BY <3>1, <3>2, <3>3 DEF Accounted
    <2>. QED
        BY <2>1, <2>2
<1>. QED
    BY <1>0, <1>2, <1>4, <1>6, <1>7, <1>8 DEF FileInv

\* ConsumePairCode uses a code that was never used before, and no other.
LEMMA ConsumeFile ==
    ASSUME Inv, ~broken, NEW c \in Callers, ConsumeSave(c)
    PROVE  FileInv'
<1>0. /\ LockHeld /\ FileInv /\ Fits(store) /\ issued \in Nat /\ expired \in Int
      /\ handler \in [Callers -> Handler] /\ paid \subseteq Codes \X Certs
    BY PairingAssumption DEF Inv, CodeInv, VarTypes, Codes
<1>. DEFINE code == handler[c].code
            old == [code |-> code, used |-> FALSE]
<1>1. /\ handler[c].pc = "save" /\ handler'[c].pc = "unlock" /\ handler[c].mem = store
      /\ \A d \in Callers : d # c => handler'[d] = handler[d]
    BY <1>0 DEF ConsumeSave, At, Handler, FileInv
<1>2. UNCHANGED <<issued, expired>>
    BY DEF ConsumeSave, Kept
<1>3. \A d \in Callers : ~At(d, "save")'
    <2>. SUFFICES ASSUME NEW d \in Callers, At(d, "save")'
                  PROVE  FALSE
        OBVIOUS
    <2>1. d # c
        BY <1>1 DEF At
    <2>2. Working(d) /\ Working(c)
        BY <1>1, <2>1 DEF At, Working
    <2>. QED
        BY <1>0, <2>1, <2>2 DEF LockHeld
<1>4. CASE ~ValidPairCode(store, code)
    <2>1. UNCHANGED <<store, paid>>
        BY <1>1, <1>4 DEF ConsumeSave
    <2>. QED
        BY <1>0, <1>2, <1>3, <2>1, FileFrame
<1>5. CASE ValidPairCode(store, code)
    <2>1. /\ store' = WithUsed(store, code)
          /\ paid' = paid \cup {<<code, handler[c].cert>>}
        BY <1>1, <1>5 DEF ConsumeSave
    <2>2. old \in store
        BY <1>5 DEF ValidPairCode
    <2>3. code \in Int /\ code <= issued
        BY <1>0, <2>2, PairingAssumption DEF FileInv, Fits, Records, Codes
    <2>4. old \notin store' /\ \A r \in store' : r \in store \/ r.code = code
        BY <2>1 DEF WithUsed
    <2>5. \A x \in paid : x[1] # code
        BY <1>0, <2>2 DEF FileInv
    <2>6. \A r \in store' : r.code <= issued'
        BY <1>0, <1>2, <2>3, <2>4 DEF FileInv
    <2>7. ASSUME NEW x \in paid'
          PROVE  x[1] <= issued' /\ [code |-> x[1], used |-> FALSE] \notin store'
        <3>1. CASE x \in paid
            <4>1. x[1] <= issued /\ [code |-> x[1], used |-> FALSE] \notin store
                BY <1>0, <3>1 DEF FileInv
            <4>2. [code |-> x[1], used |-> FALSE].code # code
                BY <2>5, <3>1
            <4>. QED
                BY <1>2, <2>4, <4>1, <4>2
        <3>2. CASE x = <<code, handler[c].cert>>
            BY <1>2, <2>3, <2>4, <3>2
        <3>. QED
            BY <2>1, <3>1, <3>2
    <2>8. \A x, y \in paid' : x[1] = y[1] => x = y
        BY <1>0, <2>1, <2>5 DEF FileInv
    <2>9. ASSUME NEW k \in 1..issued'
          PROVE  Accounted(k)'
        <3>1. CASE k = code
            <4>1. <<code, handler[c].cert>> \in paid' /\ <<code, handler[c].cert>>[1] = k
                BY <2>1, <3>1
            <4>. QED
                BY <4>1 DEF Accounted
        <3>2. CASE k # code
            <4>1. Accounted(k)
                BY <1>0, <1>2 DEF FileInv
            <4>2. [code |-> k, used |-> FALSE] \in store => [code |-> k, used |-> FALSE] \in store'
                BY <2>1, <3>2 DEF WithUsed
            <4>. QED
                BY <1>2, <2>1, <4>1, <4>2 DEF Accounted
        <3>. QED
            BY <3>1, <3>2
    <2>. QED
        BY <1>3, <2>6, <2>7, <2>8, <2>9 DEF FileInv
<1>. QED
    BY <1>4, <1>5

\* While no lock is lost, the file is what the processes have made of it in turn.
LEMMA FileStep ==
    ASSUME Inv, Next, ~broken
    PROVE  FileInv'
<1>0. /\ FileInv /\ handler \in [Callers -> Handler] /\ expired \in Int /\ issued \in Nat
      /\ Sessions \subseteq Callers /\ "cli" \in Callers /\ expired <= issued
    BY PairingAssumption DEF Inv, CodeInv, VarTypes, Callers, Codes
<1>1. ASSUME NEW c \in Callers, \A d \in Callers : d # c => handler'[d] = handler[d],
             ~At(c, "save")' \/ handler'[c].mem = store, UNCHANGED <<store, paid, issued, expired>>
      PROVE  FileInv'
    <2>1. \A d \in Callers : At(d, "save")' =>
              \/ At(d, "save") /\ handler'[d].mem = handler[d].mem
              \/ handler'[d].mem = store
        BY <1>1 DEF At
    <2>. QED
        BY <1>0, <1>1, <2>1, FileFrame
<1>2. ASSUME NEW c \in Callers, StoreStep(c) \/ StoreFails(c)
      PROVE  FileInv'
    <2>1. CASE CreateSave(c) \/ ConsumeSave(c)
        BY <2>1, CreateFile, ConsumeFile
    <2>2. CASE ~(CreateSave(c) \/ ConsumeSave(c))
        <3>1. UNCHANGED <<store, paid, issued, expired>>
            BY <1>2, <2>2 DEF StoreStep, LockMutex, CreateLock, StatLock, StealLock, LoadStore,
                ReleaseLock, StoreFails, Kept, hostFiles, history
        <3>2. ~At(c, "save")' \/ handler'[c].mem = store
            <4>a. ASSUME NEW pc, Goto(c, pc), pc # "save"
                  PROVE  ~At(c, "save")'
                BY <1>0, <4>a DEF Goto, At, Handler
            <4>b. AfterStore(c) # "save"
                BY DEF AfterStore
            <4>1. CASE LoadStore(c)
                BY <1>0, <4>1 DEF LoadStore, Handler
            <4>2. CASE StoreFails(c)
                BY <1>0, <4>2 DEF StoreFails, At, Handler
            <4>3. CASE StatLock(c)
                <5>1. CASE handler' = [handler EXCEPT ![c].pc = "lock", ![c].polls = @ + 1]
                    BY <1>0, <5>1 DEF At, Handler
                <5>. QED
                    BY <4>3, <4>a, <4>b, <5>1 DEF StatLock, Return
            <4>4. CASE LockMutex(c) \/ CreateLock(c) \/ StealLock(c) \/ ReleaseLock(c)
                BY <4>4, <4>a, <4>b DEF LockMutex, CreateLock, StealLock, ReleaseLock, Return
            <4>. QED
                BY <1>2, <2>2, <4>1, <4>2, <4>3, <4>4 DEF StoreStep
        <3>. QED
            BY <1>1, <1>2, <3>1, <3>2, StoreFrame
    <2>. QED
        BY <2>1, <2>2
<1>3. ASSUME NEW s \in Sessions,
             \/ HandlePairCodeRequest(s)
             \/ \E code \in 1..MaxCodes : HandlePairRequest(s, code)
             \/ TrustClient(s) \/ TrustFails(s)
      PROVE  FileInv'
    <2>1. UNCHANGED <<store, paid, issued, expired>>
        BY <1>3 DEF HandlePairCodeRequest, HandlePairRequest, TrustClient, TrustFails,
            hostFiles, history
    <2>2. (\A d \in Callers : d # s => handler'[d] = handler[d]) /\ ~At(s, "save")'
        <3>1. CASE HandlePairCodeRequest(s)
            BY <1>0, <3>1 DEF HandlePairCodeRequest, At, Free
        <3>2. CASE \E code \in 1..MaxCodes : HandlePairRequest(s, code)
            BY <1>0, <3>2 DEF HandlePairRequest, At, Free
        <3>3. CASE TrustClient(s) \/ TrustFails(s)
            BY <1>0, <3>3 DEF TrustClient, TrustFails, Goto, At, Handler
        <3>. QED
            BY <1>3, <3>1, <3>2, <3>3
    <2>. QED
        BY <1>0, <1>1, <2>1, <2>2
<1>4. ASSUME NEW c \in Callers, Answer(c) \/ (c = "cli" /\ PairCodeCommand)
      PROVE  FileInv'
    <2>1. UNCHANGED <<store, paid, issued, expired>>
        BY <1>4 DEF Answer, PairCodeCommand, hostFiles, history
    <2>2. (\A d \in Callers : d # c => handler'[d] = handler[d]) /\ ~At(c, "save")'
        <3>1. CASE Answer(c)
            BY <1>0, <3>1 DEF Answer, At, Free
        <3>2. CASE c = "cli" /\ PairCodeCommand
            BY <1>0, <3>2 DEF PairCodeCommand, At, Free
        <3>. QED
            BY <1>4, <3>1, <3>2
    <2>. QED
        BY <1>1, <2>1, <2>2
<1>5. ASSUME NEW ps, Stop(ps)
      PROVE  FileInv'
    <2>1. \A d \in Callers : handler'[d] = handler[d] \/ ~At(d, "save")'
        BY <1>0, <1>5 DEF Stop, At, Free
    <2>2. \A d \in Callers : At(d, "save")' =>
              \/ At(d, "save") /\ handler'[d].mem = handler[d].mem
              \/ handler'[d].mem = store
        BY <2>1 DEF At
    <2>. QED
        BY <1>0, <1>5, <2>2, FileFrame DEF Stop
<1>6. CASE CommandStops \/ HostRestarts
    BY <1>5, <1>6 DEF CommandStops, HostRestarts
<1>7. CASE \/ \E s \in Sessions : CompletePairLoad(s) \/ CompletePairSave(s) \/ SessionFails(s)
           \/ ResolveLoad \/ ResolveSave
           \/ \E d \in {"stale", "window", "ttl"} : TimePasses(d)
    <2>1. UNCHANGED <<handler, store, paid, issued>> /\ expired' \in {expired, issued}
        BY <1>7 DEF CompletePairLoad, CompletePairSave, SessionFails, ResolveLoad, ResolveSave,
            TimePasses, Elsewhere, hostFiles, history
    <2>2. \A d \in Callers : At(d, "save")' => At(d, "save") /\ handler'[d].mem = handler[d].mem
        BY <2>1 DEF At
    <2>3. expired' \in Int /\ expired' >= expired
        BY <1>0, <2>1
    <2>. QED
        BY <1>0, <2>1, <2>2, <2>3, FileFrame
<1>. QED
    BY <1>0, <1>2, <1>3, <1>4, <1>6, <1>7 DEF Next, Handle

\* Every step keeps what is said of types, limits, requests, the lock and the file.
LEMMA InvStep ==
    ASSUME Inv, [Next]_vars
    PROVE  Inv'
<1>1. CASE Next
    <2>1. VarTypes'
        BY <1>1, StoreTypes, HandlerTypes, CommandTypes, AnswerTypes, OtherTypes DEF Next, Handle
    <2>2. CodeInv'
        BY <1>1, LockStep, FileStep DEF CodeInv
    <2>. QED
        BY <1>1, <2>1, <2>2, WindowStep, PhaseStep, RoomStep DEF Inv
<1>2. CASE UNCHANGED vars
    <2>. USE <1>2 DEF vars, hostFiles, clientVars, history
    <2>1. VarTypes' /\ WindowInv'
        BY DEF Inv, VarTypes, WindowInv
    <2>2. PhaseInv'
        BY DEF Inv, PhaseInv, PhaseOK
    <2>3. RoomInv'
        BY DEF Inv, RoomInv, Pending
    <2>4. CodeInv'
        BY DEF Inv, CodeInv, LockHeld, FileInv, Accounted, Working, At
    <2>. QED
        BY <2>1, <2>2, <2>3, <2>4 DEF Inv
<1>. QED
    BY <1>1, <1>2

\* It holds at the start.
LEMMA InvInit ==
    ASSUME Init
    PROVE  Inv
<1>0. "cli" \in Callers /\ Free.pc = "idle" /\ Free.op = "none" /\ Free.ok = FALSE
    BY DEF Callers, Free
<1>1. VarTypes
    <2>1. /\ handler \in [Callers -> Handler] /\ client \in [Sessions -> ClientState]
          /\ \A c \in Callers : Fits(handler[c].mem)
        BY EmptyTypes DEF Init
    <2>2. issued \in Codes /\ expired \in 0..issued /\ certs \in Certs
        BY PairingAssumption DEF Init, Codes, Certs
    <2>. QED
        BY <2>1, <2>2, EmptyTypes DEF Init, VarTypes
<1>2. WindowInv
    BY FS_EmptySet, PairingAssumption DEF Init, WindowInv
<1>3. PhaseInv
    <2>1. \A c \in Callers : PhaseOK(handler[c])
        BY <1>0 DEF Init, PhaseOK
    <2>2. mu \notin Sessions
        BY PairingAssumption DEF Init
    <2>. QED
        BY <2>1, <2>2 DEF Init, PhaseInv
<1>4. RoomInv
    <2>1. Pending = {}
        BY <1>0 DEF Init, Pending
    <2>2. Cardinality(Pending) = 0
        BY <2>1, FS_EmptySet, Zenon
    <2>. QED
        BY <2>2, PairingAssumption DEF Init, RoomInv
<1>5. CodeInv
    <2>1. \A c \in Callers : ~Working(c) /\ ~At(c, "save")
        BY <1>0 DEF Init, Working, At
    <2>. QED
        BY <2>1 DEF Init, CodeInv, LockHeld, FileInv
<1>. QED
    BY <1>1, <1>2, <1>3, <1>4, <1>5 DEF Inv

\* It says that codes are good once.
LEMMA InvCodes ==
    ASSUME Inv
    PROVE  CodesGoodOnce
<1>1. TypeOK
    <2>1. \A c \in Callers : handler[c].code \in Codes /\ handler[c].cert \in 0..(MaxCerts + 1)
        BY DEF Inv, VarTypes, Handler
    <2>2. \A s \in Sessions : mu = s => Busy(s)
        BY DEF Inv, PhaseInv, Busy
    <2>3. trusted \subseteq Certs
        BY DEF Inv, VarTypes, PhaseInv
    <2>. QED
        BY <2>1, <2>2, <2>3 DEF Inv, VarTypes, WindowInv, TypeOK, Fits
<1>2. UsedOnce /\ CodesKept
    BY DEF Inv, CodeInv, FileInv, PhaseInv, Accounted, UsedOnce, CodesKept
<1>. QED
    BY <1>1, <1>2 DEF CodesGoodOnce, Inv, PhaseInv

\* A code that was given out is good until it expires, is used or is one of too many,
\* and then no more; and the host trusts no certificate that was not paid for with a
\* code: for any number of sessions and crashes, until a process loses its lock file.
THEOREM CodesGoodOnceAlways == Spec => []CodesGoodOnce
<1>1. Init => Inv
    BY InvInit
<1>2. Inv /\ [Next]_vars => Inv'
    BY InvStep
<1>3. Inv => CodesGoodOnce
    BY InvCodes
<1>. QED
    BY <1>1, <1>2, <1>3, PTL DEF Spec

-----------------------------------------------------------------------------
(* The client's certificate *)

\* What a step must respect: no certificate is signed, a session knows no more than
\* before, the machine settles for nothing that a session still has to save, trust is
\* lost only in what was settled, and what a session replaces stays accounted for.
LEMMA SavedFrame ==
    ASSUME Inv, SavedInv, SessionInv', certs' = certs,
           Settled' \subseteq (0..certs) \cup {None},
           \A s \in Sessions : \A k \in Unsaved(s)' :
              /\ k \in Unsaved(s) /\ k \notin Settled'
              /\ Confirmed(s)' => Confirmed(s) \/ k \in trusted',
           trusted \subseteq trusted' \cup Settled,
           PairedIsTrusted'
    PROVE  SavedInv'
<1>1. ASSUME NEW s \in Sessions, NEW k \in Unsaved(s)'
      PROVE  /\ k \notin Settled'
             /\ \A t \in Sessions : k \in Unsaved(t)' => s = t
             /\ Confirmed(s)' => k \in trusted'
    <2>1. /\ k \in Unsaved(s) /\ k \notin Settled'
          /\ Confirmed(s)' => Confirmed(s) \/ k \in trusted'
        OBVIOUS
    <2>2. /\ k \notin Settled /\ \A t \in Sessions : k \in Unsaved(t) => s = t
          /\ Confirmed(s) => k \in trusted
        BY <2>1 DEF SavedInv, FreshInv
    <2>. QED
        BY <2>1, <2>2
<1>2. FreshInv'
    BY <1>1 DEF FreshInv
<1>. QED
    BY <1>2 DEF SavedInv

\* What keeps the client's certificate trusted, when it is not replaced.
LEMMA PairedFrame ==
    ASSUME PairedIsTrusted, record' = record, overwritten => overwritten',
           orphaned \subseteq orphaned', trusted \subseteq trusted',
           \A s \in Sessions : Replacing(s) =>
              \/ Replacing(s)' /\ client'[s].prev = client[s].prev
              \/ client[s].prev \in orphaned'
    PROVE  PairedIsTrusted'
BY DEF PairedIsTrusted

\* A step on the file of codes is nothing to the clients.
LEMMA SavedStore ==
    ASSUME Inv, SavedInv, NEW c \in Callers, StoreStep(c) \/ StoreFails(c)
    PROVE  SavedInv'
<1>0. /\ handler'[c].op = handler[c].op /\ handler'[c].cert = handler[c].cert
      /\ handler[c].pc \notin {"idle", "trust", "answer"} /\ handler'[c].pc # "idle"
      /\ handler'[c].pc = "answer" /\ handler'[c].op = "pair" => ~handler'[c].ok
      /\ \A d \in Callers : d # c => handler'[d] = handler[d]
      /\ UNCHANGED <<trusted, client, record, run, certs, orphaned, overwritten>>
    BY StoreFrame
<1>1. Sessions \subseteq Callers
    BY DEF Callers
<1>2. SessionInv'
    BY <1>0, <1>1 DEF SavedInv, SessionInv
<1>3. Settled' = Settled /\ Settled \subseteq (0..certs) \cup {None}
    BY <1>0 DEF Settled, SavedInv, FreshInv
<1>4. ASSUME NEW s \in Sessions, NEW k \in Unsaved(s)'
      PROVE  /\ k \in Unsaved(s) /\ k \notin Settled'
             /\ Confirmed(s)' => Confirmed(s)
    <2>1. k \in Unsaved(s)
        BY <1>0, <1>1 DEF Unsaved
    <2>2. Confirmed(s)' => Confirmed(s)
        BY <1>0, <1>1, <1>2 DEF Unsaved, Confirmed, At, SessionInv
    <2>. QED
        BY <1>3, <2>1, <2>2 DEF SavedInv, FreshInv
<1>5. \A s \in Sessions : Replacing(s) => Replacing(s)'
    BY <1>0, <1>1 DEF Replacing, Waits, At
<1>6. PairedIsTrusted'
    BY <1>0, <1>5, PairedFrame DEF SavedInv
<1>. QED
    BY <1>0, <1>2, <1>3, <1>4, <1>6, SavedFrame

\* The steps of a handler.
LEMMA SavedHandler ==
    ASSUME Inv, SavedInv, NEW s \in Sessions,
           HandlePairCodeRequest(s) \/ TrustClient(s) \/ TrustFails(s)
    PROVE  SavedInv'
<1>0. /\ handler \in [Callers -> Handler] /\ client \in [Sessions -> ClientState]
      /\ Sessions \subseteq Callers /\ PhaseOK(handler[s])
    BY DEF Inv, VarTypes, PhaseInv, Callers
<1>a. SessionInv /\ FreshInv /\ PairedIsTrusted
    BY DEF SavedInv
<1>1. CASE HandlePairCodeRequest(s)
    <2>1. /\ handler[s].pc = "idle" /\ client[s].pc = "loaded"
          /\ handler'[s].op = "code" /\ handler'[s].pc # "idle" /\ client'[s].pc = "coding"
          /\ client'[s].prev = client[s].prev
          /\ \A t \in Sessions : t # s => handler'[t] = handler[t] /\ client'[t] = client[t]
        BY <1>0, <1>1 DEF HandlePairCodeRequest, Busy, Free, ClientState
    <2>2. UNCHANGED <<trusted, record, run, certs, orphaned, overwritten>>
        BY <1>1 DEF HandlePairCodeRequest, hostFiles, history
    <2>3. SessionInv'
        BY <1>a, <2>1, <2>2 DEF SessionInv
    <2>4. Settled' = Settled
        BY <2>1, <2>2 DEF Settled
    <2>5. ASSUME NEW t \in Sessions, NEW k \in Unsaved(t)'
          PROVE  k \in Unsaved(t) /\ k \notin Settled' /\ (Confirmed(t)' => Confirmed(t))
        <3>1. t # s /\ k \in Unsaved(t)
            BY <2>1, <2>2 DEF Unsaved
        <3>. QED
            BY <1>a, <2>1, <2>4, <3>1 DEF FreshInv, Confirmed, At
    <2>6. \A t \in Sessions : Replacing(t) => Replacing(t)' /\ client'[t].prev = client[t].prev
        BY <2>1 DEF Replacing, Waits, At
    <2>7. PairedIsTrusted'
        BY <1>a, <2>2, <2>6, PairedFrame
    <2>. QED
        BY <1>a, <2>2, <2>3, <2>4, <2>5, <2>7, SavedFrame DEF FreshInv
<1>2. CASE TrustClient(s)
    <2>1. /\ handler[s].pc = "trust" /\ handler[s].op = "pair" /\ handler[s].ok
          /\ handler'[s].pc = "answer" /\ handler'[s].op = "pair" /\ handler'[s].ok
          /\ handler'[s].cert = handler[s].cert
          /\ \A t \in Sessions : t # s => handler'[t] = handler[t]
        BY <1>0, <1>2 DEF TrustClient, At, Goto, Handler, PhaseOK
    <2>2. /\ UNCHANGED <<client, record, run, certs, overwritten>>
          /\ trusted' = (trusted \ {client[s].prev}) \cup {handler[s].cert}
          /\ orphaned' = IF Waits(s) THEN orphaned ELSE orphaned \cup {client[s].prev}
        BY <1>2 DEF TrustClient, TrustedWith, clientVars
    <2>3. SessionInv'
        BY <1>a, <2>1, <2>2 DEF SessionInv
    <2>4. Settled' = Settled /\ client[s].prev \in Settled
        BY <2>2 DEF Settled
    <2>5. ASSUME NEW t \in Sessions, NEW k \in Unsaved(t)'
          PROVE  /\ k \in Unsaved(t) /\ k \notin Settled'
                 /\ Confirmed(t)' => Confirmed(t) \/ k \in trusted'
        <3>1. k \in Unsaved(t)
            BY <2>1, <2>2 DEF Unsaved
        <3>2. CASE t = s
            <4>1. client[s].pc # "answered"
                BY <1>a, <2>1 DEF SessionInv
            <4>2. k = handler[s].cert
                BY <3>1, <3>2, <4>1 DEF Unsaved
            <4>. QED
                BY <1>a, <2>2, <2>4, <3>1, <4>2 DEF FreshInv
        <3>3. CASE t # s
            BY <1>a, <2>1, <2>2, <2>4, <3>1, <3>3 DEF FreshInv, Confirmed, At
        <3>. QED
            BY <3>2, <3>3
    <2>6. PairedIsTrusted'
        <3>1. \A t \in Sessions : Replacing(t) => Replacing(t)'
            BY <2>1, <2>2 DEF Replacing, Waits, At
        <3>2. Waits(s) => Replacing(s)'
            BY <2>1, <2>2 DEF Replacing, Waits, At
        <3>3. CASE record # client[s].prev
            BY <1>a, <2>2, <3>1, <3>3 DEF PairedIsTrusted
        <3>4. CASE record = client[s].prev
            BY <2>2, <3>2, <3>4 DEF PairedIsTrusted
        <3>. QED
            BY <3>3, <3>4
    <2>7. trusted \subseteq trusted' \cup Settled
        BY <2>2, <2>4
    <2>. QED
        BY <1>a, <2>2, <2>3, <2>4, <2>5, <2>6, <2>7, SavedFrame DEF FreshInv
<1>3. CASE TrustFails(s)
    <2>1. /\ handler[s].pc = "trust" /\ handler[s].op = "pair"
          /\ handler'[s].pc = "answer" /\ handler'[s].op = "pair" /\ ~handler'[s].ok
          /\ handler'[s].cert = handler[s].cert
          /\ \A t \in Sessions : t # s => handler'[t] = handler[t]
        BY <1>0, <1>3 DEF TrustFails, At, Handler, PhaseOK
    <2>2. UNCHANGED <<client, record, run, certs, overwritten, trusted, orphaned>>
        BY <1>3 DEF TrustFails, clientVars, hostFiles, history
    <2>3. SessionInv'
        BY <1>a, <2>1, <2>2 DEF SessionInv
    <2>4. Settled' = Settled
        BY <2>2 DEF Settled
    <2>5. ASSUME NEW t \in Sessions, NEW k \in Unsaved(t)'
          PROVE  k \in Unsaved(t) /\ k \notin Settled' /\ (Confirmed(t)' => Confirmed(t))
        <3>1. k \in Unsaved(t)
            BY <2>1, <2>2 DEF Unsaved
        <3>. QED
            BY <1>a, <2>1, <2>2, <2>4, <3>1 DEF FreshInv, Confirmed, At
    <2>6. \A t \in Sessions : Replacing(t) => Replacing(t)'
        BY <2>1, <2>2 DEF Replacing, Waits, At
    <2>7. PairedIsTrusted'
        BY <1>a, <2>2, <2>6, PairedFrame
    <2>. QED
        BY <1>a, <2>2, <2>3, <2>4, <2>5, <2>7, SavedFrame DEF FreshInv
<1>. QED
    BY <1>1, <1>2, <1>3

\* A certificate that handlePairRequest signs is new.
LEMMA SavedSigned ==
    ASSUME Inv, SavedInv, NEW s \in Sessions, NEW code, HandlePairRequest(s, code)
    PROVE  SavedInv'
<1>0. /\ handler \in [Callers -> Handler] /\ client \in [Sessions -> ClientState]
      /\ Sessions \subseteq Callers /\ certs \in Nat /\ None \notin Nat
      /\ \A t \in Sessions : PhaseOK(handler[t])
    BY PairingAssumption DEF Inv, VarTypes, PhaseInv, Callers, Certs
<1>a. SessionInv /\ FreshInv /\ PairedIsTrusted
    BY DEF SavedInv
<1>1. /\ handler[s].pc = "idle" /\ client[s].pc \in {"loaded", "entered"}
      /\ client'[s].pc = "pairing" /\ client'[s].prev = client[s].prev
      /\ \A t \in Sessions : t # s => handler'[t] = handler[t] /\ client'[t] = client[t]
    BY <1>0 DEF HandlePairRequest, Busy, ClientState
<1>2. /\ handler'[s].op = "pair" /\ handler'[s].cert = certs + 1 /\ ~handler'[s].ok
      /\ handler'[s].pc = IF allowPairRequest("pair") THEN "mutex" ELSE "answer"
      /\ certs' = IF allowPairRequest("pair") THEN certs + 1 ELSE certs
    BY <1>0 DEF HandlePairRequest, Free
<1>3. UNCHANGED <<trusted, record, run, orphaned, overwritten>>
    BY DEF HandlePairRequest, hostFiles, history
<1>4. SessionInv'
    BY <1>0, <1>a, <1>1, <1>2 DEF SessionInv
<1>5. Settled' = Settled
    BY <1>1, <1>3 DEF Settled
<1>6. ASSUME NEW t \in Sessions, NEW k \in Unsaved(t)'
      PROVE  (t = s /\ k = certs + 1) \/ (t # s /\ k \in Unsaved(t) /\ k \in 1..certs)
    <2>1. CASE t = s
        BY <1>1, <1>2, <2>1 DEF Unsaved
    <2>2. CASE t # s
        <3>1. k \in 1..certs
            <4>1. CASE /\ handler[t].op = "pair" /\ handler[t].cert = k
                       /\ handler[t].pc # "answer" \/ handler[t].ok
                <5>1. PhaseOK(handler[t])
                    BY <1>0
                <5>. QED
                    BY <4>1, <5>1 DEF PhaseOK
            <4>2. CASE client[t].pc = "answered" /\ client[t].cert = k
                BY <1>a, <4>2 DEF SessionInv
            <4>. QED
                BY <1>1, <2>2, <4>1, <4>2 DEF Unsaved
        <3>. QED
            BY <1>1, <2>2, <3>1 DEF Unsaved
    <2>. QED
        BY <2>1, <2>2
<1>7. ASSUME NEW t \in Sessions, NEW k \in Unsaved(t)'
      PROVE  /\ k \notin Settled'
             /\ \A u \in Sessions : k \in Unsaved(u)' => t = u
             /\ Confirmed(t)' => k \in trusted'
    <2>1. CASE t = s
        <3>1. k = certs + 1
            BY <1>6, <2>1
        <3>2. k \notin Settled'
            BY <1>0, <1>a, <1>5, <3>1 DEF FreshInv
        <3>3. \A u \in Sessions : k \in Unsaved(u)' => t = u
            BY <1>0, <1>6, <2>1, <3>1
        <3>4. ~Confirmed(t)'
            BY <1>1, <1>2, <2>1 DEF Confirmed, At
        <3>. QED
            BY <3>2, <3>3, <3>4
    <2>2. CASE t # s
        <3>1. k \in Unsaved(t) /\ k \in 1..certs
            BY <1>6, <2>2
        <3>2. k # certs + 1
            BY <1>0, <3>1
        <3>3. \A u \in Sessions : k \in Unsaved(u)' => k \in Unsaved(u)
            BY <1>6, <3>2
        <3>4. Confirmed(t)' <=> Confirmed(t)
            BY <1>1, <2>2 DEF Confirmed, At
        <3>. QED
            BY <1>a, <1>3, <1>5, <3>1, <3>3, <3>4 DEF FreshInv
    <2>. QED
        BY <2>1, <2>2
<1>8. Settled' \subseteq (0..certs') \cup {None}
    BY <1>0, <1>a, <1>2, <1>5 DEF FreshInv
<1>9. FreshInv'
    BY <1>7, <1>8 DEF FreshInv
<1>10. \A t \in Sessions : Replacing(t) => Replacing(t)' /\ client'[t].prev = client[t].prev
    BY <1>1 DEF Replacing, Waits, At
<1>11. PairedIsTrusted'
    BY <1>a, <1>3, <1>10, PairedFrame
<1>. QED
    BY <1>4, <1>9, <1>11 DEF SavedInv

\* The answer hands the certificate to the client, or ends the session.
LEMMA SavedAnswer ==
    ASSUME Inv, SavedInv, NEW c \in Callers, Answer(c)
    PROVE  SavedInv'
<1>0. /\ handler \in [Callers -> Handler] /\ client \in [Sessions -> ClientState]
      /\ Sessions \subseteq Callers /\ PhaseOK(handler[c]) /\ handler[c].pc = "answer"
      /\ handler[c] \in Handler /\ "cli" \notin Sessions
    BY PairingAssumption DEF Inv, VarTypes, PhaseInv, Callers, Answer, At
<1>a. SessionInv /\ FreshInv /\ PairedIsTrusted
    BY DEF SavedInv
<1>1. UNCHANGED <<trusted, record, run, certs, orphaned, overwritten>>
    BY DEF Answer, hostFiles, history
<1>2. CASE c \notin Sessions
    <2>1. c = "cli" /\ client' = client /\ \A t \in Sessions : handler'[t] = handler[t]
        BY <1>0, <1>2 DEF Answer, Callers
    <2>2. /\ SessionInv' /\ FreshInv' /\ PairedIsTrusted'
        BY <1>a, <1>1, <2>1 DEF SessionInv, FreshInv, PairedIsTrusted, Settled, Unsaved,
            Confirmed, Replacing, Waits, At
    <2>. QED
        BY <2>2 DEF SavedInv
<1>3. CASE c \in Sessions
    <2>0. /\ handler'[c].pc = "idle" /\ handler'[c].op = "none"
          /\ client[c].pc \in {"coding", "pairing", "gone"}
        BY <1>0, <1>3, <1>a DEF Answer, Free, SessionInv, ClientState
    <2>1. \A t \in Sessions : t # c => handler'[t] = handler[t] /\ client'[t] = client[t]
        BY <1>0, <1>3 DEF Answer
    <2>2. \/ client'[c] = Away /\ (client[c].pc = "gone" \/ ~handler[c].ok)
          \/ /\ handler[c].op = "code" /\ client'[c].pc = "entered"
             /\ client'[c].prev = client[c].prev
          \/ /\ handler[c].op = "pair" /\ handler[c].ok
             /\ client'[c].pc = "answered" /\ client'[c].cert = handler[c].cert
             /\ client'[c].prev = client[c].prev
        <3>1. CASE client[c].pc = "gone" \/ ~handler[c].ok
            BY <1>0, <1>3, <3>1 DEF Answer
        <3>2. CASE ~(client[c].pc = "gone" \/ ~handler[c].ok) /\ handler[c].op = "code"
            BY <1>0, <1>3, <3>2 DEF Answer, ClientState
        <3>3. CASE ~(client[c].pc = "gone" \/ ~handler[c].ok) /\ handler[c].op # "code"
            <4>1. handler[c].op = "pair"
                BY <1>0, <3>3 DEF PhaseOK, Handler
            <4>2. client' = [client EXCEPT ![c].pc = "answered", ![c].cert = handler[c].cert]
                BY <1>0, <1>3, <3>3 DEF Answer
            <4>. QED
                BY <1>0, <1>3, <3>3, <4>1, <4>2 DEF ClientState
        <3>. QED
            BY <3>1, <3>2, <3>3
    <2>3. client'[c].prev \in {None, client[c].prev}
        BY <2>2 DEF Away
    <2>4. handler[c].op = "pair" /\ handler[c].ok => handler[c].cert \in 1..certs
        BY <1>0 DEF PhaseOK
    <2>5. SessionInv'
        BY <1>a, <1>1, <2>0, <2>1, <2>2, <2>4 DEF SessionInv, Away
    <2>6. Settled' \subseteq Settled
        BY <1>1, <2>1, <2>3 DEF Settled
    <2>7. ASSUME NEW t \in Sessions, NEW k \in Unsaved(t)'
          PROVE  k \in Unsaved(t) /\ k \notin Settled' /\ (Confirmed(t)' => Confirmed(t))
        <3>1. CASE t = c
            <4>1. client'[c].pc = "answered" /\ client'[c].cert = k
                BY <2>0, <3>1 DEF Unsaved
            <4>2. handler[c].op = "pair" /\ handler[c].ok /\ handler[c].cert = k
                BY <2>2, <4>1 DEF Away
            <4>3. k \in Unsaved(t) /\ Confirmed(t)
                BY <1>0, <2>4, <3>1, <4>2 DEF Unsaved, Confirmed, At
            <4>. QED
                BY <1>a, <2>6, <4>3 DEF FreshInv
        <3>2. CASE t # c
            <4>1. k \in Unsaved(t)
                BY <1>1, <2>1, <3>2 DEF Unsaved
            <4>. QED
                BY <1>a, <2>1, <2>6, <3>2, <4>1 DEF FreshInv, Confirmed, At
        <3>. QED
            BY <3>1, <3>2
    <2>8. ASSUME NEW t \in Sessions, Replacing(t)
          PROVE  Replacing(t)' /\ client'[t].prev = client[t].prev
        <3>1. CASE t = c
            <4>1. client[c].pc = "pairing" /\ handler[c].ok /\ handler[c].op = "pair"
                BY <1>a, <2>0, <2>8, <3>1 DEF Replacing, Waits, SessionInv
            <4>. QED
                BY <2>2, <3>1, <4>1 DEF Replacing
        <3>2. CASE t # c
            BY <2>1, <2>8, <3>2 DEF Replacing, Waits, At
        <3>. QED
            BY <3>1, <3>2
    <2>9. PairedIsTrusted'
        BY <1>a, <1>1, <2>8, PairedFrame
    <2>. QED
        BY <1>a, <1>1, <2>5, <2>6, <2>7, <2>9, SavedFrame DEF FreshInv
<1>. QED
    BY <1>2, <1>3

\* The steps of a client.
LEMMA SavedClient ==
    ASSUME Inv, SavedInv, NEW s \in Sessions,
           CompletePairLoad(s) \/ CompletePairSave(s) \/ SessionFails(s)
    PROVE  SavedInv'
<1>0. client \in [Sessions -> ClientState] /\ Sessions \subseteq Callers /\ certs \in Nat
    BY PairingAssumption DEF Inv, VarTypes, Callers, Certs
<1>a. SessionInv /\ FreshInv /\ PairedIsTrusted
    BY DEF SavedInv
<1>b. UNCHANGED <<handler, trusted, certs>>
    BY DEF CompletePairLoad, CompletePairSave, SessionFails, Elsewhere, hostFiles
<1>1. CASE CompletePairLoad(s)
    <2>1. /\ client[s].pc = "idle" /\ client'[s].pc = "loaded" /\ client'[s].prev = record
          /\ \A t \in Sessions : t # s => client'[t] = client[t]
          /\ UNCHANGED <<record, run, orphaned, overwritten>>
        BY <1>0, <1>1 DEF CompletePairLoad, Away
    <2>2. SessionInv'
        BY <1>a, <1>b, <2>1 DEF SessionInv
    <2>3. Settled' \subseteq Settled
        BY <2>1 DEF Settled
    <2>4. ASSUME NEW t \in Sessions, NEW k \in Unsaved(t)'
          PROVE  k \in Unsaved(t) /\ k \notin Settled' /\ (Confirmed(t)' => Confirmed(t))
        <3>1. k \in Unsaved(t)
            BY <1>b, <2>1 DEF Unsaved
        <3>. QED
            BY <1>a, <1>b, <2>1, <2>3, <3>1 DEF FreshInv, Confirmed, At
    <2>5. \A t \in Sessions : Replacing(t) => Replacing(t)' /\ client'[t].prev = client[t].prev
        BY <1>b, <2>1 DEF Replacing, Waits, At
    <2>6. PairedIsTrusted'
        BY <1>a, <1>b, <2>1, <2>5, PairedFrame
    <2>. QED
        BY <1>a, <1>b, <2>2, <2>3, <2>4, <2>6, SavedFrame DEF FreshInv
<1>2. CASE CompletePairSave(s)
    <2>1. /\ client[s].pc = "answered" /\ client'[s] = Away /\ record' = client[s].cert
          /\ \A t \in Sessions : t # s => client'[t] = client[t]
          /\ UNCHANGED <<run, orphaned, overwritten>>
        BY <1>0, <1>2 DEF CompletePairSave
    <2>2. /\ handler[s].pc = "idle" /\ handler[s].op = "none" /\ client[s].cert \in 1..certs
          /\ client[s].cert \in Unsaved(s)
        BY <1>a, <2>1 DEF SessionInv, Unsaved
    <2>3. client[s].cert \in trusted
        BY <1>a, <2>1, <2>2 DEF FreshInv, Confirmed
    <2>4. SessionInv'
        BY <1>a, <1>b, <2>1, <2>2 DEF SessionInv, Away
    <2>5. Settled' \subseteq Settled \cup {client[s].cert}
        BY <2>1 DEF Settled, Away
    <2>6. ASSUME NEW t \in Sessions, NEW k \in Unsaved(t)'
          PROVE  k \in Unsaved(t) /\ k \notin Settled' /\ (Confirmed(t)' => Confirmed(t))
        <3>1. t # s
            BY <1>b, <2>1, <2>2 DEF Unsaved, Away
        <3>2. k \in Unsaved(t)
            BY <1>b, <2>1, <3>1 DEF Unsaved
        <3>3. k # client[s].cert
            BY <1>a, <2>2, <3>1, <3>2 DEF FreshInv
        <3>. QED
            BY <1>a, <1>b, <2>1, <2>5, <3>1, <3>2, <3>3 DEF FreshInv, Confirmed, At
    <2>7. PairedIsTrusted'
        BY <1>b, <2>1, <2>3 DEF PairedIsTrusted
    <2>8. Settled' \subseteq (0..certs) \cup {None}
        BY <1>0, <1>a, <2>2, <2>5 DEF FreshInv
    <2>. QED
        BY <1>b, <2>4, <2>6, <2>7, <2>8, SavedFrame
<1>3. CASE SessionFails(s)
    <2>1. /\ client'[s].pc = IF Busy(s) THEN "gone" ELSE "idle"
          /\ client'[s].prev = client[s].prev
          /\ \A t \in Sessions : t # s => client'[t] = client[t]
          /\ UNCHANGED <<record, run, overwritten>>
        BY <1>0, <1>3 DEF SessionFails, ClientState
    <2>2. /\ orphaned \subseteq orphaned'
          /\ \/ client[s].pc = "answered"
             \/ handler[s].op = "pair" /\ handler[s].ok /\ At(s, "answer")
             => client[s].prev \in orphaned'
        BY <1>3 DEF SessionFails
    <2>3. SessionInv'
        BY <1>a, <1>b, <2>1 DEF SessionInv, Busy
    <2>4. Settled' = Settled
        BY <2>1 DEF Settled
    <2>5. ASSUME NEW t \in Sessions, NEW k \in Unsaved(t)'
          PROVE  k \in Unsaved(t) /\ k \notin Settled' /\ (Confirmed(t)' => Confirmed(t))
        <3>1. k \in Unsaved(t)
            BY <1>b, <2>1 DEF Unsaved
        <3>. QED
            BY <1>a, <1>b, <2>1, <2>4, <3>1 DEF FreshInv, Confirmed, At
    <2>6. ASSUME NEW t \in Sessions, Replacing(t)
          PROVE  \/ Replacing(t)' /\ client'[t].prev = client[t].prev
                 \/ client[t].prev \in orphaned'
        <3>1. CASE t = s
            <4>1. \/ client[s].pc = "answered"
                  \/ handler[s].op = "pair" /\ handler[s].ok /\ At(s, "answer")
                BY <1>a, <2>6, <3>1 DEF Replacing, Waits, SessionInv
            <4>. QED
                BY <2>2, <3>1, <4>1
        <3>2. CASE t # s
            BY <1>b, <2>1, <2>6, <3>2 DEF Replacing, Waits, At
        <3>. QED
            BY <3>1, <3>2
    <2>7. PairedIsTrusted'
        BY <1>a, <1>b, <2>1, <2>2, <2>6, PairedFrame
    <2>. QED
        BY <1>a, <1>b, <2>3, <2>4, <2>5, <2>7, SavedFrame DEF FreshInv
<1>. QED
    BY <1>1, <1>2, <1>3

\* The steps of everything else.
LEMMA SavedOther ==
    ASSUME Inv, SavedInv,
           \/ PairCodeCommand \/ ResolveLoad \/ ResolveSave \/ CommandStops \/ HostRestarts
           \/ \E d \in {"stale", "window", "ttl"} : TimePasses(d)
    PROVE  SavedInv'
<1>0. /\ handler \in [Callers -> Handler] /\ client \in [Sessions -> ClientState]
      /\ Sessions \subseteq Callers /\ "cli" \notin Sessions /\ "cli" \in Callers
    BY PairingAssumption DEF Inv, VarTypes, Callers
<1>a. SessionInv /\ FreshInv /\ PairedIsTrusted
    BY DEF SavedInv
<1>1. ASSUME \A t \in Sessions : handler'[t] = handler[t],
             UNCHANGED <<client, record, run, trusted, certs, orphaned, overwritten>>
      PROVE  SavedInv'
    <2>1. SessionInv' /\ FreshInv' /\ PairedIsTrusted'
        BY <1>a, <1>1 DEF SessionInv, FreshInv, PairedIsTrusted, Settled, Unsaved,
            Confirmed, Replacing, Waits, At
    <2>. QED
        BY <2>1 DEF SavedInv
<1>2. CASE PairCodeCommand
    BY <1>0, <1>1, <1>2 DEF PairCodeCommand, hostFiles, clientVars, history
<1>3. CASE CommandStops
    BY <1>0, <1>1, <1>3 DEF CommandStops, Stop
<1>4. CASE \E d \in {"stale", "window", "ttl"} : TimePasses(d)
    BY <1>1, <1>4 DEF TimePasses, clientVars, history
<1>5. CASE ResolveLoad \/ ResolveSave
    <2>1. /\ UNCHANGED <<handler, client, trusted, certs, orphaned>>
          /\ record' \in {record, run} /\ run' \in {record, run, None}
          /\ overwritten \/ record' # record => overwritten'
        <3>1. CASE ResolveLoad
            BY <3>1 DEF ResolveLoad, Elsewhere, hostFiles
        <3>2. CASE ResolveSave
            BY <3>2 DEF ResolveSave, Elsewhere, hostFiles
        <3>. QED
            BY <1>5, <3>1, <3>2
    <2>2. Settled' \subseteq Settled
        BY <2>1 DEF Settled
    <2>3. SessionInv'
        BY <1>a, <2>1 DEF SessionInv
    <2>4. ASSUME NEW t \in Sessions, NEW k \in Unsaved(t)'
          PROVE  k \in Unsaved(t) /\ k \notin Settled' /\ (Confirmed(t)' => Confirmed(t))
        <3>1. k \in Unsaved(t)
            BY <2>1 DEF Unsaved
        <3>. QED
            BY <1>a, <2>1, <2>2, <3>1 DEF FreshInv, Confirmed, At
    <2>5. PairedIsTrusted'
        <3>1. CASE record' # record
            BY <2>1, <3>1 DEF PairedIsTrusted
        <3>2. CASE record' = record
            BY <1>a, <2>1, <3>2 DEF PairedIsTrusted, Replacing, Waits, At
        <3>. QED
            BY <3>1, <3>2
    <2>. QED
        BY <1>a, <2>1, <2>2, <2>3, <2>4, <2>5, SavedFrame DEF FreshInv
<1>6. CASE HostRestarts
    <2>1. /\ \A t \in Sessions : handler'[t].pc = "idle" /\ handler'[t].op = "none"
          /\ \A t \in Sessions : client'[t] = IF Busy(t) THEN Away ELSE client[t]
          /\ UNCHANGED <<record, run, trusted, certs, overwritten>>
        BY <1>0, <1>6 DEF HostRestarts, Stop, Free
    <2>2. /\ orphaned \subseteq orphaned'
          /\ \A t \in Sessions : At(t, "answer") /\ handler[t].op = "pair" /\ handler[t].ok
                => client[t].prev \in orphaned'
        BY <1>6 DEF HostRestarts
    <2>3. SessionInv'
        BY <1>a, <2>1 DEF SessionInv, Away, Busy
    <2>4. Settled' \subseteq Settled
        BY <2>1 DEF Settled, Away
    <2>5. ASSUME NEW t \in Sessions, NEW k \in Unsaved(t)'
          PROVE  k \in Unsaved(t) /\ k \notin Settled' /\ (Confirmed(t)' => Confirmed(t))
        <3>1. client'[t].pc = "answered" /\ client'[t].cert = k /\ client'[t] = client[t]
            BY <2>1 DEF Unsaved, Away
        <3>2. k \in Unsaved(t) /\ Confirmed(t)
            BY <2>1, <3>1 DEF Unsaved, Confirmed
        <3>. QED
            BY <1>a, <2>4, <3>2 DEF FreshInv
    <2>6. ASSUME NEW t \in Sessions, Replacing(t)
          PROVE  \/ Replacing(t)' /\ client'[t].prev = client[t].prev
                 \/ client[t].prev \in orphaned'
        <3>1. CASE client[t].pc = "answered"
            BY <1>a, <2>1, <3>1 DEF SessionInv, Busy, Replacing
        <3>2. CASE Waits(t) /\ At(t, "answer") /\ handler[t].ok
            BY <1>a, <2>2, <3>2 DEF SessionInv, Waits
        <3>. QED
            BY <2>6, <3>1, <3>2 DEF Replacing
    <2>7. PairedIsTrusted'
        BY <1>a, <2>1, <2>2, <2>6, PairedFrame
    <2>. QED
        BY <1>a, <2>1, <2>3, <2>4, <2>5, <2>7, SavedFrame DEF FreshInv
<1>. QED
    BY <1>2, <1>3, <1>4, <1>5, <1>6

\* The certificate that the client has saved is trusted by the host, however many
\* sessions pair at once: unless one is about to save a new certificate, ended before it
\* could, or another command has saved what it had loaded before.
THEOREM PairedIsTrustedAlways == Spec => []PairedIsTrusted
<1>1. Init => Inv /\ SavedInv
    <2>. SUFFICES ASSUME Init
                  PROVE  Inv /\ SavedInv
        OBVIOUS
    <2>1. /\ \A t \in Sessions : /\ handler[t].pc = "idle" /\ handler[t].op = "none"
                                 /\ client[t].pc = "idle" /\ client[t].prev = None
          /\ record = None /\ run = None
        BY DEF Init, Callers, Free, Away
    <2>2. SessionInv
        BY <2>1 DEF SessionInv
    <2>3. Settled = {None} /\ \A t \in Sessions : Unsaved(t) = {}
        BY <2>1 DEF Settled, Unsaved
    <2>4. FreshInv /\ PairedIsTrusted
        BY <2>1, <2>3 DEF FreshInv, PairedIsTrusted
    <2>. QED
        BY <2>2, <2>4, InvInit DEF SavedInv
<1>2. Inv /\ SavedInv /\ [Next]_vars => Inv' /\ SavedInv'
    <2>. SUFFICES ASSUME Inv, SavedInv, [Next]_vars
                  PROVE  SavedInv'
        BY InvStep
    <2>1. CASE Next
        BY <2>1, SavedStore, SavedHandler, SavedSigned, SavedAnswer, SavedClient, SavedOther
            DEF Next, Handle
    <2>2. CASE UNCHANGED vars
        BY <2>2 DEF vars, hostFiles, clientVars, history, SavedInv, SessionInv, FreshInv,
            PairedIsTrusted, Settled, Unsaved, Confirmed, Replacing, Waits, At
    <2>. QED
        BY <2>1, <2>2
<1>3. SavedInv => PairedIsTrusted
    BY DEF SavedInv
<1>. QED
    BY <1>1, <1>2, <1>3, PTL DEF Spec
=============================================================================
