------------------------- MODULE HostIdentityProofs -------------------------
(***************************************************************************)
(* Proofs about HostIdentity: the files of an identity are complete at     *)
(* rest, and an authority that is still valid is kept, whatever calls of   *)
(* EnsureHostPKI overlap, fail or are cut off.  At the end, proofs about   *)
(* HostUpdate, the updates of the host.                                    *)
(***************************************************************************)
EXTENDS HostIdentity, HostUpdate, FiniteSetTheorems, TLAPS

Complete(pki) == \A f \in Files : pki[f] # None

-----------------------------------------------------------------------------
(* Types *)

Pcs == {"idle", "recover", "commit", "remove", "read", "missing", "rotate", "pending", "done"}
Loaded == {"rotate", "pending", "commit", "remove", "done"}

\* One call of EnsureHostPKI, when so many authorities and server certificates exist.
CallOK(c, cas, certs) ==
    /\ c \in [pc : Pcs, k : 1..4, pki : {c.pki}, then : {"read", "rotate", "done"},
              fresh : {c.fresh}]
    /\ IsPKI(c.pki, cas, certs)
    /\ c.pc \in Loaded => Complete(c.pki)
    /\ c.pc = "read" => \A j \in 1..4 : j < c.k => c.pki[Order[j]] # None
    /\ c.pc \notin {"read", "commit"} => c.k = 1
    /\ c.pc = "idle" => c = Idle

NumbersOK ==
    /\ authorities \in Nat /\ servers \in Nat
    /\ oldCA \in 0..authorities /\ oldServer \in 0..servers /\ started \in 0..oldServer

TypeInv ==
    /\ NumbersOK
    /\ IsPKI(file, authorities, servers)
    /\ pending # None => IsPKI(pending, authorities, servers) /\ Complete(pending)
    /\ serving # None => IsPKI(serving, authorities, servers) /\ Complete(serving)
    /\ call = [p \in Procs |-> call[p]]
    /\ \A p \in Procs : CallOK(call[p], authorities, servers)
    /\ shown # None => shown \in 1..authorities
    /\ pinned # None => pinned \in 1..authorities

\* The names of the four files.
LEMMA OrderFacts ==
    /\ Files = {"CACert", "CAKey", "ServerCert", "ServerKey"}
    /\ Order[1] = "CACert" /\ Order[2] = "CAKey"
    /\ Order[3] = "ServerCert" /\ Order[4] = "ServerKey"
    /\ \A k \in 1..4 : Order[k] \in Files
<1>1. Order[1] = "CACert" /\ Order[2] = "CAKey"
      /\ Order[3] = "ServerCert" /\ Order[4] = "ServerKey"
    BY DEF Order
<1>2. 1..4 = {1, 2, 3, 4}
    OBVIOUS
<1>. QED
    BY <1>1, <1>2 DEF Files

\* A PKI is not the absence of one.
LEMMA PKINotNone ==
    ASSUME NEW pki, NEW a \in Nat, NEW s \in Nat, IsPKI(pki, a, s)
    PROVE  pki # None
<1>1. pki \in [Files -> {None} \cup Nat \cup (Nat \X Nat)]
    BY DEF IsPKI
<1>. QED
    BY <1>1, HostIdentityAssumption

\* It remains one when more authorities and certificates exist.
LEMMA PKIGrows ==
    ASSUME NEW pki, NEW a \in Nat, NEW s \in Nat, IsPKI(pki, a, s),
           NEW b \in Nat, NEW t \in Nat, a <= b, s <= t
    PROVE  IsPKI(pki, b, t)
BY DEF IsPKI

\* So does a call.
LEMMA CallGrows ==
    ASSUME NEW c, NEW a \in Nat, NEW s \in Nat, CallOK(c, a, s),
           NEW b \in Nat, NEW t \in Nat, a <= b, s <= t
    PROVE  CallOK(c, b, t)
BY PKIGrows DEF CallOK

\* A call that is over.
LEMMA IdleOK == ASSUME NEW a \in Nat, NEW s \in Nat PROVE CallOK(Idle, a, s)
BY DEF CallOK, Idle, IsPKI, NoFiles, Pcs, Loaded

\* What is left to show of the calls is the one that moved.
LEMMA CallStep ==
    ASSUME TypeInv, NEW p \in Procs, NEW c, call' = [call EXCEPT ![p] = c],
           authorities' \in Nat, servers' \in Nat,
           authorities <= authorities', servers <= servers',
           CallOK(c, authorities', servers')
    PROVE  /\ call' = [q \in Procs |-> call'[q]]
           /\ \A q \in Procs : CallOK(call'[q], authorities', servers')
<1>1. call' = [q \in Procs |-> call'[q]]
    BY DEF TypeInv
<1>2. ASSUME NEW q \in Procs PROVE CallOK(call'[q], authorities', servers')
    <2>1. CallOK(call[q], authorities', servers')
        BY CallGrows DEF TypeInv, NumbersOK
    <2>2. call'[q] = IF q = p THEN c ELSE call[q]
        BY DEF TypeInv
    <2>. QED
        BY <2>1, <2>2
<1>. QED
    BY <1>1, <1>2

\* The same of a step that creates nothing.
LEMMA SameNumbers ==
    ASSUME TypeInv, NEW p \in Procs, NEW c, call' = [call EXCEPT ![p] = c],
           UNCHANGED numbers, CallOK(c, authorities, servers)
    PROVE  /\ call' = [q \in Procs |-> call'[q]]
           /\ \A q \in Procs : CallOK(call'[q], authorities', servers')
<1>1. /\ authorities' \in Nat /\ servers' \in Nat
      /\ authorities <= authorities' /\ servers <= servers'
    BY DEF TypeInv, NumbersOK, numbers
<1>2. CallOK(c, authorities', servers')
    BY DEF numbers
<1>. QED
    BY <1>1, <1>2, CallStep

\* A step that only creates, and changes one call.
LEMMA Grown ==
    ASSUME TypeInv, authorities' \in Nat, servers' \in Nat,
           authorities <= authorities', servers <= servers',
           call' = [q \in Procs |-> call'[q]],
           \A q \in Procs : CallOK(call'[q], authorities', servers'),
           UNCHANGED disk, Unmoved
    PROVE  TypeInv'
BY PKIGrows DEF TypeInv, NumbersOK, disk, clock, Unmoved

\* TypeInv holds initially.
LEMMA TypeInit == Init => TypeInv
<1> SUFFICES ASSUME Init PROVE TypeInv
    OBVIOUS
<1>1. \A p \in Procs : CallOK(call[p], authorities, servers)
    BY IdleOK DEF Init
<1>. QED
    BY <1>1 DEF Init, TypeInv, NumbersOK, IsPKI, NoFiles

\* Every step of a call keeps TypeInv.
LEMMA TypeEnsure ==
    ASSUME TypeInv, NEW p \in Procs, Begin(p) \/ Ensure(p) \/ FileFails(p) \/ Crash(p)
    PROVE  TypeInv'
<1>0. call[p] \in [pc : Pcs, k : 1..4, pki : {call[p].pki},
                   then : {"read", "rotate", "done"}, fresh : {call[p].fresh}]
      /\ CallOK(call[p], authorities, servers) /\ NumbersOK
    BY DEF TypeInv, CallOK
<1>i. CallOK(Idle, authorities, servers)
    BY IdleOK, <1>0 DEF NumbersOK
<1>g. ASSUME NEW label \in Pcs \ {"idle"}, Goto(p, label), UNCHANGED numbers,
             label \in Loaded => Complete(call[p].pki)
      PROVE  /\ call' = [q \in Procs |-> call'[q]]
             /\ \A q \in Procs : CallOK(call'[q], authorities', servers')
    <2> DEFINE c == [call[p] EXCEPT !.pc = label, !.k = 1]
    <2>1. /\ c.pc = label /\ c.k = 1 /\ c.pki = call[p].pki
          /\ c.then = call[p].then /\ c.fresh = call[p].fresh
        BY <1>0
    <2>4. c.pc \in Pcs /\ c.k \in 1..4
        BY <1>0, <1>g, <2>1 DEF Pcs
    <2>5. c \in [pc : Pcs, k : 1..4, pki : {c.pki},
                 then : {"read", "rotate", "done"}, fresh : {c.fresh}]
        BY <1>0, <2>1, <2>4
    <2>2. CallOK(c, authorities, servers)
        BY <1>0, <1>g, <2>1, <2>5 DEF CallOK, Loaded
    <2>3. call' = [call EXCEPT ![p] = c]
        BY <1>g, <2>2 DEF Goto
    <2>. QED
        BY SameNumbers, <2>2, <2>3, <1>g
<1>e. ASSUME ReturnError(p), UNCHANGED numbers
      PROVE  /\ call' = [q \in Procs |-> call'[q]]
             /\ \A q \in Procs : CallOK(call'[q], authorities', servers')
    BY SameNumbers, <1>e, <1>i DEF ReturnError, numbers
<1>1. CASE Begin(p)
    BY <1>1, <1>g DEF Begin, TypeInv, NumbersOK, disk, numbers, clock, Pcs, Loaded
<1>2. CASE RecoverRead(p)
    <2>1. CASE pending = None
        BY <1>2, <2>1, <1>g
        DEF RecoverRead, TypeInv, NumbersOK, disk, numbers, clock, Unmoved, Pcs, Loaded
    <2>2. CASE pending # None
        <3> DEFINE c == [call[p] EXCEPT !.pc = "commit", !.pki = pending, !.then = "read"]
        <3>1. c.pc = "commit" /\ c.k = call[p].k /\ c.pki = pending /\ c.then = "read"
              /\ c.fresh = call[p].fresh
            BY <1>0
        <3>2. CallOK(c, authorities, servers)
            BY <1>0, <1>2, <2>2, <3>1 DEF CallOK, Pcs, TypeInv
        <3>3. call' = [call EXCEPT ![p] = c] /\ UNCHANGED numbers
            BY <1>2, <2>2, <3>2 DEF RecoverRead
        <3>4. /\ call' = [q \in Procs |-> call'[q]]
              /\ \A q \in Procs : CallOK(call'[q], authorities', servers')
            BY SameNumbers, <3>2, <3>3
        <3>. QED
            BY <1>2, <3>4 DEF RecoverRead, TypeInv, NumbersOK, disk, numbers, clock, Unmoved
    <2>. QED
        BY <2>1, <2>2
<1>3. CASE ReadFile(p)
    <2> DEFINE k == call[p].k
    <2>1. CASE file[Order[k]] = None
        BY <1>3, <2>1, <1>g
        DEF ReadFile, TypeInv, NumbersOK, disk, numbers, clock, Unmoved, Pcs, Loaded
    <2>2. CASE file[Order[k]] # None
        <3> DEFINE f == Order[k]
                   c == [call[p] EXCEPT !.pki[f] = file[f],
                                        !.k = IF k = 4 THEN 1 ELSE k + 1,
                                        !.pc = IF k = 4 THEN "rotate" ELSE "read"]
        <3>1. /\ c.pc = IF k = 4 THEN "rotate" ELSE "read"
              /\ c.k = IF k = 4 THEN 1 ELSE k + 1
              /\ c.pki = [call[p].pki EXCEPT ![f] = file[f]]
              /\ c.then = call[p].then /\ c.fresh = call[p].fresh
            BY <1>0
        <3>0. c \in [pc : Pcs, k : 1..4, pki : {c.pki},
                     then : {"read", "rotate", "done"}, fresh : {c.fresh}]
            <4>1. c.pc \in Pcs /\ c.k \in 1..4
                BY <1>0, <3>1 DEF Pcs
            <4>. QED
                BY <4>1, <1>0, <3>1
        <3>2. IsPKI(c.pki, authorities, servers)
            BY <1>0, <3>1 DEF CallOK, IsPKI, TypeInv
        <3>. HIDE DEF c
        <3>3. \A j \in 1..4 : j <= k => c.pki[Order[j]] # None
            <4>1. \A g \in Files : c.pki[g] = IF g = f THEN file[f] ELSE call[p].pki[g]
                BY <1>0, <3>1, OrderFacts DEF CallOK, IsPKI
            <4>2. \A j \in 1..4 : j < k => call[p].pki[Order[j]] # None
                BY <1>0, <1>3 DEF CallOK, ReadFile, At
            <4>. QED
                BY <4>1, <4>2, <2>2, <1>0, OrderFacts
        <3>4. CallOK(c, authorities, servers)
            <4>1. CASE k = 4
                <5>1. c.pc = "rotate" /\ c.k = 1
                    BY <3>1, <4>1
                <5>2. Complete(c.pki)
                    BY <3>3, <4>1, OrderFacts DEF Complete
                <5>. QED
                    BY <5>1, <5>2, <3>0, <3>2 DEF CallOK
            <4>2. CASE k # 4
                <5>1. c.pc = "read" /\ c.k = k + 1 /\ k \in 1..4
                    BY <1>0, <3>1, <4>2
                <5>. QED
                    BY <5>1, <3>0, <3>2, <3>3 DEF CallOK, Loaded
            <4>. QED
                BY <4>1, <4>2
        <3>5. call' = [call EXCEPT ![p] = c] /\ UNCHANGED numbers
            BY <1>3, <2>2 DEF ReadFile, numbers, c
        <3>6. /\ call' = [q \in Procs |-> call'[q]]
              /\ \A q \in Procs : CallOK(call'[q], authorities', servers')
            BY SameNumbers, <3>4, <3>5
        <3>. QED
            BY <1>3, <3>6 DEF ReadFile, TypeInv, NumbersOK, disk, numbers, clock, Unmoved
    <2>. QED
        BY <2>1, <2>2
<1>c. ASSUME NEW then \in {"read", "rotate", "done"}, Create(p, then)
      PROVE  /\ call' = [q \in Procs |-> call'[q]]
             /\ \A q \in Procs : CallOK(call'[q], authorities', servers')
    <2> DEFINE c == [pc |-> "pending", k |-> 1, pki |-> FreshPKI, then |-> then, fresh |-> TRUE]
    <2>1. /\ authorities' = authorities + 1 /\ servers' = servers + 1
          /\ authorities \in Nat /\ servers \in Nat
        BY <1>c, <1>0 DEF Create, NumbersOK
    <2>2. IsPKI(FreshPKI, authorities', servers') /\ Complete(FreshPKI)
        BY <2>1, HostIdentityAssumption DEF IsPKI, FreshPKI, Complete
    <2>3. CallOK(c, authorities', servers')
        BY <2>2 DEF CallOK, Pcs, Loaded
    <2>4. call' = [call EXCEPT ![p] = c]
        BY <1>c DEF Create
    <2>5. /\ authorities' \in Nat /\ servers' \in Nat
          /\ authorities <= authorities' /\ servers <= servers'
        BY <2>1
    <2>. QED
        BY <2>3, <2>4, <2>5, CallStep
<1>4. CASE LoadMissing(p)
    <2>1. CASE missingHostPKIFiles = 4
        <3>1. Create(p, "rotate")
            BY <1>4, <2>1 DEF LoadMissing
        <3>2. /\ authorities' \in Nat /\ servers' \in Nat
              /\ authorities <= authorities' /\ servers <= servers'
            BY <1>0, <3>1 DEF Create, NumbersOK
        <3>3. UNCHANGED disk /\ Unmoved
            BY <1>4 DEF LoadMissing
        <3>. QED
            BY <1>c, <3>1, <3>2, <3>3, Grown
    <2>2. CASE missingHostPKIFiles # 4
        BY <1>4, <2>2, <1>e DEF LoadMissing, TypeInv, NumbersOK, disk, numbers, clock, Unmoved
    <2>. QED
        BY <2>1, <2>2
<1>5. CASE Rotate(p)
    <2> DEFINE pki == call[p].pki
    <2>1. UNCHANGED disk /\ Unmoved
        BY <1>5 DEF Rotate
    <2>2. Complete(pki) /\ IsPKI(pki, authorities, servers)
        BY <1>5, <1>0 DEF Rotate, At, CallOK, Loaded
    <2>3. CASE Create(p, "done")
        <3>1. /\ authorities' \in Nat /\ servers' \in Nat
              /\ authorities <= authorities' /\ servers <= servers'
            BY <1>0, <2>3 DEF Create, NumbersOK
        <3>. QED
            BY <1>c, <2>3, <2>1, <3>1, Grown
    <2>4. CASE Goto(p, "done") /\ UNCHANGED numbers
        BY <2>1, <2>2, <2>4, <1>g
        DEF TypeInv, NumbersOK, disk, numbers, clock, Unmoved, Pcs, Loaded
    <2> DEFINE c == [call[p] EXCEPT !.pc = "pending", !.pki = FreshServer(pki), !.then = "done"]
    <2>5. CASE /\ call' = [call EXCEPT ![p] = c]
               /\ servers' = servers + 1 /\ authorities' = authorities
        <3>1. /\ c.pc = "pending" /\ c.k = call[p].k /\ c.pki = FreshServer(pki)
              /\ c.then = "done" /\ c.fresh = call[p].fresh
            BY <1>0
        <3>2. c \in [pc : Pcs, k : 1..4, pki : {c.pki},
                     then : {"read", "rotate", "done"}, fresh : {c.fresh}]
            BY <1>0, <3>1 DEF Pcs
        <3>3. IsPKI(FreshServer(pki), authorities', servers') /\ Complete(FreshServer(pki))
            <4>1. /\ pki["CACert"] \in 1..authorities
                  /\ authorities \in Nat /\ servers \in Nat
                BY <2>2, <1>0, OrderFacts DEF Complete, IsPKI, NumbersOK
            <4>2. \A g \in Files : FreshServer(pki)[g] =
                    IF g \in {"ServerCert", "ServerKey"}
                    THEN <<pki["CACert"], servers + 1>> ELSE pki[g]
                BY <2>2, OrderFacts DEF FreshServer, IsPKI
            <4>3. FreshServer(pki) = [g \in Files |-> FreshServer(pki)[g]]
                BY <2>2 DEF FreshServer, IsPKI
            <4>4. <<pki["CACert"], servers + 1>> \in (1..authorities') \X (1..servers')
                BY <4>1, <2>5
            <4>5. <<pki["CACert"], servers + 1>> # None
                BY <4>1, HostIdentityAssumption
            <4>6. IsPKI(pki, authorities', servers')
                BY <2>2, <2>5, <4>1, PKIGrows
            <4>. QED
                BY <4>2, <4>3, <4>4, <4>5, <4>6, <2>2, OrderFacts DEF IsPKI, Complete
        <3>4. call[p].k = 1
            BY <1>5, <1>0 DEF Rotate, At, CallOK
        <3>5. CallOK(c, authorities', servers')
            BY <3>1, <3>2, <3>3, <3>4 DEF CallOK
        <3>6. /\ authorities' \in Nat /\ servers' \in Nat
              /\ authorities <= authorities' /\ servers <= servers'
            BY <1>0, <2>5 DEF NumbersOK
        <3>7. /\ call' = [q \in Procs |-> call'[q]]
              /\ \A q \in Procs : CallOK(call'[q], authorities', servers')
            BY <2>5, <3>5, <3>6, CallStep
        <3>. QED
            BY <2>1, <3>6, <3>7, Grown
    <2>. QED
        BY <1>5, <2>3, <2>4, <2>5 DEF Rotate
<1>6. CASE WritePending(p)
    <2>1. Complete(call[p].pki) /\ IsPKI(call[p].pki, authorities, servers)
        BY <1>6, <1>0 DEF WritePending, At, CallOK, Loaded
    <2>2. /\ call' = [q \in Procs |-> call'[q]]
          /\ \A q \in Procs : CallOK(call'[q], authorities', servers')
        BY <1>6, <2>1, <1>g DEF WritePending, numbers, Pcs
    <2>. QED
        BY <1>6, <2>1, <2>2 DEF WritePending, TypeInv, NumbersOK, numbers, clock, Unmoved
<1>7. CASE CommitFile(p)
    <2> DEFINE k == call[p].k
               f == Order[k]
               c == [call[p] EXCEPT !.k = IF k = 4 THEN 1 ELSE k + 1,
                                    !.pc = IF k = 4 THEN "remove" ELSE "commit"]
    <2>1. /\ c.pc = IF k = 4 THEN "remove" ELSE "commit"
          /\ c.k = IF k = 4 THEN 1 ELSE k + 1
          /\ c.pki = call[p].pki /\ c.then = call[p].then /\ c.fresh = call[p].fresh
        BY <1>0
    <2>2. c.pc \in {"remove", "commit"} /\ c.k \in 1..4
        BY <1>0, <2>1
    <2>3. c \in [pc : Pcs, k : 1..4, pki : {c.pki},
                 then : {"read", "rotate", "done"}, fresh : {c.fresh}]
        BY <1>0, <2>1, <2>2 DEF Pcs
    <2>4. Complete(call[p].pki) /\ IsPKI(call[p].pki, authorities, servers)
        BY <1>7, <1>0 DEF CommitFile, At, CallOK, Loaded
    <2>5. CallOK(c, authorities, servers)
        BY <2>1, <2>2, <2>3, <2>4 DEF CallOK
    <2>6. call' = [call EXCEPT ![p] = c] /\ UNCHANGED numbers
        BY <1>7 DEF CommitFile
    <2>7. /\ call' = [q \in Procs |-> call'[q]]
          /\ \A q \in Procs : CallOK(call'[q], authorities', servers')
        BY SameNumbers, <2>5, <2>6
    <2>8. f \in Files /\ file' = [file EXCEPT ![f] = call[p].pki[f]]
        BY <1>7, <1>0, OrderFacts DEF CommitFile
    <2>9. IsPKI(file', authorities, servers)
        BY <2>4, <2>8 DEF IsPKI, TypeInv
    <2>. QED
        BY <1>7, <2>7, <2>9 DEF CommitFile, TypeInv, NumbersOK, numbers, clock, Unmoved
<1>8. CASE RemovePending(p)
    <2>1. CASE pending = None
        BY <1>8, <2>1, <1>e
        DEF RemovePending, TypeInv, NumbersOK, disk, numbers, clock, Unmoved
    <2>2. CASE pending # None
        <3>1. Complete(call[p].pki) /\ call[p].then \in Pcs \ {"idle"}
            BY <1>8, <1>0 DEF RemovePending, At, CallOK, Loaded, Pcs
        <3>. QED
            BY <1>8, <2>2, <3>1, <1>g
            DEF RemovePending, TypeInv, NumbersOK, disk, numbers, clock, Unmoved
    <2>. QED
        BY <2>1, <2>2
<1>9. CASE Finish(p)
    <2> DEFINE pki == call[p].pki
    <2>1. Complete(pki) /\ IsPKI(pki, authorities, servers)
        BY <1>9, <1>0 DEF Finish, At, CallOK, Loaded
    <2>2. "CACert" \in Files
        BY OrderFacts
    <2>3. pki["CACert"] \in 1..authorities
        BY <2>1, <2>2 DEF Complete, IsPKI
    <2>4. /\ call' = [q \in Procs |-> call'[q]]
          /\ \A q \in Procs : CallOK(call'[q], authorities', servers')
        BY <1>9, <1>e DEF Finish, ReturnError
    <2>. QED
        BY <1>9, <2>1, <2>3, <2>4 DEF Finish, TypeInv, NumbersOK, disk, numbers, clock
<1>10. CASE FileFails(p)
    BY <1>10, <1>e DEF FileFails, TypeInv, NumbersOK, disk, numbers, clock, Unmoved
<1>11. CASE Crash(p)
    BY <1>11, <1>e DEF Crash, TypeInv, NumbersOK, disk, numbers, clock
<1>. QED
    BY <1>1, <1>2, <1>3, <1>4, <1>5, <1>6, <1>7, <1>8, <1>9, <1>10, <1>11 DEF Ensure

\* Every step keeps TypeInv.
LEMMA TypeStep == TypeInv /\ [Next]_vars => TypeInv'
<1> SUFFICES ASSUME TypeInv, [Next]_vars PROVE TypeInv'
    OBVIOUS
<1>1. CASE ClientPairs
    <2>1. serving["CACert"] \in 1..authorities
        BY <1>1, OrderFacts DEF ClientPairs, TypeInv, IsPKI, Complete
    <2>. QED
        BY <1>1, <2>1 DEF ClientPairs, TypeInv, NumbersOK, disk, numbers, clock
<1>2. ASSUME NEW ca \in BOOLEAN, Expire(ca) PROVE TypeInv'
    BY <1>2 DEF Expire, TypeInv, NumbersOK, disk, numbers
<1>3. CASE UNCHANGED vars
    BY <1>3 DEF vars, TypeInv, NumbersOK, disk, numbers, clock
<1>. QED
    BY <1>1, <1>2, <1>3, TypeEnsure DEF Next

\* What a step leaves in the call of p; the other calls stay.
Moves(p, label, k, pki, then, fresh) ==
    /\ call'[p].pc = label /\ call'[p].k = k /\ call'[p].pki = pki
    /\ call'[p].then = then /\ call'[p].fresh = fresh
    /\ \A q \in Procs \ {p} : call'[q] = call[q]

MovesTo(p, label) == Moves(p, label, 1, call[p].pki, call[p].then, call[p].fresh)
Ends(p) == Moves(p, "idle", 1, NoFiles, "done", FALSE)
Creates(p, then) == Moves(p, "pending", 1, FreshPKI, then, TRUE)

\* A new server certificate, of the same authority.
Renews(p) ==
    /\ Moves(p, "pending", 1, FreshServer(call[p].pki), "done", call[p].fresh)
    /\ servers' = servers + 1
    /\ UNCHANGED <<authorities, raced>>

\* The next file of the four.
Advance(p, pki, label, last) ==
    IF call[p].k = 4 THEN Moves(p, last, 1, pki, call[p].then, call[p].fresh)
    ELSE Moves(p, label, call[p].k + 1, pki, call[p].then, call[p].fresh)

\* What each step of a call does to it.
LEMMA Effects ==
    ASSUME TypeInv, NEW p \in Procs
    PROVE  /\ \A label : Goto(p, label) => MovesTo(p, label)
           /\ ReturnError(p) => Ends(p)
           /\ \A then : Create(p, then) => Creates(p, then)
           /\ RecoverRead(p) => IF pending = None THEN MovesTo(p, "read")
                                ELSE Moves(p, "commit", 1, pending, "read", call[p].fresh)
           /\ ReadFile(p) => LET f == Order[call[p].k] IN
                IF file[f] = None THEN MovesTo(p, "missing")
                ELSE Advance(p, [call[p].pki EXCEPT ![f] = file[f]], "read", "rotate")
           /\ CommitFile(p) => Advance(p, call[p].pki, "commit", "remove")
           /\ Rotate(p) => \/ ~CAUsable(call[p].pki) /\ Creates(p, "done") /\ Create(p, "done")
                           \/ CAUsable(call[p].pki) /\ ~ServerUsable(call[p].pki) /\ Renews(p)
                           \/ /\ CAUsable(call[p].pki) /\ ServerUsable(call[p].pki)
                              /\ MovesTo(p, "done") /\ UNCHANGED <<numbers, raced>>
           /\ Finish(p) => Ends(p)
<1>1. /\ call[p] \in [pc : Pcs, k : 1..4, pki : {call[p].pki},
                      then : {"read", "rotate", "done"}, fresh : {call[p].fresh}]
      /\ call[p].pc \in {"recover", "rotate"} => call[p].k = 1
    BY DEF TypeInv, CallOK
<1>2. ASSUME NEW c, call' = [call EXCEPT ![p] = c]
      PROVE  Moves(p, c.pc, c.k, c.pki, c.then, c.fresh)
    BY <1>2 DEF TypeInv, Moves
<1>3. ASSUME NEW label, Goto(p, label) PROVE MovesTo(p, label)
    <2> DEFINE c == [call[p] EXCEPT !.pc = label, !.k = 1]
    <2>1. /\ c.pc = label /\ c.k = 1 /\ c.pki = call[p].pki
          /\ c.then = call[p].then /\ c.fresh = call[p].fresh
        BY <1>1
    <2>2. call' = [call EXCEPT ![p] = c]
        BY <1>3 DEF Goto
    <2>3. Moves(p, c.pc, c.k, c.pki, c.then, c.fresh)
        BY <1>2, <2>2
    <2>. QED
        BY <2>1, <2>3 DEF MovesTo
<1>4. ASSUME ReturnError(p) PROVE Ends(p)
    <2>1. Moves(p, Idle.pc, Idle.k, Idle.pki, Idle.then, Idle.fresh)
        BY <1>2, <1>4 DEF ReturnError
    <2>. QED
        BY <2>1 DEF Idle, Ends
<1>5. ASSUME NEW then, Create(p, then) PROVE Creates(p, then)
    <2> DEFINE c == [pc |-> "pending", k |-> 1, pki |-> FreshPKI, then |-> then, fresh |-> TRUE]
    <2>1. Moves(p, c.pc, c.k, c.pki, c.then, c.fresh)
        BY <1>2, <1>5 DEF Create
    <2>. QED
        BY <2>1 DEF Creates
<1>6. RecoverRead(p) => IF pending = None THEN MovesTo(p, "read")
                        ELSE Moves(p, "commit", 1, pending, "read", call[p].fresh)
    <2> SUFFICES ASSUME RecoverRead(p), pending # None
                 PROVE  Moves(p, "commit", 1, pending, "read", call[p].fresh)
        BY <1>3 DEF RecoverRead
    <2> DEFINE c == [call[p] EXCEPT !.pc = "commit", !.pki = pending, !.then = "read"]
    <2>1. /\ c.pc = "commit" /\ c.k = 1 /\ c.pki = pending
          /\ c.then = "read" /\ c.fresh = call[p].fresh
        BY <1>1 DEF RecoverRead, At
    <2>2. call' = [call EXCEPT ![p] = c]
        BY DEF RecoverRead
    <2>3. Moves(p, c.pc, c.k, c.pki, c.then, c.fresh)
        BY <1>2, <2>2
    <2>. QED
        BY <2>1, <2>3
<1>7. ReadFile(p) => LET f == Order[call[p].k] IN
         IF file[f] = None THEN MovesTo(p, "missing")
         ELSE Advance(p, [call[p].pki EXCEPT ![f] = file[f]], "read", "rotate")
    <2> DEFINE k == call[p].k
               f == Order[k]
               pki == [call[p].pki EXCEPT ![f] = file[f]]
    <2> SUFFICES ASSUME ReadFile(p), file[f] # None
                 PROVE  Advance(p, pki, "read", "rotate")
        BY <1>3 DEF ReadFile
    <2> DEFINE c == [call[p] EXCEPT !.pki[f] = file[f],
                                    !.k = IF k = 4 THEN 1 ELSE k + 1,
                                    !.pc = IF k = 4 THEN "rotate" ELSE "read"]
    <2>1. /\ c.pc = IF k = 4 THEN "rotate" ELSE "read"
          /\ c.k = IF k = 4 THEN 1 ELSE k + 1
          /\ c.pki = pki /\ c.then = call[p].then /\ c.fresh = call[p].fresh
        BY <1>1
    <2>2. call' = [call EXCEPT ![p] = c]
        BY DEF ReadFile
    <2>3. Moves(p, c.pc, c.k, c.pki, c.then, c.fresh)
        BY <1>2, <2>2
    <2>. QED
        BY <2>1, <2>3 DEF Advance
<1>8. CommitFile(p) => Advance(p, call[p].pki, "commit", "remove")
    <2> SUFFICES ASSUME CommitFile(p)
                 PROVE  Advance(p, call[p].pki, "commit", "remove")
        OBVIOUS
    <2> DEFINE k == call[p].k
               c == [call[p] EXCEPT !.k = IF k = 4 THEN 1 ELSE k + 1,
                                    !.pc = IF k = 4 THEN "remove" ELSE "commit"]
    <2>1. /\ c.pc = IF k = 4 THEN "remove" ELSE "commit"
          /\ c.k = IF k = 4 THEN 1 ELSE k + 1
          /\ c.pki = call[p].pki /\ c.then = call[p].then /\ c.fresh = call[p].fresh
        BY <1>1
    <2>2. call' = [call EXCEPT ![p] = c]
        BY DEF CommitFile
    <2>3. Moves(p, c.pc, c.k, c.pki, c.then, c.fresh)
        BY <1>2, <2>2
    <2>. QED
        BY <2>1, <2>3 DEF Advance
<1>9. Finish(p) => Ends(p)
    BY <1>4 DEF Finish, ReturnError
<1>10. ASSUME Rotate(p)
       PROVE  \/ ~CAUsable(call[p].pki) /\ Creates(p, "done") /\ Create(p, "done")
              \/ CAUsable(call[p].pki) /\ ~ServerUsable(call[p].pki) /\ Renews(p)
              \/ /\ CAUsable(call[p].pki) /\ ServerUsable(call[p].pki)
                 /\ MovesTo(p, "done") /\ UNCHANGED <<numbers, raced>>
    <2> DEFINE pki == call[p].pki
               c == [call[p] EXCEPT !.pc = "pending", !.pki = FreshServer(pki),
                                    !.then = "done"]
    <2>1. CASE hostPKIRotation(pki) = "ca"
        BY <1>10, <2>1, <1>5 DEF Rotate, hostPKIRotation
    <2>2. CASE hostPKIRotation(pki) = "server"
        <3>1. /\ c.pc = "pending" /\ c.k = 1 /\ c.pki = FreshServer(pki)
              /\ c.then = "done" /\ c.fresh = call[p].fresh
            BY <1>1, <1>10 DEF Rotate, At
        <3>2. call' = [call EXCEPT ![p] = c] /\ servers' = servers + 1
              /\ UNCHANGED <<authorities, raced>>
            BY <1>10, <2>2 DEF Rotate
        <3>3. Moves(p, c.pc, c.k, c.pki, c.then, c.fresh)
            BY <1>2, <3>2
        <3>. QED
            BY <2>2, <3>1, <3>2, <3>3 DEF Renews, hostPKIRotation
    <2>3. CASE hostPKIRotation(pki) = "nothing"
        BY <1>10, <2>3, <1>3 DEF Rotate, hostPKIRotation
    <2>. QED
        BY <2>1, <2>2, <2>3 DEF hostPKIRotation
<1>. QED
    BY <1>3, <1>4, <1>5, <1>6, <1>7, <1>8, <1>9, <1>10

-----------------------------------------------------------------------------
(* Complete at rest *)

\* A file that exists never disappears, and the record stays until all four exist.
RestInv ==
    /\ pending # None \/ file = NoFiles \/ Complete(file)
    /\ \A p \in Procs :
          /\ call[p].pc = "commit" =>
                /\ pending # None \/ Complete(file)
                /\ \A j \in 1..4 : j < call[p].k => file[Order[j]] # None
          /\ call[p].pc = "remove" => Complete(file)

-----------------------------------------------------------------------------
\* RestInv holds initially.
LEMMA RestInit == Init => RestInv
BY DEF Init, RestInv, Idle

\* A step that leaves the files alone and starts no commit keeps RestInv.
LEMMA RestQuiet ==
    ASSUME TypeInv, RestInv, UNCHANGED disk, NEW p \in Procs,
           \A q \in Procs \ {p} : call'[q] = call[q],
           call'[p].pc \notin {"commit", "remove"}
    PROVE  RestInv'
BY DEF RestInv, disk, Complete

\* Every step keeps RestInv.
LEMMA RestStep == TypeInv /\ RestInv /\ [Next]_vars => RestInv'
<1> SUFFICES ASSUME TypeInv, RestInv, [Next]_vars PROVE RestInv'
    OBVIOUS
<1>1. ASSUME NEW p \in Procs, Begin(p) PROVE RestInv'
    <2>1. MovesTo(p, "recover") /\ UNCHANGED disk
        BY <1>1, Effects DEF Begin
    <2>. QED
        BY <2>1, RestQuiet DEF MovesTo, Moves
<1>2. ASSUME NEW p \in Procs, RecoverRead(p) PROVE RestInv'
    <2>1. UNCHANGED disk
        BY <1>2 DEF RecoverRead
    <2>2. IF pending = None THEN MovesTo(p, "read")
          ELSE Moves(p, "commit", 1, pending, "read", call[p].fresh)
        BY <1>2, Effects
    <2>3. CASE pending = None
        BY <2>1, <2>2, <2>3, RestQuiet DEF MovesTo, Moves
    <2>4. CASE pending # None
        BY <2>1, <2>2, <2>4 DEF RestInv, Moves, disk, Complete
    <2>. QED
        BY <2>3, <2>4
<1>3. ASSUME NEW p \in Procs, ReadFile(p) PROVE RestInv'
    <2>1. UNCHANGED disk
        BY <1>3 DEF ReadFile
    <2>2. /\ call'[p].pc \in {"missing", "read", "rotate"}
          /\ \A q \in Procs \ {p} : call'[q] = call[q]
        BY <1>3, Effects DEF MovesTo, Advance, Moves
    <2>. QED
        BY <2>1, <2>2, RestQuiet
<1>4. ASSUME NEW p \in Procs, LoadMissing(p) PROVE RestInv'
    <2>1. UNCHANGED disk /\ (Ends(p) \/ Creates(p, "rotate"))
        BY <1>4, Effects DEF LoadMissing
    <2>. QED
        BY <2>1, RestQuiet DEF Ends, Creates, Moves
<1>5. ASSUME NEW p \in Procs, Rotate(p) PROVE RestInv'
    <2>1. UNCHANGED disk
        BY <1>5 DEF Rotate
    <2>2. /\ call'[p].pc \in {"pending", "done"}
          /\ \A q \in Procs \ {p} : call'[q] = call[q]
        BY <1>5, Effects DEF Creates, Renews, MovesTo, Moves
    <2>. QED
        BY <2>1, <2>2, RestQuiet
<1>6. ASSUME NEW p \in Procs, WritePending(p) PROVE RestInv'
    <2>1. MovesTo(p, "commit") /\ pending' = call[p].pki /\ UNCHANGED file
        BY <1>6, Effects DEF WritePending
    <2>2. pending' # None
        BY <2>1, PKINotNone DEF TypeInv, NumbersOK, CallOK
    <2>. QED
        BY <2>1, <2>2 DEF RestInv, MovesTo, Moves, Complete
<1>7. ASSUME NEW p \in Procs, CommitFile(p) PROVE RestInv'
    <2> DEFINE k == call[p].k
    <2>1. /\ Advance(p, call[p].pki, "commit", "remove")
          /\ file' = [file EXCEPT ![Order[k]] = call[p].pki[Order[k]]]
          /\ call[p].pc = "commit" /\ UNCHANGED pending
        BY <1>7, Effects DEF CommitFile, At
    <2>2. k \in 1..4 /\ Complete(call[p].pki)
        BY <2>1 DEF TypeInv, CallOK, Loaded
    <2>3. /\ file'[Order[k]] # None
          /\ \A f \in Files : file[f] # None => file'[f] # None
        BY <2>1, <2>2, OrderFacts DEF TypeInv, IsPKI, Complete
    <2>4. pending # None \/ Complete(file)
        BY <2>1 DEF RestInv
    <2>5. \A j \in 1..4 : j <= k => file'[Order[j]] # None
        BY <2>1, <2>2, <2>3, OrderFacts DEF RestInv
    <2>6. k = 4 => Complete(file')
        BY <2>5, OrderFacts DEF Complete
    <2>7. Complete(file) => Complete(file')
        BY <2>3 DEF Complete
    <2>8. /\ call'[p].pc = IF k = 4 THEN "remove" ELSE "commit"
          /\ call'[p].k = IF k = 4 THEN 1 ELSE k + 1
          /\ \A q \in Procs \ {p} : call'[q] = call[q]
        BY <2>1, <2>2 DEF Advance, Moves
    <2>9. ASSUME NEW q \in Procs \ {p}
          PROVE  /\ call'[q].pc = "commit" =>
                     /\ pending' # None \/ Complete(file')
                     /\ \A j \in 1..4 : j < call'[q].k => file'[Order[j]] # None
                 /\ call'[q].pc = "remove" => Complete(file')
        BY <2>1, <2>3, <2>7, <2>8, OrderFacts DEF RestInv
    <2>10. /\ call'[p].pc = "commit" =>
                /\ pending' # None \/ Complete(file')
                /\ \A j \in 1..4 : j < call'[p].k => file'[Order[j]] # None
           /\ call'[p].pc = "remove" => Complete(file')
        BY <2>1, <2>2, <2>4, <2>5, <2>6, <2>7, <2>8
    <2>11. pending' # None \/ Complete(file')
        BY <2>1, <2>4, <2>7
    <2>. QED
        BY <2>9, <2>10, <2>11 DEF RestInv, Complete
<1>8. ASSUME NEW p \in Procs, RemovePending(p) PROVE RestInv'
    <2>1. /\ pending' = None /\ UNCHANGED file /\ call[p].pc = "remove"
          /\ Ends(p) \/ MovesTo(p, call[p].then)
        BY <1>8, Effects DEF RemovePending, At
    <2>2. Complete(file) /\ call[p].then \notin {"commit", "remove"}
        BY <2>1 DEF RestInv, TypeInv, CallOK
    <2>3. /\ call'[p].pc \notin {"commit", "remove"}
          /\ \A q \in Procs \ {p} : call'[q] = call[q]
        BY <2>1, <2>2 DEF Ends, MovesTo, Moves
    <2>. QED
        BY <2>1, <2>2, <2>3 DEF RestInv, Complete
<1>9. ASSUME NEW p \in Procs, Finish(p) \/ FileFails(p) \/ Crash(p) PROVE RestInv'
    <2>1. Ends(p) /\ UNCHANGED disk
        BY <1>9, Effects DEF Finish, FileFails, Crash
    <2>. QED
        BY <2>1, RestQuiet DEF Ends, Moves
<1>10. CASE UNCHANGED <<disk, call>>
    BY <1>10 DEF disk, RestInv, Complete
<1>11. CASE ClientPairs \/ (\E ca \in BOOLEAN : Expire(ca)) \/ UNCHANGED vars
    BY <1>10, <1>11 DEF ClientPairs, Expire, vars
<1>. QED
    BY <1>1, <1>2, <1>3, <1>4, <1>5, <1>6, <1>7, <1>8, <1>9, <1>11 DEF Next, Ensure

\* However calls of EnsureHostPKI overlap, fail or are cut off, the four files are
\* all there, or none, or a record can complete them once no call is under way.
THEOREM CompleteAtRestAlways == Spec => []CompleteAtRest
<1>1. Init => TypeInv /\ RestInv
    BY TypeInit, RestInit
<1>2. TypeInv /\ RestInv /\ [Next]_vars => (TypeInv /\ RestInv)'
    BY TypeStep, RestStep
<1>3. TypeInv => TypeOK
    BY DEF TypeInv, TypeOK, NumbersOK, CallOK, Pcs, Loaded, Complete
<1>4. TypeInv /\ RestInv => CompleteAtRest
    BY <1>3 DEF RestInv, CompleteAtRest, Complete
<1>. QED
    BY <1>1, <1>2, <1>4, PTL DEF Spec

-----------------------------------------------------------------------------
(* One authority *)

\* The authority that the host has: the record's, or else the file's.
Current == IF pending # None THEN pending["CACert"] ELSE file["CACert"]

\* An authority that is over.
Past(ca) == ca = None \/ ca <= oldCA

\* A call that creates an authority is alone.
AloneInv ==
    \A p \in Procs : call[p].fresh => \A q \in Procs \ {p} : call[q].pc = "idle"

\* What is in the files and in a call belongs to the current authority.
FilesInv ==
    /\ file["CACert"] = Current \/ Past(file["CACert"])
    /\ IF pending # None THEN pending["CAKey"] = Current ELSE file["CAKey"] = Current

\* It has still to be written.
Unwritten(c) == c.fresh /\ c.pc = "pending"

CallInv(c) ==
    /\ c.pc \in Loaded =>
          /\ c.pki["CAKey"] = c.pki["CACert"]
          /\ IF Unwritten(c) THEN Past(Current) ELSE c.pki["CACert"] = Current
    /\ c.pc = "read" => /\ c.k > 1 => c.pki["CACert"] = Current
                        /\ c.k > 2 => c.pki["CAKey"] = Current
    /\ \/ c.pc \in {"read", "missing", "rotate", "remove", "done"}
       \/ (c.pc = "pending" /\ ~c.fresh)
       => file["CACert"] = Current /\ file["CAKey"] = Current
    /\ c.pc = "commit" => /\ c.k > 1 => file["CACert"] = Current
                          /\ c.k > 2 => file["CAKey"] = Current
    /\ c.fresh => c.pc \in Loaded /\ c.then # "read"
    /\ c.pc = "pending" => c.then # "read"
    /\ c.fresh \/ c.pc = "done" \/ (c.pc \in {"pending", "commit", "remove"} /\ c.then = "done")
          => CAUsable(c.pki) /\ ServerUsable(c.pki)

\* The host that serves, and what clients know of it.
KnownInv ==
    /\ pinned # None => pinned = Current \/ Past(pinned)
    /\ shown # None => shown = Current \/ Past(shown)
    /\ serving # None => serving["CACert"] = Current \/ Past(serving["CACert"])

ServedInv ==
    serving # None =>
        /\ SignedByCA(serving)
        /\ serving["ServerCert"][2] > started
        /\ serving["CACert"] > oldCA \/ oldServer > started

AuthorityInv ==
    ~raced => AloneInv /\ FilesInv /\ (\A p \in Procs : CallInv(call[p])) /\ KnownInv /\ ServedInv

\* The four files are four.
LEMMA FourFiles == IsFiniteSet(Files) /\ Cardinality(Files) = 4
<1> DEFINE A == {"CACert"}
           B == A \cup {"CAKey"}
           C == B \cup {"ServerCert"}
           D == C \cup {"ServerKey"}
<1>1. IsFiniteSet(A) /\ Cardinality(A) = 1
    BY FS_Singleton
<1>2. IsFiniteSet(B) /\ Cardinality(B) = 2
    BY <1>1, FS_AddElement
<1>3. IsFiniteSet(C) /\ Cardinality(C) = 3
    BY <1>2, FS_AddElement
<1>4. IsFiniteSet(D) /\ Cardinality(D) = 4
    BY <1>3, FS_AddElement
<1>. QED
    BY <1>4, OrderFacts

\* A new identity is created for a host that has no file.
LEMMA NoneMissing == missingHostPKIFiles = 4 => file["CACert"] = None
<1> SUFFICES ASSUME missingHostPKIFiles = 4 PROVE file["CACert"] = None
    OBVIOUS
<1> DEFINE M == {f \in Files : file[f] = None}
<1>1. M = Files
    BY FourFiles, FS_Subset DEF missingHostPKIFiles
<1>. QED
    BY <1>1, OrderFacts

\* The parts of AuthorityInv hold initially.
LEMMA AuthorityInit == Init => AuthorityInv
BY OrderFacts DEF Init, AuthorityInv, AloneInv, FilesInv, CallInv, KnownInv, ServedInv,
       Current, Past, Unwritten, Idle, NoFiles, Loaded

\* A step of one call that leaves the files, the dates and what others know alone.
LEMMA AuthorityQuiet ==
    ASSUME AuthorityInv, ~raced, NEW p \in Procs, UNCHANGED <<disk, clock>>,
           \A q \in Procs \ {p} : call'[q] = call[q],
           AloneInv', CallInv(call[p])', KnownInv', ServedInv'
    PROVE  AuthorityInv'
<1>1. Current' = Current
    BY DEF Current, disk
<1>2. FilesInv'
    BY <1>1 DEF AuthorityInv, FilesInv, Past, disk, clock
<1>3. ASSUME NEW q \in Procs PROVE CallInv(call[q])'
    <2>1. CASE q = p
        BY <2>1
    <2>2. CASE q # p
        <3>1. call'[q] = call[q] /\ CallInv(call[q])
            BY <2>2 DEF AuthorityInv
        <3>. QED
            BY <1>1, <3>1 DEF CallInv, Unwritten, Past, disk, clock, CAUsable, ServerUsable,
               ServerPairFits, SignedByCA
    <2>. QED
        BY <2>1, <2>2
<1>. QED
    BY <1>2, <1>3 DEF AuthorityInv

\* What is known stays so while the files and the dates do.
LEMMA KnownQuiet ==
    ASSUME AuthorityInv, ~raced, UNCHANGED <<disk, clock, serving, started, shown, pinned>>
    PROVE  KnownInv' /\ ServedInv'
BY DEF AuthorityInv, KnownInv, ServedInv, Current, Past, disk, clock, SignedByCA

\* A step of a call that is under way leaves a creating call alone.
LEMMA StillAlone ==
    ASSUME TypeInv, AuthorityInv, ~raced, NEW p \in Procs, call[p].pc # "idle",
           \A q \in Procs \ {p} : call'[q] = call[q],
           call'[p].fresh => call[p].fresh
    PROVE  AloneInv'
<1>1. \A q \in Procs : call[q].fresh => \A r \in Procs \ {q} : call[r].pc = "idle"
    BY DEF AuthorityInv, AloneInv
<1>2. \A q \in Procs \ {p} : ~call[q].fresh
    BY <1>1
<1>. QED
    BY <1>1, <1>2 DEF AloneInv

\* Beginning a call, reading the files, and giving up.
LEMMA AuthorityRead ==
    ASSUME TypeInv, AuthorityInv, ~raced, ~raced', NEW p \in Procs,
           Begin(p) \/ RecoverRead(p) \/ ReadFile(p) \/ FileFails(p) \/ Crash(p)
    PROVE  AuthorityInv'
<1> USE OrderFacts
<1>0. /\ CallInv(call[p]) /\ CallOK(call[p], authorities, servers) /\ FilesInv /\ AloneInv
      /\ call[p].k \in 1..4
    BY DEF AuthorityInv, TypeInv, CallOK
<1>1. UNCHANGED <<disk, clock>> /\ Current' = Current
    BY DEF Begin, RecoverRead, ReadFile, FileFails, Crash, Unmoved, Current, disk
<1>2. KnownInv' /\ ServedInv'
    <2>1. CASE Crash(p)
        BY <2>1, <1>1 DEF Crash, AuthorityInv, KnownInv, ServedInv, Past, clock, SignedByCA
    <2>2. CASE ~Crash(p)
        <3>1. UNCHANGED <<serving, started, shown, pinned>>
            BY <2>2 DEF Begin, RecoverRead, ReadFile, FileFails, Unmoved
        <3>. QED
            BY <1>1, <3>1, KnownQuiet
    <2>. QED
        BY <2>1, <2>2
<1>3. CASE Begin(p)
    <2>1. MovesTo(p, "recover") /\ (\A q \in Procs : ~call[q].fresh)
        BY <1>3, Effects DEF Begin
    <2>2. AloneInv'
        BY <2>1 DEF MovesTo, Moves, AloneInv
    <2>3. CallInv(call[p])'
        BY <2>1 DEF MovesTo, Moves, CallInv, Loaded
    <2>. QED
        BY <1>1, <1>2, <2>1, <2>2, <2>3, AuthorityQuiet DEF MovesTo, Moves
<1>4. CASE RecoverRead(p)
    <2>1. /\ call[p].pc = "recover" /\ ~call[p].fresh
          /\ IF pending = None THEN MovesTo(p, "read")
             ELSE Moves(p, "commit", 1, pending, "read", call[p].fresh)
        BY <1>0, <1>4, Effects DEF RecoverRead, At, CallInv, Loaded
    <2>2. AloneInv' /\ \A q \in Procs \ {p} : call'[q] = call[q]
        BY <2>1, StillAlone DEF MovesTo, Moves
    <2>3. CallInv(call[p])'
        <3>1. CASE pending = None
            <4>1. file["CACert"] = Current /\ file["CAKey"] = Current
                BY <3>1, <1>0 DEF FilesInv, Current
            <4>. QED
                BY <2>1, <3>1, <4>1, <1>1 DEF MovesTo, Moves, CallInv, Loaded, disk
        <3>2. CASE pending # None
            BY <2>1, <3>2, <1>0, <1>1
            DEF Moves, CallInv, Unwritten, Loaded, FilesInv, Current, disk
        <3>. QED
            BY <3>1, <3>2
    <2>. QED
        BY <1>1, <1>2, <2>2, <2>3, AuthorityQuiet
<1>5. CASE ReadFile(p)
    <2> DEFINE k == call[p].k
               f == Order[k]
               pki == [call[p].pki EXCEPT ![f] = file[f]]
    <2>1. /\ call[p].pc = "read" /\ ~call[p].fresh
          /\ IF file[f] = None THEN MovesTo(p, "missing") ELSE Advance(p, pki, "read", "rotate")
        BY <1>0, <1>5, Effects DEF ReadFile, At, CallInv, Loaded
    <2>2. AloneInv' /\ \A q \in Procs \ {p} : call'[q] = call[q]
        BY <2>1, StillAlone DEF MovesTo, Advance, Moves
    <2>3. file["CACert"] = Current /\ file["CAKey"] = Current
        BY <2>1, <1>0 DEF CallInv
    <2>4. CallInv(call[p])'
        <3>1. CASE file[f] = None
            BY <3>1, <2>1, <2>3, <1>1 DEF MovesTo, Moves, CallInv, Loaded, disk
        <3>2. CASE file[f] # None
            <4>1. \A g \in Files : pki[g] = IF g = f THEN file[f] ELSE call[p].pki[g]
                BY <1>0 DEF CallOK, IsPKI
            <4>2. /\ pki["CACert"] = Current
                  /\ k > 1 => pki["CAKey"] = Current
                BY <4>1, <1>0, <2>1, <2>3 DEF CallInv
            <4>3. CASE k = 4
                <5>1. call'[p].pc = "rotate" /\ call'[p].pki = pki /\ ~call'[p].fresh
                    BY <3>2, <4>3, <2>1 DEF Advance, Moves
                <5>. QED
                    BY <4>2, <4>3, <5>1, <2>3, <1>1 DEF CallInv, Unwritten, disk
            <4>4. CASE k # 4
                <5>1. /\ call'[p].pc = "read" /\ call'[p].pki = pki /\ ~call'[p].fresh
                      /\ call'[p].k = k + 1
                    BY <3>2, <4>4, <2>1 DEF Advance, Moves
                <5>. QED
                    BY <4>2, <5>1, <2>3, <1>0, <1>1 DEF CallInv, Loaded, disk
            <4>. QED
                BY <4>3, <4>4
        <3>. QED
            BY <3>1, <3>2
    <2>. QED
        BY <1>1, <1>2, <2>2, <2>4, AuthorityQuiet
<1>6. CASE FileFails(p) \/ Crash(p)
    <2>1. Ends(p)
        BY <1>6, Effects DEF FileFails, Crash
    <2>2. AloneInv'
        BY <2>1, <1>0 DEF Ends, Moves, AloneInv
    <2>3. CallInv(call[p])'
        BY <2>1 DEF Ends, Moves, CallInv, Loaded
    <2>. QED
        BY <1>1, <1>2, <2>1, <2>2, <2>3, AuthorityQuiet DEF Ends, Moves
<1>. QED
    BY <1>3, <1>4, <1>5, <1>6

\* Creating an authority, and a server certificate for the one there is.
LEMMA AuthorityRotate ==
    ASSUME TypeInv, AuthorityInv, ~raced, ~raced', NEW p \in Procs,
           LoadMissing(p) \/ Rotate(p)
    PROVE  AuthorityInv'
<1> USE OrderFacts
<1> DEFINE pki == call[p].pki
<1>0. /\ CallInv(call[p]) /\ CallOK(call[p], authorities, servers) /\ FilesInv /\ AloneInv
      /\ call[p].k \in 1..4 /\ NumbersOK
    BY DEF AuthorityInv, TypeInv, CallOK
<1>1. /\ UNCHANGED <<disk, clock>> /\ Current' = Current /\ Unmoved
      /\ call[p].pc \in {"missing", "rotate"}
    BY DEF LoadMissing, Rotate, Unmoved, Current, disk, At
<1>2. KnownInv' /\ ServedInv'
    BY <1>1, KnownQuiet DEF Unmoved
<1>3. file["CACert"] = Current /\ file["CAKey"] = Current
    BY <1>0, <1>1 DEF CallInv
<1>4. ASSUME NEW then \in {"rotate", "done"}, Create(p, then), Past(Current)
      PROVE  AuthorityInv'
    <2>1. Creates(p, then) /\ \A q \in Procs \ {p} : call[q].pc = "idle"
        BY <1>4, Effects DEF Create, Active
    <2>2. AloneInv'
        <3>1. \A q \in Procs \ {p} : ~call'[q].fresh /\ call'[q].pc = "idle"
            BY <2>1 DEF Creates, Moves, TypeInv, CallOK, Idle
        <3>. QED
            BY <3>1 DEF AloneInv
    <2>3. /\ call'[p].pc = "pending" /\ call'[p].fresh /\ call'[p].then = then
          /\ call'[p].pki["CACert"] = authorities + 1
          /\ call'[p].pki["CAKey"] = authorities + 1
          /\ call'[p].pki["ServerCert"] = <<authorities + 1, servers + 1>>
          /\ call'[p].pki["ServerKey"] = <<authorities + 1, servers + 1>>
        BY <2>1 DEF Creates, Moves, FreshPKI
    <2>4. authorities + 1 > oldCA' /\ servers + 1 > oldServer'
        BY <1>0, <1>1 DEF NumbersOK, clock
    <2>5. CAUsable(call[p].pki)' /\ ServerUsable(call[p].pki)'
        BY <2>3, <2>4 DEF CAUsable, ServerUsable, ServerPairFits, SignedByCA
    <2>6. Past(Current)'
        BY <1>4, <1>1 DEF Past, clock
    <2>7. CallInv(call[p])'
        BY <2>3, <2>5, <2>6 DEF CallInv, Unwritten, Loaded
    <2>. QED
        BY <1>1, <1>2, <2>1, <2>2, <2>7, AuthorityQuiet DEF Creates, Moves
<1>5. CASE LoadMissing(p)
    <2>1. CASE missingHostPKIFiles = 4
        <3>1. Past(Current)
            BY <1>3, <2>1, NoneMissing DEF Past
        <3>. QED
            BY <1>4, <1>5, <2>1, <3>1 DEF LoadMissing
    <2>2. CASE missingHostPKIFiles # 4
        <3>1. Ends(p)
            BY <1>5, <2>2, Effects DEF LoadMissing
        <3>2. AloneInv'
            BY <3>1, <1>0 DEF Ends, Moves, AloneInv
        <3>3. CallInv(call[p])'
            BY <3>1 DEF Ends, Moves, CallInv, Loaded
        <3>. QED
            BY <1>1, <1>2, <3>1, <3>2, <3>3, AuthorityQuiet DEF Ends, Moves
    <2>. QED
        BY <2>1, <2>2
<1>6. CASE Rotate(p)
    <2>1. /\ pki["CACert"] = Current /\ pki["CAKey"] = Current
          /\ pki["CACert"] \in 1..authorities
          /\ call[p].pc = "rotate" /\ IsPKI(pki, authorities, servers)
        BY <1>0, <1>6 DEF Rotate, At, CallInv, Unwritten, Loaded, CallOK, Complete, IsPKI
    <2>2. CASE ~CAUsable(pki) /\ Create(p, "done")
        <3>1. Past(Current)
            BY <2>1, <2>2, <1>0 DEF CAUsable, Past, NumbersOK
        <3>. QED
            BY <1>4, <2>2, <3>1
    <2>3. CASE CAUsable(pki) /\ ServerUsable(pki) /\ MovesTo(p, "done")
        <3>1. /\ call'[p].pc = "done" /\ call'[p].pki = pki /\ call'[p].then = call[p].then
              /\ call'[p].fresh = call[p].fresh
              /\ \A q \in Procs \ {p} : call'[q] = call[q]
            BY <2>3 DEF MovesTo, Moves
        <3>2. AloneInv'
            BY <2>1, <3>1, StillAlone
        <3>3. CAUsable(call[p].pki)' /\ ServerUsable(call[p].pki)'
            BY <2>3, <3>1, <1>1
            DEF CAUsable, ServerUsable, ServerPairFits, SignedByCA, clock
        <3>4. CallInv(call[p])'
            BY <3>1, <3>3, <2>1, <1>0, <1>1, <1>3 DEF CallInv, Unwritten, Loaded, disk
        <3>. QED
            BY <1>1, <1>2, <3>1, <3>2, <3>4, AuthorityQuiet
    <2>4. CASE CAUsable(pki) /\ ~ServerUsable(pki) /\ Renews(p)
        <3>1. /\ call'[p].pc = "pending" /\ call'[p].pki = FreshServer(pki)
              /\ call'[p].then = "done" /\ call'[p].fresh = call[p].fresh
              /\ \A q \in Procs \ {p} : call'[q] = call[q]
            BY <2>4 DEF Renews, Moves
        <3>2. AloneInv'
            BY <2>1, <3>1, StillAlone
        <3>3. /\ call'[p].pki["CACert"] = pki["CACert"]
              /\ call'[p].pki["CAKey"] = pki["CAKey"]
              /\ call'[p].pki["ServerCert"] = <<pki["CACert"], servers + 1>>
              /\ call'[p].pki["ServerKey"] = <<pki["CACert"], servers + 1>>
            BY <2>1, <3>1 DEF FreshServer, IsPKI
        <3>4. servers + 1 > oldServer'
            BY <1>0, <1>1 DEF NumbersOK, clock
        <3>5. CAUsable(call[p].pki)' /\ ServerUsable(call[p].pki)'
            BY <2>4, <3>3, <3>4, <1>1
            DEF CAUsable, ServerUsable, ServerPairFits, SignedByCA, clock
        <3>6. ~call'[p].fresh
            BY <1>0, <2>4, <3>1 DEF CallInv
        <3>7. CallInv(call[p])'
            BY <3>1, <3>3, <3>5, <3>6, <2>1, <1>1, <1>3
            DEF CallInv, Unwritten, Loaded, disk
        <3>. QED
            BY <1>1, <1>2, <3>1, <3>2, <3>7, AuthorityQuiet
    <2>. QED
        BY <1>6, <2>2, <2>3, <2>4, Effects
<1>. QED
    BY <1>5, <1>6

\* Writing the record, the files, and removing the record.
LEMMA AuthorityWrite ==
    ASSUME TypeInv, RestInv, AuthorityInv, ~raced, ~raced', NEW p \in Procs,
           WritePending(p) \/ CommitFile(p) \/ RemovePending(p)
    PROVE  AuthorityInv'
<1> USE OrderFacts
<1> DEFINE pki == call[p].pki
<1>0. /\ CallInv(call[p]) /\ CallOK(call[p], authorities, servers)
      /\ FilesInv /\ AloneInv /\ KnownInv /\ ServedInv
      /\ call[p].k \in 1..4 /\ NumbersOK
      /\ pki["CAKey"] = pki["CACert"] /\ pki # None /\ call[p].pc # "idle"
    <2>1. call[p].pc \in {"pending", "commit", "remove"}
        BY DEF WritePending, CommitFile, RemovePending, At
    <2>2. pki # None
        BY PKINotNone DEF TypeInv, NumbersOK, CallOK
    <2>. QED
        BY <2>1, <2>2 DEF AuthorityInv, TypeInv, CallOK, CallInv, Loaded
<1>1. UNCHANGED <<clock, serving, started, shown, pinned>>
    BY DEF WritePending, CommitFile, RemovePending, Unmoved
<1>2. ServedInv'
    BY <1>0, <1>1 DEF ServedInv, SignedByCA, clock
<1>3. ASSUME Current' = Current, AloneInv', CallInv(call[p])',
             file["CACert"] = Current => file'["CACert"] = Current,
             file["CAKey"] = Current => file'["CAKey"] = Current,
             file'["CACert"] \in {file["CACert"], Current}, FilesInv',
             \A q \in Procs \ {p} : call'[q] = call[q]
      PROVE  AuthorityInv'
    <2>1. KnownInv'
        BY <1>0, <1>1, <1>3 DEF KnownInv, Past, clock
    <2>2. ASSUME NEW q \in Procs \ {p} PROVE CallInv(call[q])'
        <3>1. call'[q] = call[q] /\ CallInv(call[q])
            BY <1>3 DEF AuthorityInv
        <3>. QED
            BY <1>1, <1>3, <3>1 DEF CallInv, Unwritten, Past, clock, CAUsable, ServerUsable,
               ServerPairFits, SignedByCA
    <2>. QED
        BY <1>2, <1>3, <2>1, <2>2 DEF AuthorityInv
<1>u. CAUsable(pki) /\ ServerUsable(pki) /\ call'[p].pki = pki
        => CAUsable(call[p].pki)' /\ ServerUsable(call[p].pki)'
    BY <1>1 DEF CAUsable, ServerUsable, ServerPairFits, SignedByCA, clock
<1>4. CASE WritePending(p)
    <2>1. /\ MovesTo(p, "commit") /\ pending' = pki /\ UNCHANGED file
          /\ call[p].pc = "pending"
        BY <1>4, Effects DEF WritePending, At
    <2>2. Current' = pki["CACert"] /\ pending' # None
        BY <2>1, <1>0 DEF Current
    <2>3. AloneInv' /\ \A q \in Procs \ {p} : call'[q] = call[q]
        BY <2>1, <1>0, StillAlone DEF MovesTo, Moves
    <2>4. /\ call'[p].pc = "commit" /\ call'[p].k = 1 /\ call'[p].pki = pki
          /\ call'[p].then = call[p].then /\ call'[p].fresh = call[p].fresh
        BY <2>1 DEF MovesTo, Moves
    <2>5. CallInv(call[p])'
        BY <2>1, <2>2, <2>4, <1>0, <1>u DEF CallInv, Unwritten, Loaded
    <2>6. CASE call[p].fresh
        <3>1. Past(Current)
            BY <2>1, <2>6, <1>0 DEF CallInv, Unwritten, Loaded
        <3>2. \A q \in Procs \ {p} : call'[q].pc = "idle" /\ ~call'[q].fresh
            BY <2>3, <2>6, <1>0 DEF AloneInv, TypeInv, CallOK, Idle
        <3>3. \A q \in Procs : CallInv(call[q])'
            BY <2>5, <3>2 DEF CallInv, Loaded
        <3>4. FilesInv'
            BY <3>1, <2>1, <2>2, <1>0, <1>1 DEF FilesInv, Past, clock
        <3>5. KnownInv'
            BY <3>1, <1>0, <1>1 DEF KnownInv, Past, clock
        <3>. QED
            BY <2>3, <3>3, <3>4, <3>5, <1>2 DEF AuthorityInv
    <2>7. CASE ~call[p].fresh
        <3>1. Current' = Current
            BY <2>1, <2>2, <2>7, <1>0 DEF CallInv, Unwritten, Loaded
        <3>2. FilesInv'
            BY <3>1, <2>1, <2>2, <1>0, <1>1 DEF FilesInv, Past, clock
        <3>. QED
            BY <1>3, <2>1, <2>3, <2>5, <3>1, <3>2
    <2>. QED
        BY <2>6, <2>7
<1>5. CASE CommitFile(p)
    <2> DEFINE k == call[p].k
    <2>1. /\ Advance(p, pki, "commit", "remove")
          /\ file' = [file EXCEPT ![Order[k]] = pki[Order[k]]]
          /\ call[p].pc = "commit" /\ UNCHANGED pending
        BY <1>5, Effects DEF CommitFile, At
    <2>2. AloneInv' /\ \A q \in Procs \ {p} : call'[q] = call[q]
        BY <2>1, <1>0, StillAlone DEF Advance, Moves
    <2>3. pki["CACert"] = Current /\ pki["CAKey"] = Current
        BY <2>1, <1>0 DEF CallInv, Unwritten, Loaded
    <2>4. /\ file'["CACert"] = IF k = 1 THEN Current ELSE file["CACert"]
          /\ file'["CAKey"] = IF k = 2 THEN Current ELSE file["CAKey"]
        BY <2>1, <2>3, <1>0 DEF TypeInv, IsPKI
    <2>5. Current' = Current
        BY <2>1, <2>4 DEF Current
    <2>6. FilesInv'
        BY <2>1, <2>4, <2>5, <1>0, <1>1 DEF FilesInv, Past, clock
    <2>7. /\ call'[p].pc = IF k = 4 THEN "remove" ELSE "commit"
          /\ call'[p].k = IF k = 4 THEN 1 ELSE k + 1
          /\ call'[p].pki = pki
          /\ call'[p].then = call[p].then /\ call'[p].fresh = call[p].fresh
        BY <2>1 DEF Advance, Moves
    <2>8. /\ k > 1 => file["CACert"] = Current
          /\ k > 2 => file["CAKey"] = Current
        BY <2>1, <1>0 DEF CallInv
    <2>9. CallInv(call[p])'
        <3>1. call'[p].pc \in {"commit", "remove"}
            BY <2>7
        <3>2. call'[p].fresh \/ call'[p].then = "done"
                => CAUsable(call[p].pki)' /\ ServerUsable(call[p].pki)'
            BY <2>1, <2>7, <1>0, <1>u DEF CallInv
        <3>3. CASE k = 4
            BY <3>2, <3>3, <2>1, <2>3, <2>4, <2>5, <2>7, <2>8, <1>0
            DEF CallInv, Unwritten, Loaded
        <3>4. CASE k # 4
            BY <3>2, <3>4, <2>1, <2>3, <2>4, <2>5, <2>7, <2>8, <1>0
            DEF CallInv, Unwritten, Loaded
        <3>. QED
            BY <3>3, <3>4
    <2>. QED
        BY <1>3, <2>2, <2>4, <2>5, <2>6, <2>9
<1>6. CASE RemovePending(p)
    <2>1. /\ pending' = None /\ UNCHANGED file /\ call[p].pc = "remove"
          /\ Ends(p) \/ MovesTo(p, call[p].then)
        BY <1>6, Effects DEF RemovePending, At
    <2>2. file["CACert"] = Current /\ file["CAKey"] = Current
        BY <2>1, <1>0 DEF CallInv
    <2>3. Current' = Current
        BY <2>1, <2>2 DEF Current
    <2>4. FilesInv'
        BY <2>1, <2>2, <2>3 DEF FilesInv
    <2>5. AloneInv' /\ \A q \in Procs \ {p} : call'[q] = call[q]
        BY <2>1, <1>0, StillAlone DEF Ends, MovesTo, Moves
    <2>6. CallInv(call[p])'
        <3>1. CASE Ends(p)
            BY <3>1 DEF Ends, Moves, CallInv, Loaded
        <3>2. CASE MovesTo(p, call[p].then)
            <4>1. /\ call'[p].pc = call[p].then /\ call'[p].k = 1 /\ call'[p].pki = pki
                  /\ call'[p].then = call[p].then /\ call'[p].fresh = call[p].fresh
                  /\ call[p].then \in {"read", "rotate", "done"}
                BY <3>2, <1>0 DEF MovesTo, Moves, CallOK
            <4>2. pki["CACert"] = Current
                BY <2>1, <1>0 DEF CallInv, Unwritten, Loaded
            <4>3. call[p].fresh \/ call[p].then = "done"
                    => CAUsable(call[p].pki)' /\ ServerUsable(call[p].pki)'
                BY <2>1, <4>1, <1>0, <1>u DEF CallInv
            <4>. QED
                BY <4>1, <4>2, <4>3, <2>1, <2>2, <2>3, <1>0 DEF CallInv, Unwritten, Loaded
        <3>. QED
            BY <2>1, <3>1, <3>2
    <2>. QED
        BY <1>3, <2>1, <2>3, <2>4, <2>5, <2>6
<1>. QED
    BY <1>4, <1>5, <1>6

\* Returning from EnsureHostPKI.
LEMMA AuthorityFinish ==
    ASSUME TypeInv, AuthorityInv, ~raced, NEW p \in Procs, Finish(p)
    PROVE  AuthorityInv'
<1> DEFINE pki == call[p].pki
<1>1. /\ Ends(p) /\ UNCHANGED <<disk, clock, pinned>> /\ call[p].pc = "done"
      /\ Current' = Current
    BY Effects DEF Finish, At, Current, disk
<1>2. CallInv(call[p]) /\ NumbersOK /\ AloneInv /\ KnownInv /\ ServedInv
    BY DEF AuthorityInv, TypeInv
<1>3. pki["CACert"] = Current /\ CAUsable(pki) /\ ServerUsable(pki)
    BY <1>1, <1>2 DEF CallInv, Unwritten, Loaded
<1>4. KnownInv'
    BY <1>1, <1>2, <1>3 DEF Finish, KnownInv, Past, clock
<1>5. ServedInv'
    BY <1>1, <1>2, <1>3
    DEF Finish, ServedInv, CAUsable, ServerUsable, ServerPairFits, SignedByCA, clock
<1>6. AloneInv'
    BY <1>1, <1>2 DEF Ends, Moves, AloneInv
<1>7. CallInv(call[p])'
    BY <1>1 DEF Ends, Moves, CallInv, Loaded
<1>. QED
    BY <1>1, <1>4, <1>5, <1>6, <1>7, AuthorityQuiet DEF Ends, Moves

\* Certificates expire.
LEMMA AuthorityExpire ==
    ASSUME TypeInv, AuthorityInv, ~raced, NEW ca \in BOOLEAN, Expire(ca)
    PROVE  AuthorityInv'
<1>1. /\ UNCHANGED <<disk, call, serving, started, shown, pinned>> /\ Current' = Current
      /\ oldServer' = servers /\ oldCA' = IF ca THEN authorities ELSE oldCA
      /\ \A p \in Procs : call[p].pc = "idle"
    BY DEF Expire, Active, Current, disk
<1>2. AloneInv /\ FilesInv /\ KnownInv /\ ServedInv /\ NumbersOK
    BY DEF AuthorityInv, TypeInv
<1>3. oldCA' >= oldCA /\ {oldCA, oldCA'} \subseteq Nat
    BY <1>1, <1>2 DEF NumbersOK
<1>4. /\ file["CACert"] # None => file["CACert"] \in Nat
      /\ pinned # None => pinned \in Nat
      /\ shown # None => shown \in Nat
      /\ serving # None => /\ serving["CACert"] \in Nat
                           /\ serving["ServerCert"][2] \in 1..servers
    BY OrderFacts DEF TypeInv, IsPKI, Complete
<1>5. FilesInv'
    BY <1>1, <1>2, <1>3, <1>4 DEF FilesInv, Past, disk
<1>6. KnownInv'
    BY <1>1, <1>2, <1>3, <1>4 DEF KnownInv, Past
<1>7. ServedInv'
    BY <1>1, <1>2, <1>4 DEF ServedInv, NumbersOK, SignedByCA
<1>8. \A p \in Procs : CallInv(call[p])'
    BY <1>1 DEF CallInv, Loaded, TypeInv, CallOK, Idle
<1>. QED
    BY <1>1, <1>2, <1>5, <1>6, <1>7, <1>8 DEF AuthorityInv, AloneInv

\* Every step keeps AuthorityInv.
LEMMA AuthorityStep == TypeInv /\ RestInv /\ AuthorityInv /\ [Next]_vars => AuthorityInv'
<1> SUFFICES ASSUME TypeInv, RestInv, AuthorityInv, [Next]_vars, ~raced' PROVE AuthorityInv'
    BY DEF AuthorityInv
<1>1. ~raced
    BY DEF Next, Begin, Ensure, RecoverRead, ReadFile, LoadMissing, Rotate, WritePending,
           CommitFile, RemovePending, Finish, FileFails, Crash, Create, ClientPairs,
           Expire, vars
<1>2. ASSUME NEW p \in Procs, Begin(p) \/ Ensure(p) \/ FileFails(p) \/ Crash(p)
      PROVE  AuthorityInv'
    BY <1>1, <1>2, AuthorityRead, AuthorityRotate, AuthorityWrite, AuthorityFinish DEF Ensure
<1>3. CASE ClientPairs
    <2>1. /\ UNCHANGED <<disk, clock, call, serving, started, shown>>
          /\ serving # None /\ pinned' = serving["CACert"]
        BY <1>3 DEF ClientPairs
    <2>2. KnownInv'
        BY <2>1, <1>1 DEF AuthorityInv, KnownInv, Current, Past, disk, clock
    <2>3. ServedInv'
        BY <2>1, <1>1 DEF AuthorityInv, ServedInv, SignedByCA, clock
    <2>4. AloneInv' /\ CallInv(call["host"])'
        BY <2>1, <1>1
        DEF AuthorityInv, AloneInv, CallInv, Procs, Current, Unwritten, Past, disk, clock,
            CAUsable, ServerUsable, ServerPairFits, SignedByCA
    <2>. QED
        BY <2>1, <2>2, <2>3, <2>4, <1>1, AuthorityQuiet DEF Procs
<1>4. ASSUME NEW ca \in BOOLEAN, Expire(ca) PROVE AuthorityInv'
    BY <1>1, <1>4, AuthorityExpire
<1>5. CASE UNCHANGED vars
    BY <1>5
    DEF vars, AuthorityInv, AloneInv, FilesInv, CallInv, KnownInv, ServedInv, Current, Past,
        Unwritten, disk, clock, CAUsable, ServerUsable, ServerPairFits, SignedByCA
<1>. QED
    BY <1>2, <1>3, <1>4, <1>5 DEF Next

\* The three together are inductive.
LEMMA IdentityInvariant == Spec => [](TypeInv /\ RestInv /\ AuthorityInv)
<1>1. Init => TypeInv /\ RestInv /\ AuthorityInv
    BY TypeInit, RestInit, AuthorityInit
<1>2. TypeInv /\ RestInv /\ AuthorityInv /\ [Next]_vars
        => (TypeInv /\ RestInv /\ AuthorityInv)'
    BY TypeStep, RestStep, AuthorityStep
<1>. QED
    BY <1>1, <1>2, PTL DEF Spec

\* The authority in the files is replaced only when it has expired, unless one was
\* created while another call of EnsureHostPKI was under way.
THEOREM IdentityKeptAlways == Spec => IdentityKept
<1> DEFINE Kept == file["CACert"] # None /\ file'["CACert"] # file["CACert"]
                      => raced \/ file["CACert"] <= oldCA
<1>1. TypeInv /\ AuthorityInv /\ [Next]_vars => [Kept]_vars
    <2> SUFFICES ASSUME TypeInv, AuthorityInv, Next, ~raced,
                        file["CACert"] # None, file'["CACert"] # file["CACert"]
                 PROVE  file["CACert"] <= oldCA
        OBVIOUS
    <2>1. PICK p \in Procs : CommitFile(p)
        BY DEF Next, Begin, Ensure, RecoverRead, ReadFile, LoadMissing, Rotate, WritePending,
               RemovePending, Finish, FileFails, Crash, ClientPairs, Expire, disk
    <2>2. CallInv(call[p]) /\ FilesInv /\ call[p].pc = "commit" /\ call[p].k \in 1..4
        BY <2>1 DEF AuthorityInv, TypeInv, CallOK, CommitFile, At
    <2>3. call[p].pki["CACert"] = Current
        BY <2>2 DEF CallInv, Unwritten, Loaded
    <2>4. file'["CACert"] = Current
        BY <2>1, <2>2, <2>3, OrderFacts DEF CommitFile, TypeInv, IsPKI
    <2>. QED
        BY <2>2, <2>4 DEF FilesInv, Past
<1>. QED
    BY <1>1, IdentityInvariant, PTL DEF Spec, IdentityKept

\* The certificates that a host serves with belong together and to the authority
\* that its paired clients know, and so does the fingerprint it gives out.
THEOREM PinnedHostAcceptedAlways == Spec => []PinnedHostAccepted
<1>1. TypeInv /\ AuthorityInv => PinnedHostAccepted
    <2> SUFFICES ASSUME TypeInv, AuthorityInv, serving # None, ~raced
                 PROVE  /\ pinned # None => \/ Accepts(serving, pinned)
                                            \/ pinned <= oldCA
                                            \/ oldServer > started
                        /\ shown # None => \/ shown = serving["CACert"]
                                           \/ shown <= oldCA \/ serving["CACert"] <= oldCA
        BY DEF PinnedHostAccepted
    <2>1. KnownInv /\ ServedInv /\ NumbersOK
        BY DEF AuthorityInv, TypeInv
    <2>2. serving["CACert"] \in Nat /\ serving["ServerCert"][2] \in 1..servers
        BY OrderFacts DEF TypeInv, IsPKI, Complete, NumbersOK
    <2>3. serving["CACert"] # None
        BY <2>2, HostIdentityAssumption
    <2>. QED
        BY <2>1, <2>2, <2>3 DEF KnownInv, ServedInv, Past, NumbersOK, Accepts
<1>. QED
    BY <1>1, IdentityInvariant, PTL

-----------------------------------------------------------------------------
(* HostUpdate: the updates of the same host, with their own state.           *)

(***************************************************************************)
(* Types, and which states of a client and of its request go together.     *)
(***************************************************************************)

\* updateMu is held exactly while a request is served, and until it is answered its
\* client waits for the answer.
HolderInv ==
    /\ step = "idle" <=> holder = Nothing
    /\ step \in {"check", "begin", "wait", "answer"} => pc[holder] = "requested"

\* A conjunction of UpdateTypeOK and HolderInv that every step keeps.
UpdateShape == UpdateTypeOK /\ HolderInv

\* UpdateShape holds initially.
LEMMA UpdateShapeInit == UpdateInit => UpdateShape
<1> SUFFICES ASSUME UpdateInit PROVE UpdateShape
    OBVIOUS
<1>1. acceptFailed \in BOOLEAN
    BY DEF UpdateInit
<1>. QED
    BY <1>1, VersionAssumption, NothingAssumption
    DEF UpdateInit, UpdateShape, UpdateTypeOK, HolderInv, Versions, Connected

\* Every step keeps UpdateShape.
LEMMA UpdateShapeStep == UpdateShape /\ [UpdateNext]_updateVars => UpdateShape'
<1> SUFFICES ASSUME UpdateShape, [UpdateNext]_updateVars PROVE UpdateShape'
    OBVIOUS
<1> USE NothingAssumption DEF UpdateShape, UpdateTypeOK, HolderInv, Connected, SetPc,
            hostVars, jobVars, clientVars
<1>1. ASSUME NEW c \in Clients, NEW v \in Versions, Invoke(c, v) PROVE UpdateShape'
    BY <1>1 DEF Invoke
<1>2. ASSUME NEW c \in Clients, Ping(c) PROVE UpdateShape'
    BY <1>2 DEF Ping
<1>3. ASSUME NEW c \in Clients, Request(c) PROVE UpdateShape'
    BY <1>3 DEF Request
<1>4. ASSUME NEW c \in Clients, GiveUp(c) PROVE UpdateShape'
    BY <1>4, VersionAssumption DEF GiveUp, Versions
<1>5. ASSUME NEW c \in Clients, SeeUpdate(c) PROVE UpdateShape'
    BY <1>5, VersionAssumption DEF SeeUpdate, Versions
<1>6. ASSUME NEW c \in Clients, StartRun(c) PROVE UpdateShape'
    BY <1>6 DEF StartRun
<1>7. ASSUME NEW c \in Clients, RefuseRun(c) PROVE UpdateShape'
    BY <1>7 DEF RefuseRun
<1>8. ASSUME NEW c \in Clients, EndRun(c) PROVE UpdateShape'
    BY <1>8 DEF EndRun
<1>9. ASSUME NEW c \in Clients, Lock(c) PROVE UpdateShape'
    BY <1>9 DEF Lock
<1>10. ASSUME TellPending PROVE UpdateShape'
    BY <1>10 DEF TellPending, Release
<1>11. ASSUME TellCurrent PROVE UpdateShape'
    BY <1>11 DEF TellCurrent, Release
<1>12. ASSUME Install PROVE UpdateShape'
    BY <1>12 DEF Install
<1>13. ASSUME InstallFails PROVE UpdateShape'
    BY <1>13 DEF InstallFails, FailRequest, Release
<1>14. ASSUME BeginRestart PROVE UpdateShape'
    BY <1>14 DEF BeginRestart
<1>15. ASSUME RunsEnded PROVE UpdateShape'
    BY <1>15 DEF RunsEnded
<1>16. ASSUME CancelRestart PROVE UpdateShape'
    BY <1>16 DEF CancelRestart, FailRequest, Release
<1>17. ASSUME Answer PROVE UpdateShape'
    BY <1>17 DEF Answer
<1>18. ASSUME FinishRestart PROVE UpdateShape'
    BY <1>18 DEF FinishRestart, Release
<1>19. ASSUME ServeReturns PROVE UpdateShape'
    BY <1>19 DEF ServeReturns
<1>20. ASSUME Restart PROVE UpdateShape'
    BY <1>20 DEF Restart, EndProcess, Release
<1>21. ASSUME RestartFails PROVE UpdateShape'
    BY <1>21 DEF RestartFails, EndProcess, Release
<1>22. ASSUME Prune PROVE UpdateShape'
    BY <1>22 DEF Prune
<1>23. ASSUME UNCHANGED updateVars PROVE UpdateShape'
    BY <1>23 DEF updateVars
<1> HIDE DEF UpdateShape, UpdateTypeOK, HolderInv, Connected, hostVars, jobVars, clientVars
<1>. QED
    BY <1>1, <1>2, <1>3, <1>4, <1>5, <1>6, <1>7, <1>8, <1>9, <1>10, <1>11, <1>12, <1>13,
       <1>14, <1>15, <1>16, <1>17, <1>18, <1>19, <1>20, <1>21, <1>22, <1>23
    DEF UpdateNext, Client, Handle, Process

\* UpdateShape is an invariant.
LEMMA UpdateShapeHolds == UpdateSpec => []UpdateShape
BY UpdateShapeInit, UpdateShapeStep, PTL DEF UpdateSpec

(***************************************************************************)
(* A client that keeps a connection has seen the version of the process at *)
(* its other end.                                                          *)
(***************************************************************************)

\* A connection that is kept or used for a run leads to a host that is new enough.
RunInv ==
    /\ \A c \in Clients : pc[c] \in {"connected", "running"} => version >= want[c]
    /\ \A c \in runs : pc[c] = "running"

\* RunInv holds initially.
LEMMA RunInvInit == UpdateInit => RunInv
BY DEF UpdateInit, RunInv

\* Every step keeps RunInv.
LEMMA RunInvStep == UpdateShape /\ RunInv /\ [UpdateNext]_updateVars => RunInv'
<1> SUFFICES ASSUME UpdateShape, RunInv, [UpdateNext]_updateVars PROVE RunInv'
    OBVIOUS
<1> USE NothingAssumption DEF UpdateShape, UpdateTypeOK, HolderInv, RunInv, Connected, SetPc,
            hostVars, jobVars, clientVars
<1>1. ASSUME NEW c \in Clients, NEW v \in Versions, Invoke(c, v) PROVE RunInv'
    BY <1>1 DEF Invoke
<1>2. ASSUME NEW c \in Clients, Ping(c) PROVE RunInv'
    BY <1>2 DEF Ping
<1>3. ASSUME NEW c \in Clients, Request(c) PROVE RunInv'
    BY <1>3 DEF Request
<1>4. ASSUME NEW c \in Clients, GiveUp(c) PROVE RunInv'
    BY <1>4 DEF GiveUp
<1>5. ASSUME NEW c \in Clients, SeeUpdate(c) PROVE RunInv'
    BY <1>5 DEF SeeUpdate
<1>6. ASSUME NEW c \in Clients, StartRun(c) PROVE RunInv'
    BY <1>6 DEF StartRun
<1>7. ASSUME NEW c \in Clients, RefuseRun(c) PROVE RunInv'
    BY <1>7 DEF RefuseRun
<1>8. ASSUME NEW c \in Clients, EndRun(c) PROVE RunInv'
    BY <1>8 DEF EndRun
<1>9. ASSUME NEW c \in Clients, Lock(c) PROVE RunInv'
    BY <1>9 DEF Lock
<1>10. ASSUME TellPending PROVE RunInv'
    BY <1>10 DEF TellPending, Release
<1>11. ASSUME TellCurrent PROVE RunInv'
    BY <1>11 DEF TellCurrent, Release
<1>12. ASSUME Install PROVE RunInv'
    BY <1>12 DEF Install
<1>13. ASSUME InstallFails PROVE RunInv'
    BY <1>13 DEF InstallFails, FailRequest, Release
<1>14. ASSUME BeginRestart PROVE RunInv'
    BY <1>14 DEF BeginRestart
<1>15. ASSUME RunsEnded PROVE RunInv'
    BY <1>15 DEF RunsEnded
<1>16. ASSUME CancelRestart PROVE RunInv'
    BY <1>16 DEF CancelRestart, FailRequest, Release
<1>17. ASSUME Answer PROVE RunInv'
    BY <1>17 DEF Answer
<1>18. ASSUME FinishRestart PROVE RunInv'
    BY <1>18 DEF FinishRestart, Release
<1>19. ASSUME ServeReturns PROVE RunInv'
    BY <1>19 DEF ServeReturns
<1>20. ASSUME Restart PROVE RunInv'
    BY <1>20 DEF Restart, EndProcess, Release
<1>21. ASSUME RestartFails PROVE RunInv'
    BY <1>21 DEF RestartFails, EndProcess, Release
<1>22. ASSUME Prune PROVE RunInv'
    BY <1>22 DEF Prune
<1>23. ASSUME UNCHANGED updateVars PROVE RunInv'
    BY <1>23 DEF updateVars
<1> HIDE DEF RunInv, UpdateShape, UpdateTypeOK, HolderInv, Connected, hostVars, jobVars, clientVars
<1>. QED
    BY <1>1, <1>2, <1>3, <1>4, <1>5, <1>6, <1>7, <1>8, <1>9, <1>10, <1>11, <1>12, <1>13,
       <1>14, <1>15, <1>16, <1>17, <1>18, <1>19, <1>20, <1>21, <1>22, <1>23
    DEF UpdateNext, Client, Handle, Process

\* RunOnNewHost: a client never runs a command on a host that is older than the
\* client, whichever restarts come between the ping and the run.
THEOREM RunsOnNewHost == UpdateSpec => []RunOnNewHost
<1>1. UpdateShape /\ RunInv => RunOnNewHost
    BY DEF UpdateShape, UpdateTypeOK, RunInv, RunOnNewHost
<1>. QED
    BY <1>1, UpdateShapeHolds, RunInvInit, RunInvStep, PTL DEF UpdateSpec

(***************************************************************************)
(* Restarts.  As long as Accept has only failed on a closed listener, a    *)
(* restart is past the point where it can be called off when Serve returns.*)
(***************************************************************************)

\* A restart that may be called off is pending.
Undecided == step \in {"wait", "answer"}
\* A restart that happens is pending.
Decided == step = "finish" \/ serve \in {"closed", "returned"}

\* What a pending restart guarantees.
PendingInv ==
    restarting # Nothing =>
        /\ Undecided \/ Decided
        /\ restarting \in installed
        /\ restarting > version
        /\ Decided \/ step = "answer" => runs = {}

\* Where the request that installs and restarts is.
RequestInv ==
    /\ step = "begin" => /\ restarting = Nothing
                         /\ want[holder] \in installed
                         /\ want[holder] > version
    /\ Undecided \/ Decided => restarting # Nothing
    /\ Undecided => restarting = want[holder]
    /\ step \in {"begin", "wait", "answer", "finish"} => serve = "open"
    /\ serve = "returned" => next = restarting
    /\ serve # "down"

\* Only a restart that happens is promised.
PromiseInv ==
    \A c \in Clients : pc[c] = "waiting" =>
        version >= waitFor[c] \/ (Decided /\ restarting >= waitFor[c])

RestartInv == ~acceptFailed => PendingInv /\ RequestInv /\ PromiseInv

\* RestartInv holds initially.
LEMMA RestartInvInit == UpdateInit => RestartInv
BY DEF UpdateInit, RestartInv, PendingInv, RequestInv, PromiseInv, Undecided, Decided

\* Every step keeps RestartInv.
LEMMA RestartInvStep ==
    ASSUME UpdateShape, RestartInv, [UpdateNext]_updateVars
    PROVE  RestartInv'
<1> USE NothingAssumption DEF UpdateShape, UpdateTypeOK, HolderInv, RestartInv, PendingInv,
            RequestInv,
            PromiseInv, Undecided, Decided, Versions, Connected, SetPc,
            hostVars, jobVars, clientVars
<1>1. ASSUME NEW c \in Clients, NEW v \in Versions, Invoke(c, v) PROVE RestartInv'
    BY <1>1 DEF Invoke
<1>2. ASSUME NEW c \in Clients, Ping(c) PROVE RestartInv'
    BY <1>2 DEF Ping
<1>3. ASSUME NEW c \in Clients, Request(c) PROVE RestartInv'
    BY <1>3 DEF Request
<1>4. ASSUME NEW c \in Clients, GiveUp(c) PROVE RestartInv'
    BY <1>4 DEF GiveUp
<1>5. ASSUME NEW c \in Clients, SeeUpdate(c) PROVE RestartInv'
    BY <1>5 DEF SeeUpdate
<1>6. ASSUME NEW c \in Clients, StartRun(c) PROVE RestartInv'
    BY <1>6 DEF StartRun
<1>7. ASSUME NEW c \in Clients, RefuseRun(c) PROVE RestartInv'
    BY <1>7 DEF RefuseRun
<1>8. ASSUME NEW c \in Clients, EndRun(c) PROVE RestartInv'
    BY <1>8 DEF EndRun
<1>9. ASSUME NEW c \in Clients, Lock(c) PROVE RestartInv'
    BY <1>9 DEF Lock
<1>10. ASSUME TellPending PROVE RestartInv'
    BY <1>10 DEF TellPending, Release
<1>11. ASSUME TellCurrent PROVE RestartInv'
    BY <1>11 DEF TellCurrent, Release
<1>12. ASSUME Install PROVE RestartInv'
    BY <1>12 DEF Install
<1>13. ASSUME InstallFails PROVE RestartInv'
    BY <1>13 DEF InstallFails, FailRequest, Release
<1>14. ASSUME BeginRestart PROVE RestartInv'
    BY <1>14 DEF BeginRestart
<1>15. ASSUME RunsEnded PROVE RestartInv'
    BY <1>15 DEF RunsEnded
<1>16. ASSUME CancelRestart PROVE RestartInv'
    BY <1>16 DEF CancelRestart, FailRequest, Release
<1>17. ASSUME Answer PROVE RestartInv'
    BY <1>17 DEF Answer
<1>18. ASSUME FinishRestart PROVE RestartInv'
    BY <1>18 DEF FinishRestart, Release
<1>19. ASSUME ServeReturns PROVE RestartInv'
    BY <1>19 DEF ServeReturns
<1>20. ASSUME Restart PROVE RestartInv'
    BY <1>20 DEF Restart, EndProcess, Release
<1>21. ASSUME RestartFails PROVE RestartInv'
    BY <1>21 DEF RestartFails, EndProcess, Release
<1>22. ASSUME Prune PROVE RestartInv'
    BY <1>22 DEF Prune
<1>23. ASSUME UNCHANGED updateVars PROVE RestartInv'
    BY <1>23 DEF updateVars
<1> HIDE DEF RestartInv, UpdateShape, UpdateTypeOK, HolderInv, PendingInv, RequestInv, PromiseInv,
            Undecided, Decided, Connected, hostVars, jobVars, clientVars
<1>. QED
    BY <1>1, <1>2, <1>3, <1>4, <1>5, <1>6, <1>7, <1>8, <1>9, <1>10, <1>11, <1>12, <1>13,
       <1>14, <1>15, <1>16, <1>17, <1>18, <1>19, <1>20, <1>21, <1>22, <1>23
    DEF UpdateNext, Client, Handle, Process

\* RestartInv is an invariant.
LEMMA RestartInvHolds == UpdateSpec => []RestartInv
BY UpdateShapeHolds, RestartInvInit, RestartInvStep, PTL DEF UpdateSpec

\* NoRunCutOffByRestart: when the listener is closed for a restart no run is active, and
\* acquireRun lets none start.
THEOREM RestartWaitsForRuns == UpdateSpec => []NoRunCutOffByRestart
<1>1. RestartInv => NoRunCutOffByRestart
    BY DEF RestartInv, PendingInv, RequestInv, Undecided, Decided,
           NoRunCutOffByRestart, NoRunCutOff
<1>. QED
    BY <1>1, RestartInvHolds, PTL

\* RestartExecutableKept: prunes of update installs leave what is to be executed.
THEOREM RestartFindsExecutable == UpdateSpec => []RestartExecutableKept
<1>1. RestartInv => RestartExecutableKept
    BY DEF RestartInv, PendingInv, RequestInv, Undecided, Decided, RestartExecutableKept
<1>. QED
    BY <1>1, RestartInvHolds, PTL

\* RestartPromiseKept: a client that was told of a restart does not wait in vain.
THEOREM RestartHappens == UpdateSpec => []RestartPromiseKept
<1>1. RestartInv => RestartPromiseKept
    BY DEF RestartInv, RequestInv, PromiseInv, Undecided, Decided, RestartPromiseKept
<1>. QED
    BY <1>1, RestartInvHolds, PTL

\* RestartKept: a restart that was decided happens, whatever is pruned meanwhile.
THEOREM RestartDone == UpdateSpec => []RestartKept
<1>1. RestartExecutableKept /\ RestartPromiseKept => RestartKept
    BY DEF RestartKept
<1>. QED
    BY <1>1, RestartFindsExecutable, RestartHappens, PTL
=============================================================================
