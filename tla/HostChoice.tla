----------------------------- MODULE HostChoice -----------------------------
(***************************************************************************)
(* The hosts that a client knows (clientstate/state.go) and how a command  *)
(* chooses one of them (app/app.go) from a flag or the configuration, or   *)
(* from the answers to a query on the local network (discovery.go).  Hosts *)
(* move from one address to another, have several, and take over addresses *)
(* of others.                                                              *)
(*                                                                         *)
(* A host is its fingerprint.  A record without one was written by an      *)
(* earlier version: nothing here creates it, but the code expects it.      *)
(***************************************************************************)
EXTENDS Integers, Sequences, FiniteSets, SequencesExt, FiniteSetsExt

CONSTANTS
    Hosts, Addresses, None,
    MaxMoves,       \* bound: changes of addresses
    MaxPairs        \* bound: successful pairings

Record(addr, fp, cert) == [addr |-> addr, fp |-> fp, cert |-> cert]
Records == [addr : Addresses, fp : Hosts \cup {None}, cert : 0..MaxPairs]

ASSUME HostChoiceAssumption ==
    /\ None \notin Hosts \cup Addresses /\ None \notin Records
    /\ IsFiniteSet(Hosts) /\ IsFiniteSet(Addresses)
    /\ Hosts # {}      \* and each can have an address of its own
    /\ \E f \in [Hosts -> Addresses] : \A g, h \in Hosts : g # h => f[g] # f[h]
    /\ MaxMoves \in Nat /\ MaxPairs \in Nat

VARIABLES
    at,         \* the addresses of each host
    known,      \* Data.Hosts of the state file
    issued,     \* the certificate that each host issued last, 0 if none
    moves, pairs

choiceVars == <<at, known, issued, moves, pairs>>

\* Every host has an address of its own, and hosts and addresses are alike; there may
\* be an old record for one of them.
ChoiceInit ==
    /\ at = CHOOSE f \in [Hosts -> {{a} : a \in Addresses}] :
                \A g, h \in Hosts : g # h => f[g] # f[h]
    /\ \/ known = <<>>
       \/ known = <<Record(CHOOSE a \in UNION Range(at) : TRUE, None, 0)>>
    /\ issued = [h \in Hosts |-> 0]
    /\ moves = 0 /\ pairs = 0

-----------------------------------------------------------------------------
(* The table of hosts.  An index is 0 for nil. *)

FindHostByAddress(hosts, addr) == SelectInSeq(hosts, LAMBDA r : r.addr = addr)

FindHostByFingerprint(hosts, fp) ==
    IF fp = None THEN 0 ELSE SelectInSeq(hosts, LAMBDA r : r.fp = fp)

\* Fault: a record at the same address is taken for the same host.
UpsertByAddress(hosts, record) ==
    LET i == FindHostByAddress(hosts, record.addr)
    IN  IF i # 0 THEN [hosts EXCEPT ![i] = record] ELSE Append(hosts, record)

\* A record replaces that of the same fingerprint, or else one at its address
\* unless both have a fingerprint.
UpsertHost(hosts, record) ==
    LET same == FindHostByFingerprint(hosts, record.fp)
        alias == SelectInSeq(hosts, LAMBDA r :
                    r.addr = record.addr /\ (r.fp = None \/ record.fp = None))
    IN  IF same # 0 THEN [hosts EXCEPT ![same] = record]
        ELSE IF alias # 0 THEN [hosts EXCEPT ![alias] = record]
        ELSE Append(hosts, record)

\* The numbers of a set, in their order.
InOrder(S) ==
    CHOOSE f \in [1..Cardinality(S) -> S] : \A j, k \in DOMAIN f : j < k => f[j] < f[k]

\* removeUnpairedAddressAliases for the host at index i.  The records without a
\* fingerprint are removed one by one, and the slots behind them move up, until a
\* host with a fingerprint is met at that address.  slot is what slot i of the array
\* holds then: a pointer into it is not moved.
RemoveAliases(hosts, i, addr) ==
    LET others == {j \in DOMAIN hosts \ {i} : hosts[j].addr = addr}
        paired == {j \in others : hosts[j].fp # None}
        removed == {j \in others : \A p \in paired : j < p}
        left == InOrder(DOMAIN hosts \ removed)
        rest == [k \in DOMAIN left |-> hosts[left[k]]]
    IN  [hosts |-> rest,
         ok |-> paired = {},
         slot |-> IF i <= Len(rest) THEN rest[i] ELSE hosts[Len(hosts)]]

\* The address of a known host is changed, unless a paired host has it.
UpdateHostAddress(hosts, fp, addr) ==
    LET i == FindHostByFingerprint(hosts, fp)
        r == RemoveAliases(hosts, i, addr)
        j == FindHostByFingerprint(r.hosts, fp)
    IN  IF hosts[i].addr = addr THEN [hosts |-> hosts, ok |-> FALSE, slot |-> hosts[i]]
        ELSE IF r.ok THEN [r EXCEPT !.hosts[j].addr = addr] ELSE r

\* The certificate for a host: its own; there is no other for all hosts.
HostCredentials(hosts, addr, fp) ==
    LET i == FindHostByFingerprint(hosts, fp)
        j == FindHostByAddress(hosts, addr)
    IN  IF i # 0 THEN hosts[i].cert ELSE IF j # 0 THEN hosts[j].cert ELSE 0

-----------------------------------------------------------------------------
(* The choice of a host.  A result of discovery has an address and a fingerprint. *)

Announced == UNION {{[addr |-> a, fp |-> h] : a \in at[h]} : h \in Hosts}

\* Fault: the address that is known already comes before the fingerprint.
SelectByAddress(results, pin, preferred) ==
    LET near == {r \in results : r.addr = preferred}
        right == {r \in results : r.fp = pin}
    IN  IF near # {} THEN near ELSE IF Cardinality(right) = 1 THEN right ELSE {}

\* Of the results with the pinned fingerprint the one at the known address, or the
\* only one; none is an error.
selectDiscoveredHost(results, pin, preferred) ==
    LET right == {r \in results : r.fp = pin}
        near == {r \in right : r.addr = preferred}
    IN  IF near # {} THEN near ELSE IF Cardinality(right) = 1 THEN right ELSE {}

preferredAddressForFingerprint(fp) ==
    LET i == FindHostByFingerprint(known, fp) IN IF i = 0 THEN None ELSE known[i].addr

\* DiscoverOne: the only answer.
selectSingleResult(results) == IF Cardinality(results) = 1 THEN results ELSE {}

\* A flag, RMTX_HOST or the configuration gives an address; else the network is asked.
\* The fingerprint is the pinned one, or that of the answer.
resolveRemoteHost(addr, pin, results) ==
    IF addr # None THEN {[addr |-> addr, fp |-> pin]}
    ELSE IF pin # None
    THEN selectDiscoveredHost(results, pin, preferredAddressForFingerprint(pin))
    ELSE selectSingleResult(results)

\* The record for a target: found by its fingerprint, and its address brought up to
\* date; or else by its address.  hosts is the table in memory, saved if it was.
resolveClientHost(target) ==
    LET i == FindHostByFingerprint(known, target.fp)
        u == UpdateHostAddress(known, target.fp, target.addr)
        j == FindHostByFingerprint(u.hosts, target.fp)
        k == FindHostByAddress(known, target.addr)
    IN  IF i # 0
        THEN [hosts |-> u.hosts, save |-> u.ok, record |-> IF u.ok THEN u.hosts[j] ELSE u.slot]
        ELSE [hosts |-> known, save |-> FALSE, record |-> IF k = 0 THEN None ELSE known[k]]

\* RunExec and resolveRemoteTarget: the record must be that of a paired host and of
\* the pinned fingerprint, and have credentials.
Accepted(choice, target, pin) ==
    /\ choice.record # None
    /\ choice.record.fp # None      \* Paired
    /\ HostCredentials(choice.hosts, target.addr, choice.record.fp) # 0
    /\ pin # None => pin = choice.record.fp

\* `rmtx pair`: the fingerprint is given or pinned, and the address is given, or
\* that of an answer with this fingerprint, which the user may have to choose.
resolvePairTarget(addr, fp, results) ==
    IF fp = None THEN {}
    ELSE IF addr # None THEN {[addr |-> addr, fp |-> fp]}
    ELSE {r \in results : r.fp = fp}

\* `rmtx init`: a fingerprint counts only together with an address.
resolveInitTarget(addr, fp, results) ==
    IF addr # None /\ fp # None THEN {[addr |-> addr, fp |-> fp]}
    ELSE {r \in results : addr = None \/ r.addr = addr}

-----------------------------------------------------------------------------
\* A successful pairing (completePair): the host that was chosen is there.
Pair(target) ==
    /\ target.addr \in at[target.fp]
    /\ pairs < MaxPairs /\ pairs' = pairs + 1
    /\ issued' = [issued EXCEPT ![target.fp] = pairs + 1]
    /\ known' = UpsertHost(known, Record(target.addr, target.fp, pairs + 1))
    /\ UNCHANGED <<at, moves>>

RunPair ==
    \E addr \in Addresses \cup {None}, fp \in Hosts \cup {None} :
        \E target \in resolvePairTarget(addr, fp, Announced)
                        \cup resolveInitTarget(addr, fp, Announced) :
            Pair(target)

\* A host has other addresses, up to two; no two hosts have the same.
Move ==
    /\ moves < MaxMoves /\ moves' = moves + 1
    /\ \E h \in Hosts, new \in SUBSET Addresses :
          /\ Cardinality(new) <= 2 /\ new # at[h]
          /\ \A g \in Hosts \ {h} : new \cap at[g] = {}
          /\ at' = [at EXCEPT ![h] = new]
    /\ UNCHANGED <<known, issued, pairs>>

ChoiceTypeOK ==
    /\ at \in [Hosts -> SUBSET Addresses]
    /\ known \in Seq(Records)
    /\ issued \in [Hosts -> 0..pairs]
    /\ moves \in 0..MaxMoves /\ pairs \in 0..MaxPairs
=============================================================================
