--------------------------- MODULE ConnectProofs ----------------------------
(***************************************************************************)
(* Proofs about HostChoice and Connect, for any hosts and addresses, any   *)
(* number of pairings and moves, of attempts and of connections.           *)
(***************************************************************************)
EXTENDS Connect, FiniteSetTheorems, SequenceTheorems, WellFoundedInduction, TLAPS

(***************************************************************************)
(* Numbers of a finite set in their order.                                 *)
(***************************************************************************)

\* A set of numbers that is not empty has a least one.
LEMMA LeastNat ==
    ASSUME NEW S \in SUBSET Nat, S # {}
    PROVE  Min(S) \in S /\ \A m \in S : Min(S) <= m
<1>1. PICK n \in S : \A m \in S : ~(<<m, n>> \in OpToRel(<, Nat))
    BY WFMin, NatLessThanWellFounded
<1>2. ASSUME NEW m \in S
      PROVE  n <= m
    <2>1. <<m, n>> \notin OpToRel(<, Nat)
        BY <1>1
    <2>. QED
        BY <2>1 DEF OpToRel
<1>. QED
    BY <1>2 DEF Min

\* The numbers of a set can be put in their order: by how many are not greater.
LEMMA OrderExists ==
    ASSUME NEW n \in Nat, NEW S \in SUBSET (1..n)
    PROVE  \E f \in [1..Cardinality(S) -> S] :
               \A j, k \in DOMAIN f : j < k => f[j] < f[k]
<1>. DEFINE c == Cardinality(S)
            upTo(x) == {y \in S : y <= x}
            rank == [x \in S |-> Cardinality(upTo(x))]
<1>0. \A x \in S : x \in Nat
    OBVIOUS
<1>1. IsFiniteSet(1..n)
    BY FS_Interval
<1>2. IsFiniteSet(S) /\ c \in Nat
    BY <1>1, FS_Subset, FS_CardinalityType
<1>3. IsFiniteSet(1..c) /\ Cardinality(1..c) = c
    BY <1>2, FS_Interval
<1>4. ASSUME NEW x \in S
      PROVE  /\ IsFiniteSet(upTo(x)) /\ Cardinality(upTo(x)) \in Nat
             /\ Cardinality(upTo(x)) <= c /\ Cardinality(upTo(x)) # 0
    <2>1. upTo(x) \in SUBSET S /\ x \in upTo(x)
        OBVIOUS
    <2>. HIDE DEF upTo
    <2>2. IsFiniteSet(upTo(x)) /\ Cardinality(upTo(x)) <= c
        BY <1>2, <2>1, FS_Subset
    <2>3. Cardinality(upTo(x)) \in Nat
        BY <2>2, FS_CardinalityType
    <2>4. Cardinality(upTo(x)) # 0
        BY <2>1, <2>2, FS_EmptySet
    <2>. QED
        BY <2>2, <2>3, <2>4
<1>5. ASSUME NEW x \in S, NEW y \in S, x < y
      PROVE  rank[x] < rank[y]
    <2>0. x \in Nat /\ y \in Nat
        BY <1>0
    <2>1. upTo(x) \in SUBSET upTo(y)
        <3>1. ASSUME NEW z \in S, z <= x PROVE z <= y
            <4>1. z \in Nat
                BY <1>0
            <4>. QED
                BY <1>5, <2>0, <3>1, <4>1
        <3>. QED
            BY <3>1
    <2>2. y \in upTo(y) /\ y \notin upTo(x)
        BY <1>5, <2>0
    <2>. HIDE DEF upTo
    <2>3. /\ Cardinality(upTo(x)) <= Cardinality(upTo(y))
          /\ Cardinality(upTo(y)) = Cardinality(upTo(x)) => upTo(y) = upTo(x)
        BY <1>4, <2>1, FS_Subset
    <2>4. Cardinality(upTo(x)) # Cardinality(upTo(y))
        BY <2>2, <2>3
    <2>. QED
        BY <1>4, <2>3, <2>4
<1>6. rank \in [S -> 1..c]
    <2>. HIDE DEF upTo
    <2>. QED
        BY <1>2, <1>4
<1>. HIDE DEF rank
<1>7. \A x, y \in S : rank[x] = rank[y] => x = y
    BY <1>5, <1>6
<1>8. rank \in Injection(S, 1..c)
    BY <1>6, <1>7 DEF Injection, IsInjective
<1>9. \A k \in 1..c : \E x \in S : rank[x] = k
    <2>1. rank \in Surjection(S, 1..c)
        BY <1>3, <1>8, FS_Injection
    <2>. QED
        BY <2>1 DEF Surjection
<1>. DEFINE f == [k \in 1..c |-> CHOOSE x \in S : rank[x] = k]
<1>10. \A k \in 1..c : f[k] \in S /\ rank[f[k]] = k
    BY <1>9
<1>11. f \in [1..c -> S]
    BY <1>10
<1>12. ASSUME NEW j \in 1..c, NEW k \in 1..c, j < k
       PROVE  f[j] < f[k]
    <2>1. f[j] \in S /\ f[k] \in S /\ rank[f[j]] = j /\ rank[f[k]] = k
        BY <1>10
    <2>. HIDE DEF f
    <2>2. ~(f[k] < f[j])
        <3> SUFFICES ASSUME f[k] < f[j] PROVE FALSE
            OBVIOUS
        <3>1. rank[f[k]] < rank[f[j]]
            BY <1>5, <2>1
        <3>. QED
            BY <1>2, <1>12, <2>1, <3>1
    <2>3. f[k] # f[j]
        BY <1>12, <2>1
    <2>4. f[k] \in Nat /\ f[j] \in Nat
        BY <1>0, <2>1
    <2>. QED
        BY <2>2, <2>3, <2>4
<1>13. DOMAIN f = 1..c
    OBVIOUS
<1>. HIDE DEF f
<1>. QED
    BY <1>11, <1>12, <1>13

\* What InOrder is.
LEMMA InOrderFacts ==
    ASSUME NEW n \in Nat, NEW S \in SUBSET (1..n)
    PROVE  /\ Cardinality(S) \in Nat /\ InOrder(S) \in [1..Cardinality(S) -> S]
           /\ \A j, k \in 1..Cardinality(S) : j < k => InOrder(S)[j] < InOrder(S)[k]
           /\ \A x \in S : \E k \in 1..Cardinality(S) : InOrder(S)[k] = x
<1>. DEFINE c == Cardinality(S)  f == InOrder(S)
<1>0. \A x \in S : x \in Nat
    OBVIOUS
<1>1. IsFiniteSet(S) /\ c \in Nat
    <2>1. IsFiniteSet(1..n)
        BY FS_Interval
    <2>. QED
        BY <2>1, FS_Subset, FS_CardinalityType
<1>2. f \in [1..c -> S] /\ \A j, k \in DOMAIN f : j < k => f[j] < f[k]
    BY OrderExists DEF InOrder
<1>. HIDE DEF f
<1>3. \A j, k \in 1..c : j < k => f[j] < f[k]
    BY <1>2
<1>4. ASSUME NEW j \in 1..c, NEW k \in 1..c, f[j] = f[k]
      PROVE  j = k
    <2>1. f[j] \in Nat /\ f[k] \in Nat
        BY <1>0, <1>2
    <2>2. ~(j < k) /\ ~(k < j)
        BY <1>3, <1>4, <2>1
    <2>. QED
        BY <1>1, <2>2
<1>5. f \in Injection(1..c, S)
    BY <1>2, <1>4 DEF Injection, IsInjective
<1>6. Cardinality(1..c) = c
    BY <1>1, FS_Interval
<1>7. f \in Surjection(1..c, S)
    BY <1>1, <1>5, <1>6, FS_Injection
<1>8. \A x \in S : \E k \in 1..c : f[k] = x
    BY <1>7 DEF Surjection
<1>. QED
    BY <1>1, <1>2, <1>3, <1>8 DEF f

\* All numbers up to n are in their order already.
LEMMA InOrderAll ==
    ASSUME NEW n \in Nat
    PROVE  Cardinality(1..n) = n /\ \A k \in 1..n : InOrder(1..n)[k] = k
<1>. DEFINE f == InOrder(1..n)
<1>1. Cardinality(1..n) = n
    BY FS_Interval
<1>2. /\ f \in [1..n -> 1..n]
      /\ \A j, k \in 1..n : j < k => f[j] < f[k]
      /\ \A x \in 1..n : \E k \in 1..n : f[k] = x
    <2>1. 1..n \in SUBSET (1..n)
        OBVIOUS
    <2>. QED
        BY <1>1, <2>1, InOrderFacts
<1>. HIDE DEF f
<1>. DEFINE T == {k \in 1..n : f[k] # k}
<1>3. T = {}
    <2> SUFFICES ASSUME T # {} PROVE FALSE
        OBVIOUS
    <2>. DEFINE m == Min(T)
    <2>1. m \in T /\ \A k \in T : m <= k
        <3>1. T \in SUBSET Nat
            OBVIOUS
        <3>. HIDE DEF T
        <3>. QED
            BY <3>1, LeastNat
    <2>. HIDE DEF m
    <2>2. m \in 1..n /\ f[m] # m /\ \A k \in 1..n : k < m => f[k] = k
        BY <2>1
    <2>3. f[m] \in 1..n
        BY <1>2, <2>2
    <2>4. f[m] > m
        <3> SUFFICES ASSUME f[m] < m PROVE FALSE
            BY <2>2, <2>3
        <3>1. f[f[m]] = f[m]
            BY <2>2, <2>3
        <3>2. f[f[m]] < f[m]
            BY <1>2, <2>2, <2>3
        <3>. QED
            BY <3>1, <3>2, <2>3
    <2>5. PICK k \in 1..n : f[k] = m
        BY <1>2, <2>2
    <2>6. k > m
        BY <2>2, <2>5
    <2>7. f[m] < f[k]
        BY <1>2, <2>2, <2>6
    <2>. QED
        BY <2>3, <2>4, <2>5, <2>7, <2>2
<1>. QED
    BY <1>1, <1>3 DEF f

(***************************************************************************)
(* The table of hosts.                                                     *)
(***************************************************************************)

\* A table in which every host that has issued a certificate (iss) has one record,
\* with the certificate it issued last, and no other host has one.
Sound(hosts, iss) ==
    /\ hosts \in Seq(Records)
    /\ \A i \in 1..Len(hosts) : hosts[i].fp # None =>
          iss[hosts[i].fp] # 0 /\ hosts[i].cert = iss[hosts[i].fp]
    /\ \A i, j \in 1..Len(hosts) : hosts[i].fp # None /\ hosts[i].fp = hosts[j].fp => i = j
    /\ \A h \in Hosts : iss[h] # 0 => \E i \in 1..Len(hosts) : hosts[i].fp = h

\* The fields of a record.
LEMMA RecordFacts ==
    ASSUME NEW r \in Records
    PROVE  r.addr \in Addresses /\ r.fp \in Hosts \cup {None} /\ r.cert \in 0..MaxPairs
BY DEF Records

\* A record of a table.
LEMMA EntryFacts ==
    ASSUME NEW hosts \in Seq(Records), NEW i \in 1..Len(hosts)
    PROVE  /\ hosts[i] \in Records /\ hosts[i].addr \in Addresses
           /\ hosts[i].fp \in Hosts \cup {None} /\ hosts[i].cert \in 0..MaxPairs
<1>1. hosts[i] \in Records
    OBVIOUS
<1>. QED
    BY <1>1, RecordFacts

\* FindHostByFingerprint finds the record of a host if there is one.
LEMMA FindFacts ==
    ASSUME NEW hosts \in Seq(Records), NEW fp \in Hosts \cup {None}
    PROVE  LET i == FindHostByFingerprint(hosts, fp) IN
           /\ i \in 0..Len(hosts)
           /\ i # 0 => i \in 1..Len(hosts) /\ fp # None /\ hosts[i].fp = fp
           /\ i = 0 /\ fp # None => \A j \in 1..Len(hosts) : hosts[j].fp # fp
<1>. DEFINE I == {i \in 1..Len(hosts) : hosts[i].fp = fp}
<1>1. Len(hosts) \in Nat /\ I \in SUBSET Nat
    OBVIOUS
<1>2. FindHostByFingerprint(hosts, fp) = IF fp = None THEN 0 ELSE IF I # {} THEN Min(I) ELSE 0
    BY DEF FindHostByFingerprint, SelectInSeq
<1>3. I # {} => Min(I) \in I
    <2>. HIDE DEF I
    <2>. QED
        BY <1>1, LeastNat
<1>4. \A i \in I : i \in 1..Len(hosts) /\ i # 0 /\ hosts[i].fp = fp
    OBVIOUS
<1>5. I = {} => \A j \in 1..Len(hosts) : hosts[j].fp # fp
    OBVIOUS
<1>. HIDE DEF I
<1>6. 1..Len(hosts) \subseteq 0..Len(hosts) /\ 0 \in 0..Len(hosts)
    BY <1>1
<1>7. CASE fp = None \/ I = {}
    BY <1>2, <1>5, <1>6, <1>7
<1>8. CASE fp # None /\ I # {}
    BY <1>2, <1>3, <1>4, <1>6, <1>8
<1>. QED
    BY <1>7, <1>8

\* So does FindHostByAddress.
LEMMA FindAddressFacts ==
    ASSUME NEW hosts \in Seq(Records), NEW addr
    PROVE  LET i == FindHostByAddress(hosts, addr) IN
           i = 0 \/ (i \in 1..Len(hosts) /\ hosts[i].addr = addr)
<1>. DEFINE I == {i \in 1..Len(hosts) : hosts[i].addr = addr}
<1>1. I \in SUBSET Nat
    OBVIOUS
<1>2. FindHostByAddress(hosts, addr) = IF I # {} THEN Min(I) ELSE 0
    BY DEF FindHostByAddress, SelectInSeq
<1>3. I # {} => Min(I) \in I
    <2>. HIDE DEF I
    <2>. QED
        BY <1>1, LeastNat
<1>. QED
    BY <1>2, <1>3

\* In a sound table the record of a host is found, and is that of its certificate.
LEMMA FindSound ==
    ASSUME NEW hosts, NEW iss, Sound(hosts, iss), NEW h \in Hosts, iss[h] # 0
    PROVE  LET i == FindHostByFingerprint(hosts, h) IN
           i \in 1..Len(hosts) /\ hosts[i].fp = h /\ hosts[i].cert = iss[h]
<1>. DEFINE i == FindHostByFingerprint(hosts, h)
<1>0. h # None /\ hosts \in Seq(Records)
    BY HostChoiceAssumption DEF Sound
<1>1. /\ i # 0 => i \in 1..Len(hosts) /\ hosts[i].fp = h
      /\ i = 0 => \A j \in 1..Len(hosts) : hosts[j].fp # h
    BY <1>0, FindFacts
<1>. HIDE DEF i
<1>2. i # 0
    BY <1>1 DEF Sound
<1>. QED
    BY <1>0, <1>1, <1>2 DEF Sound, i

\* UpsertHost keeps a table sound when a host has issued a new certificate.
LEMMA UpsertSound ==
    ASSUME NEW hosts, NEW iss \in [Hosts -> Nat], Sound(hosts, iss),
           NEW a \in Addresses, NEW h \in Hosts, NEW c \in 1..MaxPairs
    PROVE  Sound(UpsertHost(hosts, Record(a, h, c)), [iss EXCEPT ![h] = c])
<1>. DEFINE rec == Record(a, h, c)
            new == [iss EXCEPT ![h] = c]
            same == FindHostByFingerprint(hosts, h)
            A == {i \in 1..Len(hosts) : hosts[i].addr = a /\ (hosts[i].fp = None \/ h = None)}
            alias == IF A # {} THEN Min(A) ELSE 0
            n == Len(hosts)
<1>0. h # None /\ hosts \in Seq(Records) /\ n \in Nat /\ c \in Nat /\ c # 0
    BY HostChoiceAssumption DEF Sound
<1>1. rec \in Records /\ rec.fp = h /\ rec.cert = c /\ rec.addr = a
    <2>1. c \in 0..MaxPairs
        BY HostChoiceAssumption
    <2>. QED
        BY <2>1 DEF Record, Records
<1>2. new[h] = c /\ \A g \in Hosts : g # h => new[g] = iss[g]
    OBVIOUS
<1>3. UpsertHost(hosts, rec) =
        IF same # 0 THEN [hosts EXCEPT ![same] = rec]
        ELSE IF alias # 0 THEN [hosts EXCEPT ![alias] = rec] ELSE Append(hosts, rec)
    <2>1. SelectInSeq(hosts, LAMBDA r : r.addr = rec.addr /\ (r.fp = None \/ rec.fp = None)) = alias
        BY <1>1 DEF SelectInSeq
    <2>. QED
        BY <1>1, <2>1 DEF UpsertHost
<1>4. /\ same # 0 => same \in 1..n /\ hosts[same].fp = h
      /\ same = 0 => \A j \in 1..n : hosts[j].fp # h
    BY <1>0, FindFacts
<1>5. alias # 0 => alias \in 1..n /\ hosts[alias].fp = None
    <2>1. A # {} => Min(A) \in A
        <3>1. A \in SUBSET Nat
            OBVIOUS
        <3>. HIDE DEF A
        <3>. QED
            BY <3>1, LeastNat
    <2>. QED
        BY <1>0, <2>1
<1>6. \A i \in 1..n : hosts[i] \in Records /\ hosts[i].fp \in Hosts \cup {None}
    BY <1>0, EntryFacts
<1>7. ASSUME NEW k \in 1..n, hosts[k].fp \in {h, None}, \A j \in 1..n : j # k => hosts[j].fp # h
      PROVE  Sound([hosts EXCEPT ![k] = rec], new)
    <2>. DEFINE t == [hosts EXCEPT ![k] = rec]
    <2>1. t \in Seq(Records) /\ Len(t) = n /\ \A j \in 1..n : t[j] = IF j = k THEN rec ELSE hosts[j]
        BY <1>0, <1>1, ExceptSeq
    <2>. HIDE DEF t, rec, new
    <2>2. ASSUME NEW i \in 1..n, t[i].fp # None
          PROVE  new[t[i].fp] # 0 /\ t[i].cert = new[t[i].fp]
        <3>1. CASE i = k
            BY <1>0, <1>1, <1>2, <2>1, <3>1
        <3>2. CASE i # k
            <4>1. t[i] = hosts[i] /\ hosts[i].fp \in Hosts /\ hosts[i].fp # h
                BY <1>6, <1>7, <2>1, <2>2, <3>2
            <4>2. iss[hosts[i].fp] # 0 /\ hosts[i].cert = iss[hosts[i].fp]
                BY <2>2, <4>1 DEF Sound
            <4>. QED
                BY <1>2, <4>1, <4>2
        <3>. QED
            BY <3>1, <3>2
    <2>3. ASSUME NEW i \in 1..n, NEW j \in 1..n, t[i].fp # None, t[i].fp = t[j].fp
          PROVE  i = j
        <3>1. CASE i # k /\ j # k
            BY <2>1, <2>3, <3>1 DEF Sound
        <3>2. CASE i = k \/ j = k
            BY <1>1, <1>7, <2>1, <2>3, <3>2
        <3>. QED
            BY <3>1, <3>2
    <2>4. ASSUME NEW g \in Hosts, new[g] # 0
          PROVE  \E i \in 1..n : t[i].fp = g
        <3>1. CASE g = h
            BY <1>1, <2>1, <3>1
        <3>2. CASE g # h
            <4>1. PICK i \in 1..n : hosts[i].fp = g
                BY <1>2, <2>4, <3>2 DEF Sound
            <4>2. i # k
                BY <1>7, <3>2, <4>1, HostChoiceAssumption
            <4>. QED
                BY <2>1, <4>1, <4>2
        <3>. QED
            BY <3>1, <3>2
    <2>. QED
        BY <2>1, <2>2, <2>3, <2>4 DEF Sound, t
<1>8. CASE same # 0
    <2>1. \A j \in 1..n : j # same => hosts[j].fp # h
        BY <1>0, <1>4, <1>8 DEF Sound
    <2>. QED
        BY <1>3, <1>4, <1>7, <1>8, <2>1
<1>9. CASE same = 0 /\ alias # 0
    BY <1>3, <1>4, <1>5, <1>7, <1>9
<1>10. CASE same = 0 /\ alias = 0
    <2>. DEFINE t == Append(hosts, rec)
    <2>1. /\ t \in Seq(Records) /\ Len(t) = n + 1
          /\ \A j \in 1..n : t[j] = hosts[j]
          /\ t[n + 1] = rec
        BY <1>0, <1>1
    <2>2. \A j \in 1..(n + 1) : j \in 1..n \/ j = n + 1
        BY <1>0
    <2>3. \A j \in 1..n : hosts[j].fp # h
        BY <1>4, <1>10
    <2>. HIDE DEF t, rec, new
    <2>4. ASSUME NEW i \in 1..(n + 1), t[i].fp # None
          PROVE  new[t[i].fp] # 0 /\ t[i].cert = new[t[i].fp]
        <3>1. CASE i = n + 1
            BY <1>0, <1>1, <1>2, <2>1, <3>1
        <3>2. CASE i \in 1..n
            <4>1. t[i] = hosts[i] /\ hosts[i].fp \in Hosts /\ hosts[i].fp # h
                BY <1>6, <2>1, <2>3, <2>4, <3>2
            <4>2. iss[hosts[i].fp] # 0 /\ hosts[i].cert = iss[hosts[i].fp]
                BY <2>4, <3>2, <4>1 DEF Sound
            <4>. QED
                BY <1>2, <4>1, <4>2
        <3>. QED
            BY <2>2, <3>1, <3>2
    <2>5. ASSUME NEW i \in 1..(n + 1), NEW j \in 1..(n + 1), t[i].fp # None, t[i].fp = t[j].fp
          PROVE  i = j
        <3>1. CASE i \in 1..n /\ j \in 1..n
            BY <2>1, <2>5, <3>1 DEF Sound
        <3>2. CASE i = n + 1 \/ j = n + 1
            BY <1>1, <2>1, <2>2, <2>3, <2>5, <3>2
        <3>. QED
            BY <2>2, <3>1, <3>2
    <2>6. ASSUME NEW g \in Hosts, new[g] # 0
          PROVE  \E i \in 1..(n + 1) : t[i].fp = g
        <3>0. n + 1 \in 1..(n + 1) /\ 1..n \subseteq 1..(n + 1)
            BY <1>0
        <3>1. CASE g = h
            BY <1>1, <2>1, <3>0, <3>1
        <3>2. CASE g # h
            <4>1. PICK i \in 1..n : hosts[i].fp = g
                BY <1>2, <2>6, <3>2 DEF Sound
            <4>. QED
                BY <2>1, <3>0, <4>1
        <3>. QED
            BY <3>1, <3>2
    <2>7. Sound(t, new)
        BY <2>1, <2>4, <2>5, <2>6 DEF Sound
    <2>. QED
        BY <1>3, <1>10, <2>7 DEF t, rec, new
<1>. QED
    BY <1>8, <1>9, <1>10

\* What removeUnpairedAddressAliases leaves is sound, and so is what slot i holds then;
\* it is the record of i still when there was no record without a fingerprint.
LEMMA RemoveFacts ==
    ASSUME NEW hosts, NEW iss, Sound(hosts, iss), NEW i \in 1..Len(hosts), NEW addr
    PROVE  LET r == RemoveAliases(hosts, i, addr) IN
           /\ r = [hosts |-> r.hosts, ok |-> r.ok, slot |-> r.slot]
           /\ r.ok \in BOOLEAN
           /\ Sound(r.hosts, iss) /\ r.slot \in Records
           /\ r.slot.fp # None => iss[r.slot.fp] # 0
           /\ (\A j \in 1..Len(hosts) : hosts[j].fp # None) => r.slot = hosts[i]
<1>. DEFINE r == RemoveAliases(hosts, i, addr)
            n == Len(hosts)
            others == {j \in DOMAIN hosts \ {i} : hosts[j].addr = addr}
            paired == {j \in others : hosts[j].fp # None}
            removed == {j \in others : \A p \in paired : j < p}
            stay == DOMAIN hosts \ removed
            left == InOrder(stay)
            rest == [k \in DOMAIN left |-> hosts[left[k]]]
            c == Cardinality(stay)
<1>0. hosts \in Seq(Records) /\ n \in Nat /\ DOMAIN hosts = 1..n
    BY DEF Sound
<1>1. /\ r = [hosts |-> rest, ok |-> paired = {},
              slot |-> IF i <= Len(rest) THEN rest[i] ELSE hosts[n]]
    BY DEF RemoveAliases
<1>2. \A j \in removed : hosts[j].fp = None
    <2>1. ASSUME NEW j \in removed, hosts[j].fp # None PROVE FALSE
        <3>1. j \in paired /\ j \in 1..n
            BY <1>0, <2>1
        <3>2. j < j
            BY <3>1
        <3>. QED
            BY <3>1, <3>2
    <2>. QED
        BY <2>1
<1>3. stay \in SUBSET (1..n)
    BY <1>0
<1>4. \A j \in 1..n : hosts[j].fp # None => j \in stay
    BY <1>0, <1>2
<1>5. (\A j \in 1..n : hosts[j].fp # None) => stay = 1..n
    BY <1>3, <1>4
<1>. HIDE DEF stay, paired
<1>6. /\ c \in Nat /\ left \in [1..c -> stay]
      /\ \A j, k \in 1..c : j < k => left[j] < left[k]
      /\ \A x \in stay : \E k \in 1..c : left[k] = x
    BY <1>0, <1>3, InOrderFacts
<1>7. \A k \in 1..c : left[k] \in 1..n
    BY <1>3, <1>6
<1>8. \A j, k \in 1..c : left[j] = left[k] => j = k
    <2>1. ASSUME NEW j \in 1..c, NEW k \in 1..c, left[j] = left[k]
          PROVE  j = k
        <3>1. left[j] \in Nat
            BY <1>7
        <3>2. ~(j < k) /\ ~(k < j)
            <4>. HIDE DEF left
            <4>. QED
                BY <1>6, <2>1, <3>1
        <3>. QED
            BY <1>6, <3>2
    <2>. QED
        BY <2>1
<1>. HIDE DEF left
<1>9. /\ rest \in Seq(Records) /\ Len(rest) = c
      /\ \A k \in 1..c : rest[k] = hosts[left[k]]
    <2>1. \A k \in 1..c : hosts[left[k]] \in Records
        BY <1>0, <1>7, EntryFacts
    <2>2. rest \in [1..c -> Records]
        BY <1>6, <2>1
    <2>3. rest \in Seq(Records)
        <3>. HIDE DEF rest
        <3>. QED
            BY <1>6, <2>2
    <2>4. Len(rest) = c
        <3>. HIDE DEF rest
        <3>. QED
            BY <1>6, <2>2, <2>3
    <2>. QED
        BY <1>6, <2>3, <2>4
<1>. HIDE DEF rest
<1>10. Sound(rest, iss)
    <2>1. ASSUME NEW k \in 1..c, rest[k].fp # None
          PROVE  iss[rest[k].fp] # 0 /\ rest[k].cert = iss[rest[k].fp]
        BY <1>7, <1>9, <2>1 DEF Sound
    <2>2. ASSUME NEW j \in 1..c, NEW k \in 1..c, rest[j].fp # None, rest[j].fp = rest[k].fp
          PROVE  j = k
        <3>1. left[j] = left[k]
            BY <1>7, <1>9, <2>2 DEF Sound
        <3>. QED
            BY <1>8, <3>1
    <2>3. ASSUME NEW h \in Hosts, iss[h] # 0
          PROVE  \E k \in 1..c : rest[k].fp = h
        <3>1. PICK j \in 1..n : hosts[j].fp = h
            BY <2>3 DEF Sound
        <3>2. j \in stay
            BY <1>4, <3>1, HostChoiceAssumption
        <3>3. PICK k \in 1..c : left[k] = j
            BY <1>6, <3>2
        <3>. QED
            BY <1>9, <3>1, <3>3
    <2>. QED
        BY <1>9, <2>1, <2>2, <2>3 DEF Sound
<1>11. r.hosts = rest /\ r.ok = (paired = {})
       /\ r.slot = IF i <= c THEN rest[i] ELSE hosts[n]
    BY <1>1, <1>9
<1>12. n \in 1..n
    BY <1>0
<1>13. \E j \in 1..n : r.slot = hosts[j]
    <2>1. CASE i <= c
        <3>1. i \in 1..c
            BY <1>0, <1>6, <2>1
        <3>. QED
            BY <1>7, <1>9, <1>11, <2>1, <3>1
    <2>2. CASE ~(i <= c)
        BY <1>11, <1>12, <2>2
    <2>. QED
        BY <2>1, <2>2
<1>14. r.slot \in Records /\ (r.slot.fp # None => iss[r.slot.fp] # 0)
    BY <1>0, <1>13, EntryFacts DEF Sound
<1>15. ASSUME \A j \in 1..n : hosts[j].fp # None
       PROVE  r.slot = hosts[i]
    <2>1. stay = 1..n
        BY <1>5, <1>15
    <2>2. c = n /\ left[i] = i
        BY <1>0, <2>1, InOrderAll DEF left
    <2>3. i <= c /\ i \in 1..c
        BY <1>0, <2>2
    <2>. QED
        BY <1>9, <1>11, <2>2, <2>3
<1>16. r = [hosts |-> r.hosts, ok |-> r.ok, slot |-> r.slot]
    BY <1>1
<1>. HIDE DEF r
<1>17. r.ok \in BOOLEAN /\ Sound(r.hosts, iss)
    BY <1>10, <1>11
<1>. QED
    BY <1>14, <1>15, <1>16, <1>17 DEF r

\* UpdateHostAddress keeps the table sound.
LEMMA UpdateFacts ==
    ASSUME NEW hosts, NEW iss, Sound(hosts, iss), NEW h \in Hosts, iss[h] # 0,
           NEW addr \in Addresses
    PROVE  LET u == UpdateHostAddress(hosts, h, addr) IN
           /\ u.ok \in BOOLEAN
           /\ Sound(u.hosts, iss) /\ u.slot \in Records
           /\ u.slot.fp # None => iss[u.slot.fp] # 0
           /\ (\A j \in 1..Len(hosts) : hosts[j].fp # None) => u.slot.fp = h
<1>. DEFINE i == FindHostByFingerprint(hosts, h)
            r == RemoveAliases(hosts, i, addr)
            j == FindHostByFingerprint(r.hosts, h)
            u == UpdateHostAddress(hosts, h, addr)
<1>1. i \in 1..Len(hosts) /\ hosts[i].fp = h
    BY FindSound
<1>2. /\ r = [hosts |-> r.hosts, ok |-> r.ok, slot |-> r.slot]
      /\ r.ok \in BOOLEAN
      /\ Sound(r.hosts, iss) /\ r.slot \in Records
      /\ r.slot.fp # None => iss[r.slot.fp] # 0
      /\ (\A k \in 1..Len(hosts) : hosts[k].fp # None) => r.slot = hosts[i]
    BY <1>1, RemoveFacts
<1>3. j \in 1..Len(r.hosts) /\ r.hosts[j].fp = h /\ r.hosts[j].cert = iss[h]
    BY <1>2, FindSound
<1>4. u = IF hosts[i].addr = addr THEN [hosts |-> hosts, ok |-> FALSE, slot |-> hosts[i]]
          ELSE IF r.ok THEN [r EXCEPT !.hosts[j].addr = addr] ELSE r
    BY DEF UpdateHostAddress
<1>. HIDE DEF u, i, r, j
<1>5. CASE hosts[i].addr = addr
    <2>1. u.hosts = hosts /\ u.ok = FALSE /\ u.slot = hosts[i]
        BY <1>4, <1>5
    <2>2. hosts[i] \in Records /\ iss[hosts[i].fp] # 0
        BY <1>1, EntryFacts DEF Sound
    <2>. QED
        BY <1>1, <2>1, <2>2 DEF u
<1>6. CASE hosts[i].addr # addr /\ ~r.ok
    <2>1. u = r
        BY <1>4, <1>6
    <2>. QED
        BY <1>1, <1>2, <2>1 DEF u
<1>7. CASE hosts[i].addr # addr /\ r.ok
    <2>. DEFINE s == r.hosts
                n == Len(s)
                rec == [s[j] EXCEPT !.addr = addr]
                t == [s EXCEPT ![j] = rec]
    <2>0. s \in Seq(Records) /\ n \in Nat
        BY <1>2 DEF Sound
    <2>1. u.hosts = t /\ u.ok = r.ok /\ u.slot = r.slot
        <3>1. u = [r EXCEPT !.hosts[j].addr = addr]
            BY <1>4, <1>7
        <3>2. u = [hosts |-> [s EXCEPT ![j].addr = addr], ok |-> r.ok, slot |-> r.slot]
            BY <1>2, <3>1
        <3>. QED
            BY <3>2
    <2>2. s[j] \in Records
        BY <1>3, <2>0, EntryFacts
    <2>3. rec \in Records /\ rec.fp = s[j].fp /\ rec.cert = s[j].cert
        BY <2>2 DEF Records
    <2>. HIDE DEF rec, s
    <2>4. /\ t \in Seq(Records) /\ Len(t) = n
          /\ \A k \in 1..n : t[k] = IF k = j THEN rec ELSE s[k]
        BY <1>3, <2>0, <2>3, ExceptSeq DEF s
    <2>. HIDE DEF t
    <2>5. \A k \in 1..n : t[k].fp = s[k].fp /\ t[k].cert = s[k].cert
        BY <2>3, <2>4
    <2>6. Sound(s, iss)
        BY <1>2 DEF s
    <2>7. Sound(t, iss)
        <3>1. ASSUME NEW k \in 1..n, t[k].fp # None
              PROVE  iss[t[k].fp] # 0 /\ t[k].cert = iss[t[k].fp]
            BY <2>5, <2>6, <3>1 DEF Sound
        <3>2. ASSUME NEW k \in 1..n, NEW l \in 1..n, t[k].fp # None, t[k].fp = t[l].fp
              PROVE  k = l
            BY <2>5, <2>6, <3>2 DEF Sound
        <3>3. ASSUME NEW g \in Hosts, iss[g] # 0
              PROVE  \E k \in 1..n : t[k].fp = g
            BY <2>5, <2>6, <3>3 DEF Sound
        <3>. QED
            BY <2>4, <3>1, <3>2, <3>3 DEF Sound
    <2>. QED
        BY <1>1, <1>2, <2>1, <2>7 DEF u
<1>. QED
    BY <1>2, <1>5, <1>6, <1>7

(***************************************************************************)
(* The choice of a host.                                                   *)
(***************************************************************************)

ChoiceInv == ChoiceTypeOK /\ Sound(known, issued)

\* What a command or a pairing may choose.
Targets == [addr : Addresses, fp : Hosts \cup {None}]

\* Announced results are targets with a fingerprint.
LEMMA AnnouncedFacts ==
    ASSUME ChoiceInv, NEW r \in Announced
    PROVE  r \in Targets /\ r.fp \in Hosts
<1>0. PICK h \in Hosts : r \in {[addr |-> b, fp |-> h] : b \in at[h]}
    BY DEF Announced
<1>1. PICK a \in at[h] : r = [addr |-> a, fp |-> h]
    BY <1>0
<1>2. a \in Addresses
    BY DEF ChoiceInv, ChoiceTypeOK
<1>. QED
    BY <1>1, <1>2 DEF Targets

\* resolveClientHost keeps the table sound; the record is of a host that has issued a
\* certificate, or has no fingerprint, or there is none.
LEMMA ResolveFacts ==
    ASSUME ChoiceInv, NEW target \in Targets
    PROVE  LET choice == resolveClientHost(target) IN
           /\ Sound(choice.hosts, issued)
           /\ choice.record # None => /\ choice.record.fp \in Hosts \cup {None}
                                      /\ choice.record.fp # None => issued[choice.record.fp] # 0
           /\ target.fp # None /\ issued[target.fp] # 0
                /\ (\A j \in 1..Len(known) : known[j].fp # None)
              => choice.record # None /\ choice.record.fp = target.fp
<1>. DEFINE i == FindHostByFingerprint(known, target.fp)
            u == UpdateHostAddress(known, target.fp, target.addr)
            j == FindHostByFingerprint(u.hosts, target.fp)
            k == FindHostByAddress(known, target.addr)
            choice == resolveClientHost(target)
<1>0. /\ target.addr \in Addresses /\ target.fp \in Hosts \cup {None}
      /\ Sound(known, issued) /\ known \in Seq(Records)
    BY DEF Targets, ChoiceInv, Sound
<1>1. choice = IF i # 0
        THEN [hosts |-> u.hosts, save |-> u.ok, record |-> IF u.ok THEN u.hosts[j] ELSE u.slot]
        ELSE [hosts |-> known, save |-> FALSE, record |-> IF k = 0 THEN None ELSE known[k]]
    BY DEF resolveClientHost
<1>2. /\ i # 0 => i \in 1..Len(known) /\ target.fp # None /\ known[i].fp = target.fp
      /\ i = 0 /\ target.fp # None => \A l \in 1..Len(known) : known[l].fp # target.fp
    BY <1>0, FindFacts
<1>3. k = 0 \/ k \in 1..Len(known)
    BY <1>0, FindAddressFacts
<1>. HIDE DEF choice, i, k
<1>4. CASE i # 0
    <2>1. target.fp \in Hosts /\ issued[target.fp] # 0
        BY <1>0, <1>2, <1>4 DEF Sound
    <2>2. /\ u.ok \in BOOLEAN
          /\ Sound(u.hosts, issued) /\ u.slot \in Records
          /\ u.slot.fp # None => issued[u.slot.fp] # 0
          /\ (\A l \in 1..Len(known) : known[l].fp # None) => u.slot.fp = target.fp
        BY <1>0, <2>1, UpdateFacts
    <2>. HIDE DEF u
    <2>3. j \in 1..Len(u.hosts) /\ u.hosts[j].fp = target.fp
        BY <2>1, <2>2, FindSound
    <2>4. u.hosts[j] \in Records
        BY <2>2, <2>3, EntryFacts DEF Sound
    <2>. HIDE DEF j
    <2>5. choice.hosts = u.hosts /\ choice.record = IF u.ok THEN u.hosts[j] ELSE u.slot
        BY <1>1, <1>4
    <2>6. choice.record \in Records
        BY <2>2, <2>4, <2>5
    <2>7. choice.record # None /\ choice.record.fp \in Hosts \cup {None}
        BY <2>6, RecordFacts, HostChoiceAssumption
    <2>8. CASE u.ok
        BY <2>1, <2>2, <2>3, <2>5, <2>7, <2>8 DEF choice
    <2>9. CASE ~u.ok
        BY <2>1, <2>2, <2>5, <2>7, <2>9 DEF choice
    <2>. QED
        BY <2>8, <2>9
<1>5. CASE i = 0
    <2>1. choice.hosts = known /\ choice.record = IF k = 0 THEN None ELSE known[k]
        BY <1>1, <1>5
    <2>2. ~(target.fp # None /\ issued[target.fp] # 0)
        BY <1>0, <1>2, <1>5 DEF Sound
    <2>3. CASE k = 0
        BY <1>0, <2>1, <2>2, <2>3 DEF choice
    <2>4. CASE k # 0
        <3>1. k \in 1..Len(known)
            BY <1>3, <2>4
        <3>2. known[k].fp \in Hosts \cup {None} /\ (known[k].fp # None => issued[known[k].fp] # 0)
            BY <1>0, <3>1, EntryFacts DEF Sound
        <3>. QED
            BY <1>0, <2>1, <2>2, <2>4, <3>2 DEF choice
    <2>. QED
        BY <2>3, <2>4
<1>. QED
    BY <1>4, <1>5

\* The credentials for a host of a sound table are its own.
LEMMA CredentialsFacts ==
    ASSUME NEW hosts, NEW iss, Sound(hosts, iss), NEW h \in Hosts, iss[h] # 0, NEW addr
    PROVE  HostCredentials(hosts, addr, h) = iss[h]
<1>. DEFINE i == FindHostByFingerprint(hosts, h)
<1>1. i \in 1..Len(hosts) /\ hosts[i].fp = h /\ hosts[i].cert = iss[h]
    BY FindSound
<1>2. i # 0
    BY <1>1
<1>. HIDE DEF i
<1>. QED
    BY <1>1, <1>2 DEF HostCredentials, i

\* What resolveRemoteHost chooses is a target.
LEMMA RemoteFacts ==
    ASSUME ChoiceInv, NEW addr \in Addresses \cup {None}, NEW pin \in Hosts \cup {None},
           NEW results \in SUBSET Announced, NEW target \in resolveRemoteHost(addr, pin, results)
    PROVE  target \in Targets
<1>1. CASE addr # None
    BY <1>1 DEF resolveRemoteHost, Targets
<1>2. CASE addr = None
    <2>1. target \in results
        BY <1>2 DEF resolveRemoteHost, selectDiscoveredHost, selectSingleResult
    <2>. QED
        BY <2>1, AnnouncedFacts
<1>. QED
    BY <1>1, <1>2

\* The choice that Start makes: the certificate is the one that the host issued last.
LEMMA StartFacts ==
    ASSUME ChoiceInv, NEW target \in Targets, NEW pin,
           Accepted(resolveClientHost(target), target, pin)
    PROVE  LET choice == resolveClientHost(target)
               fp == choice.record.fp
           IN  fp \in Hosts /\ HostCredentials(choice.hosts, target.addr, fp) = issued[fp]
<1>. DEFINE choice == resolveClientHost(target)
            fp == choice.record.fp
<1>1. /\ Sound(choice.hosts, issued)
      /\ choice.record # None => /\ fp \in Hosts \cup {None}
                                 /\ fp # None => issued[fp] # 0
    BY ResolveFacts
<1>2. choice.record # None /\ fp # None
    BY DEF Accepted
<1>. HIDE DEF choice
<1>3. fp \in Hosts /\ issued[fp] # 0
    BY <1>1, <1>2
<1>. QED
    BY <1>1, <1>3, CredentialsFacts DEF choice

\* The initial table and addresses.
LEMMA ChoiceInitInv == ChoiceInit => ChoiceInv
<1> SUFFICES ASSUME ChoiceInit PROVE ChoiceInv
    OBVIOUS
<1>. DEFINE F == [Hosts -> {{a} : a \in Addresses}]
            OK(f) == \A g, h \in Hosts : g # h => f[g] # f[h]
<1>1. PICK f \in [Hosts -> Addresses] : \A g, h \in Hosts : g # h => f[g] # f[h]
    BY HostChoiceAssumption
<1>. DEFINE s == [h \in Hosts |-> {f[h]}]
<1>2. s \in F /\ OK(s)
    BY <1>1
<1>3. at \in F
    <2>1. at = CHOOSE x \in F : OK(x)
        BY DEF ChoiceInit
    <2>. HIDE DEF F, OK
    <2>. QED
        BY <1>2, <2>1
<1>4. at \in [Hosts -> SUBSET Addresses] /\ \A h \in Hosts : at[h] # {}
    BY <1>3
<1>5. issued = [h \in Hosts |-> 0] /\ moves = 0 /\ pairs = 0
    BY DEF ChoiceInit
<1>6. \A a \in UNION Range(at) : a \in Addresses
    BY <1>4 DEF Range
<1>7. UNION Range(at) # {}
    <2>1. PICK h \in Hosts : TRUE
        BY HostChoiceAssumption
    <2>2. at[h] # {} /\ at[h] \in Range(at)
        BY <1>4, <2>1 DEF Range
    <2>. QED
        BY <2>2
<1>. DEFINE a0 == CHOOSE a \in UNION Range(at) : TRUE
<1>8. a0 \in Addresses
    BY <1>6, <1>7
<1>. HIDE DEF a0
<1>9. Record(a0, None, 0) \in Records
    BY <1>8, HostChoiceAssumption DEF Record, Records
<1>10. CASE known = <<>>
    BY <1>4, <1>5, <1>10, HostChoiceAssumption DEF ChoiceInv, ChoiceTypeOK, Sound
<1>11. CASE known = <<Record(a0, None, 0)>>
    <2>. DEFINE old == Record(a0, None, 0)
    <2>1. old.fp = None
        BY DEF Record
    <2>2. known \in Seq(Records) /\ Len(known) = 1 /\ known[1] = old
        BY <1>9, <1>11
    <2>3. \A i \in 1..Len(known) : known[i].fp = None
        <3>. HIDE DEF old
        <3>. QED
            BY <2>1, <2>2
    <2>4. Sound(known, issued)
        BY <1>5, <2>2, <2>3 DEF Sound
    <2>. QED
        BY <1>4, <1>5, <2>2, <2>4, HostChoiceAssumption DEF ChoiceInv, ChoiceTypeOK
<1>. QED
    BY <1>10, <1>11 DEF ChoiceInit, a0

\* A pairing keeps the table sound.
LEMMA ChoicePair ==
    ASSUME ChoiceInv, RunPair
    PROVE  ChoiceInv'
<1>1. PICK addr \in Addresses \cup {None}, fp \in Hosts \cup {None} :
        \E target \in resolvePairTarget(addr, fp, Announced)
                        \cup resolveInitTarget(addr, fp, Announced) : Pair(target)
    BY DEF RunPair
<1>2. PICK target \in resolvePairTarget(addr, fp, Announced)
                        \cup resolveInitTarget(addr, fp, Announced) : Pair(target)
    BY <1>1
<1>3. target.addr \in Addresses /\ target.fp \in Hosts
    <2>1. target \in Announced \/ (addr # None /\ fp # None /\ target = [addr |-> addr, fp |-> fp])
        BY <1>2 DEF resolvePairTarget, resolveInitTarget
    <2>2. CASE target \in Announced
        BY <2>2, AnnouncedFacts DEF Targets
    <2>3. CASE addr # None /\ fp # None /\ target = [addr |-> addr, fp |-> fp]
        BY <2>3
    <2>. QED
        BY <2>1, <2>2, <2>3
<1>. DEFINE c == pairs + 1
<1>4. pairs \in Nat /\ c \in 1..MaxPairs /\ pairs' = c /\ pairs' \in 0..MaxPairs
    BY <1>2, HostChoiceAssumption DEF Pair, ChoiceInv, ChoiceTypeOK
<1>5. /\ issued' = [issued EXCEPT ![target.fp] = c]
      /\ known' = UpsertHost(known, Record(target.addr, target.fp, c))
      /\ UNCHANGED <<at, moves>>
    BY <1>2 DEF Pair
<1>6. issued \in [Hosts -> Nat] /\ issued \in [Hosts -> 0..pairs]
    <2>1. issued \in [Hosts -> 0..pairs]
        BY DEF ChoiceInv, ChoiceTypeOK
    <2>. QED
        BY <1>4, <2>1
<1>. HIDE DEF c
<1>7. Sound(known', issued')
    BY <1>3, <1>4, <1>5, <1>6, UpsertSound DEF ChoiceInv
<1>8. issued' \in [Hosts -> 0..pairs']
    <2>1. 0..pairs \subseteq 0..c /\ c \in 0..c
        BY <1>4 DEF c
    <2>. QED
        BY <1>3, <1>4, <1>5, <1>6, <2>1
<1>9. known' \in Seq(Records)
    BY <1>7 DEF Sound
<1>. QED
    BY <1>4, <1>5, <1>7, <1>8, <1>9 DEF ChoiceInv, ChoiceTypeOK

\* So does a move.
LEMMA ChoiceMove ==
    ASSUME ChoiceInv, Move
    PROVE  ChoiceInv'
<1>1. PICK h \in Hosts, new \in SUBSET Addresses : at' = [at EXCEPT ![h] = new]
    BY DEF Move
<1>2. moves' \in 0..MaxMoves /\ UNCHANGED <<known, issued, pairs>>
    BY HostChoiceAssumption DEF Move, ChoiceInv, ChoiceTypeOK
<1>3. at' \in [Hosts -> SUBSET Addresses]
    BY <1>1 DEF ChoiceInv, ChoiceTypeOK
<1>. QED
    BY <1>2, <1>3 DEF ChoiceInv, ChoiceTypeOK

(***************************************************************************)
(* The race of the two dials.                                              *)
(***************************************************************************)

Ends == {"none", "backlog", "open", "kept", "closed", "leaked"}
ConnType == [peer : Hosts \cup {None}, end : Ends, slot : BOOLEAN]

\* The types, record by record.
ShapeInv ==
    /\ command \in [pc : {"idle", "dialing", "connected", "failed"},
                    addr : Addresses \cup {None}, fp : Hosts \cup {None}, cert : Nat]
    /\ direct \in [pc : {"off", "dial", "handshake", "ready", "ended"}, conn : {0, 1}]
    /\ reverse \in [pc : {"off", "accept", "handshake", "ready", "ended"},
                    conn : {0} \cup 2..MaxConns]
    /\ accepted \in {0} \cup 2..MaxConns
    /\ conns \in [1..MaxConns -> ConnType]
    /\ timer \in BOOLEAN /\ claimed \in BOOLEAN

\* The counters.  One call of handleReverseConnect stands for each time that the request
\* became known.
CountInv ==
    /\ sends \in 0..Attempts /\ datagrams \in Nat /\ backs \in 0..tries
    /\ tries \in Nat /\ forgotten \in Nat
    /\ tries <= forgotten + (IF claimed THEN 1 ELSE 0)

\* The certificate of the command.
CommandInv ==
    command.pc # "idle" => command.fp \in Hosts /\ command.cert = issued[command.fp]

\* While there is no command there is nothing of one; the timer is for the first start
\* of the reverse dial; and requests, and what follows from them, are there only as long
\* as the listener is.
IdleInv ==
    /\ command.pc = "idle" => /\ direct = Off /\ reverse = Off /\ ~timer
                              /\ \A c \in 1..MaxConns : conns[c].end = "none"
    /\ timer => reverse = Off
    /\ ~Listening => accepted = 0 /\ sends = 0 /\ datagrams = 0 /\ backs = 0

\* Connection 1 is open exactly when the direct dial has it, and when it is handed over
\* it is to the right host.
DirectInv ==
    /\ direct.pc \in {"off", "dial"} => direct.conn = 0 /\ conns[1].end = "none"
    /\ direct.pc = "handshake" => direct.conn = 1
    /\ direct.conn = 1 /\ direct.pc \in {"handshake", "ready"} => conns[1].end = "open"
    /\ direct.conn = 1 /\ direct.pc = "ready" => conns[1].peer = command.fp
    /\ conns[1].end = "open" => direct.conn = 1 /\ direct.pc \in {"handshake", "ready"}
    /\ conns[1].end \notin {"backlog", "leaked"}

\* So are the others, by the reverse dial.
ReverseInv ==
    /\ reverse.pc \in {"off", "accept"} => reverse.conn = 0
    /\ reverse.pc = "handshake" => reverse.conn = accepted /\ accepted # 0
    /\ accepted # 0 => conns[accepted].end = "open"
    /\ reverse.pc = "ready" /\ reverse.conn # 0 =>
          conns[reverse.conn].end = "open" /\ conns[reverse.conn].peer = command.fp
    /\ \A c \in 2..MaxConns :
          /\ conns[c].end = "open" => accepted = c \/ (reverse.pc = "ready" /\ reverse.conn = c)
          /\ conns[c].end = "backlog" => Listening

\* A command that is connected has one connection, to the right host.
KeptInv ==
    /\ \A c \in 1..MaxConns : conns[c].end = "kept" => command.pc = "connected"
    /\ command.pc = "connected" =>
          \E c \in 1..MaxConns :
             /\ conns[c].end = "kept" /\ conns[c].peer = command.fp
             /\ \A d \in 1..MaxConns : conns[d].end = "kept" => d = c

\* The inductive invariant.
RaceInv ==
    /\ ChoiceInv /\ ShapeInv /\ CountInv /\ CommandInv
    /\ IdleInv /\ DirectInv /\ ReverseInv /\ KeptInv

\* The invariant holds initially.
LEMMA RaceInit == Init => RaceInv
<1> SUFFICES ASSUME Init PROVE RaceInv
    OBVIOUS
<1>1. ChoiceInv
    BY ChoiceInitInv DEF Init
<1>2. \A c \in 1..MaxConns : conns[c] = NoConn
    BY DEF Init
<1>3. ShapeInv
    <2>1. NoConn \in ConnType
        BY DEF NoConn, ConnType, Ends
    <2>2. conns \in [1..MaxConns -> ConnType]
        BY <2>1 DEF Init
    <2>. QED
        BY <2>2 DEF Init, ShapeInv, Idle, Off
<1>4. CountInv
    BY ConnectAssumption DEF Init, CountInv
<1>5. CommandInv /\ IdleInv
    BY <1>2 DEF Init, CommandInv, IdleInv, Idle, NoConn
<1>6. DirectInv
    <2>1. conns[1] = NoConn
        BY <1>2, ConnectAssumption
    <2>. QED
        BY <2>1 DEF Init, DirectInv, Off, NoConn
<1>7. ReverseInv /\ KeptInv
    BY <1>2 DEF Init, ReverseInv, KeptInv, Off, NoConn, Idle
<1>. QED
    BY <1>1, <1>3, <1>4, <1>5, <1>6, <1>7 DEF RaceInv

\* Steps that change no connection and nothing of the choice.  The timer fires.
LEMMA RaceTimer == ASSUME RaceInv, TimerFires PROVE RaceInv'
<1>. USE DEF TimerFires, StartReverse, Dialing, choiceVars, host, net, RaceInv, Listening
<1>1. ChoiceInv' /\ CommandInv'
    BY DEF ChoiceInv, ChoiceTypeOK, CommandInv
<1>2. ShapeInv'
    BY DEF ShapeInv
<1>6. CountInv'
    BY ConnectAssumption DEF CountInv
<1>3. IdleInv' /\ DirectInv'
    BY DEF IdleInv, DirectInv
<1>4. ReverseInv'
    BY DEF IdleInv, ReverseInv, Off
<1>5. KeptInv'
    BY DEF KeptInv
<1>. QED
    BY <1>1, <1>2, <1>3, <1>4, <1>5, <1>6

\* The dial fails.
LEMMA RaceDialFails ==
    ASSUME RaceInv, NEW interrupt \in BOOLEAN, DialFails(interrupt) PROVE RaceInv'
<1>. USE DEF DialFails, Dialing, choiceVars, host, net, RaceInv, Listening
<1>1. command' = [command EXCEPT !.pc = "failed"] /\ command'.pc = "failed"
      /\ command'.fp = command.fp /\ command'.cert = command.cert
    BY DEF ShapeInv
<1>2. ChoiceInv' /\ CommandInv'
    BY <1>1 DEF ChoiceInv, ChoiceTypeOK, CommandInv
<1>3. ShapeInv' /\ CountInv'
    BY <1>1 DEF ShapeInv, CountInv
<1>4. IdleInv' /\ DirectInv'
    BY <1>1 DEF IdleInv, DirectInv
<1>5. ReverseInv'
    BY <1>1 DEF ReverseInv
<1>6. KeptInv'
    BY <1>1 DEF KeptInv
<1>. QED
    BY <1>2, <1>3, <1>4, <1>5, <1>6

\* The handshake of the direct dial is done.
LEMMA RaceDirectDone == ASSUME RaceInv, DirectDone PROVE RaceInv'
<1>. USE DEF DirectDone, PeerAccepted, choiceVars, host, net, RaceInv, Listening
<1>1. direct' = [direct EXCEPT !.pc = "ready"] /\ direct'.pc = "ready"
      /\ direct'.conn = direct.conn
    BY DEF ShapeInv
<1>2. ChoiceInv' /\ CommandInv'
    BY <1>1 DEF ChoiceInv, ChoiceTypeOK, CommandInv
<1>3. ShapeInv' /\ CountInv'
    BY <1>1 DEF ShapeInv, CountInv
<1>4. IdleInv'
    BY <1>1 DEF IdleInv, Off
<1>5. DirectInv'
    BY <1>1 DEF DirectInv
<1>6. ReverseInv'
    BY <1>1 DEF ReverseInv
<1>7. KeptInv'
    BY <1>1 DEF KeptInv
<1>. QED
    BY <1>2, <1>3, <1>4, <1>5, <1>6, <1>7

\* A request is sent.
LEMMA RaceSendRequest == ASSUME RaceInv, SendRequest PROVE RaceInv'
<1>. USE DEF SendRequest, choiceVars, host, RaceInv, Listening
<1>1. ChoiceInv' /\ CommandInv'
    BY DEF ChoiceInv, ChoiceTypeOK, CommandInv
<1>2. ShapeInv' /\ CountInv'
    BY ConnectAssumption DEF ShapeInv, CountInv
<1>3. IdleInv' /\ DirectInv'
    BY DEF IdleInv, DirectInv, CountInv
<1>4. ReverseInv' /\ KeptInv'
    BY DEF ReverseInv, KeptInv
<1>. QED
    BY <1>1, <1>2, <1>3, <1>4

\* The reverse dial takes the connection that was accepted.
LEMMA RaceTakeAccepted == ASSUME RaceInv, TakeAccepted PROVE RaceInv'
<1>. USE DEF TakeAccepted, choiceVars, host, net, RaceInv, Listening
<1>1. ChoiceInv' /\ CommandInv'
    BY DEF ChoiceInv, ChoiceTypeOK, CommandInv
<1>2. ShapeInv' /\ CountInv'
    BY ConnectAssumption DEF ShapeInv, CountInv
<1>3. IdleInv' /\ DirectInv'
    BY DEF IdleInv, DirectInv, Off
<1>4. ReverseInv' /\ KeptInv'
    BY DEF ReverseInv, KeptInv
<1>. QED
    BY <1>1, <1>2, <1>3, <1>4

\* The steps of the network and of the responder.
LEMMA RaceNetwork ==
    ASSUME RaceInv, Lose \/ Duplicate \/ Deliver \/ Forget
    PROVE  RaceInv'
<1>1. /\ UNCHANGED <<choiceVars, client, conns, backs>> \/ UNCHANGED <<choiceVars, client, conns>>
      /\ datagrams > 0 \/ UNCHANGED <<datagrams, backs>>
    BY DEF Lose, Duplicate, Deliver, Forget, host, net
<1>2. UNCHANGED <<at, known, issued, moves, pairs, command, timer, direct, reverse, accepted,
                  sends, conns>>
    BY <1>1 DEF choiceVars, client
<1>3. ChoiceInv' /\ CommandInv'
    BY <1>2 DEF RaceInv, ChoiceInv, ChoiceTypeOK, CommandInv
<1>4. claimed' \in BOOLEAN
    BY DEF Lose, Duplicate, Deliver, Forget, claimReverseRequest, host, RaceInv, ShapeInv
<1>5. ShapeInv'
    BY <1>2, <1>4 DEF RaceInv, ShapeInv
<1>6. CountInv'
    <2>. USE DEF RaceInv, CountInv
    <2>1. CASE Lose
        BY <1>2, <2>1 DEF Lose, host
    <2>2. CASE Duplicate
        BY <1>2, <2>2 DEF Duplicate, host
    <2>3. CASE Deliver
        BY <1>2, <2>3 DEF Deliver, claimReverseRequest
    <2>4. CASE Forget
        BY <1>2, <2>4 DEF Forget, net
    <2>. QED
        BY <2>1, <2>2, <2>3, <2>4
<1>7. IdleInv' /\ DirectInv'
    BY <1>1, <1>2 DEF RaceInv, IdleInv, DirectInv, CountInv, Listening
<1>8. ReverseInv' /\ KeptInv'
    BY <1>2 DEF RaceInv, ReverseInv, KeptInv, Listening
<1>. QED
    BY <1>3, <1>5, <1>6, <1>7, <1>8 DEF RaceInv

\* A table in which some connections have another end.
Ended(t, table, ids, e) ==
    /\ t \in [1..MaxConns -> ConnType]
    /\ \A d \in 1..MaxConns : /\ t[d].peer = table[d].peer
                              /\ d \in ids => t[d].end = e
                              /\ d \notin ids => t[d].end = table[d].end

\* This is what a change of one end does ...
LEMMA EndFacts ==
    ASSUME NEW table \in [1..MaxConns -> ConnType], NEW c \in 1..MaxConns, NEW e \in Ends
    PROVE  Ended([table EXCEPT ![c].end = e], table, {c}, e)
<1>. DEFINE t == [table EXCEPT ![c].end = e]
<1>1. \A d \in 1..MaxConns : table[d] \in ConnType
    OBVIOUS
<1>2. [table[c] EXCEPT !.end = e] \in ConnType
    BY <1>1 DEF ConnType
<1>3. t \in [1..MaxConns -> ConnType]
    BY <1>2
<1>4. \A d \in 1..MaxConns : /\ t[d].peer = table[d].peer
                             /\ t[d].end = IF d = c THEN e ELSE table[d].end
    BY <1>1 DEF ConnType
<1>. HIDE DEF t
<1>5. Ended(t, table, {c}, e)
    BY <1>3, <1>4 DEF Ended
<1>. QED
    BY <1>5 DEF t

\* ... and what Close does.
LEMMA CloseFacts ==
    ASSUME NEW table \in [1..MaxConns -> ConnType], NEW ids
    PROVE  Ended(Close(table, ids), table, ids, "closed")
<1>. DEFINE t == Close(table, ids)
<1>1. \A d \in 1..MaxConns : table[d] \in ConnType
    OBVIOUS
<1>2. \A d \in 1..MaxConns : /\ [table[d] EXCEPT !.end = "closed"] \in ConnType
                             /\ [table[d] EXCEPT !.end = "closed"].end = "closed"
                             /\ [table[d] EXCEPT !.end = "closed"].peer = table[d].peer
    BY <1>1 DEF ConnType, Ends
<1>3. /\ t \in [1..MaxConns -> ConnType]
      /\ \A d \in 1..MaxConns : /\ d \in ids => t[d] = [table[d] EXCEPT !.end = "closed"]
                                /\ d \notin ids => t[d] = table[d]
    BY <1>1, <1>2 DEF Close
<1>. HIDE DEF t
<1>4. Ended(t, table, ids, "closed")
    BY <1>2, <1>3 DEF Ended
<1>. QED
    BY <1>4 DEF t

\* The command takes the connection of the direct dial, or its error.
LEMMA RaceTakeDirect == ASSUME RaceInv, TakeDirect PROVE RaceInv'
<1>. USE DEF TakeDirect, Dialing, choiceVars, host, RaceInv, Listening
<1>0. 1 \in 1..MaxConns
    BY ConnectAssumption
<1>1. direct'.pc = "ended" /\ direct'.conn = direct.conn /\ direct'.conn \in {0, 1}
      /\ direct' = [direct EXCEPT !.pc = "ended"]
    BY DEF ShapeInv
<1>2. ChoiceInv'
    BY DEF ChoiceInv, ChoiceTypeOK
<1>3. CASE direct.conn = 0
    <2>1. UNCHANGED <<command, conns>>
        BY <1>3
    <2>2. \/ StartReverse /\ reverse.pc \in {"off", "ended"}
          \/ UNCHANGED <<timer, reverse, sends>>
        BY <1>3
    <2>3. ShapeInv'
        <3>1. direct' \in [pc : {"off", "dial", "handshake", "ready", "ended"}, conn : {0, 1}]
            BY <1>1 DEF ShapeInv
        <3>2. CASE UNCHANGED <<timer, reverse, sends>>
            BY <2>1, <3>1, <3>2 DEF ShapeInv
        <3>3. CASE StartReverse
            BY <2>1, <3>1, <3>3 DEF ShapeInv, StartReverse
        <3>. QED
            BY <2>2, <3>2, <3>3
    <2>4. CountInv'
        BY <1>1, <2>2, ConnectAssumption DEF CountInv, StartReverse
    <2>5. CommandInv' /\ KeptInv'
        BY <2>1 DEF CommandInv, KeptInv
    <2>6. IdleInv'
        BY <1>1, <2>1, <2>2 DEF IdleInv, StartReverse
    <2>7. DirectInv'
        BY <1>1, <1>3, <2>1 DEF DirectInv
    <2>8. ReverseInv'
        BY <2>1, <2>2 DEF IdleInv, ReverseInv, StartReverse
    <2>. QED
        BY <1>2, <2>3, <2>4, <2>5, <2>6, <2>7, <2>8
<1>4. CASE direct.conn # 0
    <2>1. direct.conn = 1
        BY <1>4 DEF ShapeInv
    <2>2. /\ Keep(1) /\ UNCHANGED <<timer, reverse, sends>>
        BY <1>4, <2>1
    <2>3. /\ command' = [command EXCEPT !.pc = "connected"] /\ command'.pc = "connected"
          /\ command'.fp = command.fp /\ command'.cert = command.cert
        BY <2>2 DEF Keep, ShapeInv
    <2>4. Ended(conns', conns, {1}, "kept")
        <3>1. "kept" \in Ends /\ conns \in [1..MaxConns -> ConnType]
            BY DEF Ends, ShapeInv
        <3>2. Ended([conns EXCEPT ![1].end = "kept"], conns, {1}, "kept")
            BY <1>0, <3>1, EndFacts, Zenon
        <3>3. conns' = [conns EXCEPT ![1].end = "kept"]
            BY <2>2 DEF Keep
        <3>. QED
            BY <3>2, <3>3, Zenon
    <2>5. ShapeInv' /\ CountInv'
        BY <1>1, <2>2, <2>3, <2>4 DEF ShapeInv, CountInv, Ended
    <2>6. CommandInv' /\ IdleInv'
        BY <2>2, <2>3 DEF CommandInv, IdleInv
    <2>7. DirectInv'
        BY <1>0, <1>1, <2>4 DEF DirectInv, Ended
    <2>8. ReverseInv'
        BY <2>2, <2>3, <2>4 DEF ReverseInv, ShapeInv, Ended
    <2>9. KeptInv'
        <3>1. conns[1].peer = command.fp
            BY <2>1 DEF DirectInv
        <3>2. \A d \in 1..MaxConns : conns'[d].end = "kept" => d = 1
            BY <2>4 DEF KeptInv, Ended
        <3>. QED
            BY <1>0, <2>3, <2>4, <3>1, <3>2 DEF KeptInv, Ended
    <2>. QED
        BY <1>2, <2>5, <2>6, <2>7, <2>8, <2>9
<1>. QED
    BY <1>3, <1>4

\* The command takes the connection of the reverse dial, or its error.
LEMMA RaceTakeReverse == ASSUME RaceInv, TakeReverse PROVE RaceInv'
<1>. USE DEF TakeReverse, Dialing, choiceVars, host, RaceInv, Listening
<1>1. reverse'.pc = "ended" /\ reverse'.conn = reverse.conn
      /\ reverse' = [reverse EXCEPT !.pc = "ended"]
    BY DEF ShapeInv
<1>2. ChoiceInv'
    BY DEF ChoiceInv, ChoiceTypeOK
<1>3. CASE reverse.conn = 0
    <2>1. UNCHANGED <<command, conns>>
        BY <1>3
    <2>2. ShapeInv' /\ CountInv'
        BY <1>1, <2>1 DEF ShapeInv, CountInv
    <2>3. CommandInv' /\ KeptInv'
        BY <2>1 DEF CommandInv, KeptInv
    <2>4. IdleInv' /\ DirectInv'
        BY <1>1, <2>1 DEF IdleInv, DirectInv, Off
    <2>5. ReverseInv'
        BY <1>1, <1>3, <2>1 DEF ReverseInv, ShapeInv
    <2>. QED
        BY <1>2, <2>2, <2>3, <2>4, <2>5
<1>4. CASE reverse.conn # 0
    <2>. DEFINE c == reverse.conn
    <2>1. c \in 2..MaxConns /\ c \in 1..MaxConns /\ 1 \in 1..MaxConns /\ c # 1
        BY <1>4, ConnectAssumption DEF ShapeInv
    <2>2. Keep(c)
        BY <1>4
    <2>3. /\ command' = [command EXCEPT !.pc = "connected"] /\ command'.pc = "connected"
          /\ command'.fp = command.fp /\ command'.cert = command.cert
        BY <2>2 DEF Keep, ShapeInv
    <2>4. Ended(conns', conns, {c}, "kept")
        <3>1. "kept" \in Ends /\ conns \in [1..MaxConns -> ConnType]
            BY DEF Ends, ShapeInv
        <3>2. Ended([conns EXCEPT ![c].end = "kept"], conns, {c}, "kept")
            BY <2>1, <3>1, EndFacts, Zenon
        <3>3. conns' = [conns EXCEPT ![c].end = "kept"]
            BY <2>2 DEF Keep
        <3>. QED
            BY <3>2, <3>3, Zenon
    <2>. HIDE DEF c
    <2>5. ShapeInv' /\ CountInv'
        BY <1>1, <2>3, <2>4 DEF ShapeInv, CountInv, Ended
    <2>6. CommandInv' /\ IdleInv'
        BY <1>1, <2>3 DEF CommandInv, IdleInv, Off
    <2>7. DirectInv'
        BY <2>1, <2>3, <2>4 DEF DirectInv, Ended
    <2>8. ReverseInv'
        <3>1. accepted = 0
            BY DEF IdleInv
        <3>2. \A d \in 2..MaxConns : d \in 1..MaxConns
            OBVIOUS
        <3>. QED
            BY <1>1, <2>1, <2>3, <2>4, <3>1, <3>2 DEF ReverseInv, ShapeInv, c, Ended
    <2>9. KeptInv'
        <3>1. conns[c].peer = command.fp
            BY <1>4 DEF ReverseInv, c
        <3>2. \A d \in 1..MaxConns : conns'[d].end = "kept" => d = c
            BY <2>4 DEF KeptInv, Ended
        <3>. QED
            BY <2>1, <2>3, <2>4, <3>1, <3>2 DEF KeptInv, Ended
    <2>. QED
        BY <1>2, <2>5, <2>6, <2>7, <2>8, <2>9
<1>. QED
    BY <1>3, <1>4

\* The command exits.
LEMMA RaceExit == ASSUME RaceInv, Exit PROVE RaceInv'
<1>. USE DEF Exit, Over, choiceVars, host, RaceInv, Listening
<1>1. \A c \in 1..MaxConns : conns'[c] = NoConn
    OBVIOUS
<1>2. ChoiceInv'
    BY DEF ChoiceInv, ChoiceTypeOK
<1>3. ShapeInv'
    <2>1. NoConn \in ConnType
        BY DEF NoConn, ConnType, Ends
    <2>2. conns' \in [1..MaxConns -> ConnType]
        BY <2>1
    <2>. QED
        BY <2>2 DEF ShapeInv, Idle, Off
<1>4. CountInv' /\ CommandInv'
    BY DEF CountInv, CommandInv, Idle
<1>5. IdleInv'
    BY <1>1 DEF IdleInv, NoConn, Off
<1>6. DirectInv'
    <2>1. conns'[1] = NoConn
        BY <1>1, ConnectAssumption
    <2>. QED
        BY <2>1 DEF DirectInv, Off, NoConn
<1>7. ReverseInv'
    <2>1. accepted = 0
        BY DEF IdleInv
    <2>. QED
        BY <1>1, <2>1 DEF ReverseInv, Off, NoConn
<1>8. KeptInv'
    BY <1>1 DEF KeptInv, NoConn, Idle
<1>. QED
    BY <1>2, <1>3, <1>4, <1>5, <1>6, <1>7, <1>8

\* A host accepts the connection that is dialled.
LEMMA RaceDirectOpen == ASSUME RaceInv, DirectOpen PROVE RaceInv'
<1>. USE DEF DirectOpen, choiceVars, host, RaceInv, Listening
<1>0. 1 \in 1..MaxConns /\ 1 \notin 2..MaxConns /\ \A d \in 2..MaxConns : d \in 1..MaxConns
    BY ConnectAssumption
<1>1. PICK h \in Hosts :
        conns' = [conns EXCEPT ![1] = [peer |-> h, end |-> "open", slot |-> TRUE]]
    OBVIOUS
<1>2. [peer |-> h, end |-> "open", slot |-> TRUE] \in ConnType
    BY DEF ConnType, Ends
<1>3. /\ conns' \in [1..MaxConns -> ConnType]
      /\ conns'[1].end = "open"
      /\ \A d \in 1..MaxConns : d # 1 => conns'[d] = conns[d]
    BY <1>0, <1>1, <1>2 DEF ShapeInv
<1>4. ChoiceInv' /\ CommandInv'
    BY DEF ChoiceInv, ChoiceTypeOK, CommandInv
<1>5. ShapeInv' /\ CountInv'
    BY <1>3 DEF ShapeInv, CountInv
<1>6. IdleInv' /\ DirectInv'
    BY <1>3 DEF IdleInv, DirectInv, Off
<1>7. ReverseInv'
    BY <1>0, <1>3 DEF ReverseInv, ShapeInv
<1>8. KeptInv'
    BY <1>0, <1>3 DEF KeptInv, DirectInv
<1>. QED
    BY <1>4, <1>5, <1>6, <1>7, <1>8

\* KeptInv is about the connections that are kept only.
LEMMA KeptSame ==
    ASSUME KeptInv, UNCHANGED command,
           \A d \in 1..MaxConns : /\ conns'[d].end = "kept" <=> conns[d].end = "kept"
                                  /\ conns[d].end = "kept" => conns'[d].peer = conns[d].peer
    PROVE  KeptInv'
BY DEF KeptInv

\* ReverseInv is not about connection 1.
LEMMA ReverseSame ==
    ASSUME ReverseInv, ShapeInv, UNCHANGED <<command, reverse, accepted>>,
           \A d \in 2..MaxConns : conns'[d].end = conns[d].end /\ conns'[d].peer = conns[d].peer
    PROVE  ReverseInv'
BY DEF ReverseInv, ShapeInv, Listening

\* The direct dial fails, and its connection is closed.
LEMMA RaceDirectFails == ASSUME RaceInv, DirectFails PROVE RaceInv'
<1>. USE DEF DirectFails, choiceVars, host, RaceInv, Listening
<1>0. 1 \in 1..MaxConns /\ \A d \in 2..MaxConns : d \in 1..MaxConns /\ d # 1
    BY ConnectAssumption
<1>1. Ended(conns', conns, {direct.conn}, "closed")
    BY CloseFacts DEF ShapeInv
<1>2. direct.conn \in {0, 1}
    BY DEF ShapeInv
<1>3. ChoiceInv' /\ CommandInv'
    BY DEF ChoiceInv, ChoiceTypeOK, CommandInv
<1>4. ShapeInv' /\ CountInv'
    BY ZenonT(40), <1>1 DEF ShapeInv, CountInv, Ended
<1>5. IdleInv'
    BY DEF IdleInv, Off
<1>6. DirectInv'
    BY <1>0, <1>1, <1>2 DEF DirectInv, Ended
<1>7. ReverseInv'
    <2>1. \A d \in 2..MaxConns : d \notin {direct.conn}
        BY <1>0, <1>2
    <2>2. \A d \in 2..MaxConns : conns'[d].end = conns[d].end /\ conns'[d].peer = conns[d].peer
        BY <1>0, <1>1, <2>1 DEF Ended
    <2>. QED
        BY <2>2, ReverseSame
<1>8. KeptInv'
    <2>1. \A d \in 1..MaxConns : d = direct.conn => conns[d].end # "kept"
        BY <1>2 DEF DirectInv
    <2>2. \A d \in 1..MaxConns : conns'[d].end = "kept" <=> conns[d].end = "kept"
        BY <1>1, <2>1 DEF Ended
    <2>. QED
        BY <1>1, <2>2, KeptSame DEF Ended
<1>. QED
    BY <1>3, <1>4, <1>5, <1>6, <1>7, <1>8

\* The result of the direct dial comes too late.
LEMMA RaceDropDirect == ASSUME RaceInv, DropDirect PROVE RaceInv'
<1>. USE DEF DropDirect, Drop, Over, choiceVars, host, RaceInv, Listening
<1>0. 1 \in 1..MaxConns /\ \A d \in 2..MaxConns : d \in 1..MaxConns /\ d # 1
    BY ConnectAssumption
<1>1. Ended(conns', conns, {direct.conn}, "closed")
    BY CloseFacts DEF ShapeInv
<1>2. direct.conn \in {0, 1} /\ direct' = [direct EXCEPT !.pc = "ended"]
      /\ direct'.pc = "ended" /\ direct'.conn = direct.conn
    BY DEF ShapeInv
<1>3. ChoiceInv' /\ CommandInv'
    BY DEF ChoiceInv, ChoiceTypeOK, CommandInv
<1>4. ShapeInv' /\ CountInv'
    BY ZenonT(40), <1>1, <1>2 DEF ShapeInv, CountInv, Ended
<1>5. IdleInv'
    BY DEF IdleInv, Off
<1>6. DirectInv'
    BY <1>0, <1>1, <1>2 DEF DirectInv, Ended
<1>7. ReverseInv'
    <2>1. \A d \in 2..MaxConns : d \notin {direct.conn}
        BY <1>0, <1>2
    <2>2. \A d \in 2..MaxConns : conns'[d].end = conns[d].end /\ conns'[d].peer = conns[d].peer
        BY <1>0, <1>1, <2>1 DEF Ended
    <2>. QED
        BY <2>2, ReverseSame
<1>8. KeptInv'
    <2>1. \A d \in 1..MaxConns : d = direct.conn => conns[d].end # "kept"
        BY <1>2 DEF DirectInv
    <2>2. \A d \in 1..MaxConns : conns'[d].end = "kept" <=> conns[d].end = "kept"
        BY <1>1, <2>1 DEF Ended
    <2>. QED
        BY <1>1, <2>2, KeptSame DEF Ended
<1>. QED
    BY <1>3, <1>4, <1>5, <1>6, <1>7, <1>8

\* A connection that was dialled back is accepted.
LEMMA RaceAccept == ASSUME RaceInv, Accept PROVE RaceInv'
<1>. USE DEF Accept, choiceVars, host, RaceInv, Listening
<1>0. 1 \in 1..MaxConns /\ \A d \in 2..MaxConns : d \in 1..MaxConns /\ d # 1
    BY ConnectAssumption
<1>1. PICK c \in Backlog : accepted' = c /\ conns' = [conns EXCEPT ![c].end = "open"]
    OBVIOUS
<1>2. c \in 1..MaxConns /\ conns[c].end = "backlog"
    BY <1>1 DEF Backlog, ShapeInv
<1>3. c # 1 /\ c \in 2..MaxConns
    BY <1>2, ConnectAssumption DEF DirectInv
<1>4. Ended(conns', conns, {c}, "open")
    <2>1. "open" \in Ends /\ conns \in [1..MaxConns -> ConnType]
        BY DEF Ends, ShapeInv
    <2>2. Ended([conns EXCEPT ![c].end = "open"], conns, {c}, "open")
        BY <1>2, <2>1, EndFacts, Zenon
    <2>. QED
        BY <1>1, <2>2, Zenon
<1>5. ChoiceInv' /\ CommandInv'
    BY DEF ChoiceInv, ChoiceTypeOK, CommandInv
<1>6. ShapeInv' /\ CountInv'
    BY <1>1, <1>3, <1>4 DEF ShapeInv, CountInv, Ended
<1>7. IdleInv'
    BY DEF IdleInv, Off
<1>8. DirectInv'
    BY <1>0, <1>3, <1>4 DEF DirectInv, Ended
<1>9. ReverseInv'
    BY <1>0, <1>1, <1>3, <1>4 DEF ReverseInv, Ended
<1>10. KeptInv'
    BY <1>2, <1>4 DEF KeptInv, Ended
<1>. QED
    BY <1>5, <1>6, <1>7, <1>8, <1>9, <1>10

\* acceptReverse gives up, and a connection may leak.
LEMMA RaceAcceptFails == ASSUME RaceInv, AcceptFails PROVE RaceInv'
<1>. USE DEF AcceptFails, StopListening, choiceVars, RaceInv, Listening
<1>0. 1 \in 1..MaxConns /\ \A d \in 2..MaxConns : d \in 1..MaxConns /\ d # 1
    BY ConnectAssumption
<1>. DEFINE t == Close(conns, Backlog)
<1>1. Ended(t, conns, Backlog, "closed")
    BY CloseFacts DEF ShapeInv
<1>2. /\ DOMAIN conns = 1..MaxConns
      /\ \A d \in 1..MaxConns : conns[d] \in ConnType
      /\ \A d \in 1..MaxConns : conns'[d] =
            IF d = accepted THEN [conns[d] EXCEPT !.end = "leaked"] ELSE t[d]
      /\ conns' = [d \in 1..MaxConns |->
            IF d = accepted THEN [conns[d] EXCEPT !.end = "leaked"] ELSE t[d]]
    BY DEF ShapeInv
<1>3. \A d \in Backlog : conns[d].end = "backlog"
    BY DEF Backlog
<1>4. \A d \in 1..MaxConns : conns[d].end = "backlog" => d \in Backlog
    BY <1>2 DEF Backlog
<1>. HIDE DEF t
<1>5. \A d \in 1..MaxConns : [conns[d] EXCEPT !.end = "leaked"] \in ConnType
          /\ [conns[d] EXCEPT !.end = "leaked"].end = "leaked"
    BY <1>2 DEF ConnType, Ends
<1>6. conns' \in [1..MaxConns -> ConnType]
    BY <1>1, <1>2, <1>5 DEF Ended
<1>7. \A d \in 1..MaxConns :
          /\ d = accepted => conns'[d].end = "leaked"
          /\ d # accepted /\ d \in Backlog => conns'[d].end = "closed"
          /\ d # accepted /\ d \notin Backlog => conns'[d].end = conns[d].end
                                               /\ conns'[d].peer = conns[d].peer
    BY <1>1, <1>2, <1>5 DEF Ended
<1>8. accepted \in {0} \cup 2..MaxConns /\ (accepted # 0 => conns[accepted].end = "open")
    BY DEF ShapeInv, ReverseInv
<1>9. ChoiceInv' /\ CommandInv'
    BY DEF ChoiceInv, ChoiceTypeOK, CommandInv
<1>10. ShapeInv' /\ CountInv'
    <2>1. ShapeInv'
        BY <1>6 DEF ShapeInv
    <2>2. CountInv'
        BY ConnectAssumption DEF CountInv
    <2>. QED
        BY <2>1, <2>2
<1>11. IdleInv'
    BY DEF IdleInv, Off
<1>12. DirectInv'
    BY SMTT(30), <1>0, <1>3, <1>7, <1>8 DEF DirectInv
<1>13. ReverseInv'
    BY <1>0, <1>3, <1>4, <1>7, <1>8 DEF ReverseInv
<1>14. KeptInv'
    <2>1. \A d \in 1..MaxConns : d = accepted \/ d \in Backlog => conns[d].end # "kept"
        BY <1>3, <1>8
    <2>. QED
        BY <1>7, <2>1, KeptSame
<1>. QED
    BY <1>9, <1>10, <1>11, <1>12, <1>13, <1>14

\* The handshake of the reverse dial is done, and its listener is closed.
LEMMA RaceReverseDone == ASSUME RaceInv, ReverseDone PROVE RaceInv'
<1>. USE DEF ReverseDone, PeerAccepted, StopListening, choiceVars, RaceInv, Listening
<1>0. 1 \in 1..MaxConns /\ \A d \in 2..MaxConns : d \in 1..MaxConns /\ d # 1
    BY ConnectAssumption
<1>1. Ended(conns', conns, Backlog, "closed")
    BY CloseFacts DEF ShapeInv
<1>2. reverse' = [reverse EXCEPT !.pc = "ready"] /\ reverse'.pc = "ready"
      /\ reverse'.conn = reverse.conn
    BY DEF ShapeInv
<1>3. \A d \in 1..MaxConns : d \in Backlog <=> conns[d].end = "backlog"
    BY DEF Backlog, ShapeInv
<1>4. reverse.conn = accepted /\ accepted \in 2..MaxConns /\ conns[accepted].end = "open"
    BY DEF ReverseInv, ShapeInv
<1>5. ChoiceInv' /\ CommandInv'
    BY DEF ChoiceInv, ChoiceTypeOK, CommandInv
<1>6. ShapeInv' /\ CountInv'
    <2>1. ShapeInv'
        BY <1>1, <1>2 DEF ShapeInv, Ended
    <2>2. CountInv'
        BY ConnectAssumption DEF CountInv
    <2>. QED
        BY <2>1, <2>2
<1>7. IdleInv'
    BY <1>2 DEF IdleInv, Off
<1>8. DirectInv'
    BY <1>0, <1>1, <1>3 DEF DirectInv, Ended
<1>9. ReverseInv'
    BY <1>0, <1>1, <1>2, <1>3, <1>4 DEF ReverseInv, Ended
<1>10. KeptInv'
    BY <1>1, <1>3 DEF KeptInv, Ended
<1>. QED
    BY <1>5, <1>6, <1>7, <1>8, <1>9, <1>10

\* The handshake of the reverse dial fails.
LEMMA RaceReverseFails == ASSUME RaceInv, ReverseFails PROVE RaceInv'
<1>. USE DEF ReverseFails, StopListening, choiceVars, RaceInv, Listening
<1>. DEFINE ids == Backlog \cup {reverse.conn}
<1>0. 1 \in 1..MaxConns /\ \A d \in 2..MaxConns : d \in 1..MaxConns /\ d # 1
    BY ConnectAssumption
<1>1. Ended(conns', conns, ids, "closed")
    BY CloseFacts DEF ShapeInv
<1>2. \A d \in 1..MaxConns : d \in ids <=> conns[d].end = "backlog" \/ d = reverse.conn
    BY DEF Backlog, ShapeInv
<1>3. reverse.conn = accepted /\ accepted \in 2..MaxConns /\ conns[accepted].end = "open"
    BY DEF ReverseInv, ShapeInv
<1>. HIDE DEF ids
<1>4. ChoiceInv' /\ CommandInv'
    BY DEF ChoiceInv, ChoiceTypeOK, CommandInv
<1>5. ShapeInv' /\ CountInv'
    <2>1. ShapeInv'
        BY <1>1 DEF ShapeInv, Ended
    <2>2. CountInv'
        BY ConnectAssumption DEF CountInv
    <2>. QED
        BY <2>1, <2>2
<1>6. IdleInv'
    BY DEF IdleInv, Off
<1>7. DirectInv'
    BY <1>0, <1>1, <1>2, <1>3 DEF DirectInv, Ended
<1>8. ReverseInv'
    <2>1. \A d \in 2..MaxConns :
              /\ conns'[d].end = "open" => conns[d].end = "open" /\ d # accepted
              /\ conns'[d].end # "backlog"
        BY ZenonT(40), <1>0, <1>1, <1>2, <1>3 DEF Ended
    <2>2. \A d \in 2..MaxConns : conns'[d].end # "open"
        BY <1>3, <2>1 DEF ReverseInv
    <2>3. reverse'.pc = "ready" /\ reverse'.conn = 0 /\ accepted' = 0
        OBVIOUS
    <2>. QED
        BY <2>1, <2>2, <2>3 DEF ReverseInv
<1>9. KeptInv'
    <2>1. \A d \in 1..MaxConns : d \in ids => conns[d].end # "kept"
        BY <1>2, <1>3
    <2>2. \A d \in 1..MaxConns : conns'[d].end = "kept" <=> conns[d].end = "kept"
        BY <1>1, <2>1 DEF Ended
    <2>. QED
        BY <1>1, <2>2, KeptSame DEF Ended
<1>. QED
    BY <1>4, <1>5, <1>6, <1>7, <1>8, <1>9

\* The result of the reverse dial comes too late.
LEMMA RaceDropReverse == ASSUME RaceInv, DropReverse PROVE RaceInv'
<1>. USE DEF DropReverse, Drop, Over, choiceVars, host, RaceInv, Listening
<1>0. 1 \in 1..MaxConns /\ \A d \in 2..MaxConns : d \in 1..MaxConns /\ d # 1
    BY ConnectAssumption
<1>1. Ended(conns', conns, {reverse.conn}, "closed")
    BY CloseFacts DEF ShapeInv
<1>2. /\ reverse' = [reverse EXCEPT !.pc = "ended"]
      /\ reverse'.pc = "ended" /\ reverse'.conn = reverse.conn
      /\ reverse.conn \in {0} \cup 2..MaxConns
      /\ reverse.conn # 0 => conns[reverse.conn].end = "open"
    BY DEF ShapeInv, ReverseInv
<1>3. accepted = 0
    BY DEF IdleInv
<1>4. ChoiceInv' /\ CommandInv'
    BY DEF ChoiceInv, ChoiceTypeOK, CommandInv
<1>5. ShapeInv' /\ CountInv'
    BY ZenonT(40), <1>1, <1>2 DEF ShapeInv, CountInv, Ended
<1>6. IdleInv'
    BY <1>2 DEF IdleInv, Off
<1>7. DirectInv'
    BY ZenonT(40), <1>0, <1>1, <1>2 DEF DirectInv, Ended
<1>8. ReverseInv'
    <2>1. \A d \in 2..MaxConns :
              /\ conns'[d].end = "open" => conns[d].end = "open" /\ d # reverse.conn
              /\ conns'[d].end # "backlog"
        <3>1. \A d \in 2..MaxConns : conns[d].end # "backlog"
            BY <1>3 DEF ReverseInv
        <3>2. \A d \in 2..MaxConns :
                /\ d = reverse.conn => conns'[d].end = "closed"
                /\ d # reverse.conn => conns'[d].end = conns[d].end
            BY <1>0, <1>1 DEF Ended
        <3>. QED
            BY <3>1, <3>2
    <2>2. ASSUME NEW d \in 2..MaxConns, conns'[d].end = "open" PROVE FALSE
        <3>1. accepted = d \/ reverse.conn = d
            BY <2>1, <2>2 DEF ReverseInv
        <3>2. d # 0
            OBVIOUS
        <3>. QED
            BY <1>3, <2>1, <2>2, <3>1, <3>2
    <2>. QED
        BY <1>2, <1>3, <2>1, <2>2 DEF ReverseInv
<1>9. KeptInv'
    <2>1. \A d \in 1..MaxConns : d = reverse.conn => conns[d].end # "kept"
        BY <1>0, <1>2
    <2>2. \A d \in 1..MaxConns : conns'[d].end = "kept" <=> conns[d].end = "kept"
        BY <1>1, <2>1 DEF Ended
    <2>. QED
        BY <1>1, <2>2, KeptSame DEF Ended
<1>. QED
    BY <1>4, <1>5, <1>6, <1>7, <1>8, <1>9

\* The host dials back.
LEMMA RaceDialBack == ASSUME RaceInv, DialBack PROVE RaceInv'
<1>. USE DEF DialBack, choiceVars, client, RaceInv, Listening
<1>0. 1 \in 1..MaxConns /\ \A d \in 2..MaxConns : d \in 1..MaxConns /\ d # 1
    BY ConnectAssumption
<1>1. PICK c \in 2..MaxConns, slot \in BOOLEAN :
          /\ conns[c] = NoConn
          /\ conns' = [conns EXCEPT ![c] =
                         [peer |-> command.fp, end |-> "backlog", slot |-> slot]]
    OBVIOUS
<1>2. [peer |-> command.fp, end |-> "backlog", slot |-> slot] \in ConnType
    BY DEF ConnType, Ends, ShapeInv
<1>3. /\ conns' \in [1..MaxConns -> ConnType]
      /\ conns'[c].end = "backlog" /\ conns[c].end = "none"
      /\ \A d \in 1..MaxConns : d # c => conns'[d] = conns[d]
    BY <1>0, <1>1, <1>2 DEF ShapeInv, NoConn
<1>4. backs \in Nat /\ reverse.pc \in {"accept", "handshake"}
    BY DEF CountInv, IdleInv
<1>5. ChoiceInv' /\ CommandInv'
    BY DEF ChoiceInv, ChoiceTypeOK, CommandInv
<1>6. ShapeInv'
    BY <1>3 DEF ShapeInv
<1>7. CountInv'
    BY <1>4 DEF CountInv
<1>8. IdleInv'
    BY <1>4 DEF IdleInv, Off
<1>9. DirectInv'
    BY <1>0, <1>3 DEF DirectInv
<1>10. ReverseInv'
    BY <1>0, <1>3, <1>4 DEF ReverseInv
<1>11. KeptInv'
    BY <1>0, <1>3 DEF KeptInv
<1>. QED
    BY <1>5, <1>6, <1>7, <1>8, <1>9, <1>10, <1>11

\* The host releases a slot.
LEMMA RaceRelease == ASSUME RaceInv, Release PROVE RaceInv'
<1>. USE DEF Release, choiceVars, client, host, RaceInv, Listening
<1>0. 1 \in 1..MaxConns /\ \A d \in 2..MaxConns : d \in 1..MaxConns /\ d # 1
    BY ConnectAssumption
<1>1. PICK c \in DOMAIN conns : conns' = [conns EXCEPT ![c].slot = FALSE]
    OBVIOUS
<1>2. c \in 1..MaxConns /\ conns[c] \in ConnType
    BY DEF ShapeInv
<1>3. /\ [conns[c] EXCEPT !.slot = FALSE] \in ConnType
      /\ [conns[c] EXCEPT !.slot = FALSE].end = conns[c].end
      /\ [conns[c] EXCEPT !.slot = FALSE].peer = conns[c].peer
    BY <1>2 DEF ConnType
<1>4. /\ conns' \in [1..MaxConns -> ConnType]
      /\ \A d \in 1..MaxConns : conns'[d].end = conns[d].end /\ conns'[d].peer = conns[d].peer
    BY <1>1, <1>2, <1>3 DEF ShapeInv
<1>5. ChoiceInv' /\ CommandInv'
    BY DEF ChoiceInv, ChoiceTypeOK, CommandInv
<1>6. ShapeInv' /\ CountInv'
    BY <1>4 DEF ShapeInv, CountInv
<1>7. IdleInv'
    BY <1>4 DEF IdleInv, Off
<1>8. DirectInv'
    BY <1>0, <1>4 DEF DirectInv
<1>9. ReverseInv'
    BY <1>0, <1>4 DEF ReverseInv, ShapeInv
<1>10. KeptInv'
    BY <1>4 DEF KeptInv
<1>. QED
    BY <1>5, <1>6, <1>7, <1>8, <1>9, <1>10

\* A command chooses a host and starts to dial, or does not.
LEMMA RaceStart == ASSUME RaceInv, Start PROVE RaceInv'
<1>. USE DEF RaceInv
<1>0. /\ command.pc = "idle"
      /\ UNCHANGED <<at, issued, moves, pairs, reverse, accepted, sends, claimed, backs,
                     tries, forgotten, datagrams, conns, faults>>
    BY DEF Start, host, net
<1>. DEFINE Chosen(target, pin) ==
        LET choice == resolveClientHost(target)
            fp == choice.record.fp
        IN  /\ known' = IF choice.save THEN choice.hosts ELSE known
            /\ IF Accepted(choice, target, pin) /\ moves + pairs <= Followed
               THEN /\ command' = [pc |-> "dialing", addr |-> target.addr, fp |-> fp,
                          cert |-> HostCredentials(choice.hosts, target.addr, fp)]
                    /\ direct' = [pc |-> "dial", conn |-> 0]
                    /\ timer' = TRUE
               ELSE UNCHANGED <<command, direct, timer>>
<1>1. PICK addr \in Addresses \cup {None}, pin \in Hosts \cup {None},
           results \in SUBSET Announced :
        \E t \in resolveRemoteHost(addr, pin, results) : Chosen(t, pin)
    BY DEF Start
<1>2. PICK target \in resolveRemoteHost(addr, pin, results) : Chosen(target, pin)
    BY <1>1
<1>3. target \in Targets
    BY RemoteFacts
<1>. DEFINE choice == resolveClientHost(target)
            fp == choice.record.fp
            cert == HostCredentials(choice.hosts, target.addr, fp)
            go == Accepted(choice, target, pin) /\ moves + pairs <= Followed
<1>4. Sound(choice.hosts, issued)
    BY <1>3, ResolveFacts
<1>5. go => fp \in Hosts /\ cert = issued[fp]
    BY <1>3, StartFacts
<1>6. /\ known' = IF choice.save THEN choice.hosts ELSE known
      /\ go => /\ command' = [pc |-> "dialing", addr |-> target.addr, fp |-> fp, cert |-> cert]
               /\ direct' = [pc |-> "dial", conn |-> 0]
               /\ timer' = TRUE
      /\ ~go => UNCHANGED <<command, direct, timer>>
    BY <1>2
<1>. HIDE DEF choice, fp, cert, go
<1>7. ChoiceInv'
    <2>1. Sound(known', issued')
        BY <1>0, <1>4, <1>6 DEF ChoiceInv
    <2>2. known' \in Seq(Records)
        BY <2>1 DEF Sound
    <2>. QED
        BY <1>0, <2>1, <2>2 DEF ChoiceInv, ChoiceTypeOK
<1>8. CASE ~go
    <2>1. UNCHANGED <<command, direct, timer>>
        BY <1>6, <1>8
    <2>2. ShapeInv' /\ CountInv' /\ CommandInv'
        BY <1>0, <2>1 DEF ShapeInv, CountInv, CommandInv
    <2>3. IdleInv' /\ DirectInv'
        BY <1>0, <2>1 DEF IdleInv, DirectInv, Listening
    <2>4. ReverseInv' /\ KeptInv'
        BY <1>0, <2>1 DEF ReverseInv, KeptInv, Listening
    <2>. QED
        BY <1>7, <2>2, <2>3, <2>4
<1>9. CASE go
    <2>1. /\ command' = [pc |-> "dialing", addr |-> target.addr, fp |-> fp, cert |-> cert]
          /\ direct' = [pc |-> "dial", conn |-> 0]
          /\ timer' = TRUE
          /\ fp \in Hosts /\ cert = issued[fp]
        BY <1>5, <1>6, <1>9
    <2>2. cert \in Nat
        <3>1. issued \in [Hosts -> 0..pairs]
            BY DEF ChoiceInv, ChoiceTypeOK
        <3>2. \A n \in 0..pairs : n \in Nat
            OBVIOUS
        <3>. QED
            BY <2>1, <3>1, <3>2
    <2>3. command'.pc = "dialing" /\ command'.fp = fp /\ command'.cert = cert
          /\ direct'.pc = "dial" /\ direct'.conn = 0
        BY <2>1
    <2>4. target.addr \in Addresses
        BY <1>3 DEF Targets
    <2>5. ShapeInv'
        BY <1>0, <2>1, <2>2, <2>4 DEF ShapeInv
    <2>6. CountInv' /\ CommandInv'
        BY <1>0, <2>1, <2>3 DEF CountInv, CommandInv
    <2>7. reverse = Off /\ \A c \in 1..MaxConns : conns[c].end = "none"
        BY <1>0 DEF IdleInv
    <2>8. IdleInv'
        BY <1>0, <2>3, <2>7 DEF IdleInv, Listening
    <2>9. DirectInv'
        <3>1. conns[1].end = "none"
            BY <2>7, ConnectAssumption
        <3>. QED
            BY <1>0, <2>3, <3>1 DEF DirectInv
    <2>10. ReverseInv'
        BY <1>0, <2>3, <2>7 DEF ReverseInv, Listening, Off
    <2>11. KeptInv'
        BY <1>0, <2>3, <2>7 DEF KeptInv
    <2>. QED
        BY <1>7, <2>5, <2>6, <2>8, <2>9, <2>10, <2>11
<1>. QED
    BY <1>8, <1>9

\* Pairing between two commands, and moves of hosts.
LEMMA RaceChoice == ASSUME RaceInv, PairAgain \/ HostMoves PROVE RaceInv'
<1>1. UNCHANGED <<command, timer, direct, reverse, accepted, sends, claimed, backs, tries,
                  forgotten, datagrams, conns, faults>>
    BY DEF PairAgain, HostMoves, client, host, net
<1>2. ChoiceInv'
    BY ChoicePair, ChoiceMove DEF PairAgain, HostMoves, RaceInv
<1>3. CommandInv'
    <2>1. CASE PairAgain
        BY <1>1, <2>1 DEF PairAgain, CommandInv
    <2>2. CASE HostMoves
        BY <1>1, <2>2 DEF HostMoves, Move, RaceInv, CommandInv
    <2>. QED
        BY <2>1, <2>2
<1>4. ShapeInv' /\ CountInv'
    BY <1>1 DEF RaceInv, ShapeInv, CountInv
<1>5. IdleInv' /\ DirectInv'
    BY <1>1 DEF RaceInv, IdleInv, DirectInv, Listening
<1>6. ReverseInv' /\ KeptInv'
    BY <1>1 DEF RaceInv, ReverseInv, KeptInv, Listening
<1>. QED
    BY <1>2, <1>3, <1>4, <1>5, <1>6 DEF RaceInv

\* The race invariant is inductive.
LEMMA RaceStep == ASSUME RaceInv, [Next]_vars PROVE RaceInv'
<1>1. CASE Start
    BY <1>1, RaceStart
<1>2. CASE ClientStep
    <2>1. CASE TimerFires
        BY <2>1, RaceTimer
    <2>2. CASE TakeDirect
        BY <2>2, RaceTakeDirect
    <2>3. CASE TakeReverse
        BY <2>3, RaceTakeReverse
    <2>4. CASE DialFails(FALSE)
        BY <2>4, RaceDialFails
    <2>5. CASE DirectFails
        BY <2>5, RaceDirectFails
    <2>6. CASE DropDirect
        BY <2>6, RaceDropDirect
    <2>7. CASE TakeAccepted
        BY <2>7, RaceTakeAccepted
    <2>8. CASE AcceptFails
        BY <2>8, RaceAcceptFails
    <2>9. CASE ReverseFails
        BY <2>9, RaceReverseFails
    <2>10. CASE DropReverse
        BY <2>10, RaceDropReverse
    <2>. QED
        BY <1>2, <2>1, <2>2, <2>3, <2>4, <2>5, <2>6, <2>7, <2>8, <2>9, <2>10 DEF ClientStep
<1>3. CASE DialFails(TRUE)
    BY <1>3, RaceDialFails
<1>4. CASE Exit
    BY <1>4, RaceExit
<1>5. CASE DirectOpen
    BY <1>5, RaceDirectOpen
<1>6. CASE DirectDone
    BY <1>6, RaceDirectDone
<1>7. CASE SendRequest
    BY <1>7, RaceSendRequest
<1>8. CASE Accept
    BY <1>8, RaceAccept
<1>9. CASE ReverseDone
    BY <1>9, RaceReverseDone
<1>10. CASE Lose \/ Duplicate \/ Deliver \/ Forget
    BY <1>10, RaceNetwork
<1>11. CASE DialBack
    BY <1>11, RaceDialBack
<1>12. CASE Release
    BY <1>12, RaceRelease
<1>13. CASE PairAgain \/ HostMoves
    BY <1>13, RaceChoice
<1>14. CASE UNCHANGED vars
    <2>1. UNCHANGED <<at, known, issued, moves, pairs, command, timer, direct, reverse,
                      accepted, sends, claimed, backs, tries, forgotten, datagrams, conns>>
        BY <1>14 DEF vars, choiceVars, client, host, net
    <2>2. ChoiceInv' /\ CommandInv' /\ ShapeInv' /\ CountInv'
        BY <2>1 DEF RaceInv, ChoiceInv, ChoiceTypeOK, CommandInv, ShapeInv, CountInv
    <2>3. IdleInv' /\ DirectInv'
        BY <2>1 DEF RaceInv, IdleInv, DirectInv, Listening
    <2>4. ReverseInv' /\ KeptInv'
        BY <2>1 DEF RaceInv, ReverseInv, KeptInv, Listening
    <2>. QED
        BY <2>2, <2>3, <2>4 DEF RaceInv
<1>. QED
    BY <1>1, <1>2, <1>3, <1>4, <1>5, <1>6, <1>7, <1>8, <1>9, <1>10, <1>11, <1>12, <1>13,
       <1>14 DEF Next

\* RaceInv holds in every behaviour.
LEMMA RaceAlways == Spec => []RaceInv
<1>. QED
    BY RaceInit, RaceStep, PTL DEF Spec

\* The host dials back once for a request however often it arrives, as long as it is
\* remembered (claimReverseRequest in host/server.go); and when both goroutines of
\* dialFastestTLS (client/connection.go) have ended, every other connection is closed,
\* but for those that acceptReverse has accepted in the moment that it gave up.
THEOREM ConnectOthersClosed == Spec => []OthersClosed
<1>1. RaceInv => OthersClosed
    <2> SUFFICES ASSUME RaceInv PROVE OthersClosed
        OBVIOUS
    <2>1. tries <= 1 + forgotten
        BY DEF RaceInv, ShapeInv, CountInv
    <2>2. ASSUME {direct.pc, reverse.pc} \subseteq {"off", "ended"}, NEW c \in DOMAIN conns
          PROVE  conns[c].end \in {"none", "kept", "closed"}
                                    \cup (IF c = 1 THEN {} ELSE {"leaked"})
        <3>1. c \in 1..MaxConns /\ conns[c].end \in Ends
            BY <2>2 DEF RaceInv, ShapeInv, ConnType
        <3>2. reverse.pc \in {"off", "ended"} /\ direct.pc \in {"off", "ended"} /\ accepted = 0
            BY <2>2 DEF RaceInv, IdleInv, Listening
        <3>3. conns[c].end # "open" /\ conns[c].end # "backlog"
            <4>1. CASE c = 1
                BY <3>2, <4>1 DEF RaceInv, DirectInv
            <4>2. CASE c # 1
                <5>1. c \in 2..MaxConns
                    BY <3>1, <4>2
                <5>. QED
                    BY <3>2, <5>1 DEF RaceInv, ReverseInv, Listening
            <4>. QED
                BY <4>1, <4>2
        <3>4. c = 1 => conns[c].end # "leaked"
            BY DEF RaceInv, DirectInv
        <3>. QED
            BY <3>1, <3>3, <3>4 DEF Ends
    <2>. QED
        BY <2>1, <2>2 DEF OthersClosed
<1>. QED
    BY <1>1, RaceAlways, PTL

\* A command that is connected has one connection, to the host of the record that it
\* chose and with the certificate that this host issued last (dialFastestTLS and the
\* handshakes in client/connection.go, the choice in app/app.go).
THEOREM ConnectConnectedToChosen == Spec => []ConnectedToChosen
<1>1. RaceInv => ConnectedToChosen
    <2> SUFFICES ASSUME RaceInv PROVE ConnectedToChosen
        OBVIOUS
    <2>. DEFINE kept == {c \in DOMAIN conns : conns[c].end = "kept"}
    <2>0. DOMAIN conns = 1..MaxConns
        BY DEF RaceInv, ShapeInv
    <2>1. TypeOK
        <3>1. conns \in [1..MaxConns -> [peer : Hosts \cup {None}, slot : BOOLEAN,
                     end : {"none", "backlog", "open", "kept", "closed", "leaked"}]]
            BY DEF RaceInv, ShapeInv, ConnType, Ends
        <3>. QED
            BY <3>1 DEF RaceInv, ChoiceInv, ShapeInv, CountInv, TypeOK
    <2>2. kept # {} => command.pc = "connected"
        BY <2>0 DEF RaceInv, KeptInv
    <2>3. ASSUME command.pc = "connected"
          PROVE  /\ Cardinality(kept) = 1
                 /\ \A c \in kept : /\ conns[c].peer \in {command.fp} \cap Hosts
                                    /\ command.cert = issued[conns[c].peer]
        <3>1. PICK c \in 1..MaxConns :
                 /\ conns[c].end = "kept" /\ conns[c].peer = command.fp
                 /\ \A d \in 1..MaxConns : conns[d].end = "kept" => d = c
            BY <2>3 DEF RaceInv, KeptInv
        <3>2. kept = {c}
            BY <2>0, <3>1
        <3>3. command.fp \in Hosts /\ command.cert = issued[command.fp]
            BY <2>3 DEF RaceInv, CommandInv
        <3>. HIDE DEF kept
        <3>. QED
            BY <3>1, <3>2, <3>3, FS_Singleton
    <2>. QED
        BY <2>1, <2>2, <2>3 DEF ConnectedToChosen
<1>. QED
    BY <1>1, RaceAlways, PTL

\* A host that was paired stays in the table, with the certificate that it issued last
\* (UpsertHost, UpdateHostAddress and removeUnpairedAddressAliases in
\* clientstate/state.go); and when its fingerprint is configured it is found wherever it
\* moved to (selectDiscoveredHost in discovery.go, resolveClientHost in app/app.go).
THEOREM ConnectPinnedFound == Spec => []PinnedFound
<1>1. RaceInv => PinnedFound
    <2> SUFFICES ASSUME ChoiceInv PROVE PinnedFound
        BY DEF RaceInv
    <2>0. Sound(known, issued) /\ DOMAIN known = 1..Len(known)
        BY DEF ChoiceInv, Sound
    <2>1. PairedKept
        <3> SUFFICES ASSUME NEW h \in Hosts, issued[h] # 0
                     PROVE  LET own == {i \in DOMAIN known : known[i].fp = h}
                            IN  Cardinality(own) = 1 /\ \A i \in own : known[i].cert = issued[h]
            BY DEF PairedKept
        <3>. DEFINE own == {i \in DOMAIN known : known[i].fp = h}
        <3>1. PICK i \in 1..Len(known) : known[i].fp = h
            BY <2>0 DEF Sound
        <3>2. \A j \in 1..Len(known) : known[j].fp = h => j = i
            BY <2>0, <3>1, HostChoiceAssumption DEF Sound
        <3>3. own = {i}
            BY <2>0, <3>1, <3>2
        <3>4. known[i].cert = issued[h]
            BY <2>0, <3>1, HostChoiceAssumption DEF Sound
        <3>. HIDE DEF own
        <3>5. Cardinality(own) = 1 /\ \A j \in own : known[j].cert = issued[h]
            BY <3>3, <3>4, FS_Singleton
        <3>. QED
            BY <3>5 DEF own
    <2>2. ASSUME NEW h \in Hosts, issued[h] # 0, NEW results \in SUBSET Announced
          PROVE  LET own == {r \in results : r.fp = h}
                     targets == resolveRemoteHost(None, h, results)
                 IN (Cardinality(own) = 1
                       \/ preferredAddressForFingerprint(h) \in {r.addr : r \in own})
                    => /\ targets # {} /\ targets \subseteq own
                       /\ \/ \E r \in ToSet(known) : r.fp = None
                          \/ \A t \in targets : Accepted(resolveClientHost(t), t, h)
        <3>. DEFINE own == {r \in results : r.fp = h}
                    targets == resolveRemoteHost(None, h, results)
                    p == preferredAddressForFingerprint(h)
                    near == {r \in own : r.addr = p}
        <3>1. h # None
            BY HostChoiceAssumption
        <3>2. targets = IF near # {} THEN near
                        ELSE IF Cardinality(own) = 1 THEN own ELSE {}
            BY <3>1 DEF resolveRemoteHost, selectDiscoveredHost
        <3>3. targets \subseteq own
            BY <3>2
        <3>4. ASSUME Cardinality(own) = 1 \/ p \in {r.addr : r \in own}
              PROVE  targets # {}
            <4>1. CASE p \in {r.addr : r \in own}
                BY <3>2, <4>1
            <4>2. CASE Cardinality(own) = 1
                <5>1. own # {}
                    <6>. HIDE DEF own
                    <6>. QED
                        BY <4>2, FS_EmptySet
                <5>. QED
                    BY <3>2, <4>2, <5>1
            <4>. QED
                BY <3>4, <4>1, <4>2
        <3>5. ASSUME ~ \E r \in ToSet(known) : r.fp = None, NEW t \in targets
              PROVE  Accepted(resolveClientHost(t), t, h)
            <4>. DEFINE choice == resolveClientHost(t)
            <4>1. t \in Announced /\ t.fp = h
                BY <3>3, <3>5
            <4>2. t \in Targets
                BY <4>1, AnnouncedFacts
            <4>3. \A j \in 1..Len(known) : known[j].fp # None
                BY <2>0, <3>5 DEF ToSet
            <4>4. Sound(choice.hosts, issued) /\ choice.record # None /\ choice.record.fp = h
                BY <2>2, <3>1, <4>1, <4>2, <4>3, ResolveFacts
            <4>. HIDE DEF choice
            <4>5. HostCredentials(choice.hosts, t.addr, h) = issued[h]
                BY <2>2, <4>4, CredentialsFacts
            <4>6. Accepted(choice, t, h)
                BY <2>2, <3>1, <4>4, <4>5 DEF Accepted
            <4>. QED
                BY <4>6 DEF choice
        <3>. HIDE DEF own, targets
        <3>. QED
            BY <3>3, <3>4, <3>5 DEF own, targets
    <2>. QED
        BY <2>1, <2>2 DEF PinnedFound
<1>. QED
    BY <1>1, RaceAlways, PTL

=============================================================================
