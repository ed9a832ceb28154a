------------------------- MODULE BlobTransferProofs -------------------------
(***************************************************************************)
(* Proofs about BlobTransfer, for any plan without repetition, any number  *)
(* of workers and connections and any limits: chunks and blobs are counted *)
(* once, both sides agree on the outcome, and the transfer implements what *)
(* a synchronization expects of it.  Then proofs about ChunkPlan, the plan *)
(* of a transfer, for any sizes and limits; at the end, proofs about       *)
(* BlobGC, the collection of the store.                                    *)
(***************************************************************************)
EXTENDS MCBlobTransfer, BlobGC, FiniteSetTheorems, SequenceTheorems, WellFoundedInduction, TLAPS

-----------------------------------------------------------------------------
(* The invariant *)

Msgs == [ch : Chunks, ok : BOOLEAN, taken : BOOLEAN] \cup {HostError}
Broken == [step |-> "broken"]
Receiving == [step : {"write", "commit", "count", "received", "error"}, ch : Chunks, ok : BOOLEAN]

\* The receiver, and what is on its way to it.
ReceiverType ==
    /\ store \subseteq Blobs /\ wrong \subseteq Blobs /\ writers \subseteq Blobs
    /\ mixed \subseteq Blobs /\ written \subseteq Chunks
    /\ count \in [Blobs -> Nat] /\ pending \in Int
    /\ rerr \in BOOLEAN /\ rdone \in BOOLEAN
    /\ recv \in [Conns -> {Idle, Broken} \cup Receiving]
    /\ data \in [Conns -> Seq(Msgs)]

\* The sessions, the client and the host.
SessionType ==
    /\ direction \in {"upload", "download"}
    /\ edited \subseteq Blobs /\ sent \subseteq Chunks
    /\ cancelled \in BOOLEAN /\ registered \in BOOLEAN /\ sdone \in BOOLEAN
    /\ serr \in BOOLEAN /\ lost \in BOOLEAN
    /\ asked \in [Conns -> Seq(Chunks)]
    /\ link \in [Conns -> {"none", "open", "closed", "cut"}]
    /\ serve \in [Conns -> {"on", "off"}]
    /\ client \in {"running", "complete", "failed", "left"}
    /\ host \in {"read", "wait", "done", "failed"}

\* The workers.
WorkerType ==
    /\ work \in [Workers -> {"busy", "done", "failed"}]
    /\ conn \in [Workers -> Conns \cup {NoConn}]
    /\ todo \in [Workers -> Seq(Chunks)]
    /\ inFlight \in [Workers -> Seq(Chunks)]
    /\ jobs \in Seq(Chunks) /\ IsInjective(jobs)
    /\ attempts \in [Chunks -> 0..MaxAttempts]

\* The chunks that a worker has still to transfer.
Held(w) == ToSet(todo[w]) \cup ToSet(inFlight[w])

\* A chunk is with one worker at most, or not yet given out, and may be tried again.
OwnInv ==
    /\ \A v, w \in Workers : v # w => Held(v) \cap Held(w) = {}
    /\ \A w \in Workers : Held(w) \cap ToSet(jobs) = {}
    /\ \A w \in Workers : \A ch \in Held(w) : attempts[ch] < MaxAttempts
    /\ \A ch \in ToSet(jobs) : attempts[ch] < MaxAttempts

\* A connection delivers the last chunk of a blob.
LastChunk(c) == recv[c].step \in {"commit", "count"}

\* While the receiver has not failed: each chunk is counted when it is first written, one
\* connection has written the last chunk of a blob, and the blob's file is open until
\* that connection has counted it.
CountInv ==
    /\ wrong = {}
    /\ ~rerr =>
          /\ \A b \in Blobs : count[b] = Cardinality(written \cap ChunksOf(b))
          /\ pending = Cardinality(writers)
          /\ rdone <=> writers = {}
          /\ writers \cup store = Blobs
          /\ \A c \in Conns : LastChunk(c) =>
                /\ ChunksOf(recv[c].ch.hash) \subseteq written
                /\ recv[c].ch.hash \in writers
          /\ \A c \in Conns : recv[c].step = "count" => recv[c].ch.hash \in store
          /\ \A c, d \in Conns :
                LastChunk(c) /\ LastChunk(d) /\ recv[c].ch.hash = recv[d].ch.hash => c = d
          /\ \A c \in Conns :
                recv[c].step = "write" /\ recv[c].ch \notin written => recv[c].ch.hash \in writers

\* What the two sides know of each other when they end.
EndInv ==
    /\ host \in {"wait", "done"} => client \in {"complete", "left"}
    /\ direction = "upload" /\ sdone /\ ~serr => store = Blobs
    /\ direction = "download" /\ client \in {"complete", "left"} => store = Blobs
    /\ host = "done" => store = Blobs

TransferInv ==
    /\ ReceiverType /\ SessionType /\ WorkerType
    /\ OwnInv /\ CountInv /\ EndInv

-----------------------------------------------------------------------------
(* Sequences and what is in them *)

\* What is in a sequence, in its head and its tail.
LEMMA SeqFacts ==
    ASSUME NEW S, NEW s \in Seq(S)
    PROVE  /\ ToSet(s) \subseteq S
           /\ ToSet(<<>>) = {}
           /\ s # <<>> => /\ Head(s) \in ToSet(s) /\ Tail(s) \in Seq(S)
                          /\ ToSet(Tail(s)) \subseteq ToSet(s)
                          /\ ToSet(s) = ToSet(Tail(s)) \cup {Head(s)}
<1>1. DOMAIN s = 1..Len(s) /\ \A i \in 1..Len(s) : s[i] \in S
    OBVIOUS
<1>2. ToSet(s) \subseteq S /\ ToSet(<<>>) = {}
    BY <1>1 DEF ToSet
<1>3. ASSUME s # <<>>
      PROVE  /\ Head(s) \in ToSet(s) /\ Tail(s) \in Seq(S)
             /\ ToSet(Tail(s)) \subseteq ToSet(s)
             /\ ToSet(s) = ToSet(Tail(s)) \cup {Head(s)}
    <2>1. Len(s) \in Nat /\ Len(s) >= 1 /\ Head(s) = s[1]
        BY <1>3, EmptySeq
    <2>2. /\ Tail(s) \in Seq(S) /\ Len(Tail(s)) = Len(s) - 1
          /\ \A i \in 1..Len(Tail(s)) : Tail(s)[i] = s[i + 1]
        BY <1>3
    <2>3. Head(s) \in ToSet(s)
        BY <1>1, <2>1 DEF ToSet
    <2>4. ToSet(Tail(s)) \subseteq ToSet(s)
        <3>1. DOMAIN Tail(s) = 1..(Len(s) - 1)
            BY <2>2
        <3>2. \A i \in 1..(Len(s) - 1) : i + 1 \in DOMAIN s
            BY <1>1, <2>1
        <3>. QED
            BY <2>1, <2>2, <3>1, <3>2 DEF ToSet
    <2>5. ASSUME NEW i \in DOMAIN s, i # 1
          PROVE  s[i] \in ToSet(Tail(s))
        <3>1. i - 1 \in DOMAIN Tail(s) /\ Tail(s)[i - 1] = s[i]
            BY <1>1, <2>1, <2>2, <2>5
        <3>. QED
            BY <3>1 DEF ToSet
    <2>6. \A x \in ToSet(s) : x \in ToSet(Tail(s)) \/ x = Head(s)
        BY <2>1, <2>5 DEF ToSet
    <2>. QED
        BY <2>2, <2>3, <2>4, <2>6
<1>. QED
    BY <1>2, <1>3

\* What is in two sequences together.
LEMMA ConcatFacts ==
    ASSUME NEW S, NEW s \in Seq(S), NEW t \in Seq(S)
    PROVE  s \o t \in Seq(S) /\ ToSet(s \o t) = ToSet(s) \cup ToSet(t)
<1>1. /\ s \o t \in Seq(S) /\ DOMAIN (s \o t) = 1..(Len(s) + Len(t))
      /\ DOMAIN s = 1..Len(s) /\ DOMAIN t = 1..Len(t) /\ Len(s) \in Nat /\ Len(t) \in Nat
      /\ \A i \in 1..(Len(s) + Len(t)) :
            (s \o t)[i] = IF i <= Len(s) THEN s[i] ELSE t[i - Len(s)]
    BY ConcatProperties
<1>2. \A i \in 1..(Len(s) + Len(t)) : i \in 1..Len(s) \/ i - Len(s) \in 1..Len(t)
    BY <1>1
<1>3. ToSet(s \o t) \subseteq ToSet(s) \cup ToSet(t)
    BY <1>1, <1>2 DEF ToSet
<1>4. \A i \in 1..Len(s) : i \in 1..(Len(s) + Len(t)) /\ (s \o t)[i] = s[i]
    BY <1>1
<1>5. \A i \in 1..Len(t) : i + Len(s) \in 1..(Len(s) + Len(t)) /\ (s \o t)[i + Len(s)] = t[i]
    BY <1>1
<1>6. ToSet(s) \subseteq ToSet(s \o t)
    BY <1>1, <1>4 DEF ToSet
<1>7. ToSet(t) \subseteq ToSet(s \o t)
    <2>. SUFFICES ASSUME NEW i \in 1..Len(t) PROVE t[i] \in ToSet(s \o t)
        BY <1>1 DEF ToSet
    <2>1. i + Len(s) \in DOMAIN (s \o t) /\ (s \o t)[i + Len(s)] = t[i]
        BY <1>1, <1>5
    <2>. QED
        BY <2>1, Zenon DEF ToSet
<1>. QED
    BY <1>1, <1>3, <1>6, <1>7

\* What is in a longer sequence.
LEMMA AppendFacts ==
    ASSUME NEW S, NEW s \in Seq(S), NEW e \in S
    PROVE  Append(s, e) \in Seq(S) /\ ToSet(Append(s, e)) = ToSet(s) \cup {e}
<1>1. /\ Append(s, e) \in Seq(S) /\ DOMAIN Append(s, e) = 1..(Len(s) + 1)
      /\ DOMAIN s = 1..Len(s) /\ Len(s) \in Nat /\ Append(s, e)[Len(s) + 1] = e
      /\ \A i \in 1..Len(s) : Append(s, e)[i] = s[i]
    BY AppendProperties
<1>2. 1..(Len(s) + 1) = 1..Len(s) \cup {Len(s) + 1}
    BY <1>1
<1>. QED
    BY <1>1, <1>2 DEF ToSet

\* What is left of a sequence without one of its elements.
LEMMA RemoveFacts ==
    ASSUME NEW S, NEW s \in Seq(S), NEW i \in DOMAIN s
    PROVE  RemoveAt(s, i) \in Seq(S) /\ ToSet(RemoveAt(s, i)) \subseteq ToSet(s)
<1>0. DOMAIN s = 1..Len(s) /\ i \in Int /\ Len(s) \in Nat
    OBVIOUS
<1>1. ASSUME NEW m \in Int, NEW n \in Int, m >= 1, n <= Len(s)
      PROVE  SubSeq(s, m, n) \in Seq(S) /\ ToSet(SubSeq(s, m, n)) \subseteq ToSet(s)
    <2>1. \A j \in DOMAIN SubSeq(s, m, n) : SubSeq(s, m, n)[j] = s[m + j - 1] /\ m + j - 1 \in DOMAIN s
        BY <1>0, <1>1
    <2>. QED
        BY <1>0, <1>1, <2>1, SubSeqProperties DEF ToSet
<1>2. /\ SubSeq(s, 1, i - 1) \in Seq(S) /\ ToSet(SubSeq(s, 1, i - 1)) \subseteq ToSet(s)
      /\ SubSeq(s, i + 1, Len(s)) \in Seq(S) /\ ToSet(SubSeq(s, i + 1, Len(s))) \subseteq ToSet(s)
    BY <1>0, <1>1
<1>. DEFINE front == SubSeq(s, 1, i - 1)
            back == SubSeq(s, i + 1, Len(s))
<1>3. RemoveAt(s, i) = front \o back
    BY DEF RemoveAt
<1>4. /\ front \in Seq(S) /\ back \in Seq(S)
      /\ ToSet(front) \subseteq ToSet(s) /\ ToSet(back) \subseteq ToSet(s)
    BY <1>2
<1>. HIDE DEF front, back
<1>5. front \o back \in Seq(S) /\ ToSet(front \o back) = ToSet(front) \cup ToSet(back)
    BY <1>4, ConcatFacts
<1>6. ToSet(RemoveAt(s, i)) \subseteq ToSet(s)
    BY <1>3, <1>4, <1>5, Zenon
<1>. QED
    BY <1>3, <1>5, <1>6, Zenon

\* The head of a sequence without repetition is not in its tail.
LEMMA TailInjective ==
    ASSUME NEW S, NEW s \in Seq(S), s # <<>>, IsInjective(s)
    PROVE  Head(s) \notin ToSet(Tail(s)) /\ IsInjective(Tail(s))
<1>1. /\ Len(s) \in Nat /\ Len(s) >= 1 /\ Head(s) = s[1] /\ DOMAIN s = 1..Len(s)
      /\ DOMAIN Tail(s) = 1..(Len(s) - 1)
      /\ \A i \in 1..(Len(s) - 1) : Tail(s)[i] = s[i + 1] /\ i + 1 \in DOMAIN s /\ 1 \in DOMAIN s
    BY EmptySeq
<1>2. \A i, j \in 1..Len(s) : s[i] = s[j] => i = j
    BY <1>1 DEF IsInjective
<1>3. Head(s) \notin ToSet(Tail(s))
    BY <1>1, <1>2 DEF ToSet
<1>4. \A i, j \in 1..(Len(s) - 1) : s[i + 1] = s[j + 1] => i = j
    BY <1>1, <1>2
<1>. QED
    BY <1>1, <1>3, <1>4 DEF IsInjective
-----------------------------------------------------------------------------
(* The constants *)

\* Chunks and blobs are finitely many, and a chunk is one of its blob.
LEMMA PlanFacts ==
    /\ Plan \in Seq(Chunks) /\ IsInjective(Plan)
    /\ IsFiniteSet(Chunks) /\ IsFiniteSet(Blobs)
    /\ \A b : IsFiniteSet(ChunksOf(b)) /\ ChunksOf(b) \subseteq Chunks
    /\ \A ch \in Chunks : ch.hash \in Blobs /\ \A b : ch \in ChunksOf(b) <=> b = ch.hash
    /\ StoredBefore \subseteq SUBSET Blobs
<1>1. Plan \in Seq(Chunks) /\ IsInjective(Plan)
    BY BlobTransferAssumption DEF Chunks
<1>2. Plan \in [1..Len(Plan) -> Chunks] /\ Len(Plan) \in Nat /\ DOMAIN Plan = 1..Len(Plan)
    BY <1>1
<1>3. Plan \in Surjection(1..Len(Plan), Chunks)
    BY <1>2 DEF Surjection, Chunks, ToSet
<1>4. IsFiniteSet(1..Len(Plan))
    BY <1>2, FS_Interval
<1>5. IsFiniteSet(Chunks)
    BY <1>3, <1>4, FS_Surjection DEF ExistsSurjection
<1>6. [ch \in Chunks |-> ch.hash] \in Surjection(Chunks, Blobs)
    BY DEF Surjection, Blobs
<1>7. IsFiniteSet(Blobs)
    BY <1>5, <1>6, FS_Surjection DEF ExistsSurjection
<1>8. \A b : IsFiniteSet(ChunksOf(b)) /\ ChunksOf(b) \subseteq Chunks
    BY <1>5, FS_Subset DEF ChunksOf
<1>9. \A ch \in Chunks : ch.hash \in Blobs /\ \A b : ch \in ChunksOf(b) <=> b = ch.hash
    BY DEF Blobs, ChunksOf
<1>10. {Plan[i].hash : i \in DOMAIN Plan} \subseteq Blobs
    BY DEF Blobs, Chunks, ToSet
<1>11. StoredBefore \subseteq SUBSET Blobs
    BY <1>10, BlobTransferAssumption
<1>. QED
    BY <1>1, <1>5, <1>7, <1>8, <1>9, <1>11

\* A set of connections has a first one.
LEMMA FirstConn ==
    ASSUME NEW S \in SUBSET Conns, S # {}
    PROVE  Min(S) \in Conns /\ Min(S) \in S
<1>1. S \subseteq Nat /\ Conns \subseteq Nat
    BY BlobTransferAssumption DEF Conns
<1>2. \E x \in S : \A y \in S : ~(<<y, x>> \in OpToRel(<, Nat))
    BY <1>1, WFMin, NatLessThanWellFounded
<1>3. PICK x \in S : \A y \in S : ~(<<y, x>> \in OpToRel(<, Nat))
    BY <1>2
<1>4. ASSUME NEW y \in S
      PROVE  x <= y
    <2>1. <<y, x>> \notin OpToRel(<, Nat)
        BY <1>3
    <2>2. x \in Nat /\ y \in Nat
        BY <1>1
    <2>. QED
        BY <2>1, <2>2 DEF OpToRel
<1>. QED
    BY <1>4 DEF Min

\* Arithmetic of indices.
LEMMA DivFacts ==
    ASSUME NEW n \in Nat, NEW d \in Nat, d > 0
    PROVE  n \div d \in Nat /\ (n \div d) * d <= n
<1>1. n \div d \in Nat
    OBVIOUS
<1>2. (n \div d) * d <= n
    OBVIOUS
<1>. QED
    BY <1>1, <1>2

\* Multiplication keeps the order.
LEMMA TimesFacts ==
    ASSUME NEW a \in Nat, NEW b \in Nat, NEW d \in Nat, a <= b
    PROVE  a * d <= b * d
OBVIOUS

\* The distance of two indices.
LEMMA DistanceFacts ==
    ASSUME NEW j \in Int, NEW k \in Int, NEW d \in Int, NEW v \in Int, NEW w \in Int,
           (j - 1) * d + v = (k - 1) * d + w
    PROVE  (j - k) * d = w - v
OBVIOUS

\* The groups of a download are sequences of chunks, no chunk being in two of them.
LEMMA GroupFacts ==
    /\ \A w \in Workers : Group(w) \in Seq(Chunks)
    /\ \A v, w \in Workers : v # w => ToSet(Group(v)) \cap ToSet(Group(w)) = {}
<1>. DEFINE At(w, k) == (k - 1) * Parallel + w
            Size(w) == (Len(Plan) + Parallel - w) \div Parallel
<1>0. /\ Parallel \in Nat /\ Parallel > 0 /\ Len(Plan) \in Nat /\ DOMAIN Plan = 1..Len(Plan)
      /\ \A i, j \in 1..Len(Plan) : Plan[i] = Plan[j] => i = j
      /\ \A i \in 1..Len(Plan) : Plan[i] \in Chunks
      /\ \A w \in Workers : w \in Nat /\ 1 <= w /\ w <= Parallel
    BY PlanFacts, BlobTransferAssumption DEF IsInjective, Workers
<1>1. ASSUME NEW w \in Workers
      PROVE  /\ Size(w) \in Nat
             /\ \A k \in 1..Size(w) : At(w, k) \in 1..Len(Plan)
    <2>1. Len(Plan) + Parallel - w \in Nat
        BY <1>0
    <2>2. Size(w) \in Nat /\ Size(w) * Parallel <= Len(Plan) + Parallel - w
        BY <1>0, <2>1, DivFacts
    <2>3. ASSUME NEW k \in 1..Size(w)
          PROVE  At(w, k) \in 1..Len(Plan)
        <3>1. k \in Nat /\ 1 <= k /\ k <= Size(w)
            BY <2>2
        <3>2. k * Parallel <= Size(w) * Parallel
            BY <1>0, <2>2, <3>1, TimesFacts
        <3>3. (k - 1) * Parallel = k * Parallel - Parallel /\ (k - 1) * Parallel >= 0
            BY <1>0, <3>1
        <3>. QED
            BY <1>0, <2>2, <3>1, <3>2, <3>3
    <2>. QED
        BY <2>2, <2>3
<1>2. \A w \in Workers : Group(w) = [k \in 1..Size(w) |-> Plan[At(w, k)]]
    BY DEF Group
<1>. HIDE DEF At, Size
<1>3. \A w \in Workers : Group(w) \in Seq(Chunks) /\ DOMAIN Group(w) = 1..Size(w)
    BY <1>0, <1>1, <1>2
<1>4. ASSUME NEW v \in Workers, NEW w \in Workers, NEW j \in 1..Size(v), NEW k \in 1..Size(w),
             At(v, j) = At(w, k)
      PROVE  v = w
    <2>1. j \in Int /\ k \in Int /\ v \in Int /\ w \in Int /\ Parallel \in Int
        BY <1>0, <1>1
    <2>2. (j - 1) * Parallel + v = (k - 1) * Parallel + w
        BY <1>4 DEF At
    <2>3. (j - k) * Parallel = w - v
        BY <2>1, <2>2, DistanceFacts
    <2>4. w - v < Parallel /\ v - w < Parallel
        BY <1>0
    <2>5. j - k <= 0
        BY <1>0, <2>1, <2>3, <2>4
    <2>6. j - k >= 0
        BY <1>0, <2>1, <2>3, <2>4
    <2>. QED
        BY <1>0, <2>1, <2>3, <2>5, <2>6
<1>5. ASSUME NEW v \in Workers, NEW w \in Workers, v # w
      PROVE  ToSet(Group(v)) \cap ToSet(Group(w)) = {}
    <2>. SUFFICES ASSUME NEW j \in 1..Size(v), NEW k \in 1..Size(w), Group(v)[j] = Group(w)[k]
                  PROVE  FALSE
        BY <1>3 DEF ToSet
    <2>1. Plan[At(v, j)] = Plan[At(w, k)]
        BY <1>2
    <2>2. At(v, j) = At(w, k)
        BY <1>0, <1>1, <2>1
    <2>. QED
        BY <1>4, <1>5, <2>2
<1>. QED
    BY <1>3, <1>5
-----------------------------------------------------------------------------
(* The initial state *)

\* Nothing is connected, written or counted.
LEMMA TransferInit == Init => TransferInv
<1>. SUFFICES ASSUME Init PROVE TransferInv
    OBVIOUS
<1>1. ReceiverType
    <2>1. store \subseteq Blobs /\ writers \subseteq Blobs
        BY PlanFacts DEF Init, Awaited
    <2>2. pending \in Int
        <3>1. IsFiniteSet(Awaited(store))
            BY PlanFacts, FS_Subset DEF Awaited
        <3>. QED
            BY <3>1, FS_CardinalityType DEF Init
    <2>3. rerr \in BOOLEAN /\ rdone \in BOOLEAN
        BY DEF Init
    <2>4. data \in [Conns -> Seq(Msgs)]
        BY DEF Init
    <2>. QED
        BY <2>1, <2>2, <2>3, <2>4 DEF Init, ReceiverType
<1>2. SessionType
    <2>1. /\ cancelled \in BOOLEAN /\ registered \in BOOLEAN /\ sdone \in BOOLEAN
          /\ serr \in BOOLEAN /\ lost \in BOOLEAN
        BY DEF Init
    <2>2. asked \in [Conns -> Seq(Chunks)]
        BY DEF Init
    <2>3. /\ link \in [Conns -> {"none", "open", "closed", "cut"}]
          /\ serve \in [Conns -> {"on", "off"}]
        BY DEF Init
    <2>. QED
        BY <2>1, <2>2, <2>3 DEF Init, SessionType
<1>3. WorkerType /\ OwnInv
    <2>1. CASE direction = "upload"
        <3>1. jobs = Plan /\ \A w \in Workers : todo[w] = <<>> /\ inFlight[w] = <<>>
            BY <2>1 DEF Init
        <3>2. \A w \in Workers : Held(w) = {}
            BY <3>1 DEF Held, ToSet
        <3>3. WorkerType
            BY <2>1, PlanFacts, BlobTransferAssumption DEF Init, WorkerType
        <3>4. \A ch \in ToSet(jobs) : attempts[ch] < MaxAttempts
            BY <3>1, PlanFacts, BlobTransferAssumption DEF Init, Chunks
        <3>. QED
            BY <3>2, <3>3, <3>4 DEF OwnInv
    <2>2. CASE direction = "download"
        <3>1. jobs = <<>> /\ \A w \in Workers : todo[w] = Group(w) /\ inFlight[w] = <<>>
            BY <2>2 DEF Init
        <3>2. ToSet(<<>>) = {} /\ IsInjective(<<>>)
            BY DEF ToSet, IsInjective
        <3>3. \A w \in Workers : Held(w) = ToSet(Group(w)) /\ Held(w) \subseteq Chunks
            BY <3>1, <3>2, GroupFacts, SeqFacts DEF Held
        <3>4. WorkerType
            <4>1. todo \in [Workers -> Seq(Chunks)]
                BY <2>2, GroupFacts DEF Init
            <4>2. attempts \in [Chunks -> 0..MaxAttempts]
                BY BlobTransferAssumption DEF Init
            <4>3. inFlight \in [Workers -> Seq(Chunks)] /\ jobs \in Seq(Chunks)
                <5>1. <<>> \in Seq(Chunks)
                    OBVIOUS
                <5>. QED
                    BY <3>1, <5>1 DEF Init
            <4>4. /\ work \in [Workers -> {"busy", "done", "failed"}]
                  /\ conn \in [Workers -> Conns \cup {NoConn}]
                BY DEF Init
            <4>. QED
                BY <3>1, <3>2, <4>1, <4>2, <4>3, <4>4 DEF WorkerType
        <3>5. \A w \in Workers : \A ch \in Held(w) : attempts[ch] < MaxAttempts
            BY <3>3, BlobTransferAssumption DEF Init
        <3>. QED
            BY <3>1, <3>2, <3>3, <3>4, <3>5, GroupFacts DEF OwnInv
    <2>. QED
        BY <2>1, <2>2 DEF Init
<1>4. CountInv
    <2>1. \A c \in Conns : recv[c].step = "idle"
        BY DEF Init, Idle
    <2>2. \A b \in Blobs : count[b] = Cardinality(written \cap ChunksOf(b))
        <3>1. \A b : written \cap ChunksOf(b) = {}
            BY DEF Init
        <3>. QED
            BY <3>1, FS_EmptySet DEF Init
    <2>3. pending = Cardinality(writers) /\ (rdone <=> writers = {})
        <3>1. IsFiniteSet(writers)
            BY PlanFacts, FS_Subset DEF Init, Awaited
        <3>. QED
            BY <3>1, FS_EmptySet DEF Init
    <2>4. writers \cup store = Blobs
        BY PlanFacts DEF Init, Awaited
    <2>5. wrong = {}
        BY DEF Init
    <2>. QED
        BY <2>1, <2>2, <2>3, <2>4, <2>5 DEF CountInv, LastChunk
<1>5. EndInv
    BY DEF Init, EndInv
<1>. QED
    BY <1>1, <1>2, <1>3, <1>4, <1>5 DEF TransferInv

-----------------------------------------------------------------------------
(* The types *)

\* Every step is one of these.
LEMMA StepCases ==
    ASSUME Next
    PROVE  \/ \E c \in Conns : Receive(c) \/ ServeUpload(c) \/ ServeDownload(c)
                               \/ ServeDownloadEnds(c) \/ ServeDownloadFails(c) \/ Cut(c)
           \/ \E w \in Workers : Dial(w) \/ TakeJob(w) \/ SendChunk(w) \/ RequestChunk(w)
                               \/ ChunkReceived(w) \/ ReadFails(w) \/ WorkerEnds(w)
                               \/ WorkerCancelled(w) \/ DialFails(w) \/ SourceFails(w)
           \/ \E b \in Blobs : Edit(b) \/ StoredByOther(b)
           \/ UploadEnds \/ DownloadEnds \/ DownloadFails \/ ClientStops
           \/ ReceiverWaited \/ SyncComplete \/ HostEnds \/ HostLosesClient
BY DEF Next, Steps, Faults, Worker, Serve, Ends

\* What is on its way stays a sequence of chunks and errors.
LEMMA DataNext ==
    ASSUME TransferInv, Next
    PROVE  data' \in [Conns -> Seq(Msgs)]
<1>0. /\ data \in [Conns -> Seq(Msgs)] /\ conn \in [Workers -> Conns \cup {NoConn}]
      /\ todo \in [Workers -> Seq(Chunks)] /\ asked \in [Conns -> Seq(Chunks)]
    BY DEF TransferInv, ReceiverType, WorkerType, SessionType
<1>1. ASSUME NEW c \in Conns, NEW s \in Seq(Msgs), data' = [data EXCEPT ![c] = s]
      PROVE  data' \in [Conns -> Seq(Msgs)]
    BY <1>0, <1>1
<1>2. <<>> \in Seq(Msgs)
    OBVIOUS
<1>3. \A c \in Conns : data[c] \in Seq(Msgs)
    BY <1>0
<1>4. ASSUME NEW c \in Conns, Receive(c) PROVE data' \in [Conns -> Seq(Msgs)]
    <2>1. CASE ReceiveStart(c)
        <3>1. Tail(data[c]) \in Seq(Msgs)
            BY <1>3, <2>1, SeqFacts DEF ReceiveStart
        <3>. QED
            BY <1>1, <2>1, <3>1 DEF ReceiveStart
    <2>2. CASE ReceiveCut(c)
        BY <1>1, <1>2, <2>2 DEF ReceiveCut
    <2>3. CASE data' = data
        BY <1>0, <2>3
    <2>. QED
        BY <1>4, <2>1, <2>2, <2>3 DEF Receive
<1>5. ASSUME NEW w \in Workers, Dial(w) PROVE data' \in [Conns -> Seq(Msgs)]
    <2>1. Min(FreeConns) \in Conns
        BY <1>5, FirstConn DEF Dial, FreeConns
    <2>. QED
        BY <1>1, <1>2, <1>5, <2>1 DEF Dial
<1>6. ASSUME NEW w \in Workers, SendChunk(w) PROVE data' \in [Conns -> Seq(Msgs)]
    <2>1. conn[w] \in Conns /\ Head(todo[w]) \in Chunks
        BY <1>0, <1>6, SeqFacts DEF SendChunk
    <2>. DEFINE m(b) == [ch |-> Head(todo[w]), ok |-> Head(todo[w]).hash \notin edited, taken |-> b]
    <2>2. ASSUME NEW b \in BOOLEAN PROVE Append(data[conn[w]], m(b)) \in Seq(Msgs)
        <3>1. m(b) \in Msgs
            BY <2>1 DEF Msgs
        <3>. QED
            BY <1>3, <2>1, <3>1, AppendFacts
    <2>3. \/ data' = data \/ data' = [data EXCEPT ![conn[w]] = Append(@, m(TRUE))]
          \/ data' = [data EXCEPT ![conn[w]] = Append(@, m(FALSE))]
        BY <1>6 DEF SendChunk
    <2>. HIDE DEF m
    <2>. QED
        BY <1>0, <1>1, <2>1, <2>2, <2>3
<1>7. ASSUME NEW w \in Workers, ReadFails(w) PROVE data' \in [Conns -> Seq(Msgs)]
    BY <1>0, <1>1, <1>2, <1>7 DEF ReadFails, Reading
<1>8. ASSUME NEW c \in Conns, ServeDownload(c) PROVE data' \in [Conns -> Seq(Msgs)]
    <2>1. Head(asked[c]) \in Chunks
        BY <1>0, <1>8, SeqFacts DEF ServeDownload
    <2>2. [ch |-> Head(asked[c]), ok |-> TRUE, taken |-> FALSE] \in Msgs
        BY <2>1 DEF Msgs
    <2>3. Append(data[c], [ch |-> Head(asked[c]), ok |-> TRUE, taken |-> FALSE]) \in Seq(Msgs)
        BY <1>3, <2>2, AppendFacts
    <2>. QED
        BY <1>0, <1>1, <1>8, <2>3 DEF ServeDownload
<1>9. ASSUME NEW c \in Conns, ServeDownloadFails(c) PROVE data' \in [Conns -> Seq(Msgs)]
    <2>1. Append(data[c], HostError) \in Seq(Msgs)
        BY <1>3, AppendFacts DEF Msgs
    <2>. QED
        BY <1>1, <1>9, <2>1 DEF ServeDownloadFails
<1>10. ASSUME NEW c \in Conns, Cut(c) PROVE data' \in [Conns -> Seq(Msgs)]
    <2>1. PICK n \in 0..Len(data[c]) : data' = [data EXCEPT ![c] = SubSeq(@, 1, n)]
        BY <1>10 DEF Cut
    <2>2. SubSeq(data[c], 1, n) \in Seq(Msgs)
        BY <1>3, SubSeqProperties
    <2>. QED
        BY <1>1, <2>1, <2>2
<1>11. ASSUME NEW w \in Workers,
              TakeJob(w) \/ RequestChunk(w) \/ ChunkReceived(w) \/ WorkerEnds(w)
              \/ WorkerCancelled(w) \/ DialFails(w) \/ SourceFails(w)
       PROVE  data' = data
    BY <1>11 DEF TakeJob, RequestChunk, ChunkReceived, WorkerEnds, WorkerCancelled, DialFails,
       SourceFails, cvars
<1>12. ASSUME NEW c \in Conns, ServeUpload(c) \/ ServeDownloadEnds(c)
       PROVE  data' = data
    BY <1>12 DEF ServeUpload, ServeDownloadEnds
<1>13. ASSUME NEW b \in Blobs, Edit(b) \/ StoredByOther(b)
       PROVE  data' = data
    BY <1>13 DEF Edit, StoredByOther, cvars
<1>14. ASSUME UploadEnds \/ DownloadEnds \/ DownloadFails \/ ClientStops
              \/ ReceiverWaited \/ SyncComplete \/ HostEnds \/ HostLosesClient
       PROVE  data' = data
    BY <1>14 DEF UploadEnds, DownloadEnds, DownloadFails, ClientStops, ReceiverWaited,
       SyncComplete, HostEnds, HostLosesClient, cvars
<1>. QED
    BY <1>0, <1>4, <1>5, <1>6, <1>7, <1>8, <1>9, <1>10, <1>11, <1>12, <1>13, <1>14, StepCases
\* A chunk that is being received.
LEMMA StepFacts ==
    ASSUME ReceiverType, NEW c \in Conns
    PROVE  /\ recv[c].step \in {"write", "commit", "count", "received", "error"} =>
                recv[c] \in Receiving /\ recv[c].ch \in Chunks
           /\ recv[c] = Idle => recv[c].step = "idle"
<1>1. recv[c] \in {Idle, Broken} \cup Receiving
    BY DEF ReceiverType
<1>2. Idle.step = "idle" /\ Broken.step = "broken"
    BY DEF Idle, Broken
<1>3. \A r \in Receiving : r.ch \in Chunks
    BY DEF Receiving
<1>. QED
    BY <1>1, <1>2, <1>3

\* The next step of a chunk.
LEMMA ResultFacts ==
    ASSUME ReceiverType, NEW c \in Conns, recv[c] \in Receiving,
           NEW r \in {"write", "commit", "count", "received", "error"}, Result(c, r)
    PROVE  /\ recv' \in [Conns -> {Idle, Broken} \cup Receiving]
           /\ \A d \in Conns : d # c => recv'[d] = recv[d]
           /\ \/ recv'[c] = Idle /\ r = "received"
              \/ recv'[c].step = r /\ recv'[c].ch = recv[c].ch
<1>1. recv \in [Conns -> {Idle, Broken} \cup Receiving]
    BY DEF ReceiverType
<1>2. /\ [recv[c] EXCEPT !.step = r] \in Receiving
      /\ [recv[c] EXCEPT !.step = r].step = r /\ [recv[c] EXCEPT !.step = r].ch = recv[c].ch
    BY DEF Receiving
<1>3. \/ r = "received" /\ recv' = [recv EXCEPT ![c] = Idle]
      \/ recv' = [recv EXCEPT ![c] = [recv[c] EXCEPT !.step = r]]
    BY DEF Result
<1>. QED
    BY <1>1, <1>2, <1>3

\* What a connection does with the first chunk it finds.
LEMMA StartFacts ==
    ASSUME ReceiverType, NEW c \in Conns, ReceiveStart(c)
    PROVE  /\ recv' \in [Conns -> {Idle, Broken} \cup Receiving]
           /\ \A d \in Conns : d # c => recv'[d] = recv[d]
           /\ \/ recv'[c] = recv[c]
              \/ recv'[c].step \in {"error", "received"}
              \/ recv'[c].step = "write" /\ recv'[c].ch.hash \in writers
<1>1. recv \in [Conns -> {Idle, Broken} \cup Receiving] /\ data[c] \in Seq(Msgs)
    BY DEF ReceiverType
<1>2. Head(data[c]) \in Msgs /\ Head(data[c]) # HostError
    BY <1>1, SeqFacts DEF ReceiveStart
<1>. DEFINE m == Head(data[c])
<1>3. m.ch \in Chunks /\ m.ok \in BOOLEAN
    BY <1>2 DEF Msgs
<1>4. \A step \in {"write", "error", "received"} :
          [step |-> step, ch |-> m.ch, ok |-> m.ok] \in Receiving
    BY <1>3 DEF Receiving
<1>5. \/ recv' = recv
      \/ recv' = [recv EXCEPT ![c] = [step |-> "error", ch |-> m.ch, ok |-> m.ok]]
      \/ recv' = [recv EXCEPT ![c] = [step |-> "received", ch |-> m.ch, ok |-> m.ok]]
      \/ /\ recv' = [recv EXCEPT ![c] = [step |-> "write", ch |-> m.ch, ok |-> m.ok]]
         /\ m.ch.hash \in writers
    BY DEF ReceiveStart
<1>. HIDE DEF m
<1>. QED
    BY <1>1, <1>4, <1>5

\* Only a chunk that is received changes the counts; a failure removes the open files, and
\* other transfers may store blobs.
LEMMA ReceiverMoves ==
    ASSUME TransferInv, Next
    PROVE  \/ \E c \in Conns : \/ ReceiveStart(c) \/ ReceiveCut(c)
                               \/ ReceiveWrite(c) \/ ReceiveCommit(c) \/ ReceiveCount(c)
           \/ /\ \/ UNCHANGED rvars
                 \/ ReceiverFails
                 \/ \E b \in Blobs :
                       /\ store' = store \cup {b}
                       /\ UNCHANGED <<wrong, writers, written, mixed, count, pending, rerr, rdone>>
              /\ recv' = recv \/ \E c \in Conns : recv' = [recv EXCEPT ![c] = Idle]
<1>0. conn \in [Workers -> Conns \cup {NoConn}]
    BY DEF TransferInv, WorkerType
<1>1. ASSUME NEW c \in Conns, Receive(c)
      PROVE  \/ ReceiveStart(c) \/ ReceiveCut(c)
             \/ ReceiveWrite(c) \/ ReceiveCommit(c) \/ ReceiveCount(c)
    BY <1>1 DEF Receive
<1>2. ASSUME NEW c \in Conns,
             ServeUpload(c) \/ ServeDownload(c) \/ ServeDownloadEnds(c) \/ ServeDownloadFails(c)
             \/ Cut(c)
      PROVE  /\ UNCHANGED rvars \/ ReceiverFails
             /\ recv' = recv \/ recv' = [recv EXCEPT ![c] = Idle]
    BY <1>2 DEF ServeUpload, ServeDownload, ServeDownloadEnds, ServeDownloadFails, Cut, SessionFails
<1>3. ASSUME NEW w \in Workers,
             Dial(w) \/ TakeJob(w) \/ SendChunk(w) \/ RequestChunk(w) \/ WorkerEnds(w)
             \/ WorkerCancelled(w) \/ DialFails(w) \/ SourceFails(w)
      PROVE  UNCHANGED rvars /\ recv' = recv
    BY <1>3 DEF Dial, TakeJob, SendChunk, RequestChunk, WorkerEnds, WorkerCancelled, DialFails,
       SourceFails
<1>4. ASSUME NEW w \in Workers, ChunkReceived(w) \/ ReadFails(w)
      PROVE  /\ UNCHANGED rvars \/ ReceiverFails
             /\ conn[w] \in Conns /\ recv' = [recv EXCEPT ![conn[w]] = Idle]
    BY <1>0, <1>4 DEF ChunkReceived, ReadFails, Reading
<1>5. ASSUME NEW b \in Blobs, Edit(b) PROVE UNCHANGED rvars /\ recv' = recv
    BY <1>5 DEF Edit
<1>6. ASSUME NEW b \in Blobs, StoredByOther(b)
      PROVE  /\ store' = store \cup {b}
             /\ UNCHANGED <<wrong, writers, written, mixed, count, pending, rerr, rdone>>
             /\ recv' = recv
    BY <1>6 DEF StoredByOther
<1>7. ASSUME UploadEnds \/ DownloadEnds \/ DownloadFails \/ ClientStops
             \/ ReceiverWaited \/ SyncComplete \/ HostEnds \/ HostLosesClient
      PROVE  (UNCHANGED rvars \/ ReceiverFails) /\ recv' = recv
    <2>1. CASE UploadEnds \/ DownloadEnds \/ SyncComplete \/ HostEnds
        BY <2>1 DEF UploadEnds, DownloadEnds, SyncComplete, HostEnds
    <2>2. CASE DownloadFails \/ ClientStops
        BY <2>2 DEF DownloadFails, ClientStops
    <2>3. CASE ReceiverWaited
        BY <2>3 DEF ReceiverWaited, SessionFails, rvars
    <2>4. CASE HostLosesClient
        BY <2>4 DEF HostLosesClient, SessionFails
    <2>. QED
        BY <1>7, <2>1, <2>2, <2>3, <2>4
<1>8. CASE \E c \in Conns : Receive(c)
    BY <1>1, <1>8
<1>9. CASE \E c \in Conns : ServeUpload(c) \/ ServeDownload(c) \/ ServeDownloadEnds(c)
                            \/ ServeDownloadFails(c) \/ Cut(c)
    BY <1>2, <1>9
<1>10. CASE \E w \in Workers : Dial(w) \/ TakeJob(w) \/ SendChunk(w) \/ RequestChunk(w)
                               \/ WorkerEnds(w) \/ WorkerCancelled(w) \/ DialFails(w) \/ SourceFails(w)
    BY <1>3, <1>10
<1>11. CASE \E w \in Workers : ChunkReceived(w) \/ ReadFails(w)
    BY <1>4, <1>11
<1>12. CASE \E b \in Blobs : Edit(b) \/ StoredByOther(b)
    BY <1>5, <1>6, <1>12
<1>13. CASE \/ UploadEnds \/ DownloadEnds \/ DownloadFails \/ ClientStops
            \/ ReceiverWaited \/ SyncComplete \/ HostEnds \/ HostLosesClient
    BY <1>7, <1>13
<1>. QED
    BY <1>8, <1>9, <1>10, <1>11, <1>12, <1>13, StepCases
-----------------------------------------------------------------------------
(* The receiver *)

\* A chunk is taken from the connection, or the connection is found broken.
LEMMA StartStep ==
    ASSUME TransferInv, Next, NEW c \in Conns, ReceiveStart(c) \/ ReceiveCut(c)
    PROVE  ReceiverType' /\ CountInv'
<1>. USE DEF rvars
<1>0. ReceiverType /\ CountInv /\ UNCHANGED rvars
    BY DEF TransferInv, ReceiveStart, ReceiveCut
<1>1. /\ recv' \in [Conns -> {Idle, Broken} \cup Receiving]
      /\ \A d \in Conns : d # c => recv'[d] = recv[d]
      /\ \/ recv'[c] = recv[c]
         \/ recv'[c].step \in {"error", "received", "broken"}
         \/ recv'[c].step = "write" /\ recv'[c].ch.hash \in writers
    <2>1. CASE ReceiveStart(c)
        BY <1>0, <2>1, StartFacts
    <2>2. CASE ReceiveCut(c)
        BY <1>0, <2>2 DEF ReceiveCut, ReceiverType, Broken
    <2>. QED
        BY <2>1, <2>2
<1>2. ReceiverType'
    BY <1>0, <1>1, DataNext DEF ReceiverType
<1>3. \A d \in Conns : LastChunk(d)' => recv'[d] = recv[d] /\ LastChunk(d)
    BY <1>1 DEF LastChunk
<1>4. \A d \in Conns : \/ recv'[d] = recv[d]
                       \/ recv'[d].step \notin {"write", "count", "commit"}
                       \/ recv'[d].step = "write" /\ recv'[d].ch.hash \in writers
    BY <1>1
<1>5. CountInv'
    <2>. SUFFICES ASSUME ~rerr PROVE CountInv'
        BY <1>0 DEF CountInv
    <2>1. \A d \in Conns : recv'[d].step = "count" => recv'[d].ch.hash \in store
        BY <1>0, <1>4 DEF CountInv
    <2>2. \A d \in Conns : recv'[d].step = "write" /\ recv'[d].ch \notin written
                                => recv'[d].ch.hash \in writers
        BY <1>0, <1>4 DEF CountInv
    <2>3. \A d \in Conns : LastChunk(d)' => /\ ChunksOf(recv'[d].ch.hash) \subseteq written
                                            /\ recv'[d].ch.hash \in writers
        BY <1>0, <1>3 DEF CountInv
    <2>4. \A d, e \in Conns :
              LastChunk(d)' /\ LastChunk(e)' /\ recv'[d].ch.hash = recv'[e].ch.hash => d = e
        BY <1>0, <1>3 DEF CountInv
    <2>. QED
        BY <1>0, <2>1, <2>2, <2>3, <2>4 DEF CountInv
<1>. QED
    BY <1>2, <1>5

\* A chunk is written and counted, unless it was before.  The connection that writes the
\* last chunk of a blob is the only one to go on to commit it.
LEMMA WriteStep ==
    ASSUME TransferInv, Next, NEW c \in Conns, ReceiveWrite(c)
    PROVE  ReceiverType' /\ CountInv'
<1>0. ReceiverType /\ CountInv /\ recv[c].step = "write"
    BY DEF TransferInv, ReceiveWrite
<1>. DEFINE ch == recv[c].ch
<1>1. recv[c] \in Receiving /\ ch \in Chunks /\ ch.hash \in Blobs /\ ch \in ChunksOf(ch.hash)
    BY <1>0, StepFacts, PlanFacts
<1>2. CASE UNCHANGED rvars /\ (Result(c, "received") \/ Result(c, "error"))
    <2>. USE DEF rvars
    <2>1. /\ recv' \in [Conns -> {Idle, Broken} \cup Receiving]
          /\ \A d \in Conns : d # c => recv'[d] = recv[d]
          /\ recv'[c].step \in {"idle", "received", "error"}
        BY <1>0, <1>1, <1>2, ResultFacts DEF Idle
    <2>2. ReceiverType'
        BY <1>0, <1>2, <2>1, DataNext DEF ReceiverType
    <2>3. \A d \in Conns : recv'[d].step \in {"write", "commit", "count"} => recv'[d] = recv[d]
        BY <2>1
    <2>4. CountInv'
        BY <1>0, <1>2, <2>3 DEF CountInv, LastChunk
    <2>. QED
        BY <2>2, <2>4
<1>3. CASE /\ ch \notin written /\ ~rerr
           /\ written' = written \cup {ch}
           /\ mixed' = IF recv[c].ok THEN mixed ELSE mixed \cup {ch.hash}
           /\ count' = [count EXCEPT ![ch.hash] = @ + 1]
           /\ Result(c, IF count'[ch.hash] = Cardinality(ChunksOf(ch.hash))
                        THEN "commit" ELSE "received")
           /\ UNCHANGED <<store, wrong, writers, pending, rerr, rdone>>
    <2>1. /\ recv' \in [Conns -> {Idle, Broken} \cup Receiving]
          /\ \A d \in Conns : d # c => recv'[d] = recv[d]
          /\ \/ recv'[c].step \in {"idle", "received"}
             \/ /\ recv'[c].step = "commit" /\ recv'[c].ch = ch
                /\ count'[ch.hash] = Cardinality(ChunksOf(ch.hash))
        <3>1. CASE count'[ch.hash] = Cardinality(ChunksOf(ch.hash))
            BY <1>0, <1>1, <1>3, <3>1, ResultFacts
        <3>2. CASE count'[ch.hash] # Cardinality(ChunksOf(ch.hash))
            BY <1>0, <1>1, <1>3, <3>2, ResultFacts DEF Idle
        <3>. QED
            BY <3>1, <3>2
    <2>2. count \in [Blobs -> Nat] /\ written \subseteq Chunks
        BY <1>0 DEF ReceiverType
    <2>3. ReceiverType'
        <3>1. count' \in [Blobs -> Nat] /\ written' \subseteq Chunks
            BY <1>1, <1>3, <2>2
        <3>2. mixed' \subseteq Blobs
            BY <1>0, <1>1, <1>3 DEF ReceiverType
        <3>. QED
            BY <1>0, <1>3, <2>1, <3>1, <3>2, DataNext DEF ReceiverType
    <2>4. ASSUME NEW b \in Blobs
          PROVE  count'[b] = Cardinality(written' \cap ChunksOf(b))
        <3>1. count[b] = Cardinality(written \cap ChunksOf(b))
            BY <1>0, <1>3 DEF CountInv
        <3>2. CASE b = ch.hash
            <4>1. /\ written' \cap ChunksOf(b) = (written \cap ChunksOf(b)) \cup {ch}
                  /\ ch \notin written \cap ChunksOf(b)
                BY <1>1, <1>3, <3>2
            <4>2. IsFiniteSet(written \cap ChunksOf(b))
                BY PlanFacts, FS_Subset
            <4>. QED
                BY <1>1, <1>3, <2>2, <3>1, <3>2, <4>1, <4>2, FS_AddElement
        <3>3. CASE b # ch.hash
            <4>1. written' \cap ChunksOf(b) = written \cap ChunksOf(b)
                BY <1>1, <1>3, <3>3, PlanFacts
            <4>. QED
                BY <1>3, <2>2, <3>1, <3>3, <4>1
        <3>. QED
            BY <3>2, <3>3
    <2>5. recv'[c].step = "commit" =>
              ChunksOf(ch.hash) \subseteq written' /\ ch.hash \in writers /\ recv'[c].ch = ch
        <3>. SUFFICES ASSUME recv'[c].step = "commit"
                      PROVE  ChunksOf(ch.hash) \subseteq written' /\ ch.hash \in writers
                             /\ recv'[c].ch = ch
            OBVIOUS
        <3>1. Cardinality(written' \cap ChunksOf(ch.hash)) = Cardinality(ChunksOf(ch.hash))
            BY <1>1, <2>1, <2>4
        <3>2. written' \cap ChunksOf(ch.hash) = ChunksOf(ch.hash)
            BY <3>1, PlanFacts, FS_Subset
        <3>3. ch.hash \in writers
            BY <1>0, <1>3 DEF CountInv
        <3>. QED
            BY <2>1, <3>2, <3>3
    <2>6. \A d \in Conns : LastChunk(d) => recv[d].ch.hash # ch.hash
        BY <1>0, <1>1, <1>3 DEF CountInv
    <2>7. \A d \in Conns : LastChunk(d)' => \/ d = c /\ recv'[c].step = "commit"
                                            \/ d # c /\ LastChunk(d) /\ recv'[d] = recv[d]
        BY <2>1 DEF LastChunk
    <2>8. CountInv'
        <3>1. \A d \in Conns : LastChunk(d)' => /\ ChunksOf(recv'[d].ch.hash) \subseteq written'
                                                /\ recv'[d].ch.hash \in writers
            BY <1>0, <1>3, <2>5, <2>7 DEF CountInv
        <3>2. \A d, e \in Conns :
                 LastChunk(d)' /\ LastChunk(e)' /\ recv'[d].ch.hash = recv'[e].ch.hash => d = e
            BY <1>0, <1>3, <2>5, <2>6, <2>7 DEF CountInv
        <3>3. \A d \in Conns : recv'[d].step = "count" => recv'[d].ch.hash \in store
            BY <1>0, <1>3, <2>1 DEF CountInv
        <3>4. \A d \in Conns : recv'[d].step = "write" /\ recv'[d].ch \notin written'
                                    => recv'[d].ch.hash \in writers
            BY <1>0, <1>3, <2>1 DEF CountInv
        <3>. QED
            BY <1>0, <1>3, <2>4, <3>1, <3>2, <3>3, <3>4 DEF CountInv
    <2>. QED
        BY <2>3, <2>8
<1>. QED
    BY <1>2, <1>3 DEF ReceiveWrite

\* A failure of the receiver: nothing is counted any more.
LEMMA FailStep ==
    ASSUME ReceiverType, CountInv, ReceiverFails,
           recv' \in [Conns -> {Idle, Broken} \cup Receiving], data' \in [Conns -> Seq(Msgs)]
    PROVE  ReceiverType' /\ CountInv'
<1>1. writers' \subseteq Blobs
    BY DEF ReceiverType, ReceiverFails
<1>2. rerr' \in BOOLEAN /\ rdone' \in BOOLEAN /\ rerr'
    BY DEF ReceiverFails
<1>. QED
    BY <1>1, <1>2 DEF ReceiverType, CountInv, ReceiverFails

\* The blob is moved into the store.
LEMMA CommitStep ==
    ASSUME TransferInv, Next, NEW c \in Conns, ReceiveCommit(c)
    PROVE  ReceiverType' /\ CountInv'
<1>0. ReceiverType /\ CountInv /\ recv[c].step = "commit"
    BY DEF TransferInv, ReceiveCommit
<1>. DEFINE b == recv[c].ch.hash
<1>1. recv[c] \in Receiving /\ b \in Blobs
    BY <1>0, StepFacts, PlanFacts
<1>2. CASE Result(c, "error") /\ ReceiverFails
    BY <1>0, <1>1, <1>2, ResultFacts, DataNext, FailStep
<1>3. CASE /\ ~rerr /\ Result(c, "count") /\ store' = store \cup {b}
           /\ UNCHANGED <<wrong, writers, written, mixed, count, pending, rerr, rdone>>
    <2>1. /\ recv' \in [Conns -> {Idle, Broken} \cup Receiving]
          /\ \A d \in Conns : d # c => recv'[d] = recv[d]
          /\ recv'[c].step = "count" /\ recv'[c].ch = recv[c].ch
        BY <1>0, <1>1, <1>3, ResultFacts
    <2>2. ReceiverType'
        BY <1>0, <1>1, <1>3, <2>1, DataNext DEF ReceiverType
    <2>3. \A d \in Conns : LastChunk(d)' => LastChunk(d) /\ recv'[d].ch = recv[d].ch
        BY <1>0, <2>1 DEF LastChunk
    <2>4. CountInv'
        <3>1. \A d \in Conns : LastChunk(d)' => /\ ChunksOf(recv'[d].ch.hash) \subseteq written
                                                /\ recv'[d].ch.hash \in writers
            BY <1>0, <1>3, <2>3 DEF CountInv
        <3>2. \A d, e \in Conns :
                 LastChunk(d)' /\ LastChunk(e)' /\ recv'[d].ch.hash = recv'[e].ch.hash => d = e
            BY <1>0, <1>3, <2>3 DEF CountInv
        <3>3. \A d \in Conns : recv'[d].step = "count" => recv'[d].ch.hash \in store'
            BY <1>0, <1>3, <2>1 DEF CountInv
        <3>4. \A d \in Conns : recv'[d].step = "write" /\ recv'[d].ch \notin written
                                    => recv'[d].ch.hash \in writers
            BY <1>0, <1>3, <2>1 DEF CountInv
        <3>5. writers \cup store' = Blobs
            BY <1>0, <1>1, <1>3 DEF CountInv
        <3>. QED
            BY <1>0, <1>3, <3>1, <3>2, <3>3, <3>4, <3>5 DEF CountInv
    <2>. QED
        BY <2>2, <2>4
<1>. QED
    BY <1>2, <1>3 DEF ReceiveCommit

\* The blob is counted; the receiver is done with the last one.
LEMMA CountStep ==
    ASSUME TransferInv, Next, NEW c \in Conns, ReceiveCount(c)
    PROVE  ReceiverType' /\ CountInv'
<1>0. /\ ReceiverType /\ CountInv /\ recv[c].step = "count" /\ Result(c, "received")
      /\ writers' = writers \ {recv[c].ch.hash} /\ pending' = pending - 1
      /\ rdone' = (rdone \/ pending' = 0)
      /\ UNCHANGED <<store, wrong, written, mixed, count, rerr>>
    BY DEF TransferInv, ReceiveCount
<1>. DEFINE b == recv[c].ch.hash
<1>1. recv[c] \in Receiving /\ b \in Blobs
    BY <1>0, StepFacts, PlanFacts
<1>2. /\ recv' \in [Conns -> {Idle, Broken} \cup Receiving]
      /\ \A d \in Conns : d # c => recv'[d] = recv[d]
      /\ recv'[c].step \in {"idle", "received"}
    BY <1>0, <1>1, ResultFacts DEF Idle
<1>3. ReceiverType'
    <2>1. rdone' \in BOOLEAN
        BY <1>0, Zenon
    <2>2. pending' \in Int /\ writers' \subseteq Blobs
        BY <1>0 DEF ReceiverType
    <2>. QED
        BY <1>0, <1>2, <2>1, <2>2, DataNext DEF ReceiverType
<1>4. CountInv'
    <2>. SUFFICES ASSUME ~rerr PROVE CountInv'
        BY <1>0 DEF CountInv
    <2>1. LastChunk(c) /\ b \in writers /\ b \in store /\ ChunksOf(b) \subseteq written
        BY <1>0 DEF CountInv, LastChunk
    <2>2. IsFiniteSet(writers) /\ IsFiniteSet(writers')
        BY <1>0, PlanFacts, FS_Subset DEF ReceiverType
    <2>3. pending' = Cardinality(writers')
        BY <1>0, <2>1, <2>2, FS_RemoveElement DEF CountInv
    <2>4. rdone' <=> writers' = {}
        <3>1. ~rdone
            BY <1>0, <2>1 DEF CountInv
        <3>2. pending' = 0 <=> writers' = {}
            BY <2>2, <2>3, FS_EmptySet
        <3>. QED
            BY <1>0, <3>1, <3>2
    <2>5. writers' \cup store' = Blobs
        BY <1>0, <2>1 DEF CountInv
    <2>6. \A d \in Conns : LastChunk(d)' => d # c /\ LastChunk(d) /\ recv'[d] = recv[d]
        BY <1>2 DEF LastChunk
    <2>7. \A d \in Conns : LastChunk(d)' => /\ ChunksOf(recv'[d].ch.hash) \subseteq written'
                                            /\ recv'[d].ch.hash \in writers'
        BY <1>0, <2>1, <2>6 DEF CountInv
    <2>8. \A d, e \in Conns :
             LastChunk(d)' /\ LastChunk(e)' /\ recv'[d].ch.hash = recv'[e].ch.hash => d = e
        BY <1>0, <2>6 DEF CountInv
    <2>9. \A d \in Conns : recv'[d].step = "count" => recv'[d].ch.hash \in store'
        BY <1>0, <1>2 DEF CountInv
    <2>10. ASSUME NEW d \in Conns, recv'[d].step = "write", recv'[d].ch \notin written'
           PROVE  recv'[d].ch.hash \in writers'
        <3>1. recv'[d] = recv[d] /\ recv[d].ch \in Chunks /\ recv[d].ch.hash \in writers
            BY <1>0, <1>2, <2>10, StepFacts DEF CountInv
        <3>2. recv[d].ch.hash # b
            BY <1>0, <2>1, <2>10, <3>1, PlanFacts
        <3>. QED
            BY <1>0, <3>1, <3>2
    <2>. QED
        BY <1>0, <2>3, <2>4, <2>5, <2>7, <2>8, <2>9, <2>10 DEF CountInv
<1>. QED
    BY <1>3, <1>4

\* Every step keeps the counts.
LEMMA ReceiverNext ==
    ASSUME TransferInv, Next
    PROVE  ReceiverType' /\ CountInv'
<1>0. ReceiverType /\ CountInv
    BY DEF TransferInv
<1>1. CASE recv' = recv \/ \E c \in Conns : recv' = [recv EXCEPT ![c] = Idle]
    <2>1. /\ recv' \in [Conns -> {Idle, Broken} \cup Receiving]
          /\ \A d \in Conns : recv'[d] = recv[d] \/ recv'[d].step = "idle"
        BY <1>0, <1>1 DEF ReceiverType, Idle
    <2>2. CASE ReceiverFails
        BY <1>0, <2>1, <2>2, DataNext, FailStep
    <2>3. CASE /\ store \subseteq store' /\ store' \subseteq Blobs
               /\ UNCHANGED <<wrong, writers, written, mixed, count, pending, rerr, rdone>>
        <3>1. ReceiverType'
            BY <1>0, <2>1, <2>3, DataNext DEF ReceiverType
        <3>2. \A d \in Conns : recv'[d].step \in {"write", "commit", "count"} => recv'[d] = recv[d]
            BY <2>1
        <3>3. \A d \in Conns : LastChunk(d)' => recv'[d] = recv[d] /\ LastChunk(d)
            BY <3>2 DEF LastChunk
        <3>4. CountInv'
            <4>. SUFFICES ASSUME ~rerr PROVE CountInv'
                BY <1>0, <2>3 DEF CountInv
            <4>1. \A d \in Conns : recv'[d].step = "count" => recv'[d].ch.hash \in store'
                BY <1>0, <2>3, <3>2 DEF CountInv
            <4>2. \A d \in Conns : recv'[d].step = "write" /\ recv'[d].ch \notin written
                                        => recv'[d].ch.hash \in writers
                BY <1>0, <3>2 DEF CountInv
            <4>3. \A d \in Conns : LastChunk(d)' => /\ ChunksOf(recv'[d].ch.hash) \subseteq written
                                                    /\ recv'[d].ch.hash \in writers
                BY <1>0, <3>3 DEF CountInv
            <4>4. \A d, e \in Conns :
                      LastChunk(d)' /\ LastChunk(e)' /\ recv'[d].ch.hash = recv'[e].ch.hash => d = e
                BY <1>0, <3>3 DEF CountInv
            <4>5. writers \cup store' = Blobs
                BY <1>0, <2>3 DEF CountInv
            <4>. QED
                BY <1>0, <2>3, <4>1, <4>2, <4>3, <4>4, <4>5 DEF CountInv
        <3>. QED
            BY <3>1, <3>4
    <2>4. store \subseteq Blobs
        BY <1>0 DEF ReceiverType
    <2>5. CASE UNCHANGED rvars
        BY <2>3, <2>4, <2>5 DEF rvars
    <2>6. CASE \E b \in Blobs :
                  /\ store' = store \cup {b}
                  /\ UNCHANGED <<wrong, writers, written, mixed, count, pending, rerr, rdone>>
        BY <2>3, <2>4, <2>6
    <2>7. CASE \E c \in Conns : \/ ReceiveStart(c) \/ ReceiveCut(c)
                                \/ ReceiveWrite(c) \/ ReceiveCommit(c) \/ ReceiveCount(c)
        BY <2>7, StartStep, WriteStep, CommitStep, CountStep
    <2>. QED
        BY <2>2, <2>5, <2>6, <2>7, ReceiverMoves
<1>2. CASE \E c \in Conns : \/ ReceiveStart(c) \/ ReceiveCut(c)
                            \/ ReceiveWrite(c) \/ ReceiveCommit(c) \/ ReceiveCount(c)
    BY <1>2, StartStep, WriteStep, CommitStep, CountStep
<1>. QED
    BY <1>1, <1>2, ReceiverMoves
-----------------------------------------------------------------------------
(* Connections and sessions *)

\* The direction is chosen once.
LEMMA SameDirection ==
    ASSUME Next
    PROVE  direction' = direction
<1>1. ASSUME NEW c \in Conns,
             Receive(c) \/ ServeUpload(c) \/ ServeDownload(c) \/ ServeDownloadEnds(c)
             \/ ServeDownloadFails(c) \/ Cut(c)
      PROVE  direction' = direction
    BY <1>1 DEF Receive, ServeUpload, ServeDownload, ServeDownloadEnds, ServeDownloadFails, Cut
<1>2. ASSUME NEW w \in Workers,
             Dial(w) \/ TakeJob(w) \/ SendChunk(w) \/ RequestChunk(w) \/ ChunkReceived(w)
             \/ ReadFails(w) \/ WorkerEnds(w) \/ WorkerCancelled(w) \/ DialFails(w) \/ SourceFails(w)
      PROVE  direction' = direction
    BY <1>2 DEF Dial, TakeJob, SendChunk, RequestChunk, ChunkReceived, ReadFails, WorkerEnds,
       WorkerCancelled, DialFails, SourceFails
<1>3. ASSUME NEW b \in Blobs, Edit(b) \/ StoredByOther(b)
      PROVE  direction' = direction
    BY <1>3 DEF Edit, StoredByOther
<1>4. ASSUME UploadEnds \/ DownloadEnds \/ DownloadFails \/ ClientStops
             \/ ReceiverWaited \/ SyncComplete \/ HostEnds \/ HostLosesClient
      PROVE  direction' = direction
    BY <1>4 DEF UploadEnds, DownloadEnds, DownloadFails, ClientStops, ReceiverWaited,
       SyncComplete, HostEnds, HostLosesClient
<1>. QED
    BY <1>1, <1>2, <1>3, <1>4, StepCases

\* Connections keep their types.
LEMMA ConnsNext ==
    ASSUME TransferInv, Next
    PROVE  /\ link' \in [Conns -> {"none", "open", "closed", "cut"}]
           /\ serve' \in [Conns -> {"on", "off"}]
           /\ asked' \in [Conns -> Seq(Chunks)]
<1>. DEFINE Goal == /\ link' \in [Conns -> {"none", "open", "closed", "cut"}]
                    /\ serve' \in [Conns -> {"on", "off"}]
                    /\ asked' \in [Conns -> Seq(Chunks)]
<1>0. /\ link \in [Conns -> {"none", "open", "closed", "cut"}]
      /\ serve \in [Conns -> {"on", "off"}] /\ asked \in [Conns -> Seq(Chunks)]
      /\ conn \in [Workers -> Conns \cup {NoConn}] /\ todo \in [Workers -> Seq(Chunks)]
    BY DEF TransferInv, SessionType, WorkerType
<1>1. ASSUME NEW c, Close(c)
      PROVE  link' \in [Conns -> {"none", "open", "closed", "cut"}]
    BY <1>0, <1>1 DEF Close
<1>2. ASSUME NEW c \in Conns PROVE asked[c] \in Seq(Chunks) /\ <<>> \in Seq(Chunks)
    BY <1>0
<1>3. CASE UNCHANGED <<link, serve, asked>>
    BY <1>0, <1>3
<1>4. ASSUME NEW c \in Conns, ServeUpload(c) PROVE Goal
    BY <1>0, <1>1, <1>4 DEF ServeUpload, EndServe
<1>5. ASSUME NEW c \in Conns, ServeDownload(c) PROVE Goal
    <2>1. Tail(asked[c]) \in Seq(Chunks)
        BY <1>2, <1>5, SeqFacts DEF ServeDownload
    <2>. QED
        BY <1>0, <1>5, <2>1 DEF ServeDownload
<1>6. ASSUME NEW c \in Conns, ServeDownloadEnds(c) PROVE Goal
    BY <1>0, <1>2, <1>6 DEF ServeDownloadEnds
<1>7. ASSUME NEW c \in Conns, ServeDownloadFails(c) PROVE Goal
    BY <1>0, <1>1, <1>2, <1>7 DEF ServeDownloadFails, EndServe
<1>8. ASSUME NEW c \in Conns, Cut(c) PROVE Goal
    BY <1>0, <1>2, <1>8 DEF Cut
<1>9. ASSUME NEW c \in Conns, Receive(c) PROVE Goal
    BY <1>3, <1>9 DEF Receive
<1>10. ASSUME NEW w \in Workers, Dial(w) PROVE Goal
    <2>1. Min(FreeConns) \in Conns
        BY <1>10, FirstConn DEF Dial, FreeConns
    <2>. QED
        BY <1>0, <1>2, <1>10, <2>1 DEF Dial
<1>11. ASSUME NEW w \in Workers, RequestChunk(w) PROVE Goal
    <2>1. conn[w] \in Conns /\ Head(todo[w]) \in Chunks
        BY <1>0, <1>11, SeqFacts DEF RequestChunk
    <2>2. Append(asked[conn[w]], Head(todo[w])) \in Seq(Chunks)
        BY <1>2, <2>1, AppendFacts
    <2>. QED
        BY <1>0, <1>11, <2>1, <2>2 DEF RequestChunk
<1>12. ASSUME NEW w \in Workers, ReadFails(w) \/ WorkerEnds(w) \/ SourceFails(w) PROVE Goal
    BY <1>0, <1>1, <1>12 DEF ReadFails, WorkerEnds, SourceFails
<1>13. ASSUME NEW w \in Workers,
              TakeJob(w) \/ SendChunk(w) \/ ChunkReceived(w) \/ WorkerCancelled(w) \/ DialFails(w)
       PROVE  Goal
    BY <1>3, <1>13 DEF TakeJob, SendChunk, ChunkReceived, WorkerCancelled, DialFails, cvars
<1>14. ASSUME NEW b \in Blobs, Edit(b) \/ StoredByOther(b) PROVE Goal
    BY <1>3, <1>14 DEF Edit, StoredByOther, cvars
<1>15. ASSUME UploadEnds \/ DownloadEnds \/ DownloadFails \/ ClientStops
              \/ ReceiverWaited \/ SyncComplete \/ HostEnds \/ HostLosesClient
       PROVE  Goal
    BY <1>3, <1>15 DEF UploadEnds, DownloadEnds, DownloadFails, ClientStops, ReceiverWaited,
       SyncComplete, HostEnds, HostLosesClient, cvars
<1>. QED
    BY <1>4, <1>5, <1>6, <1>7, <1>8, <1>9, <1>10, <1>11, <1>12, <1>13, <1>14, <1>15, StepCases

\* What a step may change of the client, the host and the host's session.
SessionChange ==
    /\ edited' \subseteq Blobs /\ sent' \subseteq Chunks
    /\ cancelled' \in BOOLEAN /\ registered' \in BOOLEAN /\ sdone' \in BOOLEAN
    /\ serr' \in BOOLEAN /\ lost' \in BOOLEAN
    /\ \/ client' = client
       \/ client = "running" /\ client' = "failed" /\ UNCHANGED <<store, host>>
       \/ client = "complete" /\ client' = "left" /\ UNCHANGED <<store, host>>
       \/ /\ client = "running" /\ client' = "complete" /\ UNCHANGED <<store, host>>
          /\ direction = "download" => rdone /\ ~rerr
    /\ \/ host' = host
       \/ /\ host = "read" /\ host' = "wait" /\ client \in {"complete", "left"}
          /\ UNCHANGED <<store, client>>
       \/ /\ host = "wait" /\ host' = "done" /\ sdone /\ ~serr
          /\ UNCHANGED <<store, client>>
       \/ /\ host \in {"read", "wait"} /\ host' = "failed" /\ UNCHANGED <<store, client>>
    /\ direction = "upload" /\ sdone' /\ ~serr' =>
          (sdone /\ ~serr) \/ (rdone /\ ~rerr /\ UNCHANGED store)

\* The client ends once, the host after it, and neither stores a blob with that step.
LEMMA SessionMoves ==
    ASSUME TransferInv, Next
    PROVE  SessionChange
<1>0. /\ edited \subseteq Blobs /\ sent \subseteq Chunks
      /\ cancelled \in BOOLEAN /\ registered \in BOOLEAN /\ sdone \in BOOLEAN
      /\ serr \in BOOLEAN /\ lost \in BOOLEAN
      /\ client \in {"running", "complete", "failed", "left"}
      /\ host \in {"read", "wait", "done", "failed"}
    BY DEF TransferInv, SessionType
<1>1. CASE /\ UNCHANGED <<edited, sent, registered, sdone, serr, client, host>>
           /\ cancelled' \in BOOLEAN /\ lost' \in BOOLEAN
    BY <1>0, <1>1 DEF SessionChange
<1>2. CASE UNCHANGED <<edited, svars, client, host, cancelled, lost>>
    BY <1>0, <1>2 DEF SessionChange, svars
<1>3. ASSUME NEW c \in Conns, Receive(c) PROVE SessionChange
    <2>1. lost' \in BOOLEAN
        BY <1>0, <1>3 DEF Receive, ReceiveCut
    <2>. QED
        BY <1>0, <1>1, <1>3, <2>1 DEF Receive, svars, wvars
<1>4. ASSUME NEW c \in Conns, Cut(c) PROVE SessionChange
    <2>1. lost' \in BOOLEAN
        BY <1>0, <1>4 DEF Cut
    <2>. QED
        BY <1>0, <1>1, <1>4, <2>1 DEF Cut, svars, wvars
<1>5. ASSUME NEW c \in Conns, ServeDownloadEnds(c) PROVE SessionChange
    BY <1>2, <1>5 DEF ServeDownloadEnds, wvars
<1>6. ASSUME NEW w \in Workers, GiveUp(w) \/ \E r \in BOOLEAN : Retry(w, r)
      PROVE  cancelled' \in BOOLEAN
    BY <1>0, <1>6 DEF GiveUp, Retry
<1>7. ASSUME NEW w \in Workers,
             Dial(w) \/ TakeJob(w) \/ RequestChunk(w) \/ ChunkReceived(w) \/ WorkerEnds(w)
      PROVE  SessionChange
    BY <1>2, <1>7 DEF Dial, TakeJob, RequestChunk, ChunkReceived, WorkerEnds
<1>8. ASSUME NEW w \in Workers,
             ReadFails(w) \/ WorkerCancelled(w) \/ DialFails(w) \/ SourceFails(w) \/ SendChunk(w)
      PROVE  SessionChange
    <2>1. cancelled' \in BOOLEAN
        BY <1>0, <1>6, <1>8 DEF ReadFails, WorkerCancelled, DialFails, SourceFails, SendChunk
    <2>2. lost' \in BOOLEAN
        BY <1>0, <1>8 DEF ReadFails, WorkerCancelled, DialFails, SourceFails, SendChunk
    <2>. QED
        BY <1>1, <1>8, <2>1, <2>2 DEF ReadFails, WorkerCancelled, DialFails, SourceFails, SendChunk,
           svars
<1>9. ASSUME NEW b \in Blobs, Edit(b) PROVE SessionChange
    BY <1>0, <1>9 DEF SessionChange, Edit, svars, wvars
<1>10. ASSUME NEW b \in Blobs, StoredByOther(b) PROVE SessionChange
    BY <1>2, <1>10 DEF StoredByOther, wvars
<1>11. ASSUME NEW c \in Conns, ServeUpload(c) PROVE SessionChange
    <2>1. UNCHANGED svars \/ (SessionFails /\ UNCHANGED <<registered, sent>>)
        BY <1>11 DEF ServeUpload
    <2>2. UNCHANGED <<edited, client, host, cancelled, lost>>
        BY <1>11 DEF ServeUpload, wvars
    <2>3. CASE UNCHANGED svars
        BY <1>2, <2>2, <2>3
    <2>4. CASE SessionFails /\ UNCHANGED <<registered, sent>>
        <3>1. serr' = TRUE /\ sdone' = TRUE
            BY <2>4 DEF SessionFails
        <3>. QED
            BY <1>0, <2>2, <2>4, <3>1 DEF SessionChange
    <2>. QED
        BY <2>1, <2>3, <2>4
<1>12. ASSUME NEW c \in Conns, ServeDownloadFails(c) PROVE SessionChange
    BY <1>0, <1>12 DEF SessionChange, ServeDownloadFails, wvars, SessionFails
<1>13. ASSUME NEW c \in Conns, ServeDownload(c) PROVE SessionChange
    <2>1. Head(asked[c]) \in Chunks
        BY <1>13, SeqFacts DEF ServeDownload, TransferInv, SessionType
    <2>2. sdone' \in BOOLEAN /\ sent' \subseteq Chunks
        BY <1>0, <1>13, <2>1 DEF ServeDownload
    <2>. QED
        BY <1>0, <1>13, <2>2 DEF SessionChange, ServeDownload, wvars
<1>14. CASE UploadEnds
    BY <1>0, <1>14 DEF SessionChange, UploadEnds, svars, wvars, rvars
<1>15. CASE DownloadEnds
    BY <1>0, <1>15 DEF SessionChange, DownloadEnds, svars, wvars, rvars
<1>16. CASE DownloadFails
    BY <1>0, <1>16 DEF SessionChange, DownloadFails, svars, ReceiverFails
<1>17. CASE ClientStops
    BY <1>0, <1>17 DEF SessionChange, ClientStops, svars, ReceiverFails, rvars
<1>18. CASE ReceiverWaited
    BY <1>0, <1>18 DEF SessionChange, ReceiverWaited, SessionFails, ReceiverFails, rvars, wvars
<1>19. CASE SyncComplete
    BY <1>0, <1>19 DEF SessionChange, SyncComplete, svars, rvars, wvars
<1>20. CASE HostEnds
    BY <1>0, <1>20 DEF SessionChange, HostEnds, svars, rvars, wvars
<1>21. CASE HostLosesClient
    BY <1>0, <1>21 DEF SessionChange, HostLosesClient, SessionFails, ReceiverFails, rvars, wvars
<1>. QED
    BY <1>3, <1>4, <1>5, <1>7, <1>8, <1>9, <1>10, <1>11, <1>12, <1>13, <1>14, <1>15, <1>16, <1>17,
       <1>18, <1>19, <1>20, <1>21, StepCases

\* Connections, sessions, client and host keep their types.
LEMMA SessionNext ==
    ASSUME TransferInv, Next
    PROVE  SessionType'
<1>1. SessionType /\ SessionChange /\ direction' = direction
    BY SessionMoves, SameDirection DEF TransferInv
<1>2. client' \in {"running", "complete", "failed", "left"}
    BY <1>1 DEF SessionType, SessionChange
<1>3. host' \in {"read", "wait", "done", "failed"}
    BY <1>1 DEF SessionType, SessionChange
<1>4. /\ edited' \subseteq Blobs /\ sent' \subseteq Chunks
      /\ cancelled' \in BOOLEAN /\ registered' \in BOOLEAN /\ sdone' \in BOOLEAN
      /\ serr' \in BOOLEAN /\ lost' \in BOOLEAN
    BY <1>1, Zenon DEF SessionChange
<1>5. direction' \in {"upload", "download"}
    BY <1>1 DEF SessionType
<1>. QED
    BY <1>2, <1>3, <1>4, <1>5, ConnsNext DEF SessionType

\* A blob that is in the store stays there.
LEMMA StoreGrows ==
    ASSUME TransferInv, Next
    PROVE  store \subseteq store' /\ store' \subseteq Blobs
<1>1. store' \subseteq Blobs
    BY ReceiverNext DEF ReceiverType
<1>2. ASSUME NEW c \in Conns,
             ReceiveStart(c) \/ ReceiveCut(c) \/ ReceiveWrite(c) \/ ReceiveCount(c)
      PROVE  store' = store
    BY <1>2 DEF ReceiveStart, ReceiveCut, ReceiveWrite, ReceiveCount, rvars
<1>3. ASSUME NEW c \in Conns, ReceiveCommit(c)
      PROVE  store \subseteq store'
    BY <1>3 DEF ReceiveCommit, ReceiverFails
<1>4. CASE UNCHANGED rvars
    BY <1>1, <1>4 DEF rvars
<1>5. CASE ReceiverFails
    BY <1>1, <1>5 DEF ReceiverFails
<1>. QED
    BY <1>1, <1>2, <1>3, <1>4, <1>5, ReceiverMoves

\* A side that ends takes the other's end, or the receiver's, for it.
LEMMA EndNext ==
    ASSUME TransferInv, Next
    PROVE  EndInv'
<1>0. /\ EndInv /\ SessionChange /\ direction' = direction
      /\ store \subseteq store' /\ store' \subseteq Blobs /\ store \subseteq Blobs
      /\ client \in {"running", "complete", "failed", "left"}
      /\ host \in {"read", "wait", "done", "failed"}
      /\ direction \in {"upload", "download"}
    BY SessionMoves, SameDirection, StoreGrows DEF TransferInv, ReceiverType, SessionType
<1>1. rdone /\ ~rerr => store = Blobs
    BY DEF TransferInv, CountInv
<1>2. store = Blobs => store' = Blobs
    BY <1>0
<1>3. host' \in {"wait", "done"} => client' \in {"complete", "left"}
    BY <1>0 DEF SessionChange, EndInv
<1>4. direction = "upload" /\ sdone' /\ ~serr' => store' = Blobs
    BY <1>0, <1>1, <1>2 DEF SessionChange, EndInv
<1>5. direction = "download" /\ client' \in {"complete", "left"} => store' = Blobs
    BY <1>0, <1>1, <1>2 DEF SessionChange, EndInv
<1>6. host' = "done" => store' = Blobs
    BY <1>0, <1>2 DEF SessionChange, EndInv
<1>. QED
    BY <1>0, <1>3, <1>4, <1>5, <1>6 DEF EndInv
-----------------------------------------------------------------------------
(* The workers *)

\* A worker that keeps some of its chunks and may still try them disturbs no other.
LEMMA KeepsSome ==
    ASSUME WorkerType, OwnInv, NEW w \in Workers,
           work' \in [Workers -> {"busy", "done", "failed"}],
           conn' \in [Workers -> Conns \cup {NoConn}],
           NEW s \in Seq(Chunks), todo' = [todo EXCEPT ![w] = s],
           NEW t \in Seq(Chunks), inFlight' = [inFlight EXCEPT ![w] = t],
           ToSet(s) \cup ToSet(t) \subseteq Held(w),
           jobs' = jobs,
           attempts' \in [Chunks -> 0..MaxAttempts],
           \A ch \in Chunks : ch \notin Held(w) => attempts'[ch] = attempts[ch],
           \A ch \in ToSet(s) \cup ToSet(t) : attempts'[ch] < MaxAttempts
    PROVE  WorkerType' /\ OwnInv'
<1>1. WorkerType'
    BY DEF WorkerType
<1>2. \A v \in Workers : Held(v) \subseteq Chunks
    BY SeqFacts DEF WorkerType, Held
<1>3. ToSet(jobs) \subseteq Chunks
    BY SeqFacts DEF WorkerType
<1>4. \A v \in Workers : v # w => Held(v)' = Held(v)
    BY DEF WorkerType, Held
<1>5. Held(w)' = ToSet(s) \cup ToSet(t)
    BY DEF WorkerType, Held
<1>6. \A v \in Workers : Held(v)' \subseteq Held(v)
    BY <1>4, <1>5
<1>7. \A u, v \in Workers : u # v => Held(u)' \cap Held(v)' = {}
    BY <1>6 DEF OwnInv
<1>8. \A v \in Workers : Held(v)' \cap ToSet(jobs') = {}
    BY <1>6 DEF OwnInv
<1>9. ASSUME NEW v \in Workers, NEW ch \in Held(v)' PROVE attempts'[ch] < MaxAttempts
    <2>1. CASE v = w
        BY <1>5, <1>9, <2>1
    <2>2. CASE v # w
        <3>1. ch \in Held(v) /\ ch \notin Held(w) /\ ch \in Chunks
            BY <1>2, <1>4, <1>9, <2>2 DEF OwnInv
        <3>. QED
            BY <3>1 DEF OwnInv
    <2>. QED
        BY <2>1, <2>2
<1>10. \A ch \in ToSet(jobs') : attempts'[ch] < MaxAttempts
    <2>1. \A ch \in ToSet(jobs) : ch \in Chunks /\ ch \notin Held(w)
        BY <1>3 DEF OwnInv
    <2>. QED
        BY <2>1 DEF OwnInv
<1>. QED
    BY <1>1, <1>7, <1>8, <1>9, <1>10 DEF OwnInv

\* A worker that fails has no chunks any more.
LEMMA GiveUpStep ==
    ASSUME WorkerType, OwnInv, NEW w \in Workers, GiveUp(w), jobs' = jobs,
           attempts' \in [Chunks -> 0..MaxAttempts],
           \A ch \in Chunks : ch \notin Held(w) => attempts'[ch] = attempts[ch]
    PROVE  WorkerType' /\ OwnInv'
<1>1. <<>> \in Seq(Chunks) /\ ToSet(<<>>) = {}
    BY DEF ToSet
<1>2. /\ work' \in [Workers -> {"busy", "done", "failed"}]
      /\ conn' \in [Workers -> Conns \cup {NoConn}]
      /\ todo' = [todo EXCEPT ![w] = <<>>]
      /\ inFlight' = [inFlight EXCEPT ![w] = <<>>]
    BY DEF GiveUp, WorkerType
<1>. QED
    BY <1>1, <1>2, KeepsSome

\* A worker tries its chunks again, each a number of times, or gives up.
LEMMA RetryStep ==
    ASSUME WorkerType, OwnInv, NEW w \in Workers, NEW r, Retry(w, r), jobs' = jobs
    PROVE  WorkerType' /\ OwnInv'
<1>. DEFINE failed == ToSet(Failed(w))
            tries == [ch \in Chunks |-> IF ch \in failed THEN attempts[ch] + 1 ELSE attempts[ch]]
<1>1. /\ todo[w] \in Seq(Chunks) /\ inFlight[w] \in Seq(Chunks)
      /\ attempts \in [Chunks -> 0..MaxAttempts] /\ MaxAttempts \in Nat
    BY BlobTransferAssumption DEF WorkerType
<1>2. Held(w) \subseteq Chunks /\ failed \subseteq Held(w)
    BY <1>1, SeqFacts DEF Held, Failed
<1>3. attempts' = tries
    BY DEF Retry
<1>4. \A ch \in Held(w) : attempts[ch] < MaxAttempts
    BY DEF OwnInv
<1>. HIDE DEF failed
<1>5. attempts' \in [Chunks -> 0..MaxAttempts]
    BY <1>1, <1>2, <1>3, <1>4
<1>6. \A ch \in Chunks : ch \notin failed => attempts'[ch] = attempts[ch]
    BY <1>3
<1>7. \A ch \in Chunks : ch \notin Held(w) => attempts'[ch] = attempts[ch]
    BY <1>2, <1>6
<1>8. CASE GiveUp(w)
    BY <1>5, <1>7, <1>8, GiveUpStep
<1>9. CASE ~GiveUp(w)
    <2>1. /\ \A ch \in failed : ~(attempts'[ch] >= MaxAttempts)
          /\ conn' = [conn EXCEPT ![w] = NoConn] /\ work' = work
          /\ todo' = [todo EXCEPT ![w] = IF direction = "upload" THEN @ ELSE inFlight[w] \o @]
          /\ inFlight' = [inFlight EXCEPT ![w] = <<>>]
        BY <1>9 DEF Retry, failed
    <2>2. <<>> \in Seq(Chunks) /\ ToSet(<<>>) = {}
        BY DEF ToSet
    <2>. DEFINE s == IF direction = "upload" THEN todo[w] ELSE inFlight[w] \o todo[w]
    <2>3. /\ inFlight[w] \o todo[w] \in Seq(Chunks)
          /\ ToSet(inFlight[w] \o todo[w]) = ToSet(inFlight[w]) \cup ToSet(todo[w])
        BY <1>1, ConcatFacts
    <2>4. s \in Seq(Chunks) /\ ToSet(s) \subseteq Held(w) /\ todo' = [todo EXCEPT ![w] = s]
        BY <1>1, <2>1, <2>3 DEF Held, WorkerType
    <2>. HIDE DEF s
    <2>5. \A ch \in Held(w) : attempts'[ch] < MaxAttempts
        BY <1>1, <1>2, <1>4, <1>5, <1>6, <2>1
    <2>6. /\ work' \in [Workers -> {"busy", "done", "failed"}]
          /\ conn' \in [Workers -> Conns \cup {NoConn}]
        BY <2>1 DEF WorkerType
    <2>7. ToSet(s) \cup ToSet(<<>>) \subseteq Held(w)
        BY <2>2, <2>4
    <2>. QED
        BY <1>5, <1>7, <2>1, <2>2, <2>4, <2>5, <2>6, <2>7, KeepsSome
<1>. QED
    BY <1>8, <1>9

\* A worker of an upload takes the next chunk, which is no other worker's.
LEMMA TakeStep ==
    ASSUME WorkerType, OwnInv, NEW w \in Workers, TakeJob(w)
    PROVE  WorkerType' /\ OwnInv'
<1>. DEFINE ch == Head(jobs)
<1>1. /\ todo[w] = <<>> /\ jobs # <<>> /\ todo' = [todo EXCEPT ![w] = <<ch>>]
      /\ jobs' = Tail(jobs) /\ UNCHANGED <<work, conn, inFlight, attempts>>
    BY DEF TakeJob
<1>2. jobs \in Seq(Chunks) /\ IsInjective(jobs)
    BY DEF WorkerType
<1>3. /\ ch \in ToSet(jobs) /\ Tail(jobs) \in Seq(Chunks) /\ ToSet(Tail(jobs)) \subseteq ToSet(jobs)
      /\ ToSet(jobs) \subseteq Chunks /\ ch \notin ToSet(Tail(jobs)) /\ IsInjective(Tail(jobs))
    BY <1>1, <1>2, SeqFacts, TailInjective
<1>. HIDE DEF ch
<1>4. <<ch>> \in Seq(Chunks) /\ ToSet(<<ch>>) = {ch} /\ ToSet(<<>>) = {}
    BY <1>3 DEF ToSet
<1>5. WorkerType'
    BY <1>1, <1>3, <1>4 DEF WorkerType
<1>6. \A v \in Workers : v # w => Held(v)' = Held(v)
    BY <1>1 DEF WorkerType, Held
<1>7. Held(w)' = Held(w) \cup {ch}
    BY <1>1, <1>4 DEF WorkerType, Held
<1>8. \A v \in Workers : ch \notin Held(v)
    BY <1>3 DEF OwnInv
<1>9. \A u, v \in Workers : u # v => Held(u)' \cap Held(v)' = {}
    BY <1>6, <1>7, <1>8 DEF OwnInv
<1>10. \A v \in Workers : Held(v)' \cap ToSet(jobs') = {}
    BY <1>1, <1>3, <1>6, <1>7 DEF OwnInv
<1>11. \A v \in Workers : \A x \in Held(v)' : attempts'[x] < MaxAttempts
    BY <1>1, <1>3, <1>6, <1>7 DEF OwnInv
<1>12. \A x \in ToSet(jobs') : attempts'[x] < MaxAttempts
    BY <1>1, <1>3 DEF OwnInv
<1>. QED
    BY <1>5, <1>9, <1>10, <1>11, <1>12 DEF OwnInv

\* A worker moves a chunk on, without an attempt that failed.
LEMMA MoveStep ==
    ASSUME WorkerType, OwnInv, NEW w \in Workers,
           work' \in [Workers -> {"busy", "done", "failed"}],
           conn' \in [Workers -> Conns \cup {NoConn}],
           NEW s \in Seq(Chunks), todo' = [todo EXCEPT ![w] = s],
           NEW t \in Seq(Chunks), inFlight' = [inFlight EXCEPT ![w] = t],
           ToSet(s) \cup ToSet(t) \subseteq Held(w),
           UNCHANGED <<jobs, attempts>>
    PROVE  WorkerType' /\ OwnInv'
<1>1. attempts' \in [Chunks -> 0..MaxAttempts]
    BY DEF WorkerType
<1>2. \A ch \in ToSet(s) \cup ToSet(t) : attempts'[ch] < MaxAttempts
    BY DEF OwnInv
<1>3. \A ch \in Chunks : ch \notin Held(w) => attempts'[ch] = attempts[ch]
    OBVIOUS
<1>. QED
    BY <1>1, <1>2, <1>3, KeepsSome

\* What one worker does.
LEMMA WorkerStep ==
    ASSUME TransferInv, NEW w \in Workers,
           Dial(w) \/ SendChunk(w) \/ RequestChunk(w) \/ ChunkReceived(w) \/ WorkerEnds(w)
           \/ ReadFails(w) \/ WorkerCancelled(w) \/ DialFails(w) \/ SourceFails(w)
    PROVE  WorkerType' /\ OwnInv'
<1>0. WorkerType /\ OwnInv
    BY DEF TransferInv
<1>1. /\ todo[w] \in Seq(Chunks) /\ inFlight[w] \in Seq(Chunks)
      /\ work \in [Workers -> {"busy", "done", "failed"}]
      /\ conn \in [Workers -> Conns \cup {NoConn}]
      /\ todo = [todo EXCEPT ![w] = todo[w]] /\ inFlight = [inFlight EXCEPT ![w] = inFlight[w]]
    BY <1>0 DEF WorkerType
<1>2. <<>> \in Seq(Chunks) /\ ToSet(<<>>) = {}
    BY DEF ToSet
<1>3. ToSet(todo[w]) \subseteq Held(w) /\ ToSet(inFlight[w]) \subseteq Held(w)
    BY DEF Held
<1>4. CASE Dial(w)
    <2>1. Min(FreeConns) \in Conns
        BY <1>4, FirstConn DEF Dial, FreeConns
    <2>2. conn' \in [Workers -> Conns \cup {NoConn}]
        BY <1>1, <1>4, <2>1 DEF Dial
    <2>3. UNCHANGED <<work, todo, inFlight, jobs, attempts>>
        BY <1>4 DEF Dial
    <2>. QED
        BY <1>0, <1>1, <1>3, <2>2, <2>3, MoveStep
<1>5. CASE SendChunk(w)
    <2>1. jobs' = jobs
        BY <1>5 DEF SendChunk
    <2>2. CASE Retry(w, TRUE)
        BY <1>0, <2>1, <2>2, RetryStep
    <2>3. CASE ~Retry(w, TRUE)
        <3>1. todo' = [todo EXCEPT ![w] = <<>>] /\ UNCHANGED <<work, conn, inFlight, attempts>>
            BY <1>5, <2>3 DEF SendChunk
        <3>. QED
            BY <1>0, <1>1, <1>2, <1>3, <2>1, <3>1, MoveStep
    <2>. QED
        BY <2>2, <2>3
<1>6. CASE RequestChunk(w)
    <2>1. /\ Tail(todo[w]) \in Seq(Chunks) /\ Head(todo[w]) \in Chunks
          /\ ToSet(Tail(todo[w])) \subseteq ToSet(todo[w]) /\ Head(todo[w]) \in ToSet(todo[w])
        BY <1>1, <1>6, SeqFacts DEF RequestChunk
    <2>2. /\ Append(inFlight[w], Head(todo[w])) \in Seq(Chunks)
          /\ ToSet(Append(inFlight[w], Head(todo[w]))) = ToSet(inFlight[w]) \cup {Head(todo[w])}
        BY <1>1, <2>1, AppendFacts
    <2>3. /\ todo' = [todo EXCEPT ![w] = Tail(todo[w])]
          /\ inFlight' = [inFlight EXCEPT ![w] = Append(inFlight[w], Head(todo[w]))]
          /\ UNCHANGED <<work, conn, jobs, attempts>>
        BY <1>6 DEF RequestChunk
    <2>4. ToSet(Tail(todo[w])) \cup ToSet(Append(inFlight[w], Head(todo[w]))) \subseteq Held(w)
        BY <1>3, <2>1, <2>2
    <2>. QED
        BY <1>0, <1>1, <2>1, <2>2, <2>3, <2>4, MoveStep
<1>7. CASE ChunkReceived(w)
    <2>1. PICK i \in DOMAIN inFlight[w] :
              inFlight' = [inFlight EXCEPT ![w] = RemoveAt(inFlight[w], i)]
        BY <1>7 DEF ChunkReceived
    <2>2. /\ RemoveAt(inFlight[w], i) \in Seq(Chunks)
          /\ ToSet(RemoveAt(inFlight[w], i)) \subseteq ToSet(inFlight[w])
        BY <1>1, RemoveFacts
    <2>3. UNCHANGED <<work, conn, todo, jobs, attempts>>
        BY <1>7 DEF ChunkReceived
    <2>. QED
        BY <1>0, <1>1, <1>3, <2>1, <2>2, <2>3, MoveStep
<1>8. CASE WorkerEnds(w)
    <2>1. /\ work' \in [Workers -> {"busy", "done", "failed"}]
          /\ conn' \in [Workers -> Conns \cup {NoConn}]
          /\ UNCHANGED <<todo, inFlight, jobs, attempts>>
        BY <1>1, <1>8 DEF WorkerEnds
    <2>. QED
        BY <1>0, <1>1, <1>3, <2>1, MoveStep
<1>9. CASE WorkerCancelled(w)
    <2>1. GiveUp(w) /\ UNCHANGED <<jobs, attempts>>
        BY <1>9 DEF WorkerCancelled
    <2>2. attempts' \in [Chunks -> 0..MaxAttempts]
        BY <1>0, <2>1 DEF WorkerType
    <2>. QED
        BY <1>0, <2>1, <2>2, GiveUpStep
<1>10. CASE ReadFails(w) \/ DialFails(w) \/ SourceFails(w)
    <2>1. jobs' = jobs /\ \E r : Retry(w, r)
        BY <1>10 DEF ReadFails, DialFails, SourceFails
    <2>. QED
        BY <1>0, <2>1, RetryStep
<1>. QED
    BY <1>4, <1>5, <1>6, <1>7, <1>8, <1>9, <1>10

\* Every step leaves each chunk with one worker at most.
LEMMA WorkerNext ==
    ASSUME TransferInv, Next
    PROVE  WorkerType' /\ OwnInv'
<1>0. WorkerType /\ OwnInv
    BY DEF TransferInv
<1>1. CASE UNCHANGED <<work, conn, todo, inFlight, jobs, attempts>>
    BY <1>0, <1>1 DEF WorkerType, OwnInv, Held
<1>2. ASSUME NEW c \in Conns,
             Receive(c) \/ ServeUpload(c) \/ ServeDownload(c) \/ ServeDownloadEnds(c)
             \/ ServeDownloadFails(c) \/ Cut(c)
      PROVE  UNCHANGED <<work, conn, todo, inFlight, jobs, attempts>>
    BY <1>2 DEF Receive, ServeUpload, ServeDownload, ServeDownloadEnds, ServeDownloadFails, Cut,
       wvars
<1>3. ASSUME NEW b \in Blobs, Edit(b) \/ StoredByOther(b)
      PROVE  UNCHANGED <<work, conn, todo, inFlight, jobs, attempts>>
    BY <1>3 DEF Edit, StoredByOther, wvars
<1>4. ASSUME UploadEnds \/ DownloadEnds \/ DownloadFails \/ ClientStops
             \/ ReceiverWaited \/ SyncComplete \/ HostEnds \/ HostLosesClient
      PROVE  UNCHANGED <<work, conn, todo, inFlight, jobs, attempts>>
    BY <1>4 DEF UploadEnds, DownloadEnds, DownloadFails, ClientStops, ReceiverWaited,
       SyncComplete, HostEnds, HostLosesClient, wvars
<1>5. ASSUME NEW w \in Workers, TakeJob(w) PROVE WorkerType' /\ OwnInv'
    BY <1>0, <1>5, TakeStep
<1>. QED
    BY <1>1, <1>2, <1>3, <1>4, <1>5, WorkerStep, StepCases
-----------------------------------------------------------------------------
(* The theorems *)

\* The invariant holds in every state.
LEMMA TransferInvariant == Spec => []TransferInv
<1>1. TransferInv /\ [Next]_vars => TransferInv'
    <2>. SUFFICES ASSUME TransferInv, [Next]_vars PROVE TransferInv'
        OBVIOUS
    <2>1. CASE Next
        BY <2>1, ReceiverNext, SessionNext, WorkerNext, EndNext DEF TransferInv
    <2>2. CASE UNCHANGED vars
        <3>. USE <2>2 DEF vars, rvars, cvars, wvars, svars
        <3>1. ReceiverType'
            BY DEF TransferInv, ReceiverType
        <3>2. SessionType'
            BY DEF TransferInv, SessionType
        <3>3. WorkerType' /\ OwnInv'
            BY DEF TransferInv, WorkerType, OwnInv, Held
        <3>4. CountInv'
            BY DEF TransferInv, CountInv, LastChunk
        <3>5. EndInv'
            BY DEF TransferInv, EndInv
        <3>. QED
            BY <3>1, <3>2, <3>3, <3>4, <3>5 DEF TransferInv
    <2>. QED
        BY <2>1, <2>2
<1>. QED
    BY TransferInit, <1>1, PTL DEF Spec

\* The receiver counts each chunk and each blob once (ChunkedBlobReceiver in
\* syncfs/chunked_blob.go), whatever is repeated over whatever connections: its channel is
\* closed exactly when no temporary file is open, every blob is then in the store, and none
\* has other content than its hash says.
THEOREM CountedOnceAlways == Spec => []CountedOnce
<1>1. TransferInv => CountedOnce
    <2>. SUFFICES ASSUME TransferInv PROVE CountedOnce
        OBVIOUS
    <2>0. ReceiverType /\ SessionType /\ WorkerType /\ CountInv
        BY DEF TransferInv
    <2>1. {rerr, rdone, cancelled, registered, sdone, serr, lost} \subseteq BOOLEAN
        BY <2>0, Zenon DEF ReceiverType, SessionType
    <2>2. \A c \in Conns : recv[c] = Idle \/ recv[c] = [step |-> "broken"] \/
              recv[c] \in [step : {"write", "commit", "count", "received", "error"},
                            ch : Chunks, ok : BOOLEAN]
        BY <2>0 DEF ReceiverType, Broken, Receiving
    <2>3. \A w \in Workers : ToSet(todo[w]) \cup ToSet(inFlight[w]) \subseteq Chunks
        BY <2>0, SeqFacts DEF WorkerType
    <2>4. TypeOK
        BY <2>0, <2>1, <2>2, <2>3 DEF TypeOK, ReceiverType, SessionType, WorkerType
    <2>. QED
        BY <2>0, <2>4 DEF CountedOnce, CountInv
<1>. QED
    BY TransferInvariant, <1>1, PTL

\* The host takes a transfer for done (waitForClientSyncCompleteAndBlobTransfer in
\* host/blob_transfer.go) only when every blob is stored and the client has completed.
THEOREM HostAgreesAlways == Spec => []HostAgrees
<1>1. TransferInv => HostAgrees
    BY DEF TransferInv, EndInv, HostAgrees
<1>. QED
    BY TransferInvariant, <1>1, PTL

\* A step stores blobs, or ends the transfer, or does neither.
LEMMA StepImplements ==
    ASSUME TransferInv, Next
    PROVE  Abstract!Next
<1>0. /\ EndInv /\ SessionChange /\ direction' = direction
      /\ store \subseteq store' /\ store' \subseteq Blobs
      /\ client \in {"running", "complete", "failed", "left"}
      /\ host \in {"read", "wait", "done", "failed"}
      /\ direction \in {"upload", "download"}
    BY SessionMoves, SameDirection, StoreGrows DEF TransferInv, SessionType
<1>1. rdone /\ ~rerr => store = Blobs
    BY DEF TransferInv, CountInv
<1>2. CASE Outcome' = Outcome
    BY <1>0, <1>2 DEF Abstract!Next, Abstract!Arrive
<1>3. CASE Outcome' # Outcome
    <2>1. /\ Outcome = "running" /\ store' = store
          /\ \/ store = Blobs /\ Outcome' = "done"
             \/ Outcome' = "failed"
        <3>1. CASE direction = "upload"
            <4>1. /\ Outcome = IF host \in {"read", "wait"} THEN "running" ELSE host
                  /\ Outcome' = IF host' \in {"read", "wait"} THEN "running" ELSE host'
                BY <1>0, <3>1 DEF Outcome
            <4>. QED
                BY <1>0, <1>3, <3>1, <4>1 DEF SessionChange, EndInv
        <3>2. CASE direction = "download"
            <4>1. /\ Outcome = IF client = "running" THEN "running"
                               ELSE IF client = "failed" THEN "failed" ELSE "done"
                  /\ Outcome' = IF client' = "running" THEN "running"
                                ELSE IF client' = "failed" THEN "failed" ELSE "done"
                BY <1>0, <3>2 DEF Outcome
            <4>. QED
                BY <1>0, <1>1, <1>3, <3>2, <4>1 DEF SessionChange
        <3>. QED
            BY <1>0, <3>1, <3>2
    <2>. QED
        BY <2>1 DEF Abstract!Next, Abstract!Finish
<1>. QED
    BY <1>2, <1>3

\* A transfer over connections that break, with chunks repeated and dropped, is in either
\* direction what a synchronization expects of it (sendMissingBlobsParallel and
\* waitForBlobDownload in client/client.go, waitForClientBlobTransfer on the host): blobs
\* only arrive, and it is done, once, when all are there.
THEOREM ImplementsTransferAlways == Spec => ImplementsTransfer
<1>1. Init => Abstract!Init
    <2>. SUFFICES ASSUME Init PROVE Abstract!Init
        OBVIOUS
    <2>1. store \in SUBSET Blobs
        BY PlanFacts DEF Init
    <2>2. Outcome = "running"
        BY DEF Init, Outcome
    <2>. QED
        BY <2>1, <2>2 DEF Abstract!Init
<1>2. TransferInv /\ [Next]_vars => [Abstract!Next]_Abstract!vars
    <2>1. UNCHANGED vars => UNCHANGED Abstract!vars
        BY DEF vars, rvars, Abstract!vars, Outcome
    <2>. QED
        BY <2>1, StepImplements
<1>. QED
    BY TransferInvariant, <1>1, <1>2, PTL DEF Spec, ImplementsTransfer, Abstract!Spec

-----------------------------------------------------------------------------
(* ChunkPlan: the arithmetic of chunks *)

\* A quotient, rounded down, is the only number that fits.
LEMMA QuotientFacts ==
    ASSUME NEW n \in Nat, NEW d \in Nat, d > 0
    PROVE  /\ n \div d \in Nat /\ (n \div d) * d <= n /\ n < (n \div d) * d + d
           /\ \A q \in Nat : (q * d) % d = 0 /\ (q * d) \div d = q
           /\ n % d = 0 => (n \div d) * d = n
<1>1. n \div d \in Nat /\ (n \div d) * d <= n
    BY DivFacts
<1>2. n < (n \div d) * d + d
    OBVIOUS
<1>3. n % d = 0 => (n \div d) * d = n
    OBVIOUS
<1>4. \A q \in Nat : (q * d) % d = 0 /\ (q * d) \div d = q
    OBVIOUS
<1>. QED
    BY <1>1, <1>2, <1>3, <1>4

\* Multiples of d that are less than d apart are the same.
LEMMA SameMultiple ==
    ASSUME NEW q \in Nat, NEW r \in Nat, NEW d \in Nat, NEW n \in Nat,
           q * d <= n, n < q * d + d, r * d <= n, n < r * d + d
    PROVE  q = r
<1>1. CASE q < r
    <2>1. (q + 1) * d <= r * d
        BY <1>1
    <2>. QED
        BY <2>1
<1>2. CASE r < q
    <2>1. (r + 1) * d <= q * d
        BY <1>2
    <2>. QED
        BY <2>1
<1>. QED
    BY <1>1, <1>2

\* The larger and the smaller of two numbers.
LEMMA MinMaxFacts ==
    ASSUME NEW a \in Int, NEW b \in Int
    PROVE  /\ Max({a, b}) = IF a >= b THEN a ELSE b
           /\ Min({a, b}) = IF a <= b THEN a ELSE b
<1>1. Max({a, b}) = IF a >= b THEN a ELSE b
    BY DEF Max
<1>2. Min({a, b}) = IF a <= b THEN a ELSE b
    BY DEF Min
<1>. QED
    BY <1>1, <1>2

\* The smallest of three numbers.
LEMMA MinFacts ==
    ASSUME NEW a \in Int, NEW b \in Int, NEW c \in Int
    PROVE  /\ Min({a, b, c}) \in {a, b, c}
           /\ Min({a, b, c}) <= a /\ Min({a, b, c}) <= b /\ Min({a, b, c}) <= c
<1>1. \E x \in {a, b, c} : \A y \in {a, b, c} : x <= y
    <2>1. CASE a <= b /\ a <= c
        BY <2>1
    <2>2. CASE b <= a /\ b <= c
        BY <2>2
    <2>3. CASE c <= a /\ c <= b
        BY <2>3
    <2>. QED
        BY <2>1, <2>2, <2>3
<1>. QED
    BY <1>1 DEF Min

\* A chunk size is refused, or becomes one from 1 to the largest.
LEMMA NormalFacts ==
    ASSUME NEW c \in Int
    PROVE  /\ c > MaxChunkSize => normalizeBlobChunkSize(c) = Invalid
           /\ c <= MaxChunkSize =>
                 /\ normalizeBlobChunkSize(c) \in 1..MaxChunkSize
                 /\ normalizeBlobChunkSize(c) # Invalid
           /\ c \in 1..MaxChunkSize => normalizeBlobChunkSize(c) = c
<1>1. MaxChunkSize \in Nat /\ MaxChunkSize > 0 /\ DefaultChunkSize \in 1..MaxChunkSize
      /\ Invalid \notin Int
    BY ChunkPlanAssumption
<1>. QED
    BY <1>1 DEF normalizeBlobChunkSize

\* The number of chunks of a blob, when there is no limit on it.
Count(size, cs) == IF size = 0 THEN 1 ELSE 1 + (size - 1) \div cs

\* That number is large enough and not too large.
LEMMA CountFacts ==
    ASSUME NEW size \in Nat, NEW cs \in Nat, cs > 0
    PROVE  /\ Count(size, cs) \in Nat /\ 1 <= Count(size, cs) /\ Count(size, cs) <= size + 1
           /\ (Count(size, cs) - 1) * cs <= size /\ size <= Count(size, cs) * cs
           /\ size > 0 => (Count(size, cs) - 1) * cs < size
<1>1. CASE size = 0
    BY <1>1 DEF Count
<1>2. CASE size > 0
    <2>. DEFINE q == (size - 1) \div cs
    <2>1. q \in Nat /\ q * cs <= size - 1 /\ size - 1 < q * cs + cs
        BY <1>2, QuotientFacts
    <2>2. Count(size, cs) = 1 + q
        BY <1>2 DEF Count
    <2>. HIDE DEF q
    <2>3. q <= q * cs /\ (1 + q) * cs = q * cs + cs
        BY <2>1
    <2>4. q <= size - 1
        BY <2>1, <2>3
    <2>. QED
        BY <1>2, <2>1, <2>2, <2>3, <2>4
<1>. QED
    BY <1>1, <1>2

\* What BlobChunkCount returns.
LEMMA BlobChunkCountIs ==
    ASSUME NEW size \in Int, NEW c \in Int
    PROVE  /\ c > MaxChunkSize \/ size < 0 => BlobChunkCount(size, c) = Invalid
           /\ c <= MaxChunkSize /\ size >= 0 =>
                 BlobChunkCount(size, c) =
                    IF Count(size, normalizeBlobChunkSize(c)) > MaxChunks THEN Invalid
                    ELSE Count(size, normalizeBlobChunkSize(c))
<1>1. c > MaxChunkSize => normalizeBlobChunkSize(c) = Invalid
    BY NormalFacts
<1>2. c <= MaxChunkSize => normalizeBlobChunkSize(c) # Invalid
    BY NormalFacts
<1>. QED
    BY <1>1, <1>2 DEF BlobChunkCount, Count

\* The chunk with number i of a blob.
Chunk(blob, cs, i) == [hash |-> blob.hash, size |-> blob.size, offset |-> (i - 1) * cs]

\* Where the chunks of a blob begin, and how much of the blob they have.
LEMMA ChunkFacts ==
    ASSUME NEW size \in Nat, NEW cs \in Nat, cs > 0, NEW i \in 1..Count(size, cs)
    PROVE  /\ (i - 1) * cs \in Nat /\ (i - 1) * cs <= size
           /\ size > 0 => (i - 1) * cs < size
           /\ size = 0 => (i - 1) * cs = 0
           /\ ((i - 1) * cs) % cs = 0 /\ ((i - 1) * cs) \div cs = i - 1
<1>. DEFINE n == Count(size, cs)
<1>1. /\ n \in Nat /\ 1 <= n /\ (n - 1) * cs <= size
      /\ size > 0 => (n - 1) * cs < size
    BY CountFacts
<1>2. size = 0 => n = 1
    BY DEF Count
<1>3. i \in 1..n
    OBVIOUS
<1>. HIDE DEF n
<1>4. i - 1 \in Nat /\ n - 1 \in Nat /\ i - 1 <= n - 1
    BY <1>1, <1>3
<1>5. (i - 1) * cs <= (n - 1) * cs /\ (i - 1) * cs \in Nat /\ (n - 1) * cs \in Nat
    BY <1>4
<1>6. size = 0 => i = 1
    BY <1>2, <1>3
<1>7. ((i - 1) * cs) % cs = 0 /\ ((i - 1) * cs) \div cs = i - 1
    BY <1>4, QuotientFacts
<1>. QED
    BY <1>1, <1>5, <1>6, <1>7

\* What BlobChunkPayloadLen returns.
LEMMA PayloadIs ==
    ASSUME NEW info, info.size \in Nat, info.offset \in Int, NEW c \in Int, c <= MaxChunkSize
    PROVE  LET cs == normalizeBlobChunkSize(c)
               rest == info.size - info.offset
           IN  IF /\ 0 <= info.offset /\ info.offset <= info.size
                  /\ info.size = 0 => info.offset = 0
                  /\ info.size > 0 => info.offset % cs = 0
               THEN BlobChunkPayloadLen(info, c) = IF rest < cs THEN rest ELSE cs
               ELSE BlobChunkPayloadLen(info, c) = Invalid
<1>1. normalizeBlobChunkSize(c) \in 1..MaxChunkSize /\ normalizeBlobChunkSize(c) # Invalid
    BY NormalFacts
<1>. DEFINE cs == normalizeBlobChunkSize(c)
<1>2. cs # Invalid
    BY <1>1
<1>3. BlobChunkPayloadLen(info, c) =
        IF \/ cs = Invalid
           \/ info.size < 0 \/ info.offset < 0 \/ info.size - info.offset < 0
           \/ info.size = 0 /\ info.offset # 0
           \/ info.size > 0 /\ info.offset % cs # 0
        THEN Invalid
        ELSE IF info.size - info.offset < cs THEN info.size - info.offset ELSE cs
    BY DEF BlobChunkPayloadLen
<1>. HIDE DEF cs
<1>. QED
    BY <1>2, <1>3 DEF cs

\* The payload of a chunk of a blob.
LEMMA ChunkPayload ==
    ASSUME NEW blob, blob.size \in Nat, NEW c \in Int, c <= MaxChunkSize,
           NEW i \in 1..Count(blob.size, normalizeBlobChunkSize(c))
    PROVE  LET cs == normalizeBlobChunkSize(c)
               rest == blob.size - (i - 1) * cs
           IN  BlobChunkPayloadLen(Chunk(blob, cs, i), c) = IF rest < cs THEN rest ELSE cs
<1>. DEFINE cs == normalizeBlobChunkSize(c)
            info == Chunk(blob, cs, i)
<1>1. cs \in Nat /\ cs > 0
    BY NormalFacts, ChunkPlanAssumption
<1>2. info.size = blob.size /\ info.offset = (i - 1) * cs
    BY DEF Chunk
<1>3. i \in 1..Count(blob.size, cs)
    OBVIOUS
<1>. HIDE DEF cs, info
<1>4. /\ (i - 1) * cs \in Nat /\ (i - 1) * cs <= blob.size
      /\ blob.size = 0 => (i - 1) * cs = 0
      /\ ((i - 1) * cs) % cs = 0
    BY <1>1, <1>3, ChunkFacts
<1>5. info.size \in Nat /\ info.offset \in Int
    BY <1>2, <1>4
<1>6. /\ 0 <= info.offset /\ info.offset <= info.size
      /\ info.size = 0 => info.offset = 0
      /\ info.size > 0 => info.offset % cs = 0
    BY <1>2, <1>4
<1>7. BlobChunkPayloadLen(info, c)
        = IF info.size - info.offset < cs THEN info.size - info.offset ELSE cs
    BY <1>5, <1>6, PayloadIs DEF cs
<1>. QED
    BY <1>2, <1>7 DEF cs, info

\* Exactly one chunk of a blob has a given byte of it.
LEMMA CoveredOnce ==
    ASSUME NEW blob, blob.size \in Nat, NEW c \in Int, c <= MaxChunkSize,
           NEW byte \in 0..(blob.size - 1)
    PROVE  LET cs == normalizeBlobChunkSize(c)
               numbers == 1..Count(blob.size, cs)
           IN  \E k \in numbers : \A i \in numbers :
                   Covers(Chunk(blob, cs, i), c, byte) <=> i = k
<1>. DEFINE cs == normalizeBlobChunkSize(c)
            n == Count(blob.size, cs)
            k == byte \div cs + 1
<1>1. cs \in Nat /\ cs > 0
    BY NormalFacts, ChunkPlanAssumption
<1>2. byte \in Nat /\ byte < blob.size
    OBVIOUS
<1>. HIDE DEF cs
<1>3. /\ k \in Nat /\ 1 <= k /\ k - 1 \in Nat
      /\ (k - 1) * cs <= byte /\ byte < (k - 1) * cs + cs
    BY <1>1, <1>2, QuotientFacts
<1>4. n \in Nat /\ blob.size <= n * cs
    BY <1>1, CountFacts
<1>. HIDE DEF n, k
<1>5. k \in 1..n
    <2>1. SUFFICES ASSUME k > n PROVE FALSE
        BY <1>3, <1>4
    <2>2. n * cs <= (k - 1) * cs
        BY <1>1, <1>3, <1>4, <2>1
    <2>. QED
        BY <1>1, <1>2, <1>3, <1>4, <2>2
<1>6. ASSUME NEW i \in 1..n
      PROVE  Covers(Chunk(blob, cs, i), c, byte) <=> i = k
    <2>. DEFINE offset == (i - 1) * cs
                rest == blob.size - offset
                len == IF rest < cs THEN rest ELSE cs
    <2>1. Covers(Chunk(blob, cs, i), c, byte) <=> byte \in offset..(offset + len - 1)
        <3>1. BlobChunkPayloadLen(Chunk(blob, cs, i), c) = len
            BY ChunkPayload DEF cs, n
        <3>2. Chunk(blob, cs, i).offset = offset
            BY DEF Chunk
        <3>. HIDE DEF len, offset
        <3>. QED
            BY <3>1, <3>2 DEF Covers
    <2>2. offset \in Nat /\ i - 1 \in Nat
        BY <1>1, <1>4, ChunkFacts DEF n
    <2>3. byte \in offset..(offset + len - 1) <=> offset <= byte /\ byte < offset + cs
        <3>. HIDE DEF offset
        <3>. QED
            BY <1>1, <1>2, <2>2
    <2>4. offset <= byte /\ byte < offset + cs => i = k
        <3>1. offset <= byte /\ byte < offset + cs => i - 1 = k - 1
            BY <1>1, <1>2, <1>3, <2>2, SameMultiple
        <3>. QED
            BY <1>3, <1>4, <2>2, <3>1
    <2>5. i = k => offset <= byte /\ byte < offset + cs
        BY <1>3
    <2>. QED
        BY <2>1, <2>3, <2>4, <2>5
<1>. QED
    BY <1>5, <1>6 DEF cs, n

\* The sum of a function on {1} or {1, 2}, as PlanBlobChunks takes it.
Total(counts) == FoldSeq(LAMBDA n, sum : n + sum, 0, counts)

\* The sum of two numbers, or of one.
LEMMA TotalFacts ==
    ASSUME NEW counts, NEW S, DOMAIN counts = S, S \in {{1}, {1, 2}},
           \A i \in S : counts[i] \in Int
    PROVE  Total(counts) = IF S = {1} THEN counts[1] ELSE counts[1] + counts[2]
<1>. DEFINE pick(s) == CHOOSE x \in s : TRUE
            Sums(f) == f = [s \in SUBSET S |->
                              IF s = {} THEN 0 ELSE counts[pick(s)] + f[s \ {pick(s)}]]
            sums == [s \in SUBSET S |-> IF s = {} THEN 0
                                        ELSE IF s = {1} THEN counts[1]
                                        ELSE IF s = {2} THEN counts[2]
                                        ELSE counts[1] + counts[2]]
<1>1. Total(counts) = (CHOOSE f : Sums(f))[S]
    BY DEF Total, FoldSeq, FoldFunction, FoldFunctionOnSet, MapThenFoldSet
<1>2. \A s \in SUBSET S : s \in {{}, {1}, {2}, {1, 2}}
    OBVIOUS
<1>3. \A s \in SUBSET S : s # {} => pick(s) \in s
    OBVIOUS
<1>. HIDE DEF pick
<1>4. Sums(sums)
    <2>1. ASSUME NEW s \in SUBSET S
          PROVE  sums[s] = IF s = {} THEN 0 ELSE counts[pick(s)] + sums[s \ {pick(s)}]
        <3>1. CASE s = {}
            BY <3>1
        <3>2. CASE s = {1}
            <4>1. pick(s) = 1 /\ s \ {pick(s)} = {} /\ 1 \in S
                BY <1>3, <3>2
            <4>2. sums[s] = counts[1] /\ sums[{}] = 0
                BY <3>2
            <4>. QED
                BY <3>2, <4>1, <4>2
        <3>3. CASE s = {2}
            <4>1. pick(s) = 2 /\ s \ {pick(s)} = {} /\ 2 \in S
                BY <1>3, <3>3
            <4>2. sums[s] = counts[2] /\ sums[{}] = 0
                BY <3>3
            <4>. QED
                BY <3>3, <4>1, <4>2
        <3>4. CASE s = {1, 2}
            <4>1. 1 \in S /\ 2 \in S
                BY <3>4
            <4>2. /\ sums[s] = counts[1] + counts[2]
                  /\ sums[{1}] = counts[1] /\ sums[{2}] = counts[2]
                BY <3>4, <4>1
            <4>3. \/ pick(s) = 1 /\ s \ {pick(s)} = {2}
                  \/ pick(s) = 2 /\ s \ {pick(s)} = {1}
                BY <1>3, <3>4
            <4>. QED
                BY <3>4, <4>1, <4>2, <4>3
        <3>. QED
            BY <1>2, <3>1, <3>2, <3>3, <3>4
    <2>2. sums = [s \in SUBSET S |-> sums[s]]
        OBVIOUS
    <2>. HIDE DEF sums
    <2>. QED
        BY <2>1, <2>2
<1>5. PICK f : Sums(f) /\ f = (CHOOSE g : Sums(g))
    <2>. HIDE DEF Sums, sums
    <2>. QED
        BY <1>4
<1>6. \A s \in SUBSET S : f[s] = IF s = {} THEN 0 ELSE counts[pick(s)] + f[s \ {pick(s)}]
    <2>1. f = [s \in SUBSET S |->
                  IF s = {} THEN 0 ELSE counts[pick(s)] + f[s \ {pick(s)}]]
        <3>1. Sums(f)
            BY <1>5, Zenon
        <3>. QED
            BY ONLY <3>1, Zenon
    <2>. TAKE s \in SUBSET S
    <2>. QED
        BY <2>1
<1>. HIDE DEF Sums, sums
<1>7. f[{}] = 0
    BY <1>6
<1>8. ASSUME NEW i \in S
      PROVE  f[{i}] = counts[i]
    <2>1. {i} \in SUBSET S /\ {i} # {} /\ pick({i}) = i /\ {i} \ {i} = {}
        BY <1>3
    <2>2. f[{i}] = counts[i] + f[{}]
        BY <1>6, <2>1
    <2>. QED
        BY <1>7, <2>2
<1>9. CASE S = {1}
    BY <1>1, <1>5, <1>8, <1>9
<1>10. CASE S = {1, 2}
    <2>1. \/ pick(S) = 1 /\ S \ {pick(S)} = {2}
          \/ pick(S) = 2 /\ S \ {pick(S)} = {1}
        BY <1>3, <1>10
    <2>2. S # {} /\ S \in SUBSET S /\ 1 \in S /\ 2 \in S /\ S # {1}
        BY <1>10
    <2>3. f[S] = counts[pick(S)] + f[S \ {pick(S)}]
        BY <1>6, <2>2
    <2>4. f[{1}] = counts[1] /\ f[{2}] = counts[2] /\ counts[1] \in Int /\ counts[2] \in Int
        BY <1>8, <2>2
    <2>5. f[S] = counts[1] + counts[2]
        <3>1. f[S] = counts[1] + counts[2] \/ f[S] = counts[2] + counts[1]
            BY ZenonT(20), <2>1, <2>3, <2>4
        <3>. QED
            BY ONLY <2>4, <3>1
    <2>. QED
        BY <1>1, <1>5, <2>2, <2>5
<1>. QED
    BY <1>9, <1>10

\* Two sequences in a row, or one.
LEMMA FlattenFacts ==
    ASSUME NEW seqs, NEW T, NEW m \in {1, 2}, seqs \in Seq(Seq(T)), Len(seqs) = m
    PROVE  FlattenSeq(seqs) = IF m = 1 THEN seqs[1] ELSE seqs[1] \o seqs[2]
<1>. DEFINE Flat(f) == f = [i \in 1..Len(seqs) |->
                              IF i = 1 THEN seqs[i] ELSE f[i - 1] \o seqs[i]]
            flat == [i \in 1..Len(seqs) |-> IF i = 1 THEN seqs[1] ELSE seqs[1] \o seqs[2]]
<1>1. FlattenSeq(seqs) = (CHOOSE f : Flat(f))[Len(seqs)]
    BY DEF FlattenSeq
<1>2. Flat(flat)
    <2>1. \A i \in 1..Len(seqs) :
             flat[i] = IF i = 1 THEN seqs[i] ELSE flat[i - 1] \o seqs[i]
        OBVIOUS
    <2>2. flat = [i \in 1..Len(seqs) |-> flat[i]]
        OBVIOUS
    <2>. HIDE DEF flat
    <2>. QED
        BY <2>1, <2>2
<1>3. PICK f : Flat(f) /\ f = (CHOOSE g : Flat(g))
    <2>. HIDE DEF Flat, flat
    <2>. QED
        BY <1>2
<1>4. \A i \in 1..Len(seqs) : f[i] = IF i = 1 THEN seqs[i] ELSE f[i - 1] \o seqs[i]
    BY <1>3
<1>. HIDE DEF Flat, flat
<1>5. f[1] = seqs[1]
    BY <1>4
<1>6. ASSUME m = 2
      PROVE  f[2] = seqs[1] \o seqs[2]
    <2>1. 2 \in 1..Len(seqs) /\ 2 # 1 /\ 2 - 1 = 1
        BY <1>6
    <2>2. f[2] = f[2 - 1] \o seqs[2]
        BY ZenonT(20), <1>4, <2>1
    <2>. QED
        BY <1>5, <2>1, <2>2
<1>. QED
    BY <1>1, <1>3, <1>5, <1>6

\* The chunks of a blob, as a sequence.
Numbered(blob, cs) == [i \in 1..Count(blob.size, cs) |-> Chunk(blob, cs, i)]

\* The chunks of two blobs, one blob after the other.
Both(b1, b2, cs) == Numbered(b1, cs) \o Numbered(b2, cs)

\* What ChunksOfBlob returns for a legal blob.
LEMMA ChunksOfBlobIs ==
    ASSUME NEW T, NEW blob \in [hash : T, size : Nat], NEW c \in Int, c <= MaxChunkSize,
           Count(blob.size, normalizeBlobChunkSize(c)) <= MaxChunks
    PROVE  LET cs == normalizeBlobChunkSize(c) IN
           /\ ChunksOfBlob(blob, c) = Numbered(blob, cs)
           /\ Numbered(blob, cs) \in Seq([hash : T, size : Nat, offset : Nat])
           /\ Len(Numbered(blob, cs)) = Count(blob.size, cs)
<1>. DEFINE cs == normalizeBlobChunkSize(c)
            n == Count(blob.size, cs)
<1>1. cs \in Nat /\ cs > 0
    BY NormalFacts, ChunkPlanAssumption
<1>2. blob.size \in Nat /\ blob.hash \in T
    OBVIOUS
<1>3. MaxChunks \in Nat
    BY ChunkPlanAssumption
<1>4. BlobChunkCount(blob.size, c) = n
    <2>1. BlobChunkCount(blob.size, c) = IF n > MaxChunks THEN Invalid ELSE n
        BY <1>2, BlobChunkCountIs
    <2>2. n <= MaxChunks
        OBVIOUS
    <2>. HIDE DEF n
    <2>3. n \in Nat
        BY <1>1, <1>2, CountFacts DEF n
    <2>. QED
        BY <1>3, <2>1, <2>2, <2>3
<1>. HIDE DEF cs
<1>5. ChunksOfBlob(blob, c) = Numbered(blob, cs)
    BY <1>4 DEF ChunksOfBlob, Numbered, Chunk, cs
<1>6. n \in Nat
    BY <1>1, <1>2, CountFacts
<1>7. ASSUME NEW i \in 1..n
      PROVE  Chunk(blob, cs, i) \in [hash : T, size : Nat, offset : Nat]
    BY <1>1, <1>2, ChunkFacts DEF Chunk
<1>. HIDE DEF n
<1>8. Numbered(blob, cs) = [i \in 1..n |-> Chunk(blob, cs, i)]
    BY DEF Numbered, n
<1>9. /\ Numbered(blob, cs) \in Seq([hash : T, size : Nat, offset : Nat])
      /\ Len(Numbered(blob, cs)) = n
    BY <1>6, <1>7, <1>8
<1>. QED
    BY <1>5, <1>9 DEF cs, n

\* The number of chunks of one or two blobs.
AllCounts(bs, cs) ==
    IF Len(bs) = 1 THEN Count(bs[1].size, cs)
    ELSE Count(bs[1].size, cs) + Count(bs[2].size, cs)

\* What is wanted of blobs and of a chunk size.
Legal(bs, c) ==
    /\ c <= MaxChunkSize
    /\ \A i \in DOMAIN bs : bs[i].size >= 0
    /\ \A i, j \in DOMAIN bs : i # j => bs[i].hash # bs[j].hash

\* When there is a plan for one blob or for two, and which one.
LEMMA PlanIs ==
    ASSUME NEW T, NEW bs \in Seq([hash : T, size : Int]), Len(bs) \in {1, 2},
           NEW c \in Int
    PROVE  LET cs == normalizeBlobChunkSize(c) IN
           IF Legal(bs, c) /\ AllCounts(bs, cs) <= MaxChunks
           THEN PlanBlobChunks(bs, c) =
                    IF Len(bs) = 1 THEN Numbered(bs[1], cs)
                    ELSE Both(bs[1], bs[2], cs)
           ELSE PlanBlobChunks(bs, c) = Invalid
<1>. DEFINE cs == normalizeBlobChunkSize(c)
            n(i) == Count(bs[i].size, cs)
            counts == [i \in DOMAIN bs |-> BlobChunkCount(bs[i].size, c)]
            parts == [i \in DOMAIN bs |-> ChunksOfBlob(bs[i], c)]
            refused == \/ cs = Invalid
                       \/ \E i, j \in DOMAIN bs : i # j /\ bs[i].hash = bs[j].hash
                       \/ Invalid \in ToSet(counts)
<1>1. PlanBlobChunks(bs, c) =
        IF refused THEN Invalid
        ELSE IF Total(counts) > MaxChunks THEN Invalid
        ELSE FlattenSeq(parts)
    BY DEF PlanBlobChunks, Total
<1>2. /\ Len(bs) \in {1, 2} /\ DOMAIN bs = 1..Len(bs)
      /\ \A i \in DOMAIN bs : bs[i] \in [hash : T, size : Int]
    <2>1. bs \in [1..Len(bs) -> [hash : T, size : Int]]
        BY LenProperties
    <2>. QED
        BY <2>1
<1>3. MaxChunks \in Nat /\ MaxChunks > 0 /\ Invalid \notin Int
    BY ChunkPlanAssumption
<1>4. CASE ~Legal(bs, c)
    <2>1. ASSUME c > MaxChunkSize PROVE refused
        BY <2>1, NormalFacts
    <2>2. ASSUME NEW i \in DOMAIN bs, bs[i].size < 0 PROVE refused
        <3>1. counts[i] = Invalid
            BY <1>2, <2>2, BlobChunkCountIs
        <3>. QED
            BY <3>1 DEF ToSet
    <2>3. \/ c > MaxChunkSize
          \/ \E i \in DOMAIN bs : bs[i].size < 0
          \/ \E i, j \in DOMAIN bs : i # j /\ bs[i].hash = bs[j].hash
        BY <1>2, <1>4, ChunkPlanAssumption DEF Legal
    <2>4. refused
        <3>. HIDE DEF counts, cs
        <3>. QED
            BY <2>1, <2>2, <2>3
    <2>. HIDE DEF refused
    <2>. QED
        BY <1>1, <1>4, <2>4
<1>5. CASE Legal(bs, c)
    <2>1. /\ c <= MaxChunkSize /\ cs \in Nat /\ cs > 0 /\ cs # Invalid
          /\ \A i, j \in DOMAIN bs : i # j => bs[i].hash # bs[j].hash
        BY <1>5, NormalFacts, ChunkPlanAssumption DEF Legal
    <2>2. \A i \in DOMAIN bs : bs[i] \in [hash : T, size : Nat]
        BY <1>2, <1>5 DEF Legal
    <2>3. \A i \in DOMAIN bs : counts[i] = IF n(i) > MaxChunks THEN Invalid ELSE n(i)
        BY <2>1, <2>2, BlobChunkCountIs
    <2>. HIDE DEF cs
    <2>4. \A i \in DOMAIN bs : n(i) \in Nat /\ 1 <= n(i)
        BY <2>1, <2>2, CountFacts
    <2>. HIDE DEF counts, n
    <2>5. AllCounts(bs, cs) = IF Len(bs) = 1 THEN n(1) ELSE n(1) + n(2)
        BY DEF AllCounts, n
    <2>6. CASE \E i \in DOMAIN bs : n(i) > MaxChunks
        <3>1. PICK i \in DOMAIN bs : n(i) > MaxChunks
            BY <2>6
        <3>2. DOMAIN counts = DOMAIN bs
            BY DEF counts
        <3>3. counts[i] = Invalid
            BY <2>3, <3>1
        <3>4. refused
            BY <3>2, <3>3 DEF ToSet
        <3>5. AllCounts(bs, cs) > MaxChunks
            <4>1. CASE Len(bs) = 1
                <5>1. i = 1 /\ AllCounts(bs, cs) = n(1)
                    BY <1>2, <2>5, <4>1
                <5>. QED
                    BY <3>1, <5>1
            <4>2. CASE Len(bs) = 2
                <5>1. AllCounts(bs, cs) = n(1) + n(2) /\ (i = 1 \/ i = 2)
                    BY <1>2, <2>5, <4>2
                <5>2. n(1) \in Nat /\ n(2) \in Nat
                    BY <1>2, <2>4, <4>2
                <5>. QED
                    BY <1>3, <3>1, <5>1, <5>2
            <4>. QED
                BY <1>2, <4>1, <4>2
        <3>6. ~(AllCounts(bs, cs) <= MaxChunks)
            <4>1. CASE Len(bs) = 1
                <5>1. AllCounts(bs, cs) = n(1) /\ n(1) \in Nat
                    BY <1>2, <2>4, <2>5, <4>1
                <5>. QED
                    BY <1>3, <3>5, <5>1
            <4>2. CASE Len(bs) = 2
                <5>1. AllCounts(bs, cs) = n(1) + n(2) /\ n(1) \in Nat /\ n(2) \in Nat
                    BY <1>2, <2>4, <2>5, <4>2
                <5>. QED
                    BY <1>3, <3>5, <5>1
            <4>. QED
                BY <1>2, <4>1, <4>2
        <3>. HIDE DEF refused
        <3>. QED
            BY <1>1, <3>4, <3>6 DEF cs
    <2>7. CASE \A i \in DOMAIN bs : ~(n(i) > MaxChunks)
        <3>1. DOMAIN counts = DOMAIN bs /\ \A i \in DOMAIN bs : counts[i] = n(i)
            BY <2>3, <2>7 DEF counts
        <3>2. ~refused
            BY <1>3, <2>1, <2>4, <3>1 DEF ToSet
        <3>3. Total(counts) = AllCounts(bs, cs)
            <4>1. DOMAIN counts = 1..Len(bs)
                BY <1>2, <3>1
            <4>2. DOMAIN counts = IF Len(bs) = 1 THEN {1} ELSE {1, 2}
                <5>1. 1..1 = {1} /\ 1..2 = {1, 2}
                    OBVIOUS
                <5>. QED
                    BY ONLY <1>2, <4>1, <5>1
            <4>3. \A i \in DOMAIN counts : counts[i] \in Int
                BY <2>4, <3>1
            <4>4. Total(counts) = IF DOMAIN counts = {1} THEN counts[1] ELSE counts[1] + counts[2]
                BY <4>2, <4>3, TotalFacts
            <4>5. 1 \in DOMAIN counts /\ (Len(bs) = 2 => 2 \in DOMAIN counts)
                  /\ (DOMAIN counts = {1} <=> Len(bs) = 1)
                BY <1>2, <4>2
            <4>6. counts[1] = n(1) /\ (Len(bs) = 2 => counts[2] = n(2))
                BY <3>1, <4>5
            <4>. QED
                BY <1>2, <2>5, <4>4, <4>5, <4>6
        <3>4. AllCounts(bs, cs) \in Int
            BY <1>2, <2>4, <2>5
        <3>5. \A i \in DOMAIN bs :
                /\ parts[i] = Numbered(bs[i], cs)
                /\ parts[i] \in Seq([hash : T, size : Nat, offset : Nat])
            <4>1. ASSUME NEW i \in DOMAIN bs
                  PROVE  /\ ChunksOfBlob(bs[i], c) = Numbered(bs[i], cs)
                         /\ Numbered(bs[i], cs) \in Seq([hash : T, size : Nat, offset : Nat])
                <5>1. bs[i] \in [hash : T, size : Nat]
                    BY <2>2
                <5>2. Count(bs[i].size, normalizeBlobChunkSize(c)) <= MaxChunks
                    BY <1>3, <2>4, <2>7 DEF n, cs
                <5>. QED
                    BY <2>1, <5>1, <5>2, ChunksOfBlobIs DEF cs
            <4>. QED
                BY <4>1
        <3>6. parts \in Seq(Seq([hash : T, size : Nat, offset : Nat])) /\ Len(parts) = Len(bs)
            <4>1. parts = [i \in 1..Len(bs) |-> ChunksOfBlob(bs[i], c)]
                BY <1>2
            <4>2. \A i \in 1..Len(bs) :
                     ChunksOfBlob(bs[i], c) \in Seq([hash : T, size : Nat, offset : Nat])
                BY <1>2, <3>5
            <4>3. Len(bs) \in Nat
                OBVIOUS
            <4>. DEFINE U == Seq([hash : T, size : Nat, offset : Nat])
            <4>. HIDE DEF parts, U
            <4>4. \A i \in 1..Len(bs) : ChunksOfBlob(bs[i], c) \in U
                BY <4>2 DEF U
            <4>5. [i \in 1..Len(bs) |-> ChunksOfBlob(bs[i], c)] \in Seq(U)
                BY ONLY <4>3, <4>4
            <4>6. Len(parts) = Len(bs)
                BY ONLY <4>1, <4>3
            <4>. QED
                BY <4>1, <4>5, <4>6 DEF U
        <3>. HIDE DEF refused, parts
        <3>7. FlattenSeq(parts) = IF Len(bs) = 1 THEN parts[1] ELSE parts[1] \o parts[2]
            BY <1>2, <3>6, FlattenFacts
        <3>8. 1 \in DOMAIN bs /\ (Len(bs) = 2 => 2 \in DOMAIN bs)
            BY <1>2
        <3>9. FlattenSeq(parts) = IF Len(bs) = 1 THEN Numbered(bs[1], cs)
                                  ELSE Both(bs[1], bs[2], cs)
            BY <1>2, <3>5, <3>7, <3>8 DEF Both
        <3>10. ~(AllCounts(bs, cs) <= MaxChunks) <=> Total(counts) > MaxChunks
            BY <1>3, <3>3, <3>4
        <3>. QED
            BY <1>1, <1>5, <3>2, <3>9, <3>10 DEF cs
    <2>. QED
        BY <2>6, <2>7
<1>. QED
    BY <1>4, <1>5

\* What Numbered is, element by element.
LEMMA NumberedFacts ==
    ASSUME NEW T, NEW blob \in [hash : T, size : Nat], NEW cs \in Nat, cs > 0
    PROVE  /\ Numbered(blob, cs) \in Seq([hash : T, size : Nat, offset : Nat])
           /\ Len(Numbered(blob, cs)) = Count(blob.size, cs)
           /\ Count(blob.size, cs) \in Nat /\ 1 <= Count(blob.size, cs)
           /\ \A i \in 1..Count(blob.size, cs) : Numbered(blob, cs)[i] = Chunk(blob, cs, i)
<1>. DEFINE n == Count(blob.size, cs)
<1>1. blob.size \in Nat /\ blob.hash \in T
    OBVIOUS
<1>2. n \in Nat /\ 1 <= n
    BY <1>1, CountFacts
<1>3. ASSUME NEW i \in 1..n
      PROVE  Chunk(blob, cs, i) \in [hash : T, size : Nat, offset : Nat]
    BY <1>1, ChunkFacts DEF Chunk
<1>. HIDE DEF n
<1>4. Numbered(blob, cs) = [i \in 1..n |-> Chunk(blob, cs, i)]
    BY DEF Numbered, n
<1>5. /\ Numbered(blob, cs) \in Seq([hash : T, size : Nat, offset : Nat])
      /\ Len(Numbered(blob, cs)) = n
    BY <1>2, <1>3, <1>4
<1>6. \A i \in 1..n : Numbered(blob, cs)[i] = Chunk(blob, cs, i)
    BY <1>4
<1>. QED
    BY <1>2, <1>5, <1>6 DEF n

\* The numbers that the chunks of two blobs have in a plan.
NumberedTwice(plan, b1, b2, cs) ==
    LET n1 == Count(b1.size, cs)
        n2 == Count(b2.size, cs)
    IN  /\ DOMAIN plan = 1..(n1 + n2) /\ n1 \in Nat /\ n2 \in Nat
        /\ \A i \in 1..n1 : plan[i] = Chunk(b1, cs, i)
        /\ \A i \in 1..n2 : plan[n1 + i] = Chunk(b2, cs, i)

\* The chunks of one blob, element by element.
NumberedOnce(s, T, blob, cs) ==
    /\ s \in Seq([hash : T, size : Nat, offset : Nat]) /\ Len(s) = Count(blob.size, cs)
    /\ Count(blob.size, cs) \in Nat /\ 1 <= Count(blob.size, cs)
    /\ \A i \in 1..Count(blob.size, cs) : s[i] = Chunk(blob, cs, i)

\* NumberedFacts, for a sequence under any name.
LEMMA NumberedOnceFacts ==
    ASSUME NEW T, NEW blob \in [hash : T, size : Nat], NEW cs \in Nat, cs > 0
    PROVE  NumberedOnce(Numbered(blob, cs), T, blob, cs)
<1>1. /\ Numbered(blob, cs) \in Seq([hash : T, size : Nat, offset : Nat])
      /\ Len(Numbered(blob, cs)) = Count(blob.size, cs)
      /\ Count(blob.size, cs) \in Nat /\ 1 <= Count(blob.size, cs)
      /\ \A i \in 1..Count(blob.size, cs) : Numbered(blob, cs)[i] = Chunk(blob, cs, i)
    BY NumberedFacts
<1>. QED
    BY <1>1, Zenon DEF NumberedOnce

\* The plan of two blobs, element by element.
LEMMA PlanOfTwo ==
    ASSUME NEW T, NEW b1 \in [hash : T, size : Nat], NEW b2 \in [hash : T, size : Nat],
           NEW cs \in Nat, cs > 0
    PROVE  /\ Both(b1, b2, cs) \in Seq([hash : T, size : Nat, offset : Nat])
           /\ NumberedTwice(Both(b1, b2, cs), b1, b2, cs)
<1>. DEFINE R == [hash : T, size : Nat, offset : Nat]
            s1 == Numbered(b1, cs)
            s2 == Numbered(b2, cs)
            n1 == Count(b1.size, cs)
            n2 == Count(b2.size, cs)
<1>1. /\ s1 \in Seq(R) /\ Len(s1) = n1 /\ n1 \in Nat
      /\ \A i \in 1..n1 : s1[i] = Chunk(b1, cs, i)
    <2>1. NumberedOnce(s1, T, b1, cs)
        BY NumberedOnceFacts
    <2>. HIDE DEF s1
    <2>. QED
        BY <2>1, Zenon DEF NumberedOnce
<1>2. /\ s2 \in Seq(R) /\ Len(s2) = n2 /\ n2 \in Nat
      /\ \A i \in 1..n2 : s2[i] = Chunk(b2, cs, i)
    <2>1. NumberedOnce(s2, T, b2, cs)
        BY NumberedOnceFacts
    <2>. HIDE DEF s2
    <2>. QED
        BY <2>1, Zenon DEF NumberedOnce
<1>. HIDE DEF R, s1, s2, n1, n2
<1>3. s1 \o s2 \in Seq(R) /\ Len(s1 \o s2) = n1 + n2
    <2>1. s1 \in Seq(R) /\ s2 \in Seq(R)
        BY <1>1, <1>2
    <2>2. s1 \o s2 \in Seq(R)
        BY ONLY <2>1
    <2>3. Len(s1 \o s2) = Len(s1) + Len(s2)
        BY ONLY <2>1
    <2>. QED
        BY <1>1, <1>2, <2>2, <2>3
<1>4. DOMAIN (s1 \o s2) = 1..(n1 + n2)
    BY <1>3
<1>5. \A i \in 1..n1 : (s1 \o s2)[i] = s1[i]
    BY <1>1, <1>2
<1>6. \A i \in 1..n2 : (s1 \o s2)[n1 + i] = s2[i]
    BY <1>1, <1>2
<1>. QED
    <2>1. Both(b1, b2, cs) = s1 \o s2
        BY DEF Both, s1, s2
    <2>. QED
        BY <1>1, <1>2, <1>3, <1>4, <1>5, <1>6, <2>1, ZenonT(20) DEF NumberedTwice, R, n1, n2

\* The blobs that PlanCoversBlobs looks at.
LEMMA SomeBlobsFacts ==
    ASSUME NEW bs \in SomeBlobs
    PROVE  /\ bs \in Seq([hash : {"a", "b"}, size : Int]) /\ Len(bs) = 2
           /\ DOMAIN bs = {1, 2} /\ ToSet(bs) = {bs[1], bs[2]}
<1>1. PICK h \in {"a", "b"}, m \in -1..MaxSize, n \in -1..MaxSize :
        bs = <<[hash |-> "a", size |-> m], [hash |-> h, size |-> n]>>
    BY DEF SomeBlobs
<1>. DEFINE b1 == [hash |-> "a", size |-> m]
            b2 == [hash |-> h, size |-> n]
            B == [hash : {"a", "b"}, size : Int]
<1>2. b1 \in B /\ b2 \in B
    BY MCBlobTransferAssumption
<1>3. bs = <<b1, b2>>
    BY <1>1
<1>. HIDE DEF b1, b2, B
<1>4. bs \in Seq(B) /\ Len(bs) = 2 /\ DOMAIN bs = {1, 2}
    BY <1>2, <1>3
<1>5. ToSet(bs) = {bs[1], bs[2]}
    BY <1>4 DEF ToSet
<1>. QED
    BY <1>4, <1>5 DEF B

\* PlanCoversBlobs: the chunks of a plan have each byte of each blob exactly once, for
\* any sizes and chunk sizes, and any limits.
LEMMA PlanCovers == PlanCoversBlobs
<1>. SUFFICES ASSUME NEW bs \in SomeBlobs, NEW c \in ChunkSizes
              PROVE  LET plan == PlanBlobChunks(bs, c)
                         legal == /\ \A b \in ToSet(bs) : b.size >= 0
                                  /\ bs[1].hash # bs[2].hash
                                  /\ c <= MaxChunkSize
                     IN  /\ ~legal => plan = Invalid
                         /\ plan # Invalid =>
                               \A b \in ToSet(bs) :
                                 LET own == {i \in DOMAIN plan : plan[i].hash = b.hash} IN
                                 /\ own # {}
                                 /\ \A byte \in 0..(b.size - 1) :
                                       Cardinality({i \in own : Covers(plan[i], c, byte)}) = 1
                         /\ legal /\ plan = Invalid =>
                               bs[1].size + bs[2].size + 2 > MaxChunks
    BY DEF PlanCoversBlobs
<1>. DEFINE plan == PlanBlobChunks(bs, c)
            legal == /\ \A b \in ToSet(bs) : b.size >= 0
                     /\ bs[1].hash # bs[2].hash
                     /\ c <= MaxChunkSize
            cs == normalizeBlobChunkSize(c)
            T == {"a", "b"}
            n(k) == Count(bs[k].size, cs)
            planned == Both(bs[1], bs[2], cs)
<1>1. /\ bs \in Seq([hash : T, size : Int]) /\ Len(bs) = 2
      /\ DOMAIN bs = {1, 2} /\ ToSet(bs) = {bs[1], bs[2]}
    BY SomeBlobsFacts
<1>2. c \in Int
    BY ChunkPlanAssumption DEF ChunkSizes
<1>3. legal <=> Legal(bs, c)
    BY <1>1 DEF Legal
<1>4. /\ Legal(bs, c) /\ AllCounts(bs, cs) <= MaxChunks => plan = planned
      /\ ~(Legal(bs, c) /\ AllCounts(bs, cs) <= MaxChunks) => plan = Invalid
    <2>1. Len(bs) \in {1, 2} /\ Len(bs) # 1
        BY <1>1
    <2>. HIDE DEF T
    <2>. QED
        BY <1>1, <1>2, <2>1, PlanIs
<1>5. AllCounts(bs, cs) = n(1) + n(2)
    BY <1>1 DEF AllCounts
<1>6. ASSUME legal
      PROVE  /\ cs \in Nat /\ cs > 0
             /\ bs[1] \in [hash : T, size : Nat] /\ bs[2] \in [hash : T, size : Nat]
             /\ n(1) \in Nat /\ n(2) \in Nat
             /\ n(1) <= bs[1].size + 1 /\ n(2) <= bs[2].size + 1
             /\ 1 <= n(1) /\ 1 <= n(2)
    <2>1. c <= MaxChunkSize
        BY <1>6
    <2>2. cs \in Nat /\ cs > 0
        BY <1>2, <2>1, NormalFacts, ChunkPlanAssumption
    <2>3. bs[1] \in [hash : T, size : Int] /\ bs[2] \in [hash : T, size : Int]
        <3>1. 1 \in 1..Len(bs) /\ 2 \in 1..Len(bs)
            BY <1>1
        <3>. QED
            BY <1>1, <3>1, ElementOfSeq
    <2>4. bs[1].size >= 0 /\ bs[2].size >= 0
        BY <1>1, <1>6
    <2>5. bs[1] \in [hash : T, size : Nat] /\ bs[2] \in [hash : T, size : Nat]
        BY <2>3, <2>4
    <2>6. bs[1].size \in Nat /\ bs[2].size \in Nat
        BY <2>5
    <2>. HIDE DEF cs
    <2>. QED
        BY <2>2, <2>5, <2>6, CountFacts
<1>7. ~legal => plan = Invalid
    BY <1>3, <1>4
<1>8. ASSUME legal, plan = Invalid
      PROVE  bs[1].size + bs[2].size + 2 > MaxChunks
    <2>1. planned \in Seq([hash : T, size : Nat, offset : Nat])
        <3>. HIDE DEF T, cs
        <3>. QED
            BY <1>6, <1>8, PlanOfTwo
    <2>2. planned # Invalid
        BY <2>1, MCBlobTransferAssumption
    <2>3. ~(n(1) + n(2) <= MaxChunks)
        BY <1>3, <1>4, <1>5, <1>8, <2>2
    <2>. DEFINE size(k) == bs[k].size
    <2>4. n(1) \in Nat /\ n(2) \in Nat /\ n(1) <= size(1) + 1 /\ n(2) <= size(2) + 1
          /\ size(1) \in Nat /\ size(2) \in Nat
        BY <1>6, <1>8
    <2>5. MaxChunks \in Nat
        BY ChunkPlanAssumption
    <2>. HIDE DEF n, size
    <2>6. size(1) + size(2) + 2 > MaxChunks
        BY ONLY <2>3, <2>4, <2>5
    <2>. QED
        BY <2>6 DEF size
<1>9. ASSUME plan # Invalid, NEW b \in ToSet(bs)
      PROVE  LET own == {i \in DOMAIN plan : plan[i].hash = b.hash} IN
             /\ own # {}
             /\ \A byte \in 0..(b.size - 1) :
                   Cardinality({i \in own : Covers(plan[i], c, byte)}) = 1
    <2>. DEFINE own == {i \in DOMAIN plan : plan[i].hash = b.hash}
    <2>1. legal /\ plan = planned
        BY <1>3, <1>4, <1>9
    <2>2. /\ DOMAIN plan = 1..(n(1) + n(2)) /\ n(1) \in Nat /\ n(2) \in Nat
          /\ \A i \in 1..n(1) : plan[i] = Chunk(bs[1], cs, i)
          /\ \A i \in 1..n(2) : plan[n(1) + i] = Chunk(bs[2], cs, i)
        <3>. HIDE DEF T, cs
        <3>1. /\ bs[1] \in [hash : T, size : Nat] /\ bs[2] \in [hash : T, size : Nat]
              /\ cs \in Nat /\ cs > 0
            BY <1>6, <2>1
        <3>2. NumberedTwice(planned, bs[1], bs[2], cs)
            BY <3>1, PlanOfTwo
        <3>. HIDE DEF plan, planned
        <3>. QED
            BY <2>1, <3>2 DEF NumberedTwice
    <2>3. bs[1].hash # bs[2].hash /\ c <= MaxChunkSize
        BY <2>1
    <2>4. 1 <= n(1) /\ 1 <= n(2) /\ bs[1].size \in Nat /\ bs[2].size \in Nat
        BY <1>6, <2>1
    <2>. HIDE DEF plan, planned, n, legal
    <2>5. \E d \in Nat : own = (d + 1)..(d + Count(b.size, cs))
             /\ \A i \in 1..Count(b.size, cs) : plan[d + i] = Chunk(b, cs, i)
        <3>0. \A a, i : Chunk(a, cs, i).hash = a.hash
            BY DEF Chunk
        <3>1. \A i \in 1..n(1) : plan[i].hash = bs[1].hash
            BY <2>2, <3>0
        <3>2. \A i \in 1..n(2) : plan[n(1) + i].hash = bs[2].hash
            BY <2>2, <3>0
        <3>3. \A j \in 1..(n(1) + n(2)) : j \in 1..n(1) \/ \E i \in 1..n(2) : j = n(1) + i
            <4>1. ASSUME NEW j \in 1..(n(1) + n(2)), ~(j \in 1..n(1))
                  PROVE  j - n(1) \in 1..n(2) /\ j = n(1) + (j - n(1))
                BY <2>2, <4>1
            <4>. QED
                BY <4>1
        <3>4. CASE b = bs[1]
            <4>1. own = 1..n(1)
                <5>1. \A j \in own : j \in 1..n(1)
                    BY <2>2, <2>3, <3>2, <3>3, <3>4
                <5>2. \A j \in 1..n(1) : j \in own
                    BY <2>2, <3>1, <3>4
                <5>. QED
                    BY <5>1, <5>2
            <4>2. 0 \in Nat /\ 0 + 1 = 1 /\ 0 + n(1) = n(1) /\ \A i \in 1..n(1) : 0 + i = i
                BY <2>2
            <4>3. n(1) = Count(b.size, cs)
                BY <3>4 DEF n
            <4>4. \A i \in 1..n(1) : plan[0 + i] = Chunk(b, cs, i)
                BY <2>2, <3>4, <4>2
            <4>5. own = (0 + 1)..(0 + Count(b.size, cs))
                BY <4>1, <4>2, <4>3
            <4>. HIDE DEF own
            <4>. QED
                BY <4>2, <4>3, <4>4, <4>5
        <3>5. CASE b = bs[2]
            <4>1. own = (n(1) + 1)..(n(1) + n(2))
                <5>1. ASSUME NEW j \in own
                      PROVE  j \in (n(1) + 1)..(n(1) + n(2))
                    <6>1. j \in 1..(n(1) + n(2)) /\ ~(j \in 1..n(1))
                        BY <2>2, <2>3, <3>1, <3>5
                    <6>. QED
                        BY <2>2, <6>1
                <5>2. ASSUME NEW j \in (n(1) + 1)..(n(1) + n(2))
                      PROVE  j \in own
                    <6>1. j - n(1) \in 1..n(2) /\ j = n(1) + (j - n(1)) /\ j \in 1..(n(1) + n(2))
                        BY <2>2
                    <6>2. plan[j].hash = bs[2].hash
                        BY <3>2, <6>1
                    <6>. QED
                        BY <2>2, <3>5, <6>1, <6>2
                <5>. QED
                    BY <5>1, <5>2
            <4>2. n(2) = Count(b.size, cs)
                BY <3>5 DEF n
            <4>3. \A i \in 1..n(2) : plan[n(1) + i] = Chunk(b, cs, i)
                BY <2>2, <3>5
            <4>. HIDE DEF own
            <4>. QED
                BY <2>2, <4>1, <4>2, <4>3
        <3>. QED
            BY <1>1, <3>4, <3>5
    <2>6. PICK d \in Nat : own = (d + 1)..(d + Count(b.size, cs))
             /\ \A i \in 1..Count(b.size, cs) : plan[d + i] = Chunk(b, cs, i)
        BY <2>5
    <2>7. b.size \in Nat /\ Count(b.size, cs) \in Nat /\ 1 <= Count(b.size, cs)
        BY <1>1, <2>2, <2>4 DEF n
    <2>. DEFINE m == Count(b.size, cs)
    <2>. HIDE DEF own
    <2>8. ASSUME NEW byte \in 0..(b.size - 1)
          PROVE  Cardinality({i \in own : Covers(plan[i], c, byte)}) = 1
        <3>1. PICK k \in 1..m : \A i \in 1..m : Covers(Chunk(b, cs, i), c, byte) <=> i = k
            BY <1>2, <2>3, <2>7, CoveredOnce
        <3>. HIDE DEF m, cs
        <3>2. \A j \in own : j - d \in 1..m /\ j = d + (j - d)
            BY <2>6, <2>7 DEF m
        <3>3. d + k \in own
            BY <2>6, <2>7 DEF m
        <3>4. \A j \in own : Covers(plan[j], c, byte) <=> j = d + k
            <4>1. \A j \in own : plan[j] = Chunk(b, cs, j - d)
                BY <2>6, <3>2 DEF m
            <4>2. \A j \in own : Covers(plan[j], c, byte) <=> j - d = k
                BY <3>1, <3>2, <4>1
            <4>3. \A j \in own : j - d = k <=> j = d + k
                BY <2>6, <2>7, <3>1 DEF m
            <4>. QED
                BY <4>2, <4>3
        <3>5. {i \in own : Covers(plan[i], c, byte)} = {d + k}
            BY <3>3, <3>4
        <3>. QED
            BY <3>5, FS_Singleton
    <2>9. own # {}
        <3>1. own = (d + 1)..(d + m) /\ m \in Nat /\ 1 <= m
            BY <2>6, <2>7 DEF m
        <3>. HIDE DEF m
        <3>2. d + 1 \in (d + 1)..(d + m)
            BY ONLY <2>6, <3>1
        <3>. QED
            BY ONLY <3>1, <3>2
    <2>. QED
        BY <2>8, <2>9 DEF own, plan
<1>. QED
    BY <1>7, <1>8, <1>9

\* The plan of one blob.
LEMMA PlanOfOne ==
    ASSUME NEW size \in Nat, NEW cs \in 1..MaxChunkSize
    PROVE  LET blob == [hash |-> "a", size |-> size] IN
           IF Count(size, cs) <= MaxChunks
           THEN PlanBlobChunks(<<blob>>, cs) = Numbered(blob, cs)
           ELSE PlanBlobChunks(<<blob>>, cs) = Invalid
<1>. DEFINE blob == [hash |-> "a", size |-> size]
            T == {"a"}
<1>1. blob.size = size /\ blob \in [hash : T, size : Int]
    OBVIOUS
<1>2. cs \in Int /\ cs <= MaxChunkSize /\ normalizeBlobChunkSize(cs) = cs
    BY NormalFacts, ChunkPlanAssumption
<1>. HIDE DEF blob, T
<1>3. /\ <<blob>> \in Seq([hash : T, size : Int]) /\ Len(<<blob>>) = 1 /\ <<blob>>[1] = blob
      /\ DOMAIN <<blob>> = {1}
    BY <1>1
<1>. DEFINE bs == <<blob>>
<1>4. Legal(bs, cs)
    BY <1>1, <1>2, <1>3 DEF Legal
<1>5. AllCounts(bs, cs) = Count(size, cs)
    BY <1>1, <1>3 DEF AllCounts
<1>6. Len(bs) \in {1, 2}
    BY <1>3
<1>. HIDE DEF bs
<1>7. IF Legal(bs, cs) /\ AllCounts(bs, cs) <= MaxChunks
      THEN PlanBlobChunks(bs, cs) =
              IF Len(bs) = 1 THEN Numbered(bs[1], cs) ELSE Both(bs[1], bs[2], cs)
      ELSE PlanBlobChunks(bs, cs) = Invalid
    BY <1>2, <1>3, <1>6, PlanIs DEF bs
<1>. QED
    BY <1>3, <1>4, <1>5, <1>7 DEF bs, blob

\* AcceptsThePlan: validateBlobChunkShape accepts what is planned, and nothing else.
LEMMA PlanAccepted == AcceptsThePlan
<1>. SUFFICES ASSUME NEW size \in 0..MaxSize, NEW cs \in 1..MaxChunkSize,
                     PlanBlobChunks(<<[hash |-> "a", size |-> size]>>, cs) # Invalid,
                     NEW offset \in -1..(MaxSize + 1), NEW len \in 0..MaxChunkSize
              PROVE  LET blob == [hash |-> "a", size |-> size]
                         plan == PlanBlobChunks(<<blob>>, cs)
                         info == [hash |-> "a", size |-> size, offset |-> offset]
                     IN  ValidChunk(info, blob, cs, len)
                            <=> /\ info \in ToSet(plan)
                                /\ len = IF size - offset < cs THEN size - offset ELSE cs
    BY DEF AcceptsThePlan
<1>. DEFINE blob == [hash |-> "a", size |-> size]
            info == [hash |-> "a", size |-> size, offset |-> offset]
            n == Count(size, cs)
            fits == /\ 0 <= offset /\ offset <= size
                    /\ size = 0 => offset = 0
                    /\ size > 0 => offset % cs = 0
            index == IF size = 0 THEN 0 ELSE offset \div cs
            payload == IF size - offset < cs THEN size - offset ELSE cs
<1>1. /\ size \in Nat /\ cs \in Nat /\ cs > 0 /\ cs \in Int /\ cs <= MaxChunkSize
      /\ offset \in Int /\ len \in Nat /\ MaxChunks \in Nat /\ Invalid \notin Int
      /\ normalizeBlobChunkSize(cs) = cs
    BY NormalFacts, ChunkPlanAssumption, MCBlobTransferAssumption
<1>2. n \in Nat /\ 1 <= n
    BY <1>1, CountFacts
<1>3. n <= MaxChunks /\ PlanBlobChunks(<<blob>>, cs) = Numbered(blob, cs)
    BY <1>1, PlanOfOne
<1>4. BlobChunkCount(size, cs) = n
    <2>. HIDE DEF n
    <2>1. BlobChunkCount(size, cs) = IF n > MaxChunks THEN Invalid ELSE n
        BY <1>1, BlobChunkCountIs DEF n
    <2>. QED
        BY <1>1, <1>2, <1>3, <2>1
<1>5. BlobChunkPayloadLen(info, cs) = IF fits THEN payload ELSE Invalid
    <2>1. info.size = size /\ info.offset = offset
        OBVIOUS
    <2>. HIDE DEF info
    <2>. QED
        BY <1>1, <2>1, PayloadIs
<1>6. ValidChunk(info, blob, cs, len) <=> fits /\ len = payload /\ index < n
    <2>1. info.size = size /\ info.offset = offset /\ info.hash = "a"
          /\ blob.size = size /\ blob.hash = "a"
        OBVIOUS
    <2>2. ChunkIndex(info, cs) = index
        BY <1>1, <2>1 DEF ChunkIndex
    <2>3. len # Invalid /\ n # Invalid
        BY <1>1, <1>2
    <2>. HIDE DEF info, blob, index, n, fits, payload
    <2>4. ValidChunk(info, blob, cs, len)
            <=> len # Invalid /\ len = BlobChunkPayloadLen(info, cs)
                /\ n # Invalid /\ index < n
        BY <1>4, <2>1, <2>2 DEF ValidChunk
    <2>. QED
        BY <1>5, <2>3, <2>4
<1>7. info \in ToSet(Numbered(blob, cs)) <=> \E i \in 1..n : offset = (i - 1) * cs
    <2>1. blob.size = size /\ blob.hash = "a"
        OBVIOUS
    <2>2. \A i : Chunk(blob, cs, i) = [hash |-> "a", size |-> size, offset |-> (i - 1) * cs]
        BY <2>1 DEF Chunk
    <2>3. \A i : info = Chunk(blob, cs, i) <=> offset = (i - 1) * cs
        <3>1. ASSUME NEW x
              PROVE  info = [hash |-> "a", size |-> size, offset |-> x] <=> offset = x
            <4>1. [hash |-> "a", size |-> size, offset |-> x].offset = x /\ info.offset = offset
                OBVIOUS
            <4>. QED
                BY <4>1
        <3>. HIDE DEF info, blob
        <3>. QED
            BY <2>2, <3>1
    <2>4. Numbered(blob, cs) = [i \in 1..n |-> Chunk(blob, cs, i)]
        BY <2>1 DEF Numbered
    <2>. HIDE DEF info, blob, n
    <2>5. info \in ToSet(Numbered(blob, cs)) <=> \E i \in 1..n : info = Chunk(blob, cs, i)
        BY <2>4 DEF ToSet
    <2>. QED
        BY <2>3, <2>5
<1>8. ASSUME NEW i \in 1..n, offset = (i - 1) * cs
      PROVE  fits /\ index < n
    <2>1. /\ (i - 1) * cs \in Nat /\ (i - 1) * cs <= size
          /\ size = 0 => (i - 1) * cs = 0
          /\ ((i - 1) * cs) % cs = 0 /\ ((i - 1) * cs) \div cs = i - 1
        BY <1>1, ChunkFacts
    <2>. HIDE DEF n
    <2>2. i - 1 < n
        BY <1>2
    <2>3. /\ offset \in Nat /\ offset <= size /\ (size = 0 => offset = 0)
          /\ offset % cs = 0 /\ offset \div cs = i - 1
        BY ONLY <1>8, <2>1
    <2>. QED
        BY ONLY <1>1, <1>2, <2>2, <2>3
<1>9. ASSUME fits, index < n
      PROVE  \E i \in 1..n : offset = (i - 1) * cs
    <2>. HIDE DEF n
    <2>1. CASE size = 0
        <3>1. 1 \in 1..n /\ offset = (1 - 1) * cs
            BY <1>1, <1>2, <1>9, <2>1
        <3>. QED
            BY <3>1
    <2>2. CASE size > 0
        <3>1. offset \in Nat /\ offset % cs = 0
            BY <1>1, <1>9, <2>2
        <3>2. offset \div cs \in Nat /\ (offset \div cs) * cs = offset
            BY <1>1, <3>1, QuotientFacts
        <3>3. offset \div cs < n
            BY <1>9, <2>2
        <3>. DEFINE q == offset \div cs
        <3>. HIDE DEF q
        <3>4. q + 1 \in 1..n /\ q + 1 - 1 = q
            BY <1>2, <3>2, <3>3 DEF q
        <3>. QED
            BY <3>2, <3>4 DEF q
    <2>. QED
        BY <1>1, <2>1, <2>2
<1>. HIDE DEF fits, index, payload, info, blob
<1>10. ValidChunk(info, blob, cs, len) <=> info \in ToSet(Numbered(blob, cs)) /\ len = payload
    BY <1>6, <1>7, <1>8, <1>9
<1>. QED
    BY <1>3, <1>10 DEF payload, info, blob

\* The groups of a download share out any chunks: each is in one group, at one place,
\* and the groups are of the same length, or one longer than others.
LEMMA GroupsFacts ==
    ASSUME NEW T, NEW chunks \in Seq(T), NEW parallel \in Nat, Len(chunks) >= 1,
           \A i, j \in 1..Len(chunks) : chunks[i] = chunks[j] => i = j
    PROVE  LET groups == downloadChunkGroups(chunks, parallel)
               len == Len(chunks)
           IN  /\ Len(groups) = Min({Max({parallel, 1}), len})
               /\ DOMAIN groups = 1..Len(groups) /\ Len(groups) \in 1..len
               /\ \A j \in 1..len : \E g0 \in DOMAIN groups, k0 \in 1..len :
                     \A g \in DOMAIN groups, k \in 1..len :
                        k \in DOMAIN groups[g] /\ groups[g][k] = chunks[j] <=> g = g0 /\ k = k0
               /\ \A g, h \in DOMAIN groups : Len(groups[g]) <= Len(groups[h]) + 1
<1>. DEFINE len == Len(chunks)
            G == Min({Max({parallel, 1}), len})
            rounds(g) == (len - g) \div G
            At(g, k) == (k - 1) * G + g
            dealt(g) == [k \in 1..(rounds(g) + 1) |-> chunks[At(g, k)]]
            groups == downloadChunkGroups(chunks, parallel)
<1>1. len \in Nat /\ 1 <= len
    OBVIOUS
<1>2. \A i, j \in 1..len : chunks[i] = chunks[j] => i = j
    OBVIOUS
<1>3. G \in 1..len
    <2>1. Max({parallel, 1}) \in Nat /\ Max({parallel, 1}) >= 1
        BY MinMaxFacts
    <2>2. PICK w \in Nat : w = Max({parallel, 1}) /\ w >= 1
        BY <2>1
    <2>. HIDE DEF len
    <2>3. G = Min({w, len})
        BY <2>2
    <2>4. Min({w, len}) = IF w <= len THEN w ELSE len
        <3>1. w \in Int /\ len \in Int
            BY <1>1
        <3>. QED
            BY ONLY ZenonT(20), <3>1, MinMaxFacts
    <2>. HIDE DEF G
    <2>. QED
        BY <1>1, <2>2, <2>3, <2>4
<1>4. groups = [g \in 1..G |-> dealt(g)]
    <2>1. {1, parallel} = {parallel, 1}
        OBVIOUS
    <2>. QED
        BY <2>1 DEF downloadChunkGroups
<1>. HIDE DEF G, groups
<1>5. Len(groups) = G /\ DOMAIN groups = 1..G
    <2>. HIDE DEF dealt, len
    <2>. QED
        BY <1>1, <1>3, <1>4
<1>. HIDE DEF len
<1>6. ASSUME NEW g \in 1..G
      PROVE  /\ rounds(g) \in Nat /\ rounds(g) * G <= len - g /\ len - g < rounds(g) * G + G
             /\ DOMAIN groups[g] = 1..(rounds(g) + 1) /\ Len(groups[g]) = rounds(g) + 1
             /\ \A k \in 1..(rounds(g) + 1) : groups[g][k] = chunks[At(g, k)]
    <2>1. len - g \in Nat /\ G \in Nat /\ G > 0
        BY <1>1, <1>3
    <2>2. rounds(g) \in Nat /\ rounds(g) * G <= len - g /\ len - g < rounds(g) * G + G
        BY <2>1, QuotientFacts
    <2>3. groups[g] = dealt(g)
        BY <1>4
    <2>. HIDE DEF rounds, At
    <2>. QED
        BY <2>2, <2>3
<1>. HIDE DEF dealt
<1>7. ASSUME NEW g \in 1..G, NEW k \in 1..len
      PROVE  /\ k \in DOMAIN groups[g] <=> (k - 1) * G <= len - g
             /\ k \in DOMAIN groups[g] => At(g, k) \in 1..len
    <2>1. /\ rounds(g) \in Nat /\ rounds(g) * G <= len - g /\ len - g < rounds(g) * G + G
          /\ DOMAIN groups[g] = 1..(rounds(g) + 1)
        BY <1>6
    <2>2. G \in Nat /\ G > 0 /\ k - 1 \in Nat /\ g \in Nat /\ 1 <= g
        BY <1>1, <1>3
    <2>. HIDE DEF rounds
    <2>3. k \in DOMAIN groups[g] <=> k - 1 <= rounds(g)
        BY <1>1, <2>1
    <2>4. ASSUME k - 1 <= rounds(g)
          PROVE  (k - 1) * G <= len - g
        <3>1. (k - 1) * G <= rounds(g) * G
            BY <2>1, <2>2, <2>4, TimesFacts
        <3>2. (k - 1) * G \in Int /\ rounds(g) * G \in Int /\ len - g \in Int
            BY <1>1, <2>1, <2>2
        <3>. QED
            BY <2>1, <3>1, <3>2
    <2>5. ASSUME (k - 1) * G <= len - g, ~(k - 1 <= rounds(g))
          PROVE  FALSE
        <3>1. rounds(g) + 1 <= k - 1 /\ rounds(g) + 1 \in Nat
            BY <2>1, <2>2, <2>5
        <3>2. (rounds(g) + 1) * G <= (k - 1) * G
            BY <2>2, <3>1, TimesFacts
        <3>3. (rounds(g) + 1) * G = rounds(g) * G + G
            BY <2>1, <2>2
        <3>4. (k - 1) * G \in Int /\ rounds(g) * G \in Int /\ len - g \in Int
            BY <1>1, <2>1, <2>2
        <3>. QED
            BY <2>1, <2>2, <2>5, <3>2, <3>3, <3>4
    <2>6. k \in DOMAIN groups[g] <=> (k - 1) * G <= len - g
        BY <2>3, <2>4, <2>5
    <2>7. ASSUME (k - 1) * G <= len - g
          PROVE  At(g, k) \in 1..len
        <3>1. (k - 1) * G \in Nat
            BY <2>2
        <3>. QED
            BY <1>1, <2>2, <2>7, <3>1
    <2>. QED
        BY <2>6, <2>7
<1>8. ASSUME NEW j \in 1..len
      PROVE  \E g0 \in DOMAIN groups, k0 \in 1..len :
                \A g \in DOMAIN groups, k \in 1..len :
                   k \in DOMAIN groups[g] /\ groups[g][k] = chunks[j] <=> g = g0 /\ k = k0
    <2>. DEFINE q == (j - 1) \div G
                g0 == j - q * G
                k0 == q + 1
    <2>1. j - 1 \in Nat /\ G \in Nat /\ G > 0
        BY <1>3
    <2>2. q \in Nat /\ q * G <= j - 1 /\ j - 1 < q * G + G /\ q * G \in Nat
        BY <2>1, QuotientFacts
    <2>. HIDE DEF q
    <2>3. q <= q * G
        BY <2>1, <2>2
    <2>4. g0 \in 1..G /\ k0 \in 1..len /\ k0 - 1 = q
        BY <1>1, <2>1, <2>2, <2>3
    <2>5. (k0 - 1) * G <= len - g0 /\ At(g0, k0) = j
        BY <1>1, <2>1, <2>2, <2>4
    <2>6. ASSUME NEW g \in 1..G, NEW k \in 1..len, At(g, k) = j
          PROVE  g = g0 /\ k = k0
        <3>1. k - 1 \in Nat /\ (k - 1) * G \in Nat /\ g \in Nat /\ 1 <= g /\ g <= G
            BY <1>1, <2>1
        <3>2. (k - 1) * G <= j - 1 /\ j - 1 < (k - 1) * G + G
            BY <2>1, <2>6, <3>1
        <3>3. k - 1 = q
            BY <2>1, <2>2, <3>1, <3>2, SameMultiple
        <3>4. k = k0
            BY <1>1, <2>2, <3>1, <3>3
        <3>5. j = q * G + g
            BY <2>6, <3>3
        <3>. QED
            BY <2>1, <2>2, <3>1, <3>4, <3>5
    <2>. HIDE DEF g0, k0
    <2>7. ASSUME NEW g \in 1..G, NEW k \in 1..len, k \in DOMAIN groups[g]
          PROVE  groups[g][k] = chunks[j] <=> At(g, k) = j
        <3>1. groups[g][k] = chunks[At(g, k)] /\ At(g, k) \in 1..len
            BY <1>6, <1>7, <2>7
        <3>. HIDE DEF At
        <3>. QED
            BY <1>2, <3>1
    <2>8. k0 \in DOMAIN groups[g0]
        BY <1>7, <2>4, <2>5
    <2>. HIDE DEF At
    <2>9. \A g \in 1..G, k \in 1..len :
             k \in DOMAIN groups[g] /\ groups[g][k] = chunks[j] <=> g = g0 /\ k = k0
        BY <2>4, <2>5, <2>6, <2>7, <2>8
    <2>10. g0 \in DOMAIN groups /\ k0 \in 1..len
        BY <1>5, <2>4
    <2>11. ASSUME NEW g \in DOMAIN groups, NEW k \in 1..len
           PROVE  k \in DOMAIN groups[g] /\ groups[g][k] = chunks[j] <=> g = g0 /\ k = k0
        <3>1. g \in 1..G
            BY <1>5
        <3>. QED
            BY <2>9, <3>1
    <2>. QED
        BY <2>10, <2>11
<1>9. ASSUME NEW g \in 1..G, NEW h \in 1..G
      PROVE  Len(groups[g]) <= Len(groups[h]) + 1
    <2>. DEFINE p == rounds(g)
                q == rounds(h)
    <2>1. /\ p \in Nat /\ p * G <= len - g /\ Len(groups[g]) = p + 1
          /\ q \in Nat /\ len - h < q * G + G /\ Len(groups[h]) = q + 1
        BY <1>6
    <2>. HIDE DEF p, q
    <2>2. G \in Nat /\ G > 0 /\ p * G \in Nat /\ q * G \in Nat
        BY <1>3, <2>1
    <2>3. len - g < (len - h) + G
        BY <1>1, <1>3
    <2>4. ~(q + 2 <= p)
        <3>1. SUFFICES ASSUME q + 2 <= p PROVE FALSE
            OBVIOUS
        <3>2. q + 2 \in Nat /\ (q + 2) * G = q * G + G + G
            BY <2>1, <2>2
        <3>3. (q + 2) * G <= p * G
            BY <2>1, <2>2, <3>1, <3>2, TimesFacts
        <3>. DEFINE u == p * G
                    v == q * G
        <3>4. u \in Nat /\ v \in Nat /\ u <= len - g /\ len - h < v + G /\ v + G + G <= u
            BY <2>1, <2>2, <3>2, <3>3
        <3>5. len \in Int /\ g \in Int /\ h \in Int /\ G \in Int
            BY <1>1, <1>3
        <3>. HIDE DEF u, v, len, G
        <3>. QED
            BY ONLY <2>3, <3>4, <3>5
    <2>. QED
        BY <2>1, <2>4
<1>10. /\ Len(groups) = G /\ DOMAIN groups = 1..Len(groups) /\ Len(groups) \in 1..len
       /\ \A j \in 1..len : \E g0 \in DOMAIN groups, k0 \in 1..len :
             \A g \in DOMAIN groups, k \in 1..len :
                k \in DOMAIN groups[g] /\ groups[g][k] = chunks[j] <=> g = g0 /\ k = k0
       /\ \A g, h \in DOMAIN groups : Len(groups[g]) <= Len(groups[h]) + 1
    <2>1. Len(groups) = G /\ DOMAIN groups = 1..Len(groups) /\ Len(groups) \in 1..len
        BY <1>3, <1>5
    <2>2. \A g, h \in DOMAIN groups : Len(groups[g]) <= Len(groups[h]) + 1
        BY ONLY ZenonT(20), <1>5, <1>9
    <2>3. \A j \in 1..len : \E g0 \in DOMAIN groups, k0 \in 1..len :
             \A g \in DOMAIN groups, k \in 1..len :
                k \in DOMAIN groups[g] /\ groups[g][k] = chunks[j] <=> g = g0 /\ k = k0
        BY <1>8
    <2>. QED
        BY <2>1, <2>2, <2>3
<1>. QED
    BY <1>10 DEF groups, G, len

\* The number of connections is at least 1, and within both limits.
LEMMA ParallelismFacts ==
    ASSUME NEW proposed \in Nat, NEW n \in Nat, n >= 1
    PROVE  Parallelism(proposed, 1, n) \in 1..Min({MaxParallel, n})
<1>. DEFINE wanted == IF proposed > 0 THEN proposed
                      ELSE IF n <= 1 THEN 1
                      ELSE Min({1, DefaultParallel})
            within == Min({wanted, MaxParallel, n})
<1>1. MaxParallel \in Nat /\ MaxParallel >= 1 /\ DefaultParallel \in Nat /\ DefaultParallel >= 1
    BY ChunkPlanAssumption
<1>2. wanted \in Nat /\ wanted >= 1
    <2>1. Min({1, DefaultParallel}) = 1
        BY <1>1, MinMaxFacts
    <2>. QED
        BY <2>1
<1>3. Parallelism(proposed, 1, n) = Max({1, within})
    BY DEF Parallelism
<1>. HIDE DEF wanted
<1>4. /\ within \in {wanted, MaxParallel, n} /\ within <= MaxParallel /\ within <= n
    BY <1>1, <1>2, MinFacts
<1>. HIDE DEF within
<1>5. within \in Nat /\ within >= 1
    BY <1>1, <1>2, <1>4
<1>6. Max({1, within}) = within
    <2>1. Max({1, within}) = IF 1 >= within THEN 1 ELSE within
        BY <1>5, MinMaxFacts
    <2>. QED
        BY <1>5, <2>1
<1>7. Min({MaxParallel, n}) = IF MaxParallel <= n THEN MaxParallel ELSE n
    BY <1>1, MinMaxFacts
<1>. QED
    BY <1>1, <1>3, <1>4, <1>5, <1>6, <1>7

\* A chunk that is in one place has one place.
LEMMA OnePlace ==
    ASSUME NEW ch, NEW groups, NEW len \in Nat,
           \E g0 \in DOMAIN groups, k0 \in 1..len :
             \A g \in DOMAIN groups, k \in 1..len :
                k \in DOMAIN groups[g] /\ groups[g][k] = ch <=> g = g0 /\ k = k0
    PROVE  Cardinality(Places(ch, groups, len)) = 1
<1>1. PICK g0 \in DOMAIN groups, k0 \in 1..len :
        \A g \in DOMAIN groups, k \in 1..len :
           k \in DOMAIN groups[g] /\ groups[g][k] = ch <=> g = g0 /\ k = k0
    OBVIOUS
<1>2. \A p \in Places(ch, groups, len) : p = <<g0, k0>>
    BY <1>1 DEF Places
<1>3. <<g0, k0>> \in Places(ch, groups, len)
    BY <1>1 DEF Places
<1>4. Places(ch, groups, len) = {<<g0, k0>>}
    BY <1>2, <1>3
<1>. QED
    BY <1>4, FS_Singleton

\* GroupsShareThePlan: downloadChunkGroups deals each chunk to one group, and evenly;
\* there are as many groups as there may be connections.
LEMMA PlanShared == GroupsShareThePlan
<1>. SUFFICES ASSUME NEW size \in 0..MaxSize, NEW parallel \in 0..MaxChunks,
                     PlanBlobChunks(<<[hash |-> "a", size |-> size]>>, 1) # Invalid
              PROVE  SharedOut(PlanBlobChunks(<<[hash |-> "a", size |-> size]>>, 1),
                        downloadChunkGroups(
                            PlanBlobChunks(<<[hash |-> "a", size |-> size]>>, 1), parallel),
                        parallel)
    BY Zenon DEF GroupsShareThePlan
<1>. DEFINE blob == [hash |-> "a", size |-> size]
            plan == PlanBlobChunks(<<blob>>, 1)
            groups == downloadChunkGroups(plan, parallel)
            R == [hash : {"a"}, size : Nat, offset : Nat]
            n == Count(size, 1)
<1>1. size \in Nat /\ parallel \in Nat /\ 1 \in 1..MaxChunkSize
    BY ChunkPlanAssumption, MCBlobTransferAssumption
<1>2. plan = Numbered(blob, 1)
    BY <1>1, PlanOfOne
<1>3. blob \in [hash : {"a"}, size : Nat] /\ blob.size = size
    BY <1>1
<1>4. /\ plan \in Seq(R) /\ Len(plan) = n /\ n \in Nat /\ 1 <= n
      /\ \A i \in 1..n : plan[i] = Chunk(blob, 1, i)
    <2>1. NumberedOnce(Numbered(blob, 1), {"a"}, blob, 1)
        <3>1. 1 \in Nat /\ 1 > 0
            OBVIOUS
        <3>. HIDE DEF blob
        <3>. QED
            BY <1>3, <3>1, NumberedOnceFacts
    <2>2. NumberedOnce(plan, {"a"}, blob, 1)
        BY <1>2, <2>1
    <2>. HIDE DEF plan, blob
    <2>. QED
        BY <1>3, <2>2 DEF NumberedOnce
<1>. HIDE DEF plan, blob
<1>5. \A i, j \in 1..Len(plan) : plan[i] = plan[j] => i = j
    <2>1. \A i : Chunk(blob, 1, i).offset = (i - 1) * 1
        BY DEF Chunk
    <2>2. \A i \in 1..n : plan[i].offset = (i - 1) * 1
        BY <1>4, <2>1
    <2>3. ASSUME NEW i \in 1..n, NEW j \in 1..n, plan[i] = plan[j]
          PROVE  i = j
        <3>1. (i - 1) * 1 = (j - 1) * 1
            BY <2>2, <2>3
        <3>. HIDE DEF n
        <3>. QED
            BY <1>4, <3>1
    <2>. QED
        BY <1>4, <2>3
<1>6. /\ Len(groups) = Min({Max({parallel, 1}), Len(plan)})
      /\ \A j \in 1..Len(plan) : \E g0 \in DOMAIN groups, k0 \in 1..Len(plan) :
             \A g \in DOMAIN groups, k \in 1..Len(plan) :
                k \in DOMAIN groups[g] /\ groups[g][k] = plan[j] <=> g = g0 /\ k = k0
      /\ \A g, h \in DOMAIN groups : Len(groups[g]) <= Len(groups[h]) + 1
    <2>1. Len(plan) >= 1
        BY <1>4
    <2>2. plan \in Seq(R) /\ parallel \in Nat
        BY <1>1, <1>4
    <2>. HIDE DEF R, n
    <2>. QED
        BY ONLY <1>5, <2>1, <2>2, GroupsFacts
<1>7. Parallelism(parallel, 1, Len(plan)) \in 1..Min({MaxParallel, Len(plan)})
    <2>. HIDE DEF n
    <2>1. Len(plan) \in Nat /\ Len(plan) >= 1
        BY <1>4
    <2>. QED
        BY <1>1, <2>1, ParallelismFacts
<1>8. \A ch \in ToSet(plan) : Cardinality(Places(ch, groups, Len(plan))) = 1
    <2>. HIDE DEF groups, n
    <2>. TAKE ch \in ToSet(plan)
    <2>2. PICK j \in 1..Len(plan) : ch = plan[j]
        BY <1>4 DEF ToSet
    <2>3. \E g0 \in DOMAIN groups, k0 \in 1..Len(plan) :
             \A g \in DOMAIN groups, k \in 1..Len(plan) :
                k \in DOMAIN groups[g] /\ groups[g][k] = ch <=> g = g0 /\ k = k0
        <3>1. \E g0 \in DOMAIN groups, k0 \in 1..Len(plan) :
                \A g \in DOMAIN groups, k \in 1..Len(plan) :
                   k \in DOMAIN groups[g] /\ groups[g][k] = plan[j] <=> g = g0 /\ k = k0
            BY <1>6
        <3>. QED
            BY <2>2, <3>1, Zenon
    <2>4. Len(plan) \in Nat
        BY <1>4
    <2>. QED
        BY <2>3, <2>4, OnePlace
<1>9. SharedOut(plan, groups, parallel)
    <2>. HIDE DEF groups, n
    <2>. QED
        BY <1>6, <1>7, <1>8, Zenon DEF SharedOut
<1>. QED
    BY <1>9, Zenon DEF groups, plan, blob

\* PlanAgreed: for any sizes, chunk sizes and limits, what the sender plans is what the
\* receiver accepts and what the connections share out.
THEOREM PlanAgreedAlways == Spec => []PlanAgreed
<1>1. PlanAgreed
    BY PlanCovers, PlanAccepted, PlanShared DEF PlanAgreed
<1>. QED
    BY <1>1, PTL

-----------------------------------------------------------------------------
(* BlobGC: the collection of the same store, with its own state.  This holds *)
(* for any contexts and hashes, without an assumption.                       *)

(***************************************************************************)
(* TypeOK is inductive.                                                    *)
(***************************************************************************)

\* TypeOK holds initially.
LEMMA GcTypeInit == GcInit => GcTypeOK
BY DEF GcInit, GcTypeOK, Manifests, Phases

\* Every step keeps TypeOK.
LEMMA GcTypeStep == GcTypeOK /\ [GcNext]_storeVars => GcTypeOK'
<1> SUFFICES ASSUME GcTypeOK, [GcNext]_storeVars PROVE GcTypeOK'
    OBVIOUS
<1> USE DEF GcTypeOK, Manifests, Phases, Syncing, PostRun, runVars, gcVars
<1>1. ASSUME NEW c \in Contexts, NEW m \in Manifests, NEW l \in BOOLEAN, Start(c, m, l)
      PROVE  GcTypeOK'
    BY <1>1 DEF Start
<1>2. ASSUME NEW c \in Contexts, Diff(c) PROVE GcTypeOK'
    <2>1. PICK s \in Diffs(c) :
            /\ changed' = [changed EXCEPT ![c] = s]
            /\ runTodo' = [runTodo EXCEPT ![c] = s \ blobs]
        BY <1>2 DEF Diff
    <2>2. s \in Manifests /\ s \ blobs \in Manifests
        BY <2>1 DEF Diffs
    <2>. QED
        BY <1>2, <2>1, <2>2 DEF Diff
<1>3. ASSUME NEW c \in Contexts, NEW h \in Hashes, ReceiveBlob(c, h) \/ Store(c, h)
      PROVE  GcTypeOK'
    BY <1>3 DEF ReceiveBlob, Store
<1>4. ASSUME NEW c \in Contexts, EndTransfer(c) \/ Apply(c) \/ Track(c) \/ EndStore(c)
      PROVE  GcTypeOK'
    BY <1>4 DEF EndTransfer, Apply, Track, EndStore
<1>5. ASSUME NEW c \in Contexts, Command(c) PROVE GcTypeOK'
    BY <1>5 DEF Command
<1>6. ASSUME NEW c \in Contexts, Save(c) \/ Fail(c) PROVE GcTypeOK'
    <2>1. CASE Save(c)
        BY <2>1 DEF Save, EndRun
    <2>2. CASE Fail(c)
        BY <2>2 DEF Fail, EndRun
    <2>. QED
        BY <1>6, <2>1, <2>2
<1>7. ASSUME NEW c \in Contexts, RemoveContext(c) PROVE GcTypeOK'
    BY <1>7 DEF RemoveContext
<1>8. CASE GcRequest \/ GcLock \/ GcStartSweep
    BY <1>8 DEF GcRequest, GcLock, GcStartSweep
<1>9. ASSUME NEW c \in Contexts, GcRead(c) PROVE GcTypeOK'
    BY <1>9 DEF GcRead
<1>10. ASSUME NEW h \in Hashes, GcRemove(h) PROVE GcTypeOK'
    BY <1>10 DEF GcRemove
<1>11. CASE GcEnd \/ GcFails
    BY <1>11 DEF GcEnd, GcFails, Unlock
<1>12. CASE UNCHANGED storeVars
    BY <1>12 DEF storeVars
<1> HIDE DEF GcTypeOK, Manifests, runVars, gcVars
<1>. QED
    BY <1>1, <1>2, <1>3, <1>4, <1>5, <1>6, <1>7, <1>8, <1>9, <1>10, <1>11, <1>12
    DEF GcNext, Run, Collect

(***************************************************************************)
(* The lock excludes synchronizing runs from a collection, and so what a   *)
(* run has found or received stays until it is applied.                    *)
(***************************************************************************)

\* The read and write locks of blobGCMu exclude each other.
GcLockInv == GcLocked => Readers = {}

\* What a run does not wait for is in the store.
GcFoundInv ==
    \A c \in Contexts : phase[c] \in {"transfer", "apply"} =>
        /\ changed[c] \ runTodo[c] \subseteq blobs
        /\ phase[c] = "apply" => runTodo[c] = {}

\* The references of a manifest that was read are known, unless it was saved since.
GcRefsInv ==
    GcLocked =>
        /\ gc = "sweep" => gcTodo = {}
        /\ \A c \in Contexts : c \in gcTodo \/ c \in savedSince \/ tracked[c] \subseteq gcRefs

GcInv == GcTypeOK /\ GcLockInv /\ GcFoundInv /\ GcRefsInv

\* GcInv holds initially.
LEMMA GcInvInit == GcInit => GcInv
BY GcTypeInit DEF GcInit, GcInv, GcLockInv, GcFoundInv, GcRefsInv, GcLocked

\* Every step keeps GcInv.
LEMMA GcInvStep == GcInv /\ [GcNext]_storeVars => GcInv'
<1> SUFFICES ASSUME GcInv, [GcNext]_storeVars PROVE GcInv'
    OBVIOUS
<1>0. GcTypeOK'
    BY GcTypeStep DEF GcInv
<1> DEFINE Rest == GcLockInv /\ GcFoundInv /\ GcRefsInv
<1> USE DEF GcInv, GcTypeOK, GcLockInv, GcFoundInv, GcRefsInv, GcLocked, Readers, Syncing,
            runVars, gcVars
<1>1. ASSUME NEW c \in Contexts, NEW m \in Manifests, NEW l \in BOOLEAN, Start(c, m, l)
      PROVE  Rest'
    BY <1>1 DEF Start
<1>2. ASSUME NEW c \in Contexts, Diff(c) PROVE Rest'
    BY <1>2 DEF Diff
<1>3. ASSUME NEW c \in Contexts, NEW h \in Hashes, ReceiveBlob(c, h) \/ Store(c, h) PROVE Rest'
    BY <1>3 DEF ReceiveBlob, Store
<1>4. ASSUME NEW c \in Contexts, EndTransfer(c) \/ Apply(c) \/ EndStore(c) PROVE Rest'
    BY <1>4 DEF EndTransfer, Apply, EndStore
<1>5. ASSUME NEW c \in Contexts, Track(c) PROVE Rest'
    BY <1>5 DEF Track
<1>6. ASSUME NEW c \in Contexts, Command(c) PROVE Rest'
    BY <1>6 DEF Command
<1>7. ASSUME NEW c \in Contexts, Save(c) PROVE Rest'
    BY <1>7 DEF Save, EndRun
<1>8. ASSUME NEW c \in Contexts, Fail(c) PROVE Rest'
    BY <1>8 DEF Fail, EndRun, PostRun
<1>9. ASSUME NEW c \in Contexts, RemoveContext(c) PROVE Rest'
    BY <1>9 DEF RemoveContext
<1>10. ASSUME GcRequest \/ GcLock PROVE Rest'
    BY <1>10 DEF GcRequest, GcLock
<1>11. ASSUME GcStartSweep PROVE Rest'
    BY <1>11 DEF GcStartSweep
<1>12. ASSUME NEW c \in Contexts, GcRead(c) PROVE Rest'
    BY <1>12 DEF GcRead
<1>13. ASSUME NEW h \in Hashes, GcRemove(h) PROVE Rest'
    BY <1>13 DEF GcRemove
<1>14. ASSUME GcEnd \/ GcFails PROVE Rest'
    BY <1>14 DEF GcEnd, GcFails, Unlock
<1>15. ASSUME UNCHANGED storeVars PROVE Rest'
    BY <1>15 DEF storeVars
<1>. QED
    BY <1>0, <1>1, <1>2, <1>3, <1>4, <1>5, <1>6, <1>7, <1>8, <1>9, <1>10, <1>11, <1>12,
       <1>13, <1>14, <1>15 DEF GcNext, Run, Collect

\* GcInv is an invariant.
LEMMA GcInvHolds == GcSpec => []GcInv
BY GcInvInit, GcInvStep, PTL DEF GcSpec

\* ApplyFindsBlobs: the blobs that ApplyChanges needs are in the store, for any
\* number of contexts and whenever caches are pruned.
THEOREM HydrationSafe == GcSpec => []ApplyFindsBlobs
<1>1. GcInv => ApplyFindsBlobs
    BY DEF GcInv, GcFoundInv, ApplyFindsBlobs
<1>. QED
    BY <1>1, GcInvHolds, PTL

\* GcKeepsReferences: pruneUnreferencedBlobsInRoots removes a referenced blob only
\* if its manifest was saved after a command during the collection.
THEOREM CollectionKeepsReferences == GcSpec => GcKeepsReferences
<1> DEFINE Kept == \A h \in blobs \ blobs' : \A c \in Contexts :
                     h \in tracked[c] => c \in savedSince
<1>1. GcInv /\ [GcNext]_storeVars => [Kept]_storeVars
    <2> SUFFICES ASSUME GcInv, GcNext, NEW h \in blobs \ blobs' PROVE GcRemove(h)
        BY DEF GcInv, GcRefsInv, GcLocked, GcRemove
    <2> USE DEF runVars, gcVars
    <2>1. \/ \E k \in Hashes : GcRemove(k)
          \/ blobs \subseteq blobs'
        BY DEF GcNext, Run, Collect, Start, Diff, ReceiveBlob, EndTransfer,
               Apply, Track, Command,
               Store, EndStore, Save, Fail, RemoveContext, GcRequest,
               GcLock, GcRead,
               GcStartSweep, GcEnd, GcFails, Unlock
    <2>. QED
        BY <2>1 DEF GcRemove
<1>. QED
    BY <1>1, GcInvHolds, PTL DEF GcSpec, GcKeepsReferences
=============================================================================
