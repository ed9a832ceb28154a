-------------------------- MODULE LogStreamProofs ---------------------------
(***************************************************************************)
(* Proofs about LogStream, for any limits and any lengths of lines.        *)
(***************************************************************************)
EXTENDS LogStream, SequenceTheorems, WellFoundedInduction, TLAPS

(***************************************************************************)
(* What Sum computes.  Its recursive function has to be shown to exist     *)
(* first: a set of numbers that is not empty has a least one, and the      *)
(* least length without such a function would have one.                    *)
(***************************************************************************)

\* A set of numbers that is not empty has a least one.
LEMMA LeastNat ==
    ASSUME NEW S \in SUBSET Nat, S # {}
    PROVE  \E n \in S : \A m \in S : n <= m
<1>1. PICK n \in S : \A m \in S : ~(<<m, n>> \in OpToRel(<, Nat))
    BY WFMin, NatLessThanWellFounded
<1>2. ASSUME NEW m \in S
      PROVE  n <= m
    <2>1. <<m, n>> \notin OpToRel(<, Nat)
        BY <1>1
    <2>. QED
        BY <2>1 DEF OpToRel
<1>. QED
    BY <1>2

\* The running totals of the first n items.
Totals(f, items, n) ==
    /\ f \in [0..n -> Int] /\ f[0] = 0
    /\ \A k \in 1..n : f[k] = f[k - 1] + items[k].len

\* The length of an item is a number.
LEMMA ItemLen == ASSUME NEW items \in Seq(Items), NEW k \in 1..Len(items)
                 PROVE  items[k] \in Items /\ items[k].len \in 1..MaxBytes /\ items[k].len \in Nat
<1>1. items[k] \in Items
    OBVIOUS
<1>2. items[k].len \in 1..MaxBytes
    BY <1>1 DEF Items
<1>. QED
    BY <1>1, <1>2, LogStreamAssumption

\* There are running totals of any sequence of items.
LEMMA TotalsExist ==
    ASSUME NEW items \in Seq(Items)
    PROVE  \E f : Totals(f, items, Len(items))
<1>. DEFINE T == {n \in Nat : n <= Len(items) /\ ~\E f : Totals(f, items, n)}
<1> SUFFICES ASSUME T # {} PROVE FALSE
    <2>1. Len(items) \in Nat
        OBVIOUS
    <2>2. Len(items) \notin T
        OBVIOUS
    <2>. QED
        BY <2>1, <2>2
<1>1. T \in SUBSET Nat
    OBVIOUS
<1>2. PICK m \in T : \A n \in T : m <= n
    <2>. HIDE DEF T
    <2>. QED
        BY <1>1, LeastNat
<1>3. m \in Nat /\ m <= Len(items) /\ ~\E f : Totals(f, items, m)
    BY <1>2
<1>4. CASE m = 0
    <2>. DEFINE g == [k \in 0..m |-> 0]
    <2>1. Totals(g, items, m)
        BY <1>4 DEF Totals
    <2>. QED
        BY <1>3, <2>1
<1>5. CASE m # 0
    <2>1. m - 1 \in Nat /\ m - 1 <= Len(items) /\ m - 1 \notin T
        BY <1>2, <1>3, <1>5
    <2>2. PICK f : Totals(f, items, m - 1)
        BY <2>1
    <2>. DEFINE g == [k \in 0..m |-> IF k = m THEN f[m - 1] + items[m].len ELSE f[k]]
    <2>3. items[m].len \in Int
        BY <1>3, <1>5, ItemLen
    <2>4. g \in [0..m -> Int]
        BY <1>3, <1>5, <2>2, <2>3 DEF Totals
    <2>5. g[0] = 0
        BY <1>3, <1>5, <2>2 DEF Totals
    <2>6. ASSUME NEW k \in 1..m
          PROVE  g[k] = g[k - 1] + items[k].len
        <3>1. CASE k = m
            BY <3>1, <1>3
        <3>2. CASE k # m
            <4>1. k \in 1..(m - 1) /\ k \in 0..m /\ k - 1 \in 0..m /\ k - 1 # m
                BY <3>2, <1>3
            <4>2. f[k] = f[k - 1] + items[k].len
                BY <2>2, <4>1 DEF Totals
            <4>. QED
                BY <4>1, <4>2, <3>2
        <3>. QED
            BY <3>1, <3>2
    <2>7. Totals(g, items, m)
        BY <2>4, <2>5, <2>6 DEF Totals
    <2>. QED
        BY <1>3, <2>7
<1>. QED
    BY <1>4, <1>5

\* Sum is the last running total.
LEMMA SumIsTotal ==
    ASSUME NEW items \in Seq(Items), NEW f, Totals(f, items, Len(items))
    PROVE  Sum(items) = f[Len(items)] /\ Sum(items) \in Int
<1>. DEFINE R(t) == t = [k \in 0..Len(items) |->
                           IF k = 0 THEN 0 ELSE t[k - 1] + items[k].len]
            total == CHOOSE t : R(t)
<1>1. R(f)
    <2>1. f = [k \in 0..Len(items) |-> f[k]]
        BY DEF Totals
    <2>2. ASSUME NEW k \in 0..Len(items)
          PROVE  f[k] = IF k = 0 THEN 0 ELSE f[k - 1] + items[k].len
        BY DEF Totals
    <2>. QED
        BY <2>1, <2>2
<1>2. R(total)
    <2>. HIDE DEF R
    <2>. QED
        BY <1>1
<1>. DEFINE g == total
<1>3. g = [k \in 0..Len(items) |-> IF k = 0 THEN 0 ELSE g[k - 1] + items[k].len]
    BY <1>2
<1>. HIDE DEF g
<1>4. \A k \in 0..Len(items) : g[k] = IF k = 0 THEN 0 ELSE g[k - 1] + items[k].len
    BY <1>3
<1>. DEFINE T == {n \in 0..Len(items) : f[n] # g[n]}
<1>5. T = {}
    <2> SUFFICES ASSUME T # {} PROVE FALSE
        OBVIOUS
    <2>1. T \in SUBSET Nat
        OBVIOUS
    <2>2. PICK m \in T : \A n \in T : m <= n
        <3>. HIDE DEF T
        <3>. QED
            BY <2>1, LeastNat
    <2>3. m # 0
        BY <2>2, <1>4 DEF Totals
    <2>4. m \in 1..Len(items) /\ m - 1 \in 0..Len(items) /\ m - 1 \notin T
        BY <2>2, <2>3
    <2>5. f[m - 1] = g[m - 1]
        BY <2>4
    <2>. QED
        BY <2>2, <2>4, <2>5, <1>4 DEF Totals
<1>6. g[Len(items)] = f[Len(items)]
    BY <1>5
<1>7. Sum(items) = g[Len(items)]
    BY DEF Sum, g
<1>. QED
    BY <1>6, <1>7 DEF Totals


\* The sum of some items is a number.
LEMMA SumInt == ASSUME NEW items \in Seq(Items) PROVE Sum(items) \in Int
BY TotalsExist, SumIsTotal

\* The sum of no items.
LEMMA SumEmpty == Sum(<<>>) = 0
<1>1. <<>> \in Seq(Items) /\ Len(<<>>) = 0
    OBVIOUS
<1>2. PICK f : Totals(f, <<>>, Len(<<>>))
    BY <1>1, TotalsExist
<1>3. Sum(<<>>) = f[Len(<<>>)]
    BY <1>1, <1>2, SumIsTotal
<1>. QED
    BY <1>1, <1>2, <1>3 DEF Totals

\* The sum with one more item.
LEMMA SumAppend ==
    ASSUME NEW items \in Seq(Items), NEW x \in Items
    PROVE  Sum(Append(items, x)) = Sum(items) + x.len
<1>. DEFINE s == Append(items, x)  n == Len(items)
<1>1. /\ s \in Seq(Items) /\ Len(s) = n + 1 /\ n \in Nat
      /\ \A k \in 1..n : s[k] = items[k]
      /\ s[n + 1] = x
    OBVIOUS
<1>2. PICK f : Totals(f, s, Len(s))
    BY <1>1, TotalsExist
<1>. DEFINE g == [k \in 0..n |-> f[k]]
<1>3. Totals(g, items, n)
    <2>1. g \in [0..n -> Int] /\ g[0] = 0
        BY <1>1, <1>2 DEF Totals
    <2>2. ASSUME NEW k \in 1..n
          PROVE  g[k] = g[k - 1] + items[k].len
        <3>1. k \in 1..Len(s) /\ k \in 0..n /\ k - 1 \in 0..n
            BY <1>1
        <3>2. f[k] = f[k - 1] + s[k].len
            BY <1>2, <3>1 DEF Totals
        <3>. QED
            BY <1>1, <3>1, <3>2
    <2>. QED
        BY <2>1, <2>2 DEF Totals
<1>4. Sum(items) = g[n]
    BY <1>3, SumIsTotal
<1>5. Sum(s) = f[n + 1]
    BY <1>1, <1>2, SumIsTotal
<1>6. f[n + 1] = f[n] + x.len
    <2>1. n + 1 \in 1..Len(s) /\ (n + 1) - 1 = n
        BY <1>1
    <2>. QED
        BY <1>1, <1>2, <2>1 DEF Totals
<1>7. g[n] = f[n]
    BY <1>1
<1>. QED
    BY <1>4, <1>5, <1>6, <1>7

\* The sum without the k oldest items.
LEMMA SumWithout ==
    ASSUME NEW items \in Seq(Items), NEW k \in 0..Len(items)
    PROVE  Sum(SubSeq(items, k + 1, Len(items))) = Sum(items) - Sum(SubSeq(items, 1, k))
<1>. DEFINE n == Len(items)
            old == SubSeq(items, 1, k)
            new == SubSeq(items, k + 1, n)
<1>1. n \in Nat /\ k \in Nat /\ k <= n
    OBVIOUS
<1>2. /\ old \in Seq(Items) /\ Len(old) = k
      /\ \A i \in 1..k : old[i] = items[i]
    BY <1>1
<1>3. /\ new \in Seq(Items) /\ Len(new) = n - k
      /\ \A i \in 1..(n - k) : new[i] = items[k + i]
    <2>1. new \in Seq(Items) /\ Len(new) = n - k
        BY <1>1
    <2>2. ASSUME NEW i \in 1..(n - k)
          PROVE  new[i] = items[k + i]
        BY <1>1
    <2>. QED
        BY <2>1, <2>2
<1>4. PICK f : Totals(f, items, n)
    BY TotalsExist
<1>. DEFINE g == [i \in 0..k |-> f[i]]
            h == [i \in 0..(n - k) |-> f[k + i] - f[k]]
<1>5. Totals(g, old, k)
    <2>1. g \in [0..k -> Int] /\ g[0] = 0
        BY <1>1, <1>4 DEF Totals
    <2>2. ASSUME NEW i \in 1..k
          PROVE  g[i] = g[i - 1] + old[i].len
        <3>1. i \in 1..n /\ i \in 0..k /\ i - 1 \in 0..k
            BY <1>1
        <3>2. f[i] = f[i - 1] + items[i].len
            BY <1>4, <3>1 DEF Totals
        <3>. QED
            BY <1>2, <3>1, <3>2
    <2>. QED
        BY <2>1, <2>2 DEF Totals
<1>6. Totals(h, new, n - k)
    <2>1. \A i \in 0..(n - k) : k + i \in 0..n
        BY <1>1
    <2>0. ASSUME NEW i \in 0..(n - k)
          PROVE  f[k + i] - f[k] \in Int
        <3>1. k + i \in 0..n /\ k \in 0..n
            BY <1>1
        <3>2. f \in [0..n -> Int]
            BY <1>4 DEF Totals
        <3>3. f[k + i] \in Int /\ f[k] \in Int
            BY <3>1, <3>2
        <3>. QED
            BY <3>3
    <2>2. h \in [0..(n - k) -> Int]
        BY <2>0
    <2>3. h[0] = 0
        BY <1>1, <1>4 DEF Totals
    <2>4. ASSUME NEW i \in 1..(n - k)
          PROVE  h[i] = h[i - 1] + new[i].len
        <3>1. /\ k + i \in 1..n /\ i \in 0..(n - k) /\ i - 1 \in 0..(n - k)
              /\ (k + i) - 1 = k + (i - 1) /\ k + (i - 1) \in 0..n /\ k \in 0..n
              /\ k + i \in 0..n
            BY <1>1
        <3>2. f[k + i] = f[k + (i - 1)] + items[k + i].len
            BY <1>4, <3>1 DEF Totals
        <3>3. items[k + i].len \in Int /\ f[k + i] \in Int /\ f[k + (i - 1)] \in Int /\ f[k] \in Int
            <4>1. f \in [0..n -> Int]
                BY <1>4 DEF Totals
            <4>2. items[k + i].len \in Nat
                BY <3>1, ItemLen
            <4>. QED
                BY <3>1, <4>1, <4>2
        <3>4. h[i] = f[k + i] - f[k] /\ h[i - 1] = f[k + (i - 1)] - f[k]
            BY <3>1
        <3>5. new[i] = items[k + i]
            BY <1>3
        <3>. HIDE DEF h, new, n
        <3>. QED
            BY SMTT(30), <3>2, <3>3, <3>4, <3>5
    <2>. QED
        BY <2>2, <2>3, <2>4 DEF Totals
<1>7. Sum(items) = f[n] /\ Sum(old) = g[k] /\ Sum(new) = h[n - k]
    BY <1>2, <1>3, <1>4, <1>5, <1>6, SumIsTotal
<1>8. g[k] = f[k] /\ h[n - k] = f[n] - f[k]
    <2>1. k \in 0..k /\ n - k \in 0..(n - k) /\ k + (n - k) = n
        BY <1>1
    <2>. QED
        BY <2>1
<1>. QED
    BY <1>7, <1>8

\* The sum without the first item.
LEMMA SumTail ==
    ASSUME NEW items \in Seq(Items), items # <<>>
    PROVE  Sum(Tail(items)) = Sum(items) - Head(items).len
<1>. DEFINE none == <<>>
            first == Append(none, items[1])
            old == SubSeq(items, 1, 1)
<1>1. 1 \in 0..Len(items) /\ 1 \in 1..Len(items)
    OBVIOUS
<1>2. Sum(SubSeq(items, 2, Len(items))) = Sum(items) - Sum(old)
    BY <1>1, SumWithout
<1>3. Tail(items) = SubSeq(items, 2, Len(items))
    OBVIOUS
<1>4. items[1] \in Items /\ Head(items) = items[1]
    OBVIOUS
<1>5. old = first
    <2>1. old \in Seq(Items) /\ Len(old) = 1 /\ old[1] = items[1]
        BY <1>1
    <2>2. first \in Seq(Items) /\ Len(first) = 1 /\ first[1] = items[1]
        BY <1>4
    <2>. HIDE DEF old, first
    <2>. QED
        BY <2>1, <2>2, SeqEqual
<1>6. none \in Seq(Items) /\ Sum(none) = 0
    BY SumEmpty
<1>7. items[1].len \in Nat
    BY <1>1, ItemLen
<1>. HIDE DEF none
<1>8. Sum(first) = Sum(none) + items[1].len
    BY <1>4, <1>6, SumAppend
<1>. HIDE DEF first, old
<1>9. Sum(old) = items[1].len
    BY <1>5, <1>6, <1>7, <1>8
<1>. QED
    BY <1>2, <1>3, <1>4, <1>9

(***************************************************************************)
(* The queue: Enqueue keeps both limits, and the count of bytes is right.  *)
(***************************************************************************)

\* A queue of items with the number of their bytes.
Counted(q) ==
    /\ q = [items |-> q.items, bytes |-> q.bytes]
    /\ q.items \in Seq(Items) /\ q.bytes = Sum(q.items)

\* Dropping the k oldest items leaves the others, counted.
LEMMA WithoutFacts ==
    ASSUME NEW q, Counted(q), NEW k \in 0..Len(q.items)
    PROVE  /\ Counted(Without(q, k))
           /\ Len(Without(q, k).items) = Len(q.items) - k
           /\ \A i \in 1..(Len(q.items) - k) : Without(q, k).items[i] = q.items[k + i]
<1>. DEFINE s == q.items  n == Len(s)
<1>1. s \in Seq(Items) /\ n \in Nat /\ k \in Nat /\ k <= n
    BY DEF Counted
<1>2. Without(q, k) = [items |-> SubSeq(s, k + 1, n), bytes |-> q.bytes - Sum(SubSeq(s, 1, k))]
    BY DEF Without
<1>3. Without(q, k).items = SubSeq(s, k + 1, n)
    BY <1>2
<1>4. SubSeq(s, k + 1, n) \in Seq(Items) /\ Len(SubSeq(s, k + 1, n)) = n - k
    BY <1>1
<1>5. ASSUME NEW i \in 1..(n - k)
      PROVE  SubSeq(s, k + 1, n)[i] = s[k + i]
    BY <1>1
<1>6. Sum(SubSeq(s, k + 1, n)) = q.bytes - Sum(SubSeq(s, 1, k))
    BY <1>1, SumWithout DEF Counted
<1>7. Counted(Without(q, k))
    BY <1>2, <1>3, <1>4, <1>6 DEF Counted
<1>. QED
    BY <1>3, <1>4, <1>5, <1>7

\* The loop ends with a queue that has room, with its oldest items dropped.
LEMMA ShedFacts ==
    ASSUME NEW q, Counted(q), NEW n \in 0..MaxBytes, NEW limit \in Nat \ {0}
    PROVE  /\ Fits(Shed(q, n, limit), n, limit)
           /\ \E k \in 0..Len(q.items) : Shed(q, n, limit) = Without(q, k)
<1>. DEFINE S == {k \in 0..Len(q.items) :
                      k = Len(q.items) \/ Fits(Without(q, k), n, limit)}
<1>1. Len(q.items) \in Nat
    BY DEF Counted
<1>2. S \in SUBSET Nat /\ Len(q.items) \in S
    BY <1>1
<1>3. \E m \in S : \A k \in S : m <= k
    <2>. HIDE DEF S
    <2>. QED
        BY <1>2, LeastNat
<1>4. Min(S) \in S
    <2>. HIDE DEF S
    <2>. QED
        BY <1>3 DEF Min
<1>5. Shed(q, n, limit) = Without(q, Min(S))
    BY DEF Shed
<1>6. CASE Min(S) = Len(q.items)
    <2>. DEFINE w == Without(q, Len(q.items))
    <2>1. Counted(w) /\ Len(w.items) = 0
        <3>1. Len(q.items) \in 0..Len(q.items) /\ Len(q.items) - Len(q.items) = 0
            BY <1>1
        <3>. QED
            BY <3>1, WithoutFacts
    <2>2. w.items = <<>>
        <3>. HIDE DEF w
        <3>. QED
            BY <2>1 DEF Counted
    <2>3. w.bytes = 0
        BY <2>1, <2>2, SumEmpty DEF Counted
    <2>4. Fits(w, n, limit)
        <3>. HIDE DEF w
        <3>. QED
            BY <2>1, <2>3, LogStreamAssumption DEF Fits
    <2>. QED
        BY <1>4, <1>5, <1>6, <2>4
<1>7. CASE Min(S) # Len(q.items)
    BY <1>4, <1>5, <1>7
<1>. QED
    BY <1>6, <1>7

\* One more item, counted.
LEMMA PushFacts ==
    ASSUME NEW q, Counted(q), NEW x \in Items
    PROVE  /\ Counted(Push(q, x))
           /\ Push(q, x).bytes = q.bytes + x.len
           /\ Len(Push(q, x).items) = Len(q.items) + 1
           /\ \A i \in 1..Len(q.items) : Push(q, x).items[i] = q.items[i]
           /\ Push(q, x).items[Len(q.items) + 1] = x
<1>1. Push(q, x) = [items |-> Append(q.items, x), bytes |-> q.bytes + x.len]
    BY DEF Push
<1>2. Push(q, x).items = Append(q.items, x) /\ Push(q, x).bytes = q.bytes + x.len
    BY <1>1
<1>3. q.items \in Seq(Items)
    BY DEF Counted
<1>4. Append(q.items, x) \in Seq(Items) /\ Sum(Append(q.items, x)) = q.bytes + x.len
    BY <1>3, SumAppend DEF Counted
<1>5. Counted(Push(q, x))
    BY <1>1, <1>2, <1>4 DEF Counted
<1>. QED
    BY <1>2, <1>3, <1>5

\* Within both limits.
Bounded(q) == q.bytes <= MaxBytes /\ Len(q.items) <= MaxItems

\* new is the queue old with the line id behind it.
Extended(old, new, id) ==
    /\ Len(new) = Len(old) + 1
    /\ \A i \in 1..Len(old) : new[i] = old[i]
    /\ new[Len(old) + 1].id = id

\* new is the queue old without its k oldest items, with a marker and the line id
\* behind it.
Replaced(old, new, k, id) ==
    /\ Len(new) = (Len(old) - k) + 2
    /\ \A i \in 1..(Len(old) - k) : new[i] = old[k + i]
    /\ new[(Len(old) - k) + 1].id = Marker
    /\ new[(Len(old) - k) + 2].id = id

\* Enqueue: a queue within its limits stays so, and it is extended, or its oldest
\* items make room for a marker and the line.
LEMMA EnqueuedFacts ==
    ASSUME NEW q, Counted(q), NEW id \in 0..MaxLines, NEW n \in Lengths
    PROVE  /\ Counted(Enqueued(q, id, n)) /\ Bounded(Enqueued(q, id, n))
           /\ \/ Extended(q.items, Enqueued(q, id, n).items, id)
              \/ \E k \in 0..Len(q.items) : Replaced(q.items, Enqueued(q, id, n).items, k, id)
<1>. DEFINE len == Cut(n, MaxBytes)
            rest == Shed(q, len, MaxItems)
            short == Cut(len, MaxBytes - MarkerLen)
            shorter == Shed(rest, MarkerLen + short, MaxItems - 1)
            marker == [id |-> Marker, len |-> MarkerLen]
            marked == Push(shorter, marker)
            line == [id |-> id, len |-> len]
            cut == [id |-> id, len |-> short]
<1>1. /\ MaxBytes \in Nat /\ MarkerLen \in Nat /\ MarkerLen >= 1 /\ MarkerLen < MaxBytes
      /\ MaxItems \in Nat /\ MaxItems >= 2 /\ n \in Nat /\ n >= 1 /\ MaxLines \in Nat
    BY LogStreamAssumption
<1>2. len \in 1..MaxBytes
    BY <1>1 DEF Cut
<1>3. short \in 1..(MaxBytes - MarkerLen)
    <2>. HIDE DEF len
    <2>. QED
        BY <1>1, <1>2 DEF Cut
<1>4. marker \in Items /\ line \in Items /\ cut \in Items
    <2>. HIDE DEF len, short
    <2>. QED
        BY <1>1, <1>2, <1>3 DEF Items, Marker
<1>5. PICK k \in 0..Len(q.items) : rest = Without(q, k)
    <2>. HIDE DEF len
    <2>1. len \in 0..MaxBytes /\ MaxItems \in Nat \ {0}
        BY <1>1, <1>2
    <2>. QED
        BY <2>1, ShedFacts
<1>6. Fits(rest, len, MaxItems)
    <2>. HIDE DEF len
    <2>1. len \in 0..MaxBytes /\ MaxItems \in Nat \ {0}
        BY <1>1, <1>2
    <2>. QED
        BY <2>1, ShedFacts
<1>7. /\ Counted(rest) /\ Len(rest.items) = Len(q.items) - k
      /\ \A i \in 1..(Len(q.items) - k) : rest.items[i] = q.items[k + i]
    BY <1>5, WithoutFacts
<1>. HIDE DEF rest
<1>8. MarkerLen + short \in 0..MaxBytes /\ MaxItems - 1 \in Nat \ {0}
    <2>. HIDE DEF short
    <2>. QED
        BY <1>1, <1>3
<1>9. Fits(shorter, MarkerLen + short, MaxItems - 1)
    <2>. HIDE DEF short
    <2>. QED
        BY <1>7, <1>8, ShedFacts
<1>10. PICK l \in 0..Len(rest.items) : shorter = Without(rest, l)
    <2>. HIDE DEF short
    <2>. QED
        BY <1>7, <1>8, ShedFacts
<1>11. /\ Counted(shorter) /\ Len(shorter.items) = Len(rest.items) - l
       /\ \A i \in 1..(Len(rest.items) - l) : shorter.items[i] = rest.items[l + i]
    <2>. HIDE DEF shorter
    <2>. QED
        BY ZenonT(40), <1>7, <1>10, WithoutFacts
<1>12. Len(q.items) \in Nat /\ Len(rest.items) \in Nat /\ Len(shorter.items) \in Nat
    BY <1>7, <1>11 DEF Counted
<1>13. rest.bytes \in Int /\ shorter.bytes \in Int
    BY <1>7, <1>11, SumInt DEF Counted
<1>. HIDE DEF len, short, shorter
<1>14. Enqueued(q, id, n) = IF Mark(q, rest, len) THEN Push(marked, cut) ELSE Push(rest, line)
    BY DEF Enqueued, len, short, shorter, rest
<1>15. CASE Mark(q, rest, len)
    <2>. DEFINE new == Push(marked, cut)
    <2>1. /\ Counted(marked) /\ marked.bytes = shorter.bytes + MarkerLen
          /\ Len(marked.items) = Len(shorter.items) + 1
          /\ \A i \in 1..Len(shorter.items) : marked.items[i] = shorter.items[i]
          /\ marked.items[Len(shorter.items) + 1] = marker
        BY ZenonT(40), <1>4, <1>11, PushFacts
    <2>. HIDE DEF marked
    <2>2. /\ Counted(new) /\ new.bytes = marked.bytes + short
          /\ Len(new.items) = Len(marked.items) + 1
          /\ \A i \in 1..Len(marked.items) : new.items[i] = marked.items[i]
          /\ new.items[Len(marked.items) + 1] = cut
        BY ZenonT(40), <1>4, <2>1, PushFacts
    <2>. HIDE DEF new
    <2>3. Bounded(new)
        <3>1. /\ shorter.bytes + (MarkerLen + short) <= MaxBytes
              /\ Len(shorter.items) < MaxItems - 1
            BY <1>9 DEF Fits
        <3>2. short \in Nat
            BY <1>1, <1>3
        <3>3. new.bytes = (shorter.bytes + MarkerLen) + short
            BY <2>1, <2>2
        <3>4. Len(new.items) = (Len(shorter.items) + 1) + 1
            BY <2>1, <2>2
        <3>5. new.bytes <= MaxBytes
            BY <1>1, <1>13, <3>1, <3>2, <3>3
        <3>6. Len(new.items) <= MaxItems
            BY <1>1, <1>12, <3>1, <3>4
        <3>. QED
            BY <3>5, <3>6 DEF Bounded
    <2>. DEFINE s == q.items  j == k + l
    <2>4. j \in 0..Len(s) /\ Len(shorter.items) = Len(s) - j
        BY <1>7, <1>11, <1>12
    <2>5. ASSUME NEW i \in 1..(Len(s) - j)
          PROVE  new.items[i] = s[j + i]
        <3>1. /\ i \in 1..Len(shorter.items) /\ i \in 1..Len(marked.items)
              /\ i \in 1..(Len(rest.items) - l) /\ l + i \in 1..(Len(q.items) - k)
              /\ k + (l + i) = j + i
            <4>1. /\ Len(rest.items) = Len(s) - k /\ Len(shorter.items) = Len(s) - j
                  /\ Len(shorter.items) = Len(rest.items) - l
                  /\ Len(marked.items) = Len(shorter.items) + 1
                BY <1>7, <1>11, <2>1, <2>4
            <4>2. /\ Len(s) \in Nat /\ k \in Nat /\ l \in Nat /\ i \in 1..(Len(s) - j)
                  /\ Len(shorter.items) \in Nat
                BY <1>12, <2>5
            <4>. QED
                BY ONLY <4>1, <4>2
        <3>2. new.items[i] = shorter.items[i]
            BY <2>1, <2>2, <3>1
        <3>3. shorter.items[i] = rest.items[l + i]
            BY <1>11, <3>1
        <3>4. rest.items[l + i] = q.items[k + (l + i)]
            BY <1>7, <3>1
        <3>. QED
            BY <3>1, <3>2, <3>3, <3>4
    <2>6. Replaced(s, new.items, j, id)
        <3>1. Len(new.items) = (Len(s) - j) + 2
            BY <1>12, <2>1, <2>2, <2>4
        <3>2. new.items[(Len(s) - j) + 1] = marker
            <4>1. /\ Len(shorter.items) + 1 \in 1..Len(marked.items)
                  /\ Len(shorter.items) + 1 = (Len(s) - j) + 1
                BY <1>12, <2>1, <2>4
            <4>2. new.items[Len(shorter.items) + 1] = marked.items[Len(shorter.items) + 1]
                BY <2>2, <4>1
            <4>. QED
                BY <4>1, <4>2, <2>1
        <3>3. new.items[(Len(s) - j) + 2] = cut
            <4>1. Len(marked.items) + 1 = (Len(s) - j) + 2
                BY <1>12, <2>1, <2>4
            <4>. QED
                BY <4>1, <2>2
        <3>4. marker.id = Marker /\ cut.id = id
            OBVIOUS
        <3>. QED
            BY <2>5, <3>1, <3>2, <3>3, <3>4 DEF Replaced
    <2>. QED
        BY <1>14, <1>15, <2>2, <2>3, <2>4, <2>6 DEF new
<1>16. CASE ~Mark(q, rest, len)
    <2>. DEFINE new == Push(rest, line)
    <2>1. rest = q
        BY <1>16 DEF Mark
    <2>2. /\ Counted(new) /\ new.bytes = rest.bytes + len
          /\ Len(new.items) = Len(rest.items) + 1
          /\ \A i \in 1..Len(rest.items) : new.items[i] = rest.items[i]
          /\ new.items[Len(rest.items) + 1] = line
        BY ZenonT(40), <1>4, <1>7, PushFacts
    <2>3. Bounded(new)
        <3>. HIDE DEF new
        <3>. QED
            BY <1>1, <1>2, <1>6, <1>12, <1>13, <2>2 DEF Fits, Bounded
    <2>4. line.id = id
        OBVIOUS
    <2>5. Extended(q.items, new.items, id)
        BY <2>1, <2>2, <2>4 DEF Extended
    <2>. QED
        BY <1>14, <1>16, <2>2, <2>3, <2>5
<1>. QED
    BY <1>15, <1>16

(***************************************************************************)
(* WithinLimits is inductive together with the fact that nobody sleeps     *)
(* twice.                                                                  *)
(***************************************************************************)

\* Who may wait on cond, each at most once.
Waiting(s) ==
    /\ s \in Seq({"run", "flush"}) /\ Len(s) <= 2
    /\ \A i, j \in 1..Len(s) : s[i] = s[j] => i = j

LimitsInv == WithinLimits /\ Waiting(sleepers)

\* What Waiting says in the terms of TypeOK.
LEMMA WaitingType ==
    ASSUME NEW s, Waiting(s)
    PROVE  ToSet(s) \subseteq {"run", "flush"} /\ Len(s) <= 2
BY DEF Waiting, ToSet

\* One who is awake may fall asleep.
LEMMA WaitingAppend ==
    ASSUME NEW s, Waiting(s), NEW who \in {"run", "flush"}, who \notin ToSet(s)
    PROVE  Waiting(Append(s, who))
<1>. DEFINE t == Append(s, who)
<1>1. s \in Seq({"run", "flush"}) /\ Len(s) \in Nat /\ Len(s) <= 2
    BY DEF Waiting
<1>2. \A i \in 1..Len(s) : s[i] \in {"run", "flush"} /\ s[i] # who
    BY <1>1 DEF ToSet
<1>3. Len(s) # 2
    <2> SUFFICES ASSUME Len(s) = 2 PROVE FALSE
        OBVIOUS
    <2>1. 1 \in 1..Len(s) /\ 2 \in 1..Len(s)
        OBVIOUS
    <2>2. s[1] = s[2]
        BY <1>2, <2>1
    <2>. QED
        BY <2>1, <2>2 DEF Waiting
<1>4. /\ t \in Seq({"run", "flush"}) /\ Len(t) = Len(s) + 1
      /\ \A i \in 1..Len(s) : t[i] = s[i]
      /\ t[Len(s) + 1] = who
    BY <1>1
<1>5. ASSUME NEW i \in 1..Len(t), NEW j \in 1..Len(t), t[i] = t[j]
      PROVE  i = j
    <2>1. i \in 1..Len(s) \/ i = Len(s) + 1
        BY <1>1, <1>4
    <2>2. j \in 1..Len(s) \/ j = Len(s) + 1
        BY <1>1, <1>4
    <2>. HIDE DEF t
    <2>. QED
        BY <1>2, <1>4, <1>5, <2>1, <2>2 DEF Waiting
<1>. QED
    BY <1>1, <1>3, <1>4, <1>5 DEF Waiting

\* Enqueue wakes the first.
LEMMA WaitingTail ==
    ASSUME NEW s, Waiting(s), s # <<>>
    PROVE  Waiting(Tail(s))
<1>. DEFINE t == Tail(s)
<1>1. s \in Seq({"run", "flush"}) /\ Len(s) \in Nat /\ Len(s) <= 2
    BY DEF Waiting
<1>2. /\ t \in Seq({"run", "flush"}) /\ Len(t) = Len(s) - 1
      /\ \A i \in 1..Len(t) : t[i] = s[i + 1]
    BY <1>1
<1>3. ASSUME NEW i \in 1..Len(t), NEW j \in 1..Len(t), t[i] = t[j]
      PROVE  i = j
    <2>1. i + 1 \in 1..Len(s) /\ j + 1 \in 1..Len(s)
        BY <1>1, <1>2
    <2>2. s[i + 1] = s[j + 1]
        BY <1>2, <1>3
    <2>3. i + 1 = j + 1
        BY <2>1, <2>2 DEF Waiting
    <2>. QED
        BY <2>3
<1>. QED
    BY <1>1, <1>2, <1>3 DEF Waiting

\* Nobody sleeps.
LEMMA WaitingNone == Waiting(<<>>)
BY DEF Waiting

\* NoItem is not an item.
LEMMA NoItemFacts == NoItem \notin Items
BY LogStreamAssumption DEF NoItem, Items

\* LimitsInv holds initially.
LEMMA LimitsInit == Init => LimitsInv
<1> SUFFICES ASSUME Init PROVE LimitsInv
    OBVIOUS
<1>1. queue \in Seq(Items) /\ Len(queue) = 0 /\ Sum(queue) = 0 /\ sent \in Seq(0..MaxLines)
    BY SumEmpty DEF Init
<1>2. Waiting(sleepers)
    BY WaitingNone DEF Init
<1>3. TypeOK
    BY <1>1, <1>2, WaitingType, LogStreamAssumption DEF Init, TypeOK
<1>. QED
    BY <1>1, <1>2, <1>3, LogStreamAssumption DEF Init, LimitsInv, WithinLimits

\* Enqueue keeps LimitsInv.
LEMMA LimitsEnqueue ==
    ASSUME LimitsInv, NEW n \in Lengths, Enqueue(n)
    PROVE  LimitsInv'
<1>. USE DEF LimitsInv, WithinLimits, TypeOK
<1>1. lines' \in 0..MaxLines /\ lines + 1 \in 0..MaxLines
    BY LogStreamAssumption DEF Enqueue
<1>2. UNCHANGED <<writing, goroutine, ticker, handler, sent>>
    BY DEF Enqueue, request
<1>3. CASE closed
    <2>1. UNCHANGED <<queue, bytes, sleepers>>
        BY <1>3 DEF Enqueue, queueVars
    <2>. QED
        BY <1>1, <1>2, <2>1
<1>4. CASE ~closed
    <2>. DEFINE q == [items |-> queue, bytes |-> bytes]
                new == Enqueued(q, lines + 1, n)
    <2>1. queue' = new.items /\ bytes' = new.bytes
        BY <1>4 DEF Enqueue
    <2>2. Counted(q)
        BY DEF Counted
    <2>3. Counted(new) /\ Bounded(new)
        BY <1>1, <2>2, EnqueuedFacts
    <2>. HIDE DEF new
    <2>4. queue' \in Seq(Items) /\ bytes' = Sum(queue') /\ bytes' <= MaxBytes /\ Len(queue') <= MaxItems
        BY <2>1, <2>3 DEF Counted, Bounded
    <2>5. Waiting(sleepers')
        <3>1. sleepers' = IF sleepers = <<>> THEN <<>> ELSE Tail(sleepers)
            BY <1>4 DEF Enqueue
        <3>. QED
            BY <3>1, WaitingTail, WaitingNone
    <2>6. ToSet(sleepers') \subseteq {"run", "flush"} /\ Len(sleepers') <= 2
        BY <2>5, WaitingType
    <2>. QED
        BY <1>1, <1>2, <2>4, <2>5, <2>6
<1>. QED
    BY <1>3, <1>4

\* The steps of the goroutine keep LimitsInv.
LEMMA LimitsRun ==
    ASSUME LimitsInv, NextItem \/ Wrote \/ \E timeout \in BOOLEAN : WriteFails(timeout)
    PROVE  LimitsInv'
<1>. USE DEF LimitsInv, WithinLimits, TypeOK
<1>1. CASE NextItem
    <2>1. UNCHANGED <<ticker, handler, lines, sent>>
        BY <1>1 DEF NextItem, request
    <2>2. CASE queue = <<>> /\ ~closed
        <3>1. sleepers' = Append(sleepers, "run") /\ UNCHANGED <<queue, bytes, writing, goroutine>>
            BY <1>1, <2>2 DEF NextItem, queueVars
        <3>2. Waiting(sleepers')
            BY <1>1, <3>1, WaitingAppend DEF NextItem, Awake
        <3>3. ToSet(sleepers') \subseteq {"run", "flush"} /\ Len(sleepers') <= 2
            BY <3>2, WaitingType
        <3>. QED
            BY <2>1, <3>1, <3>2, <3>3
    <2>3. CASE queue = <<>> /\ closed
        <3>1. goroutine = "next" /\ goroutine' = "ended" /\ UNCHANGED <<queue, bytes, writing, sleepers>>
            BY <1>1, <2>3 DEF NextItem, queueVars
        <3>. QED
            BY <2>1, <3>1
    <2>4. CASE queue # <<>>
        <3>1. /\ writing' = Head(queue) /\ queue' = Tail(queue)
              /\ bytes' = bytes - Head(queue).len
              /\ goroutine' = "write" /\ UNCHANGED sleepers
            BY <1>1, <2>4 DEF NextItem
        <3>2. Head(queue) \in Items /\ Tail(queue) \in Seq(Items) /\ Len(Tail(queue)) = Len(queue) - 1
            BY <2>4
        <3>3. Head(queue).len \in Nat
            BY <3>2, LogStreamAssumption DEF Items
        <3>4. Sum(Tail(queue)) = bytes - Head(queue).len
            BY <2>4, SumTail
        <3>5. bytes \in Int /\ Len(queue) \in Nat
            BY SumInt
        <3>6. bytes' <= MaxBytes
            BY <3>1, <3>3, <3>5, LogStreamAssumption
        <3>7. Len(queue') <= MaxItems
            BY <3>1, <3>2, <3>5, LogStreamAssumption
        <3>8. writing' # NoItem
            BY <3>1, <3>2, NoItemFacts
        <3>. QED
            BY <2>1, <3>1, <3>2, <3>4, <3>6, <3>7, <3>8
    <2>. QED
        BY <2>2, <2>3, <2>4
<1>2. CASE Wrote
    <2>1. /\ sent' = Append(sent, writing.id) /\ writing' = NoItem /\ goroutine' = "next"
          /\ sleepers' = <<>> /\ goroutine = "write"
          /\ UNCHANGED <<queue, bytes, ticker, handler, lines>>
        BY <1>2 DEF Wrote, queueVars, request
    <2>2. writing.id \in 0..MaxLines
        <3>1. writing \in Items
            BY <2>1
        <3>. QED
            BY <3>1 DEF Items
    <2>3. sent' \in Seq(0..MaxLines)
        BY <2>1, <2>2
    <2>4. Waiting(sleepers') /\ ToSet(sleepers') \subseteq {"run", "flush"} /\ Len(sleepers') <= 2
        BY <2>1, WaitingNone, WaitingType
    <2>. QED
        BY <2>1, <2>3, <2>4
<1>3. CASE \E timeout \in BOOLEAN : WriteFails(timeout)
    <2>1. /\ writing' = NoItem /\ goroutine' = "next" /\ queue' = <<>> /\ bytes' = 0
          /\ sleepers' = <<>> /\ UNCHANGED <<sent, ticker, handler, lines>>
        BY <1>3 DEF WriteFails, request
    <2>2. Waiting(sleepers') /\ ToSet(sleepers') \subseteq {"run", "flush"} /\ Len(sleepers') <= 2
        BY <2>1, WaitingNone, WaitingType
    <2>3. queue' \in Seq(Items) /\ Sum(queue') = 0 /\ Len(queue') = 0
        BY <2>1, SumEmpty
    <2>. QED
        BY <2>1, <2>2, <2>3, LogStreamAssumption
<1>. QED
    BY <1>1, <1>2, <1>3

\* Every step keeps LimitsInv.
LEMMA LimitsStep == LimitsInv /\ [Next]_vars => LimitsInv'
<1> SUFFICES ASSUME LimitsInv, [Next]_vars PROVE LimitsInv'
    OBVIOUS
<1>1. CASE LogLine \/ Tick
    BY <1>1, LimitsEnqueue DEF LogLine, Tick
<1>2. CASE NextItem \/ Wrote \/ \E timeout \in BOOLEAN : WriteFails(timeout)
    BY <1>2, LimitsRun
<1>3. CASE WorkEnds \/ TickerStops
    BY <1>3 DEF WorkEnds, TickerStops, Step, stream, queueVars, LimitsInv, WithinLimits, TypeOK
<1>4. CASE WorkStopped \/ WorkCutOff
    BY <1>4 DEF WorkStopped, WorkCutOff, Stopped, Step, stream, queueVars,
                LimitsInv, WithinLimits, TypeOK
<1>5. CASE Flush
    <2>1. UNCHANGED <<queue, bytes, writing, goroutine, sent, ticker, lines>>
        BY <1>5 DEF Flush, queueVars
    <2>2. handler' \in {"flush", "answer"}
        BY <1>5 DEF Flush
    <2>3. Waiting(sleepers')
        <3>1. sleepers' = Append(sleepers, "flush") \/ sleepers' = sleepers
            BY <1>5 DEF Flush
        <3>. QED
            BY <1>5, <3>1, WaitingAppend DEF Flush, Awake, LimitsInv
    <2>4. ToSet(sleepers') \subseteq {"run", "flush"} /\ Len(sleepers') <= 2
        BY <2>3, WaitingType
    <2>. QED
        BY <2>1, <2>2, <2>3, <2>4 DEF LimitsInv, WithinLimits, TypeOK
<1>6. CASE WriteAnswer \/ StopLiveness \/ Closed
    BY <1>6 DEF WriteAnswer, StopLiveness, Closed, Step, stream, queueVars,
                LimitsInv, WithinLimits, TypeOK
<1>7. CASE Close
    <2>1. Waiting(sleepers') /\ ToSet(sleepers') \subseteq {"run", "flush"} /\ Len(sleepers') <= 2
        BY <1>7, WaitingNone, WaitingType DEF Close
    <2>. QED
        BY <1>7, <2>1 DEF Close, Step, queueVars, LimitsInv, WithinLimits, TypeOK
<1>8. CASE ClientStops
    BY <1>8 DEF ClientStops, stream, request, queueVars, LimitsInv, WithinLimits, TypeOK
<1>9. CASE UNCHANGED vars
    BY <1>9 DEF vars, stream, request, queueVars, LimitsInv, WithinLimits, TypeOK
<1>. QED
    BY <1>1, <1>2, <1>3, <1>4, <1>5, <1>6, <1>7, <1>8, <1>9 DEF Next, HandlerStep

\* Both limits hold whatever is logged while a client is slow, the marker and a line
\* that is cut to fit included, and queuedBytes is the number of bytes in the queue
\* (Enqueue and next of host/log_stream.go).
THEOREM LogsWithinLimits == Spec => []WithinLimits
<1>1. LimitsInv => WithinLimits
    BY DEF LimitsInv
<1>. QED
    BY <1>1, LimitsInit, LimitsStep, PTL DEF Spec

(***************************************************************************)
(* What the client gets.  Only Enqueue and a failed write change Stream:   *)
(* the first puts a marker behind all lines that are left, and so in place *)
(* of any marker that it drops.                                            *)
(***************************************************************************)

\* What the client has got, and what is being written.
Before(s, w) == s \o (IF w = NoItem THEN <<>> ELSE <<w.id>>)
Ids(items) == [i \in DOMAIN items |-> items[i].id]
All(s, w, q) == Before(s, w) \o Ids(q)

\* Lines of all, the last of which may be n, in their order.
Ordered(all, n) ==
    /\ \A i \in DOMAIN all : all[i] \in 0..n
    /\ \A i, j \in DOMAIN all : i < j /\ all[j] # Marker => all[i] < all[j]

\* Each of n lines that is not there is followed by a marker.
LossesMarked(all, n) ==
    \A id \in 1..n \ ToSet(all) :
        \E m \in DOMAIN all :
            /\ all[m] = Marker
            /\ \A i \in DOMAIN all : all[i] \in 1..(id - 1) => i < m

\* A queue that has failed is closed and empty; one is closed otherwise only at the
\* end; nothing is logged when the work has ended; and an answer is written after Flush.
ControlInv ==
    /\ {closed, failed, answered, reading} \subseteq BOOLEAN
    /\ failed => closed /\ queue = <<>> /\ writing = NoItem
    /\ closed => failed \/ handler \in {"wait", "done"}
    /\ ticker = "on" => handler = "work"
    /\ handler \notin {"work", "stop"} => ticker = "off"
    /\ handler = "answer" => queue = <<>> /\ writing = NoItem
    /\ answered => /\ queue = <<>> /\ writing = NoItem
                   /\ handler \notin {"work", "stop", "flush", "answer"}

StreamInv == Ordered(Stream, lines) /\ (~failed => LossesMarked(Stream, lines))

LossInv == LimitsInv /\ ControlInv /\ StreamInv

\* A concatenation, element by element.
LEMMA ConcatFacts ==
    ASSUME NEW S, NEW a \in Seq(S), NEW b \in Seq(S)
    PROVE  /\ a \o b \in Seq(S) /\ Len(a \o b) = Len(a) + Len(b)
           /\ \A i \in 1..Len(a) : (a \o b)[i] = a[i]
           /\ \A i \in 1..Len(b) : (a \o b)[Len(a) + i] = b[i]
OBVIOUS

\* The numbers of the items of a queue.
LEMMA IdsFacts ==
    ASSUME NEW items \in Seq(Items)
    PROVE  /\ Ids(items) \in Seq(0..MaxLines) /\ Len(Ids(items)) = Len(items)
           /\ \A i \in 1..Len(items) : Ids(items)[i] = items[i].id
<1>1. DOMAIN items = 1..Len(items) /\ Len(items) \in Nat
    OBVIOUS
<1>2. ASSUME NEW i \in 1..Len(items)
      PROVE  items[i].id \in 0..MaxLines
    <2>1. items[i] \in Items
        OBVIOUS
    <2>. QED
        BY <2>1 DEF Items
<1>3. Ids(items) \in [1..Len(items) -> 0..MaxLines]
    BY <1>1, <1>2 DEF Ids
<1>. QED
    BY <1>1, <1>3 DEF Ids

\* What is before the queue.
LEMMA BeforeFacts ==
    ASSUME NEW s \in Seq(0..MaxLines), NEW w \in Items \cup {NoItem}
    PROVE  /\ Before(s, w) \in Seq(0..MaxLines)
           /\ \A i \in 1..Len(s) : i \in 1..Len(Before(s, w)) /\ Before(s, w)[i] = s[i]
           /\ w = NoItem => Len(Before(s, w)) = Len(s)
           /\ w # NoItem => /\ Len(Before(s, w)) = Len(s) + 1
                                  /\ Before(s, w)[Len(s) + 1] = w.id
<1>1. s \in Seq(0..MaxLines) /\ Len(s) \in Nat
    OBVIOUS
<1>2. CASE w = NoItem
    <2>1. Before(s, w) = s \o <<>>
        BY <1>2 DEF Before
    <2>2. Before(s, w) = s
        BY <1>1, <2>1
    <2>. QED
        BY <1>1, <1>2, <2>2
<1>3. CASE w # NoItem
    <2>. DEFINE last == <<w.id>>
    <2>1. Before(s, w) = s \o last
        BY <1>3 DEF Before
    <2>2. w \in Items
        BY <1>3
    <2>3. w.id \in 0..MaxLines
        BY <2>2 DEF Items
    <2>4. last \in Seq(0..MaxLines) /\ Len(last) = 1 /\ last[1] = w.id
        BY <2>3
    <2>. HIDE DEF last
    <2>5. /\ s \o last \in Seq(0..MaxLines) /\ Len(s \o last) = Len(s) + Len(last)
          /\ \A i \in 1..Len(s) : (s \o last)[i] = s[i]
          /\ \A i \in 1..Len(last) : (s \o last)[Len(s) + i] = last[i]
        <3>1. last \in Seq(0..MaxLines)
            BY <2>4
        <3>. QED
            BY ONLY <1>1, <3>1, ConcatFacts
    <2>6. Before(s, w)[Len(s) + 1] = last[1]
        <3>1. 1 \in 1..Len(last)
            BY <2>4
        <3>. QED
            BY <2>1, <2>5, <3>1
    <2>7. Before(s, w) \in Seq(0..MaxLines) /\ Len(Before(s, w)) = Len(s) + 1
        BY <2>1, <2>4, <2>5
    <2>8. \A i \in 1..Len(s) : Before(s, w)[i] = s[i]
        BY <2>1, <2>5
    <2>. QED
        BY <1>1, <1>3, <2>4, <2>6, <2>7, <2>8
<1>. QED
    BY <1>2, <1>3

\* A stream, element by element.
LEMMA StreamFacts ==
    ASSUME NEW s \in Seq(0..MaxLines), NEW w \in Items \cup {NoItem}, NEW q \in Seq(Items)
    PROVE  /\ All(s, w, q) \in Seq(0..MaxLines) /\ Len(All(s, w, q)) = Len(Before(s, w)) + Len(q)
           /\ \A i \in 1..Len(Before(s, w)) : All(s, w, q)[i] = Before(s, w)[i]
           /\ \A i \in 1..Len(q) : All(s, w, q)[Len(Before(s, w)) + i] = q[i].id
<1>1. All(s, w, q) = Before(s, w) \o Ids(q)
    BY DEF All
<1>2. Before(s, w) \in Seq(0..MaxLines)
    BY BeforeFacts
<1>3. q \in Seq(Items)
    OBVIOUS
<1>4. /\ Ids(q) \in Seq(0..MaxLines) /\ Len(Ids(q)) = Len(q)
      /\ \A i \in 1..Len(q) : Ids(q)[i] = q[i].id
    BY <1>3, IdsFacts
<1>. DEFINE a == Before(s, w)  b == Ids(q)
<1>5. a \in Seq(0..MaxLines) /\ b \in Seq(0..MaxLines)
    BY <1>2, <1>4
<1>. HIDE DEF a, b
<1>6. /\ a \o b \in Seq(0..MaxLines) /\ Len(a \o b) = Len(a) + Len(b)
      /\ \A i \in 1..Len(a) : (a \o b)[i] = a[i]
      /\ \A i \in 1..Len(b) : (a \o b)[Len(a) + i] = b[i]
    BY ONLY <1>5, ConcatFacts
<1>7. All(s, w, q) = a \o b /\ a = Before(s, w) /\ b = Ids(q)
    BY <1>1 DEF a, b
<1>. QED
    BY ZenonT(40), <1>4, <1>6, <1>7

\* What Stream is.
LEMMA StreamIs ==
    ASSUME TypeOK
    PROVE  /\ Stream = All(sent, writing, queue)
           /\ sent \in Seq(0..MaxLines) /\ writing \in Items \cup {NoItem} /\ queue \in Seq(Items)
BY DEF Stream, All, Before, Ids, TypeOK

\* A line behind the stream.
LEMMA StreamExtended ==
    ASSUME NEW n \in Nat, NEW all \in Seq(Nat), NEW new \in Seq(Nat),
           Ordered(all, n), LossesMarked(all, n),
           Len(new) = Len(all) + 1, \A i \in 1..Len(all) : new[i] = all[i],
           new[Len(all) + 1] = n + 1
    PROVE  Ordered(new, n + 1) /\ LossesMarked(new, n + 1)
<1>. DEFINE l == Len(all)
<1>1. l \in Nat /\ DOMAIN all = 1..l /\ DOMAIN new = 1..(l + 1) /\ Len(new) = l + 1
    OBVIOUS
<1>2. \A i \in 1..l : all[i] \in 0..n
    BY <1>1 DEF Ordered
<1>3. \A i \in 1..(l + 1) : i \in 1..l \/ i = l + 1
    BY <1>1
<1>4. Ordered(new, n + 1)
    <2>1. ASSUME NEW i \in 1..(l + 1)
          PROVE  new[i] \in 0..(n + 1)
        BY <1>2, <1>3
    <2>2. ASSUME NEW i \in 1..(l + 1), NEW j \in 1..(l + 1), i < j, new[j] # Marker
          PROVE  new[i] < new[j]
        <3>1. i \in 1..l
            BY <1>1, <2>2
        <3>2. CASE j \in 1..l
            BY <1>1, <2>2, <3>1, <3>2 DEF Ordered
        <3>3. CASE j = l + 1
            <4>1. new[i] \in 0..n /\ new[j] = n + 1
                BY <1>2, <3>1, <3>3
            <4>. QED
                BY <4>1
        <3>. QED
            BY <1>3, <3>2, <3>3
    <2>. QED
        BY <1>1, <2>1, <2>2 DEF Ordered
<1>5. ASSUME NEW id \in 1..(n + 1), id \notin ToSet(new)
      PROVE  \E m \in DOMAIN new :
                /\ new[m] = Marker
                /\ \A i \in DOMAIN new : new[i] \in 1..(id - 1) => i < m
    <2>1. \A i \in 1..(l + 1) : new[i] # id
        BY <1>1, <1>5 DEF ToSet
    <2>2. id \in 1..n /\ id \notin ToSet(all)
        BY <1>1, <2>1 DEF ToSet
    <2>3. PICK m \in 1..l : /\ all[m] = Marker
                            /\ \A i \in 1..l : all[i] \in 1..(id - 1) => i < m
        BY <1>1, <2>2 DEF LossesMarked
    <2>4. ASSUME NEW i \in 1..(l + 1), new[i] \in 1..(id - 1)
          PROVE  i < m
        <3>1. i # l + 1
            BY <2>2, <2>4
        <3>. QED
            BY <1>3, <2>3, <2>4, <3>1
    <2>5. m \in 1..(l + 1) /\ new[m] = Marker
        BY <1>1, <2>3
    <2>. QED
        BY <1>1, <2>4, <2>5
<1>. QED
    BY <1>4, <1>5 DEF LossesMarked

\* A marker and a line behind what is left of the stream when k items are dropped.
LEMMA StreamReplaced ==
    ASSUME NEW n \in Nat, NEW all \in Seq(Nat), NEW new \in Seq(Nat),
           NEW p \in 0..Len(all), NEW k \in 0..(Len(all) - p),
           Ordered(all, n),
           Len(new) = (Len(all) - k) + 2, \A i \in 1..p : new[i] = all[i],
           \A i \in (p + 1)..(Len(all) - k) : new[i] = all[k + i],
           new[(Len(all) - k) + 1] = Marker, new[(Len(all) - k) + 2] = n + 1
    PROVE  Ordered(new, n + 1) /\ LossesMarked(new, n + 1)
<1>. DEFINE l == Len(all) - k
            at(i) == IF i <= p THEN i ELSE k + i
<1>1. /\ l \in Nat /\ p \in 0..l /\ k \in Nat
      /\ DOMAIN all = 1..(l + k) /\ DOMAIN new = 1..(l + 2)
    OBVIOUS
<1>2. ASSUME NEW i \in 1..l
      PROVE  at(i) \in 1..(l + k) /\ new[i] = all[at(i)]
    <2>1. CASE i <= p
        <3>1. i \in 1..p /\ i \in 1..(l + k) /\ at(i) = i
            BY <1>1, <2>1
        <3>. QED
            BY <3>1
    <2>2. CASE ~(i <= p)
        <3>1. i \in (p + 1)..l /\ k + i \in 1..(l + k) /\ at(i) = k + i
            <4>. HIDE DEF l
            <4>. QED
                BY <1>1, <2>2
        <3>. QED
            BY <3>1
    <2>. QED
        BY <2>1, <2>2
<1>3. ASSUME NEW i \in 1..l, NEW j \in 1..l, i < j
      PROVE  at(i) < at(j)
    <2>. HIDE DEF l
    <2>1. i \in Nat /\ j \in Nat /\ p \in Nat /\ k \in Nat
        BY <1>1
    <2>2. CASE j <= p
        BY <1>3, <2>1, <2>2
    <2>3. CASE i <= p /\ ~(j <= p)
        BY <1>3, <2>1, <2>3
    <2>4. CASE ~(i <= p) /\ ~(j <= p)
        BY <1>3, <2>1, <2>4
    <2>. QED
        BY <1>3, <2>1, <2>2, <2>3, <2>4
<1>4. \A i \in 1..l : new[i] \in 0..n
    BY <1>1, <1>2 DEF Ordered
<1>6. new[l + 1] = 0 /\ new[l + 2] = n + 1
    BY DEF Marker
<1>. HIDE DEF l, at
<1>5. \A i \in 1..(l + 2) : i \in 1..l \/ i = l + 1 \/ i = l + 2
    BY <1>1
<1>7. Ordered(new, n + 1)
    <2>1. ASSUME NEW i \in 1..(l + 2)
          PROVE  new[i] \in 0..(n + 1)
        <3>0. n \in Nat
            OBVIOUS
        <3>1. CASE i \in 1..l
            <4>1. new[i] \in 0..n
                BY <1>4, <3>1
            <4>. QED
                BY ONLY <3>0, <4>1
        <3>2. CASE i = l + 1
            <4>1. new[i] = 0
                BY <1>6, <3>2
            <4>. QED
                BY ONLY <3>0, <4>1
        <3>3. CASE i = l + 2
            <4>1. new[i] = n + 1
                BY <1>6, <3>3
            <4>. QED
                BY ONLY <3>0, <4>1
        <3>. QED
            BY <1>5, <3>1, <3>2, <3>3
    <2>2. ASSUME NEW i \in 1..(l + 2), NEW j \in 1..(l + 2), i < j, new[j] # Marker
          PROVE  new[i] < new[j]
        <3>1. j # l + 1
            BY <1>6, <2>2 DEF Marker
        <3>2. CASE j \in 1..l
            <4>1. i \in 1..l
                BY <1>1, <2>2, <3>2
            <4>2. at(i) < at(j) /\ new[i] = all[at(i)] /\ new[j] = all[at(j)]
                BY <1>2, <1>3, <2>2, <3>2, <4>1
            <4>3. at(i) \in DOMAIN all /\ at(j) \in DOMAIN all
                BY <1>1, <1>2, <3>2, <4>1
            <4>. QED
                BY <2>2, <4>2, <4>3 DEF Ordered
        <3>3. CASE j = l + 2
            <4>1. new[i] \in 0..n
                <5>1. i \in 1..l \/ i = l + 1
                    BY <1>1, <1>5, <2>2, <3>3
                <5>2. CASE i \in 1..l
                    BY <1>4, <5>2
                <5>3. CASE i = l + 1
                    <6>1. new[i] = 0 /\ n \in Nat
                        BY <1>6, <5>3
                    <6>. QED
                        BY ONLY <6>1
                <5>. QED
                    BY <5>1, <5>2, <5>3
            <4>2. new[j] = n + 1
                BY <1>6, <3>3
            <4>3. n \in Nat
                OBVIOUS
            <4>. QED
                BY ONLY <4>1, <4>2, <4>3
        <3>. QED
            BY <1>5, <3>1, <3>2, <3>3
    <2>. QED
        BY <1>1, <2>1, <2>2 DEF Ordered
<1>8. ASSUME NEW id \in 1..(n + 1)
      PROVE  \E m \in DOMAIN new :
                /\ new[m] = Marker
                /\ \A i \in DOMAIN new : new[i] \in 1..(id - 1) => i < m
    <2>1. ASSUME NEW i \in 1..(l + 2), new[i] \in 1..(id - 1)
          PROVE  i < l + 1
        <3>1. i # l + 1
            <4> SUFFICES ASSUME i = l + 1 PROVE FALSE
                OBVIOUS
            <4>1. new[i] = 0
                BY <1>6
            <4>. QED
                BY <2>1, <4>1
        <3>2. i # l + 2
            <4> SUFFICES ASSUME i = l + 2 PROVE FALSE
                OBVIOUS
            <4>1. new[i] = n + 1
                BY <1>6
            <4>. QED
                BY <2>1, <4>1
        <3>. QED
            BY <1>1, <1>5, <3>1, <3>2
    <2>2. l + 1 \in 1..(l + 2) /\ new[l + 1] = Marker
        BY <1>1, <1>6 DEF Marker
    <2>. QED
        BY <1>1, <2>1, <2>2
<1>. QED
    BY <1>7, <1>8 DEF LossesMarked

\* LossInv holds initially.
LEMMA LossInit == Init => LossInv
<1> SUFFICES ASSUME Init PROVE LossInv
    OBVIOUS
<1>1. LimitsInv
    BY LimitsInit
<1>2. ControlInv
    BY DEF Init, ControlInv
<1>3. TypeOK
    BY <1>1 DEF LimitsInv, WithinLimits
<1>4. Len(Stream) = 0 /\ Stream \in Seq(0..MaxLines)
    <2>1. /\ Stream = All(sent, writing, queue)
          /\ sent \in Seq(0..MaxLines) /\ writing \in Items \cup {NoItem} /\ queue \in Seq(Items)
        BY <1>3, StreamIs
    <2>2. writing = NoItem /\ Len(sent) = 0 /\ Len(queue) = 0
        BY DEF Init
    <2>3. Len(Before(sent, writing)) = 0
        BY <2>1, <2>2, BeforeFacts
    <2>4. /\ All(sent, writing, queue) \in Seq(0..MaxLines)
          /\ Len(All(sent, writing, queue)) = Len(Before(sent, writing)) + Len(queue)
        BY <2>1, StreamFacts
    <2>. QED
        BY <2>1, <2>2, <2>3, <2>4
<1>5. DOMAIN Stream = {} /\ lines = 0
    BY <1>4 DEF Init
<1>6. StreamInv
    <2>. HIDE DEF Init
    <2>. QED
        BY <1>5 DEF StreamInv, Ordered, LossesMarked
<1>. QED
    BY <1>1, <1>2, <1>6 DEF LossInv

\* Enqueue keeps StreamInv, as long as the queue is not closed by its own side.
LEMMA StreamEnqueue ==
    ASSUME LossInv, LimitsInv', NEW n \in Lengths, Enqueue(n), handler = "work"
    PROVE  StreamInv'
<1>1. TypeOK /\ TypeOK'
    BY DEF LossInv, LimitsInv, WithinLimits
<1>2. /\ lines \in Nat /\ lines' = lines + 1 /\ lines + 1 \in 0..MaxLines
      /\ UNCHANGED <<failed, sent, writing>>
    BY <1>1, LogStreamAssumption DEF TypeOK, Enqueue
<1>3. /\ Stream = All(sent, writing, queue) /\ Stream' = All(sent, writing, queue')
      /\ sent \in Seq(0..MaxLines) /\ writing \in Items \cup {NoItem}
      /\ queue \in Seq(Items) /\ queue' \in Seq(Items)
    BY <1>1, <1>2 DEF Stream, All, Before, Ids, TypeOK
<1>. DEFINE all == Stream  new == Stream'  p == Len(Before(sent, writing))
<1>4. /\ all \in Seq(0..MaxLines) /\ Len(all) = p + Len(queue) /\ p \in Nat
      /\ \A i \in 1..p : all[i] = Before(sent, writing)[i]
      /\ \A i \in 1..Len(queue) : all[p + i] = queue[i].id
    <2>1. Before(sent, writing) \in Seq(0..MaxLines)
        BY <1>3, BeforeFacts
    <2>2. p \in Nat
        BY <2>1
    <2>. QED
        BY <1>3, <2>2, StreamFacts
<1>5. /\ new \in Seq(0..MaxLines) /\ Len(new) = p + Len(queue')
      /\ \A i \in 1..p : new[i] = Before(sent, writing)[i]
      /\ \A i \in 1..Len(queue') : new[p + i] = queue'[i].id
    BY <1>3, StreamFacts
<1>6. all \in Seq(Nat) /\ new \in Seq(Nat)
    <2>1. 0..MaxLines \subseteq Nat
        BY LogStreamAssumption
    <2>. HIDE DEF all, new, p
    <2>2. ASSUME NEW t \in Seq(0..MaxLines) PROVE t \in Seq(Nat)
        <3>1. Len(t) \in Nat /\ t \in [1..Len(t) -> 0..MaxLines]
            BY LenProperties
        <3>2. t \in [1..Len(t) -> Nat]
            BY <2>1, <3>1
        <3>. QED
            BY <3>1, <3>2
    <2>. QED
        BY <1>4, <1>5, <2>2
<1>. HIDE DEF all, new, p
<1>7. Ordered(all, lines) /\ (~failed => LossesMarked(all, lines))
    BY DEF LossInv, StreamInv, all
<1>8. CASE closed
    <2>1. failed /\ queue' = queue
        BY <1>8 DEF LossInv, ControlInv, Enqueue, queueVars
    <2>2. Stream' = Stream
        BY <1>2, <2>1 DEF Stream
    <2>3. Ordered(Stream', lines + 1)
        <3>1. \A i \in DOMAIN all : all[i] \in 0..(lines + 1)
            BY <1>2, <1>7 DEF Ordered
        <3>. QED
            BY <1>7, <2>2, <3>1 DEF Ordered, all
    <2>. QED
        BY <1>2, <2>1, <2>3 DEF StreamInv
<1>9. CASE ~closed
    <2>. DEFINE q == [items |-> queue, bytes |-> bytes]
                id == lines + 1
                next == Enqueued(q, id, n)
    <2>1. queue' = next.items
        BY <1>9 DEF Enqueue
    <2>2. Counted(q) /\ queue \in Seq(Items)
        BY DEF LossInv, LimitsInv, WithinLimits, TypeOK, Counted
    <2>3. \/ Extended(q.items, next.items, id)
          \/ \E k \in 0..Len(q.items) : Replaced(q.items, next.items, k, id)
        BY <1>2, <2>2, EnqueuedFacts
    <2>4. ~failed
        BY <1>9 DEF LossInv, ControlInv
    <2>5. \/ Extended(queue, queue', id)
          \/ \E k \in 0..Len(queue) : Replaced(queue, queue', k, id)
        BY <2>1, <2>3
    <2>. HIDE DEF q, next
    <2>6. Len(queue) \in Nat
        BY <2>2
    <2>7. CASE Extended(queue, queue', id)
        <3>1. Len(new) = Len(all) + 1
            BY <1>4, <1>5, <2>6, <2>7 DEF Extended
        <3>2. ASSUME NEW i \in 1..Len(all)
              PROVE  new[i] = all[i]
            <4>1. CASE i \in 1..p
                BY <1>4, <1>5, <4>1
            <4>2. CASE i \notin 1..p
                <5>1. i - p \in 1..Len(queue) /\ i - p \in 1..Len(queue') /\ p + (i - p) = i
                    BY <1>4, <2>6, <2>7, <4>2 DEF Extended
                <5>2. queue'[i - p] = queue[i - p]
                    BY <2>7, <5>1 DEF Extended
                <5>3. all[p + (i - p)] = queue[i - p].id /\ new[p + (i - p)] = queue'[i - p].id
                    BY <1>4, <1>5, <5>1
                <5>. QED
                    BY <5>1, <5>2, <5>3
            <4>. QED
                BY <4>1, <4>2
        <3>3. new[Len(all) + 1] = lines + 1
            <4>1. /\ Len(queue) + 1 \in 1..Len(queue') /\ queue'[Len(queue) + 1].id = id
                  /\ p + (Len(queue) + 1) = Len(all) + 1
                BY <1>4, <2>6, <2>7 DEF Extended
            <4>2. new[p + (Len(queue) + 1)] = queue'[Len(queue) + 1].id
                BY <1>5, <4>1
            <4>. QED
                BY <4>1, <4>2
        <3>4. Ordered(new, lines + 1) /\ LossesMarked(new, lines + 1)
            BY <1>2, <1>6, <1>7, <2>4, <3>1, <3>2, <3>3, StreamExtended
        <3>. QED
            BY <1>2, <3>4 DEF StreamInv, new
    <2>8. ASSUME NEW k \in 0..Len(queue), Replaced(queue, queue', k, id)
          PROVE  StreamInv'
        <3>0. p \in 0..Len(all) /\ k \in 0..(Len(all) - p) /\ Len(all) - k = p + (Len(queue) - k)
            BY <1>4, <2>6
        <3>1. Len(new) = (Len(all) - k) + 2
            BY <1>4, <1>5, <2>6, <2>8 DEF Replaced
        <3>2. \A i \in 1..p : new[i] = all[i]
            BY <1>4, <1>5
        <3>3. ASSUME NEW i \in (p + 1)..(Len(all) - k)
              PROVE  new[i] = all[k + i]
            <4>1. /\ i - p \in 1..(Len(queue) - k) /\ p + (i - p) = i
                  /\ i - p \in 1..Len(queue')
                  /\ k + (i - p) \in 1..Len(queue) /\ p + (k + (i - p)) = k + i
                BY <1>4, <2>6, <2>8, <3>0 DEF Replaced
            <4>2. queue'[i - p] = queue[k + (i - p)]
                BY <2>8, <4>1 DEF Replaced
            <4>3. new[p + (i - p)] = queue'[i - p].id
                BY <1>5, <4>1
            <4>4. all[p + (k + (i - p))] = queue[k + (i - p)].id
                BY <1>4, <4>1
            <4>. QED
                BY <4>1, <4>2, <4>3, <4>4
        <3>4. new[(Len(all) - k) + 1] = Marker
            <4>. DEFINE j == (Len(queue) - k) + 1
            <4>1. j \in 1..Len(queue') /\ p + j = (Len(all) - k) + 1 /\ queue'[j].id = Marker
                BY <1>4, <2>6, <2>8 DEF Replaced
            <4>2. new[p + j] = queue'[j].id
                BY <1>5, <4>1
            <4>. QED
                BY <4>1, <4>2
        <3>5. new[(Len(all) - k) + 2] = lines + 1
            <4>. DEFINE j == (Len(queue) - k) + 2
            <4>1. j \in 1..Len(queue') /\ p + j = (Len(all) - k) + 2 /\ queue'[j].id = id
                BY <1>4, <2>6, <2>8 DEF Replaced
            <4>2. new[p + j] = queue'[j].id
                BY <1>5, <4>1
            <4>. QED
                BY <4>1, <4>2
        <3>6. Ordered(new, lines + 1) /\ LossesMarked(new, lines + 1)
            BY <1>2, <1>6, <1>7, <3>0, <3>1, <3>2, <3>3, <3>4, <3>5, StreamReplaced
        <3>. QED
            BY <1>2, <3>6 DEF StreamInv, new
    <2>. QED
        BY <2>5, <2>7, <2>8
<1>. QED
    BY <1>8, <1>9

\* When the goroutine takes an item or has written it the stream stays as it is.
LEMMA StreamRuns ==
    ASSUME TypeOK, TypeOK', (NextItem /\ queue # <<>>) \/ Wrote
    PROVE  Stream' = Stream
<1>0. /\ Stream = All(sent, writing, queue)
      /\ sent \in Seq(0..MaxLines) /\ writing \in Items \cup {NoItem} /\ queue \in Seq(Items)
      /\ Stream' = All(sent', writing', queue')
      /\ sent' \in Seq(0..MaxLines) /\ writing' \in Items \cup {NoItem} /\ queue' \in Seq(Items)
    BY DEF Stream, All, Before, Ids, TypeOK
<1>1. /\ Stream \in Seq(0..MaxLines) /\ Len(Stream) = Len(Before(sent, writing)) + Len(queue)
      /\ \A i \in 1..Len(Before(sent, writing)) : Stream[i] = Before(sent, writing)[i]
      /\ \A i \in 1..Len(queue) : Stream[Len(Before(sent, writing)) + i] = queue[i].id
    BY <1>0, StreamFacts
<1>2. /\ Stream' \in Seq(0..MaxLines) /\ Len(Stream') = Len(Before(sent', writing')) + Len(queue')
      /\ \A i \in 1..Len(Before(sent', writing')) : Stream'[i] = Before(sent', writing')[i]
      /\ \A i \in 1..Len(queue') : Stream'[Len(Before(sent', writing')) + i] = queue'[i].id
    BY <1>0, StreamFacts
<1>3. /\ Before(sent, writing) \in Seq(0..MaxLines)
      /\ \A i \in 1..Len(sent) : i \in 1..Len(Before(sent, writing)) /\ Before(sent, writing)[i] = sent[i]
      /\ writing = NoItem => Len(Before(sent, writing)) = Len(sent)
      /\ writing # NoItem => /\ Len(Before(sent, writing)) = Len(sent) + 1
                             /\ Before(sent, writing)[Len(sent) + 1] = writing.id
    BY <1>0, BeforeFacts
<1>4. /\ \A i \in 1..Len(sent') : i \in 1..Len(Before(sent', writing')) /\ Before(sent', writing')[i] = sent'[i]
      /\ writing' = NoItem => Len(Before(sent', writing')) = Len(sent')
      /\ writing' # NoItem => /\ Len(Before(sent', writing')) = Len(sent') + 1
                              /\ Before(sent', writing')[Len(sent') + 1] = writing'.id
    BY <1>0, BeforeFacts
<1>7. Len(Before(sent, writing)) \in Nat /\ Len(sent) \in Nat
    BY <1>0, <1>3
<1>5. CASE NextItem /\ queue # <<>>
    <2>. DEFINE s == Len(sent)
    <2>1. /\ writing' = Head(queue) /\ queue' = Tail(queue) /\ sent' = sent
          /\ goroutine = "next" /\ goroutine' = "write"
        BY <1>5 DEF NextItem
    <2>2. writing = NoItem /\ writing' # NoItem
        BY <2>1 DEF TypeOK
    <2>3. queue \in Seq(Items) /\ Len(queue) \in Nat /\ Len(queue) >= 1
        BY <1>5 DEF TypeOK
    <2>4. /\ Len(queue') = Len(queue) - 1 /\ writing' = queue[1]
          /\ \A i \in 1..Len(queue') : queue'[i] = queue[i + 1]
        BY <1>5, <2>1, <2>3
    <2>5. Len(Before(sent, writing)) = s /\ Len(Before(sent', writing')) = s + 1 /\ s \in Nat
        BY <1>7, <1>3, <1>4, <2>1, <2>2
    <2>6. Len(Stream') = Len(Stream)
        BY <1>1, <1>2, <2>3, <2>4, <2>5
    <2>7. ASSUME NEW i \in 1..Len(Stream)
          PROVE  Stream'[i] = Stream[i]
        <3>1. CASE i \in 1..s
            <4>1. i \in 1..(s + 1)
                BY <2>5, <3>1
            <4>2. Stream[i] = Before(sent, writing)[i] /\ Stream'[i] = Before(sent', writing')[i]
                BY <1>1, <1>2, <2>5, <3>1, <4>1
            <4>3. Before(sent, writing)[i] = sent[i] /\ Before(sent', writing')[i] = sent[i]
                BY <1>3, <1>4, <2>1, <3>1
            <4>. QED
                BY <4>2, <4>3
        <3>2. CASE i = s + 1
            <4>1. s + 1 \in 1..Len(Before(sent', writing')) /\ 1 \in 1..Len(queue)
                BY <2>3, <2>5
            <4>2. Stream'[i] = writing'.id
                BY <1>2, <1>4, <2>1, <2>2, <3>2, <4>1
            <4>3. Stream[i] = queue[1].id
                BY <1>1, <2>5, <3>2, <4>1
            <4>. QED
                BY <2>4, <4>2, <4>3
        <3>3. CASE i \notin 1..(s + 1)
            <4>. DEFINE j == i - (s + 1)
            <4>1. /\ j \in 1..Len(queue') /\ j + 1 \in 1..Len(queue)
                  /\ (s + 1) + j = i /\ s + (j + 1) = i
                BY <1>1, <2>3, <2>4, <2>5, <3>3
            <4>2. Stream'[(s + 1) + j] = queue'[j].id
                BY <1>2, <2>5, <4>1
            <4>3. Stream[s + (j + 1)] = queue[j + 1].id
                BY <1>1, <2>5, <4>1
            <4>. QED
                BY <2>4, <4>1, <4>2, <4>3
        <3>. QED
            BY <2>5, <3>1, <3>2, <3>3
    <2>. QED
        BY <1>1, <1>2, <2>6, <2>7, SeqEqual
<1>6. CASE Wrote
    <2>. DEFINE last == writing.id
    <2>1. /\ sent' = Append(sent, last) /\ writing' = NoItem /\ queue' = queue
          /\ goroutine = "write"
        BY <1>6 DEF Wrote, queueVars
    <2>2. writing # NoItem
        BY <2>1 DEF TypeOK
    <2>3. writing \in Items
        BY <2>2 DEF TypeOK
    <2>4. last \in 0..MaxLines
        BY <2>3 DEF Items
    <2>5. Before(sent', writing') = sent' \o <<>>
        BY <2>1 DEF Before
    <2>6. Before(sent, writing) = sent \o <<last>>
        BY <2>2 DEF Before
    <2>7. Before(sent', writing') = Before(sent, writing)
        <3>1. sent \in Seq(0..MaxLines)
            BY DEF TypeOK
        <3>2. Append(sent, last) = sent \o <<last>>
            BY <2>4, <3>1, AppendIsConcat
        <3>3. Append(sent, last) \o <<>> = Append(sent, last)
            <4>1. Append(sent, last) \in Seq(0..MaxLines)
                BY <2>4, <3>1
            <4>. QED
                BY <4>1, ConcatEmptySeq
        <3>. QED
            BY <2>1, <2>5, <2>6, <3>2, <3>3
    <2>8. Stream = Before(sent, writing) \o Ids(queue) /\ Stream' = Before(sent', writing') \o Ids(queue')
        BY <1>0 DEF All
    <2>. QED
        BY <2>1, <2>7, <2>8
<1>. QED
    BY <1>5, <1>6

\* A failed write leaves what has been sent.
LEMMA StreamFails ==
    ASSUME LossInv, LimitsInv', \E timeout \in BOOLEAN : WriteFails(timeout)
    PROVE  StreamInv'
<1>1. TypeOK /\ TypeOK'
    BY DEF LossInv, LimitsInv, WithinLimits
<1>0. /\ Stream = All(sent, writing, queue)
      /\ sent \in Seq(0..MaxLines) /\ writing \in Items \cup {NoItem} /\ queue \in Seq(Items)
      /\ Stream' = All(sent', writing', queue')
      /\ sent' \in Seq(0..MaxLines) /\ writing' \in Items \cup {NoItem} /\ queue' \in Seq(Items)
    BY <1>1 DEF Stream, All, Before, Ids, TypeOK
<1>2. /\ writing' = NoItem /\ queue' = <<>> /\ sent' = sent /\ lines' = lines /\ failed'
    BY DEF WriteFails
<1>3. /\ Stream \in Seq(0..MaxLines) /\ Len(Stream) = Len(Before(sent, writing)) + Len(queue)
      /\ \A i \in 1..Len(Before(sent, writing)) : Stream[i] = Before(sent, writing)[i]
    BY <1>0, StreamFacts
<1>4. /\ Stream' \in Seq(0..MaxLines) /\ Len(Stream') = Len(Before(sent', writing')) + Len(queue')
      /\ \A i \in 1..Len(Before(sent', writing')) : Stream'[i] = Before(sent', writing')[i]
    BY <1>0, StreamFacts
<1>5. /\ Before(sent, writing) \in Seq(0..MaxLines)
      /\ \A i \in 1..Len(sent) : i \in 1..Len(Before(sent, writing)) /\ Before(sent, writing)[i] = sent[i]
    BY <1>0, BeforeFacts
<1>6. /\ \A i \in 1..Len(sent') : i \in 1..Len(Before(sent', writing')) /\ Before(sent', writing')[i] = sent'[i]
      /\ writing' = NoItem => Len(Before(sent', writing')) = Len(sent')
    BY <1>0, BeforeFacts
<1>7. Len(queue) \in Nat /\ Len(Before(sent, writing)) \in Nat /\ Len(sent) \in Nat /\ Len(queue') = 0
    BY <1>1, <1>2, <1>5 DEF TypeOK
<1>8. Len(Before(sent', writing')) = Len(sent) /\ Len(Stream') = Len(sent)
    BY <1>2, <1>4, <1>6, <1>7
<1>9. ASSUME NEW i \in DOMAIN Stream'
      PROVE  i \in DOMAIN Stream /\ Stream'[i] = Stream[i]
    <2>1. i \in 1..Len(sent)
        BY <1>4, <1>8
    <2>2. i \in 1..Len(Before(sent, writing)) /\ i \in 1..Len(Before(sent', writing'))
        BY <1>5, <1>8, <2>1
    <2>3. i \in 1..Len(Stream)
        BY <1>3, <1>7, <2>2
    <2>4. Stream'[i] = Before(sent', writing')[i] /\ Before(sent', writing')[i] = sent[i]
        BY <1>2, <1>4, <1>6, <2>1, <2>2
    <2>5. Stream[i] = Before(sent, writing)[i] /\ Before(sent, writing)[i] = sent[i]
        BY <1>3, <1>5, <2>1, <2>2
    <2>. QED
        BY <1>3, <2>3, <2>4, <2>5
<1>. DEFINE all == Stream  new == Stream'
<1>10. Ordered(all, lines)
    BY DEF LossInv, StreamInv
<1>11. Ordered(new, lines)
    <2>1. \A i \in DOMAIN new : i \in DOMAIN all /\ new[i] = all[i]
        BY <1>9
    <2>. HIDE DEF all, new
    <2>. QED
        BY <1>10, <2>1 DEF Ordered
<1>. QED
    BY <1>2, <1>11 DEF StreamInv

\* Every step keeps ControlInv.
LEMMA ControlStep ==
    ASSUME LimitsInv, ControlInv, [Next]_vars
    PROVE  ControlInv'
<1>0. (writing # NoItem) = (goroutine = "write")
    BY DEF LimitsInv, WithinLimits, TypeOK
<1>. USE DEF ControlInv
<1>1. CASE LogLine \/ Tick
    <2>1. PICK n \in Lengths : Enqueue(n)
        BY <1>1 DEF LogLine, Tick
    <2>2. handler = "work"
        BY <1>1 DEF LogLine, Tick
    <2>3. UNCHANGED <<writing, closed, failed, handler, ticker, answered, reading>>
        BY <2>1 DEF Enqueue, request
    <2>4. closed => UNCHANGED queue
        BY <2>1 DEF Enqueue, queueVars
    <2>. QED
        BY <2>2, <2>3, <2>4
<1>2. CASE NextItem
    <2>1. UNCHANGED <<closed, failed, handler, ticker, answered, reading>>
        BY <1>2 DEF NextItem, request
    <2>2. queue = <<>> => UNCHANGED <<queue, writing>>
        BY <1>2 DEF NextItem, queueVars
    <2>3. writing = NoItem
        BY <1>0, <1>2 DEF NextItem
    <2>. QED
        BY <2>1, <2>2, <2>3
<1>3. CASE Wrote
    BY <1>0, <1>3 DEF Wrote, request, queueVars
<1>4. CASE \E timeout \in BOOLEAN : WriteFails(timeout)
    BY ZenonT(40), <1>0, <1>4 DEF WriteFails, request
<1>5. CASE WorkEnds \/ TickerStops
    BY <1>5 DEF WorkEnds, TickerStops, Step, stream, queueVars
<1>6. CASE WorkStopped \/ WorkCutOff
    BY <1>6 DEF WorkStopped, WorkCutOff, Stopped, Step, stream, queueVars
<1>7. CASE Flush
    BY <1>7 DEF Flush, FlushSleeps, queueVars
<1>8. CASE WriteAnswer
    <2>1. answered' \in BOOLEAN
        BY <1>8 DEF WriteAnswer
    <2>. QED
        BY <1>8, <2>1 DEF WriteAnswer, Step, stream, queueVars
<1>9. CASE StopLiveness \/ Closed \/ Close
    <2>1. CASE StopLiveness
        BY <2>1 DEF StopLiveness, Step, stream, queueVars
    <2>2. CASE Closed
        BY <2>2 DEF Closed, Step, stream, queueVars
    <2>3. CASE Close
        BY <2>3 DEF Close, Step, queueVars
    <2>. QED
        BY <1>9, <2>1, <2>2, <2>3
<1>10. CASE ClientStops
    BY <1>10 DEF ClientStops, stream, request, queueVars
<1>11. CASE UNCHANGED vars
    BY <1>11 DEF vars, stream, request, queueVars
<1>. QED
    BY <1>1, <1>2, <1>3, <1>4, <1>5, <1>6, <1>7, <1>8, <1>9, <1>10, <1>11 DEF Next, HandlerStep

\* Every step keeps LossInv.
LEMMA LossStep == LossInv /\ [Next]_vars => LossInv'
<1> SUFFICES ASSUME LossInv, [Next]_vars PROVE LossInv'
    OBVIOUS
<1>1. LimitsInv /\ LimitsInv'
    BY LimitsStep DEF LossInv
<1>2. ControlInv'
    BY ControlStep DEF LossInv
<1>3. TypeOK /\ TypeOK'
    BY <1>1 DEF LimitsInv, WithinLimits
<1>4. StreamInv'
    <2>1. CASE LogLine \/ Tick
        <3>1. PICK n \in Lengths : Enqueue(n)
            BY <2>1 DEF LogLine, Tick
        <3>2. handler = "work"
            BY <2>1 DEF LogLine, Tick, LossInv, ControlInv
        <3>. QED
            BY <1>1, <3>1, <3>2, StreamEnqueue
    <2>2. CASE (NextItem /\ queue # <<>>) \/ Wrote
        <3>1. Stream' = Stream
            BY <1>3, <2>2, StreamRuns
        <3>2. UNCHANGED <<lines, failed>>
            BY <2>2 DEF NextItem, Wrote
        <3>. QED
            BY <3>1, <3>2 DEF LossInv, StreamInv
    <2>3. CASE \E timeout \in BOOLEAN : WriteFails(timeout)
        BY <1>1, <2>3, StreamFails
    <2>4. CASE UNCHANGED <<sent, writing, queue, lines, failed>>
        <3>1. Stream' = Stream
            BY <2>4 DEF Stream
        <3>. QED
            BY <2>4, <3>1 DEF LossInv, StreamInv
    <2>5. CASE NextItem /\ queue = <<>>
        BY <2>4, <2>5 DEF NextItem, queueVars
    <2>6. CASE WorkEnds \/ TickerStops \/ HandlerStep \/ ClientStops \/ UNCHANGED vars
        <3>1. UNCHANGED <<sent, writing, queue, lines, failed>>
            BY <2>6 DEF WorkEnds, TickerStops, HandlerStep, WorkStopped, WorkCutOff, Flush,
                WriteAnswer, StopLiveness, Close, Closed, ClientStops, vars, stream, queueVars
        <3>. QED
            BY <2>4, <3>1
    <2>. QED
        BY <2>1, <2>2, <2>3, <2>5, <2>6 DEF Next
<1>. QED
    BY <1>1, <1>2, <1>4 DEF LossInv

\* Lines keep their order, every line that was dropped is followed by a marker, and the
\* answer comes after all lines, whatever is logged by whom and however slow the client
\* is (Enqueue, next and Flush of host/log_stream.go, writeJSONAfterLogs of
\* host/server.go).
THEOREM LogLossMarked == Spec => []LossMarked
<1>1. LossInv => LossMarked
    <2> SUFFICES ASSUME LossInv PROVE LossMarked
        OBVIOUS
    <2>1. answered => queue = <<>> /\ writing = NoItem /\ ticker = "off"
        BY DEF LossInv, ControlInv
    <2>2. \A i, j \in DOMAIN Stream : i < j /\ Stream[j] # Marker => Stream[i] < Stream[j]
        BY DEF LossInv, StreamInv, Ordered
    <2>3. ~failed =>
            \A id \in 1..lines \ ToSet(Stream) :
               \E m \in DOMAIN Stream :
                  /\ Stream[m] = Marker
                  /\ \A i \in DOMAIN Stream : Stream[i] \in 1..(id - 1) => i < m
        BY DEF LossInv, StreamInv, LossesMarked
    <2>. HIDE DEF LossInv
    <2>. QED
        BY <2>1, <2>2, <2>3 DEF LossMarked
<1>. QED
    BY <1>1, LossInit, LossStep, PTL DEF Spec

=============================================================================
