--------------------------- MODULE MCBlobTransfer ---------------------------
(***************************************************************************)
(* BlobTransfer for TLC: the plan of two blobs, one of two chunks and one  *)
(* that is empty; and ChunkPlan, which makes that plan, over all pairs of  *)
(* blobs and all chunk sizes up to a bound.                                *)
(***************************************************************************)
EXTENDS BlobTransfer, ChunkPlan

CONSTANTS
    ChunkSize,
    MaxSize     \* bound: the largest blob that ChunkPlan is checked for

\* A plan is not mistaken for an error.
ASSUME MCBlobTransferAssumption ==
    /\ MaxSize \in Nat
    /\ Invalid \notin Seq([hash : {"a", "b"}, size : Nat, offset : Nat])

MCPlan == PlanBlobChunks(
    <<[hash |-> "a", size |-> ChunkSize + 1], [hash |-> "b", size |-> 0]>>, ChunkSize)

\* The empty blob may be there already.
MCStoredBefore == {{}, {"b"}}

\* A transfer has not dialled yet: plans are looked at once, and not in every state.
Planning == faults = 0 /\ attempts = [ch \in Chunks |-> 0] /\ \A c \in Conns : link[c] = "none"

SomeBlobs == {<<[hash |-> "a", size |-> m], [hash |-> h, size |-> n]>> :
                 h \in {"a", "b"}, m, n \in -1..MaxSize}
ChunkSizes == -1..(MaxChunkSize + 1)

Covers(info, chunkSize, byte) ==
    byte \in info.offset..(info.offset + BlobChunkPayloadLen(info, chunkSize) - 1)

\* The plan of a transfer (PlanBlobChunks) addresses every byte of every blob exactly
\* once and has at least one chunk for each blob, an empty one included; and there is
\* a plan whenever blobs and chunk size are legal and the chunks not too many.
PlanCoversBlobs ==
    \A blobs \in SomeBlobs, cs \in ChunkSizes :
        LET plan == PlanBlobChunks(blobs, cs)
            legal == /\ \A b \in ToSet(blobs) : b.size >= 0
                     /\ blobs[1].hash # blobs[2].hash
                     /\ cs <= MaxChunkSize
        IN  /\ ~legal => plan = Invalid
            /\ plan # Invalid =>
                  \A b \in ToSet(blobs) :
                    LET own == {i \in DOMAIN plan : plan[i].hash = b.hash} IN
                    /\ own # {}
                    /\ \A byte \in 0..(b.size - 1) :
                          Cardinality({i \in own : Covers(plan[i], cs, byte)}) = 1
            /\ legal /\ plan = Invalid =>
                  blobs[1].size + blobs[2].size + 2 > MaxChunks

\* The receiver accepts exactly the chunks of the plan, each with the payload that
\* the sender of that chunk reads: no request or message can name a chunk twice
\* under two offsets, or one that is not counted.
AcceptsThePlan ==
    \A size \in 0..MaxSize, cs \in 1..MaxChunkSize :
        LET blob == [hash |-> "a", size |-> size]
            plan == PlanBlobChunks(<<blob>>, cs)
        IN  plan # Invalid =>
              \A offset \in -1..(MaxSize + 1), len \in 0..MaxChunkSize :
                LET info == [hash |-> "a", size |-> size, offset |-> offset] IN
                ValidChunk(info, blob, cs, len)
                    <=> /\ info \in ToSet(plan)
                        /\ len = IF size - offset < cs THEN size - offset ELSE cs

\* Where a chunk is in the groups: which group, and which of its chunks.
Places(ch, groups, len) ==
    {p \in (DOMAIN groups) \X (1..len) :
        p[2] \in DOMAIN groups[p[1]] /\ groups[p[1]][p[2]] = ch}

SharedOut(plan, groups, parallel) ==
    /\ \A ch \in ToSet(plan) : Cardinality(Places(ch, groups, Len(plan))) = 1
    /\ \A g, h \in DOMAIN groups : Len(groups[g]) <= Len(groups[h]) + 1
    /\ Len(groups) = Min({Max({parallel, 1}), Len(plan)})
    /\ Parallelism(parallel, 1, Len(plan)) \in 1..Min({MaxParallel, Len(plan)})

\* The groups of a download (downloadChunkGroups) share out the plan: each chunk is
\* in one group, no group is more than one chunk longer than another, and there is a
\* group for each connection unless there are too few chunks.  The number of
\* connections is never more than allowed, or than there are chunks, nor zero.
GroupsShareThePlan ==
    \A size \in 0..MaxSize, parallel \in 0..MaxChunks :
        LET plan == PlanBlobChunks(<<[hash |-> "a", size |-> size]>>, 1)
        IN  plan # Invalid =>
              SharedOut(plan, downloadChunkGroups(plan, parallel), parallel)

\* The sender, the receiver and the workers of a transfer mean the same chunks: the plan
\* covers the blobs, the receiver accepts what is planned, and the groups share it out.
PlanAgreed == Planning => PlanCoversBlobs /\ AcceptsThePlan /\ GroupsShareThePlan
=============================================================================
