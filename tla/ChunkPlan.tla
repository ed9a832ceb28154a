----------------------------- MODULE ChunkPlan ------------------------------
(***************************************************************************)
(* How blobs are cut into chunks (syncfs/chunked_blob.go) and shared out   *)
(* among the connections of a transfer (client/client.go).  A chunk is     *)
(* addressed by the hash and the size of its blob and an offset.           *)
(***************************************************************************)
EXTENDS Integers, Sequences, FiniteSets, SequencesExt

CONSTANTS
    DefaultChunkSize,   \* DefaultBlobChunkSize
    MaxChunkSize,       \* MaxBlobChunkSize
    MaxChunks,          \* MaxBlobChunks
    DefaultParallel,    \* defaultTransferParallel
    MaxParallel,        \* maxBlobTransferParallel
    Invalid             \* the result of a call that returns an error

ASSUME ChunkPlanAssumption ==
    /\ DefaultChunkSize \in 1..MaxChunkSize
    /\ {MaxChunkSize, MaxChunks, DefaultParallel, MaxParallel} \subseteq Nat \ {0}
    /\ Invalid \notin Int /\ Invalid \notin Seq(Int)

normalizeBlobChunkSize(chunkSize) ==
    IF chunkSize <= 0 THEN DefaultChunkSize
    ELSE IF chunkSize > MaxChunkSize THEN Invalid ELSE chunkSize

\* Fault: a last, short chunk is not counted.
CountWholeChunks(size, chunkSize) ==
    LET cs == normalizeBlobChunkSize(chunkSize)
    IN  IF size < 0 \/ cs = Invalid THEN Invalid
        ELSE IF size <= cs THEN 1
        ELSE IF size \div cs > MaxChunks THEN Invalid ELSE size \div cs

\* The number of chunks of a blob; an empty blob has one, empty chunk.
BlobChunkCount(size, chunkSize) ==
    LET cs == normalizeBlobChunkSize(chunkSize)
        count == IF size = 0 THEN 1 ELSE 1 + (size - 1) \div cs
    IN  IF size < 0 \/ cs = Invalid THEN Invalid
        ELSE IF count > MaxChunks THEN Invalid ELSE count

\* The payload of a chunk: all of the chunk size but for the last.
BlobChunkPayloadLen(info, chunkSize) ==
    LET cs == normalizeBlobChunkSize(chunkSize)
        rest == info.size - info.offset
    IN  IF \/ cs = Invalid
           \/ info.size < 0 \/ info.offset < 0 \/ rest < 0
           \/ info.size = 0 /\ info.offset # 0
           \/ info.size > 0 /\ info.offset % cs # 0
        THEN Invalid
        ELSE IF rest < cs THEN rest ELSE cs

ChunkIndex(info, chunkSize) ==
    IF info.size = 0 THEN 0
    ELSE info.offset \div normalizeBlobChunkSize(chunkSize)

\* Fault: the offset is not looked at beyond its alignment.
ValidChunkAnyIndex(info, blob, chunkSize, payloadLen) ==
    /\ info.hash = blob.hash
    /\ info.size = blob.size
    /\ payloadLen # Invalid
    /\ payloadLen = BlobChunkPayloadLen(info, chunkSize)

\* What the receiver demands of a chunk of a blob (validateBlobChunkShape), and,
\* without its payload, the sender of a request for it (validateSendBlobChunk).
ValidChunk(info, blob, chunkSize, payloadLen) ==
    LET count == BlobChunkCount(blob.size, chunkSize) IN
    /\ info.hash = blob.hash
    /\ info.size = blob.size
    /\ payloadLen # Invalid
    /\ payloadLen = BlobChunkPayloadLen(info, chunkSize)
    /\ count # Invalid
    /\ ChunkIndex(info, chunkSize) < count

\* The chunks of one blob in order of their offsets.
ChunksOfBlob(blob, chunkSize) ==
    LET cs == normalizeBlobChunkSize(chunkSize) IN
    [i \in 1..BlobChunkCount(blob.size, chunkSize) |->
        [hash |-> blob.hash, size |-> blob.size, offset |-> (i - 1) * cs]]

\* The chunks of all blobs, blob by blob; there is no plan for an invalid or
\* duplicate blob, nor one with too many chunks.
PlanBlobChunks(blobs, chunkSize) ==
    LET counts == [i \in DOMAIN blobs |-> BlobChunkCount(blobs[i].size, chunkSize)]
        total == FoldSeq(LAMBDA n, sum : n + sum, 0, counts)
    IN  IF \/ normalizeBlobChunkSize(chunkSize) = Invalid
           \/ \E i, j \in DOMAIN blobs : i # j /\ blobs[i].hash = blobs[j].hash
           \/ Invalid \in ToSet(counts)
        THEN Invalid
        ELSE IF total > MaxChunks THEN Invalid
        ELSE FlattenSeq([i \in DOMAIN blobs |-> ChunksOfBlob(blobs[i], chunkSize)])

\* The number of connections of a transfer: what the other side proposes, or else
\* a default, within the limit and the number of chunks.
Parallelism(proposed, cpus, chunks) ==
    LET wanted == IF proposed > 0 THEN proposed
                  ELSE IF chunks <= 1 THEN 1
                  ELSE Min({cpus, DefaultParallel})
    IN  Max({1, Min({wanted, MaxParallel, chunks})})

\* Fault: a group is as long as the number of whole rounds.
GroupsOfWholeRounds(chunks, parallel) ==
    LET groups == Min({Max({1, parallel}), Len(chunks)}) IN
    [g \in 1..groups |->
        [k \in 1..(Len(chunks) \div groups) |-> chunks[(k - 1) * groups + g]]]

\* The chunks of each connection of a download, dealt out like cards.
downloadChunkGroups(chunks, parallel) ==
    LET groups == Min({Max({1, parallel}), Len(chunks)}) IN
    [g \in 1..groups |->
        [k \in 1..((Len(chunks) - g) \div groups + 1) |-> chunks[(k - 1) * groups + g]]]
=============================================================================
