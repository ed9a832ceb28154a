---------------------------- MODULE BlobTransfer ----------------------------
(***************************************************************************)
(* The transfer of the blobs of one synchronization over several           *)
(* connections that may break (host/blob_transfer.go, client/client.go and *)
(* client/blob_transfer.go, syncfs/chunked_blob.go).  In an upload the     *)
(* client's workers send chunks and the host receives them; in a download  *)
(* each worker asks for its chunks, several at a time, and receives them.  *)
(* There are no acknowledgements: what repairs a broken connection is that *)
(* the sender or the reader of a chunk notices.                            *)
(*                                                                         *)
(* The receiver (ChunkedBlobReceiver) is the same on both sides.  It is    *)
(* used by all connections at once, and each of its steps below is what    *)
(* happens under one of its locks.                                         *)
(***************************************************************************)
EXTENDS Integers, Sequences, FiniteSets, SequencesExt, FiniteSetsExt

CONSTANTS
    Parallel,       \* the number of workers
    Plan,           \* the chunks in the order of PlanBlobChunks
    MaxAttempts,    \* blobTransferMaxAttempts
    Window,         \* downloadPipelineWindow
    StoredBefore,   \* what may be stored between the request for the blobs and Init
    MaxConns,       \* bound: connections that exist at the same time
    MaxFaults       \* bound: faults of the network, the files and the client

ASSUME BlobTransferAssumption ==
    /\ Plan \in Seq(ToSet(Plan)) /\ IsInjective(Plan)
    /\ \A i \in DOMAIN Plan : {"hash", "offset"} \subseteq DOMAIN Plan[i]
    /\ {Parallel, MaxAttempts, Window} \subseteq Nat \ {0}
    /\ StoredBefore \subseteq SUBSET {Plan[i].hash : i \in DOMAIN Plan}
    /\ MaxConns \in Nat /\ MaxFaults \in Nat

Workers == 1..Parallel
Conns == 1..MaxConns
NoConn == 0
Chunks == ToSet(Plan)
Blobs == {ch.hash : ch \in Chunks}
ChunksOf(b) == {ch \in Chunks : ch.hash = b}

VARIABLES
    direction,  \* "upload" or "download"
    \* The receiver and its store.
    store,      \* blobs in the store
    wrong,      \* those of them whose content is not that of their hash
    writers,    \* blobs with an open temporary file
    written,    \* the chunks that were written
    mixed,      \* blobs of which a chunk with other content was written
    count,      \* per blob the number of chunks done
    pending,    \* the number of blobs that are awaited
    rerr,       \* the receiver has failed
    rdone,      \* its channel is closed
    recv,       \* per connection the chunk in work and its step
    \* Connections.
    link,       \* "none", "open", "closed" by one side, or "cut" by the network
    data,       \* chunks on their way to the receiver
    asked,      \* requests on their way to the host of a download
    serve,      \* the host's handler: "on" or "off"
    \* The client.
    work,       \* per worker "busy", "done" or "failed"
    conn,       \* its connection
    todo,       \* its chunks still to be sent or requested
    inFlight,   \* those requested
    jobs,       \* the chunks not yet given to a worker of an upload
    attempts,   \* per chunk
    cancelled,  \* the context of the workers
    client,     \* "running", "complete", "failed", or "left": stopped after completing
    \* The host's session.
    registered, sdone, serr,
    sent,       \* chunks sent at least once
    host,       \* "read", "wait", "done" or "failed"
    \* The world.
    edited,     \* blobs whose source file has changed since it was hashed
    faults,
    lost        \* history: a chunk was lost that its sender takes for sent

rvars == <<store, wrong, writers, written, mixed, count, pending, rerr, rdone>>
cvars == <<link, data, asked, serve>>
wvars == <<work, conn, todo, inFlight, jobs, attempts, cancelled>>
svars == <<registered, sdone, serr, sent>>
vars == <<direction, rvars, recv, cvars, wvars, client, svars, host, edited, faults, lost>>

Idle == [step |-> "idle"]
HostError == [step |-> "error"]    \* an error message of the host instead of a chunk

-----------------------------------------------------------------------------
(* Init: both sides have created their ends; nothing is connected yet *)

Awaited(have) == Blobs \ have

\* downloadChunkGroups: the chunks are dealt out to the workers.
Group(w) ==
    [k \in 1..((Len(Plan) + Parallel - w) \div Parallel) |-> Plan[(k - 1) * Parallel + w]]

Init ==
    /\ direction \in {"upload", "download"}
    /\ store \in StoredBefore
    /\ wrong = {} /\ mixed = {}
    /\ writers = Awaited(store)
    /\ pending = Cardinality(Awaited(store))
    /\ written = {}
    /\ count = [b \in Blobs |-> 0]
    /\ rerr = FALSE
    /\ rdone = (pending = 0)
    /\ recv = [c \in Conns |-> Idle]
    /\ link = [c \in Conns |-> "none"]
    /\ data = [c \in Conns |-> <<>>]
    /\ asked = [c \in Conns |-> <<>>]
    /\ serve = [c \in Conns |-> "off"]
    /\ work = [w \in Workers |-> "busy"]
    /\ conn = [w \in Workers |-> NoConn]
    /\ inFlight = [w \in Workers |-> <<>>]
    /\ jobs = IF direction = "upload" THEN Plan ELSE <<>>
    /\ todo = [w \in Workers |-> IF direction = "upload" THEN <<>> ELSE Group(w)]
    /\ attempts = [ch \in Chunks |-> 0]
    /\ cancelled = FALSE
    /\ client = "running"
    /\ registered = TRUE /\ sdone = FALSE /\ serr = FALSE
    /\ sent = {}
    /\ host = "read"
    /\ edited = {}
    /\ faults = 0
    /\ lost = FALSE

-----------------------------------------------------------------------------
(* The receiver *)

\* Fault: with the temporary files the blobs that others stored are removed.
FailRemovesStored ==
    /\ rerr' = TRUE
    /\ rdone' = TRUE
    /\ writers' = IF rerr THEN writers ELSE {}
    /\ store' = IF rerr THEN store ELSE store \ writers
    /\ UNCHANGED <<wrong, written, mixed, count, pending>>

\* ChunkedBlobReceiver.fail: the first error closes and removes all temporary files.
ReceiverFails ==
    /\ rerr' = TRUE
    /\ rdone' = TRUE
    /\ writers' = IF rerr THEN writers ELSE {}
    /\ UNCHANGED <<store, wrong, written, mixed, count, pending>>

\* The next step of a chunk; the handler of an upload goes on reading when it is done.
Result(c, r) ==
    recv' = [recv EXCEPT ![c] = IF r = "received" /\ direction = "upload" THEN Idle
                                ELSE [@ EXCEPT !.step = r]]

\* ReceiveChunk, with a chunk read from the connection: up to the lock's release.
\* A chunk of a blob that is in the store already is read and dropped.
ReceiveStart(c) ==
    LET m == Head(data[c])
        started(step) == [step |-> step, ch |-> m.ch, ok |-> m.ok]
        next(step) == recv' = [recv EXCEPT ![c] = started(step)]
    IN
    /\ recv[c] = Idle
    /\ data[c] # <<>>
    /\ m # HostError
    /\ data' = [data EXCEPT ![c] = Tail(@)]
    /\ \/ rerr /\ next("error")
       \/ ~rerr /\ m.ch.hash \in writers /\ next("write")
       \/ /\ ~rerr /\ m.ch.hash \in store \ writers
          /\ IF direction = "upload" THEN UNCHANGED recv ELSE next("received")
    /\ UNCHANGED rvars

\* All but the first n chunks of a connection are lost, and the sender of one of them
\* takes it for sent.
Drops(c, n) == \E i \in (n + 1)..Len(data[c]) : data[c][i] # HostError /\ data[c][i].taken

\* The connection broke within the chunk (ChunkReadError).
ReceiveCut(c) ==
    /\ recv[c] = Idle
    /\ data[c] # <<>>
    /\ link[c] = "cut"
    /\ recv' = [recv EXCEPT ![c] = [step |-> "broken"]]
    /\ data' = [data EXCEPT ![c] = <<>>]
    /\ lost' = (lost \/ Drops(c, 0))
    /\ UNCHANGED rvars

\* Fault: a chunk that was written before is written and counted again.
WriteAgain(c) ==
    LET ch == recv[c].ch IN
    /\ recv[c].step = "write"
    /\ \/ /\ rerr
          /\ Result(c, "error")
          /\ UNCHANGED rvars
       \/ /\ ~rerr
          /\ written' = written \cup {ch}
          /\ mixed' = IF recv[c].ok THEN mixed ELSE mixed \cup {ch.hash}
          /\ count' = [count EXCEPT ![ch.hash] = @ + 1]
          /\ Result(c, IF count'[ch.hash] = Cardinality(ChunksOf(ch.hash))
                       THEN "commit" ELSE "received")
          /\ UNCHANGED <<store, wrong, writers, pending, rerr, rdone>>

\* writeChunk, under the writer's lock: a chunk that was written before is ignored.
\* When the receiver has failed, the file is closed.
ReceiveWrite(c) ==
    LET ch == recv[c].ch IN
    /\ recv[c].step = "write"
    /\ \/ ch \in written /\ Result(c, "received") /\ UNCHANGED rvars
       \/ ch \notin written /\ rerr /\ Result(c, "error") /\ UNCHANGED rvars
       \/ /\ ch \notin written
          /\ ~rerr
          /\ written' = written \cup {ch}
          /\ mixed' = IF recv[c].ok THEN mixed ELSE mixed \cup {ch.hash}
          /\ count' = [count EXCEPT ![ch.hash] = @ + 1]
          /\ Result(c, IF count'[ch.hash] = Cardinality(ChunksOf(ch.hash))
                       THEN "commit" ELSE "received")
          /\ UNCHANGED <<store, wrong, writers, pending, rerr, rdone>>

\* Fault: the blob is moved into the store without a look at its hash.
CommitUnchecked(c) ==
    LET b == recv[c].ch.hash IN
    /\ recv[c].step = "commit"
    /\ ~rerr
    /\ Result(c, "count")
    /\ store' = store \cup {b}
    /\ wrong' = IF b \in mixed \ store THEN wrong \cup {b} ELSE wrong
    /\ UNCHANGED <<writers, written, mixed, count, pending, rerr, rdone>>

\* commit: the file is moved into the store when its hash is right.
ReceiveCommit(c) ==
    LET b == recv[c].ch.hash
        intact == b \notin mixed /\ ChunksOf(b) \subseteq written
    IN
    /\ recv[c].step = "commit"
    /\ \/ /\ ~rerr /\ intact
          /\ Result(c, "count")
          /\ store' = store \cup {b}
          /\ UNCHANGED <<wrong, writers, written, mixed, count, pending, rerr, rdone>>
       \/ /\ rerr \/ ~intact
          /\ Result(c, "error")
          /\ ReceiverFails

\* Back under the receiver's lock.
ReceiveCount(c) ==
    /\ recv[c].step = "count"
    /\ Result(c, "received")
    /\ writers' = writers \ {recv[c].ch.hash}
    /\ pending' = pending - 1
    /\ rdone' = (rdone \/ pending' = 0)
    /\ UNCHANGED <<store, wrong, written, mixed, count, rerr>>

Receive(c) ==
    /\ IF direction = "upload" THEN serve[c] = "on" ELSE \E w \in Workers : conn[w] = c
    /\ \/ ReceiveStart(c) /\ UNCHANGED lost
       \/ ReceiveCut(c)
       \/ /\ ReceiveWrite(c) \/ ReceiveCommit(c) \/ ReceiveCount(c)
          /\ UNCHANGED <<data, lost>>
    /\ UNCHANGED <<direction, link, asked, serve, wvars, client, svars, host, edited, faults>>

-----------------------------------------------------------------------------
(* The client's workers *)

\* A connection that neither side uses any more can be used for a new one.
FreeConns == {c \in Conns :
    /\ \A w \in Workers : conn[w] # c
    /\ \/ link[c] = "none"
       \/ link[c] # "open" /\ serve[c] = "off" /\ recv[c] = Idle}

\* One side closes a connection; what was written to it still arrives.
Close(c) == link' = [link EXCEPT ![c] = IF @ = "open" THEN "closed" ELSE @]

Fault == faults < MaxFaults /\ faults' = faults + 1

\* dialBlobTransferConn; the host serves a connection whose session is registered.
Dial(w) ==
    /\ work[w] = "busy"
    /\ conn[w] = NoConn
    /\ todo[w] # <<>>
    /\ ~cancelled
    /\ FreeConns # {}
    /\ LET c == Min(FreeConns) IN
        /\ conn' = [conn EXCEPT ![w] = c]
        /\ link' = [link EXCEPT ![c] = IF registered THEN "open" ELSE "closed"]
        /\ data' = [data EXCEPT ![c] = <<>>]
        /\ asked' = [asked EXCEPT ![c] = <<>>]
        /\ serve' = [serve EXCEPT ![c] = IF registered THEN "on" ELSE "off"]
    /\ UNCHANGED <<direction, rvars, recv, work, todo, inFlight, jobs, attempts, cancelled,
                   client, svars, host, edited, faults, lost>>

\* The worker returns an error: the first one cancels the others' context.
GiveUp(w) ==
    /\ work' = [work EXCEPT ![w] = "failed"]
    /\ cancelled' = TRUE
    /\ conn' = [conn EXCEPT ![w] = NoConn]
    /\ todo' = [todo EXCEPT ![w] = <<>>]
    /\ inFlight' = [inFlight EXCEPT ![w] = <<>>]

\* The chunks a worker has to repeat when its connection fails.
Failed(w) == IF direction = "upload" THEN todo[w] ELSE inFlight[w]

\* Fault: the chunks that were requested before the connection broke are forgotten.
ForgetInFlight(w, retryable) ==
    LET tries == [ch \in Chunks |-> IF ch \in ToSet(Failed(w)) THEN attempts[ch] + 1
                                    ELSE attempts[ch]]
    IN
    /\ attempts' = tries
    /\ IF \/ ~retryable \/ cancelled \/ Failed(w) = <<>>
          \/ \E ch \in ToSet(Failed(w)) : tries[ch] >= MaxAttempts
       THEN GiveUp(w)
       ELSE /\ conn' = [conn EXCEPT ![w] = NoConn]
            /\ inFlight' = [inFlight EXCEPT ![w] = <<>>]
            /\ UNCHANGED <<work, todo, cancelled>>

\* retryBlobTransferChunk and retryDownloadPipeline: an error that is no disconnect,
\* a cancelled context and too many attempts end the worker.  The pipeline also ends
\* when nothing was requested yet.  Otherwise it starts again without a connection.
Retry(w, retryable) ==
    LET tries == [ch \in Chunks |-> IF ch \in ToSet(Failed(w)) THEN attempts[ch] + 1
                                    ELSE attempts[ch]]
    IN
    /\ attempts' = tries
    /\ IF \/ ~retryable \/ cancelled \/ Failed(w) = <<>>
          \/ \E ch \in ToSet(Failed(w)) : tries[ch] >= MaxAttempts
       THEN GiveUp(w)
       ELSE /\ conn' = [conn EXCEPT ![w] = NoConn]
            /\ todo' = [todo EXCEPT ![w] = IF direction = "upload" THEN @
                                           ELSE inFlight[w] \o @]
            /\ inFlight' = [inFlight EXCEPT ![w] = <<>>]
            /\ UNCHANGED <<work, cancelled>>

DialFails(w) ==
    /\ work[w] = "busy"
    /\ conn[w] = NoConn
    /\ todo[w] # <<>>
    /\ Fault
    /\ Retry(w, TRUE)
    /\ UNCHANGED <<direction, rvars, recv, cvars, jobs, client, svars, host, edited, lost>>

\* A worker sees that another one has failed: before an attempt, or when it dials.
WorkerCancelled(w) ==
    /\ work[w] = "busy"
    /\ cancelled
    /\ todo[w] # <<>>
    /\ direction = "upload" \/ conn[w] = NoConn
    /\ GiveUp(w)
    /\ UNCHANGED <<direction, rvars, recv, cvars, jobs, attempts, client, svars, host, edited,
                   faults, lost>>

\* A worker of an upload takes the next chunk.
TakeJob(w) ==
    /\ direction = "upload"
    /\ work[w] = "busy"
    /\ todo[w] = <<>>
    /\ jobs # <<>>
    /\ ~cancelled
    /\ todo' = [todo EXCEPT ![w] = <<Head(jobs)>>]
    /\ jobs' = Tail(jobs)
    /\ UNCHANGED <<direction, rvars, recv, cvars, work, conn, inFlight, attempts, cancelled,
                   client, svars, host, edited, faults, lost>>

\* uploadBlobChunk: the chunk is written to the connection.  What is written to a
\* broken connection may be lost without an error, and what gave an error may
\* have arrived.
SendChunk(w) ==
    LET c == conn[w]
        ch == Head(todo[w])
        m(taken) == [ch |-> ch, ok |-> ch.hash \notin edited, taken |-> taken]
        taken == todo' = [todo EXCEPT ![w] = <<>>]
    IN
    /\ direction = "upload"
    /\ work[w] = "busy"
    /\ todo[w] # <<>>
    /\ c # NoConn
    /\ \/ /\ link[c] = "open"
          /\ data' = [data EXCEPT ![c] = Append(@, m(TRUE))]
          /\ taken
          /\ UNCHANGED <<link, lost, work, conn, inFlight, attempts, cancelled>>
       \/ /\ link[c] # "open"
          /\ lost' = TRUE
          /\ taken
          /\ UNCHANGED <<link, data, work, conn, inFlight, attempts, cancelled>>
       \/ /\ link[c] # "open"
          /\ data' \in {data, [data EXCEPT ![c] = Append(@, m(FALSE))]}
          /\ Retry(w, TRUE)
          /\ UNCHANGED <<link, lost>>
    /\ UNCHANGED <<direction, rvars, recv, asked, serve, jobs, client, svars, host, edited,
                   faults>>

\* The source file cannot be read.
SourceFails(w) ==
    /\ direction = "upload"
    /\ work[w] = "busy"
    /\ todo[w] # <<>>
    /\ conn[w] # NoConn
    /\ Fault
    /\ Close(conn[w])
    /\ Retry(w, FALSE)
    /\ UNCHANGED <<direction, rvars, recv, data, asked, serve, jobs, client, svars, host,
                   edited, lost>>

\* fillDownloadPipeline: one more chunk is requested; the request may be lost.
RequestChunk(w) ==
    LET c == conn[w] IN
    /\ direction = "download"
    /\ work[w] = "busy"
    /\ todo[w] # <<>>
    /\ Len(inFlight[w]) < Window
    /\ c # NoConn
    /\ todo' = [todo EXCEPT ![w] = Tail(@)]
    /\ inFlight' = [inFlight EXCEPT ![w] = Append(@, Head(todo[w]))]
    /\ asked' = IF link[c] = "open" THEN [asked EXCEPT ![c] = Append(@, Head(todo[w]))]
                ELSE asked
    /\ UNCHANGED <<direction, rvars, recv, link, data, serve, work, conn, jobs, attempts,
                   cancelled, client, svars, host, edited, faults, lost>>

Reading(w) ==
    /\ direction = "download"
    /\ work[w] = "busy"
    /\ conn[w] # NoConn
    /\ inFlight[w] # <<>>
    /\ todo[w] = <<>> \/ Len(inFlight[w]) = Window

\* The worker has received a chunk: receiveDownloadBlobChunk returns.
ChunkReceived(w) ==
    /\ Reading(w)
    /\ recv[conn[w]].step = "received"
    /\ \E i \in DOMAIN inFlight[w] :
        /\ inFlight[w][i] = recv[conn[w]].ch
        /\ inFlight' = [inFlight EXCEPT ![w] = RemoveAt(@, i)]
    /\ recv' = [recv EXCEPT ![conn[w]] = Idle]
    /\ UNCHANGED <<direction, rvars, cvars, work, conn, todo, jobs, attempts, cancelled, client,
                   svars, host, edited, faults, lost>>

\* It has not: the connection ended, the host sent an error, or the receiver failed.
ReadFails(w) ==
    LET c == conn[w]
        over == recv[c].step = "broken" \/ (recv[c] = Idle /\ data[c] = <<>>)
    IN
    /\ Reading(w)
    /\ \/ recv[c] = Idle /\ data[c] = <<>> /\ link[c] # "open"
       \/ recv[c] = Idle /\ data[c] # <<>> /\ Head(data[c]) = HostError
       \/ recv[c].step \in {"broken", "error"}
    /\ IF recv[c].step = "error" THEN ReceiverFails ELSE UNCHANGED rvars
    /\ recv' = [recv EXCEPT ![c] = Idle]
    /\ data' = [data EXCEPT ![c] = <<>>]
    /\ Close(c)
    /\ Retry(w, over)
    /\ UNCHANGED <<direction, asked, serve, jobs, client, svars, host, edited, faults, lost>>

\* A worker has nothing left to do.
WorkerEnds(w) ==
    /\ work[w] = "busy"
    /\ todo[w] = <<>>
    /\ inFlight[w] = <<>>
    /\ direction = "upload" => jobs = <<>> \/ cancelled
    /\ work' = [work EXCEPT ![w] = "done"]
    /\ conn' = [conn EXCEPT ![w] = NoConn]
    /\ IF conn[w] = NoConn THEN UNCHANGED link ELSE Close(conn[w])
    /\ UNCHANGED <<direction, rvars, recv, data, asked, serve, todo, inFlight, jobs, attempts,
                   cancelled, client, svars, host, edited, faults, lost>>

\* sendMissingBlobsParallel: all workers have ended.
UploadEnds ==
    /\ direction = "upload"
    /\ client = "running"
    /\ \A w \in Workers : work[w] # "busy"
    /\ client' = IF \E w \in Workers : work[w] = "failed" THEN "failed" ELSE "complete"
    /\ UNCHANGED <<direction, rvars, recv, cvars, wvars, svars, host, edited, faults, lost>>

\* waitForBlobDownload: the workers and the receiver are done.
DownloadEnds ==
    /\ direction = "download"
    /\ client = "running"
    /\ \A w \in Workers : work[w] = "done"
    /\ rdone /\ ~rerr
    /\ client' = "complete"
    /\ UNCHANGED <<direction, rvars, recv, cvars, wvars, svars, host, edited, faults, lost>>

\* waitForBlobDownload: a worker or the receiver failed.
DownloadFails ==
    /\ direction = "download"
    /\ client = "running"
    /\ rerr \/ \E w \in Workers : work[w] = "failed"
    /\ ReceiverFails
    /\ client' = "failed"
    /\ cancelled' = TRUE
    /\ UNCHANGED <<direction, recv, cvars, work, conn, todo, inFlight, jobs, attempts, svars,
                   host, edited, faults, lost>>

\* The client is stopped, or loses the control connection.
ClientStops ==
    /\ client \in {"running", "complete"}
    /\ Fault
    /\ client' = IF client = "running" THEN "failed" ELSE "left"
    /\ cancelled' = TRUE
    /\ IF direction = "download" /\ client = "running" THEN ReceiverFails ELSE UNCHANGED rvars
    /\ UNCHANGED <<direction, recv, cvars, work, conn, todo, inFlight, jobs, attempts, svars,
                   host, edited, lost>>

-----------------------------------------------------------------------------
(* The host *)

\* blobTransferSession.fail; only an upload's session has the receiver.
SessionFails ==
    /\ serr' = TRUE
    /\ sdone' = TRUE
    /\ IF direction = "upload" /\ ~serr THEN ReceiverFails ELSE UNCHANGED rvars

EndServe(c) ==
    /\ serve' = [serve EXCEPT ![c] = "off"]
    /\ Close(c)

\* receiveBlobTransfer returns: a disconnect is no error of the session.
ServeUpload(c) ==
    /\ direction = "upload"
    /\ serve[c] = "on"
    /\ \/ /\ recv[c].step = "broken" \/ (recv[c] = Idle /\ data[c] = <<>> /\ link[c] # "open")
          /\ recv' = [recv EXCEPT ![c] = Idle]
          /\ EndServe(c)
          /\ UNCHANGED <<rvars, data, asked, svars>>
       \/ /\ recv[c].step = "error"
          /\ recv' = [recv EXCEPT ![c] = Idle]
          /\ SessionFails
          /\ EndServe(c)
          /\ UNCHANGED <<data, asked, registered, sent>>
    /\ UNCHANGED <<direction, wvars, client, host, edited, faults, lost>>

\* sendRequestedBlobChunk: it is sent, and counts as sent, even if it gets lost.
ServeDownload(c) ==
    LET ch == Head(asked[c]) IN
    /\ direction = "download"
    /\ serve[c] = "on"
    /\ asked[c] # <<>>
    /\ asked' = [asked EXCEPT ![c] = Tail(@)]
    /\ data' = IF link[c] # "open" THEN data
               ELSE [data EXCEPT ![c] = Append(@, [ch |-> ch, ok |-> TRUE, taken |-> FALSE])]
    /\ sent' = sent \cup {ch}
    /\ sdone' = (sdone \/ sent' = Chunks)
    /\ UNCHANGED <<direction, rvars, recv, link, serve, wvars, client, registered, serr, host,
                   edited, faults, lost>>

\* The requested chunk cannot be read: the session fails and the client is told.
ServeDownloadFails(c) ==
    /\ direction = "download"
    /\ serve[c] = "on"
    /\ asked[c] # <<>>
    /\ Fault
    /\ SessionFails
    /\ data' = [data EXCEPT ![c] = Append(@, HostError)]
    /\ asked' = [asked EXCEPT ![c] = <<>>]
    /\ EndServe(c)
    /\ UNCHANGED <<direction, recv, wvars, client, registered, sent, host, edited, lost>>

\* The client closed the connection, or it broke.
ServeDownloadEnds(c) ==
    /\ direction = "download"
    /\ serve[c] = "on"
    /\ link[c] # "open"
    /\ serve' = [serve EXCEPT ![c] = "off"]
    /\ asked' = [asked EXCEPT ![c] = <<>>]
    /\ UNCHANGED <<direction, rvars, recv, link, data, wvars, client, svars, host, edited,
                   faults, lost>>

\* The goroutine of newBlobReceiveSession: the receiver is done.
ReceiverWaited ==
    /\ direction = "upload"
    /\ rdone
    /\ ~sdone
    /\ IF rerr THEN SessionFails ELSE sdone' = TRUE /\ UNCHANGED <<rvars, serr>>
    /\ UNCHANGED <<direction, recv, cvars, wvars, client, registered, sent, host, edited, faults,
                   lost>>

\* SyncComplete arrives on the control connection.
SyncComplete ==
    /\ client \in {"complete", "left"}
    /\ host = "read"
    /\ host' = "wait"
    /\ UNCHANGED <<direction, rvars, recv, cvars, wvars, client, svars, edited, faults, lost>>

\* Fault: the end of the session is taken for the end of the client's part.
HostEndsEarly ==
    /\ sdone
    /\ host \in {"read", "wait"}
    /\ host' = IF serr THEN "failed" ELSE "done"
    /\ registered' = FALSE
    /\ UNCHANGED <<direction, rvars, recv, cvars, wvars, client, sdone, serr, sent, edited,
                   faults, lost>>

\* The session is done: waitForClientBlobTransfer and, when it also has read
\* SyncComplete, waitForClientSyncCompleteAndBlobTransfer return.  The latter
\* returns an error of the session at once.
HostEnds ==
    /\ sdone
    /\ \/ host = "wait"
       \/ host = "read" /\ direction = "download" /\ serr
    /\ host' = IF serr THEN "failed" ELSE "done"
    /\ registered' = FALSE
    /\ UNCHANGED <<direction, rvars, recv, cvars, wvars, client, sdone, serr, sent, edited,
                   faults, lost>>

\* The control connection ended.
HostLosesClient ==
    /\ client \in {"failed", "left"}
    /\ host \in {"read", "wait"}
    /\ host' = "failed"
    /\ registered' = FALSE
    /\ SessionFails
    /\ UNCHANGED <<direction, recv, cvars, wvars, client, sent, edited, faults, lost>>

-----------------------------------------------------------------------------
(* The world *)

\* A connection breaks: a suffix of what is on its way is lost.
Cut(c) ==
    /\ link[c] \in {"open", "closed"}
    /\ serve[c] # "off"
    /\ Fault
    /\ link' = [link EXCEPT ![c] = "cut"]
    /\ asked' = [asked EXCEPT ![c] = <<>>]
    /\ \E n \in 0..Len(data[c]) :
        /\ data' = [data EXCEPT ![c] = SubSeq(@, 1, n)]
        /\ lost' = (lost \/ Drops(c, n))
    /\ UNCHANGED <<direction, rvars, recv, serve, wvars, client, svars, host, edited>>

\* A source file of an upload changes after it was hashed.
Edit(b) ==
    /\ direction = "upload"
    /\ Fault
    /\ edited' = edited \cup {b}
    /\ UNCHANGED <<direction, rvars, recv, cvars, wvars, client, svars, host, lost>>

\* Another context's transfer stores a blob.
StoredByOther(b) ==
    /\ b \notin store
    /\ Fault
    /\ store' = store \cup {b}
    /\ UNCHANGED <<direction, wrong, writers, written, mixed, count, pending, rerr, rdone, recv,
                   cvars, wvars, client, svars, host, edited, lost>>

-----------------------------------------------------------------------------
Worker(w) ==
    \/ Dial(w) \/ TakeJob(w) \/ SendChunk(w) \/ RequestChunk(w) \/ ChunkReceived(w)
    \/ ReadFails(w) \/ WorkerEnds(w) \/ WorkerCancelled(w)

Serve(c) == ServeUpload(c) \/ ServeDownload(c) \/ ServeDownloadEnds(c)

Ends ==
    \/ UploadEnds \/ DownloadEnds \/ DownloadFails
    \/ ReceiverWaited \/ SyncComplete \/ HostEnds \/ HostLosesClient

Faults ==
    \/ \E c \in Conns : Cut(c) \/ ServeDownloadFails(c)
    \/ \E w \in Workers : DialFails(w) \/ SourceFails(w)
    \/ \E b \in Blobs : Edit(b) \/ StoredByOther(b)
    \/ ClientStops

Steps ==
    \/ \E w \in Workers : Worker(w)
    \/ \E c \in Conns : Receive(c) \/ Serve(c)
    \/ Ends

Next == Steps \/ Faults

Spec == Init /\ [][Next]_vars

\* Heartbeats and idle deadlines make both ends of a connection notice its end, and
\* what the program can do it does.  No worker or handler can go on for ever, so
\* this needs no fairness among them.
FairSpec == Spec /\ WF_vars(Steps)

-----------------------------------------------------------------------------
(* Properties *)

TypeOK ==
    /\ direction \in {"upload", "download"}
    /\ store \subseteq Blobs /\ wrong \subseteq Blobs /\ writers \subseteq Blobs
    /\ mixed \subseteq Blobs /\ edited \subseteq Blobs
    /\ written \subseteq Chunks /\ sent \subseteq Chunks
    /\ count \in [Blobs -> Nat] /\ pending \in Int
    /\ {rerr, rdone, cancelled, registered, sdone, serr, lost} \subseteq BOOLEAN
    /\ \A c \in Conns : recv[c] = Idle \/ recv[c] = [step |-> "broken"] \/
            recv[c] \in [step : {"write", "commit", "count", "received", "error"},
                          ch : Chunks, ok : BOOLEAN]
    /\ link \in [Conns -> {"none", "open", "closed", "cut"}]
    /\ serve \in [Conns -> {"on", "off"}]
    /\ work \in [Workers -> {"busy", "done", "failed"}]
    /\ conn \in [Workers -> Conns \cup {NoConn}]
    /\ \A w \in Workers : ToSet(todo[w]) \cup ToSet(inFlight[w]) \subseteq Chunks
    /\ attempts \in [Chunks -> 0..MaxAttempts]
    /\ client \in {"running", "complete", "failed", "left"}
    /\ host \in {"read", "wait", "done", "failed"}

\* The state is well-typed, and the receiver counts each chunk and each blob once, however often chunks are repeated
\* on other connections: it closes its channel exactly when no temporary file is left, and
\* then every blob is in the store.  A blob that is moved into the store has the content
\* of its hash, even when the file changes while its chunks are sent.
CountedOnce ==
    /\ TypeOK
    /\ wrong = {}
    /\ ~rerr =>
          /\ \A b \in Blobs : count[b] = Cardinality(written \cap ChunksOf(b))
          /\ pending = Cardinality(writers)
          /\ rdone <=> writers = {}
          /\ writers \cup store = Blobs

\* The two sides agree: when the host takes the transfer for done, every blob is in
\* the receiver's store and the client has completed its part.
HostAgrees ==
    host = "done" => store = Blobs /\ client \in {"complete", "left"}

Outcome ==
    IF direction = "upload"
    THEN IF host \in {"read", "wait"} THEN "running" ELSE host
    ELSE IF client = "running" THEN "running"
    ELSE IF client = "failed" THEN "failed" ELSE "done"

\* A transfer in either direction is what a synchronization expects of it.
Abstract == INSTANCE Transfer WITH Blobs <- Blobs, arrived <- store, outcome <- Outcome
ImplementsTransfer == Abstract!Spec

\* A transfer ends on both sides, whatever connections break, unless a chunk of an
\* upload was lost that its worker takes for sent: nothing repeats that chunk.
TransferEnds == <>(lost \/ (client # "running" /\ host \in {"done", "failed"}))
=============================================================================
