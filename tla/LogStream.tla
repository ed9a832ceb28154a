----------------------------- MODULE LogStream ------------------------------
(***************************************************************************)
(* The log lines that the host streams to the client of one request        *)
(* (host/log_stream.go): a bounded queue that drops its oldest lines for a *)
(* slow client, a goroutine that writes it to the connection, and the      *)
(* request's handler, which flushes the queue before it answers and closes *)
(* it at the end (host/server.go).  A ticker (host/command_logging.go)     *)
(* adds lines while a command is running.  The goroutine and the handler   *)
(* sleep on the same condition variable.                                   *)
(*                                                                         *)
(* The queue is its slice from head on: where the slice is moved to the    *)
(* front again does not matter here.                                       *)
(***************************************************************************)
EXTENDS Integers, Sequences, FiniteSets, SequencesExt, FiniteSetsExt

CONSTANTS
    MaxBytes,   \* maxQueuedLogBytes
    MaxItems,   \* maxQueuedLogItems
    MarkerLen,  \* the length of droppedLogMarker
    Lengths,    \* the lengths of lines
    MaxLines    \* bound: lines

ASSUME LogStreamAssumption ==
    /\ MarkerLen \in 1..(MaxBytes - 1) /\ MaxBytes \in Nat /\ MaxItems \in Nat \ {0, 1}
    /\ Lengths \subseteq Nat \ {0} /\ MaxLines \in Nat

Marker == 0
NoItem == [id |-> -1, len |-> 0]

VARIABLES
    queue,      \* lines, numbered in the order of their arrival, and markers
    bytes,      \* queuedBytes
    writing,    \* the item that the goroutine has taken, or NoItem
    closed, failed,     \* closed, err
    sleepers,   \* who waits on cond, in this order
    goroutine,  \* run: "next", "write" or "ended"
    handler,    \* "work", "stop", "flush", "answer", "leave", "close", "wait" or "done"
    ticker,     \* startRunLogProgress: "on", "told" or "off"
    reading,    \* the client is there and reads
    deadline,   \* the connection has a write deadline
    lines,      \* the number of lines so far
    sent,       \* what the client got
    answered    \* it got the answer too

queueVars == <<queue, bytes>>
stream == <<queueVars, writing, closed, failed, sleepers, goroutine, sent>>
request == <<handler, ticker, deadline, answered>>
vars == <<stream, request, reading, lines>>

Init ==
    /\ queue = <<>> /\ bytes = 0 /\ writing = NoItem
    /\ closed = FALSE /\ failed = FALSE
    /\ sleepers = <<>> /\ goroutine = "next"
    /\ handler = "work" /\ ticker = "on"
    /\ reading = TRUE /\ deadline = TRUE
    /\ lines = 0 /\ sent = <<>> /\ answered = FALSE

Awake(who) == who \notin ToSet(sleepers)

\* The lengths of the items, added up.
Sum(items) ==
    LET total[k \in 0..Len(items)] == IF k = 0 THEN 0 ELSE total[k - 1] + items[k].len
    IN  total[Len(items)]

-----------------------------------------------------------------------------
(* The queue *)

\* Fault: there may be one item too many.
FitsLoosely(q, n, limit) == q.bytes + n <= MaxBytes /\ Len(q.items) <= limit

\* By the counter of bytes, there is room for n bytes more and for one more item.
Fits(q, n, limit) == q.bytes + n <= MaxBytes /\ Len(q.items) < limit

\* The queue without its k oldest items.
Without(q, k) ==
    [items |-> SubSeq(q.items, k + 1, Len(q.items)),
     bytes |-> q.bytes - Sum(SubSeq(q.items, 1, k))]

\* The loops of Enqueue: the oldest items are dropped until there is room.
Shed(q, n, limit) ==
    Without(q, Min({k \in 0..Len(q.items) :
                      k = Len(q.items) \/ Fits(Without(q, k), n, limit)}))

Push(q, item) == [items |-> Append(q.items, item), bytes |-> q.bytes + item.len]

\* The end of a line that is longer than everything that may be queued.
Cut(n, limit) == IF n > limit THEN limit ELSE n

\* Fault: only dropping for the sake of bytes is marked.
MarkIfBytes(q, rest, n) == rest # q /\ q.bytes + n > MaxBytes

\* dropped: lines were dropped for this one.
Mark(q, rest, n) == rest # q

\* A marker follows what was left when lines were dropped, and the line follows it.
Enqueued(q, id, n) ==
    LET len == Cut(n, MaxBytes)
        rest == Shed(q, len, MaxItems)
        short == Cut(len, MaxBytes - MarkerLen)
        marked == Push(Shed(rest, MarkerLen + short, MaxItems - 1),
                       [id |-> Marker, len |-> MarkerLen])
    IN  IF Mark(q, rest, len) THEN Push(marked, [id |-> id, len |-> short])
        ELSE Push(rest, [id |-> id, len |-> len])

\* Enqueue, which wakes one sleeper.
Enqueue(n) ==
    /\ lines < MaxLines /\ lines' = lines + 1
    /\ IF closed THEN UNCHANGED <<queueVars, sleepers>>
       ELSE /\ LET q == Enqueued([items |-> queue, bytes |-> bytes], lines + 1, n) IN
               queue' = q.items /\ bytes' = q.bytes
            /\ sleepers' = IF sleepers = <<>> THEN <<>> ELSE Tail(sleepers)
    /\ UNCHANGED <<writing, closed, failed, goroutine, sent, request, reading>>

-----------------------------------------------------------------------------
(* The goroutine that writes *)

\* next: it sleeps while there is nothing, and ends when the queue is closed.
NextItem ==
    /\ goroutine = "next" /\ Awake("run")
    /\ \/ /\ queue = <<>> /\ ~closed
          /\ sleepers' = Append(sleepers, "run")
          /\ UNCHANGED <<queueVars, writing, goroutine>>
       \/ /\ queue = <<>> /\ closed
          /\ goroutine' = "ended"
          /\ UNCHANGED <<queueVars, writing, sleepers>>
       \/ /\ queue # <<>>
          /\ writing' = Head(queue) /\ queue' = Tail(queue)
          /\ bytes' = bytes - Head(queue).len
          /\ goroutine' = "write"
          /\ UNCHANGED sleepers
    /\ UNCHANGED <<closed, failed, sent, request, reading, lines>>

\* Fault: no one is told that the item was written.
WroteQuietly ==
    /\ goroutine = "write" /\ reading
    /\ sent' = Append(sent, writing.id)
    /\ writing' = NoItem /\ goroutine' = "next"
    /\ UNCHANGED <<queueVars, closed, failed, sleepers, request, reading, lines>>

\* The item has been written, and all sleepers are woken.
Wrote ==
    /\ goroutine = "write" /\ reading
    /\ sent' = Append(sent, writing.id)
    /\ writing' = NoItem /\ goroutine' = "next"
    /\ sleepers' = <<>>
    /\ UNCHANGED <<queueVars, closed, failed, request, reading, lines>>

\* The connection breaks, or the client has not read for too long.
WriteFails(timeout) ==
    /\ goroutine = "write"
    /\ timeout => ~reading /\ deadline
    /\ writing' = NoItem /\ goroutine' = "next"
    /\ failed' = TRUE /\ closed' = TRUE
    /\ queue' = <<>> /\ bytes' = 0
    /\ sleepers' = <<>>
    /\ reading' = FALSE
    /\ UNCHANGED <<sent, request, lines>>

-----------------------------------------------------------------------------
(* The handler and the ticker *)

Step(from, to) == handler = from /\ handler' = to

\* The handler, or a process it waits for, logs a line; and so does the ticker.
LogLine == handler = "work" /\ \E n \in Lengths : Enqueue(n)
Tick == ticker = "on" /\ \E n \in Lengths : Enqueue(n)

\* The work is done, or fails; stopProgress tells the ticker.
WorkEnds ==
    /\ Step("work", "stop")
    /\ ticker' = "told"
    /\ UNCHANGED <<stream, deadline, answered, reading, lines>>

\* It waits until the ticker has stopped.
Stopped(next) == Step("stop", next) /\ ticker = "off" /\ UNCHANGED ticker

TickerStops ==
    /\ ticker = "told" /\ ticker' = "off"
    /\ UNCHANGED <<stream, handler, deadline, answered, reading, lines>>

\* What comes next is an answer or an error, after the logs; but when the client has
\* not been heard of for sessionIdleTimeout the handler leaves at once.
WorkStopped ==
    /\ Stopped("flush")
    /\ UNCHANGED <<stream, deadline, answered, reading, lines>>

WorkCutOff ==
    /\ ~reading /\ Stopped("leave")
    /\ UNCHANGED <<stream, deadline, answered, reading, lines>>

\* Fault: what is being written is not waited for.
FlushSleepsForQueue == ~failed /\ ~closed /\ queue # <<>>

\* The condition of Flush's loop.
FlushSleeps == ~failed /\ ~closed /\ (queue # <<>> \/ writing # NoItem)

Flush ==
    /\ handler = "flush" /\ Awake("flush")
    /\ IF FlushSleeps THEN sleepers' = Append(sleepers, "flush") /\ UNCHANGED handler
       ELSE handler' = "answer" /\ UNCHANGED sleepers
    /\ UNCHANGED <<queueVars, writing, closed, failed, goroutine, sent, ticker, deadline,
                   answered, reading, lines>>

\* The answer is written after Flush (writeJSONAfterLogs), or cannot be.
WriteAnswer ==
    /\ Step("answer", "leave")
    /\ answered' = reading
    /\ UNCHANGED <<stream, ticker, deadline, reading, lines>>

\* The deferred calls of handleConnRequest: stopLiveness takes the deadlines away,
\* then Close waits for the goroutine.
StopLiveness ==
    /\ Step("leave", "close")
    /\ deadline' = FALSE
    /\ UNCHANGED <<stream, ticker, answered, reading, lines>>

Close ==
    /\ Step("close", "wait")
    /\ closed' = TRUE /\ sleepers' = <<>>
    /\ UNCHANGED <<queueVars, writing, failed, goroutine, sent, ticker, deadline, answered,
                   reading, lines>>

Closed ==
    /\ Step("wait", "done")
    /\ goroutine = "ended"
    /\ UNCHANGED <<stream, ticker, deadline, answered, reading, lines>>

\* The client is suspended or loses its network, or comes back.
ClientStops ==
    /\ handler # "done"
    /\ ~failed
    /\ reading' = ~reading
    /\ UNCHANGED <<stream, request, lines>>

HandlerStep ==
    WorkStopped \/ WorkCutOff \/ Flush \/ WriteAnswer \/ StopLiveness \/ Close \/ Closed

Next ==
    \/ LogLine \/ Tick
    \/ NextItem \/ Wrote \/ \E timeout \in BOOLEAN : WriteFails(timeout)
    \/ WorkEnds \/ TickerStops \/ HandlerStep
    \/ ClientStops

Spec == Init /\ [][Next]_vars

\* Goroutines run; a write ends when the client reads, even if it does so off and on,
\* or with its deadline, as long as it has one.
FairSpec ==
    /\ Spec
    /\ WF_vars(HandlerStep) /\ WF_vars(TickerStops)
    /\ WF_vars(NextItem) /\ SF_vars(Wrote \/ WriteFails(TRUE))

-----------------------------------------------------------------------------
(* Properties *)

Items == [id : 0..MaxLines, len : 1..MaxBytes]

TypeOK ==
    /\ queue \in Seq(Items) /\ writing \in Items \cup {NoItem}
    /\ (writing # NoItem) = (goroutine = "write")
    /\ ToSet(sleepers) \subseteq {"run", "flush"} /\ Len(sleepers) <= 2
    /\ goroutine \in {"next", "write", "ended"} /\ ticker \in {"on", "told", "off"}
    /\ handler \in {"work", "stop", "flush", "answer", "leave", "close", "wait", "done"}
    /\ lines \in 0..MaxLines /\ sent \in Seq(0..MaxLines)

\* The state is well-typed; whatever is logged while a client is slow, both limits hold, the marker and a
\* line that is cut to fit included, and the bytes are counted as they are.
WithinLimits ==
    /\ TypeOK
    /\ bytes = Sum(queue) /\ bytes <= MaxBytes
    /\ Len(queue) <= MaxItems

\* All that the client has got or will get.
Stream ==
    sent \o (IF writing = NoItem THEN <<>> ELSE <<writing.id>>)
         \o [i \in DOMAIN queue |-> queue[i].id]

\* Lines keep their order, and a line that was dropped is followed by a marker that
\* comes after all lines before it: a marker is never dropped itself without another
\* in its place.  Nothing is promised on a connection that has failed.  The answer comes
\* after everything that was logged: nothing is left in the queue or half way when it is
\* written, and nothing is logged behind it.
LossMarked ==
    LET all == Stream IN
    /\ \A i, j \in DOMAIN all : i < j /\ all[j] # Marker => all[i] < all[j]
    /\ ~failed =>
          \A id \in 1..lines \ ToSet(all) :
             \E m \in DOMAIN all :
                /\ all[m] = Marker
                /\ \A i \in DOMAIN all : all[i] \in 1..(id - 1) => i < m
    /\ answered => queue = <<>> /\ writing = NoItem /\ ticker = "off"

\* Nothing is lost in a sleep: once its work has ended the handler ends, although
\* the writer and the handler sleep on the same variable and Enqueue wakes only one
\* of them.  Only a client that never reads again can keep it, because the deadlines
\* are taken away before the queue is closed.
RequestEnds ==
    handler = "stop" ~> (handler = "done" \/ [](~reading))
=============================================================================
