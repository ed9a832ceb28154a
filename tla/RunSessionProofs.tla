-------------------------- MODULE RunSessionProofs --------------------------
(***************************************************************************)
(* Proofs about RunSession, for any amount of input, any size of the queue *)
(* and any number of faults.                                               *)
(***************************************************************************)
EXTENDS RunSession, FiniteSetTheorems, FunctionTheorems, SequenceTheorems, TLAPS

-----------------------------------------------------------------------------
(* Frames in a connection *)

\* A frame is on its way, or at most one of its kind.
Has(f, s) == \E i \in DOMAIN s : s[i] = f
Once(f, s) == \A i, j \in DOMAIN s : s[i] = f /\ s[j] = f => i = j

\* The number of pieces of input on their way.
Pieces(s) == {i \in DOMAIN s : s[i] = "data"}

\* What a frame that is sent adds.
LEMMA AppendFrame ==
    ASSUME NEW S, NEW s \in Seq(S), NEW e \in S
    PROVE  /\ Append(s, e) \in Seq(S)
           /\ \A f : Has(f, Append(s, e)) <=> Has(f, s) \/ f = e
           /\ \A f : Once(f, s) /\ f # e => Once(f, Append(s, e))
           /\ \A f : ~Has(f, s) => Once(f, Append(s, e))
<1>1. /\ Append(s, e) \in Seq(S) /\ Len(Append(s, e)) = Len(s) + 1 /\ Len(s) \in Nat
      /\ DOMAIN s = 1..Len(s) /\ DOMAIN Append(s, e) = 1..(Len(s) + 1)
      /\ \A i \in 1..Len(s) : Append(s, e)[i] = s[i]
      /\ Append(s, e)[Len(s) + 1] = e
    BY AppendProperties
<1>. QED
    BY <1>1 DEF Has, Once

\* What a frame that is read takes away.
LEMMA TailFrame ==
    ASSUME NEW S, NEW s \in Seq(S), s # <<>>
    PROVE  /\ Tail(s) \in Seq(S) /\ Head(s) \in S /\ Has(Head(s), s)
           /\ \A f : Has(f, Tail(s)) => Has(f, s)
           /\ \A f : Once(f, s) => Once(f, Tail(s))
           /\ \A f : Once(f, s) /\ Head(s) = f => ~Has(f, Tail(s))
<1>1. /\ Tail(s) \in Seq(S) /\ Len(Tail(s)) = Len(s) - 1 /\ Len(s) \in Nat /\ Len(s) > 0
      /\ DOMAIN s = 1..Len(s) /\ DOMAIN Tail(s) = 1..(Len(s) - 1)
      /\ \A i \in 1..(Len(s) - 1) : Tail(s)[i] = s[i + 1]
      /\ Head(s) = s[1] /\ Head(s) \in S
    BY HeadTailProperties
<1>2. \A f, i : i \in DOMAIN Tail(s) /\ Tail(s)[i] = f
        => i + 1 \in DOMAIN s /\ s[i + 1] = f /\ i + 1 # 1 /\ i \in Nat
    BY <1>1
<1>3. Has(Head(s), s) /\ \A f : Has(f, Tail(s)) => Has(f, s)
    BY <1>1, <1>2 DEF Has
<1>4. ASSUME NEW f, Once(f, s) PROVE Once(f, Tail(s))
    BY <1>2, <1>4 DEF Once
<1>5. ASSUME NEW f, Once(f, s), Head(s) = f PROVE ~Has(f, Tail(s))
    <2>1. 1 \in DOMAIN s /\ s[1] = f
        BY <1>1, <1>5
    <2>. QED
        BY <1>2, <1>5, <2>1 DEF Has, Once
<1>. QED
    BY <1>1, <1>3, <1>4, <1>5

\* Nothing is in an empty connection.
LEMMA EmptyFrames == \A f : ~Has(f, <<>>) /\ Once(f, <<>>)
BY DEF Has, Once

\* The number of pieces is one of the naturals.
LEMMA PiecesFinite ==
    ASSUME NEW S, NEW s \in Seq(S)
    PROVE  IsFiniteSet(Pieces(s)) /\ Cardinality(Pieces(s)) \in Nat
<1>1. IsFiniteSet(1..Len(s)) /\ Pieces(s) \in SUBSET (1..Len(s))
    BY FS_Interval DEF Pieces
<1>. QED
    BY <1>1, FS_Subset, FS_CardinalityType

\* One more is sent.
LEMMA PiecesAppend ==
    ASSUME NEW S, NEW s \in Seq(S), NEW e \in S
    PROVE  Cardinality(Pieces(Append(s, e))) =
             Cardinality(Pieces(s)) + (IF e = "data" THEN 1 ELSE 0)
<1>1. /\ Len(s) \in Nat
      /\ DOMAIN s = 1..Len(s) /\ DOMAIN Append(s, e) = 1..(Len(s) + 1)
      /\ \A i \in 1..Len(s) : Append(s, e)[i] = s[i]
      /\ Append(s, e)[Len(s) + 1] = e
    BY AppendProperties
<1>2. Pieces(Append(s, e)) = IF e = "data" THEN Pieces(s) \cup {Len(s) + 1} ELSE Pieces(s)
    BY <1>1 DEF Pieces
<1>3. Len(s) + 1 \notin Pieces(s)
    BY <1>1 DEF Pieces
<1>4. IsFiniteSet(Pieces(s)) /\ Cardinality(Pieces(s)) \in Nat
    BY PiecesFinite
<1>5. Cardinality(Pieces(s) \cup {Len(s) + 1}) = Cardinality(Pieces(s)) + 1
    BY <1>3, <1>4, FS_AddElement
<1>. QED
    BY <1>2, <1>4, <1>5

\* One is read.
LEMMA PiecesTail ==
    ASSUME NEW S, NEW s \in Seq(S), s # <<>>
    PROVE  Cardinality(Pieces(Tail(s))) =
             Cardinality(Pieces(s)) - (IF Head(s) = "data" THEN 1 ELSE 0)
<1>1. /\ Tail(s) \in Seq(S) /\ Len(s) \in Nat /\ Len(s) > 0
      /\ DOMAIN s = 1..Len(s) /\ DOMAIN Tail(s) = 1..(Len(s) - 1)
      /\ \A i \in 1..(Len(s) - 1) : Tail(s)[i] = s[i + 1]
      /\ Head(s) = s[1]
    BY HeadTailProperties
<1> DEFINE T == Pieces(Tail(s))
           R == Pieces(s) \ {1}
           F == [i \in T |-> i + 1]
<1>2. F \in [T -> R] /\ \A i, j \in T : F[i] = F[j] => i = j
    BY <1>1 DEF Pieces
<1>3. ASSUME NEW j \in R PROVE \E i \in T : F[i] = j
    <2>1. j \in 2..Len(s) /\ s[j] = "data"
        BY <1>1 DEF Pieces
    <2>2. j - 1 \in T /\ (j - 1) + 1 = j
        BY <1>1, <2>1 DEF Pieces
    <2>. QED
        BY <2>2
<1>4. F \in Bijection(T, R)
    BY <1>2, <1>3, Fun_IsBij
<1>5. ExistsBijection(T, R)
    BY <1>4 DEF ExistsBijection
<1>6. Cardinality(R) = Cardinality(T)
    BY <1>1, <1>5, PiecesFinite, FS_Bijection
<1>7. 1 \in Pieces(s) <=> Head(s) = "data"
    BY <1>1 DEF Pieces
<1>8. IsFiniteSet(Pieces(s)) /\ Cardinality(Pieces(s)) \in Nat
    BY PiecesFinite
<1>9. Cardinality(R) = IF 1 \in Pieces(s) THEN Cardinality(Pieces(s)) - 1
                       ELSE Cardinality(Pieces(s))
    BY <1>8, FS_RemoveElement
<1>. QED
    BY <1>6, <1>7, <1>8, <1>9

-----------------------------------------------------------------------------
(* The state of the two ends and the frames between them *)

Before == {"sync", "setup", "command", "stop", "exit"}

\* Before the changes are announced nobody speaks of them; until the host has asked for
\* it, the second "complete" is not on its way.
SyncBackInv ==
    /\ host \in Before =>
          /\ ~Has("changes", down) /\ ~Has("grant", down) /\ ~Has("done", down)
          /\ ~Has("need", up)
          /\ client \in {"upload", "ready", "run", "failed"} /\ ~applied
    /\ host = "need" =>
          /\ ~Has("grant", down) /\ ~Has("done", down)
          /\ client \in {"ready", "run", "need", "failed"} /\ ~applied
          /\ Once("changes", down) /\ Once("need", up)
          /\ Has("changes", down) => ~Has("need", up) /\ client # "need"
    /\ host \in {"grant", "complete", "save", "done"} =>
          ~Has("changes", down) /\ ~Has("need", up)
    /\ host \in {"save", "done"} => applied
    /\ host \notin {"sync", "failed"} /\ Has("complete", up) => applied

\* While the host waits for the upload there is no more than the client's "complete".
UploadInv ==
    /\ host = "sync" => /\ down = <<>> /\ client \in {"upload", "ready", "failed"}
                        /\ Once("complete", up)
    /\ client = "upload" => ~Has("complete", up) /\ host \in {"sync", "failed"}

\* The connection is closed by the end that fails, and the end of the run is the host's.
EndInv ==
    /\ host = "failed" => link # "open"
    /\ link = "closed" => client = "failed" \/ host = "failed"
    /\ Has("done", down) \/ client \in {"last", "done"} => host = "done"

\* The command runs, and its output is read, only in one state of the host.
CommandInv ==
    /\ command \in {"running", "killed"} \/ pipe = "full" \/ copier = "on"
          => host = "command"
    /\ host \in {"sync", "setup"} => command = "none"
    /\ host = "sync" => reader = "off"
    /\ host = "command" => command # "none"
    /\ Has("exit", down) => host \notin {"sync", "setup", "command"}

\* Where a window's size, a cancel and a torn frame come from; the reader of a pipe has been told
\* to stop when the host comes to read itself.
CauseInv ==
    /\ resizer # "off" \/ Has("resize", up) => mode = "tty"
    /\ Has("cancel", up) => interrupted
    /\ mode = "pipe" /\ host \notin {"sync", "setup", "command", "failed"} => stopped
    /\ deadline = "now" => stopped
    /\ torn => stopped \/ mode = "tty"

-----------------------------------------------------------------------------
(* The input *)

\* The pieces that the reader has handed on.
Taken == IF reader = "put" THEN piece - 1 ELSE piece

\* The queue is fed to the command, or will be.
Feeds == command = "none" \/ copier = "on"

\* Nothing of what was handed on is dropped: a pipe's queue is not closed, a terminal is open.
Complete ==
    \/ mode = "tty" /\ command # "ended"
    \/ mode = "pipe" /\ ~stopped /\ Feeds

\* The command's input and then the queue are 1, 2, 3, ... up to what was handed on, as
\* long as the queue will still be fed to the command.
FeedInv ==
    /\ \A i \in DOMAIN got : got[i] = i
    /\ Feeds => \A i \in DOMAIN queue : queue[i] = Len(got) + i
    /\ reader # "end" /\ Complete => Len(got) + Len(queue) = Taken
    /\ command = "none" => got = <<>>
    /\ reader = "put" => piece > 0
    /\ mode = "tty" /\ command # "none" => queue = <<>>

\* The pieces that have arrived and those on their way were all sent.
CountInv == piece + Cardinality(Pieces(up)) <= input

-----------------------------------------------------------------------------
(* What a step may do to each variable *)

\* The frames of the client and of the host.
UpFrames == {"data", "close", "resize", "cancel", "beat", "need", "complete"}
DownFrames == {"ready", "out", "exit", "changes", "grant", "done", "error"}

\* What a step does to the frames on their way to the host.
LEMMA UpMoves ==
    [Next]_vars => \/ up' = up \/ up' = <<>>
                   \/ \E f \in UpFrames : up' = Append(up, f)
                   \/ up # <<>> /\ up' = Tail(up)
BY DEF UpFrames, Next, Client, User, Reader, Host, Process, Command, Faults,
        SendSyncComplete, Interrupt, ForwardCancel, SendInput, SendStdinClose,
        SendResize, SendHeartbeat, CloseSession, InterruptCloses, ClientReads, ClientApplies, ApplyFails, ClientEnds, ClientLosesHost,
        ReaderChecks, ReaderReads, ReaderFrame, ReaderPuts, ReaderDeadline,
        ReaderDisconnected, ReadUpload, StartReader, StartCommand, StartFails, AttachFails, CommandReads,
        CommandWrites, CommandExits, CommandDies, CopierEnds, StreamOutput, CommandWaited,
        ReaderStopped, SendExit, ReadNeed, GrantBlobs, ReadComplete, SaveAndFinish,
        SyncBackFails, HostLosesClient, HeartbeatFails, Break, ToHost, ClientFails, Fault,
        ReaderEnds, CancelRun, HostReads, HostFails, ToClient, StopReader, Forwarding, vars,
        cvars, hvars, ivars, history

\* What a step does to the frames on their way to the client.
LEMMA DownMoves ==
    [Next]_vars => \/ down' = down \/ down' = <<>>
                   \/ \E f \in DownFrames : down' = Append(down, f)
                   \/ down' = down \o <<"exit", "changes">>
                   \/ down # <<>> /\ down' = Tail(down)
<1> SUFFICES ASSUME [Next]_vars, down' # down, down' # <<>>,
                    ~(down # <<>> /\ down' = Tail(down)), down' # down \o <<"exit", "changes">>
             PROVE  \E f \in DownFrames : down' = Append(down, f)
    OBVIOUS
<1>1. \/ down' = Append(down, "ready") \/ down' = Append(down, "out")
      \/ down' = Append(down, "grant") \/ down' = Append(down, "done")
      \/ down' = Append(down, "error")
    BY DEF Next, Client, User, Reader, Host, Process, Command, Faults, SendSyncComplete,
        Interrupt, ForwardCancel, SendInput, SendStdinClose, SendResize, SendHeartbeat, CloseSession, InterruptCloses, ClientReads,
        ClientApplies, ApplyFails, ClientEnds, ClientLosesHost, ReaderChecks, ReaderReads,
        ReaderFrame, ReaderPuts, ReaderDeadline, ReaderDisconnected, ReadUpload,
        StartReader, StartCommand, StartFails, AttachFails, CommandReads, CommandWrites, CommandExits,
        CommandDies, CopierEnds, StreamOutput, CommandWaited, ReaderStopped, SendExit,
        ReadNeed, GrantBlobs, ReadComplete, SaveAndFinish, SyncBackFails, HostLosesClient,
        HeartbeatFails, Break, ToHost, ClientFails, Fault, ReaderEnds, CancelRun, HostReads,
        HostFails, ToClient, StopReader, Forwarding, vars, cvars, hvars, ivars, history

<1>. QED
    BY <1>1 DEF DownFrames

\* What a step does to the queue.
LEMMA QueueMoves ==
    [Next]_vars => \/ queue' = queue \/ queue' = <<>>
                   \/ reader = "put" /\ Len(queue) < MaxQueue /\ queue' = Append(queue, piece)
                   \/ queue # <<>> /\ queue' = Tail(queue)
BY DEF Next, Client, User, Reader, Host, Process, Command, Faults, SendSyncComplete,
        Interrupt, ForwardCancel, SendInput, SendStdinClose, SendResize, SendHeartbeat, CloseSession, InterruptCloses, ClientReads,
        ClientApplies, ApplyFails, ClientEnds, ClientLosesHost, ReaderChecks, ReaderReads,
        ReaderFrame, ReaderPuts, ReaderDeadline, ReaderDisconnected, ReadUpload,
        StartReader, StartCommand, StartFails, AttachFails, CommandReads, CommandWrites, CommandExits,
        CommandDies, CopierEnds, StreamOutput, CommandWaited, ReaderStopped, SendExit,
        ReadNeed, GrantBlobs, ReadComplete, SaveAndFinish, SyncBackFails, HostLosesClient,
        HeartbeatFails, Break, ToHost, ClientFails, Fault, ReaderEnds, CancelRun, HostReads,
        HostFails, ToClient, StopReader, Forwarding, vars, cvars, hvars, ivars, history

\* What a step does to the input of the command.
LEMMA GotMoves ==
    [Next]_vars => \/ got' = got \/ got' = <<>>
                   \/ got' = queue
                   \/ reader = "put" /\ got' = Append(got, piece)
                   \/ queue # <<>> /\ got' = Append(got, Head(queue))
BY DEF Next, Client, User, Reader, Host, Process, Command, Faults, SendSyncComplete,
        Interrupt, ForwardCancel, SendInput, SendStdinClose, SendResize, SendHeartbeat, CloseSession, InterruptCloses, ClientReads,
        ClientApplies, ApplyFails, ClientEnds, ClientLosesHost, ReaderChecks, ReaderReads,
        ReaderFrame, ReaderPuts, ReaderDeadline, ReaderDisconnected, ReadUpload,
        StartReader, StartCommand, StartFails, AttachFails, CommandReads, CommandWrites, CommandExits,
        CommandDies, CopierEnds, StreamOutput, CommandWaited, ReaderStopped, SendExit,
        ReadNeed, GrantBlobs, ReadComplete, SaveAndFinish, SyncBackFails, HostLosesClient,
        HeartbeatFails, Break, ToHost, ClientFails, Fault, ReaderEnds, CancelRun, HostReads,
        HostFails, ToClient, StopReader, Forwarding, vars, cvars, hvars, ivars, history

\* The reader counts the pieces that it reads.
LEMMA PieceMoves ==
    [Next]_vars => \/ piece' = piece
                   \/ up # <<>> /\ Head(up) = "data" /\ piece' = piece + 1
BY DEF Next, Client, User, Reader, Host, Process, Command, Faults, SendSyncComplete,
        Interrupt, ForwardCancel, SendInput, SendStdinClose, SendResize, SendHeartbeat, CloseSession, InterruptCloses, ClientReads,
        ClientApplies, ApplyFails, ClientEnds, ClientLosesHost, ReaderChecks, ReaderReads,
        ReaderFrame, ReaderPuts, ReaderDeadline, ReaderDisconnected, ReadUpload,
        StartReader, StartCommand, StartFails, AttachFails, CommandReads, CommandWrites, CommandExits,
        CommandDies, CopierEnds, StreamOutput, CommandWaited, ReaderStopped, SendExit,
        ReadNeed, GrantBlobs, ReadComplete, SaveAndFinish, SyncBackFails, HostLosesClient,
        HeartbeatFails, Break, ToHost, ClientFails, Fault, ReaderEnds, CancelRun, HostReads,
        HostFails, ToClient, StopReader, Forwarding, vars, cvars, hvars, ivars, history

\* The client sends no more than MaxInput pieces.
LEMMA InputMoves ==
    [Next]_vars => input' = input \/ (input < MaxInput /\ input' = input + 1)
BY DEF Next, Client, User, Reader, Host, Process, Command, Faults, SendSyncComplete,
        Interrupt, ForwardCancel, SendInput, SendStdinClose, SendResize, SendHeartbeat, CloseSession, InterruptCloses, ClientReads,
        ClientApplies, ApplyFails, ClientEnds, ClientLosesHost, ReaderChecks, ReaderReads,
        ReaderFrame, ReaderPuts, ReaderDeadline, ReaderDisconnected, ReadUpload,
        StartReader, StartCommand, StartFails, AttachFails, CommandReads, CommandWrites, CommandExits,
        CommandDies, CopierEnds, StreamOutput, CommandWaited, ReaderStopped, SendExit,
        ReadNeed, GrantBlobs, ReadComplete, SaveAndFinish, SyncBackFails, HostLosesClient,
        HeartbeatFails, Break, ToHost, ClientFails, Fault, ReaderEnds, CancelRun, HostReads,
        HostFails, ToClient, StopReader, Forwarding, vars, cvars, hvars, ivars, history

\* What the host makes of a frame that it reads itself.
HostMoves(state, frame, next) ==
    /\ host = state /\ up # <<>>
    /\ \/ up' = Tail(up) /\ UNCHANGED <<host, down, link, torn, why>>
       \/ /\ Head(up) = frame /\ up' = Tail(up) /\ host' = next
          /\ UNCHANGED <<down, link, torn, why>>
       \/ /\ host' = "failed" /\ up' = <<>> /\ (down' = down \/ down' = Append(down, "error"))
          /\ link' = IF link = "open" THEN "closed" ELSE link
          /\ \/ why' = "late cancel" /\ Head(up) = "cancel" /\ torn' = torn
             \/ why' = "late resize" /\ Head(up) = "resize" /\ torn' = torn
             \/ why' = "torn" /\ (torn \/ BothRead) /\ torn' = TRUE
             \/ /\ why' = "frame" /\ torn' = torn
                /\ Head(up) \notin {"beat", "data", "close", "cancel", "resize", frame}
    /\ deadline' = "idle"
    /\ UNCHANGED <<mode, cvars, ctx, command, pipe, copier, got, queue, qclosed,
                   stopped, reader, piece, rclosed, faults, stolen>>

\* HostReads does no more than HostMoves says.
LEMMA HostReadsMoves ==
    ASSUME NEW state, NEW frame, NEW next, HostReads(state, frame, next)
    PROVE  HostMoves(state, frame, next)
<1> USE DEF HostReads, HostMoves
<1>1. /\ host = state /\ up # <<>> /\ deadline' = "idle"
      /\ UNCHANGED <<mode, cvars, ctx, command, pipe, copier, got, queue, qclosed,
                     stopped, reader, piece, rclosed, faults, stolen>>
    OBVIOUS
<1>2. CASE up' = Tail(up) /\ UNCHANGED <<host, down, link, torn, why>>
    BY <1>1, <1>2
<1>3. CASE /\ Head(up) = frame /\ up' = Tail(up) /\ host' = next
           /\ UNCHANGED <<down, link, torn, why>>
    BY <1>1, <1>3
<1>4. CASE HostFails("late cancel", FALSE) /\ Head(up) = "cancel" /\ UNCHANGED torn
    BY <1>1, <1>4 DEF HostFails
<1>5. CASE HostFails("late resize", TRUE) /\ Head(up) = "resize" /\ UNCHANGED torn
    BY <1>1, <1>5 DEF HostFails
<1>6. CASE HostFails("torn", TRUE) /\ (torn \/ BothRead) /\ torn' = TRUE
    BY <1>1, <1>6 DEF HostFails
<1>7. CASE /\ HostFails("frame", TRUE) /\ UNCHANGED torn
           /\ Head(up) \notin {"beat", "data", "close", "cancel", "resize", frame}
    BY <1>1, <1>7 DEF HostFails
<1>. QED
    BY <1>2, <1>3, <1>4, <1>5, <1>6, <1>7

\* The three places at which the host reads itself.
LEMMA ReadMoves ==
    /\ ReadUpload => HostMoves("sync", "complete", "setup")
    /\ ReadNeed => HostMoves("need", "need", "grant")
    /\ ReadComplete => HostMoves("complete", "complete", "save")
BY HostReadsMoves, Zenon DEF ReadUpload, ReadNeed, ReadComplete

\* The parts of TypeOK that no data is in.
Control ==
    /\ mode \in {"pipe", "tty"}
    /\ link \in {"open", "closed", "down"}
    /\ client \in Clients /\ host \in Hosts
    /\ stdin \in {"open", "over"}
    /\ forwarder \in {"off", "on", "over"} /\ resizer \in {"off", "on", "late"}
    /\ ctx \in {"live", "cancelled"}
    /\ command \in {"none", "running", "killed", "ended"}
    /\ pipe \in {"empty", "full", "sent", "closed"} /\ copier \in {"on", "off"}
    /\ reader \in {"off", "check", "read", "wait", "put", "end"}
    /\ deadline \in {"idle", "now", "none"}
\* Every step keeps the control state in its range.
LEMMA ControlStep ==
    Control /\ [Next]_vars => Control'
<1> SUFFICES ASSUME Control, [Next]_vars PROVE Control'
    OBVIOUS
<1> USE DEF Control, Clients, Hosts, cvars, hvars, ivars, history
<1>1. CASE SendSyncComplete
    BY <1>1 DEF SendSyncComplete, ToHost
<1>2. CASE Interrupt
    BY <1>2 DEF Interrupt, ClientFails
<1>3. CASE ForwardCancel
    BY <1>3 DEF ForwardCancel, ToHost
<1>4. CASE SendInput
    BY <1>4 DEF SendInput, ToHost, Forwarding
<1>5. CASE SendStdinClose
    BY <1>5 DEF SendStdinClose, ToHost, Forwarding
<1>6. CASE SendHeartbeat
    BY <1>6 DEF SendHeartbeat, ToHost
<1>7. CASE ClientReads
    BY <1>7 DEF ClientReads, ToHost, ClientFails, CloseSession
<1>8. CASE ClientApplies
    BY <1>8 DEF ClientApplies, ToHost
<1>9. CASE ApplyFails
    BY <1>9 DEF ApplyFails, ClientFails, Fault
<1>10. CASE ClientEnds
    BY <1>10 DEF ClientEnds
<1>11. CASE ClientLosesHost
    BY <1>11 DEF ClientLosesHost, ClientFails
<1>12. CASE ReaderChecks
    BY <1>12 DEF ReaderChecks, ReaderEnds, CancelRun
<1>13. CASE ReaderReads
    BY <1>13 DEF ReaderReads
<1>14. CASE ReaderFrame
    BY <1>14 DEF ReaderFrame, ReaderEnds, CancelRun
<1>15. CASE ReaderPuts
    BY <1>15 DEF ReaderPuts, ReaderEnds, CancelRun
<1>16. CASE ReaderDeadline
    BY <1>16 DEF ReaderDeadline, ReaderEnds, CancelRun
<1>17. CASE ReaderDisconnected
    BY <1>17 DEF ReaderDisconnected, ReaderEnds, CancelRun
<1>18. CASE ReadUpload
    BY <1>18, ReadMoves DEF HostMoves
<1>19. CASE StartReader
    BY <1>19 DEF StartReader, ToClient
<1>20. CASE StartCommand
    BY <1>20 DEF StartCommand
<1>21. CASE StartFails
    BY <1>21 DEF StartFails, StopReader, Fault
<1>22. CASE CommandReads
    BY <1>22 DEF CommandReads
<1>23. CASE CommandWrites
    BY <1>23 DEF CommandWrites
<1>24. CASE CommandExits
    BY <1>24 DEF CommandExits
<1>25. CASE CommandDies
    BY <1>25 DEF CommandDies
<1>26. CASE CopierEnds
    BY <1>26 DEF CopierEnds
<1>27. CASE StreamOutput
    BY <1>27 DEF StreamOutput, ToClient, CancelRun
<1>28. CASE CommandWaited
    BY <1>28 DEF CommandWaited, StopReader
<1>29. CASE ReaderStopped
    BY <1>29 DEF ReaderStopped
<1>30. CASE SendExit
    BY <1>30 DEF SendExit
<1>31. CASE ReadNeed
    BY <1>31, ReadMoves DEF HostMoves
<1>32. CASE GrantBlobs
    BY <1>32 DEF GrantBlobs, ToClient
<1>33. CASE ReadComplete
    BY <1>33, ReadMoves DEF HostMoves
<1>34. CASE SaveAndFinish
    BY <1>34 DEF SaveAndFinish, ToClient
<1>35. CASE SyncBackFails
    BY <1>35 DEF SyncBackFails, HostFails, Fault
<1>36. CASE HostLosesClient
    BY <1>36 DEF HostLosesClient, HostFails
<1>37. CASE HeartbeatFails
    BY <1>37 DEF HeartbeatFails, HostFails, CancelRun
<1>38. CASE Break
    BY <1>38 DEF Break, Fault
<1>39. CASE SendResize
    BY <1>39 DEF SendResize, ToHost
<1>40. CASE InterruptCloses
    BY <1>40 DEF InterruptCloses, CloseSession
<1>41. CASE AttachFails
    BY <1>41 DEF AttachFails
<1>42. CASE UNCHANGED vars
    BY <1>42 DEF vars
<1>. QED
    BY <1>1, <1>2, <1>3, <1>4, <1>5, <1>6, <1>7, <1>8, <1>9, <1>10, <1>11, <1>12,
       <1>13, <1>14, <1>15, <1>16, <1>17, <1>18, <1>19, <1>20, <1>21, <1>22, <1>23,
       <1>24, <1>25, <1>26, <1>27, <1>28, <1>29, <1>30, <1>31, <1>32, <1>33, <1>34,
       <1>35, <1>36, <1>37, <1>38, <1>39, <1>40, <1>41, <1>42
    DEF Next, Client, User, Reader, Host, Process, Command, Faults

\* The flags.
Booleans == {interrupted, applied, qclosed, stopped, rclosed} \subseteq BOOLEAN
\* Every step keeps the flags Boolean.
LEMMA BooleanStep == Booleans /\ [Next]_vars => Booleans'
BY DEF Booleans, Next, Client, User, Reader, Host, Process, Command, Faults,
        SendSyncComplete, Interrupt, ForwardCancel, SendInput, SendStdinClose,
        SendResize, SendHeartbeat, CloseSession, InterruptCloses, ClientReads, ClientApplies, ApplyFails, ClientEnds,
        ClientLosesHost, ReaderChecks, ReaderReads, ReaderFrame, ReaderPuts,
        ReaderDeadline, ReaderDisconnected, ReadUpload, StartReader, StartCommand,
        StartFails, AttachFails, CommandReads, CommandWrites, CommandExits, CommandDies,
        CopierEnds, StreamOutput, CommandWaited, ReaderStopped, SendExit, ReadNeed,
        GrantBlobs, ReadComplete, SaveAndFinish, SyncBackFails, HostLosesClient,
        HeartbeatFails, Break, ToHost, ClientFails, Fault, ReaderEnds, CancelRun,
        HostReads, HostFails, ToClient, StopReader, Forwarding, vars, cvars, hvars,
        ivars, history

-----------------------------------------------------------------------------
(* The two ends of the connection, step by step *)

\* What Has and Once say of the frames to the host after a step.
LEMMA UpFacts ==
    TypeOK => /\ \A e \in UpFrames : \A f : Has(f, Append(up, e)) <=> Has(f, up) \/ f = e
              /\ \A e \in UpFrames : \A f : /\ Once(f, up) /\ f # e => Once(f, Append(up, e))
                                            /\ ~Has(f, up) => Once(f, Append(up, e))
              /\ up # <<>> => /\ Has(Head(up), up) /\ Head(up) \in UpFrames
                              /\ \A f : /\ Has(f, Tail(up)) => Has(f, up)
                                        /\ Once(f, up) => Once(f, Tail(up))
                                        /\ Once(f, up) /\ Head(up) = f => ~Has(f, Tail(up))
<1> SUFFICES ASSUME TypeOK PROVE UpFacts!2
    OBVIOUS
<1>1. up \in Seq(UpFrames)
    BY DEF TypeOK, UpFrames
<1>2. /\ \A e \in UpFrames : \A f : Has(f, Append(up, e)) <=> Has(f, up) \/ f = e
      /\ \A e \in UpFrames : \A f : /\ Once(f, up) /\ f # e => Once(f, Append(up, e))
                                    /\ ~Has(f, up) => Once(f, Append(up, e))
    BY <1>1, AppendFrame
<1>3. up # <<>> => /\ Has(Head(up), up) /\ Head(up) \in UpFrames
                   /\ \A f : /\ Has(f, Tail(up)) => Has(f, up)
                             /\ Once(f, up) => Once(f, Tail(up))
                             /\ Once(f, up) /\ Head(up) = f => ~Has(f, Tail(up))
    BY <1>1, TailFrame
<1>. QED
    BY <1>2, <1>3

\* What Has and Once say of the frames to the client after a step.
LEMMA DownFacts ==
    TypeOK => /\ \A e \in DownFrames : \A f : Has(f, Append(down, e)) <=> Has(f, down) \/ f = e
              /\ \A e \in DownFrames : \A f : Once(f, down) /\ f # e => Once(f, Append(down, e))
              /\ down # <<>> => /\ Has(Head(down), down) /\ Head(down) \in DownFrames
                                /\ \A f : /\ Has(f, Tail(down)) => Has(f, down)
                                          /\ Once(f, down) => Once(f, Tail(down))
                                          /\ Once(f, down) /\ Head(down) = f
                                                => ~Has(f, Tail(down))
              /\ \A f : Has(f, down \o <<"exit", "changes">>)
                            <=> Has(f, down) \/ f = "exit" \/ f = "changes"
              /\ ~Has("changes", down) => Once("changes", down \o <<"exit", "changes">>)
<1> SUFFICES ASSUME TypeOK PROVE DownFacts!2
    OBVIOUS
<1>1. down \in Seq(DownFrames)
    BY DEF TypeOK, DownFrames
<1> DEFINE one == Append(down, "exit")
           two == Append(one, "changes")
<1>2. /\ one \in Seq(DownFrames) /\ two \in Seq(DownFrames)
      /\ down \o <<"exit", "changes">> = two
    BY <1>1, AppendFrame DEF DownFrames
<1>6. "exit" \in DownFrames /\ "changes" \in DownFrames
    BY DEF DownFrames
<1>3. /\ \A f : Has(f, one) <=> Has(f, down) \/ f = "exit"
      /\ \A f : Has(f, two) <=> Has(f, one) \/ f = "changes"
      /\ \A f : ~Has(f, one) => Once(f, two)
    <2>1. \A f : Has(f, one) <=> Has(f, down) \/ f = "exit"
        BY <1>1, <1>6, AppendFrame
    <2>2. /\ \A f : Has(f, two) <=> Has(f, one) \/ f = "changes"
          /\ \A f : ~Has(f, one) => Once(f, two)
        BY <1>2, <1>6, AppendFrame
    <2>. QED
        BY <2>1, <2>2
<1>4. /\ \A e \in DownFrames : \A f : Has(f, Append(down, e)) <=> Has(f, down) \/ f = e
      /\ \A e \in DownFrames : \A f : Once(f, down) /\ f # e => Once(f, Append(down, e))
    BY <1>1, AppendFrame
<1>5. down # <<>> => /\ Has(Head(down), down) /\ Head(down) \in DownFrames
                     /\ \A f : /\ Has(f, Tail(down)) => Has(f, down)
                               /\ Once(f, down) => Once(f, Tail(down))
                               /\ Once(f, down) /\ Head(down) = f => ~Has(f, Tail(down))
    BY <1>1, TailFrame
<1>. QED
    BY <1>2, <1>3, <1>4, <1>5

\* Every step keeps EndInv.
LEMMA EndStep ==
    TypeOK /\ EndInv /\ [Next]_vars => EndInv'
<1> SUFFICES ASSUME TypeOK, EndInv, [Next]_vars PROVE EndInv'
    OBVIOUS
<1> USE DEF TypeOK, EndInv, DownFrames, Clients, Hosts, cvars, hvars, ivars, history
<1>1. CASE SendSyncComplete
    BY <1>1, DownFacts, EmptyFrames DEF SendSyncComplete, ToHost
<1>2. CASE Interrupt
    BY <1>2, DownFacts, EmptyFrames DEF Interrupt, ClientFails
<1>3. CASE ForwardCancel
    BY <1>3, DownFacts, EmptyFrames DEF ForwardCancel, ToHost
<1>4. CASE SendInput
    BY <1>4, DownFacts, EmptyFrames DEF SendInput, ToHost, Forwarding
<1>5. CASE SendStdinClose
    BY <1>5, DownFacts, EmptyFrames DEF SendStdinClose, ToHost, Forwarding
<1>6. CASE SendHeartbeat
    BY <1>6, DownFacts, EmptyFrames DEF SendHeartbeat, ToHost
<1>7. CASE ClientReads
    BY <1>7, DownFacts, EmptyFrames DEF ClientReads, ToHost, ClientFails, CloseSession
<1>8. CASE ClientApplies
    BY <1>8, DownFacts, EmptyFrames DEF ClientApplies, ToHost
<1>9. CASE ApplyFails
    BY <1>9, DownFacts, EmptyFrames DEF ApplyFails, ClientFails, Fault
<1>10. CASE ClientEnds
    BY <1>10, DownFacts, EmptyFrames DEF ClientEnds
<1>11. CASE ClientLosesHost
    BY <1>11, DownFacts, EmptyFrames DEF ClientLosesHost, ClientFails
<1>12. CASE ReaderChecks
    BY <1>12, DownFacts, EmptyFrames DEF ReaderChecks, ReaderEnds, CancelRun
<1>13. CASE ReaderReads
    BY <1>13, DownFacts, EmptyFrames DEF ReaderReads
<1>14. CASE ReaderFrame
    BY <1>14, DownFacts, EmptyFrames DEF ReaderFrame, ReaderEnds, CancelRun
<1>15. CASE ReaderPuts
    BY <1>15, DownFacts, EmptyFrames DEF ReaderPuts, ReaderEnds, CancelRun
<1>16. CASE ReaderDeadline
    BY <1>16, DownFacts, EmptyFrames DEF ReaderDeadline, ReaderEnds, CancelRun
<1>17. CASE ReaderDisconnected
    BY <1>17, DownFacts, EmptyFrames DEF ReaderDisconnected, ReaderEnds, CancelRun
<1>18. CASE ReadUpload
    BY <1>18, DownFacts, EmptyFrames, ReadMoves DEF HostMoves
<1>19. CASE StartReader
    BY <1>19, DownFacts, EmptyFrames DEF StartReader, ToClient
<1>20. CASE StartCommand
    BY <1>20, DownFacts, EmptyFrames DEF StartCommand
<1>21. CASE StartFails
    BY <1>21, DownFacts, EmptyFrames DEF StartFails, StopReader, Fault
<1>22. CASE CommandReads
    BY <1>22, DownFacts, EmptyFrames DEF CommandReads
<1>23. CASE CommandWrites
    BY <1>23, DownFacts, EmptyFrames DEF CommandWrites
<1>24. CASE CommandExits
    BY <1>24, DownFacts, EmptyFrames DEF CommandExits
<1>25. CASE CommandDies
    BY <1>25, DownFacts, EmptyFrames DEF CommandDies
<1>26. CASE CopierEnds
    BY <1>26, DownFacts, EmptyFrames DEF CopierEnds
<1>27. CASE StreamOutput
    BY <1>27, DownFacts, EmptyFrames DEF StreamOutput, ToClient, CancelRun
<1>28. CASE CommandWaited
    BY <1>28, DownFacts, EmptyFrames DEF CommandWaited, StopReader
<1>29. CASE ReaderStopped
    BY <1>29, DownFacts, EmptyFrames DEF ReaderStopped
<1>30. CASE SendExit
    BY <1>30, DownFacts, EmptyFrames DEF SendExit
<1>31. CASE ReadNeed
    BY <1>31, DownFacts, EmptyFrames, ReadMoves DEF HostMoves
<1>32. CASE GrantBlobs
    BY <1>32, DownFacts, EmptyFrames DEF GrantBlobs, ToClient
<1>33. CASE ReadComplete
    BY <1>33, DownFacts, EmptyFrames, ReadMoves DEF HostMoves
<1>34. CASE SaveAndFinish
    BY <1>34, DownFacts, EmptyFrames DEF SaveAndFinish, ToClient
<1>35. CASE SyncBackFails
    BY <1>35, DownFacts, EmptyFrames DEF SyncBackFails, HostFails, Fault
<1>36. CASE HostLosesClient
    BY <1>36, DownFacts, EmptyFrames DEF HostLosesClient, HostFails
<1>37. CASE HeartbeatFails
    BY <1>37, DownFacts, EmptyFrames DEF HeartbeatFails, HostFails, CancelRun
<1>38. CASE Break
    BY <1>38, DownFacts, EmptyFrames DEF Break, Fault
<1>39. CASE SendResize
    BY <1>39, DownFacts, EmptyFrames DEF SendResize, ToHost
<1>40. CASE InterruptCloses
    BY <1>40, DownFacts, EmptyFrames DEF InterruptCloses, CloseSession
<1>41. CASE AttachFails
    BY <1>41, DownFacts, EmptyFrames DEF AttachFails
<1>42. CASE UNCHANGED vars
    BY <1>42 DEF vars
<1>. QED
    BY <1>1, <1>2, <1>3, <1>4, <1>5, <1>6, <1>7, <1>8, <1>9, <1>10, <1>11, <1>12,
       <1>13, <1>14, <1>15, <1>16, <1>17, <1>18, <1>19, <1>20, <1>21, <1>22, <1>23,
       <1>24, <1>25, <1>26, <1>27, <1>28, <1>29, <1>30, <1>31, <1>32, <1>33, <1>34,
       <1>35, <1>36, <1>37, <1>38, <1>39, <1>40, <1>41, <1>42
    DEF Next, Client, User, Reader, Host, Process, Command, Faults

\* Every step keeps CommandInv.
LEMMA CommandStep ==
    TypeOK /\ CommandInv /\ [Next]_vars => CommandInv'
<1> SUFFICES ASSUME TypeOK, CommandInv, [Next]_vars PROVE CommandInv'
    OBVIOUS
<1> USE DEF TypeOK, CommandInv, DownFrames, cvars, hvars, ivars, history
<1>1. CASE SendSyncComplete
    BY <1>1, DownFacts, EmptyFrames DEF SendSyncComplete, ToHost
<1>2. CASE Interrupt
    BY <1>2, DownFacts, EmptyFrames DEF Interrupt, ClientFails
<1>3. CASE ForwardCancel
    BY <1>3, DownFacts, EmptyFrames DEF ForwardCancel, ToHost
<1>4. CASE SendInput
    BY <1>4, DownFacts, EmptyFrames DEF SendInput, ToHost, Forwarding
<1>5. CASE SendStdinClose
    BY <1>5, DownFacts, EmptyFrames DEF SendStdinClose, ToHost, Forwarding
<1>6. CASE SendHeartbeat
    BY <1>6, DownFacts, EmptyFrames DEF SendHeartbeat, ToHost
<1>7. CASE ClientReads
    BY <1>7, DownFacts, EmptyFrames DEF ClientReads, ToHost, ClientFails, CloseSession
<1>8. CASE ClientApplies
    BY <1>8, DownFacts, EmptyFrames DEF ClientApplies, ToHost
<1>9. CASE ApplyFails
    BY <1>9, DownFacts, EmptyFrames DEF ApplyFails, ClientFails, Fault
<1>10. CASE ClientEnds
    BY <1>10, DownFacts, EmptyFrames DEF ClientEnds
<1>11. CASE ClientLosesHost
    BY <1>11, DownFacts, EmptyFrames DEF ClientLosesHost, ClientFails
<1>12. CASE ReaderChecks
    BY <1>12, DownFacts, EmptyFrames DEF ReaderChecks, ReaderEnds, CancelRun
<1>13. CASE ReaderReads
    BY <1>13, DownFacts, EmptyFrames DEF ReaderReads
<1>14. CASE ReaderFrame
    BY <1>14, DownFacts, EmptyFrames DEF ReaderFrame, ReaderEnds, CancelRun
<1>15. CASE ReaderPuts
    BY <1>15, DownFacts, EmptyFrames DEF ReaderPuts, ReaderEnds, CancelRun
<1>16. CASE ReaderDeadline
    BY <1>16, DownFacts, EmptyFrames DEF ReaderDeadline, ReaderEnds, CancelRun
<1>17. CASE ReaderDisconnected
    BY <1>17, DownFacts, EmptyFrames DEF ReaderDisconnected, ReaderEnds, CancelRun
<1>18. CASE ReadUpload
    BY <1>18, DownFacts, EmptyFrames, ReadMoves DEF HostMoves
<1>19. CASE StartReader
    BY <1>19, DownFacts, EmptyFrames DEF StartReader, ToClient
<1>20. CASE StartCommand
    BY <1>20, DownFacts, EmptyFrames DEF StartCommand
<1>21. CASE StartFails
    BY <1>21, DownFacts, EmptyFrames DEF StartFails, StopReader, Fault
<1>22. CASE CommandReads
    BY <1>22, DownFacts, EmptyFrames DEF CommandReads
<1>23. CASE CommandWrites
    BY <1>23, DownFacts, EmptyFrames DEF CommandWrites
<1>24. CASE CommandExits
    BY <1>24, DownFacts, EmptyFrames DEF CommandExits
<1>25. CASE CommandDies
    BY <1>25, DownFacts, EmptyFrames DEF CommandDies
<1>26. CASE CopierEnds
    BY <1>26, DownFacts, EmptyFrames DEF CopierEnds
<1>27. CASE StreamOutput
    BY <1>27, DownFacts, EmptyFrames DEF StreamOutput, ToClient, CancelRun
<1>28. CASE CommandWaited
    BY <1>28, DownFacts, EmptyFrames DEF CommandWaited, StopReader
<1>29. CASE ReaderStopped
    BY <1>29, DownFacts, EmptyFrames DEF ReaderStopped
<1>30. CASE SendExit
    BY <1>30, DownFacts, EmptyFrames DEF SendExit
<1>31. CASE ReadNeed
    BY <1>31, DownFacts, EmptyFrames, ReadMoves DEF HostMoves
<1>32. CASE GrantBlobs
    BY <1>32, DownFacts, EmptyFrames DEF GrantBlobs, ToClient
<1>33. CASE ReadComplete
    BY <1>33, DownFacts, EmptyFrames, ReadMoves DEF HostMoves
<1>34. CASE SaveAndFinish
    BY <1>34, DownFacts, EmptyFrames DEF SaveAndFinish, ToClient
<1>35. CASE SyncBackFails
    BY <1>35, DownFacts, EmptyFrames DEF SyncBackFails, HostFails, Fault
<1>36. CASE HostLosesClient
    BY <1>36, DownFacts, EmptyFrames DEF HostLosesClient, HostFails
<1>37. CASE HeartbeatFails
    BY <1>37, DownFacts, EmptyFrames DEF HeartbeatFails, HostFails, CancelRun
<1>38. CASE Break
    BY <1>38, DownFacts, EmptyFrames DEF Break, Fault
<1>39. CASE SendResize
    BY <1>39, DownFacts, EmptyFrames DEF SendResize, ToHost
<1>40. CASE InterruptCloses
    BY <1>40, DownFacts, EmptyFrames DEF InterruptCloses, CloseSession
<1>41. CASE AttachFails
    BY <1>41, DownFacts, EmptyFrames DEF AttachFails
<1>42. CASE UNCHANGED vars
    BY <1>42 DEF vars
<1>. QED
    BY <1>1, <1>2, <1>3, <1>4, <1>5, <1>6, <1>7, <1>8, <1>9, <1>10, <1>11, <1>12,
       <1>13, <1>14, <1>15, <1>16, <1>17, <1>18, <1>19, <1>20, <1>21, <1>22, <1>23,
       <1>24, <1>25, <1>26, <1>27, <1>28, <1>29, <1>30, <1>31, <1>32, <1>33, <1>34,
       <1>35, <1>36, <1>37, <1>38, <1>39, <1>40, <1>41, <1>42
    DEF Next, Client, User, Reader, Host, Process, Command, Faults

\* Every step keeps UploadInv.
LEMMA UploadStep ==
    TypeOK /\ EndInv /\ CommandInv /\ UploadInv /\ [Next]_vars => UploadInv'
<1> SUFFICES ASSUME TypeOK, EndInv, CommandInv, UploadInv, [Next]_vars PROVE UploadInv'
    OBVIOUS
<1> USE DEF UploadInv, EndInv, CommandInv, UpFrames, cvars, hvars, ivars, history
<1>1. CASE SendSyncComplete
    BY <1>1, UpFacts, EmptyFrames DEF SendSyncComplete, ToHost
<1>2. CASE Interrupt
    BY <1>2, UpFacts, EmptyFrames DEF Interrupt, ClientFails
<1>3. CASE ForwardCancel
    BY <1>3, UpFacts, EmptyFrames DEF ForwardCancel, ToHost
<1>4. CASE SendInput
    BY <1>4, UpFacts, EmptyFrames DEF SendInput, ToHost, Forwarding
<1>5. CASE SendStdinClose
    BY <1>5, UpFacts, EmptyFrames DEF SendStdinClose, ToHost, Forwarding
<1>6. CASE SendHeartbeat
    BY <1>6, UpFacts, EmptyFrames DEF SendHeartbeat, ToHost
<1>7. CASE ClientReads
    BY <1>7, UpFacts, EmptyFrames DEF ClientReads, ToHost, ClientFails, CloseSession
<1>8. CASE ClientApplies
    BY <1>8, UpFacts, EmptyFrames DEF ClientApplies, ToHost
<1>9. CASE ApplyFails
    BY <1>9, UpFacts, EmptyFrames DEF ApplyFails, ClientFails, Fault
<1>10. CASE ClientEnds
    BY <1>10, UpFacts, EmptyFrames DEF ClientEnds
<1>11. CASE ClientLosesHost
    BY <1>11, UpFacts, EmptyFrames DEF ClientLosesHost, ClientFails
<1>12. CASE ReaderChecks
    BY <1>12, UpFacts, EmptyFrames DEF ReaderChecks, ReaderEnds, CancelRun
<1>13. CASE ReaderReads
    BY <1>13, UpFacts, EmptyFrames DEF ReaderReads
<1>14. CASE ReaderFrame
    BY <1>14, UpFacts, EmptyFrames DEF ReaderFrame, ReaderEnds, CancelRun
<1>15. CASE ReaderPuts
    BY <1>15, UpFacts, EmptyFrames DEF ReaderPuts, ReaderEnds, CancelRun
<1>16. CASE ReaderDeadline
    BY <1>16, UpFacts, EmptyFrames DEF ReaderDeadline, ReaderEnds, CancelRun
<1>17. CASE ReaderDisconnected
    BY <1>17, UpFacts, EmptyFrames DEF ReaderDisconnected, ReaderEnds, CancelRun
<1>18. CASE ReadUpload
    BY <1>18, UpFacts, EmptyFrames, ReadMoves DEF HostMoves
<1>19. CASE StartReader
    BY <1>19, UpFacts, EmptyFrames DEF StartReader, ToClient
<1>20. CASE StartCommand
    BY <1>20, UpFacts, EmptyFrames DEF StartCommand
<1>21. CASE StartFails
    BY <1>21, UpFacts, EmptyFrames DEF StartFails, StopReader, Fault
<1>22. CASE CommandReads
    BY <1>22, UpFacts, EmptyFrames DEF CommandReads
<1>23. CASE CommandWrites
    BY <1>23, UpFacts, EmptyFrames DEF CommandWrites
<1>24. CASE CommandExits
    BY <1>24, UpFacts, EmptyFrames DEF CommandExits
<1>25. CASE CommandDies
    BY <1>25, UpFacts, EmptyFrames DEF CommandDies
<1>26. CASE CopierEnds
    BY <1>26, UpFacts, EmptyFrames DEF CopierEnds
<1>27. CASE StreamOutput
    BY <1>27, UpFacts, EmptyFrames DEF StreamOutput, ToClient, CancelRun
<1>28. CASE CommandWaited
    BY <1>28, UpFacts, EmptyFrames DEF CommandWaited, StopReader
<1>29. CASE ReaderStopped
    BY <1>29, UpFacts, EmptyFrames DEF ReaderStopped
<1>30. CASE SendExit
    BY <1>30, UpFacts, EmptyFrames DEF SendExit
<1>31. CASE ReadNeed
    BY <1>31, UpFacts, EmptyFrames, ReadMoves DEF HostMoves
<1>32. CASE GrantBlobs
    BY <1>32, UpFacts, EmptyFrames DEF GrantBlobs, ToClient
<1>33. CASE ReadComplete
    BY <1>33, UpFacts, EmptyFrames, ReadMoves DEF HostMoves
<1>34. CASE SaveAndFinish
    BY <1>34, UpFacts, EmptyFrames DEF SaveAndFinish, ToClient
<1>35. CASE SyncBackFails
    BY <1>35, UpFacts, EmptyFrames DEF SyncBackFails, HostFails, Fault
<1>36. CASE HostLosesClient
    BY <1>36, UpFacts, EmptyFrames DEF HostLosesClient, HostFails
<1>37. CASE HeartbeatFails
    BY <1>37, UpFacts, EmptyFrames DEF HeartbeatFails, HostFails, CancelRun
<1>38. CASE Break
    BY <1>38, UpFacts, EmptyFrames DEF Break, Fault
<1>39. CASE SendResize
    BY <1>39, UpFacts, EmptyFrames DEF SendResize, ToHost
<1>40. CASE InterruptCloses
    BY <1>40, UpFacts, EmptyFrames DEF InterruptCloses, CloseSession
<1>41. CASE AttachFails
    BY <1>41, UpFacts, EmptyFrames DEF AttachFails
<1>42. CASE UNCHANGED vars
    BY <1>42 DEF vars
<1>. QED
    BY <1>1, <1>2, <1>3, <1>4, <1>5, <1>6, <1>7, <1>8, <1>9, <1>10, <1>11, <1>12,
       <1>13, <1>14, <1>15, <1>16, <1>17, <1>18, <1>19, <1>20, <1>21, <1>22, <1>23,
       <1>24, <1>25, <1>26, <1>27, <1>28, <1>29, <1>30, <1>31, <1>32, <1>33, <1>34,
       <1>35, <1>36, <1>37, <1>38, <1>39, <1>40, <1>41, <1>42
    DEF Next, Client, User, Reader, Host, Process, Command, Faults

\* Every step keeps SyncBackInv.
LEMMA SyncBackStep ==
    TypeOK /\ EndInv /\ CommandInv /\ UploadInv /\ SyncBackInv /\ [Next]_vars => SyncBackInv'
<1> SUFFICES ASSUME TypeOK, EndInv, CommandInv, UploadInv, SyncBackInv, [Next]_vars
             PROVE  SyncBackInv'
    OBVIOUS
<1> USE DEF SyncBackInv, UploadInv, EndInv, CommandInv, UpFrames, DownFrames, Before,
            cvars, hvars, ivars, history
<1>1. CASE SendSyncComplete
    BY <1>1, UpFacts, DownFacts, EmptyFrames DEF SendSyncComplete, ToHost
<1>2. CASE Interrupt
    BY <1>2, UpFacts, DownFacts, EmptyFrames DEF Interrupt, ClientFails
<1>3. CASE ForwardCancel
    BY <1>3, UpFacts, DownFacts, EmptyFrames DEF ForwardCancel, ToHost
<1>4. CASE SendInput
    BY <1>4, UpFacts, DownFacts, EmptyFrames DEF SendInput, ToHost, Forwarding
<1>5. CASE SendStdinClose
    BY <1>5, UpFacts, DownFacts, EmptyFrames DEF SendStdinClose, ToHost, Forwarding
<1>6. CASE SendHeartbeat
    BY <1>6, UpFacts, DownFacts, EmptyFrames DEF SendHeartbeat, ToHost
<1>7. CASE ClientReads
    BY <1>7, UpFacts, DownFacts, EmptyFrames DEF ClientReads, ToHost, ClientFails, CloseSession
<1>8. CASE ClientApplies
    BY <1>8, UpFacts, DownFacts, EmptyFrames DEF ClientApplies, ToHost
<1>9. CASE ApplyFails
    BY <1>9, UpFacts, DownFacts, EmptyFrames DEF ApplyFails, ClientFails, Fault
<1>10. CASE ClientEnds
    BY <1>10, UpFacts, DownFacts, EmptyFrames DEF ClientEnds
<1>11. CASE ClientLosesHost
    BY <1>11, UpFacts, DownFacts, EmptyFrames DEF ClientLosesHost, ClientFails
<1>12. CASE ReaderChecks
    BY <1>12, UpFacts, DownFacts, EmptyFrames DEF ReaderChecks, ReaderEnds, CancelRun
<1>13. CASE ReaderReads
    BY <1>13, UpFacts, DownFacts, EmptyFrames DEF ReaderReads
<1>14. CASE ReaderFrame
    BY <1>14, UpFacts, DownFacts, EmptyFrames DEF ReaderFrame, ReaderEnds, CancelRun
<1>15. CASE ReaderPuts
    BY <1>15, UpFacts, DownFacts, EmptyFrames DEF ReaderPuts, ReaderEnds, CancelRun
<1>16. CASE ReaderDeadline
    BY <1>16, UpFacts, DownFacts, EmptyFrames DEF ReaderDeadline, ReaderEnds, CancelRun
<1>17. CASE ReaderDisconnected
    BY <1>17, UpFacts, DownFacts, EmptyFrames
    DEF ReaderDisconnected, ReaderEnds, CancelRun
<1>18. CASE ReadUpload
    <2>1. HostMoves("sync", "complete", "setup")
        BY <1>18, ReadMoves
    <2>2. CASE UNCHANGED <<host, down>>
        BY <2>1, <2>2, UpFacts DEF HostMoves
    <2>3. CASE host' = "setup" /\ Head(up) = "complete" /\ UNCHANGED down
        BY <2>1, <2>3, UpFacts, EmptyFrames DEF HostMoves
    <2>4. CASE host' = "failed"
        BY <2>1, <2>4 DEF HostMoves
    <2>. QED
        BY <2>1, <2>2, <2>3, <2>4 DEF HostMoves
<1>19. CASE StartReader
    BY <1>19, UpFacts, DownFacts, EmptyFrames DEF StartReader, ToClient
<1>20. CASE StartCommand
    BY <1>20, UpFacts, DownFacts, EmptyFrames DEF StartCommand
<1>21. CASE StartFails
    BY <1>21, UpFacts, DownFacts, EmptyFrames DEF StartFails, StopReader, Fault
<1>22. CASE CommandReads
    BY <1>22, UpFacts, DownFacts, EmptyFrames DEF CommandReads
<1>23. CASE CommandWrites
    BY <1>23, UpFacts, DownFacts, EmptyFrames DEF CommandWrites
<1>24. CASE CommandExits
    BY <1>24, UpFacts, DownFacts, EmptyFrames DEF CommandExits
<1>25. CASE CommandDies
    BY <1>25, UpFacts, DownFacts, EmptyFrames DEF CommandDies
<1>26. CASE CopierEnds
    BY <1>26, UpFacts, DownFacts, EmptyFrames DEF CopierEnds
<1>27. CASE StreamOutput
    BY <1>27, UpFacts, DownFacts, EmptyFrames DEF StreamOutput, ToClient, CancelRun
<1>28. CASE CommandWaited
    BY <1>28, UpFacts, DownFacts, EmptyFrames DEF CommandWaited, StopReader
<1>29. CASE ReaderStopped
    BY <1>29, UpFacts, DownFacts, EmptyFrames DEF ReaderStopped
<1>30. CASE SendExit
    <2>1. /\ host = "exit" /\ host' = "need" /\ down' = down \o <<"exit", "changes">>
          /\ UNCHANGED <<up, client, applied>>
        BY <1>30 DEF SendExit
    <2>2. /\ ~Has("grant", down') /\ ~Has("done", down') /\ Once("changes", down')
          /\ ~Has("need", up)
        BY <2>1, DownFacts
    <2>3. Once("need", up)
        BY <2>2 DEF Has, Once
    <2>4. client \in {"ready", "run", "failed"}
        BY <2>1
    <2>. QED
        BY <2>1, <2>2, <2>3, <2>4
<1>31. CASE ReadNeed
    <2>1. HostMoves("need", "need", "grant")
        BY <1>31, ReadMoves
    <2>2. CASE UNCHANGED <<host, down>>
        BY <2>1, <2>2, UpFacts DEF HostMoves
    <2>3. CASE host' = "grant" /\ Head(up) = "need" /\ UNCHANGED down
        BY <2>1, <2>3, UpFacts, EmptyFrames DEF HostMoves
    <2>4. CASE host' = "failed"
        BY <2>1, <2>4 DEF HostMoves
    <2>. QED
        BY <2>1, <2>2, <2>3, <2>4 DEF HostMoves
<1>32. CASE GrantBlobs
    BY <1>32, UpFacts, DownFacts, EmptyFrames DEF GrantBlobs, ToClient
<1>33. CASE ReadComplete
    <2>1. HostMoves("complete", "complete", "save")
        BY <1>33, ReadMoves
    <2>2. CASE UNCHANGED <<host, down>>
        BY <2>1, <2>2, UpFacts DEF HostMoves
    <2>3. CASE host' = "save" /\ Head(up) = "complete" /\ UNCHANGED down
        BY <2>1, <2>3, UpFacts, EmptyFrames DEF HostMoves
    <2>4. CASE host' = "failed"
        BY <2>1, <2>4 DEF HostMoves
    <2>. QED
        BY <2>1, <2>2, <2>3, <2>4 DEF HostMoves
<1>34. CASE SaveAndFinish
    BY <1>34, UpFacts, DownFacts, EmptyFrames DEF SaveAndFinish, ToClient
<1>35. CASE SyncBackFails
    BY <1>35, UpFacts, DownFacts, EmptyFrames DEF SyncBackFails, HostFails, Fault
<1>36. CASE HostLosesClient
    BY <1>36, UpFacts, DownFacts, EmptyFrames DEF HostLosesClient, HostFails
<1>37. CASE HeartbeatFails
    BY <1>37, UpFacts, DownFacts, EmptyFrames DEF HeartbeatFails, HostFails, CancelRun
<1>38. CASE Break
    BY <1>38, UpFacts, DownFacts, EmptyFrames DEF Break, Fault
<1>39. CASE SendResize
    BY <1>39, UpFacts, DownFacts, EmptyFrames DEF SendResize, ToHost
<1>40. CASE InterruptCloses
    BY <1>40, UpFacts, DownFacts, EmptyFrames DEF InterruptCloses, CloseSession
<1>41. CASE AttachFails
    BY <1>41, UpFacts, DownFacts, EmptyFrames DEF AttachFails
<1>42. CASE UNCHANGED vars
    BY <1>42 DEF vars
<1>. QED
    BY <1>1, <1>2, <1>3, <1>4, <1>5, <1>6, <1>7, <1>8, <1>9, <1>10, <1>11, <1>12,
       <1>13, <1>14, <1>15, <1>16, <1>17, <1>18, <1>19, <1>20, <1>21, <1>22, <1>23,
       <1>24, <1>25, <1>26, <1>27, <1>28, <1>29, <1>30, <1>31, <1>32, <1>33, <1>34,
       <1>35, <1>36, <1>37, <1>38, <1>39, <1>40, <1>41, <1>42
    DEF Next, Client, User, Reader, Host, Process, Command, Faults

-----------------------------------------------------------------------------
(* The input and the output, step by step *)

\* What is in the queue and in the command's input after a step.
LEMMA QueueFacts ==
    TypeOK => /\ Len(queue) \in Nat /\ DOMAIN queue = 1..Len(queue)
              /\ Len(got) \in Nat /\ DOMAIN got = 1..Len(got)
              /\ \A e \in 1..MaxInput :
                    /\ Len(Append(queue, e)) = Len(queue) + 1
                    /\ DOMAIN Append(queue, e) = 1..(Len(queue) + 1)
                    /\ \A i \in 1..Len(queue) : Append(queue, e)[i] = queue[i]
                    /\ Append(queue, e)[Len(queue) + 1] = e
                    /\ Len(Append(got, e)) = Len(got) + 1
                    /\ DOMAIN Append(got, e) = 1..(Len(got) + 1)
                    /\ \A i \in 1..Len(got) : Append(got, e)[i] = got[i]
                    /\ Append(got, e)[Len(got) + 1] = e
              /\ queue # <<>> =>
                    /\ Len(queue) > 0 /\ Head(queue) = queue[1] /\ Head(queue) \in 1..MaxInput
                    /\ Len(Tail(queue)) = Len(queue) - 1
                    /\ DOMAIN Tail(queue) = 1..(Len(queue) - 1)
                    /\ \A i \in 1..(Len(queue) - 1) : Tail(queue)[i] = queue[i + 1]
<1> SUFFICES ASSUME TypeOK PROVE QueueFacts!2
    OBVIOUS
<1>1. queue \in Seq(1..MaxInput) /\ got \in Seq(1..MaxInput)
    BY DEF TypeOK
<1>2. ASSUME NEW s \in Seq(1..MaxInput), NEW e \in 1..MaxInput
      PROVE  /\ Len(Append(s, e)) = Len(s) + 1
             /\ DOMAIN Append(s, e) = 1..(Len(s) + 1)
             /\ \A i \in 1..Len(s) : Append(s, e)[i] = s[i]
             /\ Append(s, e)[Len(s) + 1] = e
    BY AppendProperties
<1>3. queue # <<>> =>
          /\ Len(queue) > 0 /\ Head(queue) = queue[1] /\ Head(queue) \in 1..MaxInput
          /\ Len(Tail(queue)) = Len(queue) - 1
          /\ DOMAIN Tail(queue) = 1..(Len(queue) - 1)
          /\ \A i \in 1..(Len(queue) - 1) : Tail(queue)[i] = queue[i + 1]
    <2>1. ASSUME NEW S, NEW s \in Seq(S), s # <<>>
          PROVE  /\ Len(s) > 0 /\ Head(s) = s[1] /\ Head(s) \in S
                 /\ Len(Tail(s)) = Len(s) - 1 /\ DOMAIN Tail(s) = 1..(Len(s) - 1)
                 /\ \A i \in 1..(Len(s) - 1) : Tail(s)[i] = s[i + 1]
        BY <2>1, HeadTailProperties
    <2>. QED
        BY <1>1, <2>1
<1>4. /\ Len(queue) \in Nat /\ DOMAIN queue = 1..Len(queue)
      /\ Len(got) \in Nat /\ DOMAIN got = 1..Len(got)
    BY <1>1
<1>. QED
    BY <1>1, <1>2, <1>3, <1>4

\* A reader that ends, or hands nothing on, keeps FeedInv, whether it cancels the run or not.
LEMMA FeedFrame ==
    ASSUME FeedInv, UNCHANGED <<mode, copier, got, queue, stopped>>,
           command' = command \/ (command = "running" /\ command' = "killed"),
           reader' = "end" \/ (reader # "end" /\ Taken' = Taken),
           reader' = "put" => piece' > 0
    PROVE  FeedInv'
<1>1. Feeds' = Feeds
    BY DEF Feeds
<1>2. /\ command' = "none" <=> command = "none"
      /\ command' = "ended" <=> command = "ended"
    OBVIOUS
<1>3. \A i \in DOMAIN got' : got'[i] = i
    BY DEF FeedInv
<1>4. Feeds' => \A i \in DOMAIN queue' : queue'[i] = Len(got') + i
    BY <1>1 DEF FeedInv
<1>5. reader' # "end" /\ Complete' => Len(got') + Len(queue') = Taken'
    BY <1>1, <1>2 DEF FeedInv, Complete
<1>6. /\ command' = "none" => got' = <<>>
      /\ mode' = "tty" /\ command' # "none" => queue' = <<>>
    BY <1>2 DEF FeedInv
<1>. QED
    BY <1>3, <1>4, <1>5, <1>6 DEF FeedInv

\* Every step keeps FeedInv.
LEMMA FeedStep ==
    TypeOK /\ CommandInv /\ FeedInv /\ [Next]_vars => FeedInv'
<1> SUFFICES ASSUME TypeOK, CommandInv, FeedInv, [Next]_vars PROVE FeedInv'
    OBVIOUS
<1> USE DEF TypeOK, CommandInv, FeedInv, Taken, Feeds, Complete, cvars, hvars, ivars, history
<1>q. UNCHANGED <<mode, command, copier, got, queue, stopped, reader, piece>> => FeedInv'
    OBVIOUS
<1>1. CASE SendSyncComplete
    BY <1>1, QueueFacts DEF SendSyncComplete, ToHost
<1>2. CASE Interrupt
    BY <1>2, QueueFacts DEF Interrupt, ClientFails
<1>3. CASE ForwardCancel
    BY <1>3, QueueFacts DEF ForwardCancel, ToHost
<1>4. CASE SendInput
    BY <1>4, QueueFacts DEF SendInput, ToHost, Forwarding
<1>5. CASE SendStdinClose
    BY <1>5, QueueFacts DEF SendStdinClose, ToHost, Forwarding
<1>6. CASE SendHeartbeat
    BY <1>6, QueueFacts DEF SendHeartbeat, ToHost
<1>7. CASE ClientReads
    BY <1>7, QueueFacts DEF ClientReads, ToHost, ClientFails, CloseSession
<1>8. CASE ClientApplies
    BY <1>8, QueueFacts DEF ClientApplies, ToHost
<1>9. CASE ApplyFails
    BY <1>9, QueueFacts DEF ApplyFails, ClientFails, Fault
<1>10. CASE ClientEnds
    BY <1>10, QueueFacts DEF ClientEnds
<1>11. CASE ClientLosesHost
    BY <1>11, QueueFacts DEF ClientLosesHost, ClientFails
<1>12. CASE ReaderChecks
    BY <1>12, FeedFrame DEF ReaderChecks, ReaderEnds, CancelRun
<1>13. CASE ReaderReads
    BY <1>13, QueueFacts DEF ReaderReads
<1>14. CASE ReaderFrame
    <2>1. /\ UNCHANGED <<mode, copier, got, queue, stopped>> /\ reader = "wait"
          /\ command' = command \/ (command = "running" /\ command' = "killed")
        BY <1>14 DEF ReaderFrame, ReaderEnds, CancelRun
    <2>2. \/ reader' = "end"
          \/ reader' = "check" /\ piece' = piece
          \/ reader' = "put" /\ piece' = piece + 1
        BY <1>14 DEF ReaderFrame, ReaderEnds
    <2>3. piece \in Nat /\ Taken = piece /\ (reader' # "end" => Taken' = Taken)
        BY <2>1, <2>2, RunSessionAssumption
    <2>. QED
        BY FeedFrame, <2>1, <2>2, <2>3
<1>15. CASE ReaderPuts
    <2>1. /\ reader = "put" /\ UNCHANGED <<mode, host, copier, stopped, piece>>
          /\ piece \in 1..MaxInput /\ Taken = piece - 1
        BY <1>15 DEF ReaderPuts
    <2>2. CASE reader' = "end" /\ UNCHANGED <<queue, got>>
        <3>1. command' = command \/ (command = "running" /\ command' = "killed")
            BY <1>15 DEF ReaderPuts, ReaderEnds, CancelRun
        <3>. QED
            BY FeedFrame, <2>1, <2>2, <3>1
    <2>3. CASE /\ queue' = Append(queue, piece) /\ reader' = "check"
               /\ mode = "tty" => command = "none"
               /\ mode = "pipe" => ~stopped
               /\ UNCHANGED <<command, got>>
        <3>1. CASE Feeds
            <4>1. Len(got) + Len(queue) = piece - 1
                BY <2>1, <2>3, <3>1
            <4>2. /\ Len(queue') = Len(queue) + 1
                  /\ \A i \in DOMAIN queue' : queue'[i] = Len(got) + i
                <5>1. /\ Len(queue') = Len(queue) + 1 /\ DOMAIN queue' = 1..(Len(queue) + 1)
                      /\ \A i \in 1..Len(queue) : queue'[i] = queue[i]
                      /\ queue'[Len(queue) + 1] = piece
                      /\ Len(queue) \in Nat /\ Len(got) \in Nat
                    BY <2>1, <2>3, QueueFacts
                <5>2. \A i \in 1..Len(queue) : queue[i] = Len(got) + i
                    BY <3>1, QueueFacts
                <5>. QED
                    <6>1. piece \in Nat /\ piece = Len(got) + (Len(queue) + 1)
                        BY <5>1, <4>1, <2>1, RunSessionAssumption
                    <6>2. ASSUME NEW i \in DOMAIN queue' PROVE queue'[i] = Len(got) + i
                        <7>1. i \in 1..Len(queue) \/ i = Len(queue) + 1
                            BY <5>1
                        <7>2. CASE i \in 1..Len(queue)
                            BY <5>1, <5>2, <7>2
                        <7>3. CASE i = Len(queue) + 1
                            BY <5>1, <6>1, <7>3
                        <7>. QED
                            BY <7>1, <7>2, <7>3
                    <6>. QED
                        BY <5>1, <6>2
            <4>. QED
                BY <2>1, <2>3, <4>1, <4>2, QueueFacts
        <3>2. CASE ~Feeds
            BY <2>1, <2>3, <3>2, QueueFacts
        <3>. QED
            BY <3>1, <3>2
    <2>4. CASE /\ got' = Append(got, piece) /\ reader' = "check" /\ mode = "tty"
               /\ command \in {"running", "killed"} /\ UNCHANGED <<queue, command>>
        <3>1. queue = <<>> /\ Len(got) + 1 = piece
            BY <2>1, <2>4
        <3>. QED
            BY <2>1, <2>4, <3>1, QueueFacts
    <2>5. CASE /\ mode = "tty" /\ command = "ended" /\ reader' = "check"
               /\ UNCHANGED <<queue, got, command>>
        BY <2>1, <2>5
    <2>. QED
        BY <1>15, <2>1, <2>2, <2>3, <2>4, <2>5 DEF ReaderPuts, ReaderEnds
<1>16. CASE ReaderDeadline
    BY <1>16, FeedFrame DEF ReaderDeadline, ReaderEnds, CancelRun
<1>17. CASE ReaderDisconnected
    BY <1>17, FeedFrame DEF ReaderDisconnected, ReaderEnds, CancelRun
<1>18. CASE ReadUpload
    BY <1>18, <1>q, ReadMoves DEF HostMoves
<1>19. CASE StartReader
    BY <1>19, QueueFacts DEF StartReader, ToClient
<1>20. CASE StartCommand
    BY <1>20, QueueFacts DEF StartCommand
<1>21. CASE StartFails
    BY <1>21, QueueFacts DEF StartFails, StopReader, Fault
<1>22. CASE CommandReads
    <2>1. /\ copier = "on" /\ command = "running" /\ queue # <<>>
          /\ got' = Append(got, Head(queue)) /\ queue' = Tail(queue)
          /\ UNCHANGED <<mode, command, copier, stopped, reader, piece>>
        BY <1>22 DEF CommandReads
    <2>2. Head(queue) = Len(got) + 1 /\ Head(queue) \in 1..MaxInput
        BY <2>1, QueueFacts
    <2>3. /\ Len(got') = Len(got) + 1 /\ Len(queue') = Len(queue) - 1
          /\ \A i \in DOMAIN got' : got'[i] = i
        BY <2>1, <2>2, QueueFacts
    <2>4. \A i \in DOMAIN queue' : queue'[i] = Len(got') + i
        <3>1. /\ Len(queue) \in Nat /\ DOMAIN queue = 1..Len(queue) /\ Len(got) \in Nat
              /\ DOMAIN queue' = 1..(Len(queue) - 1)
              /\ \A i \in 1..(Len(queue) - 1) : queue'[i] = queue[i + 1]
            BY <2>1, QueueFacts
        <3>2. \A i \in 1..Len(queue) : queue[i] = Len(got) + i
            BY <2>1, <3>1
        <3>3. ASSUME NEW i \in DOMAIN queue' PROVE queue'[i] = Len(got') + i
            <4>1. i \in Nat /\ i \in 1..(Len(queue) - 1) /\ i + 1 \in 1..Len(queue)
                BY <3>1, <3>3
            <4>2. queue'[i] = queue[i + 1] /\ queue[i + 1] = Len(got) + (i + 1)
                BY <3>1, <3>2, <4>1
            <4>3. Len(got) + (i + 1) = Len(got') + i
                BY <2>3, <3>1, <4>1
            <4>. QED
                BY <4>2, <4>3
        <3>. QED
            BY <3>3
    <2>5. Len(got) + Len(queue) = Len(got') + Len(queue')
        BY <2>3, QueueFacts
    <2>. QED
        BY <2>1, <2>3, <2>4, <2>5
<1>23. CASE CommandWrites
    BY <1>23, QueueFacts DEF CommandWrites
<1>24. CASE CommandExits
    BY <1>24, QueueFacts DEF CommandExits
<1>25. CASE CommandDies
    BY <1>25, QueueFacts DEF CommandDies
<1>26. CASE CopierEnds
    BY <1>26, QueueFacts DEF CopierEnds
<1>27. CASE StreamOutput
    BY <1>27, QueueFacts DEF StreamOutput, ToClient, CancelRun
<1>28. CASE CommandWaited
    BY <1>28, QueueFacts DEF CommandWaited, StopReader
<1>29. CASE ReaderStopped
    BY <1>29, QueueFacts DEF ReaderStopped
<1>30. CASE SendExit
    BY <1>30, QueueFacts DEF SendExit
<1>31. CASE ReadNeed
    BY <1>31, <1>q, ReadMoves DEF HostMoves
<1>32. CASE GrantBlobs
    BY <1>32, QueueFacts DEF GrantBlobs, ToClient
<1>33. CASE ReadComplete
    BY <1>33, <1>q, ReadMoves DEF HostMoves
<1>34. CASE SaveAndFinish
    BY <1>34, QueueFacts DEF SaveAndFinish, ToClient
<1>35. CASE SyncBackFails
    BY <1>35, QueueFacts DEF SyncBackFails, HostFails, Fault
<1>36. CASE HostLosesClient
    BY <1>36, QueueFacts DEF HostLosesClient, HostFails
<1>37. CASE HeartbeatFails
    BY <1>37, QueueFacts DEF HeartbeatFails, HostFails, CancelRun
<1>38. CASE Break
    BY <1>38, QueueFacts DEF Break, Fault
<1>39. CASE SendResize
    BY <1>39, QueueFacts DEF SendResize, ToHost
<1>40. CASE InterruptCloses
    BY <1>40, QueueFacts DEF InterruptCloses, CloseSession
<1>41. CASE AttachFails
    BY <1>41, QueueFacts DEF AttachFails
<1>42. CASE UNCHANGED vars
    BY <1>42 DEF vars
<1>. QED
    BY <1>1, <1>2, <1>3, <1>4, <1>5, <1>6, <1>7, <1>8, <1>9, <1>10, <1>11, <1>12,
       <1>13, <1>14, <1>15, <1>16, <1>17, <1>18, <1>19, <1>20, <1>21, <1>22, <1>23,
       <1>24, <1>25, <1>26, <1>27, <1>28, <1>29, <1>30, <1>31, <1>32, <1>33, <1>34,
       <1>35, <1>36, <1>37, <1>38, <1>39, <1>40, <1>41, <1>42
    DEF Next, Client, User, Reader, Host, Process, Command, Faults

\* The pieces on their way and those that arrived are no more than were sent.
LEMMA CountStep == TypeOK /\ CountInv /\ [Next]_vars => CountInv'
<1> SUFFICES ASSUME TypeOK, CountInv, [Next]_vars PROVE CountInv'
    OBVIOUS
<1> DEFINE n == Cardinality(Pieces(up))
<1>1. up \in Seq(UpFrames) /\ n \in Nat /\ piece \in Nat /\ input \in Nat /\ piece + n <= input
    <2>1. up \in Seq(UpFrames)
        BY DEF TypeOK, UpFrames
    <2>. QED
        BY <2>1, PiecesFinite DEF TypeOK, CountInv
<1>2. Cardinality(Pieces(<<>>)) = 0
    BY FS_EmptySet DEF Pieces
<1>3. \A e \in UpFrames : Cardinality(Pieces(Append(up, e))) = n + IF e = "data" THEN 1 ELSE 0
    BY <1>1, PiecesAppend
<1>4. up # <<>> => Cardinality(Pieces(Tail(up))) = n - IF Head(up) = "data" THEN 1 ELSE 0
    BY <1>1, PiecesTail
<1>5. CASE /\ UNCHANGED piece /\ (input' = input \/ input' = input + 1)
           /\ \/ up' = up \/ up' = <<>> \/ (up # <<>> /\ up' = Tail(up))
              \/ \E e \in UpFrames : up' = Append(up, e) /\ (e = "data" => input' = input + 1)
    <2> USE DEF CountInv
    <2>1. CASE up' = up \/ up' = <<>>
        BY <1>1, <1>2, <1>5, <2>1
    <2>2. CASE up # <<>> /\ up' = Tail(up)
        BY <1>1, <1>4, <1>5, <2>2
    <2>3. ASSUME NEW e \in UpFrames, up' = Append(up, e), e = "data" => input' = input + 1
          PROVE  CountInv'
        BY <1>1, <1>3, <1>5, <2>3
    <2>. QED
        BY <1>5, <2>1, <2>2, <2>3
<1>6. CASE /\ up # <<>> /\ Head(up) = "data" /\ piece' = piece + 1 /\ up' = Tail(up)
           /\ UNCHANGED input
    BY <1>1, <1>4, <1>6 DEF CountInv
<1>7. \/ UNCHANGED piece
      \/ /\ up # <<>> /\ Head(up) = "data" /\ piece' = piece + 1 /\ up' = Tail(up)
         /\ UNCHANGED input
    BY DEF Next, Client, User, Reader, Host, Process, Command, Faults, SendSyncComplete,
        Interrupt, ForwardCancel, SendInput, SendStdinClose, SendResize, SendHeartbeat,
        CloseSession, InterruptCloses, ClientReads, ClientApplies, ApplyFails, ClientEnds, ClientLosesHost,
        ReaderChecks, ReaderReads, ReaderFrame, ReaderPuts, ReaderDeadline,
        ReaderDisconnected, ReadUpload, StartReader, StartCommand, StartFails,
        AttachFails, CommandReads, CommandWrites, CommandExits, CommandDies, CopierEnds,
        StreamOutput, CommandWaited, ReaderStopped, SendExit, ReadNeed, GrantBlobs,
        ReadComplete, SaveAndFinish, SyncBackFails, HostLosesClient, HeartbeatFails,
        Break, ToHost, ClientFails, Fault, ReaderEnds, CancelRun, HostReads,
        HostFails, ToClient, StopReader, Forwarding, vars, cvars, hvars, ivars,
        history
<1>8. /\ input' = input \/ input' = input + 1
      /\ \/ up' = up \/ up' = <<>> \/ (up # <<>> /\ up' = Tail(up))
         \/ \E e \in UpFrames : up' = Append(up, e) /\ (e = "data" => input' = input + 1)
    BY DEF UpFrames, Next, Client, User, Reader, Host, Process, Command, Faults,
        SendSyncComplete, Interrupt, ForwardCancel, SendInput, SendStdinClose,
        SendResize, SendHeartbeat, CloseSession, InterruptCloses, ClientReads, ClientApplies, ApplyFails, ClientEnds,
        ClientLosesHost, ReaderChecks, ReaderReads, ReaderFrame, ReaderPuts,
        ReaderDeadline, ReaderDisconnected, ReadUpload, StartReader, StartCommand,
        StartFails, AttachFails, CommandReads, CommandWrites, CommandExits, CommandDies,
        CopierEnds, StreamOutput, CommandWaited, ReaderStopped, SendExit, ReadNeed,
        GrantBlobs, ReadComplete, SaveAndFinish, SyncBackFails, HostLosesClient,
        HeartbeatFails, Break, ToHost, ClientFails, Fault, ReaderEnds, CancelRun,
        HostReads, HostFails, ToClient, StopReader, Forwarding, vars, cvars, hvars,
        ivars, history
<1>. QED
    BY <1>5, <1>6, <1>7, <1>8

\* The exit code comes after the output.
Ordered(s) == \A i, j \in DOMAIN s : s[i] = "exit" /\ i < j => s[j] # "out"

\* Sending anything but output, and reading, keeps the order.
LEMMA OrderedFrames ==
    ASSUME NEW S, NEW s \in Seq(S), Ordered(s)
    PROVE  /\ \A e \in S : e # "out" \/ ~Has("exit", s) => Ordered(Append(s, e))
           /\ s # <<>> => Ordered(Tail(s))
<1>1. ASSUME NEW e \in S, e # "out" \/ ~Has("exit", s) PROVE Ordered(Append(s, e))
    <2>1. /\ Len(s) \in Nat
          /\ DOMAIN s = 1..Len(s) /\ DOMAIN Append(s, e) = 1..(Len(s) + 1)
          /\ \A i \in 1..Len(s) : Append(s, e)[i] = s[i]
          /\ Append(s, e)[Len(s) + 1] = e
        BY AppendProperties
    <2>. QED
        BY <1>1, <2>1 DEF Ordered, Has
<1>2. ASSUME s # <<>> PROVE Ordered(Tail(s))
    <2>1. /\ Len(s) \in Nat /\ Len(s) > 0
          /\ DOMAIN s = 1..Len(s) /\ DOMAIN Tail(s) = 1..(Len(s) - 1)
          /\ \A i \in 1..(Len(s) - 1) : Tail(s)[i] = s[i + 1]
        BY <1>2, HeadTailProperties
    <2>. QED
        BY <2>1 DEF Ordered
<1>. QED
    BY <1>1, <1>2

\* No output is sent once the exit code is.
LEMMA OrderStep == TypeOK /\ CommandInv /\ Ordered(down) /\ [Next]_vars => Ordered(down)'
<1> SUFFICES ASSUME TypeOK, CommandInv, Ordered(down), [Next]_vars PROVE Ordered(down')
    OBVIOUS
<1>1. down \in Seq(DownFrames)
    BY DEF TypeOK, DownFrames
<1>2. \/ down' = down \/ down' = <<>> \/ (down # <<>> /\ down' = Tail(down))
      \/ down' = down \o <<"exit", "changes">>
      \/ down' = Append(down, "out") /\ pipe = "full"
      \/ down' = Append(down, "ready")
      \/ down' = Append(down, "grant") \/ down' = Append(down, "done")
      \/ down' = Append(down, "error")
    BY DEF Next, Client, User, Reader, Host, Process, Command, Faults, SendSyncComplete,
        Interrupt, ForwardCancel, SendInput, SendStdinClose, SendResize, SendHeartbeat,
        CloseSession, InterruptCloses, ClientReads, ClientApplies, ApplyFails, ClientEnds, ClientLosesHost,
        ReaderChecks, ReaderReads, ReaderFrame, ReaderPuts, ReaderDeadline,
        ReaderDisconnected, ReadUpload, StartReader, StartCommand, StartFails,
        AttachFails, CommandReads, CommandWrites, CommandExits, CommandDies, CopierEnds,
        StreamOutput, CommandWaited, ReaderStopped, SendExit, ReadNeed, GrantBlobs,
        ReadComplete, SaveAndFinish, SyncBackFails, HostLosesClient, HeartbeatFails,
        Break, ToHost, ClientFails, Fault, ReaderEnds, CancelRun, HostReads,
        HostFails, ToClient, StopReader, Forwarding, vars, cvars, hvars, ivars,
        history
<1>3. pipe = "full" => ~Has("exit", down)
    BY DEF CommandInv
<1>4. Ordered(down \o <<"exit", "changes">>)
    <2> DEFINE one == Append(down, "exit")
    <2>1. one \in Seq(DownFrames) /\ Ordered(one) /\ "changes" \in DownFrames
        BY <1>1, AppendFrame, OrderedFrames DEF DownFrames
    <2>2. Ordered(Append(one, "changes"))
        BY <2>1, OrderedFrames
    <2>3. Append(one, "changes") = down \o <<"exit", "changes">>
        BY <1>1 DEF DownFrames
    <2>. QED
        BY <2>2, <2>3
<1>5. Ordered(<<>>)
    BY DEF Ordered
<1>. QED
    BY <1>1, <1>2, <1>3, <1>4, <1>5, OrderedFrames DEF DownFrames

\* Every step keeps CauseInv.
LEMMA CauseInvStep ==
    TypeOK /\ CauseInv /\ [Next]_vars => CauseInv'
<1> SUFFICES ASSUME TypeOK, CauseInv, [Next]_vars PROVE CauseInv'
    OBVIOUS
<1> USE DEF CauseInv, UpFrames, cvars, hvars, ivars, history
<1>1. CASE SendSyncComplete
    BY <1>1, UpFacts, EmptyFrames DEF SendSyncComplete, ToHost
<1>2. CASE Interrupt
    BY <1>2, UpFacts, EmptyFrames DEF Interrupt, ClientFails
<1>3. CASE ForwardCancel
    BY <1>3, UpFacts, EmptyFrames DEF ForwardCancel, ToHost
<1>4. CASE SendInput
    BY <1>4, UpFacts, EmptyFrames DEF SendInput, ToHost, Forwarding
<1>5. CASE SendStdinClose
    BY <1>5, UpFacts, EmptyFrames DEF SendStdinClose, ToHost, Forwarding
<1>6. CASE SendHeartbeat
    BY <1>6, UpFacts, EmptyFrames DEF SendHeartbeat, ToHost
<1>7. CASE ClientReads
    BY <1>7, UpFacts, EmptyFrames DEF ClientReads, ToHost, ClientFails, CloseSession
<1>8. CASE ClientApplies
    BY <1>8, UpFacts, EmptyFrames DEF ClientApplies, ToHost
<1>9. CASE ApplyFails
    BY <1>9, UpFacts, EmptyFrames DEF ApplyFails, ClientFails, Fault
<1>10. CASE ClientEnds
    BY <1>10, UpFacts, EmptyFrames DEF ClientEnds
<1>11. CASE ClientLosesHost
    BY <1>11, UpFacts, EmptyFrames DEF ClientLosesHost, ClientFails
<1>12. CASE ReaderChecks
    BY <1>12, UpFacts, EmptyFrames DEF ReaderChecks, ReaderEnds, CancelRun
<1>13. CASE ReaderReads
    BY <1>13, UpFacts, EmptyFrames DEF ReaderReads
<1>14. CASE ReaderFrame
    <2>1. /\ up # <<>> /\ up' = Tail(up)
          /\ UNCHANGED <<mode, host, resizer, interrupted, stopped, deadline>>
          /\ torn' = torn \/ (torn' = TRUE /\ BothRead)
        BY <1>14 DEF ReaderFrame
    <2>2. BothRead => stopped \/ mode = "tty"
        BY DEF BothRead, TypeOK
    <2>. QED
        BY <2>1, <2>2, UpFacts
<1>15. CASE ReaderPuts
    BY <1>15, UpFacts, EmptyFrames DEF ReaderPuts, ReaderEnds, CancelRun
<1>16. CASE ReaderDeadline
    BY <1>16, UpFacts, EmptyFrames DEF ReaderDeadline, ReaderEnds, CancelRun
<1>17. CASE ReaderDisconnected
    BY <1>17, UpFacts, EmptyFrames DEF ReaderDisconnected, ReaderEnds, CancelRun
<1>18. CASE ReadUpload
    <2>1. HostMoves("sync", "complete", "setup")
        BY <1>18, ReadMoves
    <2>2. /\ UNCHANGED <<mode, resizer, interrupted, stopped>>
          /\ deadline' = "idle" /\ up # <<>>
        BY <2>1 DEF HostMoves
    <2>3. CASE up' = Tail(up) /\ torn' = torn
        <3>1. host = "sync" /\ host' \in {"sync", "setup", "failed"}
            BY <2>1 DEF HostMoves
        <3>. QED
            BY <2>2, <2>3, <3>1, UpFacts
    <2>4. CASE up' = <<>> /\ host' = "failed" /\ torn' = torn
        BY <2>2, <2>4, EmptyFrames
    <2>5. CASE up' = <<>> /\ host' = "failed" /\ torn' = TRUE /\ (torn \/ BothRead)
        <3>1. stopped \/ mode = "tty"
            BY <2>5 DEF BothRead, TypeOK
        <3>. QED
            BY <2>2, <2>5, <3>1, EmptyFrames
    <2>. QED
        BY <2>1, <2>3, <2>4, <2>5 DEF HostMoves
<1>19. CASE StartReader
    BY <1>19, UpFacts, EmptyFrames DEF StartReader, ToClient
<1>20. CASE StartCommand
    BY <1>20, UpFacts, EmptyFrames DEF StartCommand
<1>21. CASE StartFails
    BY <1>21, UpFacts, EmptyFrames DEF StartFails, StopReader, Fault
<1>22. CASE CommandReads
    BY <1>22, UpFacts, EmptyFrames DEF CommandReads
<1>23. CASE CommandWrites
    BY <1>23, UpFacts, EmptyFrames DEF CommandWrites
<1>24. CASE CommandExits
    BY <1>24, UpFacts, EmptyFrames DEF CommandExits
<1>25. CASE CommandDies
    BY <1>25, UpFacts, EmptyFrames DEF CommandDies
<1>26. CASE CopierEnds
    BY <1>26, UpFacts, EmptyFrames DEF CopierEnds
<1>27. CASE StreamOutput
    BY <1>27, UpFacts, EmptyFrames DEF StreamOutput, ToClient, CancelRun
<1>28. CASE CommandWaited
    BY <1>28, UpFacts, EmptyFrames DEF CommandWaited, StopReader
<1>29. CASE ReaderStopped
    BY <1>29, UpFacts, EmptyFrames DEF ReaderStopped
<1>30. CASE SendExit
    BY <1>30, UpFacts, EmptyFrames DEF SendExit
<1>31. CASE ReadNeed
    <2>1. HostMoves("need", "need", "grant")
        BY <1>31, ReadMoves
    <2>2. /\ UNCHANGED <<mode, resizer, interrupted, stopped>>
          /\ deadline' = "idle" /\ up # <<>>
        BY <2>1 DEF HostMoves
    <2>3. CASE up' = Tail(up) /\ torn' = torn
        <3>1. host = "need" /\ host' \in {"need", "grant", "failed"}
            BY <2>1 DEF HostMoves
        <3>. QED
            BY <2>2, <2>3, <3>1, UpFacts
    <2>4. CASE up' = <<>> /\ host' = "failed" /\ torn' = torn
        BY <2>2, <2>4, EmptyFrames
    <2>5. CASE up' = <<>> /\ host' = "failed" /\ torn' = TRUE /\ (torn \/ BothRead)
        <3>1. stopped \/ mode = "tty"
            BY <2>5 DEF BothRead, TypeOK
        <3>. QED
            BY <2>2, <2>5, <3>1, EmptyFrames
    <2>. QED
        BY <2>1, <2>3, <2>4, <2>5 DEF HostMoves
<1>32. CASE GrantBlobs
    BY <1>32, UpFacts, EmptyFrames DEF GrantBlobs, ToClient
<1>33. CASE ReadComplete
    <2>1. HostMoves("complete", "complete", "save")
        BY <1>33, ReadMoves
    <2>2. /\ UNCHANGED <<mode, resizer, interrupted, stopped>>
          /\ deadline' = "idle" /\ up # <<>>
        BY <2>1 DEF HostMoves
    <2>3. CASE up' = Tail(up) /\ torn' = torn
        <3>1. host = "complete" /\ host' \in {"complete", "save", "failed"}
            BY <2>1 DEF HostMoves
        <3>. QED
            BY <2>2, <2>3, <3>1, UpFacts
    <2>4. CASE up' = <<>> /\ host' = "failed" /\ torn' = torn
        BY <2>2, <2>4, EmptyFrames
    <2>5. CASE up' = <<>> /\ host' = "failed" /\ torn' = TRUE /\ (torn \/ BothRead)
        <3>1. stopped \/ mode = "tty"
            BY <2>5 DEF BothRead, TypeOK
        <3>. QED
            BY <2>2, <2>5, <3>1, EmptyFrames
    <2>. QED
        BY <2>1, <2>3, <2>4, <2>5 DEF HostMoves
<1>34. CASE SaveAndFinish
    BY <1>34, UpFacts, EmptyFrames DEF SaveAndFinish, ToClient
<1>35. CASE SyncBackFails
    BY <1>35, UpFacts, EmptyFrames DEF SyncBackFails, HostFails, Fault
<1>36. CASE HostLosesClient
    BY <1>36, UpFacts, EmptyFrames DEF HostLosesClient, HostFails
<1>37. CASE HeartbeatFails
    BY <1>37, UpFacts, EmptyFrames DEF HeartbeatFails, HostFails, CancelRun
<1>38. CASE Break
    BY <1>38, UpFacts, EmptyFrames DEF Break, Fault
<1>39. CASE SendResize
    BY <1>39, UpFacts, EmptyFrames DEF SendResize, ToHost
<1>40. CASE InterruptCloses
    BY <1>40, UpFacts, EmptyFrames DEF InterruptCloses, CloseSession
<1>41. CASE AttachFails
    BY <1>41, UpFacts, EmptyFrames DEF AttachFails
<1>42. CASE UNCHANGED vars
    BY <1>42 DEF vars
<1>. QED
    BY <1>1, <1>2, <1>3, <1>4, <1>5, <1>6, <1>7, <1>8, <1>9, <1>10, <1>11, <1>12,
       <1>13, <1>14, <1>15, <1>16, <1>17, <1>18, <1>19, <1>20, <1>21, <1>22, <1>23,
       <1>24, <1>25, <1>26, <1>27, <1>28, <1>29, <1>30, <1>31, <1>32, <1>33, <1>34,
       <1>35, <1>36, <1>37, <1>38, <1>39, <1>40, <1>41, <1>42
    DEF Next, Client, User, Reader, Host, Process, Command, Faults

\* Every step that makes the host fail has its cause.
LEMMA CauseStep ==
    TypeOK /\ EndInv /\ UploadInv /\ SyncBackInv /\ CauseInv /\ SyncBackFailsForCause /\ [Next]_vars
        => SyncBackFailsForCause'
<1> SUFFICES ASSUME TypeOK, EndInv, UploadInv, SyncBackInv, CauseInv, SyncBackFailsForCause,
                    [Next]_vars
             PROVE  SyncBackFailsForCause'
    OBVIOUS
<1> USE DEF SyncBackFailsForCause, cvars, hvars, ivars, history
<1>1. CASE SendSyncComplete
    BY <1>1 DEF SendSyncComplete, ToHost
<1>2. CASE Interrupt
    BY <1>2 DEF Interrupt, ClientFails
<1>3. CASE ForwardCancel
    BY <1>3 DEF ForwardCancel, ToHost
<1>4. CASE SendInput
    BY <1>4 DEF SendInput, ToHost, Forwarding
<1>5. CASE SendStdinClose
    BY <1>5 DEF SendStdinClose, ToHost, Forwarding
<1>6. CASE SendHeartbeat
    BY <1>6 DEF SendHeartbeat, ToHost
<1>7. CASE ClientReads
    BY <1>7 DEF ClientReads, ToHost, ClientFails, CloseSession
<1>8. CASE ClientApplies
    BY <1>8 DEF ClientApplies, ToHost
<1>9. CASE ApplyFails
    BY <1>9 DEF ApplyFails, ClientFails, Fault
<1>10. CASE ClientEnds
    BY <1>10 DEF ClientEnds
<1>11. CASE ClientLosesHost
    BY <1>11 DEF ClientLosesHost, ClientFails
<1>12. CASE ReaderChecks
    BY <1>12 DEF ReaderChecks, ReaderEnds, CancelRun
<1>13. CASE ReaderReads
    BY <1>13 DEF ReaderReads
<1>14. CASE ReaderFrame
    BY <1>14 DEF ReaderFrame, ReaderEnds, CancelRun
<1>15. CASE ReaderPuts
    BY <1>15 DEF ReaderPuts, ReaderEnds, CancelRun
<1>16. CASE ReaderDeadline
    BY <1>16 DEF ReaderDeadline, ReaderEnds, CancelRun
<1>17. CASE ReaderDisconnected
    BY <1>17 DEF ReaderDisconnected, ReaderEnds, CancelRun
<1>18. CASE ReadUpload
    <2>1. HostMoves("sync", "complete", "setup")
        BY <1>18, ReadMoves
    <2>2. /\ UNCHANGED <<mode, interrupted, stopped, client>> /\ up # <<>>
          /\ link' = link \/ (link = "open" /\ link' = "closed")
        BY <2>1 DEF HostMoves
    <2>3. Has(Head(up), up) /\ Head(up) \in UpFrames
        BY <2>2, UpFacts
    <2>4. CASE why' = why
        BY <2>2, <2>4
    <2>5. CASE why' = "late cancel" /\ Head(up) = "cancel"
        BY <2>2, <2>3, <2>5 DEF CauseInv
    <2>6. CASE why' = "late resize" /\ Head(up) = "resize"
        BY <2>2, <2>3, <2>6 DEF CauseInv
    <2>7. CASE why' = "torn" /\ (torn \/ BothRead)
        BY <2>2, <2>7 DEF CauseInv, BothRead, TypeOK
    <2>8. Head(up) \in {"beat", "data", "close", "cancel", "resize", "complete"}
        BY <2>1, <2>3 DEF HostMoves, UpFrames, UploadInv, SyncBackInv, Before
    <2>. QED
        BY <2>1, <2>4, <2>5, <2>6, <2>7, <2>8 DEF HostMoves
<1>19. CASE StartReader
    BY <1>19 DEF StartReader, ToClient
<1>20. CASE StartCommand
    BY <1>20 DEF StartCommand
<1>21. CASE StartFails
    BY <1>21 DEF StartFails, StopReader, Fault
<1>22. CASE CommandReads
    BY <1>22 DEF CommandReads
<1>23. CASE CommandWrites
    BY <1>23 DEF CommandWrites
<1>24. CASE CommandExits
    BY <1>24 DEF CommandExits
<1>25. CASE CommandDies
    BY <1>25 DEF CommandDies
<1>26. CASE CopierEnds
    BY <1>26 DEF CopierEnds
<1>27. CASE StreamOutput
    BY <1>27 DEF StreamOutput, ToClient, CancelRun
<1>28. CASE CommandWaited
    BY <1>28 DEF CommandWaited, StopReader
<1>29. CASE ReaderStopped
    BY <1>29 DEF ReaderStopped
<1>30. CASE SendExit
    BY <1>30 DEF SendExit
<1>31. CASE ReadNeed
    <2>1. HostMoves("need", "need", "grant")
        BY <1>31, ReadMoves
    <2>2. /\ UNCHANGED <<mode, interrupted, stopped, client>> /\ up # <<>>
          /\ link' = link \/ (link = "open" /\ link' = "closed")
        BY <2>1 DEF HostMoves
    <2>3. Has(Head(up), up) /\ Head(up) \in UpFrames
        BY <2>2, UpFacts
    <2>4. CASE why' = why
        BY <2>2, <2>4
    <2>5. CASE why' = "late cancel" /\ Head(up) = "cancel"
        BY <2>2, <2>3, <2>5 DEF CauseInv
    <2>6. CASE why' = "late resize" /\ Head(up) = "resize"
        BY <2>2, <2>3, <2>6 DEF CauseInv
    <2>7. CASE why' = "torn" /\ (torn \/ BothRead)
        BY <2>2, <2>7 DEF CauseInv, BothRead, TypeOK
    <2>8. Head(up) \in {"beat", "data", "close", "cancel", "resize", "need"}
        BY <2>1, <2>3 DEF HostMoves, UpFrames, SyncBackInv
    <2>. QED
        BY <2>1, <2>4, <2>5, <2>6, <2>7, <2>8 DEF HostMoves
<1>32. CASE GrantBlobs
    BY <1>32 DEF GrantBlobs, ToClient
<1>33. CASE ReadComplete
    <2>1. HostMoves("complete", "complete", "save")
        BY <1>33, ReadMoves
    <2>2. /\ UNCHANGED <<mode, interrupted, stopped, client>> /\ up # <<>>
          /\ link' = link \/ (link = "open" /\ link' = "closed")
        BY <2>1 DEF HostMoves
    <2>3. Has(Head(up), up) /\ Head(up) \in UpFrames
        BY <2>2, UpFacts
    <2>4. CASE why' = why
        BY <2>2, <2>4
    <2>5. CASE why' = "late cancel" /\ Head(up) = "cancel"
        BY <2>2, <2>3, <2>5 DEF CauseInv
    <2>6. CASE why' = "late resize" /\ Head(up) = "resize"
        BY <2>2, <2>3, <2>6 DEF CauseInv
    <2>7. CASE why' = "torn" /\ (torn \/ BothRead)
        BY <2>2, <2>7 DEF CauseInv, BothRead, TypeOK
    <2>8. Head(up) \in {"beat", "data", "close", "cancel", "resize", "complete"}
        BY <2>1, <2>3 DEF HostMoves, UpFrames, SyncBackInv
    <2>. QED
        BY <2>1, <2>4, <2>5, <2>6, <2>7, <2>8 DEF HostMoves
<1>34. CASE SaveAndFinish
    BY <1>34 DEF SaveAndFinish, ToClient
<1>35. CASE SyncBackFails
    BY <1>35 DEF SyncBackFails, HostFails, Fault
<1>36. CASE HostLosesClient
    BY <1>36 DEF HostLosesClient, HostFails, Silent, EndInv, TypeOK
<1>37. CASE HeartbeatFails
    BY <1>37 DEF HeartbeatFails, HostFails, CancelRun, EndInv, TypeOK
<1>38. CASE Break
    BY <1>38 DEF Break, Fault
<1>39. CASE SendResize
    BY <1>39 DEF SendResize, ToHost
<1>40. CASE InterruptCloses
    BY <1>40 DEF InterruptCloses, CloseSession
<1>41. CASE AttachFails
    BY <1>41 DEF AttachFails
<1>42. CASE UNCHANGED vars
    BY <1>42 DEF vars
<1>. QED
    BY <1>1, <1>2, <1>3, <1>4, <1>5, <1>6, <1>7, <1>8, <1>9, <1>10, <1>11, <1>12,
       <1>13, <1>14, <1>15, <1>16, <1>17, <1>18, <1>19, <1>20, <1>21, <1>22, <1>23,
       <1>24, <1>25, <1>26, <1>27, <1>28, <1>29, <1>30, <1>31, <1>32, <1>33, <1>34,
       <1>35, <1>36, <1>37, <1>38, <1>39, <1>40, <1>41, <1>42
    DEF Next, Client, User, Reader, Host, Process, Command, Faults

-----------------------------------------------------------------------------
(* All of it together *)

\* Every step keeps the types.
LEMMA TypeStep == TypeOK /\ CountInv /\ CountInv' /\ FeedInv /\ [Next]_vars => TypeOK'
<1> SUFFICES ASSUME TypeOK, CountInv, CountInv', FeedInv, [Next]_vars PROVE TypeOK'
    OBVIOUS
<1>1. Control /\ Booleans
    BY DEF TypeOK, Control, Booleans
<1>2. Control' /\ Booleans'
    BY <1>1, ControlStep, BooleanStep
<1>3. up' \in Seq(UpFrames)
    <2>1. up \in Seq(UpFrames)
        BY DEF TypeOK, UpFrames
    <2>2. /\ <<>> \in Seq(UpFrames)
          /\ \A f \in UpFrames : Append(up, f) \in Seq(UpFrames)
          /\ up # <<>> => Tail(up) \in Seq(UpFrames)
        BY <2>1, AppendFrame, TailFrame
    <2>. QED
        BY <2>1, <2>2, UpMoves
<1>4. down' \in Seq(DownFrames)
    <2>1. down \in Seq(DownFrames) /\ <<"exit", "changes">> \in Seq(DownFrames)
        BY DEF TypeOK, DownFrames
    <2>2. /\ <<>> \in Seq(DownFrames)
          /\ \A f \in DownFrames : Append(down, f) \in Seq(DownFrames)
          /\ down # <<>> => Tail(down) \in Seq(DownFrames)
          /\ down \o <<"exit", "changes">> \in Seq(DownFrames)
        BY <2>1, AppendFrame, TailFrame, ConcatProperties
    <2>. QED
        BY <2>1, <2>2, DownMoves
<1>5. input' \in 0..MaxInput
    <2>1. MaxInput \in Nat /\ input \in 0..MaxInput
        BY RunSessionAssumption DEF TypeOK
    <2>2. input' = input \/ (input < MaxInput /\ input' = input + 1)
        BY InputMoves
    <2>. QED
        BY <2>1, <2>2
<1>6. piece' \in 0..MaxInput
    <2>1. Cardinality(Pieces(up')) \in Nat
        BY <1>3, PiecesFinite
    <2>2. piece' \in Nat
        BY PieceMoves, RunSessionAssumption DEF TypeOK
    <2>. QED
        BY <2>1, <2>2, <1>5, RunSessionAssumption DEF CountInv
<1>7. queue' \in Seq(1..MaxInput) /\ Len(queue') <= MaxQueue
    <2>1. /\ queue \in Seq(1..MaxInput) /\ Len(queue) <= MaxQueue /\ MaxQueue \in Nat
          /\ reader = "put" => piece \in 1..MaxInput
        BY RunSessionAssumption DEF TypeOK, FeedInv
    <2>5. <<>> \in Seq(1..MaxInput) /\ Len(<<>>) = 0
        OBVIOUS
    <2>2. CASE queue' = queue
        BY <2>1, <2>2
    <2>6. CASE queue' = <<>>
        BY <2>1, <2>5, <2>6
    <2>3. CASE reader = "put" /\ Len(queue) < MaxQueue /\ queue' = Append(queue, piece)
        BY <2>1, <2>3, AppendProperties
    <2>4. CASE queue # <<>> /\ queue' = Tail(queue)
        BY <2>1, <2>4, HeadTailProperties
    <2>. QED
        BY <2>2, <2>3, <2>4, <2>6, QueueMoves
<1>8. got' \in Seq(1..MaxInput)
    <2>0. got \in Seq(1..MaxInput) /\ queue \in Seq(1..MaxInput)
        BY DEF TypeOK
    <2>1. /\ reader = "put" => piece \in 1..MaxInput
          /\ queue # <<>> => Head(queue) \in 1..MaxInput
        <3>1. reader = "put" => piece \in 1..MaxInput
            BY RunSessionAssumption DEF TypeOK, FeedInv
        <3>2. queue # <<>> => Head(queue) \in 1..MaxInput
            BY <2>0, HeadTailProperties
        <3>. QED
            BY <3>1, <3>2
    <2>2. /\ <<>> \in Seq(1..MaxInput)
          /\ \A e \in 1..MaxInput : Append(got, e) \in Seq(1..MaxInput)
        BY <2>0, AppendProperties
    <2>. QED
        BY <2>0, <2>1, <2>2, GotMoves
<1>. QED
    BY <1>2, <1>3, <1>4, <1>5, <1>6, <1>7, <1>8
    DEF TypeOK, Control, Booleans, UpFrames, DownFrames

\* The conjunction that every step keeps.
SessionInv ==
    /\ TypeOK /\ Ordered(down) /\ FeedInv /\ CountInv
    /\ CommandInv /\ EndInv /\ UploadInv /\ SyncBackInv /\ CauseInv /\ SyncBackFailsForCause

\* SessionInv holds initially.
LEMMA SessionInit == Init => SessionInv
<1> SUFFICES ASSUME Init PROVE SessionInv
    OBVIOUS
<1> USE DEF Init
<1>1. Booleans
    BY DEF Booleans
<1>2. TypeOK
    BY <1>1, RunSessionAssumption DEF TypeOK, Booleans, Clients, Hosts
<1>3. CountInv
    BY FS_EmptySet DEF CountInv, Pieces
<1>4. Ordered(down) /\ FeedInv
    BY DEF Ordered, FeedInv, Taken, Feeds, Complete
<1>5. CommandInv /\ EndInv /\ UploadInv /\ SyncBackInv /\ CauseInv
    BY EmptyFrames DEF CommandInv, EndInv, UploadInv, SyncBackInv, CauseInv, Before
<1>. QED
    BY <1>2, <1>3, <1>4, <1>5 DEF SessionInv, SyncBackFailsForCause

\* SessionInv is an invariant.
LEMMA SessionInvariant == Spec => []SessionInv
<1>1. SessionInv /\ [Next]_vars => SessionInv'
    <2> SUFFICES ASSUME SessionInv, [Next]_vars PROVE SessionInv'
        OBVIOUS
    <2> USE DEF SessionInv
    <2>1. CountInv'
        BY CountStep
    <2>2. TypeOK'
        BY <2>1, TypeStep
    <2>3. Ordered(down)' /\ FeedInv'
        BY OrderStep, FeedStep
    <2>4. CommandInv' /\ EndInv' /\ UploadInv'
        BY CommandStep, EndStep, UploadStep
    <2>5. SyncBackInv' /\ CauseInv' /\ SyncBackFailsForCause'
        BY SyncBackStep, CauseInvStep, CauseStep
    <2>. QED
        BY <2>1, <2>2, <2>3, <2>4, <2>5
<1>. QED
    BY <1>1, SessionInit, PTL DEF Spec

\* The command's input is what the client sent, in order and without gaps, and all
\* output of the command comes before its exit code: however much input there is,
\* however the queue fills, and whenever the command starts, ends or is cancelled.
THEOREM StreamsInOrderAlways == Spec => []StreamsInOrder
<1>1. SessionInv => StreamsInOrder
    BY DEF SessionInv, StreamsInOrder, FeedInv, Ordered
<1>. QED
    BY <1>1, SessionInvariant, PTL

\* The host keeps the results of a run only when the client has applied them, and the
\* client takes a run for finished only when the host has kept them.
THEOREM BothKeepResultsAlways == Spec => []BothKeepResults
<1>1. SessionInv => BothKeepResults
    BY DEF SessionInv, BothKeepResults, SyncBackInv, EndInv
<1>. QED
    BY <1>1, SessionInvariant, PTL

\* The sync-back fails only for a cause: no frame comes out of turn; the size of a window,
\* which does, comes only from a terminal; a cancel and silence only from an interrupt; a torn
\* frame only from a reader that was told to stop, or a terminal's; and a disconnect
\* only from a broken connection or a client that failed.
THEOREM SyncBackFailsForCauseAlways == Spec => []SyncBackFailsForCause
<1>1. SessionInv => SyncBackFailsForCause
    BY DEF SessionInv
<1>. QED
    BY <1>1, SessionInvariant, PTL
=============================================================================
