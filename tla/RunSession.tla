----------------------------- MODULE RunSession -----------------------------
(***************************************************************************)
(* One run as its two ends see it: the input and the interrupt of the user *)
(* go to the host on the same connection that later carries the frames of  *)
(* the sync-back (client/client.go, host/server.go, host/run_input.go,     *)
(* host/tty_command.go, protocol/idle_conn.go, protocol/heartbeat.go).     *)
(*                                                                         *)
(* While the command runs, the host's frames are read by a goroutine, the  *)
(* reader.  When the command has ended it is told to stop, and the host    *)
(* reads the connection itself.  The deadline that is meant to wake up the *)
(* reader is one of the connection, and every Read sets it anew.  The      *)
(* reader of a terminal is often not told at all, and then reads on beside *)
(* the host.                                                               *)
(*                                                                         *)
(* Blobs and files of a sync are the subject of BlobTransfer and ApplyTx;  *)
(* here they are the frames around them.                                   *)
(***************************************************************************)
EXTENDS Integers, Sequences

CONSTANTS
    MaxInput,   \* bound: pieces of input
    MaxQueue,   \* maxQueuedPipeInputBytes, in pieces
    MaxAhead,   \* bound: frames still on their way when a heartbeat or a window's size is sent
    MaxFaults   \* bound: broken connections and failing steps

ASSUME RunSessionAssumption == {MaxInput, MaxQueue, MaxAhead, MaxFaults} \subseteq Nat

VARIABLES
    mode,       \* "pipe" or "tty"
    up, down,   \* frames on their way to the host and to the client
    link,       \* "open", "closed" by one side or "down"
    \* The client.
    client,     \* its state, see Clients
    stdin,      \* "open" or "over": its forwarding of input
    input,      \* the number of pieces of input sent
    interrupted,
    forwarder,  \* the goroutine that sends the cancel: "off", "on" or "over"
    resizer,    \* the goroutine that sends the size of a terminal's window: "off", "on", or
                \* "late": told to stop, but perhaps not yet at the place where it looks
    applied,    \* the changes were applied locally
    \* The host.
    host,       \* its state, see Hosts
    ctx,        \* the context of the command: "live" or "cancelled"
    command,    \* "none", "running", "killed" or "ended"
    pipe,       \* the output of the command: "empty", "full", "sent" or "closed"
    copier,     \* the goroutine of cmd.Wait that feeds the command's input: "on" or "off"
    got,        \* the input that reached the command, as long as it is there
    \* The input queue and its reader.
    queue, qclosed, stopped,
    reader,     \* "off", "check", "read", "wait", "put" or "end"
    piece,      \* what it puts
    rclosed,    \* it has seen the end of input or a cancel
    deadline,   \* of the connection: "idle", "now" or "none"
    \* History.
    faults,
    stolen,     \* a frame of the sync-back went to a reader that was not stopped
    torn,       \* the deadline, or two readers at once, cut a frame: what follows is no header
    why         \* why the host failed

cvars == <<client, stdin, input, interrupted, forwarder, resizer, applied>>
hvars == <<host, ctx, command, pipe, copier, got>>
ivars == <<queue, qclosed, stopped, reader, piece, rclosed, deadline>>
history == <<stolen, torn, why>>
vars == <<mode, up, down, link, cvars, hvars, ivars, faults, history>>

Clients == {"upload", "ready", "run", "need", "apply", "last", "done", "failed"}
Hosts == {"sync", "setup", "command", "stop", "exit", "need", "grant", "complete", "save",
          "done", "failed"}

Init ==
    /\ mode \in {"pipe", "tty"}
    /\ up = <<>> /\ down = <<>> /\ link = "open"
    /\ client = "upload" /\ stdin = "open" /\ input = 0 /\ interrupted = FALSE
    /\ forwarder = "off" /\ resizer = "off" /\ applied = FALSE
    /\ host = "sync" /\ ctx = "live" /\ command = "none" /\ pipe = "empty" /\ copier = "off"
    /\ got = <<>>
    /\ queue = <<>> /\ qclosed = FALSE /\ stopped = FALSE
    /\ reader = "off" /\ piece = 0 /\ rclosed = FALSE /\ deadline = "none"
    /\ faults = 0
    /\ stolen = FALSE /\ torn = FALSE /\ why = "none"

Fault == faults < MaxFaults /\ faults' = faults + 1

-----------------------------------------------------------------------------
(* The client *)

\* A frame is written; on a broken connection it is lost or gives an error.
ToHost(f) == up' = IF link = "open" THEN Append(up, f) ELSE up

\* The client closes its connection.  What the host has not read yet is there to read.
ClientFails ==
    /\ client' = "failed"
    /\ link' = IF link = "open" THEN "closed" ELSE link
    /\ stdin' = "over"
    /\ forwarder' = "over"
    /\ resizer' = "off"

\* finishRunHandshake: the upload is done.  From here on an interrupt is forwarded,
\* not answered by closing the connection.
SendSyncComplete ==
    /\ client = "upload"
    /\ ~interrupted
    /\ ToHost("complete")
    /\ client' = "ready"
    /\ forwarder' = "on"
    /\ UNCHANGED <<mode, down, link, stdin, input, interrupted, resizer, applied, hvars, ivars,
                   faults, history>>

\* The user interrupts the run.  Before the upload is complete this closes the connection.
Interrupt ==
    /\ ~interrupted
    /\ client \notin {"done", "failed"}
    /\ interrupted' = TRUE
    /\ IF client = "upload" THEN ClientFails ELSE UNCHANGED <<client, link, stdin, forwarder, resizer>>
    /\ UNCHANGED <<mode, up, down, input, applied, hvars, ivars, faults, history>>

\* startRunCancelForwarder.
ForwardCancel ==
    /\ forwarder = "on"
    /\ interrupted
    /\ forwarder' = "over"
    /\ ToHost("cancel")
    /\ UNCHANGED <<mode, down, link, client, stdin, input, interrupted, resizer, applied, hvars,
                   ivars, faults, history>>

Forwarding == stdin = "open" /\ client \in {"run", "need", "apply", "last"}

\* sendStdin and the terminal's input.  Of what is sent on a broken connection nothing comes.
SendInput ==
    /\ Forwarding
    /\ link = "open"
    /\ input < MaxInput
    /\ input' = input + 1
    /\ ToHost("data")
    /\ UNCHANGED <<mode, down, link, client, stdin, interrupted, forwarder, resizer, applied,
                   hvars, ivars, faults, history>>

\* The input of the user ends.
SendStdinClose ==
    /\ Forwarding
    /\ stdin' = "over"
    /\ ToHost("close")
    /\ UNCHANGED <<mode, down, link, client, input, interrupted, forwarder, resizer, applied,
                   hvars, ivars, faults, history>>

\* startResizeWatcher, writeTTYSize: the window of the terminal has another size.  When the
\* session is closed a write may be under way, and the select may still take a signal
\* that is there instead of the close.
SendResize ==
    /\ resizer # "off"
    /\ link = "open"
    /\ Len(up) <= MaxAhead
    /\ ToHost("resize")
    /\ UNCHANGED <<mode, down, link, cvars, hvars, ivars, faults, history>>

\* ttyInputSession.Close restores the terminal and stops the watcher; input goes on.
CloseSession == resizer' = IF resizer = "on" THEN "late" ELSE resizer

\* The goroutine of startTTYInput closes the session of an interrupted run.
InterruptCloses ==
    /\ resizer = "on"
    /\ interrupted
    /\ stdin = "open"
    /\ CloseSession
    /\ UNCHANGED <<mode, up, down, link, client, stdin, input, interrupted, forwarder, applied,
                   hvars, ivars, faults, history>>

\* Heartbeats end with the context of the run: an interrupted client sends none.
SendHeartbeat ==
    /\ client \notin {"done", "failed"}
    /\ ~interrupted
    /\ link = "open"
    /\ Len(up) <= MaxAhead
    /\ ToHost("beat")
    /\ UNCHANGED <<mode, down, link, cvars, hvars, ivars, faults, history>>

\* processExecFrames, processTTYExecFrames and what they call: the next frame of the host.
\* A terminal's session is closed by the exit; when an interrupt closes it at that moment,
\* its channel is closed twice, and the program dies.
ClientReads ==
    LET f == Head(down) IN
    /\ client \in {"ready", "run", "need"}
    /\ down # <<>>
    /\ down' = Tail(down)
    /\ \/ /\ client = "ready" /\ f = "ready" /\ client' = "run"
          /\ resizer' = IF mode = "tty" THEN "on" ELSE "off"
          /\ UNCHANGED <<up, link, stdin, forwarder>>
       \/ /\ client = "run" /\ f = "out"
          /\ UNCHANGED <<up, link, client, stdin, forwarder, resizer>>
       \/ /\ client = "run" /\ f = "exit"
          /\ CloseSession
          /\ UNCHANGED <<up, link, client, stdin, forwarder>>
       \/ /\ client = "run" /\ f = "exit"
          /\ resizer = "on" /\ interrupted /\ stdin = "open"
          /\ ClientFails
          /\ UNCHANGED up
       \/ /\ client = "run" /\ f = "changes" /\ client' = "need"
          /\ ToHost("need")
          /\ UNCHANGED <<link, stdin, forwarder, resizer>>
       \/ /\ client = "need" /\ f = "grant" /\ client' = "apply"
          /\ UNCHANGED <<up, link, stdin, forwarder, resizer>>
       \/ /\ client = "run" /\ f = "done" /\ client' = "last"
          /\ UNCHANGED <<up, link, stdin, forwarder, resizer>>
       \/ /\ f = "error"
          /\ ClientFails
          /\ UNCHANGED up
    /\ UNCHANGED <<mode, input, interrupted, applied, hvars, ivars, faults, history>>

\* syncWorkspaceChangesFromHost: the files are applied, whether interrupted or not.
ClientApplies ==
    /\ client = "apply"
    /\ client' = "run"
    /\ applied' = TRUE
    /\ ToHost("complete")
    /\ UNCHANGED <<mode, down, link, stdin, input, interrupted, forwarder, resizer, hvars, ivars,
                   faults, history>>

ApplyFails ==
    /\ client = "apply"
    /\ Fault
    /\ ClientFails
    /\ UNCHANGED <<mode, up, down, input, interrupted, applied, hvars, ivars, history>>

\* waitForStdinForwarding: the client also waits for the end of its own input, but not for
\* that of a terminal.
ClientEnds ==
    /\ client = "last"
    /\ mode = "tty" \/ stdin = "over" \/ interrupted
    /\ client' = "done"
    /\ forwarder' = "over"
    /\ resizer' = "off"
    /\ UNCHANGED <<mode, up, down, link, stdin, input, interrupted, applied, hvars, ivars,
                   faults, history>>

\* A Read or Write on the broken connection.
ClientLosesHost ==
    /\ link # "open"
    /\ \/ client \in {"ready", "run", "need"} /\ down = <<>>
       \/ client = "upload"
    /\ ClientFails
    /\ UNCHANGED <<mode, up, down, input, interrupted, applied, hvars, ivars, faults,
                   history>>

-----------------------------------------------------------------------------
(* The host's reader of input *)

\* runCancelHandle.Cancel, commandCancel: the context and, when it runs, the command.
CancelRun ==
    /\ ctx' = "cancelled"
    /\ command' = IF command = "running" THEN "killed" ELSE command

\* The reader returns; an error ends the run, but not that of a terminal.
ReaderEnds(error) ==
    /\ reader' = "end"
    /\ qclosed' = (qclosed \/ mode = "pipe")
    /\ IF error /\ ~stopped /\ mode = "pipe" THEN CancelRun ELSE UNCHANGED <<ctx, command>>

\* The loop of consumePipeInput and consumeTTYInput: is it to stop?
ReaderChecks ==
    /\ reader = "check"
    /\ IF stopped
       THEN ReaderEnds(FALSE)
       ELSE reader' = "read" /\ UNCHANGED <<qclosed, ctx, command>>
    /\ UNCHANGED <<mode, up, down, link, cvars, host, pipe, copier, got, queue, stopped, piece,
                   rclosed, deadline, faults, history>>

\* IdleDeadlineConn.Read sets the deadline, whatever it was.
ReaderReads ==
    /\ reader = "read"
    /\ reader' = "wait"
    /\ deadline' = "idle"
    /\ UNCHANGED <<mode, up, down, link, cvars, hvars, queue, qclosed, stopped, piece, rclosed,
                   faults, history>>

\* The host has the master of the terminal open until the command has been waited for.
MasterOpen == command \in {"running", "killed"} \/ (command = "ended" /\ host = "command")

\* The reader and the host read from the buffer of the same connection, which has no lock:
\* either gets the next frame, or a part of it.
BothRead == reader = "wait" /\ host \in {"need", "complete"}

\* handleInputFrame.  After the end of input only a cancel matters.  Each piece of input
\* stands for itself: the k-th that is sent is k.
ReaderFrame ==
    LET f == Head(up)
        next == reader' = "check"
    IN
    /\ reader = "wait"
    /\ up # <<>>
    /\ up' = Tail(up)
    /\ \/ /\ f = "data" /\ ~rclosed
          /\ reader' = "put" /\ piece' = piece + 1
          /\ UNCHANGED <<qclosed, rclosed, torn, ctx, command>>
       \/ /\ f = "cancel"
          /\ next /\ CancelRun
          /\ rclosed' = TRUE /\ qclosed' = (qclosed \/ mode = "pipe")
          /\ UNCHANGED <<piece, torn>>
       \/ /\ f = "close"
          /\ next
          /\ rclosed' = TRUE /\ qclosed' = (qclosed \/ mode = "pipe")
          /\ UNCHANGED <<piece, torn, ctx, command>>
       \/ /\ f = "beat" \/ (rclosed /\ f \in {"data", "resize", "need", "complete"})
          /\ next
          /\ UNCHANGED <<qclosed, piece, rclosed, torn, ctx, command>>
       \/ /\ f = "resize" /\ ~rclosed /\ (command = "none" \/ MasterOpen)
          /\ next
          /\ UNCHANGED <<qclosed, piece, rclosed, torn, ctx, command>>
       \/ /\ \/ f = "resize" /\ ~rclosed /\ command = "ended"
             \/ f \in {"need", "complete"} /\ ~rclosed
          /\ ReaderEnds(TRUE)
          /\ UNCHANGED <<piece, rclosed, torn>>
       \/ /\ BothRead
          /\ ReaderEnds(TRUE)
          /\ torn' = TRUE
          /\ UNCHANGED <<piece, rclosed>>
    /\ stolen' = (stolen \/ f \in {"need", "complete"} \/ (f = "cancel" /\ host \notin {"setup", "command", "stop"}))
    /\ UNCHANGED <<mode, down, link, cvars, host, pipe, copier, got, queue, stopped, deadline,
                   faults, why>>

\* pipeInputForwarding.Write waits for room, ttyInputForwarding.Write gives an error
\* when there is none, and writes to the terminal once that is attached, and
\* gets an error when that is closed, or lets the input vanish when its command is gone.
ReaderPuts ==
    /\ reader = "put"
    /\ \/ /\ mode = "pipe" /\ (qclosed \/ stopped)
          /\ ReaderEnds(TRUE)
          /\ UNCHANGED <<queue, got>>
       \/ /\ mode = "pipe" /\ ~qclosed /\ ~stopped /\ Len(queue) < MaxQueue
          /\ queue' = Append(queue, piece)
          /\ reader' = "check"
          /\ UNCHANGED <<qclosed, ctx, command, got>>
       \/ /\ mode = "tty" /\ command = "none"
          /\ IF Len(queue) < MaxQueue
             THEN /\ queue' = Append(queue, piece) /\ reader' = "check"
                  /\ UNCHANGED <<qclosed, ctx, command>>
             ELSE ReaderEnds(TRUE) /\ UNCHANGED queue
          /\ UNCHANGED got
       \/ /\ mode = "tty" /\ command \in {"running", "killed"}
          /\ got' = Append(got, piece)
          /\ reader' = "check"
          /\ UNCHANGED <<queue, qclosed, ctx, command>>
       \/ /\ mode = "tty" /\ command = "ended" /\ MasterOpen
          /\ reader' = "check"
          /\ UNCHANGED <<queue, qclosed, ctx, command, got>>
       \/ /\ mode = "tty" /\ command = "ended"
          /\ ReaderEnds(TRUE)
          /\ UNCHANGED <<queue, got>>
    /\ UNCHANGED <<mode, up, down, link, cvars, host, pipe, copier, stopped, piece, rclosed,
                   deadline, faults, history>>

\* The deadline of stopInputReader wakes it up, perhaps within a frame.
ReaderDeadline ==
    /\ reader = "wait"
    /\ deadline = "now"
    /\ ReaderEnds(TRUE)
    /\ \/ UNCHANGED <<up, torn>>
       \/ up # <<>> /\ up' = Tail(up) /\ torn' = TRUE
    /\ UNCHANGED <<mode, down, link, cvars, host, pipe, copier, got, queue, stopped, piece,
                   rclosed, deadline, faults, stolen, why>>

\* An interrupted client sends a cancel, at once, and no heartbeats.
Silent == interrupted /\ forwarder = "over"

\* The connection has ended, or its client is silent for longer than the idle timeout.
ReaderDisconnected ==
    /\ reader = "wait"
    /\ up = <<>>
    /\ link # "open" \/ (Silent /\ deadline = "idle")
    /\ ReaderEnds(TRUE)
    /\ UNCHANGED <<mode, up, down, link, cvars, host, pipe, copier, got, queue, stopped, piece,
                   rclosed, deadline, faults, history>>

-----------------------------------------------------------------------------
(* The host *)

ToClient(f) == down' = IF link = "open" THEN Append(down, f) ELSE down

\* The request ends with an error, and its connection.  A disconnect, and that includes a
\* cancel, ends it without a message.
HostFails(cause, message) ==
    /\ host' = "failed"
    /\ up' = <<>>
    /\ why' = cause
    /\ down' = IF message /\ link = "open" THEN Append(down, "error") ELSE down
    /\ link' = IF link = "open" THEN "closed" ELSE link

\* A frame that the host reads itself in one of its states.  The size of a window, which
\* a terminal's client may send late, is not among those it expects.
HostReads(state, frame, next) ==
    LET f == Head(up) IN
    /\ host = state
    /\ up # <<>>
    /\ deadline' = "idle"
    /\ \/ /\ ~torn
          /\ f = "beat" \/ (state # "sync" /\ f \in {"data", "close"})
          /\ up' = Tail(up)
          /\ UNCHANGED <<host, down, link, torn, why>>
       \/ /\ ~torn /\ f = frame
          /\ up' = Tail(up)
          /\ host' = next
          /\ UNCHANGED <<down, link, torn, why>>
       \/ /\ ~torn /\ f = "cancel"
          /\ HostFails("late cancel", FALSE)
          /\ UNCHANGED torn
       \/ /\ ~torn /\ f = "resize"
          /\ HostFails("late resize", TRUE)
          /\ UNCHANGED torn
       \/ /\ ~torn /\ f \notin {"beat", "data", "close", "cancel", "resize", frame}
          /\ HostFails("frame", TRUE)
          /\ UNCHANGED torn
       \/ /\ torn \/ BothRead
          /\ HostFails("torn", TRUE)
          /\ torn' = TRUE
    /\ UNCHANGED <<mode, cvars, ctx, command, pipe, copier, got, queue, qclosed, stopped, reader,
                   piece, rclosed, faults, stolen>>

\* waitForClientBlobTransfer: up to the client's SyncComplete.
ReadUpload == HostReads("sync", "complete", "setup")

\* handleRunRequest, runCommand: the workspace is ready, and the reader starts.
StartReader ==
    /\ host = "setup"
    /\ reader = "off"
    /\ ToClient("ready")
    /\ reader' = "check"
    /\ UNCHANGED <<mode, up, link, cvars, hvars, queue, qclosed, stopped, piece, rclosed,
                   deadline, faults, history>>

\* Fault: a cancel that came before the command is not looked at.
StartAnyway ==
    /\ host = "setup"
    /\ reader # "off"
    /\ host' = "command"
    /\ command' = "running"
    /\ copier' = IF mode = "pipe" THEN "on" ELSE "off"
    /\ got' = IF mode = "tty" THEN queue ELSE <<>>
    /\ queue' = IF mode = "tty" THEN <<>> ELSE queue
    /\ UNCHANGED <<mode, up, down, link, cvars, ctx, pipe, qclosed, stopped, reader, piece,
                   rclosed, deadline, faults, history>>

\* Fault: what is queued for a terminal is not given to it.
AttachDropsQueue ==
    /\ host = "setup"
    /\ reader # "off"
    /\ host' = "command"
    /\ command' = IF ctx = "cancelled" THEN "killed" ELSE "running"
    /\ copier' = IF mode = "pipe" THEN "on" ELSE "off"
    /\ got' = <<>>
    /\ queue' = IF mode = "tty" THEN <<>> ELSE queue
    /\ UNCHANGED <<mode, up, down, link, cvars, ctx, pipe, qclosed, stopped, reader, piece,
                   rclosed, deadline, faults, history>>

\* The context's setup is done and the command is started, and killed at once when the
\* run was cancelled meanwhile.  A terminal is given what is queued.
StartCommand ==
    /\ host = "setup"
    /\ reader # "off"
    /\ host' = "command"
    /\ command' = IF ctx = "cancelled" THEN "killed" ELSE "running"
    /\ copier' = IF mode = "pipe" THEN "on" ELSE "off"
    /\ got' = IF mode = "tty" THEN queue ELSE <<>>
    /\ queue' = IF mode = "tty" THEN <<>> ELSE queue
    /\ UNCHANGED <<mode, up, down, link, cvars, ctx, pipe, qclosed, stopped, reader, piece,
                   rclosed, deadline, faults, history>>

\* stopInputReader, up to its wait.
StopReader ==
    /\ stopped' = TRUE
    /\ queue' = IF mode = "pipe" THEN <<>> ELSE queue
    /\ deadline' = "now"

\* The setup or the start fails, which is what a cancel makes of it.  The reader of a
\* terminal is not stopped when the terminal or the command cannot be started.
StartFails ==
    /\ host = "setup"
    /\ reader # "off"
    /\ IF ctx = "cancelled" THEN UNCHANGED faults ELSE Fault
    /\ ctx' = "cancelled"
    /\ \/ host' = "stop" /\ StopReader
       \/ mode = "tty" /\ host' = "exit" /\ UNCHANGED <<queue, stopped, deadline>>
    /\ UNCHANGED <<mode, up, down, link, cvars, command, pipe, copier, got, qclosed, reader,
                   piece, rclosed, history>>

\* The command is started, but not all that is queued can be written to its terminal, for
\* instance because it has ended: it is killed and waited for, the reader is not stopped.
AttachFails ==
    /\ host = "setup"
    /\ reader # "off"
    /\ mode = "tty" /\ queue # <<>>
    /\ queue' = <<>>
    /\ command' = "ended"
    /\ ctx' = "cancelled"
    /\ host' = "exit"
    /\ UNCHANGED <<mode, up, down, link, cvars, pipe, copier, got, qclosed, stopped, reader, piece,
                   rclosed, deadline, faults, history>>

\* The command reads its input, or not.
CommandReads ==
    /\ copier = "on"
    /\ command = "running"
    /\ queue # <<>>
    /\ got' = Append(got, Head(queue))
    /\ queue' = Tail(queue)
    /\ UNCHANGED <<mode, up, down, link, cvars, host, ctx, command, pipe, copier, qclosed,
                   stopped, reader, piece, rclosed, deadline, faults, history>>

CommandWrites ==
    /\ command = "running"
    /\ pipe = "empty"
    /\ pipe' = "full"
    /\ UNCHANGED <<mode, up, down, link, cvars, host, ctx, command, copier, got, ivars, faults,
                   history>>

CommandExits ==
    /\ command = "running"
    /\ command' = "ended"
    /\ UNCHANGED <<mode, up, down, link, cvars, host, ctx, pipe, copier, got, ivars, faults,
                   history>>

CommandDies ==
    /\ command = "killed"
    /\ command' = "ended"
    /\ UNCHANGED <<mode, up, down, link, cvars, host, ctx, pipe, copier, got, ivars, faults,
                   history>>

\* The input goroutine of cmd.Wait ends with the input, or when it writes to a process
\* that is gone.
CopierEnds ==
    /\ copier = "on"
    /\ \/ queue = <<>> /\ (qclosed \/ stopped) /\ UNCHANGED queue
       \/ queue # <<>> /\ command = "ended" /\ queue' = Tail(queue)
    /\ copier' = "off"
    /\ UNCHANGED <<mode, up, down, link, cvars, host, ctx, command, pipe, got, qclosed, stopped,
                   reader, piece, rclosed, deadline, faults, history>>

\* streamPipe; an error cancels the run.
StreamOutput ==
    /\ pipe = "full"
    /\ pipe' = "sent"
    /\ ToClient("out")
    /\ IF link = "open" THEN UNCHANGED <<ctx, command>> ELSE CancelRun
    /\ UNCHANGED <<mode, up, link, cvars, host, copier, got, ivars, faults, history>>

\* Fault: the output is not waited for.
WaitedWithoutOutput ==
    /\ host = "command"
    /\ command = "ended"
    /\ copier = "off"
    /\ host' = "stop"
    /\ ctx' = "cancelled"
    /\ StopReader
    /\ UNCHANGED <<mode, up, down, link, cvars, command, pipe, copier, got, qclosed, reader,
                   piece, rclosed, faults, history>>

\* cmd.Wait returns when the process and its input goroutine have ended.  It closes
\* the output pipes, and what streamPipe has not read by then is lost.  The output of a
\* terminal mostly ends with an error (EIO, or that it is closed): then its reader is
\* not stopped.
CommandWaited ==
    /\ host = "command"
    /\ command = "ended"
    /\ copier = "off"
    /\ pipe' = "closed" /\ got' = <<>>
    /\ ctx' = "cancelled"
    /\ \/ host' = "stop" /\ StopReader
       \/ mode = "tty" /\ host' = "exit" /\ UNCHANGED <<queue, stopped, deadline>>
    /\ UNCHANGED <<mode, up, down, link, cvars, command, copier, qclosed, reader, piece,
                   rclosed, faults, history>>

\* Fault: the host waits for the reader as long as it takes.
StopWithoutTimeout ==
    /\ host = "stop"
    /\ reader \in {"off", "end"}
    /\ host' = "exit"
    /\ deadline' = "none"
    /\ UNCHANGED <<mode, up, down, link, cvars, ctx, command, pipe, copier, got, queue, qclosed,
                   stopped, reader, piece, rclosed, faults, history>>

\* stopInputReader returns when the reader has ended, or after a second.
ReaderStopped ==
    /\ host = "stop"
    /\ host' = "exit"
    /\ deadline' = "none"
    /\ UNCHANGED <<mode, up, down, link, cvars, ctx, command, pipe, copier, got, queue, qclosed,
                   stopped, reader, piece, rclosed, faults, history>>

\* executeAndSyncRun: the exit code, and the changes that a scan finds.
SendExit ==
    /\ host = "exit"
    /\ link = "open"
    /\ down' = down \o <<"exit", "changes">>
    /\ host' = "need"
    /\ UNCHANGED <<mode, up, link, cvars, ctx, command, pipe, copier, got, ivars, faults,
                   history>>

\* Fault: input that comes after the command has ended is not expected.
ReadNeedOnly ==
    /\ host = "need"
    /\ up # <<>>
    /\ deadline' = "idle"
    /\ IF Head(up) = "need"
       THEN host' = "grant" /\ up' = Tail(up) /\ UNCHANGED <<down, link, why>>
       ELSE HostFails("frame", TRUE)
    /\ UNCHANGED <<mode, cvars, ctx, command, pipe, copier, got, queue, qclosed, stopped, reader,
                   piece, rclosed, faults, stolen, torn>>

\* readClientNeedBlobs.
ReadNeed == HostReads("need", "need", "grant")

\* sendChangedFileBlobs and storeChangedFileBlobs.
GrantBlobs ==
    /\ host = "grant"
    /\ ToClient("grant")
    /\ host' = "complete"
    /\ UNCHANGED <<mode, up, link, cvars, ctx, command, pipe, copier, got, ivars, faults,
                   history>>

\* Fault: the end of the transfer is not waited for.
SaveAtOnce ==
    /\ host = "complete"
    /\ host' = "save"
    /\ UNCHANGED <<mode, up, down, link, cvars, ctx, command, pipe, copier, got, ivars, faults,
                   history>>

\* readClientSyncComplete.
ReadComplete == HostReads("complete", "complete", "save")

\* savePostRunWorkspaceState, finishRunWorkspace, ChangesDone.
SaveAndFinish ==
    /\ host = "save"
    /\ host' = "done"
    /\ ToClient("done")
    /\ UNCHANGED <<mode, up, link, cvars, ctx, command, pipe, copier, got, ivars, faults,
                   history>>

\* A scan, a blob or a save fails on the host.
SyncBackFails ==
    /\ host \in {"exit", "grant", "save"}
    /\ Fault
    /\ HostFails("fault", TRUE)
    /\ UNCHANGED <<mode, cvars, ctx, command, pipe, copier, got, ivars, stolen, torn>>

\* The host reads from a connection that has ended, or from a client that is silent for
\* longer than the idle timeout: while it downloads and applies the changes, or while it waits
\* for the host itself.
HostLosesClient ==
    /\ host \in {"sync", "need", "complete"}
    /\ up = <<>>
    /\ \/ link # "open" /\ HostFails("disconnect", FALSE)
       \/ /\ Silent
          /\ client = "apply" \/ (client \in {"run", "need"} /\ down = <<>>)
          /\ HostFails("silent", FALSE)
    /\ UNCHANGED <<mode, cvars, ctx, command, pipe, copier, got, ivars, faults, stolen, torn>>

\* StartHeartbeat notices a broken connection and cancels the session's context.
HeartbeatFails ==
    /\ link # "open"
    /\ \/ /\ host \in {"setup", "command"} /\ ctx = "live"
          /\ CancelRun
          /\ UNCHANGED <<host, up, down, link, why>>
       \/ /\ host = "exit"
          /\ HostFails("disconnect", FALSE)
          /\ UNCHANGED <<ctx, command>>
    /\ UNCHANGED <<mode, cvars, pipe, copier, got, ivars, faults, stolen, torn>>

\* The connection breaks, and what is on its way is lost.
Break ==
    /\ link = "open"
    /\ Fault
    /\ link' = "down"
    /\ up' = <<>> /\ down' = <<>>
    /\ UNCHANGED <<mode, cvars, hvars, ivars, history>>

-----------------------------------------------------------------------------
Client ==
    \/ SendSyncComplete \/ ForwardCancel \/ InterruptCloses \/ ClientReads \/ ClientApplies \/ ClientEnds
    \/ ClientLosesHost

User == Interrupt \/ SendInput \/ SendStdinClose \/ SendResize \/ SendHeartbeat

Reader ==
    \/ ReaderChecks \/ ReaderReads \/ ReaderFrame \/ ReaderPuts \/ ReaderDeadline
    \/ ReaderDisconnected

Host ==
    \/ ReadUpload \/ StartReader \/ StartCommand
    \/ CommandWaited \/ ReaderStopped \/ SendExit \/ ReadNeed \/ GrantBlobs \/ ReadComplete
    \/ SaveAndFinish \/ HostLosesClient \/ HeartbeatFails

Process == CommandDies \/ CopierEnds \/ StreamOutput

Command == CommandReads \/ CommandWrites \/ CommandExits

Faults == ApplyFails \/ StartFails \/ AttachFails \/ SyncBackFails \/ Break

Next == Client \/ User \/ Reader \/ Host \/ Process \/ Command \/ Faults

Spec == Init /\ [][Next]_vars

\* The goroutines of both programs and the kernel go on.  Nothing is assumed of the user
\* and of the command: it may never read, write or end.
FairSpec ==
    /\ Spec
    /\ WF_vars(Client) /\ WF_vars(Reader) /\ WF_vars(Host)
    /\ WF_vars(CommandDies) /\ WF_vars(CopierEnds) /\ WF_vars(StreamOutput)

-----------------------------------------------------------------------------
(* Properties *)

TypeOK ==
    /\ mode \in {"pipe", "tty"}
    /\ up \in Seq({"data", "close", "resize", "cancel", "beat", "need", "complete"})
    /\ down \in Seq({"ready", "out", "exit", "changes", "grant", "done", "error"})
    /\ link \in {"open", "closed", "down"}
    /\ client \in Clients /\ host \in Hosts
    /\ stdin \in {"open", "over"} /\ input \in 0..MaxInput
    /\ forwarder \in {"off", "on", "over"} /\ resizer \in {"off", "on", "late"}
    /\ {interrupted, applied, qclosed, stopped, rclosed} \subseteq BOOLEAN
    /\ ctx \in {"live", "cancelled"}
    /\ command \in {"none", "running", "killed", "ended"}
    /\ pipe \in {"empty", "full", "sent", "closed"} /\ copier \in {"on", "off"}
    /\ got \in Seq(1..MaxInput) /\ queue \in Seq(1..MaxInput)
    /\ Len(queue) <= MaxQueue
    /\ reader \in {"off", "check", "read", "wait", "put", "end"}
    /\ piece \in 0..MaxInput
    /\ deadline \in {"idle", "now", "none"}

\* The state is well-typed, the input queue within its limit; the command's input is
\* what the client sent, in order and without gaps, however the queue fills and whenever
\* the command starts; and all output read from the command is sent before its exit code.
StreamsInOrder ==
    /\ TypeOK
    /\ \A i \in DOMAIN got : got[i] = i
    /\ \A i, j \in DOMAIN down : down[i] = "exit" /\ i < j => down[j] # "out"

\* The host keeps the results of a run only when the client has applied them, and the
\* client takes the run for finished only when the host has kept them.
BothKeepResults ==
    /\ host \in {"save", "done"} => applied
    /\ client \in {"last", "done"} => host = "done"

\* The sync-back fails only for a reason.  Input that arrives after the command has ended
\* is none, and nothing that the client sends comes out of turn, but the size of a
\* terminal's window; a cancel or a silent client is the user's interrupt; and a frame is
\* torn only where a reader was reading that had been told to stop, or a terminal's.
SyncBackFailsForCause ==
    /\ why # "frame"
    /\ why = "late resize" => mode = "tty"
    /\ why \in {"late cancel", "silent"} => interrupted
    /\ why = "torn" => stopped \/ mode = "tty"
    /\ why = "disconnect" => link = "down" \/ client = "failed"

\* A cancel of the user ends the command, also one that has read all its input, and one
\* that is sent while the command is being prepared; but not when it is behind
\* input that the command does not read, nor when the input for a terminal has
\* overflowed before the command started.
CancelEndsCommand ==
    (interrupted /\ client = "run") ~>
        \/ host \notin {"setup", "command"}
        \/ [](reader = "put")
        \/ [](mode = "tty" /\ reader = "end")

\* When the command has ended, the run ends on both sides; but the client of a pipe waits for
\* the end of its own input, and a reader that was not stopped can take a frame of the
\* sync-back, which nobody repeats: then both wait until the user interrupts the run.
EndedCommandEndsRun ==
    (host \in {"stop", "exit"}) ~>
        \/ host \in {"done", "failed"} /\ client \in {"done", "failed"}
        \/ [](stolen /\ ~interrupted)
        \/ [](mode = "pipe" /\ client = "last" /\ stdin = "open")

\* A run that is cancelled or whose command has ended comes to its end on both sides.
RunEnds == CancelEndsCommand /\ EndedCommandEndsRun
=============================================================================
