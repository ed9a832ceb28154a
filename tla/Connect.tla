------------------------------ MODULE Connect -------------------------------
(***************************************************************************)
(* A command connects to the host it has chosen (client/connection.go): it *)
(* dials, and soon asks the host by datagrams to dial back                 *)
(* (discovery.go, host/server.go), and takes the connection that is there  *)
(* first.  Datagrams are lost, duplicated or late, the host may move, and  *)
(* the user may interrupt.                                                 *)
(*                                                                         *)
(* Connection 1 is the one dialled, the others are dialled back.  The next *)
(* command starts when nothing of the last one is left.                    *)
(***************************************************************************)
EXTENDS HostChoice

CONSTANTS
    Attempts,       \* reverseRequestAttempts
    MaxConns,       \* bound: connections of one command
    MaxFaults,      \* bound: duplicates of datagrams and requests forgotten, per command
    Followed        \* bound: pairings and moves before a dial

ASSUME ConnectAssumption ==
    /\ {Attempts, MaxConns} \subseteq Nat \ {0}
    /\ {MaxFaults, Followed} \subseteq Nat

VARIABLES
    command,    \* what the command dials, and how far it is
    timer,      \* the reverse fallback is still to start
    direct, reverse,    \* the two goroutines: how far, and the connection they have
    accepted,   \* the connection in resultCh of acceptReverse, or 0
    sends,      \* requests still to send
    datagrams,  \* requests under way
    claimed,    \* the host remembers the request
    backs,      \* calls of handleReverseConnect that have not dialled yet
    conns,      \* per connection its host, the client's end, and whether it has a slot
    faults,
    tries, forgotten    \* history: calls of handleReverseConnect; times forgotten

client == <<command, timer, direct, reverse, accepted, sends>>
host == <<claimed, backs, tries, forgotten>>
net == <<datagrams, conns>>
vars == <<choiceVars, client, host, net, faults>>

Idle == [pc |-> "idle", addr |-> None, fp |-> None, cert |-> 0]
Off == [pc |-> "off", conn |-> 0]
NoConn == [peer |-> None, end |-> "none", slot |-> FALSE]

Init ==
    /\ ChoiceInit
    /\ command = Idle
    /\ timer = FALSE /\ direct = Off /\ reverse = Off
    /\ accepted = 0 /\ sends = 0
    /\ datagrams = 0 /\ claimed = FALSE /\ backs = 0
    /\ conns = [c \in 1..MaxConns |-> NoConn]
    /\ tries = 0 /\ forgotten = 0
    /\ faults = 0

Dialing == command.pc = "dialing"
\* dialFastestTLS has returned: done is closed and all contexts are cancelled.
Over == command.pc \in {"connected", "failed"}

\* The client closes its end of these connections.
Close(table, ids) == [c \in DOMAIN table |->
    IF c \in ids THEN [table[c] EXCEPT !.end = "closed"] ELSE table[c]]
Backlog == {c \in DOMAIN conns : conns[c].end = "backlog"}

-----------------------------------------------------------------------------
(* The command *)

\* The choice of a host by RunExec or resolveRemoteTarget, and the start of the dial;
\* not all hosts may answer the query.  A dial leaves the table as it is: after more
\* pairings and moves only the choice is made.
Start ==
    /\ command.pc = "idle"
    /\ \E addr \in Addresses \cup {None}, pin \in Hosts \cup {None},
          results \in SUBSET Announced :
       \E target \in resolveRemoteHost(addr, pin, results) :
          LET choice == resolveClientHost(target)
              fp == choice.record.fp
          IN  /\ known' = IF choice.save THEN choice.hosts ELSE known
              /\ IF Accepted(choice, target, pin) /\ moves + pairs <= Followed
                 THEN /\ command' = [pc |-> "dialing", addr |-> target.addr, fp |-> fp,
                            cert |-> HostCredentials(choice.hosts, target.addr, fp)]
                      /\ direct' = [pc |-> "dial", conn |-> 0]
                      /\ timer' = TRUE
                 ELSE UNCHANGED <<command, direct, timer>>
    /\ UNCHANGED <<at, issued, moves, pairs, reverse, accepted, sends, host, net,
                   faults>>

\* startReverseDialTLS, with a listener and a request of its own.
StartReverse ==
    /\ timer' = FALSE
    /\ reverse' = [pc |-> "accept", conn |-> 0]
    /\ sends' = Attempts

TimerFires ==
    /\ Dialing /\ timer
    /\ StartReverse
    /\ UNCHANGED <<choiceVars, command, direct, accepted, host, net, faults>>

Keep(c) ==
    /\ command' = [command EXCEPT !.pc = "connected"]
    /\ conns' = [conns EXCEPT ![c].end = "kept"]

\* The result of the direct dial; if it is an error, and the reverse dial is not under
\* way, that starts at once, be it for a second time.
TakeDirect ==
    /\ Dialing /\ direct.pc = "ready"
    /\ direct' = [direct EXCEPT !.pc = "ended"]
    /\ IF direct.conn # 0 THEN Keep(direct.conn) ELSE UNCHANGED <<command, conns>>
    /\ IF direct.conn = 0 /\ reverse.pc \in {"off", "ended"} THEN StartReverse
       ELSE UNCHANGED <<timer, reverse, sends>>
    /\ UNCHANGED <<choiceVars, accepted, datagrams, host, faults>>

TakeReverse ==
    /\ Dialing /\ reverse.pc = "ready"
    /\ reverse' = [reverse EXCEPT !.pc = "ended"]
    /\ IF reverse.conn # 0 THEN Keep(reverse.conn) ELSE UNCHANGED <<command, conns>>
    /\ UNCHANGED <<choiceVars, timer, direct, accepted, sends, datagrams, host,
                   faults>>

\* Both dials have failed, or the user interrupts.
DialFails(interrupt) ==
    /\ Dialing
    /\ interrupt \/ (direct.pc = "ended" /\ reverse.pc \in {"off", "ended"})
    /\ command' = [command EXCEPT !.pc = "failed"]
    /\ UNCHANGED <<choiceVars, timer, direct, reverse, accepted, sends, host, net,
                   faults>>

\* The process ends, or goes on to its next connection.
Exit ==
    /\ Over
    /\ {direct.pc, reverse.pc} \subseteq {"off", "ended"}
    /\ \A c \in DOMAIN conns : conns[c].slot => conns[c].end = "kept"
    /\ command' = Idle
    /\ timer' = FALSE /\ direct' = Off /\ reverse' = Off
    /\ conns' = [c \in 1..MaxConns |-> NoConn] /\ faults' = 0
    /\ UNCHANGED <<choiceVars, accepted, sends, datagrams, host>>

-----------------------------------------------------------------------------
(* The direct dial *)

\* A host at the address accepts and has a slot for the connection.
DirectOpen ==
    /\ direct.pc = "dial"
    /\ \E h \in Hosts :
          /\ command.addr \in at[h]
          /\ conns' = [conns EXCEPT ![1] = [peer |-> h, end |-> "open", slot |-> TRUE]]
    /\ direct' = [pc |-> "handshake", conn |-> 1]
    /\ UNCHANGED <<choiceVars, command, timer, reverse, accepted, sends,
                   datagrams, host, faults>>

\* Fault: any certificate is accepted.
AnyPeer(c) == conns[c].slot

\* The handshake: the host must have the fingerprint of the record.
PeerAccepted(c) == conns[c].slot /\ conns[c].peer = command.fp

DirectDone ==
    /\ direct.pc = "handshake" /\ PeerAccepted(1)
    /\ direct' = [direct EXCEPT !.pc = "ready"]
    /\ UNCHANGED <<choiceVars, command, timer, reverse, accepted, sends, net, host,
                   faults>>

\* It fails: no host there, another one, no slot, the timeout, or it was cancelled.
DirectFails ==
    /\ direct.pc \in {"dial", "handshake"}
    /\ direct' = [pc |-> "ready", conn |-> 0]
    /\ conns' = Close(conns, {direct.conn})
    /\ UNCHANGED <<choiceVars, command, timer, reverse, accepted, sends,
                   datagrams, host, faults>>

\* Fault: a result that comes too late is forgotten.
DropOpen(g) == g' = [g EXCEPT !.pc = "ended"] /\ UNCHANGED conns

\* The result comes too late, and its connection is closed.
Drop(g) ==
    /\ g' = [g EXCEPT !.pc = "ended"]
    /\ conns' = Close(conns, {g.conn})

DropDirect ==
    /\ Over /\ direct.pc = "ready" /\ Drop(direct)
    /\ UNCHANGED <<choiceVars, command, timer, reverse, accepted, sends,
                   datagrams, host, faults>>

-----------------------------------------------------------------------------
(* The reverse dial *)

Listening == reverse.pc \in {"accept", "handshake"}

\* The listener is closed: what waits to be accepted is reset, and whatever is still
\* under way leads to a closed port and is not followed any further.
StopListening ==
    /\ accepted' = 0 /\ sends' = 0 /\ datagrams' = 0
    /\ claimed' = FALSE /\ backs' = 0 /\ tries' = 0 /\ forgotten' = 0

\* RequestReverseConnect repeats the request.
SendRequest ==
    /\ sends > 0 /\ sends' = sends - 1
    /\ datagrams' = datagrams + 1
    /\ UNCHANGED <<choiceVars, command, timer, direct, reverse, accepted, conns,
                   host, faults>>

\* The goroutine of acceptReverse, which accepts once.
Accept ==
    /\ reverse.pc = "accept" /\ accepted = 0
    /\ \E c \in Backlog :
          /\ accepted' = c
          /\ conns' = [conns EXCEPT ![c].end = "open"]
    /\ UNCHANGED <<choiceVars, command, timer, direct, reverse, sends, datagrams,
                   host, faults>>

TakeAccepted ==
    /\ reverse.pc = "accept" /\ accepted # 0
    /\ reverse' = [pc |-> "handshake", conn |-> accepted]
    /\ sends' = 0
    /\ UNCHANGED <<choiceVars, command, timer, direct, accepted, net, host, faults>>

\* Fault: the listener is waited for without a timeout.
AcceptUntilOver ==
    /\ Over /\ reverse.pc = "accept"
    /\ reverse' = [pc |-> "ready", conn |-> 0]
    /\ StopListening
    /\ conns' = [c \in DOMAIN conns |->
          IF c = accepted THEN [conns[c] EXCEPT !.end = "leaked"]
          ELSE Close(conns, Backlog)[c]]
    /\ UNCHANGED <<choiceVars, command, timer, direct, faults>>

\* The context ends, by the timeout or because the dial is over, or the request could
\* not be sent.  What has been accepted in this moment is not looked at again, and
\* nobody closes it.
AcceptFails ==
    /\ reverse.pc = "accept"
    /\ reverse' = [pc |-> "ready", conn |-> 0]
    /\ StopListening
    /\ conns' = [c \in DOMAIN conns |->
          IF c = accepted THEN [conns[c] EXCEPT !.end = "leaked"]
          ELSE Close(conns, Backlog)[c]]
    /\ UNCHANGED <<choiceVars, command, timer, direct, faults>>

\* The handshake with the host that dialled back; the listener is closed in the end.
ReverseDone ==
    /\ reverse.pc = "handshake" /\ PeerAccepted(reverse.conn)
    /\ reverse' = [reverse EXCEPT !.pc = "ready"]
    /\ StopListening /\ conns' = Close(conns, Backlog)
    /\ UNCHANGED <<choiceVars, command, timer, direct, faults>>

ReverseFails ==
    /\ reverse.pc = "handshake"
    /\ reverse' = [pc |-> "ready", conn |-> 0]
    /\ StopListening /\ conns' = Close(conns, Backlog \cup {reverse.conn})
    /\ UNCHANGED <<choiceVars, command, timer, direct, faults>>

DropReverse ==
    /\ Over /\ reverse.pc = "ready" /\ Drop(reverse)
    /\ UNCHANGED <<choiceVars, command, timer, direct, accepted, sends, datagrams,
                   host, faults>>

-----------------------------------------------------------------------------
(* The network and the host *)

Lose ==
    /\ datagrams > 0 /\ datagrams' = datagrams - 1
    /\ UNCHANGED <<choiceVars, client, conns, host, faults>>

Duplicate ==
    /\ datagrams > 0 /\ datagrams' = datagrams + 1
    /\ faults < MaxFaults /\ faults' = faults + 1
    /\ UNCHANGED <<choiceVars, client, conns, host>>

\* Fault: a request is not remembered.
claimAny == UNCHANGED claimed

claimReverseRequest == ~claimed /\ claimed' = TRUE

\* The responder of the host at the address gets a request, which must be for it and
\* not be known, and starts a goroutine that dials back.  There may be no slot for it:
\* then the request is known nevertheless, and its repetitions are for nothing.
Deliver ==
    /\ datagrams > 0 /\ datagrams' = datagrams - 1
    /\ command.fp \in Hosts /\ command.addr \in at[command.fp]
    /\ claimReverseRequest
    /\ \E room \in {0, 1} : backs' = backs + room /\ tries' = tries + room
    /\ UNCHANGED <<choiceVars, client, conns, forgotten, faults>>

\* reverseRequestDedupe later, a copy of the request being still to come.
Forget ==
    /\ claimed /\ claimed' = FALSE
    /\ sends + datagrams > 0
    /\ forgotten' = forgotten + 1
    /\ faults < MaxFaults /\ faults' = faults + 1
    /\ UNCHANGED <<choiceVars, client, net, backs, tries>>

\* handleReverseConnect dials the callback address, and hands the connection over if
\* there is a slot for it.
DialBack ==
    /\ backs > 0 /\ backs' = backs - 1
    /\ \E c \in 2..MaxConns, slot \in BOOLEAN :
          /\ conns[c] = NoConn
          /\ conns' = [conns EXCEPT ![c] =
                         [peer |-> command.fp, end |-> "backlog", slot |-> slot]]
    /\ UNCHANGED <<choiceVars, client, datagrams, claimed, tries, forgotten, faults>>

\* Fault: there is no timeout for a connection on which nothing comes.
ReleaseClosed ==
    /\ \E c \in DOMAIN conns :
          /\ conns[c].slot /\ conns[c].end = "closed"
          /\ conns' = [conns EXCEPT ![c].slot = FALSE]
    /\ UNCHANGED <<choiceVars, client, datagrams, host, faults>>

\* handleConn ends: the client has closed its end, or has sent nothing for
\* requestHeaderIdleTimeout.
Release ==
    /\ \E c \in DOMAIN conns :
          /\ conns[c].slot /\ conns[c].end \in {"closed", "leaked"}
          /\ conns' = [conns EXCEPT ![c].slot = FALSE]
    /\ UNCHANGED <<choiceVars, client, datagrams, host, faults>>

\* Pairing again and moving; while a command dials, what matters is who is at the
\* address that it dials.
PairAgain == command.pc = "idle" /\ RunPair /\ UNCHANGED <<client, host, net, faults>>
HostMoves ==
    /\ Move
    /\ command.pc # "idle" =>
          /\ Dialing /\ moves + pairs <= Followed
          /\ \E h \in Hosts : (command.addr \in at[h]) # (command.addr \in at'[h])
    /\ UNCHANGED <<client, host, net, faults>>

ClientStep ==
    \/ TimerFires \/ TakeDirect \/ TakeReverse \/ DialFails(FALSE)
    \/ DirectFails \/ DropDirect
    \/ TakeAccepted \/ AcceptFails \/ ReverseFails \/ DropReverse

Next ==
    \/ Start \/ ClientStep \/ DialFails(TRUE) \/ Exit
    \/ DirectOpen \/ DirectDone \/ SendRequest \/ Accept \/ ReverseDone
    \/ Lose \/ Duplicate \/ Deliver \/ Forget \/ DialBack \/ Release
    \/ PairAgain \/ HostMoves

Spec == Init /\ [][Next]_vars

\* Goroutines run, and dials, handshakes and waiting for a connection end by their
\* timeouts at the latest; the host notices a connection that is closed or idle.
FairSpec == Spec /\ WF_vars(ClientStep) /\ WF_vars(Release)

-----------------------------------------------------------------------------
(* Properties *)

TypeOK ==
    /\ ChoiceTypeOK
    /\ command.pc \in {"idle", "dialing", "connected", "failed"}
    /\ direct.pc \in {"off", "dial", "handshake", "ready", "ended"} /\ direct.conn \in {0, 1}
    /\ reverse.pc \in {"off", "accept", "handshake", "ready", "ended"}
    /\ {reverse.conn, accepted} \subseteq {0} \cup 2..MaxConns
    /\ conns \in [1..MaxConns -> [peer : Hosts \cup {None}, slot : BOOLEAN,
                     end : {"none", "backlog", "open", "kept", "closed", "leaked"}]]
    /\ sends \in 0..Attempts /\ datagrams \in Nat /\ backs \in 0..tries

\* A host that was paired is never lost from the table, whatever is paired or moves
\* to its address later, and its record has the certificate it issued last.
PairedKept ==
    \A h \in Hosts : issued[h] # 0 =>
        LET own == {i \in DOMAIN known : known[i].fp = h}
        IN  Cardinality(own) = 1 /\ \A i \in own : known[i].cert = issued[h]

\* A paired host whose fingerprint is configured is found again wherever it moved to
\* and whoever has its old address now, if one address of it answers, or that of its
\* record does.  An old record without a fingerprint may get in the way.
PinnedFound ==
  /\ PairedKept
  /\ \A h \in Hosts : issued[h] # 0 /\ command.pc = "idle" =>
        \A results \in SUBSET Announced :
            LET own == {r \in results : r.fp = h}
                targets == resolveRemoteHost(None, h, results)
            IN  (Cardinality(own) = 1
                   \/ preferredAddressForFingerprint(h) \in {r.addr : r \in own})
                => /\ targets # {} /\ targets \subseteq own
                   /\ \/ \E r \in ToSet(known) : r.fp = None
                      \/ \A t \in targets : Accepted(resolveClientHost(t), t, h)

\* The state is well-typed; the command has one connection, and it leads to the host of the record it chose,
\* with the certificate this host issued last, whatever answered at the address,
\* dialled back or was found first.
ConnectedToChosen ==
    LET kept == {c \in DOMAIN conns : conns[c].end = "kept"} IN
    /\ TypeOK
    /\ kept # {} => command.pc = "connected"
    /\ command.pc = "connected" =>
          /\ Cardinality(kept) = 1
          /\ \A c \in kept : /\ conns[c].peer \in {command.fp} \cap Hosts
                             /\ command.cert = issued[conns[c].peer]

\* One command is dialled back once, however often its request arrives, as long as the
\* host remembers it.  When both goroutines have ended, every other connection is closed,
\* but for those that were accepted in the moment that acceptReverse gave up.
OthersClosed ==
  /\ tries <= 1 + forgotten
  /\ Over /\ {direct.pc, reverse.pc} \subseteq {"off", "ended"} =>
        \A c \in DOMAIN conns :
            conns[c].end \in {"none", "kept", "closed"} \cup (IF c = 1 THEN {} ELSE {"leaked"})

\* Every dial ends, and with it every slot of the host that the command does not use
\* is released, that of a leaked connection included.
SlotsReturn ==
    /\ Dialing ~> ~Dialing
    /\ \A c \in 1..MaxConns :
          conns[c].slot ~> (~conns[c].slot \/ conns[c].end = "kept")
=============================================================================
