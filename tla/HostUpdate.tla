----------------------------- MODULE HostUpdate -----------------------------
(***************************************************************************)
(* Updates of the host (internal/host/update.go, server.go) on behalf of   *)
(* clients that are newer (internal/client/update.go).                     *)
(*                                                                         *)
(* A client pings the host; if the host is older, the client asks it to    *)
(* install the client's version and to restart.  The host serves one such  *)
(* request at a time, under updateMu: it installs the version, refuses new *)
(* runs, waits for active ones, answers, and closes its listener; Serve    *)
(* then returns, and main executes the installed program in its place.     *)
(* Cache prunes remove the installs of other versions.                     *)
(***************************************************************************)
EXTENDS Naturals

CONSTANTS Clients,
          MaxVersion,  \* bound: versions are 0 .. MaxVersion, the first host has 0
          Nothing

ASSUME VersionAssumption == MaxVersion \in Nat
ASSUME NothingAssumption == Nothing \notin Clients /\ Nothing \notin Nat

VARIABLES version,     \* of the host process
          serve,       \* what Serve does: the listener is open, or closed, or it
                       \* has returned, or there is no host any more
          next,        \* the version that Serve has returned to execute
          restarting,  \* s.restartVersion and s.restarting; Nothing if FALSE
          runs,        \* clients with an active run
          installed,   \* versions below the directory "updates"
          holder,      \* the client whose request holds updateMu
          step,        \* where that request is
          pc,          \* where a client is
          want,        \* the version of a client
          waitFor,     \* the version that a client waits for
          acceptFailed \* history: Accept has failed while the listener was open
                       \* and a restart was pending

hostVars == <<version, serve, next, restarting, installed, acceptFailed>>
jobVars == <<holder, step>>
clientVars == <<pc, want, waitFor>>
updateVars == <<hostVars, runs, jobVars, clientVars>>

Versions == 0 .. MaxVersion
Alive == serve # "down"

\* States of a client with a connection that a handler of the host serves.
Connected == {"connected", "requested", "running"}

UpdateInit ==
    /\ version = 0
    /\ serve = "open"
    /\ next = Nothing
    /\ restarting = Nothing
    /\ runs = {}
    /\ installed = {}
    /\ holder = Nothing
    /\ step = "idle"
    /\ pc = [c \in Clients |-> "idle"]
    /\ want = [c \in Clients |-> 0]
    /\ waitFor = [c \in Clients |-> 0]
    /\ acceptFailed = FALSE

SetPc(c, s) == pc' = [pc EXCEPT ![c] = s]

-----------------------------------------------------------------------------
(* The client: connectUpdatedRemote *)

\* A command of the client's user, who may have updated the client.
Invoke(c, v) ==
    /\ pc[c] = "idle"
    /\ want' = [want EXCEPT ![c] = v]
    /\ SetPc(c, "ping")
    /\ UNCHANGED <<hostVars, runs, jobVars, waitFor>>

\* Fault: any host will do.
PingAny(c) ==
    /\ pc[c] = "ping"
    /\ serve = "open"
    /\ SetPc(c, "connected")
    /\ UNCHANGED <<hostVars, runs, jobVars, want, waitFor>>

\* The connection is kept if the host is new enough.
Ping(c) ==
    /\ pc[c] = "ping"
    /\ serve = "open"
    /\ SetPc(c, IF version >= want[c] THEN "connected" ELSE "outdated")
    /\ UNCHANGED <<hostVars, runs, jobVars, want, waitFor>>

\* UpdateHost sends the request on a new connection.
Request(c) ==
    /\ pc[c] = "outdated"
    /\ serve = "open"
    /\ SetPc(c, "requested")
    /\ UNCHANGED <<hostVars, runs, jobVars, want, waitFor>>

\* The host cannot be reached, or the client is interrupted.
GiveUp(c) ==
    /\ pc[c] \in {"ping", "outdated", "waiting"}
    /\ SetPc(c, "idle")
    /\ waitFor' = [waitFor EXCEPT ![c] = 0]
    /\ UNCHANGED <<hostVars, runs, jobVars, want>>

\* waitForHostUpdate: a ping finds the version, and the loop starts again.
SeeUpdate(c) ==
    /\ pc[c] = "waiting"
    /\ serve = "open"
    /\ version >= waitFor[c]
    /\ SetPc(c, "ping")
    /\ waitFor' = [waitFor EXCEPT ![c] = 0]
    /\ UNCHANGED <<hostVars, runs, jobVars, want>>

-----------------------------------------------------------------------------
(* Runs: acquireRun *)

\* Fault: a pending restart is not looked at.
StartRunAnyway(c) ==
    /\ pc[c] = "connected"
    /\ Alive
    /\ runs' = runs \cup {c}
    /\ SetPc(c, "running")
    /\ UNCHANGED <<hostVars, jobVars, want, waitFor>>

StartRun(c) ==
    /\ pc[c] = "connected"
    /\ Alive
    /\ restarting = Nothing
    /\ runs' = runs \cup {c}
    /\ SetPc(c, "running")
    /\ UNCHANGED <<hostVars, jobVars, want, waitFor>>

\* errRestartPending, or the connection is lost.
RefuseRun(c) ==
    /\ pc[c] = "connected"
    /\ SetPc(c, "idle")
    /\ UNCHANGED <<hostVars, runs, jobVars, want, waitFor>>

EndRun(c) ==
    /\ pc[c] = "running"
    /\ runs' = runs \ {c}
    /\ SetPc(c, "idle")
    /\ UNCHANGED <<hostVars, jobVars, want, waitFor>>

-----------------------------------------------------------------------------
(* The request: handleHostUpdateRequest *)

Lock(c) ==
    /\ pc[c] = "requested"
    /\ Alive
    /\ holder = Nothing
    /\ holder' = c
    /\ step' = "check"
    /\ UNCHANGED <<hostVars, runs, clientVars>>

Release ==
    /\ holder' = Nothing
    /\ step' = "idle"

\* The request fails, and its client with it.
FailRequest ==
    /\ Release
    /\ SetPc(holder, "idle")
    /\ UNCHANGED <<want, waitFor>>

\* Fault: the client is told to wait for its own version.
TellPendingWanted ==
    /\ step = "check"
    /\ version < want[holder]
    /\ restarting # Nothing
    /\ SetPc(holder, "waiting")
    /\ waitFor' = [waitFor EXCEPT ![holder] = want[holder]]
    /\ Release
    /\ UNCHANGED <<hostVars, runs, want>>

\* A restart is pending already: the client waits for its version.
TellPending ==
    /\ step = "check"
    /\ version < want[holder]
    /\ restarting # Nothing
    /\ SetPc(holder, "waiting")
    /\ waitFor' = [waitFor EXCEPT ![holder] = restarting]
    /\ Release
    /\ UNCHANGED <<hostVars, runs, want>>

\* The host was updated since the ping.
TellCurrent ==
    /\ step = "check"
    /\ version >= want[holder]
    /\ SetPc(holder, "ping")
    /\ Release
    /\ UNCHANGED <<hostVars, runs, want, waitFor>>

\* updateRunner: go install.
Install ==
    /\ step = "check"
    /\ version < want[holder]
    /\ restarting = Nothing
    /\ installed' = installed \cup {want[holder]}
    /\ step' = "begin"
    /\ UNCHANGED <<version, serve, next, acceptFailed, restarting, runs, holder, clientVars>>

InstallFails ==
    /\ step = "check"
    /\ version < want[holder]
    /\ restarting = Nothing
    /\ FailRequest
    /\ UNCHANGED <<hostVars, runs>>

\* beginRestart; restarting is not set by another request, for updateMu is held.
BeginRestart ==
    /\ step = "begin"
    /\ restarting' = want[holder]
    /\ step' = "wait"
    /\ UNCHANGED <<version, serve, next, acceptFailed, runs, installed, holder, clientVars>>

\* waitForActiveRuns sees no run.
RunsEnded ==
    /\ step = "wait"
    /\ runs = {}
    /\ step' = "answer"
    /\ UNCHANGED <<hostVars, runs, holder, clientVars>>

\* Fault: new runs are refused for ever.
FailAndStayClosed ==
    /\ step \in {"wait", "answer"}
    /\ FailRequest
    /\ UNCHANGED <<hostVars, runs>>

\* Fault: the wait for active runs has no timeout.
CancelNoTimeout ==
    /\ step = "answer"
    /\ restarting' = Nothing
    /\ FailRequest
    /\ UNCHANGED <<version, serve, next, acceptFailed, runs, installed>>

\* The wait times out or the answer cannot be written: cancelRestart.
CancelRestart ==
    /\ step \in {"wait", "answer"}
    /\ restarting' = Nothing
    /\ FailRequest
    /\ UNCHANGED <<version, serve, next, acceptFailed, runs, installed>>

\* The client is told that the host restarts.
Answer ==
    /\ step = "answer"
    /\ SetPc(holder, "waiting")
    /\ waitFor' = [waitFor EXCEPT ![holder] = want[holder]]
    /\ step' = "finish"
    /\ UNCHANGED <<hostVars, runs, holder, want>>

\* finishRestart closes the listener.
FinishRestart ==
    /\ step = "finish"
    /\ serve' = IF serve = "open" THEN "closed" ELSE serve
    /\ Release
    /\ UNCHANGED <<version, next, acceptFailed, restarting, runs, installed, clientVars>>

-----------------------------------------------------------------------------
(* The process *)

\* Accept fails and a restart is pending: Serve returns.  It takes any error,
\* also of a listener that is open, for the one that the restart causes.
ServeReturns ==
    /\ serve \in {"open", "closed"}
    /\ restarting # Nothing
    /\ serve' = "returned"
    /\ next' = restarting
    /\ acceptFailed' = (acceptFailed \/ serve = "open")
    /\ UNCHANGED <<version, restarting, runs, installed, jobVars, clientVars>>

\* All that the process did and all its connections end.
EndProcess ==
    /\ restarting' = Nothing
    /\ next' = Nothing
    /\ runs' = {}
    /\ Release
    /\ pc' = [c \in Clients |-> IF pc[c] \in Connected THEN "idle" ELSE pc[c]]
    /\ UNCHANGED <<want, waitFor, acceptFailed>>

\* main executes the installed program; New prunes the other versions.
Restart ==
    /\ serve = "returned"
    /\ next \in installed
    /\ version' = next
    /\ serve' = "open"
    /\ installed' = installed \cap {next}
    /\ EndProcess

RestartFails ==
    /\ serve = "returned"
    /\ next \notin installed
    /\ serve' = "down"
    /\ EndProcess
    /\ UNCHANGED <<version, installed>>

\* Fault: the pending version is not protected.
PruneOthers ==
    /\ Alive
    /\ holder = Nothing
    /\ installed' = installed \cap {version}
    /\ UNCHANGED <<version, serve, next, acceptFailed, restarting, runs, jobVars, clientVars>>

\* pruneOldUpdateArtifacts, under updateMu.
Prune ==
    /\ Alive
    /\ holder = Nothing
    /\ installed' = installed \cap {version, restarting}
    /\ UNCHANGED <<version, serve, next, acceptFailed, restarting, runs, jobVars, clientVars>>

-----------------------------------------------------------------------------
Client(c) ==
    \/ \E v \in Versions : Invoke(c, v)
    \/ Ping(c) \/ Request(c) \/ GiveUp(c) \/ SeeUpdate(c)
    \/ StartRun(c) \/ RefuseRun(c) \/ EndRun(c)

Handle ==
    \/ TellPending \/ TellCurrent \/ Install \/ InstallFails \/ BeginRestart
    \/ RunsEnded \/ CancelRestart \/ Answer \/ FinishRestart

Process == ServeReturns \/ Restart \/ RestartFails

UpdateNext ==
    \/ \E c \in Clients : Client(c) \/ Lock(c)
    \/ Handle \/ Process \/ Prune

UpdateSpec == UpdateInit /\ [][UpdateNext]_updateVars

\* Requests are served (installing and waiting for runs have a timeout), updateMu
\* is fair, Serve returns and the new program is executed.  Runs may last for ever.
UpdateFairSpec ==
    /\ UpdateSpec
    /\ WF_updateVars(Handle)
    /\ WF_updateVars(serve = "closed" /\ ServeReturns)
    /\ WF_updateVars(Restart \/ RestartFails)
    /\ \A c \in Clients : SF_updateVars(Lock(c))

-----------------------------------------------------------------------------
(* Properties *)

\* Type correctness.
UpdateTypeOK ==
    /\ version \in Versions
    /\ serve \in {"open", "closed", "returned", "down"}
    /\ {next, restarting} \subseteq Versions \cup {Nothing}
    /\ runs \subseteq Clients
    /\ installed \subseteq Versions
    /\ holder \in Clients \cup {Nothing}
    /\ step \in {"idle", "check", "begin", "wait", "answer", "finish"}
    /\ pc \in [Clients -> {"idle", "ping", "outdated", "waiting"} \cup Connected]
    /\ want \in [Clients -> Versions]
    /\ waitFor \in [Clients -> Versions]
    /\ acceptFailed \in BOOLEAN

\* The host restarts only when no run is active: none is cut off, and none slips
\* in between the end of the wait and the restart ("wait for active runs before
\* restart").
NoRunCutOff == serve \in {"closed", "returned"} => runs = {}

\* The same, as long as Accept has not failed while a restart was pending.
NoRunCutOffByRestart == acceptFailed \/ NoRunCutOff

\* The version that the host is about to execute stays installed, so that an
\* update never leaves the machine without a host, unless Accept failed.
RestartExecutableKept ==
  ~acceptFailed =>
    /\ restarting # Nothing => restarting \in installed
    /\ serve = "returned" => next \in installed
    /\ serve # "down"

\* A client that was told that the host restarts does not wait in vain: the host
\* has the version or will execute it, unless Accept failed.
RestartPromiseKept ==
  ~acceptFailed =>
    \A c \in Clients : pc[c] = "waiting" =>
        \/ version >= waitFor[c]
        \/ restarting # Nothing /\ restarting >= waitFor[c]

\* A restart that was decided happens: the program is there to be executed, and the
\* clients that wait for it get it.
RestartKept == RestartExecutableKept /\ RestartPromiseKept

\* A client's run is on a host that is at least as new as the client.
RunOnNewHost == \A c \in runs : version >= want[c]

\* Every request is answered or fails, also when another one waits for runs; and the
\* host does not refuse runs for ever, even if an active run never ends.
RequestEnds ==
    /\ \A c \in Clients : pc[c] = "requested" ~> pc[c] # "requested"
    /\ restarting # Nothing ~> restarting = Nothing
=============================================================================
