---------------------------- MODULE ServiceManager ----------------------------
(***************************************************************************)
(* Local background services (src/ui/service_manager.py).  A service is a  *)
(* script run in a process of its own; what the manager knows about it is  *)
(* one state file with a pid and a status, rewritten in place.  Browser    *)
(* sessions (threads of the dashboard) and manage_services.py invocations   *)
(* read the file, probe the pid, spawn or signal, and write the file, with *)
(* no lock between them.                                                   *)
(*                                                                         *)
(* One service is modelled; each has its own files.  Pids are not used     *)
(* twice within a behaviour.                                               *)
(***************************************************************************)
EXTENDS Integers

CONSTANTS
    Sessions,     \* who sends requests
    Dashboard,    \* the sessions that are threads of the dashboard process
    MaxStarts,    \* bound: processes spawned
    MaxRequests,  \* bound: requests sent
    MaxTimeouts   \* bound: probes of the process table that time out

ASSUME SessionsAssumption == Sessions # {} /\ Dashboard \subseteq Sessions
ASSUME StartsAssumption ==
    MaxStarts \in Nat /\ MaxRequests \in Nat /\ MaxTimeouts \in Nat

Pids == 1..MaxStarts
NoPid == 0
Alive == {"service", "dying", "zombie"}
NotRunning == {"none", "stopped", "exited_or_stale", "start_failed"}
StateStatuses == NotRunning \cup {"running", "stop_failed"}

VARIABLES
    platform,   \* "posix" or "nt"
    process,    \* process table: pid -> what became of it
    parent,     \* pid -> the session that spawned it
    started,    \* pids used so far
    stateFile,  \* the state file; missing and torn both read as NoState
    session,    \* session -> request under way
    requests, timeouts,
    doubtful    \* history: requests overlapped, a probe timed out, or a
                \* request died before it had written what it did

managerVars == <<platform, process, parent, started, stateFile, session,
                 requests, timeouts, doubtful>>

NoState == [pid |-> NoPid, status |-> "none"]
Idle == [op |-> "status", pc |-> "idle", note |-> NoState]
Busy(s) == session[s].pc # "idle"

At(s, pc) == session[s].pc = pc
Goto(s, op, pc, note) ==
    session' = [session EXCEPT ![s] = [op |-> op, pc |-> pc, note |-> note]]

\* os.kill(pid, 0) answers for a zombie as well; tasklist knows no zombies.
Running(pid) == pid \in Pids /\ process[pid] \in Alive

\* Mutant of Continue: start does not look whether the service runs.
ContinueUnchecked(op, running) ==
    CASE op = "stopped"             -> [op |-> "start", pc |-> "read"]
      [] op = "start"               -> [op |-> op, pc |-> "spawn"]
      [] op \in {"stop", "restart"} -> [op |-> op, pc |-> IF running THEN "kill" ELSE "reread"]
      [] OTHER                      -> [op |-> "status", pc |-> "idle"]

\* What a request does once it knows whether the service runs: the operation
\* and the step that follow.  "stopped" is the answer to the stop of a restart.
Continue(op, running) ==
    CASE op = "stopped"             -> [op |-> "start", pc |-> "read"]
      [] op = "start" /\ ~ running  -> [op |-> op, pc |-> "spawn"]
      [] op \in {"stop", "restart"} -> [op |-> op, pc |-> IF running THEN "kill" ELSE "reread"]
      [] OTHER                      -> [op |-> "status", pc |-> "idle"]

-----------------------------------------------------------------------------
(* Requests.                                                               *)

Request(s, op) ==
    /\ ~ Busy(s) /\ requests < MaxRequests
    /\ Goto(s, op, "read", NoState)
    /\ requests' = requests + 1
    /\ doubtful' = (doubtful \/ \E t \in Sessions : Busy(t))
    /\ UNCHANGED <<platform, process, parent, started, stateFile, timeouts>>

\* get_service_status reads the state file ...
ReadState(s) ==
    /\ At(s, "read")
    /\ Goto(s, session[s].op, "probe", stateFile)
    /\ UNCHANGED <<platform, process, parent, started, stateFile, requests, timeouts, doubtful>>

Probed(s, running) ==
    LET note == session[s].note
        op == session[s].op
        next == Continue(op, running)
    IN  IF ~ running /\ note.status = "running"
        THEN Goto(s, op, "mark", [note EXCEPT !.status = "exited_or_stale"])
        ELSE Goto(s, next.op, next.pc, IF next.pc = "idle" THEN NoState
                                       ELSE [note EXCEPT !.status = "stopped"])

\* ... and asks whether the pid runs.
Probe(s) ==
    /\ At(s, "probe")
    /\ Probed(s, Running(session[s].note.pid))
    /\ UNCHANGED <<platform, process, parent, started, stateFile, requests, timeouts, doubtful>>

\* tasklist has five seconds; an exception means not running.
ProbeTimesOut(s) ==
    /\ At(s, "probe") /\ platform = "nt" /\ timeouts < MaxTimeouts
    /\ session[s].note.pid # NoPid
    /\ Probed(s, FALSE)
    /\ timeouts' = timeouts + 1
    /\ doubtful' = TRUE
    /\ UNCHANGED <<platform, process, parent, started, stateFile, requests>>

\* The whole state it had read is written back, marked exited_or_stale.
Mark(s) ==
    /\ At(s, "mark")
    /\ stateFile' = NoState
    /\ Goto(s, session[s].op, "mark_fill", session[s].note)
    /\ UNCHANGED <<platform, process, parent, started, requests, timeouts, doubtful>>

MarkFill(s) ==
    LET next == Continue(session[s].op, FALSE)
    IN  /\ At(s, "mark_fill")
        /\ stateFile' = session[s].note
        /\ Goto(s, next.op, next.pc, IF next.pc = "idle" THEN NoState
                                     ELSE [session[s].note EXCEPT !.status = "stopped"])
        /\ UNCHANGED <<platform, process, parent, started, requests, timeouts, doubtful>>

-----------------------------------------------------------------------------
(* Starting and stopping.                                                  *)

SameParent(s, t) == s = t \/ {s, t} \subseteq Dashboard

\* Popen reaps the zombies its own process has left.
Spawned(s, new) ==
    [p \in Pids |->
        IF p = new THEN "service"
        ELSE IF process[p] = "zombie" /\ SameParent(s, parent[p]) THEN "gone"
        ELSE process[p]]

Spawn(s) ==
    /\ At(s, "spawn") /\ started < MaxStarts
    /\ started' = started + 1
    /\ process' = Spawned(s, started + 1)
    /\ parent' = [parent EXCEPT ![started + 1] = s]
    /\ Goto(s, "start", "truncate", [pid |-> started + 1, status |-> "running"])
    /\ UNCHANGED <<platform, stateFile, requests, timeouts, doubtful>>

\* The state of a failed start has no pid.
SpawnFails(s) ==
    /\ At(s, "spawn")
    /\ Goto(s, "start", "truncate", [pid |-> NoPid, status |-> "start_failed"])
    /\ UNCHANGED <<platform, process, parent, started, stateFile, requests, timeouts, doubtful>>

\* SIGTERM is sent, not awaited; it has no effect on a zombie and fails when
\* the process is gone.
Terminate(s) ==
    LET pid == session[s].note.pid
    IN  /\ At(s, "kill") /\ platform = "posix"
        /\ process' = [process EXCEPT ![pid] = IF @ = "service" THEN "dying" ELSE @]
        /\ Goto(s, session[s].op, "reread",
                [session[s].note EXCEPT !.status = IF Running(pid) THEN "stopped" ELSE "stop_failed"])
        /\ UNCHANGED <<platform, parent, started, stateFile, requests, timeouts, doubtful>>

\* taskkill /F ends the process at once, or fails.
TaskKill(s) ==
    LET pid == session[s].note.pid
    IN  /\ At(s, "kill") /\ platform = "nt"
        /\ \/ /\ Running(pid)
              /\ process' = [process EXCEPT ![pid] = "gone"]
              /\ Goto(s, session[s].op, "reread", [session[s].note EXCEPT !.status = "stopped"])
           \/ /\ Goto(s, session[s].op, "reread", [session[s].note EXCEPT !.status = "stop_failed"])
              /\ UNCHANGED process
        /\ UNCHANGED <<platform, parent, started, stateFile, requests, timeouts, doubtful>>

\* stop_service reads the file again: the pid it writes is the one found now.
Reread(s) ==
    /\ At(s, "reread")
    /\ Goto(s, session[s].op, "truncate", [session[s].note EXCEPT !.pid = stateFile.pid])
    /\ UNCHANGED <<platform, process, parent, started, stateFile, requests, timeouts, doubtful>>

Truncate(s) ==
    /\ At(s, "truncate")
    /\ stateFile' = NoState
    /\ Goto(s, session[s].op, "fill", session[s].note)
    /\ UNCHANGED <<platform, process, parent, started, requests, timeouts, doubtful>>

\* Start and stop answer with the status; a restart goes on to start.
Fill(s) ==
    /\ At(s, "fill")
    /\ stateFile' = session[s].note
    /\ Goto(s, IF session[s].op = "restart" THEN "stopped" ELSE "status", "read", NoState)
    /\ UNCHANGED <<platform, process, parent, started, requests, timeouts, doubtful>>

\* What a request still has to write that the file does not say: the process
\* it has spawned, or the whole file once it is truncated.
OwesRecord(s) ==
    \/ At(s, "truncate") /\ session[s].note.status = "running"
    \/ At(s, "fill")

\* The command or the dashboard is killed in the middle of a request; a process
\* it has spawned goes on.
Abandon(s) ==
    /\ Busy(s)
    /\ session' = [session EXCEPT ![s] = Idle]
    /\ doubtful' = (doubtful \/ OwesRecord(s))
    /\ UNCHANGED <<platform, process, parent, started, stateFile, requests, timeouts>>

-----------------------------------------------------------------------------
(* The processes.                                                          *)

\* A service ends by itself, crashes or dies of SIGTERM.
Exit(p) ==
    /\ process[p] \in {"service", "dying"}
    /\ process' = [process EXCEPT ![p] = IF platform = "posix" THEN "zombie" ELSE "gone"]
    /\ UNCHANGED <<platform, parent, started, stateFile, session, requests, timeouts, doubtful>>

\* Another script the dashboard runs reaps its zombies; those of a command
\* that has returned are reaped by init.
Reap(p) ==
    /\ process[p] = "zombie"
    /\ parent[p] \in Dashboard \/ ~ Busy(parent[p])
    /\ process' = [process EXCEPT ![p] = "gone"]
    /\ UNCHANGED <<platform, parent, started, stateFile, session, requests, timeouts, doubtful>>

-----------------------------------------------------------------------------
(* Specification.                                                          *)

\* A session's steps that spawn and end no process.
Paperwork(s) ==
    \/ \E op \in {"status", "start", "stop", "restart"} : Request(s, op)
    \/ ReadState(s) \/ Probe(s) \/ ProbeTimesOut(s) \/ Mark(s) \/ MarkFill(s)
    \/ SpawnFails(s) \/ Terminate(s) \/ Reread(s) \/ Truncate(s) \/ Fill(s)
    \/ Abandon(s)

ManagerInit ==
    /\ platform \in {"posix", "nt"}
    /\ process = [p \in Pids |-> "unused"]
    /\ parent \in [Pids -> {CHOOSE s \in Sessions : TRUE}]
    /\ started = 0
    /\ stateFile = NoState
    /\ session = [s \in Sessions |-> Idle]
    /\ requests = 0 /\ timeouts = 0 /\ doubtful = FALSE

ManagerNext ==
    \/ \E s \in Sessions : Paperwork(s) \/ Spawn(s) \/ TaskKill(s)
    \/ \E p \in Pids : Exit(p) \/ Reap(p)

ManagerSpec == ManagerInit /\ [][ManagerNext]_managerVars

-----------------------------------------------------------------------------
(* Properties.                                                             *)

SessionStates == [op : {"status", "start", "stop", "restart", "stopped"},
                  pc : {"idle", "read", "probe", "mark", "mark_fill", "spawn", "kill",
                        "reread", "truncate", "fill"},
                  note : [pid : Pids \cup {NoPid}, status : StateStatuses]]

ManagerTypeOK ==
    /\ platform \in {"posix", "nt"}
    /\ process \in [Pids -> Alive \cup {"unused", "gone"}]
    /\ parent \in [Pids -> Sessions]
    /\ started \in 0..MaxStarts
    /\ stateFile \in [pid : Pids \cup {NoPid}, status : StateStatuses]
    /\ session \in [Sessions -> SessionStates]
    /\ requests \in Nat /\ timeouts \in Nat /\ doubtful \in BOOLEAN

\* Services that have not been told to end.
Live == {p \in Pids : process[p] = "service"}

\* Whenever no request is under way, none ever overlapped another, and none was
\* killed before it had written what it did: every service still running, or
\* still dying, is the one the state file names, so the console can stop it;
\* and a file that says stopped, failed or exited is right that nothing runs
\* for longer.  A request may be killed at every other step.
RecordedIsReal ==
    ~ doubtful /\ (\A s \in Sessions : ~ Busy(s)) =>
        /\ \A p \in Pids : process[p] \in {"service", "dying"} => p = stateFile.pid
        /\ stateFile.status \in NotRunning => Live = {}
===============================================================================
