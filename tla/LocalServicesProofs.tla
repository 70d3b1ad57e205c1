-------------------------- MODULE LocalServicesProofs --------------------------
(***************************************************************************)
(* The managed listener for any number of sessions, requests, processes,    *)
(* candles, reconnects and downloads.  The invariant of the manager says    *)
(* what a request relies on at each of its steps; that of the feed rests on *)
(* it, because while no two requests overlap only the process started last  *)
(* can be running.                                                          *)
(***************************************************************************)
EXTENDS LocalServices, TLAPS

-----------------------------------------------------------------------------
(* The manager.                                                             *)

Up(p) == process[p] \in {"service", "dying"}
NoneUp == \A p \in Pids : ~ Up(p)
OnlyUp(pid) == \A p \in Pids : Up(p) => p = pid
Truthful(status) == status \in NotRunning => \A p \in Pids : process[p] # "service"

FileTrue == OnlyUp(stateFile.pid) /\ Truthful(stateFile.status)

(* What holds while a request is at a step: the file it has read is still   *)
(* true, it is about to start a service when none is up, or it holds the    *)
(* record it is going to write.  The file itself stays true until a service *)
(* is spawned or the file is truncated.                                     *)
Promise(s) ==
  /\ session[s].pc \in {"read", "probe"} => FileTrue
  /\ session[s].pc = "probe" => session[s].note = stateFile
  /\ session[s].pc \in {"mark", "mark_fill", "spawn"} => NoneUp
  /\ session[s].pc = "kill" => FileTrue /\ session[s].note.pid = stateFile.pid
  /\ session[s].pc = "reread" => FileTrue /\ Truthful(session[s].note.status)
  /\ session[s].pc \in {"truncate", "fill"} =>
       OnlyUp(session[s].note.pid) /\ Truthful(session[s].note.status)
  /\ session[s].pc = "truncate" /\ session[s].note.status # "running" => FileTrue

Alone == \A s, t \in Sessions : Busy(s) /\ Busy(t) => s = t
RestTrue == (\A s \in Sessions : ~ Busy(s)) => FileTrue
Promises == \A s \in Sessions : Promise(s)

ManagerInv ==
  /\ ManagerTypeOK
  /\ ~ doubtful => Alone /\ RestTrue /\ Promises /\ OnlyUp(started)

-----------------------------------------------------------------------------
(* Type correctness of the manager.                                         *)

LEMMA PidsAreNumbers == Pids \subseteq Nat /\ NoPid \notin Pids /\ MaxStarts \in Nat
BY StartsAssumption DEF Pids, NoPid

(* A request goes from a step to a step.                                    *)
LEMMA ContinueType ==
  ASSUME NEW op \in {"status", "start", "stop", "restart", "stopped"},
         NEW running \in BOOLEAN
  PROVE  /\ Continue(op, running).op \in {"status", "start", "stop", "restart"}
         /\ Continue(op, running).pc \in {"read", "spawn", "kill", "reread", "idle"}
         /\ Continue(op, running).pc \in {"spawn", "reread"} => ~ running
BY DEF Continue

LEMMA ManagerTypeInit == ManagerInit => ManagerTypeOK
<1>. SUFFICES ASSUME ManagerInit PROVE ManagerTypeOK
  OBVIOUS
<1>1. (CHOOSE s \in Sessions : TRUE) \in Sessions
  BY SessionsAssumption
<1>2. parent \in [Pids -> Sessions]
  BY <1>1 DEF ManagerInit
<1>3. NoState \in [pid : Pids \cup {NoPid}, status : StateStatuses]
  BY DEF NoState, StateStatuses, NotRunning
<1>4. Idle \in SessionStates
  BY <1>3 DEF Idle, SessionStates
<1>5. /\ session \in [Sessions -> SessionStates]
      /\ stateFile \in [pid : Pids \cup {NoPid}, status : StateStatuses]
  BY <1>3, <1>4 DEF ManagerInit
<1>6. process \in [Pids -> Alive \cup {"unused", "gone"}]
  BY DEF ManagerInit
<1>7. started \in 0..MaxStarts /\ requests \in Nat /\ timeouts \in Nat
  BY PidsAreNumbers DEF ManagerInit
<1>8. doubtful \in BOOLEAN /\ platform \in {"posix", "nt"}
  BY DEF ManagerInit
<1>. QED  BY <1>2, <1>5, <1>6, <1>7, <1>8 DEF ManagerTypeOK

(* The steps of a request keep the session's record one.                    *)
LEMMA SessionType ==
  ASSUME ManagerTypeOK, NEW s \in Sessions, Paperwork(s) \/ Spawn(s) \/ TaskKill(s)
  PROVE  session' \in [Sessions -> SessionStates]
<1>1. /\ session[s].op \in {"status", "start", "stop", "restart", "stopped"}
      /\ session[s].note \in [pid : Pids \cup {NoPid}, status : StateStatuses]
      /\ stateFile \in [pid : Pids \cup {NoPid}, status : StateStatuses]
  BY DEF ManagerTypeOK, SessionStates
<1>2. NoState \in [pid : Pids \cup {NoPid}, status : StateStatuses]
  BY DEF NoState, StateStatuses, NotRunning
<1>3. {"stopped", "exited_or_stale", "start_failed", "running", "stop_failed"} \subseteq StateStatuses
  BY DEF StateStatuses, NotRunning
<1>4. session \in [Sessions -> SessionStates]
  BY DEF ManagerTypeOK
<1>5. ASSUME NEW op \in {"status", "start", "stop", "restart"}, Request(s, op)
      PROVE  session' \in [Sessions -> SessionStates]
  BY <1>5, <1>2, <1>4 DEF Request, Goto, SessionStates
<1>6. ASSUME ReadState(s) \/ Reread(s) \/ Truncate(s) \/ Fill(s) \/ Mark(s)
      PROVE  session' \in [Sessions -> SessionStates]
  BY <1>6, <1>1, <1>2, <1>4
     DEF ReadState, Reread, Truncate, Fill, Mark, Goto, SessionStates
<1>7. ASSUME NEW running \in BOOLEAN, Probed(s, running)
      PROVE  session' \in [Sessions -> SessionStates]
  BY <1>7, <1>1, <1>2, <1>3, <1>4, ContinueType DEF Probed, Goto, SessionStates
<1>8. ASSUME Probe(s) \/ ProbeTimesOut(s)
      PROVE  session' \in [Sessions -> SessionStates]
  BY <1>8, <1>7 DEF Probe, ProbeTimesOut, Running
<1>9. ASSUME MarkFill(s)
      PROVE  session' \in [Sessions -> SessionStates]
  BY <1>9, <1>1, <1>2, <1>3, <1>4, ContinueType DEF MarkFill, Goto, SessionStates
<1>10. ASSUME SpawnFails(s) \/ Spawn(s)
       PROVE  session' \in [Sessions -> SessionStates]
  <2>1. Spawn(s) => started + 1 \in Pids
    BY PidsAreNumbers DEF Spawn, ManagerTypeOK, Pids
  <2>. QED  BY <1>10, <2>1, <1>3, <1>4 DEF SpawnFails, Spawn, Goto, SessionStates
<1>11. ASSUME Terminate(s) \/ TaskKill(s)
       PROVE  session' \in [Sessions -> SessionStates]
  BY <1>11, <1>1, <1>3, <1>4 DEF Terminate, TaskKill, Goto, SessionStates
<1>12. ASSUME Abandon(s)
       PROVE  session' \in [Sessions -> SessionStates]
  <2>1. Idle \in SessionStates
    BY <1>2 DEF Idle, SessionStates
  <2>. QED  BY <1>12, <1>4, <2>1 DEF Abandon
<1>. QED  BY <1>5, <1>6, <1>8, <1>9, <1>10, <1>11, <1>12 DEF Paperwork

LEMMA ManagerTypeStep == ManagerTypeOK /\ [ManagerNext]_managerVars => ManagerTypeOK'
<1>. SUFFICES ASSUME ManagerTypeOK, [ManagerNext]_managerVars PROVE ManagerTypeOK'
  OBVIOUS
<1>1. /\ process \in [Pids -> Alive \cup {"unused", "gone"}]
      /\ parent \in [Pids -> Sessions] /\ started \in 0..MaxStarts
      /\ session \in [Sessions -> SessionStates]
      /\ requests \in Nat /\ timeouts \in Nat /\ doubtful \in BOOLEAN
      /\ stateFile \in [pid : Pids \cup {NoPid}, status : StateStatuses]
      /\ NoState \in [pid : Pids \cup {NoPid}, status : StateStatuses]
  BY DEF ManagerTypeOK, NoState, StateStatuses, NotRunning
<1>2. ASSUME NEW s \in Sessions, Paperwork(s)
      PROVE  ManagerTypeOK'
  <2>1. session' \in [Sessions -> SessionStates]
    BY <1>2, SessionType
  <2>2. session[s].note \in [pid : Pids \cup {NoPid}, status : StateStatuses]
    BY <1>1 DEF SessionStates
  <2>3. ASSUME NEW op \in {"status", "start", "stop", "restart"}, Request(s, op)
        PROVE  ManagerTypeOK'
    BY <2>1, <2>3 DEF Request, ManagerTypeOK
  <2>4. CASE ReadState(s) \/ Probe(s) \/ SpawnFails(s) \/ Reread(s)
    BY <2>1, <2>4 DEF ReadState, Probe, SpawnFails, Reread, ManagerTypeOK
  <2>7. CASE ProbeTimesOut(s)
    BY <2>1, <2>7 DEF ProbeTimesOut, ManagerTypeOK
  <2>5. CASE Mark(s) \/ MarkFill(s) \/ Truncate(s) \/ Fill(s)
    BY <2>1, <2>2, <2>5, <1>1 DEF Mark, MarkFill, Truncate, Fill, ManagerTypeOK
  <2>6. CASE Terminate(s)
    <3>1. process' \in [Pids -> Alive \cup {"unused", "gone"}]
      BY <1>1, <2>6 DEF Terminate, Alive
    <3>. QED  BY <2>1, <3>1, <2>6 DEF Terminate, ManagerTypeOK
  <2>8. CASE Abandon(s)
    <3>1. doubtful' \in BOOLEAN
      BY <2>8 DEF Abandon, OwesRecord, At
    <3>. QED  BY <2>1, <3>1, <2>8 DEF Abandon, ManagerTypeOK
  <2>. QED  BY <1>2, <2>3, <2>4, <2>5, <2>6, <2>7, <2>8 DEF Paperwork
<1>3. ASSUME NEW s \in Sessions, Spawn(s)
      PROVE  ManagerTypeOK'
  <2>1. session' \in [Sessions -> SessionStates]
    BY <1>3, SessionType
  <2>2. process' \in [Pids -> Alive \cup {"unused", "gone"}]
    BY <1>1, <1>3 DEF Spawn, Spawned, Alive
  <2>3. started' \in 0..MaxStarts
    BY <1>1, <1>3, PidsAreNumbers DEF Spawn
  <2>. QED  BY <1>1, <1>3, <2>1, <2>2, <2>3 DEF Spawn, ManagerTypeOK
<1>4. ASSUME NEW s \in Sessions, TaskKill(s)
      PROVE  ManagerTypeOK'
  <2>1. session' \in [Sessions -> SessionStates]
    BY <1>4, SessionType
  <2>2. process' \in [Pids -> Alive \cup {"unused", "gone"}]
    BY <1>1, <1>4 DEF TaskKill, Alive
  <2>. QED  BY <1>4, <2>1, <2>2 DEF TaskKill, ManagerTypeOK
<1>5. ASSUME NEW p \in Pids, Exit(p) \/ Reap(p)
      PROVE  ManagerTypeOK'
  <2>1. process' \in [Pids -> Alive \cup {"unused", "gone"}]
    BY <1>1, <1>5 DEF Exit, Reap, Alive
  <2>. QED  BY <1>5, <2>1 DEF Exit, Reap, ManagerTypeOK
<1>6. ASSUME UNCHANGED managerVars
      PROVE  ManagerTypeOK'
  BY <1>6 DEF managerVars, ManagerTypeOK
<1>. QED  BY <1>2, <1>3, <1>4, <1>5, <1>6 DEF ManagerNext

-----------------------------------------------------------------------------
(* The invariant of the manager.                                            *)

LEMMA ManagerInvInit == ManagerInit => ManagerInv
<1>. SUFFICES ASSUME ManagerInit PROVE ManagerInv
  OBVIOUS
<1>1. \A p \in Pids : process[p] = "unused"
  BY DEF ManagerInit
<1>2. \A s \in Sessions : session[s] = Idle
  BY DEF ManagerInit
<1>3. Alone /\ Promises
  BY <1>2 DEF Alone, Promises, Promise, Busy, Idle
<1>4. RestTrue /\ OnlyUp(started)
  BY <1>1 DEF RestTrue, FileTrue, OnlyUp, Truthful, Up
<1>. QED  BY <1>3, <1>4, ManagerTypeInit DEF ManagerInv

(* One session's step while no other session has a request under way.       *)
LEMMA OneSession ==
  ASSUME Alone, NEW s \in Sessions, Busy(s),
         \A t \in Sessions \ {s} : session'[t] = session[t],
         Promise(s)', ~ Busy(s)' => FileTrue', OnlyUp(started)'
  PROVE  (Alone /\ RestTrue /\ Promises /\ OnlyUp(started))'
<1>1. \A t \in Sessions \ {s} : session'[t].pc = "idle"
  BY DEF Alone, Busy
<1>2. Alone'
  BY <1>1 DEF Alone, Busy
<1>3. \A t \in Sessions \ {s} : Promise(t)'
  BY <1>1 DEF Promise
<1>4. Promises'
  BY <1>3 DEF Promises
<1>5. RestTrue'
  BY DEF RestTrue
<1>. QED  BY <1>2, <1>4, <1>5

(* Processes only end.                                                      *)
LEMMA ProcessesEnd ==
  ASSUME Alone, RestTrue, Promises, OnlyUp(started),
         UNCHANGED <<started, stateFile, session>>,
         \A p \in Pids : process'[p] = process[p] \/ ~ Up(p)',
         \A p \in Pids : ~ Up(p)' => process'[p] # "service"
  PROVE  (Alone /\ RestTrue /\ Promises /\ OnlyUp(started))'
<1>1. \A p \in Pids : Up(p)' => Up(p)
  BY DEF Up
<1>2. \A p \in Pids : process'[p] = "service" => process[p] = "service"
  BY DEF Up
<1>3. OnlyUp(started)' /\ Alone'
  BY <1>1 DEF OnlyUp, Alone, Busy
<1>4. FileTrue => FileTrue'
  BY <1>1, <1>2 DEF FileTrue, OnlyUp, Truthful
<1>5. RestTrue'
  BY <1>4 DEF RestTrue, Busy
<1>6. ASSUME NEW s \in Sessions
      PROVE  Promise(s)'
  <2>1. Promise(s) /\ session'[s] = session[s] /\ stateFile' = stateFile
    BY DEF Promises
  <2>2. NoneUp => NoneUp'
    BY <1>1 DEF NoneUp
  <2>3. OnlyUp(stateFile.pid) => OnlyUp(stateFile.pid)'
    BY <1>1 DEF OnlyUp
  <2>4. OnlyUp(session[s].note.pid) => OnlyUp(session[s].note.pid)'
    BY <1>1, <2>1 DEF OnlyUp
  <2>5. Truthful(session[s].note.status) => Truthful(session[s].note.status)'
    BY <1>2, <2>1 DEF Truthful
  <2>. QED  BY <1>4, <2>1, <2>2, <2>3, <2>4, <2>5 DEF Promise
<1>. QED  BY <1>3, <1>5, <1>6 DEF Promises

(* A probe that found the pid not running has found that nothing is up.     *)
LEMMA NotRunningNoneUp ==
  ASSUME FileTrue, ~ Running(stateFile.pid)
  PROVE  NoneUp
BY DEF FileTrue, OnlyUp, NoneUp, Running, Up, Alive

LEMMA ProbedKeeps ==
  ASSUME ManagerTypeOK, Alone, Promises, OnlyUp(started), NEW s \in Sessions, At(s, "probe"),
         Probed(s, Running(session[s].note.pid)),
         UNCHANGED <<process, started, stateFile>>
  PROVE  (Alone /\ RestTrue /\ Promises /\ OnlyUp(started))'
<1>. DEFINE next == Continue(session[s].op, Running(session[s].note.pid))
<1>1. /\ session \in [Sessions -> SessionStates]
      /\ session[s].op \in {"status", "start", "stop", "restart", "stopped"}
      /\ session[s].note \in [pid : Pids \cup {NoPid}, status : StateStatuses]
  BY DEF ManagerTypeOK, SessionStates
<1>2. FileTrue /\ session[s].note = stateFile /\ Busy(s)
  BY DEF Promises, Promise, At, Busy
<1>3. FileTrue' /\ OnlyUp(started)'
  BY <1>2 DEF FileTrue, OnlyUp, Truthful, Up
<1>4. \A t \in Sessions \ {s} : session'[t] = session[t]
  BY <1>1 DEF Probed, Goto
<1>5. NoneUp => NoneUp'
  BY DEF NoneUp, Up
<1>6. Promise(s)'
  <2>1. CASE ~ Running(session[s].note.pid) /\ session[s].note.status = "running"
    <3>1. session'[s].pc = "mark"
      BY <1>1, <2>1 DEF Probed, Goto
    <3>. QED  BY <3>1, <2>1, <1>2, <1>5, NotRunningNoneUp DEF Promise
  <2>2. CASE ~ (~ Running(session[s].note.pid) /\ session[s].note.status = "running")
    <3>1. session'[s].pc = next.pc
      BY <1>1, <2>2 DEF Probed, Goto
    <3>2. next.pc # "idle" =>
            /\ session'[s].note.pid = session[s].note.pid
            /\ session'[s].note.status = "stopped"
      BY <1>1, <2>2 DEF Probed, Goto
    <3>3. /\ next.pc \in {"read", "spawn", "kill", "reread", "idle"}
          /\ next.pc \in {"spawn", "reread"} => ~ Running(session[s].note.pid)
      <4>1. Running(session[s].note.pid) \in BOOLEAN
        BY DEF Running
      <4>. QED  BY <1>1, <4>1, ContinueType
    <3>. HIDE DEF next
    <3>4. next.pc \in {"spawn", "reread"} => NoneUp'
      BY <1>2, <1>5, <3>3, NotRunningNoneUp
    <3>5. NoneUp' => (\A p \in Pids : process'[p] # "service") /\ OnlyUp(stateFile.pid)'
      BY DEF NoneUp, Up, OnlyUp
    <3>6. next.pc = "reread" => FileTrue' /\ Truthful(session[s].note.status)'
      BY <1>3, <3>4, <3>5 DEF Truthful
    <3>7. next.pc = "kill" => FileTrue' /\ session'[s].note.pid = stateFile'.pid
      BY <1>2, <1>3, <3>2
    <3>. QED  BY <1>3, <3>1, <3>3, <3>4, <3>6, <3>7 DEF Promise
  <2>. QED  BY <2>1, <2>2
<1>. QED  BY <1>2, <1>3, <1>4, <1>6, OneSession

(* A service is spawned only when nothing is up.                            *)
LEMMA SpawnKeeps ==
  ASSUME ManagerTypeOK, Alone, Promises, NEW s \in Sessions, Spawn(s)
  PROVE  (Alone /\ RestTrue /\ Promises /\ OnlyUp(started))'
<1>1. /\ session \in [Sessions -> SessionStates]
      /\ process \in [Pids -> Alive \cup {"unused", "gone"}]
      /\ started \in Nat
  BY DEF ManagerTypeOK
<1>2. NoneUp /\ Busy(s)
  BY DEF Promises, Promise, At, Spawn, Busy
<1>3. /\ \A t \in Sessions \ {s} : session'[t] = session[t]
      /\ session'[s].pc = "truncate"
      /\ session'[s].note = [pid |-> started + 1, status |-> "running"]
  BY <1>1 DEF Spawn, Goto
<1>4. \A p \in Pids : p # started + 1 => ~ Up(p)'
  BY <1>1, <1>2 DEF Spawn, Spawned, NoneUp, Up
<1>5. OnlyUp(started)'
  BY <1>4 DEF Spawn, OnlyUp
<1>6. OnlyUp(session[s].note.pid)'
  BY <1>3, <1>4 DEF OnlyUp
<1>7. Truthful(session[s].note.status)'
  BY <1>3 DEF Truthful, NotRunning
<1>8. Promise(s)' /\ Busy(s)'
  BY <1>3, <1>6, <1>7 DEF Promise, Busy
<1>. QED  BY <1>2, <1>3, <1>5, <1>8, OneSession

(* After SIGTERM no service goes on that has not been told to end.          *)
LEMMA TerminateKeeps ==
  ASSUME ManagerTypeOK, Alone, Promises, OnlyUp(started), NEW s \in Sessions, Terminate(s)
  PROVE  (Alone /\ RestTrue /\ Promises /\ OnlyUp(started))'
<1>. DEFINE pid == session[s].note.pid
<1>1. /\ session \in [Sessions -> SessionStates]
      /\ process \in [Pids -> Alive \cup {"unused", "gone"}]
  BY DEF ManagerTypeOK
<1>2. OnlyUp(pid) /\ pid = stateFile.pid /\ Busy(s) /\ stateFile' = stateFile
  BY DEF Promises, Promise, FileTrue, At, Terminate, Busy
<1>3. /\ \A t \in Sessions \ {s} : session'[t] = session[t]
      /\ session'[s].pc = "reread"
  BY <1>1 DEF Terminate, Goto
<1>4. /\ \A p \in Pids : Up(p)' => Up(p)
      /\ \A p \in Pids : process'[p] = "service" => process[p] = "service" /\ p # pid
  BY <1>1 DEF Terminate, Up
<1>5. \A p \in Pids : process'[p] # "service"
  BY <1>2, <1>4 DEF OnlyUp, Up
<1>6. OnlyUp(started)' /\ OnlyUp(stateFile.pid)'
  BY <1>2, <1>4 DEF OnlyUp, Terminate
<1>7. Truthful(session[s].note.status)'
  BY <1>5 DEF Truthful
<1>8. FileTrue'
  BY <1>5, <1>6 DEF FileTrue, Truthful
<1>9. Promise(s)' /\ Busy(s)'
  BY <1>3, <1>7, <1>8 DEF Promise, Busy
<1>. QED  BY <1>2, <1>3, <1>6, <1>9, OneSession

(* taskkill ends the process, or the status it writes claims nothing.       *)
LEMMA TaskKillKeeps ==
  ASSUME ManagerTypeOK, Alone, Promises, OnlyUp(started), NEW s \in Sessions, TaskKill(s)
  PROVE  (Alone /\ RestTrue /\ Promises /\ OnlyUp(started))'
<1>. DEFINE pid == session[s].note.pid
<1>1. /\ session \in [Sessions -> SessionStates]
      /\ process \in [Pids -> Alive \cup {"unused", "gone"}]
  BY DEF ManagerTypeOK
<1>2. /\ OnlyUp(pid) /\ pid = stateFile.pid /\ Busy(s) /\ stateFile' = stateFile
      /\ Truthful(stateFile.status)
  BY DEF Promises, Promise, FileTrue, At, TaskKill, Busy
<1>3. /\ \A t \in Sessions \ {s} : session'[t] = session[t]
      /\ session'[s].pc = "reread"
  BY <1>1 DEF TaskKill, Goto
<1>4. \A p \in Pids : Up(p)' => Up(p)
  BY <1>1 DEF TaskKill, Up
<1>5. OnlyUp(started)' /\ OnlyUp(stateFile.pid)'
  BY <1>2, <1>4 DEF OnlyUp, TaskKill
<1>6. Truthful(session[s].note.status)'
  <2>1. CASE process' = [process EXCEPT ![pid] = "gone"]
    <3>1. \A p \in Pids : process'[p] # "service"
      BY <1>1, <1>2, <2>1 DEF OnlyUp, Up
    <3>. QED  BY <3>1 DEF Truthful
  <2>2. CASE session'[s].note.status = "stop_failed"
    BY <2>2 DEF Truthful, NotRunning
  <2>3. \/ process' = [process EXCEPT ![pid] = "gone"]
        \/ session'[s].note.status = "stop_failed"
    <3>1. session[s].note \in [pid : Pids \cup {NoPid}, status : StateStatuses]
      BY <1>1 DEF SessionStates
    <3>. QED  BY <1>1, <3>1 DEF TaskKill, Goto
  <2>. QED  BY <2>1, <2>2, <2>3
<1>7. FileTrue'
  <2>1. \A p \in Pids : process'[p] = "service" => process[p] = "service"
    BY <1>1 DEF TaskKill
  <2>. QED  BY <1>2, <1>5, <2>1 DEF FileTrue, Truthful
<1>8. Promise(s)' /\ Busy(s)'
  BY <1>3, <1>6, <1>7 DEF Promise, Busy
<1>. QED  BY <1>2, <1>3, <1>5, <1>8, OneSession

(* The steps that only read and write the state file.                       *)
LEMMA FileStepKeeps ==
  ASSUME ManagerTypeOK, Alone, Promises, OnlyUp(started), NEW s \in Sessions,
         \/ ReadState(s) \/ Mark(s) \/ MarkFill(s) \/ SpawnFails(s)
         \/ Reread(s) \/ Truncate(s) \/ Fill(s)
  PROVE  (Alone /\ RestTrue /\ Promises /\ OnlyUp(started))'
<1>1. /\ session \in [Sessions -> SessionStates]
      /\ session[s] \in SessionStates
      /\ stateFile \in [pid : Pids \cup {NoPid}, status : StateStatuses]
      /\ session[s].note \in [pid : Pids \cup {NoPid}, status : StateStatuses]
  BY DEF ManagerTypeOK, SessionStates
<1>2. Busy(s)
  BY DEF ReadState, Mark, MarkFill, SpawnFails, Reread, Truncate, Fill, At, Busy
<1>3. UNCHANGED <<process, started>>
  BY DEF ReadState, Mark, MarkFill, SpawnFails, Reread, Truncate, Fill
<1>4. /\ OnlyUp(started)'
      /\ NoneUp => NoneUp'
      /\ \A pid : OnlyUp(pid) => \A p \in Pids : Up(p)' => p = pid
      /\ NoneUp => \A p \in Pids : process'[p] # "service"
  BY <1>3 DEF OnlyUp, NoneUp, Up
<1>5. \A t \in Sessions \ {s} : session'[t] = session[t]
  BY <1>1 DEF ReadState, Mark, MarkFill, SpawnFails, Reread, Truncate, Fill, Goto
<1>6. ASSUME ReadState(s)
      PROVE  Promise(s)' /\ Busy(s)'
  <2>1. FileTrue
    BY <1>6 DEF ReadState, At, Promises, Promise
  <2>2. FileTrue'
    BY <1>3, <1>6, <2>1 DEF ReadState, FileTrue, OnlyUp, Truthful, Up
  <2>3. session'[s].pc = "probe" /\ session'[s].note = stateFile'
    BY <1>1, <1>6 DEF ReadState, Goto
  <2>. QED  BY <2>2, <2>3 DEF Promise, Busy
<1>7. ASSUME Mark(s)
      PROVE  Promise(s)' /\ Busy(s)'
  <2>1. NoneUp'
    BY <1>4, <1>7 DEF Mark, At, Promises, Promise
  <2>2. session'[s].pc = "mark_fill"
    BY <1>1, <1>7 DEF Mark, Goto
  <2>. QED  BY <2>1, <2>2 DEF Promise, Busy
<1>8. ASSUME MarkFill(s)
      PROVE  Promise(s)' /\ (~ Busy(s)' => FileTrue')
  <2>1. NoneUp
    BY <1>8 DEF MarkFill, At, Promises, Promise
  <2>2. NoneUp' /\ \A p \in Pids : process'[p] # "service"
    BY <1>4, <2>1
  <2>3. FileTrue' /\ OnlyUp(stateFile.pid)' /\ Truthful(session[s].note.status)'
    BY <2>2 DEF FileTrue, OnlyUp, NoneUp, Truthful
  <2>4. session'[s].pc = Continue(session[s].op, FALSE).pc
    BY <1>1, <1>8 DEF MarkFill, Goto
  <2>5. session'[s].pc \in {"read", "spawn", "reread", "idle"}
    BY <1>1, <2>4 DEF Continue, SessionStates
  <2>. QED  BY <2>2, <2>3, <2>5 DEF Promise
<1>9. ASSUME SpawnFails(s)
      PROVE  Promise(s)' /\ Busy(s)'
  <2>1. NoneUp' /\ \A p \in Pids : process'[p] # "service"
    BY <1>4, <1>9 DEF SpawnFails, At, Promises, Promise
  <2>2. session'[s].pc = "truncate"
    BY <1>1, <1>9 DEF SpawnFails, Goto
  <2>3. FileTrue' /\ OnlyUp(session[s].note.pid)' /\ Truthful(session[s].note.status)'
    BY <2>1 DEF FileTrue, OnlyUp, NoneUp, Truthful
  <2>. QED  BY <2>2, <2>3 DEF Promise, Busy
<1>10. ASSUME Reread(s)
       PROVE  Promise(s)' /\ Busy(s)'
  <2>1. FileTrue /\ Truthful(session[s].note.status)
    BY <1>10 DEF Reread, At, Promises, Promise
  <2>2. /\ session'[s].pc = "truncate"
        /\ session'[s].note.pid = stateFile.pid
        /\ session'[s].note.status = session[s].note.status
    BY <1>1, <1>10 DEF Reread, Goto
  <2>3. OnlyUp(session[s].note.pid)' /\ Truthful(session[s].note.status)'
    BY <1>3, <2>1, <2>2 DEF FileTrue, OnlyUp, Truthful, Up
  <2>4. FileTrue'
    BY <1>3, <1>10, <2>1 DEF Reread, FileTrue, OnlyUp, Truthful, Up
  <2>. QED  BY <2>2, <2>3, <2>4 DEF Promise, Busy
<1>11. ASSUME Truncate(s)
       PROVE  Promise(s)' /\ Busy(s)'
  <2>1. OnlyUp(session[s].note.pid) /\ Truthful(session[s].note.status)
    BY <1>11 DEF Truncate, At, Promises, Promise
  <2>2. session'[s].pc = "fill" /\ session'[s].note = session[s].note
    BY <1>1, <1>11 DEF Truncate, Goto
  <2>3. OnlyUp(session[s].note.pid)' /\ Truthful(session[s].note.status)'
    BY <1>3, <2>1, <2>2 DEF OnlyUp, Truthful, Up
  <2>. QED  BY <2>2, <2>3 DEF Promise, Busy
<1>12. ASSUME Fill(s)
       PROVE  Promise(s)' /\ Busy(s)'
  <2>1. OnlyUp(session[s].note.pid) /\ Truthful(session[s].note.status)
    BY <1>12 DEF Fill, At, Promises, Promise
  <2>2. session'[s].pc = "read" /\ stateFile' = session[s].note
    BY <1>1, <1>12 DEF Fill, Goto
  <2>3. FileTrue'
    BY <1>3, <2>1, <2>2 DEF FileTrue, OnlyUp, Truthful, Up
  <2>. QED  BY <2>2, <2>3 DEF Promise, Busy
<1>13. Promise(s)' /\ (~ Busy(s)' => FileTrue')
  BY <1>6, <1>7, <1>8, <1>9, <1>10, <1>11, <1>12
<1>. QED  BY <1>2, <1>4, <1>5, <1>13, OneSession

(* A request is killed at a step at which the file is true.                 *)
LEMMA AbandonKeeps ==
  ASSUME ManagerTypeOK, Alone, Promises, OnlyUp(started), NEW s \in Sessions,
         Abandon(s), ~ doubtful'
  PROVE  (Alone /\ RestTrue /\ Promises /\ OnlyUp(started))'
<1>1. /\ session' = [session EXCEPT ![s] = Idle] /\ Busy(s) /\ ~ OwesRecord(s)
      /\ UNCHANGED <<process, started, stateFile>>
  BY DEF Abandon
<1>2. /\ session \in [Sessions -> SessionStates] /\ session[s] \in SessionStates
  BY DEF ManagerTypeOK
<1>3. /\ \A t \in Sessions \ {s} : session'[t] = session[t]
      /\ session'[s].pc = "idle"
  BY <1>1, <1>2 DEF Idle
<1>4. NoneUp => FileTrue
  BY DEF NoneUp, FileTrue, OnlyUp, Truthful, Up
<1>5. FileTrue
  <2>1. Promise(s)
    BY DEF Promises
  <2>2. session[s].pc \in {"read", "probe", "mark", "mark_fill", "spawn", "kill", "reread",
                           "truncate", "fill"}
    BY <1>1, <1>2 DEF SessionStates, Busy
  <2>3. session[s].pc # "fill" /\ (session[s].pc = "truncate" => session[s].note.status # "running")
    BY <1>1 DEF OwesRecord, At
  <2>. QED  BY <1>4, <2>1, <2>2, <2>3 DEF Promise
<1>6. FileTrue' /\ OnlyUp(started)'
  BY <1>1, <1>5 DEF FileTrue, OnlyUp, Truthful, Up
<1>7. Promise(s)'
  BY <1>3 DEF Promise
<1>. QED  BY <1>1, <1>3, <1>6, <1>7, OneSession

LEMMA RequestKeeps ==
  ASSUME ManagerTypeOK, Alone, RestTrue, OnlyUp(started), NEW s \in Sessions,
         NEW op \in {"status", "start", "stop", "restart"}, Request(s, op), ~ doubtful'
  PROVE  (Alone /\ RestTrue /\ Promises /\ OnlyUp(started))'
<1>1. \A t \in Sessions : ~ Busy(t)
  BY DEF Request
<1>2. FileTrue /\ session \in [Sessions -> SessionStates]
  BY <1>1 DEF RestTrue, ManagerTypeOK
<1>3. /\ \A t \in Sessions \ {s} : session'[t].pc = "idle"
      /\ session'[s].pc = "read"
  BY <1>1, <1>2 DEF Request, Goto, Busy
<1>4. FileTrue' /\ OnlyUp(started)'
  BY <1>2 DEF Request, FileTrue, OnlyUp, Truthful, Up
<1>. QED  BY <1>3, <1>4 DEF Alone, RestTrue, Promises, Promise, Busy

LEMMA ManagerInvStep == ManagerInv /\ [ManagerNext]_managerVars => ManagerInv'
<1>. SUFFICES ASSUME ManagerInv, [ManagerNext]_managerVars, ~ doubtful'
              PROVE  (Alone /\ RestTrue /\ Promises /\ OnlyUp(started))'
  BY ManagerTypeStep DEF ManagerInv
<1>1. ManagerTypeOK /\ (~ doubtful => Alone /\ RestTrue /\ Promises /\ OnlyUp(started))
  BY DEF ManagerInv
<1>2. ASSUME NEW s \in Sessions, Paperwork(s)
      PROVE  (Alone /\ RestTrue /\ Promises /\ OnlyUp(started))'
  <2>1. ASSUME NEW op \in {"status", "start", "stop", "restart"}, Request(s, op)
        PROVE  (Alone /\ RestTrue /\ Promises /\ OnlyUp(started))'
    <3>1. ~ doubtful
      BY <2>1 DEF Request
    <3>. QED  BY <1>1, <2>1, <3>1, RequestKeeps
  <2>2. CASE \/ ReadState(s) \/ Mark(s) \/ MarkFill(s) \/ SpawnFails(s)
             \/ Reread(s) \/ Truncate(s) \/ Fill(s)
    <3>1. ~ doubtful
      BY <2>2 DEF ReadState, Mark, MarkFill, SpawnFails, Reread, Truncate, Fill
    <3>. QED  BY <1>1, <2>2, <3>1, FileStepKeeps
  <2>3. CASE Probe(s)
    BY <1>1, <2>3, ProbedKeeps DEF Probe
  <2>4. CASE ProbeTimesOut(s)
    BY <2>4 DEF ProbeTimesOut
  <2>5. CASE Terminate(s)
    <3>1. ~ doubtful
      BY <2>5 DEF Terminate
    <3>. QED  BY <1>1, <2>5, <3>1, TerminateKeeps
  <2>6. CASE Abandon(s)
    <3>1. ~ doubtful
      BY <2>6 DEF Abandon
    <3>. QED  BY <1>1, <2>6, <3>1, AbandonKeeps
  <2>. QED  BY <1>2, <2>1, <2>2, <2>3, <2>4, <2>5, <2>6 DEF Paperwork
<1>3. ASSUME NEW s \in Sessions, Spawn(s) \/ TaskKill(s)
      PROVE  (Alone /\ RestTrue /\ Promises /\ OnlyUp(started))'
  <2>1. ~ doubtful
    BY <1>3 DEF Spawn, TaskKill
  <2>. QED  BY <1>1, <1>3, <2>1, SpawnKeeps, TaskKillKeeps
<1>4. ASSUME NEW p \in Pids, Exit(p) \/ Reap(p)
      PROVE  (Alone /\ RestTrue /\ Promises /\ OnlyUp(started))'
  <2>1. ~ doubtful /\ UNCHANGED <<started, stateFile, session>>
    BY <1>4 DEF Exit, Reap
  <2>2. /\ \A q \in Pids : process'[q] = process[q] \/ ~ Up(q)'
        /\ \A q \in Pids : ~ Up(q)' => process'[q] # "service"
    <3>1. process \in [Pids -> Alive \cup {"unused", "gone"}]
      BY <1>1 DEF ManagerTypeOK
    <3>. QED  BY <1>4, <3>1 DEF Exit, Reap, Up
  <2>. QED  BY <1>1, <2>1, <2>2, ProcessesEnd
<1>5. ASSUME UNCHANGED managerVars
      PROVE  (Alone /\ RestTrue /\ Promises /\ OnlyUp(started))'
  <2>1. ~ doubtful /\ UNCHANGED <<process, started, stateFile, session>>
    BY <1>5 DEF managerVars
  <2>2. /\ \A q \in Pids : process'[q] = process[q] \/ ~ Up(q)'
        /\ \A q \in Pids : ~ Up(q)' => process'[q] # "service"
    BY <2>1 DEF Up
  <2>. QED  BY <1>1, <2>1, <2>2, ProcessesEnd
<1>. QED  BY <1>2, <1>3, <1>4, <1>5 DEF ManagerNext

LEMMA ManagerInvRecords == ManagerInv => RecordedIsReal
<1>. SUFFICES ASSUME ManagerInv, ~ doubtful, \A s \in Sessions : ~ Busy(s)
              PROVE  /\ \A p \in Pids : process[p] \in {"service", "dying"} => p = stateFile.pid
                     /\ stateFile.status \in NotRunning => Live = {}
  BY DEF RecordedIsReal
<1>1. FileTrue
  BY DEF ManagerInv, RestTrue
<1>. QED  BY <1>1 DEF FileTrue, OnlyUp, Truthful, Up, Live

-----------------------------------------------------------------------------
(* Type correctness of the feed.  A connection is only tried within the     *)
(* budget of attempts.                                                      *)

FeedTypeInv ==
  /\ FeedTypeOK
  /\ \A l \in Listeners : pc[l] \in {"unborn", "top"} => attempts[l] <= MaxReconnects

Points == Connected \cup {"unborn", "top", "closing", "after", "ended", "dead"}

(* A message carries a candle of the run.                                   *)
LEMMA Messages ==
  ASSUME NEW m \in 1 .. 2 * MaxCandle
  PROVE  /\ CandleOf(m) \in Candles
         /\ Confirms(m) => 2 * CandleOf(m) = m
         /\ ~ Confirms(m) => 2 * CandleOf(m) = m + 1
<1>1. MaxCandle \in Nat
  BY FeedAssumption
<1>. QED  BY <1>1 DEF CandleOf, Confirms, Candles

LEMMA FeedTypeInit == FeedInit => FeedTypeInv
<1>. SUFFICES ASSUME FeedInit PROVE FeedTypeInv
  OBVIOUS
<1>1. MaxCandle \in Nat /\ MaxReconnects \in Nat /\ MaxDownloads \in Nat
  BY FeedAssumption
<1>2. /\ pc \in [Listeners -> Points]
      /\ attempts \in [Listeners -> 0..(MaxReconnects + 1)]
      /\ failed \in [Listeners -> BOOLEAN]
      /\ cursor \in [Listeners -> 0..(2 * MaxCandle)]
  BY <1>1 DEF FeedInit, Points
<1>3. /\ frame \in [Listeners -> SUBSET Candles] /\ heard \in [Listeners -> SUBSET Candles]
      /\ dataset \in (SUBSET Candles) \cup {Torn} /\ merged \in SUBSET Candles
      /\ download \in [pc : {"idle", "fetch", "truncate", "fill"}, rows : SUBSET Candles]
      /\ klines \in [Candles -> {"none", "open", "confirmed"}]
  BY DEF FeedInit
<1>4. clock \in 0..(2 * MaxCandle) /\ downloads \in 0..MaxDownloads
  BY <1>1 DEF FeedInit
<1>5. cut \in BOOLEAN /\ mixed \in BOOLEAN
  BY DEF FeedInit
<1>6. feedStatus = "none" /\ \A l \in Listeners : attempts[l] <= MaxReconnects
  BY <1>1 DEF FeedInit
<1>. QED  BY <1>2, <1>3, <1>4, <1>5, <1>6 DEF FeedTypeInv, FeedTypeOK, Points

(* The steps of a connection.                                               *)
LEMMA ConnectionTypes ==
  ASSUME FeedTypeInv, NEW l \in Listeners,
         \/ Launch(l) \/ ConnectFails(l) \/ ConnectionError(l) \/ ServerCloses(l)
         \/ OnClose(l) \/ Reconnect(l) \/ GiveUp(l) \/ Die(l) \/ Connect(l)
  PROVE  FeedTypeInv'
<1>1. /\ MaxCandle \in Nat /\ MaxReconnects \in Nat
      /\ pc \in [Listeners -> Points] /\ failed \in [Listeners -> BOOLEAN]
      /\ attempts \in [Listeners -> 0..(MaxReconnects + 1)]
      /\ cursor \in [Listeners -> 0..(2 * MaxCandle)] /\ clock \in 0..(2 * MaxCandle)
      /\ cut \in BOOLEAN
      /\ \A k \in Listeners : pc[k] \in {"unborn", "top"} => attempts[k] <= MaxReconnects
  BY FeedAssumption DEF FeedTypeInv, FeedTypeOK, Points
<1>2. ASSUME Launch(l) PROVE FeedTypeInv'
  BY <1>1, <1>2 DEF Launch, Step, FeedTypeInv, FeedTypeOK, Points
<1>3. ASSUME Connect(l) \/ ConnectFails(l)
      PROVE  attempts' \in [Listeners -> 0..(MaxReconnects + 1)]
  BY <1>1, <1>3 DEF Connect, ConnectFails, Step
<1>4. ASSUME Connect(l) PROVE FeedTypeInv'
  <2>1. cursor' \in [Listeners -> 0..(2 * MaxCandle)]
    BY <1>1, <1>4 DEF Connect
  <2>2. /\ pc' \in [Listeners -> Points] /\ failed' \in [Listeners -> BOOLEAN]
        /\ \A k \in Listeners : pc'[k] \in {"unborn", "top"} => attempts'[k] <= MaxReconnects
    BY <1>1, <1>4 DEF Connect, Step, Points, Connected
  <2>. QED  BY <1>3, <1>4, <2>1, <2>2 DEF Connect, FeedTypeInv, FeedTypeOK, Points
<1>5. ASSUME ConnectFails(l) PROVE FeedTypeInv'
  <2>1. /\ pc' \in [Listeners -> Points] /\ failed' \in [Listeners -> BOOLEAN]
        /\ \A k \in Listeners : pc'[k] \in {"unborn", "top"} => attempts'[k] <= MaxReconnects
    BY <1>1, <1>5 DEF ConnectFails, Step, Points
  <2>. QED  BY <1>3, <1>5, <2>1 DEF ConnectFails, FeedTypeInv, FeedTypeOK, Points
<1>6. ASSUME ConnectionError(l) \/ ServerCloses(l) PROVE FeedTypeInv'
  <2>1. /\ pc' \in [Listeners -> Points] /\ failed' \in [Listeners -> BOOLEAN]
        /\ \A k \in Listeners : pc'[k] \in {"unborn", "top"} => attempts'[k] <= MaxReconnects
    BY <1>1, <1>6 DEF ConnectionError, ServerCloses, Step, Points
  <2>. QED  BY <1>6, <2>1 DEF ConnectionError, ServerCloses, FeedTypeInv, FeedTypeOK, Points
<1>7. ASSUME OnClose(l) \/ Reconnect(l) \/ GiveUp(l) PROVE FeedTypeInv'
  <2>1. /\ pc' \in [Listeners -> Points]
        /\ \A k \in Listeners : pc'[k] \in {"unborn", "top"} => attempts'[k] <= MaxReconnects
    BY <1>1, <1>7 DEF OnClose, Reconnect, GiveUp, Step, Points
  <2>. QED  BY <1>7, <2>1 DEF OnClose, Reconnect, GiveUp, FeedTypeInv, FeedTypeOK, Points
<1>8. ASSUME Die(l) PROVE FeedTypeInv'
  <2>1. /\ pc' \in [Listeners -> Points] /\ cut' \in BOOLEAN
        /\ \A k \in Listeners : pc'[k] \in {"unborn", "top"} => attempts'[k] <= MaxReconnects
    BY <1>1, <1>8 DEF Die, Points
  <2>. QED  BY <1>8, <2>1 DEF Die, FeedTypeInv, FeedTypeOK, Points
<1>. QED  BY <1>2, <1>4, <1>5, <1>6, <1>7, <1>8

(* The steps of a message.                                                  *)
LEMMA MessageTypes ==
  ASSUME FeedTypeInv, NEW l \in Listeners,
         \/ Receive(l) \/ LoadDataset(l) \/ LoadFails(l) \/ ReadFrame(l)
         \/ TruncateDataset(l) \/ SaveDataset(l) \/ Report(l)
  PROVE  FeedTypeInv'
<1>1. /\ MaxCandle \in Nat
      /\ pc \in [Listeners -> Points] /\ failed \in [Listeners -> BOOLEAN]
      /\ cursor \in [Listeners -> 0..(2 * MaxCandle)] /\ clock \in 0..(2 * MaxCandle)
      /\ klines \in [Candles -> {"none", "open", "confirmed"}]
      /\ frame \in [Listeners -> SUBSET Candles] /\ heard \in [Listeners -> SUBSET Candles]
      /\ dataset \in (SUBSET Candles) \cup {Torn} /\ merged \in SUBSET Candles
      /\ mixed \in BOOLEAN
      /\ \A k \in Listeners : pc[k] \in {"unborn", "top"} => attempts[k] <= MaxReconnects
  BY FeedAssumption DEF FeedTypeInv, FeedTypeOK, Points
<1>2. /\ pc' \in [Listeners -> Points]
      /\ \A k \in Listeners : pc'[k] \in {"unborn", "top"} => attempts'[k] <= MaxReconnects
  BY <1>1 DEF Receive, LoadDataset, LoadFails, ReadFrame, TruncateDataset, SaveDataset,
              Report, Step, Points, Connected, Merging
<1>3. ASSUME Receive(l) PROVE FeedTypeInv'
  <2>1. cursor[l] + 1 \in 1 .. 2 * MaxCandle
    BY <1>1, <1>3 DEF Receive
  <2>2. CandleOf(cursor[l] + 1) \in Candles
    BY <2>1, Messages
  <2>3. cursor' \in [Listeners -> 0..(2 * MaxCandle)]
    BY <1>1, <1>3, <2>1 DEF Receive
  <2>4. /\ klines' \in [Candles -> {"none", "open", "confirmed"}]
        /\ heard' \in [Listeners -> SUBSET Candles]
    BY <1>1, <1>3, <2>2 DEF Receive
  <2>5. mixed' \in BOOLEAN
    BY <1>1, <1>3 DEF Receive, Overlap
  <2>. QED  BY <1>2, <1>3, <2>3, <2>4, <2>5 DEF Receive, FeedTypeInv, FeedTypeOK, Points
<1>4. ASSUME LoadDataset(l) PROVE FeedTypeInv'
  <2>1. dataset \in SUBSET Candles
    BY <1>1, <1>4 DEF LoadDataset
  <2>2. frame' \in [Listeners -> SUBSET Candles]
    BY <1>1, <1>4, <2>1 DEF LoadDataset
  <2>. QED  BY <1>2, <1>4, <2>2 DEF LoadDataset, FeedTypeInv, FeedTypeOK, Points
<1>5. ASSUME LoadFails(l) PROVE FeedTypeInv'
  <2>1. failed' \in [Listeners -> BOOLEAN]
    BY <1>1, <1>5 DEF LoadFails
  <2>. QED  BY <1>2, <1>5, <2>1 DEF LoadFails, FeedTypeInv, FeedTypeOK, Points
<1>6. ASSUME ReadFrame(l) PROVE FeedTypeInv'
  <2>1. frame' \in [Listeners -> SUBSET Candles]
    BY <1>1, <1>6 DEF ReadFrame
  <2>. QED  BY <1>2, <1>6, <2>1 DEF ReadFrame, FeedTypeInv, FeedTypeOK, Points
<1>7. ASSUME TruncateDataset(l) PROVE FeedTypeInv'
  BY <1>2, <1>7 DEF TruncateDataset, FeedTypeInv, FeedTypeOK, Points
<1>9. ASSUME Report(l) PROVE FeedTypeInv'
  BY <1>2, <1>9 DEF Report, FeedTypeInv, FeedTypeOK, Points
<1>8. ASSUME SaveDataset(l) PROVE FeedTypeInv'
  <2>1. /\ frame' \in [Listeners -> SUBSET Candles]
        /\ dataset' \in SUBSET Candles /\ merged' \in SUBSET Candles
    BY <1>1, <1>8 DEF SaveDataset
  <2>. QED  BY <1>2, <1>8, <2>1 DEF SaveDataset, FeedTypeInv, FeedTypeOK, Points
<1>. QED  BY <1>3, <1>4, <1>5, <1>6, <1>7, <1>8, <1>9

LEMMA DownloadTypes ==
  ASSUME FeedTypeInv, Push \/ DownloadStep
  PROVE  FeedTypeInv'
<1>1. /\ MaxCandle \in Nat /\ MaxDownloads \in Nat
      /\ clock \in 0..(2 * MaxCandle) /\ downloads \in 0..MaxDownloads
      /\ dataset \in (SUBSET Candles) \cup {Torn} /\ merged \in SUBSET Candles
      /\ download \in [pc : {"idle", "fetch", "truncate", "fill"}, rows : SUBSET Candles]
      /\ cut \in BOOLEAN /\ mixed \in BOOLEAN
      /\ \A k \in Listeners : pc[k] \in {"unborn", "top"} => attempts[k] <= MaxReconnects
  BY FeedAssumption DEF FeedTypeInv, FeedTypeOK
<1>2. ASSUME Push PROVE FeedTypeInv'
  <2>1. clock' \in 0..(2 * MaxCandle)
    BY <1>1, <1>2 DEF Push
  <2>. QED  BY <1>2, <2>1 DEF Push, listenerVars, FeedTypeInv, FeedTypeOK
<1>3. ASSUME StartDownload PROVE FeedTypeInv'
  <2>1. /\ downloads' \in 0..MaxDownloads
        /\ download' \in [pc : {"idle", "fetch", "truncate", "fill"}, rows : SUBSET Candles]
    <3>1. dataset \in SUBSET Candles
      BY <1>1, <1>3 DEF StartDownload
    <3>. QED  BY <1>1, <1>3, <3>1 DEF StartDownload
  <2>2. mixed' \in BOOLEAN
    BY <1>1, <1>3 DEF StartDownload, Overlap
  <2>. QED  BY <1>3, <2>1, <2>2 DEF StartDownload, listenerVars, FeedTypeInv, FeedTypeOK
<1>4. ASSUME FetchHistory \/ FetchFails \/ TruncateDownload PROVE FeedTypeInv'
  <2>1. download' \in [pc : {"idle", "fetch", "truncate", "fill"}, rows : SUBSET Candles]
    BY <1>1, <1>4 DEF FetchHistory, FetchFails, TruncateDownload, ClosedBy
  <2>2. dataset' \in (SUBSET Candles) \cup {Torn}
    BY <1>1, <1>4 DEF FetchHistory, FetchFails, TruncateDownload
  <2>3. UNCHANGED <<clock, klines, feedStatus, listenerVars, downloads, merged, cut, mixed>>
    BY <1>4 DEF FetchHistory, FetchFails, TruncateDownload
  <2>. QED  BY <2>1, <2>2, <2>3 DEF listenerVars, FeedTypeInv, FeedTypeOK
<1>5. ASSUME SaveDownload PROVE FeedTypeInv'
  <2>1. /\ download' \in [pc : {"idle", "fetch", "truncate", "fill"}, rows : SUBSET Candles]
        /\ dataset' \in SUBSET Candles /\ merged' \in SUBSET Candles
    BY <1>1, <1>5 DEF SaveDownload
  <2>. QED  BY <1>5, <2>1 DEF SaveDownload, listenerVars, FeedTypeInv, FeedTypeOK
<1>6. ASSUME DownloadDies PROVE FeedTypeInv'
  <2>1. /\ download' \in [pc : {"idle", "fetch", "truncate", "fill"}, rows : SUBSET Candles]
        /\ cut' \in BOOLEAN
    BY <1>1, <1>6 DEF DownloadDies
  <2>. QED  BY <1>6, <2>1 DEF DownloadDies, listenerVars, FeedTypeInv, FeedTypeOK
<1>. QED  BY <1>2, <1>3, <1>4, <1>5, <1>6 DEF DownloadStep

LEMMA FeedTypeStep == FeedTypeInv /\ [FeedNext]_feedVars => FeedTypeInv'
<1>. SUFFICES ASSUME FeedTypeInv, [FeedNext]_feedVars PROVE FeedTypeInv'
  OBVIOUS
<1>1. CASE UNCHANGED feedVars
  BY <1>1 DEF feedVars, listenerVars, FeedTypeInv, FeedTypeOK
<1>2. CASE Push \/ DownloadStep
  BY <1>2, DownloadTypes
<1>3. ASSUME NEW l \in Listeners, Launch(l) \/ ListenerStep(l) \/ GiveUp(l) \/ Die(l)
      PROVE  FeedTypeInv'
  BY <1>3, ConnectionTypes, MessageTypes DEF ListenerStep
<1>. QED  BY <1>1, <1>2, <1>3 DEF FeedNext

-----------------------------------------------------------------------------
(* The composition: each of its steps is one of the manager and one of the  *)
(* feed, and a listener takes steps exactly while its process is up.        *)

LEMMA ComposedSteps ==
  ASSUME ManagerTypeOK, [ServicesNext]_serviceVars
  PROVE  [ManagerNext]_managerVars /\ [FeedNext]_feedVars
<1>1. Listeners = Pids
  BY ServicesAssumption
<1>2. ASSUME NEW s \in Sessions, Paperwork(s), UNCHANGED feedVars
      PROVE  [ManagerNext]_managerVars /\ [FeedNext]_feedVars
  BY <1>2 DEF ManagerNext
<1>3. ASSUME NEW s \in Sessions, StartListener(s)
      PROVE  [ManagerNext]_managerVars /\ [FeedNext]_feedVars
  <2>1. started + 1 \in Listeners
    BY <1>1, <1>3, PidsAreNumbers DEF StartListener, Spawn, ManagerTypeOK, Pids
  <2>. QED  BY <1>3, <2>1 DEF StartListener, ManagerNext, FeedNext
<1>4. ASSUME NEW s \in Sessions, KillListener(s)
      PROVE  [ManagerNext]_managerVars /\ [FeedNext]_feedVars
  <2>1. process' # process => session[s].note.pid \in Listeners
    BY <1>1, <1>4 DEF KillListener, TaskKill, Running
  <2>. QED  BY <1>4, <2>1 DEF KillListener, ManagerNext, FeedNext
<1>5. ASSUME NEW p \in Pids,
             Listen(p) \/ ListenerReturns(p) \/ ListenerDies(p) \/ (Reap(p) /\ UNCHANGED feedVars)
      PROVE  [ManagerNext]_managerVars /\ [FeedNext]_feedVars
  BY <1>1, <1>5 DEF Listen, ListenerReturns, ListenerDies, ManagerNext, FeedNext
<1>6. ASSUME Push \/ DownloadStep, UNCHANGED managerVars
      PROVE  [ManagerNext]_managerVars /\ [FeedNext]_feedVars
  BY <1>6 DEF FeedNext
<1>7. ASSUME UNCHANGED serviceVars
      PROVE  [ManagerNext]_managerVars /\ [FeedNext]_feedVars
  BY <1>7 DEF serviceVars
<1>. QED  BY <1>2, <1>3, <1>4, <1>5, <1>6, <1>7 DEF ServicesNext

Matches == \A p \in Pids : Listening(p) <=> Up(p)

(* The status row tells that the process started last has ended.            *)
Told ==
  ~ doubtful =>
    \A p \in Pids : p = started =>
      /\ pc[p] = "after" /\ ~ failed[p] => feedStatus = "closed"
      /\ pc[p] = "ended" => feedStatus \in {"closed", "error_stopped"}

(* The feed takes a step by itself, and the listener's point stays among    *)
(* those of a running process.                                              *)
LEMMA ListenerPoint ==
  ASSUME FeedTypeInv, NEW p \in Pids, ListenerStep(p)
  PROVE  /\ Listening(p)' /\ \A q \in Pids \ {p} : pc'[q] = pc[q]
         /\ pc'[p] = "after" => failed'[p] \/ feedStatus' = "closed"
<1>1. pc \in [Pids -> Points] /\ failed \in [Pids -> BOOLEAN]
  BY ServicesAssumption DEF FeedTypeInv, FeedTypeOK, Points
<1>2. CASE Connect(p) \/ ConnectionError(p) \/ ServerCloses(p)
  BY <1>1, <1>2 DEF Connect, ConnectionError, ServerCloses, Step, Listening
<1>3. CASE ConnectFails(p) \/ OnClose(p) \/ Reconnect(p)
  BY <1>1, <1>3 DEF ConnectFails, OnClose, Reconnect, Step, Listening
<1>4. CASE \/ Receive(p) \/ LoadDataset(p) \/ LoadFails(p) \/ ReadFrame(p)
           \/ TruncateDataset(p) \/ SaveDataset(p) \/ Report(p)
  BY <1>1, <1>4 DEF Receive, LoadDataset, LoadFails, ReadFrame, TruncateDataset, SaveDataset,
                    Report, Step, Listening
<1>. QED  BY <1>2, <1>3, <1>4 DEF ListenerStep

LEMMA PaperworkUp ==
  ASSUME ManagerTypeOK, NEW s \in Sessions, Paperwork(s)
  PROVE  started' = started /\ \A p \in Pids : Up(p)' <=> Up(p)
<1>1. process \in [Pids -> Alive \cup {"unused", "gone"}]
  BY DEF ManagerTypeOK
<1>2. CASE Terminate(s)
  BY <1>1, <1>2 DEF Terminate, Up
<1>3. CASE UNCHANGED <<process, started>>
  BY <1>3 DEF Up
<1>4. UNCHANGED <<process, started>> \/ Terminate(s)
  BY DEF Paperwork, Request, ReadState, Probe, ProbeTimesOut, Mark, MarkFill, SpawnFails,
         Reread, Truncate, Fill, Abandon
<1>. QED  BY <1>2, <1>3, <1>4

LEMMA FeedPart ==
  UNCHANGED feedVars =>
    /\ UNCHANGED <<pc, failed, feedStatus, mixed, cut, dataset, klines, clock, cursor>>
    /\ UNCHANGED <<heard, frame, merged, download>>
BY DEF feedVars, listenerVars

LEMMA DownloadPart ==
  Push \/ DownloadStep => UNCHANGED <<pc, failed, feedStatus, cursor, heard, frame>>
BY DEF Push, DownloadStep, StartDownload, FetchHistory, FetchFails, TruncateDownload,
       SaveDownload, DownloadDies, listenerVars

LEMMA MatchesStep ==
  ASSUME ManagerTypeOK, FeedTypeInv, Matches, [ServicesNext]_serviceVars
  PROVE  Matches'
<1>1. /\ pc \in [Pids -> Points]
      /\ process \in [Pids -> Alive \cup {"unused", "gone"}]
      /\ started \in 0..MaxStarts
  BY ServicesAssumption DEF FeedTypeInv, FeedTypeOK, Points, ManagerTypeOK
<1>2. ASSUME UNCHANGED feedVars, \A p \in Pids : Up(p)' <=> Up(p)
      PROVE  Matches'
  BY <1>2, FeedPart DEF Matches, Listening
<1>3. ASSUME NEW s \in Sessions, Paperwork(s), UNCHANGED feedVars
      PROVE  Matches'
  BY <1>2, <1>3, PaperworkUp
<1>4. ASSUME NEW s \in Sessions, StartListener(s)
      PROVE  Matches'
  <2>1. started + 1 \in Pids
    BY <1>1, <1>4, PidsAreNumbers DEF StartListener, Spawn, Pids
  <2>2. /\ process'[started + 1] = "service"
        /\ \A p \in Pids \ {started + 1} : Up(p)' <=> Up(p)
    BY <1>1, <1>4, <2>1 DEF StartListener, Spawn, Spawned, Up
  <2>3. /\ pc'[started + 1] = "top"
        /\ \A p \in Pids \ {started + 1} : pc'[p] = pc[p]
    BY <1>1, <1>4, <2>1 DEF StartListener, Launch, Step
  <2>. QED  BY <2>1, <2>2, <2>3 DEF Matches, Listening, Up
<1>5. ASSUME NEW s \in Sessions, KillListener(s)
      PROVE  Matches'
  <2>. DEFINE pid == session[s].note.pid
  <2>1. CASE process' = process
    BY <1>2, <1>5, <2>1 DEF KillListener, Up
  <2>2. CASE process' # process
    <3>1. pid \in Pids /\ process' = [process EXCEPT ![pid] = "gone"]
      BY <1>5, <2>2 DEF KillListener, TaskKill, Running
    <3>2. pc' = [pc EXCEPT ![pid] = "dead"]
      BY <1>5, <2>2 DEF KillListener, Die
    <3>. HIDE DEF pid
    <3>. QED  BY <1>1, <3>1, <3>2 DEF Matches, Listening, Up
  <2>. QED  BY <2>1, <2>2
<1>6. ASSUME NEW p \in Pids, Listen(p)
      PROVE  Matches'
  <2>1. Up(p) /\ \A q \in Pids : Up(q)' <=> Up(q)
    BY <1>6 DEF Listen, Up, managerVars
  <2>2. Listening(p)' /\ \A q \in Pids \ {p} : pc'[q] = pc[q]
    BY <1>6, ListenerPoint DEF Listen
  <2>. QED  BY <2>1, <2>2 DEF Matches, Listening
<1>7. ASSUME NEW p \in Pids, ListenerReturns(p) \/ ListenerDies(p)
      PROVE  Matches'
  <2>1. pc' = [pc EXCEPT ![p] = "ended"] \/ pc' = [pc EXCEPT ![p] = "dead"]
    BY <1>7 DEF ListenerReturns, ListenerDies, GiveUp, Die, Step
  <2>2. ~ Listening(p)' /\ \A q \in Pids \ {p} : pc'[q] = pc[q]
    BY <1>1, <2>1 DEF Listening
  <2>3. ~ Up(p)' /\ \A q \in Pids \ {p} : process'[q] = process[q]
    BY <1>1, <1>7 DEF ListenerReturns, ListenerDies, Exit, Up
  <2>. QED  BY <2>2, <2>3 DEF Matches, Listening, Up
<1>8. ASSUME NEW p \in Pids, Reap(p), UNCHANGED feedVars
      PROVE  Matches'
  <2>1. \A q \in Pids : Up(q)' <=> Up(q)
    BY <1>1, <1>8 DEF Reap, Up
  <2>. QED  BY <1>2, <1>8, <2>1
<1>9. ASSUME Push \/ DownloadStep, UNCHANGED managerVars
      PROVE  Matches'
  BY <1>9, DownloadPart DEF Matches, Listening, Up, managerVars
<1>10. ASSUME UNCHANGED serviceVars
       PROVE  Matches'
  BY <1>2, <1>10 DEF serviceVars, managerVars, Up
<1>. QED  BY <1>3, <1>4, <1>5, <1>6, <1>7, <1>8, <1>9, <1>10 DEF ServicesNext

LEMMA ToldStep ==
  ASSUME ManagerInv, FeedTypeInv, Matches, Told, [ServicesNext]_serviceVars
  PROVE  Told'
<1>. SUFFICES ASSUME ~ doubtful', NEW p \in Pids, p = started'
              PROVE  /\ pc'[p] = "after" /\ ~ failed'[p] => feedStatus' = "closed"
                     /\ pc'[p] = "ended" => feedStatus' \in {"closed", "error_stopped"}
  BY DEF Told
<1>. DEFINE Goal == /\ pc'[p] = "after" /\ ~ failed'[p] => feedStatus' = "closed"
                    /\ pc'[p] = "ended" => feedStatus' \in {"closed", "error_stopped"}
<1>1. /\ pc \in [Pids -> Points]
      /\ started \in 0..MaxStarts
  BY ServicesAssumption DEF FeedTypeInv, FeedTypeOK, Points, ManagerInv, ManagerTypeOK
<1>2. ASSUME ~ doubtful, started' = started, UNCHANGED <<pc, failed, feedStatus>>
      PROVE  Goal
  BY <1>2 DEF Told
<1>3. ASSUME NEW s \in Sessions, Paperwork(s), UNCHANGED feedVars
      PROVE  Goal
  <2>1. ~ doubtful
    BY <1>3 DEF Paperwork, Request, ReadState, Probe, ProbeTimesOut, Mark, MarkFill,
                SpawnFails, Terminate, Reread, Truncate, Fill, Abandon
  <2>2. started' = started
    BY <1>3, PaperworkUp DEF ManagerInv
  <2>. QED  BY <1>2, <1>3, <2>1, <2>2, FeedPart
<1>4. ASSUME NEW s \in Sessions, StartListener(s)
      PROVE  Goal
  <2>1. p = started + 1
    BY <1>4 DEF StartListener, Spawn
  <2>2. pc'[p] = "top"
    BY <1>1, <1>4, <2>1 DEF StartListener, Launch, Step
  <2>. QED  BY <2>2
<1>5. ASSUME NEW q \in Pids, Listen(q)
      PROVE  Goal
  <2>1. ~ doubtful /\ started' = started /\ Up(q)
    BY <1>5 DEF Listen, Up, managerVars
  <2>2. q = p
    BY <2>1 DEF ManagerInv, OnlyUp
  <2>3. Listening(p)' /\ (pc'[p] = "after" => failed'[p] \/ feedStatus' = "closed")
    BY <1>5, <2>2, ListenerPoint DEF Listen
  <2>. QED  BY <2>3 DEF Listening
<1>6. ASSUME NEW q \in Pids, ListenerReturns(q)
      PROVE  Goal
  <2>1. ~ doubtful /\ started' = started /\ Up(q)
    BY <1>6 DEF ListenerReturns, Exit, Up
  <2>2. q = p
    BY <2>1 DEF ManagerInv, OnlyUp
  <2>3. GiveUp(p) /\ pc[p] = "after" /\ pc'[p] = "ended"
    BY <1>1, <1>6, <2>2 DEF ListenerReturns, GiveUp, Step
  <2>4. ~ failed[p] => feedStatus = "closed"
    BY <2>1, <2>2, <2>3 DEF Told
  <2>. QED  BY <2>3, <2>4 DEF GiveUp
<1>7. ASSUME NEW q, Die(q), ~ doubtful, started' = started
      PROVE  Goal
  BY <1>1, <1>7 DEF Die, Told
<1>8. ASSUME NEW s \in Sessions, KillListener(s)
      PROVE  Goal
  <2>1. ~ doubtful /\ started' = started
    BY <1>8 DEF KillListener, TaskKill
  <2>. QED  BY <1>2, <1>7, <1>8, <2>1, FeedPart DEF KillListener
<1>9. ASSUME NEW q \in Pids, ListenerDies(q)
      PROVE  Goal
  BY <1>7, <1>9 DEF ListenerDies, Exit
<1>10. ASSUME NEW q \in Pids, Reap(q), UNCHANGED feedVars
       PROVE  Goal
  BY <1>2, <1>10, FeedPart DEF Reap
<1>11. ASSUME Push \/ DownloadStep, UNCHANGED managerVars
       PROVE  Goal
  BY <1>2, <1>11, DownloadPart DEF managerVars
<1>12. ASSUME UNCHANGED serviceVars
       PROVE  Goal
  BY <1>2, <1>12, FeedPart DEF serviceVars, managerVars
<1>. QED  BY <1>3, <1>4, <1>5, <1>6, <1>8, <1>9, <1>10, <1>11, <1>12 DEF ServicesNext

-----------------------------------------------------------------------------
(* The dataset file.  While one listener runs and no download overlaps its  *)
(* merge, what a merge or a download holds in memory contains everything    *)
(* saved before; no candle a listener heard closed can come again open.     *)

Single == \A p, q \in Pids : Listening(p) /\ Listening(q) => p = q
Apart == download.pc = "idle" \/ \A p \in Pids : pc[p] \notin Merging

FileWhole == ~ Saving => dataset # Torn /\ merged \subseteq dataset
HeardConfirmed ==
  \A p \in Pids : \A c \in heard[p] : klines[c] = "confirmed" /\ 2 * c <= clock
HeardMerged ==
  \A p \in Pids : pc[p] \notin Merging \cup {"dead"} => heard[p] \subseteq merged
NothingReopened ==
  \A p, q \in Pids : pc[p] \in Connected => \A c \in heard[q] : 2 * c <= cursor[p] + 1
FramesWhole ==
  \A p \in Pids :
    /\ pc[p] \in {"frame", "truncate", "fill"} => merged \subseteq frame[p]
    /\ pc[p] \in {"truncate", "fill"} => heard[p] \subseteq frame[p]
DownloadWhole == download.pc # "idle" => merged \subseteq download.rows

DataInv ==
  /\ FileWhole /\ HeardConfirmed /\ HeardMerged /\ NothingReopened
  /\ FramesWhole /\ DownloadWhole

Unmixed == ~ mixed => Apart

LEMMA FeedFacts ==
  ASSUME FeedTypeInv
  PROVE  /\ pc \in [Pids -> Points]
         /\ cursor \in [Pids -> Nat] /\ clock \in 0..(2 * MaxCandle) /\ clock \in Nat
         /\ klines \in [Candles -> {"none", "open", "confirmed"}]
         /\ frame \in [Pids -> SUBSET Candles] /\ heard \in [Pids -> SUBSET Candles]
         /\ dataset \in (SUBSET Candles) \cup {Torn} /\ merged \in SUBSET Candles
         /\ download \in [pc : {"idle", "fetch", "truncate", "fill"}, rows : SUBSET Candles]
         /\ Candles \subseteq Nat \ {0}
<1>1. MaxCandle \in Nat
  BY FeedAssumption
<1>. QED  BY <1>1, ServicesAssumption DEF FeedTypeInv, FeedTypeOK, Points, Candles

(* A file of candles is not a torn one.                                     *)
LEMMA CandlesNotTorn == \A S \in SUBSET Candles : S # Torn
<1>1. 0 \notin Candles
  BY DEF Candles
<1>. QED  BY <1>1 DEF Torn

(* Nobody merges or downloads but a listener in the middle of its merge.    *)
LEMMA MergingAlone ==
  ASSUME Single, Apart, NEW l \in Pids, pc[l] \in Merging
  PROVE  /\ download.pc = "idle"
         /\ \A p \in Pids \ {l} : pc[p] \notin Merging /\ pc[p] \notin Connected
BY DEF Single, Apart, Listening, Merging, Connected

(* A listener moves on without touching anything but its point.             *)
LEMMA PointMoves ==
  ASSUME FeedTypeInv, DataInv, NEW l \in Pids, NEW to,
         pc' = [pc EXCEPT ![l] = to],
         UNCHANGED <<clock, klines, dataset, cursor, frame, download, heard, merged>>,
         pc[l] # "fill", to \notin Merging,
         to \in Connected => pc[l] \in Connected,
         pc[l] \in Merging \cup {"dead"} => to = "dead"
  PROVE  DataInv'
<1>1. pc'[l] = to /\ \A p \in Pids \ {l} : pc'[p] = pc[p]
  BY FeedFacts
<1>2. Saving' <=> Saving
  BY <1>1 DEF Saving, Merging
<1>3. FileWhole' /\ DownloadWhole' /\ HeardConfirmed'
  BY <1>2 DEF DataInv, FileWhole, DownloadWhole, HeardConfirmed
<1>4. HeardMerged'
  BY <1>1 DEF DataInv, HeardMerged
<1>5. NothingReopened'
  BY <1>1 DEF DataInv, NothingReopened
<1>6. FramesWhole'
  BY <1>1 DEF DataInv, FramesWhole, Merging
<1>. QED  BY <1>3, <1>4, <1>5, <1>6 DEF DataInv

LEMMA ConnectionKeepsData ==
  ASSUME FeedTypeInv, DataInv, NEW l \in Pids,
         \/ Launch(l) \/ ConnectFails(l) \/ ConnectionError(l) \/ ServerCloses(l)
         \/ OnClose(l) \/ Reconnect(l) \/ GiveUp(l) \/ Report(l) \/ (Die(l) /\ ~ cut')
  PROVE  DataInv'
<1>1. ASSUME NEW from, NEW to, Step(l, from, to),
             from \notin Merging \cup {"dead"}, to \notin Merging,
             to \in Connected => from \in Connected,
             UNCHANGED <<clock, klines, dataset, cursor, frame, download, heard, merged>>
      PROVE  DataInv'
  BY <1>1, PointMoves DEF Step, Merging
<1>2. CASE Launch(l)
  BY <1>1, <1>2 DEF Launch, Merging, Connected
<1>3. CASE ConnectFails(l)
  BY <1>1, <1>3 DEF ConnectFails, Merging, Connected
<1>4. CASE ConnectionError(l)
  BY <1>1, <1>4 DEF ConnectionError, Merging, Connected
<1>5. CASE ServerCloses(l)
  BY <1>1, <1>5 DEF ServerCloses, Merging, Connected
<1>6. CASE OnClose(l)
  BY <1>1, <1>6 DEF OnClose, Merging, Connected
<1>7. CASE Reconnect(l)
  BY <1>1, <1>7 DEF Reconnect, Merging, Connected
<1>8. CASE GiveUp(l)
  BY <1>1, <1>8 DEF GiveUp, Merging, Connected
<1>9. CASE Report(l)
  BY <1>1, <1>9 DEF Report, Merging, Connected
<1>10. CASE Die(l) /\ ~ cut'
  BY <1>10, PointMoves DEF Die, Merging, Connected
<1>. QED  BY <1>2, <1>3, <1>4, <1>5, <1>6, <1>7, <1>8, <1>9, <1>10

(* A new connection hears again at most the last message.                   *)
LEMMA ConnectKeepsData ==
  ASSUME FeedTypeInv, DataInv, NEW l \in Pids, Connect(l)
  PROVE  DataInv'
<1>1. /\ pc'[l] = "idle" /\ pc[l] = "top" /\ \A p \in Pids \ {l} : pc'[p] = pc[p]
      /\ cursor'[l] >= clock - 1 /\ \A p \in Pids \ {l} : cursor'[p] = cursor[p]
      /\ cursor'[l] \in Nat
  BY FeedFacts DEF Connect, Step
<1>2. UNCHANGED <<clock, klines, dataset, frame, download, heard, merged>>
  BY DEF Connect
<1>3. Saving' <=> Saving
  BY <1>1, <1>2 DEF Saving
<1>4. FileWhole' /\ DownloadWhole' /\ HeardConfirmed'
  BY <1>2, <1>3 DEF DataInv, FileWhole, DownloadWhole, HeardConfirmed
<1>5. HeardMerged' /\ FramesWhole'
  BY <1>1, <1>2 DEF DataInv, HeardMerged, FramesWhole, Merging
<1>6. ASSUME NEW p \in Pids, NEW q \in Pids, pc'[p] \in Connected, NEW c \in heard'[q]
      PROVE  2 * c <= cursor'[p] + 1
  <2>1. c \in Nat /\ c \in heard[q]
    BY <1>2, FeedFacts
  <2>2. CASE p = l
    BY <1>1, <2>1, <2>2, FeedFacts DEF DataInv, HeardConfirmed
  <2>3. CASE p # l
    BY <1>1, <1>6, <2>1, <2>3 DEF DataInv, NothingReopened
  <2>. QED  BY <2>2, <2>3
<1>7. NothingReopened'
  BY <1>6 DEF NothingReopened
<1>. QED  BY <1>4, <1>5, <1>7 DEF DataInv

(* The row of a candle heard closed is not opened again.                    *)
LEMMA ReceiveKeepsData ==
  ASSUME FeedTypeInv, DataInv, Single, NEW l \in Pids, Receive(l)
  PROVE  DataInv'
<1>. DEFINE m == cursor[l] + 1
            c == CandleOf(m)
<1>1. /\ m \in 1 .. 2 * MaxCandle /\ m <= clock /\ m \in Nat
      /\ c \in Candles /\ (Confirms(m) => 2 * c = m) /\ (~ Confirms(m) => 2 * c = m + 1)
  <2>1. m \in 1 .. 2 * MaxCandle /\ m <= clock /\ m \in Nat
    BY FeedFacts, FeedAssumption DEF Receive
  <2>. QED  BY <2>1, Messages
<1>2. /\ pc[l] = "idle"
      /\ pc'[l] = IF Confirms(m) THEN "load" ELSE "report"
      /\ \A p \in Pids \ {l} : pc'[p] = pc[p] /\ cursor'[p] = cursor[p] /\ heard'[p] = heard[p]
      /\ cursor'[l] = m
      /\ heard'[l] = IF Confirms(m) THEN heard[l] \cup {c} ELSE heard[l]
      /\ klines' = [klines EXCEPT ![c] = IF Confirms(m) THEN "confirmed" ELSE "open"]
      /\ UNCHANGED <<clock, dataset, frame, download, merged>>
  BY FeedFacts DEF Receive, Step
<1>. HIDE DEF m, c
<1>3. /\ \A p \in Pids \ {l} : pc[p] \notin Connected
      /\ heard[l] \subseteq merged
      /\ \A q \in Pids : \A d \in heard[q] : 2 * d <= m
  <2>1. m = cursor[l] + 1
    BY DEF m
  <2>. QED  BY <1>2, <2>1 DEF Single, Listening, Connected, Merging, DataInv, HeardMerged, NothingReopened
<1>4. Saving' <=> Saving
  BY <1>2 DEF Saving
<1>5. FileWhole' /\ DownloadWhole'
  BY <1>2, <1>4 DEF DataInv, FileWhole, DownloadWhole
<1>6. HeardMerged' /\ FramesWhole'
  BY <1>2, <1>3 DEF DataInv, HeardMerged, FramesWhole, Merging
<1>7. ASSUME NEW q \in Pids, NEW d \in heard'[q]
      PROVE  klines'[d] = "confirmed" /\ 2 * d <= clock /\ 2 * d <= m
  <2>1. CASE d \in heard[q]
    <3>1. d \in Candles /\ klines[d] = "confirmed" /\ 2 * d <= clock /\ 2 * d <= m
      BY <1>3, <2>1, FeedFacts DEF DataInv, HeardConfirmed
    <3>2. ~ Confirms(m) => d # c
      BY <1>1, <3>1, FeedFacts
    <3>. QED  BY <1>1, <1>2, <3>1, <3>2, FeedFacts
  <2>2. CASE d \notin heard[q]
    <3>1. d = c /\ Confirms(m)
      BY <1>2, <1>7, <2>2
    <3>. QED  BY <1>1, <1>2, <3>1, FeedFacts
  <2>. QED  BY <2>1, <2>2
<1>8. HeardConfirmed'
  BY <1>2, <1>7 DEF HeardConfirmed
<1>9. NothingReopened'
  <2>1. ASSUME NEW p \in Pids, NEW q \in Pids, pc'[p] \in Connected, NEW d \in heard'[q]
        PROVE  2 * d <= cursor'[p] + 1
    <3>1. p = l
      BY <1>2, <1>3, <2>1
    <3>2. 2 * d <= m /\ d \in Nat
      <4>1. heard'[q] \subseteq Candles
        BY <1>1, <1>2, FeedFacts
      <4>. QED  BY <1>7, <2>1, <4>1, FeedFacts
    <3>. QED  BY <1>1, <1>2, <3>1, <3>2
  <2>. QED  BY <2>1 DEF NothingReopened
<1>. QED  BY <1>5, <1>6, <1>8, <1>9 DEF DataInv

(* A merge starts from the whole file and adds every confirmed row.         *)
LEMMA MergeKeepsData ==
  ASSUME FeedTypeInv, DataInv, Single, Apart, NEW l \in Pids,
         \/ LoadDataset(l) \/ LoadFails(l) \/ ReadFrame(l)
         \/ TruncateDataset(l) \/ SaveDataset(l)
  PROVE  DataInv'
<1>1. /\ pc[l] \in Merging
      /\ download.pc = "idle" /\ download' = download
      /\ \A p \in Pids \ {l} : pc[p] \notin Merging /\ pc[p] \notin Connected
  <2>1. pc[l] \in Merging /\ download' = download
    BY DEF LoadDataset, LoadFails, ReadFrame, TruncateDataset, SaveDataset, Step, Merging
  <2>. QED  BY <2>1, MergingAlone
<1>2. /\ UNCHANGED <<clock, klines, cursor, heard>>
      /\ \A p \in Pids \ {l} : pc'[p] = pc[p]
  BY FeedFacts DEF LoadDataset, LoadFails, ReadFrame, TruncateDataset, SaveDataset, Step
<1>3. HeardConfirmed' /\ DownloadWhole'
  BY <1>1, <1>2 DEF DataInv, HeardConfirmed, DownloadWhole
<1>4. NothingReopened'
  <2>1. pc[l] \in Connected
    BY <1>1 DEF Connected
  <2>. QED  BY <1>1, <1>2, <2>1 DEF DataInv, NothingReopened
<1>5. ASSUME LoadDataset(l)
      PROVE  FileWhole' /\ HeardMerged' /\ FramesWhole'
  <2>1. /\ pc[l] = "load" /\ pc'[l] = "frame" /\ frame'[l] = dataset
        /\ dataset' = dataset /\ merged' = merged
    BY <1>5, FeedFacts DEF LoadDataset, Step
  <2>2. ~ Saving
    BY <1>1, <2>1 DEF Saving, Merging
  <2>3. merged \subseteq dataset /\ dataset # Torn
    BY <2>2 DEF DataInv, FileWhole
  <2>. QED  BY <1>1, <1>2, <2>1, <2>3 DEF DataInv, FileWhole, HeardMerged, FramesWhole, Merging
<1>6. ASSUME LoadFails(l)
      PROVE  FALSE
  <2>1. pc[l] = "load" /\ dataset = Torn
    BY <1>6 DEF LoadFails, Step
  <2>2. ~ Saving
    BY <1>1, <2>1 DEF Saving, Merging
  <2>. QED  BY <2>1, <2>2 DEF DataInv, FileWhole
<1>7. ASSUME ReadFrame(l)
      PROVE  FileWhole' /\ HeardMerged' /\ FramesWhole'
  <2>1. /\ pc[l] = "frame" /\ pc'[l] = "truncate"
        /\ frame'[l] = frame[l] \cup {c \in Candles : klines[c] = "confirmed"}
        /\ dataset' = dataset /\ merged' = merged
    BY <1>7, FeedFacts DEF ReadFrame, Step
  <2>2. Saving' <=> Saving
    BY <1>1, <1>2, <2>1 DEF Saving
  <2>3. heard[l] \subseteq frame'[l] /\ merged \subseteq frame'[l]
    BY <2>1, FeedFacts DEF DataInv, HeardConfirmed, FramesWhole
  <2>. QED  BY <1>1, <1>2, <2>1, <2>2, <2>3 DEF DataInv, FileWhole, HeardMerged, FramesWhole, Merging
<1>8. ASSUME TruncateDataset(l)
      PROVE  FileWhole' /\ HeardMerged' /\ FramesWhole'
  <2>1. pc[l] = "truncate" /\ pc'[l] = "fill" /\ frame' = frame /\ merged' = merged
    BY <1>8, FeedFacts DEF TruncateDataset, Step
  <2>2. Saving'
    BY <2>1 DEF Saving
  <2>. QED  BY <1>1, <1>2, <2>1, <2>2 DEF DataInv, FileWhole, HeardMerged, FramesWhole, Merging
<1>9. ASSUME SaveDataset(l)
      PROVE  FileWhole' /\ HeardMerged' /\ FramesWhole'
  <2>1. /\ pc[l] = "fill" /\ pc'[l] = "report"
        /\ dataset' = frame[l] /\ merged' = merged \cup frame[l]
    BY <1>9, FeedFacts DEF SaveDataset, Step
  <2>2. /\ merged \subseteq frame[l] /\ heard[l] \subseteq frame[l]
        /\ frame[l] # Torn
    BY <2>1, FeedFacts, CandlesNotTorn DEF DataInv, FramesWhole
  <2>. QED  BY <1>1, <1>2, <2>1, <2>2 DEF DataInv, FileWhole, HeardMerged, FramesWhole, Merging
<1>. QED  BY <1>3, <1>4, <1>5, <1>6, <1>7, <1>8, <1>9 DEF DataInv

(* A download starts from the whole file and only adds to it.               *)
LEMMA DownloadKeepsData ==
  ASSUME FeedTypeInv, DataInv, Apart, Apart', ~ cut', Push \/ DownloadStep
  PROVE  DataInv'
<1>1. UNCHANGED <<pc, cursor, heard, frame>>
  BY DownloadPart
<1>2. ASSUME Push PROVE DataInv'
  <2>1. /\ clock' = clock + 1 /\ clock \in Nat
        /\ UNCHANGED <<klines, dataset, merged, download>>
    BY <1>2, FeedFacts DEF Push
  <2>2. HeardConfirmed'
    <3>1. \A p \in Pids : \A c \in heard[p] : c \in Nat
      BY FeedFacts
    <3>. QED  BY <1>1, <2>1, <3>1 DEF DataInv, HeardConfirmed
  <2>3. FileWhole' /\ HeardMerged' /\ NothingReopened' /\ FramesWhole' /\ DownloadWhole'
    BY <1>1, <2>1 DEF DataInv, FileWhole, Saving, HeardMerged, NothingReopened, FramesWhole,
                      DownloadWhole
  <2>. QED  BY <2>2, <2>3 DEF DataInv
<1>3. ASSUME DownloadStep, UNCHANGED <<klines, clock>>
      PROVE  HeardConfirmed' /\ NothingReopened'
  BY <1>1, <1>3 DEF DataInv, HeardConfirmed, NothingReopened
<1>4. ASSUME merged' = merged
      PROVE  HeardMerged' /\ FramesWhole'
  BY <1>1, <1>4 DEF DataInv, HeardMerged, FramesWhole
<1>5. DownloadStep => UNCHANGED <<klines, clock>>
  BY DEF DownloadStep, StartDownload, FetchHistory, FetchFails, TruncateDownload,
         SaveDownload, DownloadDies
<1>6. ASSUME StartDownload PROVE FileWhole' /\ DownloadWhole' /\ merged' = merged
  <2>1. /\ download.pc = "idle" /\ download' = [pc |-> "fetch", rows |-> dataset]
        /\ dataset' = dataset /\ merged' = merged
    BY <1>6 DEF StartDownload
  <2>2. ~ Saving
    BY <1>1, <2>1 DEF Apart, Saving, Merging
  <2>3. merged \subseteq dataset /\ dataset # Torn
    BY <2>2 DEF DataInv, FileWhole
  <2>. QED  BY <2>1, <2>3 DEF FileWhole, DownloadWhole
<1>7. ASSUME FetchHistory \/ FetchFails PROVE FileWhole' /\ DownloadWhole' /\ merged' = merged
  <2>1. /\ download.pc = "fetch" /\ download'.pc \in {"truncate", "idle"}
        /\ download'.pc # "idle" => download.rows \subseteq download'.rows
        /\ dataset' = dataset /\ merged' = merged
    BY <1>7 DEF FetchHistory, FetchFails
  <2>2. Saving' <=> Saving
    BY <1>1, <2>1 DEF Saving
  <2>. QED  BY <2>1, <2>2 DEF DataInv, FileWhole, DownloadWhole
<1>8. ASSUME TruncateDownload PROVE FileWhole' /\ DownloadWhole' /\ merged' = merged
  <2>1. /\ download.pc = "truncate" /\ download'.pc = "fill" /\ merged' = merged
        /\ download'.rows = download.rows
    BY <1>8, FeedFacts DEF TruncateDownload
  <2>. QED  BY <2>1 DEF DataInv, FileWhole, DownloadWhole, Saving
<1>9. ASSUME SaveDownload PROVE DataInv'
  <2>1. /\ download.pc = "fill" /\ download' = [pc |-> "idle", rows |-> {}]
        /\ dataset' = download.rows /\ merged' = merged \cup download.rows
    BY <1>9 DEF SaveDownload
  <2>2. merged \subseteq download.rows /\ download.rows # Torn
    BY <2>1, FeedFacts, CandlesNotTorn DEF DataInv, DownloadWhole
  <2>3. \A p \in Pids : pc[p] \notin Merging
    BY <2>1 DEF Apart
  <2>4. FileWhole' /\ DownloadWhole' /\ HeardMerged' /\ FramesWhole'
    BY <1>1, <2>1, <2>2, <2>3 DEF DataInv, FileWhole, DownloadWhole, HeardMerged,
                                  FramesWhole, Merging
  <2>. QED  BY <1>3, <1>5, <1>9, <2>4 DEF DataInv, DownloadStep
<1>10. ASSUME DownloadDies PROVE FileWhole' /\ DownloadWhole' /\ merged' = merged
  <2>1. /\ download.pc # "fill" /\ download' = [pc |-> "idle", rows |-> {}]
        /\ dataset' = dataset /\ merged' = merged
    BY <1>10 DEF DownloadDies
  <2>2. Saving' <=> Saving
    BY <1>1, <2>1 DEF Saving
  <2>. QED  BY <2>1, <2>2 DEF DataInv, FileWhole, DownloadWhole
<1>. QED  BY <1>2, <1>3, <1>4, <1>5, <1>6, <1>7, <1>8, <1>9, <1>10 DEF DownloadStep, DataInv

(* A download and a merge that come together are told by mixed.             *)
LEMMA UnmixedStep ==
  ASSUME FeedTypeInv, Unmixed, [FeedNext]_feedVars
  PROVE  Unmixed'
<1>. SUFFICES ASSUME ~ mixed' PROVE Apart'
  BY DEF Unmixed
<1>1. Listeners = Pids /\ pc \in [Pids -> Points]
  BY ServicesAssumption, FeedFacts
<1>2. ASSUME Overlap PROVE Apart'
  BY <1>1, <1>2 DEF Overlap, Apart
<1>3. ASSUME mixed' = mixed,
             download'.pc = "idle" \/ download.pc # "idle",
             \A p \in Pids : pc'[p] \in Merging => pc[p] \in Merging
      PROVE  Apart'
  BY <1>3 DEF Unmixed, Apart
<1>4. CASE UNCHANGED feedVars
  BY <1>3, <1>4, FeedPart
<1>5. CASE Push \/ DownloadStep
  <2>1. CASE StartDownload
    BY <1>2, <2>1 DEF StartDownload
  <2>2. CASE Push \/ FetchHistory \/ FetchFails \/ TruncateDownload \/ SaveDownload \/ DownloadDies
    <3>1. mixed' = mixed /\ pc' = pc /\ (download'.pc = "idle" \/ download.pc # "idle")
      BY <2>2, FeedFacts DEF Push, FetchHistory, FetchFails, TruncateDownload, SaveDownload, DownloadDies, listenerVars
    <3>. QED  BY <1>3, <3>1
  <2>. QED  BY <1>5, <2>1, <2>2 DEF DownloadStep
<1>6. ASSUME NEW l \in Pids, Launch(l) \/ ListenerStep(l) \/ GiveUp(l) \/ Die(l)
      PROVE  Apart'
  <2>1. CASE Receive(l)
    BY <1>2, <2>1 DEF Receive
  <2>2. CASE \/ Launch(l) \/ GiveUp(l) \/ Die(l) \/ Connect(l) \/ ConnectFails(l)
             \/ ConnectionError(l) \/ ServerCloses(l) \/ OnClose(l) \/ Reconnect(l)
    <3>1. mixed' = mixed /\ download' = download
      BY <2>2 DEF Launch, GiveUp, Die, Connect, ConnectFails, ConnectionError, ServerCloses, OnClose, Reconnect
    <3>2. \A p \in Pids : pc'[p] \in Merging => pc[p] \in Merging
      BY <1>1, <2>2 DEF Launch, GiveUp, Die, Connect, ConnectFails, ConnectionError, ServerCloses, OnClose, Reconnect, Step, Merging
    <3>. QED  BY <1>3, <3>1, <3>2
  <2>3. CASE LoadDataset(l) \/ LoadFails(l) \/ ReadFrame(l) \/ TruncateDataset(l)
             \/ SaveDataset(l) \/ Report(l)
    <3>1. mixed' = mixed /\ download' = download
      BY <2>3 DEF LoadDataset, LoadFails, ReadFrame, TruncateDataset, SaveDataset, Report
    <3>2. \A p \in Pids : pc'[p] \in Merging => pc[p] \in Merging
      BY <1>1, <2>3 DEF LoadDataset, LoadFails, ReadFrame, TruncateDataset, SaveDataset, Report, Step, Merging
    <3>. QED  BY <1>3, <3>1, <3>2
  <2>. QED  BY <1>6, <2>1, <2>2, <2>3 DEF ListenerStep
<1>. QED  BY <1>1, <1>4, <1>5, <1>6 DEF FeedNext

-----------------------------------------------------------------------------
(* The invariant of the composition.                                        *)

ServicesInv ==
  /\ ManagerInv /\ FeedTypeInv /\ Matches /\ Told /\ Unmixed
  /\ Orderly => DataInv

LEMMA ServicesInvInit == ServicesInit => ServicesInv
<1>. SUFFICES ASSUME ServicesInit PROVE ServicesInv
  OBVIOUS
<1>1. ManagerInv /\ FeedTypeInv
  BY ManagerInvInit, FeedTypeInit DEF ServicesInit
<1>2. /\ \A p \in Pids : pc[p] = "unborn" /\ heard[p] = {} /\ process[p] = "unused"
      /\ download.pc = "idle" /\ dataset = {} /\ merged = {}
  BY ServicesAssumption DEF ServicesInit, FeedInit, ManagerInit
<1>3. Matches /\ Told
  BY <1>2 DEF Matches, Told, Listening, Up
<1>4. Unmixed
  BY <1>2 DEF Unmixed, Apart
<1>5. DataInv
  <2>1. dataset # Torn
    BY <1>2, CandlesNotTorn
  <2>. QED  BY <1>2, <2>1 DEF DataInv, FileWhole, HeardConfirmed, HeardMerged, NothingReopened,
                              FramesWhole, DownloadWhole, Connected, Merging
<1>. QED  BY <1>1, <1>3, <1>4, <1>5 DEF ServicesInv

(* What made a run disorderly is never forgotten.                           *)
LEMMA OrderlyBefore ==
  ASSUME ManagerTypeOK, FeedTypeInv, [ServicesNext]_serviceVars, Orderly'
  PROVE  Orderly
<1>1. doubtful \in BOOLEAN /\ cut \in BOOLEAN /\ mixed \in BOOLEAN
  BY DEF ManagerTypeOK, FeedTypeInv, FeedTypeOK
<1>2. [ManagerNext]_managerVars /\ [FeedNext]_feedVars
  BY ComposedSteps
<1>3. ~ doubtful
  <2>1. ASSUME NEW s \in Sessions, Paperwork(s) \/ Spawn(s) \/ TaskKill(s)
        PROVE  doubtful => doubtful'
    BY <2>1 DEF Paperwork, Request, ReadState, Probe, ProbeTimesOut, Mark, MarkFill, SpawnFails,
                Terminate, Reread, Truncate, Fill, Abandon, Spawn, TaskKill
  <2>2. ASSUME NEW p \in Pids, Exit(p) \/ Reap(p)
        PROVE  doubtful => doubtful'
    BY <2>2 DEF Exit, Reap
  <2>. QED  BY <1>2, <2>1, <2>2 DEF ManagerNext, managerVars, Orderly
<1>4. ~ cut /\ ~ mixed
  <2>1. CASE UNCHANGED feedVars
    BY <2>1, FeedPart DEF Orderly
  <2>. USE <1>1 DEF Orderly
  <2>2. CASE Push \/ DownloadStep
    <3>1. CASE StartDownload \/ DownloadDies
      BY <3>1 DEF StartDownload, DownloadDies, Overlap
    <3>2. CASE Push \/ FetchHistory \/ FetchFails \/ TruncateDownload \/ SaveDownload
      BY <3>2 DEF Push, FetchHistory, FetchFails, TruncateDownload, SaveDownload
    <3>. QED  BY <2>2, <3>1, <3>2 DEF DownloadStep
  <2>3. ASSUME NEW l \in Listeners, Launch(l) \/ ListenerStep(l) \/ GiveUp(l) \/ Die(l)
        PROVE  ~ cut /\ ~ mixed
    <3>1. CASE Launch(l) \/ GiveUp(l) \/ Die(l)
      BY <3>1 DEF Launch, GiveUp, Die
    <3>2. CASE \/ Connect(l) \/ ConnectFails(l) \/ ConnectionError(l) \/ ServerCloses(l)
               \/ OnClose(l) \/ Reconnect(l)
      BY <3>2 DEF Connect, ConnectFails, ConnectionError, ServerCloses, OnClose, Reconnect
    <3>3. CASE \/ Receive(l) \/ LoadDataset(l) \/ LoadFails(l) \/ ReadFrame(l)
               \/ TruncateDataset(l) \/ SaveDataset(l) \/ Report(l)
      BY <3>3 DEF Receive, LoadDataset, LoadFails, ReadFrame, TruncateDataset, SaveDataset,
                  Report, Overlap
    <3>. QED  BY <2>3, <3>1, <3>2, <3>3 DEF ListenerStep
  <2>. QED  BY <1>2, <2>1, <2>2, <2>3 DEF FeedNext
<1>. QED  BY <1>3, <1>4 DEF Orderly

LEMMA DataStep ==
  ASSUME ServicesInv, [ServicesNext]_serviceVars, Orderly'
  PROVE  DataInv'
<1>1. /\ ManagerTypeOK /\ FeedTypeInv /\ Unmixed /\ Listeners = Pids
      /\ [FeedNext]_feedVars
  BY ComposedSteps, ServicesAssumption DEF ServicesInv, ManagerInv
<1>2. Orderly /\ DataInv
  BY <1>1, OrderlyBefore DEF ServicesInv
<1>3. Single
  BY <1>2 DEF ServicesInv, ManagerInv, Orderly, OnlyUp, Matches, Single
<1>4. Apart /\ Apart' /\ ~ cut'
  <2>1. Unmixed'
    BY <1>1, UnmixedStep
  <2>. QED  BY <1>1, <1>2, <2>1 DEF Unmixed, Orderly
<1>5. CASE UNCHANGED feedVars
  BY <1>2, <1>5, FeedPart
     DEF DataInv, FileWhole, Saving, HeardConfirmed, HeardMerged, NothingReopened, FramesWhole,
         DownloadWhole
<1>6. CASE Push \/ DownloadStep
  BY <1>1, <1>2, <1>4, <1>6, DownloadKeepsData
<1>7. ASSUME NEW l \in Pids, Launch(l) \/ ListenerStep(l) \/ GiveUp(l) \/ Die(l)
      PROVE  DataInv'
  <2>1. CASE Connect(l)
    BY <1>1, <1>2, <2>1, ConnectKeepsData
  <2>2. CASE Receive(l)
    BY <1>1, <1>2, <1>3, <2>2, ReceiveKeepsData
  <2>3. CASE \/ LoadDataset(l) \/ LoadFails(l) \/ ReadFrame(l)
             \/ TruncateDataset(l) \/ SaveDataset(l)
    BY <1>1, <1>2, <1>3, <1>4, <2>3, MergeKeepsData
  <2>4. CASE \/ Launch(l) \/ ConnectFails(l) \/ ConnectionError(l) \/ ServerCloses(l)
             \/ OnClose(l) \/ Reconnect(l) \/ GiveUp(l) \/ Report(l) \/ Die(l)
    BY <1>1, <1>2, <1>4, <2>4, ConnectionKeepsData
  <2>. QED  BY <1>7, <2>1, <2>2, <2>3, <2>4 DEF ListenerStep
<1>. QED  BY <1>1, <1>5, <1>6, <1>7 DEF FeedNext

LEMMA ServicesInvStep == ServicesInv /\ [ServicesNext]_serviceVars => ServicesInv'
<1>. SUFFICES ASSUME ServicesInv, [ServicesNext]_serviceVars PROVE ServicesInv'
  OBVIOUS
<1>1. [ManagerNext]_managerVars /\ [FeedNext]_feedVars /\ ManagerTypeOK
  BY ComposedSteps DEF ServicesInv, ManagerInv
<1>2. ManagerInv' /\ FeedTypeInv'
  BY <1>1, ManagerInvStep, FeedTypeStep DEF ServicesInv
<1>3. Matches' /\ Told'
  BY <1>1, MatchesStep, ToldStep DEF ServicesInv
<1>4. Unmixed'
  BY <1>1, UnmixedStep DEF ServicesInv
<1>5. Orderly' => DataInv'
  BY DataStep
<1>. QED  BY <1>2, <1>3, <1>4, <1>5 DEF ServicesInv

LEMMA ServicesInvHolds == ServicesSpec => []ServicesInv
<1>. QED  BY ServicesInvInit, ServicesInvStep, PTL DEF ServicesSpec

-----------------------------------------------------------------------------
(* The theorems.                                                            *)

(* Every step of a managed listener keeps the types of both components.     *)
THEOREM ServicesTypes == ServicesSpec => []ServicesTypeOK
<1>1. ServicesInv => ServicesTypeOK
  BY DEF ServicesInv, ManagerInv, FeedTypeInv, ServicesTypeOK
<1>. QED  BY <1>1, ServicesInvHolds, PTL

(* Between requests that did not overlap, the state file names every process *)
(* that runs or is dying, and says "not running" only when nothing runs on  *)
(* (ui/service_manager.py): a service cannot be lost sight of by any        *)
(* sequence of starts, stops, restarts, failures and exits.                 *)
THEOREM RecordIsReal == ServicesSpec => []RecordedIsReal
<1>1. ServicesInv => RecordedIsReal
  BY ManagerInvRecords DEF ServicesInv
<1>. QED  BY <1>1, ServicesInvHolds, PTL

(* Stops, restarts and reconnects between orderly requests cost no candle of *)
(* the dataset file (data/realtime.py, merge_realtime_ohlcv_file), however  *)
(* many listeners and downloads follow each other.                          *)
THEOREM DatasetKept == ServicesSpec => []DatasetWhole
<1>1. ServicesInv => DatasetWhole
  <2>. SUFFICES ASSUME ServicesInv, Orderly
                PROVE  /\ ~ Saving => dataset # Torn /\ merged \subseteq dataset
                       /\ \A p \in Pids : \A c \in heard[p] : klines[c] = "confirmed"
                       /\ \A p \in Pids : pc[p] = "idle" => heard[p] \subseteq merged
    BY DEF DatasetWhole
  <2>1. DataInv
    BY DEF ServicesInv
  <2>. QED  BY <2>1 DEF DataInv, FileWhole, HeardConfirmed, HeardMerged, Merging
<1>. QED  BY <1>1, ServicesInvHolds, PTL

(* The status row is never left at a live or reconnecting state by the       *)
(* listener that gave up last (data/realtime.py, run_forever).              *)
THEOREM EndIsTold == ServicesSpec => []EndedIsTold
<1>1. ServicesInv => EndedIsTold
  BY DEF ServicesInv, Told, EndedIsTold
<1>. QED  BY <1>1, ServicesInvHolds, PTL

(* The composition adds no behaviour to either component: what is proved of  *)
(* the manager alone, or of the feed alone, holds of the managed listener.  *)
THEOREM ServicesComposeParts == ServicesSpec => ManagerSpec /\ FeedSpec
<1>1. ServicesInit => ManagerInit /\ FeedInit
  BY DEF ServicesInit
<1>2. ServicesInv /\ [ServicesNext]_serviceVars => [ManagerNext]_managerVars /\ [FeedNext]_feedVars
  BY ComposedSteps DEF ServicesInv, ManagerInv
<1>. QED  BY <1>1, <1>2, ServicesInvHolds, PTL DEF ServicesSpec, ManagerSpec, FeedSpec
===============================================================================
