---------------------------- MODULE LocalServices ----------------------------
(***************************************************************************)
(* The realtime listener as a managed service: ServiceManager starts, stops *)
(* and restarts it, RealtimeFeed is what its process does.  The pids of the *)
(* manager are the listeners of the feed.  A process told to end by SIGTERM *)
(* goes on until it does, at any step.                                     *)
(***************************************************************************)
EXTENDS ServiceManager, RealtimeFeed

ASSUME ServicesAssumption == Listeners = Pids

serviceVars == <<managerVars, feedVars>>

StartListener(s) ==
    /\ Spawn(s)
    /\ Launch(started + 1)

\* taskkill ends the listener of the pid, wherever it is.
KillListener(s) ==
    /\ TaskKill(s)
    /\ IF process' = process THEN UNCHANGED feedVars
       ELSE Die(session[s].note.pid)

Listen(p) ==
    /\ process[p] \in {"service", "dying"}
    /\ ListenerStep(p)
    /\ UNCHANGED managerVars

ListenerReturns(p) == GiveUp(p) /\ Exit(p)

ListenerDies(p) == Die(p) /\ Exit(p)

ServicesInit == ManagerInit /\ FeedInit

ServicesNext ==
    \/ \E s \in Sessions :
           \/ Paperwork(s) /\ UNCHANGED feedVars
           \/ StartListener(s) \/ KillListener(s)
    \/ \E p \in Pids :
           \/ Listen(p) \/ ListenerReturns(p) \/ ListenerDies(p)
           \/ Reap(p) /\ UNCHANGED feedVars
    \/ (Push \/ DownloadStep) /\ UNCHANGED managerVars

ServicesSpec == ServicesInit /\ [][ServicesNext]_serviceVars

-----------------------------------------------------------------------------
(* Properties.                                                             *)

ServicesTypeOK == ManagerTypeOK /\ FeedTypeOK

\* No two requests overlapped, no probe timed out, no save was cut short and no
\* download overlapped a merge.
Orderly == ~ doubtful /\ ~ cut /\ ~ mixed

Saving == download.pc = "fill" \/ \E p \in Pids : pc[p] = "fill"

\* Whatever is stopped, restarted and reconnected in an orderly way: the dataset
\* file is whole whenever nobody is saving it, it has lost no candle that was
\* ever saved, no confirmed row has gone back to unconfirmed, and a listener
\* that waits for its next message has merged every candle it heard confirmed.
DatasetWhole ==
    Orderly =>
        /\ ~ Saving => dataset # Torn /\ merged \subseteq dataset
        /\ \A p \in Pids : \A c \in heard[p] : klines[c] = "confirmed"
        /\ \A p \in Pids : pc[p] = "idle" => heard[p] \subseteq merged

\* A listener that gave up has left word: while requests do not overlap and no
\* other process was spawned since, the status row the dashboard shows is never
\* that of a live or a reconnecting one.
EndedIsTold ==
    \A p \in Pids :
        pc[p] = "ended" /\ p = started /\ ~ doubtful
        => feedStatus \in {"closed", "error_stopped"}
===============================================================================
