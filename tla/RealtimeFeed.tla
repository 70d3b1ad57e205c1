----------------------------- MODULE RealtimeFeed -----------------------------
(***************************************************************************)
(* The realtime market data listener (src/data/realtime.py) and the two    *)
(* writers of the historical dataset file: the listener's merge and the    *)
(* OKX download script (src/data/okx_downloader.py).                       *)
(*                                                                         *)
(* Time is the number of messages the exchange has pushed on the merged    *)
(* channel: message 2c - 1 carries candle c still open, message 2c carries *)
(* it closed (confirm = 1).  A row of the database is replaced by each     *)
(* message, a candle enters the dataset when it is confirmed.  The status  *)
(* row is one for all listeners.                                           *)
(***************************************************************************)
EXTENDS Integers, FiniteSets

CONSTANTS
    Listeners,      \* processes running run_okx_realtime_listener.py
    MaxCandle,      \* bound: candles the exchange produces
    MaxReconnects,  \* realtime.max_reconnects, or --reconnects
    MaxDownloads    \* bound: runs of download_okx_ohlcv.py

ASSUME FeedAssumption ==
    MaxCandle \in Nat /\ MaxReconnects \in Nat /\ MaxDownloads \in Nat

Candles == 1..MaxCandle
\* A truncated file, told from every set of candles.
Torn == {0}

\* parse_okx_candle_message: the candle and the confirm flag of a message.
CandleOf(message) == (message + 1) \div 2
Confirms(message) == message % 2 = 0
ClosedBy(time) == {c \in Candles : 2 * c <= time}

VARIABLES
    clock,      \* messages pushed so far
    klines,     \* table realtime_klines: candle -> "none", "open", "confirmed"
    dataset,    \* the dataset file: the candles in it, or Torn
    feedStatus, \* the status row
    pc,         \* listener -> the step it is at
    attempts,   \* listener -> connections tried
    failed,     \* listener -> last_error_info is set
    cursor,     \* listener -> the last message it handled
    frame,      \* listener -> candles held in memory while merging
    download,   \* the download script: its step and what it holds
    downloads,
    heard,      \* history: confirmed candles a listener has handled
    merged,     \* history: candles a finished save has put into the dataset
    cut,        \* history: a process died while it was saving
    mixed       \* history: a download overlapped a merge

listenerVars == <<pc, attempts, failed, cursor, frame, heard>>
feedVars == <<clock, klines, dataset, feedStatus, listenerVars, download,
              downloads, merged, cut, mixed>>

Merging == {"load", "frame", "truncate", "fill"}
Connected == {"idle", "report"} \cup Merging
Listening(l) == pc[l] \notin {"unborn", "ended", "dead"}

Step(l, from, to) == pc[l] = from /\ pc' = [pc EXCEPT ![l] = to]

\* A download and a merge work on the file at the same time.
Overlap == mixed' = (mixed \/ (/\ download'.pc # "idle"
                               /\ \E l \in Listeners : pc'[l] \in Merging))

-----------------------------------------------------------------------------
(* The exchange.                                                           *)

Push ==
    /\ clock < 2 * MaxCandle
    /\ clock' = clock + 1
    /\ UNCHANGED <<klines, dataset, feedStatus, listenerVars, download, downloads,
                   merged, cut, mixed>>

-----------------------------------------------------------------------------
(* Connecting and losing the connection.                                   *)

Launch(l) ==
    /\ Step(l, "unborn", "top")
    /\ UNCHANGED <<clock, klines, dataset, feedStatus, attempts, failed, cursor, frame,
                   download, downloads, heard, merged, cut, mixed>>

\* on_open; the exchange answers a subscription with the state of the current
\* candle, or with its next change.
Connect(l) ==
    /\ Step(l, "top", "idle")
    /\ attempts' = [attempts EXCEPT ![l] = @ + 1]
    /\ failed' = [failed EXCEPT ![l] = FALSE]
    /\ cursor' \in {[cursor EXCEPT ![l] = m] : m \in {clock} \cup ({clock - 1} \cap Nat)}
    /\ feedStatus' = "connected"
    /\ UNCHANGED <<clock, klines, dataset, frame, download, downloads, heard, merged, cut, mixed>>

\* run_forever ends with an error before the connection is open.
ConnectFails(l) ==
    /\ Step(l, "top", "after")
    /\ attempts' = [attempts EXCEPT ![l] = @ + 1]
    /\ failed' = [failed EXCEPT ![l] = TRUE]
    /\ feedStatus' = "error"
    /\ UNCHANGED <<clock, klines, dataset, cursor, frame, download, downloads, heard,
                   merged, cut, mixed>>

\* on_error, before on_close.
ConnectionError(l) ==
    /\ Step(l, "idle", "closing")
    /\ failed' = [failed EXCEPT ![l] = TRUE]
    /\ feedStatus' = "error"
    /\ UNCHANGED <<clock, klines, dataset, attempts, cursor, frame, download, downloads,
                   heard, merged, cut, mixed>>

ServerCloses(l) ==
    /\ Step(l, "idle", "closing")
    /\ UNCHANGED <<clock, klines, dataset, feedStatus, attempts, failed, cursor, frame,
                   download, downloads, heard, merged, cut, mixed>>

OnClose(l) ==
    /\ Step(l, "closing", "after")
    /\ feedStatus' = IF failed[l] THEN "closed_after_error" ELSE "closed"
    /\ UNCHANGED <<clock, klines, dataset, attempts, failed, cursor, frame, download,
                   downloads, heard, merged, cut, mixed>>

\* Mutant of Reconnect: one connection more than the budget.
ReconnectOnceMore(l) ==
    /\ attempts[l] <= MaxReconnects + 1
    /\ Step(l, "after", "top")
    /\ feedStatus' = "reconnecting"
    /\ UNCHANGED <<clock, klines, dataset, attempts, failed, cursor, frame, download,
                   downloads, heard, merged, cut, mixed>>

\* Attempts are counted over the life of the process, whatever worked between.
Reconnect(l) ==
    /\ attempts[l] <= MaxReconnects
    /\ Step(l, "after", "top")
    /\ feedStatus' = "reconnecting"
    /\ UNCHANGED <<clock, klines, dataset, attempts, failed, cursor, frame, download,
                   downloads, heard, merged, cut, mixed>>

\* Mutant of GiveUp: reconnecting is reported before the budget is looked at.
GiveUpReconnecting(l) ==
    /\ attempts[l] > MaxReconnects
    /\ Step(l, "after", "ended")
    /\ feedStatus' = IF failed[l] THEN "error_stopped" ELSE "reconnecting"
    /\ UNCHANGED <<clock, klines, dataset, attempts, failed, cursor, frame, download,
                   downloads, heard, merged, cut, mixed>>

\* The listener returns and its process ends.
GiveUp(l) ==
    /\ attempts[l] > MaxReconnects
    /\ Step(l, "after", "ended")
    /\ feedStatus' = IF failed[l] THEN "error_stopped" ELSE feedStatus
    /\ UNCHANGED <<clock, klines, dataset, attempts, failed, cursor, frame, download,
                   downloads, heard, merged, cut, mixed>>

\* A signal or a crash, anywhere; the status row stays as it is.
Die(l) ==
    /\ Listening(l)
    /\ pc' = [pc EXCEPT ![l] = "dead"]
    /\ cut' = (cut \/ pc[l] = "fill")
    /\ UNCHANGED <<clock, klines, dataset, feedStatus, attempts, failed, cursor, frame,
                   download, downloads, heard, merged, mixed>>

-----------------------------------------------------------------------------
(* Messages (on_message).                                                  *)

\* upsert_klines: the row takes the message's confirm flag, whatever it had.
Receive(l) ==
    LET message == cursor[l] + 1
        c == CandleOf(message)
    IN  /\ cursor[l] < clock
        /\ Step(l, "idle", IF Confirms(message) THEN "load" ELSE "report")
        /\ cursor' = [cursor EXCEPT ![l] = message]
        /\ klines' = [klines EXCEPT ![c] = IF Confirms(message) THEN "confirmed" ELSE "open"]
        /\ heard' = [heard EXCEPT ![l] = IF Confirms(message) THEN @ \cup {c} ELSE @]
        /\ UNCHANGED <<clock, dataset, feedStatus, attempts, failed, frame, download,
                       downloads, merged, cut>>
        /\ Overlap

\* merge_realtime_ohlcv_file reads the file ...
LoadDataset(l) ==
    /\ dataset # Torn
    /\ Step(l, "load", "frame")
    /\ frame' = [frame EXCEPT ![l] = dataset]
    /\ UNCHANGED <<clock, klines, dataset, feedStatus, attempts, failed, cursor, download,
                   downloads, heard, merged, cut, mixed>>

\* ... which raises when it is torn: on_error is told and the connection goes on.
LoadFails(l) ==
    /\ dataset = Torn
    /\ Step(l, "load", "idle")
    /\ failed' = [failed EXCEPT ![l] = TRUE]
    /\ feedStatus' = "error"
    /\ UNCHANGED <<clock, klines, dataset, attempts, cursor, frame, download, downloads,
                   heard, merged, cut, mixed>>

\* Mutant of ReadFrame: candles still open are merged and closed ones are not.
ReadFrameOpen(l) ==
    /\ Step(l, "frame", "truncate")
    /\ frame' = [frame EXCEPT ![l] = @ \cup {c \in Candles : klines[c] = "open"}]
    /\ UNCHANGED <<clock, klines, dataset, feedStatus, attempts, failed, cursor, download,
                   downloads, heard, merged, cut, mixed>>

\* ... then the confirmed rows, whose values win (merge_ohlcv keeps the last).
ReadFrame(l) ==
    /\ Step(l, "frame", "truncate")
    /\ frame' = [frame EXCEPT ![l] = @ \cup {c \in Candles : klines[c] = "confirmed"}]
    /\ UNCHANGED <<clock, klines, dataset, feedStatus, attempts, failed, cursor, download,
                   downloads, heard, merged, cut, mixed>>

\* save_parquet truncates the file and writes it.
TruncateDataset(l) ==
    /\ Step(l, "truncate", "fill")
    /\ dataset' = Torn
    /\ UNCHANGED <<clock, klines, feedStatus, attempts, failed, cursor, frame, download,
                   downloads, heard, merged, cut, mixed>>

SaveDataset(l) ==
    /\ Step(l, "fill", "report")
    /\ dataset' = frame[l]
    /\ merged' = merged \cup frame[l]
    /\ frame' = [frame EXCEPT ![l] = {}]
    /\ UNCHANGED <<clock, klines, feedStatus, attempts, failed, cursor, download,
                   downloads, heard, cut, mixed>>

Report(l) ==
    /\ Step(l, "report", "idle")
    /\ feedStatus' = "receiving"
    /\ UNCHANGED <<clock, klines, dataset, attempts, failed, cursor, frame, download,
                   downloads, heard, merged, cut, mixed>>

-----------------------------------------------------------------------------
(* The download script (update_okx_ohlcv_file).                            *)

\* The file is read first; a torn file ends the script.
StartDownload ==
    /\ download.pc = "idle" /\ downloads < MaxDownloads
    /\ dataset # Torn
    /\ downloads' = downloads + 1
    /\ download' = [pc |-> "fetch", rows |-> dataset]
    /\ UNCHANGED <<clock, klines, dataset, feedStatus, listenerVars, merged, cut>>
    /\ Overlap

\* Pages back from the newest candle; history-candles holds closed ones only.
FetchHistory ==
    /\ download.pc = "fetch"
    /\ download' = [pc |-> "truncate", rows |-> download.rows \cup ClosedBy(clock)]
    /\ UNCHANGED <<clock, klines, dataset, feedStatus, listenerVars, downloads, merged, cut, mixed>>

\* A request that keeps failing ends the script before it has written.
FetchFails ==
    /\ download.pc = "fetch"
    /\ download' = [pc |-> "idle", rows |-> {}]
    /\ UNCHANGED <<clock, klines, dataset, feedStatus, listenerVars, downloads, merged, cut, mixed>>

TruncateDownload ==
    /\ download.pc = "truncate"
    /\ download' = [download EXCEPT !.pc = "fill"]
    /\ dataset' = Torn
    /\ UNCHANGED <<clock, klines, feedStatus, listenerVars, downloads, merged, cut, mixed>>

SaveDownload ==
    /\ download.pc = "fill"
    /\ download' = [pc |-> "idle", rows |-> {}]
    /\ dataset' = download.rows
    /\ merged' = merged \cup download.rows
    /\ UNCHANGED <<clock, klines, feedStatus, listenerVars, downloads, cut, mixed>>

\* The script is killed.
DownloadDies ==
    /\ download.pc # "idle"
    /\ download' = [pc |-> "idle", rows |-> {}]
    /\ cut' = (cut \/ download.pc = "fill")
    /\ UNCHANGED <<clock, klines, dataset, feedStatus, listenerVars, downloads, merged, mixed>>

-----------------------------------------------------------------------------
(* Specification.                                                          *)

\* What a listener does while its process runs.
ListenerStep(l) ==
    \/ Connect(l) \/ ConnectFails(l) \/ ConnectionError(l) \/ ServerCloses(l)
    \/ OnClose(l) \/ Reconnect(l)
    \/ Receive(l) \/ LoadDataset(l) \/ LoadFails(l) \/ ReadFrame(l)
    \/ TruncateDataset(l) \/ SaveDataset(l) \/ Report(l)

DownloadStep ==
    \/ StartDownload \/ FetchHistory \/ FetchFails \/ TruncateDownload
    \/ SaveDownload \/ DownloadDies

FeedInit ==
    /\ clock = 0
    /\ klines = [c \in Candles |-> "none"]
    /\ dataset = {}
    /\ feedStatus = "none"
    /\ pc = [l \in Listeners |-> "unborn"]
    /\ attempts = [l \in Listeners |-> 0]
    /\ failed = [l \in Listeners |-> FALSE]
    /\ cursor = [l \in Listeners |-> 0]
    /\ frame = [l \in Listeners |-> {}]
    /\ download = [pc |-> "idle", rows |-> {}]
    /\ downloads = 0
    /\ heard = [l \in Listeners |-> {}]
    /\ merged = {} /\ cut = FALSE /\ mixed = FALSE

FeedNext ==
    \/ Push \/ DownloadStep
    \/ \E l \in Listeners : Launch(l) \/ ListenerStep(l) \/ GiveUp(l) \/ Die(l)

FeedSpec == FeedInit /\ [][FeedNext]_feedVars

-----------------------------------------------------------------------------
(* Properties.                                                             *)

FeedTypeOK ==
    /\ clock \in 0..(2 * MaxCandle)
    /\ klines \in [Candles -> {"none", "open", "confirmed"}]
    /\ dataset \in (SUBSET Candles) \cup {Torn}
    /\ feedStatus \in {"none", "connected", "receiving", "error", "closed",
                       "closed_after_error", "reconnecting", "error_stopped"}
    /\ pc \in [Listeners -> Connected \cup {"unborn", "top", "closing", "after", "ended", "dead"}]
    /\ attempts \in [Listeners -> 0..(MaxReconnects + 1)]
    /\ failed \in [Listeners -> BOOLEAN]
    /\ cursor \in [Listeners -> 0..(2 * MaxCandle)]
    /\ frame \in [Listeners -> SUBSET Candles]
    /\ download \in [pc : {"idle", "fetch", "truncate", "fill"}, rows : SUBSET Candles]
    /\ downloads \in 0..MaxDownloads
    /\ heard \in [Listeners -> SUBSET Candles]
    /\ merged \in SUBSET Candles /\ cut \in BOOLEAN /\ mixed \in BOOLEAN
===============================================================================
