--------------------------- MODULE CandleHistory ---------------------------
(***************************************************************************)
(* The candle file every research script starts from and the downloaders   *)
(* that extend it: data/ohlcv_downloader.py (Binance and CCXT, paging       *)
(* forwards from the last stored bar), data/okx_downloader.py (paging       *)
(* backwards from the newest bar) and the audit of data/quality.py.         *)
(*                                                                          *)
(* Bars are numbered from 1; bar "now" is the one the exchange is still     *)
(* building.  Of a stored candle only one thing matters here: whether its   *)
(* values are final ("closed") or were read while the bar was being built   *)
(* ("open").  The clock runs between any two requests.                      *)
(***************************************************************************)
EXTENDS Integers, FiniteSets, FiniteSetsExt

CONSTANTS
  LastBar,      \* the bars of the run: 1 .. LastBar
  PageLimit,    \* limit: rows per request
  MaxBatches,   \* max_batches: requests per update
  Overlap       \* overlap_bars of an incremental OKX update

(* config.yaml asks for 1000 pages of 100 rows, some ten times the history: *)
(* an update never ends because it ran out of pages.                        *)
ASSUME PagesCoverHistory ==
  /\ LastBar \in Nat \ {0, 1}
  /\ {PageLimit, MaxBatches} \subseteq Nat \ {0}
  /\ Overlap \in Nat
  /\ MaxBatches * PageLimit >= LastBar

VARIABLES
  feed,     \* the configured downloader; it does not change during a run
  now,      \* the bar being built
  file,     \* the parquet file: bar -> "closed" or "open"
  fetch,    \* the update in progress, or Idle
  audit     \* the status of the last data quality report
candleVars == <<feed, now, file, fetch, audit>>

(* binance and ccxt share their paging; okx has two endpoints and two modes *)
Feeds == [source : {"forwards"}, endpoint : {"klines"}, full : {FALSE}]
         \cup [source : {"okx"}, endpoint : {"candles", "history-candles"},
               full : BOOLEAN]

Idle == [phase |-> "idle"]
Stored == DOMAIN file
FirstStored == Min(Stored)
LastStored == Max(Stored)

-----------------------------------------------------------------------------
(* The exchange.  history-candles serves finished bars only.                *)
Served == 1 .. IF feed.endpoint = "history-candles" THEN now - 1 ELSE now
Reading(bars) == [b \in bars |-> IF b < now THEN "closed" ELSE "open"]

Oldest(bars) == {b \in bars : Cardinality({c \in bars : c <= b}) <= PageLimit}
Newest(bars) == {b \in bars : Cardinality({c \in bars : c >= b}) <= PageLimit}

-----------------------------------------------------------------------------
(* merge_ohlcv: of two rows with one timestamp the new one is kept.         *)
\* Mutant of MergeOhlcv: the row already stored is kept.
MergeKeepingOld(existing, new) ==
  [b \in DOMAIN existing \cup DOMAIN new |->
     IF b \in DOMAIN existing THEN existing[b] ELSE new[b]]

MergeOhlcv(existing, new) ==
  [b \in DOMAIN existing \cup DOMAIN new |->
     IF b \in DOMAIN new THEN new[b] ELSE existing[b]]

(* Where the update starts: the bar after the last one for the forward      *)
(* downloaders, a few bars before it, or the configured start, for OKX.     *)
Since ==
  IF Stored = {} THEN 1
  ELSE IF feed.source = "forwards" THEN LastStored + 1
  ELSE IF feed.full THEN 1
  ELSE Max({1, LastStored - Overlap})

BeginUpdate ==
  /\ fetch = Idle
  /\ fetch' = [phase |-> "paging", since |-> Since, rows |-> <<>>,
               cursor |-> IF feed.source = "forwards" THEN Since ELSE LastBar + 1,
               batches |-> 0]
  /\ UNCHANGED <<feed, now, file, audit>>

Paging == fetch # Idle /\ fetch.phase = "paging" /\ fetch.batches < MaxBatches

(* One request.  The loop ends on an empty or short page.                   *)
ForwardPage ==
  /\ Paging /\ feed.source = "forwards"
  /\ LET page == Oldest({b \in Served : b >= fetch.cursor})
         more == Cardinality(page) = PageLimit
     IN fetch' = [fetch EXCEPT
          !.rows = MergeOhlcv(@, Reading(page)),
          !.cursor = IF page = {} THEN @ ELSE Max(page) + 1,
          !.batches = @ + 1,
          !.phase = IF more THEN "paging" ELSE "fetched"]
  /\ UNCHANGED <<feed, now, file, audit>>

(* The first request has no cursor and gets the newest bars; the cursor of  *)
(* the others asks for bars older than the oldest one seen.  The loop also  *)
(* ends once the start has been reached.                                    *)
BackwardPage ==
  /\ Paging /\ feed.source = "okx"
  /\ LET page == Newest({b \in Served : b < fetch.cursor})
         more == /\ Cardinality(page) = PageLimit
                 /\ Min(page) > fetch.since
     IN fetch' = [fetch EXCEPT
          !.rows = MergeOhlcv(@, Reading(page)),
          !.cursor = IF page = {} THEN @ ELSE Min(page),
          !.batches = @ + 1,
          !.phase = IF more THEN "paging" ELSE "fetched"]
  /\ UNCHANGED <<feed, now, file, audit>>

(* Every attempt of a request failed: the exception ends the script.        *)
RequestFails ==
  /\ Paging
  /\ fetch' = Idle
  /\ UNCHANGED <<feed, now, file, audit>>

(* The rows from the start on are merged into the file and it is rewritten. *)
SaveRows ==
  /\ fetch # Idle
  /\ fetch.phase = "fetched" \/ fetch.batches = MaxBatches
  /\ file' = MergeOhlcv(file, [b \in {c \in DOMAIN fetch.rows : c >= fetch.since}
                                 |-> fetch.rows[b]])
  /\ fetch' = Idle
  /\ UNCHANGED <<feed, now, audit>>

-----------------------------------------------------------------------------
(* run_ohlcv_quality_checks on the file: an empty file and a missing bar    *)
(* between the first and the last row are critical.  The checks of prices   *)
(* and volumes are of values this model does not keep; a bar that was not   *)
(* final looks like any other.                                              *)
MissingCandles == FirstStored .. LastStored \ (Stored \cup {LastStored})

QualityStatus ==
  IF Stored = {} \/ MissingCandles # {} THEN "fail" ELSE "pass"

AuditFile ==
  /\ fetch = Idle /\ Stored # {}
  /\ audit' = QualityStatus
  /\ UNCHANGED <<feed, now, file, fetch>>

BarCloses ==
  /\ now < LastBar
  /\ now' = now + 1
  /\ UNCHANGED <<feed, file, fetch, audit>>

-----------------------------------------------------------------------------
CandleInit ==
  /\ feed \in Feeds
  /\ now \in 1 .. 2
  /\ file = <<>>
  /\ fetch = Idle
  /\ audit = "none"

CandleNext ==
  \/ BeginUpdate \/ ForwardPage \/ BackwardPage \/ RequestFails \/ SaveRows
  \/ AuditFile \/ BarCloses

(* The parts of the file downstream scripts take for granted: no bar is     *)
(* missing between its first and last row, an audit never finds a hole the  *)
(* downloader left, and, with the OKX downloader, only the last row can hold *)
(* values of an unfinished bar, whatever the clock did between the pages.   *)
(* (A forward downloader starts after the last row and never reads it       *)
(* again: there the third part does not hold.)                              *)
CandleFileSound ==
  /\ Stored # {} => Stored = FirstStored .. LastStored
  /\ audit # "fail"
  /\ feed.source = "okx" =>
       \A b \in Stored : file[b] = "open" =>
         b = LastStored /\ feed.endpoint = "candles"
=============================================================================
