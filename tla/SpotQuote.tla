------------------------------ MODULE SpotQuote ------------------------------
(***************************************************************************)
(* update_akshare --target spot_quote (file pipeline/spot_quote.py): the   *)
(* last quotes of all codes are stored as the daily bars of one day.  The  *)
(* day is resolved from the local calendar when the plan is made; the      *)
(* quotes are those the market shows when they are fetched.                *)
(*                                                                         *)
(* A bar is the trading day whose close it is, or Live for a price of a    *)
(* session that goes on.  Eastmoney is asked first, Sina if that fails.    *)
(***************************************************************************)
EXTENDS Integers, FiniteSetsExt

CONSTANTS
    SpotDays,       \* bound: the calendar days, from 1
    TradingDays,
    SpotCodes,
    DelistedCodes,  \* of akshare_cn_stock_delist_sh
    MaxSpotRuns     \* bound: runs planned

Live == SpotDays + 1
NoBar == SpotDays + 2
NoEnd == 0          \* no --end
NoTradeDate == 0

ASSUME SpotAssumption ==
    /\ SpotDays \in Nat \ {0} /\ TradingDays \subseteq 1..SpotDays
    /\ 1 \in TradingDays /\ DelistedCodes \subseteq SpotCodes
    /\ MaxSpotRuns \in Nat

VARIABLES
    clock,          \* [day, part], part 1 before 08:00, 2 before 18:00, 3 after
    calendarTo,     \* the last day of baostock_cn_trading_calendar, 0 if empty
    bars,           \* akshare_cn_stock_daily_bar_unadjusted
    spotDone,       \* the days with a successful checkpoint of the Eastmoney snapshot
    spotAt,         \* the run: "idle", "planned", "fallback", "storing"
    spotRun,        \* its [date, source, quote, rest], the quote from the plan on
    spotRuns,       \* how many were planned
    excused,        \* history: the days whose bars may be closes of another one
    exposed         \* history: the days whose bars may be prices of a session

spotVars == <<clock, calendarTo, bars, spotDone, spotAt, spotRun, spotRuns, excused,
              exposed>>

NoRun == [date |-> NoTradeDate, source |-> "none", quote |-> NoBar, rest |-> {}]

SpotInit ==
    /\ clock = [day |-> 1, part |-> 3] /\ calendarTo = 0
    /\ bars = [c \in SpotCodes |-> [d \in 1..SpotDays |-> NoBar]]
    /\ spotDone = {} /\ excused = {} /\ exposed = {}
    /\ spotAt = "idle" /\ spotRun = NoRun /\ spotRuns = 0

\* What the market shows: the price of the session, or the last close.
Quoted ==
    LET past == {d \in TradingDays : d < clock.day \/ (d = clock.day /\ clock.part = 3)} IN
    IF clock.part = 2 /\ clock.day \in TradingDays THEN Live
    ELSE IF past = {} THEN NoBar ELSE Max(past)

-----------------------------------------------------------------------------
(* Plan                                                                    *)

KnownTradingDays == {d \in TradingDays : d <= calendarTo}

\* Mutant: no cutoff.
CandidateToday == clock.day

\* default_candidate_date
CandidateDate == IF clock.part = 3 THEN clock.day ELSE clock.day - 1

\* _ensure_spot_quote_close_window: out of the window only if the calendar has no row
\* that says today is a trading day.
WindowOpen == clock.part # 2 \/ clock.day \notin KnownTradingDays

\* _resolve_trade_date; there is none if it raises.
TradeDate(end) ==
    LET candidate == IF end = NoEnd THEN CandidateDate ELSE end
        before == {d \in KnownTradingDays : d <= candidate}
    IN CASE candidate \in KnownTradingDays -> candidate
         [] candidate \notin KnownTradingDays /\ end # NoEnd /\ calendarTo = 0 -> candidate
         [] OTHER -> IF before = {} THEN NoTradeDate ELSE Max(before)

\* should_skip_checkpoint; the snapshot it looks for is written before and stays.
SpotSkipped(date, force) == ~force /\ date \in spotDone

\* The calendar lacks a trading day up to the candidate.
CalendarBehind == \E d \in TradingDays : calendarTo < d /\ d <= CandidateDate

\* A session goes on and the calendar lacks it: the window looks open.
SessionUnlisted == clock.part = 2 /\ clock.day \in TradingDays /\ calendarTo < clock.day

SpotPlan(end, force) ==
    /\ spotAt = "idle" /\ WindowOpen
    /\ spotRuns < MaxSpotRuns /\ spotRuns' = spotRuns + 1
    /\ LET date == TradeDate(end) IN
       /\ date # NoTradeDate /\ ~SpotSkipped(date, force)
       /\ spotAt' = "planned"
       /\ spotRun' = [NoRun EXCEPT !.date = date, !.quote = Quoted]
       /\ excused' = IF CalendarBehind \/ end \notin {NoEnd, Quoted}
                     THEN excused \cup {date} ELSE excused
       /\ exposed' = IF SessionUnlisted THEN exposed \cup {date} ELSE exposed
    /\ UNCHANGED <<clock, calendarTo, bars, spotDone>>

-----------------------------------------------------------------------------
(* Fetch and record                                                        *)

\* The answer is stored as a snapshot (left out) and turned into daily bars.
SpotFetched(source, codes) ==
    /\ Quoted # NoBar
    /\ spotAt' = "storing"
    /\ spotRun' = [spotRun EXCEPT !.source = source, !.quote = Quoted, !.rest = codes]
    /\ LET moved == IF Quoted # spotRun.quote THEN {spotRun.date} ELSE {} IN
       excused' = excused \cup moved /\ exposed' = exposed \cup moved
    /\ UNCHANGED <<clock, calendarTo, bars, spotDone, spotRuns>>

\* Eastmoney answers; _drop_delisted_daily_bar_rows.
FetchEastmoney == spotAt = "planned" /\ SpotFetched("eastmoney", SpotCodes \ DelistedCodes)

EastmoneyFails ==
    /\ spotAt = "planned" /\ spotAt' = "fallback"
    /\ UNCHANGED <<clock, calendarTo, bars, spotDone, spotRun, excused, exposed, spotRuns>>

\* _run_sina_fallback keeps the delisted codes.
FetchSina == spotAt = "fallback" /\ SpotFetched("sina", SpotCodes)

\* One code of _upsert_spot_daily_bar_rows: a bar that is there is kept.
Store(c) ==
    IF bars[c][spotRun.date] # NoBar THEN bars
    ELSE [bars EXCEPT ![c][spotRun.date] = spotRun.quote]

StoreBar(c) ==
    /\ spotAt = "storing" /\ c \in spotRun.rest
    /\ bars' = Store(c)
    /\ spotRun' = [spotRun EXCEPT !.rest = @ \ {c}]
    /\ UNCHANGED <<clock, calendarTo, spotDone, spotAt, excused, exposed, spotRuns>>

\* All bars are stored.  After the fallback the Eastmoney row says skipped_fallback.
RecordSpot ==
    /\ spotAt = "storing" /\ spotRun.rest = {}
    /\ spotDone' = IF spotRun.source = "eastmoney" THEN spotDone \cup {spotRun.date}
                   ELSE spotDone \ {spotRun.date}
    /\ spotAt' = "idle" /\ spotRun' = NoRun
    /\ UNCHANGED <<clock, calendarTo, bars, excused, exposed, spotRuns>>

\* Both sources failed, or a write did: the checkpoint says so.
RecordSpotFailure ==
    /\ spotAt \in {"fallback", "storing"}
    /\ spotDone' = spotDone \ {spotRun.date}
    /\ spotAt' = "idle" /\ spotRun' = NoRun
    /\ UNCHANGED <<clock, calendarTo, bars, excused, exposed, spotRuns>>

SpotKilled ==
    /\ spotAt # "idle"
    /\ spotAt' = "idle" /\ spotRun' = NoRun
    /\ UNCHANGED <<clock, calendarTo, bars, spotDone, excused, exposed, spotRuns>>

-----------------------------------------------------------------------------
(* Around it                                                               *)

ClockMoves ==
    /\ clock.part < 3 \/ clock.day < SpotDays
    /\ clock' = IF clock.part < 3 THEN [clock EXCEPT !.part = @ + 1]
                ELSE [day |-> clock.day + 1, part |-> 1]
    /\ UNCHANGED <<calendarTo, bars, spotDone, spotAt, spotRun, excused, exposed, spotRuns>>

\* What was fetched is merged into the calendar.
CalendarStored(last) ==
    /\ calendarTo < last /\ calendarTo' = last
    /\ UNCHANGED <<clock, bars, spotDone, spotAt, spotRun, excused, exposed, spotRuns>>

\* A partial update asks for the days up to its candidate date.
CalendarUpdated == CalendarStored(CandidateDate)

\* A full update stores what the provider has, later days included.
CalendarCompleted == CalendarStored(SpotDays)

SpotNext ==
    \/ ClockMoves \/ CalendarUpdated \/ CalendarCompleted
    \/ \E end \in {NoEnd} \cup 1..clock.day, force \in BOOLEAN : SpotPlan(end, force)
    \/ FetchEastmoney \/ EastmoneyFails \/ FetchSina
    \/ \E c \in SpotCodes : StoreBar(c)
    \/ RecordSpot \/ RecordSpotFailure \/ SpotKilled

SpotSpec == SpotInit /\ [][SpotNext]_spotVars

-----------------------------------------------------------------------------

\* The bars stored under a day are its closes, however runs, the clock and updates of the
\* calendar follow one another (README.md:259, spot_quote.py:487).  Closes of other days get
\* in only if the calendar lacks a trading day up to the candidate or --end is not the day of
\* the last close (line 448), prices of a session only if the calendar lacks its day when
\* the run is planned (line 508), and either if what the market shows changes between the
\* plan and the fetch (line 54).  A day whose checkpoint says success has the bar of every
\* code listed.
SpotBarsAreCloses ==
    /\ \A c \in SpotCodes, d \in 1..SpotDays :
          \/ bars[c][d] \in {d, NoBar}
          \/ bars[c][d] # Live /\ d \in excused
          \/ bars[c][d] = Live /\ d \in exposed
    /\ \A d \in spotDone, c \in SpotCodes \ DelistedCodes : bars[c][d] # NoBar

\* A run that is started while a session goes on is stopped before it asks for quotes
\* (README.md:259).  The code asks the calendar whether there is a session, and takes a day
\* without a row for one without a session (spot_quote.py:508).
SessionRunsStopped == spotAt \in {"planned", "fallback"} => spotRun.quote # Live

=============================================================================
