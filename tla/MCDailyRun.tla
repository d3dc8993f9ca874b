------------------------------ MODULE MCDailyRun ------------------------------
(***************************************************************************)
(* Instances of DailyRun: a small workflow with one step of every kind of  *)
(* config/daily_workflow.yaml, and the whole of that file.                 *)
(***************************************************************************)
EXTENDS DailyRun, FiniteSets, TLC

Daily == "daily"
Window == "market_window"
Natural == "natural_date"
Market == "market_date"

Step(schedule, key, deps) ==
    [schedule |-> schedule, key |-> key, resume |-> "skip_if_success",
     optional |-> FALSE, timed |-> FALSE, deps |-> deps]
Optional(r) == [r EXCEPT !.optional = TRUE]
Timed(r) == [r EXCEPT !.timed = TRUE]
Always(r) == [r EXCEPT !.resume = "always_run"]
On(s, key) == [on |-> s, key |-> key, soft |-> FALSE]
SoftOn(s, key) == [on |-> s, key |-> key, soft |-> TRUE]

Plain == [force |-> FALSE, ignore_state |-> FALSE, start_at |-> NoStep,
          as_of |-> NoDate, market |-> NoDate]
Forced == [Plain EXCEPT !.force = TRUE]
Ignoring == [Plain EXCEPT !.ignore_state = TRUE]
From(s) == [Plain EXCEPT !.start_at = s]
ForMarket(d) == [Plain EXCEPT !.market = d]

OnlyPlain == {Plain}

-----------------------------------------------------------------------------
(* Small: required, optional with a timeout, always_run, market_window,    *)
(* derived and view steps.                                                 *)

SmallOrder ==
    <<"akshare-spot-quote", "baostock-market-session", "akshare-daily-bar",
      "build-derived-daily-bar", "build-duckdb-views">>

SmallConf ==
    "akshare-spot-quote" :> Timed(Optional(Step(Daily, Market, {})))
    @@ "baostock-market-session" :> Always(Step(Daily, Market, {}))
    @@ "akshare-daily-bar" :> Step(Window, Market, {})
    @@ "build-derived-daily-bar" :>
         Step(Daily, Natural, {On("akshare-spot-quote", Market),
                               On("baostock-market-session", Market),
                               SoftOn("akshare-daily-bar", Market)})
    @@ "build-duckdb-views" :>
         Step(Daily, Natural, {On("build-derived-daily-bar", Natural),
                               SoftOn("akshare-daily-bar", Market)})

Repairing == {Plain, Ignoring, From("build-derived-daily-bar"), ForMarket(0),
              [Plain EXCEPT !.as_of = 0]}

-----------------------------------------------------------------------------
(* Two steps: a market-date step and a derived step keyed by natural date. *)

PairOrder == <<"baostock-basic", "build-derived-security-master">>

PairConf ==
    "baostock-basic" :> Step(Daily, Market, {})
    @@ "build-derived-security-master" :>
         Step(Daily, Natural, {On("baostock-basic", Market)})

-----------------------------------------------------------------------------
(* config/daily_workflow.yaml                                              *)

FullOrder ==
    <<"cleanup", "calendar", "akshare-delist", "akshare-spot-quote",
      "baostock-basic", "baostock-market-session", "baostock-valuation-percentile",
      "akshare-yjyg-em", "akshare-valuation-full", "akshare-report-disclosure",
      "akshare-yysj-em", "akshare-daily-bar", "sync-qlib", "financial-report",
      "build-derived-security-master", "build-derived-daily-bar",
      "build-derived-valuation", "build-duckdb-views">>

FullConf == [s \in {FullOrder[n] : n \in 1 .. Len(FullOrder)} |->
    CASE s = "cleanup" -> Always(Optional(Step(Daily, "run_instance", {})))
      [] s = "akshare-spot-quote" -> Optional(Step(Daily, Market, {}))
      [] s = "baostock-basic" -> Step(Daily, Market, {})
      [] s = "baostock-market-session" ->
           Always(Step(Daily, Market, {On("baostock-basic", Market)}))
      [] s = "baostock-valuation-percentile" ->
           Step(Daily, Market, {On("baostock-market-session", Market)})
      [] s = "akshare-yjyg-em" -> Timed(Optional(Step(Daily, Natural, {})))
      [] s \in {"akshare-delist", "akshare-valuation-full", "akshare-daily-bar",
                "sync-qlib"} -> Step(Window, Market, {})
      [] s \in {"calendar", "akshare-report-disclosure", "akshare-yysj-em",
                "financial-report"} -> Step(Daily, Natural, {})
      [] s = "build-derived-security-master" ->
           Step(Daily, Natural, {On("baostock-basic", Market),
                                 On("akshare-delist", Market)})
      [] s = "build-derived-daily-bar" ->
           Step(Daily, Natural, {On("build-derived-security-master", Natural),
                                 On("akshare-spot-quote", Market),
                                 On("baostock-market-session", Market),
                                 SoftOn("akshare-daily-bar", Market)})
      [] s = "build-derived-valuation" ->
           Step(Daily, Natural, {On("build-derived-security-master", Natural),
                                 On("baostock-valuation-percentile", Market),
                                 On("akshare-valuation-full", Market)})
      [] s = "build-duckdb-views" ->
           Step(Daily, Natural, {On("build-derived-security-master", Natural),
                                 On("build-derived-daily-bar", Natural),
                                 On("build-derived-valuation", Natural),
                                 SoftOn("sync-qlib", Market)})]

FullOptions == {Plain, Forced}

=============================================================================
