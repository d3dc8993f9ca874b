------------------------------ MODULE CodeTasks ------------------------------
(***************************************************************************)
(* What the dispatcher of the Baostock daily update promises to the code   *)
(* that works on the files (update_daily_worker.py): the tasks of one      *)
(* stock code never overlap.  First its adjustment factors are stored,     *)
(* then its daily bars, and when these do not fit what is on disk, they    *)
(* are fetched again from the start and stored once more.  The tasks of    *)
(* different codes run side by side.                                       *)
(***************************************************************************)

CONSTANT Stocks     \* the stock codes of the run

VARIABLE stage      \* how far each of them is

BeginFactor(c) == stage[c] = "todo" /\ stage' = [stage EXCEPT ![c] = "factor"]

EndFactor(c) == stage[c] = "factor" /\ stage' = [stage EXCEPT ![c] = "priced"]

\* A run that needs no factors, or has them already, begins here.
BeginDaily(c) ==
    /\ stage[c] \in {"todo", "priced"}
    /\ stage' = [stage EXCEPT ![c] = "daily"]

EndDaily(c) ==
    /\ stage[c] = "daily"
    /\ \E after \in {"stored", "asked"} : stage' = [stage EXCEPT ![c] = after]

BeginRefetch(c) == stage[c] = "asked" /\ stage' = [stage EXCEPT ![c] = "refetch"]

EndRefetch(c) == stage[c] = "refetch" /\ stage' = [stage EXCEPT ![c] = "stored"]

Init == stage = [c \in Stocks |-> "todo"]

Next ==
    \E c \in Stocks :
        \/ BeginFactor(c) \/ EndFactor(c)
        \/ BeginDaily(c) \/ EndDaily(c)
        \/ BeginRefetch(c) \/ EndRefetch(c)

Spec == Init /\ [][Next]_stage

=============================================================================
