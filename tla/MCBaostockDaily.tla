--------------------------- MODULE MCBaostockDaily ---------------------------
(***************************************************************************)
(* Instances of BaostockDaily: the runs of the market session, those a     *)
(* user may add, and two values for a bar.                                 *)
(***************************************************************************)
EXTENDS BaostockDaily

CONSTANTS v1, v2

TwoVersions == {v1, v2}

Ask(targets, mode) == [targets |-> targets, mode |-> mode, force |-> FALSE]

\* update-baostock-market-session: Monday to Thursday, and at the weekend.
Sessions == {Ask({"U"}, "partial"), Ask({"U", "Q"}, "partial")}

\* A user may also ask update-baostock-daily for the factors alone.
WithFactors == Sessions \cup {Ask({"F"}, "partial")}

=============================================================================
