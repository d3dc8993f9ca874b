--------------------------- MODULE MCDerivedBuild ---------------------------
(***************************************************************************)
(* Instances of DerivedBuild: two securities with a source partition each, *)
(* and one security where only its own order of events matters.            *)
(***************************************************************************)
EXTENDS DerivedBuild, TLC

CONSTANTS a, b, x, y, v1, v2, r1, r2

TwoSecurities == {a, b}
TwoSources == {x, y}
TwoSourcesOf == a :> {x} @@ b :> {y}

OneSecurity == {a}
OneSource == {x}
OneSourceOf == a :> {x}

TwoVersions == {v1, v2}
OneRow == {r1}
TwoRows == {r1, r2}

EveryMode == {"incremental", "full", "explicit"}
Incremental == {"incremental"}

=============================================================================
