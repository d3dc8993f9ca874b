---------------------------- MODULE MCProcessLock ----------------------------
(***************************************************************************)
(* Small instances of ProcessLock: p1 and p2 share a host, p3 has another. *)
(***************************************************************************)
EXTENDS ProcessLock, TLC

CONSTANTS p1, p2, p3, host1, host2

TwoHosts == [p \in Procs |-> IF p = p3 THEN host2 ELSE host1]

\* p1 and p2 are interchangeable, p3 is not.
SameHost == Permutations({p1, p2})

=============================================================================
