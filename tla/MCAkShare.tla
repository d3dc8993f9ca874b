------------------------------ MODULE MCAkShare ------------------------------
(***************************************************************************)
(* The parts of the AkShare update, each on an instance of its own: the    *)
(* kernel on three tasks of two statements and two timeout threads, the    *)
(* refresh queue with two processes and two codes, and spot quotes over    *)
(* three days of which two are trading days.                               *)
(* They share no state, so a behaviour is one of the part it is about, and *)
(* the others stand still.                                                 *)
(***************************************************************************)
EXTENDS AkShareKernel, CapitalQueue, SpotQuote

CONSTANTS p1, p2, c1, c2

\* A sequential run, two workers, and two whose number the controller changes and whom an
\* open circuit stops.
ThreePolicies ==
    [workers : {1, 2}, adaptive : {FALSE}, stop : {FALSE}]
    \cup [workers : {2}, adaptive : {TRUE}, stop : {TRUE}]

VARIABLE part       \* the part this behaviour is about

allVars == <<part, kernelVars, queueVars, spotVars>>

Init ==
    /\ part \in {"kernel", "queue", "spot"}
    /\ KernelInit /\ QueueInit /\ SpotInit
    /\ part # "kernel" => ~reportLock /\ policy = CHOOSE p \in Policies : TRUE

KernelPart == part = "kernel" /\ KernelNext /\ UNCHANGED <<part, queueVars, spotVars>>
QueuePart == part = "queue" /\ QueueNext /\ UNCHANGED <<part, kernelVars, spotVars>>
SpotPart == part = "spot" /\ SpotNext /\ UNCHANGED <<part, kernelVars, queueVars>>

Next == KernelPart \/ QueuePart \/ SpotPart

\* KernelFairness, where the kernel is what the behaviour is about.
Fairness ==
    /\ WF_kernelVars(part = "kernel" /\ MainThread)
    /\ \A t \in Fetches : WF_kernelVars(part = "kernel" /\ at # "killed" /\ Fetch(t))

Spec == Init /\ [][Next]_allVars /\ Fairness

=============================================================================
