------------------------- MODULE AkShareKernelProofs -------------------------
(***************************************************************************)
(* Proofs about AkShareKernel, for every number of tasks, every policy and *)
(* every setting of the pools, the retries and the circuit breaker.        *)
(***************************************************************************)
EXTENDS AkShareKernel, FiniteSetTheorems, SequenceTheorems, TLAPS

\* No two calls of one fetch wait, and one that waits has no thread.
CallsInv ==
    /\ calls \in Seq(Fetches)
    /\ \A m, n \in DOMAIN calls : calls[m] = calls[n] => m = n
    /\ \A n \in DOMAIN calls : phase[calls[n]] = "calling" /\ calls[n] \notin underway
    /\ underway \subseteq Fetches /\ \A t \in underway : phase[t] = "calling"

\* A fetch that is not submitted or is at the start of a statement made no call for it,
\* and one under way lacks a statement.
FetchInv ==
    /\ phase \in [Fetches -> {"planned", "submitted", "passed", "calling", "done"}]
    /\ attempt \in [Fetches -> Nat]
    /\ DOMAIN result = Fetches
    /\ \A t \in Fetches : phase[t] \in {"planned", "submitted"} => attempt[t] = 0
    /\ \A t \in Fetches : result[t] = "open" => phase[t] = "done"
    /\ fetched \in [Fetches -> Nat]
    /\ \A t \in Fetches : phase[t] # "done" => fetched[t] < Statements
    /\ \A t \in Fetches : result[t] = "ok" => fetched[t] = Statements

\* What was not submitted is planned, and nothing is left when a run finishes.
LoopInv ==
    /\ policy \in PolicyType /\ pace.target \in Nat \ {0}
    /\ opened \in BOOLEAN /\ aborted \in BOOLEAN
    /\ nextTask \in 1..TaskCount + 1
    /\ pending \subseteq Fetches /\ batch \subseteq pending
    /\ \A t \in batch : phase[t] = "done"
    /\ \A t \in nextTask..TaskCount : phase[t] = "planned" /\ t \notin pending
    /\ opened => nextTask = TaskCount + 1
    /\ at = "start" => nextTask = 1 /\ pending = {} /\ ~opened
    /\ at = "raised" => aborted
    /\ at = "finish" \/ (at = "returned" /\ ~aborted) =>
          pending = {} /\ nextTask = TaskCount + 1

\* What is past nextTask or pending has no outcome yet, the rest has one.
OutcomeInv ==
    /\ outcomes \in [Fetches -> {<<>>, <<"success">>, <<"failed">>, <<"skipped">>}]
    /\ \A t \in Fetches :
        /\ outcomes[t] = <<"success">> => result[t] = "ok" /\ phase[t] = "done"
        /\ outcomes[t] = <<"skipped">> =>
              /\ opened
              /\ phase[t] = "planned" \/ (phase[t] = "done" /\ result[t] = "open")
        /\ t >= nextTask \/ t \in pending => outcomes[t] = <<>>
        /\ t < nextTask => t \in pending \/ outcomes[t] # <<>> \/ aborted

KernelInv == CallsInv /\ FetchInv /\ LoopInv /\ OutcomeInv

LEMMA KernelInitially == KernelInit => KernelInv
<1> SUFFICES ASSUME KernelInit PROVE KernelInv
    OBVIOUS
<1>1. CallsInv
    BY EmptySeq DEF KernelInit, CallsInv
<1>2. FetchInv
    BY KernelAssumption DEF KernelInit, FetchInv
<1>3. LoopInv
    <2>1. policy \in PolicyType /\ TaskCount \in Nat
        BY KernelAssumption DEF KernelInit
    <2>2. policy.workers \in Nat \ {0}
        BY <2>1 DEF PolicyType
    <2>3. 1 \in 1..TaskCount + 1 /\ \A t \in 1..TaskCount : phase[t] = "planned"
        BY <2>1 DEF KernelInit, Fetches
    <2>4. /\ pace.target \in Nat \ {0} /\ nextTask = 1 /\ pending = {} /\ batch = {}
          /\ opened = FALSE /\ aborted = FALSE /\ at = "start"
        BY <2>2 DEF KernelInit
    <2>5. QED
        BY <2>1, <2>3, <2>4 DEF LoopInv
<1>4. OutcomeInv
    BY KernelAssumption DEF KernelInit, OutcomeInv, Fetches
<1>5. QED
    BY <1>1, <1>2, <1>3, <1>4 DEF KernelInv

-----------------------------------------------------------------------------
(* What is submitted                                                       *)

\* submit_until_target takes the next tasks, in order, and leaves none if it had room.
LEMMA TakesTheNext ==
    ASSUME NEW rest \in SUBSET Fetches, NEW from \in 1..TaskCount + 1, NEW stop \in BOOLEAN,
           NEW target \in Nat \ {0}
    PROVE  LET new == Submissions(rest, from, stop, target)
               after == from + Cardinality(new)
           IN  /\ after \in 1..TaskCount + 1
               /\ \A t \in Fetches : t \in new <=> from <= t /\ t < after
               /\ new \subseteq Fetches
               /\ stop => new = {} /\ after = from
               /\ rest \cup new = {} /\ ~ stop => after = TaskCount + 1
<1> DEFINE room == target - Cardinality(rest)
           last == IF from + room - 1 < TaskCount THEN from + room - 1 ELSE TaskCount
           new == Submissions(rest, from, stop, target)
<1>1. TaskCount \in Nat /\ Cardinality(rest) \in Nat /\ IsFiniteSet(rest)
    <2>1. TaskCount \in Nat
        BY KernelAssumption
    <2>2. IsFiniteSet(Fetches)
        BY <2>1, FS_Interval DEF Fetches
    <2>3. IsFiniteSet(rest)
        BY <2>2, FS_Subset
    <2>4. QED
        BY <2>1, <2>3, FS_CardinalityType
<1>2. room \in Int /\ last \in Int /\ from \in Int
    BY <1>1
<1>3. CASE stop
    <2>1. new = {} /\ Cardinality(new) = 0
        BY <1>3, FS_EmptySet DEF Submissions
    <2> HIDE DEF new
    <2>2. from + Cardinality(new) = from /\ \A t \in Fetches : t \notin new
        BY <1>2, <2>1
    <2>3. \A t \in Fetches : t \in Int
        BY <1>1 DEF Fetches
    <2>4. from + Cardinality(new) \in 1..TaskCount + 1
        BY <2>2
    <2>5. \A t \in Fetches : t \in new <=> from <= t /\ t < from + Cardinality(new)
        BY <1>2, <2>2, <2>3
    <2>6. new \subseteq Fetches
        BY <2>1
    <2>7. QED
        BY <1>3, <2>1, <2>2, <2>4, <2>5, <2>6 DEF new
<1>4. CASE ~ stop
    <2>1. new = from..last
        <3>1. \A t : t \in new <=> t \in 1..TaskCount /\ from <= t /\ t < from + room
            BY <1>4 DEF Submissions, Fetches
        <3>2. \A t : t \in from..last <=> t \in 1..TaskCount /\ from <= t /\ t < from + room
            BY <1>1, <1>2
        <3>3. QED
            BY <3>1, <3>2
    <2>2. Cardinality(new) = IF from > last THEN 0 ELSE last - from + 1
        BY <1>2, <2>1, FS_Interval
    <2>3. last <= TaskCount
        BY <1>1, <1>2
    <2>4. new \subseteq Fetches
        BY DEF Submissions
    <2> HIDE DEF new
    <2>5. from + Cardinality(new) \in 1..TaskCount + 1
        BY <1>1, <1>2, <2>2, <2>3
    <2>6. \A t \in Fetches : t \in new <=> from <= t /\ t < from + Cardinality(new)
        BY <1>1, <1>2, <2>1, <2>2, <2>3 DEF Fetches
    <2>7. ASSUME rest \cup new = {} PROVE from + Cardinality(new) = TaskCount + 1
        <3>1. Cardinality(rest) = 0
            BY <2>7, FS_EmptySet
        <3>2. from > last /\ room = target
            BY <1>2, <2>1, <2>7, <3>1
        <3>3. QED
            BY <1>1, <1>2, <2>2, <3>2
    <2>8. QED
        BY <1>4, <2>4, <2>5, <2>6, <2>7 DEF new
<1>5. QED
    BY <1>3, <1>4

\* The number of workers the controller sets is one at least.
LEMMA PaceType ==
    ASSUME NEW p, p.target \in Nat \ {0}, NEW success \in BOOLEAN
    PROVE  Paced(p, success).target \in Nat \ {0}
BY DEF Paced, Decreased, Increased

-----------------------------------------------------------------------------
(* The fetches: what is planned or done is left alone.                     *)

Settled ==
    \A t \in Fetches : phase[t] \in {"planned", "done"} =>
        phase'[t] = phase[t] /\ result'[t] = result[t]

LEMMA KeepsLoop ==
    ASSUME KernelInv, UNCHANGED mainVars, Settled, FetchInv'
    PROVE  LoopInv' /\ OutcomeInv'
<1>0. TaskCount \in Nat
    BY KernelAssumption
<1>1. UNCHANGED <<policy, at, nextTask, pending, batch, opened, pace, outcomes, aborted>>
    BY DEF mainVars
<1>2. \A t \in nextTask..TaskCount : t \in Fetches
    BY <1>0 DEF KernelInv, LoopInv, Fetches
<1>3. LoopInv'
    BY <1>1, <1>2 DEF KernelInv, LoopInv, Settled
<1>4. OutcomeInv'
    BY <1>1 DEF KernelInv, OutcomeInv, Settled
<1>5. QED
    BY <1>3, <1>4

\* cancel() takes one call out of the queue and leaves the others in their order.
LEMMA WithoutFacts ==
    ASSUME calls \in Seq(Fetches), NEW n \in DOMAIN calls
    PROVE  /\ Without(n) \in Seq(Fetches)
           /\ DOMAIN Without(n) = 1..(Len(calls) - 1)
           /\ \A m \in 1..(Len(calls) - 1) :
                Without(n)[m] = calls[IF m < n THEN m ELSE m + 1]
<1> DEFINE before == SubSeq(calls, 1, n - 1)
           after == SubSeq(calls, n + 1, Len(calls))
<1>1. Len(calls) \in Nat /\ n \in 1..Len(calls) /\ \A i \in 1..Len(calls) : calls[i] \in Fetches
    BY LenProperties, ElementOfSeq
<1>2. /\ before \in Seq(Fetches) /\ Len(before) = n - 1
      /\ \A i \in 1..(n - 1) : before[i] = calls[i]
    <2>1. 1 \in Int /\ n - 1 \in Int /\ \A i \in 1..(n - 1) : calls[i] \in Fetches
        BY <1>1
    <2>2. /\ before \in Seq(Fetches)
          /\ Len(before) = IF 1 <= n - 1 THEN n - 1 - 1 + 1 ELSE 0
          /\ \A i \in 1..(n - 1 - 1 + 1) : before[i] = calls[1 + i - 1]
        BY <2>1, SubSeqProperties
    <2> HIDE DEF before
    <2>3. QED
        BY <1>1, <2>2
<1>3. /\ after \in Seq(Fetches) /\ Len(after) = Len(calls) - n
      /\ \A i \in 1..(Len(calls) - n) : after[i] = calls[n + i]
    <2>1. n + 1 \in Int /\ Len(calls) \in Int /\ \A i \in n + 1..Len(calls) : calls[i] \in Fetches
        BY <1>1
    <2>2. /\ after \in Seq(Fetches)
          /\ Len(after) = IF n + 1 <= Len(calls) THEN Len(calls) - (n + 1) + 1 ELSE 0
          /\ \A i \in 1..(Len(calls) - (n + 1) + 1) : after[i] = calls[n + 1 + i - 1]
        BY <2>1, SubSeqProperties
    <2> HIDE DEF after
    <2>3. QED
        BY <1>1, <2>2
<1> HIDE DEF before, after
<1>4. /\ before \o after \in Seq(Fetches) /\ Len(before \o after) = Len(calls) - 1
      /\ \A i \in 1..(Len(calls) - 1) :
            (before \o after)[i] = IF i <= n - 1 THEN before[i] ELSE after[i - (n - 1)]
    BY <1>1, <1>2, <1>3, ConcatProperties
<1>5. DOMAIN (before \o after) = 1..(Len(calls) - 1)
    BY <1>4, LenProperties
<1>6. ASSUME NEW m \in 1..(Len(calls) - 1)
      PROVE  (before \o after)[m] = calls[IF m < n THEN m ELSE m + 1]
    <2>1. CASE m < n
        BY <1>1, <1>2, <1>4, <2>1
    <2>2. CASE ~ (m < n)
        <3>1. m - (n - 1) \in 1..(Len(calls) - n) /\ ~ (m <= n - 1) /\ n + (m - (n - 1)) = m + 1
            BY <1>1, <2>2
        <3>2. (before \o after)[m] = after[m - (n - 1)]
            BY <1>4, <3>1
        <3>3. after[m - (n - 1)] = calls[m + 1]
            BY <1>3, <3>1
        <3>4. QED
            BY <2>2, <3>2, <3>3
    <2>3. QED
        BY <2>1, <2>2
<1>7. Without(n) = before \o after
    BY DEF Without, before, after
<1>8. QED
    BY <1>4, <1>5, <1>6, <1>7

LEMMA FetchStep ==
    ASSUME KernelInv, NEW t \in Fetches, Fetch(t) \/ Answered(t) \/ CallFails(t)
    PROVE  KernelInv'
<1> USE DEF KernelInv
<1>0. UNCHANGED mainVars
    BY DEF Fetch, Enter, Call, TimesOut, Answered, CallFails
<1>1. CASE Enter(t)
    <2>1. /\ UNCHANGED <<calls, underway, attempt, fetched>> /\ phase[t] = "submitted"
          /\ \A u \in Fetches \ {t} : phase'[u] = phase[u] /\ result'[u] = result[u]
          /\ phase' \in [Fetches -> {"planned", "submitted", "passed", "calling", "done"}]
          /\ DOMAIN result' = Fetches
          /\ \/ phase'[t] = "done" /\ result'[t] = "open"
             \/ phase'[t] = "passed" /\ result'[t] = result[t]
        BY <1>1 DEF Enter, Ends, FetchInv
    <2>2. CallsInv'
        <3>1. \A n \in DOMAIN calls : calls[n] \in Fetches
            BY LenProperties, ElementOfSeq DEF CallsInv
        <3>2. QED
            BY <2>1, <3>1 DEF CallsInv
    <2>3. FetchInv'
        <3>1. attempt[t] = 0 /\ result[t] # "open" /\ fetched[t] < Statements
            BY <2>1 DEF FetchInv
        <3>2. \A u \in Fetches : phase'[u] \in {"planned", "submitted"} => attempt'[u] = 0
            BY <2>1, <3>1 DEF FetchInv
        <3>3. \A u \in Fetches : result'[u] = "open" => phase'[u] = "done"
            BY <2>1, <3>1 DEF FetchInv
        <3>4. \A u \in Fetches : phase'[u] # "done" => fetched[u] < Statements
            BY <2>1, <3>1 DEF FetchInv
        <3>5. \A u \in Fetches : result'[u] = "ok" => fetched[u] = Statements
            BY <2>1, <3>1 DEF FetchInv
        <3>6. QED
            BY <2>1, <3>2, <3>3, <3>4, <3>5 DEF FetchInv
    <2>4. Settled
        BY <2>1 DEF Settled
    <2>5. QED
        BY <1>0, <2>2, <2>3, <2>4, KeepsLoop
<1>2. CASE Call(t)
    <2>1. /\ phase[t] = "passed" /\ phase' = [phase EXCEPT ![t] = "calling"]
          /\ attempt' = [attempt EXCEPT ![t] = @ + 1] /\ calls' = Append(calls, t)
          /\ UNCHANGED <<result, fetched, underway>>
        BY <1>2 DEF Call
    <2>2. /\ calls' \in Seq(Fetches) /\ Len(calls) \in Nat
          /\ \A i \in 1..Len(calls) : calls'[i] = calls[i] /\ calls[i] \in Fetches
          /\ calls'[Len(calls) + 1] = t
          /\ DOMAIN calls = 1..Len(calls) /\ DOMAIN calls' = 1..(Len(calls) + 1)
        <3>1. calls \in Seq(Fetches)
            BY DEF CallsInv
        <3>2. QED
            BY <2>1, <3>1, AppendProperties, LenProperties, ElementOfSeq
    <2>3. \A i \in 1..Len(calls) : calls[i] # t
        BY <2>1, <2>2 DEF CallsInv
    <2>4. CallsInv'
        <3>1. \A m, n \in DOMAIN calls' : calls'[m] = calls'[n] => m = n
            BY <2>2, <2>3 DEF CallsInv
        <3>2. \A n \in DOMAIN calls' : phase'[calls'[n]] = "calling" /\ calls'[n] \notin underway'
            BY <2>1, <2>2, <2>3 DEF CallsInv, FetchInv
        <3>3. underway' \subseteq Fetches /\ \A u \in underway' : phase'[u] = "calling"
            BY <2>1 DEF CallsInv, FetchInv
        <3>4. QED
            BY <2>2, <3>1, <3>2, <3>3 DEF CallsInv
    <2>5. FetchInv'
        BY <2>1 DEF FetchInv
    <2>6. Settled
        BY <2>1 DEF Settled, FetchInv
    <2>7. QED
        BY <1>0, <2>4, <2>5, <2>6, KeepsLoop
<1>3. ASSUME \* the call is over: t is tried again, comes to its next statement or is done
             phase[t] = "calling",
             \/ /\ phase' = [phase EXCEPT ![t] = "passed"]
                /\ UNCHANGED <<result, attempt, fetched>>
             \/ Ends(t, "failed") /\ UNCHANGED <<attempt, fetched>>
             \/ StatementFetched(t),
             CallsInv'
      PROVE  KernelInv'
    <2>0. fetched[t] \in Nat /\ fetched[t] < Statements /\ Statements \in Nat
          /\ result[t] # "ok" /\ result[t] # "open"
        BY <1>3, KernelAssumption DEF FetchInv
    <2>1. FetchInv' /\ Settled
        <3>1. CASE phase' = [phase EXCEPT ![t] = "passed"] /\ UNCHANGED <<result, attempt, fetched>>
            BY <1>3, <3>1 DEF FetchInv, Settled
        <3>2. CASE Ends(t, "failed") /\ UNCHANGED <<attempt, fetched>>
            BY <1>3, <3>2 DEF FetchInv, Settled, Ends
        <3>3. CASE /\ fetched' = [fetched EXCEPT ![t] = @ + 1] /\ fetched[t] + 1 < Statements
                   /\ phase' = [phase EXCEPT ![t] = "submitted"]
                   /\ attempt' = [attempt EXCEPT ![t] = 0] /\ result' = result
            BY <1>3, <2>0, <3>3 DEF FetchInv, Settled
        <3>4. CASE /\ fetched' = [fetched EXCEPT ![t] = @ + 1] /\ fetched[t] + 1 >= Statements
                   /\ Ends(t, "ok") /\ attempt' = attempt
            <4>1. fetched[t] + 1 = Statements
                BY <2>0, <3>4
            <4>2. QED
                BY <1>3, <2>0, <3>4, <4>1 DEF FetchInv, Settled, Ends
        <3>5. QED
            BY <1>3, <3>1, <3>2, <3>3, <3>4 DEF StatementFetched
    <2>2. QED
        BY <1>0, <1>3, <2>1, KeepsLoop
<1>4. ASSUME \* a thread is free again or hangs
             t \in underway, underway' = underway \ {t}, calls' = calls,
             \A u \in Fetches \ {t} : phase'[u] = phase[u]
      PROVE  CallsInv' /\ phase[t] = "calling"
    <2>1. \A n \in DOMAIN calls : calls[n] \in Fetches /\ calls[n] # t
        BY <1>4, LenProperties, ElementOfSeq DEF CallsInv
    <2>2. QED
        BY <1>4, <2>1 DEF CallsInv
<1>5. CASE Answered(t)
    <2>1. StatementFetched(t) \/ (Ends(t, "failed") /\ UNCHANGED <<attempt, fetched>>)
        BY <1>5 DEF Answered
    <2>2. \A u \in Fetches \ {t} : phase'[u] = phase[u]
        BY <2>1 DEF StatementFetched, Ends, FetchInv
    <2>3. QED
        BY <1>3, <1>4, <1>5, <2>1, <2>2 DEF Answered
<1>6. TryAgain(t) =>
        /\ \/ phase' = [phase EXCEPT ![t] = "passed"] /\ result' = result
           \/ Ends(t, "failed")
        /\ \A u \in Fetches \ {t} : phase'[u] = phase[u]
    BY DEF TryAgain, Ends, FetchInv
<1>7. CASE CallFails(t)
    BY <1>3, <1>4, <1>6, <1>7 DEF CallFails
<1>8. CASE TimesOut(t)
    <2>1. phase[t] = "calling" /\ TryAgain(t) /\ UNCHANGED <<attempt, fetched>>
        BY <1>8 DEF TimesOut
    <2>2. CASE t \in underway /\ underway' = underway \ {t} /\ calls' = calls
        BY <1>3, <1>4, <1>6, <2>1, <2>2
    <2>3. ASSUME NEW n \in DOMAIN calls, calls[n] = t, calls' = Without(n), underway' = underway
          PROVE  CallsInv'
        <3>1. calls \in Seq(Fetches) /\ DOMAIN calls = 1..Len(calls) /\ Len(calls) \in Nat
            BY LenProperties DEF CallsInv
        <3>2. /\ calls' \in Seq(Fetches)
              /\ DOMAIN calls' = 1..(Len(calls) - 1)
              /\ \A m \in 1..(Len(calls) - 1) : calls'[m] = calls[IF m < n THEN m ELSE m + 1]
            BY <2>3, <3>1, WithoutFacts
        <3> DEFINE old(m) == IF m < n THEN m ELSE m + 1
        <3>3. /\ \A m \in DOMAIN calls' : old(m) \in DOMAIN calls \ {n}
              /\ \A k, m \in DOMAIN calls' : old(k) = old(m) => k = m
            BY <3>1, <3>2
        <3>4. \A m \in DOMAIN calls' : calls'[m] = calls[old(m)] /\ calls[old(m)] # t
            BY <2>3, <3>2, <3>3 DEF CallsInv
        <3> HIDE DEF old
        <3>5. \A k, m \in DOMAIN calls' : calls'[k] = calls'[m] => k = m
            BY <3>3, <3>4 DEF CallsInv
        <3>6. \A m \in DOMAIN calls' : calls[old(m)] \in Fetches
            BY <3>1, <3>3, ElementOfSeq
        <3>7. \A m \in DOMAIN calls' : phase'[calls'[m]] = "calling" /\ calls'[m] \notin underway'
            BY <1>6, <2>1, <2>3, <3>3, <3>4, <3>6 DEF CallsInv
        <3>8. \A u \in underway' : u # t
            BY <2>3 DEF CallsInv
        <3>9. QED
            BY <1>6, <2>1, <2>3, <3>2, <3>5, <3>7, <3>8 DEF CallsInv
    <2>4. QED
        BY <1>3, <1>6, <1>8, <2>1, <2>2, <2>3 DEF TimesOut
<1>9. QED
    BY <1>1, <1>2, <1>5, <1>7, <1>8 DEF Fetch

LEMMA EndpointStep ==
    KernelInv /\ (ThreadTakes \/ HungReturns \/ CooldownPasses) => KernelInv'
<1> SUFFICES ASSUME KernelInv, ThreadTakes \/ HungReturns \/ CooldownPasses PROVE KernelInv'
    OBVIOUS
<1> USE DEF KernelInv
<1>1. UNCHANGED mainVars /\ UNCHANGED <<phase, attempt, result, fetched>>
    BY DEF ThreadTakes, HungReturns, CooldownPasses, fetchVars
<1>2. Settled /\ FetchInv'
    BY <1>1 DEF Settled, FetchInv
<1>3. CallsInv'
    <2>1. CASE HungReturns \/ CooldownPasses
        BY <1>1, <2>1 DEF HungReturns, CooldownPasses, CallsInv
    <2>2. CASE ThreadTakes
        <3>1. /\ calls \in Seq(Fetches) /\ calls # <<>> /\ calls' = Tail(calls)
              /\ underway' = underway \cup {Head(calls)}
            BY <2>2 DEF ThreadTakes, CallsInv
        <3>2. /\ calls' \in Seq(Fetches) /\ Len(calls') = Len(calls) - 1 /\ Len(calls) \in Nat
              /\ \A i \in 1..Len(calls') : calls'[i] = calls[i + 1]
              /\ DOMAIN calls = 1..Len(calls) /\ DOMAIN calls' = 1..Len(calls')
              /\ Head(calls) \in Fetches
            BY <3>1, HeadTailProperties, LenProperties
        <3>3. 1 \in DOMAIN calls /\ Head(calls) = calls[1]
            BY <3>1, <3>2, EmptySeq
        <3>4. \A n \in DOMAIN calls' :
                calls'[n] = calls[n + 1] /\ n + 1 \in DOMAIN calls /\ n + 1 # 1 /\ n \in Int
            BY <3>2
        <3>5. \A m, n \in DOMAIN calls' : calls'[m] = calls'[n] => m = n
            <4>1. \A m, n \in DOMAIN calls' : calls[m + 1] = calls[n + 1] => m + 1 = n + 1
                BY <3>4 DEF CallsInv
            <4>2. QED
                BY <3>4, <4>1
        <3>6. \A n \in DOMAIN calls' :
                phase[calls'[n]] = "calling" /\ calls'[n] \notin underway /\ calls'[n] # calls[1]
            BY <3>3, <3>4 DEF CallsInv
        <3>7. QED
            BY <1>1, <3>1, <3>2, <3>3, <3>5, <3>6 DEF CallsInv
    <2>3. QED
        BY <2>1, <2>2
<1>4. QED
    BY <1>1, <1>2, <1>3, KeepsLoop

-----------------------------------------------------------------------------
(* The main thread                                                         *)

\* After the main thread was left with `rest` pending and `from` as the next task, and
\* submitted what it could.
Left(rest, from, stop) ==
    /\ nextTask' \in 1..TaskCount + 1 /\ from <= nextTask'
    /\ \A t \in Fetches : t \in pending' <=> t \in rest \/ (from <= t /\ t < nextTask')
    /\ pending' \subseteq Fetches
    /\ stop => phase' = phase /\ nextTask' = from /\ pending' = rest
    /\ at' = "finish" => pending' = {} /\ (~ stop => nextTask' = TaskCount + 1)
    /\ \A t \in Fetches : ~ (from <= t /\ t < nextTask') => phase'[t] = phase[t]
    /\ FetchInv' /\ CallsInv'

LEMMA Submitted ==
    ASSUME KernelInv, NEW rest \in SUBSET Fetches, NEW from \in 1..TaskCount + 1,
           NEW stop \in BOOLEAN, NEW target \in Nat \ {0},
           \A t \in from..TaskCount : phase[t] = "planned",
           Submit(rest, from, stop, target), UNCHANGED <<attempt, result, fetched, calls, underway>>
    PROVE  Left(rest, from, stop) /\ at' \in {"finish", "wait"}
<1> DEFINE new == Submissions(rest, from, stop, target)
<1>1. /\ from + Cardinality(new) \in 1..TaskCount + 1
      /\ \A t \in Fetches : t \in new <=> from <= t /\ t < from + Cardinality(new)
      /\ new \subseteq Fetches
      /\ stop => new = {} /\ from + Cardinality(new) = from
      /\ rest \cup new = {} /\ ~ stop => from + Cardinality(new) = TaskCount + 1
    BY TakesTheNext
<1>2. /\ pending' = rest \cup new /\ nextTask' = from + Cardinality(new)
      /\ phase' = [t \in Fetches |-> IF t \in new THEN "submitted" ELSE phase[t]]
      /\ at' = IF rest \cup new = {} THEN "finish" ELSE "wait"
    BY DEF Submit
<1> HIDE DEF new
<1>3. \A t \in new : t \in Fetches /\ phase[t] = "planned"
    <2>1. TaskCount \in Nat
        BY KernelAssumption
    <2>2. \A t \in new : t \in from..TaskCount
        BY <1>1, <2>1 DEF Fetches
    <2>3. QED
        BY <1>1, <2>2
<1>4. FetchInv'
    BY <1>2, <1>3 DEF KernelInv, FetchInv
<1>5. CallsInv'
    <2>1. \A n \in DOMAIN calls : calls[n] \in Fetches
        BY LenProperties, ElementOfSeq DEF KernelInv, CallsInv
    <2>2. \A t \in Fetches : phase[t] = "calling" => phase'[t] = "calling"
        BY <1>2, <1>3
    <2>3. QED
        BY <2>1, <2>2 DEF KernelInv, CallsInv
<1>6. stop => phase' = phase
    BY <1>1, <1>2 DEF KernelInv, FetchInv
<1>7. from <= nextTask'
    <2>1. IsFiniteSet(new) /\ Cardinality(new) \in Nat
        <3>1. IsFiniteSet(Fetches)
            BY KernelAssumption, FS_Interval DEF Fetches
        <3>2. QED
            BY <1>1, <3>1, FS_Subset, FS_CardinalityType
    <2>2. QED
        BY <1>2, <2>1
<1>8. QED
    BY <1>1, <1>2, <1>4, <1>5, <1>6, <1>7 DEF Left

\* Past a collected result: the rest of the batch, or new submissions.
LEMMA AfterCollected ==
    ASSUME KernelInv, NEW t \in batch, NEW from \in {nextTask, TaskCount + 1},
           NEW stop \in BOOLEAN, NEW target \in Nat \ {0},
           Collected(t, from, stop, target), at = "batch",
           UNCHANGED <<attempt, result, fetched, calls, underway>>
    PROVE  /\ Left(pending \ {t}, from, stop) /\ batch' \subseteq pending' /\ batch' \subseteq batch
           /\ at' \in {"finish", "wait", "batch"}
<1>0. TaskCount \in Nat /\ nextTask \in 1..TaskCount + 1 /\ from \in 1..TaskCount + 1
      /\ pending \subseteq Fetches /\ batch \subseteq pending
    BY KernelAssumption DEF KernelInv, LoopInv
<1>1. \A u \in from..TaskCount : phase[u] = "planned"
    BY <1>0 DEF KernelInv, LoopInv
<1>2. batch' = batch \ {t}
    BY DEF Collected
<1>3. CASE batch' = {} /\ Submit(pending \ {t}, from, stop, target)
    <2>1. pending \ {t} \in SUBSET Fetches
        BY <1>0
    <2>2. Left(pending \ {t}, from, stop) /\ at' \in {"finish", "wait"}
        BY <1>0, <1>1, <1>3, <2>1, Submitted
    <2>3. QED
        BY <1>3, <2>2
<1>4. CASE pending' = pending \ {t} /\ nextTask' = from /\ UNCHANGED <<phase, at>>
    <2>1. FetchInv' /\ CallsInv'
        BY <1>4 DEF KernelInv, FetchInv, CallsInv
    <2>2. \A u \in Fetches : ~ (from <= u /\ u < nextTask')
        BY <1>0, <1>4 DEF Fetches
    <2>3. Left(pending \ {t}, from, stop)
        BY <1>0, <1>4, <2>1, <2>2 DEF Left
    <2>4. QED
        BY <1>0, <1>2, <1>4, <2>3
<1>5. QED
    BY <1>3, <1>4 DEF Collected

LEMMA CollectLateStep ==
    ASSUME KernelInv, NEW t \in Fetches, CollectLate(t)
    PROVE  KernelInv'
<1> USE DEF KernelInv
<1>1. /\ at = "batch" /\ t \in batch /\ opened /\ result[t] = "open"
      /\ outcomes' = [outcomes EXCEPT ![t] = Append(@, "skipped")]
      /\ Collected(t, nextTask, opened, pace.target)
      /\ UNCHANGED <<policy, opened, pace, aborted, attempt, result, fetched, calls, underway>>
    BY DEF CollectLate, SkipsLate, endpointVars
<1>2. TaskCount \in Nat /\ nextTask = TaskCount + 1 /\ t \in pending /\ pending \subseteq Fetches
    BY <1>1, KernelAssumption DEF LoopInv
<1>3. Left(pending \ {t}, nextTask, opened) /\ batch' \subseteq pending' /\ batch' \subseteq batch
      /\ at' \in {"finish", "wait", "batch"}
    BY <1>1, AfterCollected DEF LoopInv
<1>4. nextTask' = nextTask /\ pending' = pending \ {t} /\ phase' = phase
      /\ (at' = "finish" => pending' = {}) /\ FetchInv' /\ CallsInv'
    BY <1>1, <1>3 DEF Left
<1>5. LoopInv'
    BY <1>1, <1>2, <1>3, <1>4 DEF LoopInv
<1>6. outcomes'[t] = <<"skipped">> /\ \A u \in Fetches \ {t} : outcomes'[u] = outcomes[u]
    <2>1. outcomes[t] = <<>> /\ Append(<<>>, "skipped") = <<"skipped">>
        BY <1>2 DEF OutcomeInv
    <2>2. QED
        BY <1>1, <1>2, <2>1 DEF OutcomeInv
<1>7. outcomes' \in [Fetches -> {<<>>, <<"success">>, <<"failed">>, <<"skipped">>}]
    BY <1>1, <1>6 DEF OutcomeInv
<1>8. phase[t] = "done" /\ t < nextTask /\ ~ (t >= nextTask)
    BY <1>1, <1>2 DEF FetchInv, Fetches
<1>9. <<"skipped">> # <<"success">> /\ <<"skipped">> # <<>>
    OBVIOUS
<1>10. OutcomeInv'
    BY <1>1, <1>2, <1>4, <1>6, <1>7, <1>8, <1>9 DEF OutcomeInv
<1>11. QED
    BY <1>4, <1>5, <1>10

LEMMA CollectStep ==
    ASSUME KernelInv, NEW t \in Fetches, Collect(t)
    PROVE  KernelInv'
<1> USE DEF KernelInv
<1> DEFINE stops == policy.stop /\ result[t] = "open"
           paced == Paced(pace, result[t] = "ok")
           skipped == IF stops THEN nextTask..TaskCount ELSE {}
           from == IF stops THEN TaskCount + 1 ELSE nextTask
<1>0. policy.stop \in BOOLEAN /\ opened \in BOOLEAN
    BY DEF LoopInv, PolicyType
<1>1. /\ at = "batch" /\ t \in batch /\ ~ (opened /\ result[t] = "open")
      /\ pace' = paced /\ opened' = (opened \/ stops)
      /\ Collected(t, from, opened', paced.target)
      /\ UNCHANGED <<policy, aborted, attempt, result, fetched, calls, underway>>
    BY DEF Collect, SkipsLate, endpointVars
<1>2. PICK status \in Recorded(t) :
        outcomes' = [u \in Fetches |->
            IF u = t THEN Append(outcomes[t], status)
            ELSE IF u \in skipped THEN Append(outcomes[u], "skipped")
            ELSE outcomes[u]]
    BY DEF Collect
<1>3. /\ TaskCount \in Nat /\ nextTask \in 1..TaskCount + 1
      /\ t \in pending /\ pending \subseteq Fetches /\ phase[t] = "done"
      /\ pace'.target \in Nat \ {0} /\ stops \in BOOLEAN /\ opened' \in BOOLEAN
    <2>1. paced.target \in Nat \ {0}
        BY PaceType DEF LoopInv
    <2>2. QED
        BY <1>0, <1>1, <2>1, KernelAssumption DEF LoopInv
<1>4. \A u \in nextTask..TaskCount :
        u \in Fetches /\ phase[u] = "planned" /\ u \notin pending /\ outcomes[u] = <<>>
    BY <1>3 DEF LoopInv, OutcomeInv, Fetches
<1>5. t < nextTask
    BY <1>3, <1>4 DEF Fetches
<1>6. stops => ~ opened /\ opened'
    BY <1>0, <1>1
<1> HIDE DEF stops, paced
<1>7. from \in {nextTask, TaskCount + 1} /\ from >= nextTask
    BY <1>3
<1> DEFINE left == pending \ {t}
<1>8. /\ Left(left, from, opened')
      /\ batch' \subseteq pending' /\ batch' \subseteq batch /\ at' \in {"finish", "wait", "batch"}
    BY <1>1, <1>3, <1>7, AfterCollected
<1>9. /\ nextTask' \in 1..TaskCount + 1 /\ from <= nextTask'
      /\ \A u \in Fetches : u \in pending' <=> u \in left \/ (from <= u /\ u < nextTask')
      /\ pending' \subseteq Fetches
      /\ opened' => phase' = phase /\ nextTask' = from /\ pending' = left
      /\ at' = "finish" => pending' = {} /\ (~ opened' => nextTask' = TaskCount + 1)
      /\ \A u \in Fetches : ~ (from <= u /\ u < nextTask') => phase'[u] = phase[u]
      /\ FetchInv' /\ CallsInv'
    BY <1>8 DEF Left
<1>10. opened' => nextTask' = TaskCount + 1
    BY <1>1, <1>6, <1>9 DEF LoopInv, stops
<1>11. LoopInv'
    <2>1. \A u \in batch' : phase'[u] = "done"
        <3>1. \A u \in batch' : u \in Fetches /\ phase[u] = "done" /\ u \in pending
            BY <1>3, <1>8 DEF LoopInv
        <3>2. \A u \in pending : u < nextTask
            BY <1>3, <1>4 DEF Fetches
        <3>3. QED
            BY <1>3, <1>7, <1>9, <3>1, <3>2 DEF Fetches
    <2>2. ASSUME NEW u \in nextTask'..TaskCount PROVE phase'[u] = "planned" /\ u \notin pending'
        <3>1. u \in nextTask..TaskCount /\ ~ (u < nextTask')
            BY <1>3, <1>7, <1>9
        <3>2. u \in Fetches /\ phase[u] = "planned" /\ u \notin left
            BY <1>4, <3>1
        <3>3. QED
            BY <1>9, <3>1, <3>2
    <2>3. QED
        BY <1>1, <1>3, <1>8, <1>9, <1>10, <2>1, <2>2 DEF LoopInv
<1>12. OutcomeInv'
    <2>1. outcomes[t] = <<>>
        BY <1>3 DEF OutcomeInv
    <2>2. status \in {"success", "failed"} /\ (status = "success" => result[t] = "ok")
        BY DEF Recorded
    <2>3. \A x : Append(<<>>, x) = <<x>>
        OBVIOUS
    <2>4. /\ outcomes'[t] = <<status>>
          /\ \A u \in skipped : u \in Fetches /\ outcomes'[u] = <<"skipped">>
          /\ \A u \in Fetches \ {t} : u \notin skipped => outcomes'[u] = outcomes[u]
        <3>1. t \notin skipped
            BY <1>3, <1>5
        <3>2. \A u \in skipped : u \in Fetches /\ outcomes[u] = <<>>
            BY <1>4
        <3>3. QED
            BY <1>2, <2>1, <2>3, <3>1, <3>2
    <2>5. outcomes' \in [Fetches -> {<<>>, <<"success">>, <<"failed">>, <<"skipped">>}]
        <3>1. \A u \in Fetches :
                outcomes'[u] \in {<<>>, <<"success">>, <<"failed">>, <<"skipped">>}
            BY <2>2, <2>4 DEF OutcomeInv
        <3>2. QED
            BY <1>2, <3>1
    <2>6. \A x, y : <<x>> = <<y>> => x = y
        OBVIOUS
    <2>7. \A x : <<x>> # <<>>
        OBVIOUS
    <2> DEFINE Fine(u) ==
            /\ outcomes'[u] = <<"success">> => result'[u] = "ok" /\ phase'[u] = "done"
            /\ outcomes'[u] = <<"skipped">> =>
                  /\ opened'
                  /\ phase'[u] = "planned" \/ (phase'[u] = "done" /\ result'[u] = "open")
            /\ u >= nextTask' \/ u \in pending' => outcomes'[u] = <<>>
            /\ u < nextTask' => u \in pending' \/ outcomes'[u] # <<>> \/ aborted'
    <2>8. Fine(t)
        <3>1. ~ (from <= t) /\ t < nextTask' /\ ~ (t >= nextTask')
            BY <1>3, <1>5, <1>7, <1>9 DEF Fetches
        <3>2. t \notin pending' /\ phase'[t] = "done"
            BY <1>3, <1>9, <3>1
        <3>3. QED
            BY <1>1, <2>2, <2>4, <2>6, <2>7, <3>1, <3>2
    <2>9. ASSUME NEW u \in skipped PROVE Fine(u)
        <3>1. stops /\ u \in nextTask..TaskCount
            BY <2>9
        <3>2. phase'[u] = "planned" /\ nextTask' = TaskCount + 1 /\ u \notin pending'
            BY <1>4, <1>6, <1>9, <3>1
        <3>3. ~ (u >= nextTask')
            BY <1>3, <3>1, <3>2
        <3>4. QED
            BY <1>6, <2>4, <2>6, <2>7, <3>1, <3>2, <3>3
    <2>10. ASSUME NEW u \in Fetches \ {t}, u \notin skipped PROVE Fine(u)
        <3>1. u \in Int /\ u <= TaskCount /\ outcomes'[u] = outcomes[u]
            BY <1>3, <2>4, <2>10 DEF Fetches
        <3>2. outcomes[u] # <<>> => u < nextTask /\ phase'[u] = phase[u]
            <4>1. outcomes[u] # <<>> => u < nextTask
                BY <1>3, <3>1 DEF OutcomeInv
            <4>2. u < nextTask => ~ (from <= u)
                BY <1>3, <1>7, <3>1
            <4>3. QED
                BY <1>9, <4>1, <4>2
        <3>3. u >= nextTask' \/ u \in pending' => outcomes[u] = <<>>
            <4>1. CASE u >= nextTask
                BY <4>1 DEF OutcomeInv
            <4>2. CASE ~ (u >= nextTask)
                <5>1. ~ (u >= nextTask') /\ ~ (from <= u)
                    BY <1>3, <1>7, <1>9, <3>1, <4>2
                <5>2. u \in pending' => u \in pending
                    BY <1>9, <5>1
                <5>3. QED
                    BY <5>1, <5>2 DEF OutcomeInv
            <4>3. QED
                BY <4>1, <4>2
        <3>4. ASSUME u < nextTask' PROVE u \in pending' \/ outcomes[u] # <<>> \/ aborted
            <4>1. CASE u < nextTask
                <5>1. u \in pending => u \in left
                    BY <2>10
                <5>2. QED
                    BY <1>9, <4>1, <5>1 DEF OutcomeInv
            <4>2. CASE ~ (u < nextTask)
                <5>1. ~ stops
                    BY <1>3, <2>10, <3>1, <4>2
                <5>2. from <= u
                    BY <1>3, <3>1, <4>2, <5>1
                <5>3. QED
                    BY <1>9, <3>4, <5>2
            <4>3. QED
                BY <4>1, <4>2
        <3>5. outcomes[u] = <<"success">> => result[u] = "ok" /\ phase'[u] = "done"
            BY <2>7, <3>2 DEF OutcomeInv
        <3>6. outcomes[u] = <<"skipped">> =>
                /\ opened'
                /\ phase'[u] = "planned" \/ (phase'[u] = "done" /\ result[u] = "open")
            BY <1>1, <2>7, <3>2 DEF OutcomeInv
        <3>7. QED
            BY <1>1, <3>1, <3>3, <3>4, <3>5, <3>6
    <2>11. \A u \in Fetches : Fine(u)
        BY <2>8, <2>9, <2>10
    <2>12. QED
        BY <2>5, <2>11 DEF OutcomeInv
<1>13. QED
    BY <1>9, <1>11, <1>12

\* Begin, and the steps that neither submit nor record.
LEMMA OtherMainStep ==
    ASSUME KernelInv,
           \/ Begin \/ Refused \/ WaitReturns \/ Finish \/ Killed
           \/ \E t \in Fetches : CollectRaises(t)
    PROVE  KernelInv'
<1> USE DEF KernelInv
<1>0. TaskCount \in Nat
    BY KernelAssumption
<1>1. CASE Begin
    <2>1. /\ at = "start" /\ nextTask = 1 /\ pending = {} /\ opened = FALSE
          /\ Submit({}, 1, FALSE, pace.target)
          /\ UNCHANGED <<policy, batch, opened, pace, outcomes, aborted, attempt, result,
                         fetched, calls, underway>>
        BY <1>1 DEF Begin, LoopInv, endpointVars
    <2>2. Left({}, 1, FALSE) /\ at' \in {"finish", "wait"}
        <3>1. 1 \in 1..TaskCount + 1 /\ \A t \in 1..TaskCount : phase[t] = "planned"
            BY <1>0, <2>1 DEF LoopInv
        <3>2. QED
            BY <2>1, <3>1, Submitted DEF LoopInv
    <2>3. /\ nextTask' \in 1..TaskCount + 1 /\ FetchInv' /\ CallsInv'
          /\ \A t \in Fetches : t \in pending' <=> 1 <= t /\ t < nextTask'
          /\ pending' \subseteq Fetches
          /\ at' = "finish" => pending' = {} /\ nextTask' = TaskCount + 1
          /\ \A t \in Fetches : ~ (1 <= t /\ t < nextTask') => phase'[t] = phase[t]
        BY <2>2 DEF Left
    <2>4. \A t \in Fetches : t \in 1..TaskCount /\ phase[t] = "planned" /\ outcomes[t] = <<>>
        BY <1>0, <2>1 DEF LoopInv, OutcomeInv, Fetches
    <2>5. LoopInv'
        <3>1. batch' = {}
            BY <2>1 DEF LoopInv
        <3>2. \A t \in nextTask'..TaskCount : phase'[t] = "planned" /\ t \notin pending'
            BY <1>0, <2>3, <2>4 DEF Fetches
        <3>3. QED
            BY <2>1, <2>2, <2>3, <3>1, <3>2 DEF LoopInv
    <2>6. OutcomeInv'
        <3>1. \A t \in Fetches : outcomes'[t] = <<>> /\ (t < nextTask' => t \in pending')
            BY <2>1, <2>3, <2>4
        <3>2. <<>> # <<"success">> /\ <<>> # <<"skipped">>
            OBVIOUS
        <3>3. QED
            BY <2>1, <3>1, <3>2 DEF OutcomeInv
    <2>7. QED
        BY <2>3, <2>5, <2>6
<1>2. CASE Refused \/ WaitReturns \/ Killed
    <2>1. UNCHANGED <<policy, nextTask, pending, opened, pace, outcomes, aborted, phase, attempt,
                      result, fetched, calls, underway>>
        BY <1>2 DEF Refused, WaitReturns, Killed, fetchVars, endpointVars
    <2>2. /\ batch' \subseteq pending /\ \A t \in batch' : phase[t] = "done"
          /\ at' \in {"refused", "batch", "killed"}
        BY <1>2 DEF Refused, WaitReturns, Killed, Done, LoopInv
    <2>3. LoopInv'
        BY <2>1, <2>2 DEF LoopInv
    <2>4. QED
        BY <2>1, <2>3 DEF CallsInv, FetchInv, OutcomeInv
<1>3. CASE Finish
    <2>1. UNCHANGED <<policy, nextTask, pending, batch, opened, pace, outcomes, aborted, phase,
                      attempt, result, fetched, calls, underway>>
          /\ at' = "returned" /\ at \in {"finish", "raised"}
        BY <1>3 DEF Finish, fetchVars, endpointVars
    <2>2. LoopInv'
        BY <2>1 DEF LoopInv
    <2>3. QED
        BY <2>1, <2>2 DEF CallsInv, FetchInv, OutcomeInv
<1>4. ASSUME NEW t \in Fetches, CollectRaises(t) PROVE KernelInv'
    <2>1. /\ pending' = pending \ {t} /\ batch' = {} /\ at' = "raised" /\ aborted' = TRUE
          /\ UNCHANGED <<policy, nextTask, opened, pace, outcomes, phase, attempt, result,
                         fetched, calls, underway>>
        BY <1>4 DEF CollectRaises, fetchVars, endpointVars
    <2>2. LoopInv'
        BY <2>1 DEF LoopInv
    <2>3. OutcomeInv'
        BY <2>1 DEF OutcomeInv
    <2>4. QED
        BY <2>1, <2>2, <2>3 DEF CallsInv, FetchInv
<1>5. QED
    BY <1>1, <1>2, <1>3, <1>4

LEMMA KernelStep == KernelInv /\ [KernelNext]_kernelVars => KernelInv'
<1>1. KernelInv /\ UNCHANGED kernelVars => KernelInv'
    BY DEF kernelVars, mainVars, fetchVars, endpointVars, KernelInv, CallsInv, FetchInv,
           LoopInv, OutcomeInv
<1>2. QED
    BY <1>1, CollectLateStep, CollectStep, OtherMainStep, FetchStep, EndpointStep
    DEF KernelNext, MainThread

\* Every selected task has at most one outcome, the right one, and exactly one in a run that
\* ends without an exception, whatever order the results and the opening of the circuit
\* come in (execution.py:192), and whichever of its statements a task is refused at
\* (client.py:164): a task is past nextTask and untouched, pending without an outcome, or
\* has its one, and it is answered for when no statement is missing.
THEOREM OutcomesAreRight == KernelSpec => []OneOutcome
<1>1. KernelInv => OneOutcome
    <2> SUFFICES ASSUME KernelInv PROVE OneOutcome
        OBVIOUS
    <2>1. \A x : Len(<<x>>) = 1
        OBVIOUS
    <2>2. \A t \in Fetches : outcomes[t] # <<>> => Len(outcomes[t]) = 1
        BY <2>1 DEF KernelInv, OutcomeInv
    <2>3. \A t \in Fetches : outcomes[t] = <<>> => Len(outcomes[t]) = 0
        OBVIOUS
    <2>4. ASSUME at = "returned", ~ aborted, NEW t \in Fetches PROVE outcomes[t] # <<>>
        <3>1. pending = {} /\ nextTask = TaskCount + 1 /\ TaskCount \in Nat
            BY <2>4, KernelAssumption DEF KernelInv, LoopInv
        <3>2. t < nextTask
            BY <3>1 DEF Fetches
        <3>3. QED
            BY <2>4, <3>1, <3>2 DEF KernelInv, OutcomeInv
    <2>5. \A t \in Fetches : Len(outcomes[t]) = 0 \/ Len(outcomes[t]) = 1
        BY <2>2, <2>3
    <2>6. \A n : n = 0 \/ n = 1 => n <= 1
        OBVIOUS
    <2>7. QED
        BY <2>2, <2>4, <2>5, <2>6 DEF KernelInv, FetchInv, OutcomeInv, OneOutcome
<1>2. QED
    BY <1>1, KernelInitially, KernelStep, PTL DEF KernelSpec

-----------------------------------------------------------------------------
(* The circuit breaker.  What an open circuit lets through are the calls   *)
(* that fetches past the check have left; they are counted as a set.       *)

CallsLeft ==
    {call \in Fetches \X (1..Retries) :
        phase[call[1]] \in {"passed", "calling"} /\ attempt[call[1]] < call[2]}

Allowed == (policy.workers - 1) * Retries

\* An open circuit owes each call to a fetch that had passed the check when it opened, and
\* there were fewer of those than workers.
BreakerInv ==
    /\ circuit \in {"closed", "open", "expired"} /\ late \in Nat
    /\ circuit # "open" => late = 0
    /\ circuit = "open" => late + Cardinality(CallsLeft) <= Allowed

\* The workers are never more than the policy has, and they are all a fetch runs on.
WorkersInv ==
    /\ pace.target <= policy.workers /\ Cardinality(pending) <= policy.workers
    /\ \A t \in Fetches : phase[t] \in {"submitted", "passed", "calling"} => t \in pending
    /\ \A t \in Fetches : phase[t] = "passed" => attempt[t] < Retries

CircuitInv == KernelInv /\ BreakerInv /\ WorkersInv

LEMMA Bounds ==
    ASSUME LoopInv
    PROVE  /\ policy.workers \in Nat \ {0} /\ Retries \in Nat \ {0} /\ TaskCount \in Nat
           /\ Allowed \in Nat
           /\ IsFiniteSet(pending) /\ Cardinality(pending) \in Nat
           /\ IsFiniteSet(CallsLeft) /\ Cardinality(CallsLeft) \in Nat
<1>1. policy.workers \in Nat \ {0} /\ Retries \in Nat \ {0} /\ TaskCount \in Nat
    BY KernelAssumption DEF LoopInv, PolicyType
<1>2. policy.workers - 1 \in Nat
    BY <1>1
<1>3. Allowed \in Nat
    BY <1>1, <1>2 DEF Allowed
<1>4. IsFiniteSet(Fetches) /\ IsFiniteSet(1..Retries)
    BY <1>1, FS_Interval DEF Fetches
<1>5. IsFiniteSet(pending) /\ Cardinality(pending) \in Nat
    BY <1>4, FS_Subset, FS_CardinalityType DEF LoopInv
<1>6. IsFiniteSet(Fetches \X (1..Retries)) /\ CallsLeft \in SUBSET (Fetches \X (1..Retries))
    BY <1>4, FS_Product DEF CallsLeft
<1>7. IsFiniteSet(CallsLeft) /\ Cardinality(CallsLeft) \in Nat
    BY <1>6, FS_Subset, FS_CardinalityType
<1>8. QED
    BY <1>1, <1>3, <1>5, <1>7

LEMMA CircuitInitially == KernelInit => CircuitInv
<1> SUFFICES ASSUME KernelInit PROVE CircuitInv
    OBVIOUS
<1>1. KernelInv
    BY KernelInitially
<1>2. policy.workers \in Nat \ {0}
    BY <1>1, Bounds DEF KernelInv
<1>3. pace.target = policy.workers /\ pending = {} /\ circuit = "closed" /\ late = 0
      /\ \A t \in Fetches : phase[t] = "planned"
    BY DEF KernelInit
<1>4. WorkersInv
    BY <1>2, <1>3, FS_EmptySet DEF WorkersInv
<1>5. QED
    BY <1>1, <1>3, <1>4 DEF CircuitInv, BreakerInv

-----------------------------------------------------------------------------
(* The main thread leaves the circuit alone, and submits no more than the  *)
(* target has room for.                                                    *)

LEMMA PaceBound ==
    ASSUME LoopInv, pace.target <= policy.workers, NEW success \in BOOLEAN
    PROVE  Paced(pace, success).target <= policy.workers
<1>1. pace.target \in Nat /\ policy.workers \in Nat \ {0}
    BY Bounds DEF LoopInv
<1>2. Decreased(pace) <= policy.workers /\ Increased(pace) <= policy.workers
    BY <1>1 DEF Decreased, Increased
<1>3. QED
    BY <1>2 DEF Paced

LEMMA RoomIsKept ==
    ASSUME NEW rest \in SUBSET Fetches, NEW from \in 1..TaskCount + 1, NEW stop \in BOOLEAN,
           NEW target \in Nat, NEW most \in Nat, Cardinality(rest) <= most, target <= most
    PROVE  Cardinality(rest \cup Submissions(rest, from, stop, target)) <= most
<1> DEFINE new == Submissions(rest, from, stop, target)
           room == from..from + target - Cardinality(rest) - 1
<1>1. IsFiniteSet(Fetches) /\ TaskCount \in Nat
    BY KernelAssumption, FS_Interval DEF Fetches
<1>2. IsFiniteSet(rest) /\ Cardinality(rest) \in Nat
    BY <1>1, FS_Subset, FS_CardinalityType
<1>3. from \in Int /\ from + target - Cardinality(rest) - 1 \in Int
    BY <1>1, <1>2
<1>4. /\ IsFiniteSet(room)
      /\ Cardinality(room) = IF Cardinality(rest) >= target THEN 0 ELSE target - Cardinality(rest)
    <2> DEFINE last == from + target - Cardinality(rest) - 1
    <2>1. IsFiniteSet(from..last) /\ Cardinality(from..last) = IF from > last THEN 0 ELSE last - from + 1
        BY <1>3, FS_Interval
    <2>2. /\ from > last <=> Cardinality(rest) >= target
          /\ last - from + 1 = target - Cardinality(rest)
        BY <1>2, <1>3
    <2> HIDE DEF last
    <2>3. Cardinality(from..last) = IF Cardinality(rest) >= target THEN 0 ELSE target - Cardinality(rest)
        BY <2>1, <2>2
    <2>4. QED
        BY <2>1, <2>3 DEF last
<1>5. new \in SUBSET room
    <2>1. \A t \in new : t \in Int /\ from <= t /\ t < from + target - Cardinality(rest)
        BY <1>1 DEF Submissions, Fetches
    <2>2. \A t \in new : t \in room
        BY <1>2, <1>3, <2>1
    <2>3. QED
        BY <2>2
<1> HIDE DEF room, new
<1>6. IsFiniteSet(new) /\ Cardinality(new) \in Nat /\ Cardinality(new) <= Cardinality(room)
    BY <1>4, <1>5, FS_Subset, FS_CardinalityType
<1>7. CASE Cardinality(rest) >= target
    <2>1. Cardinality(new) = 0
        BY <1>4, <1>6, <1>7
    <2>2. new = {}
        BY <1>6, <2>1, FS_EmptySet
    <2>3. QED
        BY <2>2 DEF new
<1>8. CASE ~ (Cardinality(rest) >= target)
    <2>1. Cardinality(rest) + Cardinality(new) <= target
        BY <1>2, <1>4, <1>6, <1>8
    <2>2. /\ Cardinality(rest \cup new) =
                Cardinality(rest) + Cardinality(new) - Cardinality(rest \cap new)
          /\ Cardinality(rest \cap new) \in Nat
        BY <1>2, <1>6, FS_Union, FS_Intersection, FS_CardinalityType
    <2>3. Cardinality(rest \cup new) <= most
        BY <1>2, <1>6, <2>1, <2>2
    <2>4. QED
        BY <2>3 DEF new
<1>9. QED
    BY <1>7, <1>8

\* What a step of the main thread does to the fetches and to the pool.
Supplied ==
    /\ \A t \in Fetches : phase'[t] = phase[t] \/ (phase'[t] = "submitted" /\ phase[t] = "planned")
    /\ \A t \in Fetches : phase'[t] \in {"submitted", "passed", "calling"} => t \in pending'
    /\ Cardinality(pending') <= policy.workers /\ pace'.target <= policy.workers
    /\ UNCHANGED <<policy, attempt, circuit, late>>

LEMMA SuppliedKeeps ==
    ASSUME CircuitInv, Supplied
    PROVE  BreakerInv' /\ WorkersInv'
<1>1. /\ \A t \in Fetches : phase'[t] \in {"passed", "calling"} <=> phase[t] \in {"passed", "calling"}
      /\ attempt' = attempt
    BY DEF Supplied
<1>2. CallsLeft' = CallsLeft
    BY <1>1 DEF CallsLeft
<1>3. BreakerInv'
    BY <1>2 DEF CircuitInv, BreakerInv, Supplied, Allowed
<1>4. QED
    BY <1>3 DEF CircuitInv, WorkersInv, Supplied

LEMMA SubmitSupplies ==
    ASSUME CircuitInv, NEW rest \in SUBSET pending, NEW from \in nextTask..TaskCount + 1,
           NEW stop \in BOOLEAN, pace'.target \in Nat, pace'.target <= policy.workers,
           \A t \in pending : t \in rest \/ phase[t] = "done",
           Submit(rest, from, stop, pace'.target), UNCHANGED <<policy, attempt, circuit, late>>
    PROVE  Supplied
<1> DEFINE new == Submissions(rest, from, stop, pace'.target)
<1> USE DEF CircuitInv, KernelInv
<1>0. /\ TaskCount \in Nat /\ policy.workers \in Nat /\ pending \subseteq Fetches
      /\ nextTask \in 1..TaskCount + 1 /\ IsFiniteSet(pending) /\ Cardinality(pending) \in Nat
    BY Bounds DEF LoopInv
<1>1. pending' = rest \cup new
      /\ phase' = [t \in Fetches |-> IF t \in new THEN "submitted" ELSE phase[t]]
    BY DEF Submit
<1>2. \A t \in new : phase[t] = "planned"
    <2>1. \A t \in new : t \in from..TaskCount
        BY <1>0 DEF Submissions, Fetches
    <2>2. \A t \in new : t \in nextTask..TaskCount
        BY <1>0, <2>1
    <2>3. QED
        BY <2>2 DEF LoopInv
<1>3. Cardinality(rest) <= Cardinality(pending) /\ Cardinality(rest) \in Nat
    BY <1>0, FS_Subset, FS_CardinalityType
<1>4. Cardinality(rest) <= policy.workers
    BY <1>0, <1>3 DEF WorkersInv
<1>5. rest \in SUBSET Fetches /\ from \in 1..TaskCount + 1
    BY <1>0
<1>6. Cardinality(rest \cup new) <= policy.workers
    BY <1>0, <1>4, <1>5, RoomIsKept
<1> HIDE DEF new
<1>7. \A t \in Fetches : phase'[t] = phase[t] \/ (phase'[t] = "submitted" /\ phase[t] = "planned")
    BY <1>1, <1>2
<1>8. \A t \in Fetches : phase'[t] \in {"submitted", "passed", "calling"} => t \in pending'
    BY <1>1, <1>7 DEF WorkersInv
<1>9. QED
    BY <1>1, <1>6, <1>7, <1>8 DEF Supplied

LEMMA CollectedSupplies ==
    ASSUME CircuitInv, NEW t \in batch, NEW from \in {nextTask, TaskCount + 1},
           NEW stop \in BOOLEAN, pace'.target \in Nat, pace'.target <= policy.workers,
           Collected(t, from, stop, pace'.target), UNCHANGED <<policy, attempt, circuit, late>>
    PROVE  Supplied
<1> USE DEF CircuitInv, KernelInv
<1>1. /\ TaskCount \in Nat /\ nextTask \in 1..TaskCount + 1 /\ pending \subseteq Fetches
      /\ phase[t] = "done" /\ t \in pending
      /\ IsFiniteSet(pending) /\ Cardinality(pending) \in Nat /\ policy.workers \in Nat
    BY Bounds DEF LoopInv
<1>2. CASE Submit(pending \ {t}, from, stop, pace'.target)
    <2>1. from \in nextTask..TaskCount + 1 /\ pending \ {t} \in SUBSET pending
        BY <1>1
    <2>2. \A u \in pending : u \in pending \ {t} \/ phase[u] = "done"
        BY <1>1
    <2>3. QED
        BY <1>2, <2>1, <2>2, SubmitSupplies
<1>3. CASE pending' = pending \ {t} /\ phase' = phase
    <2>1. Cardinality(pending') = Cardinality(pending) - 1
        BY <1>1, <1>3, FS_RemoveElement
    <2>2. Cardinality(pending') <= policy.workers
        BY <1>1, <2>1 DEF WorkersInv
    <2>3. \A u \in Fetches : phase'[u] \in {"submitted", "passed", "calling"} => u \in pending'
        BY <1>1, <1>3 DEF WorkersInv
    <2>4. QED
        BY <1>3, <2>2, <2>3 DEF Supplied
<1>4. QED
    BY <1>2, <1>3 DEF Collected

LEMMA MainSupplies ==
    ASSUME CircuitInv, MainThread \/ Killed \/ \E t \in Fetches : CollectRaises(t)
    PROVE  Supplied
<1> USE DEF CircuitInv, KernelInv
<1>0. pace.target \in Nat \ {0} /\ pace.target <= policy.workers /\ policy.workers \in Nat
      /\ opened \in BOOLEAN
    BY Bounds DEF LoopInv, WorkersInv
<1>1. CASE Begin
    <2>1. /\ Submit({}, 1, FALSE, pace'.target) /\ pace' = pace /\ nextTask = 1 /\ pending = {}
          /\ UNCHANGED <<policy, attempt, circuit, late>> /\ TaskCount \in Nat
        BY <1>1, Bounds DEF Begin, LoopInv, endpointVars
    <2>2. 1 \in nextTask..TaskCount + 1 /\ {} \in SUBSET pending /\ FALSE \in BOOLEAN
        BY <2>1
    <2>3. QED
        BY <1>0, <2>1, <2>2, SubmitSupplies
<1>2. ASSUME NEW t \in Fetches, CollectLate(t) PROVE Supplied
    <2>1. /\ t \in batch /\ Collected(t, nextTask, opened, pace'.target) /\ pace' = pace
          /\ UNCHANGED <<policy, attempt, circuit, late>>
        BY <1>2 DEF CollectLate, endpointVars
    <2>2. QED
        BY <1>0, <2>1, CollectedSupplies
<1>3. ASSUME NEW t \in Fetches, Collect(t) PROVE Supplied
    <2> DEFINE stops == policy.stop /\ result[t] = "open"
               from == IF stops THEN TaskCount + 1 ELSE nextTask
    <2>1. /\ t \in batch /\ Collected(t, from, opened', pace'.target)
          /\ pace' = Paced(pace, result[t] = "ok") /\ opened' = (opened \/ stops)
          /\ UNCHANGED <<policy, attempt, circuit, late>>
        BY <1>3 DEF Collect, endpointVars
    <2>2. policy.stop \in BOOLEAN
        BY DEF LoopInv, PolicyType
    <2>3. opened' \in BOOLEAN /\ from \in {nextTask, TaskCount + 1}
        BY <1>0, <2>1, <2>2
    <2>4. pace'.target \in Nat \ {0} /\ pace'.target <= policy.workers
        BY <1>0, <2>1, PaceType, PaceBound
    <2> HIDE DEF from
    <2>5. QED
        BY <2>1, <2>3, <2>4, CollectedSupplies
<1>4. ASSUME UNCHANGED <<policy, pace, phase, attempt, circuit, late>>,
             pending' = pending \/ \E t \in batch : pending' = pending \ {t}
      PROVE  Supplied
    <2>1. /\ IsFiniteSet(pending) /\ Cardinality(pending) \in Nat /\ batch \subseteq pending
          /\ \A t \in batch : phase[t] = "done"
        BY Bounds DEF LoopInv
    <2>2. \A t \in batch : Cardinality(pending \ {t}) <= Cardinality(pending)
        BY <2>1, FS_Subset
    <2>3. Cardinality(pending') <= policy.workers
        <3>1. CASE pending' = pending
            BY <3>1 DEF WorkersInv
        <3>2. ASSUME NEW t \in batch, pending' = pending \ {t}
              PROVE  Cardinality(pending') <= policy.workers
            <4>1. Cardinality(pending \ {t}) = Cardinality(pending) - 1
                BY <2>1, FS_RemoveElement
            <4>2. QED
                BY <1>0, <2>1, <3>2, <4>1 DEF WorkersInv
        <3>3. QED
            BY <1>4, <3>1, <3>2
    <2>4. \A t \in Fetches : phase'[t] \in {"submitted", "passed", "calling"} => t \in pending'
        BY <1>4, <2>1 DEF WorkersInv
    <2>5. QED
        BY <1>0, <1>4, <2>3, <2>4 DEF Supplied
<1>5. CASE Refused \/ WaitReturns \/ Finish \/ Killed
    BY <1>4, <1>5 DEF Refused, WaitReturns, Finish, Killed, fetchVars, endpointVars
<1>6. ASSUME NEW t \in Fetches, CollectRaises(t) PROVE Supplied
    BY <1>4, <1>6 DEF CollectRaises, fetchVars, endpointVars
<1>7. QED
    BY <1>1, <1>2, <1>3, <1>5, <1>6 DEF MainThread

-----------------------------------------------------------------------------
(* The fetches and the endpoint                                            *)

\* When the circuit opens, the fetch that opened it is done, and each of the others under
\* way has its retries left at most.
LEMMA LeftWhenItOpens ==
    ASSUME CircuitInv, NEW t \in pending,
           \A u \in Fetches : phase'[u] \in {"passed", "calling"} => u \in pending \ {t}
    PROVE  Cardinality(CallsLeft') <= Allowed /\ Cardinality(CallsLeft') \in Nat
<1> USE DEF CircuitInv, KernelInv
<1>1. /\ policy.workers \in Nat \ {0} /\ Retries \in Nat \ {0}
      /\ IsFiniteSet(pending) /\ Cardinality(pending) \in Nat
    BY Bounds
<1>2. /\ IsFiniteSet(pending \ {t}) /\ Cardinality(pending \ {t}) = Cardinality(pending) - 1
      /\ Cardinality(pending \ {t}) \in Nat
    BY <1>1, FS_RemoveElement, FS_CardinalityType
<1>3. IsFiniteSet(1..Retries) /\ Cardinality(1..Retries) = Retries
    <2>1. 1 \in Int /\ Retries \in Int /\ ~ (1 > Retries) /\ Retries - 1 + 1 = Retries
        BY <1>1
    <2>2. /\ IsFiniteSet(1..Retries)
          /\ Cardinality(1..Retries) = IF 1 > Retries THEN 0 ELSE Retries - 1 + 1
        BY <2>1, FS_Interval
    <2>3. QED
        BY <2>1, <2>2
<1> DEFINE others == (pending \ {t}) \X (1..Retries)
<1>4. IsFiniteSet(others) /\ Cardinality(others) = (Cardinality(pending) - 1) * Retries
    <2>1. IsFiniteSet(others)
          /\ Cardinality(others) = Cardinality(pending \ {t}) * Cardinality(1..Retries)
        BY <1>2, <1>3, FS_Product
    <2> HIDE DEF others
    <2>2. QED
        BY <1>2, <1>3, <2>1
<1>5. CallsLeft' \in SUBSET others
    BY DEF CallsLeft
<1> HIDE DEF others
<1>6. Cardinality(CallsLeft') <= (Cardinality(pending) - 1) * Retries
      /\ Cardinality(CallsLeft') \in Nat
    BY <1>4, <1>5, FS_Subset, FS_CardinalityType
<1>7. (Cardinality(pending) - 1) * Retries <= (policy.workers - 1) * Retries
    <2>1. \A a, b, c \in Nat : a <= b => a * c <= b * c
        OBVIOUS
    <2>2. Cardinality(pending) - 1 \in Nat /\ policy.workers - 1 \in Nat
          /\ Cardinality(pending) - 1 <= policy.workers - 1
        BY <1>1, <1>2 DEF WorkersInv
    <2>3. QED
        BY <1>1, <2>1, <2>2
<1>8. (Cardinality(pending) - 1) * Retries \in Int
    BY <1>1
<1>9. Allowed \in Int
    BY Bounds
<1>10. QED
    BY <1>6, <1>7, <1>8, <1>9 DEF Allowed

\* Calls are not added to those left, unless the circuit is closed or asked about.
LEMMA LeftFewer ==
    ASSUME CircuitInv, CallsLeft' \subseteq CallsLeft, UNCHANGED <<policy, late>>
    PROVE  circuit = "open" => late' + Cardinality(CallsLeft') <= Allowed'
<1> USE DEF CircuitInv, KernelInv
<1>1. /\ IsFiniteSet(CallsLeft) /\ Cardinality(CallsLeft) \in Nat /\ late \in Nat
      /\ Allowed \in Nat
    BY Bounds DEF BreakerInv
<1>2. Cardinality(CallsLeft') <= Cardinality(CallsLeft) /\ Cardinality(CallsLeft') \in Nat
    BY <1>1, FS_Subset, FS_CardinalityType
<1>3. Allowed' = Allowed
    BY DEF Allowed
<1>4. QED
    BY <1>1, <1>2, <1>3 DEF BreakerInv

LEMMA CircuitFetchStep ==
    ASSUME CircuitInv, NEW t \in Fetches, Fetch(t) \/ Answered(t) \/ CallFails(t)
    PROVE  BreakerInv' /\ WorkersInv'
<1> USE DEF CircuitInv, KernelInv
<1>0. /\ UNCHANGED <<policy, pace, pending>>
      /\ phase \in [Fetches -> {"planned", "submitted", "passed", "calling", "done"}]
      /\ attempt \in [Fetches -> Nat]
      /\ policy.workers \in Nat \ {0} /\ Retries \in Nat \ {0} /\ Allowed \in Nat
    <2>1. UNCHANGED <<policy, pace, pending>>
        BY DEF Fetch, Enter, Call, TimesOut, Answered, CallFails, mainVars
    <2>2. QED
        BY <2>1, Bounds DEF FetchInv
<1>1. /\ \A u \in pending : u \in Fetches
      /\ \A u \in Fetches : phase[u] \in {"submitted", "passed", "calling"} => u \in pending
      /\ \A u \in Fetches : phase[u] = "passed" => attempt[u] < Retries
    BY DEF WorkersInv, LoopInv
<1>2. ASSUME phase[t] \in {"submitted", "passed", "calling"},
             phase' \in {[phase EXCEPT ![t] = p] :
                            p \in {"submitted", "passed", "calling", "done"}},
             phase'[t] = "passed" => attempt'[t] < Retries,
             \A u \in Fetches : u # t => attempt'[u] = attempt[u]
      PROVE  /\ WorkersInv'
             /\ \A u \in Fetches : u # t => phase'[u] = phase[u] /\ attempt'[u] = attempt[u]
    BY <1>0, <1>1, <1>2 DEF WorkersInv
<1>3. CASE Enter(t)
    <2>1. /\ phase[t] = "submitted" /\ UNCHANGED <<attempt, late>>
          /\ phase' \in {[phase EXCEPT ![t] = p] :
                            p \in {"submitted", "passed", "calling", "done"}}
          /\ \/ circuit = "open" /\ circuit' = circuit /\ phase'[t] = "done"
             \/ circuit # "open" /\ circuit' \in {circuit, "closed"}
        BY <1>0, <1>3 DEF Enter, Ends, Refuses
    <2>2. attempt[t] = 0
        BY <2>1 DEF FetchInv
    <2>3. WorkersInv' /\ \A u \in Fetches : u # t => phase'[u] = phase[u]
        BY <1>0, <1>2, <2>1, <2>2
    <2>4. CASE circuit = "open"
        <3>1. CallsLeft' \subseteq CallsLeft
            BY <2>1, <2>3, <2>4 DEF CallsLeft
        <3>2. QED
            BY <1>0, <2>1, <2>3, <2>4, <3>1, LeftFewer DEF BreakerInv
    <2>5. CASE circuit # "open"
        BY <2>1, <2>3, <2>5 DEF BreakerInv
    <2>6. QED
        BY <2>4, <2>5
<1>4. CASE Call(t)
    <2>1. /\ phase[t] = "passed" /\ phase' = [phase EXCEPT ![t] = "calling"]
          /\ attempt' = [attempt EXCEPT ![t] = @ + 1] /\ circuit' = circuit
          /\ late' = IF circuit = "open" THEN late + 1 ELSE late
        BY <1>4 DEF Call
    <2>2. WorkersInv' /\ phase'[t] = "calling" /\ attempt'[t] = attempt[t] + 1
          /\ \A u \in Fetches : u # t => phase'[u] = phase[u] /\ attempt'[u] = attempt[u]
        BY <1>0, <1>2, <2>1
    <2> DEFINE call == <<t, attempt[t] + 1>>
    <2>3. call \in CallsLeft
        BY <1>0, <1>1, <2>1 DEF CallsLeft
    <2>4. CallsLeft' \subseteq CallsLeft \ {call}
        <3>1. ASSUME NEW c \in CallsLeft' PROVE c \in CallsLeft /\ c # call
            <4>1. /\ c \in Fetches \X (1..Retries) /\ phase'[c[1]] \in {"passed", "calling"}
                  /\ attempt'[c[1]] < c[2] /\ c[2] \in Nat
                BY <1>0 DEF CallsLeft
            <4>2. CASE c[1] = t
                BY <1>0, <2>1, <2>2, <4>1, <4>2 DEF CallsLeft
            <4>3. CASE c[1] # t
                BY <2>2, <4>1, <4>3 DEF CallsLeft
            <4>4. QED
                BY <4>2, <4>3
        <3>2. QED
            BY <3>1
    <2> HIDE DEF call
    <2>5. CASE circuit = "open"
        <3>1. IsFiniteSet(CallsLeft) /\ Cardinality(CallsLeft) \in Nat /\ late \in Nat
            BY Bounds DEF BreakerInv
        <3>2. /\ IsFiniteSet(CallsLeft \ {call})
              /\ Cardinality(CallsLeft \ {call}) = Cardinality(CallsLeft) - 1
            BY <2>3, <3>1, FS_RemoveElement
        <3>3. Cardinality(CallsLeft') <= Cardinality(CallsLeft) - 1
              /\ Cardinality(CallsLeft') \in Nat
            BY <2>4, <3>2, FS_Subset, FS_CardinalityType
        <3>4. late + Cardinality(CallsLeft) <= Allowed /\ late' = late + 1 /\ Allowed' = Allowed
            BY <1>0, <2>1, <2>5 DEF BreakerInv, Allowed
        <3>5. late' + Cardinality(CallsLeft') <= Allowed' /\ late' \in Nat
            BY <1>0, <3>1, <3>3, <3>4
        <3>6. QED
            BY <2>1, <2>2, <2>5, <3>5 DEF BreakerInv
    <2>6. CASE circuit # "open"
        BY <2>1, <2>2, <2>6 DEF BreakerInv
    <2>7. QED
        BY <2>5, <2>6
<1>5. ASSUME \* the call is over: t is tried again, comes to its next statement or is done
             phase[t] = "calling",
             \/ TryAgain(t) /\ attempt' = attempt
             \/ StatementFetched(t) /\ RecordSuccess
             \/ /\ Ends(t, "failed") /\ attempt' = attempt
                /\ RecordFailure \/ UNCHANGED <<failures, circuit, late>>
      PROVE  BreakerInv' /\ WorkersInv'
    <2>1. /\ phase' \in {[phase EXCEPT ![t] = p] :
                            p \in {"submitted", "passed", "calling", "done"}}
          /\ phase'[t] \in {"submitted", "passed", "done"}
          /\ phase'[t] = "passed" => attempt' = attempt /\ attempt'[t] < Retries
          /\ \A u \in Fetches : u # t => attempt'[u] = attempt[u]
          /\ \/ UNCHANGED <<circuit, late>> /\ attempt' = attempt /\ phase'[t] \in {"passed", "done"}
             \/ RecordSuccess
             \/ phase'[t] = "done" /\ RecordFailure
        <3>1. CASE TryAgain(t) /\ attempt' = attempt
            BY <1>0, <1>5, <3>1 DEF TryAgain, Ends
        <3>2. CASE StatementFetched(t) /\ RecordSuccess
            BY <1>0, <1>5, <3>2 DEF StatementFetched, Ends
        <3>3. CASE /\ Ends(t, "failed") /\ attempt' = attempt
                   /\ RecordFailure \/ UNCHANGED <<failures, circuit, late>>
            BY <1>0, <1>5, <3>3 DEF Ends
        <3>4. QED
            BY <1>5, <3>1, <3>2, <3>3
    <2>2. WorkersInv' /\ t \in pending
          /\ \A u \in Fetches : u # t => phase'[u] = phase[u] /\ attempt'[u] = attempt[u]
        BY <1>1, <1>2, <1>5, <2>1
    <2>3. CallsLeft' \subseteq CallsLeft
        <3>1. \A c \in CallsLeft' : c[1] = t => phase'[t] = "passed" /\ attempt'[t] = attempt[t]
            BY <2>1 DEF CallsLeft
        <3>2. QED
            BY <1>5, <2>2, <3>1 DEF CallsLeft
    <2>4. CASE UNCHANGED <<circuit, late>>
        BY <1>0, <2>2, <2>3, <2>4, LeftFewer DEF BreakerInv
    <2>5. CASE RecordSuccess
        BY <2>2, <2>5 DEF RecordSuccess, BreakerInv
    <2>6. CASE RecordFailure /\ phase'[t] = "done"
        <3>1. CASE circuit' = "open" /\ circuit # "open"
            <4>1. late' = 0
                BY <2>6, <3>1 DEF RecordFailure
            <4>2. \A u \in Fetches : phase'[u] \in {"passed", "calling"} => u \in pending \ {t}
                BY <1>1, <2>2, <2>6
            <4>3. Cardinality(CallsLeft') <= Allowed /\ Cardinality(CallsLeft') \in Nat
                BY <2>2, <4>2, LeftWhenItOpens
            <4>4. Allowed' = Allowed
                BY <1>0 DEF Allowed
            <4>5. QED
                BY <1>0, <2>2, <3>1, <4>1, <4>3, <4>4 DEF BreakerInv
        <3>2. CASE ~ (circuit' = "open" /\ circuit # "open")
            <4>1. late' = late /\ circuit' = circuit
                BY <2>6, <3>2 DEF RecordFailure
            <4>2. QED
                BY <1>0, <2>2, <2>3, <4>1, LeftFewer DEF BreakerInv
        <3>3. QED
            BY <3>1, <3>2
    <2>7. QED
        BY <2>1, <2>4, <2>5, <2>6
<1>6. CASE Answered(t) \/ CallFails(t)
    <2>1. phase[t] = "calling"
        BY <1>6 DEF Answered, CallFails, CallsInv
    <2>2. QED
        BY <1>5, <1>6, <2>1 DEF Answered, CallFails
<1>7. CASE TimesOut(t)
    BY <1>5, <1>7 DEF TimesOut
<1>8. QED
    BY <1>3, <1>4, <1>6, <1>7 DEF Fetch

LEMMA CircuitEndpointStep ==
    CircuitInv /\ (ThreadTakes \/ HungReturns \/ CooldownPasses) => BreakerInv' /\ WorkersInv'
<1> SUFFICES ASSUME CircuitInv, ThreadTakes \/ HungReturns \/ CooldownPasses
             PROVE  BreakerInv' /\ WorkersInv'
    OBVIOUS
<1>1. /\ UNCHANGED <<policy, pace, pending, phase, attempt>>
      /\ \/ UNCHANGED <<circuit, late>>
         \/ circuit' = "expired" /\ late' = 0
    BY DEF ThreadTakes, HungReturns, CooldownPasses, mainVars, fetchVars
<1>2. CallsLeft' = CallsLeft /\ Allowed' = Allowed
    BY <1>1 DEF CallsLeft, Allowed
<1>3. BreakerInv'
    BY <1>1, <1>2 DEF CircuitInv, BreakerInv
<1>4. WorkersInv'
    BY <1>1 DEF CircuitInv, WorkersInv
<1>5. QED
    BY <1>3, <1>4

LEMMA CircuitStep == CircuitInv /\ [KernelNext]_kernelVars => CircuitInv'
<1> SUFFICES ASSUME CircuitInv, [KernelNext]_kernelVars PROVE CircuitInv'
    OBVIOUS
<1>1. KernelInv'
    BY KernelStep DEF CircuitInv
<1>2. CASE UNCHANGED kernelVars
    <2>1. UNCHANGED <<policy, pace, pending, phase, attempt, circuit, late>>
        BY <1>2 DEF kernelVars, mainVars, fetchVars, endpointVars
    <2>2. CallsLeft' = CallsLeft /\ Allowed' = Allowed
        BY <2>1 DEF CallsLeft, Allowed
    <2>3. BreakerInv' /\ WorkersInv'
        BY <2>1, <2>2 DEF CircuitInv, BreakerInv, WorkersInv
    <2>4. QED
        BY <1>1, <2>3 DEF CircuitInv
<1>3. CASE MainThread \/ Killed \/ \E t \in Fetches : CollectRaises(t)
    BY <1>1, <1>3, MainSupplies, SuppliedKeeps DEF CircuitInv
<1>4. CASE ThreadTakes \/ HungReturns \/ CooldownPasses
    BY <1>1, <1>4, CircuitEndpointStep DEF CircuitInv
<1>5. ASSUME NEW t \in Fetches, Fetch(t) \/ Answered(t) \/ CallFails(t) PROVE CircuitInv'
    BY <1>1, <1>5, CircuitFetchStep DEF CircuitInv
<1>6. QED
    BY <1>2, <1>3, <1>4, <1>5 DEF KernelNext

\* An open circuit lets through no more calls than the other workers have retries left,
\* however results, timeouts and the threads that hang come together: each fetch asks once
\* for all its attempts (runtime.py:90).
THEOREM OpenCircuitHolds == KernelSpec => []CircuitHolds
<1>1. CircuitInv => CircuitHolds
    <2> SUFFICES ASSUME CircuitInv PROVE late <= Allowed
        BY DEF CircuitHolds, Allowed
    <2>1. Allowed \in Nat /\ Cardinality(CallsLeft) \in Nat /\ late \in Nat
        BY Bounds DEF CircuitInv, KernelInv, BreakerInv
    <2>2. QED
        BY <2>1 DEF CircuitInv, BreakerInv
<1>2. QED
    BY <1>1, CircuitInitially, CircuitStep, PTL DEF KernelSpec

=============================================================================
