--------------------------- MODULE UpdatePoolProofs ---------------------------
(***************************************************************************)
(* Proofs about UpdatePool, for every list of codes, number of threads and *)
(* limit of pending tasks.                                                 *)
(***************************************************************************)
EXTENDS UpdatePool, FiniteSetTheorems, SequenceTheorems, TLAPS

\* What the main thread is in when it begins to drain: nothing, or the submission of a
\* task that waits for room.
Bases == {<<>>} \cup {Append(<<>>, Submit(t)) : t \in Tasks}

\* A drain of S in the course of base; its bookkeeping; and the submission of the data it
\* fetched for c.
Draining(base, S) == Append(base, Drain(S))
Recording(base, S) == Append(Draining(base, S), RecordCall)
Resubmitting(base, S, c) == Append(Recording(base, S), Submit(Refetch(c)))

\* The calls the main thread may be in.  A refetch finds room: the result that asks for it
\* has just left pending.
Shape ==
    \/ calls \in Bases
    \/ \E base \in Bases, S \in SUBSET (pending \cap done) :
        \/ calls = Draining(base, S)
        \/ calls = Recording(base, S)
        \/ /\ Cardinality(pending) < MaxPending
           /\ \E c \in Stocks : calls = Resubmitting(base, S, c)

PoolInv ==
    /\ PoolTypeOK /\ Shape /\ PendingBounded
    /\ IsFiniteSet(pending)
    /\ \A n \in DOMAIN queue : queue[n] \in Submitted

-----------------------------------------------------------------------------
(* Stacks                                                                  *)

LEMMA FrameTypes ==
    /\ \A t \in Tasks : Submit(t) \in Frames
    /\ \A S \in SUBSET Tasks : Drain(S) \in Frames
    /\ RecordCall \in Frames
    /\ \A c \in Stocks : Refetch(c) \in Tasks /\ DailyTask(c) \in Tasks /\ Factor(c) \in Tasks
    /\ FlushTask \in Tasks
BY DEF Submit, Drain, RecordCall, Frames, Refetch, DailyTask, Factor, FlushTask, Tasks, CodeTask

LEMMA FrameKinds ==
    /\ \A t : Submit(t).call = "submit" /\ Submit(t).task = t
    /\ \A S : Drain(S).call = "drain" /\ Drain(S).rest = S
    /\ RecordCall.call = "record"
BY DEF Submit, Drain, RecordCall

\* What is on top of a stack, and what is below it.
LEMMA Popped ==
    ASSUME NEW s \in Seq(Frames), NEW f \in Frames, calls = Append(s, f)
    PROVE  calls \in Seq(Frames) /\ ~ Idle /\ Top = f /\ Below = s
<1>1. /\ calls \in Seq(Frames) /\ calls # <<>> /\ Len(calls) = Len(s) + 1 /\ Len(s) \in Nat
      /\ \A i \in 1..Len(s) : calls[i] = s[i]
      /\ calls[Len(s) + 1] = f
    BY AppendProperties, LenProperties
<1>2. Below = SubSeq(calls, 1, Len(s))
    BY <1>1 DEF Below
<1>3. \A i \in 1..Len(s) : calls[i] \in Frames
    BY <1>1, ElementOfSeq
<1>4. /\ Below \in Seq(Frames) /\ Len(Below) = Len(s)
      /\ \A i \in 1..Len(s) : Below[i] = s[i]
    <2>1. 1 \in Int /\ Len(s) \in Int
        BY <1>1
    <2>2. /\ SubSeq(calls, 1, Len(s)) \in Seq(Frames)
          /\ Len(SubSeq(calls, 1, Len(s))) = IF 1 <= Len(s) THEN Len(s) - 1 + 1 ELSE 0
          /\ \A i \in 1..Len(s) - 1 + 1 : SubSeq(calls, 1, Len(s))[i] = calls[1 + i - 1]
        BY <2>1, <1>3, SubSeqProperties
    <2>3. QED
        BY <2>2, <1>1, <1>2
<1>5. Below = s
    BY <1>4, SeqEqual
<1>6. QED
    BY <1>1, <1>5 DEF Idle, Top

LEMMA StackTypes ==
    ASSUME NEW base \in Bases, NEW S \in SUBSET Tasks
    PROVE  /\ base \in Seq(Frames) /\ Draining(base, S) \in Seq(Frames)
           /\ Recording(base, S) \in Seq(Frames)
           /\ \A c \in Stocks : Resubmitting(base, S, c) \in Seq(Frames)
<1>1. base \in Seq(Frames)
    <2>1. <<>> \in Seq(Frames)
        BY EmptySeq
    <2>2. \A t \in Tasks : Append(<<>>, Submit(t)) \in Seq(Frames)
        BY <2>1, FrameTypes, AppendProperties
    <2>3. QED
        BY <2>1, <2>2 DEF Bases
<1>2. Draining(base, S) \in Seq(Frames)
    BY <1>1, FrameTypes, AppendProperties DEF Draining
<1>3. Recording(base, S) \in Seq(Frames)
    BY <1>2, FrameTypes, AppendProperties DEF Recording
<1>4. \A c \in Stocks : Resubmitting(base, S, c) \in Seq(Frames)
    BY <1>3, FrameTypes, AppendProperties DEF Resubmitting
<1>5. QED
    BY <1>1, <1>2, <1>3, <1>4

\* What is on top says how far the drain is, if there is one.
LEMMA TopCases ==
    ASSUME PoolTypeOK, Shape, ~ Idle
    PROVE  \/ \E t \in Tasks :
                calls = Append(<<>>, Submit(t)) /\ Top = Submit(t) /\ Below = <<>>
           \/ \E base \in Bases, S \in SUBSET (pending \cap done) :
                \/ Top = Drain(S) /\ Below = base
                \/ Top = RecordCall /\ Below = Draining(base, S)
                \/ /\ Cardinality(pending) < MaxPending
                   /\ \E c \in Stocks : Top = Submit(Refetch(c)) /\ Below = Recording(base, S)
<1>1. pending \subseteq Tasks
    BY DEF PoolTypeOK, Submitted
<1>2. CASE calls \in Bases
    <2>1. PICK t \in Tasks : calls = Append(<<>>, Submit(t))
        BY <1>2 DEF Bases, Idle
    <2>2. Top = Submit(t) /\ Below = <<>>
        BY <2>1, FrameTypes, EmptySeq, Popped
    <2>3. QED
        BY <2>1, <2>2
<1>3. ASSUME NEW base \in Bases, NEW S \in SUBSET (pending \cap done),
             calls = Draining(base, S)
      PROVE  Top = Drain(S) /\ Below = base
    <2>1. S \in SUBSET Tasks
        BY <1>1
    <2>2. QED
        BY <1>3, <2>1, StackTypes, FrameTypes, Popped DEF Draining
<1>4. ASSUME NEW base \in Bases, NEW S \in SUBSET (pending \cap done),
             calls = Recording(base, S)
      PROVE  Top = RecordCall /\ Below = Draining(base, S)
    <2>1. S \in SUBSET Tasks
        BY <1>1
    <2>2. QED
        BY <1>4, <2>1, StackTypes, FrameTypes, Popped DEF Recording
<1>5. ASSUME NEW base \in Bases, NEW S \in SUBSET (pending \cap done),
             NEW c \in Stocks, calls = Resubmitting(base, S, c)
      PROVE  Top = Submit(Refetch(c)) /\ Below = Recording(base, S)
    <2>1. S \in SUBSET Tasks
        BY <1>1
    <2>2. QED
        BY <1>5, <2>1, StackTypes, FrameTypes, Popped DEF Resubmitting
<1>6. CASE calls \notin Bases
    <2>1. PICK base \in Bases, S \in SUBSET (pending \cap done) :
            \/ calls = Draining(base, S)
            \/ calls = Recording(base, S)
            \/ /\ Cardinality(pending) < MaxPending
               /\ \E c \in Stocks : calls = Resubmitting(base, S, c)
        BY <1>6 DEF Shape
    <2>2. \/ Top = Drain(S) /\ Below = base
          \/ Top = RecordCall /\ Below = Draining(base, S)
          \/ /\ Cardinality(pending) < MaxPending
             /\ \E c \in Stocks : Top = Submit(Refetch(c)) /\ Below = Recording(base, S)
        BY <2>1, <1>3, <1>4, <1>5
    <2>3. QED
        BY <2>2
<1>7. QED
    BY <1>2, <1>6

\* Collecting a result leaves a drain of the others, and puts what it asks for on top.
LEMMA Stacked ==
    ASSUME NEW base \in Bases, NEW S \in SUBSET Tasks
    PROVE  /\ base \o <<Drain(S), RecordCall>> \o <<>> = Recording(base, S)
           /\ \A c \in Stocks :
                base \o <<Drain(S), RecordCall>> \o <<Submit(Refetch(c))>> = Resubmitting(base, S, c)
<1>1. /\ base \in Seq(Frames) /\ Draining(base, S) \in Seq(Frames)
      /\ Recording(base, S) \in Seq(Frames)
      /\ Drain(S) \in Frames /\ RecordCall \in Frames
    BY StackTypes, FrameTypes
<1>2. <<Drain(S)>> \in Seq(Frames) /\ <<RecordCall>> \in Seq(Frames)
    BY <1>1
<1>3. <<Drain(S), RecordCall>> = <<Drain(S)>> \o <<RecordCall>>
    OBVIOUS
<1>4. base \o <<Drain(S), RecordCall>> = (base \o <<Drain(S)>>) \o <<RecordCall>>
    BY <1>1, <1>2, <1>3, ConcatAssociative
<1>5. base \o <<Drain(S)>> = Draining(base, S)
    BY <1>1, AppendIsConcat DEF Draining
<1>6. Draining(base, S) \o <<RecordCall>> = Recording(base, S)
    BY <1>1, AppendIsConcat DEF Recording
<1>7. Recording(base, S) \o <<>> = Recording(base, S)
    BY <1>1, ConcatEmptySeq
<1>8. \A c \in Stocks :
        Recording(base, S) \o <<Submit(Refetch(c))>> = Resubmitting(base, S, c)
    BY <1>1, FrameTypes, AppendIsConcat DEF Resubmitting
<1>9. QED
    BY <1>4, <1>5, <1>6, <1>7, <1>8

-----------------------------------------------------------------------------
(* The steps of the main thread.                                           *)

LEMMA PoolInitially == PoolInit => PoolInv
<1> SUFFICES ASSUME PoolInit PROVE PoolInv
    OBVIOUS
<1>1. PoolTypeOK
    <2>1. calls \in Seq(Frames) /\ order \in Seq(Tasks) /\ queue \in Seq(Tasks) /\ Len(order) = 0
        BY EmptySeq DEF PoolInit
    <2>2. 1 \in 1..Len(UpdateCodes) + 1
        <3>1. Len(UpdateCodes) \in Nat
            BY PoolAssumption, LenProperties
        <3>2. QED
            BY <3>1
    <2>3. targets \in {"factor", "unadjusted", "adjusted"}
        BY PoolAssumption DEF PoolInit
    <2>4. QED
        BY <2>1, <2>2, <2>3 DEF PoolInit, PoolTypeOK
<1>2. Shape
    BY DEF PoolInit, Shape, Bases
<1>3. IsFiniteSet(pending) /\ PendingBounded
    BY FS_EmptySet, PoolAssumption DEF PoolInit, PendingBounded
<1>4. \A n \in DOMAIN queue : queue[n] \in Submitted
    BY DEF PoolInit
<1>5. QED
    BY <1>1, <1>2, <1>3, <1>4 DEF PoolInv

\* A task added to order and queue.
LEMMA Appended ==
    ASSUME PoolTypeOK, NEW t \in Tasks,
           \A n \in DOMAIN queue : queue[n] \in Submitted,
           order' = Append(order, t), queue' = Append(queue, t)
    PROVE  /\ order' \in Seq(Tasks) /\ queue' \in Seq(Tasks)
           /\ Len(order') = Len(order) + 1 /\ Len(order) \in Nat
           /\ Submitted' = Submitted \cup {t}
           /\ \A n \in DOMAIN queue' : queue'[n] \in Submitted'
<1>1. /\ order' \in Seq(Tasks) /\ Len(order') = Len(order) + 1 /\ Len(order) \in Nat
      /\ \A i \in 1..Len(order) : order'[i] = order[i]
      /\ order'[Len(order) + 1] = t
      /\ DOMAIN order = 1..Len(order) /\ DOMAIN order' = 1..Len(order')
    BY AppendProperties, LenProperties DEF PoolTypeOK
<1>2. /\ queue' \in Seq(Tasks) /\ Len(queue') = Len(queue) + 1 /\ Len(queue) \in Nat
      /\ \A i \in 1..Len(queue) : queue'[i] = queue[i]
      /\ queue'[Len(queue) + 1] = t
      /\ DOMAIN queue = 1..Len(queue) /\ DOMAIN queue' = 1..Len(queue')
    BY AppendProperties, LenProperties DEF PoolTypeOK
<1>3. Submitted' = Submitted \cup {t}
    BY <1>1 DEF Submitted
<1>4. \A n \in DOMAIN queue' : queue'[n] \in Submitted'
    BY <1>2, <1>3
<1>5. QED
    BY <1>1, <1>2, <1>3, <1>4

LEMMA SubmitNowStep == PoolInv /\ SubmitNow => PoolInv'
<1> SUFFICES ASSUME PoolInv, SubmitNow PROVE PoolInv'
    OBVIOUS
<1> USE DEF PoolInv
<1>1. ~ Idle /\ Top.call = "submit"
    BY DEF SubmitNow, Is
<1>2. PICK t \in Tasks : Top = Submit(t) /\ Shape'
    <2>1. \A u : Submit(u).call # "drain" /\ Drain(u).call # "submit" /\ RecordCall.call # "submit"
        BY FrameKinds
    <2>2. CASE \E t \in Tasks :
                calls = Append(<<>>, Submit(t)) /\ Top = Submit(t) /\ Below = <<>>
        BY <2>2 DEF SubmitNow, Shape, Bases
    <2>3. ASSUME NEW base \in Bases, NEW S \in SUBSET (pending \cap done), NEW c \in Stocks,
                 Top = Submit(Refetch(c)), Below = Recording(base, S)
          PROVE  \E t \in Tasks : Top = Submit(t) /\ Shape'
        <3>1. S \in SUBSET (pending' \cap done') /\ calls' = Recording(base, S)
            BY <2>3 DEF SubmitNow
        <3>2. Shape'
            BY <3>1 DEF Shape
        <3>3. QED
            BY <2>3, <3>2, FrameTypes
    <2>4. QED
        BY <1>1, <2>1, <2>2, <2>3, TopCases
<1>3. Top.task = t
    BY <1>2, FrameKinds
<1>4. /\ order' \in Seq(Tasks) /\ queue' \in Seq(Tasks)
      /\ Len(order') = Len(order) + 1 /\ Len(order) \in Nat
      /\ Submitted' = Submitted \cup {t}
      /\ \A n \in DOMAIN queue' : queue'[n] \in Submitted'
    BY <1>3, Appended DEF SubmitNow
<1>5. /\ pending' = pending \cup {t}
      /\ UNCHANGED <<targets, at, next, completed, recorded, running, begun, done, asking,
                     factored, plans, blind>>
    BY <1>3 DEF SubmitNow, stateVars
<1>6. IsFiniteSet(pending') /\ PendingBounded'
    <2>1. Cardinality(pending) < MaxPending /\ Cardinality(pending) \in Nat
        BY FS_CardinalityType, PoolAssumption DEF SubmitNow, Full, PendingBounded
    <2>2. /\ IsFiniteSet(pending \cup {t})
          /\ \/ Cardinality(pending \cup {t}) = Cardinality(pending)
             \/ Cardinality(pending \cup {t}) = Cardinality(pending) + 1
        BY FS_AddElement
    <2>3. QED
        BY <1>5, <2>1, <2>2, PoolAssumption DEF PendingBounded
<1>7. calls' \in Seq(Frames)
    <2>1. pending' \cap done' \subseteq Tasks
        BY <1>4, <1>5 DEF PoolTypeOK, Submitted
    <2>2. QED
        BY <1>2, <2>1, StackTypes DEF Shape
<1>8. PoolTypeOK'
    BY <1>4, <1>5, <1>7 DEF PoolTypeOK
<1>9. QED
    BY <1>2, <1>4, <1>6, <1>8

\* Where the main thread begins to drain what is done.
LEMMA BeginsDrain ==
    ASSUME PoolTypeOK, NEW base \in Bases, calls' = Draining(base, Ready),
           UNCHANGED <<pending, done>>
    PROVE  Shape' /\ calls' \in Seq(Frames)
<1>1. Ready \in SUBSET (pending' \cap done') /\ Ready \in SUBSET Tasks
    BY DEF Ready, PoolTypeOK, Submitted
<1>2. QED
    BY <1>1, StackTypes DEF Shape

LEMMA SubmitWaitsStep == PoolInv /\ SubmitWaits => PoolInv'
<1> SUFFICES ASSUME PoolInv, SubmitWaits PROVE PoolInv'
    OBVIOUS
<1> USE DEF PoolInv
<1>1. ~ Idle /\ Top.call = "submit"
    BY DEF SubmitWaits, Is
<1>2. ~ (Cardinality(pending) < MaxPending)
    BY FS_CardinalityType, PoolAssumption DEF SubmitWaits, Full
<1>3. calls \in Bases
    BY <1>1, <1>2, TopCases, FrameKinds DEF Bases
<1>4. calls' = Draining(calls, Ready)
    BY DEF SubmitWaits, Draining
<1>5. UNCHANGED <<targets, at, next, order, pending, completed, recorded, queue, running,
                  begun, done, asking, factored, plans, blind>>
    BY DEF SubmitWaits, resultVars, poolVars, stateVars
<1>6. Shape' /\ calls' \in Seq(Frames)
    BY <1>3, <1>4, <1>5, BeginsDrain
<1>7. QED
    BY <1>5, <1>6 DEF PoolTypeOK, PendingBounded, Submitted

LEMMA CollectStep == PoolInv /\ Collect => PoolInv'
<1> SUFFICES ASSUME PoolInv, Collect PROVE PoolInv'
    OBVIOUS
<1> USE DEF PoolInv
<1>1. ~ Idle /\ Top.call = "drain"
    BY DEF Collect, Is
<1>2. PICK base \in Bases, S \in SUBSET (pending \cap done) : Top = Drain(S) /\ Below = base
    BY <1>1, TopCases, FrameKinds
<1>3. Top.rest = S
    BY <1>2, FrameKinds
<1>4. PICK t \in S :
        /\ pending' = pending \ {t} /\ completed' = completed \cup {t}
        /\ LET r == RequestsOf(t)
               submits == [n \in DOMAIN r |-> Submit(r[Len(r) + 1 - n])]
           IN  calls' = base \o <<Drain(S \ {t}), RecordCall>> \o submits
    BY <1>2, <1>3 DEF Collect
<1>5. UNCHANGED <<targets, at, next, order, recorded, queue, running, begun, done, asking,
                  factored, plans, blind>>
    BY DEF Collect, poolVars, stateVars
<1>6. pending \subseteq Tasks /\ S \ {t} \in SUBSET Tasks
      /\ S \ {t} \in SUBSET (pending' \cap done')
    BY <1>4, <1>5 DEF PoolTypeOK, Submitted
<1>7. Cardinality(pending') < MaxPending /\ IsFiniteSet(pending')
    <2>1. t \in pending /\ Cardinality(pending) \in Nat /\ Cardinality(pending) <= MaxPending
        BY FS_CardinalityType DEF PendingBounded
    <2>2. IsFiniteSet(pending \ {t}) /\ Cardinality(pending \ {t}) = Cardinality(pending) - 1
        BY <2>1, FS_RemoveElement
    <2>3. QED
        BY <1>4, <2>1, <2>2, PoolAssumption
<1>8. CASE t \notin asking
    <2>1. calls' = base \o <<Drain(S \ {t}), RecordCall>> \o <<>>
        BY <1>4, <1>8 DEF RequestsOf
    <2>2. calls' = Recording(base, S \ {t})
        BY <1>6, <2>1, Stacked
    <2>3. Shape' /\ calls' \in Seq(Frames)
        BY <1>6, <2>2, StackTypes DEF Shape
    <2>4. PoolTypeOK' /\ PendingBounded'
        BY <1>4, <1>5, <1>6, <1>7, <2>3, FS_CardinalityType, PoolAssumption
        DEF PoolTypeOK, PendingBounded, Submitted
    <2>5. QED
        BY <1>5, <1>7, <2>3, <2>4 DEF Submitted
<1>9. CASE t \in asking
    <2>1. PICK c \in Stocks : t = DailyTask(c)
        BY <1>9 DEF PoolTypeOK
    <2>2. RequestsOf(t) = <<Refetch(c)>>
        BY <1>9, <2>1 DEF RequestsOf, DailyTask
    <2>3. [n \in DOMAIN RequestsOf(t) |-> Submit(RequestsOf(t)[Len(RequestsOf(t)) + 1 - n])]
          = <<Submit(Refetch(c))>>
        BY <2>2
    <2>4. calls' = base \o <<Drain(S \ {t}), RecordCall>> \o <<Submit(Refetch(c))>>
        BY <1>4, <2>3
    <2>5. calls' = Resubmitting(base, S \ {t}, c)
        BY <1>6, <2>4, Stacked
    <2>6. Shape' /\ calls' \in Seq(Frames)
        BY <1>6, <1>7, <2>5, StackTypes DEF Shape
    <2>7. PoolTypeOK' /\ PendingBounded'
        BY <1>4, <1>5, <1>6, <1>7, <2>6, FS_CardinalityType, PoolAssumption
        DEF PoolTypeOK, PendingBounded, Submitted
    <2>8. QED
        BY <1>5, <1>7, <2>6, <2>7 DEF Submitted
<1>10. QED
    BY <1>8, <1>9

\* The rest of the calls' steps.
LEMMA ReturnsStep == PoolInv /\ (DrainReturns \/ RecordInOrder) => PoolInv'
<1> SUFFICES ASSUME PoolInv, DrainReturns \/ RecordInOrder PROVE PoolInv'
    OBVIOUS
<1> USE DEF PoolInv
<1>1. UNCHANGED <<targets, at, next, order, pending, completed, queue, running, begun, done,
                  asking, factored, plans, blind>>
    BY DEF DrainReturns, RecordInOrder, resultVars, poolVars, stateVars
<1>2. CASE DrainReturns
    <2>1. PICK base \in Bases, S \in SUBSET (pending \cap done) : Top = Drain(S) /\ Below = base
        BY <1>2, TopCases, FrameKinds DEF DrainReturns, Is
    <2>2. calls' = base
        BY <1>2, <2>1 DEF DrainReturns
    <2>3. Shape' /\ calls' \in Seq(Frames) /\ recorded' = recorded
        BY <1>2, <2>2, StackTypes DEF DrainReturns, resultVars, Shape
    <2>4. QED
        BY <1>1, <2>3 DEF PoolTypeOK, PendingBounded, Submitted
<1>3. CASE RecordInOrder
    <2>1. PICK base \in Bases, S \in SUBSET (pending \cap done) :
            Top = RecordCall /\ Below = Draining(base, S)
        BY <1>3, TopCases, FrameKinds DEF RecordInOrder, Is
    <2>2. calls' = Draining(base, S) /\ S \in SUBSET (pending' \cap done') /\ S \in SUBSET Tasks
        BY <1>1, <1>3, <2>1 DEF RecordInOrder, PoolTypeOK, Submitted
    <2>3. Shape' /\ calls' \in Seq(Frames)
        BY <2>2, StackTypes DEF Shape
    <2>4. recorded' \in 0..Len(order)
        <3>1. Len(order) \in Nat
            BY LenProperties DEF PoolTypeOK
        <3>2. QED
            BY <1>3, <3>1 DEF RecordInOrder, PoolTypeOK
    <2>5. QED
        BY <1>1, <2>3, <2>4 DEF PoolTypeOK, PendingBounded, Submitted
<1>4. QED
    BY <1>2, <1>3

\* Outside of the calls, a step begins a submission or a drain, or none.
LEMMA LoopStep ==
    PoolInv /\ (FetchFactor \/ FetchBars \/ Poll \/ WaitForAll \/ SubmitFlush \/ RunReturns
                  \/ Raise)
    => PoolInv'
<1> SUFFICES ASSUME PoolInv,
                    FetchFactor \/ FetchBars \/ Poll \/ WaitForAll \/ SubmitFlush \/ RunReturns
                    \/ Raise
             PROVE  PoolInv'
    OBVIOUS
<1> USE DEF PoolInv
<1>1. UNCHANGED <<targets, order, pending, completed, recorded, queue, running, begun, done,
                  asking, plans, blind>>
    BY DEF FetchFactor, FetchBars, Poll, WaitForAll, SubmitFlush, RunReturns, Raise,
           resultVars, poolVars, stateVars
<1>2. Len(UpdateCodes) \in Nat /\ next \in 1..Len(UpdateCodes) + 1
    BY PoolAssumption, LenProperties DEF PoolTypeOK
<1>3. next <= Len(UpdateCodes) => CurrentCode \in Stocks
    BY <1>2, PoolAssumption, LenProperties DEF CurrentCode, Stocks
<1>4. factored' \subseteq Stocks
    BY <1>3 DEF PoolTypeOK, FetchFactor, FetchBars, Poll, WaitForAll, SubmitFlush, RunReturns, Raise,
                InLoop, stateVars
<1>5. /\ at' \in {"factor", "daily", "poll", "flushed", "returned", "raised"}
      /\ next' \in 1..Len(UpdateCodes) + 1
    BY <1>2 DEF PoolTypeOK, FetchFactor, FetchBars, Poll, WaitForAll, SubmitFlush, RunReturns, Raise,
                InLoop
<1>6. \A t : Append(<<>>, Submit(t)) = <<Submit(t)>>
    OBVIOUS
<1>7. \A S : Draining(<<>>, S) = <<Drain(S)>>
    BY DEF Draining
<1>8. calls' = Draining(<<>>, Ready) \/ calls' \in Bases
    <2>1. calls = <<>> /\ <<>> \in Bases
        BY DEF FetchFactor, FetchBars, Poll, WaitForAll, SubmitFlush, RunReturns, Raise,
               InLoop, Idle, Bases
    <2>2. \A c \in Stocks : <<Submit(Factor(c))>> \in Bases /\ <<Submit(DailyTask(c))>> \in Bases
        BY <1>6, FrameTypes DEF Bases
    <2>3. <<Submit(FlushTask)>> \in Bases
        BY <1>6, FrameTypes DEF Bases
    <2>4. QED
        BY <1>3, <1>7, <2>1, <2>2, <2>3
        DEF FetchFactor, FetchBars, Poll, WaitForAll, SubmitFlush, RunReturns, Raise, InLoop
<1>9. Shape' /\ calls' \in Seq(Frames)
    <2>1. <<>> \in Bases /\ {} \in SUBSET Tasks
        BY DEF Bases
    <2>2. CASE calls' = Draining(<<>>, Ready)
        BY <1>1, <2>1, <2>2, BeginsDrain
    <2>3. CASE calls' \in Bases
        BY <2>1, <2>3, StackTypes DEF Shape
    <2>4. QED
        BY <1>8, <2>2, <2>3
<1>10. QED
    BY <1>1, <1>4, <1>5, <1>9 DEF PoolTypeOK, PendingBounded, Submitted

-----------------------------------------------------------------------------
(* The steps of the pool: what is done stays done, and so every drain      *)
(* keeps its futures.                                                      *)

LEMMA PoolShape ==
    ASSUME Shape, calls' = calls, pending' = pending, done \subseteq done'
    PROVE  Shape'
BY DEF Shape

LEMMA TakeStep == PoolInv /\ Take => PoolInv'
<1> SUFFICES ASSUME PoolInv, Take PROVE PoolInv'
    OBVIOUS
<1> USE DEF PoolInv
<1>1. /\ queue \in Seq(Tasks) /\ queue # <<>>
      /\ queue' = Tail(queue) /\ running' = running \cup {Head(queue)}
    BY DEF Take, PoolTypeOK
<1>2. UNCHANGED <<targets, at, next, calls, order, pending, completed, recorded, begun, done,
                  asking, factored, plans, blind>>
    BY DEF Take, mainVars, resultVars, stateVars
<1>3. /\ queue' \in Seq(Tasks) /\ Len(queue') = Len(queue) - 1 /\ Len(queue) \in Nat
      /\ \A i \in 1..Len(queue') : queue'[i] = queue[i + 1]
      /\ DOMAIN queue = 1..Len(queue) /\ DOMAIN queue' = 1..Len(queue')
    BY <1>1, HeadTailProperties, LenProperties
<1>4. 1 \in DOMAIN queue /\ Head(queue) = queue[1]
    BY <1>1, <1>3, EmptySeq
<1>5. Head(queue) \in Submitted /\ \A n \in DOMAIN queue' : queue'[n] \in Submitted
    BY <1>3, <1>4
<1>6. Shape'
    BY <1>2, PoolShape
<1>7. QED
    BY <1>1, <1>2, <1>3, <1>5, <1>6 DEF PoolTypeOK, PendingBounded, Submitted

LEMMA WorkStep ==
    ASSUME PoolInv, NEW t \in Tasks, Work(t)
    PROVE  PoolInv'
<1> USE DEF PoolInv
<1>1. UNCHANGED <<targets, at, next, calls, order, pending, completed, recorded, queue>>
    BY DEF Work, BeginTask, FinishFactor, FinishBars, FinishFlush, FinishTask, mainVars, resultVars
<1>2. done \subseteq done'
    BY DEF Work, BeginTask, FinishFactor, FinishBars, FinishFlush, FinishTask
<1>3. Shape'
    BY <1>1, <1>2, PoolShape
<1>4. t.kind \in {"factor", "daily", "refetch"} => t.code \in Stocks
    BY DEF Tasks, CodeTask, FlushTask
<1>5. t.kind = "daily" => t = DailyTask(t.code)
    BY DEF Tasks, CodeTask, FlushTask, DailyTask
<1>6. PoolTypeOK'
    <2>1. CASE BeginTask(t)
        BY <1>1, <1>4, <2>1 DEF BeginTask, PoolTypeOK, Submitted
    <2>2. CASE FinishFactor(t)
        BY <1>1, <1>4, <2>2 DEF FinishFactor, FinishTask, PoolTypeOK, Submitted
    <2>3. CASE FinishBars(t)
        BY <1>1, <1>4, <1>5, <2>3 DEF FinishBars, FinishTask, Release, PoolTypeOK, Submitted
    <2>4. CASE FinishFlush(t)
        BY <1>1, <2>4 DEF FinishFlush, FinishTask, PoolTypeOK, Submitted
    <2>5. QED
        BY <2>1, <2>2, <2>3, <2>4 DEF Work
<1>7. QED
    BY <1>1, <1>3, <1>6 DEF PendingBounded, Submitted

LEMMA PoolStep == PoolInv /\ [PoolNext]_dispatcherVars => PoolInv'
<1>1. PoolInv /\ UNCHANGED dispatcherVars => PoolInv'
    BY DEF dispatcherVars, mainVars, resultVars, poolVars, stateVars, PoolInv, PoolTypeOK, Shape,
           PendingBounded, Submitted
<1>2. QED
    BY <1>1, SubmitNowStep, SubmitWaitsStep, CollectStep, ReturnsStep, LoopStep, TakeStep,
       WorkStep
    DEF PoolNext, Main

LEMMA PoolCorrect == PoolSpec => []PoolInv
BY PoolInitially, PoolStep, PTL DEF PoolSpec

-----------------------------------------------------------------------------
(* The order of the tasks: who was submitted when, and what each of them   *)
(* leaves for the next one of its code.                                    *)

\* The loop has come to c: it is past it, or at it and in one of these places.
Reached(c, places) ==
    \E n \in DOMAIN UpdateCodes : UpdateCodes[n] = c /\ (n < next \/ (n = next /\ at \in places))

\* What the loop is submitting, for the first time.
Fetching(t) ==
    /\ t \notin Submitted
    /\ \/ at = "daily" /\ t = Factor(CurrentCode)
       \/ at = "poll" /\ t = DailyTask(CurrentCode)
       \/ at = "flushed" /\ t = FlushTask

\* The bars of c did not fit, and the main thread knows; it submits the refetch before it
\* does anything else.
Asked(c) == DailyTask(c) \in asking \cap completed
Answered(c) == Asked(c) => Refetch(c) \in Submitted

\* The last task of c is done.
Released(c) == DailyTask(c) \in done \ asking \/ Refetch(c) \in done

\* The calls in the course of base, with what each of them has still to do.
Under(base) ==
    \/ calls = base /\ InOrder(recorded) /\ \A c \in Stocks : Answered(c)
    \/ \E S \in SUBSET (pending \cap done) :
        \/ calls = Draining(base, S) /\ InOrder(recorded) /\ \A c \in Stocks : Answered(c)
        \/ calls = Recording(base, S) /\ \A c \in Stocks : Answered(c)
        \/ \E c \in Stocks :
            /\ calls = Resubmitting(base, S, c)
            /\ Cardinality(pending) < MaxPending
            /\ Asked(c) /\ Refetch(c) \notin Submitted
            /\ \A d \in Stocks \ {c} : Answered(d)

\* Every code the loop has been at has what it needs, or a task that brings it.
Served(base) ==
    /\ base = <<>> \/ \E t \in Tasks : base = Append(<<>>, Submit(t)) /\ Fetching(t)
    /\ \A c \in Stocks : targets = "adjusted" /\ Reached(c, {"daily", "poll"}) =>
        \/ c \in factored \/ Released(c)
        \/ Factor(c) \in Submitted \ done \/ base = Append(<<>>, Submit(Factor(c)))
    /\ \A c \in Stocks : targets # "factor" /\ Reached(c, {"poll"}) =>
        DailyTask(c) \in Submitted \/ base = Append(<<>>, Submit(DailyTask(c)))

\* Every task is submitted once, in its place in the loop, and done once.
Once ==
    /\ \A m, n \in DOMAIN queue : queue[m] = queue[n] => m = n
    /\ \A n \in DOMAIN queue : queue[n] \notin running \cup done
    /\ running \cap done = {}
    /\ Submitted \subseteq pending \cup completed /\ pending \cap completed = {}

Placed ==
    /\ at \in {"daily", "poll"} => next <= Len(UpdateCodes)
    /\ at \in {"flushed", "returned"} => next > Len(UpdateCodes)
    /\ \A c \in Stocks :
        /\ Factor(c) \in Submitted => Reached(c, {"daily", "poll", "raised"})
        /\ DailyTask(c) \in Submitted => Reached(c, {"poll"})
        /\ Refetch(c) \in Submitted => Asked(c)
    /\ FlushTask \in Submitted => at \in {"flushed", "returned"}
    /\ at = "returned" => calls = <<>> /\ pending = {}

\* The tasks of one code follow one another and hand over its state.
InTurn ==
    /\ \A c \in Stocks : DailyTask(c) \in begun \cup done => Factor(c) \notin Submitted \ done
    /\ \A c \in Stocks : DailyTask(c) \in begun \cup done <=> c \in plans \/ Released(c)
    /\ \A c \in Stocks : Released(c) => c \notin factored \cup plans
    /\ factored # {} => targets = "adjusted"
    /\ blind = {}

TurnInv ==
    /\ Once /\ Placed /\ InTurn
    /\ \E base \in Bases : Under(base) /\ Served(base)

-----------------------------------------------------------------------------

LEMMA TaskKinds ==
    /\ \A c : Factor(c).kind = "factor" /\ DailyTask(c).kind = "daily" /\ Refetch(c).kind = "refetch"
    /\ \A c : Factor(c).code = c /\ DailyTask(c).code = c /\ Refetch(c).code = c
    /\ \A c, d : Factor(c) # DailyTask(d) /\ Factor(c) # Refetch(d) /\ DailyTask(c) # Refetch(d)
    /\ \A c : Factor(c) # FlushTask /\ DailyTask(c) # FlushTask /\ Refetch(c) # FlushTask
    /\ \A t \in Tasks :
        \/ \E c \in Stocks : t = Factor(c) \/ t = DailyTask(c) \/ t = Refetch(c)
        \/ t = FlushTask
<1>1. /\ \A c : Factor(c).kind = "factor" /\ DailyTask(c).kind = "daily" /\ Refetch(c).kind = "refetch"
      /\ \A c : Factor(c).code = c /\ DailyTask(c).code = c /\ Refetch(c).code = c
      /\ FlushTask.kind = "flush"
    BY DEF Factor, DailyTask, Refetch, FlushTask
<1>2. ASSUME NEW t \in CodeTask
      PROVE  \E c \in Stocks : t = Factor(c) \/ t = DailyTask(c) \/ t = Refetch(c)
    <2>1. t = [kind |-> t.kind, code |-> t.code] /\ t.code \in Stocks
          /\ t.kind \in {"factor", "daily", "refetch"}
        BY DEF CodeTask
    <2>2. QED
        BY <2>1 DEF Factor, DailyTask, Refetch
<1>3. QED
    BY <1>1, <1>2 DEF Tasks

\* The stacks of one base are told apart by what is on top of them.
LEMMA BaseTops ==
    ASSUME NEW base \in Bases, NEW S \in SUBSET Tasks
    PROVE  /\ calls = Draining(base, S) => ~ Idle /\ Top = Drain(S) /\ Below = base
           /\ calls = Recording(base, S) => ~ Idle /\ Top = RecordCall /\ Below = Draining(base, S)
           /\ \A c \in Stocks : calls = Resubmitting(base, S, c) =>
                ~ Idle /\ Top = Submit(Refetch(c)) /\ Below = Recording(base, S)
           /\ \A t \in Tasks : calls = Append(<<>>, Submit(t)) =>
                ~ Idle /\ Top = Submit(t) /\ Below = <<>>
<1>1. calls = Draining(base, S) => ~ Idle /\ Top = Drain(S) /\ Below = base
    BY StackTypes, FrameTypes, Popped DEF Draining
<1>2. calls = Recording(base, S) => ~ Idle /\ Top = RecordCall /\ Below = Draining(base, S)
    BY StackTypes, FrameTypes, Popped DEF Recording
<1>3. ASSUME NEW c \in Stocks, calls = Resubmitting(base, S, c)
      PROVE  ~ Idle /\ Top = Submit(Refetch(c)) /\ Below = Recording(base, S)
    BY <1>3, StackTypes, FrameTypes, Popped DEF Resubmitting
<1>4. ASSUME NEW t \in Tasks, calls = Append(<<>>, Submit(t))
      PROVE  ~ Idle /\ Top = Submit(t) /\ Below = <<>>
    BY <1>4, FrameTypes, EmptySeq, Popped
<1>5. QED
    BY <1>1, <1>2, <1>3, <1>4

\* Outside of every call nothing is left to do.
LEMMA Outside ==
    ASSUME PoolTypeOK, NEW base \in Bases, Under(base), Idle
    PROVE  /\ base = <<>> /\ calls = <<>>
           /\ InOrder(recorded) /\ \A c \in Stocks : Answered(c)
<1>1. pending \cap done \subseteq Tasks
    BY DEF PoolTypeOK, Submitted
<1>2. calls = base /\ InOrder(recorded) /\ \A c \in Stocks : Answered(c)
    BY <1>1, BaseTops DEF Under
<1>3. QED
    BY <1>2 DEF Idle

LEMMA AtCurrent ==
    ASSUME PoolTypeOK, next <= Len(UpdateCodes)
    PROVE  /\ CurrentCode \in Stocks /\ next \in DOMAIN UpdateCodes
           /\ \A n \in DOMAIN UpdateCodes : UpdateCodes[n] = CurrentCode => n = next
<1>1. Len(UpdateCodes) \in Nat /\ next \in 1..Len(UpdateCodes) + 1 /\ DOMAIN UpdateCodes = 1..Len(UpdateCodes)
    BY PoolAssumption, LenProperties DEF PoolTypeOK
<1>2. next \in DOMAIN UpdateCodes
    BY <1>1
<1>3. QED
    BY <1>2, PoolAssumption DEF CurrentCode, Stocks

\* A code is released by its own bars only, and not before they are done.
LEMMA ReleasedIsDone ==
    ASSUME PoolTypeOK, Placed, NEW c \in Stocks, Released(c)
    PROVE  DailyTask(c) \in done
BY DEF Released, Placed, Asked, PoolTypeOK

LEMMA TurnInitially == PoolInit => TurnInv
<1> SUFFICES ASSUME PoolInit PROVE TurnInv
    OBVIOUS
<1>0. Submitted = {}
    BY DEF PoolInit, Submitted
<1>1. Once /\ Placed /\ InTurn
    BY <1>0 DEF PoolInit, Once, Placed, InTurn, Released
<1>2. <<>> \in Bases
    BY DEF Bases
<1>3. Under(<<>>)
    BY <1>0 DEF PoolInit, Under, InOrder, Answered, Asked
<1>4. Served(<<>>)
    <2>1. \A c : ~ Reached(c, {"daily", "poll"}) /\ ~ Reached(c, {"poll"})
        BY PoolAssumption DEF PoolInit, Reached
    <2>2. QED
        BY <2>1 DEF Served
<1>5. QED
    BY <1>1, <1>2, <1>3, <1>4 DEF TurnInv

\* A step of the pool leaves the main thread in its calls.
LEMMA KeepsCalls ==
    ASSUME PoolTypeOK, NEW base \in Bases, Under(base),
           UNCHANGED <<calls, order, pending, completed, recorded>>,
           done \subseteq done',
           \A c \in Stocks : DailyTask(c) \in completed =>
                (DailyTask(c) \in asking' <=> DailyTask(c) \in asking)
    PROVE  Under(base)'
<1>1. \A c \in Stocks : Asked(c)' = Asked(c)
    BY DEF Asked
<1>2. Submitted' = Submitted /\ InOrder(recorded)' = InOrder(recorded)
    BY DEF Submitted, InOrder
<1>3. \A c \in Stocks : Answered(c)' = Answered(c)
    BY <1>1, <1>2 DEF Answered
<1>4. pending \cap done \subseteq pending' \cap done'
    OBVIOUS
<1>5. QED
    BY <1>1, <1>2, <1>3, <1>4 DEF Under

\* A new task in order, queue and pending.
LEMMA SubmitsOnce ==
    ASSUME PoolInv, Once, NEW t \in Tasks, t \notin Submitted,
           order' = Append(order, t), queue' = Append(queue, t), pending' = pending \cup {t},
           UNCHANGED <<completed, recorded, running, done>>
    PROVE  /\ Once' /\ Submitted' = Submitted \cup {t}
           /\ InOrder(recorded) => InOrder(recorded)'
<1> USE DEF PoolInv
<1>1. Submitted' = Submitted \cup {t}
    BY Appended
<1>2. /\ queue' \in Seq(Tasks) /\ Len(queue') = Len(queue) + 1 /\ Len(queue) \in Nat
      /\ \A i \in 1..Len(queue) : queue'[i] = queue[i]
      /\ queue'[Len(queue) + 1] = t
      /\ DOMAIN queue = 1..Len(queue) /\ DOMAIN queue' = 1..Len(queue')
    BY AppendProperties, LenProperties DEF PoolTypeOK
<1>3. /\ order' \in Seq(Tasks) /\ Len(order') = Len(order) + 1 /\ Len(order) \in Nat
      /\ \A i \in 1..Len(order) : order'[i] = order[i]
      /\ order'[Len(order) + 1] = t
    BY AppendProperties, LenProperties DEF PoolTypeOK
<1>4. running \subseteq Submitted /\ done \subseteq Submitted /\ completed \subseteq Submitted
      /\ recorded \in 0..Len(order)
    BY DEF PoolTypeOK
<1>5. \A m, n \in DOMAIN queue' : queue'[m] = queue'[n] => m = n
    <2> SUFFICES ASSUME NEW m \in DOMAIN queue', NEW n \in DOMAIN queue', queue'[m] = queue'[n]
                 PROVE  m = n
        OBVIOUS
    <2>1. CASE m \in 1..Len(queue) /\ n \in 1..Len(queue)
        BY <1>2, <2>1 DEF Once
    <2>2. CASE m \notin 1..Len(queue) /\ n \in 1..Len(queue)
        <3>1. queue'[m] = t /\ queue[n] \in Submitted
            BY <1>2, <2>2
        <3>2. QED
            BY <1>2, <2>2, <3>1
    <2>3. CASE n \notin 1..Len(queue) /\ m \in 1..Len(queue)
        <3>1. queue'[n] = t /\ queue[m] \in Submitted
            BY <1>2, <2>3
        <3>2. QED
            BY <1>2, <2>3, <3>1
    <2>4. CASE m \notin 1..Len(queue) /\ n \notin 1..Len(queue)
        BY <1>2, <2>4
    <2>5. QED
        BY <2>1, <2>2, <2>3, <2>4
<1>6. \A n \in DOMAIN queue' : queue'[n] \notin running' \cup done'
    BY <1>2, <1>4 DEF Once
<1>7. Once'
    BY <1>1, <1>4, <1>5, <1>6 DEF Once
<1>8. ASSUME InOrder(recorded) PROVE InOrder(recorded)'
    <2>1. recorded < Len(order') => order'[recorded + 1] \notin completed
        BY <1>3, <1>4, <1>8 DEF InOrder
    <2>2. \A m \in recorded + 1..recorded : order'[m] \in completed
        BY <1>4
    <2>3. QED
        BY <2>1, <2>2 DEF InOrder
<1>9. QED
    BY <1>1, <1>7, <1>8

LEMMA FetchedOnce ==
    ASSUME PoolTypeOK, Placed, InTurn, NEW t \in Tasks, Fetching(t),
           Submitted' = Submitted \cup {t},
           UNCHANGED <<targets, at, next, completed, running, begun, done, asking, factored,
                       plans, blind>>,
           calls' = <<>>
    PROVE  /\ Placed' /\ InTurn'
           /\ \A c \in Stocks : Asked(c)' = Asked(c) /\ Released(c)' = Released(c)
           /\ \A c, places : Reached(c, places)' = Reached(c, places)
<1>1. \A c \in Stocks : Asked(c)' = Asked(c) /\ Released(c)' = Released(c)
    BY DEF Asked, Released
<1>2. \A c, places : Reached(c, places)' = Reached(c, places)
    BY DEF Reached
<1>3. at \in {"daily", "poll"} => next \in DOMAIN UpdateCodes /\ UpdateCodes[next] = CurrentCode
    BY AtCurrent DEF Placed, CurrentCode
<1>4. Placed'
    <2>1. \A c \in Stocks :
            /\ Factor(c) = t => Reached(c, {"daily", "poll", "raised"})
            /\ DailyTask(c) = t => Reached(c, {"poll"})
            /\ Refetch(c) # t
        <3> SUFFICES ASSUME NEW c \in Stocks
                     PROVE  /\ Factor(c) = t => Reached(c, {"daily", "poll", "raised"})
                            /\ DailyTask(c) = t => Reached(c, {"poll"})
                            /\ Refetch(c) # t
            OBVIOUS
        <3>1. CASE at = "daily" /\ t = Factor(CurrentCode)
            <4>1. Factor(c) = t => c = CurrentCode
                BY <3>1, TaskKinds
            <4>2. QED
                BY <1>3, <3>1, <4>1, TaskKinds DEF Reached
        <3>2. CASE at = "poll" /\ t = DailyTask(CurrentCode)
            <4>1. DailyTask(c) = t => c = CurrentCode
                BY <3>2, TaskKinds
            <4>2. QED
                BY <1>3, <3>2, <4>1, TaskKinds DEF Reached
        <3>3. CASE at = "flushed" /\ t = FlushTask
            BY <3>3, TaskKinds
        <3>4. QED
            BY <3>1, <3>2, <3>3 DEF Fetching
    <2>2. FlushTask = t => at = "flushed"
        BY TaskKinds DEF Fetching
    <2>3. at # "returned"
        BY DEF Fetching
    <2>4. QED
        BY <1>1, <1>2, <2>1, <2>2, <2>3 DEF Placed
<1>5. InTurn'
    <2>1. ASSUME NEW c \in Stocks, DailyTask(c) \in begun \cup done, Factor(c) = t
          PROVE  FALSE
        <3>1. at = "daily" /\ c = CurrentCode
            BY <2>1, TaskKinds DEF Fetching
        <3>2. DailyTask(c) \in Submitted
            BY <2>1 DEF PoolTypeOK
        <3>3. Reached(c, {"poll"})
            BY <3>2 DEF Placed
        <3>4. \A n \in DOMAIN UpdateCodes : UpdateCodes[n] = c => n = next
            BY <3>1, AtCurrent DEF Placed
        <3>5. next \in 1..Len(UpdateCodes) + 1 /\ Len(UpdateCodes) \in Nat
            BY PoolAssumption, LenProperties DEF PoolTypeOK
        <3>6. QED
            BY <3>1, <3>3, <3>4, <3>5 DEF Reached
    <2>2. QED
        BY <1>1, <2>1 DEF InTurn
<1>6. QED
    BY <1>1, <1>2, <1>4, <1>5

LEMMA SubmitNowTurn == PoolInv /\ TurnInv /\ SubmitNow => TurnInv'
<1> SUFFICES ASSUME PoolInv, TurnInv, SubmitNow PROVE TurnInv'
    OBVIOUS
<1> USE DEF PoolInv
<1>1. PICK base \in Bases : Under(base) /\ Served(base)
    BY DEF TurnInv
<1>2. pending \cap done \subseteq Tasks
    BY DEF PoolTypeOK, Submitted
<1>3. /\ ~ Idle /\ Top.call = "submit" /\ calls' = Below
      /\ order' = Append(order, Top.task) /\ queue' = Append(queue, Top.task)
      /\ pending' = pending \cup {Top.task}
      /\ UNCHANGED <<targets, at, next, completed, recorded, running, begun, done, asking,
                     factored, plans, blind>>
    BY DEF SubmitNow, Is, stateVars
<1>4. \A c, places : Reached(c, places)' = Reached(c, places)
    BY <1>3 DEF Reached
<1>5. \A c : Asked(c)' = Asked(c) /\ Released(c)' = Released(c)
    BY <1>3 DEF Asked, Released
<1>6. CASE calls = base
    <2>1. PICK t \in Tasks : base = Append(<<>>, Submit(t)) /\ Fetching(t)
        BY <1>1, <1>3, <1>6 DEF Served, Idle
    <2>2. Top = Submit(t) /\ Below = <<>>
        BY <1>6, <2>1, FrameTypes, EmptySeq, Popped
    <2>3. Top.task = t /\ t \notin Submitted
        BY <2>1, <2>2, FrameKinds DEF Fetching
    <2>4. /\ Once' /\ Submitted' = Submitted \cup {t}
          /\ InOrder(recorded) => InOrder(recorded)'
        BY <1>3, <2>3, SubmitsOnce DEF TurnInv
    <2>5. Placed' /\ InTurn'
        BY <1>3, <2>1, <2>2, <2>4, FetchedOnce DEF TurnInv
    <2>6. <<>> \in Bases
        BY DEF Bases
    <2>7. Under(<<>>)'
        <3>1. InOrder(recorded) /\ \A c \in Stocks : Answered(c)
            <4>1. ASSUME NEW S \in SUBSET (pending \cap done)
                  PROVE  calls # Draining(base, S) /\ calls # Recording(base, S)
                BY <1>2, <1>3, BaseTops, FrameKinds
            <4>2. ASSUME NEW S \in SUBSET (pending \cap done), NEW c \in Stocks
                  PROVE  calls # Resubmitting(base, S, c)
                <5>1. S \in SUBSET Tasks
                    BY <1>2
                <5>2. Recording(base, S) # <<>>
                    BY <5>1, StackTypes, FrameTypes, AppendProperties DEF Recording
                <5>3. QED
                    BY <2>2, <5>1, <5>2, BaseTops
            <4>3. QED
                BY <1>1, <4>1, <4>2 DEF Under
        <3>2. \A c \in Stocks : Answered(c)'
            BY <1>5, <2>4, <3>1 DEF Answered
        <3>3. QED
            BY <1>3, <2>2, <2>4, <3>1, <3>2 DEF Under
    <2>8. Served(<<>>)'
        <3>1. \A u : base = Append(<<>>, Submit(u)) => u = t
            BY <2>1, FrameKinds
        <3>2. t \notin done
            BY <2>3 DEF PoolTypeOK
        <3>3. \A c \in Stocks : targets' = "adjusted" /\ Reached(c, {"daily", "poll"})' =>
                \/ c \in factored' \/ Released(c)'
                \/ Factor(c) \in Submitted' \ done'
            BY <1>1, <1>3, <1>4, <1>5, <2>4, <3>1, <3>2 DEF Served
        <3>4. \A c \in Stocks : targets' # "factor" /\ Reached(c, {"poll"})' =>
                DailyTask(c) \in Submitted'
            BY <1>1, <1>3, <1>4, <2>4, <3>1 DEF Served
        <3>5. QED
            BY <3>3, <3>4 DEF Served
    <2>9. QED
        BY <2>4, <2>5, <2>6, <2>7, <2>8 DEF TurnInv
<1>7. ASSUME NEW S \in SUBSET (pending \cap done), NEW c \in Stocks,
             calls = Resubmitting(base, S, c), Asked(c), Refetch(c) \notin Submitted,
             \A d \in Stocks \ {c} : Answered(d)
      PROVE  TurnInv'
    <2>1. Top = Submit(Refetch(c)) /\ Below = Recording(base, S)
        BY <1>2, <1>7, BaseTops
    <2>2. Top.task = Refetch(c) /\ Refetch(c) \in Tasks
        BY <2>1, FrameKinds, FrameTypes
    <2>3. Once' /\ Submitted' = Submitted \cup {Refetch(c)}
        BY <1>3, <1>7, <2>2, SubmitsOnce DEF TurnInv
    <2>4. Placed'
        <3>1. at # "returned"
            BY <1>3 DEF TurnInv, Placed, Idle
        <3>2. Refetch(c) # FlushTask /\ \A d : Factor(d) # Refetch(c) /\ DailyTask(d) # Refetch(c)
            BY TaskKinds
        <3>3. \A d : Refetch(d) = Refetch(c) => d = c
            BY TaskKinds
        <3>4. QED
            BY <1>3, <1>4, <1>5, <1>7, <2>3, <3>1, <3>2, <3>3 DEF TurnInv, Placed
    <2>5. InTurn'
        BY <1>3, <1>5, <2>3, TaskKinds DEF TurnInv, InTurn
    <2>6. Under(base)'
        <3>1. \A d \in Stocks : Answered(d)'
            BY <1>5, <1>7, <2>3 DEF Answered
        <3>2. S \in SUBSET (pending' \cap done') /\ calls' = Recording(base, S)
            BY <1>3, <2>1
        <3>3. QED
            BY <3>1, <3>2 DEF Under
    <2>7. Served(base)'
        <3>1. ASSUME NEW t \in Tasks, Fetching(t) PROVE Fetching(t)'
            <4>1. t # Refetch(c)
                BY <3>1, TaskKinds DEF Fetching
            <4>2. QED
                BY <1>3, <2>3, <3>1, <4>1 DEF Fetching, CurrentCode
        <3>2. QED
            BY <1>1, <1>3, <1>4, <1>5, <2>3, <3>1 DEF Served
    <2>8. QED
        BY <2>3, <2>4, <2>5, <2>6, <2>7 DEF TurnInv
<1>8. ASSUME NEW S \in SUBSET (pending \cap done)
      PROVE  calls # Draining(base, S) /\ calls # Recording(base, S)
    BY <1>2, <1>3, BaseTops, FrameKinds
<1>9. QED
    BY <1>1, <1>6, <1>7, <1>8 DEF Under

\* A step of the main thread that submits nothing, collects nothing and stays where it is
\* in the loop.
LEMMA CallsOnly ==
    ASSUME TurnInv, calls # <<>>,
           UNCHANGED <<targets, at, next, order, pending, completed, poolVars, stateVars>>
    PROVE  /\ Once' /\ Placed' /\ InTurn'
           /\ \A base : Served(base)' = Served(base)
           /\ \A c : Answered(c)' = Answered(c)
           /\ \A n : InOrder(n)' <=>
                /\ \A m \in recorded' + 1..n : order[m] \in completed
                /\ n < Len(order) => order[n + 1] \notin completed
<1>1. Submitted' = Submitted
    BY DEF Submitted
<1>2. \A c : Asked(c)' = Asked(c) /\ Released(c)' = Released(c)
    BY DEF Asked, Released, poolVars
<1>3. \A c, places : Reached(c, places)' = Reached(c, places)
    BY DEF Reached
<1>4. \A t : Fetching(t)' = Fetching(t)
    BY <1>1 DEF Fetching, CurrentCode
<1>5. Once' /\ InTurn'
    BY <1>1, <1>2 DEF TurnInv, Once, InTurn, poolVars, stateVars
<1>6. Placed'
    BY <1>1, <1>2, <1>3 DEF TurnInv, Placed
<1>7. \A base : Served(base)' = Served(base)
    BY <1>1, <1>2, <1>3, <1>4 DEF Served, poolVars, stateVars
<1>8. QED
    BY <1>1, <1>2, <1>5, <1>6, <1>7 DEF Answered, InOrder

LEMMA SubmitWaitsTurn == PoolInv /\ TurnInv /\ SubmitWaits => TurnInv'
<1> SUFFICES ASSUME PoolInv, TurnInv, SubmitWaits PROVE TurnInv'
    OBVIOUS
<1> USE DEF PoolInv
<1>1. PICK base \in Bases : Under(base) /\ Served(base)
    BY DEF TurnInv
<1>2. pending \cap done \subseteq Tasks
    BY DEF PoolTypeOK, Submitted
<1>3. /\ calls # <<>> /\ Top.call = "submit" /\ calls' = Draining(calls, Ready)
      /\ UNCHANGED <<targets, at, next, order, pending, completed, recorded, poolVars,
                     stateVars>>
    BY DEF SubmitWaits, Is, Idle, Draining, resultVars
<1>4. ~ (Cardinality(pending) < MaxPending)
    BY FS_CardinalityType, PoolAssumption DEF SubmitWaits, Full
<1>5. calls = base /\ InOrder(recorded) /\ \A c \in Stocks : Answered(c)
    <2>1. ASSUME NEW S \in SUBSET (pending \cap done)
          PROVE  calls # Draining(base, S) /\ calls # Recording(base, S)
        BY <1>2, <1>3, BaseTops, FrameKinds
    <2>2. QED
        BY <1>1, <1>4, <2>1 DEF Under
<1>6. /\ Once' /\ Placed' /\ InTurn' /\ Served(base)'
      /\ (\A c \in Stocks : Answered(c)') /\ InOrder(recorded)'
    BY <1>1, <1>3, <1>5, CallsOnly DEF InOrder
<1>7. Under(base)'
    <2>1. Ready \in SUBSET (pending' \cap done')
        BY <1>3 DEF Ready, poolVars
    <2>2. QED
        BY <1>3, <1>5, <1>6, <2>1 DEF Under
<1>8. QED
    BY <1>6, <1>7 DEF TurnInv

LEMMA RecordInOrderTurn == PoolInv /\ TurnInv /\ RecordInOrder => TurnInv'
<1> SUFFICES ASSUME PoolInv, TurnInv, RecordInOrder PROVE TurnInv'
    OBVIOUS
<1> USE DEF PoolInv
<1>1. PICK base \in Bases : Under(base) /\ Served(base)
    BY DEF TurnInv
<1>2. pending \cap done \subseteq Tasks
    BY DEF PoolTypeOK, Submitted
<1>3. /\ ~ Idle /\ calls # <<>> /\ Top.call = "record" /\ calls' = Below
      /\ UNCHANGED <<targets, at, next, order, pending, completed, poolVars, stateVars>>
    BY DEF RecordInOrder, Is, Idle
<1>4. PICK S \in SUBSET (pending \cap done) : calls = Recording(base, S)
    <2>1. calls # base
        BY <1>1, <1>3, BaseTops, FrameKinds DEF Bases
    <2>2. ASSUME NEW S \in SUBSET (pending \cap done)
          PROVE  calls # Draining(base, S) /\ \A c \in Stocks : calls # Resubmitting(base, S, c)
        BY <1>2, <1>3, BaseTops, FrameKinds
    <2>3. QED
        BY <1>1, <2>1, <2>2 DEF Under
<1>5. calls' = Draining(base, S)
    BY <1>2, <1>3, <1>4, BaseTops
<1>6. \A c \in Stocks : Answered(c)
    <2>1. calls # base
        BY <1>1, <1>3, BaseTops, FrameKinds DEF Bases
    <2>2. ASSUME NEW R \in SUBSET (pending \cap done)
          PROVE  calls # Draining(base, R) /\ \A c \in Stocks : calls # Resubmitting(base, R, c)
        BY <1>2, <1>3, BaseTops, FrameKinds
    <2>3. QED
        BY <1>1, <2>1, <2>2 DEF Under
<1>7. /\ Once' /\ Placed' /\ InTurn' /\ Served(base)'
      /\ \A c \in Stocks : Answered(c)'
    BY <1>1, <1>3, <1>6, CallsOnly
<1>8. InOrder(recorded)'
    <2>1. PICK n \in recorded..Len(order) : InOrder(n) /\ recorded' = n
        BY DEF RecordInOrder
    <2>2. recorded' < Len(order) => order[recorded' + 1] \notin completed
        BY <2>1 DEF InOrder
    <2>3. n \in Int
        <3>1. Len(order) \in Nat
            BY LenProperties DEF PoolTypeOK
        <3>2. QED
            BY <2>1, <3>1 DEF PoolTypeOK
    <2>4. \A m \in n + 1..n : order[m] \in completed
        BY <2>3
    <2>5. QED
        BY <1>3, <2>1, <2>2, <2>4 DEF InOrder
<1>9. Under(base)'
    <2>1. S \in SUBSET (pending' \cap done')
        BY <1>3 DEF poolVars
    <2>2. QED
        BY <1>5, <1>7, <1>8, <2>1 DEF Under
<1>10. QED
    BY <1>7, <1>9 DEF TurnInv

\* The drain a call on top of base is in.
LEMMA DrainOf ==
    ASSUME PoolInv, NEW base \in Bases, Under(base), ~ Idle, Top.call = "drain"
    PROVE  /\ \E S \in SUBSET (pending \cap done) :
                calls = Draining(base, S) /\ Top = Drain(S) /\ Top.rest = S /\ Below = base
           /\ InOrder(recorded) /\ \A c \in Stocks : Answered(c)
<1>1. pending \cap done \subseteq Tasks
    BY DEF PoolInv, PoolTypeOK, Submitted
<1>2. calls # base
    BY BaseTops, FrameKinds DEF Bases, Idle
<1>3. ASSUME NEW S \in SUBSET (pending \cap done)
      PROVE  /\ calls # Recording(base, S) /\ \A c \in Stocks : calls # Resubmitting(base, S, c)
             /\ calls = Draining(base, S) => Top = Drain(S) /\ Top.rest = S /\ Below = base
    BY <1>1, BaseTops, FrameKinds
<1>4. QED
    BY <1>2, <1>3 DEF Under

LEMMA DrainReturnsTurn == PoolInv /\ TurnInv /\ DrainReturns => TurnInv'
<1> SUFFICES ASSUME PoolInv, TurnInv, DrainReturns PROVE TurnInv'
    OBVIOUS
<1>1. PICK base \in Bases : Under(base) /\ Served(base)
    BY DEF TurnInv
<1>2. /\ ~ Idle /\ calls # <<>> /\ Top.call = "drain" /\ calls' = Below
      /\ UNCHANGED <<targets, at, next, order, pending, completed, recorded, poolVars,
                     stateVars>>
    BY DEF DrainReturns, Is, Idle, resultVars
<1>3. calls' = base /\ InOrder(recorded) /\ \A c \in Stocks : Answered(c)
    BY <1>1, <1>2, DrainOf
<1>4. /\ Once' /\ Placed' /\ InTurn' /\ Served(base)'
      /\ (\A c \in Stocks : Answered(c)') /\ InOrder(recorded)'
    BY <1>1, <1>2, <1>3, CallsOnly DEF InOrder
<1>5. Under(base)'
    BY <1>3, <1>4 DEF Under
<1>6. QED
    BY <1>4, <1>5 DEF TurnInv

LEMMA CollectTurn == PoolInv /\ TurnInv /\ Collect => TurnInv'
<1> SUFFICES ASSUME PoolInv, TurnInv, Collect PROVE TurnInv'
    OBVIOUS
<1> USE DEF PoolInv
<1>1. PICK base \in Bases : Under(base) /\ Served(base)
    BY DEF TurnInv
<1>2. ~ Idle /\ Top.call = "drain"
    BY DEF Collect, Is
<1>3. PICK S \in SUBSET (pending \cap done) : Top.rest = S /\ Below = base
    BY <1>1, <1>2, DrainOf
<1>4. \A c \in Stocks : Answered(c)
    BY <1>1, <1>2, DrainOf
<1>5. PICK t \in S :
        /\ pending' = pending \ {t} /\ completed' = completed \cup {t}
        /\ LET r == RequestsOf(t)
               submits == [n \in DOMAIN r |-> Submit(r[Len(r) + 1 - n])]
           IN  calls' = base \o <<Drain(S \ {t}), RecordCall>> \o submits
    BY <1>3 DEF Collect
<1>6. UNCHANGED <<targets, at, next, order, recorded, queue, running, begun, done, asking,
                  factored, plans, blind>>
    BY DEF Collect, poolVars, stateVars
<1>7. S \ {t} \in SUBSET Tasks /\ S \ {t} \in SUBSET (pending' \cap done')
    BY <1>5, <1>6 DEF PoolTypeOK, Submitted
<1>8. Submitted' = Submitted /\ t \in Submitted /\ t \in pending /\ t \in done
    BY <1>5, <1>6 DEF Submitted, PoolTypeOK
<1>9. \A c : Released(c)' = Released(c)
    BY <1>6 DEF Released
<1>10. \A c, places : Reached(c, places)' = Reached(c, places)
    BY <1>6 DEF Reached
<1>11. \A c : Asked(c) => Asked(c)'
    BY <1>5, <1>6 DEF Asked
<1>12. at # "returned"
    BY <1>2 DEF TurnInv, Placed, Idle
<1>13. Once'
    BY <1>5, <1>6, <1>8 DEF TurnInv, Once
<1>14. Placed'
    BY <1>6, <1>8, <1>10, <1>11, <1>12 DEF TurnInv, Placed
<1>15. InTurn'
    BY <1>6, <1>8, <1>9 DEF TurnInv, InTurn
<1>16. Served(base)'
    <2>1. \A u : Fetching(u)' = Fetching(u)
        BY <1>6, <1>8 DEF Fetching, CurrentCode
    <2>2. QED
        BY <1>1, <1>6, <1>8, <1>9, <1>10, <2>1 DEF Served
<1>17. Under(base)'
    <2>1. CASE t \notin asking
        <3>1. calls' = base \o <<Drain(S \ {t}), RecordCall>> \o <<>>
            BY <1>5, <2>1 DEF RequestsOf
        <3>2. calls' = Recording(base, S \ {t})
            BY <1>7, <3>1, Stacked
        <3>3. \A c : Asked(c)' => Asked(c)
            BY <1>5, <1>6, <2>1 DEF Asked
        <3>4. \A c \in Stocks : Answered(c)'
            BY <1>4, <1>8, <3>3 DEF Answered
        <3>5. QED
            BY <1>7, <3>2, <3>4 DEF Under
    <2>2. CASE t \in asking
        <3>1. PICK c \in Stocks : t = DailyTask(c)
            BY <2>2 DEF PoolTypeOK
        <3>2. RequestsOf(t) = <<Refetch(c)>>
            BY <2>2, <3>1 DEF RequestsOf, DailyTask
        <3>3. [n \in DOMAIN RequestsOf(t) |-> Submit(RequestsOf(t)[Len(RequestsOf(t)) + 1 - n])]
              = <<Submit(Refetch(c))>>
            BY <3>2
        <3>4. calls' = base \o <<Drain(S \ {t}), RecordCall>> \o <<Submit(Refetch(c))>>
            BY <1>5, <3>3
        <3>5. calls' = Resubmitting(base, S \ {t}, c)
            BY <1>7, <3>4, Stacked
        <3>6. Cardinality(pending') < MaxPending
            <4>1. Cardinality(pending) \in Nat /\ Cardinality(pending) <= MaxPending
                BY FS_CardinalityType DEF PendingBounded
            <4>2. Cardinality(pending \ {t}) = Cardinality(pending) - 1
                BY <1>8, FS_RemoveElement
            <4>3. QED
                BY <1>5, <4>1, <4>2, PoolAssumption
        <3>7. Asked(c)' /\ Refetch(c) \notin Submitted'
            <4>1. t \notin completed
                BY <1>8 DEF TurnInv, Once
            <4>2. Refetch(c) \notin Submitted
                BY <3>1, <4>1 DEF TurnInv, Placed, Asked
            <4>3. QED
                BY <1>5, <1>6, <1>8, <2>2, <3>1, <4>2 DEF Asked
        <3>8. \A d \in Stocks \ {c} : Answered(d)'
            <4>1. \A d \in Stocks \ {c} : Asked(d)' => Asked(d)
                BY <1>5, <1>6, <3>1, TaskKinds DEF Asked
            <4>2. QED
                BY <1>4, <1>8, <4>1 DEF Answered
        <3>9. QED
            BY <1>7, <3>5, <3>6, <3>7, <3>8 DEF Under
    <2>3. QED
        BY <2>1, <2>2
<1>18. QED
    BY <1>13, <1>14, <1>15, <1>16, <1>17 DEF TurnInv

\* A step in the loop, which begins a submission or a drain, or nothing.
LEMMA FromIdle ==
    ASSUME PoolInv, TurnInv, Idle
    PROVE  /\ calls = <<>> /\ Served(<<>>)
           /\ InOrder(recorded) /\ \A c \in Stocks : Answered(c)
<1>1. PICK base \in Bases : Under(base) /\ Served(base)
    BY DEF TurnInv
<1>2. /\ base = <<>> /\ calls = <<>>
      /\ InOrder(recorded) /\ \A c \in Stocks : Answered(c)
    BY <1>1, Outside DEF PoolInv
<1>3. QED
    BY <1>1, <1>2

\* The tasks are as they were, and the main thread has at most begun something.
LEMMA LoopOnly ==
    ASSUME PoolInv, TurnInv, Idle,
           UNCHANGED <<targets, resultVars, poolVars, plans, blind>>
    PROVE  /\ Once' /\ Submitted' = Submitted
           /\ \A c : Asked(c)' = Asked(c) /\ Released(c)' = Released(c)
           /\ calls' = Draining(<<>>, Ready) => Under(<<>>)'
           /\ \A base \in Bases : calls' = base => Under(base)'
<1>1. Submitted' = Submitted
    BY DEF Submitted, resultVars
<1>2. \A c : Asked(c)' = Asked(c) /\ Released(c)' = Released(c)
    BY DEF Asked, Released, resultVars, poolVars
<1>3. Once'
    BY <1>1 DEF TurnInv, Once, resultVars, poolVars
<1>4. InOrder(recorded)' /\ \A c \in Stocks : Answered(c)'
    BY <1>1, <1>2, FromIdle DEF InOrder, Answered, resultVars
<1>5. Ready \in SUBSET (pending' \cap done')
    BY DEF Ready, resultVars, poolVars
<1>6. calls' = Draining(<<>>, Ready) => Under(<<>>)'
    BY <1>4, <1>5 DEF Under
<1>7. \A base \in Bases : calls' = base => Under(base)'
    BY <1>4 DEF Under
<1>8. QED
    BY <1>1, <1>2, <1>3, <1>6, <1>7

LEMMA FetchFactorTurn == PoolInv /\ TurnInv /\ FetchFactor => TurnInv'
<1> SUFFICES ASSUME PoolInv, TurnInv, FetchFactor PROVE TurnInv'
    OBVIOUS
<1>1. /\ Idle /\ at = "factor" /\ at' = "daily" /\ next <= Len(UpdateCodes)
      /\ UNCHANGED <<targets, next, resultVars, poolVars, plans, blind>>
    BY DEF FetchFactor, InLoop
<1>2. PoolTypeOK /\ Once /\ Placed /\ InTurn
    BY DEF TurnInv, PoolInv
<1>3. /\ CurrentCode \in Stocks /\ next \in DOMAIN UpdateCodes
      /\ \A n \in DOMAIN UpdateCodes : UpdateCodes[n] = CurrentCode => n = next
    BY <1>1, <1>2, AtCurrent
<1>4. next \in Nat /\ DOMAIN UpdateCodes \subseteq Nat
    BY <1>2, PoolAssumption DEF PoolTypeOK
<1>5. calls = <<>> /\ Served(<<>>)
    BY <1>1, FromIdle
<1>6. ~ Reached(CurrentCode, {"daily", "poll", "raised"}) /\ ~ Reached(CurrentCode, {"poll"})
    BY <1>1, <1>3, <1>4 DEF Reached
<1>7. Factor(CurrentCode) \notin Submitted /\ DailyTask(CurrentCode) \notin Submitted
    BY <1>2, <1>3, <1>6 DEF Placed
<1>8. ~ Released(CurrentCode)
    BY <1>2, <1>3, <1>7, ReleasedIsDone DEF PoolTypeOK
<1>9. /\ Once' /\ Submitted' = Submitted
      /\ \A c : Asked(c)' = Asked(c) /\ Released(c)' = Released(c)
      /\ \A base \in Bases : calls' = base => Under(base)'
    BY <1>1, LoopOnly
<1>10. /\ \A c : Reached(c, {"daily", "poll", "raised"}) => Reached(c, {"daily", "poll", "raised"})'
       /\ \A c : Reached(c, {"poll"}) <=> Reached(c, {"poll"})'
       /\ \A c : Reached(c, {"daily", "poll"})' => Reached(c, {"daily", "poll"}) \/ c = CurrentCode
    BY <1>1 DEF Reached, CurrentCode
<1>11. Placed'
    BY <1>1, <1>2, <1>9, <1>10 DEF Placed, resultVars
<1>12. /\ factored' = factored \/ (targets = "adjusted" /\ factored' = factored \cup {CurrentCode})
    BY DEF FetchFactor
<1>13. InTurn'
    BY <1>1, <1>2, <1>8, <1>9, <1>12 DEF InTurn, poolVars
<1>14. PICK base \in Bases :
        /\ calls' = base
        /\ base = <<>> \/ base = Append(<<>>, Submit(Factor(CurrentCode)))
        /\ targets = "adjusted" =>
             CurrentCode \in factored' \/ base = Append(<<>>, Submit(Factor(CurrentCode)))
    <2>1. CASE targets # "unadjusted" /\ calls' = <<Submit(Factor(CurrentCode))>>
        <3>1. Append(<<>>, Submit(Factor(CurrentCode))) \in Bases
            BY <1>3, FrameTypes DEF Bases
        <3>2. Append(<<>>, Submit(Factor(CurrentCode))) = <<Submit(Factor(CurrentCode))>>
            OBVIOUS
        <3>3. QED
            BY <2>1, <3>1, <3>2
    <2>2. CASE targets = "adjusted" /\ factored' = factored \cup {CurrentCode} /\ calls' = calls
        BY <1>5, <2>2 DEF Bases
    <2>3. CASE targets = "unadjusted" /\ calls' = calls
        BY <1>5, <2>3 DEF Bases
    <2>4. QED
        BY <2>1, <2>2, <2>3 DEF FetchFactor
<1>15. Served(base)'
    <2>1. \A t : t = Factor(CurrentCode) => Fetching(t)'
        BY <1>1, <1>7, <1>9 DEF Fetching, CurrentCode
    <2>2. base = <<>> \/ \E t \in Tasks : base = Append(<<>>, Submit(t)) /\ Fetching(t)'
        BY <1>3, <1>14, <2>1, FrameTypes
    <2>3. \A t : Append(<<>>, Submit(t)) # <<>>
        OBVIOUS
    <2>4. ASSUME NEW c \in Stocks, targets' = "adjusted", Reached(c, {"daily", "poll"})'
          PROVE  \/ c \in factored' \/ Released(c)'
                 \/ Factor(c) \in Submitted' \ done' \/ base = Append(<<>>, Submit(Factor(c)))
        <3>1. CASE c = CurrentCode
            BY <1>1, <1>14, <2>4, <3>1
        <3>2. CASE Reached(c, {"daily", "poll"})
            BY <1>1, <1>5, <1>9, <1>12, <2>3, <2>4, <3>2 DEF Served, poolVars
        <3>3. QED
            BY <1>10, <2>4, <3>1, <3>2
    <2>5. ASSUME NEW c \in Stocks, targets' # "factor", Reached(c, {"poll"})'
          PROVE  DailyTask(c) \in Submitted'
        BY <1>1, <1>5, <1>9, <1>10, <2>3, <2>5 DEF Served
    <2>6. QED
        BY <2>2, <2>4, <2>5 DEF Served
<1>16. QED
    BY <1>9, <1>11, <1>13, <1>14, <1>15 DEF TurnInv

LEMMA FetchDailyTurn == PoolInv /\ TurnInv /\ FetchBars => TurnInv'
<1> SUFFICES ASSUME PoolInv, TurnInv, FetchBars PROVE TurnInv'
    OBVIOUS
<1>1. /\ Idle /\ at = "daily" /\ at' = "poll" /\ next <= Len(UpdateCodes)
      /\ calls' = IF targets = "factor" THEN <<>> ELSE <<Submit(DailyTask(CurrentCode))>>
      /\ UNCHANGED <<targets, next, resultVars, poolVars, factored, plans, blind>>
    BY DEF FetchBars, InLoop, stateVars
<1>2. PoolTypeOK /\ Once /\ Placed /\ InTurn
    BY DEF TurnInv, PoolInv
<1>3. /\ CurrentCode \in Stocks /\ next \in DOMAIN UpdateCodes
      /\ \A n \in DOMAIN UpdateCodes : UpdateCodes[n] = CurrentCode => n = next
    BY <1>1, <1>2, AtCurrent
<1>4. next \in Nat /\ DOMAIN UpdateCodes \subseteq Nat
    BY <1>2, PoolAssumption DEF PoolTypeOK
<1>5. calls = <<>> /\ Served(<<>>)
    BY <1>1, FromIdle
<1>6. DailyTask(CurrentCode) \notin Submitted
    <2>1. ~ Reached(CurrentCode, {"poll"})
        BY <1>1, <1>3, <1>4 DEF Reached
    <2>2. QED
        BY <1>2, <1>3, <2>1 DEF Placed
<1>7. /\ Once' /\ Submitted' = Submitted
      /\ \A c : Asked(c)' = Asked(c) /\ Released(c)' = Released(c)
      /\ \A base \in Bases : calls' = base => Under(base)'
    BY <1>1, LoopOnly
<1>8. /\ \A c : Reached(c, {"daily", "poll", "raised"}) => Reached(c, {"daily", "poll", "raised"})'
      /\ \A c : Reached(c, {"poll"}) => Reached(c, {"poll"})'
      /\ \A c : Reached(c, {"daily", "poll"})' => Reached(c, {"daily", "poll"})
      /\ \A c : Reached(c, {"poll"})' => Reached(c, {"poll"}) \/ c = CurrentCode
    BY <1>1 DEF Reached, CurrentCode
<1>9. Placed'
    BY <1>1, <1>2, <1>7, <1>8 DEF Placed, resultVars
<1>10. InTurn'
    BY <1>1, <1>2, <1>7 DEF InTurn, poolVars
<1>11. PICK base \in Bases :
        /\ calls' = base
        /\ base = <<>> \/ base = Append(<<>>, Submit(DailyTask(CurrentCode)))
        /\ targets # "factor" => base = Append(<<>>, Submit(DailyTask(CurrentCode)))
    <2>1. Append(<<>>, Submit(DailyTask(CurrentCode))) \in Bases /\ <<>> \in Bases
        BY <1>3, FrameTypes DEF Bases
    <2>2. Append(<<>>, Submit(DailyTask(CurrentCode))) = <<Submit(DailyTask(CurrentCode))>>
        OBVIOUS
    <2>3. QED
        BY <1>1, <2>1, <2>2
<1>12. Served(base)'
    <2>1. \A t : t = DailyTask(CurrentCode) => Fetching(t)'
        BY <1>1, <1>6, <1>7 DEF Fetching, CurrentCode
    <2>2. base = <<>> \/ \E t \in Tasks : base = Append(<<>>, Submit(t)) /\ Fetching(t)'
        BY <1>3, <1>11, <2>1, FrameTypes
    <2>3. \A t : Append(<<>>, Submit(t)) # <<>>
        OBVIOUS
    <2>4. ASSUME NEW c \in Stocks, targets' = "adjusted", Reached(c, {"daily", "poll"})'
          PROVE  \/ c \in factored' \/ Released(c)' \/ Factor(c) \in Submitted' \ done'
        BY <1>1, <1>5, <1>7, <1>8, <2>3, <2>4 DEF Served, poolVars
    <2>5. ASSUME NEW c \in Stocks, targets' # "factor", Reached(c, {"poll"})'
          PROVE  DailyTask(c) \in Submitted' \/ base = Append(<<>>, Submit(DailyTask(c)))
        <3>1. CASE c = CurrentCode
            BY <1>1, <1>11, <2>5, <3>1
        <3>2. CASE Reached(c, {"poll"})
            BY <1>1, <1>5, <1>7, <2>3, <2>5, <3>2 DEF Served
        <3>3. QED
            BY <1>8, <2>5, <3>1, <3>2
    <2>6. QED
        BY <2>2, <2>4, <2>5 DEF Served
<1>13. QED
    BY <1>7, <1>9, <1>10, <1>11, <1>12 DEF TurnInv

LEMMA PollTurn == PoolInv /\ TurnInv /\ Poll => TurnInv'
<1> SUFFICES ASSUME PoolInv, TurnInv, Poll PROVE TurnInv'
    OBVIOUS
<1>1. /\ Idle /\ at = "poll" /\ at' = "factor" /\ next' = next + 1
      /\ calls' = <<Drain(Ready)>>
      /\ UNCHANGED <<targets, resultVars, poolVars, factored, plans, blind>>
    BY DEF Poll, InLoop, stateVars
<1>2. PoolTypeOK /\ Once /\ Placed /\ InTurn
    BY DEF TurnInv, PoolInv
<1>3. calls = <<>> /\ Served(<<>>)
    BY <1>1, FromIdle
<1>4. next \in Nat /\ DOMAIN UpdateCodes \subseteq Nat
    BY <1>2, PoolAssumption DEF PoolTypeOK
<1>5. calls' = Draining(<<>>, Ready) /\ <<>> \in Bases
    BY <1>1 DEF Draining, Bases
<1>6. /\ Once' /\ Submitted' = Submitted /\ Under(<<>>)'
      /\ \A c : Asked(c)' = Asked(c) /\ Released(c)' = Released(c)
    BY <1>1, <1>5, LoopOnly
<1>7. /\ \A c : Reached(c, {"daily", "poll", "raised"}) <=> Reached(c, {"daily", "poll", "raised"})'
      /\ \A c : Reached(c, {"poll"}) <=> Reached(c, {"poll"})'
      /\ \A c : Reached(c, {"daily", "poll"}) <=> Reached(c, {"daily", "poll"})'
    BY <1>1, <1>4 DEF Reached
<1>8. Placed'
    BY <1>1, <1>2, <1>6, <1>7 DEF Placed, resultVars
<1>9. InTurn'
    BY <1>1, <1>2, <1>6 DEF InTurn, poolVars
<1>10. Served(<<>>)'
    BY <1>1, <1>3, <1>6, <1>7 DEF Served, poolVars
<1>11. QED
    BY <1>5, <1>6, <1>8, <1>9, <1>10 DEF TurnInv

LEMMA WaitForAllTurn == PoolInv /\ TurnInv /\ WaitForAll => TurnInv'
<1> SUFFICES ASSUME PoolInv, TurnInv, WaitForAll PROVE TurnInv'
    OBVIOUS
<1>1. /\ Idle /\ at \in {"factor", "flushed"}
      /\ calls' = <<Drain(Ready)>>
      /\ UNCHANGED <<targets, at, next, resultVars, poolVars, factored, plans, blind>>
    BY DEF WaitForAll, stateVars
<1>2. calls = <<>> /\ Served(<<>>)
    BY <1>1, FromIdle
<1>3. calls' = Draining(<<>>, Ready) /\ <<>> \in Bases
    BY <1>1 DEF Draining, Bases
<1>4. /\ Once' /\ Submitted' = Submitted /\ Under(<<>>)'
      /\ \A c : Asked(c)' = Asked(c) /\ Released(c)' = Released(c)
    BY <1>1, <1>3, LoopOnly
<1>5. \A c, places : Reached(c, places)' = Reached(c, places)
    BY <1>1 DEF Reached
<1>6. Placed'
    BY <1>1, <1>4, <1>5 DEF TurnInv, Placed, resultVars
<1>7. InTurn'
    BY <1>1, <1>4 DEF TurnInv, InTurn, poolVars
<1>8. Served(<<>>)'
    BY <1>1, <1>2, <1>4, <1>5 DEF Served, poolVars
<1>9. QED
    BY <1>3, <1>4, <1>6, <1>7, <1>8 DEF TurnInv

\* Past the loop, and where it ends before its end.
LEMMA EndingTurn == PoolInv /\ TurnInv /\ (SubmitFlush \/ RunReturns \/ Raise) => TurnInv'
<1> SUFFICES ASSUME PoolInv, TurnInv, SubmitFlush \/ RunReturns \/ Raise PROVE TurnInv'
    OBVIOUS
<1>1. /\ Idle
      /\ UNCHANGED <<targets, next, resultVars, poolVars, factored, plans, blind>>
    BY DEF SubmitFlush, RunReturns, Raise, InLoop, stateVars
<1>2. PoolTypeOK /\ Once /\ Placed /\ InTurn
    BY DEF TurnInv, PoolInv
<1>3. calls = <<>> /\ Served(<<>>)
    BY <1>1, FromIdle
<1>4. /\ Once' /\ Submitted' = Submitted
      /\ \A c : Asked(c)' = Asked(c) /\ Released(c)' = Released(c)
      /\ \A base \in Bases : calls' = base => Under(base)'
    BY <1>1, LoopOnly
<1>5. next \in Nat /\ DOMAIN UpdateCodes \subseteq Nat /\ DOMAIN UpdateCodes = 1..Len(UpdateCodes)
      /\ Len(UpdateCodes) \in Nat /\ next \in 1..Len(UpdateCodes) + 1
    BY <1>2, PoolAssumption, LenProperties DEF PoolTypeOK
<1>6. /\ \A c : Reached(c, {"daily", "poll", "raised"}) => Reached(c, {"daily", "poll", "raised"})'
      /\ \A c : Reached(c, {"poll"}) <=> Reached(c, {"poll"})'
      /\ \A c : Reached(c, {"daily", "poll"})' => Reached(c, {"daily", "poll"})
    BY <1>1, <1>5 DEF Reached, SubmitFlush, RunReturns, Raise, InLoop
<1>7. Placed'
    <2>1. CASE SubmitFlush
        BY <1>1, <1>2, <1>4, <1>5, <1>6, <2>1 DEF Placed, SubmitFlush, resultVars
    <2>2. CASE RunReturns
        BY <1>1, <1>2, <1>3, <1>4, <1>5, <1>6, <2>2 DEF Placed, RunReturns, resultVars
    <2>3. CASE Raise
        BY <1>1, <1>2, <1>4, <1>5, <1>6, <2>3 DEF Placed, Raise, InLoop, resultVars
    <2>4. QED
        BY <2>1, <2>2, <2>3
<1>8. InTurn'
    BY <1>1, <1>2, <1>4 DEF InTurn, poolVars
<1>9. PICK base \in Bases :
        /\ calls' = base
        /\ \/ base = <<>>
           \/ base = Append(<<>>, Submit(FlushTask)) /\ SubmitFlush
    <2>1. CASE SubmitFlush
        <3>1. Append(<<>>, Submit(FlushTask)) \in Bases
            BY FrameTypes DEF Bases
        <3>2. Append(<<>>, Submit(FlushTask)) = <<Submit(FlushTask)>>
            OBVIOUS
        <3>3. QED
            BY <2>1, <3>1, <3>2 DEF SubmitFlush
    <2>2. CASE RunReturns \/ Raise
        BY <1>3, <2>2 DEF RunReturns, Raise, Bases
    <2>3. QED
        BY <2>1, <2>2
<1>10. Served(base)'
    <2>1. SubmitFlush => Fetching(FlushTask)'
        BY <1>2, <1>4 DEF Fetching, SubmitFlush, Placed
    <2>2. base = <<>> \/ \E t \in Tasks : base = Append(<<>>, Submit(t)) /\ Fetching(t)'
        BY <1>9, <2>1, FrameTypes
    <2>3. \A t : Append(<<>>, Submit(t)) # <<>>
        OBVIOUS
    <2>4. QED
        BY <1>1, <1>3, <1>4, <1>6, <2>2, <2>3 DEF Served, poolVars
<1>11. QED
    BY <1>4, <1>7, <1>8, <1>9, <1>10 DEF TurnInv

-----------------------------------------------------------------------------
(* The tasks                                                               *)

LEMMA TakeTurn == PoolInv /\ TurnInv /\ Take => TurnInv'
<1> SUFFICES ASSUME PoolInv, TurnInv, Take PROVE TurnInv'
    OBVIOUS
<1>1. /\ queue # <<>> /\ queue' = Tail(queue) /\ running' = running \cup {Head(queue)}
      /\ UNCHANGED <<targets, at, next, calls, order, pending, completed, recorded, begun,
                     done, asking, factored, plans, blind>>
    BY DEF Take, mainVars, resultVars, stateVars
<1>2. PoolTypeOK /\ Once /\ Placed /\ InTurn
    BY DEF TurnInv, PoolInv
<1>3. PICK base \in Bases : Under(base) /\ Served(base)
    BY DEF TurnInv
<1>4. /\ queue' \in Seq(Tasks) /\ Len(queue') = Len(queue) - 1 /\ Len(queue) \in Nat
      /\ \A i \in 1..Len(queue') : queue'[i] = queue[i + 1]
      /\ DOMAIN queue = 1..Len(queue) /\ DOMAIN queue' = 1..Len(queue')
    BY <1>1, <1>2, HeadTailProperties, LenProperties DEF PoolTypeOK
<1>5. 1 \in DOMAIN queue /\ Head(queue) = queue[1]
    BY <1>1, <1>2, <1>4, EmptySeq DEF PoolTypeOK
<1>6. Submitted' = Submitted
    BY <1>1 DEF Submitted
<1>7. \A m \in DOMAIN queue' : m + 1 \in DOMAIN queue /\ queue'[m] = queue[m + 1]
    BY <1>4
<1>8. Once'
    <2>1. ASSUME NEW m \in DOMAIN queue', NEW n \in DOMAIN queue', queue'[m] = queue'[n]
          PROVE  m = n
        <3>1. m + 1 = n + 1
            BY <1>2, <1>7, <2>1 DEF Once
        <3>2. QED
            BY <1>4, <3>1
    <2>2. \A m \in DOMAIN queue' : queue'[m] \notin running \cup done /\ queue'[m] # Head(queue)
        <3> SUFFICES ASSUME NEW m \in DOMAIN queue'
                     PROVE  queue'[m] \notin running \cup done /\ queue'[m] # Head(queue)
            OBVIOUS
        <3>1. m + 1 # 1
            BY <1>4
        <3>2. QED
            BY <1>2, <1>5, <1>7, <3>1 DEF Once
    <2>3. Head(queue) \notin done
        BY <1>2, <1>5 DEF Once
    <2>4. QED
        BY <1>1, <1>2, <1>6, <2>1, <2>2, <2>3 DEF Once
<1>9. \A c : Asked(c)' = Asked(c) /\ Released(c)' = Released(c)
    BY <1>1 DEF Asked, Released
<1>10. \A c, places : Reached(c, places)' = Reached(c, places)
    BY <1>1 DEF Reached
<1>11. Placed' /\ InTurn'
    BY <1>1, <1>2, <1>6, <1>9, <1>10 DEF Placed, InTurn
<1>12. Under(base)'
    BY <1>1, <1>2, <1>3, KeepsCalls
<1>13. Served(base)'
    <2>1. \A t : Fetching(t)' = Fetching(t)
        BY <1>1, <1>6 DEF Fetching, CurrentCode
    <2>2. QED
        BY <1>1, <1>3, <1>6, <1>9, <1>10, <2>1 DEF Served
<1>14. QED
    BY <1>8, <1>11, <1>12, <1>13 DEF TurnInv

\* What a task does to the others' order: it is done once, and the main thread does not see
\* it yet.
LEMMA WorkOnly ==
    ASSUME PoolInv, TurnInv, NEW t \in running, running' \subseteq running,
           UNCHANGED <<mainVars, resultVars, queue>>,
           done' = done \/ (done' = done \cup {t} /\ running' = running \ {t}),
           asking' = asking \/ asking' = asking \cup {t}
    PROVE  /\ Once' /\ Placed' /\ Submitted' = Submitted
           /\ \A base \in Bases : Under(base) => Under(base)'
           /\ \A u : Fetching(u)' = Fetching(u)
           /\ \A c, places : Reached(c, places)' = Reached(c, places)
<1>1. PoolTypeOK /\ Once /\ Placed
    BY DEF TurnInv, PoolInv
<1>2. Submitted' = Submitted
    BY DEF Submitted, resultVars
<1>3. t \in Submitted /\ t \notin done /\ t \notin completed
    BY <1>1 DEF PoolTypeOK, Once
<1>4. Once'
    BY <1>1, <1>2, <1>3 DEF Once, resultVars
<1>5. \A c : Asked(c)' = Asked(c)
    BY <1>3 DEF Asked, resultVars
<1>6. \A c, places : Reached(c, places)' = Reached(c, places)
    BY DEF Reached, mainVars
<1>7. Placed'
    BY <1>1, <1>2, <1>5, <1>6 DEF Placed, mainVars, resultVars
<1>8. \A u : Fetching(u)' = Fetching(u)
    BY <1>2 DEF Fetching, CurrentCode, mainVars
<1>9. ASSUME NEW base \in Bases, Under(base) PROVE Under(base)'
    <2>1. UNCHANGED <<calls, order, pending, completed, recorded>> /\ done \subseteq done'
        BY DEF mainVars, resultVars
    <2>2. \A c \in Stocks : DailyTask(c) \in completed => (DailyTask(c) \in asking' <=> DailyTask(c) \in asking)
        BY <1>3
    <2>3. QED
        BY <1>1, <1>9, <2>1, <2>2, KeepsCalls
<1>10. QED
    BY <1>2, <1>4, <1>6, <1>7, <1>8, <1>9

\* Once its bars are submitted, the loop is past submitting the factors of a code.
LEMMA PastFactors ==
    ASSUME PoolTypeOK, Placed, NEW base \in Bases, Served(base),
           NEW c \in Stocks, Reached(c, {"poll"})
    PROVE  base # Append(<<>>, Submit(Factor(c)))
<1> SUFFICES ASSUME base = Append(<<>>, Submit(Factor(c))) PROVE FALSE
    OBVIOUS
<1>1. PICK u \in Tasks : base = Append(<<>>, Submit(u)) /\ Fetching(u)
    BY DEF Served
<1>2. u = Factor(c)
    BY <1>1, FrameKinds
<1>3. at = "daily" /\ c = CurrentCode
    BY <1>1, <1>2, TaskKinds DEF Fetching
<1>4. \A n \in DOMAIN UpdateCodes : UpdateCodes[n] = c => n = next
    BY <1>3, AtCurrent DEF Placed
<1>5. next \in 1..Len(UpdateCodes) + 1 /\ Len(UpdateCodes) \in Nat
    BY PoolAssumption, LenProperties DEF PoolTypeOK
<1>6. QED
    BY <1>3, <1>4, <1>5 DEF Reached

\* Whatever a task that begins looks for is there.
LEMMA BeginTurn ==
    ASSUME PoolInv, TurnInv, NEW t \in Tasks, BeginTask(t)
    PROVE  TurnInv'
<1>1. /\ t \in running /\ t \notin begun /\ ~ Waits(t)
      /\ begun' = begun \cup {t}
      /\ plans' = IF t.kind = "daily" THEN plans \cup {t.code} ELSE plans
      /\ UNCHANGED <<mainVars, resultVars, queue, running, done, asking, factored>>
    BY DEF BeginTask
<1>2. PoolTypeOK /\ Once /\ Placed /\ InTurn
    BY DEF TurnInv, PoolInv
<1>3. PICK base \in Bases : Under(base) /\ Served(base)
    BY DEF TurnInv
<1>4. t \in Submitted /\ t \notin done
    BY <1>1, <1>2 DEF PoolTypeOK, Once
<1>5. /\ Once' /\ Placed' /\ Submitted' = Submitted /\ Under(base)'
      /\ \A u : Fetching(u)' = Fetching(u)
      /\ \A c, places : Reached(c, places)' = Reached(c, places)
    BY <1>1, <1>3, WorkOnly
<1>6. \A c : Released(c)' = Released(c)
    BY <1>1 DEF Released
<1>7. Served(base)'
    BY <1>1, <1>3, <1>5, <1>6 DEF Served, mainVars
<1>8. \A c \in Stocks : Refetch(c) \in Submitted => DailyTask(c) \in done /\ DailyTask(c) \in asking
    BY <1>2 DEF Placed, Asked, PoolTypeOK
<1>9. ASSUME NEW c \in Stocks, t = DailyTask(c)
      PROVE  /\ Factor(c) \notin Submitted \ done /\ ~ Released(c)
             /\ targets = "adjusted" => c \in factored
    <2>1. Factor(c) \notin Submitted \ done
        BY <1>1, <1>9, TaskKinds DEF Waits
    <2>2. ~ Released(c)
        BY <1>2, <1>4, <1>9, ReleasedIsDone
    <2>3. Reached(c, {"poll"})
        BY <1>2, <1>4, <1>9 DEF Placed
    <2>4. Reached(c, {"daily", "poll"})
        BY <2>3 DEF Reached
    <2>5. base # Append(<<>>, Submit(Factor(c)))
        BY <1>2, <1>3, <2>3, PastFactors
    <2>6. targets = "adjusted" => c \in factored
        BY <1>3, <2>1, <2>2, <2>4, <2>5 DEF Served
    <2>7. QED
        BY <2>1, <2>2, <2>6
<1>10. ASSUME NEW c \in Stocks, t = Refetch(c)
       PROVE  /\ c \in plans /\ ~ Released(c)
              /\ targets = "adjusted" => c \in factored
    <2>1. DailyTask(c) \in done /\ DailyTask(c) \in asking
        BY <1>4, <1>8, <1>10
    <2>2. ~ Released(c)
        BY <1>4, <1>10, <2>1 DEF Released
    <2>3. c \in plans
        BY <1>2, <2>1, <2>2 DEF InTurn
    <2>4. Factor(c) \notin Submitted \ done
        BY <1>2, <2>1 DEF InTurn
    <2>5. DailyTask(c) \in Submitted
        BY <1>2, <2>1 DEF PoolTypeOK
    <2>6. Reached(c, {"poll"})
        BY <1>2, <2>5 DEF Placed
    <2>7. Reached(c, {"daily", "poll"})
        BY <2>6 DEF Reached
    <2>8. base # Append(<<>>, Submit(Factor(c)))
        BY <1>2, <1>3, <2>6, PastFactors
    <2>9. targets = "adjusted" => c \in factored
        BY <1>3, <2>2, <2>4, <2>7, <2>8 DEF Served
    <2>10. QED
        BY <2>2, <2>3, <2>9
<1>11. blind' = {}
    <2>1. blind = {}
        BY <1>2 DEF InTurn
    <2>2. ~ (\/ NeedsFactors(t) /\ t.code \notin factored
             \/ t.kind = "refetch" /\ t.code \notin plans)
        <3>1. CASE \E c \in Stocks : t = DailyTask(c)
            BY <1>9, <3>1, TaskKinds DEF NeedsFactors
        <3>2. CASE \E c \in Stocks : t = Refetch(c)
            BY <1>10, <3>2, TaskKinds DEF NeedsFactors
        <3>3. CASE \E c \in Stocks : t = Factor(c)
            BY <3>3, TaskKinds DEF NeedsFactors
        <3>4. CASE t = FlushTask
            BY <3>4 DEF NeedsFactors, FlushTask
        <3>5. QED
            BY <3>1, <3>2, <3>3, <3>4, TaskKinds
    <2>3. QED
        BY <2>1, <2>2 DEF BeginTask
<1>12. InTurn'
    <2>1. CASE \E c \in Stocks : t = DailyTask(c)
        <3>1. PICK c \in Stocks : t = DailyTask(c)
            BY <2>1
        <3>2. plans' = plans \cup {c} /\ \A d \in Stocks : DailyTask(d) = t => d = c
            BY <1>1, <3>1, TaskKinds
        <3>3. \A d \in Stocks : DailyTask(d) \in begun' \cup done' <=> DailyTask(d) \in begun \cup done \/ d = c
            BY <1>1, <3>1, <3>2
        <3>4. QED
            BY <1>1, <1>2, <1>5, <1>6, <1>9, <1>11, <3>1, <3>2, <3>3 DEF InTurn, mainVars
    <2>2. CASE \A c \in Stocks : t # DailyTask(c)
        <3>1. plans' = plans
            <4>1. t.kind # "daily"
                BY <2>2, TaskKinds DEF FlushTask
            <4>2. QED
                BY <1>1, <4>1
        <3>2. QED
            BY <1>1, <1>2, <1>5, <1>6, <1>11, <2>2, <3>1 DEF InTurn, mainVars
    <2>3. QED
        BY <2>1, <2>2
<1>13. QED
    BY <1>5, <1>7, <1>12 DEF TurnInv

\* The factors of a code are done before its bars begin, and so before its release.
LEMMA FinishFactorTurn ==
    ASSUME PoolInv, TurnInv, NEW t \in Tasks, FinishFactor(t)
    PROVE  TurnInv'
<1>1. /\ t \in running /\ running' = running \ {t}
      /\ begun' = begun \ {t} /\ done' = done \cup {t}
      /\ UNCHANGED <<mainVars, resultVars, queue, blind, asking, plans>>
      /\ factored' = IF targets = "adjusted" THEN factored \cup {t.code} ELSE factored
    BY DEF FinishFactor, FinishTask
<1>2. PoolTypeOK /\ Once /\ Placed /\ InTurn
    BY DEF TurnInv, PoolInv
<1>3. PICK base \in Bases : Under(base) /\ Served(base)
    BY DEF TurnInv
<1>4. PICK c \in Stocks : t = Factor(c)
    BY TaskKinds DEF FinishFactor, FlushTask
<1>5. /\ Once' /\ Placed' /\ Submitted' = Submitted /\ Under(base)'
      /\ \A u : Fetching(u)' = Fetching(u)
      /\ \A d, places : Reached(d, places)' = Reached(d, places)
    BY <1>1, <1>3, WorkOnly
<1>6. \A d : /\ Released(d)' = Released(d)
             /\ DailyTask(d) \in begun' \cup done' <=> DailyTask(d) \in begun \cup done
    BY <1>1, <1>4, TaskKinds DEF Released
<1>7. t \in Submitted \ done /\ t.code = c
    BY <1>1, <1>2, <1>4, TaskKinds DEF PoolTypeOK, Once
<1>8. ~ Released(c)
    BY <1>2, <1>4, <1>7, ReleasedIsDone DEF InTurn
<1>9. InTurn'
    BY <1>1, <1>2, <1>5, <1>6, <1>7, <1>8 DEF InTurn, mainVars
<1>10. Served(base)'
    <2>1. \A d : Factor(d) = t => d = c
        BY <1>4, TaskKinds
    <2>2. factored \subseteq factored' /\ (targets = "adjusted" => c \in factored')
        BY <1>1, <1>7
    <2>3. QED
        BY <1>1, <1>3, <1>5, <1>6, <2>1, <2>2 DEF Served, mainVars
<1>11. QED
    BY <1>5, <1>9, <1>10 DEF TurnInv

\* The bars release their code, unless they are fetched again.
LEMMA FinishBarsTurn ==
    ASSUME PoolInv, TurnInv, NEW t \in Tasks, FinishBars(t)
    PROVE  TurnInv'
<1>1. /\ t \in running /\ t \in begun /\ running' = running \ {t}
      /\ begun' = begun \ {t} /\ done' = done \cup {t}
      /\ UNCHANGED <<mainVars, resultVars, queue, blind>>
    BY DEF FinishBars, FinishTask
<1>2. PoolTypeOK /\ Once /\ Placed /\ InTurn
    BY DEF TurnInv, PoolInv
<1>3. PICK base \in Bases : Under(base) /\ Served(base)
    BY DEF TurnInv
<1>4. PICK c \in Stocks : t = DailyTask(c) \/ t = Refetch(c)
    BY TaskKinds DEF FinishBars, FlushTask
<1>5. t.code = c /\ t \in Submitted /\ t \notin done
    BY <1>1, <1>2, <1>4, TaskKinds DEF PoolTypeOK, Once
<1>6. asking' = asking \/ asking' = asking \cup {t}
    BY DEF FinishBars
<1>7. /\ Once' /\ Placed' /\ Submitted' = Submitted /\ Under(base)'
      /\ \A u : Fetching(u)' = Fetching(u)
      /\ \A d, places : Reached(d, places)' = Reached(d, places)
    BY <1>1, <1>3, <1>6, WorkOnly
<1>8. /\ \A d : Factor(d) # t
      /\ \A d \in Stocks \ {c} : DailyTask(d) # t /\ Refetch(d) # t
    BY <1>4, TaskKinds
<1>9. \A d \in Stocks \ {c} : Released(d)' = Released(d)
    BY <1>1, <1>6, <1>8 DEF Released
<1>10. \A d \in Stocks : DailyTask(d) \in begun' \cup done' <=> DailyTask(d) \in begun \cup done
    BY <1>1
<1>11. DailyTask(c) \in begun \cup done
    BY <1>1, <1>2, <1>4, <1>5 DEF Placed, Asked, PoolTypeOK
<1>12. t = DailyTask(c) => ~ Released(c)
    BY <1>2, <1>5, ReleasedIsDone
<1>13. CASE asking' = asking /\ Release(t.code)
    <2>1. factored' = factored \ {c} /\ plans' = plans \ {c}
        BY <1>5, <1>13 DEF Release
    <2>2. Released(c)'
        <3>1. CASE t = DailyTask(c)
            BY <1>1, <1>2, <1>5, <1>13, <3>1 DEF Released, PoolTypeOK
        <3>2. CASE t = Refetch(c)
            BY <1>1, <3>2 DEF Released
        <3>3. QED
            BY <1>4, <3>1, <3>2
    <2>3. InTurn'
        BY <1>1, <1>2, <1>7, <1>8, <1>9, <1>10, <1>11, <2>1, <2>2 DEF InTurn, mainVars
    <2>4. Served(base)'
        <3>1. \A d \in Stocks \ {c} :
                /\ d \in factored' <=> d \in factored
                /\ Factor(d) \in Submitted' \ done' <=> Factor(d) \in Submitted \ done
            BY <1>1, <1>7, <1>8, <2>1
        <3>2. QED
            BY <1>1, <1>3, <1>7, <1>9, <2>2, <3>1 DEF Served, mainVars
    <2>5. QED
        BY <1>7, <2>3, <2>4 DEF TurnInv
<1>14. CASE t.kind = "daily" /\ asking' = asking \cup {t} /\ UNCHANGED <<factored, plans>>
    <2>1. t = DailyTask(c)
        BY <1>4, <1>14, TaskKinds
    <2>2. ~ Released(c)' /\ ~ Released(c)
        BY <1>1, <1>12, <1>14, <2>1, TaskKinds DEF Released
    <2>3. InTurn'
        BY <1>1, <1>2, <1>7, <1>8, <1>9, <1>10, <1>14, <2>2 DEF InTurn, mainVars
    <2>4. Served(base)'
        BY <1>1, <1>3, <1>7, <1>8, <1>9, <1>14, <2>2 DEF Served, mainVars
    <2>5. QED
        BY <1>7, <2>3, <2>4 DEF TurnInv
<1>15. QED
    BY <1>13, <1>14 DEF FinishBars

LEMMA FinishFlushTurn ==
    ASSUME PoolInv, TurnInv, NEW t \in Tasks, FinishFlush(t)
    PROVE  TurnInv'
<1>1. /\ t = FlushTask /\ t \in running /\ running' = running \ {t}
      /\ begun' = begun \ {t} /\ done' = done \cup {t}
      /\ UNCHANGED <<mainVars, resultVars, queue, blind, asking, factored, plans>>
    BY DEF FinishFlush, FinishTask
<1>2. PoolTypeOK /\ Once /\ Placed /\ InTurn
    BY DEF TurnInv, PoolInv
<1>3. PICK base \in Bases : Under(base) /\ Served(base)
    BY DEF TurnInv
<1>4. /\ Once' /\ Placed' /\ Submitted' = Submitted /\ Under(base)'
      /\ \A u : Fetching(u)' = Fetching(u)
      /\ \A d, places : Reached(d, places)' = Reached(d, places)
    BY <1>1, <1>3, WorkOnly
<1>5. \A d : Factor(d) # t /\ DailyTask(d) # t /\ Refetch(d) # t
    BY <1>1, TaskKinds
<1>6. \A d : Released(d)' = Released(d)
    BY <1>1, <1>5 DEF Released
<1>7. InTurn'
    BY <1>1, <1>2, <1>4, <1>5, <1>6 DEF InTurn, mainVars
<1>8. Served(base)'
    BY <1>1, <1>3, <1>4, <1>5, <1>6 DEF Served, mainVars
<1>9. QED
    BY <1>4, <1>7, <1>8 DEF TurnInv

LEMMA TurnStep == PoolInv /\ TurnInv /\ [PoolNext]_dispatcherVars => TurnInv'
<1>1. PoolInv /\ TurnInv /\ UNCHANGED dispatcherVars => TurnInv'
    <2> SUFFICES ASSUME PoolInv, TurnInv, UNCHANGED dispatcherVars PROVE TurnInv'
        OBVIOUS
    <2>1. UNCHANGED <<targets, at, next, calls, order, pending, completed, recorded, queue,
                      running, begun, done, asking, factored, plans, blind>>
        BY DEF dispatcherVars, mainVars, resultVars, poolVars, stateVars
    <2>2. PICK base \in Bases : Under(base) /\ Served(base)
        BY DEF TurnInv
    <2>3. /\ Submitted' = Submitted /\ \A c : Asked(c)' = Asked(c) /\ Released(c)' = Released(c)
          /\ \A c, places : Reached(c, places)' = Reached(c, places)
        BY <2>1 DEF Submitted, Asked, Released, Reached
    <2>4. \A u : Fetching(u)' = Fetching(u)
        BY <2>1, <2>3 DEF Fetching, CurrentCode
    <2>5. Once' /\ Placed' /\ InTurn'
        BY <2>1, <2>3 DEF TurnInv, Once, Placed, InTurn
    <2>6. Under(base)'
        BY <2>1, <2>2, KeepsCalls DEF PoolInv
    <2>7. Served(base)'
        BY <2>1, <2>2, <2>3, <2>4 DEF Served
    <2>8. QED
        BY <2>5, <2>6, <2>7 DEF TurnInv
<1>2. PoolInv /\ TurnInv /\ Main => TurnInv'
    BY SubmitNowTurn, SubmitWaitsTurn, CollectTurn, DrainReturnsTurn, RecordInOrderTurn,
       FetchFactorTurn, FetchDailyTurn, PollTurn, WaitForAllTurn, EndingTurn
    DEF Main
<1>3. QED
    BY <1>1, <1>2, EndingTurn, TakeTurn, BeginTurn, FinishFactorTurn, FinishBarsTurn,
       FinishFlushTurn
    DEF PoolNext, Work

LEMMA TurnCorrect == PoolSpec => [](PoolInv /\ TurnInv)
BY PoolInitially, PoolStep, TurnInitially, TurnStep, PTL DEF PoolSpec

-----------------------------------------------------------------------------

\* Whatever the interleaving of the main thread with the pool, and wherever a refetch comes
\* between, the state of a run has its type; so a collected task is done and was submitted
\* (update_daily.py:620).
THEOREM PoolTypes == PoolSpec => []PoolTypeOK
BY PoolCorrect, PTL DEF PoolInv

\* The main thread waits for room before it submits, also in the middle of a drain: no more
\* than background_max_pending tasks are ever pending (update_daily.py:591).
THEOREM MemoryIsBounded == PoolSpec => []PendingBounded
BY PoolCorrect, PTL DEF PoolInv

\* A refetch made in the middle of a drain finds room, so that drains are never nested and
\* pending.remove finds what an outer one still holds (update_daily.py:642).
THEOREM DrainsAreNotNested == PoolSpec => []NoNestedDrain
<1>1. PoolInv => NoNestedDrain
    <2> SUFFICES ASSUME PoolInv PROVE NoNestedDrain
        OBVIOUS
    <2>1. ASSUME calls \in Bases PROVE DrainingFrames = {}
        <3>1. \A t : Append(<<>>, Submit(t)) = <<Submit(t)>>
            OBVIOUS
        <3>2. CASE calls = <<>>
            BY <3>2 DEF DrainingFrames
        <3>3. CASE \E t \in Tasks : calls = <<Submit(t)>>
            BY <3>3, FrameKinds DEF DrainingFrames
        <3>4. QED
            BY <2>1, <3>1, <3>2, <3>3 DEF Bases
    <2>2. ASSUME NEW base \in Bases, NEW S \in SUBSET (pending \cap done),
                 \/ calls = Draining(base, S)
                 \/ calls = Recording(base, S)
                 \/ \E c \in Stocks : calls = Resubmitting(base, S, c)
          PROVE  \E n \in Nat : DrainingFrames = {n} /\ calls[n].rest = S
        <3>1. CASE base = <<>>
            <4>1. \/ calls = <<Drain(S)>>
                  \/ calls = <<Drain(S), RecordCall>>
                  \/ \E c \in Stocks : calls = <<Drain(S), RecordCall, Submit(Refetch(c))>>
                BY <2>2, <3>1 DEF Draining, Recording, Resubmitting
            <4>2. DrainingFrames = {1} /\ calls[1].rest = S
                BY <4>1, FrameKinds DEF DrainingFrames
            <4>3. QED
                BY <4>2
        <3>2. ASSUME NEW t \in Tasks, base = Append(<<>>, Submit(t))
              PROVE  \E n \in Nat : DrainingFrames = {n} /\ calls[n].rest = S
            <4>1. \/ calls = <<Submit(t), Drain(S)>>
                  \/ calls = <<Submit(t), Drain(S), RecordCall>>
                  \/ \E c \in Stocks : calls = <<Submit(t), Drain(S), RecordCall, Submit(Refetch(c))>>
                BY <2>2, <3>2 DEF Draining, Recording, Resubmitting
            <4>2. DrainingFrames = {2} /\ calls[2].rest = S
                BY <4>1, FrameKinds DEF DrainingFrames
            <4>3. QED
                BY <4>2
        <3>3. QED
            BY <3>1, <3>2 DEF Bases
    <2>3. ASSUME NEW n \in Nat, DrainingFrames = {n}, calls[n].rest \subseteq pending
          PROVE  NoNestedDrain
        <3>1. Cardinality(DrainingFrames) = 1
            BY <2>3, FS_Singleton
        <3>2. QED
            BY <2>3, <3>1 DEF NoNestedDrain
    <2>4. DrainingFrames = {} => NoNestedDrain
        BY FS_EmptySet DEF NoNestedDrain
    <2>5. CASE calls \in Bases
        BY <2>1, <2>4, <2>5
    <2>6. CASE calls \notin Bases
        <3>1. PICK base \in Bases, S \in SUBSET (pending \cap done) :
                \/ calls = Draining(base, S)
                \/ calls = Recording(base, S)
                \/ \E c \in Stocks : calls = Resubmitting(base, S, c)
            BY <2>6 DEF PoolInv, Shape
        <3>2. QED
            BY <2>2, <2>3, <3>1
    <2>7. QED
        BY <2>5, <2>6
<1>2. QED
    BY <1>1, PoolCorrect, PTL

\* A task that computes with factors or plans finds those its predecessor set, however long
\* the predecessor took and whatever else was released meanwhile
\* (update_daily_worker.py:237, :245).
THEOREM TasksFindTheirInputs == PoolSpec => []InputsAtHand
<1>1. TurnInv => InputsAtHand
    BY DEF TurnInv, InTurn, InputsAtHand
<1>2. QED
    BY <1>1, TurnCorrect, PTL

\* When the run returns, no result is left out of run_records, of which the exit code is
\* computed, and no code still holds its frames (update_daily.py:661).
THEOREM ReturnsWithEverything == PoolSpec => []AllRecorded
<1>1. PoolInv /\ TurnInv => AllRecorded
    <2> SUFFICES ASSUME PoolInv, TurnInv, at = "returned" PROVE
            /\ recorded = Len(order) /\ completed = Submitted
            /\ \A c \in Stocks : targets # "factor" => DailyTask(c) \in completed
            /\ \A t \in asking : Refetch(t.code) \in completed
            /\ factored = {} /\ plans = {}
        BY DEF AllRecorded
    <2>1. PoolTypeOK /\ Once /\ Placed /\ InTurn
        BY DEF TurnInv, PoolInv
    <2>2. calls = <<>> /\ pending = {} /\ next > Len(UpdateCodes)
        BY <2>1 DEF Placed
    <2>3. Served(<<>>) /\ InOrder(recorded) /\ \A c \in Stocks : Answered(c)
        BY <2>2, FromIdle DEF Idle
    <2>4. completed = Submitted
        BY <2>1, <2>2 DEF Once, PoolTypeOK
    <2>5. recorded = Len(order)
        <3>1. Len(order) \in Nat /\ DOMAIN order = 1..Len(order) /\ recorded \in 0..Len(order)
            BY <2>1, LenProperties DEF PoolTypeOK
        <3>2. recorded < Len(order) => order[recorded + 1] \in completed
            BY <2>4, <3>1 DEF Submitted
        <3>3. ~ (recorded < Len(order))
            BY <2>3, <3>2 DEF InOrder
        <3>4. Len(order) \in Nat /\ recorded \in Nat /\ recorded <= Len(order)
            BY <3>1
        <3>5. QED
            BY <3>3, <3>4
    <2>6. \A c \in Stocks : Reached(c, {"poll"})
        <3>1. /\ Len(UpdateCodes) \in Nat /\ DOMAIN UpdateCodes = 1..Len(UpdateCodes)
              /\ next \in 1..Len(UpdateCodes) + 1
            BY <2>1, PoolAssumption, LenProperties DEF PoolTypeOK
        <3>2. QED
            BY <2>2, <3>1 DEF Reached, Stocks
    <2>7. \A c \in Stocks : targets # "factor" => DailyTask(c) \in completed
        <3>1. \A t : Append(<<>>, Submit(t)) # <<>>
            OBVIOUS
        <3>2. QED
            BY <2>3, <2>4, <2>6, <3>1 DEF Served
    <2>8. \A c \in Stocks : DailyTask(c) \in asking => Refetch(c) \in completed
        BY <2>1, <2>3, <2>4 DEF Answered, Asked, PoolTypeOK
    <2>9. \A t \in asking : Refetch(t.code) \in completed
        BY <2>1, <2>8, TaskKinds DEF PoolTypeOK
    <2>10. \A c \in Stocks : DailyTask(c) \in completed => Released(c)
        BY <2>1, <2>8 DEF Released, PoolTypeOK
    <2>11. factored = {}
        <3>1. \A c \in Stocks : targets = "adjusted" => c \notin factored
            BY <2>1, <2>7, <2>10 DEF InTurn
        <3>2. QED
            BY <2>1, <3>1 DEF InTurn, PoolTypeOK
    <2>12. plans = {}
        <3>1. \A c \in Stocks : c \in plans => DailyTask(c) \in Submitted
            BY <2>1 DEF InTurn, PoolTypeOK
        <3>2. \A c \in Stocks : c \notin plans
            BY <2>1, <2>4, <2>10, <3>1 DEF InTurn
        <3>3. QED
            BY <2>1, <3>2 DEF PoolTypeOK
    <2>13. QED
        BY <2>4, <2>5, <2>7, <2>9, <2>11, <2>12
<1>2. QED
    BY <1>1, TurnCorrect, PTL

-----------------------------------------------------------------------------
(* The refinement: each step of a task is the step of its code in          *)
(* CodeTasks, and every other step stutters.                               *)

\* What the stages rest on: a code has at most one task under way.
LEMMA OneAtATime ==
    ASSUME PoolInv, TurnInv, NEW c \in Stocks
    PROVE  /\ DailyTask(c) \in begun \cup done => Factor(c) \notin running \cup begun
           /\ Refetch(c) \in running \cup begun \cup done => DailyTask(c) \in asking
           /\ DailyTask(c) \in asking => DailyTask(c) \in done
           /\ \A t \in running : t \notin done
           /\ begun \subseteq running
<1>1. PoolTypeOK /\ Once /\ Placed /\ InTurn
    BY DEF TurnInv, PoolInv
<1>2. QED
    BY <1>1 DEF PoolTypeOK, Once, Placed, InTurn, Asked

LEMMA StagesStay ==
    ASSUME UNCHANGED <<begun, done, asking>>
    PROVE  \A c : StageOf(c)' = StageOf(c)
BY DEF StageOf

\* A step of a task of c leaves the stages of the others alone.
LEMMA OtherStages ==
    ASSUME NEW c \in Stocks, NEW d \in Stocks \ {c}, NEW t,
           t = Factor(c) \/ t = DailyTask(c) \/ t = Refetch(c),
           begun' = begun \cup {t} \/ begun' = begun \ {t},
           done' = done \/ done' = done \cup {t},
           asking' = asking \/ asking' = asking \cup {t}
    PROVE  StageOf(d)' = StageOf(d)
<1>1. t # Factor(d) /\ t # DailyTask(d) /\ t # Refetch(d)
    BY TaskKinds
<1>2. /\ Factor(d) \in begun' <=> Factor(d) \in begun
      /\ Factor(d) \in done' <=> Factor(d) \in done
      /\ DailyTask(d) \in begun' <=> DailyTask(d) \in begun
      /\ DailyTask(d) \in done' <=> DailyTask(d) \in done
      /\ DailyTask(d) \in asking' <=> DailyTask(d) \in asking
      /\ Refetch(d) \in begun' <=> Refetch(d) \in begun
      /\ Refetch(d) \in done' <=> Refetch(d) \in done
    BY <1>1
<1>3. QED
    BY <1>2 DEF StageOf

LEMMA BeginStage ==
    ASSUME PoolInv, TurnInv, NEW c \in Stocks, NEW t \in Tasks, BeginTask(t),
           t = Factor(c) \/ t = DailyTask(c) \/ t = Refetch(c)
    PROVE  \/ StageOf(c) = "todo" /\ StageOf(c)' = "factor"
           \/ StageOf(c) \in {"todo", "priced"} /\ StageOf(c)' = "daily"
           \/ StageOf(c) = "asked" /\ StageOf(c)' = "refetch"
<1>1. /\ t \in running /\ t \notin begun /\ t \notin done /\ begun' = begun \cup {t}
      /\ done' = done /\ asking' = asking /\ ~ Waits(t)
    BY OneAtATime DEF BeginTask
<1>2. /\ Factor(c) # DailyTask(c) /\ Factor(c) # Refetch(c) /\ DailyTask(c) # Refetch(c)
    BY TaskKinds
<1>3. CASE t = Factor(c)
    <2>1. DailyTask(c) \notin begun \cup done /\ Refetch(c) \notin running \cup begun \cup done
          /\ DailyTask(c) \notin asking
        BY <1>1, <1>3, OneAtATime
    <2>2. StageOf(c) = "todo"
        BY <1>1, <1>3, <2>1 DEF StageOf
    <2>3. StageOf(c)' = "factor"
        BY <1>1, <1>2, <1>3, <2>1 DEF StageOf
    <2>4. QED
        BY <2>2, <2>3
<1>4. CASE t = DailyTask(c)
    <2>1. Refetch(c) \notin running \cup begun \cup done /\ DailyTask(c) \notin asking
        BY <1>1, <1>4, OneAtATime
    <2>2. Factor(c) \notin begun
        <3>1. Factor(c) \in begun => Factor(c) \in Submitted \ done
            BY OneAtATime DEF PoolInv, PoolTypeOK
        <3>2. QED
            BY <1>1, <1>4, <3>1, TaskKinds DEF Waits
    <2>3. StageOf(c) \in {"todo", "priced"}
        BY <1>1, <1>4, <2>1, <2>2 DEF StageOf
    <2>4. StageOf(c)' = "daily"
        BY <1>1, <1>2, <1>4, <2>1 DEF StageOf
    <2>5. QED
        BY <2>3, <2>4
<1>5. CASE t = Refetch(c)
    <2>1. DailyTask(c) \in asking /\ DailyTask(c) \in done /\ DailyTask(c) \notin begun
        BY <1>1, <1>5, OneAtATime
    <2>2. StageOf(c) = "asked"
        BY <1>1, <1>5, <2>1 DEF StageOf
    <2>3. StageOf(c)' = "refetch"
        BY <1>1, <1>2, <1>5, <2>1 DEF StageOf
    <2>4. QED
        BY <2>2, <2>3
<1>6. QED
    BY <1>3, <1>4, <1>5

LEMMA FinishStage ==
    ASSUME PoolInv, TurnInv, NEW c \in Stocks, NEW t \in Tasks,
           FinishFactor(t) \/ FinishBars(t),
           t = Factor(c) \/ t = DailyTask(c) \/ t = Refetch(c)
    PROVE  \/ StageOf(c) = "factor" /\ StageOf(c)' = "priced"
           \/ StageOf(c) = "daily" /\ StageOf(c)' \in {"stored", "asked"}
           \/ StageOf(c) = "refetch" /\ StageOf(c)' = "stored"
<1>1. /\ t \in running /\ t \in begun /\ t \notin done
      /\ begun' = begun \ {t} /\ done' = done \cup {t}
    BY OneAtATime DEF FinishFactor, FinishBars, FinishTask
<1>2. /\ Factor(c) # DailyTask(c) /\ Factor(c) # Refetch(c) /\ DailyTask(c) # Refetch(c)
    BY TaskKinds
<1>3. CASE t = Factor(c)
    <2>1. DailyTask(c) \notin begun \cup done /\ Refetch(c) \notin running \cup begun \cup done
          /\ DailyTask(c) \notin asking
        BY <1>1, <1>3, OneAtATime
    <2>2. asking' = asking
        BY <1>3, TaskKinds DEF FinishFactor, FinishBars
    <2>3. StageOf(c) = "factor"
        BY <1>1, <1>3, <2>1 DEF StageOf
    <2>4. StageOf(c)' = "priced"
        BY <1>1, <1>2, <1>3, <2>1, <2>2 DEF StageOf
    <2>5. QED
        BY <2>3, <2>4
<1>4. CASE t = DailyTask(c)
    <2>1. Refetch(c) \notin running \cup begun \cup done /\ DailyTask(c) \notin asking
        BY <1>1, <1>4, OneAtATime
    <2>2. StageOf(c) = "daily"
        BY <1>1, <1>4, <2>1 DEF StageOf
    <2>3. Refetch(c) \notin begun' \cup done'
        BY <1>1, <1>2, <1>4, <2>1
    <2>4. StageOf(c)' \in {"stored", "asked"}
        BY <1>1, <1>4, <2>3 DEF StageOf
    <2>5. QED
        BY <2>2, <2>4
<1>5. CASE t = Refetch(c)
    <2>1. DailyTask(c) \in asking /\ DailyTask(c) \in done /\ DailyTask(c) \notin begun
        BY <1>1, <1>5, OneAtATime
    <2>2. StageOf(c) = "refetch"
        BY <1>1, <1>5, <2>1 DEF StageOf
    <2>3. asking \subseteq asking'
        BY DEF FinishFactor, FinishBars
    <2>4. StageOf(c)' = "stored"
        BY <1>1, <1>2, <1>5, <2>1, <2>3 DEF StageOf
    <2>5. QED
        BY <2>2, <2>4
<1>6. QED
    BY <1>3, <1>4, <1>5

\* The tasks of one code never overlap, and follow one another as CodeTasks has it: the
\* files of a code are written by one thread at a time (update_daily.py:673).
THEOREM DispatcherKeepsTheTurns == PoolSpec => TasksInTurn
<1> DEFINE stages == [c \in Stocks |-> StageOf(c)]
<1>1. PoolInit => PerCode!Init
    BY DEF PoolInit, PerCode!Init, StageOf
<1>2. PoolInv /\ TurnInv /\ [PoolNext]_dispatcherVars => [PerCode!Next]_stages
    <2> SUFFICES ASSUME PoolInv, TurnInv, [PoolNext]_dispatcherVars
             PROVE  PerCode!Next \/ stages' = stages
        OBVIOUS
    <2>1. ASSUME NEW t \in Tasks, NEW c \in Stocks, Work(t),
                 t = Factor(c) \/ t = DailyTask(c) \/ t = Refetch(c)
          PROVE  PerCode!Next
        <3>1. ASSUME NEW d \in Stocks \ {c} PROVE StageOf(d)' = StageOf(d)
            <4>1. /\ begun' = begun \cup {t} \/ begun' = begun \ {t}
                  /\ done' = done \/ done' = done \cup {t}
                  /\ asking' = asking \/ asking' = asking \cup {t}
                BY <2>1 DEF Work, BeginTask, FinishFactor, FinishBars, FinishFlush, FinishTask
            <4>2. QED
                BY <2>1, <4>1, OtherStages
        <3>2. ASSUME NEW s, StageOf(c)' = s
              PROVE  stages' = [stages EXCEPT ![c] = s]
            BY <3>1, <3>2
        <3>3. stages[c] = StageOf(c)
            OBVIOUS
        <3>4. CASE BeginTask(t)
            <4>1. PerCode!BeginFactor(c) \/ PerCode!BeginDaily(c) \/ PerCode!BeginRefetch(c)
                BY <2>1, <3>2, <3>3, <3>4, BeginStage
                DEF PerCode!BeginFactor, PerCode!BeginDaily, PerCode!BeginRefetch
            <4>2. QED
                BY <4>1 DEF PerCode!Next
        <3>5. CASE FinishFactor(t) \/ FinishBars(t)
            <4>1. PerCode!EndFactor(c) \/ PerCode!EndDaily(c) \/ PerCode!EndRefetch(c)
                BY <2>1, <3>2, <3>3, <3>5, FinishStage
                DEF PerCode!EndFactor, PerCode!EndDaily, PerCode!EndRefetch
            <4>2. QED
                BY <4>1 DEF PerCode!Next
        <3>6. ~ FinishFlush(t)
            BY <2>1, TaskKinds DEF FinishFlush
        <3>7. QED
            BY <2>1, <3>4, <3>5, <3>6 DEF Work
    <2>2. ASSUME Work(FlushTask) PROVE stages' = stages
        <3>1. \A d : Factor(d) # FlushTask /\ DailyTask(d) # FlushTask /\ Refetch(d) # FlushTask
            BY TaskKinds
        <3>2. /\ begun' = begun \cup {FlushTask} \/ begun' = begun \ {FlushTask}
              /\ done' = done \/ done' = done \cup {FlushTask}
              /\ asking' = asking
            BY <2>2 DEF Work, BeginTask, FinishFactor, FinishBars, FinishFlush, FinishTask, FlushTask
        <3>3. ASSUME NEW d \in Stocks PROVE StageOf(d)' = StageOf(d)
            BY <3>1, <3>2 DEF StageOf
        <3>4. QED
            BY <3>3
    <2>3. CASE UNCHANGED <<begun, done, asking>>
        BY <2>3, StagesStay
    <2>4. Main \/ Raise \/ Take \/ UNCHANGED dispatcherVars => UNCHANGED <<begun, done, asking>>
        BY DEF Main, SubmitNow, SubmitWaits, Collect, DrainReturns, RecordInOrder, FetchFactor,
               FetchBars, Poll, WaitForAll, SubmitFlush, RunReturns, Raise, Take, dispatcherVars, poolVars
    <2>5. QED
        BY <2>1, <2>2, <2>3, <2>4, TaskKinds DEF PoolNext
<1>3. QED
    BY <1>1, <1>2, TurnCorrect, PTL DEF PoolSpec, TasksInTurn, PerCode!Spec

=============================================================================
