--------------------------- MODULE AkShareProofs ----------------------------
(***************************************************************************)
(* Proofs about CapitalQueue, for every set of processes and codes and any *)
(* number of share changes; about SpotQuote, for any number of days and    *)
(* runs, trading days and codes; and about FinancialReport, for any codes, *)
(* dates, lookback and retention.                                          *)
(***************************************************************************)
EXTENDS CapitalQueue, SpotQuote, FinancialReport, WellFoundedInduction, TLAPS

-----------------------------------------------------------------------------
(* Capital structure                                                       *)

Statuses == Retryable \cup {"none", "success"}
Files == [QueueCodes -> Statuses]
Drains == [rest : SUBSET QueueCodes, code : QueueCodes \cup {NoCode}, got : Nat, copy : Files]

\* The types, and in which part of a run a process has codes to queue and holds the lock.
QueueTypes ==
    /\ announced \in [QueueCodes -> Nat] /\ factor \in [QueueCodes -> Nat]
    /\ shares \in [QueueCodes -> Nat] /\ queueFile \in Files
    /\ \A c \in QueueCodes : factor[c] <= announced[c]
    /\ doing \in [QueueProcs -> {"idle", "update", "drain"}]
    /\ owing \in [QueueProcs -> SUBSET QueueCodes]
    /\ locked \in [QueueProcs -> QueueCodes \cup {NoCode}]
    /\ drained \in [QueueProcs -> Drains]
    /\ seen \in [QueueProcs -> Files] /\ touched \in [QueueProcs -> SUBSET QueueCodes]
    /\ missed \subseteq QueueCodes /\ overwritten \subseteq QueueCodes
    /\ \A p \in QueueProcs :
          /\ owing[p] # {} => doing[p] = "update"
          /\ locked[p] # NoCode => locked[p] \in owing[p]

\* The code is one nobody makes up for: its refresh has to be in the file.
Unpaid(c) ==
    /\ c \notin missed \cup overwritten /\ shares[c] < factor[c]
    /\ \A p \in QueueProcs : c \notin owing[p]

\* What p will replace the file by has the refresh of c, or came before it was queued.
Safe(p, c) ==
    /\ locked[p] # NoCode => seen[p][c] \in Retryable \/ c \in touched[p]
    /\ doing[p] = "drain" => drained[p].copy[c] \in Retryable \/ c \in touched[p]

Queued ==
    \A c \in QueueCodes : Unpaid(c) =>
        queueFile[c] \in Retryable /\ \A p \in QueueProcs : Safe(p, c)

\* A structure fetched before the last change of the factors does not pay for it: the
\* change was queued since, is about to be, or was missed.
Fetched ==
    \A p \in QueueProcs : LET c == drained[p].code IN
        doing[p] = "drain" /\ c # NoCode /\ drained[p].got < factor[c] =>
            c \in missed \/ c \in touched[p] \/ \E q \in QueueProcs : c \in owing[q]

QueueInv == QueueTypes /\ Queued /\ Fetched

LEMMA QueueInitially == QueueInit => QueueInv
<1> SUFFICES ASSUME QueueInit PROVE QueueInv
    OBVIOUS
<1>1. NoDrain \in Drains /\ queueFile \in Files
    BY DEF QueueInit, NoDrain, Drains, Files, Statuses
<1>2. QueueTypes
    BY <1>1 DEF QueueInit, QueueTypes
<1>3. Queued /\ Fetched
    BY DEF QueueInit, Queued, Unpaid, Fetched
<1>4. QED
    BY <1>2, <1>3 DEF QueueInv

-----------------------------------------------------------------------------
(* What the steps do, as far as the invariant is about it.                 *)

LEMMA TypesStep == QueueTypes /\ [QueueNext]_queueVars => QueueTypes'
<1> SUFFICES ASSUME QueueTypes, [QueueNext]_queueVars PROVE QueueTypes'
    OBVIOUS
<1> USE QueueAssumption DEF QueueTypes
<1>1. CASE UNCHANGED queueVars
    BY <1>1 DEF queueVars, dataVars, stepVars, pastVars
<1>2. ASSUME NEW c \in QueueCodes, Announce(c) PROVE QueueTypes'
    <2>1. announced' \in [QueueCodes -> Nat] /\ announced[c] + 1 >= announced[c]
        BY <1>2 DEF Announce
    <2>2. \A d \in QueueCodes : announced'[d] >= announced[d]
        BY <1>2 DEF Announce
    <2>3. \A d \in QueueCodes : factor[d] <= announced'[d]
        BY <2>1, <2>2
    <2>4. UNCHANGED <<factor, shares, queueFile, stepVars, pastVars>>
        BY <1>2 DEF Announce
    <2>5. QED
        BY <2>1, <2>3, <2>4 DEF stepVars, pastVars
<1>r. ASSUME NEW c \in QueueCodes, RepairStores(c) PROVE QueueTypes'
    <2>1. factor' \in [QueueCodes -> Nat] /\ \A d \in QueueCodes : factor'[d] <= announced[d]
        BY <1>r DEF RepairStores
    <2>2. QED
        BY <1>r, <2>1 DEF RepairStores, stepVars
<1>3. ASSUME NEW p \in QueueProcs, BeginUpdate(p) PROVE QueueTypes'
    BY <1>3 DEF BeginUpdate, dataVars, pastVars
<1>4. ASSUME NEW p \in QueueProcs, NEW c \in QueueCodes, StoreChanged(p, c) PROVE QueueTypes'
    <2>1. factor' \in [QueueCodes -> Nat] /\ \A d \in QueueCodes : factor'[d] <= announced[d]
        BY <1>4 DEF StoreChanged
    <2>2. QED
        BY <1>4, <2>1 DEF StoreChanged, pastVars
<1>5. ASSUME NEW p \in QueueProcs, NEW c \in QueueCodes, EnqueueReads(p, c) PROVE QueueTypes'
    BY <1>5 DEF EnqueueReads, dataVars
<1>6. ASSUME NEW p \in QueueProcs, EnqueueWrites(p) PROVE QueueTypes'
    <2> DEFINE c == locked[p]
    <2>1. c \in QueueCodes /\ c \in owing[p]
        BY <1>6 DEF EnqueueWrites
    <2>2. queueFile' \in Files /\ Gone(p, queueFile') \subseteq QueueCodes
        BY <1>6, <2>1 DEF EnqueueWrites, Files, Statuses, Retryable, Gone
    <2>3. overwritten' \subseteq QueueCodes /\ missed' \subseteq QueueCodes
        BY <1>6, <2>2 DEF EnqueueWrites
    <2>4. touched' \in [QueueProcs -> SUBSET QueueCodes]
        BY <1>6, <2>1 DEF EnqueueWrites
    <2>5. owing' = [owing EXCEPT ![p] = @ \ {c}] /\ locked' = [locked EXCEPT ![p] = NoCode]
        BY <1>6 DEF EnqueueWrites
    <2>6. UNCHANGED <<dataVars, doing, drained, seen>>
        BY <1>6 DEF EnqueueWrites
    <2>7. QED
        BY <2>2, <2>3, <2>4, <2>5, <2>6 DEF dataVars
<1>7. ASSUME NEW p \in QueueProcs, EnqueueFails(p) PROVE QueueTypes'
    BY <1>7 DEF EnqueueFails, dataVars
<1>8. ASSUME NEW p \in QueueProcs, EndUpdate(p) PROVE QueueTypes'
    BY <1>8 DEF EndUpdate, dataVars, pastVars
<1>9. ASSUME NEW p \in QueueProcs, DrainReads(p) PROVE QueueTypes'
    <2> DEFINE rest == {c \in QueueCodes : queueFile[c] \in Retryable}
    <2>1. [NoDrain EXCEPT !.rest = rest, !.copy = queueFile] \in Drains
        BY DEF NoDrain, Drains, Files
    <2>2. drained' \in [QueueProcs -> Drains]
        BY <1>9, <2>1 DEF DrainReads
    <2>3. QED
        BY <1>9, <2>2 DEF DrainReads, dataVars
<1>10. ASSUME NEW p \in QueueProcs, NEW c \in QueueCodes, RefreshFetches(p, c)
       PROVE  QueueTypes'
    <2>1. \A d \in Drains :
            [d EXCEPT !.rest = @ \ {c}, !.code = c, !.got = announced[c]] \in Drains
        BY DEF Drains
    <2>2. drained'[p] = [drained[p] EXCEPT !.rest = @ \ {c}, !.code = c, !.got = announced[c]]
        BY <1>10 DEF RefreshFetches
    <2>3. drained' \in [QueueProcs -> Drains]
        BY <1>10, <2>1, <2>2 DEF RefreshFetches
    <2>4. QED
        BY <1>10, <2>3 DEF RefreshFetches, dataVars, pastVars
<1>11. ASSUME NEW p \in QueueProcs, RefreshWrites(p) \/ RefreshFails(p) PROVE QueueTypes'
    <2>1. PICK c \in QueueCodes : c = drained[p].code
        BY <1>11 DEF RefreshWrites, RefreshFails, Drains
    <2> DEFINE d == drained[p]
               Marked(s) == [rest |-> d.rest, code |-> NoCode, got |-> d.got,
                             copy |-> [d.copy EXCEPT ![c] = s]]
    <2>2. \A s \in Statuses : Marked(s) \in Drains
        BY <2>1 DEF Drains, Files
    <2>3. drained'[p] = Marked("success") \/ drained'[p] = Marked("failed_retryable")
        BY <1>11, <2>1 DEF RefreshWrites, RefreshFails, Drains
    <2>4. drained' \in [QueueProcs -> Drains]
        <3>1. drained'[p] \in Drains
            BY <2>2, <2>3 DEF Statuses, Retryable
        <3>2. drained' = [drained EXCEPT ![p] = drained'[p]]
            BY <1>11 DEF RefreshWrites, RefreshFails
        <3>3. QED
            BY <3>1, <3>2
    <2>5. CASE RefreshFails(p)
        BY <2>4, <2>5 DEF RefreshFails, dataVars, pastVars
    <2>6. CASE RefreshWrites(p)
        <3>1. drained[p].got \in Nat
            BY DEF Drains
        <3>2. shares' \in [QueueCodes -> Nat] /\ overwritten' \subseteq QueueCodes
            BY <2>1, <2>6, <3>1 DEF RefreshWrites
        <3>3. QED
            BY <2>4, <2>6, <3>2 DEF RefreshWrites
    <2>7. QED
        BY <1>11, <2>5, <2>6
<1>12. ASSUME NEW p \in QueueProcs, DrainWrites(p) PROVE QueueTypes'
    <2>1. drained' \in [QueueProcs -> Drains]
        BY <1>12 DEF DrainWrites, NoDrain, Drains, Files, Statuses
    <2>2. queueFile' \in Files /\ Gone(p, queueFile') \subseteq QueueCodes
        BY <1>12 DEF DrainWrites, Drains, Gone
    <2>3. QED
        BY <1>12, <2>1, <2>2 DEF DrainWrites, dataVars
<1>13. ASSUME NEW p \in QueueProcs, QueueCrash(p) PROVE QueueTypes'
    <2>1. NoDrain \in Drains
        BY DEF NoDrain, Drains, Files, Statuses
    <2>2. QED
        BY <1>13, <2>1 DEF QueueCrash, dataVars
<1>14. QED
    BY <1>1, <1>2, <1>r, <1>3, <1>4, <1>5, <1>6, <1>7, <1>8, <1>9, <1>10, <1>11, <1>12, <1>13
    DEF QueueNext

-----------------------------------------------------------------------------
(* The refreshes that are owed.                                            *)

\* A step of p by which no code becomes unpaid for, the file is kept and what the other
\* processes know of it does not get worse.
LEMMA KeepsFile ==
    ASSUME Queued, QueueTypes, NEW p \in QueueProcs, queueFile' = queueFile,
           \A c \in QueueCodes : Unpaid(c)' => Unpaid(c) /\ Safe(p, c)',
           \A q \in QueueProcs \ {p} :
              /\ locked'[q] = locked[q] /\ seen'[q] = seen[q]
              /\ doing'[q] = doing[q] /\ drained'[q] = drained[q]
              /\ touched[q] \subseteq touched'[q]
    PROVE  Queued'
BY DEF Queued, Safe

\* A step of p by which the file becomes its copy.
LEMMA ReplacesFile ==
    ASSUME Queued, NEW p \in QueueProcs,
           \A c \in QueueCodes : Unpaid(c)' =>
              /\ queueFile'[c] \in Retryable /\ Safe(p, c)'
              /\ Unpaid(c) \/ \A q \in QueueProcs \ {p} : c \in touched'[q],
           \A q \in QueueProcs \ {p} :
              /\ locked'[q] = locked[q] /\ seen'[q] = seen[q]
              /\ doing'[q] = doing[q] /\ drained'[q] = drained[q]
              /\ touched[q] \subseteq touched'[q]
    PROVE  Queued'
BY DEF Queued, Safe

LEMMA QueuedStep == QueueTypes /\ Queued /\ Fetched /\ [QueueNext]_queueVars => Queued'
<1> SUFFICES ASSUME QueueTypes, Queued, Fetched, [QueueNext]_queueVars PROVE Queued'
    OBVIOUS
<1>t. /\ DOMAIN locked = QueueProcs /\ DOMAIN seen = QueueProcs /\ DOMAIN doing = QueueProcs
      /\ DOMAIN drained = QueueProcs /\ DOMAIN touched = QueueProcs
      /\ DOMAIN owing = QueueProcs /\ DOMAIN factor = QueueCodes
    BY DEF QueueTypes
<1>s. \A c \in QueueCodes : Unpaid(c) =>
        queueFile[c] \in Retryable /\ \A p \in QueueProcs : Safe(p, c)
    BY DEF Queued
<1>1. CASE UNCHANGED queueVars
    BY <1>1 DEF queueVars, dataVars, stepVars, pastVars, Queued, Unpaid, Safe
<1>2. ASSUME NEW c \in QueueCodes, Announce(c) PROVE Queued'
    BY <1>2 DEF Announce, stepVars, pastVars, Queued, Unpaid, Safe
<1>r. ASSUME NEW c \in QueueCodes, RepairStores(c) PROVE Queued'
    <2>1. \A d \in QueueCodes \ {c} : factor'[d] = factor[d]
        BY <1>r, <1>t DEF RepairStores
    <2>2. missed' = missed \cup {c}
        BY <1>r DEF RepairStores
    <2>3. UNCHANGED <<shares, queueFile, doing, owing, locked, drained, seen, touched, overwritten>>
        BY <1>r DEF RepairStores, stepVars
    <2>4. \A d \in QueueCodes : Unpaid(d)' => Unpaid(d)
        BY <2>1, <2>2, <2>3 DEF Unpaid
    <2>5. QED
        BY <2>3, <2>4 DEF Queued, Safe
<1>3. ASSUME NEW p \in QueueProcs, BeginUpdate(p) PROVE Queued'
    <2>1. \A c \in QueueCodes : Unpaid(c)' => Unpaid(c) /\ Safe(p, c)'
        BY <1>3, <1>s, <1>t DEF BeginUpdate, dataVars, pastVars, Unpaid, Safe
    <2>2. QED
        BY <1>3, <1>t, <2>1, KeepsFile DEF BeginUpdate, pastVars
<1>4. ASSUME NEW p \in QueueProcs, NEW c \in QueueCodes, StoreChanged(p, c) PROVE Queued'
    <2>1. c \in owing'[p] /\ \A d \in QueueCodes \ {c} : factor'[d] = factor[d]
        BY <1>4, <1>t DEF StoreChanged
    <2>2. \A q \in QueueProcs : owing[q] \subseteq owing'[q]
        BY <1>4, <1>t DEF StoreChanged
    <2>3. UNCHANGED <<shares, queueFile, doing, locked, drained, seen, touched, missed, overwritten>>
        BY <1>4 DEF StoreChanged, pastVars
    <2>4. \A d \in QueueCodes : Unpaid(d)' => Unpaid(d)
        BY <2>1, <2>2, <2>3 DEF Unpaid
    <2>5. QED
        BY <2>3, <2>4 DEF Queued, Safe
<1>5. ASSUME NEW p \in QueueProcs, NEW c \in QueueCodes, EnqueueReads(p, c) PROVE Queued'
    <2>1. doing[p] = "update"
        BY <1>5 DEF EnqueueReads, QueueTypes
    <2>2. \A d \in QueueCodes : Unpaid(d)' => Unpaid(d)
        BY <1>5 DEF EnqueueReads, dataVars, Unpaid
    <2>3. \A d \in QueueCodes : Unpaid(d)' => Safe(p, d)'
        BY <1>5, <1>s, <1>t, <2>1, <2>2 DEF EnqueueReads, Safe
    <2>4. QED
        BY <1>5, <1>t, <2>2, <2>3, KeepsFile DEF EnqueueReads
<1>6. ASSUME NEW p \in QueueProcs, EnqueueWrites(p) PROVE Queued'
    <2> DEFINE c == locked[p]
    <2>1. c \in QueueCodes /\ doing[p] = "update"
        BY <1>6 DEF EnqueueWrites, QueueTypes
    <2>2. /\ queueFile' = [seen[p] EXCEPT ![c] = "pending"]
          /\ overwritten' = (overwritten \ {c}) \cup Gone(p, queueFile')
          /\ missed' = missed \ {c} /\ owing' = [owing EXCEPT ![p] = @ \ {c}]
          /\ locked' = [locked EXCEPT ![p] = NoCode]
          /\ UNCHANGED <<dataVars, doing, drained, seen>>
        BY <1>6 DEF EnqueueWrites
    <2>3. \A q \in QueueProcs \ {p} : touched'[q] = touched[q] \cup {c}
        BY <1>6 DEF EnqueueWrites
    <2>4. \A d \in QueueCodes : Safe(p, d)'
        BY <2>1, <2>2, <1>t DEF Safe
    <2>5. queueFile'[c] \in Retryable
        BY <2>1, <2>2 DEF QueueTypes, Files, Retryable
    <2>6. ASSUME NEW d \in QueueCodes \ {c}, Unpaid(d)'
          PROVE  Unpaid(d) /\ queueFile'[d] \in Retryable
        <3>1. Unpaid(d)
            BY <2>2, <2>6, <1>t DEF Unpaid, dataVars
        <3>2. seen[p][d] \in Retryable \/ d \in touched[p]
            BY <1>6, <1>s, <3>1 DEF EnqueueWrites, Safe
        <3>3. queueFile'[d] = seen[p][d]
            BY <2>2 DEF QueueTypes, Files
        <3>4. d \notin Gone(p, queueFile')
            BY <2>2, <2>6 DEF Unpaid
        <3>5. QED
            BY <3>1, <3>2, <3>3, <3>4 DEF Gone
    <2>7. QED
        BY <2>1, <2>2, <2>3, <2>4, <2>5, <2>6, <1>t, ReplacesFile
<1>7. ASSUME NEW p \in QueueProcs, EnqueueFails(p) PROVE Queued'
    <2>1. \A c \in QueueCodes : Unpaid(c)' => Unpaid(c)
        BY <1>7, <1>t DEF EnqueueFails, dataVars, Unpaid
    <2>2. \A c \in QueueCodes : Unpaid(c)' => Safe(p, c)'
        BY <1>7, <1>s, <1>t, <2>1 DEF EnqueueFails, Safe
    <2>3. QED
        BY <1>7, <1>t, <2>1, <2>2, KeepsFile DEF EnqueueFails
<1>8. ASSUME NEW p \in QueueProcs, EndUpdate(p) PROVE Queued'
    <2>1. \A c \in QueueCodes : Unpaid(c)' => Unpaid(c)
        BY <1>8 DEF EndUpdate, dataVars, pastVars, Unpaid
    <2>2. \A c \in QueueCodes : Unpaid(c)' => Safe(p, c)'
        BY <1>8, <1>s, <1>t, <2>1 DEF EndUpdate, pastVars, Safe
    <2>3. QED
        BY <1>8, <1>t, <2>1, <2>2, KeepsFile DEF EndUpdate, pastVars
<1>9. ASSUME NEW p \in QueueProcs, DrainReads(p) PROVE Queued'
    <2>1. locked[p] = NoCode
        BY <1>9 DEF DrainReads, QueueTypes
    <2>2. drained'[p].copy = queueFile
        BY <1>9, <1>t DEF DrainReads, NoDrain
    <2>3. \A c \in QueueCodes : Unpaid(c)' => Unpaid(c)
        BY <1>9 DEF DrainReads, dataVars, Unpaid
    <2>4. \A c \in QueueCodes : Unpaid(c)' => Safe(p, c)'
        BY <1>9, <1>s, <2>1, <2>2, <2>3 DEF DrainReads, Safe
    <2>5. QED
        BY <1>9, <1>t, <2>3, <2>4, KeepsFile DEF DrainReads
<1>10. ASSUME NEW p \in QueueProcs, NEW c \in QueueCodes, RefreshFetches(p, c) PROVE Queued'
    <2>1. drained'[p].copy = drained[p].copy
        BY <1>10, <1>t DEF RefreshFetches, QueueTypes, Drains
    <2>2. \A d \in QueueCodes : Unpaid(d)' => Unpaid(d)
        BY <1>10 DEF RefreshFetches, dataVars, pastVars, Unpaid
    <2>3. \A d \in QueueCodes : Unpaid(d)' => Safe(p, d)'
        BY <1>10, <1>s, <2>1, <2>2 DEF RefreshFetches, pastVars, Safe
    <2>4. QED
        BY <1>10, <1>t, <2>2, <2>3, KeepsFile DEF RefreshFetches, pastVars
<1>11. ASSUME NEW p \in QueueProcs, RefreshWrites(p) PROVE Queued'
    <2> DEFINE got == drained[p].got
    <2>0. PICK c \in QueueCodes : c = drained[p].code
        BY <1>11 DEF RefreshWrites, QueueTypes, Drains
    <2>1. /\ doing[p] = "drain" /\ c # NoCode /\ c \in QueueCodes /\ got \in Nat
          /\ shares' = [shares EXCEPT ![c] = got]
          /\ overwritten' = IF got < shares[c] THEN overwritten \cup {c} ELSE overwritten
          /\ UNCHANGED <<announced, factor, queueFile, doing, owing, locked, seen, touched, missed>>
        BY <1>11, <2>0 DEF RefreshWrites, QueueTypes, Drains
    <2>2. \A d \in QueueCodes \ {c} : drained'[p].copy[d] = drained[p].copy[d]
        BY <1>11, <2>0, <1>t DEF RefreshWrites, QueueTypes, Drains, Files
    <2>3. locked[p] = NoCode
        BY <2>1 DEF QueueTypes
    <2>4. ASSUME NEW d \in QueueCodes \ {c}, Unpaid(d)' PROVE Unpaid(d) /\ Safe(p, d)'
        <3>1. Unpaid(d)
            BY <2>1, <2>4 DEF Unpaid, QueueTypes
        <3>2. QED
            BY <1>s, <2>1, <2>2, <2>3, <3>1 DEF Safe
    <2>5. ASSUME Unpaid(c)' PROVE Unpaid(c) /\ Safe(p, c)'
        <3>1. got < factor[c] /\ ~ (got < shares[c])
            BY <2>1, <2>5 DEF Unpaid, QueueTypes
        <3>2. shares[c] \in Nat /\ factor[c] \in Nat
            BY <2>1 DEF QueueTypes
        <3>3. Unpaid(c)
            BY <2>1, <2>5, <3>1, <3>2 DEF Unpaid
        <3>4. c \in touched[p]
            BY <2>0, <2>1, <3>1, <3>3 DEF Fetched, Unpaid
        <3>5. QED
            BY <2>1, <2>3, <3>3, <3>4 DEF Safe
    <2>6. \A d \in QueueCodes : Unpaid(d)' => Unpaid(d) /\ Safe(p, d)'
        BY <2>4, <2>5
    <2>7. \A q \in QueueProcs \ {p} : drained'[q] = drained[q]
        BY <1>11, <1>t DEF RefreshWrites
    <2>8. QED
        BY <2>1, <2>6, <2>7, KeepsFile
<1>12. ASSUME NEW p \in QueueProcs, RefreshFails(p) PROVE Queued'
    <2> DEFINE c == drained[p].code
    <2>1. c \in QueueCodes /\ drained[p].copy \in Files
        BY <1>12 DEF RefreshFails, QueueTypes, Drains
    <2>2. drained'[p].copy = [drained[p].copy EXCEPT ![c] = "failed_retryable"]
        BY <1>12, <1>t DEF RefreshFails, QueueTypes, Drains
    <2>3. \A d \in QueueCodes : Unpaid(d)' => Unpaid(d)
        BY <1>12 DEF RefreshFails, dataVars, pastVars, Unpaid
    <2>4. \A d \in QueueCodes : Unpaid(d)' => Safe(p, d)'
        BY <1>12, <1>s, <2>1, <2>2, <2>3 DEF RefreshFails, pastVars, Safe, Files, Retryable
    <2>5. QED
        BY <1>12, <1>t, <2>3, <2>4, KeepsFile DEF RefreshFails, pastVars
<1>13. ASSUME NEW p \in QueueProcs, DrainWrites(p) PROVE Queued'
    <2>1. /\ doing[p] = "drain" /\ queueFile' = drained[p].copy
          /\ overwritten' = overwritten \cup Gone(p, queueFile')
          /\ doing' = [doing EXCEPT ![p] = "idle"] /\ drained' = [drained EXCEPT ![p] = NoDrain]
          /\ UNCHANGED <<dataVars, owing, locked, seen, touched, missed>>
        BY <1>13 DEF DrainWrites
    <2>2. locked[p] = NoCode
        BY <2>1 DEF QueueTypes
    <2>3. ASSUME NEW c \in QueueCodes, Unpaid(c)'
          PROVE  Unpaid(c) /\ queueFile'[c] \in Retryable /\ Safe(p, c)'
        <3>1. Unpaid(c) /\ c \notin Gone(p, queueFile')
            BY <2>1, <2>3 DEF Unpaid, dataVars
        <3>2. drained[p].copy[c] \in Retryable \/ c \in touched[p]
            BY <1>s, <2>1, <3>1 DEF Safe
        <3>3. QED
            BY <2>1, <2>2, <3>1, <3>2, <1>t DEF Gone, Safe
    <2>4. QED
        BY <2>1, <2>3, <1>t, ReplacesFile
<1>14. ASSUME NEW p \in QueueProcs, QueueCrash(p) PROVE Queued'
    <2>1. \A c \in QueueCodes : Unpaid(c)' => Unpaid(c)
        BY <1>14, <1>t DEF QueueCrash, dataVars, Unpaid
    <2>2. \A c \in QueueCodes : Safe(p, c)'
        BY <1>14, <1>t DEF QueueCrash, Safe
    <2>3. QED
        BY <1>14, <1>t, <2>1, <2>2, KeepsFile DEF QueueCrash
<1>15. QED
    BY <1>1, <1>2, <1>r, <1>3, <1>4, <1>5, <1>6, <1>7, <1>8, <1>9, <1>10, <1>11, <1>12, <1>13, <1>14
    DEF QueueNext

-----------------------------------------------------------------------------
(* What a drain fetched.                                                   *)

\* Somebody makes up for what p fetched of c.
MadeUp(p, c) == c \in missed \/ c \in touched[p] \/ \E q \in QueueProcs : c \in owing[q]

\* A step that leaves the fetched structures alone, and where what is no longer owed is
\* missed or queued.
LEMMA KeepsFetched ==
    ASSUME Fetched, factor' = factor,
           \A p \in QueueProcs : doing'[p] = "drain" =>
              \/ doing[p] = "drain" /\ drained'[p] = drained[p]
              \/ drained'[p].code = NoCode,
           \A p \in QueueProcs, c \in QueueCodes :
              doing'[p] = "drain" /\ doing[p] = "drain" /\ MadeUp(p, c) => MadeUp(p, c)',
           QueueTypes
    PROVE  Fetched'
<1> SUFFICES ASSUME NEW p \in QueueProcs, doing'[p] = "drain", drained'[p].code # NoCode,
                    drained'[p].got < factor[drained'[p].code]
             PROVE  MadeUp(p, drained[p].code)' /\ drained'[p].code = drained[p].code
    BY DEF Fetched, MadeUp
<1>1. doing[p] = "drain" /\ drained'[p] = drained[p]
    OBVIOUS
<1>2. PICK c \in QueueCodes : c = drained[p].code
    BY <1>1 DEF QueueTypes, Drains
<1>3. MadeUp(p, c)
    BY <1>1, <1>2 DEF Fetched, MadeUp
<1>4. MadeUp(p, c)'
    BY <1>1, <1>3
<1>5. QED
    BY <1>1, <1>2, <1>4 DEF MadeUp

LEMMA FetchedStep == QueueTypes /\ Fetched /\ [QueueNext]_queueVars => Fetched'
<1> SUFFICES ASSUME QueueTypes, Fetched, [QueueNext]_queueVars PROVE Fetched'
    OBVIOUS
<1>t. /\ DOMAIN locked = QueueProcs /\ DOMAIN doing = QueueProcs
      /\ DOMAIN drained = QueueProcs /\ DOMAIN touched = QueueProcs
      /\ DOMAIN owing = QueueProcs /\ DOMAIN factor = QueueCodes
    BY DEF QueueTypes
<1>1. CASE UNCHANGED queueVars
    BY <1>1 DEF queueVars, dataVars, stepVars, pastVars, Fetched
<1>2. ASSUME NEW c \in QueueCodes, Announce(c) PROVE Fetched'
    BY <1>2 DEF Announce, stepVars, pastVars, Fetched
<1>r. ASSUME NEW c \in QueueCodes, RepairStores(c) PROVE Fetched'
    <2>1. missed' = missed \cup {c} /\ \A d \in QueueCodes \ {c} : factor'[d] = factor[d]
        BY <1>r, <1>t DEF RepairStores
    <2>2. UNCHANGED <<doing, owing, drained, touched>>
        BY <1>r DEF RepairStores, stepVars
    <2>3. \A p \in QueueProcs : drained[p].code \in QueueCodes \cup {NoCode}
        BY DEF QueueTypes, Drains
    <2>4. QED
        BY <2>1, <2>2, <2>3 DEF Fetched
<1>3. ASSUME NEW q \in QueueProcs, BeginUpdate(q) PROVE Fetched'
    BY <1>3, <1>t DEF BeginUpdate, dataVars, pastVars, Fetched
<1>4. ASSUME NEW q \in QueueProcs, NEW c \in QueueCodes, StoreChanged(q, c) PROVE Fetched'
    <2>1. c \in owing'[q] /\ \A d \in QueueCodes \ {c} : factor'[d] = factor[d]
        BY <1>4, <1>t DEF StoreChanged
    <2>2. \A p \in QueueProcs : owing[p] \subseteq owing'[p]
        BY <1>4, <1>t DEF StoreChanged
    <2>3. UNCHANGED <<doing, drained, touched, missed>>
        BY <1>4 DEF StoreChanged, pastVars
    <2>4. \A p \in QueueProcs : drained[p].code \in QueueCodes \cup {NoCode}
        BY DEF QueueTypes, Drains
    <2>5. QED
        BY <2>1, <2>2, <2>3, <2>4 DEF Fetched
<1>5. ASSUME NEW q \in QueueProcs, NEW c \in QueueCodes, EnqueueReads(q, c) PROVE Fetched'
    <2>1. doing[q] = "update"
        BY <1>5 DEF EnqueueReads, QueueTypes
    <2>2. QED
        BY <1>5, <1>t, <2>1 DEF EnqueueReads, dataVars, Fetched
<1>6. ASSUME NEW q \in QueueProcs, EnqueueWrites(q) PROVE Fetched'
    <2>1. PICK c \in QueueCodes : c = locked[q]
        BY <1>6 DEF EnqueueWrites, QueueTypes
    <2>2. doing[q] = "update"
        BY <1>6 DEF EnqueueWrites, QueueTypes
    <2>3. /\ missed' = missed \ {c} /\ owing' = [owing EXCEPT ![q] = @ \ {c}]
          /\ UNCHANGED <<factor, doing, drained>>
        BY <1>6, <2>1 DEF EnqueueWrites, dataVars
    <2>4. \A p \in QueueProcs \ {q} : touched'[p] = touched[p] \cup {c}
        BY <1>6, <2>1 DEF EnqueueWrites
    <2>5. ASSUME NEW p \in QueueProcs, NEW d \in QueueCodes, doing[p] = "drain", MadeUp(p, d)
          PROVE  MadeUp(p, d)'
        BY <2>2, <2>3, <2>4, <2>5, <1>t DEF MadeUp
    <2>6. QED
        BY <2>3, <2>5, KeepsFetched
<1>7. ASSUME NEW q \in QueueProcs, EnqueueFails(q) PROVE Fetched'
    <2>1. \A p \in QueueProcs, d \in QueueCodes : MadeUp(p, d) => MadeUp(p, d)'
        BY <1>7, <1>t DEF EnqueueFails, MadeUp
    <2>2. QED
        BY <1>7, <2>1, KeepsFetched DEF EnqueueFails, dataVars
<1>8. ASSUME NEW q \in QueueProcs, EndUpdate(q) PROVE Fetched'
    BY <1>8, <1>t DEF EndUpdate, dataVars, pastVars, Fetched
<1>9. ASSUME NEW q \in QueueProcs, DrainReads(q) PROVE Fetched'
    <2>1. drained'[q].code = NoCode
        BY <1>9, <1>t DEF DrainReads, NoDrain
    <2>2. \A p \in QueueProcs, d \in QueueCodes :
            doing[p] = "drain" /\ MadeUp(p, d) => MadeUp(p, d)'
        BY <1>9, <1>t DEF DrainReads, MadeUp
    <2>3. \A p \in QueueProcs \ {q} : doing'[p] = doing[p] /\ drained'[p] = drained[p]
        BY <1>9, <1>t DEF DrainReads
    <2>4. QED
        BY <1>9, <2>1, <2>2, <2>3, KeepsFetched DEF DrainReads, dataVars
<1>10. ASSUME NEW q \in QueueProcs, NEW c \in QueueCodes, RefreshFetches(q, c) PROVE Fetched'
    <2>1. drained'[q].code = c /\ drained'[q].got = announced[c]
        BY <1>10, <1>t DEF RefreshFetches, QueueTypes, Drains
    <2>2. ~ (announced[c] < factor[c])
        BY DEF QueueTypes
    <2>3. \A p \in QueueProcs \ {q} : drained'[p] = drained[p]
        BY <1>10, <1>t DEF RefreshFetches
    <2>4. UNCHANGED <<factor, doing, owing, touched, missed>>
        BY <1>10 DEF RefreshFetches, dataVars, pastVars
    <2>5. QED
        BY <2>1, <2>2, <2>3, <2>4 DEF Fetched
<1>11. ASSUME NEW q \in QueueProcs, RefreshWrites(q) \/ RefreshFails(q) PROVE Fetched'
    <2>1. drained'[q].code = NoCode
        BY <1>11, <1>t DEF RefreshWrites, RefreshFails, QueueTypes, Drains
    <2>2. \A p \in QueueProcs \ {q} : drained'[p] = drained[p]
        BY <1>11, <1>t DEF RefreshWrites, RefreshFails
    <2>3. UNCHANGED <<factor, doing, owing, touched, missed>>
        BY <1>11 DEF RefreshWrites, RefreshFails, dataVars, pastVars
    <2>4. QED
        BY <2>1, <2>2, <2>3 DEF Fetched
<1>12. ASSUME NEW q \in QueueProcs, DrainWrites(q) PROVE Fetched'
    BY <1>12, <1>t DEF DrainWrites, dataVars, Fetched
<1>13. ASSUME NEW q \in QueueProcs, QueueCrash(q) PROVE Fetched'
    <2>1. \A p \in QueueProcs, d \in QueueCodes : MadeUp(p, d) => MadeUp(p, d)'
        BY <1>13, <1>t DEF QueueCrash, MadeUp
    <2>2. \A p \in QueueProcs : doing'[p] = "drain" =>
            doing[p] = "drain" /\ drained'[p] = drained[p]
        BY <1>13, <1>t DEF QueueCrash
    <2>3. QED
        BY <1>13, <2>1, <2>2, KeepsFetched DEF QueueCrash, dataVars
<1>14. QED
    BY <1>1, <1>2, <1>r, <1>3, <1>4, <1>5, <1>6, <1>7, <1>8, <1>9, <1>10, <1>11, <1>12, <1>13
    DEF QueueNext

\* A refresh that is owed is in the queue or about to be, whatever fails and whichever
\* process stops, but for the codes a task never queued and those an older copy of the
\* file or an older answer replaced (capital_structure_pending.py:105, 77): what a process
\* will replace the file by either has the refresh or is known to have been read before.
THEOREM RefreshesAreKept == QueueSpec => []NothingOwedIsLost
<1>1. QueueInv /\ [QueueNext]_queueVars => QueueInv'
    BY TypesStep, QueuedStep, FetchedStep DEF QueueInv
<1>2. QueueInv => NothingOwedIsLost
    BY DEF QueueInv, Queued, Unpaid, NothingOwedIsLost
<1>3. QED
    BY <1>1, <1>2, QueueInitially, PTL DEF QueueSpec

-----------------------------------------------------------------------------
(* Spot quotes                                                             *)

SpotStages == {"idle", "planned", "fallback", "storing"}
Quotes == 1..SpotDays + 2

SpotTypes ==
    /\ clock.day \in 1..SpotDays /\ clock.part \in 1..3
    /\ clock = [day |-> clock.day, part |-> clock.part]
    /\ calendarTo \in 0..SpotDays
    /\ bars \in [SpotCodes -> [1..SpotDays -> Quotes]]
    /\ spotDone \subseteq 1..SpotDays
    /\ spotAt \in SpotStages
    /\ spotAt # "idle" => spotRun.date \in 1..SpotDays
    /\ spotRun \in [date : 0..SpotDays, source : {"none", "eastmoney", "sina"},
                    quote : Quotes, rest : SUBSET SpotCodes]

\* The quotes a run has are the closes of its date, or the way they are not is known, and
\* it has a quote when it stores it.
SpotHeld ==
    /\ spotAt # "idle" =>
          \/ spotRun.quote = spotRun.date
          \/ spotRun.quote # Live /\ spotRun.date \in excused
          \/ spotRun.quote = Live /\ spotRun.date \in exposed
    /\ spotAt = "storing" => spotRun.quote # NoBar
    /\ spotAt = "storing" /\ spotRun.source = "eastmoney" =>
          \A c \in SpotCodes \ DelistedCodes :
              c \in spotRun.rest \/ bars[c][spotRun.date] # NoBar

SpotInv == SpotTypes /\ SpotHeld /\ SpotBarsAreCloses

LEMMA LastOne ==
    ASSUME NEW S \in SUBSET (1..SpotDays), S # {}
    PROVE  Max(S) \in S /\ \A d \in S : Max(S) >= d
<1> DEFINE T == {n \in Nat : \E d \in S : n = SpotDays - d}
           R == OpToRel(<, Nat)
<1>0. SpotDays \in Nat
    BY SpotAssumption
<1>1. T \subseteq Nat /\ T # {}
    <2>1. PICK d \in S : TRUE
        OBVIOUS
    <2>2. SpotDays - d \in T
        BY <1>0, <2>1
    <2>3. QED
        BY <2>2
<1>2. IsWellFoundedOn(R, Nat)
    BY NatLessThanWellFounded
<1> HIDE DEF R
<1>3. PICK n \in T : \A m \in T : ~ (<<m, n>> \in R)
    BY <1>1, <1>2, WFMin
<1>4. \A m \in T : ~ (m < n)
    BY <1>3 DEF R, OpToRel
<1>5. PICK d \in S : n = SpotDays - d
    BY <1>3
<1>6. \A e \in S : d >= e
    <2> SUFFICES ASSUME NEW e \in S PROVE d >= e
        OBVIOUS
    <2>1. SpotDays - e \in T
        BY <1>0
    <2>2. ~ (SpotDays - e < SpotDays - d)
        BY <1>4, <1>5, <2>1
    <2>3. QED
        BY <1>0, <2>2
<1>7. QED
    BY <1>5, <1>6 DEF Max

LEMMA SpotConstants ==
    /\ SpotDays \in Nat \ {0} /\ NoBar = SpotDays + 2 /\ Live = SpotDays + 1
    /\ NoEnd = 0 /\ NoTradeDate = 0 /\ NoBar \in Quotes /\ 0 \in 0..SpotDays
    /\ NoRun \in [date : 0..SpotDays, source : {"none", "eastmoney", "sina"},
                  quote : Quotes, rest : SUBSET SpotCodes]
<1>1. SpotDays \in Nat \ {0}
    BY SpotAssumption
<1>2. NoBar = SpotDays + 2 /\ Live = SpotDays + 1 /\ NoEnd = 0 /\ NoTradeDate = 0
    BY DEF NoBar, Live, NoEnd, NoTradeDate
<1>3. NoBar \in Quotes /\ 0 \in 0..SpotDays
    BY <1>1, <1>2 DEF Quotes
<1>4. QED
    BY <1>1, <1>2, <1>3 DEF NoRun

\* The quote: a day the market has closed, or no close.
LEMMA QuoteIsAClose ==
    ASSUME SpotTypes
    PROVE  LET past == {d \in TradingDays : d < clock.day \/ (d = clock.day /\ clock.part = 3)}
           IN  /\ Quoted \in Quotes
               /\ Quoted \in 1..SpotDays => Quoted = Max(past) /\ Quoted \in past
               /\ Quoted = Live => clock.part = 2 /\ clock.day \in TradingDays
               /\ Quoted \in {Live, NoBar} \/ Quoted \in 1..SpotDays
<1> DEFINE past == {d \in TradingDays : d < clock.day \/ (d = clock.day /\ clock.part = 3)}
<1>1. SpotDays \in Nat \ {0} /\ TradingDays \subseteq 1..SpotDays
    BY SpotAssumption
<1>2. past \in SUBSET (1..SpotDays)
    BY <1>1
<1>3. Quoted = IF clock.part = 2 /\ clock.day \in TradingDays THEN Live
               ELSE IF past = {} THEN NoBar ELSE Max(past)
    BY DEF Quoted
<1> HIDE DEF past
<1>4. past # {} => Max(past) \in past /\ Max(past) \in 1..SpotDays
    BY <1>2, LastOne
<1>5. /\ Quoted \in Quotes
      /\ Quoted \in 1..SpotDays => Quoted = Max(past) /\ Quoted \in past
      /\ Quoted = Live => clock.part = 2 /\ clock.day \in TradingDays
      /\ Quoted \in {Live, NoBar} \/ Quoted \in 1..SpotDays
    BY <1>1, <1>3, <1>4, SpotConstants DEF Quotes
<1>6. QED
    BY <1>5 DEF past

\* The plan finds a day, and if it sees every trading day up to its candidate and is asked
\* for the last close, it is the one the quotes are of; a session it sees keeps it out.
LEMMA PlanFindsTheClose ==
    ASSUME SpotTypes, WindowOpen, NEW end \in {NoEnd} \cup 1..clock.day,
           TradeDate(end) # NoTradeDate
    PROVE  /\ TradeDate(end) \in 1..SpotDays
           /\ Quoted = Live => SessionUnlisted
           /\ ~ CalendarBehind /\ Quoted # Live /\ end \in {NoEnd, Quoted} =>
                 Quoted = TradeDate(end)
<1> DEFINE candidate == IF end = NoEnd THEN CandidateDate ELSE end
           before == {d \in KnownTradingDays : d <= candidate}
           past == {d \in TradingDays : d < clock.day \/ (d = clock.day /\ clock.part = 3)}
<1>1. /\ SpotDays \in Nat \ {0} /\ TradingDays \subseteq 1..SpotDays
      /\ clock.day \in 1..SpotDays /\ clock.part \in 1..3 /\ calendarTo \in 0..SpotDays
      /\ NoEnd = 0 /\ NoTradeDate = 0
    BY SpotAssumption, SpotConstants DEF SpotTypes
<1>2. candidate \in 0..SpotDays
    BY <1>1 DEF CandidateDate
<1>3. before \in SUBSET (1..SpotDays) /\ KnownTradingDays \in SUBSET (1..SpotDays)
    BY <1>1 DEF KnownTradingDays
<1>4. \/ TradeDate(end) = candidate /\ candidate \in KnownTradingDays
      \/ TradeDate(end) = candidate /\ candidate \notin KnownTradingDays /\ end # NoEnd
      \/ TradeDate(end) = Max(before) /\ before # {} /\ candidate \notin KnownTradingDays
    BY DEF TradeDate
<1>5. TradeDate(end) \in 1..SpotDays
    <2>1. before # {} => Max(before) \in 1..SpotDays
        BY <1>3, LastOne
    <2>2. candidate \in KnownTradingDays \/ end # NoEnd => candidate \in 1..SpotDays
        <3>1. candidate \in KnownTradingDays => candidate \in 1..SpotDays
            BY <1>3
        <3>2. end # NoEnd => candidate = end /\ end \in 1..SpotDays
            BY <1>1
        <3> HIDE DEF candidate
        <3>3. QED
            BY <3>1, <3>2
    <2> HIDE DEF candidate, before
    <2>3. QED
        BY <1>4, <2>1, <2>2
<1>0. Quoted = Live => SessionUnlisted
    BY <1>1, QuoteIsAClose DEF WindowOpen, KnownTradingDays, SessionUnlisted
<1>6. ASSUME ~ CalendarBehind, Quoted # Live, end \in {NoEnd, Quoted}
      PROVE  Quoted = TradeDate(end)
    <2>1. \A d \in TradingDays : d <= CandidateDate => d <= calendarTo
        BY <1>1, <1>6 DEF CalendarBehind, CandidateDate
    <2>2. ~ (clock.part = 2 /\ clock.day \in TradingDays)
        BY <1>6 DEF Quoted
    <2>3. Quoted = IF past = {} THEN NoBar ELSE Max(past)
        BY <2>2 DEF Quoted
    <2>4. \A d \in past : d \in KnownTradingDays
        BY <1>1, <2>1 DEF KnownTradingDays, CandidateDate
    <2>5. CASE end = NoEnd
        <3>1. candidate = IF clock.part = 3 THEN clock.day ELSE clock.day - 1
            BY <2>5 DEF CandidateDate
        <3>2. past = before
            <4>1. ASSUME NEW d \in TradingDays
                  PROVE  d \in past <=> d \in before
                <5>1. d \in Int /\ (d \in past <=> d <= candidate)
                    BY <1>1, <3>1
                <5>2. d <= candidate => d <= calendarTo
                    BY <2>1, <3>1 DEF CandidateDate
                <5>3. QED
                    BY <5>1, <5>2 DEF KnownTradingDays
            <4>2. QED
                BY <4>1 DEF KnownTradingDays
        <3>3. CASE candidate \in KnownTradingDays
            <4>1. candidate \in before
                BY <1>2, <3>3
            <4>2. Max(before) \in before /\ Max(before) >= candidate
                BY <1>3, <4>1, LastOne
            <4>3. Max(before) = candidate
                BY <1>2, <1>3, <4>2
            <4>4. TradeDate(end) = candidate
                BY <3>3 DEF TradeDate
            <4> HIDE DEF candidate, before, past
            <4>5. QED
                BY <2>3, <3>2, <4>1, <4>3, <4>4
        <3>4. CASE candidate \notin KnownTradingDays
            <4>1. TradeDate(end) = Max(before) /\ before # {}
                BY <1>4, <2>5, <3>4
            <4> HIDE DEF candidate, before, past
            <4>2. QED
                BY <2>3, <3>2, <4>1
        <3>5. QED
            BY <3>3, <3>4
    <2>6. CASE end # NoEnd
        <3>1. end = Quoted /\ end \in 1..SpotDays /\ candidate = end
            BY <1>1, <1>6, <2>6
        <3>2. Quoted \in past
            BY <3>1, QuoteIsAClose
        <3>3. candidate \in KnownTradingDays
            BY <2>4, <3>1, <3>2
        <3>4. QED
            BY <1>4, <3>1, <3>3
    <2>7. QED
        BY <2>5, <2>6
<1>7. QED
    BY <1>0, <1>5, <1>6

LEMMA SpotInitially == SpotInit => SpotInv
<1> SUFFICES ASSUME SpotInit PROVE SpotInv
    OBVIOUS
<1>1. SpotTypes
    BY SpotConstants DEF SpotInit, SpotTypes, SpotStages
<1>2. SpotHeld /\ SpotBarsAreCloses
    BY DEF SpotInit, SpotHeld, SpotBarsAreCloses
<1>3. QED
    BY <1>1, <1>2 DEF SpotInv

LEMMA SpotPlanStep ==
    ASSUME SpotInv, NEW end \in {NoEnd} \cup 1..clock.day, NEW force \in BOOLEAN,
           SpotPlan(end, force)
    PROVE  SpotInv'
<1> USE DEF SpotInv
<1> DEFINE date == TradeDate(end)
<1>1. /\ spotAt = "idle" /\ WindowOpen /\ date # NoTradeDate /\ spotAt' = "planned"
      /\ spotRun' = [NoRun EXCEPT !.date = date, !.quote = Quoted]
      /\ excused' = IF CalendarBehind \/ end \notin {NoEnd, Quoted}
                    THEN excused \cup {date} ELSE excused
      /\ exposed' = IF SessionUnlisted THEN exposed \cup {date} ELSE exposed
      /\ UNCHANGED <<clock, calendarTo, bars, spotDone>>
    BY DEF SpotPlan
<1>2. /\ date \in 1..SpotDays /\ date \in 0..SpotDays /\ Quoted \in Quotes
      /\ Quoted = Live => SessionUnlisted
      /\ ~ CalendarBehind /\ Quoted # Live /\ end \in {NoEnd, Quoted} => Quoted = date
    BY <1>1, PlanFindsTheClose, QuoteIsAClose, SpotConstants
<1> HIDE DEF date
<1>3. /\ spotRun' \in [date : 0..SpotDays, source : {"none", "eastmoney", "sina"},
                       quote : Quotes, rest : SUBSET SpotCodes]
      /\ spotRun'.date = date /\ spotRun'.quote = Quoted
    BY <1>1, <1>2, SpotConstants DEF NoRun
<1>4. SpotTypes'
    BY <1>1, <1>2, <1>3 DEF SpotTypes, SpotStages
<1>5. SpotHeld'
    BY <1>1, <1>2, <1>3 DEF SpotHeld
<1>6. SpotBarsAreCloses'
    <2>1. excused \subseteq excused' /\ exposed \subseteq exposed'
        BY <1>1
    <2>2. QED
        BY <1>1, <2>1 DEF SpotBarsAreCloses
<1>7. QED
    BY <1>4, <1>5, <1>6

LEMMA SpotFetchedStep ==
    ASSUME SpotInv, spotAt \in {"planned", "fallback"},
           NEW source \in {"eastmoney", "sina"}, NEW codes \in SUBSET SpotCodes,
           SpotFetched(source, codes),
           source = "eastmoney" => codes = SpotCodes \ DelistedCodes
    PROVE  SpotInv'
<1> USE DEF SpotInv
<1>1. /\ Quoted # NoBar /\ spotAt' = "storing"
      /\ spotRun' = [spotRun EXCEPT !.source = source, !.quote = Quoted, !.rest = codes]
      /\ excused \subseteq excused' /\ exposed \subseteq exposed'
      /\ Quoted # spotRun.quote => spotRun.date \in excused' \cap exposed'
      /\ UNCHANGED <<clock, calendarTo, bars, spotDone>>
    BY DEF SpotFetched
<1>2. Quoted \in Quotes
    BY QuoteIsAClose
<1>3. /\ spotRun' \in [date : 0..SpotDays, source : {"none", "eastmoney", "sina"},
                       quote : Quotes, rest : SUBSET SpotCodes]
      /\ spotRun'.date = spotRun.date /\ spotRun'.quote = Quoted
      /\ spotRun'.source = source /\ spotRun'.rest = codes
    BY <1>1, <1>2 DEF SpotTypes
<1>4. SpotTypes'
    BY <1>1, <1>3 DEF SpotTypes, SpotStages
<1>5. SpotHeld'
    <2>1. CASE Quoted = spotRun.quote
        BY <1>1, <1>3, <2>1 DEF SpotHeld
    <2>2. CASE Quoted # spotRun.quote
        BY <1>1, <1>3, <2>2 DEF SpotHeld
    <2>3. QED
        BY <2>1, <2>2
<1>6. SpotBarsAreCloses'
    BY <1>1 DEF SpotBarsAreCloses
<1>7. QED
    BY <1>4, <1>5, <1>6

LEMMA StoreBarStep ==
    ASSUME SpotInv, NEW c \in SpotCodes, StoreBar(c)
    PROVE  SpotInv'
<1> USE DEF SpotInv
<1>1. /\ spotAt = "storing" /\ spotRun.date \in 1..SpotDays
      /\ spotRun' = [spotRun EXCEPT !.rest = @ \ {c}]
      /\ UNCHANGED <<clock, calendarTo, spotDone, spotAt, excused, exposed>>
    BY DEF StoreBar, SpotTypes
<1>2. /\ spotRun.quote \in Quotes /\ spotRun.quote # NoBar
      /\ \/ spotRun.quote = spotRun.date
         \/ spotRun.quote # Live /\ spotRun.date \in excused
         \/ spotRun.quote = Live /\ spotRun.date \in exposed
    BY <1>1 DEF SpotTypes, SpotHeld
<1>3. /\ bars' \in [SpotCodes -> [1..SpotDays -> Quotes]]
      /\ bars'[c][spotRun.date] # NoBar
      /\ \A b \in SpotCodes, d \in 1..SpotDays :
            \/ bars'[b][d] = bars[b][d]
            \/ bars'[b][d] = spotRun.quote /\ d = spotRun.date /\ bars[b][d] = NoBar
    BY <1>1, <1>2 DEF StoreBar, Store, SpotTypes
<1>4. /\ spotRun' \in [date : 0..SpotDays, source : {"none", "eastmoney", "sina"},
                       quote : Quotes, rest : SUBSET SpotCodes]
      /\ spotRun'.date = spotRun.date /\ spotRun'.quote = spotRun.quote
      /\ spotRun'.source = spotRun.source /\ spotRun'.rest = spotRun.rest \ {c}
    BY <1>1 DEF SpotTypes
<1>5. SpotTypes'
    BY <1>1, <1>3, <1>4 DEF SpotTypes
<1>6. SpotHeld'
    BY <1>1, <1>2, <1>3, <1>4 DEF SpotHeld
<1>7. SpotBarsAreCloses'
    <2>1. \A b \in SpotCodes, d \in 1..SpotDays :
              \/ bars'[b][d] \in {d, NoBar}
              \/ bars'[b][d] # Live /\ d \in excused
              \/ bars'[b][d] = Live /\ d \in exposed
        BY <1>2, <1>3 DEF SpotBarsAreCloses
    <2>2. \A d \in spotDone, b \in SpotCodes \ DelistedCodes : bars'[b][d] # NoBar
        BY <1>2, <1>3 DEF SpotBarsAreCloses, SpotTypes
    <2>3. QED
        BY <1>1, <2>1, <2>2 DEF SpotBarsAreCloses
<1>8. QED
    BY <1>5, <1>6, <1>7

LEMMA RecordSpotStep == SpotInv /\ RecordSpot => SpotInv'
<1> SUFFICES ASSUME SpotInv, RecordSpot PROVE SpotInv'
    OBVIOUS
<1> USE DEF SpotInv
<1>1. /\ spotAt = "storing" /\ spotRun.rest = {} /\ spotAt' = "idle" /\ spotRun' = NoRun
      /\ spotRun.date \in 1..SpotDays
      /\ \/ spotRun.source = "eastmoney" /\ spotDone' = spotDone \cup {spotRun.date}
         \/ spotDone' = spotDone \ {spotRun.date}
      /\ UNCHANGED <<clock, calendarTo, bars, excused, exposed>>
    BY DEF RecordSpot, SpotTypes
<1>2. SpotTypes'
    BY <1>1, SpotConstants DEF SpotTypes, SpotStages
<1>3. SpotHeld'
    BY <1>1 DEF SpotHeld
<1>4. SpotBarsAreCloses'
    BY <1>1 DEF SpotHeld, SpotBarsAreCloses
<1>5. QED
    BY <1>2, <1>3, <1>4

LEMMA SpotOtherStep ==
    ASSUME SpotInv,
           \/ EastmoneyFails \/ RecordSpotFailure \/ SpotKilled
           \/ ClockMoves \/ CalendarUpdated \/ CalendarCompleted \/ UNCHANGED spotVars
    PROVE  SpotInv'
<1> USE DEF SpotInv
<1>1. CASE ClockMoves \/ CalendarUpdated \/ CalendarCompleted
    <2>1. /\ clock'.day \in 1..SpotDays /\ clock'.part \in 1..3
          /\ clock' = [day |-> clock'.day, part |-> clock'.part]
        BY <1>1, SpotConstants
        DEF ClockMoves, CalendarUpdated, CalendarCompleted, CalendarStored, SpotTypes
    <2>2. calendarTo' \in 0..SpotDays
        BY <1>1, SpotConstants
        DEF ClockMoves, CalendarUpdated, CalendarCompleted, CalendarStored, CandidateDate, SpotTypes
    <2>3. UNCHANGED <<bars, spotDone, spotAt, spotRun, excused, exposed>>
        BY <1>1 DEF ClockMoves, CalendarUpdated, CalendarCompleted, CalendarStored
    <2>4. QED
        BY <2>1, <2>2, <2>3 DEF SpotTypes, SpotHeld, SpotBarsAreCloses
<1>2. CASE EastmoneyFails
    BY <1>2 DEF EastmoneyFails, SpotTypes, SpotStages, SpotHeld, SpotBarsAreCloses
<1>3. CASE RecordSpotFailure \/ SpotKilled
    <2>1. /\ spotAt' = "idle" /\ spotRun' = NoRun /\ spotDone' \subseteq spotDone
          /\ UNCHANGED <<clock, calendarTo, bars, excused, exposed>>
        BY <1>3 DEF RecordSpotFailure, SpotKilled
    <2>2. SpotTypes'
        BY <2>1, SpotConstants DEF SpotTypes, SpotStages
    <2>3. QED
        BY <2>1, <2>2 DEF SpotHeld, SpotBarsAreCloses
<1>4. CASE UNCHANGED spotVars
    BY <1>4 DEF spotVars, SpotTypes, SpotHeld, SpotBarsAreCloses
<1>5. QED
    BY <1>1, <1>2, <1>3, <1>4

LEMMA SpotStep == SpotInv /\ [SpotNext]_spotVars => SpotInv'
<1>1. SpotInv /\ FetchEastmoney => SpotInv'
    BY SpotFetchedStep DEF FetchEastmoney
<1>2. SpotInv /\ FetchSina => SpotInv'
    BY SpotFetchedStep DEF FetchSina
<1>3. QED
    BY <1>1, <1>2, SpotPlanStep, StoreBarStep, RecordSpotStep, SpotOtherStep DEF SpotNext

\* The bars of a day are its closes, for every calendar and however runs, the clock and the
\* calendar's updates follow one another: a plan that sees the trading days up to its
\* candidate finds the day the market has closed last, whatever it lacks after that, and
\* prices of a session are stored only after a plan that did not see the session or a fetch
\* after its opening (spot_quote.py:487, 508, 54).
THEOREM BarsAreCloses == SpotSpec => []SpotBarsAreCloses
<1>1. SpotInv => SpotBarsAreCloses
    BY DEF SpotInv
<1>2. QED
    BY <1>1, SpotInitially, SpotStep, PTL DEF SpotSpec

-----------------------------------------------------------------------------
(* Financial reports                                                       *)

Rows == [date : Dates, priority : Priorities]
AnyRow == Rows \cup {NoRow}

ReportTypes ==
    /\ today \in Dates /\ stored \subseteq ReportCodes
    /\ disclosed \in [ReportCodes -> AnyRow]
    /\ pendingRows \in [ReportCodes -> AnyRow]
    /\ lastEffective = NoReportDate \/ lastEffective \in 0..today
    /\ run \in [mode : {"none", Incremental, Full}, date : 0..NoReportDate,
                rest : SUBSET (ReportCodes \X AnyRow), failed : BOOLEAN,
                cut : SUBSET ReportCodes, came : SUBSET ReportCodes]
    /\ Running => run.date <= today

\* A row that a run may fetch: disclosed, due, and no better than the one disclosed now.
Due(row, c, date) ==
    row # NoRow /\ row.date <= date /\ row.priority <= disclosed[c].priority

\* The run finds the code in its window, and it has not been disclosed again since.
Planned(c) == c \in InWindow(run.date) \ run.came

\* Only the pending file can have the code: its date is behind the last run.
Behind(c) ==
    /\ c \notin lost /\ lastEffective # NoReportDate /\ disclosed[c] # NoRow
    /\ disclosed[c].date < lastEffective /\ disclosed[c].date >= today - Retention

PendingIsDue == \A c \in ReportCodes : pendingRows[c] # NoRow => Due(pendingRows[c], c, today)

\* The row is not retired before the report is.
Lasts(row, c) == row # NoRow /\ row.date >= disclosed[c].date

PendingLasts == \A c \in ReportCodes \ stored : Behind(c) => Lasts(pendingRows[c], c)

TasksAreDue ==
    run.mode = Incremental =>
        \A task \in run.rest : LET c == task[1] IN
            /\ Due(task[2], c, run.date)
            /\ Behind(c) => Lasts(task[2], c)
            /\ Planned(c) => Lasts(task[2], c) /\ task[2].priority >= disclosed[c].priority

\* What the run found and has done without a failure is stored, or pending.
NothingDropped ==
    run.mode = Incremental /\ ~ run.failed =>
        \A c \in ReportCodes \ (stored \cup run.cut) :
            Planned(c) => (\E task \in run.rest : task[1] = c) \/ Lasts(pendingRows[c], c)

ReportInv == ReportTypes /\ PendingIsDue /\ PendingLasts /\ TasksAreDue /\ NothingDropped

LEMMA RowFacts ==
    /\ MaxDate \in Nat /\ NoReportDate \in Nat /\ NoRow \in AnyRow /\ NoRow.priority = 0
    /\ NoReportDate > MaxDate
    /\ \A r \in Rows : r \in AnyRow /\ r # NoRow
    /\ \A r \in AnyRow : /\ r.date \in Nat /\ r.priority \in 0..3
                         /\ r # NoRow => r.date \in 0..MaxDate /\ r.priority \in 1..3
<1>1. MaxDate \in Nat /\ Priorities \subseteq 1..3
    BY ReportAssumption
<1>2. \A r \in Rows : r.date \in 0..MaxDate /\ r.priority \in 1..3
    BY <1>1 DEF Rows, Dates
<1>3. NoRow.date = MaxDate + 1 /\ NoRow.priority = 0
    BY DEF NoRow
<1>4. \A r \in AnyRow : r \in Rows \/ r = NoRow
    BY DEF AnyRow
<1>5. NoRow \in AnyRow /\ \A r \in Rows : r \in AnyRow
    BY DEF AnyRow
<1>6. NoReportDate \in Nat /\ NoReportDate > MaxDate
    BY <1>1 DEF NoReportDate
<1>7. \A r \in Rows : r # NoRow
    BY <1>2, <1>3
<1>8. \A r \in AnyRow : /\ r.date \in Nat /\ r.priority \in 0..3
                        /\ r # NoRow => r.date \in 0..MaxDate /\ r.priority \in 1..3
    BY <1>1, <1>2, <1>3, <1>4
<1>9. QED
    BY <1>1, <1>3, <1>5, <1>6, <1>7, <1>8

\* Of two rows, one is kept, and it is a row if one of them is.
LEMMA MergedFacts ==
    ASSUME NEW a \in AnyRow, NEW b \in AnyRow
    PROVE  /\ MergedRow(a, b) \in AnyRow
           /\ MergedRow(a, b) = a \/ MergedRow(a, b) = b
           /\ MergedRow(a, b).priority >= a.priority
           /\ a # NoRow \/ b # NoRow => MergedRow(a, b) # NoRow
           /\ (a # NoRow /\ a.priority >= b.priority) => MergedRow(a, b).date >= a.date
<1>1. /\ a.date \in Nat /\ a.priority \in 0..3 /\ b.date \in Nat /\ b.priority \in 0..3
      /\ a # NoRow => a.priority \in 1..3
      /\ b # NoRow => b.priority \in 1..3
      /\ NoRow.priority = 0
    BY RowFacts
<1>2. CASE a.priority > b.priority \/ (a.priority = b.priority /\ a.date >= b.date)
    <2>1. MergedRow(a, b) = a
        BY <1>2 DEF MergedRow
    <2>2. b # NoRow => a # NoRow
        BY <1>1, <1>2
    <2>3. QED
        BY <1>1, <2>1, <2>2
<1>3. CASE ~ (a.priority > b.priority \/ (a.priority = b.priority /\ a.date >= b.date))
    <2>1. MergedRow(a, b) = b
        BY <1>3 DEF MergedRow
    <2>2. b.priority >= a.priority /\ (a.priority >= b.priority => b.date >= a.date)
        BY <1>1, <1>3
    <2>3. a # NoRow => b # NoRow
        BY <1>1, <2>2
    <2>4. QED
        BY <1>1, <2>1, <2>2, <2>3
<1>4. QED
    BY <1>2, <1>3

LEMMA ReportTypeFacts ==
    ASSUME ReportTypes
    PROVE  /\ today \in Nat /\ today <= MaxDate /\ today - Retention \in Int
           /\ run.date \in Nat /\ lastEffective \in Nat
           /\ \A c \in ReportCodes : disclosed[c] \in AnyRow /\ pendingRows[c] \in AnyRow
           /\ \A task \in run.rest : /\ task[1] \in ReportCodes /\ task[2] \in AnyRow
                                     /\ task = <<task[1], task[2]>>
<1>1. today \in 0..MaxDate /\ run.date \in 0..NoReportDate /\ run.rest \subseteq ReportCodes \X AnyRow
    BY DEF ReportTypes, Dates
<1>2. lastEffective = NoReportDate \/ lastEffective \in 0..today
    BY DEF ReportTypes
<1>3. Retention \in Int
    BY ReportAssumption
<1>4. \A c \in ReportCodes : disclosed[c] \in AnyRow /\ pendingRows[c] \in AnyRow
    BY DEF ReportTypes
<1>5. QED
    BY <1>1, <1>2, <1>3, <1>4, RowFacts

LEMMA ReportInitially == ReportInit => ReportInv
<1> SUFFICES ASSUME ReportInit PROVE ReportInv
    OBVIOUS
<1>1. /\ today = 0 /\ stored = {} /\ lastEffective = NoReportDate
      /\ disclosed = [c \in ReportCodes |-> NoRow] /\ pendingRows = disclosed
      /\ run = NoReportRun /\ run.mode = "none" /\ 0 \in Dates
    BY RowFacts DEF ReportInit, NoReportRun, Dates
<1>2. run \in [mode : {"none", Incremental, Full}, date : 0..NoReportDate,
               rest : SUBSET (ReportCodes \X AnyRow), failed : BOOLEAN,
               cut : SUBSET ReportCodes, came : SUBSET ReportCodes]
    BY <1>1, RowFacts DEF NoReportRun
<1>3. ReportTypes
    BY <1>1, <1>2, RowFacts DEF ReportTypes, Running
<1>4. PendingIsDue /\ PendingLasts
    BY <1>1 DEF PendingIsDue, PendingLasts, Behind
<1>5. TasksAreDue /\ NothingDropped
    BY <1>1 DEF TasksAreDue, NothingDropped, Incremental
<1>6. QED
    BY <1>3, <1>4, <1>5 DEF ReportInv

LEMMA TodayStep == ReportInv /\ TodayMoves => ReportInv'
<1> SUFFICES ASSUME ReportInv, TodayMoves PROVE ReportInv'
    OBVIOUS
<1> USE DEF ReportInv
<1>1. /\ today' = today + 1 /\ today < MaxDate
      /\ UNCHANGED <<disclosed, stored, pendingRows, lastEffective, run, lost>>
    BY DEF TodayMoves
<1>2. today \in Nat /\ run.date \in Nat /\ Retention \in Nat
    BY ReportTypeFacts, ReportAssumption
<1>3. ReportTypes'
    BY <1>1, <1>2, RowFacts DEF ReportTypes, Dates, Running
<1>4. \A c \in ReportCodes : Behind(c)' => Behind(c)
    <2>1. \A c \in ReportCodes : disclosed[c].date \in Nat
        BY ReportTypeFacts, RowFacts
    <2>2. QED
        BY <1>1, <1>2, <2>1 DEF Behind
<1>5. PendingIsDue'
    <2>1. \A c \in ReportCodes : pendingRows[c].date \in Nat
        BY ReportTypeFacts, RowFacts
    <2>2. QED
        BY <1>1, <1>2, <2>1 DEF PendingIsDue, Due
<1>6. PendingLasts'
    BY <1>1, <1>4 DEF PendingLasts, Lasts
<1>7. \A c \in ReportCodes : Planned(c)' <=> Planned(c)
    BY <1>1 DEF Planned, InWindow, TriggerStart
<1>8. TasksAreDue'
    <2>1. \A task \in run.rest : task[1] \in ReportCodes
        BY ReportTypeFacts
    <2>2. QED
        BY <1>1, <1>4, <1>7, <2>1 DEF TasksAreDue, Due, Lasts
<1>9. NothingDropped'
    BY <1>1, <1>7 DEF NothingDropped, Lasts
<1>10. QED
    BY <1>3, <1>5, <1>6, <1>8, <1>9

LEMMA DiscloseStep ==
    ASSUME ReportInv, NEW c \in ReportCodes, NEW row \in [date : Dates, priority : Priorities],
           Disclose(c, row)
    PROVE  ReportInv'
<1> USE DEF ReportInv
<1>1. /\ disclosed' = [disclosed EXCEPT ![c] = row] /\ row.priority >= disclosed[c].priority
      /\ lost \subseteq lost'
      /\ (lastEffective # NoReportDate /\ row.date < lastEffective) => c \in lost'
      /\ UNCHANGED <<today, stored, pendingRows, lastEffective>>
    BY DEF Disclose
<1>2. run' = IF Running THEN [run EXCEPT !.came = @ \cup {c}] ELSE run
    BY DEF Disclose
<1>3. run' \in [mode : {"none", Incremental, Full}, date : 0..NoReportDate,
                rest : SUBSET (ReportCodes \X AnyRow), failed : BOOLEAN,
                cut : SUBSET ReportCodes, came : SUBSET ReportCodes]
    BY <1>2 DEF ReportTypes
<1>4. /\ run'.mode = run.mode /\ run'.date = run.date /\ run'.rest = run.rest
      /\ run'.failed = run.failed /\ run'.cut = run.cut /\ run.came \subseteq run'.came
      /\ run.mode = Incremental => c \in run'.came
    BY <1>2 DEF ReportTypes, Running, Incremental
<1>5. /\ row \in AnyRow /\ disclosed'[c] = row
      /\ \A u \in ReportCodes : u # c => disclosed'[u] = disclosed[u]
    BY <1>1, RowFacts DEF ReportTypes, Rows
<1>6. ReportTypes'
    BY <1>1, <1>3, <1>4, <1>5 DEF ReportTypes, Running
<1>7. \A u \in ReportCodes : disclosed'[u].priority >= disclosed[u].priority
    <2>1. \A u \in ReportCodes : disclosed[u].priority \in Int
        BY ReportTypeFacts, RowFacts
    <2>2. QED
        BY <1>1, <1>5, <2>1
<1>8. ASSUME NEW u \in ReportCodes, NEW r \in AnyRow, NEW date, Due(r, u, date)
      PROVE  Due(r, u, date)'
    <2>1. /\ disclosed[u].priority \in Int /\ disclosed'[u].priority \in Int
          /\ r.priority \in Int
        BY <1>6, ReportTypeFacts, RowFacts DEF ReportTypes
    <2>2. r # NoRow /\ r.date <= date /\ r.priority <= disclosed'[u].priority
        BY <1>7, <1>8, <2>1 DEF Due
    <2>3. QED
        BY <2>2 DEF Due
<1>9. \A u \in ReportCodes : Behind(u)' => (u # c /\ Behind(u))
    BY <1>1, <1>5 DEF Behind
<1>10. ASSUME run.mode = Incremental, NEW u \in ReportCodes, Planned(u)'
       PROVE  u # c /\ Planned(u)
    BY <1>1, <1>4, <1>5, <1>10 DEF Planned, InWindow, TriggerStart
<1>11. PendingIsDue'
    <2>1. \A u \in ReportCodes : pendingRows[u] \in AnyRow
        BY ReportTypeFacts
    <2>2. \A u \in ReportCodes : pendingRows[u] # NoRow =>
            /\ pendingRows[u].date <= today /\ pendingRows[u].priority <= disclosed'[u].priority
        BY <1>8, <2>1 DEF PendingIsDue, Due
    <2>3. QED
        BY <1>1, <2>2 DEF PendingIsDue, Due
<1>12. PendingLasts'
    BY <1>1, <1>5, <1>9 DEF PendingLasts, Lasts
<1>13. TasksAreDue'
    <2> SUFFICES ASSUME run.mode = Incremental, NEW task \in run.rest
                 PROVE  LET u == task[1] IN
                        /\ Due(task[2], u, run.date)'
                        /\ Behind(u)' => Lasts(task[2], u)'
                        /\ Planned(u)' => (Lasts(task[2], u)' /\ task[2].priority >= disclosed'[u].priority)
        BY <1>4 DEF TasksAreDue
    <2>1. task[1] \in ReportCodes /\ task[2] \in AnyRow
        BY ReportTypeFacts
    <2>2. Due(task[2], task[1], run.date)
        BY DEF TasksAreDue
    <2>3. task[2] # NoRow /\ task[2].date <= run.date /\ task[2].priority <= disclosed'[task[1]].priority
        BY <1>8, <2>1, <2>2 DEF Due
    <2>4. Due(task[2], task[1], run.date)'
        BY <1>4, <2>3 DEF Due
    <2>5. Behind(task[1])' => Lasts(task[2], task[1])'
        BY <1>5, <1>9, <2>1 DEF TasksAreDue, Lasts
    <2>6. Planned(task[1])' =>
            (Lasts(task[2], task[1])' /\ task[2].priority >= disclosed'[task[1]].priority)
        BY <1>5, <1>10, <2>1 DEF TasksAreDue, Lasts
    <2>7. QED
        BY <2>4, <2>5, <2>6
<1>14. NothingDropped'
    BY <1>1, <1>4, <1>5, <1>10 DEF NothingDropped, Lasts
<1>15. QED
    BY <1>6, <1>11, <1>12, <1>13, <1>14

LEMMA PlanFullStep ==
    ASSUME ReportInv, NEW codes \in SUBSET ReportCodes, PlanFull(codes)
    PROVE  ReportInv'
<1> USE DEF ReportInv
<1>1. /\ run' = [NoReportRun EXCEPT
                  !.mode = Full, !.date = today, !.rest = {<<c, NoRow>> : c \in codes}]
      /\ UNCHANGED <<today, disclosed, stored, pendingRows, lastEffective, lost>>
    BY DEF PlanFull
<1>2. today \in 0..NoReportDate /\ {<<c, NoRow>> : c \in codes} \subseteq ReportCodes \X AnyRow
    BY RowFacts DEF ReportTypes, Dates
<1>3. run' \in [mode : {"none", Incremental, Full}, date : 0..NoReportDate,
                rest : SUBSET (ReportCodes \X AnyRow), failed : BOOLEAN,
                cut : SUBSET ReportCodes, came : SUBSET ReportCodes]
    BY <1>1, <1>2 DEF NoReportRun
<1>4. run'.mode = Full /\ run'.date = today /\ today <= today
    BY <1>1, <1>2 DEF NoReportRun
<1>5. ReportTypes'
    BY <1>1, <1>3, <1>4 DEF ReportTypes, Running
<1>6. PendingIsDue' /\ PendingLasts'
    BY <1>1 DEF PendingIsDue, PendingLasts, Due, Behind, Lasts
<1>7. TasksAreDue' /\ NothingDropped'
    BY <1>4 DEF TasksAreDue, NothingDropped, Full, Incremental
<1>8. QED
    BY <1>5, <1>6, <1>7

\* A run plans the best row of each code: one found in the window or kept as pending.
LEMMA TriggerRowFacts ==
    ASSUME ReportInv, NEW c \in ReportCandidates(today)
    PROVE  LET row == TriggerRow(c, today) IN
           /\ row \in AnyRow /\ Due(row, c, today)
           /\ Behind(c) => Lasts(row, c)
           /\ c \in InWindow(today) => Lasts(row, c) /\ row.priority >= disclosed[c].priority
<1> DEFINE found == IF c \in InWindow(today) THEN disclosed[c] ELSE NoRow
           kept == IF c \in Active(today) THEN pendingRows[c] ELSE NoRow
           row == TriggerRow(c, today)
<1> USE DEF ReportInv
<1>1. /\ c \in ReportCodes /\ c \notin stored
      /\ c \in InWindow(today) \/ c \in Active(today)
    BY DEF ReportCandidates, Uncovered, InWindow, Active
<1>2. /\ disclosed[c] \in AnyRow /\ pendingRows[c] \in AnyRow /\ today \in Nat
      /\ disclosed[c].date \in Nat /\ disclosed[c].priority \in Int
      /\ pendingRows[c].date \in Nat /\ pendingRows[c].priority \in Int
      /\ today - Retention \in Int
    BY <1>1, ReportTypeFacts, RowFacts
<1>3. /\ c \in InWindow(today) => /\ disclosed[c] # NoRow /\ disclosed[c].date <= today
                                  /\ found = disclosed[c]
      /\ c \in Active(today) => /\ pendingRows[c] # NoRow /\ pendingRows[c].date <= today
                                /\ pendingRows[c].priority <= disclosed[c].priority
                                /\ kept = pendingRows[c]
      /\ c \notin InWindow(today) => found = NoRow
      /\ c \notin Active(today) => kept = NoRow
    BY <1>1 DEF InWindow, Active, PendingIsDue, Due
<1>4. found \in AnyRow /\ kept \in AnyRow
    BY <1>2, <1>3, RowFacts
<1>5. row = MergedRow(found, kept)
    BY DEF TriggerRow
<1> HIDE DEF found, kept, row
<1>6. /\ row \in AnyRow /\ row # NoRow /\ (row = found \/ row = kept)
      /\ row.priority >= found.priority
      /\ (found # NoRow /\ found.priority >= kept.priority) => row.date >= found.date
    BY <1>1, <1>3, <1>4, <1>5, MergedFacts
<1>7. Due(row, c, today)
    <2>1. row = disclosed[c] \/ row = pendingRows[c]
        BY <1>3, <1>6
    <2>2. CASE c \in InWindow(today) /\ row = found
        BY <1>2, <1>3, <1>6, <2>2 DEF Due
    <2>3. CASE c \in Active(today) /\ row = kept
        BY <1>2, <1>3, <1>6, <2>3 DEF Due
    <2>4. QED
        BY <1>3, <1>6, <2>2, <2>3
<1>8. ASSUME c \in InWindow(today)
      PROVE  Lasts(row, c) /\ row.priority >= disclosed[c].priority
    <2>1. found.priority >= kept.priority
        <3>1. CASE c \in Active(today)
            BY <1>2, <1>3, <1>8, <3>1
        <3>2. CASE c \notin Active(today)
            <4>1. kept.priority = 0 /\ found.priority \in 0..3
                BY <1>3, <1>4, <3>2, RowFacts
            <4>2. QED
                BY <4>1
        <3>3. QED
            BY <3>1, <3>2
    <2>2. QED
        BY <1>3, <1>6, <1>8, <2>1 DEF Lasts
<1>9. ASSUME Behind(c)
      PROVE  Lasts(row, c)
    <2>1. Lasts(pendingRows[c], c)
        BY <1>1, <1>9 DEF PendingLasts
    <2>2. CASE c \in InWindow(today)
        BY <1>8, <2>2
    <2>3. CASE c \notin InWindow(today)
        BY <1>1, <1>3, <1>6, <2>1, <2>3 DEF Lasts
    <2>4. QED
        BY <2>2, <2>3
<1>10. QED
    BY <1>6, <1>7, <1>8, <1>9 DEF row

LEMMA PlanStep ==
    ASSUME ReportInv, NEW codes \in SUBSET ReportCodes, PlanIncremental(codes)
    PROVE  ReportInv'
<1> DEFINE tasks == {<<c, TriggerRow(c, today)>> : c \in codes}
<1> USE DEF ReportInv
<1>1. /\ codes \subseteq ReportCandidates(today)
      /\ pendingRows' = [c \in ReportCodes |-> IF c \in Active(today) THEN pendingRows[c] ELSE NoRow]
      /\ run' = [NoReportRun EXCEPT !.mode = Incremental, !.date = today,
                    !.cut = ReportCandidates(today) \ codes, !.rest = tasks]
      /\ UNCHANGED <<today, disclosed, stored, lastEffective, lost>>
    BY DEF PlanIncremental
<1>2. tasks \subseteq ReportCodes \X AnyRow
    BY <1>1, TriggerRowFacts
<1>3. /\ today \in 0..NoReportDate /\ today \in Nat /\ today - Retention \in Int
      /\ ReportCandidates(today) \subseteq ReportCodes
    BY ReportTypeFacts, RowFacts DEF ReportCandidates, InWindow, Active
<1>4. \A task \in tasks : /\ task[1] \in codes /\ task[2] = TriggerRow(task[1], today)
    OBVIOUS
<1>5. \A c \in codes : <<c, TriggerRow(c, today)>> \in tasks
    OBVIOUS
<1> HIDE DEF tasks
<1>6. run' \in [mode : {"none", Incremental, Full}, date : 0..NoReportDate,
                rest : SUBSET (ReportCodes \X AnyRow), failed : BOOLEAN,
                cut : SUBSET ReportCodes, came : SUBSET ReportCodes]
    BY <1>1, <1>2, <1>3 DEF NoReportRun
<1>7. /\ run'.mode = Incremental /\ run'.date = today /\ run'.rest = tasks
      /\ run'.cut = ReportCandidates(today) \ codes /\ run'.came = {}
    BY <1>1 DEF NoReportRun
<1>8. \A c \in ReportCodes : pendingRows'[c] = IF c \in Active(today) THEN pendingRows[c] ELSE NoRow
    BY <1>1
<1>9. ReportTypes'
    <2>1. pendingRows' \in [ReportCodes -> AnyRow]
        BY <1>1, RowFacts, ReportTypeFacts
    <2>2. QED
        BY <1>1, <1>3, <1>6, <1>7, <2>1 DEF ReportTypes, Running
<1>10. PendingIsDue'
    BY <1>1, <1>8 DEF PendingIsDue, Due
<1>11. PendingLasts'
    <2> SUFFICES ASSUME NEW c \in ReportCodes \ stored, Behind(c)
                 PROVE  pendingRows'[c] = pendingRows[c] /\ Lasts(pendingRows[c], c)
        BY <1>1 DEF PendingLasts, Behind, Lasts
    <2>1. Lasts(pendingRows[c], c) /\ disclosed[c].date >= today - Retention
        BY DEF PendingLasts, Behind
    <2>2. pendingRows[c].date <= today
        BY <2>1 DEF PendingIsDue, Due, Lasts
    <2>3. pendingRows[c].date >= today - Retention
        <3>1. pendingRows[c].date \in Nat /\ disclosed[c].date \in Nat
            BY ReportTypeFacts, RowFacts
        <3>2. QED
            BY <1>3, <2>1, <3>1 DEF Lasts
    <2>4. QED
        BY <1>8, <2>1, <2>2, <2>3 DEF Active, Lasts
<1>12. \A c \in ReportCodes : Planned(c)' <=> c \in InWindow(today)
    BY <1>1, <1>7 DEF Planned, InWindow, TriggerStart
<1>13. TasksAreDue'
    <2> SUFFICES ASSUME NEW task \in tasks
                 PROVE  LET c == task[1] IN
                        /\ Due(task[2], c, today)
                        /\ Behind(c) => Lasts(task[2], c)
                        /\ c \in InWindow(today) =>
                              Lasts(task[2], c) /\ task[2].priority >= disclosed[c].priority
        <3>1. \A task \in tasks : task[1] \in ReportCodes
            BY <1>4
        <3>2. QED
            BY <1>1, <1>7, <1>12, <3>1 DEF TasksAreDue, Due, Behind, Lasts
    <2>1. QED
        BY <1>1, <1>4, TriggerRowFacts
<1>14. NothingDropped'
    <2> SUFFICES ASSUME NEW c \in ReportCodes \ (stored \cup (ReportCandidates(today) \ codes)),
                        c \in InWindow(today)
                 PROVE  \E task \in tasks : task[1] = c
        BY <1>1, <1>7, <1>12 DEF NothingDropped
    <2>1. c \in codes
        BY DEF ReportCandidates, Uncovered
    <2>2. QED
        BY <1>5, <2>1
<1>15. QED
    BY <1>9, <1>10, <1>11, <1>13, <1>14

LEMMA RecordStep ==
    ASSUME ReportInv, NEW task \in run.rest, NEW present \in BOOLEAN,
           RecordReport(task, present)
    PROVE  ReportInv'
<1> USE DEF ReportInv
<1>1. /\ stored' = IF present THEN stored \cup {task[1]} ELSE stored
      /\ pendingRows' = IF run.mode = Incremental THEN KeepRow(task, present) ELSE pendingRows
      /\ run' = [run EXCEPT !.rest = @ \ {task}]
      /\ UNCHANGED <<today, disclosed, lastEffective, lost>>
    BY DEF RecordReport
<1>2. task[1] \in ReportCodes /\ task[2] \in AnyRow
    BY ReportTypeFacts
<1>3. /\ run' \in [mode : {"none", Incremental, Full}, date : 0..NoReportDate,
                   rest : SUBSET (ReportCodes \X AnyRow), failed : BOOLEAN,
                   cut : SUBSET ReportCodes, came : SUBSET ReportCodes]
      /\ run'.mode = run.mode /\ run'.date = run.date /\ run'.rest = run.rest \ {task}
      /\ run'.failed = run.failed /\ run'.cut = run.cut /\ run'.came = run.came
    BY <1>1 DEF ReportTypes
<1>4. \A c \in ReportCodes : (Planned(c)' <=> Planned(c)) /\ (Behind(c)' <=> Behind(c))
    BY <1>1, <1>3 DEF Planned, InWindow, TriggerStart, Behind
<1>5. \A u \in run.rest : u[1] \in ReportCodes
    BY ReportTypeFacts
<1>6. stored' \subseteq ReportCodes /\ stored \subseteq stored'
    BY <1>1, <1>2 DEF ReportTypes
<1>7. TasksAreDue'
    BY <1>1, <1>3, <1>4, <1>5 DEF TasksAreDue, Due, Lasts
<1>8. CASE run.mode # Incremental
    <2>1. pendingRows' = pendingRows
        BY <1>1, <1>8
    <2>2. ReportTypes'
        BY <1>1, <1>3, <1>6, <2>1 DEF ReportTypes, Running
    <2>3. PendingIsDue' /\ PendingLasts'
        BY <1>1, <1>4, <1>6, <2>1 DEF PendingIsDue, PendingLasts, Due, Lasts
    <2>4. NothingDropped'
        BY <1>3, <1>8 DEF NothingDropped
    <2>5. QED
        BY <1>7, <2>2, <2>3, <2>4
<1>9. CASE run.mode = Incremental
    <2> DEFINE code == task[1]
               old == pendingRows[code]
    <2>1. /\ pendingRows' = [pendingRows EXCEPT ![code] =
                                IF present THEN NoRow ELSE MergedRow(task[2], pendingRows[code])]
          /\ old \in AnyRow
        BY <1>1, <1>2, <1>9, ReportTypeFacts DEF KeepRow
    <2>2. /\ pendingRows'[code] = IF present THEN NoRow ELSE MergedRow(task[2], old)
          /\ \A c \in ReportCodes : c # code => pendingRows'[c] = pendingRows[c]
        BY <1>2, <2>1 DEF ReportTypes
    <2>3. /\ Due(task[2], code, run.date) /\ (Behind(code) => Lasts(task[2], code))
          /\ Planned(code) => Lasts(task[2], code) /\ task[2].priority >= disclosed[code].priority
        BY <1>9 DEF TasksAreDue
    <2>4. Due(task[2], code, today)
        <3>1. run.date <= today /\ run.date \in Nat /\ today \in Nat /\ task[2].date \in Nat
            BY <1>2, <1>9, ReportTypeFacts, RowFacts DEF ReportTypes, Running, Incremental
        <3>2. QED
            BY <2>3, <3>1 DEF Due
    <2>5. /\ MergedRow(task[2], old) \in AnyRow /\ MergedRow(task[2], old) # NoRow
          /\ MergedRow(task[2], old) = task[2] \/ MergedRow(task[2], old) = old
          /\ task[2].priority >= old.priority => MergedRow(task[2], old).date >= task[2].date
        BY <1>2, <2>1, <2>4, MergedFacts DEF Due
    <2>6. ReportTypes'
        <3>1. pendingRows' \in [ReportCodes -> AnyRow]
            BY <1>2, <2>1, <2>5, RowFacts DEF ReportTypes
        <3>2. QED
            BY <1>1, <1>3, <1>6, <3>1 DEF ReportTypes, Running
    <2>7. PendingIsDue'
        <3>1. ASSUME ~ present PROVE Due(MergedRow(task[2], old), code, today)
            BY <1>2, <2>4, <2>5 DEF PendingIsDue
        <3>2. \A c \in ReportCodes : pendingRows'[c] # NoRow => Due(pendingRows'[c], c, today)
            BY <2>2, <3>1 DEF PendingIsDue
        <3>3. QED
            BY <1>1, <3>2 DEF PendingIsDue, Due
    <2>8. PendingLasts'
        <3> SUFFICES ASSUME NEW c \in ReportCodes \ stored', Behind(c)
                     PROVE  Lasts(pendingRows'[c], c)
            BY <1>1, <1>4 DEF PendingLasts, Lasts
        <3>1. c \notin stored /\ Lasts(pendingRows[c], c)
            BY <1>6 DEF PendingLasts
        <3>2. CASE c # code
            BY <2>2, <3>1, <3>2
        <3>3. CASE c = code
            <4>1. ~ present
                BY <1>1, <3>3
            <4>2. pendingRows'[c] = MergedRow(task[2], old) /\ Lasts(old, c) /\ Lasts(task[2], c)
                BY <2>2, <2>3, <3>1, <3>3, <4>1
            <4>3. QED
                BY <2>5, <4>2 DEF Lasts
        <3>4. QED
            BY <3>2, <3>3
    <2>9. NothingDropped'
        <3> SUFFICES ASSUME ~ run.failed, NEW c \in ReportCodes \ (stored' \cup run.cut), Planned(c),
                            ~ \E u \in run.rest \ {task} : u[1] = c
                     PROVE  Lasts(pendingRows'[c], c)
            BY <1>1, <1>3, <1>4, <1>9 DEF NothingDropped, Lasts
        <3>1. CASE c # code
            <4>1. c \notin stored /\ ~ \E u \in run.rest : u[1] = c
                BY <1>6, <3>1
            <4>2. QED
                BY <1>9, <2>2, <3>1, <4>1 DEF NothingDropped
        <3>2. CASE c = code
            <4>1. ~ present
                BY <1>1, <3>2
            <4>2. Lasts(task[2], code) /\ task[2].priority >= disclosed[code].priority
                BY <2>3, <3>2
            <4>3. task[2].priority >= old.priority
                <5>1. /\ task[2].priority \in Int /\ old.priority \in 0..3
                      /\ disclosed[code].priority \in Int
                    BY <1>2, <2>1, ReportTypeFacts, RowFacts
                <5>2. CASE old = NoRow
                    <6>1. old.priority = 0 /\ task[2].priority \in 0..3
                        BY <1>2, <5>2, RowFacts
                    <6>2. QED
                        BY <6>1
                <5>3. CASE old # NoRow
                    <6>1. old.priority <= disclosed[code].priority
                        BY <1>2, <5>3 DEF PendingIsDue, Due
                    <6>2. QED
                        BY <4>2, <5>1, <6>1
                <5>4. QED
                    BY <5>2, <5>3
            <4>4. /\ MergedRow(task[2], old).date \in Int /\ task[2].date \in Int
                  /\ disclosed[code].date \in Int
                BY <1>2, <2>5, ReportTypeFacts, RowFacts
            <4>5. QED
                BY <2>2, <2>5, <3>2, <4>1, <4>2, <4>3, <4>4 DEF Lasts
        <3>3. QED
            BY <3>1, <3>2
    <2>10. QED
        BY <1>7, <2>6, <2>7, <2>8, <2>9
<1>10. QED
    BY <1>8, <1>9

LEMMA ReportFailsStep ==
    ASSUME ReportInv, NEW task \in run.rest, NEW written \in BOOLEAN, ReportFails(task, written)
    PROVE  ReportInv'
<1> USE DEF ReportInv
<1>1. /\ stored' = IF written THEN stored \cup {task[1]} ELSE stored
      /\ run' = [run EXCEPT !.rest = @ \ {task}, !.failed = TRUE]
      /\ UNCHANGED <<today, disclosed, pendingRows, lastEffective, lost>>
    BY DEF ReportFails
<1>2. \A u \in run.rest : u[1] \in ReportCodes
    BY ReportTypeFacts
<1>3. /\ run' \in [mode : {"none", Incremental, Full}, date : 0..NoReportDate,
                   rest : SUBSET (ReportCodes \X AnyRow), failed : BOOLEAN,
                   cut : SUBSET ReportCodes, came : SUBSET ReportCodes]
      /\ run'.mode = run.mode /\ run'.date = run.date /\ run'.rest = run.rest \ {task}
      /\ run'.failed /\ run'.came = run.came
    BY <1>1 DEF ReportTypes
<1>4. \A c \in ReportCodes : (Planned(c)' <=> Planned(c)) /\ (Behind(c)' <=> Behind(c))
    BY <1>1, <1>3 DEF Planned, InWindow, TriggerStart, Behind
<1>5. stored' \subseteq ReportCodes /\ stored \subseteq stored'
    BY <1>1, <1>2 DEF ReportTypes
<1>6. ReportTypes'
    BY <1>1, <1>3, <1>5 DEF ReportTypes, Running
<1>7. PendingIsDue' /\ PendingLasts'
    BY <1>1, <1>4, <1>5 DEF PendingIsDue, PendingLasts, Due, Lasts
<1>8. TasksAreDue' /\ NothingDropped'
    BY <1>1, <1>2, <1>3, <1>4 DEF TasksAreDue, NothingDropped, Due, Lasts
<1>9. QED
    BY <1>6, <1>7, <1>8

\* The end of a run, whatever it was.
LEMMA NoRunStep ==
    ASSUME ReportInv, run' = NoReportRun, ReportTypes', PendingIsDue', PendingLasts'
    PROVE  ReportInv'
BY DEF ReportInv, NoReportRun, TasksAreDue, NothingDropped, Incremental

LEMMA NoRunTypes ==
    NoReportRun \in [mode : {"none", Incremental, Full}, date : 0..NoReportDate,
                     rest : SUBSET (ReportCodes \X AnyRow), failed : BOOLEAN,
                     cut : SUBSET ReportCodes, came : SUBSET ReportCodes]
    /\ NoReportRun.mode = "none"
BY RowFacts DEF NoReportRun

LEMMA ReportCompletedStep == ReportInv /\ ReportCompleted => ReportInv'
<1> SUFFICES ASSUME ReportInv, ReportCompleted PROVE ReportInv'
    OBVIOUS
<1> USE DEF ReportInv
<1>1. /\ run.rest = {} /\ run' = NoReportRun
      /\ lastEffective' = IF MovesOn THEN today ELSE lastEffective
      /\ lost' = IF MovesOn THEN lost \cup LeftBehind ELSE lost
      /\ UNCHANGED <<today, disclosed, stored, pendingRows>>
    BY DEF ReportCompleted
<1>2. /\ today \in 0..today /\ today \in Nat /\ today <= MaxDate /\ run.date \in Nat
      /\ lastEffective \in Nat
    BY ReportTypeFacts
<1>3. ReportTypes'
    BY <1>1, <1>2, NoRunTypes DEF ReportTypes, Running
<1>4. PendingIsDue'
    BY <1>1 DEF PendingIsDue, Due
<1>5. PendingLasts'
    <2>1. CASE ~ MovesOn
        BY <1>1, <2>1 DEF PendingLasts, Behind, Lasts
    <2>2. CASE MovesOn
        <3> SUFFICES ASSUME NEW c \in ReportCodes \ stored, c \notin lost, c \notin LeftBehind,
                            disclosed[c] # NoRow, disclosed[c].date < today,
                            disclosed[c].date >= today - Retention
                     PROVE  Lasts(pendingRows[c], c)
            BY <1>1, <2>2 DEF PendingLasts, Behind, Lasts
        <3>1. disclosed[c].date \in Nat
            BY ReportTypeFacts, RowFacts
        <3>2. CASE lastEffective # NoReportDate /\ disclosed[c].date < lastEffective
            BY <3>2 DEF PendingLasts, Behind
        <3>3. CASE ~ (lastEffective # NoReportDate /\ disclosed[c].date < lastEffective)
            <4>1. /\ c \notin run.cut /\ c \notin run.came /\ ~ (run.date < disclosed[c].date)
                  /\ lastEffective = NoReportDate => ~ (disclosed[c].date < run.date - ReportLookback)
                BY DEF LeftBehind
            <4>2. disclosed[c].date >= TriggerStart(run.date)
                <5>1. ReportLookback \in Nat
                    BY ReportAssumption
                <5>2. CASE lastEffective = NoReportDate
                    BY <1>2, <3>1, <4>1, <5>1, <5>2 DEF TriggerStart
                <5>3. CASE lastEffective # NoReportDate
                    BY <1>2, <3>1, <3>3, <5>1, <5>3 DEF TriggerStart, Smaller
                <5>4. QED
                    BY <5>2, <5>3
            <4>3. disclosed[c].date <= run.date
                BY <1>2, <3>1, <4>1
            <4>4. Planned(c)
                BY <4>1, <4>2, <4>3 DEF Planned, InWindow
            <4>5. QED
                BY <1>1, <2>2, <4>1, <4>4 DEF NothingDropped, MovesOn
        <3>4. QED
            BY <3>2, <3>3
    <2>3. QED
        BY <2>1, <2>2
<1>6. QED
    BY <1>1, <1>3, <1>4, <1>5, NoRunStep

LEMMA ReportStopsStep == ASSUME ReportInv, NEW file, ReportStops(file) PROVE ReportInv'
<1> USE DEF ReportInv
<1>1. /\ run' = NoReportRun
      /\ UNCHANGED <<today, disclosed, stored, pendingRows, lastEffective, lost>>
    BY DEF ReportStops
<1>2. ReportTypes'
    BY <1>1, NoRunTypes DEF ReportTypes, Running
<1>3. PendingIsDue' /\ PendingLasts'
    BY <1>1 DEF PendingIsDue, PendingLasts, Due, Behind, Lasts
<1>4. QED
    BY <1>1, <1>2, <1>3, NoRunStep

LEMMA ReportStep == ReportInv /\ [ReportNext]_reportVars => ReportInv'
<1> SUFFICES ASSUME ReportInv, [ReportNext]_reportVars PROVE ReportInv'
    OBVIOUS
<1>1. CASE UNCHANGED reportVars
    <2>1. UNCHANGED <<today, disclosed, stored, pendingRows, lastEffective, run, lost>>
        BY <1>1 DEF reportVars
    <2>2. ReportTypes' /\ PendingIsDue' /\ PendingLasts'
        BY <2>1 DEF ReportInv, ReportTypes, Running, PendingIsDue, PendingLasts, Due, Behind, Lasts
    <2>3. TasksAreDue' /\ NothingDropped'
        BY <2>1 DEF ReportInv, TasksAreDue, NothingDropped, Due, Behind, Lasts, Planned, InWindow,
                    TriggerStart
    <2>4. QED
        BY <2>2, <2>3 DEF ReportInv
<1>2. CASE ReportNext
    BY <1>2, TodayStep, DiscloseStep, PlanStep, PlanFullStep, RecordStep, ReportFailsStep,
       ReportCompletedStep, ReportStopsStep
    DEF ReportNext
<1>3. QED
    BY <1>1, <1>2

\* Every report due within the retention and not stored is a candidate of the next run over
\* all codes (financial_report_sina.py:524), for any lookback, retention and number of
\* codes: PendingLasts keeps the row of a code behind the last run in the pending file, and
\* NothingDropped is why a run may move that date on.
THEOREM NoReportIsForgotten == ReportSpec => []NoReportForgotten
<1>1. ReportInv => NoReportForgotten
    <2> SUFFICES ASSUME ReportInv, lastEffective # NoReportDate, NEW c \in ReportCodes \ lost,
                        disclosed[c] # NoRow, c \notin stored, disclosed[c].date <= today,
                        disclosed[c].date >= today - Retention
                 PROVE  c \in InWindow(today) \cup Active(today)
        BY DEF NoReportForgotten, ReportCandidates, Uncovered
    <2>1. /\ today \in Nat /\ lastEffective \in Nat /\ disclosed[c].date \in Nat
          /\ pendingRows[c].date \in Nat /\ Retention \in Nat /\ ReportLookback \in Nat
        BY ReportTypeFacts, RowFacts, ReportAssumption DEF ReportInv
    <2>2. CASE disclosed[c].date >= lastEffective
        BY <2>1, <2>2 DEF InWindow, TriggerStart, Smaller
    <2>3. CASE disclosed[c].date < lastEffective
        <3>1. Lasts(pendingRows[c], c)
            BY <2>3 DEF ReportInv, PendingLasts, Behind
        <3>2. pendingRows[c].date <= today
            BY <3>1 DEF ReportInv, PendingIsDue, Due, Lasts
        <3>3. QED
            BY <2>1, <3>1, <3>2 DEF Lasts, Active
    <2>4. QED
        BY <2>1, <2>2, <2>3
<1>2. QED
    BY <1>1, ReportInitially, ReportStep, PTL DEF ReportSpec

=============================================================================
