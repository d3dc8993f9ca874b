------------------------- MODULE DerivedBuildProofs -------------------------
(***************************************************************************)
(* Proofs about DerivedBuild, for every set of securities, sources and     *)
(* contents.  TypeInv needs nothing of the schedule; Consistent holds when *)
(* builds and source writes are ordered as the daily workflow orders them. *)
(***************************************************************************)
EXTENDS DerivedBuild, TLAPS

Building == pc \notin {"idle", "master", "plan"}

Staging == pc \in {"read", "sign", "swap", "promote", "record"}

\* What is being built is listed, and is staged under its own security.
Shape ==
    /\ DOMAIN staged = Securities /\ DOMAIN aside = Securities
    /\ \A s \in Securities :
        /\ aside[s] \in MaybeProvenance(s)
        /\ staged[s] # Nothing =>
            /\ Staging /\ s \in Listed
            /\ staged[s].from \in Provenance(s) /\ staged[s].claim \in Provenance(s)
    /\ pc = "sign" => made.sec \in Listed /\ made.from \in Provenance(made.sec)
    /\ Building => todo \subseteq Listed
    /\ unrec # {} => pc \in {"record", "forget"}
    /\ pc = "record" => \A s \in unrec : staged[s] # Nothing
    /\ pc = "read" /\ mode # "full" => \A s \in Securities : staged[s] = Nothing

TypeInv == TypeOK /\ Shape

\* A ledger row tells the content of its file, unless it is being written.
LedgerTrue ==
    \A x \in Sources \ (writing \cup owed) : entry[x] \in {Nothing, content[x]}

\* No source changes under a build, and its listing of the sources is current.
Quiet ==
    /\ pc # "idle" => SourcesAtRest
    /\ Building => cache = {x \in Sources : content[x] # Nothing}

\* What is read and staged is what the sources and the master say now.
StagedNow ==
    /\ pc = "sign" => made.from = Now(made.sec) /\ Pairs(made.sec) # {}
    /\ \A s \in Securities : staged[s] # Nothing =>
        staged[s].from = Now(s) /\ staged[s].claim = Now(s) /\ Pairs(s) # {}

Agree(s, p) == p # Nothing /\ sig[s] \in Provenance(s) => s \in torn \/ p = sig[s]

\* A partition on disk, or set aside by a swap, is the one its signature says.
SigTrue ==
    /\ \A s \in Securities : ~(pc = "record" /\ s \in unrec) => Agree(s, part[s])
    /\ pc = "promote" => \A s \in Unit : part[s] = Nothing /\ Agree(s, aside[s])
    /\ pc = "record" => \A s \in Securities : staged[s] # Nothing => part[s] = staged[s].from

Consistent == LedgerTrue /\ Quiet /\ StagedNow /\ SigTrue

\* A full build keeps track of every security it has to build.
FullBuild ==
    /\ pc = "cleanup" => mode = "full"
    /\ mode = "full" =>
        /\ pc \in {"read", "sign", "promote", "record"} =>
            \A s \in Listed : Pairs(s) # {} =>
                s \in todo \/ staged[s] # Nothing \/ (pc = "sign" /\ made.sec = s)
        /\ pc \in {"promote", "record", "cleanup"} => todo = {}
        /\ pc = "record" =>
            \A s \in Securities : IF staged[s] = Nothing THEN part[s] = Nothing
                                  ELSE s \in unrec \/ sig[s] = part[s]
        /\ pc = "cleanup" =>
            \A s \in Securities :
                /\ part[s] = IF s \in Listed THEN Wanted(s) ELSE Nothing
                /\ part[s] # Nothing => sig[s] = part[s]
        /\ pc \in {"record", "cleanup"} => torn = {}
        /\ pc \notin {"swap", "forget"}

-----------------------------------------------------------------------------
(* Types                                                                   *)

LEMMA ListedRow == ASSUME TypeOK, NEW s \in Listed PROVE s \in Securities /\ master[s] \in Rows
    BY DEF TypeOK, Listed

LEMMA NowType == ASSUME TypeOK, NEW s \in Listed PROVE Now(s) \in Provenance(s)
    BY ListedRow, ConstantsAssumption DEF TypeOK, Now, Provenance

LEMMA ReadableType == ASSUME TypeOK, NEW s \in Listed PROVE Readable(s) \in Provenance(s)
    BY ListedRow, ConstantsAssumption DEF TypeOK, Readable, Provenance

LEMMA SignatureType == ASSUME TypeOK, NEW s \in Listed PROVE Signature(s) \in Provenance(s)
    BY ListedRow, ConstantsAssumption DEF TypeOK, Signature, EntryOrRebuilt, Provenance

LEMMA RebuiltType ==
    ASSUME TypeOK, NEW S \in SUBSET Securities
    PROVE  RebuiltFor(S) \in [Sources -> Versions \cup {Nothing}]
    BY DEF TypeOK, RebuiltFor, EntryOrRebuilt

\* Nothing but the builder's own steps touches what the builder keeps.
LEMMA WriteType == ASSUME TypeInv, NEW x \in Sources, Write(x) PROVE TypeInv'
<1> USE ConstantsAssumption DEF sourceVars, ledgerVars, jobVars
<1>1. TypeOK'
    <2>1. CASE \E v \in Versions : WriteFile(x, v)
        BY <2>1 DEF TypeInv, TypeOK, WriteFile, MaybeProvenance
    <2>2. CASE WriteEntry(x) \/ WriteAgain(x) \/ RebuildEntry(x)
        BY <2>2 DEF TypeInv, TypeOK, WriteEntry, WriteAgain, RebuildEntry, MaybeProvenance
    <2>3. CASE WriterFails(x)
        BY <2>3 DEF TypeInv, TypeOK, WriterFails, MaybeProvenance
    <2>4. QED
        BY <2>1, <2>2, <2>3 DEF Write
<1>2. UNCHANGED <<master, ledgerVars, pc, jobVars>>
    BY DEF Write, WriteFile, WriteEntry, WriterFails, WriteAgain, RebuildEntry
<1>3. Shape'
    BY <1>2 DEF TypeInv, Shape, Staging, Building, Listed, MaybeProvenance, Provenance
<1>4. QED
    BY <1>1, <1>3 DEF TypeInv

LEMMA DerivedEntryType ==
    ASSUME TypeInv, NEW s \in Securities, RebuildDerivedEntry(s) PROVE TypeInv'
    BY ConstantsAssumption
    DEF RebuildDerivedEntry, TypeInv, TypeOK, Shape, Staging, Building, Listed,
        MaybeProvenance, sourceVars, jobVars

LEMMA StartType == ASSUME TypeInv, NEW m \in Modes, StartBuild(m) PROVE TypeInv'
    BY ConstantsAssumption
    DEF StartBuild, TypeInv, TypeOK, Shape, Staging, Building, Listed, Places,
        MaybeProvenance, sourceVars, ledgerVars

LEMMA MasterType == ASSUME TypeInv, BuildMaster PROVE TypeInv'
    BY ConstantsAssumption
    DEF BuildMaster, TypeInv, TypeOK, Shape, Staging, Building, Places,
        MaybeProvenance, sourceVars, ledgerVars, jobVars

LEMMA PlanType ==
    ASSUME TypeInv, PlanIncremental \/ PlanExplicit \/ PlanFull PROVE TypeInv'
<1> USE ConstantsAssumption DEF sourceVars, ledgerVars
<1>1. pc = "plan" /\ pc' = "read" /\ todo' \subseteq Listed
      /\ cache' \subseteq Sources /\ mode' \in {"incremental", "full", "explicit"}
    BY DEF PlanIncremental, PlanExplicit, PlanFull, Begin, TypeInv, TypeOK
<1>2. entry' \in [Sources -> Versions \cup {Nothing}]
    <2>1. {s \in Listed : part[s] # Nothing} \in SUBSET Securities
        BY DEF Listed
    <2>2. QED
        BY <2>1, RebuiltType DEF PlanIncremental, PlanExplicit, PlanFull, TypeInv, TypeOK
<1>3. UNCHANGED <<content, writing, owed, master, ledgerVars, made, staged, aside, unrec,
                  changes, faults>>
    BY DEF PlanIncremental, PlanExplicit, PlanFull
<1>4. TypeOK'
    BY <1>1, <1>2, <1>3 DEF TypeInv, TypeOK, Listed, Places, MaybeProvenance
<1>5. Shape'
    BY <1>1, <1>3 DEF TypeInv, Shape, Staging, Building, Listed, MaybeProvenance
<1>6. QED
    BY <1>4, <1>5 DEF TypeInv

LEMMA MaterializeType ==
    ASSUME TypeInv, NEW s \in Securities, Materialize(s) PROVE TypeInv'
<1>1. s \in Listed /\ made'.sec = s /\ made'.from \in Provenance(s)
    BY ReadableType DEF Materialize, TypeInv, Shape, Building
<1>2. QED
    BY <1>1
    DEF Materialize, TypeInv, TypeOK, Shape, Staging, Building, Listed, Places,
        MaybeProvenance, sourceVars, ledgerVars

LEMMA SignType == ASSUME TypeInv, SignAndStage PROVE TypeInv'
<1> DEFINE m == made.sec
<1>1. m \in Listed /\ m \in Securities /\ made.from \in Provenance(m)
    BY DEF SignAndStage, TypeInv, Shape, Listed
<1>2. Signature(m) \in Provenance(m)
    BY <1>1, SignatureType DEF TypeInv
<1>3. entry' \in [Sources -> Versions \cup {Nothing}]
    BY <1>1, RebuiltType DEF SignAndStage, TypeInv
<1>4. TypeOK'
    BY <1>3 DEF SignAndStage, TypeInv, TypeOK, Places, MaybeProvenance, ledgerVars
<1>5. /\ staged'[m] = [from |-> made.from, claim |-> Signature(m)]
      /\ \A s \in Securities \ {m} : staged'[s] = staged[s]
      /\ DOMAIN staged' = Securities
    BY <1>1 DEF SignAndStage, TypeInv, Shape
<1>6. Shape'
    BY <1>1, <1>2, <1>5
    DEF SignAndStage, TypeInv, Shape, Staging, Building, Listed, MaybeProvenance, ledgerVars
<1>7. QED
    BY <1>4, <1>6 DEF TypeInv

LEMMA RemoveType ==
    ASSUME TypeInv, NEW s \in Securities, MaterializeEmpty(s) PROVE TypeInv'
<1>1. CASE mode = "full"
    BY <1>1
    DEF MaterializeEmpty, TypeInv, TypeOK, Shape, Staging, Building, Listed,
        MaybeProvenance, sourceVars
<1>2. CASE mode # "full"
    BY <1>2, ConstantsAssumption
    DEF MaterializeEmpty, TypeInv, TypeOK, Shape, Staging, Building, Listed, Places,
        MaybeProvenance, sourceVars
<1>3. QED
    BY <1>1, <1>2

LEMMA ForgetType == ASSUME TypeInv, Forget PROVE TypeInv'
    BY ConstantsAssumption
    DEF Forget, TypeInv, TypeOK, Shape, Staging, Building, Listed, Places,
        MaybeProvenance, sourceVars

LEMMA SwapAwayType == ASSUME TypeInv, SwapAway PROVE TypeInv'
    BY ConstantsAssumption
    DEF SwapAway, TypeInv, TypeOK, Shape, Staging, Building, Listed, Places,
        MaybeProvenance, sourceVars

LEMMA PromoteType == ASSUME TypeInv, Promote PROVE TypeInv'
    BY ConstantsAssumption
    DEF Promote, NoneOf, TypeInv, TypeOK, Shape, Staging, Building, Listed, Places,
        MaybeProvenance, sourceVars

LEMMA RecordType == ASSUME TypeInv, NEW s \in Securities, Record(s) PROVE TypeInv'
<1>1. staged[s].claim \in Provenance(s)
    BY DEF Record, TypeInv, Shape
<1>2. QED
    BY <1>1
    DEF Record, TypeInv, TypeOK, Shape, Staging, Building, Listed, Places,
        MaybeProvenance, sourceVars

LEMMA RecordedType == ASSUME TypeInv, Recorded PROVE TypeInv'
    BY DEF Recorded, NoneOf, TypeInv, TypeOK, Shape, Staging, Building, Listed, Places,
           MaybeProvenance, sourceVars, ledgerVars

LEMMA CleanUpType == ASSUME TypeInv, NEW s \in Securities, CleanUp(s) PROVE TypeInv'
    BY DEF CleanUp, TypeInv, TypeOK, Shape, Staging, Building, Listed, Places,
           MaybeProvenance, sourceVars, jobVars

LEMMA FinishType == ASSUME TypeInv, FinishBuild PROVE TypeInv'
    BY ConstantsAssumption
    DEF FinishBuild, DropLocals, NoneOf, TypeInv, TypeOK, Shape, Staging, Building, Listed,
        Places, MaybeProvenance, sourceVars, ledgerVars

LEMMA PromoteFailsType == ASSUME TypeInv, PromoteFails PROVE TypeInv'
    BY ConstantsAssumption
    DEF PromoteFails, DropLocals, NoneOf, TypeInv, TypeOK, Shape, Staging, Building, Listed, Places,
        MaybeProvenance, sourceVars

LEMMA BuildFailsType == ASSUME TypeInv, BuildFails PROVE TypeInv'
    BY ConstantsAssumption
    DEF BuildFails, DropLocals, NoneOf, TypeInv, TypeOK, Shape, Staging, Building, Listed, Places,
        MaybeProvenance, sourceVars

LEMMA InitType == Init => TypeInv
    BY ConstantsAssumption
    DEF Init, NoneOf, TypeInv, TypeOK, Shape, Staging, Building, Listed, Places,
        MaybeProvenance

LEMMA StepType == TypeInv /\ [Next]_vars => TypeInv'
<1> SUFFICES ASSUME TypeInv, [Next]_vars PROVE TypeInv'
    OBVIOUS
<1>1. ASSUME NEW x \in Sources, Write(x) PROVE TypeInv'
    BY <1>1, WriteType
<1>2. ASSUME NEW s \in Securities, RebuildDerivedEntry(s) PROVE TypeInv'
    BY <1>2, DerivedEntryType
<1>3. ASSUME NEW m \in Modes, StartBuild(m) PROVE TypeInv'
    BY <1>3, StartType
<1>4. CASE BuildStep
    <2>1. ASSUME NEW s \in Securities, BuildOne(s) PROVE TypeInv'
        BY <2>1, MaterializeType, RemoveType, RecordType, CleanUpType DEF BuildOne
    <2>2. QED
        BY <1>4, <2>1, MasterType, PlanType, SignType, ForgetType, SwapAwayType,
           PromoteType, RecordedType, FinishType DEF BuildStep
<1>5. CASE PromoteFails \/ BuildFails
    BY <1>5, PromoteFailsType, BuildFailsType
<1>6. CASE UNCHANGED vars
    BY <1>6
    DEF vars, sourceVars, ledgerVars, jobVars, TypeInv, TypeOK, Shape, Staging, Building,
        Listed, MaybeProvenance
<1>7. QED
    BY <1>1, <1>2, <1>3, <1>4, <1>5, <1>6 DEF Next

\* Every partition and every signed ledger row belongs to its own security,
\* however builds and writers interleave and wherever they fail.
THEOREM TypeCorrect == Spec => []TypeOK
<1>1. TypeInv => TypeOK
    BY DEF TypeInv
<1>2. QED
    BY <1>1, InitType, StepType, PTL DEF Spec

-----------------------------------------------------------------------------
(* The signatures, when builds and source writes are ordered               *)

\* With no source half written the ledger and the files say the same.
LEMMA SignatureNow ==
    ASSUME TypeOK, LedgerTrue, SourcesAtRest, NEW s \in Securities
    PROVE  Signature(s) = Now(s)
    BY ConstantsAssumption
    DEF TypeOK, LedgerTrue, SourcesAtRest, Signature, Now, EntryOrRebuilt

LEMMA RebuiltTrue ==
    ASSUME TypeOK, LedgerTrue, NEW S \in SUBSET Securities, entry' = RebuiltFor(S),
           UNCHANGED <<content, writing, owed>>
    PROVE  LedgerTrue'
    BY DEF TypeOK, LedgerTrue, RebuiltFor, EntryOrRebuilt

\* What only changes the ledger rows of sources leaves the derived data agreed.
LEMMA WriteConsistent ==
    ASSUME Orchestrated, TypeInv, Consistent, NEW x \in Sources, Write(x)
    PROVE  Consistent'
<1> USE DEF sourceVars, ledgerVars, jobVars
<1>1. pc = "idle"
    BY DEF Write, WriteFile, WriteEntry, WriterFails, WriteAgain, RebuildEntry, MayWrite,
           Consistent, Quiet, SourcesAtRest
<1>2. UNCHANGED <<master, ledgerVars, pc, jobVars>>
    BY DEF Write, WriteFile, WriteEntry, WriterFails, WriteAgain, RebuildEntry
<1>3. LedgerTrue'
    <2> USE DEF TypeInv, TypeOK, Consistent, LedgerTrue
    <2>1. CASE \E v \in Versions : WriteFile(x, v)
        BY <2>1 DEF WriteFile
    <2>2. CASE WriteEntry(x)
        BY <2>2 DEF WriteEntry
    <2>3. CASE WriterFails(x)
        BY <2>3 DEF WriterFails
    <2>4. CASE WriteAgain(x)
        BY <2>4 DEF WriteAgain
    <2>5. CASE RebuildEntry(x)
        BY <2>5 DEF RebuildEntry
    <2>6. QED
        BY <2>1, <2>2, <2>3, <2>4, <2>5 DEF Write
<1>4. Quiet'
    BY <1>1, <1>2 DEF Quiet, Building
<1>5. StagedNow'
    BY <1>1, <1>2 DEF StagedNow, TypeInv, Shape, Staging
<1>6. SigTrue'
    BY <1>1, <1>2 DEF SigTrue, Consistent, Agree
<1>7. QED
    BY <1>3, <1>4, <1>5, <1>6 DEF Consistent

LEMMA DerivedEntryConsistent ==
    ASSUME Orchestrated, TypeInv, Consistent, NEW s \in Securities, RebuildDerivedEntry(s)
    PROVE  Consistent'
<1> USE DEF sourceVars, jobVars, RebuildDerivedEntry
<1>1. pc = "idle" /\ pc' = "idle"
    BY DEF MayWrite
<1>2. LedgerTrue' /\ Quiet' /\ StagedNow'
    BY <1>1 DEF Consistent, LedgerTrue, Quiet, Building, StagedNow, TypeInv, Shape, Staging
<1>3. SigTrue'
    BY <1>1, ConstantsAssumption DEF Consistent, SigTrue, Agree, TypeInv, TypeOK
<1>4. QED
    BY <1>2, <1>3 DEF Consistent

LEMMA StartConsistent ==
    ASSUME Orchestrated, TypeInv, Consistent, NEW m \in Modes, StartBuild(m)
    PROVE  Consistent'
<1> USE DEF sourceVars, ledgerVars, StartBuild
<1>1. LedgerTrue' /\ Quiet' /\ StagedNow'
    BY DEF Consistent, LedgerTrue, Quiet, SourcesAtRest, Building, StagedNow, TypeInv,
           Shape, Staging
<1>2. SigTrue'
    BY DEF Consistent, SigTrue, Agree
<1>3. QED
    BY <1>1, <1>2 DEF Consistent

LEMMA MasterConsistent ==
    ASSUME Orchestrated, TypeInv, Consistent, BuildMaster PROVE Consistent'
<1> USE DEF sourceVars, ledgerVars, jobVars, BuildMaster
<1>1. LedgerTrue' /\ Quiet' /\ StagedNow'
    BY DEF Consistent, LedgerTrue, Quiet, SourcesAtRest, Building, StagedNow, TypeInv,
           Shape, Staging
<1>2. SigTrue'
    BY DEF Consistent, SigTrue, Agree
<1>3. QED
    BY <1>1, <1>2 DEF Consistent

LEMMA PlanConsistent ==
    ASSUME Orchestrated, TypeInv, Consistent, PlanIncremental \/ PlanExplicit \/ PlanFull
    PROVE  Consistent'
<1> USE DEF sourceVars, ledgerVars
<1>1. /\ pc = "plan" /\ pc' = "read"
      /\ cache' = {x \in Sources : content[x] # Nothing}
      /\ UNCHANGED <<content, writing, owed, master, ledgerVars, staged, aside, unrec>>
    BY DEF PlanIncremental, PlanExplicit, PlanFull, Begin
<1>2. LedgerTrue'
    <2>1. {s \in Listed : part[s] # Nothing} \in SUBSET Securities
        BY DEF Listed
    <2>2. CASE PlanIncremental
        BY <2>1, <2>2, RebuiltTrue DEF PlanIncremental, Consistent, TypeInv
    <2>3. CASE PlanExplicit \/ PlanFull
        BY <2>3 DEF PlanExplicit, PlanFull, Consistent, LedgerTrue
    <2>4. QED
        BY <2>2, <2>3
<1>3. Quiet'
    BY <1>1 DEF Consistent, Quiet, SourcesAtRest, Building
<1>4. StagedNow'
    BY <1>1 DEF StagedNow, TypeInv, Shape, Staging
<1>5. SigTrue'
    BY <1>1 DEF Consistent, SigTrue, Agree
<1>6. QED
    BY <1>2, <1>3, <1>4, <1>5 DEF Consistent

LEMMA MaterializeConsistent ==
    ASSUME Orchestrated, TypeInv, Consistent, NEW s \in Securities, Materialize(s)
    PROVE  Consistent'
<1> USE DEF sourceVars, ledgerVars, Materialize
<1>1. cache = {x \in Sources : content[x] # Nothing}
    BY DEF Consistent, Quiet, Building
<1>2. Readable(s) = Now(s) /\ Pairs(s) # {}
    BY <1>1, ConstantsAssumption DEF Readable, Now, TypeInv, TypeOK
<1>3. made'.sec = s /\ made'.from = Readable(s)
    OBVIOUS
<1>4. StagedNow'
    BY <1>2, <1>3 DEF Consistent, StagedNow, Now, Pairs
<1>5. LedgerTrue' /\ Quiet' /\ SigTrue'
    BY DEF Consistent, LedgerTrue, Quiet, SourcesAtRest, Building, SigTrue, Agree
<1>6. QED
    BY <1>4, <1>5 DEF Consistent

LEMMA SignConsistent ==
    ASSUME Orchestrated, TypeInv, Consistent, SignAndStage PROVE Consistent'
<1> DEFINE m == made.sec
<1> USE DEF ledgerVars, SignAndStage
<1>1. m \in Securities
    BY DEF TypeInv, Shape, Listed
<1>2. Signature(m) = Now(m) /\ made.from = Now(m) /\ Pairs(m) # {}
    BY <1>1, SignatureNow DEF Consistent, Quiet, StagedNow, TypeInv
<1>3. /\ staged'[m] = [from |-> made.from, claim |-> Signature(m)]
      /\ \A s \in Securities \ {m} : staged'[s] = staged[s]
    BY <1>1 DEF TypeInv, Shape
<1>4. StagedNow'
    BY <1>2, <1>3 DEF Consistent, StagedNow, Now, Pairs
<1>5. LedgerTrue'
    BY <1>1, RebuiltTrue DEF Consistent, TypeInv
<1>6. Quiet' /\ SigTrue'
    BY DEF Consistent, Quiet, SourcesAtRest, Building, SigTrue, Agree
<1>7. QED
    BY <1>4, <1>5, <1>6 DEF Consistent

LEMMA RemoveConsistent ==
    ASSUME Orchestrated, TypeInv, Consistent, NEW s \in Securities, MaterializeEmpty(s)
    PROVE  Consistent'
<1> USE DEF sourceVars, MaterializeEmpty
<1>1. LedgerTrue' /\ Quiet' /\ StagedNow'
    BY DEF Consistent, LedgerTrue, Quiet, SourcesAtRest, Building, StagedNow, Now, Pairs
<1>2. SigTrue'
    BY DEF Consistent, SigTrue, Agree, TypeInv, TypeOK, Shape
<1>3. QED
    BY <1>1, <1>2 DEF Consistent

LEMMA ForgetConsistent ==
    ASSUME Orchestrated, TypeInv, Consistent, Forget PROVE Consistent'
<1> USE DEF sourceVars, Forget
<1>1. LedgerTrue' /\ Quiet' /\ StagedNow'
    BY DEF Consistent, LedgerTrue, Quiet, SourcesAtRest, Building, StagedNow, Now, Pairs
<1>2. SigTrue'
    BY ConstantsAssumption DEF Consistent, SigTrue, Agree, TypeInv, TypeOK
<1>3. QED
    BY <1>1, <1>2 DEF Consistent

LEMMA SwapAwayConsistent ==
    ASSUME Orchestrated, TypeInv, Consistent, SwapAway PROVE Consistent'
<1> USE DEF sourceVars, SwapAway
<1>1. LedgerTrue' /\ Quiet' /\ StagedNow'
    BY DEF Consistent, LedgerTrue, Quiet, SourcesAtRest, Building, StagedNow, Now, Pairs
<1>2. SigTrue'
    <2>1. unrec = {} /\ pc # "record" /\ Unit' = Unit /\ Unit \subseteq Securities
        BY DEF TypeInv, Shape, Unit
    <2>2. QED
        BY <2>1 DEF Consistent, SigTrue, Agree
<1>3. QED
    BY <1>1, <1>2 DEF Consistent

LEMMA PromoteConsistent ==
    ASSUME Orchestrated, TypeInv, Consistent, Promote PROVE Consistent'
<1> USE DEF sourceVars, Promote
<1>1. LedgerTrue' /\ Quiet' /\ StagedNow'
    BY DEF Consistent, LedgerTrue, Quiet, SourcesAtRest, Building, StagedNow, Now, Pairs
<1>2. ASSUME NEW s \in Securities, s \notin unrec' PROVE Agree(s, part[s])'
    <2>1. part'[s] = part[s] /\ staged[s] = Nothing
        BY <1>2
    <2>2. CASE s \in Unit
        BY <2>1, <2>2 DEF Consistent, SigTrue, Agree
    <2>3. CASE s \notin Unit
        BY <2>1, <2>3 DEF Consistent, SigTrue, Agree
    <2>4. QED
        BY <2>2, <2>3
<1>3. SigTrue'
    BY <1>2 DEF SigTrue
<1>4. QED
    BY <1>1, <1>3 DEF Consistent

LEMMA RecordConsistent ==
    ASSUME Orchestrated, TypeInv, Consistent, NEW s \in Securities, Record(s)
    PROVE  Consistent'
<1> USE DEF sourceVars, Record
<1>1. LedgerTrue' /\ Quiet' /\ StagedNow'
    BY DEF Consistent, LedgerTrue, Quiet, SourcesAtRest, Building, StagedNow, Now, Pairs
<1>2. sig'[s] = part[s]
    BY DEF Consistent, StagedNow, SigTrue, TypeInv, TypeOK, Shape
<1>3. \A t \in Securities \ {s} : sig'[t] = sig[t]
    BY DEF TypeInv, TypeOK
<1>4. SigTrue'
    BY <1>2, <1>3 DEF Consistent, SigTrue, Agree
<1>5. QED
    BY <1>1, <1>4 DEF Consistent

LEMMA EndConsistent ==
    ASSUME Orchestrated, TypeInv, Consistent, Recorded \/ FinishBuild PROVE Consistent'
<1> USE DEF sourceVars, ledgerVars, jobVars, Recorded, FinishBuild, DropLocals, NoneOf
<1>1. LedgerTrue' /\ Quiet'
    BY DEF Consistent, LedgerTrue, Quiet, SourcesAtRest, Building
<1>2. StagedNow'
    BY DEF Consistent, StagedNow, Now, Pairs, TypeInv, Shape
<1>3. SigTrue'
    BY DEF Consistent, SigTrue, Agree
<1>4. QED
    BY <1>1, <1>2, <1>3 DEF Consistent

LEMMA CleanUpConsistent ==
    ASSUME Orchestrated, TypeInv, Consistent, NEW s \in Securities, CleanUp(s)
    PROVE  Consistent'
<1> USE DEF sourceVars, jobVars, CleanUp
<1>1. LedgerTrue' /\ Quiet' /\ StagedNow'
    BY DEF Consistent, LedgerTrue, Quiet, SourcesAtRest, Building, StagedNow, Now, Pairs
<1>2. SigTrue'
    BY ConstantsAssumption DEF Consistent, SigTrue, Agree, TypeInv, TypeOK
<1>3. QED
    BY <1>1, <1>2 DEF Consistent

LEMMA FailsConsistent ==
    ASSUME Orchestrated, TypeInv, Consistent, PromoteFails \/ BuildFails
    PROVE  Consistent'
<1> USE DEF sourceVars, DropLocals, NoneOf
<1>1. LedgerTrue' /\ Quiet'
    BY DEF PromoteFails, BuildFails, Consistent, LedgerTrue, Quiet, SourcesAtRest, Building
<1>2. StagedNow'
    BY DEF PromoteFails, BuildFails, StagedNow
<1>3. CASE PromoteFails
    <2>1. \A s \in Securities : part'[s] \in {part[s], aside[s]}
                              /\ (s \notin Unit => part'[s] = part[s])
        BY <1>3 DEF PromoteFails, TypeInv, TypeOK
    <2>2. \A s \in Securities : Agree(s, part[s]) /\ (s \in Unit => Agree(s, aside[s]))
        BY <1>3 DEF PromoteFails, Consistent, SigTrue
    <2>3. QED
        BY <1>1, <1>2, <1>3, <2>1, <2>2 DEF PromoteFails, Consistent, SigTrue, Agree
<1>4. CASE BuildFails
    <2>1. \A s \in Securities \ torn' :
             part'[s] = part[s] /\ sig'[s] = sig[s] /\ s \notin torn
        BY <1>4 DEF BuildFails
    <2>2. QED
        BY <1>1, <1>2, <1>4, <2>1
        DEF BuildFails, Consistent, SigTrue, Agree, TypeInv, TypeOK, Shape
<1>5. QED
    BY <1>3, <1>4

LEMMA InitConsistent == Init => Consistent
    BY ConstantsAssumption
    DEF Init, NoneOf, Consistent, LedgerTrue, Quiet, SourcesAtRest, Building, StagedNow,
        SigTrue, Agree

LEMMA StepConsistent ==
    ASSUME Orchestrated PROVE TypeInv /\ Consistent /\ [Next]_vars => Consistent'
<1> SUFFICES ASSUME TypeInv, Consistent, [Next]_vars PROVE Consistent'
    OBVIOUS
<1>1. ASSUME NEW x \in Sources, Write(x) PROVE Consistent'
    BY <1>1, WriteConsistent
<1>2. ASSUME NEW s \in Securities, RebuildDerivedEntry(s) PROVE Consistent'
    BY <1>2, DerivedEntryConsistent
<1>3. ASSUME NEW m \in Modes, StartBuild(m) PROVE Consistent'
    BY <1>3, StartConsistent
<1>4. CASE BuildStep
    <2>1. ASSUME NEW s \in Securities, BuildOne(s) PROVE Consistent'
        BY <2>1, MaterializeConsistent, RemoveConsistent, RecordConsistent,
           CleanUpConsistent DEF BuildOne
    <2>2. QED
        BY <1>4, <2>1, MasterConsistent, PlanConsistent, SignConsistent, ForgetConsistent,
           SwapAwayConsistent, PromoteConsistent, EndConsistent DEF BuildStep
<1>5. CASE PromoteFails \/ BuildFails
    BY <1>5, FailsConsistent
<1>6. CASE UNCHANGED vars
    BY <1>6
    DEF vars, sourceVars, ledgerVars, jobVars, Consistent, LedgerTrue, Quiet,
        SourcesAtRest, Building, StagedNow, Now, Pairs, SigTrue, Agree, Unit
<1>7. QED
    BY <1>1, <1>2, <1>3, <1>4, <1>5, <1>6 DEF Next

LEMMA SkippedFromConsistent == TypeInv /\ Consistent => SkippedIsCurrent
<1> SUFFICES ASSUME TypeInv, Consistent, pc = "idle", SourcesAtRest,
                    NEW s \in Securities \ torn, Skipped(s)
             PROVE  part[s] = Wanted(s)
    BY DEF SkippedIsCurrent
<1>1. CASE Pairs(s) = {}
    BY <1>1 DEF Skipped, Changed, Wanted
<1>2. CASE Pairs(s) # {}
    <2>1. part[s] # Nothing /\ sig[s] = Signature(s) /\ s \in Listed
        BY <1>2 DEF Skipped, Changed
    <2>2. sig[s] \in Provenance(s) /\ Signature(s) = Now(s)
        BY <2>1, SignatureType, SignatureNow DEF TypeInv, Consistent
    <2>3. part[s] = sig[s]
        BY <2>1, <2>2 DEF Consistent, SigTrue, Agree
    <2>4. QED
        BY <1>2, <2>1, <2>2, <2>3 DEF Wanted
<1>3. QED
    BY <1>1, <1>2

\* Under the daily workflow's order of steps, a security the planner passes
\* over has the partition it should have, unless a builder failed between
\* promoting that partition and recording it.
THEOREM SkipIsSafe == ASSUME Orchestrated PROVE Spec => []SkippedIsCurrent
<1>1. Spec => [](TypeInv /\ Consistent)
    BY InitType, StepType, InitConsistent, StepConsistent, PTL DEF Spec
<1>2. QED
    BY <1>1, SkippedFromConsistent, PTL

-----------------------------------------------------------------------------
(* A full build                                                            *)

LEMMA FullRead ==
    ASSUME TypeInv, Consistent, FullBuild, NEW s \in Securities,
           Materialize(s) \/ MaterializeEmpty(s)
    PROVE  FullBuild'
<1>1. cache \cap Pairs(s) = Pairs(s)
    BY ConstantsAssumption
    DEF Materialize, MaterializeEmpty, Consistent, Quiet, Building, Pairs
<1>2. CASE Materialize(s)
    BY <1>2 DEF Materialize, FullBuild, Listed, Pairs, sourceVars
<1>3. CASE MaterializeEmpty(s)
    BY <1>1, <1>3 DEF MaterializeEmpty, FullBuild, Listed, Pairs, sourceVars
<1>4. QED
    BY <1>2, <1>3

LEMMA FullSign == ASSUME TypeInv, FullBuild, SignAndStage PROVE FullBuild'
<1>1. /\ staged'[made.sec] = [from |-> made.from, claim |-> Signature(made.sec)]
      /\ \A s \in Securities \ {made.sec} : staged'[s] = staged[s]
    BY DEF SignAndStage, TypeInv, Shape, Listed
<1>2. made.sec \in Listed /\ made.sec \in Securities /\ made.from \in Provenance(made.sec)
    BY DEF SignAndStage, TypeInv, Shape, Listed
<1>3. staged'[made.sec] \in Staged(made.sec)
    BY <1>1, <1>2, SignatureType DEF Staged, TypeInv
<1>4. staged'[made.sec] # Nothing
    BY <1>2, <1>3, ConstantsAssumption
<1>5. QED
    BY <1>1, <1>4 DEF SignAndStage, FullBuild, Listed, Pairs, ledgerVars

LEMMA FullPromote == ASSUME TypeInv, Consistent, FullBuild, Promote PROVE FullBuild'
<1>1. mode = "full" => Unit = Securities /\ torn' = {}
                       /\ \A s \in Securities : part[s] = Nothing
    BY DEF Promote, Unit, Consistent, SigTrue, TypeInv, TypeOK
<1>2. QED
    BY <1>1 DEF Promote, FullBuild, Listed, Pairs, sourceVars

LEMMA FullRecord ==
    ASSUME TypeInv, Consistent, FullBuild, NEW s \in Securities, Record(s)
    PROVE  FullBuild'
<1>1. sig'[s] = part[s] /\ \A t \in Securities \ {s} : sig'[t] = sig[t]
    BY DEF Record, Consistent, StagedNow, SigTrue, TypeInv, TypeOK, Shape
<1>2. QED
    BY <1>1 DEF Record, FullBuild, Listed, Pairs, sourceVars

LEMMA FullRecorded == ASSUME TypeInv, Consistent, FullBuild, Recorded PROVE FullBuild'
<1>1. ASSUME mode = "full", NEW s \in Securities
      PROVE  /\ part[s] = IF s \in Listed THEN Wanted(s) ELSE Nothing
             /\ part[s] # Nothing => sig[s] = part[s]
    <2>1. CASE staged[s] = Nothing
        BY <1>1, <2>1 DEF Recorded, FullBuild, Wanted
    <2>2. CASE staged[s] # Nothing
        BY <1>1, <2>2
        DEF Recorded, FullBuild, Wanted, Consistent, StagedNow, SigTrue, TypeInv, Shape
    <2>3. QED
        BY <2>1, <2>2
<1>2. QED
    BY <1>1 DEF Recorded, FullBuild, Listed, Wanted, Now, Pairs, sourceVars, ledgerVars

LEMMA FullCleanUp ==
    ASSUME TypeInv, FullBuild, NEW s \in Securities, CleanUp(s) PROVE FullBuild'
    BY DEF CleanUp, Stale, FullBuild, Listed, Wanted, Now, Pairs, TypeInv, TypeOK,
           sourceVars, jobVars

LEMMA FullOther ==
    ASSUME TypeInv, Consistent, FullBuild, pc' \in {"idle", "master", "plan"}
    PROVE  FullBuild'
    BY DEF FullBuild

LEMMA StepFull ==
    ASSUME Orchestrated
    PROVE  TypeInv /\ Consistent /\ FullBuild /\ [Next]_vars => FullBuild'
<1> SUFFICES ASSUME TypeInv, Consistent, FullBuild, [Next]_vars PROVE FullBuild'
    OBVIOUS
<1>1. ASSUME NEW x \in Sources, Write(x) PROVE FullBuild'
    <2>1. pc' = "idle"
        BY <1>1 DEF Write, WriteFile, WriteEntry, WriterFails, WriteAgain, RebuildEntry,
                    MayWrite, Consistent, Quiet, SourcesAtRest
    <2>2. QED
        BY <2>1, FullOther
<1>2. ASSUME NEW s \in Securities, RebuildDerivedEntry(s) PROVE FullBuild'
    BY <1>2, FullOther DEF RebuildDerivedEntry, MayWrite
<1>3. ASSUME NEW m \in Modes, StartBuild(m) PROVE FullBuild'
    BY <1>3, FullOther DEF StartBuild
<1>4. CASE BuildStep
    <2>1. ASSUME NEW s \in Securities, BuildOne(s) PROVE FullBuild'
        BY <2>1, FullRead, FullRecord, FullCleanUp DEF BuildOne
    <2>2. CASE BuildMaster \/ FinishBuild
        BY <2>2, FullOther DEF BuildMaster, FinishBuild
    <2>3. CASE PlanIncremental \/ PlanExplicit
        BY <2>3 DEF PlanIncremental, PlanExplicit, Begin, FullBuild
    <2>4. CASE PlanFull
        BY <2>4 DEF PlanFull, Begin, FullBuild, Listed, Pairs, sourceVars
    <2>5. CASE Forget
        BY <2>5 DEF Forget, FullBuild
    <2>6. CASE SwapAway
        BY <2>6 DEF SwapAway, FullBuild, Listed, Pairs, sourceVars
    <2>7. QED
        BY <1>4, <2>1, <2>2, <2>3, <2>4, <2>5, <2>6, FullSign, FullPromote, FullRecorded
        DEF BuildStep
<1>5. CASE PromoteFails \/ BuildFails
    BY <1>5, FullOther DEF PromoteFails, BuildFails
<1>6. CASE UNCHANGED vars
    BY <1>6
    DEF vars, sourceVars, ledgerVars, jobVars, FullBuild, Listed, Wanted, Now, Pairs
<1>7. QED
    BY <1>1, <1>2, <1>3, <1>4, <1>5, <1>6 DEF Next

\* Under the daily workflow's order of steps a full build that ends leaves
\* exactly the partitions that are called for, and their ledger rows.
THEOREM FullRepairs == ASSUME Orchestrated PROVE Spec => FullBuildRepairs
<1> DEFINE Repaired ==
        \A s \in Securities :
            /\ part'[s] = IF s \in Listed THEN Wanted(s) ELSE Nothing
            /\ sig'[s] = part'[s]
            /\ s \notin torn'
<1>1. Init => FullBuild
    BY DEF Init, FullBuild
<1>2. ASSUME FullBuild, TypeInv, Consistent, [Next]_vars,
             pc = "cleanup", pc' = "idle", faults' = faults
      PROVE  Repaired
    <2>1. FinishBuild
        <3>1. \A x \in Sources : ~Write(x)
            BY <1>2 DEF Write, WriteFile, WriteEntry, WriterFails, WriteAgain, RebuildEntry
        <3>2. ~PromoteFails /\ ~BuildFails
            BY <1>2 DEF PromoteFails, BuildFails, TypeInv, TypeOK
        <3>3. \A s \in Securities : ~RebuildDerivedEntry(s) /\ ~BuildOne(s)
            BY <1>2 DEF RebuildDerivedEntry, BuildOne, Materialize, MaterializeEmpty,
                        Record, CleanUp
        <3>4. QED
            BY <1>2, <3>1, <3>2, <3>3
            DEF Next, StartBuild, BuildStep, BuildMaster, PlanIncremental, PlanExplicit,
                PlanFull, SignAndStage, Forget, SwapAway, Promote, Recorded, vars
    <2>2. Stale = {} /\ UNCHANGED <<part, sig, torn>>
        BY <1>2, <2>1 DEF FinishBuild, ledgerVars
    <2>3. QED
        BY <1>2, <2>2 DEF Stale, FullBuild
<1>3. FullBuild /\ TypeInv /\ Consistent /\ [Next]_vars =>
        [pc = "cleanup" /\ pc' = "idle" /\ faults' = faults => Repaired]_vars
    BY <1>2
<1>4. QED
    BY <1>1, <1>3, InitType, StepType, InitConsistent, StepConsistent, StepFull, PTL
    DEF Spec, FullBuildRepairs

=============================================================================
