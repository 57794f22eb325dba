------------------------ MODULE GenerationLedger_proofs ------------------------
(***************************************************************************)
(* Proofs about GenerationLedger: what the fifty phases may not undo, for  *)
(* any phases that write entries and any bound on them.                    *)
(*                                                                         *)
(* The argument is the order of the phases.  What a phase relies on is     *)
(* stated of the points before a landmark (the sets UpTo...), what it has  *)
(* established of the runs that have passed it; a phase moves forward      *)
(* through these sets, and most phases touch none of the data.             *)
(***************************************************************************)
EXTENDS GenerationLedger, TLAPS

UpToCount ==
  {"start", "accounts", "masterData", "documentFlows", "openingBalances",
   "journalEntries", "counterfactuals", "captureActions", "sourcing",
   "intercompany", "hr", "manufacturing", "count"}
UpToEmit == UpToCount \cup {"controls", "emitEntries"}
UpToFraud == UpToEmit \cup {"documentFraud"}
UpToAnomalies == UpToFraud \cup {"anomalies"}
UpToDocuments == UpToAnomalies \cup {"firstSweep", "toDocuments"}
UpToClose == UpToDocuments \cup
  {"redFlags", "collusion", "drift", "balances", "coverage", "reconciliation",
   "dataQuality", "periodClose"}
UpToMirror == UpToClose \cup
  {"assertions", "audit", "banking", "graphs", "overlays", "statements",
   "standards", "ocpm", "backAnnotate", "synthesize", "mirror"}
UpToSweep == UpToMirror \cup {"kpis", "treasury", "tax", "finalSweep"}

(* From phase p to phase q no landmark is passed but by its own phase. *)
Forward(p, q) ==
  /\ p \in Phases /\ p # "aborted" /\ q \in Phases \cup Ended
  /\ q \in UpToCount => p \in UpToCount /\ p # "count"
  /\ q \in UpToEmit => p \in UpToEmit
  /\ q \in UpToFraud => p \in UpToFraud
  /\ q \in UpToAnomalies => p \in UpToAnomalies
  /\ q \in UpToDocuments => p \in UpToDocuments /\ p # "toDocuments"
  /\ q \in UpToClose => p \in UpToClose
  /\ q \in UpToMirror => p \in UpToMirror /\ p # "mirror"
  /\ q \in UpToSweep => p \in UpToSweep /\ p # "finalSweep" /\ p \notin FinalProducts
  /\ q = "mirror" => p = "synthesize"
  /\ p \in UpToCount /\ q \notin UpToCount => p = "count"

LEMMA PhasesMoveForward ==
  /\ Forward("start", "accounts")
  /\ Forward("accounts", "masterData")
  /\ Forward("masterData", "documentFlows")
  /\ Forward("documentFlows", "openingBalances")
  /\ Forward("openingBalances", "journalEntries")
  /\ Forward("journalEntries", "counterfactuals")
  /\ Forward("counterfactuals", "captureActions")
  /\ Forward("captureActions", "sourcing")
  /\ Forward("sourcing", "intercompany")
  /\ Forward("intercompany", "hr")
  /\ Forward("hr", "manufacturing")
  /\ Forward("manufacturing", "count")
  /\ Forward("count", "controls")
  /\ Forward("controls", "emitEntries")
  /\ Forward("emitEntries", "documentFraud")
  /\ Forward("documentFraud", "anomalies")
  /\ Forward("anomalies", "firstSweep")
  /\ Forward("firstSweep", "toDocuments")
  /\ Forward("toDocuments", "redFlags")
  /\ Forward("redFlags", "collusion")
  /\ Forward("collusion", "drift")
  /\ Forward("drift", "balances")
  /\ Forward("balances", "coverage")
  /\ Forward("coverage", "reconciliation")
  /\ Forward("reconciliation", "dataQuality")
  /\ Forward("dataQuality", "periodClose")
  /\ Forward("periodClose", "assertions")
  /\ Forward("assertions", "audit")
  /\ Forward("audit", "banking")
  /\ Forward("banking", "graphs")
  /\ Forward("graphs", "overlays")
  /\ Forward("overlays", "statements")
  /\ Forward("statements", "standards")
  /\ Forward("standards", "ocpm")
  /\ Forward("ocpm", "backAnnotate")
  /\ Forward("backAnnotate", "synthesize")
  /\ Forward("synthesize", "mirror")
  /\ Forward("mirror", "kpis")
  /\ Forward("kpis", "treasury")
  /\ Forward("treasury", "tax")
  /\ Forward("tax", "finalSweep")
  /\ Forward("finalSweep", "cashFlow")
  /\ Forward("cashFlow", "notes")
  /\ Forward("notes", "segments")
  /\ Forward("segments", "esg")
  /\ Forward("esg", "projects")
  /\ Forward("projects", "evolution")
  /\ Forward("evolution", "disruption")
  /\ Forward("disruption", "temporal")
  /\ Forward("temporal", "relationships")
  /\ Forward("relationships", "industry")
  /\ Forward("industry", "compliance")
  /\ Forward("compliance", "hypergraph")
  /\ Forward("hypergraph", "extraGraphs")
  /\ Forward("extraGraphs", "gates")
  /\ Forward("gates", "analytics")
  /\ Forward("analytics", "validation")
  /\ Forward("validation", "done")
<1> USE DEF Forward, Phases, Ended, UpToCount, UpToEmit, UpToFraud, UpToAnomalies,
            UpToDocuments, UpToClose, UpToMirror, UpToSweep, FinalProducts
<1>1. /\ Forward("start", "accounts")
      /\ Forward("accounts", "masterData")
      /\ Forward("masterData", "documentFlows")
      /\ Forward("documentFlows", "openingBalances")
      /\ Forward("openingBalances", "journalEntries")
      /\ Forward("journalEntries", "counterfactuals")
      /\ Forward("counterfactuals", "captureActions")
      /\ Forward("captureActions", "sourcing")
  OBVIOUS
<1>2. /\ Forward("sourcing", "intercompany")
      /\ Forward("intercompany", "hr")
      /\ Forward("hr", "manufacturing")
      /\ Forward("manufacturing", "count")
      /\ Forward("count", "controls")
      /\ Forward("controls", "emitEntries")
      /\ Forward("emitEntries", "documentFraud")
      /\ Forward("documentFraud", "anomalies")
  OBVIOUS
<1>3. /\ Forward("anomalies", "firstSweep")
      /\ Forward("firstSweep", "toDocuments")
      /\ Forward("toDocuments", "redFlags")
      /\ Forward("redFlags", "collusion")
      /\ Forward("collusion", "drift")
      /\ Forward("drift", "balances")
      /\ Forward("balances", "coverage")
      /\ Forward("coverage", "reconciliation")
  OBVIOUS
<1>4. /\ Forward("reconciliation", "dataQuality")
      /\ Forward("dataQuality", "periodClose")
      /\ Forward("periodClose", "assertions")
      /\ Forward("assertions", "audit")
      /\ Forward("audit", "banking")
      /\ Forward("banking", "graphs")
      /\ Forward("graphs", "overlays")
      /\ Forward("overlays", "statements")
  OBVIOUS
<1>5. /\ Forward("statements", "standards")
      /\ Forward("standards", "ocpm")
      /\ Forward("ocpm", "backAnnotate")
      /\ Forward("backAnnotate", "synthesize")
      /\ Forward("synthesize", "mirror")
      /\ Forward("mirror", "kpis")
      /\ Forward("kpis", "treasury")
      /\ Forward("treasury", "tax")
  OBVIOUS
<1>6. /\ Forward("tax", "finalSweep")
      /\ Forward("finalSweep", "cashFlow")
      /\ Forward("cashFlow", "notes")
      /\ Forward("notes", "segments")
      /\ Forward("segments", "esg")
      /\ Forward("esg", "projects")
      /\ Forward("projects", "evolution")
      /\ Forward("evolution", "disruption")
  OBVIOUS
<1>7. /\ Forward("disruption", "temporal")
      /\ Forward("temporal", "relationships")
      /\ Forward("relationships", "industry")
      /\ Forward("industry", "compliance")
      /\ Forward("compliance", "hypergraph")
      /\ Forward("hypergraph", "extraGraphs")
      /\ Forward("extraGraphs", "gates")
      /\ Forward("gates", "analytics")
  OBVIOUS
<1>8. /\ Forward("analytics", "validation")
      /\ Forward("validation", "done")
  OBVIOUS
<1> HIDE DEF Forward
<1> QED BY <1>1, <1>2, <1>3, <1>4, <1>5, <1>6, <1>7, <1>8
-----------------------------------------------------------------------------
(* The parts of the inductive invariant. *)

(* What reads the finished ledger has not run before the last sweep. *)
Products ==
  /\ at \in UpToSweep => passed \cap FinalProducts = {} /\ "finalSweep" \notin passed
  /\ stale \cap FinalProducts = {}

(* Until the fraud of entries goes to documents, a fraudulent document has *)
(* a fraudulent entry and can be found by it.                              *)
Documents ==
  /\ at \in UpToFraud => document = "none" /\ marks["flow"].fraud = "none"
  /\ at \in UpToDocuments =>
       /\ "toDocuments" \notin passed
       /\ reference
       /\ config.toLines /\ document # "none" => IsFraud("flow")
  /\ DocumentAgreesWithEntry

(* What is not written is not flagged; before the mirror all have events. *)
Events ==
  /\ at \in UpToMirror => "mirror" \notin passed
  /\ \A o \in Writers \ written : ~IsFraud(o) /\ ~IsAnomaly(o)
  /\ at = "mirror" /\ log => \A o \in written : marks[o].event # "none"
  /\ FlagsReachEventLog

(* What the injector has biased is labelled, so that no sweep touches it. *)
Biases ==
  /\ at \in UpToAnomalies => \A o \in Writers : marks[o].bias = {}
  /\ \A o \in Writers : "inline" \in marks[o].bias =>
       marks[o].bias = {"inline"} /\ marks[o].fraud = "injected" /\ IsAnomaly(o)
  /\ \A o \in written : IsFraud(o) /\ ~IsAnomaly(o) /\ "finalSweep" \in passed =>
       "final" \in marks[o].bias

(* Nothing is emitted before its time, and the close is written once. *)
Emissions ==
  /\ at \in UpToEmit => \A o \in Writers : emitted[o] = 0
  /\ at \in UpToClose => "close" \notin written /\ emitted["close"] = 0
  /\ EmittedAtMostOnce

(* Whoever has passed the count has counted all but the late entries. *)
Counts ==
  /\ counted \subseteq written
  /\ at \in UpToCount => "count" \notin passed
  /\ at \in UpToCount \cup {"aborted"} \/ "count" \in passed
  /\ "count" \in passed => written \ counted \subseteq LateOrigins

LedgerInv ==
  TypeOK /\ Products /\ Documents /\ Events /\ Biases /\ Emissions /\ Counts

(* What Go means for the parts of the invariant: a step of phase p to q. *)
Moves(p, q) ==
  /\ at = p /\ at' = q /\ passed' = passed \cup {p} /\ config' = config
  /\ Forward(p, q)

(* The flags of an entry stay as they are. *)
SameFlags(o) == marks'[o].fraud = marks[o].fraud /\ marks'[o].anomaly = marks[o].anomaly

LEMMA ProductsFrame ==
  ASSUME NEW p, NEW q, Moves(p, q), Products,
         stale' = stale \/ (p \in UpToSweep /\ stale' = passed)
  PROVE  Products'
BY DEF Moves, Forward, Products

LEMMA DocumentsFrame ==
  ASSUME NEW p, NEW q, Moves(p, q), Documents, p # "toDocuments",
         document' = document,
         reference' = reference \/ p \notin UpToDocuments,
         marks'["flow"].fraud = marks["flow"].fraud,
         "flow" \in written' => "flow" \in written \/ p \in UpToFraud
  PROVE  Documents'
<1>1. UpToFraud \subseteq UpToDocuments
  BY DEF UpToDocuments, UpToAnomalies
<1> QED
  BY <1>1 DEF Moves, Forward, Documents, DocumentAgreesWithEntry, IsFraud

LEMMA EventsFrame ==
  ASSUME NEW p, NEW q, Moves(p, q), Events, p # "mirror", q # "mirror",
         log' = log \/ p \in UpToMirror,
         written \subseteq written', written' \subseteq Writers,
         \A o \in Writers :
           /\ SameFlags(o) \/ (p \in UpToMirror /\ o \in written')
           /\ \/ marks'[o].event = marks[o].event /\ marks'[o].mirrored = marks[o].mirrored
              \/ p \in UpToMirror
  PROVE  Events'
<1>1. /\ at = p /\ at' = q /\ passed' = passed \cup {p}
      /\ q \in UpToMirror => p \in UpToMirror
  BY DEF Moves, Forward
<1>2. (at \in UpToMirror => "mirror" \notin passed)'
  BY <1>1 DEF Events
<1>3. (\A o \in Writers \ written : ~IsFraud(o) /\ ~IsAnomaly(o))'
  BY DEF Events, IsFraud, IsAnomaly, SameFlags
<1>4. "mirror" \in passed' => "mirror" \in passed /\ log' = log /\ p \notin UpToMirror
  BY <1>1 DEF Events
<1>5. FlagsReachEventLog'
  BY <1>4 DEF Events, FlagsReachEventLog, IsFraud, IsAnomaly, SameFlags
<1> QED BY <1>1, <1>2, <1>3, <1>5 DEF Events

LEMMA BiasesFrame ==
  ASSUME NEW p, NEW q, Moves(p, q), Biases, Products, TypeOK, p # "finalSweep",
         written' \subseteq Writers,
         written' = written \/ p \in UpToSweep,
         \A o \in Writers :
           marks'[o].bias = marks[o].bias /\ (SameFlags(o) \/ p \in UpToAnomalies)
  PROVE  Biases'
<1>1. UpToAnomalies \subseteq UpToSweep
  BY DEF UpToSweep, UpToMirror, UpToClose, UpToDocuments
<1>2. /\ at = p /\ at' = q /\ passed' = passed \cup {p}
      /\ q \in UpToAnomalies => p \in UpToAnomalies
  BY DEF Moves, Forward
<1>3. (at \in UpToAnomalies => \A o \in Writers : marks[o].bias = {})'
  BY <1>2 DEF Biases
<1>4. (\A o \in Writers : "inline" \in marks[o].bias =>
         marks[o].bias = {"inline"} /\ marks[o].fraud = "injected" /\ IsAnomaly(o))'
  BY <1>2 DEF Biases, IsAnomaly, SameFlags
<1>5. "finalSweep" \in passed' => "finalSweep" \in passed /\ p \notin UpToSweep
  BY <1>2 DEF Products
<1>6. (\A o \in written : IsFraud(o) /\ ~IsAnomaly(o) /\ "finalSweep" \in passed =>
         "final" \in marks[o].bias)'
  BY <1>1, <1>5 DEF Biases, IsFraud, IsAnomaly, SameFlags
<1> QED BY <1>3, <1>4, <1>6 DEF Biases

LEMMA EmissionsFrame ==
  ASSUME NEW p, NEW q, Moves(p, q), Emissions,
         emitted' = emitted, "close" \in written' => "close" \in written
  PROVE  Emissions'
BY DEF Moves, Forward, Emissions, EmittedAtMostOnce

LEMMA CountsFrame ==
  ASSUME NEW p, NEW q, Moves(p, q), Counts, p # "count",
         counted' = counted, written \subseteq written',
         p \in UpToCount \/ written' \ written \subseteq LateOrigins
  PROVE  Counts'
BY DEF Moves, Forward, Counts

LEMMA TypesFrame ==
  ASSUME NEW p, NEW q, Moves(p, q), TypeOK,
         written' \subseteq Writers, marks' \in [Writers -> Marks],
         document' \in Frauds, reference' \in BOOLEAN, actions' \in Levels,
         log' \in BOOLEAN, counted' \subseteq Writers, emitted' \in [Writers -> Nat],
         stale' \in {stale, passed}
  PROVE  TypeOK'
BY DEF Moves, Forward, TypeOK

(* What a phase does not touch keeps its type. *)
LEMMA Types ==
  ASSUME TypeOK
  PROVE  /\ written \subseteq Writers /\ marks \in [Writers -> Marks]
         /\ document \in Frauds /\ reference \in BOOLEAN /\ actions \in Levels
         /\ log \in BOOLEAN /\ counted \subseteq Writers /\ emitted \in [Writers -> Nat]
BY DEF TypeOK

(* A phase that only derives keeps all parts. *)
LEMMA DeriveKeeps ==
  ASSUME NEW p, NEW q, LedgerInv, Derive(p, q), Forward(p, q),
         p \notin {"count", "toDocuments", "mirror", "finalSweep", "synthesize"}
  PROVE  LedgerInv'
<1>1. /\ Moves(p, q)
      /\ UNCHANGED <<written, marks, stale, document, reference, actions, log, counted, emitted>>
  BY DEF Derive, Go, KeepLedger, KeepRest, Moves
<1>2. q # "mirror"
  BY DEF Forward
<1>3. TypeOK'
  BY <1>1, TypesFrame, Types DEF LedgerInv
<1>4. Products' /\ Documents' /\ Emissions' /\ Counts'
  BY <1>1, ProductsFrame, DocumentsFrame, EmissionsFrame, CountsFrame DEF LedgerInv
<1>5. /\ \A o \in Writers : SameFlags(o) /\ marks'[o].event = marks[o].event
           /\ marks'[o].mirrored = marks[o].mirrored /\ marks'[o].bias = marks[o].bias
      /\ written \subseteq Writers /\ TypeOK /\ Products /\ Biases /\ Events
      /\ written' = written /\ log' = log
  BY <1>1 DEF SameFlags, LedgerInv, TypeOK
<1>6. Events'
  BY <1>1, <1>2, <1>5, EventsFrame
<1>7. Biases'
  BY <1>1, <1>5, BiasesFrame
<1> QED BY <1>6, <1>7, <1>3, <1>4 DEF LedgerInv

(* The phases that only derive a product. *)
QuietPhases ==
  \/ Start \/ ChartOfAccounts \/ MasterData \/ DocumentFlows
  \/ OpeningBalances \/ Counterfactuals \/ Sourcing \/ Controls \/ RedFlags
  \/ Collusion \/ Balances \/ Coverage \/ Reconciliation \/ Assertions
  \/ Audit \/ Banking \/ GraphExport \/ Overlays \/ Statements \/ SalesKpis
  \/ CashFlow \/ Notes \/ Segments \/ Esg \/ Projects \/ Evolution
  \/ Disruption \/ Temporal \/ Relationships \/ Industry \/ Compliance
  \/ Hypergraph \/ ExtraGraphs \/ Gates \/ Analytics \/ Validation

LEMMA QuietPhasesKeepLedger ==
  ASSUME LedgerInv, QuietPhases PROVE LedgerInv'
<1>1. CASE Start
  BY <1>1, DeriveKeeps, PhasesMoveForward DEF Start
<1>2. CASE ChartOfAccounts
  BY <1>2, DeriveKeeps, PhasesMoveForward DEF ChartOfAccounts
<1>3. CASE MasterData
  BY <1>3, DeriveKeeps, PhasesMoveForward DEF MasterData
<1>4. CASE DocumentFlows
  BY <1>4, DeriveKeeps, PhasesMoveForward DEF DocumentFlows
<1>5. CASE OpeningBalances
  BY <1>5, DeriveKeeps, PhasesMoveForward DEF OpeningBalances
<1>6. CASE Counterfactuals
  BY <1>6, DeriveKeeps, PhasesMoveForward DEF Counterfactuals
<1>7. CASE Sourcing
  BY <1>7, DeriveKeeps, PhasesMoveForward DEF Sourcing
<1>8. CASE Controls
  BY <1>8, DeriveKeeps, PhasesMoveForward DEF Controls
<1>9. CASE RedFlags
  BY <1>9, DeriveKeeps, PhasesMoveForward DEF RedFlags
<1>10. CASE Collusion
  BY <1>10, DeriveKeeps, PhasesMoveForward DEF Collusion
<1>11. CASE Balances
  BY <1>11, DeriveKeeps, PhasesMoveForward DEF Balances
<1>12. CASE Coverage
  BY <1>12, DeriveKeeps, PhasesMoveForward DEF Coverage
<1>13. CASE Reconciliation
  BY <1>13, DeriveKeeps, PhasesMoveForward DEF Reconciliation
<1>14. CASE Assertions
  BY <1>14, DeriveKeeps, PhasesMoveForward DEF Assertions
<1>15. CASE Audit
  BY <1>15, DeriveKeeps, PhasesMoveForward DEF Audit
<1>16. CASE Banking
  BY <1>16, DeriveKeeps, PhasesMoveForward DEF Banking
<1>17. CASE GraphExport
  BY <1>17, DeriveKeeps, PhasesMoveForward DEF GraphExport
<1>18. CASE Overlays
  BY <1>18, DeriveKeeps, PhasesMoveForward DEF Overlays
<1>19. CASE Statements
  BY <1>19, DeriveKeeps, PhasesMoveForward DEF Statements
<1>20. CASE SalesKpis
  BY <1>20, DeriveKeeps, PhasesMoveForward DEF SalesKpis
<1>21. CASE CashFlow
  BY <1>21, DeriveKeeps, PhasesMoveForward DEF CashFlow
<1>22. CASE Notes
  BY <1>22, DeriveKeeps, PhasesMoveForward DEF Notes
<1>23. CASE Segments
  BY <1>23, DeriveKeeps, PhasesMoveForward DEF Segments
<1>24. CASE Esg
  BY <1>24, DeriveKeeps, PhasesMoveForward DEF Esg
<1>25. CASE Projects
  BY <1>25, DeriveKeeps, PhasesMoveForward DEF Projects
<1>26. CASE Evolution
  BY <1>26, DeriveKeeps, PhasesMoveForward DEF Evolution
<1>27. CASE Disruption
  BY <1>27, DeriveKeeps, PhasesMoveForward DEF Disruption
<1>28. CASE Temporal
  BY <1>28, DeriveKeeps, PhasesMoveForward DEF Temporal
<1>29. CASE Relationships
  BY <1>29, DeriveKeeps, PhasesMoveForward DEF Relationships
<1>30. CASE Industry
  BY <1>30, DeriveKeeps, PhasesMoveForward DEF Industry
<1>31. CASE Compliance
  BY <1>31, DeriveKeeps, PhasesMoveForward DEF Compliance
<1>32. CASE Hypergraph
  BY <1>32, DeriveKeeps, PhasesMoveForward DEF Hypergraph
<1>33. CASE ExtraGraphs
  BY <1>33, DeriveKeeps, PhasesMoveForward DEF ExtraGraphs
<1>34. CASE Gates
  BY <1>34, DeriveKeeps, PhasesMoveForward DEF Gates
<1>35. CASE Analytics
  BY <1>35, DeriveKeeps, PhasesMoveForward DEF Analytics
<1>36. CASE Validation
  BY <1>36, DeriveKeeps, PhasesMoveForward DEF Validation
<1> QED
  BY <1>1, <1>2, <1>3, <1>4, <1>5, <1>6, <1>7, <1>8, <1>9, <1>10, <1>11,
     <1>12, <1>13, <1>14, <1>15, <1>16, <1>17, <1>18, <1>19, <1>20, <1>21,
     <1>22, <1>23, <1>24, <1>25, <1>26, <1>27, <1>28, <1>29, <1>30, <1>31,
     <1>32, <1>33, <1>34, <1>35, <1>36 DEF QuietPhases

-----------------------------------------------------------------------------
(* The phases that write entries. *)

LEMMA AppendMarks ==
  ASSUME TypeOK, NEW W \in SUBSET Writers, Append(W)
  PROVE  /\ written' = written \cup W
         /\ marks' \in [Writers -> Marks]
         /\ stale' \in {stale, passed}
         /\ \A o \in Writers :
              /\ marks'[o].bias = marks[o].bias /\ marks'[o].anomaly = marks[o].anomaly
              /\ marks'[o].event = marks[o].event /\ marks'[o].mirrored = marks[o].mirrored
              /\ marks'[o].fraud = marks[o].fraud \/ (o = "standalone" /\ o \in W)
<1>1. PICK fraud \in {"none", "intrinsic"} :
        marks' = [marks EXCEPT !["standalone"].fraud =
                    IF "standalone" \in W THEN fraud ELSE @]
  BY DEF Append
<1>2. marks \in [Writers -> Marks] /\ "standalone" \in Writers
  BY DEF TypeOK, Writers
<1>3. marks["standalone"] \in Marks
  BY <1>2
<1>4. [marks["standalone"] EXCEPT !.fraud =
         IF "standalone" \in W THEN fraud ELSE marks["standalone"].fraud] \in Marks
  BY <1>3 DEF Marks, Frauds
<1>5. marks' \in [Writers -> Marks]
  BY <1>1, <1>2, <1>4
<1>6. \A o \in Writers \ {"standalone"} : marks'[o] = marks[o]
  BY <1>1, <1>2
<1>7. marks'["standalone"] = [marks["standalone"] EXCEPT !.fraud =
         IF "standalone" \in W THEN fraud ELSE marks["standalone"].fraud]
  BY <1>1, <1>2
<1>8. /\ marks'["standalone"].bias = marks["standalone"].bias
      /\ marks'["standalone"].anomaly = marks["standalone"].anomaly
      /\ marks'["standalone"].event = marks["standalone"].event
      /\ marks'["standalone"].mirrored = marks["standalone"].mirrored
      /\ "standalone" \notin W => marks'["standalone"].fraud = marks["standalone"].fraud
  BY <1>3, <1>7 DEF Marks
<1>9. written' = written \cup W /\ stale' \in {stale, passed}
  BY DEF Append, Outdate
<1> QED BY <1>5, <1>6, <1>8, <1>9

(* The sets of points before the landmarks grow. *)
LEMMA Landmarks ==
  /\ UpToCount \subseteq UpToFraud /\ UpToFraud \subseteq UpToAnomalies
  /\ UpToAnomalies \subseteq UpToDocuments /\ UpToDocuments \subseteq UpToClose
  /\ UpToClose \subseteq UpToMirror /\ UpToMirror \subseteq UpToSweep
BY DEF UpToSweep, UpToMirror, UpToClose, UpToDocuments, UpToAnomalies, UpToFraud, UpToEmit

LEMMA WriteKeeps ==
  ASSUME NEW p, NEW q, NEW S \in SUBSET Writers, LedgerInv, Write(p, q, S), KeepRest,
         Forward(p, q), p \in UpToSweep,
         p \notin {"count", "toDocuments", "mirror", "finalSweep", "synthesize"},
         "close" \notin S,
         "flow" \in S \/ "standalone" \in S => p \in UpToCount,
         p \in UpToCount \/ S \subseteq LateOrigins
  PROVE  LedgerInv'
<1>1. Moves(p, q) /\ q # "mirror"
  BY DEF Write, Go, Moves, Forward
<1>2. PICK W \in SUBSET S : Append(W)
  BY DEF Write, MayWrite
<1>3. UNCHANGED <<document, reference, actions, log, counted, emitted>>
  BY DEF KeepRest
<1>4. TypeOK
  BY DEF LedgerInv
<1>5. /\ written' = written \cup W
      /\ marks' \in [Writers -> Marks]
      /\ stale' \in {stale, passed}
      /\ \A o \in Writers :
           /\ marks'[o].bias = marks[o].bias /\ marks'[o].anomaly = marks[o].anomaly
           /\ marks'[o].event = marks[o].event /\ marks'[o].mirrored = marks[o].mirrored
           /\ marks'[o].fraud = marks[o].fraud \/ (o = "standalone" /\ o \in W)
  BY <1>2, <1>4, AppendMarks
<1>6. written' \subseteq Writers /\ written \subseteq written'
  BY <1>4, <1>5 DEF TypeOK
<1>7. TypeOK'
  BY <1>1, <1>3, <1>4, <1>5, <1>6, Types, TypesFrame
<1>8. Products'
  BY <1>1, <1>5, ProductsFrame DEF LedgerInv
<1>9. Documents'
  <2>1. marks'["flow"].fraud = marks["flow"].fraud
    BY <1>5 DEF Writers
  <2>2. "flow" \in written' => "flow" \in written \/ p \in UpToFraud
    BY <1>5, Landmarks
  <2> QED BY <1>1, <1>3, <2>1, <2>2, DocumentsFrame DEF LedgerInv
<1>10. \A o \in Writers : SameFlags(o) \/ (p \in UpToCount /\ o \in written')
  BY <1>5 DEF SameFlags
<1>11. Events'
  BY <1>1, <1>3, <1>5, <1>6, <1>10, Landmarks, EventsFrame DEF LedgerInv
<1>12. Biases'
  BY <1>1, <1>4, <1>5, <1>6, <1>10, Landmarks, BiasesFrame DEF LedgerInv
<1>13. Emissions'
  BY <1>1, <1>3, <1>5, EmissionsFrame DEF LedgerInv
<1>14. Counts'
  BY <1>1, <1>3, <1>5, <1>6, CountsFrame DEF LedgerInv
<1> QED BY <1>7, <1>8, <1>9, <1>11, <1>12, <1>13, <1>14 DEF LedgerInv

(* All but the close, which is emitted and counted as well. *)
WritingPhases ==
  \/ JournalEntries \/ Intercompany \/ HrData \/ Manufacturing \/ DriftCorrection
  \/ Standards \/ Treasury \/ Tax

LEMMA WritingPhasesKeepLedger ==
  ASSUME LedgerInv, WritingPhases PROVE LedgerInv'
<1> USE DEF Writers, LateOrigins
<1>0. /\ {"journalEntries", "intercompany", "hr", "manufacturing"} \subseteq UpToCount
      /\ UpToCount \subseteq UpToSweep
      /\ {"drift", "standards", "treasury", "tax"} \subseteq UpToSweep
  BY DEF UpToSweep, UpToMirror, UpToClose, UpToDocuments, UpToAnomalies, UpToFraud,
         UpToEmit, UpToCount
<1>1. CASE JournalEntries
  BY <1>0, <1>1, WriteKeeps, PhasesMoveForward DEF JournalEntries
<1>2. CASE Intercompany
  BY <1>0, <1>2, WriteKeeps, PhasesMoveForward DEF Intercompany
<1>3. CASE HrData
  BY <1>0, <1>3, WriteKeeps, PhasesMoveForward DEF HrData
<1>4. CASE Manufacturing
  BY <1>0, <1>4, WriteKeeps, PhasesMoveForward DEF Manufacturing
<1>5. CASE DriftCorrection
  BY <1>0, <1>5, WriteKeeps, PhasesMoveForward DEF DriftCorrection
<1>6. CASE Standards
  BY <1>0, <1>6, WriteKeeps, PhasesMoveForward DEF Standards
<1>7. CASE Treasury
  BY <1>0, <1>7, WriteKeeps, PhasesMoveForward DEF Treasury
<1>8. CASE Tax
  BY <1>0, <1>8, WriteKeeps, PhasesMoveForward DEF Tax
<1> QED
  BY <1>1, <1>2, <1>3, <1>4, <1>5, <1>6, <1>7, <1>8 DEF WritingPhases
-----------------------------------------------------------------------------
(* Capture, count, emission. *)

(* A phase that changes no entry and nothing the parts speak of but by the *)
(* frames' leave: all parts but the one it is about. *)
LEMMA CaptureActionsKeepsLedger ==
  ASSUME LedgerInv, CaptureActions PROVE LedgerInv'
<1> DEFINE p == "captureActions"  q == "sourcing"
<1>1. /\ at = p /\ at' = q /\ passed' = passed \cup {p} /\ config' = config
      /\ UNCHANGED <<written, marks, stale, document, reference, log, counted, emitted>>
      /\ actions' \in Levels
  BY DEF CaptureActions, Go, KeepLedger
<1>2. Moves(p, q)
  BY <1>1, PhasesMoveForward DEF Moves
<1>3. TypeOK'
  BY <1>1, <1>2, TypesFrame, Types DEF LedgerInv
<1>4. Products' /\ Documents' /\ Emissions' /\ Counts'
  BY <1>1, <1>2, ProductsFrame, DocumentsFrame, EmissionsFrame, CountsFrame DEF LedgerInv
<1>5. \A o \in Writers : SameFlags(o) /\ marks'[o].event = marks[o].event
           /\ marks'[o].mirrored = marks[o].mirrored /\ marks'[o].bias = marks[o].bias
  BY <1>1 DEF SameFlags
<1>6. Events' /\ Biases'
  BY <1>1, <1>2, <1>5, Types, EventsFrame, BiasesFrame DEF LedgerInv
<1> QED BY <1>3, <1>4, <1>6 DEF LedgerInv

LEMMA CountEntriesKeepsLedger ==
  ASSUME LedgerInv, CountEntries PROVE LedgerInv'
<1> DEFINE p == "count"  q == "controls"
<1>1. /\ at = p /\ at' = q /\ passed' = passed \cup {p} /\ config' = config
      /\ UNCHANGED <<written, marks, stale, document, reference, actions, log, emitted>>
      /\ counted' = IF written = {} THEN counted ELSE written
  BY DEF CountEntries, Go, KeepLedger
<1>2. Moves(p, q)
  BY <1>1, PhasesMoveForward DEF Moves
<1>3. counted' \subseteq Writers
  BY <1>1, Types DEF LedgerInv
<1>4. TypeOK'
  BY <1>1, <1>2, <1>3, TypesFrame, Types DEF LedgerInv
<1>5. Products' /\ Documents' /\ Emissions'
  BY <1>1, <1>2, ProductsFrame, DocumentsFrame, EmissionsFrame DEF LedgerInv
<1>6. \A o \in Writers : SameFlags(o) /\ marks'[o].event = marks[o].event
           /\ marks'[o].mirrored = marks[o].mirrored /\ marks'[o].bias = marks[o].bias
  BY <1>1 DEF SameFlags
<1>7. Events' /\ Biases'
  BY <1>1, <1>2, <1>6, Types, EventsFrame, BiasesFrame DEF LedgerInv
<1>8. Counts'
  <2>1. q \notin UpToCount
    BY DEF UpToCount
  <2> QED BY <1>1, <2>1 DEF LedgerInv, Counts
<1> QED BY <1>4, <1>5, <1>7, <1>8 DEF LedgerInv

LEMMA EmitEntriesKeepsLedger ==
  ASSUME LedgerInv, EmitEntries PROVE LedgerInv'
<1> DEFINE p == "emitEntries"  q == "documentFraud"
<1>1. /\ at = p /\ at' = q /\ passed' = passed \cup {p} /\ config' = config
      /\ UNCHANGED <<written, marks, stale, document, reference, actions, log, counted>>
      /\ Emit(written)
  BY DEF EmitEntries, Go, KeepLedger
<1>2. Moves(p, q)
  BY <1>1, PhasesMoveForward DEF Moves
<1>3. PICK sent \in SUBSET written :
        emitted' = [o \in Writers |-> IF o \in sent THEN emitted[o] + 1 ELSE emitted[o]]
  BY <1>1 DEF Emit
<1>4. emitted' \in [Writers -> Nat]
  BY <1>3, Types DEF LedgerInv
<1>5. TypeOK'
  BY <1>1, <1>2, <1>4, TypesFrame, Types DEF LedgerInv
<1>6. Products' /\ Documents' /\ Counts'
  BY <1>1, <1>2, ProductsFrame, DocumentsFrame, CountsFrame DEF LedgerInv
<1>7. \A o \in Writers : SameFlags(o) /\ marks'[o].event = marks[o].event
           /\ marks'[o].mirrored = marks[o].mirrored /\ marks'[o].bias = marks[o].bias
  BY <1>1 DEF SameFlags
<1>8. Events' /\ Biases'
  BY <1>1, <1>2, <1>7, Types, EventsFrame, BiasesFrame DEF LedgerInv
<1>9. Emissions'
  <2>1. p \in UpToEmit /\ p \in UpToClose /\ q \notin UpToEmit /\ "close" \in Writers
    BY DEF UpToEmit, UpToClose, UpToDocuments, UpToAnomalies, UpToFraud, UpToCount, Writers
  <2>2. (\A o \in Writers : emitted[o] = 0) /\ "close" \notin written
    BY <1>1, <2>1 DEF LedgerInv, Emissions
  <2>3. \A o \in Writers : emitted'[o] <= 1
    BY <1>3, <2>2
  <2>4. emitted'["close"] = 0 /\ "close" \notin written'
    BY <1>1, <1>3, <2>1, <2>2
  <2> QED BY <1>1, <2>1, <2>3, <2>4 DEF Emissions, EmittedAtMostOnce
<1> QED BY <1>5, <1>6, <1>8, <1>9 DEF LedgerInv

(* The closing entries are appended, emitted and counted. *)
LEMMA PeriodCloseKeepsLedger ==
  ASSUME LedgerInv, PeriodClose PROVE LedgerInv'
<1> DEFINE p == "periodClose"  q == "assertions"
<1>1. /\ at = p /\ at' = q /\ passed' = passed \cup {p} /\ config' = config
      /\ UNCHANGED <<document, reference, actions, log>>
  BY DEF PeriodClose, Go
<1>2. Moves(p, q)
  BY <1>1, PhasesMoveForward DEF Moves
<1>3. PICK W \in SUBSET {"close"} :
        /\ Append(W)
        /\ IF W = {} THEN UNCHANGED <<counted, emitted>>
                     ELSE counted' = written' /\ Emit(W)
  BY DEF PeriodClose, MayWrite
<1>4. W \in SUBSET Writers /\ "standalone" \notin W /\ "flow" \notin W
  BY <1>3 DEF Writers
<1>5. /\ written' = written \cup W
      /\ marks' \in [Writers -> Marks]
      /\ stale' \in {stale, passed}
      /\ \A o \in Writers :
           /\ marks'[o].bias = marks[o].bias /\ marks'[o].anomaly = marks[o].anomaly
           /\ marks'[o].event = marks[o].event /\ marks'[o].mirrored = marks[o].mirrored
           /\ marks'[o].fraud = marks[o].fraud
  BY <1>3, <1>4, AppendMarks DEF LedgerInv
<1>6. written \subseteq written' /\ written' \subseteq Writers
  BY <1>4, <1>5, Types DEF LedgerInv
<1>7. /\ (counted' = counted /\ W = {}) \/ counted' = written'
      /\ \/ emitted' = emitted
         \/ \E sent \in SUBSET W :
              emitted' = [o \in Writers |-> IF o \in sent THEN emitted[o] + 1 ELSE emitted[o]]
  BY <1>3 DEF Emit
<1>8. emitted' \in [Writers -> Nat] /\ counted' \subseteq Writers
  BY <1>6, <1>7, Types DEF LedgerInv
<1>9. TypeOK'
  BY <1>1, <1>2, <1>5, <1>6, <1>8, TypesFrame, Types DEF LedgerInv
<1>10. p \in UpToClose /\ p \in UpToSweep /\ q \notin UpToClose /\ q \notin UpToCount
  BY DEF UpToSweep, UpToMirror, UpToClose, UpToDocuments, UpToAnomalies, UpToFraud,
         UpToEmit, UpToCount
<1>11. Products'
  BY <1>2, <1>5, <1>10, ProductsFrame DEF LedgerInv
<1>12. Documents'
  <2>1. marks'["flow"].fraud = marks["flow"].fraud
    BY <1>5 DEF Writers
  <2> QED BY <1>1, <1>2, <1>4, <1>5, <2>1, DocumentsFrame DEF LedgerInv
<1>13. \A o \in Writers : SameFlags(o)
  BY <1>5 DEF SameFlags
<1>14. Events'
  BY <1>1, <1>2, <1>5, <1>6, <1>13, EventsFrame DEF LedgerInv
<1>15. Biases'
  BY <1>2, <1>5, <1>6, <1>10, <1>13, BiasesFrame DEF LedgerInv
<1>16. Emissions'
  <2>1. /\ emitted["close"] = 0 /\ emitted \in [Writers -> Nat]
        /\ \A o \in Writers : emitted[o] <= 1
    BY <1>1, <1>10, Types DEF LedgerInv, Emissions, EmittedAtMostOnce
  <2>2. \A o \in Writers : emitted'[o] <= 1
    <3>1. ASSUME NEW sent \in SUBSET W,
                 emitted' = [o \in Writers |-> IF o \in sent THEN emitted[o] + 1 ELSE emitted[o]]
          PROVE  \A o \in Writers : emitted'[o] <= 1
      <4>1. \A o \in sent : o = "close"
        BY <1>3
      <4>2. \A o \in Writers : IF o \in sent THEN emitted'[o] = 1 ELSE emitted'[o] = emitted[o]
        <5> SUFFICES ASSUME NEW o \in Writers
                     PROVE  IF o \in sent THEN emitted'[o] = 1 ELSE emitted'[o] = emitted[o]
          OBVIOUS
        <5>1. emitted'[o] = IF o \in sent THEN emitted[o] + 1 ELSE emitted[o]
          BY <3>1, Zenon
        <5>2. o \in sent => emitted[o] = 0
          BY <2>1, <4>1
        <5> QED BY <5>1, <5>2
      <4> QED BY <2>1, <4>2
    <3> QED BY <1>7, <2>1, <3>1
  <2>3. q \notin UpToEmit
    BY DEF UpToEmit, UpToCount
  <2> QED BY <1>1, <1>10, <2>2, <2>3 DEF Emissions, EmittedAtMostOnce
<1>17. Counts'
  BY <1>1, <1>2, <1>5, <1>7, <1>10 DEF LedgerInv, Counts, Moves, Forward
<1> QED BY <1>9, <1>11, <1>12, <1>14, <1>15, <1>16, <1>17 DEF LedgerInv
-----------------------------------------------------------------------------
(* Fraud and anomalies. *)

LEMMA DocumentFraudKeepsLedger ==
  ASSUME LedgerInv, DocumentFraud PROVE LedgerInv'
<1> DEFINE p == "documentFraud"  q == "anomalies"
           reached == document' = "document" /\ config.toLines /\ ~IsFraud("flow")
<1>1. /\ at = p /\ at' = q /\ passed' = passed \cup {p} /\ config' = config
      /\ UNCHANGED <<written, reference, actions, log, counted, emitted>>
      /\ document' \in {"none"} \cup IF "flow" \in written THEN {"document"} ELSE {}
      /\ marks' = [marks EXCEPT !["flow"].fraud = IF reached THEN "document" ELSE @]
      /\ stale' \in {stale, passed}
  BY DEF DocumentFraud, Go, Outdate
<1>2. Moves(p, q)
  BY <1>1, PhasesMoveForward DEF Moves
<1>3. marks \in [Writers -> Marks] /\ "flow" \in Writers
  BY Types DEF LedgerInv, Writers
<1>4. marks["flow"] \in Marks
  BY <1>3
<1> HIDE DEF reached
<1>5. /\ \A o \in Writers \ {"flow"} : marks'[o] = marks[o]
      /\ marks'["flow"] = [marks["flow"] EXCEPT !.fraud =
           IF reached THEN "document" ELSE marks["flow"].fraud]
      /\ DOMAIN marks' = Writers
  BY <1>1, <1>3
<1>6. marks'["flow"] \in Marks
  BY <1>4, <1>5 DEF Marks, Frauds
<1>7. marks' \in [Writers -> Marks]
  BY <1>1, <1>3, <1>4, <1>5, <1>6
<1>8. /\ marks'["flow"].bias = marks["flow"].bias
      /\ marks'["flow"].anomaly = marks["flow"].anomaly
      /\ marks'["flow"].event = marks["flow"].event
      /\ marks'["flow"].mirrored = marks["flow"].mirrored
      /\ marks'["flow"].fraud = IF reached THEN "document" ELSE marks["flow"].fraud
  BY <1>4, <1>5 DEF Marks
<1>9. document' \in Frauds
  BY <1>1 DEF Frauds
<1>10. TypeOK'
  BY <1>1, <1>2, <1>7, <1>9, TypesFrame, Types DEF LedgerInv
<1>11. /\ p \in UpToFraud /\ p \in UpToAnomalies /\ p \in UpToDocuments /\ p \in UpToMirror
       /\ p \in UpToSweep /\ q \notin UpToFraud /\ q \in UpToDocuments
  BY DEF UpToSweep, UpToMirror, UpToClose, UpToDocuments, UpToAnomalies, UpToFraud,
         UpToEmit, UpToCount
<1>12. Products' /\ Emissions' /\ Counts'
  BY <1>1, <1>2, <1>11, ProductsFrame, EmissionsFrame, CountsFrame DEF LedgerInv
<1>13. \A o \in Writers :
         /\ marks'[o].bias = marks[o].bias /\ marks'[o].event = marks[o].event
         /\ marks'[o].mirrored = marks[o].mirrored
         /\ SameFlags(o) \/ (p \in UpToMirror /\ o \in written')
  BY <1>1, <1>5, <1>8, <1>11 DEF SameFlags, reached
<1>14. Events'
  BY <1>1, <1>2, <1>13, Types, EventsFrame DEF LedgerInv
<1>15. Biases'
  BY <1>1, <1>2, <1>11, <1>13, Types, BiasesFrame DEF LedgerInv
<1>16. Documents'
  <2>1. reference /\ "toDocuments" \notin passed
    BY <1>1, <1>11 DEF LedgerInv, Documents
  <2>2. config'.toLines /\ document' # "none" => marks'["flow"].fraud # "none"
    BY <1>1, <1>8 DEF reached, IsFraud
  <2>3. "toDocuments" \notin passed'
    BY <1>1, <2>1
  <2> QED
    BY <1>1, <1>11, <2>1, <2>2, <2>3 DEF Documents, DocumentAgreesWithEntry, IsFraud
<1> QED BY <1>10, <1>12, <1>14, <1>15, <1>16 DEF LedgerInv

LEMMA InjectedMark ==
  ASSUME NEW m \in Marks, NEW kind \in {"none", "fraud", "error", "rarity"}
  PROVE  /\ Injected(m, kind) \in Marks
         /\ Injected(m, kind).event = m.event /\ Injected(m, kind).mirrored = m.mirrored
         /\ Injected(m, kind).fraud \in {m.fraud, "injected"}
         /\ \/ Injected(m, kind).bias = m.bias
            \/ /\ Injected(m, kind).bias = m.bias \cup {"inline"}
               /\ Injected(m, kind).fraud = "injected"
               /\ Injected(m, kind).anomaly = "labelled"
BY DEF Injected, Marks, Frauds, Anomalies, Passes

LEMMA InjectAnomaliesKeepsLedger ==
  ASSUME LedgerInv, InjectAnomalies PROVE LedgerInv'
<1> DEFINE p == "anomalies"  q == "firstSweep"
<1>1. PICK kind \in [written -> {"none", "fraud", "error", "rarity"}] :
        marks' = [o \in Writers |->
                    IF o \in written THEN Injected(marks[o], kind[o]) ELSE marks[o]]
  BY DEF InjectAnomalies
<1>2. /\ at = p /\ at' = q /\ passed' = passed \cup {p} /\ config' = config
      /\ UNCHANGED <<written, document, reference, actions, log, counted, emitted>>
      /\ stale' \in {stale, passed}
  BY DEF InjectAnomalies, Go, Outdate, KeepRest
<1>3. Moves(p, q)
  BY <1>2, PhasesMoveForward DEF Moves
<1>4. marks \in [Writers -> Marks] /\ written \subseteq Writers
  BY Types DEF LedgerInv
<1>5. \A o \in Writers :
        /\ marks'[o] \in Marks
        /\ marks'[o].event = marks[o].event /\ marks'[o].mirrored = marks[o].mirrored
        /\ marks'[o].fraud \in {marks[o].fraud, "injected"}
        /\ \/ marks'[o].bias = marks[o].bias
           \/ /\ marks'[o].bias = marks[o].bias \cup {"inline"}
              /\ marks'[o].fraud = "injected" /\ marks'[o].anomaly = "labelled"
        /\ o \notin written => SameFlags(o)
  <2> SUFFICES ASSUME NEW o \in Writers
      PROVE  /\ marks'[o] \in Marks
             /\ marks'[o].event = marks[o].event /\ marks'[o].mirrored = marks[o].mirrored
             /\ marks'[o].fraud \in {marks[o].fraud, "injected"}
             /\ \/ marks'[o].bias = marks[o].bias
                \/ /\ marks'[o].bias = marks[o].bias \cup {"inline"}
                   /\ marks'[o].fraud = "injected" /\ marks'[o].anomaly = "labelled"
             /\ o \notin written => SameFlags(o)
    OBVIOUS
  <2>1. CASE o \in written
    BY <1>1, <1>4, <2>1, InjectedMark
  <2>2. CASE o \notin written
    BY <1>1, <1>4, <2>2 DEF SameFlags
  <2> QED BY <2>1, <2>2
<1>6. marks' \in [Writers -> Marks]
  BY <1>1, <1>5
<1>7. TypeOK'
  BY <1>2, <1>3, <1>6, TypesFrame, Types DEF LedgerInv
<1>8. /\ p \in UpToAnomalies /\ p \in UpToDocuments /\ p \in UpToMirror /\ p \in UpToSweep
      /\ q \notin UpToAnomalies /\ q \notin UpToFraud
  BY DEF UpToSweep, UpToMirror, UpToClose, UpToDocuments, UpToAnomalies, UpToFraud,
         UpToEmit, UpToCount
<1>9. Products' /\ Emissions' /\ Counts'
  BY <1>2, <1>3, <1>8, ProductsFrame, EmissionsFrame, CountsFrame DEF LedgerInv
<1>10. Events'
  BY <1>2, <1>3, <1>4, <1>5, <1>8, EventsFrame DEF LedgerInv
<1>11. Biases'
  <2>1. \A o \in Writers : marks[o].bias = {}
    BY <1>2, <1>8 DEF LedgerInv, Biases
  <2>2. \A o \in Writers : "inline" \in marks'[o].bias =>
          /\ marks'[o].bias = {"inline"} /\ marks'[o].fraud = "injected"
          /\ marks'[o].anomaly # "none"
    BY <1>5, <2>1
  <2>3. "finalSweep" \notin passed'
    BY <1>2, <1>8 DEF LedgerInv, Products
  <2> QED BY <1>2, <1>8, <2>2, <2>3 DEF Biases, IsAnomaly
<1>12. Documents'
  <2>1. /\ reference /\ "toDocuments" \notin passed
        /\ config.toLines /\ document # "none" => marks["flow"].fraud # "none"
    BY <1>2, <1>8 DEF LedgerInv, Documents, IsFraud
  <2>2. marks["flow"].fraud # "none" => marks'["flow"].fraud # "none"
    BY <1>5 DEF Writers
  <2>3. "toDocuments" \notin passed'
    BY <1>2, <2>1
  <2> QED
    BY <1>2, <1>8, <2>1, <2>2, <2>3 DEF Documents, DocumentAgreesWithEntry, IsFraud
<1> QED BY <1>7, <1>9, <1>10, <1>11, <1>12 DEF LedgerInv

LEMMA SweepMarks ==
  ASSUME TypeOK, NEW pass \in Passes, Sweep(pass)
  PROVE  /\ written' = written /\ stale' \in {stale, passed}
         /\ marks' \in [Writers -> Marks]
         /\ \A o \in Writers :
              /\ SameFlags(o)
              /\ marks'[o].event = marks[o].event /\ marks'[o].mirrored = marks[o].mirrored
              /\ marks'[o].bias = IF o \in Unbiased THEN marks[o].bias \cup {pass}
                                                    ELSE marks[o].bias
<1> DEFINE U == Unbiased
<1>1. /\ marks' = [o \in Writers |->
                     IF o \in U THEN [marks[o] EXCEPT !.bias = @ \cup {pass}] ELSE marks[o]]
      /\ written' = written /\ stale' \in {stale, passed}
  BY DEF Sweep, Outdate
<1> HIDE DEF U
<1>2. \A m \in Marks :
        /\ [m EXCEPT !.bias = @ \cup {pass}] \in Marks
        /\ [m EXCEPT !.bias = @ \cup {pass}].fraud = m.fraud
        /\ [m EXCEPT !.bias = @ \cup {pass}].anomaly = m.anomaly
        /\ [m EXCEPT !.bias = @ \cup {pass}].event = m.event
        /\ [m EXCEPT !.bias = @ \cup {pass}].mirrored = m.mirrored
        /\ [m EXCEPT !.bias = @ \cup {pass}].bias = m.bias \cup {pass}
  BY DEF Marks
<1>3. ASSUME NEW o \in Writers
      PROVE  /\ marks'[o] \in Marks
             /\ SameFlags(o)
             /\ marks'[o].event = marks[o].event /\ marks'[o].mirrored = marks[o].mirrored
             /\ marks'[o].bias = IF o \in U THEN marks[o].bias \cup {pass} ELSE marks[o].bias
  <2>1. marks[o] \in Marks
    BY Types
  <2>2. CASE o \in U
    <3>1. marks'[o] = [marks[o] EXCEPT !.bias = @ \cup {pass}]
      BY <1>1, <2>2
    <3> QED BY <1>2, <2>1, <2>2, <3>1 DEF SameFlags
  <2>3. CASE o \notin U
    BY <1>1, <2>1, <2>3 DEF SameFlags
  <2> QED BY <2>2, <2>3
<1>4. marks' \in [Writers -> Marks]
  BY <1>1, <1>3
<1> QED BY <1>1, <1>3, <1>4 DEF U

LEMMA SweptBiases ==
  ASSUME LedgerInv, NEW p, NEW q, NEW pass \in {"first", "final"},
         passed' = passed \cup {p}, at' = q, q \notin UpToAnomalies,
         p = "finalSweep" => pass = "final", at = p, p \in UpToSweep,
         written' = written,
         \A o \in Writers :
           /\ SameFlags(o)
           /\ marks'[o].bias = IF o \in Unbiased THEN marks[o].bias \cup {pass}
                                                 ELSE marks[o].bias
  PROVE  Biases'
<1>1. "finalSweep" \in passed' => pass = "final"
  BY DEF LedgerInv, Products
<1>2. written \subseteq Writers
  BY Types DEF LedgerInv
<1>3. \A o \in Writers : "inline" \in marks[o].bias =>
        marks[o].bias = {"inline"} /\ marks[o].fraud = "injected" /\ marks[o].anomaly # "none"
  BY DEF LedgerInv, Biases, IsAnomaly
<1>4. \A o \in Writers :
        o \in Unbiased <=> o \in written /\ marks[o].fraud # "none" /\ marks[o].anomaly = "none"
  BY DEF Unbiased, IsFraud, IsAnomaly
<1>5. (\A o \in Writers : "inline" \in marks[o].bias =>
         marks[o].bias = {"inline"} /\ marks[o].fraud = "injected" /\ IsAnomaly(o))'
  <2> SUFFICES ASSUME NEW o \in Writers, "inline" \in marks'[o].bias
               PROVE  /\ marks'[o].bias = {"inline"} /\ marks'[o].fraud = "injected"
                      /\ marks'[o].anomaly # "none"
    BY DEF IsAnomaly
  <2>a. marks'[o].bias = IF o \in Unbiased THEN marks[o].bias \cup {pass} ELSE marks[o].bias
    BY Zenon
  <2>b. "inline" # pass
    OBVIOUS
  <2>1. "inline" \in marks[o].bias
    BY <2>a, <2>b
  <2>2. marks[o].bias = {"inline"} /\ marks[o].fraud = "injected" /\ marks[o].anomaly # "none"
    BY <1>3, <2>1
  <2>3. o \notin Unbiased
    BY <1>4, <2>2
  <2>4. SameFlags(o)
    OBVIOUS
  <2> QED BY <2>2, <2>3, <2>4, <2>a DEF SameFlags
<1>6. (\A o \in written : IsFraud(o) /\ ~IsAnomaly(o) /\ "finalSweep" \in passed =>
         "final" \in marks[o].bias)'
  BY <1>1, <1>2, <1>4 DEF IsFraud, IsAnomaly, SameFlags
<1> QED BY <1>5, <1>6 DEF Biases

LEMMA FirstSweepKeepsLedger ==
  ASSUME LedgerInv, FirstSweep PROVE LedgerInv'
<1> DEFINE p == "firstSweep"  q == "toDocuments"
<1>1. /\ at = p /\ at' = q /\ passed' = passed \cup {p} /\ config' = config
      /\ UNCHANGED <<document, reference, actions, log, counted, emitted>>
      /\ Sweep("first")
  BY DEF FirstSweep, Go, KeepRest
<1>2. Moves(p, q)
  BY <1>1, PhasesMoveForward DEF Moves
<1>3. /\ written' = written /\ stale' \in {stale, passed}
      /\ marks' \in [Writers -> Marks]
      /\ \A o \in Writers :
           /\ SameFlags(o)
           /\ marks'[o].event = marks[o].event /\ marks'[o].mirrored = marks[o].mirrored
           /\ marks'[o].bias = IF o \in Unbiased THEN marks[o].bias \cup {"first"}
                                                 ELSE marks[o].bias
  BY <1>1, SweepMarks DEF LedgerInv, Passes
<1>4. TypeOK'
  BY <1>1, <1>2, <1>3, TypesFrame, Types DEF LedgerInv
<1>5. p \in UpToSweep /\ q \notin UpToAnomalies
  BY DEF UpToSweep, UpToMirror, UpToClose, UpToDocuments, UpToAnomalies, UpToFraud,
         UpToEmit, UpToCount
<1>6. Products' /\ Emissions' /\ Counts'
  BY <1>1, <1>2, <1>3, <1>5, ProductsFrame, EmissionsFrame, CountsFrame DEF LedgerInv
<1>7. Documents'
  BY <1>1, <1>2, <1>3, DocumentsFrame DEF LedgerInv, SameFlags, Writers
<1>8. Events'
  BY <1>1, <1>2, <1>3, Types, EventsFrame DEF LedgerInv
<1>9. Biases'
  BY <1>1, <1>3, <1>5, SweptBiases DEF LedgerInv
<1> QED BY <1>4, <1>6, <1>7, <1>8, <1>9 DEF LedgerInv

LEMMA FinalSweepKeepsLedger ==
  ASSUME LedgerInv, FinalSweep PROVE LedgerInv'
<1> DEFINE p == "finalSweep"  q == "cashFlow"
<1>1. /\ at = p /\ at' = q /\ passed' = passed \cup {p} /\ config' = config
      /\ UNCHANGED <<document, reference, actions, log, counted, emitted>>
      /\ Sweep("final")
  BY DEF FinalSweep, Go, KeepRest
<1>2. Moves(p, q)
  BY <1>1, PhasesMoveForward DEF Moves
<1>3. /\ written' = written /\ stale' \in {stale, passed}
      /\ marks' \in [Writers -> Marks]
      /\ \A o \in Writers :
           /\ SameFlags(o)
           /\ marks'[o].event = marks[o].event /\ marks'[o].mirrored = marks[o].mirrored
           /\ marks'[o].bias = IF o \in Unbiased THEN marks[o].bias \cup {"final"}
                                                 ELSE marks[o].bias
  BY <1>1, SweepMarks DEF LedgerInv, Passes
<1>4. TypeOK'
  BY <1>1, <1>2, <1>3, TypesFrame, Types DEF LedgerInv
<1>5. p \in UpToSweep /\ q \notin UpToAnomalies
  BY DEF UpToSweep, UpToMirror, UpToClose, UpToDocuments, UpToAnomalies, UpToFraud,
         UpToEmit, UpToCount
<1>6. Products' /\ Emissions' /\ Counts'
  BY <1>1, <1>2, <1>3, <1>5, ProductsFrame, EmissionsFrame, CountsFrame DEF LedgerInv
<1>7. Documents'
  BY <1>1, <1>2, <1>3, DocumentsFrame DEF LedgerInv, SameFlags, Writers
<1>8. Events'
  BY <1>1, <1>2, <1>3, Types, EventsFrame DEF LedgerInv
<1>9. Biases'
  BY <1>1, <1>3, <1>5, SweptBiases DEF LedgerInv
<1> QED BY <1>4, <1>6, <1>7, <1>8, <1>9 DEF LedgerInv

LEMMA PropagateToDocumentsKeepsLedger ==
  ASSUME LedgerInv, PropagateToDocuments PROVE LedgerInv'
<1> DEFINE p == "toDocuments"  q == "redFlags"
<1>1. /\ at = p /\ at' = q /\ passed' = passed \cup {p} /\ config' = config
      /\ UNCHANGED <<written, marks, stale, reference, actions, log, counted, emitted>>
      /\ document' = IF /\ config.toDocuments
                        /\ "flow" \in written
                        /\ IsFraud("flow")
                        /\ reference
                     THEN marks["flow"].fraud
                     ELSE document
  BY DEF PropagateToDocuments, Go, KeepLedger
<1>2. Moves(p, q)
  BY <1>1, PhasesMoveForward DEF Moves
<1>3. document' \in Frauds
  <2>1. marks["flow"] \in Marks
    BY Types DEF LedgerInv, Writers
  <2>2. marks["flow"].fraud \in Frauds
    BY <2>1 DEF Marks
  <2> QED BY <1>1, <2>2, Types DEF LedgerInv
<1>4. TypeOK'
  BY <1>1, <1>2, <1>3, TypesFrame, Types DEF LedgerInv
<1>5. Products' /\ Emissions' /\ Counts'
  BY <1>1, <1>2, ProductsFrame, EmissionsFrame, CountsFrame DEF LedgerInv
<1>6. \A o \in Writers : SameFlags(o) /\ marks'[o].event = marks[o].event
           /\ marks'[o].mirrored = marks[o].mirrored /\ marks'[o].bias = marks[o].bias
  BY <1>1 DEF SameFlags
<1>7. Events' /\ Biases'
  BY <1>1, <1>2, <1>6, Types, EventsFrame, BiasesFrame DEF LedgerInv
<1>8. Documents'
  <2>1. p \in UpToDocuments /\ q \notin UpToDocuments /\ q \notin UpToFraud
    BY DEF UpToDocuments, UpToAnomalies, UpToFraud, UpToEmit, UpToCount
  <2>2. reference /\ (config.toLines /\ document # "none" => marks["flow"].fraud # "none")
    BY <1>1, <2>1 DEF LedgerInv, Documents, IsFraud
  <2>3. config.toLines /\ config.toDocuments /\ "flow" \in written
          => document' = marks["flow"].fraud
    BY <1>1, <2>2 DEF IsFraud
  <2> QED BY <1>1, <2>1, <2>3 DEF Documents, DocumentAgreesWithEntry
<1> QED BY <1>4, <1>5, <1>7, <1>8 DEF LedgerInv

(* The corrupted references come after their last use but one. *)
LEMMA DataQualityKeepsLedger ==
  ASSUME LedgerInv, DataQuality PROVE LedgerInv'
<1> DEFINE p == "dataQuality"  q == "periodClose"
<1>1. /\ at = p /\ at' = q /\ passed' = passed \cup {p} /\ config' = config
      /\ UNCHANGED <<written, marks, stale, document, actions, log, counted, emitted>>
      /\ reference' \in {reference, FALSE}
  BY DEF DataQuality, Go, KeepLedger
<1>2. Moves(p, q)
  BY <1>1, PhasesMoveForward DEF Moves
<1>3. reference' \in BOOLEAN
  BY <1>1, Types DEF LedgerInv
<1>4. TypeOK'
  BY <1>1, <1>2, <1>3, TypesFrame, Types DEF LedgerInv
<1>5. p \notin UpToDocuments
  BY DEF UpToDocuments, UpToAnomalies, UpToFraud, UpToEmit, UpToCount
<1>6. Products' /\ Documents' /\ Emissions' /\ Counts'
  BY <1>1, <1>2, <1>5, ProductsFrame, DocumentsFrame, EmissionsFrame, CountsFrame DEF LedgerInv
<1>7. \A o \in Writers : SameFlags(o) /\ marks'[o].event = marks[o].event
           /\ marks'[o].mirrored = marks[o].mirrored /\ marks'[o].bias = marks[o].bias
  BY <1>1 DEF SameFlags
<1>8. Events' /\ Biases'
  BY <1>1, <1>2, <1>7, Types, EventsFrame, BiasesFrame DEF LedgerInv
<1> QED BY <1>4, <1>6, <1>8 DEF LedgerInv
-----------------------------------------------------------------------------
(* The event log. *)

LEMMA OcpmEventsKeepsLedger ==
  ASSUME LedgerInv, OcpmEvents PROVE LedgerInv'
<1> DEFINE p == "ocpm"  q == "backAnnotate"
<1>1. /\ at = p /\ at' = q /\ passed' = passed \cup {p} /\ config' = config
      /\ UNCHANGED <<written, marks, stale, document, reference, actions, counted, emitted>>
      /\ log' \in BOOLEAN
  BY DEF OcpmEvents, Go, KeepLedger
<1>2. Moves(p, q)
  BY <1>1, PhasesMoveForward DEF Moves
<1>3. TypeOK'
  BY <1>1, <1>2, TypesFrame, Types DEF LedgerInv
<1>4. p \in UpToMirror
  BY DEF UpToMirror
<1>5. Products' /\ Documents' /\ Emissions' /\ Counts'
  BY <1>1, <1>2, ProductsFrame, DocumentsFrame, EmissionsFrame, CountsFrame DEF LedgerInv
<1>6. \A o \in Writers : SameFlags(o) /\ marks'[o].event = marks[o].event
           /\ marks'[o].mirrored = marks[o].mirrored /\ marks'[o].bias = marks[o].bias
  BY <1>1 DEF SameFlags
<1>7. Events' /\ Biases'
  BY <1>1, <1>2, <1>4, <1>6, Types, EventsFrame, BiasesFrame DEF LedgerInv
<1> QED BY <1>3, <1>5, <1>7 DEF LedgerInv

(* A change of the event or the mirrored flag of entries touches nothing   *)
(* but the part about events. *)
LEMMA EventChangeKeeps ==
  ASSUME NEW p, NEW q, LedgerInv, Moves(p, q),
         p \notin {"count", "toDocuments", "finalSweep"},
         UNCHANGED <<written, stale, document, reference, actions, log, counted, emitted>>,
         marks' \in [Writers -> Marks],
         \A o \in Writers : SameFlags(o) /\ marks'[o].bias = marks[o].bias,
         Events'
  PROVE  LedgerInv'
<1>1. TypeOK'
  BY TypesFrame, Types DEF LedgerInv
<1>2. marks'["flow"].fraud = marks["flow"].fraud
  BY DEF SameFlags, Writers
<1>3. Products' /\ Documents' /\ Emissions' /\ Counts'
  BY <1>2, ProductsFrame, DocumentsFrame, EmissionsFrame, CountsFrame DEF LedgerInv
<1>4. Biases'
  BY Types, BiasesFrame DEF LedgerInv
<1> QED BY <1>1, <1>3, <1>4 DEF LedgerInv

LEMMA BackAnnotateKeepsLedger ==
  ASSUME LedgerInv, BackAnnotate PROVE LedgerInv'
<1> DEFINE p == "backAnnotate"  q == "synthesize"
<1>1. /\ at = p /\ at' = q /\ passed' = passed \cup {p} /\ config' = config
      /\ UNCHANGED <<written, stale, document, reference, actions, log, counted, emitted>>
      /\ marks' = marks \/ marks' = [marks EXCEPT !["flow"].event = "process"]
  BY DEF BackAnnotate, Go, KeepRest
<1>2. Moves(p, q)
  BY <1>1, PhasesMoveForward DEF Moves
<1>3. marks \in [Writers -> Marks] /\ "flow" \in Writers
  BY Types DEF LedgerInv, Writers
<1>4. \A m \in Marks :
        /\ [m EXCEPT !.event = "process"] \in Marks
        /\ [m EXCEPT !.event = "process"].fraud = m.fraud
        /\ [m EXCEPT !.event = "process"].anomaly = m.anomaly
        /\ [m EXCEPT !.event = "process"].bias = m.bias
  BY DEF Marks
<1>5. \A o \in Writers :
        marks'[o] = marks[o] \/ marks'[o] = [marks[o] EXCEPT !.event = "process"]
  BY <1>1, <1>3
<1>6. \A o \in Writers :
        marks'[o] \in Marks /\ SameFlags(o) /\ marks'[o].bias = marks[o].bias
  BY <1>3, <1>4, <1>5 DEF SameFlags
<1>7. marks' \in [Writers -> Marks]
  BY <1>1, <1>3, <1>6
<1>8. p \in UpToMirror
  BY DEF UpToMirror
<1>9. Events'
  BY <1>1, <1>2, <1>6, <1>8, Types, EventsFrame DEF LedgerInv
<1> QED BY <1>1, <1>2, <1>6, <1>7, <1>9, EventChangeKeeps

LEMMA SynthesizeKeepsLedger ==
  ASSUME LedgerInv, Synthesize PROVE LedgerInv'
<1> DEFINE p == "synthesize"  q == "mirror"
<1>1. /\ at = p /\ at' = q /\ passed' = passed \cup {p} /\ config' = config
      /\ UNCHANGED <<written, stale, document, reference, actions, log, counted, emitted>>
      /\ marks' = [o \in Writers |->
                     IF log /\ o \in written /\ marks[o].event = "none"
                     THEN [marks[o] EXCEPT !.event = "synthetic"] ELSE marks[o]]
  BY DEF Synthesize, Go, KeepRest
<1>2. Moves(p, q)
  BY <1>1, PhasesMoveForward DEF Moves
<1>3. marks \in [Writers -> Marks] /\ written \subseteq Writers
  BY Types DEF LedgerInv
<1>4. \A m \in Marks :
        /\ [m EXCEPT !.event = "synthetic"] \in Marks
        /\ [m EXCEPT !.event = "synthetic"].fraud = m.fraud
        /\ [m EXCEPT !.event = "synthetic"].anomaly = m.anomaly
        /\ [m EXCEPT !.event = "synthetic"].bias = m.bias
        /\ [m EXCEPT !.event = "synthetic"].event # "none"
  BY DEF Marks
<1>5. \A o \in Writers :
        marks'[o] = IF log /\ o \in written /\ marks[o].event = "none"
                    THEN [marks[o] EXCEPT !.event = "synthetic"] ELSE marks[o]
  BY <1>1
<1>6. \A o \in Writers :
        /\ marks'[o] \in Marks /\ SameFlags(o) /\ marks'[o].bias = marks[o].bias
        /\ log /\ o \in written => marks'[o].event # "none"
  BY <1>3, <1>4, <1>5 DEF SameFlags
<1>7. marks' \in [Writers -> Marks]
  BY <1>1, <1>6
<1>8. Events'
  <2>1. "mirror" \notin passed
    BY <1>1 DEF LedgerInv, Events, UpToMirror
  <2>2. "mirror" \notin passed'
    BY <1>1, <2>1
  <2>3. (\A o \in Writers \ written : ~IsFraud(o) /\ ~IsAnomaly(o))'
    BY <1>1, <1>6 DEF LedgerInv, Events, IsFraud, IsAnomaly, SameFlags
  <2>4. log' => \A o \in written' : marks'[o].event # "none"
    BY <1>1, <1>3, <1>6
  <2> QED BY <2>2, <2>3, <2>4 DEF Events, FlagsReachEventLog
<1> QED BY <1>1, <1>2, <1>6, <1>7, <1>8, EventChangeKeeps

LEMMA MirrorKeepsLedger ==
  ASSUME LedgerInv, Mirror PROVE LedgerInv'
<1> DEFINE p == "mirror"  q == "kpis"
<1>1. /\ at = p /\ at' = q /\ passed' = passed \cup {p} /\ config' = config
      /\ UNCHANGED <<written, stale, document, reference, actions, log, counted, emitted>>
      /\ marks' = [o \in Writers |->
                     IF log /\ o \in written /\ marks[o].event # "none"
                        /\ (IsFraud(o) \/ IsAnomaly(o))
                     THEN [marks[o] EXCEPT !.mirrored = TRUE] ELSE marks[o]]
  BY DEF Mirror, Go, KeepRest
<1>2. Moves(p, q)
  BY <1>1, PhasesMoveForward DEF Moves
<1>3. marks \in [Writers -> Marks] /\ written \subseteq Writers
  BY Types DEF LedgerInv
<1>4. \A m \in Marks :
        /\ [m EXCEPT !.mirrored = TRUE] \in Marks
        /\ [m EXCEPT !.mirrored = TRUE].fraud = m.fraud
        /\ [m EXCEPT !.mirrored = TRUE].anomaly = m.anomaly
        /\ [m EXCEPT !.mirrored = TRUE].bias = m.bias
        /\ [m EXCEPT !.mirrored = TRUE].event = m.event
        /\ [m EXCEPT !.mirrored = TRUE].mirrored
  BY DEF Marks
<1>5. \A o \in Writers :
        marks'[o] = IF log /\ o \in written /\ marks[o].event # "none"
                       /\ (IsFraud(o) \/ IsAnomaly(o))
                    THEN [marks[o] EXCEPT !.mirrored = TRUE] ELSE marks[o]
  BY <1>1
<1>6. \A o \in Writers :
        /\ marks'[o] \in Marks /\ SameFlags(o) /\ marks'[o].bias = marks[o].bias
        /\ marks'[o].event = marks[o].event
        /\ log /\ o \in written /\ marks[o].event # "none" /\ (IsFraud(o) \/ IsAnomaly(o))
             => marks'[o].mirrored
  BY <1>3, <1>4, <1>5 DEF SameFlags
<1>7. marks' \in [Writers -> Marks]
  BY <1>1, <1>6
<1>8. Events'
  <2>1. q \notin UpToMirror
    BY DEF UpToMirror, UpToClose, UpToDocuments, UpToAnomalies, UpToFraud, UpToEmit, UpToCount
  <2>2. (\A o \in Writers \ written : ~IsFraud(o) /\ ~IsAnomaly(o))'
    BY <1>1, <1>6 DEF LedgerInv, Events, IsFraud, IsAnomaly, SameFlags
  <2>3. log => \A o \in written : marks[o].event # "none"
    BY <1>1 DEF LedgerInv, Events
  <2>4. FlagsReachEventLog'
    BY <1>1, <1>3, <1>6, <2>3 DEF FlagsReachEventLog, IsFraud, IsAnomaly, SameFlags
  <2> QED BY <1>1, <2>1, <2>2, <2>4 DEF Events
<1> QED BY <1>1, <1>2, <1>6, <1>7, <1>8, EventChangeKeeps
-----------------------------------------------------------------------------
(* The end, and the theorems. *)

LEMMA AbortKeepsLedger ==
  ASSUME LedgerInv, Abort PROVE LedgerInv'
<1>1. /\ at' = "aborted"
      /\ UNCHANGED <<passed, config, written, marks, document, reference, actions, log,
                     counted, emitted, stale>>
  BY DEF Abort, ledger
<1>2. "aborted" \notin UpToSweep
  BY DEF UpToSweep, UpToMirror, UpToClose, UpToDocuments, UpToAnomalies, UpToFraud,
         UpToEmit, UpToCount
<1>3. /\ "aborted" \notin UpToCount /\ "aborted" \notin UpToEmit /\ "aborted" \notin UpToFraud
      /\ "aborted" \notin UpToAnomalies /\ "aborted" \notin UpToDocuments
      /\ "aborted" \notin UpToClose /\ "aborted" \notin UpToMirror
  BY <1>2, Landmarks DEF UpToFraud
<1>4. TypeOK'
  BY <1>1 DEF LedgerInv, TypeOK, Ended
<1>5. Products' /\ Emissions' /\ Counts'
  BY <1>1, <1>2, <1>3
     DEF LedgerInv, Products, Emissions, EmittedAtMostOnce, Counts
<1>6. Documents'
  BY <1>1, <1>3 DEF LedgerInv, Documents, DocumentAgreesWithEntry
<1>7. Events'
  BY <1>1, <1>3 DEF LedgerInv, Events, FlagsReachEventLog, IsFraud, IsAnomaly
<1>8. Biases'
  BY <1>1, <1>3 DEF LedgerInv, Biases, IsFraud, IsAnomaly
<1> QED BY <1>4, <1>5, <1>6, <1>7, <1>8 DEF LedgerInv

LEMMA StutterKeepsLedger ==
  ASSUME LedgerInv, UNCHANGED vars PROVE LedgerInv'
<1>1. UNCHANGED <<at, passed, config, written, marks, document, reference, actions,
                  log, counted, emitted, stale>>
  BY DEF vars
<1>2. TypeOK' /\ Products' /\ Emissions' /\ Counts'
  BY <1>1 DEF LedgerInv, TypeOK, Products, Emissions, EmittedAtMostOnce, Counts
<1>3. Documents'
  BY <1>1 DEF LedgerInv, Documents, DocumentAgreesWithEntry, IsFraud
<1>4. Events' /\ Biases'
  BY <1>1 DEF LedgerInv, Events, FlagsReachEventLog, Biases, IsFraud, IsAnomaly
<1> QED BY <1>2, <1>3, <1>4 DEF LedgerInv

LEMMA InitEstablishesLedger == Init => LedgerInv
<1> SUFFICES ASSUME Init PROVE LedgerInv
  OBVIOUS
<1>1. TypeOK
  <2>1. Blank \in Marks
    BY DEF Blank, Marks, Frauds, Anomalies, Passes
  <2>2. at \in Phases /\ document \in Frauds /\ actions \in Levels
    BY DEF Init, Phases, Frauds, Levels
  <2> QED BY <2>1, <2>2 DEF Init, TypeOK
<1>2. \A o \in Writers : marks[o].fraud = "none" /\ marks[o].anomaly = "none" /\ marks[o].bias = {}
  BY DEF Init, Blank
<1>3. "flow" \in Writers /\ "close" \in Writers /\ "start" \in UpToCount
  BY DEF Writers, UpToCount
<1>4. Products /\ Documents /\ Emissions /\ Counts
  BY <1>2, <1>3 DEF Init, Products, Documents, DocumentAgreesWithEntry, Emissions,
     EmittedAtMostOnce, Counts
<1>5. Events /\ Biases
  BY <1>2 DEF Init, Events, FlagsReachEventLog, Biases, IsFraud, IsAnomaly
<1> QED BY <1>1, <1>4, <1>5 DEF LedgerInv

LEMMA NextKeepsLedger ==
  ASSUME LedgerInv, [Next]_vars PROVE LedgerInv'
<1>1. CASE Preparation
  BY <1>1, QuietPhasesKeepLedger, WritingPhasesKeepLedger, CaptureActionsKeepsLedger,
     CountEntriesKeepsLedger, EmitEntriesKeepsLedger
     DEF Preparation, QuietPhases, WritingPhases
<1>2. CASE Marking
  BY <1>2, QuietPhasesKeepLedger, DocumentFraudKeepsLedger, InjectAnomaliesKeepsLedger,
     FirstSweepKeepsLedger, PropagateToDocumentsKeepsLedger DEF Marking, QuietPhases
<1>3. CASE Closing
  BY <1>3, QuietPhasesKeepLedger, WritingPhasesKeepLedger, DataQualityKeepsLedger,
     PeriodCloseKeepsLedger DEF Closing, QuietPhases, WritingPhases
<1>4. CASE Linking
  BY <1>4, OcpmEventsKeepsLedger, BackAnnotateKeepsLedger, SynthesizeKeepsLedger,
     MirrorKeepsLedger DEF Linking
<1>5. CASE Finishing
  BY <1>5, QuietPhasesKeepLedger, WritingPhasesKeepLedger, FinalSweepKeepsLedger
     DEF Finishing, QuietPhases, WritingPhases
<1> QED
  BY <1>1, <1>2, <1>3, <1>4, <1>5, AbortKeepsLedger, StutterKeepsLedger DEF Next

(* The invariant holds of every run of generate(). *)
THEOREM LedgerInvariant == Spec => []LedgerInv
<1>1. Init => LedgerInv
  BY InitEstablishesLedger
<1>2. LedgerInv /\ [Next]_vars => LedgerInv'
  BY NextKeepsLedger
<1> QED BY <1>1, <1>2, PTL DEF Spec

(* The variables of the run keep their types. *)
THEOREM LedgerTypeCorrect == Spec => []TypeOK
<1>1. LedgerInv => TypeOK
  BY DEF LedgerInv
<1> QED BY <1>1, LedgerInvariant, PTL

(* With both propagations on, document and entry agree on fraud once phase *)
(* 8 is over (generate() 2792-3012).                                       *)
THEOREM DocumentsAgree == Spec => []DocumentAgreesWithEntry
<1>1. LedgerInv => DocumentAgreesWithEntry
  BY DEF LedgerInv, Documents
<1> QED BY <1>1, LedgerInvariant, PTL

(* No product of the finished ledger is outdated by a later phase          *)
(* (generate() 3473-3823).                                                 *)
THEOREM FinalProductsStayCurrent == Spec => []FinalProductsAreCurrent
<1>1. LedgerInv => FinalProductsAreCurrent
  BY DEF LedgerInv, Products, FinalProductsAreCurrent
<1> QED BY <1>1, LedgerInvariant, PTL

(* Every flagged entry has a flagged event in the log of the run           *)
(* (generate() 3292-3368).                                                 *)
THEOREM EventLogShowsFlags == Spec => []FlagsReachEventLog
<1>1. LedgerInv => FlagsReachEventLog
  BY DEF LedgerInv, Events
<1> QED BY <1>1, LedgerInvariant, PTL

(* No fraud is biased both by the injector and by a sweep, and none the    *)
(* injector left alone misses the last sweep (2897-2936, 3431-3471).       *)
THEOREM OneBiasOnly == Spec => []BiasedOnOneWay
<1>1. LedgerInv => BiasedOnOneWay
  BY DEF LedgerInv, TypeOK, Biases, BiasedOnOneWay
<1> QED BY <1>1, LedgerInvariant, PTL

(* No entry is emitted twice (2789-2790, 5083). *)
THEOREM NothingIsEmittedTwice == Spec => []EmittedAtMostOnce
<1>1. LedgerInv => EmittedAtMostOnce
  BY DEF LedgerInv, Emissions
<1> QED BY <1>1, LedgerInvariant, PTL

(* The statistics of a finished run miss nothing but what is written after *)
(* the last count (2710, 5096). *)
THEOREM StatisticsMissLittle == Spec => []StatisticsMissOnlyLateEntries
<1>1. LedgerInv => StatisticsMissOnlyLateEntries
  BY DEF LedgerInv, Counts, StatisticsMissOnlyLateEntries, UpToCount
<1> QED BY <1>1, LedgerInvariant, PTL
=============================================================================
