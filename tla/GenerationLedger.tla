--------------------------- MODULE GenerationLedger ---------------------------
(***************************************************************************)
(* EnhancedOrchestrator::generate (datasynth-runtime) as a pipeline over   *)
(* one ledger, the vector `entries`.  Some fifty phases run in a fixed     *)
(* order.  A phase may append entries, mark or alter entries written by    *)
(* earlier phases, or only derive a product from the ledger as it is then. *)
(*                                                                         *)
(* An entry is represented by its origin, the phase that writes it, with   *)
(* the marks the later phases give it.  Amounts and dates are abstracted   *)
(* to one question: has the ledger changed since a product was derived     *)
(* from it (`stale`)?                                                      *)
(*                                                                         *)
(* A switch of the configuration that one phase reads is a choice of that  *)
(* phase; the two that matter afterwards are in `config`.  A phase with a  *)
(* `?` may fail, because its generator does or because the resource check  *)
(* at its end does: then generate returns the error (Abort).               *)
(***************************************************************************)
EXTENDS Naturals, FiniteSets

CONSTANTS Origins,     \* the phases whose entries this instance may write
          MaxWritten   \* bound: so many of them write entries

(* The points of generate(), each named for the phase that runs next. *)
Phases == {"start", "accounts", "masterData", "documentFlows", "openingBalances",
  "journalEntries", "counterfactuals", "captureActions", "sourcing", "intercompany", "hr",
  "manufacturing", "count", "controls", "emitEntries", "documentFraud",
  "anomalies", "firstSweep", "toDocuments", "redFlags", "collusion", "drift",
  "balances", "coverage", "reconciliation", "dataQuality", "periodClose",
  "assertions", "audit", "banking", "graphs", "overlays", "statements",
  "standards", "ocpm", "backAnnotate", "synthesize", "mirror", "kpis",
  "treasury", "tax", "finalSweep", "cashFlow", "notes", "segments", "esg",
  "projects", "evolution", "disruption", "temporal", "relationships",
  "industry", "compliance", "hypergraph", "extraGraphs", "gates", "analytics",
  "validation"}

Ended == {"done", "aborted"}

(* The phases that write entries. *)
Writers == {"opening", "flow", "standalone", "assets", "intercompany", "hr",
            "manufacturing", "drift", "close", "standards", "treasury", "tax"}

ASSUME OriginsAssumption == Origins \subseteq Writers
ASSUME MaxWrittenAssumption == MaxWritten \in Nat

(* Where a fraud mark comes from, an entry's own generation included. *)
Frauds == {"none", "intrinsic", "document", "injected"}

(* How an entry came to be an anomaly: with a label, or tagged without one. *)
Anomalies == {"none", "labelled", "tagged"}

(* The passes that bias the behaviour of a fraud entry. *)
Passes == {"inline", "first", "final"}

Marks == [fraud: Frauds, anomaly: Anomalies, bias: SUBSET Passes,
          event: {"none", "process", "synthetic"}, mirrored: BOOLEAN]

Levels == {"normal", "reduced", "minimal"}

VARIABLES
  at,        \* the phase that runs next, or how generate() ended
  passed,    \* the phases that have run
  config,    \* fraud.propagate_to_lines and fraud.propagate_to_document
  written,   \* the origins that have entries in the ledger
  marks,     \* what the entries of an origin are marked with
  document,  \* the fraud mark of the source document of the flow entries
  reference, \* is the reference of the flow entries still the document's id?
  actions,   \* the degradation level captured in `actions`
  log,       \* has the run an event log?
  counted,   \* the entries stats.total_entries counts
  emitted,   \* how often the entries of an origin went to the phase sink
  stale      \* the phases whose products the ledger has since outdated

ledger == <<written, marks>>
vars == <<at, passed, config, written, marks, document, reference, actions,
          log, counted, emitted, stale>>

Blank == [fraud |-> "none", anomaly |-> "none", bias |-> {},
          event |-> "none", mirrored |-> FALSE]

IsFraud(o) == marks[o].fraud # "none"
IsAnomaly(o) == marks[o].anomaly # "none"

-----------------------------------------------------------------------------
(* generate() starts with no entries and a phase sink that has seen none. *)
Init ==
  /\ at = "start"
  /\ passed = {}
  /\ config \in [toLines: BOOLEAN, toDocuments: BOOLEAN]
  /\ written = {}
  /\ marks = [o \in Writers |-> Blank]
  /\ document = "none"
  /\ reference = TRUE
  /\ actions = "normal"
  /\ log = FALSE
  /\ counted = {}
  /\ emitted = [o \in Writers |-> 0]
  /\ stale = {}

(* Phase p is over, the next one is q. *)
Go(p, q) ==
  /\ at = p
  /\ at' = q
  /\ passed' = passed \cup {p}
  /\ UNCHANGED config

(* The ledger keeps its entries and what they say. *)
KeepLedger == UNCHANGED <<written, marks, stale>>

(* The ledger changes: what has been derived from it so far is outdated. *)
Outdate == stale' = passed

KeepRest == UNCHANGED <<document, reference, actions, log, counted, emitted>>

(* A phase that only derives its product, if it is switched on and the     *)
(* resources let it run.                                                   *)
Derive(p, q) == Go(p, q) /\ KeepLedger /\ KeepRest

(* A phase may write its entries only where they fit in the bound. *)
MayWrite(S) ==
  {W \in SUBSET (S \cap Origins) : Cardinality(written \cup W) <= MaxWritten}

(* entries.extend(...): only a standalone entry may be fraud when it is made. *)
Append(W) ==
  /\ written' = written \cup W
  /\ \E fraud \in {"none", "intrinsic"} :
       /\ fraud = "intrinsic" => "standalone" \in W
       /\ marks' = [marks EXCEPT !["standalone"].fraud =
                      IF "standalone" \in W THEN fraud ELSE @]
  /\ IF W = {} THEN UNCHANGED stale ELSE Outdate

(* A phase that appends the entries it generates, or is skipped. *)
Write(p, q, S) ==
  /\ Go(p, q)
  /\ \E W \in MayWrite(S) : Append(W)

-----------------------------------------------------------------------------
(* From the initial resource check to the ledger of phase 4. *)

Start           == Derive("start", "accounts")
ChartOfAccounts == Derive("accounts", "masterData")
MasterData      == Derive("masterData", "documentFlows")
DocumentFlows   == Derive("documentFlows", "openingBalances")
OpeningBalances == Derive("openingBalances", "journalEntries")

(* Flow and standalone entries; the opening balances that phase 3b found   *)
(* go before them, the asset and dunning entries of phase 3 after them.    *)
JournalEntries ==
  /\ Write("journalEntries", "counterfactuals",
           {"opening", "flow", "standalone", "assets"})
  /\ KeepRest

Counterfactuals == Derive("counterfactuals", "captureActions")

(* The degradation level is read once, for phases 8 and 10. *)
CaptureActions ==
  /\ Go("captureActions", "sourcing")
  /\ actions' \in Levels
  /\ KeepLedger
  /\ UNCHANGED <<document, reference, log, counted, emitted>>

Sourcing == Derive("sourcing", "intercompany")

(* Seller, buyer and elimination entries; the eliminations must balance. *)
Intercompany ==
  Write("intercompany", "hr", {"intercompany"}) /\ KeepRest

(* Payroll, pension and stock compensation entries. *)
HrData == Write("hr", "manufacturing", {"hr"}) /\ KeepRest

(* Production cost, warranty and cost-of-goods entries. *)
Manufacturing ==
  Write("manufacturing", "count", {"manufacturing"}) /\ KeepRest

(* stats.total_entries, "after all JE-generating phases". *)
CountEntries ==
  /\ Go("count", "controls")
  /\ counted' = IF written = {} THEN counted ELSE written
  /\ KeepLedger
  /\ UNCHANGED <<document, reference, actions, log, emitted>>

Controls == Derive("controls", "emitEntries")

(* Each item of S goes to the sink, if there is one and it takes it: the   *)
(* errors of a sink are logged and the run goes on.                        *)
Emit(S) ==
  \E sent \in SUBSET S :
    emitted' = [o \in Writers |-> IF o \in sent THEN emitted[o] + 1 ELSE emitted[o]]

EmitEntries ==
  /\ Go("emitEntries", "documentFraud")
  /\ Emit(written)
  /\ KeepLedger
  /\ UNCHANGED <<document, reference, actions, log, counted>>

-----------------------------------------------------------------------------
(* Fraud and anomalies. *)

(* Phase 7d: documents are marked, and with propagate_to_lines the entries *)
(* they led to, those excepted that are fraud already.                     *)
DocumentFraud ==
  /\ Go("documentFraud", "anomalies")
  /\ document' \in {"none"} \cup IF "flow" \in written THEN {"document"} ELSE {}
  /\ LET reached == document' = "document" /\ config.toLines /\ ~IsFraud("flow")
     IN /\ marks' = [marks EXCEPT !["flow"].fraud = IF reached THEN "document" ELSE @]
        /\ IF reached THEN Outdate ELSE UNCHANGED stale
  /\ UNCHANGED <<written, reference, actions, log, counted, emitted>>

(* AnomalyInjector::process_entries on one entry: a fraud is marked as     *)
(* such and biased at once, whatever the entry was marked with before; an  *)
(* error, process issue or the like leaves the fraud mark as it is; the    *)
(* rarity pass flags entries without a label.                              *)
Injected(m, kind) ==
  CASE kind = "fraud"  -> [m EXCEPT !.fraud = "injected", !.anomaly = "labelled",
                                    !.bias = @ \cup {"inline"}]
    [] kind = "error"  -> [m EXCEPT !.anomaly = "labelled"]
    [] kind = "rarity" -> [m EXCEPT !.anomaly = "tagged"]
    [] OTHER           -> m

(* Phase 8, unless the captured level is too high or it is switched off. *)
InjectAnomalies ==
  /\ Go("anomalies", "firstSweep")
  /\ \E kind \in [written -> {"none", "fraud", "error", "rarity"}] :
       LET hit == {o \in written : kind[o] # "none"} IN
       /\ actions = "minimal" => hit = {}
       /\ marks' = [o \in Writers |->
                      IF o \in written THEN Injected(marks[o], kind[o]) ELSE marks[o]]
       /\ IF hit = {} THEN UNCHANGED stale ELSE Outdate
  /\ UNCHANGED written
  /\ KeepRest

(* A sweep over every fraud entry, the injector's included. *)
UnbiasedWithAnomalies == {o \in written : IsFraud(o)}

(* The fraud entries the injector has not biased. *)
Unbiased == {o \in written : IsFraud(o) /\ ~IsAnomaly(o)}

(* A sweep biases them: dates, hours and amounts of the entries change. *)
Sweep(pass) ==
  /\ marks' = [o \in Writers |->
                 IF o \in Unbiased THEN [marks[o] EXCEPT !.bias = @ \cup {pass}]
                                   ELSE marks[o]]
  /\ IF Unbiased = {} THEN UNCHANGED stale ELSE Outdate
  /\ UNCHANGED written

(* Phase 8b, and the anomaly labels go to the sink. *)
FirstSweep == Go("firstSweep", "toDocuments") /\ Sweep("first") /\ KeepRest

(* A propagation that leaves documents alone that are fraud already. *)
PropagateToCleanDocuments ==
  /\ Go("toDocuments", "redFlags")
  /\ document' = IF /\ config.toDocuments
                    /\ document = "none"
                    /\ "flow" \in written
                    /\ IsFraud("flow")
                    /\ reference
                 THEN marks["flow"].fraud
                 ELSE document
  /\ KeepLedger
  /\ UNCHANGED <<reference, actions, log, counted, emitted>>

(* A fraud entry marks the document its reference names. *)
PropagateToDocuments ==
  /\ Go("toDocuments", "redFlags")
  /\ document' = IF /\ config.toDocuments
                    /\ "flow" \in written
                    /\ IsFraud("flow")
                    /\ reference
                 THEN marks["flow"].fraud
                 ELSE document
  /\ KeepLedger
  /\ UNCHANGED <<reference, actions, log, counted, emitted>>

RedFlags  == Derive("redFlags", "collusion")
Collusion == Derive("collusion", "drift")

-----------------------------------------------------------------------------
(* Balances and the close of the period. *)

(* Phase 8d: adjustments towards the anchored trial balance. *)
DriftCorrection == Write("drift", "balances", {"drift"}) /\ KeepRest

Balances       == Derive("balances", "coverage")
Coverage       == Derive("coverage", "reconciliation")
Reconciliation == Derive("reconciliation", "dataQuality")

(* Phase 10: typos and missing values in texts and references. *)
DataQuality ==
  /\ Go("dataQuality", "periodClose")
  /\ reference' \in {reference} \cup
        IF actions = "normal" /\ "flow" \in written THEN {FALSE} ELSE {}
  /\ KeepLedger
  /\ UNCHANGED <<document, actions, log, counted, emitted>>

(* A close that emits the vector it has appended to. *)
PeriodCloseEmitsLedger ==
  /\ Go("periodClose", "assertions")
  /\ \E W \in MayWrite(IF written = {} THEN {} ELSE {"close"}) :
       /\ Append(W)
       /\ IF W = {} THEN UNCHANGED <<counted, emitted>>
                    ELSE counted' = written' /\ Emit(written')
  /\ UNCHANGED <<document, reference, actions, log>>

(* A close that counts the entries before it appends its own. *)
PeriodCloseCountsFirst ==
  /\ Go("periodClose", "assertions")
  /\ \E W \in MayWrite(IF written = {} THEN {} ELSE {"close"}) :
       /\ Append(W)
       /\ IF W = {} THEN UNCHANGED <<counted, emitted>>
                    ELSE counted' = written /\ Emit(W)
  /\ UNCHANGED <<document, reference, actions, log>>

(* Phase 10b: the closing entries are emitted, appended and counted. *)
PeriodClose ==
  /\ Go("periodClose", "assertions")
  /\ \E W \in MayWrite(IF written = {} THEN {} ELSE {"close"}) :
       /\ Append(W)
       /\ IF W = {} THEN UNCHANGED <<counted, emitted>>
                    ELSE counted' = written' /\ Emit(W)
  /\ UNCHANGED <<document, reference, actions, log>>

(* Phase 10c fails the run when an entry that is no fraud and no anomaly   *)
(* does not balance.                                                       *)
Assertions == Derive("assertions", "audit")

Audit      == Derive("audit", "banking")
Banking    == Derive("banking", "graphs")
GraphExport == Derive("graphs", "overlays")
Overlays   == Derive("overlays", "statements")
Statements == Derive("statements", "standards")

(* Expected-credit-loss and provision entries. *)
Standards == Write("standards", "ocpm", {"standards"}) /\ KeepRest

-----------------------------------------------------------------------------
(* The event log. *)

(* Phase 18b, skipped under resource pressure or when it is switched off. *)
OcpmEvents ==
  /\ Go("ocpm", "backAnnotate")
  /\ log' \in BOOLEAN
  /\ KeepLedger
  /\ UNCHANGED <<document, reference, actions, counted, emitted>>

(* Phase 18c: a flow entry finds its document's events by its reference. *)
BackAnnotate ==
  /\ Go("backAnnotate", "synthesize")
  /\ marks' \in {marks} \cup
        IF log /\ "flow" \in written /\ reference
        THEN {[marks EXCEPT !["flow"].event = "process"]} ELSE {}
  /\ UNCHANGED <<written, stale>>
  /\ KeepRest

(* Phase 18d: an event of its own for every entry that has none. *)
Synthesize ==
  /\ Go("synthesize", "mirror")
  /\ marks' = [o \in Writers |->
                 IF log /\ o \in written /\ marks[o].event = "none"
                 THEN [marks[o] EXCEPT !.event = "synthetic"] ELSE marks[o]]
  /\ UNCHANGED <<written, stale>>
  /\ KeepRest

(* A mirror that looks at anomalies only. *)
MirrorAnomalies ==
  /\ Go("mirror", "kpis")
  /\ marks' = [o \in Writers |->
                 IF log /\ o \in written /\ marks[o].event # "none" /\ IsAnomaly(o)
                 THEN [marks[o] EXCEPT !.mirrored = TRUE] ELSE marks[o]]
  /\ UNCHANGED <<written, stale>>
  /\ KeepRest

(* Phase 18e: the events of flagged entries are flagged. *)
Mirror ==
  /\ Go("mirror", "kpis")
  /\ marks' = [o \in Writers |->
                 IF log /\ o \in written /\ marks[o].event # "none"
                    /\ (IsFraud(o) \/ IsAnomaly(o))
                 THEN [marks[o] EXCEPT !.mirrored = TRUE] ELSE marks[o]]
  /\ UNCHANGED <<written, stale>>
  /\ KeepRest

-----------------------------------------------------------------------------
(* The late phases. *)

SalesKpis == Derive("kpis", "treasury")

(* Interest, hedge and sweep entries; skipped under resource pressure. *)
Treasury == Write("treasury", "tax", {"treasury"}) /\ KeepRest

(* The tax entries of the pre-tax income of the ledger so far. *)
Tax == Write("tax", "finalSweep", {"tax"}) /\ KeepRest

(* Phase 20b: the sweep of phase 8b once more, over the whole ledger. *)
FinalSweep == Go("finalSweep", "cashFlow") /\ Sweep("final") /\ KeepRest

CashFlow      == Derive("cashFlow", "notes")
Notes         == Derive("notes", "segments")
Segments      == Derive("segments", "esg")
Esg           == Derive("esg", "projects")
(* Project accounting that posts entries of its own. *)
ProjectsWithEntries == Write("projects", "evolution", {"standards"}) /\ KeepRest

Projects      == Derive("projects", "evolution")
Evolution     == Derive("evolution", "disruption")
Disruption    == Derive("disruption", "temporal")
Temporal      == Derive("temporal", "relationships")
Relationships == Derive("relationships", "industry")
Industry      == Derive("industry", "compliance")
Compliance    == Derive("compliance", "hypergraph")
Hypergraph    == Derive("hypergraph", "extraGraphs")
ExtraGraphs   == Derive("extraGraphs", "gates")
Gates         == Derive("gates", "analytics")
Analytics     == Derive("analytics", "validation")
Validation    == Derive("validation", "done")

(* The phases that pass no error on: code of generate() itself, and the    *)
(* exports that only log theirs.                                           *)
Infallible == {"captureActions", "count", "controls", "emitEntries",
  "documentFraud", "firstSweep", "toDocuments", "overlays", "backAnnotate",
  "synthesize", "mirror", "finalSweep", "cashFlow", "notes", "segments",
  "graphs", "industry", "hypergraph", "extraGraphs", "gates"}

(* A failed phase ends the run with its error. *)
Abort ==
  /\ at \in Phases \ Infallible
  /\ at' = "aborted"
  /\ UNCHANGED <<passed, config, ledger, document, reference, actions, log,
                 counted, emitted, stale>>

Preparation ==
  \/ Start \/ ChartOfAccounts \/ MasterData \/ DocumentFlows \/ OpeningBalances
  \/ JournalEntries \/ Counterfactuals \/ CaptureActions \/ Sourcing
  \/ Intercompany \/ HrData \/ Manufacturing \/ CountEntries \/ Controls
  \/ EmitEntries

Marking ==
  \/ DocumentFraud \/ InjectAnomalies \/ FirstSweep \/ PropagateToDocuments
  \/ RedFlags \/ Collusion

Closing ==
  \/ DriftCorrection \/ Balances \/ Coverage \/ Reconciliation \/ DataQuality
  \/ PeriodClose \/ Assertions \/ Audit \/ Banking \/ GraphExport \/ Overlays
  \/ Statements \/ Standards

Linking == OcpmEvents \/ BackAnnotate \/ Synthesize \/ Mirror

Finishing ==
  \/ SalesKpis \/ Treasury \/ Tax \/ FinalSweep \/ CashFlow \/ Notes \/ Segments
  \/ Esg \/ Projects \/ Evolution \/ Disruption \/ Temporal \/ Relationships
  \/ Industry \/ Compliance \/ Hypergraph \/ ExtraGraphs \/ Gates \/ Analytics
  \/ Validation

Next == Preparation \/ Marking \/ Closing \/ Linking \/ Finishing \/ Abort

Spec == Init /\ [][Next]_vars
-----------------------------------------------------------------------------
(* Properties. *)

(* Type correctness; the bound on emissions is that of one emission per phase. *)
TypeOK ==
  /\ at \in Phases \cup Ended
  /\ passed \subseteq Phases
  /\ config \in [toLines: BOOLEAN, toDocuments: BOOLEAN]
  /\ written \subseteq Writers
  /\ marks \in [Writers -> Marks]
  /\ document \in Frauds
  /\ reference \in BOOLEAN
  /\ actions \in Levels
  /\ log \in BOOLEAN
  /\ counted \subseteq Writers
  /\ emitted \in [Writers -> Nat]
  /\ stale \subseteq Phases

(* With both propagations on, an entry and its document agree once phase 8 *)
(* is over, whichever of the two was marked first and by whom: the         *)
(* injector's mark reaches the document, a document's mark reaches the     *)
(* entry, and the corrupted references of phase 10 come too late to        *)
(* separate them (generate() 2792-3012).                                   *)
DocumentAgreesWithEntry ==
  /\ config.toLines /\ config.toDocuments
  /\ "toDocuments" \in passed
  /\ "flow" \in written
  => document = marks["flow"].fraud

(* What reads the finished ledger reads it after the last change: no entry *)
(* is added and no amount altered after cash flow, segments, entity        *)
(* relationships, graphs, analytics or validation have been derived        *)
(* (3473-3823: "so derived outputs reflect final data").                   *)
FinalProducts == {"cashFlow", "notes", "segments", "relationships",
                  "hypergraph", "extraGraphs", "analytics", "validation"}
FinalProductsAreCurrent == stale \cap FinalProducts = {}

(* When a run has an event log, every entry that is fraud or an anomaly    *)
(* has an event, and the event says so, however the entry was marked and   *)
(* whether or not its reference survived phase 10 (3292-3368).             *)
FlagsReachEventLog ==
  log /\ "mirror" \in passed =>
    \A o \in written : IsFraud(o) \/ IsAnomaly(o) =>
      marks[o].event # "none" /\ marks[o].mirrored

(* An entry is biased on one way only: by the injector that made it fraud, *)
(* or by the sweeps over the fraud the injector did not touch; and the     *)
(* latter has been swept when the run is over (2897-2936, 3431-3471).      *)
BiasedOnOneWay ==
  \A o \in written :
    /\ "inline" \in marks[o].bias =>
         marks[o].bias = {"inline"} /\ marks[o].fraud = "injected"
    /\ IsFraud(o) /\ ~IsAnomaly(o) /\ "finalSweep" \in passed =>
         "final" \in marks[o].bias

(* No entry goes to the sink twice, though two phases emit entries from    *)
(* one vector (2789-2790, 5083).                                           *)
EmittedAtMostOnce == \A o \in Writers : emitted[o] <= 1

(* What stats.total_entries misses in the result was written after a count *)
(* that nothing repeats: drift corrections of a run that does not close    *)
(* its period, provisions, treasury and tax entries.  It counts nothing    *)
(* that is not in the result, and the closing entries always.              *)
LateOrigins == {"drift", "standards", "treasury", "tax"}
StatisticsMissOnlyLateEntries ==
  at = "done" => counted \subseteq written /\ written \ counted \subseteq LateOrigins

(* The statistics count the entries of the result, as                      *)
(* test_statistics_accuracy has it (16517-16534): they do not when an      *)
(* entry is written after the last count.                                  *)
StatisticsMatchResult == at = "done" => counted = written

(* "so every JournalEntry carries at least one ocpm_event_ids link"        *)
(* (3351-3353): the treasury and tax entries are written later.            *)
EveryEntryIsLinked ==
  log /\ at = "done" => \A o \in written : marks[o].event # "none"

(* "guarantees every is_fraud entry ... has bias applied" (3441): a fraud  *)
(* entry that is then hit by an error is passed over by both sweeps.       *)
EveryFraudIsBiased ==
  at = "done" => \A o \in written : IsFraud(o) => marks[o].bias # {}
=============================================================================
