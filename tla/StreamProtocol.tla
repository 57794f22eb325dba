--------------------------- MODULE StreamProtocol ---------------------------
(***************************************************************************)
(* What a client of the streaming orchestrator sees when nothing is        *)
(* dropped: the items of the configured phases in order, each phase closed *)
(* by its completion marker, then one summary that agrees with what was    *)
(* received, then the end of the stream.                                   *)
(***************************************************************************)
EXTENDS Naturals, Sequences

CONSTANT Phases       \* the configured phases, in order

VARIABLES
  received,           \* how much data has been received
  from,               \* the phase of the data received last
  phases,             \* how many completion markers have been received
  summary,            \* the summary, NoSummary until it arrives
  over                \* the end of the stream has been seen

vars == <<received, from, phases, summary, over>>

NoSummary == [total |-> 0, dropped |-> 0, phases |-> Len(Phases) + 1]

Init ==
  /\ received = 0 /\ from = 0
  /\ phases = 0
  /\ summary = NoSummary
  /\ over = FALSE

(* Items belong to the phase that follows the last completion marker. *)
ReceiveItem ==
  /\ phases < Len(Phases)
  /\ summary = NoSummary
  /\ from' = phases + 1
  /\ received' >= received
  /\ UNCHANGED <<phases, summary, over>>

ReceivePhaseComplete ==
  /\ phases < Len(Phases)
  /\ summary = NoSummary
  /\ phases' = phases + 1
  /\ UNCHANGED <<received, from, summary, over>>

ReceiveComplete ==
  /\ summary = NoSummary
  /\ summary' = [total |-> received, dropped |-> 0, phases |-> phases]
  /\ UNCHANGED <<received, from, phases, over>>

ReceiveEnd ==
  /\ summary # NoSummary
  /\ over' = TRUE
  /\ UNCHANGED <<received, from, phases, summary>>

Next == ReceiveItem \/ ReceivePhaseComplete \/ ReceiveComplete \/ ReceiveEnd

Spec == Init /\ [][Next]_vars
=============================================================================
