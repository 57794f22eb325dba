-------------------- MODULE StreamingOrchestrator_proofs --------------------
(***************************************************************************)
(* What is proved of the streaming orchestrator for every sequence of      *)
(* phases, every size, batch, interval, strategy and limit of the channel: *)
(* its types, how far a cancellation lets the generation thread go on,     *)
(* that a stream which has ended has ended with its summary, that the      *)
(* summary accounts for what was lost, and that a stream which may only    *)
(* block refines StreamProtocol.                                           *)
(***************************************************************************)
EXTENDS StreamingOrchestrator, TLAPS

-----------------------------------------------------------------------------
(* The generation thread's bookkeeping. *)

ProgramPoints == {"head", "pausePhase", "loop", "make", "pauseChain", "batch",
            "pauseEntry", "send", "finish", "close", "done"}
InsidePhase == {"pausePhase", "loop", "make", "pauseChain", "batch", "pauseEntry", "send"}
InsideStep == {"make", "pauseChain", "batch", "pauseEntry", "send"}

Skipping == phase <= Len(Phases) /\ Phases[phase] = "skipped"

(* The phase worked on is one of the list and everything before it is      *)
(* completed; a phase that is skipped has no step to begin.                *)
PhasesInOrder ==
  /\ pc \in ProgramPoints
  /\ phase \in 1..Len(Phases) + 1
  /\ phasesCompleted = phase - 1
  /\ pc \in InsidePhase => phase <= Len(Phases)
  /\ Skipping => left = 0 /\ pc \notin InsideStep

(* Steps done after a cancellation: where the thread is then, it tests the *)
(* flag before it begins another.                                          *)
OneLateStep ==
  /\ late \in {0, 1}
  /\ late = 1 => cancelled /\ pc \in {"loop", "batch", "send", "head", "finish", "close", "done"}

(* The steps of the receiving thread that are seen by nobody. *)
ReaderMoves == RecvMustWait \/ RecvWaits \/ SpuriousWakeUp

LEMMA ReaderMovesOnly ==
  ASSUME ReaderMoves
  PROVE  /\ UNCHANGED <<pc, sleeping, work, outbox, control, consumer>>
         /\ UNCHANGED <<strategy, queue, closed, dropped, lost, lostEvents>>
         /\ reader' \in {"awake", "aboutToWait", "waiting"}
BY DEF ReaderMoves, RecvMustWait, RecvWaits, SpuriousWakeUp

LEMMA PhasesInOrderInit == Init => PhasesInOrder
  BY PhasesAssumption DEF Init, PhasesInOrder, ProgramPoints, InsidePhase, InsideStep, Skipping

LEMMA PhasesInOrderNext == PhasesInOrder /\ [Next]_vars => PhasesInOrder'
<1> SUFFICES ASSUME PhasesInOrder, [Next]_vars PROVE PhasesInOrder'
  OBVIOUS
<1> USE PhasesAssumption DEF PhasesInOrder, ProgramPoints, InsidePhase, InsideStep, Skipping
<1>1. CASE Send
  BY <1>1 DEF Send, work
<1>2. CASE NextPhase
  BY <1>2 DEF NextPhase, At, Goto, work
<1>3. CASE WaitWhilePaused
  BY <1>3 DEF WaitWhilePaused, work
<1>4. CASE StartPhase
  <2>1. Phases[phase] = "skipped" => Steps(Phases[phase]) = 0
    BY DEF Steps
  <2> QED BY <1>4, <2>1 DEF StartPhase, At, Goto, Emit
<1>5. CASE PhaseStep
  <2>1. left # 0 /\ pc = "loop"
    BY <1>5 DEF PhaseStep, At
  <2>2. Phases[phase] \in PhaseKinds \ {"skipped"}
    BY <2>1
  <2>3. AfterCancelTest(Phases[phase]) \in InsideStep
    BY <2>2 DEF AfterCancelTest, PhaseKinds
  <2> QED BY <1>5, <2>1, <2>2, <2>3 DEF PhaseStep, Goto, work
<1>6. CASE EndPhase
  BY <1>6 DEF EndPhase, At, Goto, Emit
<1>7. CASE MakeRecord
  BY <1>7 DEF MakeRecord, At, Goto, Emit
<1>8. CASE MakeChain
  BY <1>8 DEF MakeChain, At, Goto, Emit
<1>9. CASE BuildBatch
  BY <1>9 DEF BuildBatch, At, Goto, work
<1>10. CASE MakeEntry
  BY <1>10 DEF MakeEntry, At, Goto
<1>11. CASE SendLabels \/ SendEntry \/ EndBatch
  BY <1>11 DEF SendLabels, SendEntry, EndBatch, CurrentBatch, At, Goto, work
<1>12. CASE LeaveEmptyBatch
  BY <1>12 DEF LeaveEmptyBatch, At, Goto, work
<1>13. CASE Finish
  BY <1>13 DEF Finish, At, Goto, Emit, work
<1>14. CASE CloseChannel
  BY <1>14 DEF CloseChannel, At, Goto, work
<1>15. CASE Receive \/ ReceiveNone \/ ReaderMoves
  BY <1>15, ReaderMovesOnly DEF Receive, ReceiveNone, work
<1>16. CASE StopReading \/ Cancel \/ \E flag \in BOOLEAN : SetPaused(flag)
  BY <1>16 DEF StopReading, Cancel, SetPaused, work
<1>17. CASE UNCHANGED vars
  BY <1>17 DEF vars, work
<1> QED
  BY <1>1, <1>2, <1>3, <1>4, <1>5, <1>6, <1>7, <1>8, <1>9, <1>10, <1>11, <1>12,
     <1>13, <1>14, <1>15, <1>16, <1>17 DEF Next, GeneratorStep, ConsumerStep, ReaderMoves

-----------------------------------------------------------------------------
(* Cancellation. *)

LEMMA OneLateStepNext == PhasesInOrder /\ OneLateStep /\ [Next]_vars => OneLateStep'
<1> SUFFICES ASSUME OneLateStep, [Next]_vars PROVE OneLateStep'
  OBVIOUS
<1> USE DEF OneLateStep
<1>1. CASE Send
  BY <1>1 DEF Send, work, control
<1>2. CASE NextPhase
  BY <1>2 DEF NextPhase, At, Goto, work, control
<1>3. CASE WaitWhilePaused
  BY <1>3 DEF WaitWhilePaused, work, control
<1>4. CASE StartPhase
  BY <1>4 DEF StartPhase, At, Goto, control
<1>5. CASE PhaseStep
  BY <1>5 DEF PhaseStep, At, Goto, work, control
<1>6. CASE EndPhase
  BY <1>6 DEF EndPhase, At, Goto, control
<1>7. CASE MakeRecord \/ MakeChain \/ MakeEntry
  <2>1. late = 0
    BY <1>7 DEF MakeRecord, MakeChain, MakeEntry, At
  <2>2. late' = late + (IF cancelled THEN 1 ELSE 0) /\ cancelled' = cancelled
    BY <1>7 DEF MakeRecord, MakeChain, MakeEntry, control
  <2>3. pc' \in {"loop", "batch"}
    BY <1>7 DEF MakeRecord, MakeChain, MakeEntry, Goto
  <2> QED BY <2>1, <2>2, <2>3
<1>8. CASE BuildBatch
  BY <1>8 DEF BuildBatch, BatchContinues, At, Goto, work, control
<1>9. CASE SendLabels \/ SendEntry \/ EndBatch
  BY <1>9 DEF SendLabels, SendEntry, EndBatch, At, Goto, work, control
<1>10. CASE LeaveEmptyBatch
  BY <1>10 DEF LeaveEmptyBatch, Goto, work, control
<1>11. CASE Finish
  BY <1>11 DEF Finish, Goto, work, control
<1>12. CASE CloseChannel
  BY <1>12 DEF CloseChannel, Goto, work, control
<1>13. CASE Receive \/ ReceiveNone \/ ReaderMoves
  BY <1>13, ReaderMovesOnly DEF Receive, ReceiveNone, work, control
<1>14. CASE StopReading \/ Cancel \/ \E flag \in BOOLEAN : SetPaused(flag)
  BY <1>14 DEF StopReading, Cancel, SetPaused, work, control
<1>15. CASE UNCHANGED vars
  BY <1>15 DEF vars, work, control
<1> QED
  BY <1>1, <1>2, <1>3, <1>4, <1>5, <1>6, <1>7, <1>8, <1>9, <1>10, <1>11, <1>12,
     <1>13, <1>14, <1>15 DEF Next, GeneratorStep, ConsumerStep, ReaderMoves

(* However the phases are made up and whenever cancel() is called, inside  *)
(* a pause or inside a batch, at most one record, chain or entry is begun  *)
(* after it (the flag tests of the generate_*_phase functions).            *)
THEOREM CancellationTakesOneStep == Spec => []CancelBounds
<1>1. Init => OneLateStep
  BY DEF Init, OneLateStep
<1>2. OneLateStep => CancelBounds
  BY DEF OneLateStep, CancelBounds
<1> QED
  BY <1>1, <1>2, PhasesInOrderInit, PhasesInOrderNext, OneLateStepNext, PTL DEF Spec

-----------------------------------------------------------------------------
(* The summary. *)

IsSequence(s) == s \in Seq({s[i] : i \in DOMAIN s})

EndsWithComplete(s) ==
  s # <<>> /\ s[Len(s)].kind = "complete" /\ s[Len(s)].summary # NoSummary

(* From Finish on, the summary is waiting to be sent, is the last event of *)
(* the queue, or has been received; the channel is closed after that.      *)
SummaryOnItsWay ==
  /\ IsSequence(queue)
  /\ strategy \in Strategies /\ Limit \in Nat \ {0}
  /\ pc = "close" /\ outbox # <<>> =>
       outbox = <<outbox[1]>> /\ EndsWithComplete(outbox)
  /\ pc = "done" => outbox = <<>>
  /\ pc \in {"close", "done"} /\ outbox = <<>> /\ strategy # "DropNewest" =>
       \/ EndsWithComplete(queue)
       \/ queue = <<>> /\ summary # NoSummary
  /\ closed => pc = "done"
  /\ over => closed /\ queue = <<>>

LEMMA AppendIsSequence ==
  ASSUME NEW s, IsSequence(s), NEW e
  PROVE  /\ IsSequence(Append(s, e))
         /\ Append(s, e) # <<>>
         /\ Append(s, e)[Len(Append(s, e))] = e
<1> DEFINE S == {s[i] : i \in DOMAIN s} \cup {e}
<1> DEFINE t == Append(s, e)
<1>1. s \in Seq(S) /\ e \in S
  BY DEF IsSequence
<1>2. t \in Seq(S) /\ Len(t) = Len(s) + 1 /\ Len(s) \in Nat /\ t[Len(s) + 1] = e
  <2> HIDE DEF S
  <2> QED BY <1>1
<1>3. t \in Seq({t[i] : i \in DOMAIN t})
  <2> HIDE DEF S, t
  <2>1. \A i \in 1..Len(t) : t[i] \in {t[j] : j \in DOMAIN t}
    BY <1>2
  <2> QED BY <1>2, <2>1
<1> QED
  BY <1>2, <1>3 DEF IsSequence

LEMMA TailIsSequence ==
  ASSUME NEW s, IsSequence(s), s # <<>>
  PROVE  /\ IsSequence(Tail(s))
         /\ Tail(s) # <<>> => Tail(s)[Len(Tail(s))] = s[Len(s)]
         /\ Tail(s) = <<>> => Head(s) = s[Len(s)]
<1> DEFINE S == {s[i] : i \in DOMAIN s}
<1> DEFINE t == Tail(s)
<1>1. s \in Seq(S)
  BY DEF IsSequence
<1>2. /\ t \in Seq(S) /\ Len(t) = Len(s) - 1 /\ Len(s) \in Nat \ {0}
      /\ \A i \in 1..Len(t) : t[i] = s[i + 1]
      /\ Head(s) = s[1]
  <2> HIDE DEF S
  <2> QED BY <1>1
<1>3. t \in Seq({t[i] : i \in DOMAIN t})
  <2> HIDE DEF S, t
  <2>1. \A i \in 1..Len(t) : t[i] \in {t[j] : j \in DOMAIN t}
    BY <1>2
  <2> QED BY <1>2, <2>1
<1>4. t # <<>> => Len(t) \in 1..Len(t) /\ t[Len(t)] = s[Len(s)]
  <2> HIDE DEF S, t
  <2> QED BY <1>2
<1>5. t = <<>> => Len(s) = 1
  <2> HIDE DEF S, t
  <2> QED BY <1>2
<1> QED
  BY <1>2, <1>3, <1>4, <1>5 DEF IsSequence

LEMMA SummaryOnItsWayInit == Init => SummaryOnItsWay
<1> SUFFICES ASSUME Init PROVE SummaryOnItsWay
  OBVIOUS
<1>1. IsSequence(queue)
  BY DEF Init, IsSequence
<1> QED BY <1>1, SizesAssumption DEF Init, SummaryOnItsWay

(* Whatever the queue does with the last event, unless it refuses it, that *)
(* event is the last of the queue afterwards.                              *)
LEMMA SendPutsLast ==
  ASSUME SummaryOnItsWay, SendWithRoom \/ SendFull
  PROVE  /\ IsSequence(queue')
         /\ strategy # "DropNewest" =>
              queue' # <<>> /\ queue'[Len(queue')] = Head(outbox)
<1>1. CASE SendWithRoom
  BY <1>1, AppendIsSequence DEF SendWithRoom, SummaryOnItsWay
<1>2. CASE SendFull /\ strategy = "DropOldest" /\ queue' = Append(Tail(queue), Head(outbox))
  <2>1. queue # <<>>
    BY <1>2 DEF SendFull, SummaryOnItsWay
  <2>2. IsSequence(Tail(queue))
    BY <2>1, TailIsSequence DEF SummaryOnItsWay
  <2> QED BY <1>2, <2>2, AppendIsSequence
<1>3. CASE SendFull /\ strategy = "DropNewest" /\ queue' = queue
  BY <1>3 DEF SummaryOnItsWay
<1> QED
  BY <1>1, <1>2, <1>3 DEF SendFull

LEMMA SummaryOnItsWayNext ==
  PhasesInOrder /\ SummaryOnItsWay /\ [Next]_vars => SummaryOnItsWay'
<1> SUFFICES ASSUME PhasesInOrder, SummaryOnItsWay, [Next]_vars PROVE SummaryOnItsWay'
  OBVIOUS
<1>1. CASE Send
  <2>1. /\ UNCHANGED <<strategy, pc, closed, over, summary>>
        /\ outbox # <<>> /\ outbox' = Tail(outbox)
    BY <1>1 DEF Send, consumer
  <2>2. /\ IsSequence(queue')
        /\ strategy # "DropNewest" =>
             queue' # <<>> /\ queue'[Len(queue')] = Head(outbox)
    BY <1>1, SendPutsLast DEF Send
  <2>3. ~closed /\ ~over /\ pc # "done"
    BY <2>1 DEF SummaryOnItsWay
  <2>4. CASE pc = "close"
    <3>1. outbox = <<outbox[1]>> /\ EndsWithComplete(outbox)
      BY <2>1, <2>4 DEF SummaryOnItsWay
    <3>2. outbox' = <<>> /\ Head(outbox) = outbox[1] /\ Len(outbox) = 1
      <4>1. PICK e : outbox = <<e>>
        BY <3>1
      <4> QED BY <2>1, <4>1
    <3>3. strategy # "DropNewest" => EndsWithComplete(queue')
      BY <2>2, <3>1, <3>2 DEF EndsWithComplete
    <3>4. strategy' # "DropNewest" => EndsWithComplete(queue)'
      BY <2>1, <3>3 DEF EndsWithComplete, NoSummary
    <3> QED BY <2>1, <2>2, <2>3, <2>4, <3>2, <3>4 DEF SummaryOnItsWay
  <2>5. CASE pc # "close"
    BY <2>1, <2>2, <2>3, <2>5 DEF SummaryOnItsWay
  <2> QED BY <2>4, <2>5
<1>2. CASE Receive
  <2>1. /\ UNCHANGED <<strategy, pc, closed, outbox, over>>
        /\ queue # <<>> /\ queue' = Tail(queue)
        /\ summary' = IF Head(queue).kind = "complete"
                        THEN Head(queue).summary ELSE summary
    BY <1>2 DEF Receive
  <2>2. /\ IsSequence(queue')
        /\ queue' # <<>> => queue'[Len(queue')] = queue[Len(queue)]
        /\ queue' = <<>> => Head(queue) = queue[Len(queue)]
    BY <2>1, TailIsSequence DEF SummaryOnItsWay
  <2>3. ~over
    BY <2>1 DEF SummaryOnItsWay
  <2>4. EndsWithComplete(queue) =>
          EndsWithComplete(queue') \/ (queue' = <<>> /\ summary' # NoSummary)
    BY <2>1, <2>2 DEF EndsWithComplete
  <2>5. (pc \in {"close", "done"} /\ outbox = <<>> /\ strategy # "DropNewest" =>
           EndsWithComplete(queue) \/ (queue = <<>> /\ summary # NoSummary))'
    BY <2>1, <2>4 DEF SummaryOnItsWay, EndsWithComplete, NoSummary
  <2>6. (pc = "close" /\ outbox # <<>> =>
           outbox = <<outbox[1]>> /\ EndsWithComplete(outbox))'
    BY <2>1 DEF SummaryOnItsWay, EndsWithComplete, NoSummary
  <2> QED BY <2>1, <2>2, <2>3, <2>5, <2>6 DEF SummaryOnItsWay
<1>3. CASE Finish
  <2> DEFINE s == [total |-> itemsGenerated, dropped |-> dropped, phases |-> phasesCompleted]
  <2>1. /\ UNCHANGED <<strategy, closed, queue, over, summary>>
        /\ pc = "finish" /\ pc' = "close" /\ outbox' = <<Complete(s)>>
    BY <1>3 DEF Finish, At, Goto, Emit, channel, consumer
  <2>2. s # NoSummary
    <3>1. s.phases # NoSummary.phases
      BY PhasesAssumption DEF PhasesInOrder, NoSummary
    <3> QED BY <3>1
  <2>3. outbox' = <<outbox'[1]>> /\ EndsWithComplete(outbox')
    <3> HIDE DEF s
    <3>1. Complete(s).kind = "complete" /\ Complete(s).summary = s
      BY DEF Complete
    <3>2. outbox' # <<>> /\ Len(outbox') = 1 /\ outbox'[1] = Complete(s)
      BY <2>1
    <3> QED BY <2>1, <2>2, <3>1, <3>2 DEF EndsWithComplete
  <2>4. outbox' # <<>> /\ (outbox = <<outbox[1]>> /\ EndsWithComplete(outbox))'
    BY <2>3 DEF EndsWithComplete, NoSummary
  <2> QED BY <2>1, <2>4 DEF SummaryOnItsWay
<1>4. CASE CloseChannel
  BY <1>4 DEF CloseChannel, NotifyAll, At, Goto, consumer, SummaryOnItsWay, EndsWithComplete, NoSummary
<1>5. CASE ReceiveNone
  BY <1>5 DEF ReceiveNone, channel, SummaryOnItsWay, EndsWithComplete, NoSummary
<1>6. CASE NextPhase \/ StartPhase \/ PhaseStep \/ EndPhase \/ MakeRecord \/ MakeChain
           \/ BuildBatch \/ MakeEntry \/ SendLabels \/ SendEntry
           \/ EndBatch \/ LeaveEmptyBatch
  <2>1. UNCHANGED <<strategy, closed, queue, over, summary>>
    BY <1>6 DEF NextPhase, StartPhase, PhaseStep, EndPhase, MakeRecord, MakeChain,
         BuildBatch, MakeEntry, SendLabels, SendEntry, EndBatch, LeaveEmptyBatch, channel, consumer
  <2>2. pc \notin {"close", "done"}
    BY <1>6 DEF NextPhase, StartPhase, PhaseStep, EndPhase, MakeRecord, MakeChain,
         BuildBatch, MakeEntry, SendLabels, SendEntry, EndBatch, LeaveEmptyBatch, At
  <2>3. pc' \notin {"close", "done"}
    <3>1. CASE PhaseStep
      <4>1. left > 0 /\ pc = "loop"
        BY <3>1 DEF PhaseStep, At
      <4>2. Phases[phase] \in PhaseKinds \ {"skipped"}
        BY <4>1, PhasesAssumption DEF PhasesInOrder, InsidePhase, Skipping
      <4>3. AfterCancelTest(Phases[phase]) \in InsideStep
        BY <4>2 DEF AfterCancelTest, PhaseKinds, InsideStep
      <4> QED BY <3>1, <4>3 DEF PhaseStep, Goto, InsideStep
    <3>2. CASE ~PhaseStep
      BY <1>6, <3>2 DEF NextPhase, StartPhase, EndPhase, MakeRecord, MakeChain,
           BuildBatch, MakeEntry, SendLabels, SendEntry, EndBatch, LeaveEmptyBatch, Goto, At
    <3> QED BY <3>1, <3>2
  <2> QED BY <2>1, <2>2, <2>3 DEF SummaryOnItsWay
<1>7. CASE WaitWhilePaused \/ ReaderMoves \/ StopReading \/ Cancel
             \/ \E flag \in BOOLEAN : SetPaused(flag)
  <2>1. UNCHANGED <<strategy, pc, outbox, closed, queue, over, summary>>
    BY <1>7, ReaderMovesOnly DEF WaitWhilePaused, StopReading, Cancel, SetPaused, channel, consumer
  <2> QED BY <2>1 DEF SummaryOnItsWay, EndsWithComplete, NoSummary
<1>8. CASE UNCHANGED vars
  BY <1>8 DEF vars, channel, consumer, SummaryOnItsWay, EndsWithComplete, NoSummary
<1> QED
  BY <1>1, <1>2, <1>3, <1>4, <1>5, <1>6, <1>7, <1>8
     DEF Next, GeneratorStep, ConsumerStep, ReaderMoves

(* The summary of finish is the last event sent and nothing evicts it: a   *)
(* client that reads to the end of a stream has received it, unless the    *)
(* channel was told to refuse new events.                                  *)
THEOREM StreamEndsWithSummary == Spec => []EndsWithSummary
<1>1. SummaryOnItsWay => EndsWithSummary
  BY DEF SummaryOnItsWay, EndsWithSummary, EndsWithComplete
<1> QED
  BY <1>1, PhasesInOrderInit, PhasesInOrderNext, SummaryOnItsWayInit, SummaryOnItsWayNext, PTL
     DEF Spec

-----------------------------------------------------------------------------
(* Types. *)

(* A step is begun only while there is one left to do. *)
StepsLeft == pc \in InsideStep => left > 0

TypeInv == TypeOK /\ StepsLeft

LEMMA EventTypes ==
  /\ \A p \in 1..Len(Phases) : \A w \in Nat : Data(p, w) \in Events
  /\ \A p \in 1..Len(Phases) : PhaseComplete(p) \in Events
  /\ \A n \in Nat : Progress(n) \in Events
  /\ \A s \in Summaries : Complete(s) \in Events
BY DEF Data, PhaseComplete, Progress, Complete, Events

LEMMA WeightType == \A e \in Events : Weight(e) \in Nat
BY DEF Events, Weight

LEMMA OutboxType ==
  /\ \A p \in 1..Len(Phases) : \A w \in Nat : <<Data(p, w)>> \in Seq(Events)
  /\ \A n \in Nat : <<Progress(n)>> \in Seq(Events)
  /\ \A p \in 1..Len(Phases) : \A w, n \in Nat : <<Data(p, w), Progress(n)>> \in Seq(Events)
  /\ \A p \in 1..Len(Phases) : \A n \in Nat : <<PhaseComplete(p), Progress(n)>> \in Seq(Events)
  /\ \A s \in Summaries : <<Complete(s)>> \in Seq(Events)
  /\ <<>> \in Seq(Events)
BY EventTypes

LEMMA RepeatedType ==
  ASSUME NEW S, NEW e \in S, NEW n \in Nat
  PROVE  /\ [i \in 1..n |-> e] \in Seq(S) /\ Len([i \in 1..n |-> e]) = n
         /\ DOMAIN [i \in 1..n |-> e] = 1..n
OBVIOUS

LEMMA InitTypeInv == Init => TypeInv
<1> SUFFICES ASSUME Init PROVE TypeInv
  OBVIOUS
<1>1. <<Progress(0)>> \in Seq(Events) /\ <<>> \in Seq(Events)
  BY OutboxType
<1>2. NoSummary \in Summaries
  BY PhasesAssumption DEF NoSummary, Summaries
<1>3. Len(Phases) \in Nat /\ Limit \in Nat
  BY PhasesAssumption, SizesAssumption
<1>4. {sleeping, closed, cancelled, paused, over, gone} \subseteq BOOLEAN
  BY DEF Init
<1>5. {left, built, count, itemsGenerated, progressItems, phasesCompleted, dropped,
       received, phasesSeen, lost, lostEvents, late} \subseteq Nat
  BY DEF Init
<1>6. outbox \in Seq(Events) /\ queue \in Seq(Events) /\ Len(queue) <= Limit
  BY <1>1, <1>3 DEF Init
<1>7. TypeOK
  BY <1>2, <1>3, <1>4, <1>5, <1>6 DEF Init, TypeOK
<1> QED BY <1>7 DEF Init, TypeInv, StepsLeft, InsideStep

LEMMA SequenceTypes ==
  ASSUME NEW S, NEW s \in Seq(S), s # <<>>
  PROVE  /\ Head(s) \in S /\ Head(s) = s[1] /\ Tail(s) \in Seq(S)
         /\ Len(s) \in Nat \ {0} /\ Len(Tail(s)) = Len(s) - 1
         /\ \A i \in 1..Len(s) - 1 : Tail(s)[i] = s[i + 1]
OBVIOUS

LEMMA AppendTypes ==
  ASSUME NEW S, NEW s \in Seq(S), NEW e \in S
  PROVE  /\ Append(s, e) \in Seq(S) /\ Len(Append(s, e)) = Len(s) + 1
         /\ Append(s, e)[Len(s) + 1] = e
         /\ \A i \in 1..Len(s) : Append(s, e)[i] = s[i]
OBVIOUS

(* What send does to the channel. *)
LEMMA SendTypes ==
  ASSUME TypeInv, Send
  PROVE  /\ Head(outbox) \in Events /\ outbox' \in Seq(Events)
         /\ queue' \in Seq(Events) /\ Len(queue') <= Limit
         /\ {dropped', lost', lostEvents'} \subseteq Nat
<1>1. Head(outbox) \in Events /\ outbox' \in Seq(Events)
  BY SequenceTypes DEF Send, TypeInv, TypeOK
<1>2. {dropped, lost, lostEvents} \subseteq Nat /\ queue \in Seq(Events) /\ Len(queue) <= Limit
      /\ Limit \in Nat \ {0} /\ Len(queue) \in Nat
  BY SizesAssumption DEF TypeInv, TypeOK
<1>3. CASE SendWithRoom
  <2>1. queue' = Append(queue, Head(outbox)) /\ UNCHANGED <<dropped, lost, lostEvents>>
        /\ Len(queue) < Limit
    BY <1>3 DEF SendWithRoom
  <2>2. queue' \in Seq(Events) /\ Len(queue') = Len(queue) + 1
    BY <1>1, <1>2, <2>1, AppendTypes
  <2> QED BY <1>1, <1>2, <2>1, <2>2
<1>4. CASE SendFull
  <2>1. /\ Len(queue) >= Limit /\ dropped' = dropped + 1 /\ lostEvents' = lostEvents + 1
        /\ \/ queue' = Append(Tail(queue), Head(outbox)) /\ lost' = lost + Weight(Head(queue))
           \/ queue' = queue /\ lost' = lost + Weight(Head(outbox))
    BY <1>4 DEF SendFull
  <2>2. queue # <<>>
    BY <1>2, <2>1
  <2>3. Head(queue) \in Events /\ Tail(queue) \in Seq(Events) /\ Len(Tail(queue)) = Len(queue) - 1
    BY <1>2, <2>2, SequenceTypes
  <2>4. Weight(Head(queue)) \in Nat /\ Weight(Head(outbox)) \in Nat
    BY <1>1, <2>3, WeightType
  <2>5. queue' \in Seq(Events) /\ Len(queue') = Len(queue)
    <3>1. CASE queue' = Append(Tail(queue), Head(outbox))
      <4>1. queue' \in Seq(Events) /\ Len(queue') = Len(Tail(queue)) + 1
        BY <1>1, <2>3, <3>1, AppendTypes
      <4> QED BY <1>2, <2>3, <4>1
    <3> QED BY <1>2, <2>1, <3>1
  <2>6. {dropped', lost', lostEvents'} \subseteq Nat
    BY <1>2, <2>1, <2>4
  <2> QED BY <1>1, <1>2, <2>5, <2>6
<1> QED BY <1>3, <1>4 DEF Send

LEMMA ReceiveTypes ==
  ASSUME TypeInv, Receive
  PROVE  /\ queue' \in Seq(Events) /\ Len(queue') <= Limit
         /\ received' \in Nat /\ phasesSeen' \in Nat
         /\ from' \in 0..Len(Phases) /\ summary' \in Summaries
<1> DEFINE e == Head(queue)
<1>1. queue \in Seq(Events) /\ queue # <<>> /\ Len(queue) <= Limit /\ Limit \in Nat
      /\ queue' = Tail(queue)
  BY SizesAssumption DEF TypeInv, TypeOK, Receive
<1>2. e \in Events /\ queue' \in Seq(Events) /\ Len(queue) \in Nat /\ Len(queue') = Len(queue) - 1
  BY <1>1, SequenceTypes
<1>3. Weight(e) \in Nat
  BY <1>2, WeightType
<1>4. /\ e.kind = "data" => e.phase \in 0..Len(Phases)
      /\ e.kind = "complete" => e.summary \in Summaries
  BY <1>2, PhasesAssumption DEF Events
<1>5. /\ received' = received + Weight(e)
      /\ from' = IF e.kind = "data" THEN e.phase ELSE from
      /\ phasesSeen' = phasesSeen + (IF e.kind = "phase" THEN 1 ELSE 0)
      /\ summary' = IF e.kind = "complete" THEN e.summary ELSE summary
  BY DEF Receive
<1>6. received \in Nat /\ phasesSeen \in Nat /\ from \in 0..Len(Phases) /\ summary \in Summaries
  BY DEF TypeInv, TypeOK
<1> HIDE DEF e
<1>7. Len(queue') <= Limit
  BY <1>1, <1>2
<1> QED BY <1>2, <1>3, <1>4, <1>5, <1>6, <1>7

(* What a generating step does to the thread's own counters and its outbox. *)
WorkTyped ==
  /\ sleeping \in BOOLEAN
  /\ {left, built, count, itemsGenerated, progressItems, phasesCompleted, late} \subseteq Nat
  /\ outbox \in Seq(Events)
  /\ StepsLeft

LEMMA WorkTypedFrom == TypeInv => WorkTyped
BY DEF TypeInv, TypeOK, WorkTyped

LEMMA LateType ==
  ASSUME late \in Nat, late' = late + (IF cancelled THEN 1 ELSE 0) PROVE late' \in Nat
<1>1. (IF cancelled THEN 1 ELSE 0) \in Nat
  BY Zenon, 0 \in Nat, 1 \in Nat
<1> QED BY <1>1

LEMMA GeneratorTypes ==
  ASSUME TypeInv, PhasesInOrder, PhasesInOrder',
         \/ NextPhase \/ WaitWhilePaused \/ StartPhase \/ PhaseStep \/ EndPhase
         \/ MakeRecord \/ MakeChain \/ BuildBatch \/ MakeEntry \/ SendLabels \/ SendEntry
         \/ EndBatch \/ LeaveEmptyBatch \/ Finish
  PROVE  WorkTyped'
<1> USE DEF StepsLeft, InsideStep
<1>1. /\ sleeping \in BOOLEAN
      /\ {left, built, count, itemsGenerated, progressItems, phasesCompleted, late} \subseteq Nat
      /\ outbox \in Seq(Events)
      /\ StepsLeft
  BY DEF TypeInv, TypeOK
<1>2. phase \in 1..Len(Phases) + 1 /\ Len(Phases) \in Nat
      /\ (pc \in InsidePhase => phase \in 1..Len(Phases))
  BY PhasesAssumption DEF PhasesInOrder
<1>3. CASE NextPhase
  BY <1>1, <1>3 DEF NextPhase, Goto, work, WorkTyped
<1>4. CASE WaitWhilePaused
  <2>1. sleeping' \in BOOLEAN
    BY <1>4 DEF WaitWhilePaused, PauseSleeps, PauseWakes
  <2> QED BY <1>1, <1>4, <2>1 DEF WaitWhilePaused, work, WorkTyped
<1>5. CASE StartPhase
  <2>1. Phases[phase] \in PhaseKinds
    BY <1>2, <1>5, PhasesAssumption DEF StartPhase, At, InsidePhase
  <2>2. Steps(Phases[phase]) \in Nat
    BY <2>1, SizesAssumption DEF Steps, PhaseKinds
  <2>3. outbox' \in Seq(Events)
    BY <1>1, <1>5, OutboxType DEF StartPhase, Emit
  <2>4. sleeping' = FALSE /\ late' = late /\ pc' = "loop" /\ left' = Steps(Phases[phase])
        /\ count' = 0 /\ UNCHANGED <<built, itemsGenerated, progressItems, phasesCompleted>>
    BY <1>5 DEF StartPhase, PauseEnds, Goto
  <2>5. {left', built', count', itemsGenerated', progressItems', phasesCompleted', late'}
          \subseteq Nat
    BY <1>1, <2>2, <2>4
  <2>6. sleeping' \in BOOLEAN /\ StepsLeft'
    BY <2>4
  <2> QED BY <2>3, <2>5, <2>6 DEF WorkTyped
<1>6. CASE PhaseStep
  BY <1>1, <1>6 DEF PhaseStep, work, WorkTyped
<1>7. CASE EndPhase
  <2>1. itemsGenerated' \in Nat /\ progressItems' \in Nat /\ phasesCompleted' \in Nat
    BY <1>1, <1>7 DEF EndPhase
  <2>2. phase \in 1..Len(Phases)
    BY <1>2, <1>7 DEF EndPhase, At, InsidePhase
  <2>3. outbox' \in Seq(Events)
    BY <1>7, <2>1, <2>2, OutboxType DEF EndPhase, Emit
  <2> QED BY <1>1, <1>7, <2>1, <2>3 DEF EndPhase, Goto, WorkTyped
<1>8. CASE MakeRecord
  <2>1. PICK w \in Nat : outbox' = <<Data(phase, w)>> /\ count' = count + w
    BY <1>8, SizesAssumption DEF MakeRecord, Emit
  <2>2. phase \in 1..Len(Phases) /\ left > 0
    BY <1>1, <1>2, <1>8 DEF MakeRecord, At, InsidePhase
  <2>3. outbox' \in Seq(Events)
    BY <2>1, <2>2, OutboxType
  <2>4. left' \in Nat /\ count' \in Nat
    BY <1>1, <1>8, <2>1, <2>2 DEF MakeRecord
  <2>5. late' \in Nat
    BY <1>1, <1>8, LateType DEF MakeRecord
  <2> QED BY <1>1, <1>8, <2>3, <2>4, <2>5 DEF MakeRecord, Goto, WorkTyped
<1>9. CASE MakeChain
  <2>1. PICK n \in ChainLengths :
          /\ count' = count + n
          /\ progressItems' = IF IsMultipleOf(count + n, ProgressInterval)
                                THEN count' ELSE progressItems
          /\ outbox' = IF IsMultipleOf(count + n, ProgressInterval)
                         THEN Append([i \in 1..n |-> Data(phase, 1)], Progress(count'))
                         ELSE [i \in 1..n |-> Data(phase, 1)]
    BY <1>9 DEF MakeChain, Emit
  <2>2. phase \in 1..Len(Phases) /\ left > 0
    BY <1>1, <1>2, <1>9 DEF MakeChain, At, InsidePhase
  <2>3. count' \in Nat /\ n \in Nat /\ left' \in Nat
    <3>1. n \in Nat /\ left' = left - 1
      BY <1>9, SizesAssumption DEF MakeChain
    <3> QED BY <1>1, <2>1, <2>2, <3>1
  <2>7. late' \in Nat
    BY <1>1, <1>9, LateType DEF MakeChain
  <2>4. Data(phase, 1) \in Events /\ Progress(count') \in Events
    BY <2>2, <2>3, EventTypes
  <2>5. outbox' \in Seq(Events)
    BY <2>1, <2>3, <2>4, RepeatedType, AppendTypes
  <2>6. sleeping' = FALSE /\ progressItems' \in Nat
    BY <1>1, <1>9, <2>1, <2>3 DEF MakeChain, PauseEnds
  <2>8. pc' = "loop" /\ UNCHANGED <<built, itemsGenerated, phasesCompleted>>
    BY <1>9 DEF MakeChain, Goto
  <2> QED BY <1>1, <2>3, <2>5, <2>6, <2>7, <2>8 DEF WorkTyped
<1>10. CASE BuildBatch \/ LeaveEmptyBatch
  BY <1>1, <1>10 DEF BuildBatch, LeaveEmptyBatch, At, Goto, work, WorkTyped
<1>11. CASE MakeEntry
  <2>1. sleeping' = FALSE /\ built' = built + 1 /\ pc' = "batch" /\ pc = "pauseEntry"
        /\ UNCHANGED <<left, count, itemsGenerated, progressItems, phasesCompleted, outbox>>
    BY <1>11 DEF MakeEntry, PauseEnds, At, Goto
  <2>2. late' \in Nat
    BY <1>1, <1>11, LateType DEF MakeEntry
  <2>3. {left', built', count', itemsGenerated', progressItems', phasesCompleted', late'}
          \subseteq Nat
    BY <1>1, <2>1, <2>2
  <2>4. sleeping' \in BOOLEAN /\ StepsLeft' /\ outbox' \in Seq(Events)
    BY <1>1, <2>1
  <2> QED BY <2>3, <2>4 DEF WorkTyped
<1>12. CASE SendLabels
  <2>1. PICK n \in Labels : outbox' = [i \in 1..n |-> Data(phase, 0)]
    BY <1>12 DEF SendLabels, Emit, LabelsOf
  <2>2. phase \in 1..Len(Phases) /\ n \in Nat
    BY <1>2, <1>12, SizesAssumption DEF SendLabels, At, InsidePhase
  <2>3. outbox' \in Seq(Events)
    BY <2>1, <2>2, EventTypes, RepeatedType
  <2> QED BY <1>1, <1>12, <2>3 DEF SendLabels, At, Goto, work, WorkTyped
<1>13. CASE SendEntry
  <2>1. phase \in 1..Len(Phases) /\ count' = count + 1 /\ built' = built - 1 /\ built > 0
    BY <1>2, <1>13 DEF SendEntry, At, InsidePhase
  <2>2. count' \in Nat /\ built' \in Nat /\ progressItems' \in Nat
    BY <1>1, <1>13, <2>1 DEF SendEntry
  <2>3. outbox' \in Seq(Events)
    BY <1>13, <2>1, <2>2, OutboxType DEF SendEntry, Emit
  <2> QED BY <1>1, <1>13, <2>2, <2>3 DEF SendEntry, WorkTyped
<1>14. CASE EndBatch
  <2>1. left' \in Nat
    BY <1>1, <1>14, SizesAssumption DEF EndBatch, CurrentBatch
  <2> QED BY <1>1, <1>14, <2>1 DEF EndBatch, Goto, WorkTyped
<1>15. CASE Finish
  <2>1. dropped \in Nat
    BY DEF TypeInv, TypeOK
  <2>2. [total |-> itemsGenerated, dropped |-> dropped, phases |-> phasesCompleted] \in Summaries
    BY <1>1, <2>1 DEF Summaries
  <2>3. outbox' \in Seq(Events)
    BY <1>15, <2>2, OutboxType DEF Finish, Emit
  <2> QED BY <1>1, <1>15, <2>3 DEF Finish, Goto, work, WorkTyped
<1> QED BY <1>3, <1>4, <1>5, <1>6, <1>7, <1>8, <1>9, <1>10, <1>11, <1>12, <1>13, <1>14, <1>15

LEMMA NextTypeInv == TypeInv /\ PhasesInOrder /\ PhasesInOrder' /\ [Next]_vars => TypeInv'
<1> SUFFICES ASSUME TypeInv, PhasesInOrder, PhasesInOrder', [Next]_vars PROVE TypeInv'
  OBVIOUS
<1>1. /\ strategy \in Strategies
      /\ {closed, cancelled, paused, over, gone} \subseteq BOOLEAN
      /\ {dropped, received, phasesSeen, lost, lostEvents} \subseteq Nat
      /\ from \in 0..Len(Phases) /\ summary \in Summaries
      /\ queue \in Seq(Events) /\ Len(queue) <= Limit
      /\ reader \in {"awake", "aboutToWait", "waiting"}
  BY DEF TypeInv, TypeOK
<1>2. WorkTyped
  BY WorkTypedFrom
<1>3. /\ pc' \in {"head", "pausePhase", "loop", "make", "pauseChain", "batch",
                  "pauseEntry", "send", "finish", "close", "done"}
      /\ phase' \in 1..Len(Phases) + 1
  BY DEF PhasesInOrder, ProgramPoints
<1>4. ASSUME WorkTyped', strategy' = strategy,
             reader' \in {"awake", "aboutToWait", "waiting"},
             {closed', cancelled', paused', over', gone'} \subseteq BOOLEAN,
             {dropped', received', phasesSeen', lost', lostEvents'} \subseteq Nat,
             from' \in 0..Len(Phases), summary' \in Summaries,
             queue' \in Seq(Events), Len(queue') <= Limit
      PROVE  TypeInv'
  <2>1. {sleeping', closed', cancelled', paused', over', gone'} \subseteq BOOLEAN
    BY <1>4 DEF WorkTyped
  <2>2. {left', built', count', itemsGenerated', progressItems', phasesCompleted', dropped',
         received', phasesSeen', lost', lostEvents', late'} \subseteq Nat
    BY <1>4 DEF WorkTyped
  <2>3. outbox' \in Seq(Events) /\ StepsLeft'
    BY <1>4 DEF WorkTyped
  <2>4. TypeOK'
    BY <1>1, <1>3, <1>4, <2>1, <2>2, <2>3 DEF TypeOK
  <2> QED BY <2>3, <2>4 DEF TypeInv
<1>5. CASE Send
  <2>1. /\ UNCHANGED <<strategy, closed, cancelled, paused, received, from, phasesSeen,
                       summary, over, gone>>
        /\ UNCHANGED <<pc, sleeping, left, built, count, itemsGenerated, progressItems,
                       phasesCompleted, late>>
        /\ reader' = "awake"
    BY <1>5 DEF Send, work, control, consumer
  <2>2. WorkTyped'
    BY <1>2, <1>5, <2>1, SendTypes DEF WorkTyped, StepsLeft
  <2> QED BY <1>1, <1>4, <1>5, <2>1, <2>2, SendTypes
<1>6. CASE \/ NextPhase \/ WaitWhilePaused \/ StartPhase \/ PhaseStep \/ EndPhase
           \/ MakeRecord \/ MakeChain \/ BuildBatch \/ MakeEntry \/ SendLabels \/ SendEntry
           \/ EndBatch \/ LeaveEmptyBatch \/ Finish
  <2>1. UNCHANGED <<channel, control, consumer>>
    BY <1>6 DEF NextPhase, WaitWhilePaused, StartPhase, PhaseStep, EndPhase, MakeRecord,
         MakeChain, BuildBatch, MakeEntry, SendLabels, SendEntry, EndBatch, LeaveEmptyBatch,
         Finish
  <2>2. UNCHANGED <<strategy, queue, reader, closed, dropped, lost, lostEvents, cancelled, paused,
                    received, from, phasesSeen, summary, over, gone>>
    BY <2>1 DEF channel, control, consumer
  <2>3. WorkTyped'
    BY <1>6, GeneratorTypes
  <2> QED BY <1>1, <1>4, <2>2, <2>3
<1>7. CASE Receive
  <2>1. /\ UNCHANGED <<strategy, reader, closed, cancelled, paused, dropped, lost, lostEvents,
                       over, gone>>
        /\ UNCHANGED <<pc, sleeping, outbox, left, built, count, itemsGenerated, progressItems,
                       phasesCompleted, late>>
    BY <1>7 DEF Receive, work, control
  <2>2. WorkTyped'
    BY <1>2, <2>1 DEF WorkTyped, StepsLeft
  <2> QED BY <1>1, <1>4, <1>7, <2>1, <2>2, ReceiveTypes
<1>8. CASE CloseChannel \/ ReceiveNone \/ ReaderMoves \/ StopReading \/ Cancel
             \/ \E flag \in BOOLEAN : SetPaused(flag)
  <2>1. /\ UNCHANGED <<strategy, queue, dropped, lost, lostEvents, received, from, phasesSeen,
                       summary>>
        /\ UNCHANGED <<sleeping, outbox, left, built, count, itemsGenerated, progressItems,
                       phasesCompleted, late>>
        /\ pc' = pc \/ pc' = "done"
    BY <1>8, ReaderMovesOnly DEF CloseChannel, ReceiveNone, StopReading, Cancel, SetPaused, Goto,
         work, channel, control, consumer
  <2>4. reader' \in {"awake", "aboutToWait", "waiting"}
    BY <1>1, <1>8, ReaderMovesOnly DEF CloseChannel, NotifyAll, ReceiveNone, StopReading, Cancel,
         SetPaused, channel
  <2>2. {closed', cancelled', paused', over', gone'} \subseteq BOOLEAN
    BY <1>1, <1>8, ReaderMovesOnly DEF CloseChannel, ReceiveNone, StopReading, Cancel, SetPaused, work, channel,
         control, consumer
  <2>3. WorkTyped'
    BY <1>2, <2>1 DEF WorkTyped, StepsLeft, InsideStep
  <2> QED BY <1>1, <1>4, <2>1, <2>2, <2>3, <2>4
<1>9. CASE UNCHANGED vars
  BY <1>9 DEF vars, work, channel, control, consumer, TypeInv, TypeOK, StepsLeft
<1> QED
  BY <1>5, <1>6, <1>7, <1>8, <1>9 DEF Next, GeneratorStep, ConsumerStep, ReaderMoves

(* Every variable keeps its type: no counter of the generation thread goes *)
(* below zero, whatever is cancelled in the middle of a batch, every event *)
(* on its way is well formed, and the queue stays within its limit.        *)
THEOREM TypeCorrect == Spec => []TypeOK
<1>1. TypeInv => TypeOK
  BY DEF TypeInv
<1> QED
  BY <1>1, InitTypeInv, NextTypeInv, PhasesInOrderInit, PhasesInOrderNext, PTL DEF Spec

(***************************************************************************)
(* What is on its way.  The queue and the outbox together are one stream   *)
(* of events; reading it from its head takes the client from what it has   *)
(* received to what the generation thread has produced.  This is said with *)
(* a table of the values on the way, so that it can be followed through a  *)
(* send, an eviction, a refusal and a receipt without adding up sequences. *)
(***************************************************************************)

(* How one event takes the reader from x to y: in the amount of data, and  *)
(* in the number of completed phases, where data must be of the phase that *)
(* is not yet completed.                                                   *)
Moves(m, x, e, y) ==
  IF m = "amount" THEN y = x + Weight(e)
  ELSE /\ e.kind = "data" => e.phase = x + 1 /\ x < Len(Phases)
       /\ e.kind = "phase" => x < Len(Phases)
       /\ y = x + (IF e.kind = "phase" THEN 1 ELSE 0)

Along(m, s, f) == \A i \in 1..Len(s) : Moves(m, f[i - 1], s[i], f[i])
Leads(m, s, a, b) ==
  \E f \in [0..Len(s) -> Nat] : f[0] = a /\ f[Len(s)] = b /\ Along(m, s, f)

LEMMA LeadsNowhere ==
  ASSUME NEW m, NEW a \in Nat
  PROVE  Leads(m, <<>>, a, a)
<1> DEFINE f == [i \in 0..0 |-> a]
<1>1. f \in [0..Len(<<>>) -> Nat] /\ f[0] = a /\ f[Len(<<>>)] = a /\ Along(m, <<>>, f)
  BY DEF Along
<1> QED BY <1>1 DEF Leads

LEMMA LeadsStays ==
  ASSUME NEW m, NEW a, NEW b, Leads(m, <<>>, a, b)
  PROVE  a = b
BY DEF Leads

LEMMA LeadsType ==
  ASSUME NEW m, NEW S, NEW s \in Seq(S), NEW a, NEW b, Leads(m, s, a, b)
  PROVE  a \in Nat /\ b \in Nat
<1>1. PICK f \in [0..Len(s) -> Nat] : f[0] = a /\ f[Len(s)] = b
  BY DEF Leads
<1>2. 0 \in 0..Len(s) /\ Len(s) \in 0..Len(s)
  OBVIOUS
<1> QED BY <1>1, <1>2

(* An event at the end. *)
LEMMA LeadsAppend ==
  ASSUME NEW m, NEW S, NEW s \in Seq(S), NEW e \in S, NEW a \in Nat, NEW b \in Nat,
         NEW c \in Nat, Leads(m, s, a, b), Moves(m, b, e, c)
  PROVE  Leads(m, Append(s, e), a, c)
<1> DEFINE n == Len(s)
<1> DEFINE t == Append(s, e)
<1>1. PICK f \in [0..n -> Nat] : f[0] = a /\ f[n] = b /\ Along(m, s, f)
  BY DEF Leads
<1> DEFINE g == [i \in 0..n + 1 |-> IF i = n + 1 THEN c ELSE f[i]]
<1>2. n \in Nat /\ Len(t) = n + 1 /\ t[n + 1] = e /\ \A i \in 1..n : t[i] = s[i]
  BY AppendTypes
<1> HIDE DEF n, t
<1>3. g \in [0..n + 1 -> Nat] /\ g[n + 1] = c /\ \A i \in 0..n : g[i] = f[i]
  BY <1>2
<1>4. n = Len(s)
  BY DEF n
<1> HIDE DEF g
<1>5. ASSUME NEW i \in 1..n + 1
      PROVE  Moves(m, g[i - 1], t[i], g[i])
  <2>1. CASE i = n + 1
    <3>1. i - 1 = n /\ n \in 0..n
      BY <1>2, <2>1
    <3>2. g[i - 1] = b /\ t[i] = e /\ g[i] = c
      BY <1>1, <1>2, <1>3, <2>1, <3>1
    <3> QED BY <3>2
  <2>2. CASE i # n + 1
    <3>1. i \in 1..n /\ i - 1 \in 0..n /\ i \in 0..n
      BY <1>2, <2>2
    <3>2. g[i - 1] = f[i - 1] /\ t[i] = s[i] /\ g[i] = f[i]
      BY <1>2, <1>3, <3>1
    <3> QED BY <1>1, <1>4, <3>1, <3>2 DEF Along
  <2> QED BY <2>1, <2>2
<1>6. g[0] = a
  BY <1>1, <1>2, <1>3
<1>7. g \in [0..Len(t) -> Nat] /\ g[Len(t)] = c /\ Along(m, t, g)
  BY <1>2, <1>3, <1>5 DEF Along
<1>8. Leads(m, t, a, c)
  BY <1>6, <1>7 DEF Leads
<1> QED BY <1>8 DEF t

(* The event at the head. *)
LEMMA LeadsTail ==
  ASSUME NEW m, NEW S, NEW s \in Seq(S), s # <<>>, NEW a, NEW b, Leads(m, s, a, b)
  PROVE  \E c \in Nat : Moves(m, a, Head(s), c) /\ Leads(m, Tail(s), c, b)
<1> DEFINE n == Len(s)
<1> DEFINE t == Tail(s)
<1>1. PICK f \in [0..n -> Nat] : f[0] = a /\ f[n] = b /\ Along(m, s, f)
  BY DEF Leads
<1>2. n \in Nat \ {0} /\ Len(t) = n - 1 /\ Head(s) = s[1] /\ \A i \in 1..n - 1 : t[i] = s[i + 1]
  BY SequenceTypes
<1>3. \A i \in 1..n : Moves(m, f[i - 1], s[i], f[i])
  BY <1>1 DEF Along
<1> HIDE DEF n, t
<1> DEFINE g == [i \in 0..n - 1 |-> f[i + 1]]
<1>4. g \in [0..n - 1 -> Nat] /\ \A i \in 0..n - 1 : g[i] = f[i + 1]
  BY <1>2
<1> HIDE DEF g
<1>5. ASSUME NEW i \in 1..n - 1
      PROVE  Moves(m, g[i - 1], t[i], g[i])
  <2>1. i - 1 \in 0..n - 1 /\ i \in 0..n - 1 /\ i + 1 \in 1..n /\ (i - 1) + 1 = i /\ (i + 1) - 1 = i
    BY <1>2
  <2>2. g[i - 1] = f[i] /\ g[i] = f[i + 1] /\ t[i] = s[i + 1]
    BY <1>2, <1>4, <2>1
  <2>3. Moves(m, f[(i + 1) - 1], s[i + 1], f[i + 1])
    BY <1>3, <2>1
  <2> QED BY <2>1, <2>2, <2>3
<1>6. 1 \in 0..n /\ 0 \in 0..n - 1 /\ n - 1 \in 0..n - 1 /\ (n - 1) + 1 = n /\ 1 \in 1..n /\ 1 - 1 = 0
      /\ 0 + 1 = 1
  BY <1>2
<1>7. g[0] = f[1] /\ f[1] \in Nat
  BY <1>1, <1>4, <1>6
<1>8. g[n - 1] = b
  BY <1>1, <1>4, <1>6
<1>9. Moves(m, a, Head(s), f[1])
  <2>1. Moves(m, f[1 - 1], s[1], f[1])
    BY <1>3, <1>6
  <2> QED BY <1>1, <1>2, <1>6, <2>1
<1>10. g \in [0..Len(t) -> Nat] /\ g[Len(t)] = b /\ Along(m, t, g)
  BY <1>2, <1>4, <1>5, <1>8 DEF Along
<1>11. Leads(m, t, f[1], b)
  BY <1>7, <1>10 DEF Leads
<1> QED BY <1>7, <1>9, <1>11 DEF t

(* The same event n times, when it counts for one and when it counts for nothing. *)
LEMMA LeadsRepeatedly ==
  ASSUME NEW m, NEW e, NEW n \in Nat, NEW a \in Nat,
         \A x \in Nat : Moves(m, x, e, x + 1)
  PROVE  Leads(m, [i \in 1..n |-> e], a, a + n)
<1> DEFINE t == [i \in 1..n |-> e]
<1> DEFINE g == [i \in 0..n |-> a + i]
<1>1. Len(t) = n /\ \A i \in 1..n : t[i] = e
  BY RepeatedType
<1>2. g \in [0..n -> Nat] /\ g[0] = a /\ g[n] = a + n
  OBVIOUS
<1>3. \A i \in 1..n : g[i] = g[i - 1] + 1 /\ g[i - 1] \in Nat
  OBVIOUS
<1> HIDE DEF t, g
<1>4. Along(m, t, g)
  BY <1>1, <1>3 DEF Along
<1>5. Leads(m, t, a, a + n)
  BY <1>1, <1>2, <1>4 DEF Leads
<1> QED BY <1>5 DEF t

LEMMA LeadsConstant ==
  ASSUME NEW m, NEW e, NEW n \in Nat, NEW a \in Nat, Moves(m, a, e, a)
  PROVE  Leads(m, [i \in 1..n |-> e], a, a)
<1> DEFINE t == [i \in 1..n |-> e]
<1> DEFINE g == [i \in 0..n |-> a]
<1>1. Len(t) = n /\ \A i \in 1..n : t[i] = e
  BY RepeatedType
<1>2. g \in [0..n -> Nat] /\ g[0] = a /\ g[n] = a
  OBVIOUS
<1>3. \A i \in 1..n : g[i] = a /\ g[i - 1] = a
  OBVIOUS
<1> HIDE DEF t, g
<1>4. Along(m, t, g)
  BY <1>1, <1>3 DEF Along
<1>5. Leads(m, t, a, a)
  BY <1>1, <1>2, <1>4 DEF Leads
<1> QED BY <1>5 DEF t

(* What is lost before the head counts as received. *)
LEMMA LeadsFurther ==
  ASSUME NEW S, NEW s \in Seq(S), NEW a, NEW b, NEW w \in Nat, Leads("amount", s, a, b),
         \A i \in 1..Len(s) : Weight(s[i]) \in Nat
  PROVE  Leads("amount", s, a + w, b + w)
<1> DEFINE n == Len(s)
<1>1. PICK f \in [0..n -> Nat] : f[0] = a /\ f[n] = b /\ Along("amount", s, f)
  BY DEF Leads
<1>2. n \in Nat /\ \A i \in 1..n : f[i] = f[i - 1] + Weight(s[i])
  BY <1>1 DEF Along, Moves
<1> DEFINE g == [i \in 0..n |-> f[i] + w]
<1>3. g \in [0..n -> Nat] /\ g[0] = a + w /\ g[n] = b + w
  BY <1>1, <1>2
<1>4. ASSUME NEW i \in 1..n
      PROVE  g[i] = g[i - 1] + Weight(s[i])
  <2>1. i - 1 \in 0..n /\ i \in 0..n /\ Weight(s[i]) \in Nat
    BY <1>2
  <2>2. g[i] = f[i] + w /\ g[i - 1] = f[i - 1] + w /\ f[i] \in Nat /\ f[i - 1] \in Nat
    BY <1>1, <2>1
  <2>3. f[i] = f[i - 1] + Weight(s[i])
    BY <1>2
  <2> QED BY <2>1, <2>2, <2>3
<1>5. Along("amount", s, g)
  BY <1>4 DEF Along, Moves
<1> QED BY <1>3, <1>5 DEF Leads

LEMMA LeadsOne ==
  ASSUME NEW m, NEW e, NEW a \in Nat, NEW b \in Nat, Moves(m, a, e, b)
  PROVE  Leads(m, <<e>>, a, b)
<1>1. Leads(m, Append(<<>>, e), a, b)
  <2>1. <<>> \in Seq({e}) /\ e \in {e}
    OBVIOUS
  <2> QED BY <2>1, LeadsNowhere, LeadsAppend
<1> QED BY <1>1

LEMMA LeadsTwo ==
  ASSUME NEW m, NEW d, NEW e, NEW a \in Nat, NEW b \in Nat, NEW c \in Nat,
         Moves(m, a, d, b), Moves(m, b, e, c)
  PROVE  Leads(m, <<d, e>>, a, c)
<1> DEFINE s == <<d, e>>
<1> DEFINE f == [i \in 0..2 |-> IF i = 0 THEN a ELSE IF i = 1 THEN b ELSE c]
<1>1. Len(s) = 2 /\ s[1] = d /\ s[2] = e
  OBVIOUS
<1>2. f \in [0..2 -> Nat] /\ f[0] = a /\ f[1] = b /\ f[2] = c
  OBVIOUS
<1> HIDE DEF s, f
<1>3. \A i \in 1..2 : (i = 1 /\ i - 1 = 0) \/ (i = 2 /\ i - 1 = 1)
  OBVIOUS
<1>4. Along(m, s, f)
  BY <1>1, <1>2, <1>3 DEF Along
<1>5. Leads(m, s, a, c)
  BY <1>1, <1>2, <1>4 DEF Leads
<1> QED BY <1>5 DEF s

(* A queue and an outbox behind it. *)
Through(m, q, o, a, b) == \E k \in Nat : Leads(m, q, a, k) /\ Leads(m, o, k, b)

LEMMA ThroughEmit ==
  ASSUME NEW m, NEW q, NEW o, NEW a, NEW b, NEW c, Through(m, q, <<>>, a, b), Leads(m, o, b, c)
  PROVE  Through(m, q, o, a, c)
<1>1. PICK k \in Nat : Leads(m, q, a, k) /\ Leads(m, <<>>, k, b)
  BY DEF Through
<1>2. k = b
  BY <1>1, LeadsStays
<1> QED BY <1>1, <1>2 DEF Through

LEMMA ThroughSend ==
  ASSUME NEW m, NEW S, NEW q \in Seq(S), NEW o \in Seq(S), o # <<>>, NEW a, NEW b,
         Through(m, q, o, a, b)
  PROVE  Through(m, Append(q, Head(o)), Tail(o), a, b)
<1>1. PICK k \in Nat : Leads(m, q, a, k) /\ Leads(m, o, k, b)
  BY DEF Through
<1>2. PICK c \in Nat : Moves(m, k, Head(o), c) /\ Leads(m, Tail(o), c, b)
  BY <1>1, LeadsTail
<1>3. a \in Nat /\ Head(o) \in S
  BY <1>1, LeadsType, SequenceTypes
<1>4. Leads(m, Append(q, Head(o)), a, c)
  BY <1>1, <1>2, <1>3, LeadsAppend
<1> QED BY <1>2, <1>4 DEF Through

LEMMA ThroughTake ==
  ASSUME NEW m, NEW S, NEW q \in Seq(S), NEW o, q # <<>>, NEW a, NEW b, Through(m, q, o, a, b)
  PROVE  \E c \in Nat : Moves(m, a, Head(q), c) /\ Through(m, Tail(q), o, c, b)
<1>1. PICK k \in Nat : Leads(m, q, a, k) /\ Leads(m, o, k, b)
  BY DEF Through
<1>2. PICK c \in Nat : Moves(m, a, Head(q), c) /\ Leads(m, Tail(q), c, k)
  BY <1>1, LeadsTail
<1> QED BY <1>1, <1>2 DEF Through

LEMMA ThroughRefuse ==
  ASSUME NEW q \in Seq(Events), NEW o \in Seq(Events), o # <<>>, NEW a, NEW b,
         Through("amount", q, o, a, b)
  PROVE  Through("amount", q, Tail(o), a + Weight(Head(o)), b)
<1>1. PICK k \in Nat : Leads("amount", q, a, k) /\ Leads("amount", o, k, b)
  BY DEF Through
<1>2. PICK c \in Nat : Moves("amount", k, Head(o), c) /\ Leads("amount", Tail(o), c, b)
  BY <1>1, LeadsTail
<1>3. Weight(Head(o)) \in Nat /\ \A i \in 1..Len(q) : Weight(q[i]) \in Nat
  BY SequenceTypes, WeightType
<1>4. Leads("amount", q, a + Weight(Head(o)), k + Weight(Head(o)))
  BY <1>1, <1>3, LeadsFurther
<1>5. c = k + Weight(Head(o))
  BY <1>2 DEF Moves
<1> QED BY <1>2, <1>4, <1>5 DEF Through

-----------------------------------------------------------------------------
(* What the generation thread has produced, and what it puts into its      *)
(* outbox for it.                                                          *)

CountedPoints == {"loop", "make", "pauseChain", "batch", "pauseEntry", "send"}
Produced == itemsGenerated + (IF pc \in CountedPoints THEN count ELSE 0)

LEMMA EventMoves ==
  /\ \A m, a, n : a \in Nat => Moves(m, a, Progress(n), a)
  /\ \A a, p, w : Moves("amount", a, Data(p, w), a + w)
  /\ \A a, w : a \in Nat /\ a < Len(Phases) => Moves("order", a, Data(a + 1, w), a)
  /\ \A a, p : a \in Nat => Moves("amount", a, PhaseComplete(p), a)
  /\ \A a, p : a < Len(Phases) => Moves("order", a, PhaseComplete(p), a + 1)
  /\ \A m, a, s : a \in Nat => Moves(m, a, Complete(s), a)
<1> USE DEF Moves, Weight, Progress, Data, PhaseComplete, Complete
<1>1. \A m, a, n : a \in Nat => Moves(m, a, Progress(n), a)
  OBVIOUS
<1>2. \A a, p, w : Moves("amount", a, Data(p, w), a + w)
  OBVIOUS
<1>3. \A a, w : a \in Nat /\ a < Len(Phases) => Moves("order", a, Data(a + 1, w), a)
  OBVIOUS
<1>4. \A a, p : a \in Nat => Moves("amount", a, PhaseComplete(p), a)
  OBVIOUS
<1>5. \A a, p : a < Len(Phases) => Moves("order", a, PhaseComplete(p), a + 1)
  OBVIOUS
<1>6. \A m, a, s : a \in Nat => Moves(m, a, Complete(s), a)
  OBVIOUS
<1> QED BY <1>1, <1>2, <1>3, <1>4, <1>5, <1>6

LEMMA ProducedType == TypeInv => Produced \in Nat /\ phasesCompleted \in Nat
<1>1. TypeInv => count \in Nat /\ itemsGenerated \in Nat /\ phasesCompleted \in Nat
  BY DEF TypeInv, TypeOK
<1>2. (IF pc \in CountedPoints THEN count ELSE 0) \in {count, 0}
  OBVIOUS
<1> QED BY <1>1, <1>2 DEF Produced

(* What a generating step announces is what it counts. *)
Announced ==
  /\ Leads("amount", outbox', Produced, Produced')
  /\ Leads("order", outbox', phasesCompleted, phasesCompleted')

LEMMA QuietSteps ==
  ASSUME TypeInv, outbox' = <<>>, Produced' = Produced, phasesCompleted' = phasesCompleted
  PROVE  Announced
BY ProducedType, LeadsNowhere DEF Announced

LEMMA ThreadMoves ==
  ASSUME TypeInv, PhasesInOrder, PhasesInOrder',
         \/ NextPhase \/ WaitWhilePaused \/ PhaseStep \/ BuildBatch \/ MakeEntry \/ EndBatch
         \/ LeaveEmptyBatch
  PROVE  Announced
<1>1. /\ UNCHANGED <<count, itemsGenerated, phasesCompleted, outbox>> /\ outbox = <<>>
  BY DEF NextPhase, WaitWhilePaused, PhaseStep, BuildBatch, MakeEntry, EndBatch,
         LeaveEmptyBatch, At, work
<1>2. (pc' \in CountedPoints) <=> (pc \in CountedPoints)
  <2>1. CASE PhaseStep
    <3>1. left > 0 /\ pc = "loop"
      BY <2>1 DEF PhaseStep, At
    <3>2. Phases[phase] \in PhaseKinds \ {"skipped"}
      BY <3>1, PhasesAssumption DEF PhasesInOrder, InsidePhase, Skipping
    <3>3. AfterCancelTest(Phases[phase]) \in InsideStep
      BY <3>2 DEF AfterCancelTest, PhaseKinds, InsideStep
    <3> QED BY <2>1, <3>1, <3>3 DEF PhaseStep, Goto, InsideStep, CountedPoints
  <2>2. CASE ~PhaseStep
    BY <2>2 DEF NextPhase, WaitWhilePaused, BuildBatch, MakeEntry, EndBatch, LeaveEmptyBatch,
                At, Goto, CountedPoints
  <2> QED BY <2>1, <2>2
<1>3. Produced' = Produced
  BY <1>1, <1>2 DEF Produced
<1> QED BY <1>1, <1>3, QuietSteps

LEMMA StartPhaseAnnounced ==
  ASSUME TypeInv, StartPhase
  PROVE  Announced
<1>1. /\ pc = "pausePhase" /\ pc' = "loop" /\ count' = 0
      /\ outbox' = <<Progress(progressItems)>>
      /\ UNCHANGED <<itemsGenerated, phasesCompleted>>
  BY DEF StartPhase, At, Goto, Emit
<1>2. itemsGenerated \in Nat
  BY DEF TypeInv, TypeOK
<1>3. Produced = itemsGenerated /\ Produced' = itemsGenerated
  BY <1>1, <1>2 DEF Produced, CountedPoints
<1>4. Leads("amount", outbox', itemsGenerated, itemsGenerated)
  BY <1>1, <1>2, EventMoves, LeadsOne
<1>5. Leads("order", outbox', phasesCompleted, phasesCompleted)
  BY <1>1, ProducedType, EventMoves, LeadsOne
<1> QED BY <1>1, <1>3, <1>4, <1>5 DEF Announced

LEMMA EndPhaseAnnounced ==
  ASSUME TypeInv, PhasesInOrder, EndPhase
  PROVE  Announced
<1>1. /\ pc = "loop" /\ pc' = "head" /\ itemsGenerated' = itemsGenerated + count
      /\ outbox' = <<PhaseComplete(phase), Progress(itemsGenerated')>>
      /\ phasesCompleted' = phasesCompleted + 1 /\ count' = count
  BY DEF EndPhase, At, Goto, Emit
<1>2. itemsGenerated \in Nat /\ count \in Nat /\ phasesCompleted \in Nat
  BY DEF TypeInv, TypeOK
<1>3. Produced = itemsGenerated + count /\ Produced' = itemsGenerated + count
  BY <1>1, <1>2 DEF Produced, CountedPoints
<1>4. Leads("amount", outbox', Produced, Produced)
  BY <1>1, ProducedType, EventMoves, LeadsTwo
<1>5. phasesCompleted < Len(Phases)
  BY <1>1, <1>2, PhasesAssumption DEF PhasesInOrder, InsidePhase
<1>6. Leads("order", outbox', phasesCompleted, phasesCompleted + 1)
  <2>1. /\ Moves("order", phasesCompleted, PhaseComplete(phase), phasesCompleted + 1)
        /\ Moves("order", phasesCompleted + 1, Progress(itemsGenerated'), phasesCompleted + 1)
    BY <1>2, <1>5, EventMoves
  <2>2. phasesCompleted + 1 \in Nat
    BY <1>2
  <2> QED BY <1>1, <1>2, <2>1, <2>2, LeadsTwo
<1> QED BY <1>1, <1>3, <1>4, <1>6 DEF Announced

(* Where data is produced, it is of the phase that follows the completed ones. *)
LEMMA DataPhase ==
  ASSUME TypeInv, PhasesInOrder, pc \in InsidePhase
  PROVE  /\ phasesCompleted \in Nat /\ phasesCompleted < Len(Phases)
         /\ phase = phasesCompleted + 1
BY PhasesAssumption DEF TypeInv, TypeOK, PhasesInOrder

LEMMA DataMoves ==
  ASSUME TypeInv, PhasesInOrder, pc \in InsidePhase, NEW w
  PROVE  Moves("order", phasesCompleted, Data(phase, w), phasesCompleted)
BY DataPhase, EventMoves

LEMMA MakeRecordAnnounced ==
  ASSUME TypeInv, PhasesInOrder, MakeRecord
  PROVE  Announced
<1>1. PICK w \in Nat :
        /\ outbox' = <<Data(phase, w)>> /\ count' = count + w /\ pc = "make" /\ pc' = "loop"
        /\ UNCHANGED <<itemsGenerated, phasesCompleted>>
  BY SizesAssumption DEF MakeRecord, At, Goto, Emit
<1>2. itemsGenerated \in Nat /\ count \in Nat
  BY DEF TypeInv, TypeOK
<1>3. Produced' = Produced + w /\ Produced + w \in Nat
  BY <1>1, <1>2 DEF Produced, CountedPoints
<1>4. Leads("amount", outbox', Produced, Produced + w)
  BY <1>1, <1>3, ProducedType, EventMoves, LeadsOne
<1>5. Leads("order", outbox', phasesCompleted, phasesCompleted)
  <2>1. pc \in InsidePhase
    BY <1>1 DEF InsidePhase
  <2> QED BY <1>1, <2>1, ProducedType, DataMoves, LeadsOne
<1> QED BY <1>1, <1>3, <1>4, <1>5 DEF Announced

LEMMA MakeChainAnnounced ==
  ASSUME TypeInv, PhasesInOrder, MakeChain
  PROVE  Announced
<1>1. PICK n \in ChainLengths :
        /\ count' = count + n
        /\ outbox' = IF IsMultipleOf(count + n, ProgressInterval)
                       THEN Append([i \in 1..n |-> Data(phase, 1)], Progress(count'))
                       ELSE [i \in 1..n |-> Data(phase, 1)]
  BY DEF MakeChain, Emit
<1>2. /\ pc = "pauseChain" /\ pc' = "loop" /\ UNCHANGED <<itemsGenerated, phasesCompleted>>
      /\ n \in Nat /\ itemsGenerated \in Nat /\ count \in Nat /\ pc \in InsidePhase
  BY SizesAssumption DEF MakeChain, At, Goto, TypeInv, TypeOK, InsidePhase
<1>3. Produced' = Produced + n /\ Produced + n \in Nat
  BY <1>1, <1>2 DEF Produced, CountedPoints
<1> DEFINE e == Data(phase, 1)
<1> DEFINE documents == [i \in 1..n |-> e]
<1>4. Leads("amount", documents, Produced, Produced + n)
  <2>1. \A x \in Nat : Moves("amount", x, e, x + 1)
    BY EventMoves
  <2> HIDE DEF e
  <2> QED BY <1>2, <2>1, ProducedType, LeadsRepeatedly
<1>5. Leads("order", documents, phasesCompleted, phasesCompleted)
  <2>1. Moves("order", phasesCompleted, e, phasesCompleted)
    BY <1>2, DataMoves
  <2> HIDE DEF e
  <2> QED BY <1>2, <2>1, ProducedType, LeadsConstant
<1>6. documents \in Seq({e, Progress(count')}) /\ Progress(count') \in {e, Progress(count')}
  <2> HIDE DEF e
  <2> QED BY <1>2, RepeatedType
<1> HIDE DEF documents
<1>7. Leads("amount", Append(documents, Progress(count')), Produced, Produced + n)
  BY <1>3, <1>4, <1>6, ProducedType, EventMoves, LeadsAppend
<1>8. Leads("order", Append(documents, Progress(count')), phasesCompleted, phasesCompleted)
  BY <1>5, <1>6, ProducedType, EventMoves, LeadsAppend
<1>9. outbox' = documents \/ outbox' = Append(documents, Progress(count'))
  BY <1>1 DEF documents
<1> QED BY <1>2, <1>3, <1>4, <1>5, <1>7, <1>8, <1>9 DEF Announced

LEMMA SendLabelsAnnounced ==
  ASSUME TypeInv, PhasesInOrder, SendLabels
  PROVE  Announced
<1>1. PICK n \in Labels : outbox' = [i \in 1..n |-> Data(phase, 0)]
  BY DEF SendLabels, Emit, LabelsOf
<1>2. /\ pc = "batch" /\ pc' = "send" /\ UNCHANGED <<itemsGenerated, phasesCompleted, count>>
      /\ n \in Nat /\ pc \in InsidePhase
  BY SizesAssumption DEF SendLabels, At, Goto, InsidePhase, work
<1>3. Produced' = Produced
  BY <1>2 DEF Produced, CountedPoints
<1> DEFINE e == Data(phase, 0)
<1>4. Moves("amount", Produced, e, Produced)
  <2>1. Moves("amount", Produced, e, Produced + 0)
    BY EventMoves
  <2> QED BY <2>1, ProducedType
<1>5. Moves("order", phasesCompleted, e, phasesCompleted)
  BY <1>2, DataMoves
<1> HIDE DEF e
<1>6. Leads("amount", [i \in 1..n |-> e], Produced, Produced)
  BY <1>2, <1>4, ProducedType, LeadsConstant
<1>7. Leads("order", [i \in 1..n |-> e], phasesCompleted, phasesCompleted)
  BY <1>2, <1>5, ProducedType, LeadsConstant
<1> QED BY <1>1, <1>2, <1>3, <1>6, <1>7 DEF Announced, e

LEMMA SendEntryAnnounced ==
  ASSUME TypeInv, PhasesInOrder, SendEntry
  PROVE  Announced
<1>1. /\ pc = "send" /\ pc' = pc /\ count' = count + 1
      /\ UNCHANGED <<itemsGenerated, phasesCompleted>>
      /\ \/ outbox' = <<Data(phase, 1)>>
         \/ outbox' = <<Data(phase, 1), Progress(count')>>
  BY DEF SendEntry, At, Emit
<1>2. itemsGenerated \in Nat /\ count \in Nat /\ pc \in InsidePhase
  BY <1>1 DEF TypeInv, TypeOK, InsidePhase
<1>3. Produced' = Produced + 1 /\ Produced + 1 \in Nat
  BY <1>1, <1>2 DEF Produced, CountedPoints
<1>4. /\ Moves("amount", Produced, Data(phase, 1), Produced + 1)
      /\ Moves("amount", Produced + 1, Progress(count'), Produced + 1)
  BY <1>3, EventMoves
<1>5. /\ Moves("order", phasesCompleted, Data(phase, 1), phasesCompleted)
      /\ Moves("order", phasesCompleted, Progress(count'), phasesCompleted)
  BY <1>2, ProducedType, DataMoves, EventMoves
<1>6. Leads("amount", outbox', Produced, Produced + 1)
  BY <1>1, <1>3, <1>4, ProducedType, LeadsOne, LeadsTwo
<1>7. Leads("order", outbox', phasesCompleted, phasesCompleted)
  BY <1>1, <1>5, ProducedType, LeadsOne, LeadsTwo
<1> QED BY <1>1, <1>3, <1>6, <1>7 DEF Announced

LEMMA FinishAnnounced ==
  ASSUME TypeInv, Finish
  PROVE  Announced
<1>1. PICK s : outbox' = <<Complete(s)>>
  BY DEF Finish, Emit
<1>2. /\ pc = "finish" /\ pc' = "close" /\ UNCHANGED <<itemsGenerated, phasesCompleted, count>>
  BY DEF Finish, At, Goto, work
<1>3. Produced' = Produced
  BY <1>2 DEF Produced, CountedPoints
<1>4. Leads("amount", outbox', Produced, Produced)
  BY <1>1, ProducedType, EventMoves, LeadsOne
<1>5. Leads("order", outbox', phasesCompleted, phasesCompleted)
  BY <1>1, ProducedType, EventMoves, LeadsOne
<1> QED BY <1>2, <1>3, <1>4, <1>5 DEF Announced

(* The generating steps: each finds the outbox empty. *)
Generates ==
  \/ NextPhase \/ WaitWhilePaused \/ StartPhase \/ PhaseStep \/ EndPhase
  \/ MakeRecord \/ MakeChain \/ BuildBatch \/ MakeEntry \/ SendLabels \/ SendEntry
  \/ EndBatch \/ LeaveEmptyBatch \/ Finish

LEMMA GeneratesAnnounced ==
  ASSUME TypeInv, PhasesInOrder, PhasesInOrder', Generates
  PROVE  Announced /\ outbox = <<>>
<1>1. Announced
  <2>1. CASE \/ NextPhase \/ WaitWhilePaused \/ PhaseStep \/ BuildBatch \/ MakeEntry \/ EndBatch
             \/ LeaveEmptyBatch
    BY <2>1, ThreadMoves
  <2> QED BY <2>1, StartPhaseAnnounced, EndPhaseAnnounced, MakeRecordAnnounced,
             MakeChainAnnounced, SendLabelsAnnounced, SendEntryAnnounced, FinishAnnounced
             DEF Generates
<1>2. outbox = <<>>
  BY DEF Generates, NextPhase, WaitWhilePaused, StartPhase, PhaseStep, EndPhase, MakeRecord,
         MakeChain, BuildBatch, MakeEntry, SendLabels, SendEntry, EndBatch, LeaveEmptyBatch,
         Finish, At
<1> QED BY <1>1, <1>2

-----------------------------------------------------------------------------
(* Losses. *)

(* What was received and lost, and what is on its way, is what was produced. *)
Balance == Through("amount", queue, outbox, received + lost, Produced)

LEMMA BalanceInit == Init => Balance
<1> SUFFICES ASSUME Init PROVE Balance
  OBVIOUS
<1>1. queue = <<>> /\ outbox = <<Progress(0)>> /\ received + lost = 0 /\ Produced = 0
  BY DEF Init, Produced
<1>2. Leads("amount", queue, 0, 0)
  BY <1>1, LeadsNowhere
<1>3. Leads("amount", outbox, 0, 0)
  BY <1>1, EventMoves, LeadsOne
<1>4. Through("amount", queue, outbox, 0, 0)
  BY <1>2, <1>3 DEF Through
<1> QED BY <1>1, <1>4 DEF Balance

(* A send moves an event from the outbox to the queue, or loses one: the   *)
(* oldest of the queue or the new one.                                     *)
LEMMA SendCases ==
  ASSUME TypeInv, Send
  PROVE  /\ outbox # <<>> /\ outbox' = Tail(outbox)
         /\ UNCHANGED <<strategy, received, phasesSeen, from, summary, over>>
         /\ UNCHANGED <<pc, itemsGenerated, count, phasesCompleted, Produced>>
         /\ \/ /\ queue' = Append(queue, Head(outbox))
               /\ UNCHANGED <<lost, dropped, lostEvents>>
            \/ /\ strategy = "DropOldest"
               /\ queue # <<>> /\ queue' = Append(Tail(queue), Head(outbox))
               /\ lost' = lost + Weight(Head(queue))
               /\ dropped' = dropped + 1 /\ lostEvents' = lostEvents + 1
            \/ /\ strategy = "DropNewest"
               /\ queue' = queue /\ lost' = lost + Weight(Head(outbox))
               /\ dropped' = dropped + 1 /\ lostEvents' = lostEvents + 1
<1>1. /\ outbox # <<>> /\ outbox' = Tail(outbox)
      /\ UNCHANGED <<strategy, received, phasesSeen, from, summary, over>>
      /\ UNCHANGED <<pc, itemsGenerated, count, phasesCompleted>>
  BY DEF Send, consumer, work
<1>2. Produced' = Produced
  BY <1>1 DEF Produced
<1>3. Len(queue) >= Limit => queue # <<>>
  BY SizesAssumption
<1> QED BY <1>1, <1>2, <1>3 DEF Send, SendWithRoom, SendFull

LEMMA SendBalance ==
  ASSUME TypeInv, Balance, Send
  PROVE  Balance'
<1>1. /\ outbox # <<>> /\ outbox' = Tail(outbox) /\ received' = received /\ Produced' = Produced
  BY SendCases
<1>2. /\ queue \in Seq(Events) /\ outbox \in Seq(Events) /\ lost \in Nat /\ received \in Nat
  BY DEF TypeInv, TypeOK
<1>3. Through("amount", queue, outbox, received + lost, Produced)
  BY DEF Balance
<1>4. CASE queue' = Append(queue, Head(outbox)) /\ lost' = lost
  <2>1. Through("amount", Append(queue, Head(outbox)), Tail(outbox), received + lost, Produced)
    BY <1>1, <1>2, <1>3, ThroughSend
  <2> QED BY <1>1, <1>4, <2>1 DEF Balance
<1>5. CASE /\ queue # <<>> /\ queue' = Append(Tail(queue), Head(outbox))
           /\ lost' = lost + Weight(Head(queue))
  <2>1. PICK c \in Nat : /\ Moves("amount", received + lost, Head(queue), c)
                         /\ Through("amount", Tail(queue), outbox, c, Produced)
    BY <1>2, <1>3, <1>5, ThroughTake
  <2>2. Weight(Head(queue)) \in Nat /\ Tail(queue) \in Seq(Events)
    BY <1>2, <1>5, SequenceTypes, WeightType
  <2>3. c = received + lost'
    BY <1>2, <1>5, <2>1, <2>2 DEF Moves
  <2>4. Through("amount", Append(Tail(queue), Head(outbox)), Tail(outbox), c, Produced)
    BY <1>1, <1>2, <2>1, <2>2, ThroughSend
  <2> QED BY <1>1, <1>5, <2>3, <2>4 DEF Balance
<1>6. CASE queue' = queue /\ lost' = lost + Weight(Head(outbox))
  <2>1. Through("amount", queue, Tail(outbox), (received + lost) + Weight(Head(outbox)), Produced)
    BY <1>1, <1>2, <1>3, ThroughRefuse
  <2>2. Weight(Head(outbox)) \in Nat
    BY <1>1, <1>2, SequenceTypes, WeightType
  <2>3. (received + lost) + Weight(Head(outbox)) = received' + lost'
    BY <1>1, <1>2, <1>6, <2>2
  <2> QED BY <1>1, <1>6, <2>1, <2>3 DEF Balance
<1> QED BY <1>4, <1>5, <1>6, SendCases

LEMMA ReceiveBalance ==
  ASSUME TypeInv, Balance, Receive
  PROVE  Balance'
<1>1. /\ queue # <<>> /\ queue' = Tail(queue) /\ received' = received + Weight(Head(queue))
      /\ UNCHANGED <<outbox, lost, pc, count, itemsGenerated>>
  BY DEF Receive, work
<1>2. queue \in Seq(Events) /\ lost \in Nat /\ received \in Nat
  BY DEF TypeInv, TypeOK
<1>3. Weight(Head(queue)) \in Nat
  BY <1>1, <1>2, SequenceTypes, WeightType
<1>4. PICK c \in Nat : /\ Moves("amount", received + lost, Head(queue), c)
                       /\ Through("amount", Tail(queue), outbox, c, Produced)
  BY <1>1, <1>2, ThroughTake DEF Balance
<1>5. c = received' + lost'
  BY <1>1, <1>2, <1>3, <1>4 DEF Moves
<1>6. Produced' = Produced
  BY <1>1 DEF Produced
<1> QED BY <1>1, <1>4, <1>5, <1>6 DEF Balance

(* The other steps neither send nor receive nor produce. *)
Stands ==
  /\ UNCHANGED <<queue, outbox, strategy, dropped, lost, lostEvents, received, from, phasesSeen,
                 summary>>
  /\ UNCHANGED <<itemsGenerated, count, phasesCompleted>>
  /\ pc' = pc \/ (pc = "close" /\ pc' = "done")

LEMMA StandingSteps ==
  ASSUME CloseChannel \/ ReceiveNone \/ ReaderMoves \/ StopReading \/ Cancel
           \/ (\E flag \in BOOLEAN : SetPaused(flag)) \/ UNCHANGED vars
  PROVE  Stands /\ Produced' = Produced
<1>1. CASE CloseChannel
  BY <1>1 DEF CloseChannel, At, Goto, Stands, Produced, CountedPoints, work, consumer
<1>2. CASE ReceiveNone \/ StopReading \/ Cancel \/ (\E flag \in BOOLEAN : SetPaused(flag))
             \/ UNCHANGED vars
  BY <1>2 DEF ReceiveNone, StopReading, Cancel, SetPaused, vars, Stands, Produced, work, channel,
              control, consumer
<1>3. CASE ReaderMoves
  BY <1>3, ReaderMovesOnly DEF Stands, Produced, work, consumer
<1> QED BY <1>1, <1>2, <1>3

LEMMA BalanceNext ==
  TypeInv /\ PhasesInOrder /\ PhasesInOrder' /\ Balance /\ [Next]_vars => Balance'
<1> SUFFICES ASSUME TypeInv, PhasesInOrder, PhasesInOrder', Balance, [Next]_vars PROVE Balance'
  OBVIOUS
<1>1. CASE Generates
  <2>1. UNCHANGED <<queue, received, lost>>
    BY <1>1 DEF Generates, NextPhase, WaitWhilePaused, StartPhase, PhaseStep, EndPhase,
         MakeRecord, MakeChain, BuildBatch, MakeEntry, SendLabels, SendEntry, EndBatch,
         LeaveEmptyBatch, Finish, channel, consumer
  <2>2. outbox = <<>> /\ Leads("amount", outbox', Produced, Produced')
    BY <1>1, GeneratesAnnounced DEF Announced
  <2>3. Through("amount", queue, outbox', received + lost, Produced')
    BY <2>2, ThroughEmit DEF Balance
  <2> QED BY <2>1, <2>3 DEF Balance
<1>2. CASE CloseChannel \/ ReceiveNone \/ ReaderMoves \/ StopReading \/ Cancel
             \/ (\E flag \in BOOLEAN : SetPaused(flag)) \/ UNCHANGED vars
  BY <1>2, StandingSteps DEF Stands, Balance
<1> QED BY <1>1, <1>2, SendBalance, ReceiveBalance
        DEF Next, GeneratorStep, ConsumerStep, ReaderMoves, Generates

(* What a summary says is final, but for the drop that sending it causes.  *)
Ended == pc \in {"close", "done"}
Agrees(s, items, completed, losses) ==
  /\ s.total = items /\ s.phases = completed
  /\ s.dropped = losses \/ s.dropped + 1 = losses
Tells(s) == Agrees(s, itemsGenerated, phasesCompleted, lostEvents)

NoCompleteBefore(q, n) == \A i \in 1..n : q[i].kind # "complete"

(* A summary is the last event of the stream: nothing is sent after it, so *)
(* it is still true when it arrives, and nothing is on its way then.       *)
SummaryTrue ==
  /\ dropped = lostEvents
  /\ NoCompleteBefore(queue, Len(queue) - 1)
  /\ queue # <<>> /\ queue[Len(queue)].kind = "complete" =>
       outbox = <<>> /\ Ended /\ Tells(queue[Len(queue)].summary)
  /\ ~Ended => NoCompleteBefore(outbox, Len(outbox))
  /\ Ended /\ outbox # <<>> => /\ Tells(outbox[1].summary)
                               /\ outbox[1].summary.dropped = lostEvents
  /\ summary # NoSummary => queue = <<>> /\ outbox = <<>> /\ Ended /\ Tells(summary)

LEMMA SummaryTrueInit == Init => SummaryTrue
<1> SUFFICES ASSUME Init PROVE SummaryTrue
  OBVIOUS
<1>1. outbox = <<Progress(0)>> /\ Len(outbox) = 1 /\ outbox[1] = Progress(0)
  BY DEF Init
<1>2. NoCompleteBefore(outbox, Len(outbox))
  BY <1>1 DEF NoCompleteBefore, Progress
<1>3. queue = <<>> /\ NoCompleteBefore(queue, Len(queue) - 1)
  BY DEF Init, NoCompleteBefore
<1> QED BY <1>2, <1>3 DEF Init, SummaryTrue, Ended

LEMMA ShortOutboxes ==
  /\ \A d : Len(<<d>>) = 1 /\ <<d>>[1] = d
  /\ \A d, e : Len(<<d, e>>) = 2 /\ <<d, e>>[1] = d /\ <<d, e>>[2] = e
OBVIOUS

(* What a generating step before Finish announces is not a summary. *)
LEMMA NoSummaryYet ==
  ASSUME TypeInv, PhasesInOrder, PhasesInOrder', Generates, ~Finish
  PROVE  NoCompleteBefore(outbox', Len(outbox')) /\ ~Ended /\ ~Ended'
<1> USE DEF NoCompleteBefore
<1>1. outbox = <<>>
  BY GeneratesAnnounced
<1>2. CASE \/ NextPhase \/ WaitWhilePaused \/ PhaseStep \/ BuildBatch \/ MakeEntry \/ EndBatch
           \/ LeaveEmptyBatch
  <2>1. outbox' = <<>>
    BY <1>1, <1>2 DEF NextPhase, WaitWhilePaused, PhaseStep, BuildBatch, MakeEntry, EndBatch,
           LeaveEmptyBatch
  <2>2. pc' \notin {"close", "done"} /\ pc \notin {"close", "done"}
    <3>1. CASE PhaseStep
      <4>1. left > 0 /\ pc = "loop"
        BY <3>1 DEF PhaseStep, At
      <4>2. Phases[phase] \in PhaseKinds \ {"skipped"}
        BY <4>1, PhasesAssumption DEF PhasesInOrder, InsidePhase, Skipping
      <4>3. AfterCancelTest(Phases[phase]) \in InsideStep
        BY <4>2 DEF AfterCancelTest, PhaseKinds, InsideStep
      <4> QED BY <3>1, <4>1, <4>3 DEF PhaseStep, Goto, InsideStep
    <3>2. CASE ~PhaseStep
      BY <1>2, <3>2 DEF NextPhase, WaitWhilePaused, BuildBatch, MakeEntry, EndBatch,
           LeaveEmptyBatch, At, Goto
    <3> QED BY <3>1, <3>2
  <2> QED BY <2>1, <2>2 DEF Ended
<1>3. CASE StartPhase \/ EndPhase \/ MakeRecord \/ SendEntry
  <2>1. PICK d, n, w : \/ outbox' = <<Progress(n)>> \/ outbox' = <<Data(d, w)>>
                       \/ outbox' = <<PhaseComplete(d), Progress(n)>>
                       \/ outbox' = <<Data(d, w), Progress(n)>>
    BY <1>3 DEF StartPhase, EndPhase, MakeRecord, SendEntry, Emit
  <2>2. \A i \in 1..Len(outbox') : outbox'[i].kind \in {"progress", "data", "phase"}
    BY <2>1, ShortOutboxes DEF Progress, Data, PhaseComplete
  <2>3. pc \notin {"close", "done"} /\ pc' \notin {"close", "done"}
    BY <1>3 DEF StartPhase, EndPhase, MakeRecord, SendEntry, At, Goto
  <2> QED BY <2>2, <2>3 DEF Ended
<1>4. CASE MakeChain \/ SendLabels
  <2>1. PICK n, w, k : /\ n \in Nat
                       /\ \/ outbox' = [i \in 1..n |-> Data(phase, w)]
                          \/ outbox' = Append([i \in 1..n |-> Data(phase, w)], Progress(k))
    BY <1>4, SizesAssumption DEF MakeChain, SendLabels, LabelsOf, Emit
  <2> DEFINE e == Data(phase, w)
  <2> DEFINE t == [i \in 1..n |-> e]
  <2>2. e.kind = "data" /\ Progress(k).kind = "progress"
    BY DEF Data, Progress
  <2>3. t \in Seq({e, Progress(k)}) /\ Len(t) = n /\ \A i \in 1..n : t[i] = e
    <3> HIDE DEF e
    <3> QED BY <2>1, RepeatedType
  <2> HIDE DEF e, t
  <2>4. /\ Len(Append(t, Progress(k))) = n + 1 /\ Append(t, Progress(k))[n + 1] = Progress(k)
        /\ \A i \in 1..n : Append(t, Progress(k))[i] = e
    BY <2>3, AppendTypes
  <2>5. \A i \in 1..Len(Append(t, Progress(k))) : Append(t, Progress(k))[i].kind # "complete"
    BY <2>1, <2>2, <2>4
  <2>6. \A i \in 1..Len(t) : t[i].kind # "complete"
    BY <2>2, <2>3
  <2>7. outbox' = t \/ outbox' = Append(t, Progress(k))
    BY <2>1 DEF t, e
  <2>8. pc \notin {"close", "done"} /\ pc' \notin {"close", "done"}
    BY <1>4 DEF MakeChain, SendLabels, At, Goto
  <2> QED BY <2>5, <2>6, <2>7, <2>8 DEF Ended
<1> QED BY <1>2, <1>3, <1>4 DEF Generates

LEMMA AppendKeepsLast ==
  ASSUME NEW q \in Seq(Events), NEW e \in Events, NoCompleteBefore(q, Len(q))
  PROVE  /\ NoCompleteBefore(Append(q, e), Len(Append(q, e)) - 1)
         /\ Append(q, e) # <<>> /\ Append(q, e)[Len(Append(q, e))] = e
<1>1. /\ Append(q, e) \in Seq(Events) /\ Len(Append(q, e)) = Len(q) + 1
      /\ Append(q, e)[Len(q) + 1] = e
      /\ \A i \in 1..Len(q) : Append(q, e)[i] = q[i]
  BY AppendTypes
<1>2. Len(q) \in Nat /\ Len(Append(q, e)) - 1 = Len(q)
  BY <1>1
<1>3. Append(q, e) # <<>>
  BY <1>1, <1>2
<1> QED BY <1>1, <1>2, <1>3 DEF NoCompleteBefore

LEMMA EmptySequence ==
  ASSUME NEW S, NEW s \in Seq(S), Len(s) = 0
  PROVE  s = <<>>
OBVIOUS

LEMMA TailKeepsLast ==
  ASSUME NEW q \in Seq(Events), q # <<>>
  PROVE  /\ NoCompleteBefore(q, Len(q)) => NoCompleteBefore(Tail(q), Len(Tail(q)))
         /\ NoCompleteBefore(q, Len(q) - 1) => NoCompleteBefore(Tail(q), Len(Tail(q)) - 1)
         /\ Tail(q) # <<>> => Tail(q)[Len(Tail(q))] = q[Len(q)]
         /\ Head(q).kind = "complete" /\ NoCompleteBefore(q, Len(q) - 1) =>
              Tail(q) = <<>> /\ Head(q) = q[Len(q)]
<1>1. /\ Head(q) = q[1] /\ Tail(q) \in Seq(Events)
      /\ Len(q) \in Nat \ {0} /\ Len(Tail(q)) = Len(q) - 1
      /\ \A i \in 1..Len(q) - 1 : Tail(q)[i] = q[i + 1]
  BY SequenceTypes
<1>2. Tail(q) # <<>> => Len(q) - 1 \in 1..Len(q) - 1
  BY <1>1
<1>3. Head(q).kind = "complete" /\ NoCompleteBefore(q, Len(q) - 1) => Len(q) = 1
  <2>1. Len(q) # 1 => 1 \in 1..Len(q) - 1
    BY <1>1
  <2> QED BY <1>1, <2>1 DEF NoCompleteBefore
<1>4. ASSUME Len(q) = 1 PROVE Tail(q) = <<>>
  <2>1. Tail(q) \in Seq(Events) /\ Len(Tail(q)) = 0
    BY <1>1, <1>4
  <2> QED BY <2>1, EmptySequence
<1>5. NoCompleteBefore(q, Len(q)) => NoCompleteBefore(Tail(q), Len(Tail(q)))
  BY <1>1 DEF NoCompleteBefore
<1>6. NoCompleteBefore(q, Len(q) - 1) => NoCompleteBefore(Tail(q), Len(Tail(q)) - 1)
  BY <1>1 DEF NoCompleteBefore
<1>7. Tail(q) # <<>> => Tail(q)[Len(Tail(q))] = q[Len(q)]
  BY <1>1, <1>2
<1> QED BY <1>1, <1>3, <1>4, <1>5, <1>6, <1>7

(* What is left to send after a send, and the event that was sent. *)
LEMMA SentSummary ==
  ASSUME TypeInv, SummaryOnItsWay, SummaryTrue, Send
  PROVE  /\ NoCompleteBefore(queue, Len(queue)) /\ summary = NoSummary
         /\ Ended => /\ outbox' = <<>>
                     /\ Tells(Head(outbox).summary) /\ Head(outbox).summary.dropped = lostEvents
         /\ ~Ended => NoCompleteBefore(outbox', Len(outbox')) /\ Head(outbox).kind # "complete"
<1>1. outbox # <<>> /\ outbox' = Tail(outbox)
  BY SendCases
<1>2. queue \in Seq(Events) /\ outbox \in Seq(Events)
  BY DEF TypeInv, TypeOK
<1>3. Head(outbox) = outbox[1] /\ Len(outbox) \in Nat \ {0} /\ Len(queue) \in Nat
  BY <1>1, <1>2, SequenceTypes
<1>4. NoCompleteBefore(queue, Len(queue))
  <2>1. NoCompleteBefore(queue, Len(queue) - 1)
        /\ (queue # <<>> => queue[Len(queue)].kind # "complete")
    BY <1>1 DEF SummaryTrue
  <2>2. \A i \in 1..Len(queue) : queue # <<>> /\ (i \in 1..Len(queue) - 1 \/ i = Len(queue))
    BY <1>2, <1>3
  <2> QED BY <2>1, <2>2 DEF NoCompleteBefore
<1>5. summary = NoSummary
  BY <1>1 DEF SummaryTrue
<1>6. CASE Ended
  <2>1. pc = "close" /\ outbox = <<outbox[1]>>
    BY <1>1, <1>6 DEF SummaryOnItsWay, Ended
  <2>2. outbox' = <<>>
    <3>1. PICK e : outbox = <<e>>
      BY <2>1
    <3> QED BY <1>1, <3>1
  <2>3. Tells(outbox[1].summary) /\ outbox[1].summary.dropped = lostEvents
    BY <1>1, <1>6 DEF SummaryTrue
  <2> QED BY <1>3, <1>4, <1>5, <1>6, <2>2, <2>3
<1>7. CASE ~Ended
  <2>1. NoCompleteBefore(outbox, Len(outbox))
    BY <1>7 DEF SummaryTrue
  <2>2. NoCompleteBefore(outbox', Len(outbox'))
    BY <1>1, <1>2, <2>1, TailKeepsLast
  <2>3. Head(outbox).kind # "complete"
    BY <1>3, <2>1 DEF NoCompleteBefore
  <2> QED BY <1>4, <1>5, <1>7, <2>2, <2>3
<1> QED BY <1>6, <1>7

LEMMA SendSummaryTrue ==
  ASSUME TypeInv, SummaryOnItsWay, SummaryTrue, Send
  PROVE  SummaryTrue'
<1> DEFINE e == Head(outbox)
<1>1. /\ outbox # <<>> /\ summary' = summary
      /\ UNCHANGED <<pc, itemsGenerated, phasesCompleted>>
      /\ \/ queue' = Append(queue, e) /\ UNCHANGED <<lost, dropped, lostEvents>>
         \/ /\ queue # <<>> /\ queue' = Append(Tail(queue), e)
            /\ dropped' = dropped + 1 /\ lostEvents' = lostEvents + 1
         \/ queue' = queue /\ dropped' = dropped + 1 /\ lostEvents' = lostEvents + 1
  BY SendCases
<1>2. /\ NoCompleteBefore(queue, Len(queue)) /\ summary = NoSummary
      /\ Ended => outbox' = <<>> /\ Tells(e.summary) /\ e.summary.dropped = lostEvents
      /\ ~Ended => NoCompleteBefore(outbox', Len(outbox')) /\ e.kind # "complete"
  BY SentSummary
<1>3. queue \in Seq(Events) /\ e \in Events /\ lostEvents \in Nat /\ Len(queue) \in Nat
  BY SendTypes DEF TypeInv, TypeOK
<1>4. dropped' = lostEvents' /\ lostEvents' \in {lostEvents, lostEvents + 1}
  BY <1>1 DEF SummaryTrue
<1>5. Ended' = Ended
  BY <1>1 DEF Ended
<1> HIDE DEF e
<1>6. Ended => Agrees(e.summary, itemsGenerated', phasesCompleted', lostEvents')
  BY <1>1, <1>2, <1>3, <1>4 DEF Tells, Agrees
<1>7. NoCompleteBefore(queue', Len(queue') - 1)
      /\ (queue' # <<>> /\ queue'[Len(queue')].kind = "complete" =>
            queue'[Len(queue')] = e /\ Ended)
  <2>1. CASE queue' = Append(queue, e)
    BY <1>2, <1>3, <2>1, AppendKeepsLast
  <2>2. CASE queue # <<>> /\ queue' = Append(Tail(queue), e)
    <3>1. Tail(queue) \in Seq(Events) /\ NoCompleteBefore(Tail(queue), Len(Tail(queue)))
      BY <1>2, <1>3, <2>2, TailKeepsLast, SequenceTypes
    <3> QED BY <1>2, <1>3, <2>2, <3>1, AppendKeepsLast
  <2>3. CASE queue' = queue
    <3>1. queue # <<>> => Len(queue) \in 1..Len(queue)
      BY <1>3
    <3> QED BY <1>2, <1>3, <2>3, <3>1 DEF NoCompleteBefore
  <2> QED BY <1>1, <2>1, <2>2, <2>3
<1>8. summary' = NoSummary'
  BY <1>1, <1>2 DEF NoSummary
<1>9. queue' # <<>> /\ queue'[Len(queue')].kind = "complete" =>
        outbox' = <<>> /\ Ended' /\ Tells(queue[Len(queue)].summary)'
  BY <1>2, <1>5, <1>6, <1>7 DEF Tells
<1>10. (~Ended' => NoCompleteBefore(outbox', Len(outbox'))) /\ (Ended' => outbox' = <<>>)
  BY <1>2, <1>5
<1> QED BY <1>4, <1>7, <1>8, <1>9, <1>10 DEF SummaryTrue, NoCompleteBefore

LEMMA ReceiveSummaryTrue ==
  ASSUME TypeInv, SummaryTrue, Receive
  PROVE  SummaryTrue'
<1> DEFINE e == Head(queue)
<1>1. /\ queue # <<>> /\ queue' = Tail(queue)
      /\ summary' = IF e.kind = "complete" THEN e.summary ELSE summary
      /\ UNCHANGED <<outbox, pc, itemsGenerated, phasesCompleted, dropped, lostEvents>>
  BY DEF Receive, work
<1>2. queue \in Seq(Events)
  BY DEF TypeInv, TypeOK
<1>3. /\ NoCompleteBefore(queue', Len(queue') - 1)
      /\ queue' # <<>> => queue'[Len(queue')] = queue[Len(queue)]
      /\ e.kind = "complete" => queue' = <<>> /\ e = queue[Len(queue)]
  BY <1>1, <1>2, TailKeepsLast DEF SummaryTrue
<1>4. summary' # NoSummary => e.kind = "complete" /\ summary' = e.summary
  BY <1>1 DEF SummaryTrue
<1> HIDE DEF e
<1>5. /\ dropped = lostEvents
      /\ queue # <<>> /\ queue[Len(queue)].kind = "complete" =>
           outbox = <<>> /\ Ended /\ Tells(queue[Len(queue)].summary)
      /\ ~Ended => NoCompleteBefore(outbox, Len(outbox))
      /\ Ended /\ outbox # <<>> => /\ Tells(outbox[1].summary)
                                   /\ outbox[1].summary.dropped = lostEvents
  BY DEF SummaryTrue
<1>6. Ended' = Ended /\ NoSummary' = NoSummary
  BY <1>1 DEF Ended, NoSummary
<1>7. (queue # <<>> /\ queue[Len(queue)].kind = "complete" =>
         outbox = <<>> /\ Ended /\ Tells(queue[Len(queue)].summary))'
  BY <1>1, <1>3, <1>5, <1>6 DEF Tells
<1>8. (summary # NoSummary => queue = <<>> /\ outbox = <<>> /\ Ended /\ Tells(summary))'
  BY <1>1, <1>3, <1>4, <1>5, <1>6 DEF Tells
<1>9. /\ (~Ended => NoCompleteBefore(outbox, Len(outbox)))'
      /\ (Ended /\ outbox # <<>> => /\ Tells(outbox[1].summary)
                                    /\ outbox[1].summary.dropped = lostEvents)'
      /\ dropped' = lostEvents'
  BY <1>1, <1>5, <1>6 DEF Tells, NoCompleteBefore
<1>10. NoCompleteBefore(queue, Len(queue) - 1)'
  BY <1>3 DEF NoCompleteBefore
<1> QED BY <1>7, <1>8, <1>9, <1>10 DEF SummaryTrue

LEMMA FinishSummaryTrue ==
  ASSUME TypeInv, SummaryTrue, Finish
  PROVE  SummaryTrue'
<1> DEFINE s == [total |-> itemsGenerated, dropped |-> dropped, phases |-> phasesCompleted]
<1>1. /\ pc = "finish" /\ pc' = "close" /\ outbox' = <<Complete(s)>>
      /\ UNCHANGED <<queue, itemsGenerated, phasesCompleted, dropped, lostEvents, summary>>
  BY DEF Finish, At, Goto, Emit, work, channel, consumer
<1>2. outbox'[1] = Complete(s) /\ Complete(s).summary = s
  <2>1. outbox'[1] = Complete(s)
    BY <1>1, ShortOutboxes
  <2> QED BY <2>1 DEF Complete
<1>3. s.total = itemsGenerated /\ s.dropped = lostEvents /\ s.phases = phasesCompleted
  BY DEF SummaryTrue
<1>4. ~Ended /\ Ended'
  BY <1>1 DEF Ended
<1> HIDE DEF s
<1>5. Tells(outbox[1].summary)' /\ outbox'[1].summary.dropped = lostEvents'
  BY <1>1, <1>2, <1>3 DEF Tells, Agrees
<1>6. /\ dropped' = lostEvents' /\ NoCompleteBefore(queue, Len(queue) - 1)'
      /\ ~(queue # <<>> /\ queue[Len(queue)].kind = "complete")'
      /\ summary' = NoSummary'
  BY <1>1, <1>4 DEF SummaryTrue, NoCompleteBefore, NoSummary
<1> QED BY <1>4, <1>5, <1>6 DEF SummaryTrue

LEMMA SummaryTrueNext ==
  TypeInv /\ PhasesInOrder /\ PhasesInOrder' /\ SummaryOnItsWay /\ SummaryTrue /\ [Next]_vars
    => SummaryTrue'
<1> SUFFICES ASSUME TypeInv, PhasesInOrder, PhasesInOrder', SummaryOnItsWay, SummaryTrue,
                    [Next]_vars
             PROVE  SummaryTrue'
  OBVIOUS
<1>1. CASE Generates /\ ~Finish
  <2>1. UNCHANGED <<queue, summary, dropped, lostEvents>>
    BY <1>1 DEF Generates, NextPhase, WaitWhilePaused, StartPhase, PhaseStep, EndPhase,
         MakeRecord, MakeChain, BuildBatch, MakeEntry, SendLabels, SendEntry, EndBatch,
         LeaveEmptyBatch, channel, consumer
  <2>2. NoCompleteBefore(outbox', Len(outbox')) /\ ~Ended /\ ~Ended'
    BY <1>1, NoSummaryYet
  <2>3. /\ dropped' = lostEvents' /\ NoCompleteBefore(queue, Len(queue) - 1)'
        /\ ~(queue # <<>> /\ queue[Len(queue)].kind = "complete")'
        /\ summary' = NoSummary'
    BY <2>1, <2>2 DEF SummaryTrue, NoCompleteBefore, NoSummary
  <2>4. NoCompleteBefore(outbox, Len(outbox))'
    BY <2>2 DEF NoCompleteBefore
  <2> QED BY <2>2, <2>3, <2>4 DEF SummaryTrue
<1>2. CASE CloseChannel \/ ReceiveNone \/ ReaderMoves \/ StopReading \/ Cancel
             \/ (\E flag \in BOOLEAN : SetPaused(flag)) \/ UNCHANGED vars
  <2>1. UNCHANGED <<queue, outbox, dropped, lostEvents, summary, itemsGenerated, phasesCompleted>>
        /\ (pc' = pc \/ (pc = "close" /\ pc' = "done"))
    BY <1>2, StandingSteps DEF Stands
  <2>2. Ended' = Ended
    BY <2>1 DEF Ended
  <2> QED BY <2>1, <2>2 DEF SummaryTrue, NoCompleteBefore, NoSummary, Tells
<1> QED BY <1>1, <1>2, SendSummaryTrue, ReceiveSummaryTrue, FinishSummaryTrue
        DEF Next, GeneratorStep, ConsumerStep, ReaderMoves, Generates

(* Whatever is dropped, by whichever strategy and at whichever moment, the *)
(* summary's total is what the client received plus what was lost, and its *)
(* dropped_count misses at most the drop that sending it causes (send, and *)
(* run_generation's counters).                                             *)
THEOREM LossesAreAccountedFor == Spec => []LossesAccountedFor
<1>1. TypeInv /\ Balance /\ SummaryTrue => LossesAccountedFor
  <2> SUFFICES ASSUME TypeInv, Balance, SummaryTrue, summary # NoSummary
               PROVE  /\ summary.total = received + lost
                      /\ summary.dropped \in {lostEvents, lostEvents - 1}
    BY DEF LossesAccountedFor
  <2>1. queue = <<>> /\ outbox = <<>> /\ Ended /\ Tells(summary)
    BY DEF SummaryTrue
  <2>2. /\ received \in Nat /\ lost \in Nat /\ itemsGenerated \in Nat /\ lostEvents \in Nat
        /\ summary.dropped \in Nat
    BY DEF TypeInv, TypeOK, Summaries
  <2>3. PICK c \in Nat : Leads("amount", queue, received + lost, c)
                         /\ Leads("amount", outbox, c, Produced)
    BY DEF Balance, Through
  <2>4. received + lost = c /\ c = Produced
    BY <2>1, <2>3, LeadsStays
  <2>5. Produced = itemsGenerated
    BY <2>1, <2>2 DEF Produced, Ended, CountedPoints
  <2> QED BY <2>1, <2>2, <2>4, <2>5 DEF Tells, Agrees
<1> QED
  BY <1>1, InitTypeInv, NextTypeInv, PhasesInOrderInit, PhasesInOrderNext,
     SummaryOnItsWayInit, SummaryOnItsWayNext, BalanceInit, BalanceNext, SummaryTrueInit, SummaryTrueNext, PTL DEF Spec

-----------------------------------------------------------------------------
(* The protocol. *)

(* When the channel blocks, nothing is lost, and the events on their way   *)
(* take the client from the markers it has seen to the phases completed.   *)
Ordered ==
  strategy = "Block" =>
    /\ lost = 0 /\ lostEvents = 0
    /\ Through("order", queue, outbox, phasesSeen, phasesCompleted)

LEMMA OrderedInit == Init => Ordered
<1> SUFFICES ASSUME Init PROVE Ordered
  OBVIOUS
<1>1. queue = <<>> /\ outbox = <<Progress(0)>> /\ phasesSeen = 0 /\ phasesCompleted = 0
      /\ lost = 0 /\ lostEvents = 0
  BY DEF Init
<1>2. Leads("order", queue, 0, 0)
  BY <1>1, LeadsNowhere
<1>3. Leads("order", outbox, 0, 0)
  BY <1>1, EventMoves, LeadsOne
<1> QED BY <1>1, <1>2, <1>3 DEF Ordered, Through

(* What the client makes of the event it receives. *)
LEMMA ReceiveInOrder ==
  ASSUME TypeInv, Ordered, Receive, strategy = "Block"
  PROVE  /\ Moves("order", phasesSeen, Head(queue), phasesSeen')
         /\ Through("order", queue', outbox', phasesSeen', phasesCompleted')
<1>1. /\ queue # <<>> /\ queue' = Tail(queue) /\ UNCHANGED <<outbox, phasesCompleted>>
      /\ phasesSeen' = phasesSeen + (IF Head(queue).kind = "phase" THEN 1 ELSE 0)
  BY DEF Receive, work
<1>2. queue \in Seq(Events)
  BY DEF TypeInv, TypeOK
<1>3. PICK c \in Nat : /\ Moves("order", phasesSeen, Head(queue), c)
                       /\ Through("order", Tail(queue), outbox, c, phasesCompleted)
  BY <1>1, <1>2, ThroughTake DEF Ordered
<1>4. c = phasesSeen'
  BY <1>1, <1>3 DEF Moves
<1> QED BY <1>1, <1>3, <1>4

LEMMA OrderedNext ==
  TypeInv /\ PhasesInOrder /\ PhasesInOrder' /\ Ordered /\ [Next]_vars => Ordered'
<1> SUFFICES ASSUME TypeInv, PhasesInOrder, PhasesInOrder', Ordered, [Next]_vars,
                    strategy' = "Block"
             PROVE  /\ lost' = 0 /\ lostEvents' = 0
                    /\ Through("order", queue', outbox', phasesSeen', phasesCompleted')
  BY DEF Ordered
<1>1. strategy' = strategy
  BY DEF Next, GeneratorStep, ConsumerStep, Send, NextPhase, WaitWhilePaused, StartPhase, PhaseStep,
         EndPhase, MakeRecord, MakeChain, BuildBatch, MakeEntry, SendLabels, SendEntry, EndBatch,
         LeaveEmptyBatch, Finish, CloseChannel, Receive, ReceiveNone, RecvMustWait, RecvWaits,
         SpuriousWakeUp, StopReading, Cancel, SetPaused, vars, channel
<1>2. /\ lost = 0 /\ lostEvents = 0
      /\ Through("order", queue, outbox, phasesSeen, phasesCompleted)
  BY <1>1 DEF Ordered
<1>3. CASE Send
  <2>1. /\ outbox # <<>> /\ outbox' = Tail(outbox) /\ queue' = Append(queue, Head(outbox))
        /\ UNCHANGED <<lost, lostEvents, phasesSeen, phasesCompleted>>
    BY <1>1, <1>3, SendCases
  <2>2. queue \in Seq(Events) /\ outbox \in Seq(Events)
    BY DEF TypeInv, TypeOK
  <2>3. Through("order", Append(queue, Head(outbox)), Tail(outbox), phasesSeen, phasesCompleted)
    BY <1>2, <2>1, <2>2, ThroughSend
  <2> QED BY <1>2, <2>1, <2>3
<1>4. CASE Generates
  <2>1. UNCHANGED <<queue, phasesSeen, lost, lostEvents>>
    BY <1>4 DEF Generates, NextPhase, WaitWhilePaused, StartPhase, PhaseStep, EndPhase,
         MakeRecord, MakeChain, BuildBatch, MakeEntry, SendLabels, SendEntry, EndBatch,
         LeaveEmptyBatch, Finish, channel, consumer
  <2>2. outbox = <<>> /\ Leads("order", outbox', phasesCompleted, phasesCompleted')
    BY <1>4, GeneratesAnnounced DEF Announced
  <2>3. Through("order", queue, outbox', phasesSeen, phasesCompleted')
    BY <1>2, <2>2, ThroughEmit
  <2> QED BY <1>2, <2>1, <2>3
<1>5. CASE Receive
  <2>1. lost' = lost /\ lostEvents' = lostEvents
    BY <1>5 DEF Receive
  <2> QED BY <1>1, <1>2, <1>5, <2>1, ReceiveInOrder
<1>6. CASE CloseChannel \/ ReceiveNone \/ ReaderMoves \/ StopReading \/ Cancel
             \/ (\E flag \in BOOLEAN : SetPaused(flag)) \/ UNCHANGED vars
  BY <1>2, <1>6, StandingSteps DEF Stands
<1> QED BY <1>3, <1>4, <1>5, <1>6 DEF Next, GeneratorStep, ConsumerStep, ReaderMoves, Generates

(* The steps that a client does not see. *)
LEMMA HiddenSteps ==
  ASSUME [Next]_vars, ~Receive, ~ReceiveNone
  PROVE  UNCHANGED <<received, from, phasesSeen, summary, over>>
BY DEF Next, GeneratorStep, ConsumerStep, Send, NextPhase, WaitWhilePaused, StartPhase, PhaseStep,
       EndPhase, MakeRecord, MakeChain, BuildBatch, MakeEntry, SendLabels, SendEntry, EndBatch,
       LeaveEmptyBatch, Finish, CloseChannel, RecvMustWait, RecvWaits, SpuriousWakeUp,
       StopReading, Cancel, SetPaused, vars, consumer

(* A summary that arrives agrees with what has arrived before it. *)
LEMMA SummaryAgrees ==
  ASSUME TypeInv, TypeInv', PhasesInOrder, Ordered, SummaryTrue, Balance', Receive,
         strategy = "Block", Head(queue).kind = "complete"
  PROVE  summary' = [total |-> received, dropped |-> 0, phases |-> phasesSeen]
<1> DEFINE e == Head(queue)
<1>1. /\ queue # <<>> /\ queue' = Tail(queue) /\ summary' = e.summary
      /\ received' = received + Weight(e)
      /\ phasesSeen' = phasesSeen + (IF e.kind = "phase" THEN 1 ELSE 0)
      /\ UNCHANGED <<outbox, pc, lost, phasesCompleted, itemsGenerated>>
  BY DEF Receive, work
<1>2. queue \in Seq(Events) /\ received \in Nat /\ phasesSeen \in Nat /\ itemsGenerated \in Nat
  BY DEF TypeInv, TypeOK
<1>3. queue' = <<>> /\ e = queue[Len(queue)]
  BY <1>1, <1>2, TailKeepsLast DEF SummaryTrue
<1>4. outbox = <<>> /\ Ended /\ Tells(e.summary)
  BY <1>1, <1>3 DEF SummaryTrue
<1>5. received' = received /\ phasesSeen' = phasesSeen
  BY <1>1, <1>2 DEF Weight
<1>6. lost = 0 /\ lostEvents = 0
  BY DEF Ordered
<1>7. received = itemsGenerated
  <2>1. PICK c \in Nat : Leads("amount", queue', received' + lost', c)
                         /\ Leads("amount", outbox', c, Produced')
    BY DEF Balance, Through
  <2>2. received' + lost' = c /\ c = Produced'
    BY <1>1, <1>3, <1>4, <2>1, LeadsStays
  <2>3. Produced' = itemsGenerated
    BY <1>1, <1>2, <1>4 DEF Produced, Ended, CountedPoints
  <2> QED BY <1>1, <1>2, <1>5, <1>6, <2>2, <2>3
<1>8. phasesSeen = phasesCompleted
  <2>1. PICK c \in Nat : Leads("order", queue', phasesSeen', c)
                         /\ Leads("order", outbox', c, phasesCompleted')
    BY ReceiveInOrder DEF Through
  <2> QED BY <1>1, <1>3, <1>4, <1>5, <2>1, LeadsStays
<1>9. summary' \in Summaries
  BY DEF TypeInv, TypeOK, Summaries
<1>10. summary'.total = received /\ summary'.phases = phasesSeen /\ summary'.dropped = 0
  BY <1>1, <1>4, <1>6, <1>7, <1>8, <1>9 DEF Tells, Agrees, Summaries
<1> QED BY <1>9, <1>10 DEF Summaries

LEMMA ReceiveFollowsProtocol ==
  ASSUME TypeInv, TypeInv', PhasesInOrder, Ordered, SummaryTrue, Balance', Receive,
         strategy = "Block"
  PROVE  [Protocol!Next]_(Protocol!vars)
<1> DEFINE e == Head(queue)
<1>1. /\ queue # <<>> /\ over' = over
      /\ received' = received + Weight(e)
      /\ from' = IF e.kind = "data" THEN e.phase ELSE from
      /\ phasesSeen' = phasesSeen + (IF e.kind = "phase" THEN 1 ELSE 0)
      /\ summary' = IF e.kind = "complete" THEN e.summary ELSE summary
  BY DEF Receive
<1>2. received \in Nat /\ phasesSeen \in Nat /\ queue \in Seq(Events)
  BY DEF TypeInv, TypeOK
<1>3. e \in Events /\ Weight(e) \in Nat
  BY <1>1, <1>2, SequenceTypes, WeightType
<1>4. e.kind \in {"data", "phase", "progress", "complete"}
  BY <1>3 DEF Events
<1>5. summary = Protocol!NoSummary
  BY <1>1 DEF SummaryTrue, NoSummary, Protocol!NoSummary
<1>6. Moves("order", phasesSeen, e, phasesSeen')
  BY ReceiveInOrder
<1>7. CASE e.kind = "complete"
  <2>1. summary' = [total |-> received, dropped |-> 0, phases |-> phasesSeen]
    BY <1>7, SummaryAgrees
  <2>2. received' = received /\ from' = from /\ phasesSeen' = phasesSeen
    BY <1>1, <1>2, <1>7 DEF Weight
  <2>3. Protocol!ReceiveComplete
    BY <1>1, <1>5, <2>1, <2>2 DEF Protocol!ReceiveComplete
  <2> QED BY <2>3 DEF Protocol!Next
<1> HIDE DEF e
<1>8. CASE e.kind = "data"
  <2>1. e.phase = phasesSeen + 1 /\ phasesSeen < Len(Phases)
    BY <1>6, <1>8 DEF Moves
  <2>2. from' = phasesSeen + 1 /\ phasesSeen' = phasesSeen /\ summary' = summary
    BY <1>1, <1>2, <1>8, <2>1
  <2>3. received' >= received
    BY <1>1, <1>2, <1>3
  <2>4. Protocol!ReceiveItem
    BY <1>1, <1>5, <2>1, <2>2, <2>3 DEF Protocol!ReceiveItem
  <2> QED BY <2>4 DEF Protocol!Next
<1>9. CASE e.kind = "phase"
  <2>1. phasesSeen < Len(Phases)
    BY <1>6, <1>9 DEF Moves
  <2>2. phasesSeen' = phasesSeen + 1 /\ received' = received /\ from' = from /\ summary' = summary
    BY <1>1, <1>2, <1>9 DEF Weight
  <2>3. Protocol!ReceivePhaseComplete
    BY <1>1, <1>5, <2>1, <2>2 DEF Protocol!ReceivePhaseComplete
  <2> QED BY <2>3 DEF Protocol!Next
<1>10. CASE e.kind = "progress"
  <2>1. phasesSeen' = phasesSeen /\ received' = received /\ from' = from /\ summary' = summary
    BY <1>1, <1>2, <1>10 DEF Weight
  <2> QED BY <1>1, <2>1 DEF Protocol!vars
<1> QED BY <1>4, <1>7, <1>8, <1>9, <1>10

(* Reading None: the channel was closed after the summary was sent.        *)
LEMMA EndFollowsProtocol ==
  ASSUME SummaryOnItsWay, ReceiveNone, strategy = "Block"
  PROVE  Protocol!ReceiveEnd
<1>1. /\ queue = <<>> /\ closed /\ over' = TRUE
      /\ UNCHANGED <<received, from, phasesSeen, summary>>
  BY DEF ReceiveNone
<1>2. pc = "done" /\ outbox = <<>>
  BY <1>1 DEF SummaryOnItsWay
<1>3. summary # NoSummary
  BY <1>1, <1>2 DEF SummaryOnItsWay, EndsWithComplete
<1> QED BY <1>1, <1>3 DEF Protocol!ReceiveEnd, NoSummary, Protocol!NoSummary

LEMMA StepFollowsProtocol ==
  ASSUME TypeInv, TypeInv', PhasesInOrder, SummaryOnItsWay, Ordered, SummaryTrue, Balance',
         [Next]_vars, strategy = "Block"
  PROVE  [Protocol!Next]_(Protocol!vars)
<1>1. CASE ~Receive /\ ~ReceiveNone
  BY <1>1, HiddenSteps DEF Protocol!vars
<1>2. CASE ReceiveNone
  BY <1>2, EndFollowsProtocol DEF Protocol!Next
<1> QED BY <1>1, <1>2, ReceiveFollowsProtocol

(* A stream that may only block is, to the client that reads it, a stream  *)
(* of the protocol: the items of the phases in order, each phase closed by *)
(* its marker, then one summary that agrees with all that was received,    *)
(* then the end; wherever a pause or a cancellation falls (run_generation  *)
(* and the generate_*_phase functions, with send under the strategies      *)
(* Block and Buffer).                                                      *)
THEOREM StreamFollowsProtocol ==
  ASSUME Strategies \subseteq {"Block"}
  PROVE  Spec => FollowsProtocol
<1> DEFINE Inv == TypeInv /\ PhasesInOrder /\ SummaryOnItsWay /\ Ordered /\ SummaryTrue /\ Balance
<1>1. Init => Inv
  BY InitTypeInv, PhasesInOrderInit, SummaryOnItsWayInit, OrderedInit, SummaryTrueInit, BalanceInit
<1>2. Inv /\ [Next]_vars => Inv'
  BY NextTypeInv, PhasesInOrderNext, SummaryOnItsWayNext, OrderedNext, SummaryTrueNext, BalanceNext
<1>3. Inv => strategy = "Block"
  BY DEF TypeInv, TypeOK
<1>4. Init => Protocol!Init
  BY DEF Init, Protocol!Init, NoSummary, Protocol!NoSummary
<1>5. Inv /\ Inv' /\ [Next]_vars => [Protocol!Next]_(Protocol!vars)
  BY <1>3, StepFollowsProtocol
<1> HIDE DEF Inv
<1> QED
  BY <1>1, <1>2, <1>4, <1>5, PTL DEF Spec, FollowsProtocol, Protocol!Spec
=============================================================================
