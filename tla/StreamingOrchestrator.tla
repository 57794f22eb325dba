----------------------- MODULE StreamingOrchestrator ------------------------
(***************************************************************************)
(* The streaming orchestrator of datasynth-runtime: a generation thread    *)
(* walks through the configured phases and sends events, a consumer reads  *)
(* them, and any holder of the control handle pauses, resumes or cancels.  *)
(*                                                                         *)
(* The channel between the two is the atomic queue that BoundedChannel is  *)
(* shown to implement (FifoChannel): one sender, which is also the only    *)
(* one to close it.  Of the mutex and the condition variables the module   *)
(* keeps what a sleeping receiver depends on: recv keeps the mutex from    *)
(* its test of `closed` until it waits, send takes the mutex, close does   *)
(* not.                                                                    *)
(*                                                                         *)
(* Between two reads of the control flags the generation thread only       *)
(* sends.  `outbox` holds the events of that stretch that are still to be  *)
(* sent, and no flag is read before it is empty.                           *)
(***************************************************************************)
EXTENDS Naturals, Sequences

CONSTANTS
  Phases,           \* config.phases, a sequence of phase kinds
  Accounts,         \* the number of accounts in the chart of accounts
  Records,          \* vendors, customers and employees together
  Chains,           \* document chains, procure-to-pay and order-to-cash
  ChainLengths,     \* the numbers of documents a chain may have
  Entries,          \* journal entries to generate
  BatchSize,        \* 100 with anomaly injection, 1 without
  Labels,           \* the numbers of anomaly labels a batch may get
  ProgressInterval, \* stream_config.progress_interval
  Strategies,       \* the strategies a stream may be configured with, of "Block"
                    \* (or Buffer, which differs in Limit), "DropOldest", "DropNewest"
  Limit,            \* buffer_size, plus max_overflow under Buffer
  MayLeave          \* the consumer may stop reading before the end

PhaseKinds == {"coa", "master", "flows", "je", "skipped"}

ASSUME PhasesAssumption == Phases \in Seq(PhaseKinds)
ASSUME SizesAssumption ==
  /\ {Accounts, BatchSize, Limit} \subseteq Nat \ {0}
  /\ {Records, Chains, Entries, ProgressInterval} \subseteq Nat
  /\ ChainLengths \subseteq Nat \ {0} /\ ChainLengths # {}
  /\ Labels \subseteq Nat /\ Labels # {}
ASSUME StrategyAssumption ==
  Strategies \subseteq {"Block", "DropOldest", "DropNewest"} /\ MayLeave \in BOOLEAN

VARIABLES
  strategy,         \* stream_config.backpressure
  pc,               \* where the generation thread is
  sleeping,         \* it is inside the sleep of a pause loop
  phase,            \* index of the phase it works on
  left,             \* steps (or journal entries) of that phase still to do
  built,            \* journal entries in the batch under construction
  count,            \* items this phase has counted
  itemsGenerated,   \* items_generated of run_generation
  progressItems,    \* progress.items_generated
  phasesCompleted,  \* length of phases_completed
  outbox,           \* events to send before anything else happens
  queue,            \* the channel
  reader,           \* the receiving thread: "awake", "aboutToWait" (it has the mutex
                    \* and found the channel empty and open) or "waiting"
  closed,           \* the channel is closed
  dropped,          \* items_dropped of the channel
  cancelled, paused,\* the control flags
  received,         \* history: weight of the data received
  from,             \* history: the phase of the last data received
  phasesSeen,       \* history: PhaseComplete events received
  summary,          \* history: the summary received
  over,             \* the consumer has received None
  gone,             \* the consumer has stopped reading
  lost,             \* history: weight of the data dropped
  lostEvents,       \* history: how many events were dropped
  late              \* history: steps done after cancellation

work == <<phase, left, built, count, itemsGenerated, progressItems,
          phasesCompleted, late>>
consumer == <<received, from, phasesSeen, summary, over, gone>>
channel == <<strategy, queue, reader, closed, dropped, lost, lostEvents>>
control == <<cancelled, paused>>
vars == <<pc, sleeping, work, outbox, channel, control, consumer>>

-----------------------------------------------------------------------------
(* Events. *)

Data(p, weight) == [kind |-> "data", phase |-> p, weight |-> weight]
PhaseComplete(p) == [kind |-> "phase", phase |-> p]
Progress(n) == [kind |-> "progress", items |-> n]
Complete(s) == [kind |-> "complete", summary |-> s]

Weight(e) == IF e.kind = "data" THEN e.weight ELSE 0

NoSummary == [total |-> 0, dropped |-> 0, phases |-> Len(Phases) + 1]

(* u64::is_multiple_of: zero divides zero only. *)
IsMultipleOf(n, k) == IF k = 0 THEN n = 0 ELSE n % k = 0

-----------------------------------------------------------------------------

Init ==
  /\ pc = "head" /\ sleeping = FALSE
  /\ phase = 1 /\ left = 0 /\ built = 0 /\ count = 0
  /\ itemsGenerated = 0 /\ progressItems = 0 /\ phasesCompleted = 0
  /\ outbox = <<Progress(0)>>
  /\ strategy \in Strategies
  /\ queue = <<>> /\ reader = "awake" /\ closed = FALSE /\ dropped = 0
  /\ cancelled = FALSE /\ paused = FALSE
  /\ received = 0 /\ from = 0 /\ phasesSeen = 0
  /\ summary = NoSummary /\ over = FALSE /\ gone = FALSE
  /\ lost = 0 /\ lostEvents = 0 /\ late = 0

-----------------------------------------------------------------------------
(* sender.send(...)?  The channel is closed by this thread alone, at its   *)
(* end, so send never fails and `?` never leaves run_generation.  It needs *)
(* the mutex, and notifies the receiver of what it pushes.  (A receiver    *)
(* waits only on an empty queue, and then nothing is refused.)             *)

SendWithRoom ==
  /\ Len(queue) < Limit
  /\ queue' = Append(queue, Head(outbox))
  /\ UNCHANGED <<dropped, lost, lostEvents>>

SendFullUncounted ==
  /\ Len(queue) >= Limit
  /\ strategy = "DropOldest"
  /\ queue' = Append(Tail(queue), Head(outbox))
  /\ lost' = lost + Weight(Head(queue))
  /\ lostEvents' = lostEvents + 1
  /\ UNCHANGED dropped
SendFullWaits == FALSE /\ UNCHANGED <<queue, dropped, lost, lostEvents>>
SendFull ==
  /\ Len(queue) >= Limit
  /\ \/ /\ strategy = "DropOldest"
        /\ queue' = Append(Tail(queue), Head(outbox))
        /\ lost' = lost + Weight(Head(queue))
     \/ /\ strategy = "DropNewest"
        /\ lost' = lost + Weight(Head(outbox))
        /\ UNCHANGED queue
  /\ dropped' = dropped + 1
  /\ lostEvents' = lostEvents + 1

Send ==
  /\ outbox # <<>>
  /\ reader # "aboutToWait"
  /\ SendWithRoom \/ SendFull
  /\ outbox' = Tail(outbox)
  /\ reader' = "awake"
  /\ UNCHANGED <<strategy, pc, sleeping, work, closed, control, consumer>>

-----------------------------------------------------------------------------
(* The generation thread.  At(l): it is at label l with nothing to send.   *)

At(l) == pc = l /\ outbox = <<>>
Goto(l) == pc' = l
Emit(events) == outbox' = events

(* for phase in &config.phases: the cancellation test at the top. *)
NextPhase ==
  /\ At("head")
  /\ Goto(IF phase > Len(Phases) \/ cancelled THEN "finish" ELSE "pausePhase")
  /\ UNCHANGED <<sleeping, work, outbox, channel, control, consumer>>

(* while control.is_paused() { sleep; if control.is_cancelled() { break } } *)
PauseSleeps == ~sleeping /\ paused /\ sleeping' = TRUE
PauseWakes == sleeping /\ ~cancelled /\ sleeping' = FALSE
PauseEndsOnResumeOnly == ~sleeping /\ ~paused /\ sleeping' = FALSE
PauseEnds == (IF sleeping THEN cancelled ELSE ~paused) /\ sleeping' = FALSE

WaitWhilePaused ==
  /\ At("pausePhase") \/ At("pauseChain") \/ At("pauseEntry")
  /\ PauseSleeps \/ PauseWakes
  /\ UNCHANGED <<pc, work, outbox, channel, control, consumer>>

Steps(kind) ==
  CASE kind = "coa" -> 1
    [] kind = "master" -> Records
    [] kind = "flows" -> Chains
    [] kind = "je" -> Entries
    [] kind = "skipped" -> 0

(* The phase is announced and its generator set up. *)
StartPhase ==
  /\ At("pausePhase")
  /\ PauseEnds
  /\ Emit(<<Progress(progressItems)>>)
  /\ left' = Steps(Phases[phase])
  /\ count' = 0
  /\ Goto("loop")
  /\ UNCHANGED <<phase, built, itemsGenerated, progressItems, phasesCompleted,
                 late, channel, control, consumer>>

(* The head of a phase's own loop: the work is done, or given up because   *)
(* of a cancellation, or one more step is begun.                           *)
AfterCancelTest(kind) ==
  CASE kind \in {"coa", "master"} -> "make"
    [] kind = "flows" -> "pauseChain"
    [] kind = "je" -> "batch"

PhaseStep ==
  /\ At("loop")
  /\ left > 0 /\ ~cancelled
  /\ Goto(AfterCancelTest(Phases[phase]))
  /\ UNCHANGED <<sleeping, work, outbox, channel, control, consumer>>

PhaseEnds == left = 0 \/ cancelled

(* The items of a phase are counted whether or not send dropped them; the  *)
(* marker and the phases_completed entry do not depend on `cancelled`.     *)
EndPhase ==
  /\ At("loop")
  /\ PhaseEnds
  /\ itemsGenerated' = itemsGenerated + count
  /\ progressItems' = itemsGenerated'
  /\ phasesCompleted' = phasesCompleted + 1
  /\ Emit(<<PhaseComplete(phase), Progress(itemsGenerated')>>)
  /\ phase' = phase + 1
  /\ left' = 0
  /\ Goto("head")
  /\ UNCHANGED <<sleeping, built, count, late, channel, control, consumer>>

(* One item of the chart of accounts or of the master data.  The chart of  *)
(* accounts is one event that counts for all its accounts.                 *)
MakeRecord ==
  LET weight == IF Phases[phase] = "coa" THEN Accounts ELSE 1 IN
  /\ At("make")
  /\ Emit(<<Data(phase, weight)>>)
  /\ count' = count + weight
  /\ left' = left - 1
  /\ late' = late + (IF cancelled THEN 1 ELSE 0)
  /\ Goto("loop")
  /\ UNCHANGED <<sleeping, phase, built, itemsGenerated, progressItems,
                 phasesCompleted, channel, control, consumer>>

(* One document chain, with a progress report when the count happens to be *)
(* a multiple of the interval after it.                                    *)
MakeChain ==
  /\ At("pauseChain")
  /\ PauseEnds
  /\ \E n \in ChainLengths :
       LET reports == IsMultipleOf(count + n, ProgressInterval)
           documents == [i \in 1..n |-> Data(phase, 1)] IN
       /\ count' = count + n
       /\ progressItems' = IF reports THEN count' ELSE progressItems
       /\ Emit(IF reports THEN Append(documents, Progress(count')) ELSE documents)
  /\ left' = left - 1
  /\ late' = late + (IF cancelled THEN 1 ELSE 0)
  /\ Goto("loop")
  /\ UNCHANGED <<phase, built, itemsGenerated, phasesCompleted, channel,
                 control, consumer>>

(* The batch of journal entries: a test of both flags for every entry. *)
CurrentBatch == IF left < BatchSize THEN left ELSE BatchSize

BatchIgnoresCancel == built < CurrentBatch
BatchContinues == built < CurrentBatch /\ ~cancelled

BuildBatch ==
  /\ At("batch")
  /\ BatchContinues
  /\ Goto("pauseEntry")
  /\ UNCHANGED <<sleeping, work, outbox, channel, control, consumer>>

MakeEntry ==
  /\ At("pauseEntry")
  /\ PauseEnds
  /\ built' = built + 1
  /\ late' = late + (IF cancelled THEN 1 ELSE 0)
  /\ Goto("batch")
  /\ UNCHANGED <<phase, left, count, itemsGenerated, progressItems,
                 phasesCompleted, outbox, channel, control, consumer>>

(* The labels of a batch, which nobody counts, are sent before its entries. *)
LabelsOf(n) == [i \in 1..n |-> Data(phase, 0)]

SendLabelsCounted ==   \* mutant of SendLabels
  /\ At("batch")
  /\ ~BatchContinues
  /\ built > 0
  /\ \E labels \in Labels : Emit(LabelsOf(labels)) /\ count' = count + labels
  /\ Goto("send")
  /\ UNCHANGED <<sleeping, phase, left, built, itemsGenerated, progressItems,
                 phasesCompleted, late, channel, control, consumer>>
SendLabels ==
  /\ At("batch")
  /\ ~BatchContinues
  /\ built > 0
  /\ \E labels \in Labels : Emit(LabelsOf(labels))
  /\ Goto("send")
  /\ UNCHANGED <<sleeping, work, channel, control, consumer>>

(* for je in batch: the entry, then a progress report at each multiple of  *)
(* the interval.  The report carries the count of this phase alone.        *)
SendEntry ==
  LET reports == IsMultipleOf(count', ProgressInterval) IN
  /\ At("send")
  /\ built > 0
  /\ built' = built - 1
  /\ count' = count + 1
  /\ progressItems' = IF reports THEN count' ELSE progressItems
  /\ Emit(IF reports THEN <<Data(phase, 1), Progress(count')>> ELSE <<Data(phase, 1)>>)
  /\ UNCHANGED <<pc, sleeping, phase, left, itemsGenerated, phasesCompleted, late,
                 channel, control, consumer>>

(* A batch cut short still takes its full share off `remaining`. *)
EndBatch ==
  /\ At("send")
  /\ built = 0
  /\ left' = left - CurrentBatch
  /\ Goto("loop")
  /\ UNCHANGED <<sleeping, phase, built, count, itemsGenerated, progressItems,
                 phasesCompleted, late, outbox, channel, control, consumer>>

(* Cancelled before the first entry of a batch: the phase is left. *)
LeaveEmptyBatch ==
  /\ At("batch")
  /\ ~BatchContinues
  /\ built = 0
  /\ Goto("loop")
  /\ UNCHANGED <<sleeping, work, outbox, channel, control, consumer>>

(* close() reaches a receiver that waits, not one that is about to. *)
NotifyAll == reader' = IF reader = "waiting" THEN "awake" ELSE reader

(* The summary is put together, with the statistics of this moment. *)
FinishClosesFirst ==
  /\ At("finish")
  /\ Emit(<<Complete([total |-> itemsGenerated, dropped |-> dropped,
                      phases |-> phasesCompleted])>>)
  /\ closed' = TRUE /\ NotifyAll
  /\ Goto("close")
  /\ UNCHANGED <<strategy, sleeping, work, queue, dropped, lost, lostEvents, control,
                 consumer>>
Finish ==
  /\ At("finish")
  /\ Emit(<<Complete([total |-> itemsGenerated, dropped |-> dropped,
                      phases |-> phasesCompleted])>>)
  /\ Goto("close")
  /\ UNCHANGED <<sleeping, work, channel, control, consumer>>

CloseChannel ==
  /\ At("close")
  /\ closed' = TRUE /\ NotifyAll
  /\ Goto("done")
  /\ UNCHANGED <<strategy, sleeping, work, outbox, queue, dropped, lost, lostEvents,
                 control, consumer>>

-----------------------------------------------------------------------------
(* The consumer: `for event in receiver`. *)

Reads == reader = "awake" /\ ~gone

Receive ==
  /\ Reads /\ queue # <<>>
  /\ queue' = Tail(queue)
  /\ LET e == Head(queue) IN
     /\ received' = received + Weight(e)
     /\ from' = IF e.kind = "data" THEN e.phase ELSE from
     /\ phasesSeen' = phasesSeen + (IF e.kind = "phase" THEN 1 ELSE 0)
     /\ summary' = IF e.kind = "complete" THEN e.summary ELSE summary
  /\ UNCHANGED <<strategy, reader, pc, sleeping, work, outbox, closed, dropped, lost,
                 lostEvents, control, over, gone>>

ReceiveNone ==
  /\ Reads /\ ~over /\ queue = <<>> /\ closed
  /\ over' = TRUE
  /\ UNCHANGED <<pc, sleeping, work, outbox, channel, control, received, from, phasesSeen,
                 summary, gone>>

(* while buffer.is_empty() { if closed { return None } not_empty.wait() }  *)
RecvMustWait ==
  /\ Reads /\ ~over /\ queue = <<>> /\ ~closed
  /\ reader' = "aboutToWait"
  /\ UNCHANGED <<strategy, pc, sleeping, work, outbox, queue, closed, dropped, lost,
                 lostEvents, control, consumer>>

RecvWaits ==
  /\ reader = "aboutToWait"
  /\ reader' = "waiting"
  /\ UNCHANGED <<strategy, pc, sleeping, work, outbox, queue, closed, dropped, lost,
                 lostEvents, control, consumer>>

(* Condvar::wait may return without a notification.  (It also stands for   *)
(* the notification of a push whose event was taken before it came.)       *)
SpuriousWakeUp ==
  /\ reader = "waiting"
  /\ reader' = "awake"
  /\ UNCHANGED <<strategy, pc, sleeping, work, outbox, queue, closed, dropped, lost,
                 lostEvents, control, consumer>>

StopReading ==
  /\ MayLeave /\ reader = "awake"
  /\ gone' = TRUE
  /\ UNCHANGED <<pc, sleeping, work, outbox, channel, control, received, from, phasesSeen,
                 summary, over>>

(* The control handle, from any thread at any moment. *)
Cancel ==
  /\ cancelled' = TRUE
  /\ UNCHANGED <<pc, sleeping, work, outbox, channel, paused, consumer>>

SetPaused(flag) ==
  /\ paused' = flag
  /\ UNCHANGED <<pc, sleeping, work, outbox, channel, cancelled, consumer>>

-----------------------------------------------------------------------------

GeneratorStep ==
  \/ Send \/ NextPhase \/ WaitWhilePaused \/ StartPhase \/ PhaseStep \/ EndPhase
  \/ MakeRecord \/ MakeChain \/ BuildBatch \/ MakeEntry \/ SendLabels \/ SendEntry
  \/ EndBatch \/ LeaveEmptyBatch \/ Finish \/ CloseChannel

ConsumerStep == Receive \/ ReceiveNone \/ RecvMustWait \/ RecvWaits

Next ==
  \/ GeneratorStep \/ ConsumerStep \/ SpuriousWakeUp
  \/ StopReading \/ Cancel \/ \E flag \in BOOLEAN : SetPaused(flag)

Spec == Init /\ [][Next]_vars

(* Both threads are scheduled, and a sender that keeps asking for the      *)
(* mutex gets it in the end, although a receiver that is woken for nothing *)
(* takes it again and again.  Nobody has to resume or to cancel, and no    *)
(* spurious wake-up has to come.                                           *)
FairSpec ==
  Spec /\ WF_vars(GeneratorStep) /\ SF_vars(Send) /\ WF_vars(ConsumerStep)

-----------------------------------------------------------------------------

Summaries == [total : Nat, dropped : Nat, phases : Nat]
Events == [kind : {"data"}, phase : 1..Len(Phases), weight : Nat]
     \cup [kind : {"phase"}, phase : 1..Len(Phases)]
     \cup [kind : {"progress"}, items : Nat]
     \cup [kind : {"complete"}, summary : Summaries]

(* Every variable keeps its type; in particular no counter goes below zero *)
(* and the queue stays within its limit.                                   *)
TypeOK ==
  /\ strategy \in Strategies
  /\ pc \in {"head", "pausePhase", "loop", "make", "pauseChain", "batch",
             "pauseEntry", "send", "finish", "close", "done"}
  /\ reader \in {"awake", "aboutToWait", "waiting"}
  /\ {sleeping, closed, cancelled, paused, over, gone} \subseteq BOOLEAN
  /\ {left, built, count, itemsGenerated, progressItems, phasesCompleted, dropped,
      received, phasesSeen, lost, lostEvents, late} \subseteq Nat
  /\ phase \in 1..Len(Phases) + 1
  /\ from \in 0..Len(Phases)
  /\ summary \in Summaries
  /\ outbox \in Seq(Events) /\ queue \in Seq(Events)
  /\ Len(queue) <= Limit

Protocol == INSTANCE StreamProtocol WITH phases <- phasesSeen

(* When nothing is dropped, whatever the moment of a pause, a resume or a  *)
(* cancellation, the client sees well-formed streams only: items between   *)
(* the markers of their phases, and a summary whose total is exactly what  *)
(* was received (run_generation and all generate_*_phase functions).       *)
FollowsProtocol == Protocol!Spec

(* Cancellation takes effect within one step of any phase, even inside a   *)
(* batch of journal entries and inside a pause: the flag is tested before  *)
(* every record, chain and entry.                                          *)
CancelBounds == late <= 1

(* When events are dropped, the summary's total still is what was received *)
(* plus what was dropped, and its dropped_count misses at most the drop    *)
(* that sending the summary itself causes.                                 *)
LossesAccountedFor ==
  summary # NoSummary =>
    /\ summary.total = received + lost
    /\ summary.dropped \in {lostEvents, lostEvents - 1}

(* A stream that has ended has ended with a summary: nothing can evict the *)
(* Complete event, which is sent last, before the channel is closed.       *)
(* (DropNewest may refuse it.)                                             *)
EndsWithSummary == over /\ strategy # "DropNewest" => summary # NoSummary

(* The client gets everything up to and including the summary if it keeps  *)
(* reading and either the stream is left unpaused from some time on or it  *)
(* is cancelled: no push leaves a sleeping receiver behind (send and recv, *)
(* with the pause loops of run_generation).                                *)
SummaryArrives ==
  (<>[]~paused \/ <>cancelled) => <>(summary # NoSummary)

(* recv "Returns `None` if the channel is closed and empty": a client that *)
(* keeps reading comes to the end of the iteration.  It need not: close()  *)
(* notifies without the mutex and may miss it.                             *)
StreamEnds == (<>[]~paused \/ <>cancelled) => <>over

(* With a strategy that drops, the generation thread never depends on the  *)
(* consumer: it ends although nobody reads any more.                       *)
GeneratorEnds == (<>[]~paused \/ <>cancelled) => <>(pc = "done")

(* cancel() "Requests cancellation of the stream": the generation thread   *)
(* sees the request.                                                       *)
CancelIsSeen == cancelled ~> (pc = "done")
=============================================================================
