--------------------------- MODULE StreamService ----------------------------
(***************************************************************************)
(* The streams of datasynth-server: gRPC stream_data calls, WebSocket      *)
(* event sockets, gRPC bulk generations and the control commands, over the *)
(* one ServerState they share.  The state's fields are independent         *)
(* atomics: every load and store below is a step of its own.               *)
(***************************************************************************)
EXTENDS Integers, FiniteSets

CONSTANTS
  Calls,            \* gRPC stream_data calls
  Sockets,          \* WebSocket event sockets
  Bulks,            \* gRPC bulk_generate calls
  Starters,         \* REST requests to /api/stream/start
  MaxConcurrent,    \* max_concurrent_generations
  MaxEvents,        \* max_events of a call, 0 for unlimited
  BatchSizes,       \* how many journal entries one generation may yield
  Buffered,         \* capacity of the channel or socket to a client
  MayFail,          \* generators may fail to be created or to generate
  Commands          \* the control commands clients use

Streams == Calls \cup Sockets

ASSUME SizesAssumption ==
  /\ {MaxConcurrent, MaxEvents} \subseteq Nat
  /\ Buffered \in Nat \ {0}
  /\ BatchSizes \subseteq Nat /\ BatchSizes # {}
  /\ MayFail \in BOOLEAN
ASSUME ActorsAssumption ==
  /\ IsFiniteSet(Calls \cup Sockets)
  /\ Calls \cap Sockets = {}
  /\ Bulks \cap (Calls \cup Sockets) = {}
  /\ Starters \cap (Calls \cup Sockets \cup Bulks) = {}
  /\ Commands \subseteq {"pause", "resume", "stop"}

VARIABLES
  pc,               \* where the task of a stream, bulk call or starter is
  active,           \* active_streams
  paused, stopped,  \* stream_paused, stream_stopped
  sequence,         \* events a limited stream has produced
  batch,            \* entries of the current generation still to stream
  unread,           \* events sent to a client that it has not read
  connected,        \* the client is there
  afterStop,        \* history: batches begun by a stream since a stop that stands
  finished          \* history: every stream that has ended, and how

shared == <<active, paused, stopped>>
client == <<unread, connected>>
local == <<sequence, batch, afterStop, finished>>
vars == <<pc, shared, local, client>>

Limited(s) == s \in Calls /\ MaxEvents > 0

Init ==
  /\ pc = [a \in Streams \cup Bulks \cup Starters |-> "idle"]
  /\ active = 0 /\ paused = FALSE /\ stopped = FALSE
  /\ sequence = [s \in Streams |-> 0]
  /\ batch = [s \in Streams |-> 0]
  /\ unread = [s \in Streams |-> 0]
  /\ connected = [s \in Streams |-> TRUE]
  /\ afterStop = [s \in Streams |-> 0]
  /\ finished = {}

Go(a, from, to) == pc[a] = from /\ pc' = [pc EXCEPT ![a] = to]

-----------------------------------------------------------------------------
(* Admission.  check_resources reads the counter, and the resource guard   *)
(* may refuse as well; the counter is raised only after the configuration  *)
(* has been awaited, which may fail.                                       *)

Refused(a) == Go(a, "idle", "refused")

Admitted(a) ==
  /\ active < MaxConcurrent
  /\ Go(a, "idle", "admitted")

CheckResources(a) ==
  /\ a \in Calls \cup Bulks
  /\ Refused(a) \/ Admitted(a)
  /\ UNCHANGED <<shared, local, client>>

BadConfig(a) ==
  /\ a \in Calls \cup Bulks
  /\ Go(a, "admitted", "refused")
  /\ UNCHANGED <<shared, local, client>>

(* stream_data counts itself and resets the control flags of all streams.  *)
RegisterCall(s) ==
  /\ s \in Calls
  /\ Go(s, "admitted", "resetPaused")
  /\ active' = active + 1
  /\ UNCHANGED <<paused, stopped, local, client>>

ClearPaused(s) ==
  /\ s \in Calls
  /\ Go(s, "resetPaused", "resetStopped")
  /\ paused' = FALSE
  /\ UNCHANGED <<active, stopped, local, client>>

StopCleared == stopped' = FALSE /\ afterStop' = [s \in Streams |-> 0]

ClearStopped(s) ==
  /\ s \in Calls
  /\ Go(s, "resetStopped", "create")
  /\ StopCleared
  /\ UNCHANGED <<active, paused, sequence, batch, finished, client>>

(* A socket is not checked against the limit and leaves the flags alone. *)
RegisterSocket(s) ==
  /\ s \in Sockets
  /\ Go(s, "idle", "create")
  /\ active' = active + 1
  /\ UNCHANGED <<paused, stopped, local, client>>

-----------------------------------------------------------------------------
(* The task of a stream. *)

Create(s) ==
  /\ Go(s, "create", "top")
  /\ UNCHANGED <<shared, local, client>>

(* The orchestrator cannot be created: the socket's handler takes itself   *)
(* off the counter before it returns, the call's task does not.            *)
CreateFails(s) ==
  /\ MayFail
  /\ Go(s, "create", "ended")
  /\ active' = IF s \in Sockets THEN active - 1 ELSE active
  /\ finished' = finished \cup {<<s, IF s \in Sockets THEN "counted" ELSE "leaked">>}
  /\ UNCHANGED <<paused, stopped, sequence, batch, afterStop, client>>

TopStops(s) ==
  /\ stopped
  /\ Go(s, "top", "exit")
  /\ UNCHANGED <<shared, local, client>>

TopGoesOn(s) ==
  /\ ~stopped
  /\ Go(s, "top", "pause")
  /\ UNCHANGED <<shared, local, client>>

(* while stream_paused { sleep; if stream_stopped { break } }: the break   *)
(* leaves the inner loop only.                                             *)
PauseSleeps(s) ==
  /\ paused
  /\ Go(s, "pause", "asleep")
  /\ UNCHANGED <<shared, local, client>>

WakesWithoutStopTest(s) ==
  /\ Go(s, "asleep", "pause")
  /\ UNCHANGED <<shared, local, client>>

PauseWakes(s) ==
  /\ Go(s, "asleep", IF stopped THEN "begin" ELSE "pause")
  /\ UNCHANGED <<shared, local, client>>

PauseIsOver(s) ==
  /\ ~paused
  /\ Go(s, "pause", "begin")
  /\ UNCHANGED <<shared, local, client>>

(* Before a generation: the call's limit, the socket's incoming messages   *)
(* (select!: a closed socket is seen here only), a failing generator.      *)
ReachedLimit(s) == Limited(s) /\ sequence[s] >= MaxEvents

LeavesLoop(s) ==
  \/ ReachedLimit(s)
  \/ s \in Sockets /\ ~connected[s]
  \/ MayFail

BeginLeaves(s) ==
  /\ LeavesLoop(s)
  /\ Go(s, "begin", "exit")
  /\ UNCHANGED <<shared, local, client>>

(* A socket's select! may take a message that changes nothing. *)
SocketMessage(s) ==
  /\ s \in Sockets /\ connected[s]
  /\ Go(s, "begin", "top")
  /\ UNCHANGED <<shared, local, client>>

Generate(s) ==
  /\ ~ReachedLimit(s)
  /\ \E n \in BatchSizes : batch' = [batch EXCEPT ![s] = n]
  /\ Go(s, "begin", "stream")
  /\ afterStop' = [afterStop EXCEPT ![s] = IF stopped THEN @ + 1 ELSE 0]
  /\ UNCHANGED <<shared, sequence, finished, client>>

(* One entry: counted, then sent; sending waits for room in the channel.   *)
Produced(s) == IF Limited(s) THEN sequence[s] + 1 ELSE 0

SendEntryWithoutLimit(s) ==
  /\ pc[s] = "stream" /\ batch[s] > 0
  /\ connected[s] /\ unread[s] < Buffered
  /\ sequence' = [sequence EXCEPT ![s] = Produced(s)]
  /\ unread' = [unread EXCEPT ![s] = @ + 1]
  /\ batch' = [batch EXCEPT ![s] = @ - 1]
  /\ UNCHANGED <<pc, shared, afterStop, finished, connected>>

SendEntry(s) ==
  /\ pc[s] = "stream" /\ batch[s] > 0
  /\ connected[s] /\ unread[s] < Buffered
  /\ sequence' = [sequence EXCEPT ![s] = Produced(s)]
  /\ unread' = [unread EXCEPT ![s] = @ + 1]
  /\ batch' = [batch EXCEPT ![s] =
                 IF Limited(s) /\ sequence'[s] >= MaxEvents THEN 0 ELSE @ - 1]
  /\ UNCHANGED <<pc, shared, afterStop, finished, connected>>

SendFailsUncounted(s) ==
  /\ pc[s] = "stream" /\ batch[s] > 0
  /\ ~connected[s]
  /\ batch' = [batch EXCEPT ![s] = 0]
  /\ UNCHANGED <<pc, shared, sequence, afterStop, finished, client>>

(* The client is gone: the rest of the batch is dropped, the loop goes on. *)
SendFails(s) ==
  /\ pc[s] = "stream" /\ batch[s] > 0
  /\ ~connected[s]
  /\ sequence' = [sequence EXCEPT ![s] = Produced(s)]
  /\ batch' = [batch EXCEPT ![s] = 0]
  /\ UNCHANGED <<pc, shared, afterStop, finished, client>>

BatchDoneSkipsStopTest(s) ==
  /\ batch[s] = 0
  /\ Go(s, "stream", "pause")
  /\ UNCHANGED <<shared, local, client>>
BatchDone(s) ==
  /\ batch[s] = 0
  /\ Go(s, "stream", "top")
  /\ UNCHANGED <<shared, local, client>>

ExitUncounted(s) ==
  /\ Go(s, "exit", "ended")
  /\ finished' = finished \cup {<<s, "counted">>}
  /\ UNCHANGED <<shared, sequence, batch, afterStop, client>>
ExitCountedTwice(s) ==
  /\ Go(s, "exit", "ended")
  /\ active' = active - 2
  /\ finished' = finished \cup {<<s, "counted">>}
  /\ UNCHANGED <<paused, stopped, sequence, batch, afterStop, client>>
Exit(s) ==
  /\ Go(s, "exit", "ended")
  /\ active' = active - 1
  /\ finished' = finished \cup {<<s, "counted">>}
  /\ UNCHANGED <<paused, stopped, sequence, batch, afterStop, client>>

-----------------------------------------------------------------------------
(* bulk_generate is checked like a stream, and never counted. *)

BulkRuns(b) ==
  /\ b \in Bulks
  /\ Go(b, "admitted", "running")
  /\ UNCHANGED <<shared, local, client>>

BulkEnds(b) ==
  /\ b \in Bulks
  /\ Go(b, "running", "ended")
  /\ UNCHANGED <<shared, local, client>>

-----------------------------------------------------------------------------
(* Clients and control commands (gRPC control, REST stop/pause/resume). *)

Read(s) ==
  /\ connected[s] /\ unread[s] > 0
  /\ unread' = [unread EXCEPT ![s] = @ - 1]
  /\ UNCHANGED <<pc, shared, local, connected>>

HangUp(s) ==
  /\ pc[s] # "idle"
  /\ connected' = [connected EXCEPT ![s] = FALSE]
  /\ unread' = [unread EXCEPT ![s] = 0]
  /\ UNCHANGED <<pc, shared, local>>

Pause ==
  /\ "pause" \in Commands
  /\ paused' = TRUE
  /\ UNCHANGED <<pc, active, stopped, local, client>>

Resume ==
  /\ "resume" \in Commands
  /\ paused' = FALSE
  /\ UNCHANGED <<pc, active, stopped, local, client>>

Stop ==
  /\ "stop" \in Commands
  /\ stopped' = TRUE
  /\ UNCHANGED <<pc, active, paused, local, client>>

(* REST /api/stream/start resets both flags, in the other order. *)
StartClearsStopped(r) ==
  /\ r \in Starters
  /\ Go(r, "idle", "half")
  /\ StopCleared
  /\ UNCHANGED <<active, paused, sequence, batch, finished, client>>

StartClearsPaused(r) ==
  /\ r \in Starters
  /\ Go(r, "half", "ended")
  /\ paused' = FALSE
  /\ UNCHANGED <<active, stopped, local, client>>

-----------------------------------------------------------------------------

Register(s) ==
  \/ CheckResources(s) \/ BadConfig(s) \/ RegisterCall(s) \/ RegisterSocket(s)
  \/ ClearPaused(s) \/ ClearStopped(s)

TaskStep(s) ==
  \/ Create(s) \/ CreateFails(s)
  \/ TopStops(s) \/ TopGoesOn(s)
  \/ PauseSleeps(s) \/ PauseWakes(s) \/ PauseIsOver(s)
  \/ BeginLeaves(s) \/ SocketMessage(s) \/ Generate(s)
  \/ SendEntry(s) \/ SendFails(s) \/ BatchDone(s) \/ Exit(s)

BulkStep(b) == CheckResources(b) \/ BadConfig(b) \/ BulkRuns(b) \/ BulkEnds(b)

Next ==
  \/ \E s \in Streams : Register(s) \/ TaskStep(s) \/ Read(s) \/ HangUp(s)
  \/ \E b \in Bulks : BulkStep(b)
  \/ \E r \in Starters : StartClearsStopped(r) \/ StartClearsPaused(r)
  \/ Pause \/ Resume \/ Stop

Spec == Init /\ [][Next]_vars

(* The runtime schedules every task, a client that stays reads, and the    *)
(* messages of a socket do not keep select! from its timer for ever.       *)
FairSpec ==
  /\ Spec
  /\ \A s \in Streams :
       /\ WF_vars(TaskStep(s)) /\ WF_vars(Read(s))
       /\ WF_vars(ClearPaused(s)) /\ WF_vars(ClearStopped(s))
       /\ SF_vars(Generate(s))

-----------------------------------------------------------------------------

Live == {s \in Streams : pc[s] \notin {"idle", "admitted", "refused", "ended"}}
Leaked == {s \in Streams : <<s, "leaked">> \in finished}
Working(a) == pc[a] \in {"pause", "asleep", "begin", "stream", "running"}

(* Every variable keeps its type, and no client's channel holds more than  *)
(* its capacity.                                                           *)
TypeOK ==
  /\ pc \in [Streams \cup Bulks \cup Starters ->
               {"idle", "refused", "admitted", "resetPaused", "resetStopped",
                "create", "top", "pause", "asleep", "begin", "stream", "exit",
                "running", "half", "ended"}]
  /\ active \in 0..Cardinality(Streams)
  /\ {paused, stopped} \subseteq BOOLEAN
  /\ sequence \in [Streams -> Nat]
  /\ batch \in [Streams -> Nat]
  /\ unread \in [Streams -> 0..Buffered]
  /\ connected \in [Streams -> BOOLEAN]
  /\ afterStop \in [Streams -> Nat]
  /\ finished \subseteq Streams \X {"counted", "leaked"}

(* active_streams is the number of live streams plus those whose           *)
(* orchestrator could not be created by a stream_data task: every other    *)
(* way out of a stream takes it off the counter exactly once.              *)
ActiveAccountsForStreams == active = Cardinality(Live) + Cardinality(Leaked)

(* A call with a limit never produces more events than max_events, however *)
(* large a generation is.                                                  *)
WithinMaxEvents == \A s \in Streams : Limited(s) => sequence[s] <= MaxEvents

(* A stop that nobody resets lets each stream begin one more generation at *)
(* most, the one whose tests were already behind it.                       *)
OneBatchAfterStop == \A s \in Streams : afterStop[s] <= 1

(* A stop that stands ends every stream, also one that is paused for ever. *)
StandingStopEndsStreams ==
  \A s \in Streams :
    <>[]stopped => ((pc[s] = "create") ~> (pc[s] = "ended"))

(* A call with max_events ends by itself unless it stays paused, whether   *)
(* its client reads on or hangs up.                                        *)
LimitedStreamsEnd ==
  \A s \in Calls :
    <>[]~paused => ((pc[s] = "create") ~> (pc[s] = "ended"))

(* synth_active_streams is the "Number of active streaming connections".   *)
ActiveIsLive == active = Cardinality(Live)

(* A client's stop ("Stream stopped") ends the streams that run.           *)
StopEndsStreams ==
  \A s \in Streams : (stopped /\ Working(s)) ~> (pc[s] = "ended")

(* A stream whose client is gone ends; until then it counts as active.     *)
HungUpStreamsEnd ==
  \A s \in Streams : (Working(s) /\ ~connected[s] /\ ~paused) ~> (paused \/ pc[s] = "ended")
=============================================================================
