----------------------------- MODULE NdjsonStream -----------------------------
(***************************************************************************)
(* GET /api/stream/ndjson (datasynth-server, rest/routes.rs): a blocking   *)
(* task generates, and every item it emits goes through a                  *)
(* RateLimitedPipeline (datasynth-runtime, stream_pipeline.rs) and a       *)
(* ChannelPhaseSink into a bounded channel, from which the response body   *)
(* is read.  The limiter is the token bucket of RateLimiter; the channel   *)
(* is tokio's mpsc channel, whose sends fail once the response is dropped. *)
(*                                                                         *)
(* An item is its number in the order of emission.  What is generated, and *)
(* in which phases, is left out: after any number of items the generation  *)
(* may succeed or fail.                                                    *)
(***************************************************************************)
EXTENDS RateLimiter, Sequences, FiniteSets

CONSTANTS Items,      \* bound: a generation emits no more items than this
          Interval,   \* progress_interval
          Buffered    \* lines the channel holds (1024 in the code)

ASSUME ItemsAssumption == Items \in Nat
ASSUME IntervalAssumption == Interval \in Nat
ASSUME BufferedAssumption == Buffered \in Nat \ {0}

VARIABLES
  limited,     \* was a rate asked for?
  pc,          \* where the task is
  sequence,    \* RateLimitedPipeline.sequence
  seq,         \* the number emit() has drawn
  sunk,        \* ChannelPhaseSink.stats.items_emitted
  failed,      \* emissions whose line the channel refused
  outcome,     \* what the closing line will say
  lines,       \* what is in the channel
  connected,   \* the response body has not been dropped
  received,    \* the lines the client has read
  ended        \* the client has seen the end of the body

task == <<limited, pc, sequence, seq, sunk, failed, outcome>>
client == <<connected, received, ended>>
vars == <<bucket, task, lines, client>>

Item(n) == [kind |-> "item", number |-> n]
Progress(n) == [kind |-> "progress", number |-> n]
Closing(kind) == [kind |-> kind, number |-> 0]
Outcomes == {"complete", "error"}

Init ==
  /\ BucketInit
  /\ limited \in BOOLEAN
  /\ pc = "create"
  /\ sequence = 0 /\ seq = 0 /\ sunk = 0 /\ failed = 0
  /\ outcome = "complete"
  /\ lines = <<>>
  /\ connected = TRUE
  /\ received = <<>>
  /\ ended = FALSE

At(p) == pc = p
Goto(p) == pc' = p

-----------------------------------------------------------------------------
(* The task. *)

(* EnhancedOrchestrator::new *)
Create ==
  /\ At("create")
  /\ Goto("generate")
  /\ UNCHANGED <<bucket, limited, sequence, seq, sunk, failed, outcome, lines, client>>

CreateFails ==
  /\ At("create")
  /\ outcome' = "error"
  /\ Goto("close")
  /\ UNCHANGED <<bucket, limited, sequence, seq, sunk, failed, lines, client>>

(* generate() emits another item, which asks the limiter first, ... *)
NextItem ==
  /\ At("generate")
  /\ sequence < Items
  /\ Goto("acquire")
  /\ UNCHANGED <<bucket, limited, sequence, seq, sunk, failed, outcome, lines, client>>

(* ... or is over. *)
Generated ==
  /\ At("generate")
  /\ outcome' \in Outcomes
  /\ Goto("close")
  /\ UNCHANGED <<bucket, limited, sequence, seq, sunk, failed, lines, client>>

(* RateLimitedPipeline::emit: a disabled limiter lets everything through. *)
Unlimited ==
  /\ At("acquire") /\ ~limited
  /\ Goto("number")
  /\ UNCHANGED <<bucket, limited, sequence, seq, sunk, failed, outcome, lines, client>>

Acquire ==
  /\ At("acquire") /\ limited
  /\ AcquireNow \/ WakeUp
  /\ Goto("number")
  /\ UNCHANGED <<limited, sequence, seq, sunk, failed, outcome, lines, client>>

FallAsleep ==
  /\ At("acquire") /\ limited
  /\ AcquireSleeps
  /\ UNCHANGED <<task, lines, client>>

(* fetch_add, before the item is written *)
Number ==
  /\ At("number")
  /\ seq' = sequence
  /\ sequence' = sequence + 1
  /\ Goto("send")
  /\ UNCHANGED <<bucket, limited, sunk, failed, outcome, lines, client>>

(* A progress line is due when a multiple of the interval is drawn, 0 not  *)
(* among them.  Numbers are drawn from 0: the first line comes after item  *)
(* N + 1, although the interval is said to be "every N items".             *)
ProgressIsDue == Interval > 0 /\ seq > 0 /\ seq % Interval = 0

(* inner.emit of the item: blocking_send waits for room. *)
SendItem ==
  /\ At("send") /\ connected
  /\ Len(lines) < Buffered
  /\ lines' = Append(lines, Item(seq))
  /\ sunk' = sunk + 1
  /\ IF ProgressIsDue THEN Goto("progress") ELSE Goto("generate")
  /\ UNCHANGED <<bucket, limited, sequence, seq, failed, outcome, client>>

(* A progress line that goes through emit and draws a number of its own.   *)
SendProgressNumbered ==
  /\ At("progress") /\ connected
  /\ Len(lines) < Buffered
  /\ lines' = Append(lines, Progress(seq))
  /\ sunk' = sunk + 1
  /\ sequence' = sequence + 1
  /\ Goto("generate")
  /\ UNCHANGED <<bucket, limited, seq, failed, outcome, client>>

(* inner.emit of the progress line, which is not rate limited *)
SendProgress ==
  /\ At("progress") /\ connected
  /\ Len(lines) < Buffered
  /\ lines' = Append(lines, Progress(seq))
  /\ sunk' = sunk + 1
  /\ Goto("generate")
  /\ UNCHANGED <<bucket, limited, sequence, seq, failed, outcome, client>>

(* A failure that is counted as an item of the sink. *)
SendFailsCounted ==
  /\ pc \in {"send", "progress"} /\ ~connected
  /\ sunk' = sunk + 1
  /\ failed' = failed + 1
  /\ Goto("generate")
  /\ UNCHANGED <<bucket, limited, sequence, seq, outcome, lines, client>>

(* A progress line that waits for room although nobody will make any. *)
SendFailsForItems ==
  /\ At("send") /\ ~connected
  /\ failed' = failed + 1
  /\ Goto("generate")
  /\ UNCHANGED <<bucket, limited, sequence, seq, sunk, outcome, lines, client>>

(* The response is gone: emit returns the error, its caller logs it, and   *)
(* the generation goes on.                                                 *)
SendFails ==
  /\ pc \in {"send", "progress"} /\ ~connected
  /\ failed' = failed + 1
  /\ Goto("generate")
  /\ UNCHANGED <<bucket, limited, sequence, seq, sunk, outcome, lines, client>>

(* The closing line, whose result is ignored; then tx is dropped. *)
Close ==
  /\ At("close")
  /\ connected => Len(lines) < Buffered
  /\ lines' = IF connected THEN Append(lines, Closing(outcome)) ELSE lines
  /\ Goto("done")
  /\ UNCHANGED <<bucket, limited, sequence, seq, sunk, failed, outcome, client>>

TaskStep ==
  \/ Create \/ CreateFails \/ NextItem \/ Generated \/ Unlimited \/ Acquire
  \/ FallAsleep \/ Number \/ SendItem \/ SendProgress \/ SendFails \/ Close

-----------------------------------------------------------------------------
(* The client, and time. *)

Read ==
  /\ connected /\ lines # <<>>
  /\ received' = Append(received, Head(lines))
  /\ lines' = Tail(lines)
  /\ UNCHANGED <<bucket, task, connected, ended>>

(* The channel is closed and empty. *)
SeeEnd ==
  /\ connected /\ ~ended /\ At("done") /\ lines = <<>>
  /\ ended' = TRUE
  /\ UNCHANGED <<bucket, task, lines, connected, received>>

(* The response body is dropped, and with it what the channel holds. *)
HangUp ==
  /\ connected
  /\ connected' = FALSE
  /\ lines' = <<>>
  /\ UNCHANGED <<bucket, task, received, ended>>

TimePasses == limited /\ (Tick \/ Observe) /\ UNCHANGED <<task, lines, client>>

Next == TaskStep \/ Read \/ SeeEnd \/ HangUp \/ TimePasses

Spec == Init /\ [][Next]_vars

(* The task is scheduled, time goes by, and a client whose body has ended  *)
(* is told.  Nobody has to read.                                           *)
FairSpec ==
  /\ Spec
  /\ WF_vars(TaskStep)
  /\ WF_vars(SeeEnd)
  /\ WF_vars(limited /\ Tick /\ UNCHANGED <<task, lines, client>>)

-----------------------------------------------------------------------------
(* Properties. *)

TypeOK ==
  /\ limited \in BOOLEAN /\ connected \in BOOLEAN /\ ended \in BOOLEAN
  /\ pc \in {"create", "generate", "acquire", "number", "send", "progress", "close", "done"}
  /\ sequence \in 0..Items /\ seq \in 0..Items
  /\ sunk \in Nat /\ failed \in Nat
  /\ outcome \in Outcomes
  /\ Len(lines) <= Buffered

(* What a connected client has read, with what waits in the channel, and   *)
(* the items among the first i lines of that.                              *)
Stream == received \o lines
Seen(i) == Cardinality({j \in 1..i : Stream[j].kind = "item"})

(* The stream of a client that stays connected has no gap, although the    *)
(* number is drawn before the write and progress lines are written between *)
(* items: the items carry 0, 1, 2, ... and are as many as were numbered;   *)
(* a progress line reports no more items than it follows, and each reports *)
(* more than the one before; the closing line is the last, and says how    *)
(* the generation went.                                                    *)
StreamIsWhole ==
  connected =>
    /\ \A i \in 1..Len(Stream) :
         CASE Stream[i].kind = "item"     -> Stream[i].number = Seen(i - 1)
           [] Stream[i].kind = "progress" -> Stream[i].number <= Seen(i - 1)
           [] OTHER -> i = Len(Stream) /\ At("done")
    /\ \A i, j \in 1..Len(Stream) :
         i < j /\ Stream[i].kind = "progress" /\ Stream[j].kind = "progress" =>
           Stream[i].number < Stream[j].number
    /\ Seen(Len(Stream)) = IF At("send") THEN seq ELSE sequence
    /\ At("done") => Stream # <<>> /\ Stream[Len(Stream)] = Closing(outcome)

(* "Emit a _progress event every N items": a generation of k items reports *)
(* k \div N times.  It does not: a multiple of N items has one report less *)
(* (RateLimitedPipeline::emit).                                            *)
ProgressEveryInterval ==
  connected /\ At("done") /\ Interval > 0 =>
    Cardinality({i \in 1..Len(Stream) : Stream[i].kind = "progress"}) = sequence \div Interval

(* The sequence counts every attempt, the sink every line that the channel *)
(* took: what they differ by is what failed, the progress lines (as many   *)
(* as the code writes), and the line in flight.                            *)
ProgressLines(n) == IF Interval = 0 \/ n = 0 THEN 0 ELSE (n - 1) \div Interval
AttemptsAccountedFor ==
  /\ sunk + failed <= sequence + ProgressLines(sequence)
  /\ connected /\ pc \notin {"send", "progress"} =>
       failed = 0 /\ sunk = sequence + ProgressLines(sequence)
  /\ pc \notin {"send", "progress"} => sunk + failed >= sequence

(* The task ends when the client goes on reading or hangs up, whatever the *)
(* rate: a stalled client holds it, a client that is gone does not.  And a *)
(* client that goes on reading sees the end of the body.                   *)
TaskEnds ==
  /\ (<>~connected \/ []<>(lines = <<>>)) => <>At("done")
  /\ []<>(lines = <<>>) => <>(ended \/ ~connected)
=============================================================================
