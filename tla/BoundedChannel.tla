--------------------------- MODULE BoundedChannel ---------------------------
(***************************************************************************)
(* The bounded channel of datasynth-core/src/streaming/channel.rs: a deque *)
(* under a mutex, two condition variables, an atomic closed flag and       *)
(* atomic counters.  A thread is described by the point it has reached in  *)
(* the method it runs (pc); what it does while it holds the mutex is one   *)
(* step, except that evaluating a wait predicate and parking on the        *)
(* condition variable are two: close() does not take the mutex and can run *)
(* between them.                                                           *)
(***************************************************************************)
EXTENDS Naturals, Sequences, FiniteSets

CONSTANTS
  Senders,      \* threads that call send, send_timeout and close
  Receivers,    \* threads that call recv, recv_timeout and try_recv
  Closers,      \* the senders that may call close
  SendOps,      \* the sending methods in use, of "send" and "send_timeout"
  RecvOps,      \* the receiving methods in use, of "recv", "recv_timeout", "try_recv"
  Strategies,   \* the strategies a channel may be created with
  Capacity,     \* capacity of the channel
  MaxOverflow,  \* max_overflow of the Buffer strategy
  MaxItems,     \* bound: how many items each sender offers
  NoThread      \* the mutex is free

Threads == Senders \cup Receivers

ASSUME ThreadsAssumption ==
  /\ Senders \cap Receivers = {}
  /\ Closers \subseteq Senders
  /\ IsFiniteSet(Threads)
  /\ NoThread \notin Threads

ASSUME OpsAssumption ==
  /\ SendOps \subseteq {"send", "send_timeout"}
  /\ RecvOps \subseteq {"recv", "recv_timeout", "try_recv"}

ASSUME SizesAssumption ==
  /\ Strategies \subseteq {"Block", "DropOldest", "DropNewest", "Buffer"}
  /\ Capacity \in Nat
  /\ MaxOverflow \in Nat
  /\ MaxItems \in Nat

VARIABLES
  strategy,       \* the BackpressureStrategy, fixed when the channel is created
  buffer,         \* the VecDeque, oldest item first
  owner,          \* the thread that holds the mutex, or NoThread
  closed,         \* AtomicBool
  notFull,        \* threads parked on the condition variable not_full
  notEmpty,       \* threads parked on the condition variable not_empty
  pc,             \* where each thread is
  offered,        \* offered[s]: the number of items s has offered
  itemsSent, itemsReceived, itemsDropped, maxBufferSize,   \* AtomicU64
  ret,            \* ret[t]: what the last call of t returned
  delivered       \* history: the items popped by receivers, in order

counters == <<itemsSent, itemsReceived, itemsDropped, maxBufferSize>>
vars == <<strategy, buffer, owner, closed, notFull, notEmpty, pc, offered, counters,
          ret, delivered>>

Init ==
  /\ strategy \in Strategies
  /\ buffer = <<>>
  /\ owner = NoThread
  /\ closed = FALSE
  /\ notFull = {}
  /\ notEmpty = {}
  /\ pc = [t \in Threads |-> "idle"]
  /\ offered = [s \in Senders |-> 0]
  /\ itemsSent = 0 /\ itemsReceived = 0 /\ itemsDropped = 0
  /\ maxBufferSize = 0
  /\ ret = [t \in Threads |-> "none"]
  /\ delivered = <<>>

-----------------------------------------------------------------------------
(* Helpers. *)

Item(s) == <<s, offered[s]>>

(* The length at which send, and at which send_timeout, finds the buffer   *)
(* full: send_timeout does not know of the overflow.                       *)
SendLimit == IF strategy = "Buffer" THEN Capacity + MaxOverflow ELSE Capacity
Full(limit) == Len(buffer) >= limit

GoTo(t, where) == pc' = [pc EXCEPT ![t] = where]
Return(t, value) == GoTo(t, "idle") /\ ret' = [ret EXCEPT ![t] = value]

(* The thread has the mutex only for the duration of this step. *)
Lock == owner = NoThread /\ UNCHANGED owner

(* The thread takes the mutex, finds that it must wait, and keeps it.      *)
LockAndKeep(t) == owner = NoThread /\ owner' = t

(* push_back(item), items_sent += 1.  Only send updates max_buffer_size.   *)
Push(s, base, updatesMax) ==
  /\ buffer' = Append(base, Item(s))
  /\ itemsSent' = itemsSent + 1
  /\ maxBufferSize' = IF updatesMax /\ Len(base) + 1 > maxBufferSize
                      THEN Len(base) + 1 ELSE maxBufferSize
  /\ GoTo(s, "notifyEmpty")
  /\ UNCHANGED <<itemsReceived, ret, delivered>>

(* pop_front() of a buffer that may be empty (Capacity = 0). *)
Rest(q) == IF q = <<>> THEN <<>> ELSE Tail(q)

(* What a full buffer does to a new item under the two lossy strategies.   *)
DropOldestUncounted(s, updatesMax) ==   \* mutant of DropOldest
  /\ strategy = "DropOldest"
  /\ Push(s, Rest(buffer), updatesMax)
  /\ UNCHANGED itemsDropped

DropOldest(s, updatesMax) ==
  /\ strategy = "DropOldest"
  /\ itemsDropped' = itemsDropped + 1
  /\ Push(s, Rest(buffer), updatesMax)

DropNewest(s) ==
  /\ strategy = "DropNewest"
  /\ itemsDropped' = itemsDropped + 1
  /\ Return(s, "dropped")
  /\ UNCHANGED <<buffer, itemsSent, itemsReceived, maxBufferSize, delivered>>

SendFails(s, why) ==
  /\ Return(s, why)
  /\ UNCHANGED <<buffer, counters, delivered>>

(* Condvar::wait: park and release the mutex, atomically. *)
Park(t, from, to) ==
  /\ pc[t] = from
  /\ owner' = NoThread
  /\ GoTo(t, to)
  /\ UNCHANGED <<buffer, closed, strategy, offered, counters, ret, delivered>>

(* Where a parked thread resumes when it is woken: it must take the mutex  *)
(* again and look at the buffer again.                                     *)
Resume(where) ==
  CASE where = "sendWait"  -> "sendWoken"
    [] where = "timedWait" -> "timedLock"
    [] where = "recvWait"  -> "recvLock"
    [] where = "pollWait"  -> "pollLock"

WakeAll(S) == [t \in Threads |-> IF t \in S THEN Resume(pc[t]) ELSE pc[t]]

(* notify_one by a thread that then returns. *)
NotifyOneAndReturn(t, waiting, value) ==
  /\ ret' = [ret EXCEPT ![t] = value]
  /\ \/ /\ waiting = {}
        /\ GoTo(t, "idle")
        /\ UNCHANGED <<notFull, notEmpty>>
     \/ \E w \in waiting :
          /\ pc' = [pc EXCEPT ![t] = "idle", ![w] = Resume(pc[w])]
          /\ notFull' = notFull \ {w}
          /\ notEmpty' = notEmpty \ {w}
  /\ UNCHANGED <<buffer, owner, closed, strategy, offered, counters, delivered>>

-----------------------------------------------------------------------------
(* send *)

(* send and send_timeout test closed before they lock. *)
SendStart(s, op) ==
  /\ pc[s] = "idle"
  /\ op \in SendOps
  /\ offered[s] < MaxItems
  /\ offered' = [offered EXCEPT ![s] = @ + 1]
  /\ IF closed
     THEN Return(s, "closed")
     ELSE /\ GoTo(s, IF op = "send" THEN "sendLock" ELSE "timedLock")
          /\ UNCHANGED ret
  /\ UNCHANGED <<buffer, owner, closed, strategy, notFull, notEmpty, counters, delivered>>

(* The buffer has room, or the strategy makes room, or the item is refused. *)
SendLocked(s) ==
  /\ pc[s] = "sendLock"
  /\ Lock
  /\ \/ ~Full(SendLimit) /\ Push(s, buffer, TRUE) /\ UNCHANGED itemsDropped
     \/ Full(SendLimit) /\ DropOldest(s, TRUE)
     \/ Full(SendLimit) /\ DropNewest(s)
  /\ UNCHANGED <<closed, strategy, notFull, notEmpty, offered>>

(* wait_while: the predicate holds, the thread is about to park. *)
SendMustWait(s) ==
  /\ pc[s] \in {"sendLock", "sendWoken"}
  /\ strategy \in {"Block", "Buffer"}
  /\ Full(SendLimit)
  /\ ~closed
  /\ LockAndKeep(s)
  /\ GoTo(s, "sendPark")
  /\ UNCHANGED <<buffer, closed, strategy, notFull, notEmpty, offered, counters, ret, delivered>>

SendParksOnNotEmpty(s) ==   \* mutant of SendParks: the wrong condition variable
  /\ Park(s, "sendPark", "sendWait")
  /\ notEmpty' = notEmpty \cup {s}
  /\ UNCHANGED notFull

SendParks(s) ==
  /\ Park(s, "sendPark", "sendWait")
  /\ notFull' = notFull \cup {s}
  /\ UNCHANGED notEmpty

SendAfterOneWait(s) ==   \* mutant of SendAfterWait: wait instead of wait_while
  /\ Lock
  /\ pc[s] = "sendWoken"
  /\ IF closed THEN SendFails(s, "closed")
               ELSE Push(s, buffer, TRUE) /\ UNCHANGED itemsDropped
  /\ UNCHANGED <<closed, strategy, notFull, notEmpty, offered>>

(* wait_while returned, or was never entered because of closed: closed is  *)
(* tested once more before the item is pushed.                             *)
SendAfterWait(s) ==
  /\ Lock
  /\ \/ /\ pc[s] = "sendLock" /\ strategy \in {"Block", "Buffer"}
        /\ Full(SendLimit) /\ closed
        /\ SendFails(s, "closed")
     \/ pc[s] = "sendWoken" /\ closed /\ SendFails(s, "closed")
     \/ /\ pc[s] = "sendWoken" /\ ~closed /\ ~Full(SendLimit)
        /\ Push(s, buffer, TRUE)
        /\ UNCHANGED itemsDropped
  /\ UNCHANGED <<closed, strategy, notFull, notEmpty, offered>>

NotifyNotEmptyAfterDrop(s) ==   \* mutant of NotifyNotEmpty: Ok(false) after an eviction
  /\ pc[s] = "notifyEmpty"
  /\ NotifyOneAndReturn(s, notEmpty, IF itemsDropped > 0 THEN "dropped" ELSE "sent")

NotifyNotEmpty(s) ==
  /\ pc[s] = "notifyEmpty"
  /\ NotifyOneAndReturn(s, notEmpty, "sent")

-----------------------------------------------------------------------------
(* send_timeout *)

(* What happens to the item when the deadline has passed. *)
TimedStrategy(s) ==
  \/ DropOldest(s, FALSE)
  \/ DropNewest(s)
  \/ strategy \in {"Block", "Buffer"} /\ SendFails(s, "timeout")

(* One turn of the loop; the deadline may have passed. *)
TimedLocked(s) ==
  /\ pc[s] = "timedLock"
  /\ Lock
  /\ \/ ~Full(Capacity) /\ Push(s, buffer, FALSE) /\ UNCHANGED itemsDropped
     \/ Full(Capacity) /\ closed /\ SendFails(s, "closed")
     \/ Full(Capacity) /\ ~closed /\ TimedStrategy(s)
  /\ UNCHANGED <<closed, strategy, notFull, notEmpty, offered>>

TimedMustWaitUnlocked(s) ==   \* mutant of TimedMustWait: the mutex is released before the wait
  /\ pc[s] = "timedLock"
  /\ Full(Capacity)
  /\ ~closed
  /\ Lock
  /\ GoTo(s, "timedPark")
  /\ UNCHANGED <<buffer, closed, strategy, notFull, notEmpty, offered, counters, ret, delivered>>

TimedMustWait(s) ==
  /\ pc[s] = "timedLock"
  /\ Full(Capacity)
  /\ ~closed
  /\ LockAndKeep(s)
  /\ GoTo(s, "timedPark")
  /\ UNCHANGED <<buffer, closed, strategy, notFull, notEmpty, offered, counters, ret, delivered>>

TimedParks(s) ==
  /\ Park(s, "timedPark", "timedWait")
  /\ notFull' = notFull \cup {s}
  /\ UNCHANGED notEmpty

(* wait_timeout ran out: closed is not looked at again. *)
TimedOut(s) ==
  /\ pc[s] = "timedWait"
  /\ GoTo(s, "timedExpired")
  /\ notFull' = notFull \ {s}
  /\ UNCHANGED <<buffer, owner, closed, strategy, notEmpty, offered, counters, ret, delivered>>

TimedExpired(s) ==
  /\ pc[s] = "timedExpired"
  /\ Lock
  /\ \/ ~Full(Capacity) /\ Push(s, buffer, FALSE) /\ UNCHANGED itemsDropped
     \/ Full(Capacity) /\ TimedStrategy(s)
  /\ UNCHANGED <<closed, strategy, notFull, notEmpty, offered>>

-----------------------------------------------------------------------------
(* recv, recv_timeout and try_recv *)

RecvStart(r, op) ==
  /\ pc[r] = "idle"
  /\ op \in RecvOps
  /\ GoTo(r, CASE op = "recv"         -> "recvLock"
               [] op = "recv_timeout" -> "pollLock"
               [] op = "try_recv"     -> "tryLock")
  /\ UNCHANGED <<buffer, owner, closed, strategy, notFull, notEmpty, offered, counters,
                 ret, delivered>>

PopBack(r) ==   \* mutant of Pop: the newest item
  /\ pc[r] \in {"recvLock", "pollLock", "pollExpired", "tryLock"}
  /\ buffer # <<>>
  /\ Lock
  /\ buffer' = SubSeq(buffer, 1, Len(buffer) - 1)
  /\ delivered' = Append(delivered, buffer[Len(buffer)])
  /\ itemsReceived' = itemsReceived + 1
  /\ GoTo(r, "notifyFull")
  /\ UNCHANGED <<closed, strategy, notFull, notEmpty, offered, itemsSent, itemsDropped,
                 maxBufferSize, ret>>

(* pop_front and items_received += 1, in all three methods. *)
Pop(r) ==
  /\ pc[r] \in {"recvLock", "pollLock", "pollExpired", "tryLock"}
  /\ buffer # <<>>
  /\ Lock
  /\ buffer' = Tail(buffer)
  /\ delivered' = Append(delivered, Head(buffer))
  /\ itemsReceived' = itemsReceived + 1
  /\ GoTo(r, "notifyFull")
  /\ UNCHANGED <<closed, strategy, notFull, notEmpty, offered, itemsSent, itemsDropped,
                 maxBufferSize, ret>>

RecvNoneOnClosed(r) ==   \* mutant of RecvNone: closed is tested before the buffer
  /\ Lock
  /\ \/ pc[r] = "recvLock" /\ closed /\ GoTo(r, "done")
     \/ /\ pc[r] \in {"pollLock", "pollExpired", "tryLock"}
        /\ buffer = <<>> \/ closed
        /\ GoTo(r, "idle")
  /\ ret' = [ret EXCEPT ![r] = "none"]
  /\ UNCHANGED <<buffer, closed, strategy, notFull, notEmpty, offered, counters, delivered>>

(* recv returns None only on a closed channel, and its caller (an iterator *)
(* over the receiver) then stops; the other two may give up on an open one. *)
RecvNone(r) ==
  /\ buffer = <<>>
  /\ Lock
  /\ \/ pc[r] = "recvLock" /\ closed /\ GoTo(r, "done")
     \/ pc[r] \in {"pollLock", "pollExpired", "tryLock"} /\ GoTo(r, "idle")
  /\ ret' = [ret EXCEPT ![r] = "none"]
  /\ UNCHANGED <<buffer, closed, strategy, notFull, notEmpty, offered, counters, delivered>>

RecvMustWait(r) ==
  /\ pc[r] \in {"recvLock", "pollLock"}
  /\ buffer = <<>>
  /\ ~closed
  /\ LockAndKeep(r)
  /\ GoTo(r, IF pc[r] = "recvLock" THEN "recvPark" ELSE "pollPark")
  /\ UNCHANGED <<buffer, closed, strategy, notFull, notEmpty, offered, counters, ret, delivered>>

RecvParks(r) ==
  /\ Park(r, "recvPark", "recvWait") \/ Park(r, "pollPark", "pollWait")
  /\ notEmpty' = notEmpty \cup {r}
  /\ UNCHANGED notFull

PollTimedOut(r) ==
  /\ pc[r] = "pollWait"
  /\ GoTo(r, "pollExpired")
  /\ notEmpty' = notEmpty \ {r}
  /\ UNCHANGED <<buffer, owner, closed, strategy, notFull, offered, counters, ret, delivered>>

ReturnWithoutNotify(r) ==   \* mutant of NotifyNotFull: the freed slot is not announced
  /\ pc[r] = "notifyFull"
  /\ NotifyOneAndReturn(r, {}, "some")

NotifyNotFull(r) ==
  /\ pc[r] = "notifyFull"
  /\ NotifyOneAndReturn(r, notFull, "some")

-----------------------------------------------------------------------------
(* close: three steps, none of them under the mutex *)

CloseStore(s) ==
  /\ s \in Closers
  /\ pc[s] = "idle"
  /\ ~closed
  /\ closed' = TRUE
  /\ GoTo(s, "closeNotFull")
  /\ UNCHANGED <<buffer, owner, strategy, notFull, notEmpty, offered, counters, ret, delivered>>

CloseNotFull(s) ==
  /\ pc[s] = "closeNotFull"
  /\ pc' = [WakeAll(notFull) EXCEPT ![s] = "closeNotEmpty"]
  /\ notFull' = {}
  /\ UNCHANGED <<buffer, owner, closed, strategy, notEmpty, offered, counters, ret, delivered>>

CloseNotEmpty(s) ==
  /\ pc[s] = "closeNotEmpty"
  /\ pc' = [WakeAll(notEmpty) EXCEPT ![s] = "idle"]
  /\ notEmpty' = {}
  /\ UNCHANGED <<buffer, owner, closed, strategy, notFull, offered, counters, ret, delivered>>

-----------------------------------------------------------------------------

(* Condvar::wait may return without a notification. *)
SpuriousWakeUp(t) ==
  /\ t \in notFull \cup notEmpty
  /\ GoTo(t, Resume(pc[t]))
  /\ notFull' = notFull \ {t}
  /\ notEmpty' = notEmpty \ {t}
  /\ UNCHANGED <<buffer, owner, closed, strategy, offered, counters, ret, delivered>>

(* The steps of a call once it has begun. *)
SenderStep(s) ==
  \/ SendLocked(s) \/ SendMustWait(s) \/ SendParks(s) \/ SendAfterWait(s)
  \/ NotifyNotEmpty(s)
  \/ TimedLocked(s) \/ TimedMustWait(s) \/ TimedParks(s)
  \/ TimedOut(s) \/ TimedExpired(s)

ReceiverStep(r) ==
  \/ Pop(r) \/ RecvNone(r) \/ RecvMustWait(r) \/ RecvParks(r)
  \/ PollTimedOut(r) \/ NotifyNotFull(r)

Next ==
  \/ \E s \in Senders :
       \/ \E op \in SendOps : SendStart(s, op)
       \/ SenderStep(s)
       \/ CloseStore(s) \/ CloseNotFull(s) \/ CloseNotEmpty(s)
  \/ \E r \in Receivers :
       \/ \E op \in RecvOps : RecvStart(r, op)
       \/ ReceiverStep(r)
  \/ \E t \in Threads : SpuriousWakeUp(t)

Spec == Init /\ [][Next]_vars

(* Threads are scheduled, and a thread that keeps asking for the mutex gets *)
(* it in the end.  The deadline of a timed call passes in the end.          *)
(* Receivers call again as long as they have not been told that the stream *)
(* is over; the closing thread closes.                                     *)
Fairness ==
  /\ \A s \in Senders :
       /\ SF_vars(SenderStep(s))
       /\ SF_vars(TimedLocked(s))
       /\ WF_vars(CloseStore(s))
       /\ WF_vars(CloseNotFull(s))
       /\ WF_vars(CloseNotEmpty(s))
  /\ \A r \in Receivers :
       /\ SF_vars(ReceiverStep(r))
       /\ SF_vars(RecvNone(r))
       /\ WF_vars(\E op \in RecvOps : RecvStart(r, op))

FairSpec == Spec /\ Fairness

-----------------------------------------------------------------------------
(* Type invariant *)

Items == Senders \X (1 .. MaxItems)
SenderPoints == {"idle", "sendLock", "sendPark", "sendWait", "sendWoken",
                 "timedLock", "timedPark", "timedWait", "timedExpired",
                 "notifyEmpty", "closeNotFull", "closeNotEmpty"}
ReceiverPoints == {"idle", "recvLock", "recvPark", "recvWait", "pollLock",
                   "pollPark", "pollWait", "pollExpired", "tryLock",
                   "notifyFull", "done"}
Results == {"none", "some", "sent", "dropped", "closed", "timeout"}

(* Every variable has its type: in particular a sender is never in a       *)
(* receiving method and no item was offered that its sender did not begin. *)
TypeOK ==
  /\ strategy \in Strategies
  /\ buffer \in Seq(Items)
  /\ owner \in Threads \cup {NoThread}
  /\ closed \in BOOLEAN
  /\ notFull \subseteq Senders
  /\ notEmpty \subseteq Receivers
  /\ pc \in [Threads -> SenderPoints \cup ReceiverPoints]
  /\ \A s \in Senders : pc[s] \in SenderPoints
  /\ \A r \in Receivers : pc[r] \in ReceiverPoints
  /\ offered \in [Senders -> 0 .. MaxItems]
  /\ itemsSent \in Nat /\ itemsReceived \in Nat /\ itemsDropped \in Nat
  /\ maxBufferSize \in Nat
  /\ ret \in [Threads -> Results]
  /\ delivered \in Seq(Items)

-----------------------------------------------------------------------------
(* Safety *)

(* The largest buffer any strategy leaves; DropOldest with no capacity     *)
(* still keeps the newest item.                                            *)
Limit == IF strategy = "DropOldest" /\ Capacity = 0 THEN 1 ELSE SendLimit

(* The buffer never outgrows the bound of its strategy, although a woken   *)
(* sender competes for the slot with senders that never waited.            *)
WithinLimit == Len(buffer) <= Limit

Evictions == IF strategy = "DropOldest" THEN itemsDropped ELSE 0

(* The three counters of stats() account for every accepted item: it was   *)
(* received, evicted, or is in the buffer.  (With no capacity DropOldest   *)
(* counts a drop of an item that was never there.)                         *)
Conservation ==
  /\ itemsReceived = Len(delivered)
  /\ Capacity > 0 => itemsSent = itemsReceived + Evictions + Len(buffer)

(* Receivers see the items of one sender in the order it sent them, and no *)
(* item twice, whatever was dropped between them.                          *)
InOrder ==
  LET all == delivered \o buffer
  IN \A i, j \in 1 .. Len(all) :
       i < j /\ all[i][1] = all[j][1] => all[i][2] < all[j][2]

Parked(t) == pc[t] \in {"sendWait", "timedWait", "recvWait", "pollWait"}
Parking(t) == pc[t] \in {"sendPark", "timedPark", "recvPark", "pollPark"}

(* A thread that is about to park holds the mutex and what it waits for is *)
(* still missing; nobody else holds it.  Parked threads are exactly those  *)
(* a notification can reach.                                               *)
MutexDiscipline ==
  /\ \A t \in Threads : Parking(t) <=> owner = t
  /\ notFull = {s \in Senders : Parked(s)}
  /\ notEmpty = {r \in Receivers : Parked(r)}
  /\ \A t \in Threads :
       /\ pc[t] = "sendPark" => Full(SendLimit)
       /\ pc[t] = "timedPark" => Full(Capacity)
       /\ pc[t] \in {"recvPark", "pollPark"} => buffer = <<>>

(* No wake-up is lost between senders and receivers: while a receiver is   *)
(* parked and the buffer holds an item, somebody is about to notify or is  *)
(* on its way to the mutex to take it; likewise for a parked sender and a  *)
(* free slot.                                                              *)
WakeUpsReach ==
  /\ notEmpty # {} /\ buffer # <<>> =>
       \/ \E s \in Senders : pc[s] \in {"notifyEmpty", "closeNotFull", "closeNotEmpty"}
       \/ \E r \in Receivers : pc[r] \in {"recvLock", "pollLock", "pollExpired", "tryLock"}
  /\ (\E s \in notFull : ~Full(IF pc[s] = "sendWait" THEN SendLimit ELSE Capacity)) =>
       \/ \E s \in Senders : pc[s] \in {"closeNotFull", "sendLock", "sendWoken",
                                        "timedLock", "timedExpired"}
       \/ \E r \in Receivers : pc[r] = "notifyFull"

(* Under Buffer, where the two sending methods wait for different levels   *)
(* of one buffer, a notification may go to the waiter that has no use for  *)
(* it; under the other strategies none is lost.                            *)
NoLostWakeUp == strategy # "Buffer" => WakeUpsReach

(* An accepted item is not left behind: when every receiver has been told  *)
(* that the stream is over, the buffer is empty.                           *)
NothingStranded == (\A r \in Receivers : pc[r] = "done") => buffer = <<>>

-----------------------------------------------------------------------------
(* Liveness *)

(* A call of a sender returns: a blocked sender is not forgotten as long   *)
(* as the receivers go on receiving, although another sender may close the *)
(* channel meanwhile and the notification of close may miss it.            *)
SendReturns == \A s \in Senders : pc[s] # "idle" ~> pc[s] = "idle"

(* Every item that a closing thread sent leaves the buffer: it sent them   *)
(* before it closed, so no receiver is told of the end before them.  (What *)
(* another sender pushes may stay behind, see NothingStranded.)            *)
BufferDrains == []<>(\A i \in DOMAIN buffer : buffer[i][1] \notin Closers)

(* A receiver in recv or recv_timeout does not wait for ever on a closed   *)
(* channel ("returns None if the channel is closed and empty").            *)
RecvEndsAfterClose ==
  \A r \in Receivers : closed /\ pc[r] \notin {"idle", "done"}
                          ~> pc[r] \in {"idle", "done"}

-----------------------------------------------------------------------------
(* The channel is an atomic queue.  An item is in it from the push to the  *)
(* pop; a call is open from its first step to the step that decides what   *)
(* it returns.                                                             *)

Status(t) ==
  IF pc[t] \in {"idle", "closeNotFull", "closeNotEmpty"} THEN "idle"
  ELSE IF pc[t] = "notifyEmpty" THEN "sent"
  ELSE IF pc[t] = "notifyFull" THEN "some"
  ELSE IF pc[t] = "done" THEN "done"
  ELSE "open"

Fifo == INSTANCE FifoChannel WITH
  queue <- buffer,
  status <- [t \in Threads |-> Status(t)],
  policy <- [limit |-> Limit,
             full |-> CASE strategy = "DropOldest" -> "evict"
                        [] strategy = "DropNewest" -> "refuse"
                        [] OTHER -> "wait"],
  MayGiveUp <- "send_timeout" \in SendOps \/ RecvOps # {"recv"}

(* Whatever the interleaving of lock, wait, notification and time-out, the *)
(* clients see an atomic queue and results that say what happened.         *)
ImplementsFifo == Fifo!Spec
=============================================================================
