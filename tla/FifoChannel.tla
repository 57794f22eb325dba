---------------------------- MODULE FifoChannel ----------------------------
(***************************************************************************)
(* What the bounded channel of datasynth-core promises to its clients: an  *)
(* atomic first-in first-out queue.  Every call of a client takes effect   *)
(* at one instant between its call and its return, and the value it        *)
(* returns says what that effect was.  There are no locks, no condition    *)
(* variables and no wake-ups here.                                         *)
(***************************************************************************)
EXTENDS Naturals, Sequences

CONSTANTS
  Senders,      \* threads that call send or send_timeout (and close)
  Receivers,    \* threads that call recv, recv_timeout or try_recv
  MayGiveUp     \* calls that do not wait for ever are used

VARIABLES
  policy,       \* the largest number of queued items, and what a full queue does:
                \* "wait", "evict" its oldest item, or "refuse" the new one with
                \* Ok(false); chosen when the channel is created
  queue,        \* the items accepted and not yet taken, oldest first
  closed,       \* the channel has been closed
  offered,      \* offered[s]: how many items s has offered so far
  status,       \* "idle", "open": called, no effect yet; "sent", "some": effect done
  ret,          \* ret[t]: what the last call of t returned
  delivered     \* the items handed to receivers, in the order they were taken

vars == <<policy, queue, closed, offered, status, ret, delivered>>

Threads == Senders \cup Receivers

Init ==
  /\ policy \in [limit : Nat, full : {"wait", "evict", "refuse"}]
  /\ queue = <<>>
  /\ closed = FALSE
  /\ offered = [s \in Senders |-> 0]
  /\ status = [t \in Threads |-> "idle"]
  /\ ret = [t \in Threads |-> "none"]
  /\ delivered = <<>>

Item(s) == <<s, offered[s]>>

-----------------------------------------------------------------------------
(* A sender's call. *)

CallSend(s) ==
  /\ status[s] = "idle"
  /\ offered' = [offered EXCEPT ![s] = @ + 1]
  /\ status' = [status EXCEPT ![s] = "open"]
  /\ UNCHANGED <<policy, queue, closed, ret, delivered>>

(* A call on a closed channel fails at once. *)
SendOnClosed(s) ==
  /\ status[s] = "idle"
  /\ closed
  /\ offered' = [offered EXCEPT ![s] = @ + 1]
  /\ ret' = [ret EXCEPT ![s] = "closed"]
  /\ UNCHANGED <<policy, queue, closed, status, delivered>>

Accept(s) ==
  /\ status[s] = "open"
  /\ Len(queue) < policy.limit
  /\ queue' = Append(queue, Item(s))
  /\ status' = [status EXCEPT ![s] = "sent"]
  /\ UNCHANGED <<policy, closed, offered, ret, delivered>>

AcceptEvicting(s) ==
  /\ policy.full = "evict"
  /\ status[s] = "open"
  /\ queue # <<>>
  /\ queue' = Append(Tail(queue), Item(s))
  /\ status' = [status EXCEPT ![s] = "sent"]
  /\ UNCHANGED <<policy, closed, offered, ret, delivered>>

ReturnSent(s) ==
  /\ status[s] = "sent"
  /\ status' = [status EXCEPT ![s] = "idle"]
  /\ ret' = [ret EXCEPT ![s] = "sent"]
  /\ UNCHANGED <<policy, queue, closed, offered, delivered>>

(* The item is not accepted, and the value returned says why. *)
NotSent(s, why) ==
  /\ status[s] = "open"
  /\ \/ why = "closed" /\ closed
     \/ why = "dropped" /\ policy.full = "refuse"
     \/ why = "timeout" /\ MayGiveUp
  /\ status' = [status EXCEPT ![s] = "idle"]
  /\ ret' = [ret EXCEPT ![s] = why]
  /\ UNCHANGED <<policy, queue, closed, offered, delivered>>

-----------------------------------------------------------------------------
(* A receiver's call. *)

CallRecv(r) ==
  /\ status[r] = "idle"
  /\ status' = [status EXCEPT ![r] = "open"]
  /\ UNCHANGED <<policy, queue, closed, offered, ret, delivered>>

Take(r) ==
  /\ status[r] = "open"
  /\ queue # <<>>
  /\ queue' = Tail(queue)
  /\ delivered' = Append(delivered, Head(queue))
  /\ status' = [status EXCEPT ![r] = "some"]
  /\ UNCHANGED <<policy, closed, offered, ret>>

ReturnSome(r) ==
  /\ status[r] = "some"
  /\ status' = [status EXCEPT ![r] = "idle"]
  /\ ret' = [ret EXCEPT ![r] = "some"]
  /\ UNCHANGED <<policy, queue, closed, offered, delivered>>

(* None: the queue is empty, and closed unless the call may give up; a     *)
(* receiver that was told the stream is over does not call again.          *)
ReturnNone(r, after) ==
  /\ status[r] = "open"
  /\ queue = <<>>
  /\ \/ after = "done" /\ closed
     \/ after = "idle" /\ (closed \/ MayGiveUp)
  /\ status' = [status EXCEPT ![r] = after]
  /\ ret' = [ret EXCEPT ![r] = "none"]
  /\ UNCHANGED <<policy, queue, closed, offered, delivered>>

-----------------------------------------------------------------------------

Close ==
  /\ closed' = TRUE
  /\ UNCHANGED <<policy, queue, offered, status, ret, delivered>>

Next ==
  \/ \E s \in Senders :
       \/ CallSend(s) \/ SendOnClosed(s) \/ Accept(s) \/ AcceptEvicting(s)
       \/ ReturnSent(s)
       \/ \E why \in {"closed", "dropped", "timeout"} : NotSent(s, why)
  \/ \E r \in Receivers :
       \/ CallRecv(r) \/ Take(r) \/ ReturnSome(r)
       \/ \E after \in {"idle", "done"} : ReturnNone(r, after)
  \/ Close

Spec == Init /\ [][Next]_vars
=============================================================================
