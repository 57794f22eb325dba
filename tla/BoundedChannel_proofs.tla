----------------------- MODULE BoundedChannel_proofs -----------------------
(***************************************************************************)
(* Proofs about BoundedChannel, for any number of threads, any capacity,   *)
(* overflow and strategy, and any bound on the items.                      *)
(***************************************************************************)
EXTENDS BoundedChannel, FiniteSetTheorems, TLAPS

(***************************************************************************)
(* Type correctness.                                                       *)
(***************************************************************************)

(* pop_front of any buffer, empty or not, leaves a buffer. *)
LEMMA RestType ==
  ASSUME NEW S, NEW q \in Seq(S)
  PROVE  Rest(q) \in Seq(S)
BY DEF Rest

(* What a sender pushes is an item once it has offered one. *)
LEMMA ItemType ==
  ASSUME TypeOK, NEW s \in Senders, offered[s] > 0
  PROVE  Item(s) \in Items
BY SizesAssumption DEF TypeOK, Item, Items

(* A sender inside send or send_timeout has offered an item.  With TypeOK  *)
(* this is inductive.                                                      *)
Calling == \A s \in Senders :
             pc[s] \notin {"idle", "closeNotFull", "closeNotEmpty"} => offered[s] > 0

(* The wait sets contain parked threads only. *)
Waiting == /\ \A s \in notFull : pc[s] \in {"sendWait", "timedWait"}
           /\ \A r \in notEmpty : pc[r] \in {"recvWait", "pollWait"}

TypeInv == TypeOK /\ Calling /\ Waiting

LEMMA InitTypeInv == Init => TypeInv
<1> SUFFICES ASSUME Init PROVE TypeInv
  OBVIOUS
<1> USE DEF Init
<1>1. buffer \in Seq(Items) /\ delivered \in Seq(Items)
  OBVIOUS
<1>2. pc \in [Threads -> SenderPoints \cup ReceiverPoints]
  BY DEF SenderPoints
<1>3. /\ \A s \in Senders : pc[s] = "idle"
      /\ \A r \in Receivers : pc[r] = "idle"
  BY DEF Threads
<1>4. offered \in [Senders -> 0 .. MaxItems]
  BY SizesAssumption
<1>5. ret \in [Threads -> Results]
  BY DEF Results
<1>6. TypeOK
  BY <1>1, <1>2, <1>3, <1>4, <1>5 DEF TypeOK, SenderPoints, ReceiverPoints
<1>7. QED BY <1>3, <1>6 DEF TypeInv, Calling, Waiting

LEMMA SendStartTypeInv ==
  ASSUME TypeInv, NEW s \in Senders, NEW op \in SendOps, SendStart(s, op)
  PROVE  TypeInv'
<1> USE DEF TypeInv, TypeOK
<1>a. offered' \in [Senders -> 0 .. MaxItems]
  BY SizesAssumption DEF SendStart
<1>b. /\ pc' \in [Threads -> SenderPoints \cup ReceiverPoints]
      /\ pc'[s] \in SenderPoints
      /\ \A t \in Threads : t # s => pc'[t] = pc[t]
  BY DEF SendStart, Return, GoTo, SenderPoints, Threads
<1>c. ret' \in [Threads -> Results]
  BY DEF SendStart, Return, Results
<1>1. TypeOK'
  BY <1>a, <1>b, <1>c, ThreadsAssumption DEF SendStart, counters, Threads
<1>2. Calling'
  BY SizesAssumption, ThreadsAssumption
     DEF TypeInv, TypeOK, Calling, SendStart, Return, GoTo, Threads
<1>3. Waiting'
  BY ThreadsAssumption DEF TypeInv, TypeOK, Waiting, SendStart, Return, GoTo, Threads
<1>4. QED BY <1>1, <1>2, <1>3 DEF TypeInv

LEMMA PushTypeInv ==
  ASSUME TypeInv, NEW s \in Senders, NEW base \in Seq(Items), NEW b \in BOOLEAN,
         Push(s, base, b), pc[s] \in {"sendLock", "sendWoken", "timedLock", "timedExpired"},
         itemsDropped' \in Nat,
         UNCHANGED <<owner, closed, strategy, notFull, notEmpty, offered>>
  PROVE  TypeInv'
<1>1. Item(s) \in Items
  BY ItemType DEF TypeInv, Calling
<1>2. maxBufferSize' \in Nat
  BY DEF TypeInv, TypeOK, Push
<1>3. TypeOK'
  BY <1>1, <1>2, ThreadsAssumption
     DEF TypeInv, TypeOK, Push, GoTo, Threads, SenderPoints, ReceiverPoints
<1>4. Calling'
  BY ThreadsAssumption DEF TypeInv, TypeOK, Calling, Push, GoTo, Threads
<1>5. Waiting'
  BY ThreadsAssumption DEF TypeInv, TypeOK, Waiting, Push, GoTo, Threads
<1>6. QED BY <1>3, <1>4, <1>5 DEF TypeInv

(* Steps that move one thread and leave the buffer, the counters and the   *)
(* history alone: refusals, giving up, deciding to wait, parking, timing   *)
(* out.  What they may do to the wait sets keeps parked threads in them.   *)
LEMMA MoveTypeInv ==
  ASSUME TypeInv, NEW t \in Threads,
         NEW where \in SenderPoints \cup ReceiverPoints,
         pc' = [pc EXCEPT ![t] = where],
         t \in Senders => where \in SenderPoints
                          /\ (where \notin {"idle", "closeNotFull", "closeNotEmpty"}
                                => pc[t] \notin {"idle", "closeNotFull", "closeNotEmpty"}),
         t \in Receivers => where \in ReceiverPoints,
         owner' \in Threads \cup {NoThread},
         closed' \in BOOLEAN,
         \/ notFull' = notFull
         \/ notFull' = notFull \ {t}
         \/ notFull' = notFull \cup {t} /\ where \in {"sendWait", "timedWait"} /\ t \in Senders,
         \/ notEmpty' = notEmpty
         \/ notEmpty' = notEmpty \ {t}
         \/ notEmpty' = notEmpty \cup {t} /\ where \in {"recvWait", "pollWait"} /\ t \in Receivers,
         t \in notFull' => where \in {"sendWait", "timedWait"},
         t \in notEmpty' => where \in {"recvWait", "pollWait"},
         itemsDropped' \in Nat, itemsReceived' \in Nat, 
         buffer' \in Seq(Items), delivered' \in Seq(Items),
         ret' \in [Threads -> Results],
         UNCHANGED <<strategy, offered, itemsSent, maxBufferSize>>
  PROVE  TypeInv'
<1> USE DEF TypeInv, TypeOK
<1>1. /\ pc' \in [Threads -> SenderPoints \cup ReceiverPoints]
      /\ pc'[t] = where
      /\ \A u \in Threads : u # t => pc'[u] = pc[u]
  OBVIOUS
<1>2. notFull' \subseteq Senders /\ notEmpty' \subseteq Receivers
  OBVIOUS
<1>3. TypeOK'
  BY <1>1, <1>2 DEF Threads
<1>4. Calling'
  BY <1>1, ThreadsAssumption DEF Calling, Threads
<1>5. Waiting'
  <2>1. \A u \in notFull' : u \in Threads /\ (u = t \/ u \in notFull)
    BY <1>2 DEF Threads
  <2>2. \A u \in notEmpty' : u \in Threads /\ (u = t \/ u \in notEmpty)
    BY <1>2 DEF Threads
  <2>3. QED BY <1>1, <2>1, <2>2 DEF Waiting
<1>6. QED BY <1>3, <1>4, <1>5

(* A thread that is not parked is in no wait set. *)
LEMMA NotWaiting ==
  ASSUME TypeInv, NEW t \in Threads,
         pc[t] \notin {"sendWait", "timedWait", "recvWait", "pollWait"}
  PROVE  t \notin notFull /\ t \notin notEmpty
BY DEF TypeInv, Waiting

LEMMA DropTypeInv ==
  ASSUME TypeInv, NEW s \in Senders, NEW b \in BOOLEAN,
         DropOldest(s, b) \/ DropNewest(s) \/ (\E why \in {"closed", "timeout"} : SendFails(s, why)),
         pc[s] \in {"sendLock", "sendWoken", "timedLock", "timedExpired"},
         UNCHANGED <<owner, closed, strategy, notFull, notEmpty, offered>>
  PROVE  TypeInv'
<1> USE DEF TypeInv, TypeOK
<1>0. s \in Threads /\ s \notin notFull /\ s \notin notEmpty
  BY NotWaiting DEF Threads
<1>1. CASE DropOldest(s, b)
  <2>1. Rest(buffer) \in Seq(Items) /\ itemsDropped' \in Nat
    BY <1>1, RestType DEF DropOldest
  <2>2. QED BY <1>1, <2>1, PushTypeInv DEF DropOldest
<1>2. CASE DropNewest(s)
  <2>0. itemsDropped' \in Nat
    BY <1>2 DEF DropNewest
  <2>1. ret' \in [Threads -> Results]
    BY <1>2 DEF DropNewest, Return, Results
  <2>2. /\ "idle" \in SenderPoints \cup ReceiverPoints
        /\ pc' = [pc EXCEPT ![s] = "idle"]
    BY <1>2 DEF DropNewest, Return, GoTo, SenderPoints
  <2>3. s \in Receivers => "idle" \in ReceiverPoints
    BY DEF ReceiverPoints
  <2>4. QED BY <1>0, <1>2, <2>0, <2>1, <2>2, <2>3, MoveTypeInv DEF DropNewest, SenderPoints
<1>3. CASE \E why \in {"closed", "timeout"} : SendFails(s, why)
  <2>1. ret' \in [Threads -> Results]
    BY <1>3 DEF SendFails, Return, Results
  <2>2. /\ "idle" \in SenderPoints \cup ReceiverPoints
        /\ pc' = [pc EXCEPT ![s] = "idle"]
    BY <1>3 DEF SendFails, Return, GoTo, SenderPoints
  <2>3. s \in Receivers => "idle" \in ReceiverPoints
    BY DEF ReceiverPoints
  <2>4. QED BY <1>0, <1>3, <2>1, <2>2, <2>3, MoveTypeInv DEF SendFails, SenderPoints, counters
<1>4. QED BY <1>1, <1>2, <1>3

LEMMA SendLockedTypeInv ==
  ASSUME TypeInv, NEW s \in Senders, SendLocked(s)
  PROVE  TypeInv'
<1>1. /\ pc[s] \in {"sendLock", "sendWoken", "timedLock", "timedExpired"}
      /\ UNCHANGED <<owner, closed, strategy, notFull, notEmpty, offered>>
  BY DEF SendLocked, Lock
<1>2. CASE Push(s, buffer, TRUE) /\ UNCHANGED itemsDropped
  BY <1>1, <1>2, PushTypeInv DEF TypeInv, TypeOK
<1>3. CASE DropOldest(s, TRUE) \/ DropNewest(s)
  BY <1>1, <1>3, DropTypeInv
<1>4. QED BY <1>2, <1>3 DEF SendLocked

LEMMA SendAfterWaitTypeInv ==
  ASSUME TypeInv, NEW s \in Senders, SendAfterWait(s)
  PROVE  TypeInv'
<1>1. /\ pc[s] \in {"sendLock", "sendWoken", "timedLock", "timedExpired"}
      /\ UNCHANGED <<owner, closed, strategy, notFull, notEmpty, offered>>
  BY DEF SendAfterWait, Lock
<1>2. CASE Push(s, buffer, TRUE) /\ UNCHANGED itemsDropped
  BY <1>1, <1>2, PushTypeInv DEF TypeInv, TypeOK
<1>3. CASE SendFails(s, "closed")
  BY <1>1, <1>3, DropTypeInv
<1>4. QED BY <1>2, <1>3 DEF SendAfterWait

LEMMA TimedTypeInv ==
  ASSUME TypeInv, NEW s \in Senders, TimedLocked(s) \/ TimedExpired(s)
  PROVE  TypeInv'
<1>1. /\ pc[s] \in {"sendLock", "sendWoken", "timedLock", "timedExpired"}
      /\ UNCHANGED <<owner, closed, strategy, notFull, notEmpty, offered>>
  BY DEF TimedLocked, TimedExpired, Lock
<1>2. CASE Push(s, buffer, FALSE) /\ UNCHANGED itemsDropped
  BY <1>1, <1>2, PushTypeInv DEF TypeInv, TypeOK
<1>3. CASE SendFails(s, "closed") \/ TimedStrategy(s)
  BY <1>1, <1>3, DropTypeInv DEF TimedStrategy
<1>4. QED BY <1>2, <1>3 DEF TimedLocked, TimedExpired

(* The senders' steps that only move the sender. *)
LEMMA SenderMovesTypeInv ==
  ASSUME TypeInv, NEW s \in Senders,
         \/ SendMustWait(s) \/ SendParks(s) \/ TimedMustWait(s) \/ TimedParks(s)
         \/ TimedOut(s) \/ CloseStore(s)
  PROVE  TypeInv'
<1> USE DEF TypeInv, TypeOK
<1>0. s \in Threads
  BY DEF Threads
<1>1. PICK where \in {"sendPark", "sendWait", "timedPark", "timedWait", "timedExpired", "closeNotFull"} :
        /\ pc' = [pc EXCEPT ![s] = where]
        /\ where # "closeNotFull" => pc[s] \notin {"idle", "closeNotFull", "closeNotEmpty"}
        /\ \/ notFull' = notFull /\ s \notin notFull
           \/ notFull' = notFull \ {s}
           \/ notFull' = notFull \cup {s} /\ where \in {"sendWait", "timedWait"}
        /\ notEmpty' = notEmpty
        /\ owner' \in {owner, s, NoThread}
        /\ closed' \in BOOLEAN
        /\ UNCHANGED <<strategy, buffer, offered, counters, ret, delivered>>
  <2>1. CASE SendMustWait(s)
    BY <1>0, <2>1, NotWaiting DEF SendMustWait, GoTo, LockAndKeep
  <2>2. CASE SendParks(s)
    BY <2>2 DEF SendParks, Park, GoTo
  <2>3. CASE TimedMustWait(s)
    BY <1>0, <2>3, NotWaiting DEF TimedMustWait, GoTo, LockAndKeep
  <2>4. CASE TimedParks(s)
    BY <2>4 DEF TimedParks, Park, GoTo
  <2>5. CASE TimedOut(s)
    BY <2>5 DEF TimedOut, GoTo
  <2>6. CASE CloseStore(s)
    BY <1>0, <2>6, NotWaiting DEF CloseStore, GoTo
  <2>7. QED BY <2>1, <2>2, <2>3, <2>4, <2>5, <2>6
<1>2. s \notin notEmpty /\ s \notin Receivers
  BY ThreadsAssumption
<1>3. where \in SenderPoints
  BY DEF SenderPoints
<1>4. QED BY <1>0, <1>1, <1>2, <1>3, MoveTypeInv DEF counters

LEMMA ReceiverMovesTypeInv ==
  ASSUME TypeInv, NEW r \in Receivers,
         \/ \E op \in {"recv", "recv_timeout", "try_recv"} : RecvStart(r, op)
         \/ Pop(r) \/ RecvNone(r) \/ RecvMustWait(r) \/ RecvParks(r) \/ PollTimedOut(r)
  PROVE  TypeInv'
<1> USE DEF TypeInv, TypeOK
<1>0. r \in Threads /\ r \notin Senders /\ r \notin notFull
  BY ThreadsAssumption DEF Threads
<1>1. PICK where \in {"recvLock", "pollLock", "tryLock", "notifyFull", "done", "idle",
                     "recvPark", "pollPark", "recvWait", "pollWait", "pollExpired"} :
        /\ pc' = [pc EXCEPT ![r] = where]
        /\ \/ notEmpty' = notEmpty /\ r \notin notEmpty
           \/ notEmpty' = notEmpty \ {r}
           \/ notEmpty' = notEmpty \cup {r} /\ where \in {"recvWait", "pollWait"}
        /\ notFull' = notFull
        /\ owner' \in {owner, r, NoThread}
        /\ UNCHANGED <<closed, strategy, offered, itemsSent, itemsDropped, maxBufferSize>>
  <2>1. CASE \E op \in {"recv", "recv_timeout", "try_recv"} : RecvStart(r, op)
    BY <1>0, <2>1, NotWaiting DEF RecvStart, GoTo, counters
  <2>2. CASE Pop(r)
    BY <1>0, <2>2, NotWaiting DEF Pop, GoTo, Lock
  <2>3. CASE RecvNone(r)
    BY <1>0, <2>3, NotWaiting DEF RecvNone, GoTo, Lock, counters
  <2>4. CASE RecvMustWait(r)
    BY <1>0, <2>4, NotWaiting DEF RecvMustWait, GoTo, LockAndKeep, counters
  <2>5. CASE RecvParks(r)
    BY <2>5 DEF RecvParks, Park, GoTo, counters
  <2>6. CASE PollTimedOut(r)
    BY <2>6 DEF PollTimedOut, GoTo, counters
  <2>7. QED BY <2>1, <2>2, <2>3, <2>4, <2>5, <2>6
<1>2. buffer' \in Seq(Items) /\ delivered' \in Seq(Items) /\ itemsReceived' \in Nat
  <2>1. CASE Pop(r)
    BY <2>1 DEF Pop
  <2>2. CASE UNCHANGED <<buffer, delivered, itemsReceived>>
    BY <2>2
  <2>3. QED
    BY <2>1, <2>2 DEF RecvStart, RecvNone, RecvMustWait, RecvParks, Park, PollTimedOut, counters
<1>3. ret' \in [Threads -> Results]
  <2>1. CASE RecvNone(r)
    BY <2>1 DEF RecvNone, Results
  <2>2. CASE UNCHANGED ret
    BY <2>2
  <2>3. QED
    BY <2>1, <2>2 DEF RecvStart, Pop, RecvMustWait, RecvParks, Park, PollTimedOut
<1>4. where \in ReceiverPoints
  BY DEF ReceiverPoints
<1>5. QED BY <1>0, <1>1, <1>2, <1>3, <1>4, MoveTypeInv

(* Where a parked thread resumes is in the method it was parked in. *)
LEMMA ResumeType ==
  /\ Resume("sendWait") = "sendWoken"
  /\ Resume("timedWait") = "timedLock"
  /\ Resume("recvWait") = "recvLock"
  /\ Resume("pollWait") = "pollLock"
BY DEF Resume

(* Notifications wake threads of one kind; the thread that notifies moves. *)
LEMMA WakeTypeInv ==
  ASSUME TypeInv, NEW S, S \subseteq notFull \cup notEmpty,
         NEW t \in Threads, t \notin S, pc[t] \notin {"sendWait", "timedWait", "recvWait", "pollWait"},
         NEW where \in {pc[t], "idle", "closeNotEmpty"},
         t \in Receivers => where \in ReceiverPoints,
         \A u \in Threads \ (S \cup {t}) : pc'[u] = pc[u],
         \A u \in S : pc'[u] = Resume(pc[u]),
         pc'[t] = where,
         DOMAIN pc' = Threads, pc' = [u \in Threads |-> pc'[u]],
         notFull' = notFull \ S, notEmpty' = notEmpty \ S,
         ret' \in [Threads -> Results],
         UNCHANGED <<buffer, owner, closed, strategy, offered, counters, delivered>>
  PROVE  TypeInv'
<1> USE DEF TypeInv, TypeOK
<1>1. \A u \in S \cap notFull :
         pc'[u] \in {"sendWoken", "timedLock"} /\ u \in Senders /\ pc[u] \in {"sendWait", "timedWait"}
  BY ResumeType DEF Waiting
<1>2. \A u \in S \cap notEmpty :
         pc'[u] \in {"recvLock", "pollLock"} /\ u \in Receivers
  BY ResumeType DEF Waiting
<1>3. \A u \in S : u \in Threads
  BY DEF Threads
<1>4. \A u \in Senders : pc'[u] \in SenderPoints
  BY <1>1, <1>2, ThreadsAssumption DEF SenderPoints, Threads
<1>5. \A u \in Receivers : pc'[u] \in ReceiverPoints
  BY <1>1, <1>2, ThreadsAssumption DEF ReceiverPoints, Threads
<1>6. pc' \in [Threads -> SenderPoints \cup ReceiverPoints]
  BY <1>4, <1>5 DEF Threads
<1>7. TypeOK'
  BY <1>4, <1>5, <1>6 DEF counters
<1>8. Calling'
  BY <1>1, <1>2, ThreadsAssumption DEF Calling, Threads
<1>9. Waiting'
  BY <1>3 DEF Waiting, Threads
<1>10. QED BY <1>7, <1>8, <1>9

LEMMA NotifyTypeInv ==
  ASSUME TypeInv, NEW t \in Threads, NEW W, NEW value \in Results,
         W \in {notFull, notEmpty},
         pc[t] \in {"notifyEmpty", "notifyFull"},
         NotifyOneAndReturn(t, W, value)
  PROVE  TypeInv'
<1>1. ret' \in [Threads -> Results]
  BY DEF NotifyOneAndReturn, TypeInv, TypeOK
<1>2. t \in Receivers => "idle" \in ReceiverPoints
  BY DEF ReceiverPoints
<1>3. CASE W = {} /\ GoTo(t, "idle") /\ UNCHANGED <<notFull, notEmpty>>
  <2>1. /\ pc'[t] = "idle" /\ \A u \in Threads \ {t} : pc'[u] = pc[u]
        /\ DOMAIN pc' = Threads /\ pc' = [u \in Threads |-> pc'[u]]
    BY <1>3 DEF GoTo, TypeInv, TypeOK
  <2>2. UNCHANGED <<buffer, owner, closed, strategy, offered, counters, delivered>>
    BY DEF NotifyOneAndReturn
  <2>3. PICK none : none = {}
    OBVIOUS
  <2>4. /\ none \subseteq notFull \cup notEmpty /\ t \notin none
        /\ notFull' = notFull \ none /\ notEmpty' = notEmpty \ none
        /\ \A u \in Threads \ (none \cup {t}) : pc'[u] = pc[u]
        /\ \A u \in none : pc'[u] = Resume(pc[u])
        /\ pc[t] \notin {"sendWait", "timedWait", "recvWait", "pollWait"}
    BY <1>3, <2>1, <2>3
  <2>5. QED BY <1>1, <1>2, <2>1, <2>2, <2>4, WakeTypeInv
<1>4. ASSUME NEW w \in W,
             pc' = [pc EXCEPT ![t] = "idle", ![w] = Resume(pc[w])],
             notFull' = notFull \ {w}, notEmpty' = notEmpty \ {w}
      PROVE  TypeInv'
  <2>1. w # t /\ w \in Threads
    BY NotWaiting DEF Threads, TypeInv, TypeOK
  <2>2. /\ pc'[w] = Resume(pc[w]) /\ pc'[t] = "idle"
        /\ \A u \in Threads \ ({w} \cup {t}) : pc'[u] = pc[u]
        /\ DOMAIN pc' = Threads /\ pc' = [u \in Threads |-> pc'[u]]
    BY <1>4, <2>1 DEF TypeInv, TypeOK
  <2>3. UNCHANGED <<buffer, owner, closed, strategy, offered, counters, delivered>>
    BY DEF NotifyOneAndReturn
  <2>4. /\ {w} \subseteq notFull \cup notEmpty /\ t \notin {w}
        /\ \A u \in {w} : pc'[u] = Resume(pc[u])
        /\ pc[t] \notin {"sendWait", "timedWait", "recvWait", "pollWait"}
    BY <2>1, <2>2
  <2>5. QED
    BY <1>1, <1>2, <1>4, <2>1, <2>2, <2>3, <2>4, WakeTypeInv
<1>5. QED BY <1>3, <1>4 DEF NotifyOneAndReturn

LEMMA CloseTypeInv ==
  ASSUME TypeInv, NEW s \in Senders, CloseNotFull(s) \/ CloseNotEmpty(s)
  PROVE  TypeInv'
<1> USE DEF TypeInv, TypeOK
<1>0. s \in Threads /\ s \notin Receivers /\ s \notin notFull /\ s \notin notEmpty
  BY ThreadsAssumption, NotWaiting DEF Threads, CloseNotFull, CloseNotEmpty
<1>d. notFull \subseteq Threads /\ notEmpty \subseteq Threads /\ notFull \cap notEmpty = {}
  BY ThreadsAssumption DEF Threads
<1>1. CASE CloseNotFull(s)
  <2>1. /\ pc'[s] = "closeNotEmpty"
        /\ \A u \in notFull : pc'[u] = Resume(pc[u])
        /\ \A u \in Threads \ (notFull \cup {s}) : pc'[u] = pc[u]
        /\ DOMAIN pc' = Threads /\ pc' = [u \in Threads |-> pc'[u]]
    BY <1>0, <1>1, <1>d DEF CloseNotFull, WakeAll
  <2>2. notFull' = notFull \ notFull /\ notEmpty' = notEmpty \ notFull
    BY <1>1, <1>d DEF CloseNotFull
  <2>3. /\ UNCHANGED <<buffer, owner, closed, strategy, offered, counters, delivered>>
        /\ ret' \in [Threads -> Results]
        /\ pc[s] = "closeNotFull"
    BY <1>1 DEF CloseNotFull
  <2>4. QED BY <1>0, <2>1, <2>2, <2>3, WakeTypeInv
<1>2. CASE CloseNotEmpty(s)
  <2>1. /\ pc'[s] = "idle"
        /\ \A u \in notEmpty : pc'[u] = Resume(pc[u])
        /\ \A u \in Threads \ (notEmpty \cup {s}) : pc'[u] = pc[u]
        /\ DOMAIN pc' = Threads /\ pc' = [u \in Threads |-> pc'[u]]
    BY <1>0, <1>2, <1>d DEF CloseNotEmpty, WakeAll
  <2>2. notFull' = notFull \ notEmpty /\ notEmpty' = notEmpty \ notEmpty
    BY <1>2, <1>d DEF CloseNotEmpty
  <2>3. /\ UNCHANGED <<buffer, owner, closed, strategy, offered, counters, delivered>>
        /\ ret' \in [Threads -> Results]
        /\ pc[s] = "closeNotEmpty"
    BY <1>2 DEF CloseNotEmpty
  <2>4. QED BY <1>0, <2>1, <2>2, <2>3, WakeTypeInv
<1>3. QED BY <1>1, <1>2

LEMMA SpuriousTypeInv ==
  ASSUME TypeInv, NEW t \in Threads, SpuriousWakeUp(t)
  PROVE  TypeInv'
<1> USE DEF TypeInv, TypeOK
<1>1. PICK where : where = Resume(pc[t])
  OBVIOUS
<1>2. CASE t \in notFull
  <2>1. where \in {"sendWoken", "timedLock"} /\ t \in Senders /\ t \notin Receivers /\ t \notin notEmpty
    BY <1>1, <1>2, ResumeType, ThreadsAssumption DEF Waiting
  <2>2. where \in SenderPoints /\ pc[t] \in {"sendWait", "timedWait"}
    BY <1>2, <2>1 DEF SenderPoints, Waiting
  <2>3. QED BY <1>1, <2>1, <2>2, MoveTypeInv DEF SpuriousWakeUp, GoTo, counters
<1>3. CASE t \in notEmpty
  <2>1. where \in {"recvLock", "pollLock"} /\ t \in Receivers /\ t \notin Senders /\ t \notin notFull
    BY <1>1, <1>3, ResumeType, ThreadsAssumption DEF Waiting
  <2>2. where \in ReceiverPoints
    BY <2>1 DEF ReceiverPoints
  <2>3. QED BY <1>1, <2>1, <2>2, MoveTypeInv DEF SpuriousWakeUp, GoTo, counters
<1>4. QED BY <1>2, <1>3 DEF SpuriousWakeUp

LEMMA NextTypeInv == TypeInv /\ [Next]_vars => TypeInv'
<1> SUFFICES ASSUME TypeInv, [Next]_vars PROVE TypeInv'
  OBVIOUS
<1>1. ASSUME NEW s \in Senders, \E op \in SendOps : SendStart(s, op)
      PROVE  TypeInv'
  BY <1>1, SendStartTypeInv
<1>2. ASSUME NEW s \in Senders, SenderStep(s)
      PROVE  TypeInv'
  <2>1. CASE NotifyNotEmpty(s)
    BY <2>1, NotifyTypeInv DEF NotifyNotEmpty, Threads, Results
  <2>2. QED
    BY <1>2, <2>1, SendLockedTypeInv, SendAfterWaitTypeInv, TimedTypeInv, SenderMovesTypeInv
       DEF SenderStep
<1>3. ASSUME NEW s \in Senders, CloseStore(s) \/ CloseNotFull(s) \/ CloseNotEmpty(s)
      PROVE  TypeInv'
  BY <1>3, SenderMovesTypeInv, CloseTypeInv
<1>4. ASSUME NEW r \in Receivers, NEW op \in RecvOps, RecvStart(r, op)
      PROVE  TypeInv'
  BY <1>4, OpsAssumption, ReceiverMovesTypeInv
<1>5. ASSUME NEW r \in Receivers, ReceiverStep(r)
      PROVE  TypeInv'
  <2>1. CASE NotifyNotFull(r)
    BY <2>1, NotifyTypeInv DEF NotifyNotFull, Threads, Results
  <2>2. QED
    BY <1>5, <2>1, ReceiverMovesTypeInv DEF ReceiverStep
<1>6. CASE UNCHANGED vars
  BY <1>6 DEF vars, counters, TypeInv, TypeOK, Calling, Waiting
<1>7. QED
  BY <1>1, <1>2, <1>3, <1>4, <1>5, <1>6, SpuriousTypeInv DEF Next

(* Every variable keeps its type, for any instance of the channel. *)
THEOREM TypeCorrect == Spec => []TypeOK
<1>1. Spec => []TypeInv
  BY InitTypeInv, NextTypeInv, PTL DEF Spec
<1>2. TypeInv => TypeOK
  BY DEF TypeInv
<1>3. QED BY <1>1, <1>2, PTL

(***************************************************************************)
(* What a step can do to the buffer and to the counters.                   *)
(***************************************************************************)

counts == <<itemsSent, itemsReceived, itemsDropped>>

Pushes(s) ==
  /\ Len(buffer) < SendLimit
  /\ buffer' = Append(buffer, Item(s))
  /\ itemsSent' = itemsSent + 1
  /\ UNCHANGED <<itemsReceived, itemsDropped, delivered>>

Evicts(s) ==
  /\ strategy = "DropOldest"
  /\ Len(buffer) >= Capacity
  /\ buffer' = Append(Rest(buffer), Item(s))
  /\ itemsSent' = itemsSent + 1
  /\ itemsDropped' = itemsDropped + 1
  /\ UNCHANGED <<itemsReceived, delivered>>

Refuses ==
  /\ strategy = "DropNewest"
  /\ itemsDropped' = itemsDropped + 1
  /\ UNCHANGED <<buffer, itemsSent, itemsReceived, delivered>>

Takes ==
  /\ buffer # <<>>
  /\ buffer' = Tail(buffer)
  /\ delivered' = Append(delivered, Head(buffer))
  /\ itemsReceived' = itemsReceived + 1
  /\ UNCHANGED <<itemsSent, itemsDropped>>

Idles == UNCHANGED <<buffer, counts, delivered>>

(* A step pushes under the bound of its strategy, evicts, refuses, pops,   *)
(* or leaves buffer and counters alone.                                    *)
LEMMA BufferSteps ==
  ASSUME TypeOK, [Next]_vars
  PROVE  Idles \/ Refuses \/ Takes \/ (\E s \in Senders : Pushes(s) \/ Evicts(s))
<1> USE SizesAssumption DEF TypeOK
<1>0. Len(buffer) \in Nat /\ SendLimit \in Nat /\ Capacity <= SendLimit
  BY DEF SendLimit
<1>1. ASSUME NEW s \in Senders, SenderStep(s)
      PROVE  Idles \/ Refuses \/ Pushes(s) \/ Evicts(s)
  <2>1. CASE \/ SendMustWait(s) \/ SendParks(s) \/ NotifyNotEmpty(s) \/ TimedMustWait(s)
             \/ TimedParks(s) \/ TimedOut(s)
    BY <2>1 DEF Idles, counts, counters, SendMustWait, SendParks, NotifyNotEmpty, TimedMustWait,
                TimedParks, TimedOut, Park, NotifyOneAndReturn
  <2>2. ASSUME NEW b \in BOOLEAN, DropOldest(s, b), Full(Capacity)
        PROVE  Evicts(s)
    BY <1>0, <2>2 DEF DropOldest, Push, Evicts, Full
  <2>3. ASSUME NEW b \in BOOLEAN, Push(s, buffer, b), UNCHANGED itemsDropped, ~Full(SendLimit)
        PROVE  Pushes(s)
    BY <1>0, <2>3 DEF Push, Pushes, Full
  <2>4. DropNewest(s) => Refuses
    BY DEF DropNewest, Refuses
  <2>5. ASSUME NEW why, SendFails(s, why)
        PROVE  Idles
    BY <2>5 DEF SendFails, Idles, counts, counters
  <2>6. ~Full(Capacity) => ~Full(SendLimit)
    BY <1>0 DEF Full
  <2>7. CASE SendLocked(s)
    <3>1. DropOldest(s, TRUE) /\ Full(SendLimit) => Full(Capacity)
      BY <1>0 DEF DropOldest, SendLimit, Full
    <3>2. QED BY <2>2, <2>3, <2>4, <2>7, <3>1 DEF SendLocked
  <2>8. CASE SendAfterWait(s)
    BY <2>3, <2>5, <2>8 DEF SendAfterWait
  <2>9. CASE TimedLocked(s) \/ TimedExpired(s)
    BY <2>2, <2>3, <2>4, <2>5, <2>6, <2>9 DEF TimedLocked, TimedExpired, TimedStrategy
  <2>10. QED BY <1>1, <2>1, <2>7, <2>8, <2>9 DEF SenderStep
<1>2. ASSUME NEW s \in Senders,
             (\E op \in SendOps : SendStart(s, op)) \/ CloseStore(s) \/ CloseNotFull(s) \/ CloseNotEmpty(s)
      PROVE  Idles
  BY <1>2 DEF Idles, counts, counters, SendStart, CloseStore, CloseNotFull, CloseNotEmpty
<1>3. ASSUME NEW r \in Receivers, (\E op \in RecvOps : RecvStart(r, op)) \/ ReceiverStep(r)
      PROVE  Idles \/ Takes
  BY <1>3 DEF Idles, counts, counters, Takes, RecvStart, ReceiverStep, Pop, RecvNone, RecvMustWait,
              RecvParks, Park, PollTimedOut, NotifyNotFull, NotifyOneAndReturn
<1>4. ASSUME NEW t \in Threads, SpuriousWakeUp(t)
      PROVE  Idles
  BY <1>4 DEF Idles, counts, counters, SpuriousWakeUp
<1>5. UNCHANGED vars => Idles
  BY DEF vars, counters, Idles, counts
<1>6. QED BY <1>1, <1>2, <1>3, <1>4, <1>5 DEF Next

(* A channel keeps the strategy it was created with. *)
LEMMA StrategyFixed ==
  ASSUME [Next]_vars
  PROVE  strategy' = strategy
<1>1. ASSUME NEW s \in Senders, NEW op \in SendOps, SendStart(s, op)
      PROVE  strategy' = strategy
  BY <1>1 DEF SendStart
<1>2. ASSUME NEW s \in Senders, SenderStep(s)
      PROVE  strategy' = strategy
  BY <1>2 DEF SenderStep, SendLocked, SendMustWait, SendParks, SendAfterWait, NotifyNotEmpty,
              TimedLocked, TimedMustWait, TimedParks, TimedOut, TimedExpired, Park,
              NotifyOneAndReturn
<1>3. ASSUME NEW s \in Senders, CloseStore(s) \/ CloseNotFull(s) \/ CloseNotEmpty(s)
      PROVE  strategy' = strategy
  BY <1>3 DEF CloseStore, CloseNotFull, CloseNotEmpty
<1>4. ASSUME NEW r \in Receivers, (\E op \in RecvOps : RecvStart(r, op)) \/ ReceiverStep(r)
      PROVE  strategy' = strategy
  BY <1>4 DEF RecvStart, ReceiverStep, Pop, RecvNone, RecvMustWait, RecvParks, PollTimedOut,
              NotifyNotFull, Park, NotifyOneAndReturn
<1>5. ASSUME NEW t \in Threads, SpuriousWakeUp(t)
      PROVE  strategy' = strategy
  BY <1>5 DEF SpuriousWakeUp
<1>6. UNCHANGED vars => strategy' = strategy
  BY DEF vars
<1>7. QED BY <1>1, <1>2, <1>3, <1>4, <1>5, <1>6 DEF Next

(***************************************************************************)
(* The bound of the buffer and the accounting of the items.                *)
(***************************************************************************)

LEMMA RestLen ==
  ASSUME NEW S, NEW q \in Seq(S)
  PROVE  /\ Len(Rest(q)) \in Nat
         /\ q # <<>> => Len(Rest(q)) = Len(q) - 1
         /\ q = <<>> => Len(Rest(q)) = 0
BY DEF Rest

LEMMA WithinLimitStep ==
  ASSUME TypeInv, WithinLimit, [Next]_vars
  PROVE  WithinLimit'
<1> USE SizesAssumption, StrategyFixed DEF TypeInv, TypeOK
<1>0. /\ Len(buffer) \in Nat /\ SendLimit \in Nat /\ Limit \in Nat
      /\ SendLimit <= Limit /\ Capacity <= Limit
      /\ strategy = "DropOldest" => Limit > 0
  BY DEF Limit, SendLimit
<1>1. CASE Idles \/ Refuses
  BY <1>1 DEF Idles, Refuses, WithinLimit, Limit, SendLimit
<1>2. CASE Takes
  BY <1>0, <1>2 DEF Takes, WithinLimit, Limit, SendLimit
<1>3. ASSUME NEW s \in Senders, Pushes(s)
      PROVE  WithinLimit'
  BY <1>0, <1>3 DEF Pushes, WithinLimit, Limit, SendLimit
<1>4. ASSUME NEW s \in Senders, Evicts(s)
      PROVE  WithinLimit'
  <2>1. Len(buffer') = Len(Rest(buffer)) + 1
    BY <1>4, RestType DEF Evicts
  <2>2. Len(buffer') <= Limit
    BY <1>0, <1>4, <2>1, RestLen DEF Evicts, WithinLimit
  <2>3. QED BY <2>2 DEF WithinLimit, Limit, SendLimit
<1>5. QED BY <1>1, <1>2, <1>3, <1>4, BufferSteps

LEMMA ConservationStep ==
  ASSUME TypeInv, Conservation, [Next]_vars
  PROVE  Conservation'
<1>0. /\ Len(buffer) \in Nat /\ Len(delivered) \in Nat /\ Capacity \in Nat
      /\ itemsSent \in Nat /\ itemsReceived \in Nat /\ itemsDropped \in Nat
      /\ strategy' = strategy
  BY SizesAssumption, StrategyFixed DEF TypeInv, TypeOK
<1>1. CASE Idles
  BY <1>0, <1>1 DEF Idles, counts, Conservation, Evictions
<1>2. CASE Refuses
  BY <1>0, <1>2 DEF Refuses, Conservation, Evictions
<1>3. CASE Takes
  <2>1. Len(buffer') = Len(buffer) - 1 /\ Len(delivered') = Len(delivered) + 1
    BY <1>3 DEF Takes, TypeInv, TypeOK
  <2>2. Evictions' = Evictions /\ Evictions \in Nat
    BY <1>0, <1>3 DEF Takes, Evictions
  <2>3. /\ itemsReceived' = itemsReceived + 1 /\ itemsSent' = itemsSent
    BY <1>3 DEF Takes
  <2>4. QED BY <1>0, <2>1, <2>2, <2>3 DEF Conservation
<1>4. ASSUME NEW s \in Senders, Pushes(s)
      PROVE  Conservation'
  <2>1. Len(buffer') = Len(buffer) + 1
    BY <1>4 DEF Pushes, TypeInv, TypeOK
  <2>2. Evictions' = Evictions /\ Evictions \in Nat
    BY <1>0, <1>4 DEF Pushes, Evictions
  <2>3. /\ itemsSent' = itemsSent + 1
        /\ itemsReceived' = itemsReceived /\ delivered' = delivered
    BY <1>4 DEF Pushes
  <2>4. QED BY <1>0, <2>1, <2>2, <2>3 DEF Conservation
<1>5. ASSUME NEW s \in Senders, Evicts(s)
      PROVE  Conservation'
  <2>1. Len(buffer') = Len(Rest(buffer)) + 1
    BY <1>5, RestType DEF Evicts, TypeInv, TypeOK
  <2>2. Capacity > 0 => Len(buffer') = Len(buffer)
    BY <1>0, <1>5, <2>1, RestLen DEF Evicts, TypeInv, TypeOK
  <2>3. Evictions' = Evictions + 1 /\ Evictions \in Nat
    BY <1>0, <1>5 DEF Evicts, Evictions
  <2>4. /\ itemsSent' = itemsSent + 1
        /\ itemsReceived' = itemsReceived /\ delivered' = delivered
    BY <1>5 DEF Evicts
  <2>5. QED BY <1>0, <2>2, <2>3, <2>4 DEF Conservation
<1>6. QED BY <1>1, <1>2, <1>3, <1>4, <1>5, BufferSteps DEF TypeInv

(* The buffer never outgrows the bound of its strategy.                    *)
THEOREM BufferBounded == Spec => []WithinLimit
<1>1. Init => TypeInv /\ WithinLimit
  BY InitTypeInv, SizesAssumption DEF Init, WithinLimit, Limit, SendLimit
<1>2. TypeInv /\ WithinLimit /\ [Next]_vars => (TypeInv /\ WithinLimit)'
  BY NextTypeInv, WithinLimitStep
<1>3. QED BY <1>1, <1>2, PTL DEF Spec

(* The counters account for every accepted item.                           *)
THEOREM ItemsConserved == Spec => []Conservation
<1>1. Init => TypeInv /\ Conservation
  BY InitTypeInv DEF Init, Conservation, Evictions
<1>2. TypeInv /\ Conservation /\ [Next]_vars => (TypeInv /\ Conservation)'
  BY NextTypeInv, ConservationStep
<1>3. QED BY <1>1, <1>2, PTL DEF Spec

(***************************************************************************)
(* The mutex.                                                              *)
(***************************************************************************)

ParkingPoints == {"sendPark", "timedPark", "recvPark", "pollPark"}
ParkedPoints == {"sendWait", "timedWait", "recvWait", "pollWait"}

(* A step that moves one thread between points where it neither parks nor  *)
(* waits, and touches the buffer under the mutex only.                     *)
LEMMA OrdinaryMove ==
  ASSUME TypeInv, MutexDiscipline, NEW t \in Threads, NEW where,
         pc' = [pc EXCEPT ![t] = where],
         pc[t] \notin ParkingPoints, where \notin ParkingPoints \cup ParkedPoints,
         notFull' = notFull \ {t}, notEmpty' = notEmpty \ {t},
         buffer' = buffer \/ owner = NoThread,
         UNCHANGED <<owner, strategy>>
  PROVE  MutexDiscipline'
<1>1. /\ pc'[t] = where
      /\ \A u \in Threads : u # t => pc'[u] = pc[u]
  BY DEF TypeInv, TypeOK
<1>2. Senders \subseteq Threads /\ Receivers \subseteq Threads
  BY DEF Threads
<1>3. \A u \in Threads : Parking(u)' <=> Parking(u)
  BY <1>1 DEF Parking, ParkingPoints
<1>4. \A u \in Threads : Parking(u)' <=> owner' = u
  BY <1>3 DEF MutexDiscipline
<1>5. notFull' = {s \in Senders : Parked(s)'}
  BY <1>1, <1>2 DEF MutexDiscipline, Parked, ParkedPoints
<1>6. notEmpty' = {r \in Receivers : Parked(r)'}
  BY <1>1, <1>2 DEF MutexDiscipline, Parked, ParkedPoints
<1>7. \A u \in Threads :
        /\ pc'[u] = "sendPark" => Full(SendLimit)'
        /\ pc'[u] = "timedPark" => Full(Capacity)'
        /\ pc'[u] \in {"recvPark", "pollPark"} => buffer' = <<>>
  <2> SUFFICES ASSUME NEW u \in Threads, pc'[u] \in ParkingPoints
               PROVE  /\ pc'[u] = "sendPark" => Full(SendLimit)'
                      /\ pc'[u] = "timedPark" => Full(Capacity)'
                      /\ pc'[u] \in {"recvPark", "pollPark"} => buffer' = <<>>
    BY DEF ParkingPoints
  <2>1. u # t /\ pc'[u] = pc[u]
    BY <1>1
  <2>2. owner = u
    BY <2>1 DEF MutexDiscipline, Parking, ParkingPoints
  <2>3. buffer' = buffer
    BY <2>2, ThreadsAssumption
  <2>4. /\ pc[u] = "sendPark" => Full(SendLimit)
        /\ pc[u] = "timedPark" => Full(Capacity)
        /\ pc[u] \in {"recvPark", "pollPark"} => buffer = <<>>
    BY DEF MutexDiscipline
  <2>5. (Full(SendLimit)' <=> Full(SendLimit)) /\ (Full(Capacity)' <=> Full(Capacity))
    BY <2>3 DEF Full, SendLimit
  <2> QED
    BY <2>1, <2>3, <2>4, <2>5
<1> QED
  BY <1>4, <1>5, <1>6, <1>7 DEF MutexDiscipline

(* A thread that is not parked is in no wait set, so that taking it out    *)
(* changes nothing.                                                        *)
LEMMA NotParked ==
  ASSUME TypeInv, NEW t \in Threads, pc[t] \notin ParkedPoints
  PROVE  notFull \ {t} = notFull /\ notEmpty \ {t} = notEmpty
BY NotWaiting DEF ParkedPoints

(* A thread decides to wait: it takes the mutex and keeps it.              *)
LEMMA MustWaitDiscipline ==
  ASSUME TypeInv, MutexDiscipline, NEW t \in Threads,
         \/ t \in Senders /\ (SendMustWait(t) \/ TimedMustWait(t))
         \/ t \in Receivers /\ RecvMustWait(t)
  PROVE  MutexDiscipline'
<1>1. PICK where \in ParkingPoints :
        /\ pc' = [pc EXCEPT ![t] = where]
        /\ where = "sendPark" => Full(SendLimit)
        /\ where = "timedPark" => Full(Capacity)
        /\ where \in {"recvPark", "pollPark"} => buffer = <<>>
  BY DEF SendMustWait, TimedMustWait, RecvMustWait, GoTo, ParkingPoints
<1>2. /\ owner = NoThread /\ owner' = t
      /\ UNCHANGED <<buffer, strategy, notFull, notEmpty>>
  BY DEF SendMustWait, TimedMustWait, RecvMustWait, LockAndKeep
<1>3. pc[t] \notin ParkingPoints \cup ParkedPoints
  BY DEF SendMustWait, TimedMustWait, RecvMustWait, ParkingPoints, ParkedPoints
<1>4. /\ pc'[t] = where
      /\ \A u \in Threads : u # t => pc'[u] = pc[u]
  BY <1>1 DEF TypeInv, TypeOK
<1>5. \A u \in Threads : ~Parking(u)
  BY <1>2, ThreadsAssumption DEF MutexDiscipline
<1>6. \A u \in Threads : Parking(u)' <=> owner' = u
  BY <1>1, <1>2, <1>4, <1>5 DEF Parking, ParkingPoints
<1>7. \A u \in Threads : Parked(u)' <=> Parked(u)
  BY <1>1, <1>3, <1>4 DEF Parked, ParkingPoints, ParkedPoints
<1>8. notFull' = {s \in Senders : Parked(s)'} /\ notEmpty' = {r \in Receivers : Parked(r)'}
  BY <1>2, <1>7 DEF MutexDiscipline, Threads
<1>9. (Full(SendLimit)' <=> Full(SendLimit)) /\ (Full(Capacity)' <=> Full(Capacity))
  BY <1>2 DEF Full, SendLimit
<1>10. \A u \in Threads :
        /\ pc'[u] = "sendPark" => Full(SendLimit)'
        /\ pc'[u] = "timedPark" => Full(Capacity)'
        /\ pc'[u] \in {"recvPark", "pollPark"} => buffer' = <<>>
  BY <1>1, <1>2, <1>4, <1>5, <1>9 DEF Parking
<1> QED
  BY <1>6, <1>8, <1>10 DEF MutexDiscipline

(* It parks: it enters its wait set and frees the mutex.                   *)
LEMMA ParksDiscipline ==
  ASSUME TypeInv, MutexDiscipline, NEW t \in Threads,
         \/ t \in Senders /\ (SendParks(t) \/ TimedParks(t))
         \/ t \in Receivers /\ RecvParks(t)
  PROVE  MutexDiscipline'
<1>1. PICK where \in ParkedPoints : pc' = [pc EXCEPT ![t] = where]
  BY DEF SendParks, TimedParks, RecvParks, Park, GoTo, ParkedPoints
<1>2. owner' = NoThread /\ pc[t] \in ParkingPoints
  BY DEF SendParks, TimedParks, RecvParks, Park, ParkingPoints
<1>3. \/ t \in Senders /\ notFull' = notFull \cup {t} /\ notEmpty' = notEmpty
      \/ t \in Receivers /\ notEmpty' = notEmpty \cup {t} /\ notFull' = notFull
  BY DEF SendParks, TimedParks, RecvParks
<1>4. /\ pc'[t] = where
      /\ \A u \in Threads : u # t => pc'[u] = pc[u]
  BY <1>1 DEF TypeInv, TypeOK
<1>5. owner = t
  BY <1>2 DEF MutexDiscipline, Parking, ParkingPoints
<1>6. \A u \in Threads : ~Parking(u)'
  BY <1>1, <1>4, <1>5 DEF MutexDiscipline, Parking, ParkedPoints
<1>7. \A u \in Threads : Parking(u)' <=> owner' = u
  BY <1>2, <1>6, ThreadsAssumption
<1>8. \A u \in Threads : Parked(u)' <=> Parked(u) \/ u = t
  BY <1>1, <1>4 DEF Parked, ParkedPoints
<1>9. notFull' = {s \in Senders : Parked(s)'} /\ notEmpty' = {r \in Receivers : Parked(r)'}
  BY <1>3, <1>8, ThreadsAssumption DEF MutexDiscipline, Threads
<1> QED
  BY <1>6, <1>7, <1>9 DEF MutexDiscipline, Parking

(* Notifications move woken threads to where they ask for the mutex again; *)
(* the thread that notifies moves on.                                      *)
LEMMA WakeDiscipline ==
  ASSUME TypeInv, MutexDiscipline, NEW S, S \subseteq notFull \cup notEmpty,
         NEW t \in Threads,
         t \in S \/ (pc[t] \notin ParkingPoints \cup ParkedPoints
                     /\ pc'[t] \notin ParkingPoints \cup ParkedPoints),
         \A u \in Threads : u \notin S /\ u # t => pc'[u] = pc[u],
         \A u \in S : pc'[u] = Resume(pc[u]),
         notFull' = notFull \ S, notEmpty' = notEmpty \ S,
         UNCHANGED <<buffer, owner, strategy>>
  PROVE  MutexDiscipline'
<1>1. S \subseteq Threads
  BY DEF TypeInv, TypeOK, Threads
<1>2. \A u \in S : pc[u] \in ParkedPoints
  BY DEF TypeInv, Waiting, ParkedPoints
<1>3. \A u \in S : pc'[u] \notin ParkingPoints \cup ParkedPoints
  BY <1>2, ResumeType DEF ParkingPoints, ParkedPoints
<1>4. \A u \in Threads : Parking(u)' <=> Parking(u)
  BY <1>2, <1>3 DEF Parking, ParkingPoints, ParkedPoints
<1>5. \A u \in Threads : Parked(u)' <=> Parked(u) /\ u \notin S
  BY <1>3 DEF Parked, ParkedPoints
<1>6. notFull' = {s \in Senders : Parked(s)'} /\ notEmpty' = {r \in Receivers : Parked(r)'}
  BY <1>5 DEF MutexDiscipline, Threads
<1>7. \A u \in Threads : Parking(u)' => pc'[u] = pc[u]
  BY <1>3, <1>4 DEF Parking, ParkingPoints, ParkedPoints
<1>8. (Full(SendLimit)' <=> Full(SendLimit)) /\ (Full(Capacity)' <=> Full(Capacity))
  BY DEF Full, SendLimit
<1>9. \A u \in Threads :
        /\ pc'[u] = "sendPark" => Full(SendLimit)'
        /\ pc'[u] = "timedPark" => Full(Capacity)'
        /\ pc'[u] \in {"recvPark", "pollPark"} => buffer' = <<>>
  BY <1>7, <1>8 DEF MutexDiscipline, Parking
<1>10. \A u \in Threads : Parking(u)' <=> owner' = u
  BY <1>4 DEF MutexDiscipline
<1> QED
  BY <1>6, <1>9, <1>10 DEF MutexDiscipline

LEMMA NotifyDiscipline ==
  ASSUME TypeInv, MutexDiscipline, NEW t \in Threads, NEW W, NEW value,
         W \in {notFull, notEmpty}, pc[t] \in {"notifyEmpty", "notifyFull"},
         NotifyOneAndReturn(t, W, value)
  PROVE  MutexDiscipline'
<1>1. UNCHANGED <<buffer, owner, strategy>>
  BY DEF NotifyOneAndReturn
<1>2. pc[t] \notin ParkingPoints \cup ParkedPoints /\ "idle" \notin ParkingPoints \cup ParkedPoints
  BY DEF ParkingPoints, ParkedPoints
<1>3. CASE W = {} /\ GoTo(t, "idle") /\ UNCHANGED <<notFull, notEmpty>>
  <2>1. notFull' = notFull \ {t} /\ notEmpty' = notEmpty \ {t}
    BY <1>2, <1>3, NotParked
  <2> QED
    BY <1>1, <1>2, <1>3, <2>1, OrdinaryMove DEF GoTo
<1>4. ASSUME NEW w \in W,
             pc' = [pc EXCEPT ![t] = "idle", ![w] = Resume(pc[w])],
             notFull' = notFull \ {w}, notEmpty' = notEmpty \ {w}
      PROVE  MutexDiscipline'
  <2>1. w # t /\ w \in Threads
    BY NotWaiting DEF Threads, TypeInv, TypeOK
  <2>2. /\ pc'[w] = Resume(pc[w]) /\ pc'[t] = "idle"
        /\ \A u \in Threads : u \notin {w} /\ u # t => pc'[u] = pc[u]
    BY <1>4, <2>1 DEF TypeInv, TypeOK
  <2>3. PICK S : S = {w}
    OBVIOUS
  <2>4. /\ S \subseteq notFull \cup notEmpty
        /\ notFull' = notFull \ S /\ notEmpty' = notEmpty \ S
        /\ \A u \in S : pc'[u] = Resume(pc[u])
        /\ \A u \in Threads : u \notin S /\ u # t => pc'[u] = pc[u]
    BY <1>4, <2>2, <2>3
  <2>5. pc[t] \notin ParkingPoints \cup ParkedPoints /\ pc'[t] \notin ParkingPoints \cup ParkedPoints
    BY <1>2, <2>2
  <2> QED
    BY <1>1, <2>4, <2>5, WakeDiscipline
<1> QED
  BY <1>3, <1>4 DEF NotifyOneAndReturn

LEMMA CloseDiscipline ==
  ASSUME TypeInv, MutexDiscipline, NEW s \in Senders, CloseNotFull(s) \/ CloseNotEmpty(s)
  PROVE  MutexDiscipline'
<1>1. UNCHANGED <<buffer, owner, strategy>>
  BY DEF CloseNotFull, CloseNotEmpty
<1>2. s \in Threads /\ pc[s] \notin ParkingPoints \cup ParkedPoints
  BY DEF Threads, CloseNotFull, CloseNotEmpty, ParkingPoints, ParkedPoints
<1>3. s \notin notFull /\ s \notin notEmpty
  BY <1>2, NotWaiting DEF ParkedPoints
<1>4. notFull \cap notEmpty = {} /\ notFull \subseteq Threads /\ notEmpty \subseteq Threads
  BY ThreadsAssumption DEF TypeInv, TypeOK, Threads
<1>5. "closeNotEmpty" \notin ParkingPoints \cup ParkedPoints
      /\ "idle" \notin ParkingPoints \cup ParkedPoints
  BY DEF ParkingPoints, ParkedPoints
<1>6. CASE CloseNotFull(s)
  <2>1. /\ pc'[s] = "closeNotEmpty"
        /\ \A u \in notFull : pc'[u] = Resume(pc[u])
        /\ \A u \in Threads : u \notin notFull /\ u # s => pc'[u] = pc[u]
    BY <1>2, <1>3, <1>4, <1>6 DEF CloseNotFull, WakeAll
  <2>2. notFull' = notFull \ notFull /\ notEmpty' = notEmpty \ notFull
    BY <1>4, <1>6 DEF CloseNotFull
  <2> QED
    BY <1>1, <1>2, <1>5, <2>1, <2>2, WakeDiscipline
<1>7. CASE CloseNotEmpty(s)
  <2>1. /\ pc'[s] = "idle"
        /\ \A u \in notEmpty : pc'[u] = Resume(pc[u])
        /\ \A u \in Threads : u \notin notEmpty /\ u # s => pc'[u] = pc[u]
    BY <1>2, <1>3, <1>4, <1>7 DEF CloseNotEmpty, WakeAll
  <2>2. notFull' = notFull \ notEmpty /\ notEmpty' = notEmpty \ notEmpty
    BY <1>4, <1>7 DEF CloseNotEmpty
  <2> QED
    BY <1>1, <1>2, <1>5, <2>1, <2>2, WakeDiscipline
<1> QED
  BY <1>6, <1>7

(* The steps of a sender that move it alone, and what they leave behind.   *)
SenderMoves(s) ==
  \/ SendLocked(s) \/ SendAfterWait(s) \/ TimedLocked(s) \/ TimedExpired(s)
  \/ TimedOut(s) \/ CloseStore(s) \/ \E op \in SendOps : SendStart(s, op)

ReceiverMoves(r) ==
  Pop(r) \/ RecvNone(r) \/ PollTimedOut(r) \/ \E op \in RecvOps : RecvStart(r, op)

LEMMA SenderMovesDiscipline ==
  ASSUME TypeInv, MutexDiscipline, NEW s \in Senders, SenderMoves(s)
  PROVE  MutexDiscipline'
<1> s \in Threads
  BY DEF Threads
<1>1. s \notin notEmpty
  BY ThreadsAssumption DEF TypeInv, TypeOK
<1>2. CASE TimedOut(s)
  <2>1. notFull' = notFull \ {s} /\ notEmpty' = notEmpty \ {s}
    BY <1>1, <1>2 DEF TimedOut
  <2> QED
    BY <1>2, <2>1, OrdinaryMove DEF TimedOut, GoTo, ParkingPoints, ParkedPoints
<1>3. CASE SendLocked(s) \/ SendAfterWait(s) \/ TimedLocked(s) \/ TimedExpired(s)
  <2>1. pc[s] \notin ParkingPoints \cup ParkedPoints
    BY <1>3 DEF SendLocked, SendAfterWait, TimedLocked, TimedExpired, ParkingPoints, ParkedPoints
  <2>2. UNCHANGED <<owner, strategy, notFull, notEmpty>> /\ owner = NoThread
    BY <1>3 DEF SendLocked, SendAfterWait, TimedLocked, TimedExpired, Lock
  <2>3. PICK where \in {"idle", "notifyEmpty"} : pc' = [pc EXCEPT ![s] = where]
    BY <1>3 DEF SendLocked, SendAfterWait, TimedLocked, TimedExpired, TimedStrategy,
                DropOldest, DropNewest, Push, SendFails, Return, GoTo
  <2>4. notFull' = notFull \ {s} /\ notEmpty' = notEmpty \ {s}
    BY <2>1, <2>2, NotParked
  <2> QED
    BY <2>1, <2>2, <2>3, <2>4, OrdinaryMove DEF ParkingPoints, ParkedPoints
<1>4. CASE CloseStore(s) \/ \E op \in SendOps : SendStart(s, op)
  <2>1. pc[s] = "idle" /\ UNCHANGED <<owner, strategy, buffer, notFull, notEmpty>>
    BY <1>4 DEF CloseStore, SendStart
  <2>2. PICK where \in {"idle", "sendLock", "timedLock", "closeNotFull"} :
          pc' = [pc EXCEPT ![s] = where]
    BY <1>4 DEF CloseStore, SendStart, Return, GoTo
  <2>3. notFull' = notFull \ {s} /\ notEmpty' = notEmpty \ {s}
    BY <2>1, NotParked DEF ParkedPoints
  <2> QED
    BY <2>1, <2>2, <2>3, OrdinaryMove DEF ParkingPoints, ParkedPoints
<1> QED
  BY <1>2, <1>3, <1>4 DEF SenderMoves

LEMMA ReceiverMovesDiscipline ==
  ASSUME TypeInv, MutexDiscipline, NEW r \in Receivers, ReceiverMoves(r)
  PROVE  MutexDiscipline'
<1> r \in Threads
  BY DEF Threads
<1>1. r \notin notFull
  BY ThreadsAssumption DEF TypeInv, TypeOK
<1>2. CASE PollTimedOut(r)
  <2>1. notFull' = notFull \ {r} /\ notEmpty' = notEmpty \ {r}
    BY <1>1, <1>2 DEF PollTimedOut
  <2> QED
    BY <1>2, <2>1, OrdinaryMove DEF PollTimedOut, GoTo, ParkingPoints, ParkedPoints
<1>3. CASE Pop(r) \/ RecvNone(r)
  <2>1. pc[r] \notin ParkingPoints \cup ParkedPoints
    BY <1>3 DEF Pop, RecvNone, ParkingPoints, ParkedPoints
  <2>2. UNCHANGED <<owner, strategy, notFull, notEmpty>> /\ owner = NoThread
    BY <1>3 DEF Pop, RecvNone, Lock
  <2>3. PICK where \in {"idle", "notifyFull", "done"} : pc' = [pc EXCEPT ![r] = where]
    BY <1>3 DEF Pop, RecvNone, GoTo
  <2>4. notFull' = notFull \ {r} /\ notEmpty' = notEmpty \ {r}
    BY <2>1, <2>2, NotParked
  <2> QED
    BY <2>1, <2>2, <2>3, <2>4, OrdinaryMove DEF ParkingPoints, ParkedPoints
<1>4. ASSUME NEW op \in RecvOps, RecvStart(r, op)
      PROVE  MutexDiscipline'
  <2>1. pc[r] = "idle" /\ UNCHANGED <<owner, strategy, buffer, notFull, notEmpty>>
    BY <1>4 DEF RecvStart
  <2>2. PICK where \in {"recvLock", "pollLock", "tryLock"} : pc' = [pc EXCEPT ![r] = where]
    BY <1>4, OpsAssumption DEF RecvStart, GoTo
  <2>3. notFull' = notFull \ {r} /\ notEmpty' = notEmpty \ {r}
    BY <2>1, NotParked DEF ParkedPoints
  <2> QED
    BY <2>1, <2>2, <2>3, OrdinaryMove DEF ParkingPoints, ParkedPoints
<1> QED
  BY <1>2, <1>3, <1>4 DEF ReceiverMoves

LEMMA SpuriousDiscipline ==
  ASSUME TypeInv, MutexDiscipline, NEW t \in Threads, SpuriousWakeUp(t)
  PROVE  MutexDiscipline'
<1>1. /\ pc'[t] = Resume(pc[t])
      /\ \A u \in Threads : u # t => pc'[u] = pc[u]
  BY DEF SpuriousWakeUp, GoTo, TypeInv, TypeOK
<1>2. PICK S : S = {t}
  OBVIOUS
<1>3. /\ S \subseteq notFull \cup notEmpty /\ t \in S
      /\ notFull' = notFull \ S /\ notEmpty' = notEmpty \ S
      /\ \A u \in S : pc'[u] = Resume(pc[u])
      /\ \A u \in Threads : u \notin S /\ u # t => pc'[u] = pc[u]
  BY <1>1, <1>2 DEF SpuriousWakeUp
<1>4. UNCHANGED <<buffer, owner, strategy>>
  BY DEF SpuriousWakeUp
<1> QED
  BY <1>3, <1>4, WakeDiscipline

LEMMA InitDiscipline == Init => MutexDiscipline
<1> SUFFICES ASSUME Init PROVE MutexDiscipline
  OBVIOUS
<1>1. \A t \in Threads : pc[t] = "idle"
  BY DEF Init
<1>2. Senders \subseteq Threads /\ Receivers \subseteq Threads
  BY DEF Threads
<1> QED
  BY <1>1, <1>2, ThreadsAssumption DEF Init, MutexDiscipline, Parking, Parked

(* Every step is one of these. *)
LEMMA StepKinds ==
  ASSUME [Next]_vars
  PROVE  \/ \E s \in Senders :
              \/ SenderMoves(s) \/ NotifyNotEmpty(s) \/ CloseNotFull(s) \/ CloseNotEmpty(s)
              \/ SendMustWait(s) \/ TimedMustWait(s) \/ SendParks(s) \/ TimedParks(s)
         \/ \E r \in Receivers :
              ReceiverMoves(r) \/ NotifyNotFull(r) \/ RecvMustWait(r) \/ RecvParks(r)
         \/ \E t \in Threads : SpuriousWakeUp(t)
         \/ UNCHANGED vars
<1>1. ASSUME NEW s \in Senders, SenderStep(s)
      PROVE  \/ SenderMoves(s) \/ NotifyNotEmpty(s)
             \/ SendMustWait(s) \/ TimedMustWait(s) \/ SendParks(s) \/ TimedParks(s)
  BY <1>1 DEF SenderStep, SenderMoves
<1>2. ASSUME NEW r \in Receivers, ReceiverStep(r)
      PROVE  ReceiverMoves(r) \/ NotifyNotFull(r) \/ RecvMustWait(r) \/ RecvParks(r)
  BY <1>2 DEF ReceiverStep, ReceiverMoves
<1>3. ASSUME NEW s \in Senders, CloseStore(s) \/ \E op \in SendOps : SendStart(s, op)
      PROVE  SenderMoves(s)
  BY <1>3 DEF SenderMoves
<1>4. ASSUME NEW r \in Receivers, \E op \in RecvOps : RecvStart(r, op)
      PROVE  ReceiverMoves(r)
  BY <1>4 DEF ReceiverMoves
<1> QED
  BY <1>1, <1>2, <1>3, <1>4 DEF Next

LEMMA NextDiscipline ==
  ASSUME TypeInv, MutexDiscipline, [Next]_vars
  PROVE  MutexDiscipline'
<1>1. Senders \subseteq Threads /\ Receivers \subseteq Threads
  BY DEF Threads
<1>2. ASSUME NEW s \in Senders, NotifyNotEmpty(s)
      PROVE  MutexDiscipline'
  BY <1>1, <1>2, NotifyDiscipline DEF NotifyNotEmpty
<1>3. ASSUME NEW r \in Receivers, NotifyNotFull(r)
      PROVE  MutexDiscipline'
  BY <1>1, <1>3, NotifyDiscipline DEF NotifyNotFull
<1>4. ASSUME NEW s \in Senders, SendMustWait(s) \/ TimedMustWait(s)
      PROVE  MutexDiscipline'
  BY <1>1, <1>4, MustWaitDiscipline
<1>5. ASSUME NEW r \in Receivers, RecvMustWait(r)
      PROVE  MutexDiscipline'
  BY <1>1, <1>5, MustWaitDiscipline
<1>6. ASSUME NEW s \in Senders, SendParks(s) \/ TimedParks(s)
      PROVE  MutexDiscipline'
  BY <1>1, <1>6, ParksDiscipline
<1>7. ASSUME NEW r \in Receivers, RecvParks(r)
      PROVE  MutexDiscipline'
  BY <1>1, <1>7, ParksDiscipline
<1>8. CASE UNCHANGED vars
  BY <1>8 DEF vars, MutexDiscipline, Parking, Parked, Full, SendLimit
<1> QED
  BY <1>2, <1>3, <1>4, <1>5, <1>6, <1>7, <1>8, StepKinds, SenderMovesDiscipline,
     ReceiverMovesDiscipline, CloseDiscipline, SpuriousDiscipline

(* A thread that is about to park holds the mutex, what it waits for is    *)
(* still missing, and the wait sets are exactly the parked threads.        *)
THEOREM MutexIsRespected == Spec => []MutexDiscipline
<1>1. Spec => []TypeInv
  BY InitTypeInv, NextTypeInv, PTL DEF Spec
<1>2. TypeInv /\ MutexDiscipline /\ [Next]_vars => MutexDiscipline'
  BY NextDiscipline
<1> QED
  BY <1>1, <1>2, InitDiscipline, PTL DEF Spec

(***************************************************************************)
(* Wake-ups.                                                               *)
(*                                                                         *)
(* Counting argument.  While a receiver is parked, every item in the       *)
(* buffer has somebody who accounts for it: a sender that has pushed and   *)
(* not yet notified, or a receiver on its way to the mutex.  While a       *)
(* sender is parked, every free slot has a receiver that has popped and    *)
(* not yet notified, or a sender on its way to the mutex.  Senders give up *)
(* without filling a slot once the channel is closed; then close wakes all *)
(* and one sender at most can still park, the one that held the mutex.     *)
(***************************************************************************)

TakePoints == {"recvLock", "pollLock", "pollExpired", "tryLock"}
TryPoints == {"sendLock", "sendWoken", "timedLock", "timedExpired"}
WaitPoints == {"sendPark", "sendWait", "timedPark", "timedWait"}
AllPoints == SenderPoints \cup ReceiverPoints

(* The threads of A that f puts at a point of P. *)
At(f, A, P) == {t \in A : f[t] \in P}

Announcing(f) == Cardinality(At(f, Senders, {"notifyEmpty"}))
Taking(f) == Cardinality(At(f, Receivers, TakePoints))
Freeing(f) == Cardinality(At(f, Receivers, {"notifyFull"}))
Trying(f) == Cardinality(At(f, Senders, TryPoints))

NobodyCloses == \A s \in Senders : pc[s] # "closeNotFull"

ItemsAnnounced == notEmpty # {} => Len(buffer) <= Announcing(pc) + Taking(pc)

SlotsAnnounced ==
  strategy # "Buffer" /\ notFull # {} /\ NobodyCloses =>
    Capacity <= Len(buffer) + Freeing(pc) + (IF closed THEN 0 ELSE Trying(pc))

OneLateWaiter ==
  closed /\ NobodyCloses =>
    \A s \in Senders, t \in Senders :
      pc[s] \in WaitPoints /\ pc[t] \in WaitPoints => s = t

WakeInv == ItemsAnnounced /\ SlotsAnnounced /\ OneLateWaiter

Bit(b) == IF b THEN 1 ELSE 0

(* How a count changes when one thread moves. *)
LEMMA CountMove ==
  ASSUME NEW A, NEW P, IsFiniteSet(A), NEW f, NEW g, NEW t \in A,
         \A u \in A : u # t => g[u] = f[u]
  PROVE  /\ Cardinality(At(f, A, P)) \in Nat /\ Cardinality(At(g, A, P)) \in Nat
         /\ Cardinality(At(g, A, P)) + Bit(f[t] \in P) = Cardinality(At(f, A, P)) + Bit(g[t] \in P)
<1> DEFINE before == At(f, A, P)
<1> DEFINE after == At(g, A, P)
<1>1. /\ t \in before <=> f[t] \in P
      /\ t \in after <=> g[t] \in P
      /\ \A u \in A : u # t => (u \in before <=> u \in after)
      /\ before \in SUBSET A /\ after \in SUBSET A
  BY DEF At
<1> HIDE DEF before, after
<1>2. /\ IsFiniteSet(before) /\ IsFiniteSet(after)
      /\ Cardinality(before) \in Nat /\ Cardinality(after) \in Nat
  BY <1>1, FS_Subset, FS_CardinalityType
<1>3. CASE t \in before /\ t \notin after
  <2>1. after = before \ {t}
    BY <1>1, <1>3
  <2>2. Cardinality(after) = Cardinality(before) - 1
    BY <1>2, <1>3, <2>1, FS_RemoveElement
  <2> QED
    BY <1>1, <1>2, <1>3, <2>2 DEF Bit, before, after
<1>4. CASE t \notin before /\ t \in after
  <2>1. after = before \cup {t}
    BY <1>1, <1>4
  <2>2. Cardinality(after) = Cardinality(before) + 1
    BY <1>2, <1>4, <2>1, FS_AddElement
  <2> QED
    BY <1>1, <1>2, <1>4, <2>2 DEF Bit, before, after
<1>5. CASE t \in before <=> t \in after
  <2>1. after = before
    BY <1>1, <1>5
  <2> QED
    BY <1>1, <1>2, <1>5, <2>1 DEF Bit, before, after
<1> QED
  BY <1>3, <1>4, <1>5

(* Who does not move is counted as before. *)
LEMMA CountSame ==
  ASSUME NEW A, NEW P, NEW f, NEW g, \A u \in A : f[u] \in P <=> g[u] \in P
  PROVE  Cardinality(At(g, A, P)) = Cardinality(At(f, A, P))
<1>1. At(g, A, P) = At(f, A, P)
  BY DEF At
<1> QED
  BY <1>1

LEMMA FiniteThreads == IsFiniteSet(Senders) /\ IsFiniteSet(Receivers)
<1>1. Senders \in SUBSET Threads /\ Receivers \in SUBSET Threads
  BY DEF Threads
<1> QED
  BY <1>1, ThreadsAssumption, FS_Subset

LEMMA CountsAreNatural ==
  ASSUME NEW f
  PROVE  Announcing(f) \in Nat /\ Taking(f) \in Nat /\ Freeing(f) \in Nat /\ Trying(f) \in Nat
<1>1. ASSUME NEW A, NEW P, IsFiniteSet(A)
      PROVE  Cardinality(At(f, A, P)) \in Nat
  <2>1. At(f, A, P) \in SUBSET A
    BY DEF At
  <2> QED
    BY <1>1, <2>1, FS_Subset, FS_CardinalityType
<1> QED
  BY <1>1, FiniteThreads DEF Announcing, Taking, Freeing, Trying

(* A sender moves: the receivers are counted as before.                    *)
LEMMA SenderCounts ==
  ASSUME NEW f, NEW g, NEW s \in Senders, \A u \in Threads : u # s => g[u] = f[u]
  PROVE  /\ Announcing(g) + Bit(f[s] = "notifyEmpty") = Announcing(f) + Bit(g[s] = "notifyEmpty")
         /\ Trying(g) + Bit(f[s] \in TryPoints) = Trying(f) + Bit(g[s] \in TryPoints)
         /\ Taking(g) = Taking(f) /\ Freeing(g) = Freeing(f)
<1>1. Senders \subseteq Threads /\ Receivers \subseteq Threads
  BY DEF Threads
<1>2. \A u \in Senders : u # s => g[u] = f[u]
  BY <1>1
<1>3. \A u \in Receivers : g[u] = f[u]
  BY <1>1, ThreadsAssumption
<1>0. ASSUME NEW P
      PROVE  Cardinality(At(g, Senders, P)) + Bit(f[s] \in P)
               = Cardinality(At(f, Senders, P)) + Bit(g[s] \in P)
  <2>1. IsFiniteSet(Senders)
    BY FiniteThreads
  <2> QED
    BY <1>2, <2>1, CountMove, SMTT(30)
<1>4. Announcing(g) + Bit(f[s] \in {"notifyEmpty"}) = Announcing(f) + Bit(g[s] \in {"notifyEmpty"})
  BY <1>0 DEF Announcing
<1>5. Trying(g) + Bit(f[s] \in TryPoints) = Trying(f) + Bit(g[s] \in TryPoints)
  BY <1>0 DEF Trying
<1>6. Taking(g) = Taking(f)
  BY <1>3, CountSame DEF Taking
<1>7. Freeing(g) = Freeing(f)
  BY <1>3, CountSame DEF Freeing
<1> QED
  BY <1>4, <1>5, <1>6, <1>7 DEF Bit

LEMMA ReceiverCounts ==
  ASSUME NEW f, NEW g, NEW r \in Receivers, \A u \in Threads : u # r => g[u] = f[u]
  PROVE  /\ Taking(g) + Bit(f[r] \in TakePoints) = Taking(f) + Bit(g[r] \in TakePoints)
         /\ Freeing(g) + Bit(f[r] = "notifyFull") = Freeing(f) + Bit(g[r] = "notifyFull")
         /\ Announcing(g) = Announcing(f) /\ Trying(g) = Trying(f)
<1>1. Senders \subseteq Threads /\ Receivers \subseteq Threads
  BY DEF Threads
<1>2. \A u \in Receivers : u # r => g[u] = f[u]
  BY <1>1
<1>3. \A u \in Senders : g[u] = f[u]
  BY <1>1, ThreadsAssumption
<1>0. ASSUME NEW P
      PROVE  Cardinality(At(g, Receivers, P)) + Bit(f[r] \in P)
               = Cardinality(At(f, Receivers, P)) + Bit(g[r] \in P)
  <2>1. IsFiniteSet(Receivers)
    BY FiniteThreads
  <2> QED
    BY <1>2, <2>1, CountMove, SMTT(30)
<1>4. Freeing(g) + Bit(f[r] \in {"notifyFull"}) = Freeing(f) + Bit(g[r] \in {"notifyFull"})
  BY <1>0 DEF Freeing
<1>5. Taking(g) + Bit(f[r] \in TakePoints) = Taking(f) + Bit(g[r] \in TakePoints)
  BY <1>0 DEF Taking
<1>6. Announcing(g) = Announcing(f)
  BY <1>3, CountSame DEF Announcing
<1>7. Trying(g) = Trying(f)
  BY <1>3, CountSame DEF Trying
<1> QED
  BY <1>4, <1>5, <1>6, <1>7 DEF Bit

(* What the move of one sender must satisfy to keep the accounts.          *)
LEMMA SenderKeepsWakeUps ==
  ASSUME TypeInv, TypeInv', WakeInv, NEW s \in Senders,
         \A u \in Threads : u # s => pc'[u] = pc[u],
         pc[s] # "closeNotFull", pc'[s] # "closeNotFull",
         closed' = closed, strategy' = strategy,
         pc'[s] \in WaitPoints => pc[s] \in WaitPoints \/ ~closed,
         notEmpty' # {} =>
           /\ notEmpty # {}
           /\ Len(buffer') + Bit(pc[s] = "notifyEmpty") <= Len(buffer) + Bit(pc'[s] = "notifyEmpty"),
         strategy # "Buffer" /\ notFull' # {} =>
           \/ Capacity <= Len(buffer')
           \/ /\ notFull # {} /\ Len(buffer) <= Len(buffer')
              /\ \/ closed
                 \/ Len(buffer) + Bit(pc[s] \in TryPoints) <= Len(buffer') + Bit(pc'[s] \in TryPoints)
  PROVE  WakeInv'
<1>1. /\ Announcing(pc') + Bit(pc[s] = "notifyEmpty") = Announcing(pc) + Bit(pc'[s] = "notifyEmpty")
      /\ Trying(pc') + Bit(pc[s] \in TryPoints) = Trying(pc) + Bit(pc'[s] \in TryPoints)
      /\ Taking(pc') = Taking(pc) /\ Freeing(pc') = Freeing(pc)
  BY SenderCounts
<1>2. /\ Announcing(pc) \in Nat /\ Taking(pc) \in Nat /\ Freeing(pc) \in Nat /\ Trying(pc) \in Nat
      /\ Announcing(pc') \in Nat /\ Taking(pc') \in Nat /\ Freeing(pc') \in Nat /\ Trying(pc') \in Nat
  BY CountsAreNatural
<1>3. Len(buffer) \in Nat /\ Len(buffer') \in Nat /\ Capacity \in Nat
  BY SizesAssumption DEF TypeInv, TypeOK
<1>5. \A u \in Senders : u # s => pc'[u] = pc[u]
  BY DEF Threads
<1>6. NobodyCloses' => NobodyCloses
  BY <1>5 DEF NobodyCloses
<1>7. ItemsAnnounced'
  <2> SUFFICES ASSUME notEmpty' # {} PROVE Len(buffer') <= Announcing(pc') + Taking(pc')
    BY DEF ItemsAnnounced
  <2>1. Len(buffer) <= Announcing(pc) + Taking(pc)
    BY DEF WakeInv, ItemsAnnounced
  <2>2. Len(buffer') + Bit(pc[s] = "notifyEmpty") <= Len(buffer) + Bit(pc'[s] = "notifyEmpty")
    OBVIOUS
  <2>3. Bit(pc[s] = "notifyEmpty") \in {0, 1} /\ Bit(pc'[s] = "notifyEmpty") \in {0, 1}
    BY DEF Bit
  <2> QED
    BY <1>1, <1>2, <1>3, <2>1, <2>2, <2>3
<1>8. SlotsAnnounced'
  <2> SUFFICES ASSUME strategy # "Buffer", notFull' # {}, NobodyCloses'
               PROVE  Capacity <= Len(buffer') + Freeing(pc') + (IF closed THEN 0 ELSE Trying(pc'))
    BY DEF SlotsAnnounced
  <2>1. CASE Capacity <= Len(buffer')
    BY <1>2, <1>3, <2>1
  <2>2. CASE ~(Capacity <= Len(buffer'))
    <3>1. Capacity <= Len(buffer) + Freeing(pc) + (IF closed THEN 0 ELSE Trying(pc))
      BY <1>6, <2>2 DEF WakeInv, SlotsAnnounced
    <3>2. Bit(pc[s] \in TryPoints) \in {0, 1} /\ Bit(pc'[s] \in TryPoints) \in {0, 1}
      BY DEF Bit
    <3>3. CASE closed
      <4>1. Len(buffer) <= Len(buffer')
        BY <2>2
      <4> QED
        BY <1>1, <1>2, <1>3, <3>1, <3>3, <4>1
    <3>4. CASE ~closed
      <4>1. Len(buffer) + Bit(pc[s] \in TryPoints) <= Len(buffer') + Bit(pc'[s] \in TryPoints)
        BY <2>2, <3>4
      <4>2. Capacity <= Len(buffer) + Freeing(pc) + Trying(pc)
        BY <3>1, <3>4
      <4>3. Capacity <= Len(buffer') + Freeing(pc') + Trying(pc')
        BY <1>1, <1>2, <1>3, <3>2, <4>1, <4>2
      <4> QED
        BY <3>4, <4>3
    <3> QED
      BY <3>3, <3>4
  <2> QED
    BY <2>1, <2>2
<1>9. OneLateWaiter'
  BY <1>5, <1>6 DEF WakeInv, OneLateWaiter
<1> QED
  BY <1>7, <1>8, <1>9 DEF WakeInv

(* And the move of one receiver. *)
LEMMA ReceiverKeepsWakeUps ==
  ASSUME TypeInv, TypeInv', WakeInv, NEW r \in Receivers,
         \A u \in Threads : u # r => pc'[u] = pc[u],
         closed' = closed, strategy' = strategy,
         notEmpty' # {} =>
           \/ Len(buffer') = 0
           \/ /\ notEmpty # {}
              /\ Len(buffer') + Bit(pc[r] \in TakePoints) <= Len(buffer) + Bit(pc'[r] \in TakePoints),
         notFull' # {} =>
           /\ notFull # {}
           /\ Len(buffer) + Bit(pc[r] = "notifyFull") <= Len(buffer') + Bit(pc'[r] = "notifyFull")
  PROVE  WakeInv'
<1>1. /\ Taking(pc') + Bit(pc[r] \in TakePoints) = Taking(pc) + Bit(pc'[r] \in TakePoints)
      /\ Freeing(pc') + Bit(pc[r] = "notifyFull") = Freeing(pc) + Bit(pc'[r] = "notifyFull")
      /\ Announcing(pc') = Announcing(pc) /\ Trying(pc') = Trying(pc)
  BY ReceiverCounts
<1>2. /\ Announcing(pc) \in Nat /\ Taking(pc) \in Nat /\ Freeing(pc) \in Nat /\ Trying(pc) \in Nat
      /\ Announcing(pc') \in Nat /\ Taking(pc') \in Nat /\ Freeing(pc') \in Nat /\ Trying(pc') \in Nat
  BY CountsAreNatural
<1>3. Len(buffer) \in Nat /\ Len(buffer') \in Nat /\ Capacity \in Nat
  BY SizesAssumption DEF TypeInv, TypeOK
<1>5. \A u \in Senders : pc'[u] = pc[u]
  BY ThreadsAssumption DEF Threads
<1>6. NobodyCloses' <=> NobodyCloses
  BY <1>5 DEF NobodyCloses
<1>7. ItemsAnnounced'
  <2> SUFFICES ASSUME notEmpty' # {} PROVE Len(buffer') <= Announcing(pc') + Taking(pc')
    BY DEF ItemsAnnounced
  <2>1. CASE Len(buffer') = 0
    BY <1>2, <2>1
  <2>2. CASE Len(buffer') # 0
    <3>1. Len(buffer') + Bit(pc[r] \in TakePoints) <= Len(buffer) + Bit(pc'[r] \in TakePoints)
      BY <2>2
    <3>2. Len(buffer) <= Announcing(pc) + Taking(pc)
      BY <2>2 DEF WakeInv, ItemsAnnounced
    <3>3. Bit(pc[r] \in TakePoints) \in {0, 1} /\ Bit(pc'[r] \in TakePoints) \in {0, 1}
      BY DEF Bit
    <3> QED
      BY <1>1, <1>2, <1>3, <3>1, <3>2, <3>3
  <2> QED
    BY <2>1, <2>2
<1>8. SlotsAnnounced'
  <2> SUFFICES ASSUME strategy # "Buffer", notFull' # {}, NobodyCloses'
               PROVE  Capacity <= Len(buffer') + Freeing(pc') + (IF closed THEN 0 ELSE Trying(pc'))
    BY DEF SlotsAnnounced
  <2>1. Capacity <= Len(buffer) + Freeing(pc) + (IF closed THEN 0 ELSE Trying(pc))
    BY <1>6 DEF WakeInv, SlotsAnnounced
  <2>2. Len(buffer) + Bit(pc[r] = "notifyFull") <= Len(buffer') + Bit(pc'[r] = "notifyFull")
    OBVIOUS
  <2>3. Bit(pc[r] = "notifyFull") \in {0, 1} /\ Bit(pc'[r] = "notifyFull") \in {0, 1}
    BY DEF Bit
  <2>4. Len(buffer) + Freeing(pc) <= Len(buffer') + Freeing(pc')
    BY <1>1, <1>2, <1>3, <2>2, <2>3
  <2>5. (IF closed THEN 0 ELSE Trying(pc)) = (IF closed THEN 0 ELSE Trying(pc'))
    BY <1>1
  <2>6. (IF closed THEN 0 ELSE Trying(pc')) \in Nat
    BY <1>2
  <2> QED
    BY <1>2, <1>3, <2>1, <2>4, <2>5, <2>6
<1>9. OneLateWaiter'
  BY <1>5, <1>6 DEF WakeInv, OneLateWaiter
<1> QED
  BY <1>7, <1>8, <1>9 DEF WakeInv

(* Under every strategy but Buffer both sending methods wait for the same  *)
(* level, and what gives up or evicts has found the buffer at that level.  *)
LEMMA OneLevel ==
  ASSUME strategy # "Buffer"
  PROVE  /\ Full(SendLimit) <=> Len(buffer) >= Capacity
         /\ Full(Capacity) <=> Len(buffer) >= Capacity
BY DEF Full, SendLimit

LEMMA SenderMovesKeepWakeUps ==
  ASSUME TypeInv, TypeInv', MutexDiscipline, WakeInv, NEW s \in Senders, SenderMoves(s)
  PROVE  WakeInv'
<1> s \in Threads
  BY DEF Threads
<1>1. CASE CloseStore(s)
  <2>1. /\ pc' = [pc EXCEPT ![s] = "closeNotFull"] /\ pc[s] = "idle"
        /\ UNCHANGED <<buffer, notFull, notEmpty>>
    BY <1>1 DEF CloseStore, GoTo
  <2>2. pc'[s] = "closeNotFull" /\ \A u \in Threads : u # s => pc'[u] = pc[u]
    BY <2>1 DEF TypeInv, TypeOK
  <2>3. ~NobodyCloses'
    BY <2>2 DEF NobodyCloses
  <2>4. Announcing(pc') = Announcing(pc) /\ Taking(pc') = Taking(pc)
    <3>1. /\ Announcing(pc') + Bit(pc[s] = "notifyEmpty") = Announcing(pc) + Bit(pc'[s] = "notifyEmpty")
          /\ Taking(pc') = Taking(pc)
      BY <2>2, SenderCounts
    <3>2. Bit(pc[s] = "notifyEmpty") = 0 /\ Bit(pc'[s] = "notifyEmpty") = 0
      BY <2>1, <2>2 DEF Bit
    <3> QED
      BY <3>1, <3>2, CountsAreNatural
  <2> QED
    BY <2>1, <2>3, <2>4 DEF WakeInv, ItemsAnnounced, SlotsAnnounced, OneLateWaiter
<1>2. ASSUME NEW where,
             pc' = [pc EXCEPT ![s] = where],
             where \notin WaitPoints \cup {"closeNotFull"}, pc[s] # "closeNotFull",
             closed' = closed, strategy' = strategy, notEmpty' = notEmpty,
             notFull' # {} => notFull # {},
             Len(buffer') + Bit(pc[s] = "notifyEmpty") <= Len(buffer) + Bit(where = "notifyEmpty"),
             strategy # "Buffer" =>
               \/ Capacity <= Len(buffer')
               \/ /\ Len(buffer) <= Len(buffer')
                  /\ closed \/ Len(buffer) + Bit(pc[s] \in TryPoints) <= Len(buffer') + Bit(where \in TryPoints)
      PROVE  WakeInv'
  <2>1. pc'[s] = where /\ \A u \in Threads : u # s => pc'[u] = pc[u]
    BY <1>2 DEF TypeInv, TypeOK
  <2>2. Len(buffer') + Bit(pc[s] = "notifyEmpty") <= Len(buffer) + Bit(pc'[s] = "notifyEmpty")
    BY <1>2, <2>1
  <2>3. strategy # "Buffer" =>
          \/ Capacity <= Len(buffer')
          \/ /\ Len(buffer) <= Len(buffer')
             /\ closed \/ Len(buffer) + Bit(pc[s] \in TryPoints) <= Len(buffer') + Bit(pc'[s] \in TryPoints)
    BY <1>2, <2>1
  <2>4. pc'[s] \notin WaitPoints /\ pc'[s] # "closeNotFull"
    BY <1>2, <2>1
  <2> QED
    BY <1>2, <2>1, <2>2, <2>3, <2>4, SenderKeepsWakeUps
<1>3. Len(buffer) \in Nat /\ Capacity \in Nat
  BY SizesAssumption DEF TypeInv, TypeOK
<1>4. ASSUME pc[s] \in TryPoints, UNCHANGED <<closed, strategy, notFull, notEmpty>>,
             NEW base \in Seq(Items), NEW b \in BOOLEAN, Push(s, base, b),
             base = buffer \/ (Len(buffer) >= Capacity /\ base = Rest(buffer))
      PROVE  WakeInv'
  <2>1. Len(buffer') = Len(base) + 1
    BY <1>4, ItemType DEF Push, TypeInv, Calling, TryPoints
  <2>2. pc' = [pc EXCEPT ![s] = "notifyEmpty"]
    BY <1>4 DEF Push, GoTo
  <2>3. base = buffer \/ (Len(base) <= Len(buffer) /\ Capacity <= Len(base) + 1)
    BY <1>3, <1>4, RestLen DEF TypeInv, TypeOK
  <2>4. Len(base) \in Nat
    BY <1>4
  <2>5. Bit(pc[s] = "notifyEmpty") = 0 /\ Bit("notifyEmpty" = "notifyEmpty") = 1
        /\ Bit(pc[s] \in TryPoints) = 1 /\ Bit("notifyEmpty" \in TryPoints) = 0
    BY <1>4 DEF TryPoints, Bit
  <2>6. "notifyEmpty" \notin WaitPoints \cup {"closeNotFull"} /\ pc[s] # "closeNotFull"
    BY <1>4 DEF WaitPoints, TryPoints
  <2>7. Len(buffer') + Bit(pc[s] = "notifyEmpty") <= Len(buffer) + Bit("notifyEmpty" = "notifyEmpty")
    BY <1>3, <2>1, <2>3, <2>4, <2>5
  <2>8. \/ Capacity <= Len(buffer')
        \/ /\ Len(buffer) <= Len(buffer')
           /\ Len(buffer) + Bit(pc[s] \in TryPoints) <= Len(buffer') + Bit("notifyEmpty" \in TryPoints)
    BY <1>3, <2>1, <2>3, <2>4, <2>5
  <2> QED
    BY <1>2, <1>4, <2>2, <2>6, <2>7, <2>8
<1>5. ASSUME pc[s] \in TryPoints, UNCHANGED <<closed, strategy, notFull, notEmpty, buffer>>,
             pc' = [pc EXCEPT ![s] = "idle"],
             closed \/ (strategy # "Buffer" => Len(buffer) >= Capacity)
      PROVE  WakeInv'
  <2>1. Bit(pc[s] = "notifyEmpty") = 0 /\ Bit("idle" = "notifyEmpty") = 0
    BY <1>5 DEF TryPoints, Bit
  <2>2. "idle" \notin WaitPoints \cup {"closeNotFull"} /\ pc[s] # "closeNotFull"
    BY <1>5 DEF WaitPoints, TryPoints
  <2>3. Len(buffer') + Bit(pc[s] = "notifyEmpty") <= Len(buffer) + Bit("idle" = "notifyEmpty")
    BY <1>3, <1>5, <2>1
  <2>4. closed => Len(buffer) <= Len(buffer')
    BY <1>3, <1>5
  <2>5. strategy # "Buffer" => closed \/ Capacity <= Len(buffer')
    BY <1>3, <1>5
  <2> QED
    BY <1>2, <1>5, <2>2, <2>3, <2>4, <2>5
<1>6. ASSUME NEW b \in BOOLEAN, DropOldest(s, b), Len(buffer) >= Capacity, pc[s] \in TryPoints,
             UNCHANGED <<closed, strategy, notFull, notEmpty>>
      PROVE  WakeInv'
  <2>1. Rest(buffer) \in Seq(Items)
    BY RestType DEF TypeInv, TypeOK
  <2> QED
    BY <1>4, <1>6, <2>1 DEF DropOldest
<1>7. ASSUME \/ DropNewest(s) /\ Len(buffer) >= Capacity
             \/ /\ \E why \in {"closed", "timeout"} : SendFails(s, why)
                /\ closed \/ (strategy # "Buffer" => Len(buffer) >= Capacity),
             pc[s] \in TryPoints, UNCHANGED <<closed, strategy, notFull, notEmpty>>
      PROVE  WakeInv'
  <2>1. pc' = [pc EXCEPT ![s] = "idle"] /\ UNCHANGED buffer
    BY <1>7 DEF DropNewest, SendFails, Return, GoTo
  <2> QED
    BY <1>5, <1>7, <2>1
<1>8. ASSUME NEW b \in BOOLEAN, Push(s, buffer, b), pc[s] \in TryPoints,
             UNCHANGED <<closed, strategy, notFull, notEmpty>>
      PROVE  WakeInv'
  <2>1. buffer \in Seq(Items)
    BY DEF TypeInv, TypeOK
  <2> QED
    BY <1>4, <1>8, <2>1
<1>9. CASE SendLocked(s)
  <2>1. pc[s] \in TryPoints /\ UNCHANGED <<closed, strategy, notFull, notEmpty>>
    BY <1>9 DEF SendLocked, TryPoints
  <2>2. DropOldest(s, TRUE) \/ DropNewest(s) => strategy # "Buffer"
    BY DEF DropOldest, DropNewest
  <2> QED
    BY <1>6, <1>7, <1>8, <1>9, <2>1, <2>2, OneLevel DEF SendLocked
<1>10. CASE SendAfterWait(s)
  <2>1. pc[s] \in TryPoints /\ UNCHANGED <<closed, strategy, notFull, notEmpty>>
    BY <1>10 DEF SendAfterWait, TryPoints
  <2> QED
    BY <1>7, <1>8, <1>10, <2>1 DEF SendAfterWait
<1>11. CASE TimedLocked(s) \/ TimedExpired(s)
  <2>1. pc[s] \in TryPoints /\ UNCHANGED <<closed, strategy, notFull, notEmpty>>
    BY <1>11 DEF TimedLocked, TimedExpired, TryPoints
  <2>2. Full(Capacity) => Len(buffer) >= Capacity
    BY DEF Full
  <2> QED
    BY <1>6, <1>7, <1>8, <1>11, <2>1, <2>2 DEF TimedLocked, TimedExpired, TimedStrategy
<1>12. CASE TimedOut(s)
  <2>1. /\ pc[s] = "timedWait" /\ pc' = [pc EXCEPT ![s] = "timedExpired"]
        /\ notFull' = notFull \ {s}
        /\ UNCHANGED <<buffer, closed, strategy, notEmpty>>
    BY <1>12 DEF TimedOut, GoTo
  <2>2. /\ "timedExpired" \notin WaitPoints \cup {"closeNotFull"} /\ pc[s] # "closeNotFull"
        /\ Bit(pc[s] = "notifyEmpty") = 0 /\ Bit("timedExpired" = "notifyEmpty") = 0
        /\ Bit(pc[s] \in TryPoints) = 0 /\ Bit("timedExpired" \in TryPoints) = 1
    BY <2>1 DEF WaitPoints, TryPoints, Bit
  <2>3. notFull' # {} => notFull # {}
    BY <2>1
  <2>4. /\ Len(buffer') + Bit(pc[s] = "notifyEmpty") <= Len(buffer) + Bit("timedExpired" = "notifyEmpty")
        /\ Len(buffer) <= Len(buffer')
        /\ Len(buffer) + Bit(pc[s] \in TryPoints) <= Len(buffer') + Bit("timedExpired" \in TryPoints)
    BY <1>3, <2>1, <2>2
  <2> QED
    BY <1>2, <2>1, <2>2, <2>3, <2>4
<1>13. CASE \E op \in SendOps : SendStart(s, op)
  <2>1. /\ pc[s] = "idle" /\ UNCHANGED <<buffer, closed, strategy, notFull, notEmpty>>
    BY <1>13 DEF SendStart
  <2>2. PICK where \in {"idle", "sendLock", "timedLock"} : pc' = [pc EXCEPT ![s] = where]
    BY <1>13 DEF SendStart, Return, GoTo
  <2>3. /\ where \notin WaitPoints \cup {"closeNotFull"} /\ pc[s] # "closeNotFull"
        /\ Bit(pc[s] = "notifyEmpty") = 0 /\ Bit(where = "notifyEmpty") = 0
        /\ Bit(pc[s] \in TryPoints) = 0 /\ Bit(where \in TryPoints) \in {0, 1}
    BY <2>1, <2>2 DEF WaitPoints, TryPoints, Bit
  <2>4. /\ Len(buffer') + Bit(pc[s] = "notifyEmpty") <= Len(buffer) + Bit(where = "notifyEmpty")
        /\ Len(buffer) <= Len(buffer')
        /\ Len(buffer) + Bit(pc[s] \in TryPoints) <= Len(buffer') + Bit(where \in TryPoints)
    BY <1>3, <2>1, <2>3
  <2> QED
    BY <1>2, <2>1, <2>2, <2>3, <2>4
<1> QED
  BY <1>1, <1>9, <1>10, <1>11, <1>12, <1>13 DEF SenderMoves

LEMMA ReceiverMovesKeepWakeUps ==
  ASSUME TypeInv, TypeInv', WakeInv, NEW r \in Receivers, ReceiverMoves(r)
  PROVE  WakeInv'
<1> r \in Threads
  BY DEF Threads
<1>1. Len(buffer) \in Nat
  BY DEF TypeInv, TypeOK
<1>2. ASSUME NEW where,
             pc' = [pc EXCEPT ![r] = where],
             closed' = closed, strategy' = strategy, notFull' = notFull,
             notEmpty' # {} => notEmpty # {},
             \/ Len(buffer') = 0
             \/ Len(buffer') + Bit(pc[r] \in TakePoints) <= Len(buffer) + Bit(where \in TakePoints),
             Len(buffer) + Bit(pc[r] = "notifyFull") <= Len(buffer') + Bit(where = "notifyFull")
      PROVE  WakeInv'
  <2>1. pc'[r] = where /\ \A u \in Threads : u # r => pc'[u] = pc[u]
    BY <1>2 DEF TypeInv, TypeOK
  <2>2. \/ Len(buffer') = 0
        \/ Len(buffer') + Bit(pc[r] \in TakePoints) <= Len(buffer) + Bit(pc'[r] \in TakePoints)
    BY <1>2, <2>1
  <2>3. Len(buffer) + Bit(pc[r] = "notifyFull") <= Len(buffer') + Bit(pc'[r] = "notifyFull")
    BY <1>2, <2>1
  <2> QED
    BY <1>2, <2>1, <2>2, <2>3, ReceiverKeepsWakeUps
<1>3. CASE Pop(r)
  <2>1. /\ pc' = [pc EXCEPT ![r] = "notifyFull"]
        /\ UNCHANGED <<closed, strategy, notFull, notEmpty>>
        /\ pc[r] \in TakePoints
    BY <1>3 DEF Pop, GoTo, TakePoints
  <2>2. Len(buffer') = Len(buffer) - 1
    BY <1>3 DEF Pop, TypeInv, TypeOK
  <2>3. /\ Bit(pc[r] \in TakePoints) = 1 /\ Bit("notifyFull" \in TakePoints) = 0
        /\ Bit(pc[r] = "notifyFull") = 0 /\ Bit("notifyFull" = "notifyFull") = 1
    BY <2>1 DEF TakePoints, Bit
  <2>4. /\ Len(buffer') + Bit(pc[r] \in TakePoints) <= Len(buffer) + Bit("notifyFull" \in TakePoints)
        /\ Len(buffer) + Bit(pc[r] = "notifyFull") <= Len(buffer') + Bit("notifyFull" = "notifyFull")
    BY <1>1, <2>2, <2>3
  <2> QED
    BY <1>2, <2>1, <2>4
<1>4. CASE RecvNone(r)
  <2>1. PICK where \in {"idle", "done"} : pc' = [pc EXCEPT ![r] = where]
    BY <1>4 DEF RecvNone, GoTo
  <2>2. /\ UNCHANGED <<buffer, closed, strategy, notFull, notEmpty>>
        /\ pc[r] \in TakePoints /\ Len(buffer') = 0
    BY <1>4 DEF RecvNone, TakePoints
  <2>3. Bit(pc[r] = "notifyFull") = 0 /\ Bit(where = "notifyFull") = 0
    BY <2>1, <2>2 DEF TakePoints, Bit
  <2>4. Len(buffer) + Bit(pc[r] = "notifyFull") <= Len(buffer') + Bit(where = "notifyFull")
    BY <1>1, <2>2, <2>3
  <2> QED
    BY <1>2, <2>1, <2>2, <2>4
<1>5. CASE PollTimedOut(r) \/ \E op \in RecvOps : RecvStart(r, op)
  <2>1. PICK where \in TakePoints : pc' = [pc EXCEPT ![r] = where]
    BY <1>5, OpsAssumption DEF PollTimedOut, RecvStart, GoTo, TakePoints
  <2>2. /\ UNCHANGED <<buffer, closed, strategy, notFull>>
        /\ pc[r] \notin TakePoints /\ pc[r] # "notifyFull"
        /\ notEmpty' # {} => notEmpty # {}
    BY <1>5 DEF PollTimedOut, RecvStart, TakePoints
  <2>3. /\ Bit(pc[r] \in TakePoints) = 0 /\ Bit(where \in TakePoints) = 1
        /\ Bit(pc[r] = "notifyFull") = 0 /\ Bit(where = "notifyFull") = 0
    BY <2>1, <2>2 DEF TakePoints, Bit
  <2>4. /\ Len(buffer') + Bit(pc[r] \in TakePoints) <= Len(buffer) + Bit(where \in TakePoints)
        /\ Len(buffer) + Bit(pc[r] = "notifyFull") <= Len(buffer') + Bit(where = "notifyFull")
    BY <1>1, <2>2, <2>3
  <2> QED
    BY <1>2, <2>1, <2>2, <2>4
<1> QED
  BY <1>3, <1>4, <1>5 DEF ReceiverMoves

(* Deciding to wait and parking: the buffer is at the level that is waited *)
(* for, so that there is nothing to announce.                              *)
LEMMA WaitingKeepsWakeUps ==
  ASSUME TypeInv, TypeInv', MutexDiscipline, WakeInv, NEW s \in Senders,
         SendMustWait(s) \/ TimedMustWait(s) \/ SendParks(s) \/ TimedParks(s)
  PROVE  WakeInv'
<1> s \in Threads
  BY DEF Threads
<1>1. Len(buffer) \in Nat /\ Capacity \in Nat
  BY SizesAssumption DEF TypeInv, TypeOK
<1>2. UNCHANGED <<buffer, closed, strategy, notEmpty>>
  BY DEF SendMustWait, TimedMustWait, SendParks, TimedParks, Park
<1>3. PICK where \in WaitPoints : pc' = [pc EXCEPT ![s] = where]
  BY DEF SendMustWait, TimedMustWait, SendParks, TimedParks, Park, GoTo, WaitPoints
<1>4. pc[s] \in WaitPoints \/ ~closed
  BY DEF SendMustWait, TimedMustWait, SendParks, TimedParks, Park, WaitPoints
<1>5. pc'[s] = where /\ \A u \in Threads : u # s => pc'[u] = pc[u]
  BY <1>3 DEF TypeInv, TypeOK
<1>6. pc[s] \in TryPoints \cup {"sendPark", "timedPark"}
  BY DEF SendMustWait, TimedMustWait, SendParks, TimedParks, Park, TryPoints
<1>7. /\ pc[s] # "closeNotFull" /\ pc'[s] # "closeNotFull"
      /\ Bit(pc[s] = "notifyEmpty") = 0 /\ Bit(pc'[s] = "notifyEmpty") = 0
  BY <1>3, <1>5, <1>6 DEF WaitPoints, TryPoints, Bit
<1>8. strategy # "Buffer" => Capacity <= Len(buffer')
  <2> SUFFICES ASSUME strategy # "Buffer" PROVE Capacity <= Len(buffer)
    BY <1>2
  <2>1. CASE SendMustWait(s) \/ TimedMustWait(s)
    BY <1>1, <2>1, OneLevel DEF SendMustWait, TimedMustWait
  <2>2. CASE SendParks(s) \/ TimedParks(s)
    BY <1>1, <2>2, OneLevel DEF SendParks, TimedParks, Park, MutexDiscipline
  <2> QED
    BY <2>1, <2>2
<1>9. Len(buffer') + Bit(pc[s] = "notifyEmpty") <= Len(buffer) + Bit(pc'[s] = "notifyEmpty")
  BY <1>1, <1>2, <1>7
<1> QED
  BY <1>2, <1>4, <1>5, <1>7, <1>8, <1>9, SenderKeepsWakeUps

LEMMA ReceiverWaitingKeepsWakeUps ==
  ASSUME TypeInv, TypeInv', MutexDiscipline, WakeInv, NEW r \in Receivers,
         RecvMustWait(r) \/ RecvParks(r)
  PROVE  WakeInv'
<1> r \in Threads
  BY DEF Threads
<1>1. Len(buffer) \in Nat
  BY DEF TypeInv, TypeOK
<1>2. UNCHANGED <<buffer, closed, strategy, notFull>>
  BY DEF RecvMustWait, RecvParks, Park
<1>3. PICK where \in {"recvPark", "pollPark", "recvWait", "pollWait"} :
        pc' = [pc EXCEPT ![r] = where]
  BY DEF RecvMustWait, RecvParks, Park, GoTo
<1>4. pc'[r] = where /\ \A u \in Threads : u # r => pc'[u] = pc[u]
  BY <1>3 DEF TypeInv, TypeOK
<1>5. buffer = <<>>
  BY DEF RecvMustWait, RecvParks, Park, MutexDiscipline
<1>6. Len(buffer') = 0
  BY <1>2, <1>5
<1>7. pc[r] # "notifyFull" /\ pc'[r] # "notifyFull"
  BY <1>3, <1>4 DEF RecvMustWait, RecvParks, Park
<1>8. Len(buffer) + Bit(pc[r] = "notifyFull") <= Len(buffer') + Bit(pc'[r] = "notifyFull")
  BY <1>1, <1>2, <1>7 DEF Bit
<1> QED
  BY <1>2, <1>4, <1>6, <1>8, ReceiverKeepsWakeUps

(* notify_one on not_empty: the pushed item passes from the sender to the  *)
(* receiver it wakes.                                                      *)
LEMMA NotifyNotEmptyKeepsWakeUps ==
  ASSUME TypeInv, TypeInv', WakeInv, NEW s \in Senders, NotifyNotEmpty(s)
  PROVE  WakeInv'
<1> s \in Threads
  BY DEF Threads
<1>1. /\ pc[s] = "notifyEmpty"
      /\ UNCHANGED <<buffer, closed, strategy>>
      /\ Len(buffer) \in Nat
  BY DEF NotifyNotEmpty, NotifyOneAndReturn, TypeInv, TypeOK
<1>2. CASE notEmpty = {} /\ GoTo(s, "idle") /\ UNCHANGED <<notFull, notEmpty>>
  <2>1. pc'[s] = "idle" /\ \A u \in Threads : u # s => pc'[u] = pc[u]
    BY <1>2 DEF GoTo, TypeInv, TypeOK
  <2>2. /\ Bit(pc[s] \in TryPoints) = 0 /\ Bit(pc'[s] \in TryPoints) = 0
        /\ pc'[s] \notin WaitPoints
    BY <1>1, <2>1 DEF TryPoints, WaitPoints, Bit
  <2>3. /\ Len(buffer) <= Len(buffer')
        /\ Len(buffer) + Bit(pc[s] \in TryPoints) <= Len(buffer') + Bit(pc'[s] \in TryPoints)
    BY <1>1, <2>2
  <2>4. notEmpty' = {} /\ notFull' = notFull /\ pc[s] # "closeNotFull" /\ pc'[s] # "closeNotFull"
    BY <1>1, <1>2, <2>1
  <2> QED
    BY <1>1, <2>1, <2>2, <2>3, <2>4, SenderKeepsWakeUps
<1>3. ASSUME NEW w \in notEmpty,
             pc' = [pc EXCEPT ![s] = "idle", ![w] = Resume(pc[w])],
             notFull' = notFull \ {w}, notEmpty' = notEmpty \ {w}
      PROVE  WakeInv'
  <2>1. /\ w \in Receivers /\ w \in Threads /\ w # s /\ w \notin notFull
        /\ pc[w] \in {"recvWait", "pollWait"}
    BY ThreadsAssumption DEF TypeInv, TypeOK, Waiting, Threads
  <2>2. PICK f : f = [pc EXCEPT ![s] = "idle"]
    OBVIOUS
  <2>3. /\ f[s] = "idle" /\ f[w] = pc[w] /\ pc'[w] \in {"recvLock", "pollLock"}
        /\ \A u \in Threads : u # s => f[u] = pc[u]
        /\ \A u \in Threads : u # w => pc'[u] = f[u]
    BY <1>3, <2>1, <2>2, ResumeType DEF TypeInv, TypeOK
  <2>4. /\ Announcing(f) + Bit(pc[s] = "notifyEmpty") = Announcing(pc) + Bit(f[s] = "notifyEmpty")
        /\ Trying(f) + Bit(pc[s] \in TryPoints) = Trying(pc) + Bit(f[s] \in TryPoints)
        /\ Taking(f) = Taking(pc) /\ Freeing(f) = Freeing(pc)
    BY <2>3, SenderCounts
  <2>5. /\ Taking(pc') + Bit(f[w] \in TakePoints) = Taking(f) + Bit(pc'[w] \in TakePoints)
        /\ Freeing(pc') + Bit(f[w] = "notifyFull") = Freeing(f) + Bit(pc'[w] = "notifyFull")
        /\ Announcing(pc') = Announcing(f) /\ Trying(pc') = Trying(f)
    BY <2>1, <2>3, ReceiverCounts
  <2>6. /\ Bit(pc[s] = "notifyEmpty") = 1 /\ Bit(f[s] = "notifyEmpty") = 0
        /\ Bit(pc[s] \in TryPoints) = 0 /\ Bit(f[s] \in TryPoints) = 0
        /\ Bit(f[w] \in TakePoints) = 0 /\ Bit(pc'[w] \in TakePoints) = 1
        /\ Bit(f[w] = "notifyFull") = 0 /\ Bit(pc'[w] = "notifyFull") = 0
    BY <1>1, <2>1, <2>3 DEF TryPoints, TakePoints, Bit
  <2>7. /\ Announcing(pc) \in Nat /\ Taking(pc) \in Nat /\ Freeing(pc) \in Nat /\ Trying(pc) \in Nat
        /\ Announcing(f) \in Nat /\ Taking(f) \in Nat /\ Freeing(f) \in Nat /\ Trying(f) \in Nat
        /\ Announcing(pc') \in Nat /\ Taking(pc') \in Nat /\ Freeing(pc') \in Nat /\ Trying(pc') \in Nat
    BY CountsAreNatural
  <2>8. /\ Announcing(pc') + Taking(pc') = Announcing(pc) + Taking(pc)
        /\ Freeing(pc') = Freeing(pc) /\ Trying(pc') = Trying(pc)
    BY <2>4, <2>5, <2>6, <2>7
  <2>9. \A u \in Senders : pc'[u] = pc[u] \/ (u = s /\ pc'[u] = "idle")
    BY <2>1, <2>3, ThreadsAssumption DEF Threads
  <2>10. NobodyCloses' => NobodyCloses
    BY <1>1, <2>9 DEF NobodyCloses
  <2>11. notFull' = notFull /\ (notEmpty' # {} => notEmpty # {})
    BY <1>3, <2>1
  <2>12. ItemsAnnounced'
    BY <1>1, <2>8, <2>11 DEF WakeInv, ItemsAnnounced
  <2>13. SlotsAnnounced'
    BY <1>1, <2>8, <2>10, <2>11 DEF WakeInv, SlotsAnnounced
  <2>14. OneLateWaiter'
    BY <1>1, <2>9, <2>10 DEF WakeInv, OneLateWaiter, WaitPoints
  <2> QED
    BY <2>12, <2>13, <2>14 DEF WakeInv
<1> QED
  BY <1>2, <1>3 DEF NotifyNotEmpty, NotifyOneAndReturn

(* notify_one on not_full: the freed slot passes from the receiver to the  *)
(* sender it wakes.  On a closed channel the sender will not fill it, but  *)
(* then it was the last one that waited.                                   *)
LEMMA NotifyNotFullKeepsWakeUps ==
  ASSUME TypeInv, TypeInv', WakeInv, NEW r \in Receivers, NotifyNotFull(r)
  PROVE  WakeInv'
<1> r \in Threads
  BY DEF Threads
<1>1. /\ pc[r] = "notifyFull"
      /\ UNCHANGED <<buffer, closed, strategy>>
      /\ Len(buffer) \in Nat
  BY DEF NotifyNotFull, NotifyOneAndReturn, TypeInv, TypeOK
<1>2. CASE notFull = {} /\ GoTo(r, "idle") /\ UNCHANGED <<notFull, notEmpty>>
  <2>1. pc'[r] = "idle" /\ \A u \in Threads : u # r => pc'[u] = pc[u]
    BY <1>2 DEF GoTo, TypeInv, TypeOK
  <2>2. Bit(pc[r] \in TakePoints) = 0 /\ Bit(pc'[r] \in TakePoints) = 0
    BY <1>1, <2>1 DEF TakePoints, Bit
  <2>3. Len(buffer') + Bit(pc[r] \in TakePoints) <= Len(buffer) + Bit(pc'[r] \in TakePoints)
    BY <1>1, <2>2
  <2>4. notFull' = {} /\ notEmpty' = notEmpty
    BY <1>2
  <2> QED
    BY <1>1, <2>1, <2>3, <2>4, ReceiverKeepsWakeUps
<1>3. ASSUME NEW w \in notFull,
             pc' = [pc EXCEPT ![r] = "idle", ![w] = Resume(pc[w])],
             notFull' = notFull \ {w}, notEmpty' = notEmpty \ {w}
      PROVE  WakeInv'
  <2>1. /\ w \in Senders /\ w \in Threads /\ w # r /\ w \notin notEmpty
        /\ pc[w] \in {"sendWait", "timedWait"}
    BY ThreadsAssumption DEF TypeInv, TypeOK, Waiting, Threads
  <2>2. PICK f : f = [pc EXCEPT ![r] = "idle"]
    OBVIOUS
  <2>3. /\ f[r] = "idle" /\ f[w] = pc[w] /\ pc'[w] \in {"sendWoken", "timedLock"}
        /\ \A u \in Threads : u # r => f[u] = pc[u]
        /\ \A u \in Threads : u # w => pc'[u] = f[u]
    BY <1>3, <2>1, <2>2, ResumeType DEF TypeInv, TypeOK
  <2>4. /\ Taking(f) + Bit(pc[r] \in TakePoints) = Taking(pc) + Bit(f[r] \in TakePoints)
        /\ Freeing(f) + Bit(pc[r] = "notifyFull") = Freeing(pc) + Bit(f[r] = "notifyFull")
        /\ Announcing(f) = Announcing(pc) /\ Trying(f) = Trying(pc)
    BY <2>3, ReceiverCounts
  <2>5. /\ Announcing(pc') + Bit(f[w] = "notifyEmpty") = Announcing(f) + Bit(pc'[w] = "notifyEmpty")
        /\ Trying(pc') + Bit(f[w] \in TryPoints) = Trying(f) + Bit(pc'[w] \in TryPoints)
        /\ Taking(pc') = Taking(f) /\ Freeing(pc') = Freeing(f)
    BY <2>1, <2>3, SenderCounts
  <2>6. /\ Bit(pc[r] \in TakePoints) = 0 /\ Bit(f[r] \in TakePoints) = 0
        /\ Bit(pc[r] = "notifyFull") = 1 /\ Bit(f[r] = "notifyFull") = 0
        /\ Bit(f[w] = "notifyEmpty") = 0 /\ Bit(pc'[w] = "notifyEmpty") = 0
        /\ Bit(f[w] \in TryPoints) = 0 /\ Bit(pc'[w] \in TryPoints) = 1
    BY <1>1, <2>1, <2>3 DEF TryPoints, TakePoints, Bit
  <2>7. /\ Announcing(pc) \in Nat /\ Taking(pc) \in Nat /\ Freeing(pc) \in Nat /\ Trying(pc) \in Nat
        /\ Announcing(f) \in Nat /\ Taking(f) \in Nat /\ Freeing(f) \in Nat /\ Trying(f) \in Nat
        /\ Announcing(pc') \in Nat /\ Taking(pc') \in Nat /\ Freeing(pc') \in Nat /\ Trying(pc') \in Nat
    BY CountsAreNatural
  <2>8. /\ Announcing(pc') = Announcing(pc) /\ Taking(pc') = Taking(pc)
        /\ Freeing(pc') + Trying(pc') = Freeing(pc) + Trying(pc)
    BY <2>4, <2>5, <2>6, <2>7
  <2>9. \A u \in Senders : pc'[u] = pc[u] \/ (u = w /\ pc'[u] \in {"sendWoken", "timedLock"})
    BY <2>1, <2>3, ThreadsAssumption DEF Threads
  <2>10. NobodyCloses' => NobodyCloses
    BY <2>1, <2>9 DEF NobodyCloses
  <2>11. notEmpty' = notEmpty
    BY <1>3, <2>1
  <2>12. ItemsAnnounced'
    BY <1>1, <2>8, <2>11 DEF WakeInv, ItemsAnnounced
  <2>13. SlotsAnnounced'
    <3> SUFFICES ASSUME strategy # "Buffer", notFull' # {}, NobodyCloses'
                 PROVE  Capacity <= Len(buffer) + Freeing(pc') + (IF closed THEN 0 ELSE Trying(pc'))
      BY <1>1 DEF SlotsAnnounced
    <3>1. PICK v \in notFull : v # w
      BY <1>3
    <3>2. pc[v] \in WaitPoints /\ pc[w] \in WaitPoints /\ v \in Senders
      BY <2>1, <3>1 DEF TypeInv, TypeOK, Waiting, WaitPoints
    <3>3. ~closed
      BY <2>1, <2>10, <3>1, <3>2 DEF WakeInv, OneLateWaiter
    <3>4. Capacity <= Len(buffer) + Freeing(pc) + Trying(pc)
      BY <2>10, <3>1, <3>3 DEF WakeInv, SlotsAnnounced
    <3>5. Capacity <= Len(buffer) + Freeing(pc') + Trying(pc')
      <4>1. Freeing(pc') + Trying(pc') = Freeing(pc) + Trying(pc)
        BY <2>8
      <4>2. /\ Capacity \in Nat /\ Len(buffer) \in Nat
            /\ Freeing(pc) \in Nat /\ Trying(pc) \in Nat
            /\ Freeing(pc') \in Nat /\ Trying(pc') \in Nat
        BY <1>1, <2>7, SizesAssumption
      <4> QED BY <3>4, <4>1, <4>2
    <3> QED
      BY <3>3, <3>5
  <2>14. OneLateWaiter'
    BY <1>1, <2>9, <2>10 DEF WakeInv, OneLateWaiter, WaitPoints
  <2> QED
    BY <2>12, <2>13, <2>14 DEF WakeInv
<1> QED
  BY <1>2, <1>3 DEF NotifyNotFull, NotifyOneAndReturn

LEMMA SpuriousKeepsWakeUps ==
  ASSUME TypeInv, TypeInv', WakeInv, NEW t \in Threads, SpuriousWakeUp(t)
  PROVE  WakeInv'
<1>1. /\ pc'[t] = Resume(pc[t]) /\ \A u \in Threads : u # t => pc'[u] = pc[u]
      /\ notFull' = notFull \ {t} /\ notEmpty' = notEmpty \ {t}
      /\ UNCHANGED <<buffer, closed, strategy>>
      /\ Len(buffer) \in Nat
  BY DEF SpuriousWakeUp, GoTo, TypeInv, TypeOK
<1>2. (notFull' # {} => notFull # {}) /\ (notEmpty' # {} => notEmpty # {})
  BY <1>1
<1>3. CASE t \in notFull
  <2>1. t \in Senders /\ pc[t] \in {"sendWait", "timedWait"}
    BY <1>3 DEF TypeInv, TypeOK, Waiting
  <2>2. pc'[t] \in {"sendWoken", "timedLock"}
    BY <1>1, <2>1, ResumeType
  <2>3. /\ Bit(pc[t] = "notifyEmpty") = 0 /\ Bit(pc'[t] = "notifyEmpty") = 0
        /\ Bit(pc[t] \in TryPoints) = 0 /\ Bit(pc'[t] \in TryPoints) = 1
        /\ pc'[t] \notin WaitPoints /\ pc[t] # "closeNotFull" /\ pc'[t] # "closeNotFull"
    BY <2>1, <2>2 DEF TryPoints, WaitPoints, Bit
  <2>4. /\ Len(buffer') + Bit(pc[t] = "notifyEmpty") <= Len(buffer) + Bit(pc'[t] = "notifyEmpty")
        /\ Len(buffer) <= Len(buffer')
        /\ Len(buffer) + Bit(pc[t] \in TryPoints) <= Len(buffer') + Bit(pc'[t] \in TryPoints)
    BY <1>1, <2>3
  <2> QED
    BY <1>1, <1>2, <2>1, <2>3, <2>4, SenderKeepsWakeUps
<1>4. CASE t \in notEmpty
  <2>1. t \in Receivers /\ pc[t] \in {"recvWait", "pollWait"}
    BY <1>4 DEF TypeInv, TypeOK, Waiting
  <2>2. pc'[t] \in {"recvLock", "pollLock"}
    BY <1>1, <2>1, ResumeType
  <2>3. /\ Bit(pc[t] \in TakePoints) = 0 /\ Bit(pc'[t] \in TakePoints) = 1
        /\ Bit(pc[t] = "notifyFull") = 0 /\ Bit(pc'[t] = "notifyFull") = 0
    BY <2>1, <2>2 DEF TakePoints, Bit
  <2>4. /\ Len(buffer') + Bit(pc[t] \in TakePoints) <= Len(buffer) + Bit(pc'[t] \in TakePoints)
        /\ Len(buffer) + Bit(pc[t] = "notifyFull") <= Len(buffer') + Bit(pc'[t] = "notifyFull")
    BY <1>1, <2>3
  <2> QED
    BY <1>1, <1>2, <2>1, <2>4, ReceiverKeepsWakeUps
<1> QED
  BY <1>3, <1>4 DEF SpuriousWakeUp

(* The first notification of close empties the wait set of senders; whoever *)
(* parks later held the mutex at the time, and the mutex has one holder.   *)
LEMMA CloseNotFullKeepsWakeUps ==
  ASSUME TypeInv, MutexDiscipline, WakeInv, NEW s \in Senders, CloseNotFull(s)
  PROVE  WakeInv'
<1>1. s \in Threads /\ s \notin notFull /\ pc[s] = "closeNotFull"
  BY NotWaiting DEF CloseNotFull, Threads
<1>2. /\ pc'[s] = "closeNotEmpty"
      /\ \A u \in notFull : pc'[u] = Resume(pc[u])
      /\ \A u \in Threads : u \notin notFull /\ u # s => pc'[u] = pc[u]
      /\ notFull' = {} /\ UNCHANGED <<buffer, notEmpty>>
  BY <1>1 DEF CloseNotFull, WakeAll, TypeInv, TypeOK, Threads
<1>3. \A u \in notFull : pc[u] \in {"sendWait", "timedWait"} /\ pc'[u] \in {"sendWoken", "timedLock"}
  BY <1>2, ResumeType DEF TypeInv, Waiting
<1>4. Senders \subseteq Threads /\ Receivers \subseteq Threads /\ notFull \subseteq Senders
  BY DEF Threads, TypeInv, TypeOK
<1>5. \A u \in Senders : pc[u] \in {"notifyEmpty"} <=> pc'[u] \in {"notifyEmpty"}
  BY <1>1, <1>2, <1>3, <1>4
<1>6. \A u \in Receivers : pc[u] \in TakePoints <=> pc'[u] \in TakePoints
  <2>1. \A u \in Receivers : u \notin notFull /\ u # s
    BY <1>4, ThreadsAssumption
  <2> QED
    BY <1>2, <1>4, <2>1
<1>7. Announcing(pc') = Announcing(pc)
  BY <1>5, CountSame DEF Announcing
<1>8. Taking(pc') = Taking(pc)
  BY <1>6, CountSame DEF Taking
<1>9. ItemsAnnounced'
  BY <1>2, <1>7, <1>8 DEF WakeInv, ItemsAnnounced
<1>10. SlotsAnnounced'
  BY <1>2 DEF SlotsAnnounced
<1>11. \A u \in Senders : pc'[u] \in WaitPoints => owner = u
  <2> SUFFICES ASSUME NEW u \in Senders, pc'[u] \in WaitPoints PROVE owner = u
    OBVIOUS
  <2>1. u # s /\ u \notin notFull
    BY <1>2, <1>3 DEF WaitPoints
  <2>2. pc[u] = pc'[u]
    BY <1>2, <1>4, <2>1
  <2>3. ~Parked(u)
    BY <2>1 DEF MutexDiscipline
  <2>4. Parking(u)
    BY <2>2, <2>3 DEF Parked, Parking, WaitPoints
  <2> QED
    BY <1>4, <2>4 DEF MutexDiscipline
<1>12. OneLateWaiter'
  BY <1>11 DEF OneLateWaiter
<1> QED
  BY <1>9, <1>10, <1>12 DEF WakeInv

LEMMA CloseNotEmptyKeepsWakeUps ==
  ASSUME TypeInv, WakeInv, NEW s \in Senders, CloseNotEmpty(s)
  PROVE  WakeInv'
<1>1. s \in Threads /\ s \notin notEmpty /\ pc[s] = "closeNotEmpty"
  BY NotWaiting DEF CloseNotEmpty, Threads
<1>2. /\ pc'[s] = "idle"
      /\ \A u \in notEmpty : pc'[u] = Resume(pc[u])
      /\ \A u \in Threads : u \notin notEmpty /\ u # s => pc'[u] = pc[u]
      /\ notEmpty' = {} /\ UNCHANGED <<buffer, closed, strategy, notFull>>
  BY <1>1 DEF CloseNotEmpty, WakeAll, TypeInv, TypeOK, Threads
<1>3. \A u \in notEmpty : pc[u] \in {"recvWait", "pollWait"} /\ pc'[u] \in {"recvLock", "pollLock"}
  BY <1>2, ResumeType DEF TypeInv, Waiting
<1>4. Senders \subseteq Threads /\ Receivers \subseteq Threads /\ notEmpty \subseteq Receivers
  BY DEF Threads, TypeInv, TypeOK
<1>5. \A u \in Senders : pc'[u] = IF u = s THEN "idle" ELSE pc[u]
  BY <1>2, <1>4, ThreadsAssumption
<1>6. \A u \in Senders : pc[u] \in TryPoints <=> pc'[u] \in TryPoints
  BY <1>1, <1>5 DEF TryPoints
<1>7. \A u \in Receivers : pc[u] \in {"notifyFull"} <=> pc'[u] \in {"notifyFull"}
  <2>1. \A u \in Receivers : u # s
    BY ThreadsAssumption
  <2> QED
    BY <1>2, <1>3, <1>4, <2>1
<1>8. Trying(pc') = Trying(pc)
  BY <1>6, CountSame DEF Trying
<1>9. Freeing(pc') = Freeing(pc)
  BY <1>7, CountSame DEF Freeing
<1>10. NobodyCloses' => NobodyCloses
  BY <1>1, <1>5 DEF NobodyCloses
<1>11. ItemsAnnounced'
  BY <1>2 DEF ItemsAnnounced
<1>12. SlotsAnnounced'
  BY <1>2, <1>8, <1>9, <1>10 DEF WakeInv, SlotsAnnounced
<1>13. OneLateWaiter'
  BY <1>2, <1>5, <1>10 DEF WakeInv, OneLateWaiter, WaitPoints
<1> QED
  BY <1>11, <1>12, <1>13 DEF WakeInv

LEMMA InitWakeInv == Init => WakeInv
BY DEF Init, WakeInv, ItemsAnnounced, SlotsAnnounced, OneLateWaiter

LEMMA NextWakeInv ==
  ASSUME TypeInv, TypeInv', MutexDiscipline, WakeInv, [Next]_vars
  PROVE  WakeInv'
<1>1. CASE UNCHANGED vars
  BY <1>1 DEF vars, WakeInv, ItemsAnnounced, SlotsAnnounced, OneLateWaiter, NobodyCloses
<1> QED
  BY <1>1, StepKinds, SenderMovesKeepWakeUps, ReceiverMovesKeepWakeUps,
     WaitingKeepsWakeUps, ReceiverWaitingKeepsWakeUps, NotifyNotEmptyKeepsWakeUps,
     NotifyNotFullKeepsWakeUps, SpuriousKeepsWakeUps, CloseNotFullKeepsWakeUps,
     CloseNotEmptyKeepsWakeUps

(* A count above zero has somebody to show.                                *)
LEMMA SomebodyCounts ==
  ASSUME NEW A, NEW P, IsFiniteSet(A), Cardinality(At(pc, A, P)) # 0
  PROVE  \E u \in A : pc[u] \in P
<1>1. At(pc, A, P) # {}
  BY FS_EmptySet
<1> QED
  BY <1>1 DEF At

LEMMA CountsReach ==
  ASSUME TypeInv, WakeInv
  PROVE  NoLostWakeUp
<1> SUFFICES ASSUME strategy # "Buffer" PROVE WakeUpsReach
  BY DEF NoLostWakeUp
<1>1. Len(buffer) \in Nat /\ Capacity \in Nat
  BY SizesAssumption DEF TypeInv, TypeOK
<1>2. /\ Announcing(pc) \in Nat /\ Taking(pc) \in Nat
      /\ Freeing(pc) \in Nat /\ Trying(pc) \in Nat
  BY CountsAreNatural
<1>3. ASSUME notEmpty # {}, buffer # <<>>
      PROVE  \/ \E s \in Senders : pc[s] \in {"notifyEmpty"}
             \/ \E r \in Receivers : pc[r] \in TakePoints
  <2>1. Len(buffer) >= 1
    BY <1>3 DEF TypeInv, TypeOK
  <2>2. Announcing(pc) # 0 \/ Taking(pc) # 0
    BY <1>1, <1>2, <1>3, <2>1 DEF WakeInv, ItemsAnnounced
  <2>3. CASE Announcing(pc) # 0
    BY <2>3, FiniteThreads, SomebodyCounts DEF Announcing
  <2>4. CASE Taking(pc) # 0
    BY <2>4, FiniteThreads, SomebodyCounts DEF Taking
  <2> QED
    BY <2>2, <2>3, <2>4
<1>4. ASSUME NEW s \in notFull, ~Full(IF pc[s] = "sendWait" THEN SendLimit ELSE Capacity), NobodyCloses
      PROVE  \/ \E u \in Senders : pc[u] \in TryPoints
             \/ \E r \in Receivers : pc[r] \in {"notifyFull"}
  <2>1. ~(Len(buffer) >= Capacity)
    BY <1>4, OneLevel
  <2>2. Capacity <= Len(buffer) + Freeing(pc) + (IF closed THEN 0 ELSE Trying(pc))
    BY <1>4 DEF WakeInv, SlotsAnnounced
  <2>3. Freeing(pc) # 0 \/ Trying(pc) # 0
    BY <1>1, <1>2, <2>1, <2>2
  <2>4. CASE Freeing(pc) # 0
    BY <2>4, FiniteThreads, SomebodyCounts DEF Freeing
  <2>5. CASE Trying(pc) # 0
    BY <2>5, FiniteThreads, SomebodyCounts DEF Trying
  <2> QED
    BY <2>3, <2>4, <2>5
<1> QED
  BY <1>3, <1>4 DEF WakeUpsReach, NobodyCloses, TakePoints, TryPoints

(* No wake-up is lost, whatever the threads, the capacity and the sending  *)
(* and receiving methods in use: an item with a parked receiver, or a free *)
(* slot with a parked sender, always has a thread that is about to notify, *)
(* to close, or to take the mutex and act.                                 *)
THEOREM WakeUpsAreNotLost == Spec => []NoLostWakeUp
<1>1. Spec => []TypeInv
  BY InitTypeInv, NextTypeInv, PTL DEF Spec
<1>2. TypeInv /\ TypeInv' /\ MutexDiscipline /\ WakeInv /\ [Next]_vars => WakeInv'
  BY NextWakeInv
<1>3. TypeInv /\ WakeInv => NoLostWakeUp
  BY CountsReach
<1> QED
  BY <1>1, <1>2, <1>3, MutexIsRespected, InitWakeInv, PTL DEF Spec

(***************************************************************************)
(* The channel implements an atomic queue: every step of a thread is one   *)
(* step of FifoChannel, or changes nothing that a client can see.          *)
(***************************************************************************)

StatusAt(where) ==
  IF where \in {"idle", "closeNotFull", "closeNotEmpty"} THEN "idle"
  ELSE IF where = "notifyEmpty" THEN "sent"
  ELSE IF where = "notifyFull" THEN "some"
  ELSE IF where = "done" THEN "done"
  ELSE "open"

stat == [t \in Threads |-> Status(t)]
pol == [limit |-> Limit,
        full |-> CASE strategy = "DropOldest" -> "evict"
                   [] strategy = "DropNewest" -> "refuse"
                   [] OTHER -> "wait"]

LEMMA StatusOfPoint == \A t : Status(t) = StatusAt(pc[t])
BY Zenon DEF Status, StatusAt

LEMMA StatusOfPointNext == \A t : Status(t)' = StatusAt(pc'[t])
BY Zenon DEF Status, StatusAt

LEMMA StatValue ==
  /\ stat = [t \in Threads |-> StatusAt(pc[t])]
  /\ stat' = [t \in Threads |-> StatusAt(pc'[t])]
BY Zenon DEF stat, Status, StatusAt

(* One thread changes its status, or none does.                            *)
LEMMA StatusChanges ==
  ASSUME NEW t \in Threads, NEW v, StatusAt(pc'[t]) = v,
         \A u \in Threads : u # t => StatusAt(pc'[u]) = StatusAt(pc[u])
  PROVE  stat' = [stat EXCEPT ![t] = v]
BY StatValue

LEMMA StatusStays ==
  ASSUME \A u \in Threads : StatusAt(pc'[u]) = StatusAt(pc[u])
  PROVE  stat' = stat
BY StatValue

LEMMA PolicyFixed ==
  ASSUME strategy' = strategy PROVE pol' = pol
BY DEF pol, Limit, SendLimit

(* What clients see of a step. *)
LEMMA FifoStutters ==
  ASSUME stat' = stat, pol' = pol, UNCHANGED <<buffer, closed, offered, ret, delivered>>
  PROVE  UNCHANGED Fifo!vars
BY DEF Fifo!vars, stat, pol

LEMMA FifoSendCalled ==
  ASSUME NEW s \in Senders, stat[s] = "idle",
         offered' = [offered EXCEPT ![s] = @ + 1], stat' = [stat EXCEPT ![s] = "open"],
         pol' = pol, UNCHANGED <<buffer, closed, ret, delivered>>
  PROVE  Fifo!Next
<1>1. Fifo!CallSend(s)
  BY DEF Fifo!CallSend, stat, pol
<1> QED BY <1>1 DEF Fifo!Next

LEMMA FifoSendOnClosed ==
  ASSUME NEW s \in Senders, stat[s] = "idle", closed,
         offered' = [offered EXCEPT ![s] = @ + 1], ret' = [ret EXCEPT ![s] = "closed"],
         stat' = stat, pol' = pol, UNCHANGED <<buffer, closed, delivered>>
  PROVE  Fifo!Next
<1>1. Fifo!SendOnClosed(s)
  BY DEF Fifo!SendOnClosed, stat, pol
<1> QED BY <1>1 DEF Fifo!Next

LEMMA FifoAccepts ==
  ASSUME NEW s \in Senders, stat[s] = "open", Len(buffer) < Limit,
         buffer' = Append(buffer, Item(s)), stat' = [stat EXCEPT ![s] = "sent"],
         pol' = pol, UNCHANGED <<closed, offered, ret, delivered>>
  PROVE  Fifo!Next
<1>1. pol.limit = Limit
  BY DEF pol
<1>2. Fifo!Accept(s)
  BY <1>1 DEF Fifo!Accept, Fifo!Item, Item, stat, pol
<1> QED BY <1>2 DEF Fifo!Next

LEMMA FifoEvicts ==
  ASSUME NEW s \in Senders, stat[s] = "open", strategy = "DropOldest", buffer # <<>>,
         buffer' = Append(Tail(buffer), Item(s)), stat' = [stat EXCEPT ![s] = "sent"],
         pol' = pol, UNCHANGED <<closed, offered, ret, delivered>>
  PROVE  Fifo!Next
<1>1. pol.full = "evict"
  BY DEF pol
<1>2. Fifo!AcceptEvicting(s)
  BY <1>1 DEF Fifo!AcceptEvicting, Fifo!Item, Item, stat, pol
<1> QED BY <1>2 DEF Fifo!Next

LEMMA FifoReturnsSent ==
  ASSUME NEW s \in Senders, stat[s] = "sent", stat' = [stat EXCEPT ![s] = "idle"],
         ret' = [ret EXCEPT ![s] = "sent"],
         pol' = pol, UNCHANGED <<buffer, closed, offered, delivered>>
  PROVE  Fifo!Next
<1>1. Fifo!ReturnSent(s)
  BY DEF Fifo!ReturnSent, stat, pol
<1> QED BY <1>1 DEF Fifo!Next

MayGiveUp == "send_timeout" \in SendOps \/ RecvOps # {"recv"}

LEMMA FifoNotSent ==
  ASSUME NEW s \in Senders, NEW why \in {"closed", "dropped", "timeout"}, stat[s] = "open",
         \/ why = "closed" /\ closed
         \/ why = "dropped" /\ strategy = "DropNewest"
         \/ why = "timeout" /\ MayGiveUp,
         stat' = [stat EXCEPT ![s] = "idle"], ret' = [ret EXCEPT ![s] = why],
         pol' = pol, UNCHANGED <<buffer, closed, offered, delivered>>
  PROVE  Fifo!Next
<1>1. strategy = "DropNewest" => pol.full = "refuse"
  BY DEF pol
<1>2. Fifo!NotSent(s, why)
  BY <1>1 DEF Fifo!NotSent, stat, pol, MayGiveUp
<1> QED BY <1>2 DEF Fifo!Next

LEMMA FifoRecvCalled ==
  ASSUME NEW r \in Receivers, stat[r] = "idle", stat' = [stat EXCEPT ![r] = "open"],
         pol' = pol, UNCHANGED <<buffer, closed, offered, ret, delivered>>
  PROVE  Fifo!Next
<1>1. Fifo!CallRecv(r)
  BY DEF Fifo!CallRecv, stat, pol
<1> QED BY <1>1 DEF Fifo!Next

LEMMA FifoTakes ==
  ASSUME NEW r \in Receivers, stat[r] = "open", buffer # <<>>, buffer' = Tail(buffer),
         delivered' = Append(delivered, Head(buffer)), stat' = [stat EXCEPT ![r] = "some"],
         pol' = pol, UNCHANGED <<closed, offered, ret>>
  PROVE  Fifo!Next
<1>1. Fifo!Take(r)
  BY DEF Fifo!Take, stat, pol
<1> QED BY <1>1 DEF Fifo!Next

LEMMA FifoReturnsSome ==
  ASSUME NEW r \in Receivers, stat[r] = "some", stat' = [stat EXCEPT ![r] = "idle"],
         ret' = [ret EXCEPT ![r] = "some"],
         pol' = pol, UNCHANGED <<buffer, closed, offered, delivered>>
  PROVE  Fifo!Next
<1>1. Fifo!ReturnSome(r)
  BY DEF Fifo!ReturnSome, stat, pol
<1> QED BY <1>1 DEF Fifo!Next

LEMMA FifoReturnsNone ==
  ASSUME NEW r \in Receivers, NEW after \in {"idle", "done"}, stat[r] = "open", buffer = <<>>,
         \/ after = "done" /\ closed
         \/ after = "idle" /\ (closed \/ MayGiveUp),
         stat' = [stat EXCEPT ![r] = after], ret' = [ret EXCEPT ![r] = "none"],
         pol' = pol, UNCHANGED <<buffer, closed, offered, delivered>>
  PROVE  Fifo!Next
<1>1. Fifo!ReturnNone(r, after)
  BY DEF Fifo!ReturnNone, stat, pol, MayGiveUp
<1> QED BY <1>1 DEF Fifo!Next

LEMMA FifoCloses ==
  ASSUME closed' = TRUE, stat' = stat, pol' = pol, UNCHANGED <<buffer, offered, ret, delivered>>
  PROVE  Fifo!Next
<1>1. Fifo!Close
  BY DEF Fifo!Close, stat, pol
<1> QED BY <1>1 DEF Fifo!Next

-----------------------------------------------------------------------------
(* A thread is in a method that may give up only if that method is in use. *)
TimedPoints == {"timedLock", "timedPark", "timedWait", "timedExpired"}
PollPoints == {"pollLock", "pollPark", "pollWait", "pollExpired", "tryLock"}
MethodsInUse ==
  /\ \A s \in Senders : pc[s] \in TimedPoints => "send_timeout" \in SendOps
  /\ \A r \in Receivers : pc[r] \in PollPoints => RecvOps # {"recv"}

(* What is shown of a step: clients see a step of the queue or nothing.    *)
Simulated == Fifo!Next \/ UNCHANGED Fifo!vars

LEMMA ThreadGoes ==
  ASSUME TypeInv, NEW t \in Threads, NEW where, GoTo(t, where)
  PROVE  pc'[t] = where /\ \A u \in Threads : u # t => pc'[u] = pc[u]
BY DEF GoTo, TypeInv, TypeOK

LEMMA StatOf == \A t \in Threads : stat[t] = StatusAt(pc[t])
BY StatValue

LEMMA PointStatus ==
  /\ \A where \in TryPoints : StatusAt(where) = "open"
  /\ \A where \in TakePoints : StatusAt(where) = "open"
  /\ \A where \in {"sendPark", "sendWait", "timedPark", "timedWait"} : StatusAt(where) = "open"
  /\ \A where \in {"recvPark", "recvWait", "pollPark", "pollWait"} : StatusAt(where) = "open"
  /\ StatusAt("idle") = "idle" /\ StatusAt("done") = "done"
  /\ StatusAt("closeNotFull") = "idle" /\ StatusAt("closeNotEmpty") = "idle"
  /\ StatusAt("notifyEmpty") = "sent" /\ StatusAt("notifyFull") = "some"
BY DEF StatusAt, TryPoints, TakePoints

(* A thread moves and nothing of it is seen. *)
LEMMA MoveUnseen ==
  ASSUME TypeInv, NEW t \in Threads, NEW where, GoTo(t, where),
         StatusAt(where) = StatusAt(pc[t]),
         UNCHANGED <<strategy, buffer, closed, offered, ret, delivered>>
  PROVE  Simulated
<1>1. \A u \in Threads : StatusAt(pc'[u]) = StatusAt(pc[u])
  BY ThreadGoes
<1>2. stat' = stat
  BY <1>1, StatusStays
<1>3. pol' = pol
  BY PolicyFixed
<1> QED BY <1>2, <1>3, FifoStutters DEF Simulated

(* A thread moves, and its status with it. *)
LEMMA MoveSeen ==
  ASSUME TypeInv, NEW t \in Threads, NEW where, GoTo(t, where)
  PROVE  stat' = [stat EXCEPT ![t] = StatusAt(where)]
<1>1. StatusAt(pc'[t]) = StatusAt(where) /\ \A u \in Threads : u # t => StatusAt(pc'[u]) = StatusAt(pc[u])
  BY ThreadGoes
<1> QED BY <1>1, StatusChanges

LEMMA SendStartSimulated ==
  ASSUME TypeInv, NEW s \in Senders, NEW op \in SendOps, SendStart(s, op)
  PROVE  Simulated
<1>1. /\ s \in Threads /\ stat[s] = "idle" /\ pol' = pol
      /\ offered' = [offered EXCEPT ![s] = @ + 1]
      /\ UNCHANGED <<buffer, closed, strategy, delivered>>
  BY StatOf, PointStatus, PolicyFixed DEF SendStart, Threads
<1>2. CASE closed
  <2>1. GoTo(s, "idle") /\ ret' = [ret EXCEPT ![s] = "closed"] /\ pc[s] = "idle"
    BY <1>2 DEF SendStart, Return
  <2>2. \A u \in Threads : StatusAt(pc'[u]) = StatusAt(pc[u])
    BY <1>1, <2>1, ThreadGoes
  <2>3. stat' = stat
    BY <2>2, StatusStays
  <2> QED BY <1>1, <1>2, <2>1, <2>3, FifoSendOnClosed DEF Simulated
<1>3. CASE ~closed
  <2>1. PICK where \in {"sendLock", "timedLock"} : GoTo(s, where)
    BY <1>3 DEF SendStart
  <2>2. StatusAt(where) = "open"
    BY PointStatus DEF TryPoints
  <2>3. stat' = [stat EXCEPT ![s] = "open"]
    BY <1>1, <2>1, <2>2, MoveSeen
  <2>4. ret' = ret
    BY <1>3 DEF SendStart
  <2> QED BY <1>1, <2>3, <2>4, FifoSendCalled DEF Simulated
<1> QED BY <1>2, <1>3

LEMMA PushSimulated ==
  ASSUME TypeInv, NEW s \in Senders, NEW b, Push(s, buffer, b), pc[s] \in TryPoints,
         Len(buffer) < SendLimit, UNCHANGED <<closed, strategy, offered>>
  PROVE  Simulated
<1>1. /\ s \in Threads /\ stat[s] = "open" /\ pol' = pol
      /\ GoTo(s, "notifyEmpty") /\ buffer' = Append(buffer, Item(s))
      /\ UNCHANGED <<closed, strategy, offered, ret, delivered>>
  BY StatOf, PointStatus, PolicyFixed DEF Push, Threads
<1>2. stat' = [stat EXCEPT ![s] = "sent"]
  BY <1>1, MoveSeen, PointStatus
<1>3. Len(buffer) < Limit
  BY SizesAssumption DEF TypeInv, TypeOK, Limit, SendLimit
<1> QED BY <1>1, <1>2, <1>3, FifoAccepts DEF Simulated

LEMMA DropOldestSimulated ==
  ASSUME TypeInv, NEW s \in Senders, NEW b, DropOldest(s, b), pc[s] \in TryPoints,
         UNCHANGED <<closed, strategy, offered>>
  PROVE  Simulated
<1>1. /\ s \in Threads /\ stat[s] = "open" /\ pol' = pol /\ strategy = "DropOldest"
      /\ GoTo(s, "notifyEmpty") /\ buffer' = Append(Rest(buffer), Item(s))
      /\ UNCHANGED <<closed, strategy, offered, ret, delivered>>
  BY StatOf, PointStatus, PolicyFixed DEF DropOldest, Push, Threads
<1>2. stat' = [stat EXCEPT ![s] = "sent"]
  BY <1>1, MoveSeen, PointStatus
<1>3. CASE buffer = <<>>
  <2>1. Len(buffer) < Limit
    BY <1>1, <1>3, SizesAssumption DEF Limit, SendLimit
  <2>2. buffer' = Append(buffer, Item(s))
    BY <1>1, <1>3 DEF Rest
  <2> QED BY <1>1, <1>2, <2>1, <2>2, FifoAccepts DEF Simulated
<1>4. CASE buffer # <<>>
  <2>1. buffer' = Append(Tail(buffer), Item(s))
    BY <1>1, <1>4 DEF Rest
  <2> QED BY <1>1, <1>2, <1>4, <2>1, FifoEvicts DEF Simulated
<1> QED BY <1>3, <1>4

LEMMA NotSentSimulated ==
  ASSUME TypeInv, NEW s \in Senders, NEW why \in {"closed", "dropped", "timeout"},
         pc[s] \in TryPoints, Return(s, why),
         \/ why = "closed" /\ closed
         \/ why = "dropped" /\ strategy = "DropNewest"
         \/ why = "timeout" /\ MayGiveUp,
         UNCHANGED <<buffer, closed, strategy, offered, delivered>>
  PROVE  Simulated
<1>1. /\ s \in Threads /\ stat[s] = "open" /\ pol' = pol
      /\ GoTo(s, "idle") /\ ret' = [ret EXCEPT ![s] = why]
  BY StatOf, PointStatus, PolicyFixed DEF Return, Threads
<1>2. stat' = [stat EXCEPT ![s] = "idle"]
  BY <1>1, MoveSeen, PointStatus
<1> QED BY <1>1, <1>2, FifoNotSent DEF Simulated

LEMMA SendLockedSimulated ==
  ASSUME TypeInv, NEW s \in Senders, SendLocked(s)
  PROVE  Simulated
<1>1. pc[s] \in TryPoints /\ UNCHANGED <<closed, strategy, offered>>
  BY DEF SendLocked, TryPoints
<1>2. CASE ~Full(SendLimit) /\ Push(s, buffer, TRUE)
  <2>1. Len(buffer) < SendLimit
    BY <1>2, SizesAssumption DEF Full, SendLimit, TypeInv, TypeOK
  <2> QED BY <1>1, <1>2, <2>1, PushSimulated
<1>3. CASE DropOldest(s, TRUE)
  BY <1>1, <1>3, DropOldestSimulated
<1>4. CASE DropNewest(s)
  BY <1>1, <1>4, NotSentSimulated DEF DropNewest
<1> QED BY <1>2, <1>3, <1>4 DEF SendLocked

LEMMA SendAfterWaitSimulated ==
  ASSUME TypeInv, NEW s \in Senders, SendAfterWait(s)
  PROVE  Simulated
<1>1. pc[s] \in TryPoints /\ UNCHANGED <<closed, strategy, offered>>
  BY DEF SendAfterWait, TryPoints
<1>2. CASE ~Full(SendLimit) /\ Push(s, buffer, TRUE)
  <2>1. Len(buffer) < SendLimit
    BY <1>2, SizesAssumption DEF Full, SendLimit, TypeInv, TypeOK
  <2> QED BY <1>1, <1>2, <2>1, PushSimulated
<1>3. CASE closed /\ SendFails(s, "closed")
  BY <1>1, <1>3, NotSentSimulated DEF SendFails
<1> QED BY <1>2, <1>3 DEF SendAfterWait

LEMMA TimedSimulated ==
  ASSUME TypeInv, MethodsInUse, NEW s \in Senders, TimedLocked(s) \/ TimedExpired(s)
  PROVE  Simulated
<1>1. pc[s] \in TryPoints /\ pc[s] \in TimedPoints /\ UNCHANGED <<closed, strategy, offered>>
  BY DEF TimedLocked, TimedExpired, TryPoints, TimedPoints
<1>2. MayGiveUp
  BY <1>1 DEF MethodsInUse, MayGiveUp
<1>3. CASE ~Full(Capacity) /\ Push(s, buffer, FALSE)
  <2>1. Len(buffer) < SendLimit
    BY <1>3, SizesAssumption DEF Full, SendLimit, TypeInv, TypeOK
  <2> QED BY <1>1, <1>3, <2>1, PushSimulated
<1>4. CASE closed /\ SendFails(s, "closed")
  BY <1>1, <1>4, NotSentSimulated DEF SendFails
<1>5. CASE DropOldest(s, FALSE)
  BY <1>1, <1>5, DropOldestSimulated
<1>6. CASE DropNewest(s)
  BY <1>1, <1>6, NotSentSimulated DEF DropNewest
<1>7. CASE SendFails(s, "timeout")
  BY <1>1, <1>2, <1>7, NotSentSimulated DEF SendFails
<1> QED BY <1>3, <1>4, <1>5, <1>6, <1>7 DEF TimedLocked, TimedExpired, TimedStrategy

-----------------------------------------------------------------------------
(* Waiting, parking and waking up are not seen. *)

(* What a step may do to a thread that does not take it: leave it alone, or *)
(* wake it up.                                                              *)
Woken(u) == pc'[u] = pc[u] \/ (u \in notFull \cup notEmpty /\ pc'[u] = Resume(pc[u]))

LEMMA WokenUnseen ==
  ASSUME TypeInv, NEW u, Woken(u)
  PROVE  /\ StatusAt(pc'[u]) = StatusAt(pc[u])
         /\ pc'[u] \in TimedPoints => pc[u] \in TimedPoints
         /\ pc'[u] \in PollPoints => pc[u] \in PollPoints
<1>1. CASE pc'[u] = pc[u]
  BY <1>1
<1>2. CASE u \in notFull \cup notEmpty /\ pc'[u] = Resume(pc[u])
  <2>1. pc[u] \in {"sendWait", "timedWait", "recvWait", "pollWait"}
    BY <1>2 DEF TypeInv, Waiting
  <2>2. \/ pc[u] = "sendWait" /\ pc'[u] = "sendWoken"
        \/ pc[u] = "timedWait" /\ pc'[u] = "timedLock"
        \/ pc[u] = "recvWait" /\ pc'[u] = "recvLock"
        \/ pc[u] = "pollWait" /\ pc'[u] = "pollLock"
    BY <1>2, <2>1, ResumeType
  <2> QED BY <2>2 DEF StatusAt, TimedPoints, PollPoints
<1> QED BY <1>1, <1>2 DEF Woken

LEMMA NotifyMoves ==
  ASSUME TypeInv, NEW t \in Threads, NEW W, NEW value,
         W \in {notFull, notEmpty}, pc[t] \in {"notifyEmpty", "notifyFull"},
         NotifyOneAndReturn(t, W, value)
  PROVE  pc'[t] = "idle" /\ \A u \in Threads : u # t => Woken(u)
<1>1. CASE GoTo(t, "idle")
  BY <1>1, ThreadGoes DEF Woken
<1>2. ASSUME NEW w \in W, pc' = [pc EXCEPT ![t] = "idle", ![w] = Resume(pc[w])]
      PROVE  pc'[t] = "idle" /\ \A u \in Threads : u # t => Woken(u)
  <2>1. w # t /\ w \in Threads /\ w \in notFull \cup notEmpty
    BY NotWaiting DEF Threads, TypeInv, TypeOK
  <2>2. /\ pc'[w] = Resume(pc[w]) /\ pc'[t] = "idle"
        /\ \A u \in Threads \ {w, t} : pc'[u] = pc[u]
    BY <1>2, <2>1 DEF TypeInv, TypeOK
  <2> QED BY <2>1, <2>2 DEF Woken
<1> QED BY <1>1, <1>2 DEF NotifyOneAndReturn

LEMMA CloseMoves ==
  ASSUME TypeInv, NEW s \in Senders, CloseNotFull(s) \/ CloseNotEmpty(s)
  PROVE  /\ pc[s] \in {"closeNotFull", "closeNotEmpty"} /\ pc'[s] \in {"closeNotEmpty", "idle"}
         /\ \A u \in Threads : u # s => Woken(u)
<1>1. s \in Threads
  BY DEF Threads
<1>2. CASE CloseNotFull(s)
  BY <1>1, <1>2 DEF CloseNotFull, WakeAll, Woken, TypeInv, TypeOK
<1>3. CASE CloseNotEmpty(s)
  BY <1>1, <1>3 DEF CloseNotEmpty, WakeAll, Woken, TypeInv, TypeOK
<1> QED BY <1>2, <1>3

LEMMA SpuriousMoves ==
  ASSUME TypeInv, NEW t \in Threads, SpuriousWakeUp(t)
  PROVE  \A u \in Threads : Woken(u)
<1>1. t \in notFull \cup notEmpty /\ GoTo(t, Resume(pc[t]))
  BY DEF SpuriousWakeUp
<1> QED BY <1>1, ThreadGoes DEF Woken

LEMMA NotifySimulated ==
  ASSUME TypeInv, NEW t \in Threads,
         (t \in Senders /\ NotifyNotEmpty(t)) \/ (t \in Receivers /\ NotifyNotFull(t))
  PROVE  Simulated
<1>1. pol' = pol
  BY PolicyFixed DEF NotifyNotEmpty, NotifyNotFull, NotifyOneAndReturn
<1>2. CASE t \in Senders /\ NotifyNotEmpty(t)
  <2>1. pc[t] = "notifyEmpty" /\ NotifyOneAndReturn(t, notEmpty, "sent")
    BY <1>2 DEF NotifyNotEmpty
  <2>2. pc'[t] = "idle" /\ \A u \in Threads : u # t => Woken(u)
    BY <2>1, NotifyMoves
  <2>3. stat' = [stat EXCEPT ![t] = "idle"]
    BY <2>2, WokenUnseen, StatusChanges, PointStatus
  <2>4. /\ ret' = [ret EXCEPT ![t] = "sent"]
        /\ UNCHANGED <<buffer, closed, offered, delivered>>
    BY <2>1 DEF NotifyOneAndReturn
  <2>5. stat[t] = "sent"
    BY <2>1, StatOf, PointStatus
  <2> QED BY <1>1, <1>2, <2>3, <2>4, <2>5, FifoReturnsSent DEF Simulated
<1>3. CASE t \in Receivers /\ NotifyNotFull(t)
  <2>1. pc[t] = "notifyFull" /\ NotifyOneAndReturn(t, notFull, "some")
    BY <1>3 DEF NotifyNotFull
  <2>2. pc'[t] = "idle" /\ \A u \in Threads : u # t => Woken(u)
    BY <2>1, NotifyMoves
  <2>3. stat' = [stat EXCEPT ![t] = "idle"]
    BY <2>2, WokenUnseen, StatusChanges, PointStatus
  <2>4. /\ ret' = [ret EXCEPT ![t] = "some"]
        /\ UNCHANGED <<buffer, closed, offered, delivered>>
    BY <2>1 DEF NotifyOneAndReturn
  <2>5. stat[t] = "some"
    BY <2>1, StatOf, PointStatus
  <2> QED BY <1>1, <1>3, <2>3, <2>4, <2>5, FifoReturnsSome DEF Simulated
<1> QED BY <1>2, <1>3

LEMMA WakeUpsUnseen ==
  ASSUME TypeInv,
         \/ \E s \in Senders : CloseNotFull(s) \/ CloseNotEmpty(s)
         \/ \E t \in Threads : SpuriousWakeUp(t)
  PROVE  Simulated
<1>1. /\ UNCHANGED <<strategy, buffer, closed, offered, ret, delivered>>
      /\ pol' = pol
  BY PolicyFixed DEF CloseNotFull, CloseNotEmpty, SpuriousWakeUp
<1>2. ASSUME NEW s \in Senders, CloseNotFull(s) \/ CloseNotEmpty(s)
      PROVE  stat' = stat
  <2>1. StatusAt(pc'[s]) = StatusAt(pc[s])
    BY <1>2, CloseMoves, PointStatus
  <2> QED BY <1>2, <2>1, CloseMoves, WokenUnseen, StatusStays
<1>3. ASSUME NEW t \in Threads, SpuriousWakeUp(t)
      PROVE  stat' = stat
  BY <1>3, SpuriousMoves, WokenUnseen, StatusStays
<1>4. stat' = stat
  BY <1>2, <1>3
<1> QED BY <1>1, <1>4, FifoStutters DEF Simulated

(* A thread decides to wait, parks, or is told that its deadline passed.   *)
Waits(t, where) ==
  /\ GoTo(t, where)
  /\ \/ pc[t] \in {"sendLock", "sendWoken"} /\ where = "sendPark"
     \/ pc[t] = "timedLock" /\ where = "timedPark"
     \/ pc[t] = "sendPark" /\ where = "sendWait"
     \/ pc[t] = "timedPark" /\ where = "timedWait"
     \/ pc[t] = "timedWait" /\ where = "timedExpired"
     \/ pc[t] = "recvLock" /\ where = "recvPark"
     \/ pc[t] = "pollLock" /\ where = "pollPark"
     \/ pc[t] = "recvPark" /\ where = "recvWait"
     \/ pc[t] = "pollPark" /\ where = "pollWait"
     \/ pc[t] = "pollWait" /\ where = "pollExpired"

WaitStep(t) ==
  \/ t \in Senders /\ (SendMustWait(t) \/ TimedMustWait(t) \/ SendParks(t) \/ TimedParks(t)
                         \/ TimedOut(t))
  \/ t \in Receivers /\ (RecvMustWait(t) \/ RecvParks(t) \/ PollTimedOut(t))

LEMMA WaitStepWaits ==
  ASSUME NEW t, WaitStep(t)
  PROVE  /\ \E where \in SenderPoints \cup ReceiverPoints : Waits(t, where)
         /\ UNCHANGED <<strategy, buffer, closed, offered, ret, delivered>>
BY DEF WaitStep, Waits, SendMustWait, TimedMustWait, SendParks, TimedParks, TimedOut,
       RecvMustWait, RecvParks, PollTimedOut, Park, SenderPoints, ReceiverPoints

LEMMA WaitsUnseen ==
  ASSUME TypeInv, NEW t \in Threads, WaitStep(t)
  PROVE  Simulated
<1>1. PICK where \in SenderPoints \cup ReceiverPoints : Waits(t, where)
  BY WaitStepWaits
<1>2. GoTo(t, where) /\ StatusAt(where) = StatusAt(pc[t])
  BY <1>1 DEF Waits, StatusAt
<1> QED BY <1>2, WaitStepWaits, MoveUnseen

LEMMA CloseStoreSimulated ==
  ASSUME TypeInv, NEW s \in Senders, CloseStore(s)
  PROVE  Simulated
<1>1. /\ s \in Threads /\ GoTo(s, "closeNotFull") /\ pc[s] = "idle" /\ closed' = TRUE
      /\ pol' = pol /\ UNCHANGED <<buffer, offered, ret, delivered>>
  BY PolicyFixed DEF CloseStore, Threads
<1>2. StatusAt(pc'[s]) = StatusAt(pc[s])
  BY <1>1, ThreadGoes, PointStatus
<1>3. stat' = stat
  BY <1>1, <1>2, ThreadGoes, StatusStays
<1> QED BY <1>1, <1>3, FifoCloses DEF Simulated

-----------------------------------------------------------------------------
(* The receiving methods. *)

LEMMA RecvStartSimulated ==
  ASSUME TypeInv, NEW r \in Receivers, NEW op \in RecvOps, RecvStart(r, op)
  PROVE  Simulated
<1>1. /\ r \in Threads /\ stat[r] = "idle" /\ pol' = pol
      /\ UNCHANGED <<buffer, closed, offered, ret, delivered>>
  BY StatOf, PointStatus, PolicyFixed DEF RecvStart, Threads
<1>2. PICK where \in {"recvLock", "pollLock", "tryLock"} : GoTo(r, where)
  BY OpsAssumption DEF RecvStart
<1>3. StatusAt(where) = "open"
  BY PointStatus DEF TakePoints
<1>4. stat' = [stat EXCEPT ![r] = "open"]
  BY <1>1, <1>2, <1>3, MoveSeen
<1> QED BY <1>1, <1>4, FifoRecvCalled DEF Simulated

LEMMA PopSimulated ==
  ASSUME TypeInv, NEW r \in Receivers, Pop(r)
  PROVE  Simulated
<1>1. /\ r \in Threads /\ stat[r] = "open" /\ pol' = pol /\ GoTo(r, "notifyFull")
      /\ buffer # <<>> /\ buffer' = Tail(buffer) /\ delivered' = Append(delivered, Head(buffer))
      /\ UNCHANGED <<closed, offered, ret>>
  BY StatOf, PointStatus, PolicyFixed DEF Pop, TakePoints, Threads
<1>2. stat' = [stat EXCEPT ![r] = "some"]
  BY <1>1, MoveSeen, PointStatus
<1> QED BY <1>1, <1>2, FifoTakes DEF Simulated

LEMMA RecvNoneSimulated ==
  ASSUME TypeInv, MethodsInUse, NEW r \in Receivers, RecvNone(r)
  PROVE  Simulated
<1>1. /\ r \in Threads /\ pc[r] \in TakePoints /\ pol' = pol /\ buffer = <<>>
      /\ ret' = [ret EXCEPT ![r] = "none"]
      /\ UNCHANGED <<buffer, closed, offered, delivered>>
  BY PolicyFixed DEF RecvNone, TakePoints, Threads
<1>2. stat[r] = "open"
  BY <1>1, StatOf, PointStatus
<1>3. PICK after \in {"idle", "done"} :
        /\ GoTo(r, after)
        /\ after = "done" => closed
        /\ after = "idle" => pc[r] \in PollPoints
  BY DEF RecvNone, PollPoints
<1>4. after = "idle" => MayGiveUp
  BY <1>3 DEF MethodsInUse, MayGiveUp
<1>5. stat' = [stat EXCEPT ![r] = after]
  BY <1>1, <1>3, MoveSeen, PointStatus
<1> QED BY <1>1, <1>2, <1>3, <1>4, <1>5, FifoReturnsNone DEF Simulated

-----------------------------------------------------------------------------
(* A thread is never in a method that is not used. *)

MethodKept(u) ==
  /\ pc'[u] \in TimedPoints => pc[u] \in TimedPoints \/ "send_timeout" \in SendOps
  /\ pc'[u] \in PollPoints => pc[u] \in PollPoints \/ RecvOps # {"recv"}

LEMMA MoveKeepsMethods ==
  ASSUME TypeInv, NEW t \in Threads, NEW where, GoTo(t, where),
         where \in TimedPoints => pc[t] \in TimedPoints \/ "send_timeout" \in SendOps,
         where \in PollPoints => pc[t] \in PollPoints \/ RecvOps # {"recv"}
  PROVE  \A u \in Threads : MethodKept(u)
BY ThreadGoes DEF MethodKept

LEMMA MovesKeepMethods ==
  ASSUME TypeInv, NEW t \in Threads,
         (t \in Senders /\ SenderMoves(t)) \/ (t \in Receivers /\ ReceiverMoves(t))
  PROVE  \A u \in Threads : MethodKept(u)
<1>1. CASE t \in Senders /\ \E op \in SendOps : SendStart(t, op)
  <2>1. PICK where : /\ GoTo(t, where) /\ where \in {"idle", "sendLock", "timedLock"}
                     /\ where = "timedLock" => "send_timeout" \in SendOps
    BY <1>1, OpsAssumption DEF SendStart, Return
  <2> QED BY <2>1, MoveKeepsMethods DEF TimedPoints, PollPoints
<1>2. CASE t \in Receivers /\ \E op \in RecvOps : RecvStart(t, op)
  <2>1. PICK where : /\ GoTo(t, where) /\ where \in {"recvLock", "pollLock", "tryLock"}
                     /\ where # "recvLock" => RecvOps # {"recv"}
    BY <1>2, OpsAssumption DEF RecvStart
  <2> QED BY <2>1, MoveKeepsMethods DEF TimedPoints, PollPoints
<1>3. CASE WaitStep(t)
  <2>1. PICK where \in SenderPoints \cup ReceiverPoints : Waits(t, where)
    BY <1>3, WaitStepWaits
  <2>2. /\ GoTo(t, where)
        /\ where \in TimedPoints => pc[t] \in TimedPoints
        /\ where \in PollPoints => pc[t] \in PollPoints
    BY <2>1 DEF Waits, TimedPoints, PollPoints
  <2> QED BY <2>2, MoveKeepsMethods
<1>4. CASE \/ t \in Senders /\ (SendLocked(t) \/ SendAfterWait(t) \/ TimedLocked(t)
                                  \/ TimedExpired(t) \/ CloseStore(t))
           \/ t \in Receivers /\ (Pop(t) \/ RecvNone(t))
  <2>1. PICK where \in {"idle", "notifyEmpty", "notifyFull", "done", "closeNotFull"} :
          GoTo(t, where)
    BY <1>4 DEF SendLocked, SendAfterWait, TimedLocked, TimedExpired, TimedStrategy, DropOldest,
                DropNewest, Push, SendFails, Return, CloseStore, Pop, RecvNone
  <2> QED BY <2>1, MoveKeepsMethods DEF TimedPoints, PollPoints
<1> QED BY <1>1, <1>2, <1>3, <1>4 DEF SenderMoves, ReceiverMoves, WaitStep

LEMMA WaitsKeepMethods ==
  ASSUME TypeInv, NEW t \in Threads, WaitStep(t)
  PROVE  \A u \in Threads : MethodKept(u)
<1>1. PICK where \in SenderPoints \cup ReceiverPoints : Waits(t, where)
  BY WaitStepWaits
<1>2. /\ GoTo(t, where)
      /\ where \in TimedPoints => pc[t] \in TimedPoints
      /\ where \in PollPoints => pc[t] \in PollPoints
  BY <1>1 DEF Waits, TimedPoints, PollPoints
<1> QED BY <1>2, MoveKeepsMethods

LEMMA NotificationsKeepMethods ==
  ASSUME TypeInv, NEW t \in Threads,
         \/ t \in Senders /\ (NotifyNotEmpty(t) \/ CloseNotFull(t) \/ CloseNotEmpty(t))
         \/ t \in Receivers /\ NotifyNotFull(t)
         \/ SpuriousWakeUp(t)
  PROVE  \A u \in Threads : MethodKept(u)
<1>1. CASE SpuriousWakeUp(t)
  BY <1>1, SpuriousMoves, WokenUnseen DEF MethodKept
<1>2. CASE \/ t \in Senders /\ (NotifyNotEmpty(t) \/ CloseNotFull(t) \/ CloseNotEmpty(t))
           \/ t \in Receivers /\ NotifyNotFull(t)
  <2>1. pc'[t] \in {"idle", "closeNotEmpty"} /\ \A u \in Threads : u # t => Woken(u)
    BY <1>2, NotifyMoves, CloseMoves DEF NotifyNotEmpty, NotifyNotFull
  <2>2. MethodKept(t)
    BY <2>1 DEF MethodKept, TimedPoints, PollPoints
  <2> QED BY <2>1, <2>2, WokenUnseen DEF MethodKept
<1> QED BY <1>1, <1>2

(* Every step is of one of these kinds. *)
LEMMA StepOfThread ==
  ASSUME [Next]_vars
  PROVE  \/ \E s \in Senders :
              SenderMoves(s) \/ NotifyNotEmpty(s) \/ CloseNotFull(s) \/ CloseNotEmpty(s)
         \/ \E r \in Receivers : ReceiverMoves(r) \/ NotifyNotFull(r)
         \/ \E t \in Threads : WaitStep(t) \/ SpuriousWakeUp(t)
         \/ UNCHANGED vars
<1>1. \A s \in Senders : s \in Threads /\ (SendMustWait(s) \/ TimedMustWait(s) \/ SendParks(s)
                                             \/ TimedParks(s) => WaitStep(s))
  BY DEF WaitStep, Threads
<1>2. \A r \in Receivers : r \in Threads /\ (RecvMustWait(r) \/ RecvParks(r) => WaitStep(r))
  BY DEF WaitStep, Threads
<1> QED BY <1>1, <1>2, StepKinds

LEMMA NextMethodsInUse == TypeInv /\ MethodsInUse /\ [Next]_vars => MethodsInUse'
<1> SUFFICES ASSUME TypeInv, MethodsInUse, [Next]_vars PROVE MethodsInUse'
  OBVIOUS
<1>1. Senders \subseteq Threads /\ Receivers \subseteq Threads
  BY DEF Threads
<1>2. CASE UNCHANGED vars
  BY <1>2 DEF MethodsInUse, vars
<1>3. CASE \A u \in Threads : MethodKept(u)
  BY <1>1, <1>3 DEF MethodsInUse, MethodKept
<1>4. ASSUME NEW s \in Senders,
             SenderMoves(s) \/ NotifyNotEmpty(s) \/ CloseNotFull(s) \/ CloseNotEmpty(s)
      PROVE  \A u \in Threads : MethodKept(u)
  <2>1. s \in Threads
    BY <1>1
  <2>2. CASE SenderMoves(s)
    BY <2>1, <2>2, MovesKeepMethods
  <2>3. CASE NotifyNotEmpty(s) \/ CloseNotFull(s) \/ CloseNotEmpty(s)
    BY <2>1, <2>3, NotificationsKeepMethods
  <2> QED BY <1>4, <2>2, <2>3
<1>5. ASSUME NEW r \in Receivers, ReceiverMoves(r) \/ NotifyNotFull(r)
      PROVE  \A u \in Threads : MethodKept(u)
  BY <1>1, <1>5, MovesKeepMethods, NotificationsKeepMethods
<1>6. ASSUME NEW t \in Threads, WaitStep(t) \/ SpuriousWakeUp(t)
      PROVE  \A u \in Threads : MethodKept(u)
  BY <1>6, WaitsKeepMethods, NotificationsKeepMethods
<1> QED BY <1>2, <1>3, <1>4, <1>5, <1>6, StepOfThread

LEMMA NextSimulated == TypeInv /\ MethodsInUse /\ [Next]_vars => Simulated
<1> SUFFICES ASSUME TypeInv, MethodsInUse, [Next]_vars PROVE Simulated
  OBVIOUS
<1>1. Senders \subseteq Threads /\ Receivers \subseteq Threads
  BY DEF Threads
<1>2. ASSUME NEW s \in Senders, SenderMoves(s)
      PROVE  Simulated
  <2>1. TimedOut(s) => WaitStep(s)
    BY DEF WaitStep
  <2> QED BY <1>1, <1>2, <2>1, SendStartSimulated, SendLockedSimulated, SendAfterWaitSimulated,
             TimedSimulated, CloseStoreSimulated, WaitsUnseen DEF SenderMoves
<1>3. ASSUME NEW r \in Receivers, ReceiverMoves(r)
      PROVE  Simulated
  <2>1. PollTimedOut(r) => WaitStep(r)
    BY DEF WaitStep
  <2> QED BY <1>1, <1>3, <2>1, RecvStartSimulated, PopSimulated, RecvNoneSimulated,
             WaitsUnseen DEF ReceiverMoves
<1>4. CASE UNCHANGED vars
  <2>1. UNCHANGED <<strategy, buffer, closed, offered, ret, delivered>> /\ stat' = stat
    BY <1>4, StatusStays DEF vars
  <2> QED BY <2>1, PolicyFixed, FifoStutters DEF Simulated
<1>5. ASSUME NEW s \in Senders, NotifyNotEmpty(s) \/ CloseNotFull(s) \/ CloseNotEmpty(s)
      PROVE  Simulated
  <2>1. s \in Threads
    BY <1>1
  <2>2. CASE NotifyNotEmpty(s)
    BY <2>1, <2>2, NotifySimulated
  <2>3. CASE CloseNotFull(s) \/ CloseNotEmpty(s)
    BY <2>3, WakeUpsUnseen
  <2> QED BY <1>5, <2>2, <2>3
<1>6. ASSUME NEW r \in Receivers, NotifyNotFull(r)
      PROVE  Simulated
  BY <1>1, <1>6, NotifySimulated
<1>7. ASSUME NEW t \in Threads, WaitStep(t) \/ SpuriousWakeUp(t)
      PROVE  Simulated
  BY <1>7, WaitsUnseen, WakeUpsUnseen
<1> QED BY <1>2, <1>3, <1>4, <1>5, <1>6, <1>7, StepOfThread

LEMMA InitMethodsInUse == Init => MethodsInUse
BY DEF Init, MethodsInUse, TimedPoints, PollPoints, Threads

(* A new channel is an empty queue whose policy is its strategy. *)
LEMMA InitFifo == Init => Fifo!Init
<1> SUFFICES ASSUME Init PROVE Fifo!Init
  OBVIOUS
<1>1. stat = [t \in Threads |-> "idle"]
  BY StatValue, PointStatus DEF Init
<1>2. Limit \in Nat
  BY SizesAssumption DEF Limit, SendLimit
<1>3. pol \in [limit : Nat, full : {"wait", "evict", "refuse"}]
  BY <1>2 DEF pol
<1> QED BY <1>1, <1>3 DEF Fifo!Init, Fifo!Threads, Init, stat, pol, Threads

(* Whatever the threads, the strategy, the capacity and the interleaving   *)
(* of locks, waits, notifications, time-outs and close, the clients of the *)
(* channel see an atomic first-in first-out queue, and every call returns  *)
(* what it did to it.                                                      *)
THEOREM ChannelIsQueue == Spec => ImplementsFifo
<1>1. Spec => []TypeInv
  BY InitTypeInv, NextTypeInv, PTL DEF Spec
<1>2. Spec => []MethodsInUse
  BY <1>1, InitMethodsInUse, NextMethodsInUse, PTL DEF Spec
<1>3. TypeInv /\ MethodsInUse /\ [Next]_vars => [Fifo!Next]_(Fifo!vars)
  BY NextSimulated DEF Simulated
<1> QED BY <1>1, <1>2, <1>3, InitFifo, PTL DEF Spec, ImplementsFifo, Fifo!Spec
=============================================================================
