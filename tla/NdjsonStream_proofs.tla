-------------------------- MODULE NdjsonStream_proofs --------------------------
(***************************************************************************)
(* Proofs about RateLimiter and NdjsonStream.                              *)
(*                                                                         *)
(* The bucket: WindowBound alone is not inductive, as a window that has    *)
(* granted all it may still finds tokens in the bucket.  Paid adds what    *)
(* the bucket is worth now to what the window has granted; and Rested says *)
(* that a sleeping caller's token arrives before it wakes up.              *)
(*                                                                         *)
(* The stream: every step of it is a step of the bucket or leaves it       *)
(* alone, so what is shown of the bucket holds of the stream; the counters *)
(* of the pipeline and of the sink account for every attempt; and what a   *)
(* connected client reads is whole.                                        *)
(***************************************************************************)
EXTENDS NdjsonStream, SequenceTheorems, FiniteSetTheorems, TLAPS

(* The types, and the limits of the bucket: it never holds more than the   *)
(* burst, and owes at most the one token that a bucket for none can lend.  *)
BucketTypeOK ==
  /\ tokens \in Int
  /\ since \in 0..MaxIdle
  /\ due \in Nat \cup {NotAsleep}
  /\ window \in [age: Nat, granted: Nat]

WithinBucket ==
  /\ tokens <= Unit * Burst
  /\ tokens >= -Unit
  /\ Burst > 0 => tokens >= 0

Paid == Unit * window.granted + Refilled <= Unit * Burst + Rate * window.age

(* What a sleeper waits for: its token, or a balanced bucket for none. *)
Target == IF Burst = 0 THEN 0 ELSE Unit
Rested == Asleep => tokens + Rate * since + Rate * due >= Target

BucketInv == BucketTypeOK /\ WithinBucket /\ Paid /\ Rested

USE UnitAssumption, RateAssumption, BurstAssumption, MaxAgeAssumption
-----------------------------------------------------------------------------
(* Arithmetic. *)

LEMMA TimesSuccessor ==
  ASSUME NEW a \in Int, NEW b \in Int
  PROVE  a * (b + 1) = a * b + a /\ a * b \in Int
OBVIOUS

LEMMA TimesPredecessor ==
  ASSUME NEW a \in Int, NEW b \in Int
  PROVE  a * (b - 1) = a * b - a
OBVIOUS

LEMMA TimesNothing == \A a \in Int : a * 0 = 0
OBVIOUS

(* A bucket with room for a token has room for a unit of them. *)
LEMMA BurstHoldsUnit ==
  /\ Unit * Burst \in Nat
  /\ Burst = 0 => Unit * Burst = 0
  /\ Burst > 0 => Unit * Burst >= Unit
<1>1. Unit * Burst \in Nat /\ (Burst = 0 => Unit * Burst = 0)
  OBVIOUS
<1>2. ASSUME Burst > 0  PROVE Unit * Burst >= Unit
  <2>1. Burst - 1 \in Nat  BY <1>2
  <2>2. Unit * (Burst - 1) = Unit * Burst - Unit
    BY TimesPredecessor
  <2>3. Unit * (Burst - 1) \in Nat
    BY <2>1
  <2> QED BY <1>1, <2>2, <2>3
<1> QED BY <1>1, <1>2

(* A sleep is long enough: TicksFor rounds up. *)
LEMMA TicksCover ==
  ASSUME NEW units \in Nat
  PROVE  TicksFor(units) \in Nat /\ Rate * TicksFor(units) >= units
<1> DEFINE sum == units + Rate - 1
           q == sum \div Rate
<1>1. sum \in Nat
  OBVIOUS
<1>2. q \in Nat /\ sum = Rate * q + (sum % Rate) /\ sum % Rate \in 0..(Rate - 1)
  BY <1>1
<1>3. Rate * q \in Nat
  BY <1>2
<1> QED BY <1>1, <1>2, <1>3 DEF TicksFor

LEMMA IdleFillsBucket ==
  MaxIdle \in Nat /\ Rate * MaxIdle \in Nat /\ Rate * MaxIdle >= Unit * Burst + Unit
<1>1. Unit * (Burst + 1) = Unit * Burst + Unit
  BY TimesSuccessor
<1>2. Rate * MaxIdle \in Nat
  BY MaxIdleAssumption
<1> QED BY <1>1, <1>2, MaxIdleAssumption

LEMMA RefilledValue ==
  ASSUME BucketTypeOK, WithinBucket
  PROVE  /\ Rate * since \in Nat /\ Refilled \in Int
         /\ Refilled <= Unit * Burst /\ Refilled >= tokens
         /\ Refilled <= tokens + Rate * since
         /\ Refilled = tokens + Rate * since \/ Refilled = Unit * Burst
<1>1. Rate * since \in Nat
  BY DEF BucketTypeOK
<1> QED BY <1>1, BurstHoldsUnit DEF Refilled, Smaller, BucketTypeOK, WithinBucket
-----------------------------------------------------------------------------
(* A refill right after a refill brings nothing. *)
LEMMA RefilledAtOnce ==
  ASSUME NEW t \in Int, t <= Unit * Burst
  PROVE  Smaller(t + Rate * 0, Unit * Burst) = t
<1>1. t + Rate * 0 = t
  OBVIOUS
<1> QED BY <1>1, BurstHoldsUnit DEF Smaller

(* The initial bucket. *)
LEMMA BucketInvInit == BucketInit => BucketInv
<1> SUFFICES ASSUME BucketInit PROVE BucketInv
  OBVIOUS
<1>1. BucketTypeOK /\ WithinBucket
  BY BurstHoldsUnit, IdleFillsBucket DEF BucketInit, BucketTypeOK, WithinBucket, NotAsleep
<1>2. Paid
  BY <1>1, BurstHoldsUnit, RefilledValue DEF BucketInit, Paid
<1>3. Rested
  BY DEF BucketInit, Rested, Asleep
<1> QED BY <1>1, <1>2, <1>3 DEF BucketInv

LEMMA BucketInvNext == BucketInv /\ [BucketNext]_bucket => BucketInv'
<1> SUFFICES ASSUME BucketInv, [BucketNext]_bucket PROVE BucketInv'
  OBVIOUS
<1> USE DEF BucketInv
<1> DEFINE UB == Unit * Burst
           RS == Rate * since
           UG == Unit * window.granted
           RA == Rate * window.age
<1>0. /\ UB \in Nat /\ RS \in Nat /\ UG \in Nat /\ RA \in Nat
      /\ MaxIdle \in Nat
      /\ Refilled \in Int /\ Refilled <= UB /\ Refilled >= tokens /\ Refilled <= tokens + RS
      /\ Refilled = tokens + RS \/ Refilled = UB
      /\ Burst = 0 => UB = 0
      /\ Burst > 0 => UB >= Unit
  BY BurstHoldsUnit, IdleFillsBucket, RefilledValue DEF BucketTypeOK
<1>g. Granted \in [age: Nat, granted: Nat] /\ Unit * Granted.granted = UG + Unit
        /\ Granted.age = window.age
  <2>1. /\ Granted \in [age: Nat, granted: Nat]
        /\ Granted.granted = window.granted + 1 /\ Granted.age = window.age
    BY DEF Granted, BucketTypeOK
  <2>2. Unit * (window.granted + 1) = UG + Unit
    BY TimesSuccessor DEF BucketTypeOK
  <2> QED BY <2>1, <2>2
<1>r. tokens' \in Int /\ since' = 0 /\ tokens' <= UB => Refilled' = tokens'
  BY RefilledAtOnce DEF Refilled
<1>1. CASE AcquireNow
  <2>1. BucketTypeOK' /\ WithinBucket'
    BY <1>1, <1>0, <1>g DEF AcquireNow, BucketTypeOK, WithinBucket
  <2>2. Refilled' = Refilled - Unit
    BY <1>1, <1>0, <1>r DEF AcquireNow
  <2>3. Paid'
    BY <1>1, <1>0, <1>g, <2>2 DEF AcquireNow, Paid, BucketTypeOK
  <2>4. Rested'
    BY <1>1 DEF AcquireNow, Rested, Asleep
  <2> QED BY <2>1, <2>3, <2>4
<1>2. CASE AcquireSleeps
  <2>1. Unit - Refilled \in Nat
    BY <1>2, <1>0 DEF AcquireSleeps
  <2>2. due' \in Nat /\ Rate * due' >= Unit - Refilled
    BY <1>2, <2>1, TicksCover DEF AcquireSleeps
  <2>3. BucketTypeOK' /\ WithinBucket'
    BY <1>2, <1>0, <2>2 DEF AcquireSleeps, BucketTypeOK, WithinBucket
  <2>4. Refilled' = Refilled
    BY <1>2, <1>0, <1>r DEF AcquireSleeps
  <2>5. Paid'
    BY <1>2, <1>0, <2>4 DEF AcquireSleeps, Paid
  <2>6. Rested'
    <3>1. tokens' = Refilled /\ Rate * since' = 0
      BY <1>2, TimesNothing DEF AcquireSleeps
    <3> DEFINE rd == Rate * due'
               rs == Rate * since'
    <3>2. rd \in Int /\ rs = 0 /\ rd >= Unit - Refilled
      BY <2>2, <3>1
    <3> HIDE DEF rd, rs
    <3>3. tokens' + rs + rd >= Target
      BY <1>0, <3>1, <3>2 DEF Target
    <3> QED BY <3>3 DEF Rested, rs, rd, Target
  <2> QED BY <2>3, <2>5, <2>6
<1>3. CASE WakeUp
  <2>1. tokens + RS >= Target
    <3>1. Rate * due = 0
      BY <1>3, TimesNothing DEF WakeUp
    <3> QED BY <1>3, <1>0, <3>1 DEF WakeUp, Rested, Asleep, NotAsleep, BucketTypeOK
  <2>2. Refilled >= Target
    BY <2>1, <1>0 DEF Target
  <2>3. BucketTypeOK' /\ WithinBucket'
    BY <1>3, <1>0, <1>g, <2>2 DEF WakeUp, BucketTypeOK, WithinBucket, Target, NotAsleep
  <2>4. Refilled' = Refilled - Unit
    BY <1>3, <1>0, <1>r DEF WakeUp
  <2>5. Paid'
    BY <1>3, <1>0, <1>g, <2>4 DEF WakeUp, Paid, BucketTypeOK
  <2>6. Rested'
    BY <1>3 DEF WakeUp, Rested, Asleep
  <2> QED BY <2>3, <2>5, <2>6
<1>4. CASE Tick
  <2>0. /\ Rate * (since + 1) = RS + Rate /\ Rate * (window.age + 1) = RA + Rate
        /\ Rate * MaxIdle \in Nat /\ Rate * MaxIdle >= UB + Unit
    BY TimesSuccessor, IdleFillsBucket DEF BucketTypeOK
  <2>1. BucketTypeOK' /\ WithinBucket'
    BY <1>4, <1>0 DEF Tick, BucketTypeOK, WithinBucket, Smaller, NotAsleep
  <2>2. /\ Refilled' <= Refilled + Rate
        /\ Refilled' <= UB /\ Refilled' \in Int
    <3>1. \/ Rate * since' = RS + Rate /\ tokens' = tokens
          \/ Rate * since' = Rate * MaxIdle /\ tokens' = tokens /\ RS + Rate >= Rate * MaxIdle
      <4>1. CASE since + 1 < MaxIdle
        BY <1>4, <1>0, <2>0, <4>1 DEF Tick, Smaller
      <4>2. CASE ~(since + 1 < MaxIdle)
        <5>1. since + 1 = MaxIdle \/ since = MaxIdle
          BY <4>2, <1>0 DEF BucketTypeOK
        <5>2. since' = MaxIdle
          BY <1>4, <4>2 DEF Tick, Smaller
        <5> QED BY <1>4, <2>0, <5>1, <5>2 DEF Tick
      <4> QED BY <4>1, <4>2
    <3> QED BY <1>0, <2>0, <3>1 DEF Refilled, Smaller, BucketTypeOK
  <2>3. Paid'
    <3>1. CASE window.age < MaxAge
      <4>1. window'.granted = window.granted /\ window'.age = window.age + 1
        BY <1>4, <3>1 DEF Tick, BucketTypeOK
      <4> QED BY <1>0, <2>0, <2>2, <4>1 DEF Paid
    <3>2. CASE ~(window.age < MaxAge)
      <4>1. window'.granted = 0 /\ window'.age = 0
        BY <1>4, <3>2 DEF Tick
      <4>2. Unit * window'.granted = 0 /\ Rate * window'.age = 0
        BY <4>1, TimesNothing
      <4> QED BY <1>0, <2>2, <4>2 DEF Paid
    <3> QED BY <3>1, <3>2
  <2>4. Rested'
    <3> SUFFICES ASSUME Asleep' PROVE tokens' + Rate * since' + Rate * due' >= Target
      BY DEF Rested, Target
    <3>1. Asleep /\ due \in Nat /\ due' \in Nat
      BY <1>4 DEF Tick, Asleep, NotAsleep, BucketTypeOK
    <3>2. /\ Rate * due \in Nat /\ Rate * due' \in Nat
          /\ Rate * due' = Rate * due - Rate \/ Rate * due' = Rate * due
      <4>1. due > 0 => Rate * (due - 1) = Rate * due - Rate
        BY <3>1, TimesPredecessor
      <4> QED BY <1>4, <3>1, <4>1 DEF Tick
    <3>3. CASE since + 1 < MaxIdle
      <4>1. Rate * since' = RS + Rate /\ tokens' = tokens
        BY <1>4, <2>0, <3>3 DEF Tick, Smaller
      <4> DEFINE rd == Rate * due
                 rdn == Rate * due'
                 rsn == Rate * since'
      <4>2. /\ tokens + RS + rd >= Target /\ rd \in Nat /\ rdn \in Nat
            /\ rdn = rd - Rate \/ rdn = rd
            /\ rsn = RS + Rate /\ tokens \in Int
        BY <3>1, <3>2, <4>1 DEF Rested, BucketTypeOK
      <4> HIDE DEF rd, rdn, rsn
      <4>3. tokens + rsn + rdn >= Target
        BY <1>0, <4>2 DEF Target
      <4> QED BY <4>1, <4>3 DEF rdn, rsn
    <3>4. CASE ~(since + 1 < MaxIdle)
      <4>1. Rate * since' = Rate * MaxIdle /\ tokens' = tokens
        BY <1>4, <3>4 DEF Tick, Smaller
      <4> QED BY <1>0, <2>0, <3>2, <4>1 DEF WithinBucket, BucketTypeOK, Target
    <3> QED BY <3>3, <3>4
  <2> QED BY <2>1, <2>3, <2>4
<1>5. CASE Observe
  <2>1. BucketTypeOK' /\ WithinBucket' /\ Rested'
    BY <1>5 DEF Observe, BucketTypeOK, WithinBucket, Rested, Asleep
  <2>2. Refilled' = Refilled
    BY <1>5 DEF Observe, Refilled
  <2>3. Paid'
    BY <1>5, <1>0, <2>2, TimesNothing DEF Observe, Paid
  <2> QED BY <2>1, <2>3
<1>6. CASE UNCHANGED bucket
  BY <1>6 DEF bucket, BucketTypeOK, WithinBucket, Paid, Rested, Refilled, Asleep
<1> QED BY <1>1, <1>2, <1>3, <1>4, <1>5, <1>6 DEF BucketNext

(* The bucket keeps its invariant. *)
THEOREM BucketInvariant == BucketSpec => []BucketInv
BY BucketInvInit, BucketInvNext, PTL DEF BucketSpec

-----------------------------------------------------------------------------
(* The variables of the bucket keep their types, whatever the unit, the    *)
(* rate and the burst (RateLimiter::new, acquire).                         *)
THEOREM BucketTypeCorrect == BucketSpec => []BucketTypeOK
<1>1. BucketInv => BucketTypeOK
  BY DEF BucketInv
<1> QED BY <1>1, BucketInvariant, PTL

LEMMA PaidBoundsWindow == BucketInv => WindowBound
<1> SUFFICES ASSUME BucketInv PROVE WindowBound
  OBVIOUS
<1>1. /\ Unit * window.granted \in Nat /\ Rate * window.age \in Nat
      /\ Refilled \in Int /\ Refilled >= tokens /\ tokens \in Int
  BY RefilledValue DEF BucketInv, BucketTypeOK
<1>2. CASE Burst = 0
  <2>1. Unit * 1 = Unit
    OBVIOUS
  <2> QED BY <1>1, <1>2, <2>1, BurstHoldsUnit DEF WindowBound, BucketInv, Paid, WithinBucket
<1>3. CASE Burst # 0
  BY <1>1, <1>3, BurstHoldsUnit DEF WindowBound, BucketInv, Paid, WithinBucket
<1> QED BY <1>2, <1>3

(* In no window of time are more tokens granted than the burst and the     *)
(* rate allow (acquire, wait_for_token, refill_tokens).                    *)
THEOREM RateIsKept == BucketSpec => []WindowBound
BY BucketInvariant, PaidBoundsWindow, PTL

(* The token that wait_for_token takes without another look is there.      *)
THEOREM BucketIsNeverInDebt == BucketSpec => []NoDebt
<1>1. BucketInv => NoDebt
  BY DEF BucketInv, WithinBucket, NoDebt
<1> QED BY <1>1, BucketInvariant, PTL
-----------------------------------------------------------------------------
(* The stream. *)

USE ItemsAssumption, IntervalAssumption, BufferedAssumption
-----------------------------------------------------------------------------
(* The stream drives its bucket as the specification of the bucket allows  *)
(* (RateLimitedPipeline::emit calls acquire and nothing else).             *)
THEOREM StreamDrivesBucket == Spec => BucketSpec
<1>1. Init => BucketInit
  BY DEF Init
<1>2. [Next]_vars => [BucketNext]_bucket
  <2> SUFFICES ASSUME [Next]_vars PROVE [BucketNext]_bucket
    OBVIOUS
  <2>1. CASE TaskStep
    <3>1. CASE Acquire
      BY <3>1 DEF Acquire, BucketNext
    <3>2. CASE FallAsleep
      BY <3>2 DEF FallAsleep, BucketNext
    <3>3. CASE Create \/ CreateFails \/ NextItem \/ Generated \/ Unlimited
      BY <3>3 DEF Create, CreateFails, NextItem, Generated, Unlimited
    <3>4. CASE Number \/ SendItem \/ SendProgress \/ SendFails \/ Close
      BY <3>4 DEF Number, SendItem, SendProgress, SendFails, Close
    <3> QED BY <2>1, <3>1, <3>2, <3>3, <3>4 DEF TaskStep
  <2>2. CASE Read \/ SeeEnd \/ HangUp
    BY <2>2 DEF Read, SeeEnd, HangUp
  <2>3. CASE TimePasses
    BY <2>3 DEF TimePasses, BucketNext
  <2>4. CASE UNCHANGED vars
    BY <2>4 DEF vars
  <2> QED BY <2>1, <2>2, <2>3, <2>4 DEF Next
<1> QED BY <1>1, <1>2, PTL DEF Spec, BucketSpec

(* The rate a client has asked for is kept in every window of time.        *)
THEOREM StreamKeepsRate == Spec => []WindowBound
BY StreamDrivesBucket, RateIsKept, PTL

(* No item goes out on a token that is not there.                          *)
THEOREM StreamNeverInDebt == Spec => []NoDebt
BY StreamDrivesBucket, BucketIsNeverInDebt, PTL
-----------------------------------------------------------------------------
(* Arithmetic: quotient and remainder are the only ones. *)

LEMMA ProductGrows ==
  ASSUME NEW d \in Nat, NEW p \in Int, NEW q \in Int, p < q
  PROVE  d * p + d <= d * q
<1>1. q - p - 1 \in Nat
  OBVIOUS
<1>2. d * (q - p - 1) \in Nat
  BY <1>1
<1>3. d * (q - p - 1) = d * q - d * p - d
  OBVIOUS
<1> QED BY <1>2, <1>3

LEMMA DivisionUnique ==
  ASSUME NEW d \in Nat \ {0}, NEW q \in Nat, NEW r \in 0..(d - 1), NEW n \in Nat,
         n = d * q + r
  PROVE  n \div d = q /\ n % d = r
<1> DEFINE p == n \div d
           s == n % d
<1>1. p \in Int /\ s \in 0..(d - 1) /\ n = d * p + s
  OBVIOUS
<1> HIDE DEF p, s
<1>2. ~(p < q)
  <2> SUFFICES ASSUME p < q PROVE FALSE
    OBVIOUS
  <2>1. d * p + d <= d * q
    BY <1>1, ProductGrows
  <2>2. d * p \in Int /\ d * q \in Int
    BY <1>1
  <2> QED BY <1>1, <2>1, <2>2
<1>3. ~(q < p)
  <2> SUFFICES ASSUME q < p PROVE FALSE
    OBVIOUS
  <2>1. d * q + d <= d * p
    BY <1>1, ProductGrows
  <2>2. d * p \in Int /\ d * q \in Int
    BY <1>1
  <2> QED BY <1>1, <2>1, <2>2
<1>4. p = q
  BY <1>1, <1>2, <1>3
<1>5. s = r
  <2>1. d * q \in Int /\ n = d * q + s
    BY <1>1, <1>4
  <2> QED BY <1>1, <2>1
<1> QED BY <1>4, <1>5 DEF p, s

(* A progress line more is due after item n when the interval divides n.   *)
LEMMA ProgressLinesGrow ==
  ASSUME NEW n \in Nat
  PROVE  /\ ProgressLines(n) \in Nat
         /\ ProgressLines(n + 1) =
              IF Interval > 0 /\ n > 0 /\ n % Interval = 0
              THEN ProgressLines(n) + 1 ELSE ProgressLines(n)
<1>1. CASE Interval = 0
  BY <1>1 DEF ProgressLines
<1>2. CASE Interval > 0 /\ n = 0
  <2>1. 0 = Interval * 0 + 0
    OBVIOUS
  <2>2. 0 \div Interval = 0
    BY <1>2, <2>1, DivisionUnique
  <2> QED BY <1>2, <2>2 DEF ProgressLines
<1>3. CASE Interval > 0 /\ n > 0
  <2> DEFINE q == (n - 1) \div Interval
             r == (n - 1) % Interval
  <2>1. q \in Nat /\ r \in 0..(Interval - 1) /\ n - 1 = Interval * q + r
    BY <1>3
  <2>2. ProgressLines(n) = q /\ ProgressLines(n + 1) = n \div Interval
    BY <1>3 DEF ProgressLines
  <2> HIDE DEF q, r
  <2>3. Interval * q \in Nat
    BY <2>1
  <2>4. CASE r = Interval - 1
    <3>1. Interval * (q + 1) = Interval * q + Interval
      BY <2>1, TimesSuccessor
    <3>2. n = Interval * (q + 1) + 0
      BY <2>1, <2>3, <2>4, <3>1
    <3>3. n \div Interval = q + 1 /\ n % Interval = 0
      BY <1>3, <2>1, <3>2, DivisionUnique
    <3> QED BY <1>3, <2>1, <2>2, <3>3
  <2>5. CASE r # Interval - 1
    <3>1. n = Interval * q + (r + 1) /\ r + 1 \in 0..(Interval - 1)
      BY <2>1, <2>3, <2>5
    <3>2. n \div Interval = q /\ n % Interval = r + 1
      BY <1>3, <2>1, <3>1, DivisionUnique
    <3> QED BY <1>3, <2>1, <2>2, <3>2
  <2> QED BY <2>4, <2>5
<1> QED BY <1>1, <1>2, <1>3
-----------------------------------------------------------------------------
(* The counters. *)

CountersOK ==
  /\ connected \in BOOLEAN
  /\ pc \in {"create", "generate", "acquire", "number", "send", "progress", "close", "done"}
  /\ sequence \in Nat /\ seq \in Nat /\ sunk \in Nat /\ failed \in Nat

Due(n) == n + ProgressLines(n)

(* While an item or its progress line is under way, the sequence is ahead  *)
(* of the sink by what is still to be written.                             *)
Counted ==
  /\ pc \notin {"send", "progress"} =>
       /\ sequence <= sunk + failed /\ sunk + failed <= Due(sequence)
       /\ connected => failed = 0 /\ sunk = Due(sequence)
  /\ pc = "send" =>
       /\ sequence = seq + 1
       /\ seq <= sunk + failed /\ sunk + failed <= Due(seq)
       /\ connected => failed = 0 /\ sunk = Due(seq)
  /\ pc = "progress" =>
       /\ sequence = seq + 1 /\ ProgressIsDue
       /\ sequence <= sunk + failed /\ sunk + failed <= Due(seq) + 1
       /\ connected => failed = 0 /\ sunk = Due(seq) + 1

CountInv == CountersOK /\ Counted

LEMMA DueGrows ==
  ASSUME CountersOK
  PROVE  /\ Due(seq) \in Nat /\ Due(sequence) \in Nat
         /\ Due(seq + 1) = Due(seq) + (IF ProgressIsDue THEN 2 ELSE 1)
<1>1. ProgressLines(seq) \in Nat /\ ProgressLines(sequence) \in Nat
  BY ProgressLinesGrow DEF CountersOK
<1>2. ProgressLines(seq + 1) = IF ProgressIsDue THEN ProgressLines(seq) + 1
                                               ELSE ProgressLines(seq)
  BY ProgressLinesGrow DEF CountersOK, ProgressIsDue
<1> QED BY <1>1, <1>2 DEF CountersOK, Due

LEMMA CountInvInit == Init => CountInv
<1>1. Due(0) = 0
  BY DEF Due, ProgressLines
<1> QED BY <1>1 DEF Init, CountInv, CountersOK, Counted

LEMMA CountInvNext == CountInv /\ [Next]_vars => CountInv'
<1> SUFFICES ASSUME CountInv, [Next]_vars PROVE CountInv'
  OBVIOUS
<1> USE DEF CountInv
<1>0. CountersOK /\ Due(seq) \in Nat /\ Due(sequence) \in Nat
  BY DueGrows
<1>1. CASE Create \/ CreateFails \/ NextItem \/ Generated \/ Unlimited \/ Acquire
  BY <1>1 DEF Create, CreateFails, NextItem, Generated, Unlimited, Acquire,
       At, Goto, client, CountersOK, Counted, ProgressIsDue
<1>2. CASE FallAsleep
  BY <1>2 DEF FallAsleep, task, client, CountersOK, Counted, ProgressIsDue
<1>3. CASE Number
  BY <1>3, <1>0 DEF Number, At, Goto, client, CountersOK, Counted, ProgressIsDue
<1>4. CASE SendItem
  <2>1. CountersOK'
    BY <1>4 DEF SendItem, Goto, client, CountersOK
  <2>2. /\ sequence = seq + 1 /\ sequence' = sequence /\ seq' = seq /\ sunk' = sunk + 1
        /\ failed' = failed /\ connected' = connected /\ ProgressIsDue' = ProgressIsDue
        /\ pc' = IF ProgressIsDue THEN "progress" ELSE "generate"
    BY <1>4 DEF SendItem, At, Goto, client, Counted, ProgressIsDue
  <2>3. /\ seq <= sunk + failed /\ sunk + failed <= Due(seq)
        /\ connected => failed = 0 /\ sunk = Due(seq)
    BY <1>4 DEF SendItem, At, Counted
  <2>4. CASE ProgressIsDue
    BY <1>0, <2>2, <2>3, <2>4 DEF CountersOK, Counted
  <2>5. CASE ~ProgressIsDue
    <3>1. Due(sequence) = Due(seq) + 1
      BY <2>2, <2>5, DueGrows
    <3> QED BY <1>0, <2>1, <2>2, <2>3, <2>5, <3>1 DEF CountersOK, Counted
  <2> QED BY <2>1, <2>4, <2>5
<1>5. CASE SendProgress
  <2>1. /\ pc = "progress" /\ sequence = seq + 1 /\ ProgressIsDue
        /\ Due(sequence) = Due(seq) + 2
    BY <1>5, DueGrows DEF SendProgress, At, Counted
  <2> QED BY <1>5, <1>0, <2>1 DEF SendProgress, Goto, client, CountersOK, Counted
<1>6. CASE SendFails
  <2>1. /\ sequence = seq + 1
        /\ Due(sequence) = Due(seq) + (IF ProgressIsDue THEN 2 ELSE 1)
    BY <1>6, DueGrows DEF SendFails, Counted
  <2>2. CASE pc = "send"
    BY <1>6, <1>0, <2>1, <2>2 DEF SendFails, Goto, client, CountersOK, Counted
  <2>3. CASE pc = "progress"
    BY <1>6, <1>0, <2>1, <2>3 DEF SendFails, Goto, client, CountersOK, Counted
  <2> QED BY <1>6, <2>2, <2>3 DEF SendFails
<1>7. CASE Close
  BY <1>7 DEF Close, At, Goto, client, CountersOK, Counted
<1>8. CASE Read \/ SeeEnd \/ TimePasses \/ UNCHANGED vars
  BY <1>8 DEF Read, SeeEnd, TimePasses, vars, task, client, CountersOK, Counted, ProgressIsDue
<1>9. CASE HangUp
  BY <1>9 DEF HangUp, task, CountersOK, Counted, ProgressIsDue
<1> QED BY <1>1, <1>2, <1>3, <1>4, <1>5, <1>6, <1>7, <1>8, <1>9 DEF Next, TaskStep

(* Every attempt is in one of the two counts: what the pipeline has        *)
(* numbered and what the sink has written differ by failures and progress  *)
(* lines only (RateLimitedPipeline::emit, ChannelPhaseSink::emit), for any *)
(* number of items and any interval.                                       *)
THEOREM AttemptsAreAccountedFor == Spec => []AttemptsAccountedFor
<1>1. CountInv => AttemptsAccountedFor
  <2> SUFFICES ASSUME CountInv PROVE AttemptsAccountedFor
    OBVIOUS
  <2>1. /\ Due(seq) \in Nat /\ Due(sequence) \in Nat
        /\ Due(seq + 1) = Due(seq) + (IF ProgressIsDue THEN 2 ELSE 1)
    BY DueGrows DEF CountInv
  <2>2. Due(sequence) = sequence + ProgressLines(sequence)
    BY DEF Due
  <2> QED BY <2>1, <2>2 DEF CountInv, CountersOK, Counted, AttemptsAccountedFor
<1> QED BY <1>1, CountInvInit, CountInvNext, PTL DEF Spec
-----------------------------------------------------------------------------
(* Types. *)

Lines == [kind: {"item", "progress", "complete", "error"}, number: Nat]

(* The number is drawn only while items are left, and written after it.    *)
TypeInv ==
  /\ TypeOK
  /\ lines \in Seq(Lines)
  /\ pc \in {"acquire", "number"} => sequence < Items

LEMMA TypeInvNext == TypeInv /\ [Next]_vars => TypeInv'
<1> SUFFICES ASSUME TypeInv, [Next]_vars PROVE TypeInv'
  OBVIOUS
<1> USE DEF TypeInv, TypeOK, At, Goto
<1>1. CASE Create \/ CreateFails \/ NextItem \/ Generated \/ Unlimited \/ Acquire
  BY <1>1 DEF Create, CreateFails, NextItem, Generated, Unlimited, Acquire, client, Outcomes
<1>2. CASE FallAsleep
  BY <1>2 DEF FallAsleep, task, client
<1>3. CASE Number
  BY <1>3 DEF Number, client
<1>4. CASE SendItem
  <2>1. Item(seq) \in Lines
    BY DEF Item, Lines
  <2>2. lines' \in Seq(Lines) /\ Len(lines') <= Buffered
    BY <1>4, <2>1 DEF SendItem
  <2> QED BY <1>4, <2>2 DEF SendItem, client
<1>5. CASE SendProgress
  <2>1. Progress(seq) \in Lines
    BY DEF Progress, Lines
  <2>2. lines' \in Seq(Lines) /\ Len(lines') <= Buffered
    BY <1>5, <2>1 DEF SendProgress
  <2> QED BY <1>5, <2>2 DEF SendProgress, client
<1>6. CASE SendFails
  BY <1>6 DEF SendFails, client
<1>7. CASE Close
  <2>1. Closing(outcome) \in Lines
    BY DEF Closing, Lines, Outcomes
  <2>2. lines' \in Seq(Lines) /\ Len(lines') <= Buffered
    BY <1>7, <2>1 DEF Close
  <2> QED BY <1>7, <2>2 DEF Close, client
<1>8. CASE Read
  <2>1. lines' \in Seq(Lines) /\ Len(lines') <= Buffered
    BY <1>8 DEF Read
  <2> QED BY <1>8, <2>1 DEF Read, task
<1>9. CASE HangUp
  <2>1. <<>> \in Seq(Lines) /\ Len(<<>>) = 0
    OBVIOUS
  <2>2. lines' \in Seq(Lines) /\ Len(lines') = 0
    BY <1>9, <2>1 DEF HangUp
  <2>3. connected' = FALSE /\ UNCHANGED <<task, received, ended>>
    BY <1>9 DEF HangUp
  <2>4. Len(lines') <= Buffered
    BY <2>2
  <2>5. connected' \in BOOLEAN
    BY <2>3
  <2>6. UNCHANGED <<limited, pc, sequence, seq, sunk, failed, outcome, ended>>
    BY <2>3 DEF task
  <2> QED BY <2>2, <2>4, <2>5, <2>6
<1>10. CASE SeeEnd \/ TimePasses \/ UNCHANGED vars
  BY <1>10 DEF SeeEnd, TimePasses, vars, task, client
<1> QED BY <1>1, <1>2, <1>3, <1>4, <1>5, <1>6, <1>7, <1>8, <1>9, <1>10 DEF Next, TaskStep

LEMMA TypeInvInit ==
  ASSUME Init PROVE TypeInv
<1>1. <<>> \in Seq(Lines) /\ Len(<<>>) = 0
  OBVIOUS
<1>2. lines \in Seq(Lines) /\ Len(lines) = 0
  BY <1>1 DEF Init
<1>3. Len(lines) <= Buffered
  BY <1>2
<1>4. limited \in BOOLEAN /\ connected \in BOOLEAN /\ ended \in BOOLEAN
  BY DEF Init
<1>5. /\ pc = "create" /\ outcome = "complete"
      /\ sequence = 0 /\ seq = 0 /\ sunk = 0 /\ failed = 0
  BY DEF Init
<1> QED BY <1>2, <1>3, <1>4, <1>5 DEF TypeInv, TypeOK, Outcomes

(* The task's variables keep their types, the channel its bound and the    *)
(* sequence the number of items.                                           *)
THEOREM StreamTypeCorrect == Spec => []TypeOK
<1>1. Init => TypeInv
  BY TypeInvInit
<1>2. TypeInv => TypeOK
  BY DEF TypeInv
<1> QED BY <1>1, <1>2, TypeInvNext, PTL DEF Spec
-----------------------------------------------------------------------------
(* The lines of a stream. *)

LEMMA ItemsAreLines ==
  ASSUME NEW k \in Nat
  PROVE  Item(k) \in Lines /\ Progress(k) \in Lines
BY DEF Item, Progress, Lines

(* Lines that go through the channel, one at its end and one at its front. *)
LEMMA LinesMove ==
  ASSUME NEW s \in Seq(Lines), NEW t \in Seq(Lines)
  PROVE  /\ \A x \in Lines : s \o Append(t, x) = Append(s \o t, x)
         /\ t # <<>> => Append(s, Head(t)) \o Tail(t) = s \o t
<1>1. /\ s \o t \in Seq(Lines) /\ Len(s) \in Nat /\ Len(t) \in Nat
      /\ Len(s \o t) = Len(s) + Len(t)
      /\ \A i \in 1..(Len(s) + Len(t)) :
           (s \o t)[i] = IF i <= Len(s) THEN s[i] ELSE t[i - Len(s)]
  BY ConcatProperties, LenProperties
<1>2. ASSUME NEW x \in Lines PROVE s \o Append(t, x) = Append(s \o t, x)
  <2> DEFINE a == Append(t, x)
             b == Append(s \o t, x)
             c == s \o a
  <2>1. /\ a \in Seq(Lines) /\ Len(a) = Len(t) + 1 /\ a[Len(t) + 1] = x
        /\ \A i \in 1..Len(t) : a[i] = t[i]
    BY AppendProperties
  <2>2. /\ b \in Seq(Lines) /\ Len(b) = Len(s) + Len(t) + 1
        /\ b[Len(s) + Len(t) + 1] = x
        /\ \A i \in 1..(Len(s) + Len(t)) : b[i] = (s \o t)[i]
    BY <1>1, AppendProperties
  <2>3. /\ c \in Seq(Lines) /\ Len(c) = Len(s) + Len(t) + 1
        /\ \A i \in 1..(Len(s) + Len(t) + 1) :
             c[i] = IF i <= Len(s) THEN s[i] ELSE a[i - Len(s)]
    <3> HIDE DEF a
    <3>1. /\ s \o a \in Seq(Lines) /\ Len(s \o a) = Len(s) + Len(a)
          /\ \A i \in 1..(Len(s) + Len(a)) :
               (s \o a)[i] = IF i <= Len(s) THEN s[i] ELSE a[i - Len(s)]
      BY <2>1, ConcatProperties
    <3>2. Len(s) + Len(a) = Len(s) + Len(t) + 1
      BY <1>1, <2>1
    <3> QED BY <3>1, <3>2
  <2> HIDE DEF a, b, c
  <2>4. ASSUME NEW i \in 1..(Len(s) + Len(t) + 1) PROVE c[i] = b[i]
    <3>1. CASE i <= Len(s)
      <4>1. i \in 1..(Len(s) + Len(t))
        BY <1>1, <3>1
      <4> QED BY <1>1, <2>2, <2>3, <3>1, <4>1
    <3>2. CASE i > Len(s) /\ i <= Len(s) + Len(t)
      <4>1. i - Len(s) \in 1..Len(t) /\ i \in 1..(Len(s) + Len(t)) /\ ~(i <= Len(s))
        BY <1>1, <3>2
      <4> QED BY <1>1, <2>1, <2>2, <2>3, <4>1
    <3>3. CASE i = Len(s) + Len(t) + 1
      <4>1. i - Len(s) = Len(t) + 1 /\ ~(i <= Len(s))
        BY <1>1, <3>3
      <4> QED BY <2>1, <2>2, <2>3, <3>3, <4>1
    <3> QED BY <1>1, <3>1, <3>2, <3>3
  <2>5. c = b
    BY <2>2, <2>3, <2>4, SeqEqual
  <2> QED BY <2>5 DEF a, b, c
<1>3. ASSUME t # <<>> PROVE Append(s, Head(t)) \o Tail(t) = s \o t
  <2> DEFINE a == Append(s, Head(t))
             r == Tail(t)
             c == a \o r
             b == s \o t
  <2>1. /\ Len(t) > 0 /\ Head(t) \in Lines /\ Head(t) = t[1]
        /\ r \in Seq(Lines) /\ Len(r) = Len(t) - 1
        /\ \A i \in 1..(Len(t) - 1) : r[i] = t[i + 1]
    BY <1>3, HeadTailProperties, EmptySeq, LenProperties
  <2>2. /\ a \in Seq(Lines) /\ Len(a) = Len(s) + 1 /\ a[Len(s) + 1] = t[1]
        /\ \A i \in 1..Len(s) : a[i] = s[i]
    BY <2>1, AppendProperties
  <2>3. /\ c \in Seq(Lines) /\ Len(c) = Len(s) + Len(t)
        /\ \A i \in 1..(Len(s) + Len(t)) :
             c[i] = IF i <= Len(s) + 1 THEN a[i] ELSE r[i - (Len(s) + 1)]
    <3> HIDE DEF a, r
    <3>1. /\ a \o r \in Seq(Lines) /\ Len(a \o r) = Len(a) + Len(r)
          /\ \A i \in 1..(Len(a) + Len(r)) :
               (a \o r)[i] = IF i <= Len(a) THEN a[i] ELSE r[i - Len(a)]
      BY <2>1, <2>2, ConcatProperties
    <3>2. Len(a) + Len(r) = Len(s) + Len(t)
      BY <1>1, <2>1, <2>2
    <3> QED BY <2>2, <3>1, <3>2
  <2>4. /\ b \in Seq(Lines) /\ Len(b) = Len(s) + Len(t)
        /\ \A i \in 1..(Len(s) + Len(t)) : b[i] = IF i <= Len(s) THEN s[i] ELSE t[i - Len(s)]
    BY <1>1
  <2> HIDE DEF a, b, c, r
  <2>5. ASSUME NEW i \in 1..(Len(s) + Len(t)) PROVE c[i] = b[i]
    <3>1. CASE i <= Len(s)
      BY <1>1, <2>2, <2>3, <2>4, <3>1
    <3>2. CASE i = Len(s) + 1
      <4>1. i - Len(s) = 1 /\ ~(i <= Len(s)) /\ i <= Len(s) + 1
        BY <1>1, <3>2
      <4> QED BY <2>2, <2>3, <2>4, <3>2, <4>1
    <3>3. CASE i > Len(s) + 1
      <4>1. /\ i - (Len(s) + 1) \in 1..(Len(t) - 1) /\ ~(i <= Len(s)) /\ ~(i <= Len(s) + 1)
            /\ (i - (Len(s) + 1)) + 1 = i - Len(s)
        BY <1>1, <3>3
      <4> QED BY <2>1, <2>3, <2>4, <4>1
    <3> QED BY <1>1, <3>1, <3>2, <3>3
  <2>6. c = b
    BY <2>3, <2>4, <2>5, SeqEqual
  <2> QED BY <2>6 DEF a, b, c, r
<1> QED BY <1>2, <1>3

-----------------------------------------------------------------------------
(* The order of the lines. *)

ItemsIn(s, i) == Cardinality({j \in 1..i : s[j].kind = "item"})

(* s holds n items, numbered from 0, and progress lines that rise, report  *)
(* no more items than they follow and stay below bound.                    *)
InOrder(s, n, bound) ==
  /\ \A i \in 1..Len(s) :
       /\ s[i].kind \in {"item", "progress"}
       /\ s[i].kind = "item" => s[i].number = ItemsIn(s, i - 1)
       /\ s[i].kind = "progress" => s[i].number <= ItemsIn(s, i - 1) /\ s[i].number < bound
  /\ \A i, j \in 1..Len(s) :
       i < j /\ s[i].kind = "progress" /\ s[j].kind = "progress" => s[i].number < s[j].number
  /\ ItemsIn(s, Len(s)) = n

LEMMA ItemsInIsNat ==
  ASSUME NEW s, NEW i \in Nat
  PROVE  /\ IsFiniteSet({j \in 1..i : s[j].kind = "item"})
         /\ ItemsIn(s, i) \in Nat
<1>1. IsFiniteSet(1..i)
  BY FS_Interval
<1>2. IsFiniteSet({j \in 1..i : s[j].kind = "item"})
  BY <1>1, FS_Subset
<1>3. Cardinality({j \in 1..i : s[j].kind = "item"}) \in Nat
  BY <1>2, FS_CardinalityType
<1> QED BY <1>2, <1>3 DEF ItemsIn

(* A line at the end leaves the counts before it, and may add one to them. *)
LEMMA ItemsInAppended ==
  ASSUME NEW s \in Seq(Lines), NEW x \in Lines
  PROVE  /\ \A i \in 0..Len(s) : ItemsIn(Append(s, x), i) = ItemsIn(s, i)
         /\ x.kind = "item" => ItemsIn(Append(s, x), Len(s) + 1) = ItemsIn(s, Len(s)) + 1
         /\ x.kind # "item" => ItemsIn(Append(s, x), Len(s) + 1) = ItemsIn(s, Len(s))
<1> DEFINE a == Append(s, x)
           C == {j \in 1..Len(s) : s[j].kind = "item"}
           D == {j \in 1..(Len(s) + 1) : a[j].kind = "item"}
<1>1. /\ Len(s) \in Nat /\ a[Len(s) + 1] = x
      /\ \A j \in 1..Len(s) : a[j] = s[j]
  BY AppendProperties, LenProperties
<1> HIDE DEF a
<1>2. ASSUME NEW i \in 0..Len(s) PROVE ItemsIn(a, i) = ItemsIn(s, i)
  <2>1. \A j \in 1..i : a[j] = s[j]
    BY <1>1
  <2>2. {j \in 1..i : a[j].kind = "item"} = {j \in 1..i : s[j].kind = "item"}
    BY <2>1
  <2> QED BY <2>2 DEF ItemsIn
<1>3. IsFiniteSet(C)
  BY <1>1, ItemsInIsNat
<1>4. CASE x.kind = "item"
  <2>1. D = C \cup {Len(s) + 1} /\ (Len(s) + 1) \notin C
    BY <1>1, <1>4
  <2> HIDE DEF C, D
  <2>2. Cardinality(C \cup {Len(s) + 1}) = Cardinality(C) + 1
    BY <1>3, <2>1, FS_AddElement
  <2>3. Cardinality(D) = Cardinality(C) + 1
    BY <2>1, <2>2
  <2>4. ItemsIn(a, Len(s) + 1) = ItemsIn(s, Len(s)) + 1
    BY <2>3 DEF C, D, ItemsIn
  <2> QED BY <1>2, <1>4, <2>4 DEF a
<1>5. CASE x.kind # "item"
  <2>1. D = C
    BY <1>1, <1>5
  <2>2. ItemsIn(a, Len(s) + 1) = ItemsIn(s, Len(s))
    BY <2>1 DEF ItemsIn
  <2> QED BY <1>2, <1>5, <2>2 DEF a
<1> QED BY <1>4, <1>5

LEMMA ItemAppended ==
  ASSUME NEW s \in Seq(Lines), NEW n \in Nat, NEW bound \in Nat, InOrder(s, n, bound)
  PROVE  InOrder(Append(s, Item(n)), n + 1, bound)
<1> DEFINE a == Append(s, Item(n))
<1>1. /\ Item(n) \in Lines /\ Item(n).kind = "item" /\ Item(n).number = n
  BY ItemsAreLines DEF Item
<1>2. /\ Len(s) \in Nat /\ Len(a) = Len(s) + 1 /\ a[Len(s) + 1] = Item(n)
      /\ \A i \in 1..Len(s) : a[i] = s[i]
  BY <1>1, AppendProperties, LenProperties
<1>3. /\ \A i \in 0..Len(s) : ItemsIn(a, i) = ItemsIn(s, i)
      /\ ItemsIn(a, Len(s) + 1) = n + 1 /\ ItemsIn(s, Len(s)) = n
  BY <1>1, ItemsInAppended DEF InOrder
<1> HIDE DEF a
<1>4. ASSUME NEW i \in 1..Len(a)
      PROVE  /\ a[i].kind \in {"item", "progress"}
             /\ a[i].kind = "item" => a[i].number = ItemsIn(a, i - 1)
             /\ a[i].kind = "progress" => a[i].number <= ItemsIn(a, i - 1) /\ a[i].number < bound
  <2>1. CASE i \in 1..Len(s)
    <3>1. i - 1 \in 0..Len(s)
      BY <1>2, <2>1
    <3> QED BY <1>2, <1>3, <2>1, <3>1 DEF InOrder
  <2>2. CASE i = Len(s) + 1
    <3>1. i - 1 = Len(s) /\ Len(s) \in 0..Len(s)
      BY <1>2, <2>2
    <3> QED BY <1>1, <1>2, <1>3, <2>2, <3>1
  <2> QED BY <1>2, <2>1, <2>2
<1>5. ASSUME NEW i \in 1..Len(a), NEW j \in 1..Len(a),
             i < j, a[i].kind = "progress", a[j].kind = "progress"
      PROVE  a[i].number < a[j].number
  <2>1. j \in 1..Len(s)
    BY <1>1, <1>2, <1>5
  <2>2. i \in 1..Len(s)
    BY <1>2, <1>5, <2>1
  <2> QED BY <1>2, <1>5, <2>1, <2>2 DEF InOrder
<1>6. InOrder(a, n + 1, bound)
  BY <1>2, <1>3, <1>4, <1>5 DEF InOrder
<1> QED BY <1>6 DEF a

LEMMA ProgressAppended ==
  ASSUME NEW s \in Seq(Lines), NEW n \in Nat, NEW k \in Nat, k <= n, InOrder(s, n, k)
  PROVE  InOrder(Append(s, Progress(k)), n, k + 1)
<1> DEFINE a == Append(s, Progress(k))
<1>1. /\ Progress(k) \in Lines /\ Progress(k).kind = "progress" /\ Progress(k).number = k
  BY ItemsAreLines DEF Progress
<1>2. /\ Len(s) \in Nat /\ Len(a) = Len(s) + 1 /\ a[Len(s) + 1] = Progress(k)
      /\ \A i \in 1..Len(s) : a[i] = s[i]
  BY <1>1, AppendProperties, LenProperties
<1>3. /\ \A i \in 0..Len(s) : ItemsIn(a, i) = ItemsIn(s, i)
      /\ ItemsIn(a, Len(s) + 1) = n /\ ItemsIn(s, Len(s)) = n
  BY <1>1, ItemsInAppended DEF InOrder
<1>4. \A i \in 1..Len(s) : s[i].number \in Nat
  <2>1. \A i \in 1..Len(s) : s[i] \in Lines
    BY ElementOfSeq
  <2> QED BY <2>1 DEF Lines
<1> HIDE DEF a
<1>5. ASSUME NEW i \in 1..Len(a)
      PROVE  /\ a[i].kind \in {"item", "progress"}
             /\ a[i].kind = "item" => a[i].number = ItemsIn(a, i - 1)
             /\ a[i].kind = "progress" => a[i].number <= ItemsIn(a, i - 1) /\ a[i].number < k + 1
  <2>1. CASE i \in 1..Len(s)
    <3>1. i - 1 \in 0..Len(s)
      BY <1>2, <2>1
    <3>2. s[i].kind = "progress" => s[i].number < k + 1
      BY <1>4, <2>1 DEF InOrder
    <3> QED BY <1>2, <1>3, <2>1, <3>1, <3>2 DEF InOrder
  <2>2. CASE i = Len(s) + 1
    <3>1. i - 1 = Len(s) /\ Len(s) \in 0..Len(s)
      BY <1>2, <2>2
    <3> QED BY <1>1, <1>2, <1>3, <2>2, <3>1
  <2> QED BY <1>2, <2>1, <2>2
<1>6. ASSUME NEW i \in 1..Len(a), NEW j \in 1..Len(a),
             i < j, a[i].kind = "progress", a[j].kind = "progress"
      PROVE  a[i].number < a[j].number
  <2>1. i \in 1..Len(s)
    BY <1>2, <1>6
  <2>2. CASE j \in 1..Len(s)
    BY <1>2, <1>6, <2>1, <2>2 DEF InOrder
  <2>3. CASE j = Len(s) + 1
    BY <1>1, <1>2, <1>6, <2>1, <2>3 DEF InOrder
  <2> QED BY <1>2, <2>2, <2>3
<1>7. InOrder(a, n, k + 1)
  BY <1>2, <1>3, <1>5, <1>6 DEF InOrder
<1> QED BY <1>7 DEF a

LEMMA BoundLoosens ==
  ASSUME NEW s \in Seq(Lines), NEW n \in Nat, NEW b \in Nat, NEW c \in Nat, b <= c,
         InOrder(s, n, b)
  PROVE  InOrder(s, n, c)
<1>1. \A i \in 1..Len(s) : s[i].number \in Nat
  <2>1. \A i \in 1..Len(s) : s[i] \in Lines
    BY ElementOfSeq
  <2> QED BY <2>1 DEF Lines
<1>2. \A i \in 1..Len(s) : s[i].kind = "progress" => s[i].number < c
  BY <1>1 DEF InOrder
<1> QED BY <1>2 DEF InOrder

LEMMA EmptyIsInOrder == InOrder(<<>>, 0, 0)
<1>1. Len(<<>>) = 0 /\ 1..0 = {}
  OBVIOUS
<1>2. {j \in 1..0 : <<>>[j].kind = "item"} = {}
  BY <1>1
<1>3. ItemsIn(<<>>, 0) = 0
  BY <1>2, FS_EmptySet DEF ItemsIn
<1> QED BY <1>1, <1>3 DEF InOrder

-----------------------------------------------------------------------------
(* What the client reads, with what waits for it, is in order. *)

Written == IF pc = "send" THEN seq ELSE sequence
Reported == IF pc \in {"send", "progress"} THEN seq ELSE sequence

Closed == \E s \in Seq(Lines) :
            InOrder(s, sequence, sequence) /\ Stream = Append(s, Closing(outcome))

WholeInv ==
  /\ TypeInv /\ CountInv /\ received \in Seq(Lines)
  /\ connected /\ pc # "done" => InOrder(Stream, Written, Reported)
  /\ connected /\ pc = "done" => Closed

LEMMA WholeInit == Init => WholeInv
<1> SUFFICES ASSUME Init PROVE WholeInv
  OBVIOUS
<1>1. TypeInv /\ CountInv
  BY TypeInvInit, CountInvInit
<1>2. received = <<>> /\ lines = <<>> /\ pc = "create" /\ sequence = 0
  BY DEF Init
<1>3. <<>> \in Seq(Lines) /\ <<>> \o <<>> = <<>>
  OBVIOUS
<1>4. Stream = <<>> /\ Written = 0 /\ Reported = 0
  BY <1>2, <1>3 DEF Stream, Written, Reported
<1> QED BY <1>1, <1>2, <1>3, <1>4, EmptyIsInOrder DEF WholeInv

LEMMA WholeNext ==
  ASSUME WholeInv, TypeInv', CountInv', [Next]_vars PROVE WholeInv'
<1>1. /\ received \in Seq(Lines) /\ lines \in Seq(Lines) /\ Stream \in Seq(Lines)
      /\ sequence \in Nat /\ seq \in Nat /\ outcome \in Outcomes
      /\ pc \in {"send", "progress"} => sequence = seq + 1
  BY DEF WholeInv, TypeInv, TypeOK, CountInv, CountersOK, Counted, Stream
<1>2. /\ connected /\ pc # "done" => InOrder(Stream, Written, Reported)
      /\ connected /\ pc = "done" => Closed
  BY DEF WholeInv
<1>3. SUFFICES /\ received' \in Seq(Lines)
               /\ connected' /\ pc' # "done" => InOrder(Stream', Written', Reported')
               /\ connected' /\ pc' = "done" => Closed'
  BY DEF WholeInv
<1> USE DEF At, Goto
<1>4. CASE Create \/ CreateFails \/ NextItem \/ Generated \/ Unlimited \/ Acquire
  <2>1. /\ UNCHANGED <<sequence, lines, connected, received>>
        /\ pc \notin {"send", "progress", "done"} /\ pc' \notin {"send", "progress", "done"}
    BY <1>4 DEF Create, CreateFails, NextItem, Generated, Unlimited, Acquire, client
  <2>2. Stream' = Stream /\ Written' = Written /\ Reported' = Reported
    BY <2>1 DEF Stream, Written, Reported
  <2> QED BY <1>1, <1>2, <2>1, <2>2
<1>5. CASE FallAsleep \/ SeeEnd \/ TimePasses \/ UNCHANGED vars
  <2>1. UNCHANGED <<pc, sequence, seq, outcome, lines, connected, received>>
    BY <1>5 DEF FallAsleep, SeeEnd, TimePasses, vars, task, client
  <2>2. Stream' = Stream /\ Written' = Written /\ Reported' = Reported /\ Closed' = Closed
    BY <2>1 DEF Stream, Written, Reported, Closed
  <2> QED BY <1>1, <1>2, <2>1, <2>2
<1>6. CASE Number
  <2>1. /\ pc = "number" /\ pc' = "send" /\ seq' = sequence
        /\ UNCHANGED <<lines, connected, received>>
    BY <1>6 DEF Number, client
  <2>2. /\ Stream' = Stream
        /\ Written = sequence /\ Written' = sequence
        /\ Reported = sequence /\ Reported' = sequence
    BY <2>1 DEF Stream, Written, Reported
  <2> QED BY <1>1, <1>2, <2>1, <2>2
<1>7. CASE SendItem
  <2>1. /\ pc = "send" /\ connected /\ lines' = Append(lines, Item(seq))
        /\ pc' \in {"progress", "generate"}
        /\ UNCHANGED <<sequence, seq, connected, received>>
    BY <1>7 DEF SendItem, client
  <2>2. /\ Item(seq) \in Lines
        /\ Written = seq /\ Reported = seq /\ sequence = seq + 1
        /\ Written' = sequence
        /\ Reported' = IF pc' = "progress" THEN seq ELSE sequence
    BY <1>1, <2>1, ItemsAreLines DEF Written, Reported
  <2>3. Stream' = Append(Stream, Item(seq))
    BY <1>1, <2>1, <2>2, LinesMove DEF Stream
  <2>4. InOrder(Stream, seq, seq)
    BY <1>2, <2>1, <2>2
  <2>5. InOrder(Stream', sequence, seq)
    BY <1>1, <2>2, <2>3, <2>4, ItemAppended
  <2>6. Stream' \in Seq(Lines) /\ seq <= sequence
    BY <1>1, <2>2, <2>3
  <2>7. InOrder(Stream', sequence, sequence)
    BY <1>1, <2>5, <2>6, BoundLoosens
  <2> QED BY <1>1, <2>1, <2>2, <2>5, <2>7
<1>8. CASE SendProgress
  <2>1. /\ pc = "progress" /\ connected /\ lines' = Append(lines, Progress(seq))
        /\ pc' = "generate" /\ UNCHANGED <<sequence, seq, connected, received>>
    BY <1>8 DEF SendProgress, client
  <2>2. /\ Progress(seq) \in Lines /\ sequence = seq + 1 /\ seq <= sequence
        /\ Written = sequence /\ Reported = seq
        /\ Written' = sequence /\ Reported' = sequence
    BY <1>1, <2>1, ItemsAreLines DEF Written, Reported
  <2>3. Stream' = Append(Stream, Progress(seq))
    BY <1>1, <2>1, <2>2, LinesMove DEF Stream
  <2>4. InOrder(Stream, sequence, seq)
    BY <1>2, <2>1, <2>2
  <2>5. InOrder(Stream', sequence, sequence)
    BY <1>1, <2>2, <2>3, <2>4, ProgressAppended
  <2> QED BY <1>1, <2>1, <2>2, <2>5
<1>9. CASE SendFails
  BY <1>1, <1>9 DEF SendFails, client
<1>10. CASE Close
  <2>1. /\ pc = "close" /\ pc' = "done" /\ UNCHANGED <<sequence, outcome, connected, received>>
        /\ connected => lines' = Append(lines, Closing(outcome))
    BY <1>10 DEF Close, client
  <2>2. /\ Closing(outcome) \in Lines
        /\ Written = sequence /\ Reported = sequence
    BY <1>1, <2>1 DEF Closing, Lines, Outcomes, Written, Reported
  <2>3. connected => Stream' = Append(Stream, Closing(outcome))
    BY <1>1, <2>1, <2>2, LinesMove DEF Stream
  <2>4. connected => InOrder(Stream, sequence, sequence)
    BY <1>2, <2>1, <2>2
  <2>5. connected => Closed'
    BY <1>1, <2>1, <2>3, <2>4 DEF Closed
  <2> QED BY <1>1, <2>1, <2>5
<1>11. CASE Read
  <2>1. /\ lines # <<>> /\ received' = Append(received, Head(lines)) /\ lines' = Tail(lines)
        /\ UNCHANGED <<pc, sequence, seq, outcome, connected>>
    BY <1>11 DEF Read, task
  <2>2. Stream' = Stream
    BY <1>1, <2>1, LinesMove DEF Stream
  <2>3. received' \in Seq(Lines)
    BY <1>1, <2>1
  <2>4. Written' = Written /\ Reported' = Reported /\ Closed' = Closed
    BY <2>1, <2>2 DEF Written, Reported, Closed
  <2> QED BY <1>1, <1>2, <2>1, <2>2, <2>3, <2>4
<1>12. CASE HangUp
  BY <1>1, <1>12 DEF HangUp
<1> QED BY <1>4, <1>5, <1>6, <1>7, <1>8, <1>9, <1>10, <1>11, <1>12 DEF Next, TaskStep

LEMMA OpenStreamIsWhole ==
  ASSUME WholeInv, connected, pc # "done" PROVE StreamIsWhole
<1>1. InOrder(Stream, Written, Reported)
  BY DEF WholeInv
<1>2. \A i \in 1..Len(Stream) : Seen(i - 1) = ItemsIn(Stream, i - 1)
  BY DEF Seen, ItemsIn
<1>3. Seen(Len(Stream)) = Written
  BY <1>1 DEF Seen, ItemsIn, InOrder
<1>4. Written = IF At("send") THEN seq ELSE sequence
  BY DEF Written, At
<1>5. ~At("done")
  BY DEF At
<1> HIDE DEF Stream, Seen, Written, At
<1>6. ASSUME NEW i \in 1..Len(Stream)
      PROVE  CASE Stream[i].kind = "item"     -> Stream[i].number = Seen(i - 1)
               [] Stream[i].kind = "progress" -> Stream[i].number <= Seen(i - 1)
               [] OTHER -> i = Len(Stream) /\ At("done")
  BY <1>1, <1>2 DEF InOrder
<1>7. \A i, j \in 1..Len(Stream) :
         i < j /\ Stream[i].kind = "progress" /\ Stream[j].kind = "progress" =>
           Stream[i].number < Stream[j].number
  BY <1>1 DEF InOrder
<1> QED BY <1>3, <1>4, <1>5, <1>6, <1>7 DEF StreamIsWhole

LEMMA ClosedStreamIsWhole ==
  ASSUME WholeInv, connected, pc = "done" PROVE StreamIsWhole
<1>1. PICK s \in Seq(Lines) :
        InOrder(s, sequence, sequence) /\ Stream = Append(s, Closing(outcome))
  BY DEF WholeInv, Closed
<1>2. /\ Closing(outcome) \in Lines /\ Closing(outcome).kind \in Outcomes
      /\ Closing(outcome).kind \notin {"item", "progress"}
  BY DEF WholeInv, TypeInv, TypeOK, Closing, Lines, Outcomes
<1>3. /\ Len(s) \in Nat /\ Len(Stream) = Len(s) + 1
      /\ Stream[Len(s) + 1] = Closing(outcome)
      /\ \A i \in 1..Len(s) : Stream[i] = s[i]
  BY <1>1, <1>2, AppendProperties, LenProperties
<1>4. /\ \A i \in 0..Len(s) : ItemsIn(Stream, i) = ItemsIn(s, i)
      /\ ItemsIn(Stream, Len(s) + 1) = ItemsIn(s, Len(s))
  BY <1>1, <1>2, ItemsInAppended
<1>5. ItemsIn(s, Len(s)) = sequence
  BY <1>1 DEF InOrder
<1>6. Seen(Len(Stream)) = sequence
  BY <1>3, <1>4, <1>5 DEF Seen, ItemsIn
<1>7. \A i \in 1..Len(s) : Seen(i - 1) = ItemsIn(s, i - 1)
  <2> SUFFICES ASSUME NEW i \in 1..Len(s) PROVE Seen(i - 1) = ItemsIn(s, i - 1)
    OBVIOUS
  <2>1. i - 1 \in 0..Len(s)
    BY <1>3
  <2>2. Seen(i - 1) = ItemsIn(Stream, i - 1)
    BY DEF Seen, ItemsIn
  <2> QED BY <1>4, <2>1, <2>2
<1>8. At("done") /\ ~At("send")
  BY DEF At
<1> HIDE DEF Stream, Seen, At
<1>9. ASSUME NEW i \in 1..Len(Stream)
      PROVE  CASE Stream[i].kind = "item"     -> Stream[i].number = Seen(i - 1)
               [] Stream[i].kind = "progress" -> Stream[i].number <= Seen(i - 1)
               [] OTHER -> i = Len(Stream) /\ At("done")
  <2>1. CASE i \in 1..Len(s)
    BY <1>1, <1>3, <1>7, <2>1 DEF InOrder
  <2>2. CASE i = Len(s) + 1
    BY <1>2, <1>3, <1>8, <2>2
  <2> QED BY <1>3, <2>1, <2>2
<1>10. ASSUME NEW i \in 1..Len(Stream), NEW j \in 1..Len(Stream),
              i < j, Stream[i].kind = "progress", Stream[j].kind = "progress"
       PROVE  Stream[i].number < Stream[j].number
  <2>1. j \in 1..Len(s)
    BY <1>2, <1>3, <1>10
  <2>2. i \in 1..Len(s)
    BY <1>3, <1>10, <2>1
  <2> QED BY <1>1, <1>3, <1>10, <2>1, <2>2 DEF InOrder
<1>11. Stream # <<>> /\ Stream[Len(Stream)] = Closing(outcome)
  BY <1>3
<1> QED BY <1>6, <1>8, <1>9, <1>10, <1>11 DEF StreamIsWhole

(* The stream of a client that stays has no gap: its items carry 0, 1, 2   *)
(* and so on, its progress lines rise and report no more items than they   *)
(* follow, and a closing line that tells the outcome is its last           *)
(* (RateLimitedPipeline draws the number before it writes, stream_ndjson   *)
(* closes the body).                                                       *)
THEOREM BodyIsWhole == Spec => []StreamIsWhole
<1>1. TypeInv /\ CountInv /\ [Next]_vars => TypeInv' /\ CountInv'
  BY TypeInvNext, CountInvNext
<1>2. WholeInv /\ [Next]_vars => WholeInv'
  BY <1>1, WholeNext DEF WholeInv
<1>3. WholeInv => StreamIsWhole
  BY OpenStreamIsWhole, ClosedStreamIsWhole DEF StreamIsWhole
<1> QED BY <1>2, <1>3, WholeInit, PTL DEF Spec
=============================================================================
