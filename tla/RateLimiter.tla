----------------------------- MODULE RateLimiter -----------------------------
(***************************************************************************)
(* The token bucket of datasynth-core (rate_limit/limiter.rs) as the       *)
(* streaming pipeline uses it: acquire() with the Block strategy.          *)
(*                                                                         *)
(* Tokens are counted in units, Unit of them to the token, and Rate units  *)
(* come in with every tick of the clock.  The bucket does not know the     *)
(* time: it keeps the instant of its last refill, here the number of ticks *)
(* since then, and adds what they are worth when it is asked for a token.  *)
(*                                                                         *)
(* `window` observes the bucket and is read by nobody: it counts the ticks *)
(* and the tokens granted since a moment that may be any.                  *)
(***************************************************************************)
EXTENDS Integers

CONSTANTS Unit,      \* the units of a token
          Rate,      \* the units that come in with a tick
          Burst,     \* the tokens the bucket holds
          MaxIdle,   \* bound: more ticks without a refill are not told apart
          MaxAge     \* bound: a window is no older than this

ASSUME UnitAssumption == Unit \in Nat \ {0}
ASSUME RateAssumption == Rate \in Nat \ {0}
ASSUME BurstAssumption == Burst \in Nat
ASSUME MaxIdleAssumption == MaxIdle \in Nat /\ Rate * MaxIdle >= Unit * (Burst + 1)
ASSUME MaxAgeAssumption == MaxAge \in Nat

VARIABLES
  tokens,   \* what is in the bucket, in units, since the last refill
  since,    \* ticks since the last refill
  due,      \* ticks the caller still has to sleep, or NotAsleep
  window    \* ticks and grants since the window began

bucket == <<tokens, since, due, window>>

NotAsleep == -1
Asleep == due # NotAsleep

Smaller(m, n) == IF m < n THEN m ELSE n

(* RateLimiter::new: the bucket is full. *)
BucketInit ==
  /\ tokens = Unit * Burst
  /\ since = 0
  /\ due = NotAsleep
  /\ window = [age |-> 0, granted |-> 0]

(* A refill that forgets how much the bucket holds. *)
RefilledWithoutBound == tokens + Rate * since

(* refill_tokens *)
Refilled == Smaller(tokens + Rate * since, Unit * Burst)

(* A number of ticks that is cut off where it should be rounded up. *)
TicksForCutOff(units) == units \div Rate

(* The ticks it takes until so many units have come in. *)
TicksFor(units) == (units + Rate - 1) \div Rate

Granted == [window EXCEPT !.granted = @ + 1]

(* acquire(): a token is there. *)
AcquireNow ==
  /\ ~Asleep
  /\ Refilled >= Unit
  /\ tokens' = Refilled - Unit
  /\ since' = 0
  /\ window' = Granted
  /\ UNCHANGED due

(* acquire(): no token, and wait_for_token works out how long to sleep. *)
AcquireSleeps ==
  /\ ~Asleep
  /\ Refilled < Unit
  /\ tokens' = Refilled
  /\ since' = 0
  /\ due' = TicksFor(Unit - Refilled)
  /\ UNCHANGED window

(* The rest of wait_for_token: the token is taken without another look. *)
WakeUp ==
  /\ due = 0
  /\ tokens' = Refilled - Unit
  /\ since' = 0
  /\ due' = NotAsleep
  /\ window' = Granted

(* Time goes by.  A sleep lasts as long as it was asked to, or longer.  A  *)
(* window that has become too old gives way to a new one.                  *)
Tick ==
  /\ since' = Smaller(since + 1, MaxIdle)
  /\ due' = IF due > 0 THEN due - 1 ELSE due
  /\ window' = IF window.age < MaxAge THEN [window EXCEPT !.age = @ + 1]
                                      ELSE [age |-> 0, granted |-> 0]
  /\ UNCHANGED tokens

(* A new window begins. *)
Observe ==
  /\ window' = [age |-> 0, granted |-> 0]
  /\ UNCHANGED <<tokens, since, due>>

BucketNext == AcquireNow \/ AcquireSleeps \/ WakeUp \/ Tick \/ Observe

BucketSpec == BucketInit /\ [][BucketNext]_bucket
-----------------------------------------------------------------------------
(* Whatever the moment from which one counts, no more tokens are granted   *)
(* than the bucket holds and than have come in since: idle time is worth   *)
(* no more than the burst, a sleep is no shorter than its token needs, and *)
(* no tick is counted twice.  A bucket for no token at all lends one.      *)
WindowBound ==
  Unit * window.granted <= Unit * (IF Burst = 0 THEN 1 ELSE Burst) + Rate * window.age

(* wait_for_token takes its token without looking whether it is there: it  *)
(* always is, if the bucket can hold one.                                  *)
NoDebt == Burst > 0 => tokens >= 0
=============================================================================
