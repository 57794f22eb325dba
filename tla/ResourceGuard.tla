---------------------------- MODULE ResourceGuard ---------------------------
(***************************************************************************)
(* The resource guard of datasynth-core and its degradation controller:    *)
(* threads ask for permission to go on, every CheckInterval-th question    *)
(* measures memory, disk and CPU and moves the shared degradation level,   *)
(* the others are answered from the level as it stands.                    *)
(*                                                                         *)
(* The level is one atomic.  calculate_level loads it, and update swaps in *)
(* what was calculated; other threads may come between the two.            *)
(***************************************************************************)
EXTENDS Integers

CONSTANTS
  Threads,
  MemoryValues, DiskValues, CpuValues,  \* the measurements that may occur
  MemoryLimit,      \* hard_limit_mb of the memory guard
  DiskRequired,     \* hard_limit_mb + reserve_buffer_mb of the disk guard
  MemoryThresholds, \* <<reduced, minimal, emergency>>, rising
  DiskThresholds,   \* <<reduced, minimal, emergency>>, falling
  CpuThresholds,    \* <<reduced, minimal>>, rising
  Hysteresis,       \* recovery_hysteresis
  AutoRecovery,     \* auto_recovery
  CheckInterval     \* check_interval

ASSUME ThresholdsAssumption ==
  /\ MemoryThresholds \in [1..3 -> Int] /\ DiskThresholds \in [1..3 -> Int]
  /\ CpuThresholds \in [1..2 -> Int]
  /\ MemoryValues \subseteq Int /\ DiskValues \subseteq Int /\ CpuValues \subseteq Int
  /\ {MemoryLimit, DiskRequired} \subseteq Int /\ Hysteresis \in Nat
ASSUME GuardAssumption ==
  AutoRecovery \in BOOLEAN /\ CheckInterval \in Nat \ {0}

(* DegradationLevel: Normal, Reduced, Minimal, Emergency. *)
Levels == 0..3
Emergency == 3

VARIABLES
  memory, disk, cpu,  \* the resources, which the program does not control
  level,              \* current_level of the degradation controller
  counter,            \* check_counter, modulo CheckInterval
  pc,                 \* where a thread is in check()
  status,             \* the measurements a thread took
  current,            \* the level a thread loaded
  answer              \* what the last check of a thread returned

resources == <<memory, disk, cpu>>
vars == <<resources, level, counter, pc, status, current, answer>>

Measurements == [memory : MemoryValues, disk : DiskValues, cpu : CpuValues]

Init ==
  /\ memory \in MemoryValues /\ disk \in DiskValues /\ cpu \in CpuValues
  /\ level = 0
  /\ counter = 0
  /\ pc = [t \in Threads |-> "idle"]
  /\ status \in [Threads -> {[memory |-> memory, disk |-> disk, cpu |-> cpu]}]
  /\ current = [t \in Threads |-> 0]
  /\ answer = [t \in Threads |-> [ok |-> TRUE, level |-> 0]]

-----------------------------------------------------------------------------
(* DegradationController::calculate_level. *)

MaxOf(a, b) == IF a > b THEN a ELSE b

MemoryLevel(m) ==
  IF m >= MemoryThresholds[3] THEN 3
  ELSE IF m >= MemoryThresholds[2] THEN 2
  ELSE IF m >= MemoryThresholds[1] THEN 1 ELSE 0

DiskLevel(d) ==
  IF d <= DiskThresholds[3] THEN 3
  ELSE IF d <= DiskThresholds[2] THEN 2
  ELSE IF d <= DiskThresholds[1] THEN 1 ELSE 0

(* CPU never asks for Emergency. *)
CpuLevel(c) ==
  IF c >= CpuThresholds[2] THEN 2
  ELSE IF c >= CpuThresholds[1] THEN 1 ELSE 0

Needed(s) == MaxOf(MaxOf(MemoryLevel(s.memory), DiskLevel(s.disk)), CpuLevel(s.cpu))

(* Recovery waits until memory is clear of the threshold of the current    *)
(* level; disk and CPU have no hysteresis.                                 *)
CanRecoverAtThreshold(from, s) ==
  from > 0 => s.memory < MemoryThresholds[from]
CanRecover(from, s) ==
  from > 0 => s.memory < MemoryThresholds[from] - Hysteresis

RecoverAtOnce(from, s) == Needed(s)
Recover(from, s) == MaxOf(Needed(s), from - 1)

CalculateUnguarded(from, s) ==
  IF CanRecover(from, s) THEN from - 1 ELSE Needed(s)
Calculate(from, s) ==
  IF AutoRecovery /\ Needed(s) < from
    THEN IF CanRecover(from, s) THEN Recover(from, s) ELSE from
    ELSE Needed(s)

-----------------------------------------------------------------------------
(* ResourceGuard::check and check_now. *)

Goto(t, l) == pc' = [pc EXCEPT ![t] = l]
Answer(t, ok, l) ==
  /\ answer' = [answer EXCEPT ![t] = [ok |-> ok, level |-> l]]
  /\ Goto(t, "idle")

NextCountOnce == IF counter = 0 THEN 1 ELSE counter
NextCount == (counter + 1) % CheckInterval

Check(t) ==
  /\ pc[t] = "idle"
  /\ counter' = NextCount
  /\ Goto(t, IF counter = 0 THEN "memory" ELSE "cached")
  /\ UNCHANGED <<resources, level, status, current, answer>>

AnswerFromCache(t) ==
  /\ pc[t] = "cached"
  /\ Answer(t, TRUE, level)
  /\ UNCHANGED <<resources, level, counter, status, current>>

(* A hard limit is an error of its own; the level is not touched. *)
GuardMemory(t) ==
  /\ pc[t] = "memory"
  /\ IF memory > MemoryLimit
       THEN Answer(t, FALSE, level)
       ELSE Goto(t, "disk") /\ UNCHANGED answer
  /\ UNCHANGED <<resources, level, counter, status, current>>

GuardDisk(t) ==
  /\ pc[t] = "disk"
  /\ IF disk < DiskRequired
       THEN Answer(t, FALSE, level)
       ELSE Goto(t, "measure") /\ UNCHANGED answer
  /\ UNCHANGED <<resources, level, counter, status, current>>

(* build_resource_status reads the resources again. *)
Measure(t) ==
  /\ pc[t] = "measure"
  /\ status' = [status EXCEPT ![t] = [memory |-> memory, disk |-> disk, cpu |-> cpu]]
  /\ Goto(t, "load")
  /\ UNCHANGED <<resources, level, counter, current, answer>>

LoadLevel(t) ==
  /\ pc[t] = "load"
  /\ current' = [current EXCEPT ![t] = level]
  /\ Goto(t, "swap")
  /\ UNCHANGED <<resources, level, counter, status, answer>>

SwapLevel(t) ==
  /\ pc[t] = "swap"
  /\ level' = Calculate(current[t], status[t])
  /\ Answer(t, level' # Emergency, level')
  /\ UNCHANGED <<resources, counter, status, current>>

(* The rest of the machine. *)
ResourcesChange ==
  /\ \/ memory' \in MemoryValues /\ UNCHANGED <<disk, cpu>>
     \/ disk' \in DiskValues /\ UNCHANGED <<memory, cpu>>
     \/ cpu' \in CpuValues /\ UNCHANGED <<memory, disk>>
  /\ UNCHANGED <<level, counter, pc, status, current, answer>>

ThreadStep(t) ==
  \/ Check(t) \/ AnswerFromCache(t) \/ GuardMemory(t) \/ GuardDisk(t)
  \/ Measure(t) \/ LoadLevel(t) \/ SwapLevel(t)

Next == (\E t \in Threads : ThreadStep(t)) \/ ResourcesChange

Spec == Init /\ [][Next]_vars

(* A generation goes on asking. *)
FairSpec == Spec /\ \A t \in Threads : WF_vars(ThreadStep(t))

-----------------------------------------------------------------------------

(* Every variable keeps its type. *)
TypeOK ==
  /\ memory \in MemoryValues /\ disk \in DiskValues /\ cpu \in CpuValues
  /\ level \in Levels
  /\ counter \in 0..CheckInterval - 1
  /\ pc \in [Threads -> {"idle", "cached", "memory", "disk", "measure", "load", "swap"}]
  /\ status \in [Threads -> Measurements]
  /\ current \in [Threads -> Levels]
  /\ answer \in [Threads -> [ok : BOOLEAN, level : Levels]]

(* However many threads update the level, an update never leaves it below  *)
(* what the measurement behind it calls for (calculate_level, update).     *)
LevelCoversMeasurement ==
  [][\A t \in Threads :
       pc[t] = "swap" /\ pc'[t] = "idle" => level' >= Needed(status[t])]_vars

(* "only allow stepping down one level at a time" (calculate_level): from  *)
(* one state to the next the shared level recovers by one at most.         *)
StepsDownOneAtATime == [][level' >= level - 1]_vars

(* Leaving Emergency takes memory that is clear of the threshold by the    *)
(* hysteresis at the time of the measurement.                              *)
RecoversWithMargin ==
  [][\A t \in Threads :
       pc[t] = "swap" /\ pc'[t] = "idle" /\ level' < level /\ level > 0 =>
         status[t].memory < MemoryThresholds[level] - Hysteresis]_vars

(* Degradation ends: if the resources stay clear of all thresholds and     *)
(* checks go on, the level returns to Normal and stays there.              *)
Plenty ==
  /\ memory < MemoryThresholds[1] - Hysteresis /\ memory <= MemoryLimit
  /\ disk > DiskThresholds[1] /\ disk >= DiskRequired
  /\ cpu < CpuThresholds[1]
Recovers == <>[]Plenty => <>[](level = 0)
=============================================================================
