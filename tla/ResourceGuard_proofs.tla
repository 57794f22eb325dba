------------------------ MODULE ResourceGuard_proofs ------------------------
(***************************************************************************)
(* Theorems about the resource guard, for every choice of thresholds,      *)
(* measurements, check interval and set of threads.                        *)
(***************************************************************************)
EXTENDS ResourceGuard, TLAPS

USE DEF Levels, Emergency

(* The level that is calculated is a level, and it is at least what the    *)
(* measurement calls for; with recovery switched on it is at most one      *)
(* below the level it was calculated from (calculate_level).               *)
LEMMA CalculateLevel ==
  ASSUME NEW from \in Levels, NEW s \in Measurements
  PROVE  /\ Needed(s) \in Levels
         /\ Calculate(from, s) \in Levels
         /\ Calculate(from, s) >= Needed(s)
         /\ AutoRecovery => Calculate(from, s) >= from - 1
         /\ AutoRecovery /\ Calculate(from, s) < from /\ from > 0 =>
              s.memory < MemoryThresholds[from] - Hysteresis
<1>1. MemoryLevel(s.memory) \in Levels
  BY DEF MemoryLevel
<1>2. DiskLevel(s.disk) \in Levels
  BY DEF DiskLevel
<1>3. CpuLevel(s.cpu) \in Levels
  BY DEF CpuLevel
<1>4. Needed(s) \in Levels
  BY <1>1, <1>2, <1>3 DEF Needed, MaxOf
<1>5. CASE AutoRecovery /\ Needed(s) < from
  <2>1. Recover(from, s) \in Levels /\ Recover(from, s) >= Needed(s) /\ Recover(from, s) >= from - 1
    BY <1>4, <1>5 DEF Recover, MaxOf
  <2>2. CASE CanRecover(from, s)
    <3>1. Calculate(from, s) = Recover(from, s)
      BY <1>5, <2>2 DEF Calculate
    <3>2. from > 0 => s.memory < MemoryThresholds[from] - Hysteresis
      BY <2>2 DEF CanRecover
    <3> QED
      BY <1>4, <2>1, <3>1, <3>2
  <2>3. CASE ~CanRecover(from, s)
    <3>1. Calculate(from, s) = from
      BY <1>5, <2>3 DEF Calculate
    <3> QED
      BY <1>4, <1>5, <3>1
  <2> QED
    BY <2>2, <2>3
<1>6. CASE ~(AutoRecovery /\ Needed(s) < from)
  <2>1. Calculate(from, s) = Needed(s)
    BY <1>6 DEF Calculate
  <2> QED
    BY <1>4, <1>6, <2>1
<1> QED
  BY <1>5, <1>6

-----------------------------------------------------------------------------

LEMMA InitType == Init => TypeOK
<1> SUFFICES ASSUME Init PROVE TypeOK
  OBVIOUS
<1>1. CheckInterval \in Nat /\ CheckInterval >= 1
  BY GuardAssumption
<1>2. [memory |-> memory, disk |-> disk, cpu |-> cpu] \in Measurements
  BY DEF Init, Measurements
<1>3. status \in [Threads -> Measurements]
  BY <1>2 DEF Init
<1> QED
  BY <1>1, <1>3 DEF Init, TypeOK

LEMMA StepType == TypeOK /\ [Next]_vars => TypeOK'
<1> SUFFICES ASSUME TypeOK, [Next]_vars PROVE TypeOK'
  OBVIOUS
<1> USE DEF TypeOK, resources
<1>1. ASSUME NEW t \in Threads, Check(t) PROVE TypeOK'
  <2>1. CheckInterval \in Nat /\ CheckInterval > 0
    BY GuardAssumption
  <2>2. NextCount \in 0..CheckInterval - 1
    BY <2>1 DEF NextCount
  <2> QED
    BY <1>1, <2>2 DEF Check, Goto
<1>2. ASSUME NEW t \in Threads, AnswerFromCache(t) PROVE TypeOK'
  BY <1>2 DEF AnswerFromCache, Answer, Goto
<1>3. ASSUME NEW t \in Threads, GuardMemory(t) PROVE TypeOK'
  <2>1. CASE memory > MemoryLimit
    <3>1. answer' = [answer EXCEPT ![t] = [ok |-> FALSE, level |-> level]]
      BY <1>3, <2>1 DEF GuardMemory, Answer
    <3>2. answer' \in [Threads -> [ok : BOOLEAN, level : Levels]]
      BY <3>1
    <3> QED
      BY <1>3, <2>1, <3>2 DEF GuardMemory, Answer, Goto
  <2>2. CASE ~(memory > MemoryLimit)
    BY <1>3, <2>2 DEF GuardMemory, Goto
  <2> QED
    BY <2>1, <2>2
<1>4. ASSUME NEW t \in Threads, GuardDisk(t) PROVE TypeOK'
  <2>1. CASE disk < DiskRequired
    <3>1. answer' = [answer EXCEPT ![t] = [ok |-> FALSE, level |-> level]]
      BY <1>4, <2>1 DEF GuardDisk, Answer
    <3>2. answer' \in [Threads -> [ok : BOOLEAN, level : Levels]]
      BY <3>1
    <3> QED
      BY <1>4, <2>1, <3>2 DEF GuardDisk, Answer, Goto
  <2>2. CASE ~(disk < DiskRequired)
    BY <1>4, <2>2 DEF GuardDisk, Goto
  <2> QED
    BY <2>1, <2>2
<1>5. ASSUME NEW t \in Threads, Measure(t) PROVE TypeOK'
  BY <1>5 DEF Measure, Goto, Measurements
<1>6. ASSUME NEW t \in Threads, LoadLevel(t) PROVE TypeOK'
  BY <1>6 DEF LoadLevel, Goto
<1>7. ASSUME NEW t \in Threads, SwapLevel(t) PROVE TypeOK'
  <2>1. level' \in Levels
    BY <1>7, CalculateLevel DEF SwapLevel
  <2>2. (level' # Emergency) \in BOOLEAN
    OBVIOUS
  <2> QED
    BY <1>7, <2>1, <2>2 DEF SwapLevel, Answer, Goto
<1>8. CASE ResourcesChange
  BY <1>8 DEF ResourcesChange
<1>9. CASE UNCHANGED vars
  BY <1>9 DEF vars
<1> QED
  BY <1>1, <1>2, <1>3, <1>4, <1>5, <1>6, <1>7, <1>8, <1>9 DEF Next, ThreadStep

(* Every variable of the guard keeps its type, whatever the threads do.    *)
THEOREM TypeCorrect == Spec => []TypeOK
  BY InitType, StepType, PTL DEF Spec

-----------------------------------------------------------------------------

(* A thread only leaves "swap" by its own swap.                            *)
LEMMA OnlySwapLeavesSwap ==
  ASSUME TypeOK, [Next]_vars, NEW t \in Threads, pc[t] = "swap", pc'[t] = "idle"
  PROVE  SwapLevel(t)
<1> USE DEF TypeOK
<1>1. ASSUME NEW u \in Threads, ThreadStep(u), u # t PROVE pc'[t] = pc[t]
  BY <1>1 DEF ThreadStep, Check, AnswerFromCache, GuardMemory, GuardDisk, Measure,
              LoadLevel, SwapLevel, Answer, Goto
<1>2. CASE ThreadStep(t)
  BY <1>2 DEF ThreadStep, Check, AnswerFromCache, GuardMemory, GuardDisk, Measure, LoadLevel
<1>3. CASE ResourcesChange
  BY <1>3 DEF ResourcesChange
<1>4. CASE UNCHANGED vars
  BY <1>4 DEF vars
<1> QED
  BY <1>1, <1>2, <1>3, <1>4 DEF Next

(* An update never leaves the level below what its measurement calls for,  *)
(* for any thresholds and any number of threads.                           *)
THEOREM LevelCovers == Spec => LevelCoversMeasurement
<1>1. TypeOK /\ [Next]_vars =>
        [\A t \in Threads :
           pc[t] = "swap" /\ pc'[t] = "idle" => level' >= Needed(status[t])]_vars
  <2> SUFFICES ASSUME TypeOK, [Next]_vars, NEW t \in Threads, pc[t] = "swap", pc'[t] = "idle"
               PROVE  level' >= Needed(status[t])
    OBVIOUS
  <2>1. SwapLevel(t)
    BY OnlySwapLeavesSwap
  <2>2. current[t] \in Levels /\ status[t] \in Measurements
    BY DEF TypeOK
  <2> QED
    BY <2>1, <2>2, CalculateLevel DEF SwapLevel
<1> QED
  BY <1>1, TypeCorrect, PTL DEF Spec, LevelCoversMeasurement

-----------------------------------------------------------------------------

(* With one thread the level that was loaded is still the level when it is *)
(* swapped.                                                                *)
LoadedIsCurrent == \A t \in Threads : pc[t] = "swap" => current[t] = level

OnlyOneThread == \A t, u \in Threads : t = u

LEMMA LoadedIsCurrentInit == Init => LoadedIsCurrent
  BY DEF Init, LoadedIsCurrent

LEMMA LoadedIsCurrentNext ==
  ASSUME OnlyOneThread
  PROVE  TypeOK /\ LoadedIsCurrent /\ [Next]_vars => LoadedIsCurrent'
<1> SUFFICES ASSUME TypeOK, LoadedIsCurrent, [Next]_vars, NEW t \in Threads, pc'[t] = "swap"
             PROVE  current'[t] = level'
  BY DEF LoadedIsCurrent
<1>1. CASE ThreadStep(t)
  BY <1>1 DEF ThreadStep, Check, AnswerFromCache, GuardMemory, GuardDisk, Measure,
              LoadLevel, SwapLevel, Answer, Goto, TypeOK, resources
<1>2. CASE ResourcesChange
  BY <1>2 DEF ResourcesChange, LoadedIsCurrent
<1>3. CASE UNCHANGED vars
  BY <1>3 DEF vars, LoadedIsCurrent
<1> QED
  BY <1>1, <1>2, <1>3 DEF Next, OnlyOneThread

(* One thread recovers one level at a time, whatever the measurements: the *)
(* jumps the race run finds need a second thread.                          *)
THEOREM OneThreadStepsDown ==
  ASSUME AutoRecovery, OnlyOneThread
  PROVE  Spec => StepsDownOneAtATime
<1>1. TypeOK /\ LoadedIsCurrent /\ [Next]_vars => [level' >= level - 1]_vars
  <2> SUFFICES ASSUME TypeOK, LoadedIsCurrent, [Next]_vars PROVE level' >= level - 1
    OBVIOUS
  <2>1. ASSUME NEW t \in Threads, SwapLevel(t) PROVE level' >= level - 1
    <3>1. current[t] = level /\ level \in Levels /\ status[t] \in Measurements
      BY <2>1 DEF SwapLevel, LoadedIsCurrent, TypeOK
    <3>2. Calculate(level, status[t]) >= level - 1
      BY <3>1, CalculateLevel
    <3> QED
      BY <2>1, <3>1, <3>2 DEF SwapLevel
  <2>2. ASSUME level' = level PROVE level' >= level - 1
    BY <2>2 DEF TypeOK
  <2>3. ASSUME NEW t \in Threads, ThreadStep(t), ~SwapLevel(t) PROVE level' = level
    BY <2>3 DEF ThreadStep, Check, AnswerFromCache, GuardMemory, GuardDisk, Measure, LoadLevel
  <2> QED
    BY <2>1, <2>2, <2>3 DEF Next, ResourcesChange, vars
<1> QED
  BY <1>1, LoadedIsCurrentInit, LoadedIsCurrentNext, TypeCorrect, PTL
     DEF Spec, StepsDownOneAtATime

(* One thread lowers the level only on a measurement that is clear of the  *)
(* threshold of the level it leaves, by the hysteresis (calculate_level).  *)
THEOREM OneThreadRecoversWithMargin ==
  ASSUME AutoRecovery, OnlyOneThread
  PROVE  Spec => RecoversWithMargin
<1>1. TypeOK /\ LoadedIsCurrent /\ [Next]_vars =>
        [\A t \in Threads :
           pc[t] = "swap" /\ pc'[t] = "idle" /\ level' < level /\ level > 0 =>
             status[t].memory < MemoryThresholds[level] - Hysteresis]_vars
  <2> SUFFICES ASSUME TypeOK, LoadedIsCurrent, [Next]_vars, NEW t \in Threads,
                      pc[t] = "swap", pc'[t] = "idle", level' < level, level > 0
               PROVE  status[t].memory < MemoryThresholds[level] - Hysteresis
    OBVIOUS
  <2>1. SwapLevel(t)
    BY OnlySwapLeavesSwap
  <2>2. current[t] = level /\ level \in Levels /\ status[t] \in Measurements
    BY DEF LoadedIsCurrent, TypeOK
  <2>3. level' = Calculate(level, status[t])
    BY <2>1, <2>2 DEF SwapLevel
  <2> QED
    BY <2>2, <2>3, CalculateLevel
<1> QED
  BY <1>1, LoadedIsCurrentInit, LoadedIsCurrentNext, TypeCorrect, PTL
     DEF Spec, RecoversWithMargin
=============================================================================
