------------------------------ MODULE AuditEngine ------------------------------
(***************************************************************************)
(* AuditFsmEngine::run_engagement (datasynth-audit-fsm): the procedures of *)
(* an audit blueprint are sorted so that each follows its preconditions    *)
(* (Kahn's algorithm, loader.rs), and then each is walked through its      *)
(* state machine, one transition after another (engine.rs).                *)
(*                                                                         *)
(* A state machine is the record                                           *)
(*   [initial, size, edges], its states the positions 1..size of the list  *)
(* of states of the blueprint, and its edges in the order of the list of   *)
(* transitions.  The random roll between going on and revising is a        *)
(* choice; actors, times, anomalies and artifacts are left out.            *)
(***************************************************************************)
EXTENDS Integers, Sequences, FiniteSets

CONSTANTS Procedures,    \* identifiers, numbered as their names are sorted
          Machine,       \* the state machine of every procedure
          Gates,         \* the exit gate of every phase: the states it asks for
          Continuous,    \* the phases whose order is negative
          MaxIterations, \* iteration_limits
          MaxSelfLoops   \* max_self_loop_iterations

Positions(m) == 1..m.size

ASSUME ProceduresAssumption == Procedures \subseteq Nat /\ IsFiniteSet(Procedures)
ASSUME MachineAssumption ==
  \A p \in Procedures :
    /\ Machine[p].size \in Nat
    /\ Machine[p].initial \in Positions(Machine[p])
    /\ Machine[p].edges \in Seq(Positions(Machine[p]) \X Positions(Machine[p]))
ASSUME LimitsAssumption == MaxIterations \in Nat /\ MaxSelfLoops \in Nat
ASSUME GatesAssumption ==
  \A phase \in DOMAIN Gates : Gates[phase] \subseteq Procedures \X Nat
ASSUME ContinuousAssumption == Continuous \subseteq DOMAIN Gates

VARIABLES
  preconditions, \* preconditions[p]: the procedures p has to follow
  skipped,       \* the procedures the overlay's discriminators exclude
  mode,          \* "sort", "next", "walk", "done", or "cycle" for the error
  unmet,         \* unmet[p]: preconditions of p that are not sorted yet
  queue,         \* sortable procedures
  sorted,        \* the execution order as far as it is known
  position,      \* of the procedure that is walked, or was last
  state,         \* procedure_states, 0 where a procedure has none
  iterations,    \* of the walk
  selfLoops,     \* self_loop_count
  stepsDone,     \* step_completions: procedures whose steps have been executed
  loops,         \* how many self-loops every procedure has taken
  completed      \* phases_completed

sorting == <<unmet, queue, sorted>>
walk == <<position, state, iterations, selfLoops, stepsDone, loops>>
vars == <<preconditions, skipped, mode, sorting, walk, completed>>

SeqToSet(s) == {s[i] : i \in 1..Len(s)}

(* Vec::sort: the order of names in which the procedures of S are queued. *)
NameOrders(S) ==
  {s \in [1..Cardinality(S) -> S] :
     SeqToSet(s) = S /\ \A i, j \in 1..Cardinality(S) : i < j => s[i] < s[j]}

-----------------------------------------------------------------------------

(* A blueprint may have any preconditions, cyclic ones included, and the   *)
(* overlay may exclude any procedures.  The procedures without             *)
(* preconditions are sortable.                                             *)
Init ==
  /\ preconditions \in [Procedures -> SUBSET Procedures]
  /\ skipped \in SUBSET Procedures
  /\ mode = "sort"
  /\ unmet = preconditions
  /\ queue \in NameOrders({p \in Procedures : preconditions[p] = {}})
  /\ sorted = <<>>
  /\ position = 0
  /\ state = [p \in Procedures |-> 0]
  /\ iterations = 0
  /\ selfLoops = 0
  /\ stepsDone = {}
  /\ loops = [p \in Procedures |-> 0]
  /\ completed = {}

-----------------------------------------------------------------------------
(* topological_sort_with_preconditions *)

(* Sorting a procedure that still misses a precondition but one. *)
FreedTooEarly(node) ==
  {p \in Procedures : node \in unmet[p] /\ Cardinality(unmet[p]) <= 2}

(* The procedures that wait for this one alone. *)
FreedBy(node) == {p \in Procedures : unmet[p] = {node}}

SortNext ==
  /\ mode = "sort" /\ queue # <<>>
  /\ LET node == Head(queue) IN
     /\ sorted' = Append(sorted, node)
     /\ unmet' = [p \in Procedures |-> unmet[p] \ {node}]
     /\ \E freed \in NameOrders(FreedBy(node)) : queue' = Tail(queue) \o freed
  /\ UNCHANGED <<preconditions, skipped, mode, walk, completed>>

(* Accepting an order although procedures are missing from it. *)
SortEndsWithoutCount ==
  /\ mode = "sort" /\ queue = <<>>
  /\ mode' = "next"
  /\ UNCHANGED <<preconditions, skipped, sorting, walk, completed>>

(* Everything is sorted, or what is not is on a cycle. *)
SortEnds ==
  /\ mode = "sort" /\ queue = <<>>
  /\ mode' = IF Len(sorted) = Cardinality(Procedures) THEN "next" ELSE "cycle"
  /\ UNCHANGED <<preconditions, skipped, sorting, walk, completed>>

-----------------------------------------------------------------------------
(* run_engagement *)

current == sorted[position]

(* A procedure that is excluded is looked at again and again. *)
NextProcedureStays ==
  /\ mode = "next" /\ position < Len(sorted)
  /\ LET p == sorted[position + 1] IN
     IF p \in skipped
     THEN UNCHANGED <<position, mode, state, iterations, selfLoops>>
     ELSE /\ position' = position + 1
          /\ state' = [state EXCEPT ![p] = Machine[p].initial]
          /\ iterations' = 0
          /\ selfLoops' = 0
          /\ mode' = "walk"
  /\ UNCHANGED <<preconditions, skipped, sorting, stepsDone, loops, completed>>

(* The next procedure, unless the overlay excludes it. *)
NextProcedure ==
  /\ mode = "next" /\ position < Len(sorted)
  /\ position' = position + 1
  /\ LET p == sorted[position'] IN
     IF p \in skipped
     THEN UNCHANGED <<mode, state, iterations, selfLoops>>
     ELSE /\ state' = [state EXCEPT ![p] = Machine[p].initial]
          /\ iterations' = 0
          /\ selfLoops' = 0
          /\ mode' = "walk"
  /\ UNCHANGED <<preconditions, skipped, sorting, stepsDone, loops, completed>>

(* The transitions out of a state, as positions in the list of edges. *)
Outgoing(m, s) == {i \in DOMAIN m.edges : m.edges[i][1] = s}

First(S) == CHOOSE i \in S : \A j \in S : i <= j

Ahead(m, out)  == {i \in out : m.edges[i][2] > m.edges[i][1]}
Leaving(m, out) == {i \in out : m.edges[i][2] # m.edges[i][1]}

(* select_transition: the first that goes on, or just the first, or, if    *)
(* the roll says so, the first that goes back.  A single transition is the *)
(* first in any case.                                                      *)
Selected(m, out) ==
  LET ahead == Ahead(m, out)
      back  == out \ ahead
  IN {First(IF ahead # {} THEN ahead ELSE out)}
       \cup (IF back # {} THEN {First(back)} ELSE {})

(* Taking the transition e: steps are executed when the work state, the    *)
(* second of the list, is entered, and on every self-loop.                 *)
Take(p, e, count) ==
  /\ state' = [state EXCEPT ![p] = e[2]]
  /\ selfLoops' = count
  /\ loops' = IF e[1] # e[2] THEN loops ELSE [loops EXCEPT ![p] = @ + 1]
  /\ stepsDone' = IF (e[2] = 2 /\ e[1] # 2) \/ e[1] = e[2]
                  THEN stepsDone \cup {p} ELSE stepsDone

Stop == mode' = "next" /\ UNCHANGED <<state, selfLoops, stepsDone, loops>>

(* The limit on self-loops, tested after one too many. *)
MustLeaveLate(count) == count > MaxSelfLoops

(* self_loop_count >= max_self_loop_iterations *)
MustLeave(count) == count >= MaxSelfLoops

(* One round of the loop: the limit is not reached yet. *)
Transition ==
  /\ mode = "walk" /\ iterations < MaxIterations
  /\ iterations' = iterations + 1
  /\ LET m == Machine[current]
         out == Outgoing(m, state[current])
         leaving == Leaving(m, out)
     IN IF out = {} THEN Stop
        ELSE \E i \in Selected(m, out) :
               IF i \in leaving
                 THEN Take(current, m.edges[i], 0) /\ UNCHANGED mode
               ELSE IF ~MustLeave(selfLoops + 1)
                 THEN Take(current, m.edges[i], selfLoops + 1) /\ UNCHANGED mode
               ELSE IF leaving # {}
                 THEN Take(current, m.edges[First(leaving)], 0) /\ UNCHANGED mode
               ELSE Stop
  /\ UNCHANGED <<preconditions, skipped, sorting, position, completed>>

LimitReached ==
  /\ mode = "walk" /\ iterations >= MaxIterations
  /\ mode' = "next"
  /\ UNCHANGED <<preconditions, skipped, sorting, walk, completed>>

(* A gate that looks for one of the states it asks for. *)
AnyMet(gate) == \E condition \in gate : state[condition[1]] = condition[2]

(* compute_completed_phases: a phase without a gate is completed, unless   *)
(* it is continuous, and those never are.                                  *)
Met(gate) == \A condition \in gate : state[condition[1]] = condition[2]

Finish ==
  /\ mode = "next" /\ position = Len(sorted)
  /\ completed' = {phase \in DOMAIN Gates \ Continuous : Met(Gates[phase])}
  /\ mode' = "done"
  /\ UNCHANGED <<preconditions, skipped, sorting, walk>>

Next ==
  \/ SortNext \/ SortEnds \/ NextProcedure \/ Transition \/ LimitReached \/ Finish

Spec == Init /\ [][Next]_vars

(* One thread, which runs. *)
FairSpec == Spec /\ WF_vars(Next)
-----------------------------------------------------------------------------
(* Properties. *)

TypeOK ==
  /\ preconditions \in [Procedures -> SUBSET Procedures]
  /\ skipped \subseteq Procedures
  /\ mode \in {"sort", "next", "walk", "done", "cycle"}
  /\ unmet \in [Procedures -> SUBSET Procedures]
  /\ queue \in Seq(Procedures) /\ sorted \in Seq(Procedures)
  /\ position \in 0..Len(sorted)
  /\ state \in [Procedures -> Nat]
  /\ iterations \in 0..MaxIterations
  /\ selfLoops \in Nat
  /\ stepsDone \subseteq Procedures
  /\ loops \in [Procedures -> Nat]
  /\ completed \subseteq DOMAIN Gates

(* The engine refuses a blueprint exactly when some procedures wait for    *)
(* each other in a circle.                                                 *)
Circular(S) == S # {} /\ \A p \in S : preconditions[p] \cap S # {}
RefusesCycles ==
  /\ mode = "cycle" => \E S \in SUBSET Procedures : Circular(S)
  /\ mode \in {"next", "walk", "done"} => ~ \E S \in SUBSET Procedures : Circular(S)

(* No procedure is sorted before its preconditions or twice; so none has a *)
(* state before the walks of its preconditions are over (their walks, and  *)
(* not their completion: an exhausted precondition does not hold it up).   *)
FollowsPreconditions ==
  /\ \A i \in 1..Len(sorted) :
       \A q \in preconditions[sorted[i]] : \E j \in 1..(i - 1) : sorted[j] = q
  /\ \A i, j \in 1..Len(sorted) : sorted[i] = sorted[j] => i = j
  /\ \A i \in 1..Len(sorted) : i > position => state[sorted[i]] = 0

(* No guard of a blueprint is evaluated.  all_steps_complete, which stands *)
(* on the way to review, holds all the same: a procedure gone on from its  *)
(* work state has executed its steps, and a completed phase has executed   *)
(* the steps of all that its gate asks for.                                *)
GuardsHold ==
  /\ \A p \in Procedures : state[p] >= 2 => p \in stepsDone
  /\ \A phase \in completed : \A condition \in Gates[phase] :
       condition[2] >= 2 => condition[1] \in stepsDone

(* A procedure takes fewer self-loops than the limit, all told, as         *)
(* test_self_loop_bounded_by_overlay has it, although the count starts     *)
(* again whenever the state is left.                                       *)
SelfLoopsBounded ==
  \A p \in Procedures : loops[p] < MaxSelfLoops \/ loops[p] = 0

(* The engagement comes to an end. *)
EngagementEnds == <>(mode \in {"done", "cycle"})
=============================================================================
