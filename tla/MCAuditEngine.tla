---------------------------- MODULE MCAuditEngine ----------------------------
(* Nearly all state machines of the built-in blueprints                    *)
(* (datasynth-audit-fsm/blueprints) have one of these three shapes, or are *)
(* lines of other lengths; two have a state more after the revisions.      *)
EXTENDS AuditEngine

(* not_started, in_progress, under_review, completed, with revisions *)
Reviewed == [initial |-> 1, size |-> 4, edges |-> <<<<1, 2>>, <<2, 3>>, <<3, 2>>, <<3, 4>>>>]
(* not_started, monitoring, follow_up (again and again), completed *)
Monitoring == [initial |-> 1, size |-> 4, edges |-> <<<<1, 2>>, <<2, 3>>, <<3, 3>>, <<3, 4>>>>]
(* not_started, completed *)
AtOnce == [initial |-> 1, size |-> 2, edges |-> <<<<1, 2>>>>]

ThreeProcedures == 1..3
ThreeMachines == <<Reviewed, Monitoring, AtOnce>>
PhaseGates == [planning |-> {<<1, 4>>}, reporting |-> {<<2, 4>>, <<3, 2>>}, open |-> {},
               monitoring |-> {<<2, 3>>}]
ContinuousPhases == {"monitoring"}
=============================================================================
