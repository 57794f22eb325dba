----------------------- MODULE MCStreamingOrchestrator ----------------------
(* Small configurations of the streaming orchestrator.                     *)
EXTENDS StreamingOrchestrator

DefaultPhases == <<"coa", "master", "flows", "je">>
EntryPhases == <<"coa", "je">>
SkippedPhases == <<"skipped", "coa", "je">>
SomeLabels == {0, 1}
OneOrTwo == {1, 2}
OnlyBlock == {"Block"}
Lossy == {"DropOldest", "DropNewest"}
=============================================================================
