-------------------------- MODULE MCWorkflowEngine --------------------------
(***************************************************************************)
(* Instances of WorkflowEngine for TLC.                                    *)
(***************************************************************************)
EXTENDS WorkflowEngine, TLC

CONSTANTS c1, c2

\* The steps that the default workflow ends with, after one of those before.
Production == <<"other", "PLAN_EPISODE", "GENERATE_SCRIPT", "GENERATE_AUDIO",
                "PROCESS_AUDIO", "PUBLISH_EPISODE">>

\* Two steps that leave the episode alone.
Preparation == <<"other", "other">>

=============================================================================
