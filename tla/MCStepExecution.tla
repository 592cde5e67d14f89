--------------------------- MODULE MCStepExecution ---------------------------
(***************************************************************************)
(* StepExecution for TLC: what one response of the model may call.         *)
(***************************************************************************)
EXTENDS StepExecution

\* One call, the same call twice, or one call and then another.
MCBatches == {<<c>> : c \in Calls} \cup {<<c, d>> : c \in Calls, d \in Calls}
=============================================================================
