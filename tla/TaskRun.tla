------------------------------- MODULE TaskRun -------------------------------
(***************************************************************************)
(* What AgenticLoop.run promises its caller, without planning, retries,    *)
(* checkpoints or supervision: step reports come one at a time, in order,  *)
(* none is ever withdrawn, none follows a failed one, and the run ends in  *)
(* one verdict that the reports justify.                                   *)
(***************************************************************************)
EXTENDS Naturals, Sequences

CONSTANT MaxSteps        \* the most steps a run reports

VARIABLES
    phase,               \* "idle", "working" or "over"
    reports,             \* the status of each step reported so far
    verdict              \* how the run ended, "none" before

promiseVars == <<phase, reports, verdict>>

AllComplete == \A i \in 1..Len(reports) : reports[i] = "complete"

FailedLast == Len(reports) > 0 /\ reports[Len(reports)] = "failed"

Start ==
    /\ phase = "idle"
    /\ phase' = "working"
    /\ UNCHANGED <<reports, verdict>>

\* One step is over; only complete steps may be followed by another one.
ReportStep ==
    /\ phase = "working"
    /\ AllComplete
    /\ Len(reports) < MaxSteps
    /\ \E status \in {"complete", "failed"} : reports' = Append(reports, status)
    /\ UNCHANGED <<phase, verdict>>

End(v) ==
    /\ phase = "working"
    /\ phase' = "over"
    /\ verdict' = v
    /\ UNCHANGED reports

\* completion_verified is True: there are reports and none of them failed.
Verified == Len(reports) > 0 /\ AllComplete /\ End("verified")

\* The run stopped at a failed step.
Stopped == FailedLast /\ End("stopped")

\* The caller went away and the run was cancelled.
Cancelled == End("cancelled")

PromiseInit == phase = "idle" /\ reports = << >> /\ verdict = "none"

PromiseNext == Start \/ ReportStep \/ Verified \/ Stopped \/ Cancelled

Promise == PromiseInit /\ [][PromiseNext]_promiseVars
=============================================================================
