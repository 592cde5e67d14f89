-------------------------------- MODULE Planning --------------------------------
(***************************************************************************)
(* The plan of a task: MainAgent.plan_task and _parse_plan (backend/       *)
(* agents/main_agent.py), with the events they record for the analyzer.    *)
(*                                                                         *)
(* A task is a record of what the regular expressions find in it: that it  *)
(* speaks of local files, of fetching something, of an address.  A reply   *)
(* of the model is a record of the step texts each attempt at parsing it   *)
(* finds, stripped; a blank one is Blank.                                  *)
(***************************************************************************)
EXTENDS DiagnosticAnalyzer, Sequences

MaxPlan == 10            \* steps of a plan

Blank == ""

Answers == [raised : {FALSE}, listed : Seq(STRING \ {Blank}), numbered : Seq(STRING \ {Blank}),
            headed : Seq(STRING), text : STRING]
Failure == [raised |-> TRUE]

-----------------------------------------------------------------------------
(* _parse_plan *)

Cut(steps) == SubSeq(steps, 1, IF Len(steps) > MaxPlan THEN MaxPlan ELSE Len(steps))

\* The steps of the JSON object, else the numbered lines, else the lines under a
\* "Steps:" header, which may be blank without their bullets, else the reply.
StepsIn(reply) ==
    CASE reply.listed # << >> -> reply.listed
      [] reply.listed = << >> /\ reply.numbered # << >> -> reply.numbered
      [] reply.listed = << >> /\ reply.numbered = << >> /\ reply.headed # << >> -> reply.headed
      [] OTHER -> <<reply.text>>

ParsePlan(reply) == Cut(StepsIn(reply))

-----------------------------------------------------------------------------
(* plan_task *)

\* These get a plan of one fixed step: to use the file tools, to fetch, or to ask
\* for an address.
FastPath(task) == task.local \/ task.fetch

FixedStep(task) ==
    IF task.local THEN "Resolve the user's local filesystem request"
    ELSE IF task.address THEN "Use web_fetch"
    ELSE "Ask the user"

PlanTask(task, answer) ==
    IF FastPath(task) THEN <<FixedStep(task)>>
    ELSE IF answer.raised THEN <<task.text>>
    ELSE ParsePlan(answer)

\* What is recorded; the request, which no detector looks at, is left out.
PlanEvents(task, answer) ==
    IF FastPath(task) THEN {PlanParsed(1, 1)}
    ELSE IF answer.raised THEN {PlanningResponse(1, "empty")}
    ELSE {PlanningResponse(1, IF answer.text = Blank THEN "empty" ELSE "text"),
          PlanParsed(2, Len(PlanTask(task, answer)))}
=============================================================================
