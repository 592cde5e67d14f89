-------------------------- MODULE DiagnosticRecorder --------------------------
(***************************************************************************)
(* One run of the diagnostics recorder (backend/core/diagnostic_recorder.  *)
(* py), as operators on what is kept of it in memory and on disk.  Events  *)
(* are counted; what they tell is left out.  A write may fail, which the   *)
(* recorder only logs.                                                     *)
(***************************************************************************)
EXTENDS Integers

CONSTANT
    MaxRefused           \* bound: appends that fail, of a run

\* "open": in _runs, with "did" events; "dir": its directory and partial.json
\* could be made, and the events go to events.jsonl as well.  Of its "lines",
\* "jsonl" can be read; "torn": the last one has no end yet.  "refused" is
\* history: the appends that failed.
NoRun == [open |-> FALSE, did |-> 0, dir |-> FALSE,
          jsonl |-> 0, lines |-> 0, torn |-> FALSE, refused |-> 0,
          bundle |-> "none", bundled |-> 0, analysis |-> "none"]

\* An append writes the line, nothing, or a part of it, as on a full disk; what
\* comes behind a part is in the same line, and as unreadable.
Appended(run) ==
    LET more   == IF run.torn THEN 0 ELSE 1
        whole  == [run EXCEPT !.torn = FALSE, !.jsonl = @ + more, !.lines = @ + more]
        failed == [run EXCEPT !.refused = @ + 1]
        part   == [failed EXCEPT !.torn = TRUE, !.lines = @ + more]
    IN  IF run.refused < MaxRefused THEN {whole, failed, part} ELSE {whole}

\* record keeps the event in memory and appends it before it returns.
\* A slip: the line stays in the buffer until the next one comes.
SlipRecorded(run) ==
    IF run.open
    THEN {[run EXCEPT !.did = @ + 1, !.jsonl = IF run.dir THEN run.did ELSE @]}
    ELSE {run}
Recorded(run) ==
    LET grown == [run EXCEPT !.did = @ + 1] IN
    CASE ~run.open -> {run}
      [] run.open /\ run.dir  -> Appended(grown)
      [] run.open /\ ~run.dir -> {grown}

\* start_run, with the event run_start; without a directory the events stay in
\* memory.
Started == UNION {Recorded([NoRun EXCEPT !.open = TRUE, !.dir = dir]) : dir \in BOOLEAN}

\* finish_run forgets the run and writes bundle.json in place, which may fail;
\* it tries to make the directory once more.
Written(run, bundle) ==
    [run EXCEPT !.open = FALSE, !.bundle = bundle,
                !.bundled = IF bundle = "whole" THEN run.did ELSE 0]

\* _run_analyzer reads the bundle back from the disk and writes analysis.json,
\* in place and only once the bundle is there; any failure is only logged.
Analysed(run) ==
    {[run EXCEPT !.analysis = a] :
       a \in IF run.bundle = "whole" THEN {"none", "torn", "whole"} ELSE {"none"}}

Finishes(run) ==
    IF run.open THEN UNION {Analysed(Written(run, bundle)) : bundle \in {"none", "torn", "whole"}}
                ELSE {run}

\* What is left after the process has died elsewhere than in finish_run.
Crashed(run) == [run EXCEPT !.open = FALSE]

\* The events get_bundle returns: those of the bundle, or the lines it can read
\* of events.jsonl as long as there is no bundle; a bundle that cannot be read
\* yields nothing.
Shown(run) ==
    CASE run.bundle = "whole" -> run.bundled
      [] run.bundle = "none"  -> run.jsonl
      [] run.bundle = "torn"  -> 0

\* What list_runs says of a run, with the finding_count the endpoint adds from
\* get_analysis.  Without a bundle it counts lines, read or not; a run whose
\* bundle cannot be read is passed over.
Listed(run) ==
    IF run.bundle = "torn" \/ (run.bundle = "none" /\ ~run.dir)
    THEN {}
    ELSE {[status  |-> IF run.bundle = "whole" THEN "complete" ELSE "partial",
           events  |-> IF run.bundle = "whole" THEN run.bundled ELSE run.lines,
           counted |-> run.analysis = "whole"]}
=============================================================================
