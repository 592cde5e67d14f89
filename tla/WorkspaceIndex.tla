---------------------------- MODULE WorkspaceIndex ----------------------------
(***************************************************************************)
(* The index of one project directory: WorkspaceIndexer.index_directory    *)
(* (backend/memory/workspace_indexer.py), called by the "index" action of  *)
(* the workspace_index tool and, in the background, after every "list" of  *)
(* the file tool (backend/tools/impl/workspace_index_tool.py).             *)
(*                                                                         *)
(* The work is done in threads that the coroutine awaits, so any two runs  *)
(* may interleave between their steps.  What a chunk holds is left out:    *)
(* the chunks of a file are added in one call, and the table is a count of *)
(* the times they are in it.                                               *)
(***************************************************************************)
EXTENDS Naturals

CONSTANTS
    Files,               \* relative paths of indexable files
    Callers              \* agents that may use the tool's "index" action

Background == "background" \* the background task of trigger_auto_index
Indexers   == Callers \cup {Background}
NoFile     == "no file"

VARIABLES
    pc,                  \* where each run of index_directory is
    force,               \* its argument
    known,               \* already_indexed
    todo,                \* files_to_index not begun
    file,                \* the file at hand
    progress,            \* the directory is in _indexing_in_progress
    copies,              \* per file: how often its chunks are in the table
    excused              \* history: a run was forced, overlapped another one or
                         \* could not read the table

runs == <<pc, force, known, todo, file>>
vars == <<runs, progress, copies, excused>>

Init ==
    /\ pc = [i \in Indexers |-> "idle"]
    /\ force = [i \in Indexers |-> FALSE]
    /\ known = [i \in Indexers |-> {}]
    /\ todo = [i \in Indexers |-> {}]
    /\ file = [i \in Indexers |-> NoFile]
    /\ progress = FALSE
    /\ copies = [f \in Files |-> 0]
    /\ excused = FALSE

Busy == {i \in Indexers : pc[i] # "idle"}

-----------------------------------------------------------------------------

Begin(i, forced) ==
    /\ pc[i] = "idle"
    /\ pc' = [pc EXCEPT ![i] = "reading"]
    /\ force' = [force EXCEPT ![i] = forced]
    /\ excused' = (excused \/ forced \/ Busy # {})

\* The tool's action: nothing keeps it from an index that is under way.
Index(c) ==
    /\ \E forced \in BOOLEAN : Begin(c, forced)
    /\ UNCHANGED <<known, todo, file, progress, copies>>

\* trigger_auto_index, unless an automatic run of the directory is under way.
AutoIndex ==
    /\ ~progress
    /\ progress' = TRUE
    /\ Begin(Background, FALSE)
    /\ UNCHANGED <<known, todo, file, copies>>

\* A thread reads the paths in the table; a failure yields none.
ReadIndexed(i) ==
    /\ pc[i] = "reading"
    /\ pc' = [pc EXCEPT ![i] = "read"]
    /\ \/ /\ known' = [known EXCEPT ![i] = IF force[i] THEN {} ELSE {f \in Files : copies[f] > 0}]
          /\ UNCHANGED excused
       \/ /\ ~force[i]
          /\ known' = [known EXCEPT ![i] = {}]
          /\ excused' = TRUE
    /\ UNCHANGED <<force, todo, file, progress, copies>>

\* The directory is scanned for files that are not known yet, or for all.
Scan(i) ==
    /\ pc[i] = "read"
    /\ pc' = [pc EXCEPT ![i] = "next"]
    /\ \E there \in SUBSET Files :
         todo' = [todo EXCEPT ![i] = {f \in there : force[i] \/ f \notin known[i]}]
    /\ UNCHANGED <<force, known, file, progress, copies, excused>>

\* A file is read and cut into chunks.
Chunk(i) ==
    /\ pc[i] = "next"
    /\ \E f \in todo[i] :
         /\ todo' = [todo EXCEPT ![i] = @ \ {f}]
         /\ file' = [file EXCEPT ![i] = f]
    /\ pc' = [pc EXCEPT ![i] = "chunked"]
    /\ UNCHANGED <<force, known, progress, copies, excused>>

\* One that has none, or cannot be read, is skipped.
Skip(i) ==
    /\ pc[i] = "chunked"
    /\ pc' = [pc EXCEPT ![i] = "next"]
    /\ UNCHANGED <<force, known, todo, file, progress, copies, excused>>

\* The old chunks of a known file are removed.
Delete(i) ==
    /\ pc[i] = "chunked"
    /\ file[i] \in known[i]
    /\ pc' = [pc EXCEPT ![i] = "adding"]
    /\ copies' = [copies EXCEPT ![file[i]] = 0]
    /\ UNCHANGED <<force, known, todo, file, progress, excused>>

Embed(i) ==
    /\ pc[i] = "chunked"
    /\ file[i] \notin known[i]
    /\ pc' = [pc EXCEPT ![i] = "adding"]
    /\ UNCHANGED <<force, known, todo, file, progress, copies, excused>>

Add(i) ==
    /\ pc[i] = "adding"
    /\ pc' = [pc EXCEPT ![i] = "next"]
    /\ copies' = [copies EXCEPT ![file[i]] = @ + 1]
    /\ UNCHANGED <<force, known, todo, file, progress, excused>>

\* index_directory returns or raises; an automatic run is taken off the list.
End(i) ==
    /\ pc' = [pc EXCEPT ![i] = "idle"]
    /\ progress' = (progress /\ i # Background)
    /\ UNCHANGED <<force, known, todo, file, copies, excused>>

Done(i)  == pc[i] = "next" /\ todo[i] = {} /\ End(i)
Fails(i) == pc[i] \in {"reading", "read", "next", "chunked", "adding"} /\ End(i)

\* The run of an agent is cancelled while a thread adds the rows, which goes on
\* by itself.  (In any other place a cancelled run is as good as a failed one.)
Cancel(c) ==
    /\ pc[c] = "adding"
    /\ pc' = [pc EXCEPT ![c] = "detached"]
    /\ UNCHANGED <<force, known, todo, file, progress, copies, excused>>

Land(c) ==
    /\ pc[c] = "detached"
    /\ pc' = [pc EXCEPT ![c] = "idle"]
    /\ copies' = [copies EXCEPT ![file[c]] = @ + 1]
    /\ UNCHANGED <<force, known, todo, file, progress, excused>>

Work(i) == \/ ReadIndexed(i) \/ Scan(i) \/ Chunk(i) \/ Skip(i) \/ Delete(i)
           \/ Embed(i) \/ Add(i) \/ Done(i) \/ Fails(i)

Next ==
    \/ \E c \in Callers : Index(c) \/ Cancel(c) \/ Land(c)
    \/ AutoIndex
    \/ \E i \in Indexers : Work(i)

Spec == Init /\ [][Next]_vars

-----------------------------------------------------------------------------
(* Properties *)

\* TYPE INVARIANT.
TypeOK ==
    /\ pc \in [Indexers -> {"idle", "reading", "read", "next", "chunked", "adding", "detached"}]
    /\ force \in [Indexers -> BOOLEAN]
    /\ known \in [Indexers -> SUBSET Files]
    /\ todo \in [Indexers -> SUBSET Files]
    /\ file \in [Indexers -> Files \cup {NoFile}]
    /\ \A i \in Indexers : pc[i] \in {"chunked", "adding", "detached"} => file[i] \in Files
    /\ progress \in BOOLEAN
    /\ copies \in [Files -> Nat]
    /\ excused \in BOOLEAN

\* The chunks of a file are in the index more than once only after an index was
\* forced, one ran into another, or the table could not be read: whatever fails
\* or is cancelled in between, an index goes on where the last one ended
\* (workspace_indexer.py:243-300).
TwiceOnlyExcused == ~excused => \A f \in Files : copies[f] <= 1

\* Old chunks are never removed, although that is what the code means to do when
\* a file is indexed again: a file at hand is not among those known, since known
\* files are passed over unless the run is forced, and a forced run knows none
\* (workspace_indexer.py:245, 255, 274-278).
NothingIsRemoved == \A i \in Indexers : ~(pc[i] = "chunked" /\ file[i] \in known[i])

\* At most one automatic run of the directory is under way, and while the
\* directory is marked there is one (workspace_index_tool.py:121-133).
MarkedWhileAuto == progress <=> pc[Background] # "idle"
=============================================================================
