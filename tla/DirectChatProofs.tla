--------------------------- MODULE DirectChatProofs ---------------------------
(***************************************************************************)
(* Proofs about DirectChat, for any set of turns (finite or not), any      *)
(* concurrency and any limits: the permits and the lock of the slot are    *)
(* given back whichever way a turn ends, and what is missing from the      *)
(* rolling context is excused.                                             *)
(***************************************************************************)
EXTENDS DirectChat, FiniteSetTheorems, SequenceTheorems, TLAPS

-----------------------------------------------------------------------------
(* The inductive invariant *)

Locals ==
    [pc : Places, stage : {"answer", "shifted", "repair"}, offered : BOOLEAN,
     iteration : 0..MaxIterations, used : BOOLEAN, call : 0..4, try : 0..MaxTries,
     toAdd : Seq(Said), snapshot : SUBSET Said]

Contexts == [messages : Seq(SUBSET Said), since : Nat, hasSummary : BOOLEAN]

\* The places at which a turn holds the lock of the slot.
Holding == {"posting", "recovering"}
Outside == {"new", "waiting", "done", "failed"}

ActiveTurns == {t \in Turns : Active(t)}

TurnsOK ==
    /\ turn \in [Turns -> Locals]
    /\ \A t \in Turns : turn[t].pc = "recovering" => turn[t].try < MaxTries

LockOK ==
    /\ lock \in Turns \cup {NoTurn}
    /\ \A t \in Turns : lock = t <=> turn[t].pc \in Holding

\* However many turns there may be, the active ones are finitely many.
PermitsOK ==
    /\ IsFiniteSet(ActiveTurns)
    /\ permits >= 0
    /\ permits = Concurrency - Cardinality(ActiveTurns)

\* The context tells nothing that was not said, and what was said and is not
\* excused.
MemoryOK ==
    /\ context \in Contexts
    /\ excused \subseteq said /\ said \subseteq Said
    /\ Known(context.messages) \subseteq said
    /\ OnlyExcusedForgotten

\* The same of what a turn that awaits a summary will put in its place.
SummariesOK ==
    \A t \in Turns : turn[t].pc = "summarising" =>
        /\ turn[t].snapshot \subseteq said
        /\ said \ excused \subseteq turn[t].snapshot

IInv ==
    /\ TurnsOK /\ LockOK /\ PermitsOK /\ up \in BOOLEAN
    /\ MemoryOK /\ SummariesOK

-----------------------------------------------------------------------------
(* Steps of one turn *)

\* Turn t goes on with the locals r.
Moved(t, r) == turn' = [turn EXCEPT ![t] = r]

\* What a step may do to the lock, given where it takes the turn: nothing, to
\* take it, to give it back.
LockMoves(t, r) ==
    \/ lock' = lock /\ (r.pc \in Holding <=> turn[t].pc \in Holding)
    \/ lock = NoTurn /\ lock' = t /\ r.pc \in Holding
    \/ turn[t].pc \in Holding /\ lock' = NoTurn /\ r.pc \notin Holding

PermitsMove(t, r) ==
    \/ permits' = permits /\ (r.pc \in Outside <=> turn[t].pc \in Outside)
    \/ permits > 0 /\ permits' = permits - 1 /\ turn[t].pc \in Outside /\ r.pc \notin Outside
    \/ permits' = permits + 1 /\ turn[t].pc \notin Outside /\ r.pc \in Outside

LEMMA MovedTurns ==
    ASSUME TurnsOK, NEW t \in Turns, NEW r \in Locals, Moved(t, r)
    PROVE  /\ turn' \in [Turns -> Locals]
           /\ turn'[t] = r
           /\ \A u \in Turns \ {t} : turn'[u] = turn[u]
BY DEF TurnsOK, Moved

LEMMA LocksMoved ==
    ASSUME TurnsOK, LockOK, NEW t \in Turns, NEW r \in Locals, Moved(t, r), LockMoves(t, r)
    PROVE  LockOK'
<1>1. /\ turn'[t] = r
      /\ \A u \in Turns \ {t} : turn'[u] = turn[u]
    BY MovedTurns
<1>2. CASE lock' = lock /\ (r.pc \in Holding <=> turn[t].pc \in Holding)
    BY <1>1, <1>2 DEF LockOK, Holding
<1>3. CASE lock = NoTurn /\ lock' = t /\ r.pc \in Holding
    BY <1>1, <1>3, ChatAssumption DEF LockOK, Holding
<1>4. CASE turn[t].pc \in Holding /\ lock' = NoTurn /\ r.pc \notin Holding
    BY <1>1, <1>4, ChatAssumption DEF LockOK, Holding
<1> QED BY <1>2, <1>3, <1>4 DEF LockMoves

LEMMA PermitsMoved ==
    ASSUME TurnsOK, PermitsOK, NEW t \in Turns, NEW r \in Locals, Moved(t, r),
           PermitsMove(t, r)
    PROVE  PermitsOK'
<1>1. /\ turn'[t] = r
      /\ \A u \in Turns \ {t} : turn'[u] = turn[u]
    BY MovedTurns
<1>2. Cardinality(ActiveTurns) \in Nat /\ Concurrency \in Nat
    BY FS_CardinalityType, ChatAssumption DEF PermitsOK
<1>3. CASE permits' = permits /\ (r.pc \in Outside <=> turn[t].pc \in Outside)
  <2>1. ActiveTurns' = ActiveTurns
    BY <1>1, <1>3 DEF ActiveTurns, Active, Outside
  <2> QED BY <2>1, <1>3 DEF PermitsOK
<1>4. CASE permits > 0 /\ permits' = permits - 1 /\ turn[t].pc \in Outside /\ r.pc \notin Outside
  <2>1. ActiveTurns' = ActiveTurns \cup {t} /\ t \notin ActiveTurns
    BY <1>1, <1>4 DEF ActiveTurns, Active, Outside
  <2>2. IsFiniteSet(ActiveTurns') /\ Cardinality(ActiveTurns') = Cardinality(ActiveTurns) + 1
    BY <2>1, FS_AddElement DEF PermitsOK
  <2> QED BY <2>2, <1>2, <1>4 DEF PermitsOK
<1>5. CASE permits' = permits + 1 /\ turn[t].pc \notin Outside /\ r.pc \in Outside
  <2>1. ActiveTurns' = ActiveTurns \ {t} /\ t \in ActiveTurns
    BY <1>1, <1>5 DEF ActiveTurns, Active, Outside
  <2>2. IsFiniteSet(ActiveTurns') /\ Cardinality(ActiveTurns') = Cardinality(ActiveTurns) - 1
    BY <2>1, FS_RemoveElement DEF PermitsOK
  <2> QED BY <2>2, <1>2, <1>5 DEF PermitsOK
<1> QED BY <1>3, <1>4, <1>5 DEF PermitsMove

\* The part of the invariant that is not about the memory.
Control == TurnsOK /\ LockOK /\ PermitsOK /\ up \in BOOLEAN

LEMMA ControlMoved ==
    ASSUME Control, NEW t \in Turns, NEW r \in Locals, Moved(t, r),
           LockMoves(t, r), PermitsMove(t, r), up' = up,
           r.pc = "recovering" => r.try < MaxTries
    PROVE  Control'
<1>1. TurnsOK'
    BY MovedTurns DEF Control, TurnsOK
<1>2. LockOK'
    BY LocksMoved DEF Control
<1>3. PermitsOK'
    BY PermitsMoved DEF Control
<1> QED BY <1>1, <1>2, <1>3 DEF Control

\* A step that leaves the memory alone and starts no summary.
LEMMA Quiet ==
    ASSUME IInv, NEW t \in Turns, NEW r \in Locals, Moved(t, r),
           LockMoves(t, r), PermitsMove(t, r), up' = up, UNCHANGED memory,
           r.pc = "recovering" => r.try < MaxTries,
           r.pc # "summarising"
    PROVE  IInv'
<1>1. Control'
    BY ControlMoved DEF IInv, Control
<1>2. MemoryOK'
    BY DEF IInv, MemoryOK, memory, OnlyExcusedForgotten
<1>3. SummariesOK'
  <2>1. /\ turn'[t] = r
        /\ \A u \in Turns \ {t} : turn'[u] = turn[u]
    BY MovedTurns DEF IInv
  <2> QED BY <2>1 DEF IInv, SummariesOK, memory
<1> QED BY <1>1, <1>2, <1>3 DEF IInv, Control

LEMMA LocalsOf ==
    ASSUME TurnsOK, NEW t \in Turns
    PROVE  turn[t] \in Locals
BY DEF TurnsOK

LEMMA Fresh ==
    /\ NewTurn \in Locals
    /\ \A p \in Places : [NewTurn EXCEPT !.pc = p] \in Locals
<1> DEFINE none == << >>
<1>1. none \in Seq(Said)
    BY SMT
<1> HIDE DEF none
<1>2. [pc |-> "new", stage |-> "answer", offered |-> FALSE, iteration |-> 0,
       used |-> FALSE, call |-> 0, try |-> 0,
       toAdd |-> none, snapshot |-> {}] \in Locals
    BY <1>1, ChatAssumption DEF Locals, Places
<1>3. NewTurn \in Locals
    BY <1>2 DEF NewTurn, none
<1>4. PICK n : n = NewTurn
    OBVIOUS
<1>5. \A p \in Places : [n EXCEPT !.pc = p] \in Locals
    BY <1>3, <1>4 DEF Locals
<1> QED BY <1>3, <1>4, <1>5

LEMMA TranscriptsAreSeqs ==
    ASSUME NEW t \in Turns, NEW used, NEW texts \in Transcripts(t, used)
    PROVE  texts \in Seq(Said)
<1> DEFINE note == IF used THEN <<<<t, "system">>>> ELSE << >>
<1>1. <<t, "system">> \in Said /\ <<t, "user">> \in Said /\ <<t, "assistant">> \in Said
    BY DEF Said, Roles
<1>2. <<<<t, "system">>>> \in Seq(Said) /\ << >> \in Seq(Said)
    BY <1>1
<1>3. note \in Seq(Said)
    BY <1>2, Zenon
<1>4. <<<<t, "user">>, <<t, "assistant">>>> \in Seq(Said) /\ <<<<t, "user">>>> \in Seq(Said)
    BY <1>1
<1> HIDE DEF note
<1>5. texts \in {note \o <<<<t, "user">>, <<t, "assistant">>>>, note \o <<<<t, "user">>>>}
    BY DEF Transcripts, note
<1> QED BY <1>3, <1>4, <1>5, ConcatProperties

-----------------------------------------------------------------------------
(* The actions that leave the memory alone *)

LEMMA RoutingStep ==
    ASSUME IInv, NEW t \in Turns,
           Arrive(t) \/ Begin(t) \/ DescribeCapabilities(t) \/ FastPath(t) \/ BuildPrompt(t)
    PROVE  IInv'
<1>1. turn[t] \in Locals
    BY LocalsOf DEF IInv
<1>2. CASE Arrive(t)
  <2> DEFINE r == [turn[t] EXCEPT !.pc = IF up THEN "waiting" ELSE "failed"]
  <2>1. r.pc \in {"waiting", "failed"} /\ r \in Locals
    BY <1>1 DEF Locals, Places
  <2>2. Moved(t, r) /\ turn[t].pc = "new"
    BY <1>2 DEF Arrive, Moved
  <2> HIDE DEF r
  <2>3. LockMoves(t, r) /\ PermitsMove(t, r)
    BY <1>2, <2>1, <2>2 DEF Arrive, LockMoves, PermitsMove, Holding, Outside
  <2> QED BY <1>2, <2>1, <2>2, <2>3, Quiet DEF Arrive
<1>3. CASE Begin(t)
  <2> DEFINE r == [turn[t] EXCEPT !.pc = "routing"]
  <2>1. r.pc = "routing" /\ r \in Locals
    BY <1>1 DEF Locals, Places
  <2>2. Moved(t, r) /\ turn[t].pc = "waiting"
    BY <1>3 DEF Begin, Moved
  <2> HIDE DEF r
  <2>3. LockMoves(t, r) /\ PermitsMove(t, r)
    BY <1>3, <2>1, <2>2 DEF Begin, LockMoves, PermitsMove, Holding, Outside
  <2> QED BY <1>3, <2>1, <2>2, <2>3, Quiet DEF Begin
<1>4. CASE DescribeCapabilities(t)
  <2> DEFINE r == [NewTurn EXCEPT !.pc = "done"]
  <2>1. r.pc = "done" /\ r \in Locals
    BY Fresh DEF Places, NewTurn
  <2>2. Moved(t, r) /\ turn[t].pc = "routing"
    BY <1>4 DEF DescribeCapabilities, Leave, Moved
  <2> HIDE DEF r
  <2>3. LockMoves(t, r) /\ PermitsMove(t, r)
    BY <1>4, <2>1, <2>2 DEF DescribeCapabilities, Leave, LockMoves, PermitsMove, Holding, Outside
  <2> QED BY <1>4, <2>1, <2>2, <2>3, Quiet DEF DescribeCapabilities
<1>5. CASE FastPath(t)
  <2> DEFINE s == <<<<t, "user">>, <<t, "assistant">>>>
             r == [turn[t] EXCEPT !.pc = "remembering", !.toAdd = s]
  <2>0. s \in Seq(Said)
    BY DEF Said, Roles
  <2>1. Moved(t, r) /\ turn[t].pc = "routing"
    BY <1>1, <1>5 DEF FastPath, Moved, IInv, TurnsOK
  <2> HIDE DEF s
  <2>2. r.pc = "remembering" /\ r \in Locals
    BY <1>1, <2>0 DEF Locals, Places
  <2> HIDE DEF r
  <2>3. LockMoves(t, r) /\ PermitsMove(t, r)
    BY <1>5, <2>1, <2>2 DEF FastPath, LockMoves, PermitsMove, Holding, Outside
  <2> QED BY <1>5, <2>1, <2>2, <2>3, Quiet DEF FastPath
<1>6. CASE BuildPrompt(t)
  <2>1. PICK offered \in BOOLEAN :
          turn' = [turn EXCEPT ![t].pc = "asking", ![t].iteration = 1, ![t].offered = offered]
    BY <1>6 DEF BuildPrompt
  <2> DEFINE r == [turn[t] EXCEPT !.pc = "asking", !.iteration = 1, !.offered = offered]
             q == [turn[t] EXCEPT !.pc = "asking", !.iteration = 1]
  <2>2. 1 \in 0..MaxIterations
    BY ChatAssumption
  <2>3. q \in Locals /\ q.pc = "asking"
    BY <1>1, <2>2 DEF Locals, Places
  <2> HIDE DEF q
  <2>4. [q EXCEPT !.offered = offered] \in Locals /\ [q EXCEPT !.offered = offered].pc = "asking"
    BY <2>3 DEF Locals
  <2>5. r = [q EXCEPT !.offered = offered]
    BY DEF q
  <2>6. r.pc = "asking" /\ r \in Locals
    BY <2>4, <2>5
  <2>7. Moved(t, r) /\ turn[t].pc = "routing"
    BY <1>1, <1>6, <2>1 DEF BuildPrompt, Moved, IInv, TurnsOK
  <2> HIDE DEF r
  <2>8. LockMoves(t, r) /\ PermitsMove(t, r)
    BY <1>6, <2>6, <2>7 DEF BuildPrompt, LockMoves, PermitsMove, Holding, Outside
  <2> QED BY <1>6, <2>6, <2>7, <2>8, Quiet DEF BuildPrompt
<1> QED BY <1>2, <1>3, <1>4, <1>5, <1>6

\* Setting fields of t's locals one by one sets the locals.
LEMMA ThreeFields ==
    ASSUME turn = [u \in Turns |-> turn[u]], NEW t \in Turns, NEW a, NEW b, NEW c,
           turn' = [turn EXCEPT ![t].pc = a, ![t].call = b, ![t].try = c]
    PROVE  Moved(t, [turn[t] EXCEPT !.pc = a, !.call = b, !.try = c])
<1>1. PICK f \in {turn} : TRUE
    OBVIOUS
<1>2. PICK g \in {turn'} : TRUE
    OBVIOUS
<1>3. g = [f EXCEPT ![t] = [f[t] EXCEPT !.pc = a, !.call = b, !.try = c]]
  <2>1. f = [u \in Turns |-> f[u]] /\ g = [f EXCEPT ![t].pc = a, ![t].call = b, ![t].try = c]
    BY <1>1, <1>2
  <2> QED BY <2>1
<1> QED BY <1>1, <1>2, <1>3 DEF Moved

LEMMA FourFields ==
    ASSUME turn = [u \in Turns |-> turn[u]], NEW t \in Turns, NEW a, NEW b, NEW c, NEW d,
           turn' = [turn EXCEPT ![t].pc = a, ![t].stage = b, ![t].call = c, ![t].try = d]
    PROVE  Moved(t, [turn[t] EXCEPT !.pc = a, !.stage = b, !.call = c, !.try = d])
<1>1. PICK f1 : f1 = [turn EXCEPT ![t].pc = a]
    OBVIOUS
<1>2. PICK f2 : f2 = [f1 EXCEPT ![t].stage = b]
    OBVIOUS
<1>3. PICK f3 : f3 = [f2 EXCEPT ![t].call = c]
    OBVIOUS
<1>4. f1[t] = [turn[t] EXCEPT !.pc = a] /\ f1 = [turn EXCEPT ![t] = f1[t]]
    BY <1>1
<1>5. f2[t] = [f1[t] EXCEPT !.stage = b] /\ f2 = [turn EXCEPT ![t] = f2[t]]
    BY <1>2, <1>4
<1>6. f3[t] = [f2[t] EXCEPT !.call = c] /\ f3 = [turn EXCEPT ![t] = f3[t]]
    BY <1>3, <1>5
<1>7. turn' = [f3 EXCEPT ![t].try = d]
    BY <1>1, <1>2, <1>3
<1> QED BY <1>4, <1>5, <1>6, <1>7 DEF Moved

LEMMA TurnIsFunction ==
    ASSUME TurnsOK
    PROVE  turn = [u \in Turns |-> turn[u]]
BY DEF TurnsOK

LEMMA CallSet ==
    ASSUME NEW r \in Locals, NEW p \in Places, NEW call \in 0..4
    PROVE  /\ [r EXCEPT !.pc = p, !.call = call, !.try = 0] \in Locals
           /\ [r EXCEPT !.pc = p, !.call = call, !.try = 0].pc = p
<1> DEFINE q == [r EXCEPT !.pc = p, !.call = call]
<1>1. q \in Locals /\ q.pc = p
    BY DEF Locals
<1> HIDE DEF q
<1>2. 0 \in 0..MaxTries
    BY ChatAssumption
<1>3. [q EXCEPT !.try = 0] \in Locals /\ [q EXCEPT !.try = 0].pc = p
    BY <1>1, <1>2 DEF Locals
<1>4. [r EXCEPT !.pc = p, !.call = call, !.try = 0] = [q EXCEPT !.try = 0]
    BY DEF q
<1> QED BY <1>3, <1>4

LEMMA AcquireSlotStep ==
    ASSUME IInv, NEW t \in Turns, AcquireSlot(t)
    PROVE  IInv'
<1>1. turn[t] \in Locals
    BY LocalsOf DEF IInv
<1> DEFINE r == [turn[t] EXCEPT !.pc = "posting", !.call = 1, !.try = 0]
<1>2. "posting" \in Places /\ 1 \in 0..4
    BY DEF Places
<1>3. r \in Locals /\ r.pc = "posting"
    BY <1>1, <1>2, CallSet
<1>4. Moved(t, r) /\ turn[t].pc = "asking"
    BY ThreeFields, TurnIsFunction DEF AcquireSlot, IInv
<1> HIDE DEF r
<1>5. LockMoves(t, r) /\ PermitsMove(t, r)
    BY <1>3, <1>4 DEF AcquireSlot, LockMoves, PermitsMove, Holding, Outside
<1> QED BY <1>3, <1>4, <1>5, Quiet DEF AcquireSlot

LEMMA PostingAgain ==
    ASSUME IInv, NEW t \in Turns, turn[t].pc = "posting", NEW call \in 0..4, PostAgain(t, call)
    PROVE  IInv'
<1>1. turn[t] \in Locals
    BY LocalsOf DEF IInv
<1> DEFINE r == [turn[t] EXCEPT !.call = call, !.try = 0]
<1>2. 0 \in 0..MaxTries
    BY ChatAssumption
<1>3. r \in Locals /\ r.pc = "posting"
    BY <1>1, <1>2 DEF Locals, Places
<1>4. Moved(t, r)
    BY <1>1 DEF PostAgain, Moved, IInv, TurnsOK
<1> HIDE DEF r
<1>5. LockMoves(t, r) /\ PermitsMove(t, r)
    BY <1>3 DEF PostAgain, LockMoves, PermitsMove, Holding, Outside
<1> QED BY <1>3, <1>4, <1>5, Quiet DEF PostAgain

LEMMA RetryStep ==
    ASSUME IInv, NEW t \in Turns,
           EmptyAnswer(t) \/ CleanedAway(t) \/ TransientError(t) \/ Recovered(t)
    PROVE  IInv'
<1>1. turn[t] \in Locals
    BY LocalsOf DEF IInv
<1>2. turn[t].call \in 0..4 /\ turn[t].try \in 0..MaxTries
    BY <1>1 DEF Locals
<1>3. CASE EmptyAnswer(t)
  <2>1. turn[t].call + 1 \in 0..4
    BY <1>2, <1>3 DEF EmptyAnswer
  <2> QED BY <1>3, <2>1, PostingAgain DEF EmptyAnswer
<1>4. CASE CleanedAway(t)
    BY <1>4, PostingAgain DEF CleanedAway
<1>5. CASE TransientError(t)
  <2> DEFINE r == [turn[t] EXCEPT !.pc = "recovering"]
  <2>1. r \in Locals /\ r.pc = "recovering" /\ r.try < MaxTries
    BY <1>1, <1>5 DEF TransientError, TriesLeft, Locals, Places
  <2>2. Moved(t, r) /\ turn[t].pc = "posting"
    BY <1>5 DEF TransientError, Moved
  <2> HIDE DEF r
  <2>3. LockMoves(t, r) /\ PermitsMove(t, r)
    BY <1>5, <2>1, <2>2 DEF TransientError, LockMoves, PermitsMove, Holding, Outside
  <2> QED BY <1>5, <2>1, <2>2, <2>3, Quiet DEF TransientError
<1>6. CASE Recovered(t)
  <2> DEFINE r == [turn[t] EXCEPT !.pc = "posting", !.try = turn[t].try + 1]
  <2>1. turn[t].pc = "recovering" /\ turn[t].try < MaxTries
    BY <1>6 DEF Recovered, IInv, TurnsOK
  <2>2. turn[t].try + 1 \in 0..MaxTries
    BY <1>2, <2>1, ChatAssumption
  <2>3. r \in Locals /\ r.pc = "posting"
    BY <1>1, <2>2 DEF Locals, Places
  <2>4. Moved(t, r)
    BY <1>1, <1>6 DEF Recovered, Moved, IInv, TurnsOK
  <2> HIDE DEF r
  <2>5. LockMoves(t, r) /\ PermitsMove(t, r)
    BY <1>6, <2>1, <2>3 DEF Recovered, LockMoves, PermitsMove, Holding, Outside
  <2> QED BY <1>6, <2>3, <2>4, <2>5, Quiet DEF Recovered
<1> QED BY <1>3, <1>4, <1>5, <1>6

LEMMA Reset ==
    ASSUME NEW texts \in Seq(Said), NEW used \in BOOLEAN
    PROVE  /\ [NewTurn EXCEPT !.pc = "asking", !.stage = "repair", !.used = used] \in Locals
           /\ [NewTurn EXCEPT !.pc = "asking", !.stage = "repair", !.used = used].pc = "asking"
           /\ [NewTurn EXCEPT !.pc = "remembering", !.toAdd = texts] \in Locals
           /\ [NewTurn EXCEPT !.pc = "remembering", !.toAdd = texts].pc = "remembering"
<1>1. PICK n : n = NewTurn
    OBVIOUS
<1>2. n \in Locals
    BY <1>1, Fresh
<1>3. [n EXCEPT !.pc = "remembering", !.toAdd = texts] \in Locals
    BY <1>2 DEF Locals, Places
<1>4. [n EXCEPT !.pc = "remembering", !.toAdd = texts].pc = "remembering"
    BY <1>2 DEF Locals
<1> DEFINE q == [n EXCEPT !.pc = "asking", !.stage = "repair"]
<1>5. q \in Locals /\ q.pc = "asking"
    BY <1>2 DEF Locals, Places
<1> HIDE DEF q
<1>6. [q EXCEPT !.used = used] \in Locals /\ [q EXCEPT !.used = used].pc = "asking"
    BY <1>5 DEF Locals
<1>7. [n EXCEPT !.pc = "asking", !.stage = "repair", !.used = used] = [q EXCEPT !.used = used]
    BY DEF q
<1> QED BY <1>1, <1>3, <1>4, <1>6, <1>7

LEMMA CallReset ==
    ASSUME NEW r \in Locals
    PROVE  /\ [r EXCEPT !.call = 0, !.try = 0] \in Locals
           /\ [r EXCEPT !.call = 0, !.try = 0].pc = r.pc
<1> DEFINE q == [r EXCEPT !.call = 0]
<1>1. q \in Locals /\ q.pc = r.pc
    BY DEF Locals
<1> HIDE DEF q
<1>2. 0 \in 0..MaxTries
    BY ChatAssumption
<1>3. [q EXCEPT !.try = 0] \in Locals /\ [q EXCEPT !.try = 0].pc = r.pc
    BY <1>1, <1>2 DEF Locals
<1>4. [r EXCEPT !.call = 0, !.try = 0] = [q EXCEPT !.try = 0]
    BY DEF q
<1> QED BY <1>3, <1>4

LEMMA AgainIsLocals ==
    ASSUME TurnsOK, NEW t \in Turns, turn[t].iteration < MaxIterations
    PROVE  /\ Again(t) \in Locals /\ Again(t).pc = "asking"
           /\ [Again(t) EXCEPT !.used = TRUE] \in Locals
           /\ [Again(t) EXCEPT !.used = TRUE].pc = "asking"
<1>1. PICK n : n = turn[t].iteration + 1
    OBVIOUS
<1>2. n \in 0..MaxIterations
  <2>1. turn[t].iteration \in 0..MaxIterations
    BY LocalsOf DEF Locals
  <2> QED BY <1>1, <2>1, ChatAssumption
<1> DEFINE q == [turn[t] EXCEPT !.pc = "asking", !.stage = "answer"]
           q2 == [q EXCEPT !.iteration = n]
           q3 == [q2 EXCEPT !.call = 0, !.try = 0]
<1>3. q \in Locals /\ q.pc = "asking"
    BY LocalsOf DEF Locals, Places
<1> HIDE DEF q
<1>4. q2 \in Locals /\ q2.pc = "asking"
    BY <1>2, <1>3 DEF Locals
<1> HIDE DEF q2
<1>5. q3 \in Locals /\ q3.pc = "asking"
    BY <1>4, CallReset
<1>6. Again(t) = q3
    BY <1>1 DEF Again, q, q2
<1> HIDE DEF q3
<1>7. [q3 EXCEPT !.used = TRUE] \in Locals /\ [q3 EXCEPT !.used = TRUE].pc = "asking"
    BY <1>5 DEF Locals
<1> QED BY <1>5, <1>6, <1>7

LEMMA LeaveLoopGoes ==
    ASSUME TurnsOK, NEW t \in Turns, NEW used \in BOOLEAN, LeaveLoop(t, used)
    PROVE  \E r \in Locals : Moved(t, r) /\ r.pc \in {"asking", "remembering"}
<1>1. CASE turn' = [turn EXCEPT ![t] = [NewTurn EXCEPT !.pc = "asking", !.stage = "repair",
                                                       !.used = used]]
  <2>1. << >> \in Seq(Said)
    BY SMT
  <2>2. PICK r \in Locals : /\ r.pc = "asking"
                            /\ r = [NewTurn EXCEPT !.pc = "asking", !.stage = "repair",
                                                   !.used = used]
    BY <2>1, Reset
  <2>3. turn' = [turn EXCEPT ![t] = r]
    BY <1>1, <2>2, Zenon
  <2> QED BY <2>2, <2>3 DEF Moved
<1>2. ASSUME NEW texts \in Transcripts(t, used),
             turn' = [turn EXCEPT ![t] = [NewTurn EXCEPT !.pc = "remembering", !.toAdd = texts]]
      PROVE  \E r \in Locals : Moved(t, r) /\ r.pc \in {"asking", "remembering"}
  <2>1. texts \in Seq(Said)
    BY TranscriptsAreSeqs
  <2>2. PICK r \in Locals : /\ r.pc = "remembering"
                            /\ r = [NewTurn EXCEPT !.pc = "remembering", !.toAdd = texts]
    BY <2>1, Reset
  <2>3. turn' = [turn EXCEPT ![t] = r]
    BY <1>2, <2>2, Zenon
  <2> QED BY <2>2, <2>3 DEF Moved
<1> QED BY <1>1, <1>2, Zenon DEF LeaveLoop

LEMMA UsedIsBoolean ==
    ASSUME TurnsOK, NEW t \in Turns
    PROVE  turn[t].used \in BOOLEAN
BY LocalsOf DEF Locals

LEMMA AnsweredStep ==
    ASSUME IInv, NEW t \in Turns, Answered(t)
    PROVE  IInv'
<1>1. turn[t] \in Locals /\ turn[t].pc = "posting"
    BY LocalsOf DEF IInv, Answered
<1>2. /\ lock' = NoTurn
      /\ UNCHANGED <<permits, up, memory>>
    BY DEF Answered, SlotReleased
<1>3. \/ turn' = [turn EXCEPT ![t].pc = "tools"]
      \/ turn[t].iteration < MaxIterations /\ turn' = [turn EXCEPT ![t] = Again(t)]
      \/ LeaveLoop(t, turn[t].used)
    BY DEF Answered
<1>4. \E r \in Locals : Moved(t, r) /\ r.pc \in {"tools", "asking", "remembering"}
  <2>1. CASE turn' = [turn EXCEPT ![t].pc = "tools"]
    <3> DEFINE r == [turn[t] EXCEPT !.pc = "tools"]
    <3>1. r \in Locals /\ r.pc = "tools"
      BY <1>1 DEF Locals, Places
    <3>2. Moved(t, r)
      BY <2>1 DEF Moved
    <3> HIDE DEF r
    <3> QED BY <3>1, <3>2
  <2>2. CASE turn[t].iteration < MaxIterations /\ turn' = [turn EXCEPT ![t] = Again(t)]
    <3>1. Again(t) \in Locals /\ Again(t).pc = "asking"
      BY <2>2, AgainIsLocals DEF IInv
    <3> QED BY <2>2, <3>1 DEF Moved
  <2>3. CASE LeaveLoop(t, turn[t].used)
    <3>1. PICK used \in BOOLEAN : used = turn[t].used
      BY UsedIsBoolean DEF IInv
    <3>2. LeaveLoop(t, used)
      BY <2>3, <3>1, Zenon
    <3>3. \E r \in Locals : Moved(t, r) /\ r.pc \in {"asking", "remembering"}
      BY <3>2, LeaveLoopGoes DEF IInv
    <3> QED BY <3>3
  <2> QED BY <1>3, <2>1, <2>2, <2>3
<1>5. PICK r \in Locals : Moved(t, r) /\ r.pc \in {"tools", "asking", "remembering"}
    BY <1>4
<1>6. LockMoves(t, r) /\ PermitsMove(t, r)
    BY <1>1, <1>2, <1>5 DEF LockMoves, PermitsMove, Holding, Outside
<1> QED BY <1>2, <1>5, <1>6, Quiet

LEMMA ToolsEndStep ==
    ASSUME IInv, NEW t \in Turns, ToolsEnd(t)
    PROVE  IInv'
<1>1. turn[t].pc = "tools" /\ UNCHANGED <<permits, lock, up, memory>>
    BY DEF ToolsEnd
<1>2. \/ /\ turn[t].iteration < MaxIterations
         /\ turn' = [turn EXCEPT ![t] = [Again(t) EXCEPT !.used = TRUE]]
      \/ LeaveLoop(t, TRUE)
    BY DEF ToolsEnd
<1>3. \E r \in Locals : Moved(t, r) /\ r.pc \in {"asking", "remembering"}
  <2>1. CASE /\ turn[t].iteration < MaxIterations
             /\ turn' = [turn EXCEPT ![t] = [Again(t) EXCEPT !.used = TRUE]]
    <3>1. PICK r \in Locals : r.pc = "asking" /\ r = [Again(t) EXCEPT !.used = TRUE]
      BY <2>1, AgainIsLocals DEF IInv
    <3>2. turn' = [turn EXCEPT ![t] = r]
      BY <2>1, <3>1, Zenon
    <3> QED BY <3>1, <3>2 DEF Moved
  <2>2. CASE LeaveLoop(t, TRUE)
    BY <2>2, LeaveLoopGoes DEF IInv
  <2> QED BY <1>2, <2>1, <2>2
<1>4. PICK r \in Locals : Moved(t, r) /\ r.pc \in {"asking", "remembering"}
    BY <1>3
<1>5. LockMoves(t, r) /\ PermitsMove(t, r)
    BY <1>1, <1>4 DEF LockMoves, PermitsMove, Holding, Outside
<1> QED BY <1>1, <1>4, <1>5, Quiet

LEMMA ToolsFailStep ==
    ASSUME IInv, NEW t \in Turns, ToolsFail(t)
    PROVE  IInv'
<1> DEFINE r == [NewTurn EXCEPT !.pc = "failed"]
<1>1. r.pc = "failed" /\ r \in Locals
    BY Fresh DEF Places, NewTurn
<1>2. Moved(t, r) /\ turn[t].pc = "tools"
    BY DEF ToolsFail, Leave, Moved
<1> HIDE DEF r
<1>3. LockMoves(t, r) /\ PermitsMove(t, r)
    BY <1>1, <1>2 DEF ToolsFail, Leave, LockMoves, PermitsMove, Holding, Outside
<1> QED BY <1>1, <1>2, <1>3, Quiet DEF ToolsFail

LEMMA RepairEndsStep ==
    ASSUME IInv, NEW t \in Turns, RepairEnds(t)
    PROVE  IInv'
<1>1. turn[t].pc = "posting" /\ lock' = NoTurn /\ UNCHANGED <<permits, up, memory>>
    BY DEF RepairEnds, SlotReleased
<1>2. PICK texts \in Transcripts(t, turn[t].used) :
        turn' = [turn EXCEPT ![t] = [NewTurn EXCEPT !.pc = "remembering", !.toAdd = texts]]
    BY Zenon DEF RepairEnds
<1>3. texts \in Seq(Said)
    BY TranscriptsAreSeqs
<1>4. PICK r \in Locals : /\ r.pc = "remembering"
                          /\ r = [NewTurn EXCEPT !.pc = "remembering", !.toAdd = texts]
    BY <1>3, Reset
<1>5. Moved(t, r)
    BY <1>2, <1>4, Zenon DEF Moved
<1>6. LockMoves(t, r) /\ PermitsMove(t, r)
    BY <1>1, <1>4 DEF LockMoves, PermitsMove, Holding, Outside
<1> QED BY <1>1, <1>4, <1>5, <1>6, Quiet

LEMMA ContextShiftStep ==
    ASSUME IInv, NEW t \in Turns, ContextShift(t)
    PROVE  IInv'
<1>1. turn[t] \in Locals /\ turn[t].pc = "posting"
    BY LocalsOf DEF IInv, ContextShift
<1>2. lock' = NoTurn /\ UNCHANGED <<permits, up, memory>>
    BY DEF ContextShift, SlotReleased
<1> DEFINE q == [turn[t] EXCEPT !.pc = "asking", !.stage = "shifted"]
           r == [turn[t] EXCEPT !.pc = "asking", !.stage = "shifted", !.call = 0, !.try = 0]
<1>3. q \in Locals /\ q.pc = "asking"
    BY <1>1 DEF Locals, Places
<1> HIDE DEF q
<1>4. [q EXCEPT !.call = 0, !.try = 0] \in Locals /\ [q EXCEPT !.call = 0, !.try = 0].pc = "asking"
    BY <1>3, CallReset
<1>5. r = [q EXCEPT !.call = 0, !.try = 0]
    BY DEF q
<1>6. Moved(t, r)
    BY FourFields, TurnIsFunction DEF ContextShift, IInv
<1>7. r \in Locals /\ r.pc = "asking"
    BY <1>4, <1>5
<1> HIDE DEF r
<1>8. LockMoves(t, r) /\ PermitsMove(t, r)
    BY <1>1, <1>2, <1>7 DEF LockMoves, PermitsMove, Holding, Outside
<1> QED BY <1>2, <1>6, <1>7, <1>8, Quiet

LEMMA TurnFailsStep ==
    ASSUME IInv, NEW t \in Turns, TurnFails(t)
    PROVE  IInv'
<1>1. turn[t].pc = "posting" /\ lock' = NoTurn /\ UNCHANGED <<up, memory>>
    BY DEF TurnFails, SlotReleased
<1>2. permits' = permits + 1 /\ Moved(t, [NewTurn EXCEPT !.pc = "failed"])
    BY DEF TurnFails, Leave, Moved
<1>3. PICK r \in Locals : r.pc = "failed" /\ r = [NewTurn EXCEPT !.pc = "failed"]
  <2>1. "failed" \in Places /\ [NewTurn EXCEPT !.pc = "failed"].pc = "failed"
    BY DEF Places, NewTurn
  <2> QED BY <2>1, Fresh
<1>4. Moved(t, r)
    BY <1>2, <1>3, Zenon
<1>5. LockMoves(t, r) /\ PermitsMove(t, r)
    BY <1>1, <1>2, <1>3 DEF LockMoves, PermitsMove, Holding, Outside
<1> QED BY <1>1, <1>3, <1>4, <1>5, Quiet

-----------------------------------------------------------------------------
(* The rolling context *)

Elements(texts) == {texts[i] : i \in 1..Len(texts)}

\* Adding messages adds what they say, and nothing else changes.
LEMMA AddedTells ==
    ASSUME NEW ctx \in Contexts, NEW texts \in Seq(Said)
    PROVE  /\ Added(ctx, texts) \in Contexts
           /\ Known(Added(ctx, texts).messages) = Known(ctx.messages) \cup Elements(texts)
<1> DEFINE new == [i \in 1..Len(texts) |-> {texts[i]}]
           old == ctx.messages
<1>1. old \in Seq(SUBSET Said) /\ Len(old) \in Nat /\ Len(texts) \in Nat
    BY DEF Contexts
<1>2. \A i \in 1..Len(texts) : texts[i] \in Said
    BY ElementOfSeq
<1>3. new \in Seq(SUBSET Said) /\ Len(new) = Len(texts)
    BY <1>1, <1>2
<1>4. \A i \in 1..Len(texts) : new[i] = {texts[i]}
    OBVIOUS
<1> HIDE DEF new, old
<1>5. PICK all : all = old \o new
    OBVIOUS
<1>6. /\ all \in Seq(SUBSET Said)
      /\ Len(all) = Len(old) + Len(texts)
      /\ \A i \in 1..Len(all) : all[i] = IF i <= Len(old) THEN old[i] ELSE new[i - Len(old)]
  <2>1. /\ old \o new \in Seq(SUBSET Said)
        /\ Len(old \o new) = Len(old) + Len(new)
        /\ \A i \in 1..Len(old) + Len(new) :
             (old \o new)[i] = IF i <= Len(old) THEN old[i] ELSE new[i - Len(old)]
    BY <1>1, <1>3, ConcatProperties, Zenon
  <2> QED BY <1>3, <1>5, <2>1, Zenon
<1>7. Added(ctx, texts) = [ctx EXCEPT !.messages = all, !.since = ctx.since + Len(texts)]
    BY <1>5 DEF Added, new, old
<1>8. Added(ctx, texts) \in Contexts /\ Added(ctx, texts).messages = all
  <2>1. ctx.since \in Nat
    BY DEF Contexts
  <2>2. PICK n \in Nat : n = ctx.since + Len(texts)
    BY <1>1, <2>1
  <2> QED BY <1>6, <1>7, <2>2 DEF Contexts
<1>9. Known(all) \subseteq Known(old) \cup Elements(texts)
  <2> SUFFICES ASSUME NEW i \in 1..Len(all), NEW x \in all[i]
               PROVE  x \in Known(old) \cup Elements(texts)
    BY DEF Known
  <2>1. CASE i <= Len(old)
    <3>1. i \in 1..Len(old) /\ x \in old[i]
      BY <1>1, <1>6, <2>1
    <3> QED BY <3>1 DEF Known
  <2>2. CASE i > Len(old)
    <3>1. i - Len(old) \in 1..Len(texts)
      BY <1>1, <1>6, <2>2
    <3>2. all[i] = new[i - Len(old)]
      BY <1>1, <1>6, <2>2
    <3>3. x = texts[i - Len(old)]
      BY <1>4, <3>1, <3>2
    <3> QED BY <3>1, <3>3 DEF Elements
  <2> QED BY <1>1, <2>1, <2>2
<1>10. Known(old) \subseteq Known(all)
  <2> SUFFICES ASSUME NEW i \in 1..Len(old), NEW x \in old[i] PROVE x \in Known(all)
    BY DEF Known
  <2>1. i \in 1..Len(all) /\ all[i] = old[i]
    BY <1>1, <1>6
  <2> QED BY <2>1 DEF Known
<1>11. Elements(texts) \subseteq Known(all)
  <2> SUFFICES ASSUME NEW i \in 1..Len(texts) PROVE texts[i] \in Known(all)
    BY DEF Elements
  <2>1. Len(old) + i \in 1..Len(all)
    BY <1>1, <1>6
  <2>2. all[Len(old) + i] = new[i]
    <3>1. ~ (Len(old) + i <= Len(old)) /\ (Len(old) + i) - Len(old) = i
      BY <1>1
    <3> QED BY <1>6, <2>1, <3>1
  <2>3. texts[i] \in all[Len(old) + i]
    BY <1>4, <2>2
  <2> QED BY <2>1, <2>3 DEF Known
<1> QED BY <1>8, <1>9, <1>10, <1>11 DEF old

LEMMA SummarizedTells ==
    ASSUME NEW summary \in SUBSET Said
    PROVE  /\ Summarized(summary) \in Contexts
           /\ Known(Summarized(summary).messages) = summary
<1>1. PICK one : one = <<summary>>
    OBVIOUS
<1>2. one \in Seq(SUBSET Said) /\ Len(one) = 1 /\ one[1] = summary
    BY <1>1
<1>3. Known(one) = summary
    BY <1>2 DEF Known
<1>4. Summarized(summary) = [messages |-> one, since |-> 0, hasSummary |-> TRUE]
    BY <1>1 DEF Summarized
<1> QED BY <1>2, <1>3, <1>4 DEF Contexts

\* A fallback tells a part of what the messages tell.
LEMMA FallbackTells ==
    ASSUME NEW messages \in Seq(SUBSET Said), NEW n \in 0..Len(LastOf(messages))
    PROVE  ByFallback(messages, n) \subseteq Known(messages)
<1>1. Len(messages) \in Nat /\ Kept \in Nat \ {0}
    BY ChatAssumption
<1>2. PICK m : m = IF Len(messages) > Kept THEN Len(messages) - Kept + 1 ELSE 1
    OBVIOUS
<1>3. m \in 1..(Len(messages) + 1)
    BY <1>1, <1>2
<1>4. PICK last : last = SubSeq(messages, m, Len(messages))
    OBVIOUS
<1>5. /\ last \in Seq(SUBSET Said)
      /\ Len(last) = Len(messages) - m + 1
      /\ \A i \in 1..Len(last) : last[i] = messages[m + i - 1]
  <2>1. CASE m <= Len(messages)
    BY <1>1, <1>3, <1>4, <2>1, SubSeqProperties
  <2>2. CASE m = Len(messages) + 1
    BY <1>1, <1>3, <1>4, <2>2, SubSeqProperties
  <2> QED BY <1>1, <1>3, <2>1, <2>2
<1>6. LastOf(messages) = last
    BY <1>2, <1>4 DEF LastOf
<1>7. Len(last) \in Nat /\ n \in 0..Len(last)
    BY <1>5, <1>6
<1>8. PICK part : part = SubSeq(last, 1, n)
    OBVIOUS
<1>9. Len(part) = n /\ \A i \in 1..n : part[i] = last[i]
    BY <1>5, <1>7, <1>8, SubSeqProperties
<1>10. Known(part) \subseteq Known(messages)
  <2> SUFFICES ASSUME NEW i \in 1..n, NEW x \in part[i] PROVE x \in Known(messages)
    BY <1>9 DEF Known
  <2>1. i \in 1..Len(last) /\ x \in last[i]
    BY <1>7, <1>9
  <2>2. m + i - 1 \in 1..Len(messages) /\ x \in messages[m + i - 1]
    BY <1>1, <1>3, <1>5, <2>1
  <2> QED BY <2>2 DEF Known
<1> QED BY <1>6, <1>8, <1>10 DEF ByFallback

-----------------------------------------------------------------------------
(* The end of a turn *)


\* What holds of the memory after an addition, and of the summaries that were
\* awaited before it.
LEMMA Adding ==
    ASSUME IInv, NEW t \in Turns, NEW texts \in Seq(Said), Add(t, texts)
    PROVE  /\ MemoryOK'
           /\ Known(context'.messages) = Known(context.messages) \cup Elements(texts)
           /\ said' = said \cup Elements(texts)
           /\ \A u \in Turns : turn[u].pc = "summarising" =>
                /\ turn[u].snapshot \subseteq said'
                /\ said' \ excused' \subseteq turn[u].snapshot
<1>1. /\ context' = Added(context, texts)
      /\ said' = said \cup Elements(texts)
      /\ excused' = IF \E u \in Turns : turn[u].pc = "summarising"
                    THEN excused \cup Elements(texts) ELSE excused
    BY Zenon DEF Add, Elements
<1>2. /\ context' \in Contexts
      /\ Known(context'.messages) = Known(context.messages) \cup Elements(texts)
    BY <1>1, AddedTells DEF IInv, MemoryOK
<1>3. Elements(texts) \subseteq Said
    BY ElementOfSeq DEF Elements
<1>4. /\ excused \subseteq said /\ said \subseteq Said
      /\ Known(context.messages) \subseteq said
      /\ said \ excused \subseteq Known(context.messages)
    BY DEF IInv, MemoryOK, OnlyExcusedForgotten
<1>5. excused \subseteq excused' /\ excused' \subseteq excused \cup Elements(texts)
    BY <1>1
<1>6. MemoryOK'
    BY <1>1, <1>2, <1>3, <1>4, <1>5 DEF MemoryOK, OnlyExcusedForgotten
<1>7. ASSUME NEW u \in Turns, turn[u].pc = "summarising"
      PROVE  /\ turn[u].snapshot \subseteq said'
             /\ said' \ excused' \subseteq turn[u].snapshot
  <2>1. excused' = excused \cup Elements(texts)
    BY <1>1, <1>7
  <2>2. turn[u].snapshot \subseteq said /\ said \ excused \subseteq turn[u].snapshot
    BY <1>7 DEF IInv, SummariesOK
  <2> QED BY <1>1, <2>1, <2>2
<1> QED BY <1>1, <1>2, <1>6, <1>7

LEMMA RememberStep ==
    ASSUME IInv, NEW t \in Turns, Remember(t)
    PROVE  IInv'
<1>1. turn[t] \in Locals /\ turn[t].pc = "remembering"
    BY LocalsOf DEF IInv, Remember
<1>2. PICK texts \in Seq(Said) : texts = turn[t].toAdd
    BY <1>1 DEF Locals
<1>3. Add(t, texts) /\ permits' = permits + 1 /\ UNCHANGED <<lock, up>>
    BY <1>2 DEF Remember, Leave
<1>4. PICK r \in Locals : r.pc = "done" /\ r = [NewTurn EXCEPT !.pc = "done"]
  <2>1. "done" \in Places /\ [NewTurn EXCEPT !.pc = "done"].pc = "done"
    BY DEF Places, NewTurn
  <2> QED BY <2>1, Fresh
<1>5. Moved(t, r)
    BY <1>4, Zenon DEF Remember, Leave, Moved
<1>6. LockMoves(t, r) /\ PermitsMove(t, r)
    BY <1>1, <1>3, <1>4 DEF LockMoves, PermitsMove, Holding, Outside
<1>7. Control'
    BY <1>3, <1>4, <1>5, <1>6, ControlMoved DEF IInv, Control
<1>8. MemoryOK' /\ SummariesOK'
  <2>1. /\ MemoryOK'
        /\ \A u \in Turns : turn[u].pc = "summarising" =>
             /\ turn[u].snapshot \subseteq said'
             /\ said' \ excused' \subseteq turn[u].snapshot
    BY <1>3, Adding
  <2>2. turn'[t] = r /\ \A u \in Turns \ {t} : turn'[u] = turn[u]
    BY <1>5, MovedTurns DEF IInv
  <2>3. SummariesOK'
    BY <1>4, <2>1, <2>2 DEF SummariesOK
  <2> QED BY <2>1, <2>3
<1> QED BY <1>7, <1>8 DEF IInv, Control

LEMMA StartSummaryStep ==
    ASSUME IInv, NEW t \in Turns, StartSummary(t)
    PROVE  IInv'
<1>1. turn[t] \in Locals /\ turn[t].pc = "remembering"
    BY LocalsOf DEF IInv, StartSummary
<1>2. PICK texts \in Seq(Said) : texts = turn[t].toAdd
    BY <1>1 DEF Locals
<1>3. PICK n \in 1..Len(texts) :
        /\ Add(t, SubSeq(texts, 1, n))
        /\ turn' = [turn EXCEPT ![t].pc = "summarising",
                                ![t].toAdd = SubSeq(@, n + 1, Len(@)),
                                ![t].snapshot = Conversation(context'.messages)]
    BY <1>2 DEF StartSummary
<1>4. Len(texts) \in Nat
    BY <1>2
<1>5. PICK first, rest :
        first = SubSeq(texts, 1, n) /\ rest = SubSeq(texts, n + 1, Len(texts))
    OBVIOUS
<1>6. first \in Seq(Said) /\ rest \in Seq(Said)
    BY <1>4, <1>5, SubSeqProperties
<1>7. PICK told : told = Known(context'.messages)
    OBVIOUS
<1>8. /\ MemoryOK'
      /\ \A u \in Turns : turn[u].pc = "summarising" =>
           /\ turn[u].snapshot \subseteq said'
           /\ said' \ excused' \subseteq turn[u].snapshot
    BY <1>3, <1>5, <1>6, Adding
<1>9. told \subseteq said' /\ told \in SUBSET Said /\ said' \ excused' \subseteq told
    BY <1>7, <1>8 DEF MemoryOK, OnlyExcusedForgotten
<1> DEFINE r == [turn[t] EXCEPT !.pc = "summarising", !.toAdd = rest, !.snapshot = told]
           q == [turn[t] EXCEPT !.pc = "summarising", !.toAdd = rest]
<1>10. q \in Locals /\ q.pc = "summarising"
    BY <1>1, <1>6 DEF Locals, Places
<1> HIDE DEF q
<1>11. /\ [q EXCEPT !.snapshot = told] \in Locals
       /\ [q EXCEPT !.snapshot = told].pc = "summarising"
       /\ [q EXCEPT !.snapshot = told].snapshot = told
    BY <1>9, <1>10 DEF Locals
<1>12. r = [q EXCEPT !.snapshot = told]
    BY DEF q
<1>13. r \in Locals /\ r.pc = "summarising" /\ r.snapshot = told
    BY <1>11, <1>12
<1>14. Moved(t, r)
  <2>1. Conversation(context'.messages) = told
    BY <1>7 DEF Conversation
  <2>2. PICK f1 : f1 = [turn EXCEPT ![t].pc = "summarising"]
    OBVIOUS
  <2>3. PICK f2 : f2 = [f1 EXCEPT ![t].toAdd = SubSeq(@, n + 1, Len(@))]
    OBVIOUS
  <2>4. turn = [u \in Turns |-> turn[u]]
    BY TurnIsFunction DEF IInv
  <2>5. /\ f1[t] = [turn[t] EXCEPT !.pc = "summarising"]
        /\ f1 = [turn EXCEPT ![t] = f1[t]]
        /\ f1[t].toAdd = texts
    BY <1>1, <1>2, <2>2, <2>4 DEF Locals
  <2>6. /\ f2[t] = [f1[t] EXCEPT !.toAdd = rest]
        /\ f2 = [turn EXCEPT ![t] = f2[t]]
    BY <1>5, <2>3, <2>4, <2>5
  <2>7. turn' = [f2 EXCEPT ![t].snapshot = told]
    BY <1>3, <2>1, <2>2, <2>3
  <2> QED BY <2>4, <2>5, <2>6, <2>7 DEF Moved
<1> HIDE DEF r
<1>15. LockMoves(t, r) /\ PermitsMove(t, r)
    BY <1>1, <1>13 DEF StartSummary, LockMoves, PermitsMove, Holding, Outside
<1>16. Control'
    BY <1>13, <1>14, <1>15, ControlMoved DEF IInv, Control, StartSummary
<1>17. SummariesOK'
  <2>1. turn'[t] = r /\ \A u \in Turns \ {t} : turn'[u] = turn[u]
    BY <1>13, <1>14, MovedTurns DEF IInv
  <2> QED BY <1>8, <1>9, <1>13, <2>1 DEF SummariesOK
<1> QED BY <1>8, <1>16, <1>17 DEF IInv, Control

LEMMA SummaryReplaces ==
    ASSUME IInv, NEW t \in Turns, turn[t].pc = "summarising",
           NEW summary \in SUBSET said, NEW missing \in SUBSET said,
           (said \ excused) \ missing \subseteq summary,
           SummaryDone(t, summary, missing)
    PROVE  IInv'
<1>1. turn[t] \in Locals
    BY LocalsOf DEF IInv
<1>2. PICK rest \in Seq(Said) : rest = turn[t].toAdd
    BY <1>1 DEF Locals
<1>3. PICK others : others = \E u \in Turns \ {t} : turn[u].pc = "summarising"
    OBVIOUS
<1>4. /\ context' = Added(Summarized(summary), rest)
      /\ said' = said \cup Elements(rest)
      /\ excused' = missing \cup (IF others THEN excused \cup Elements(rest) ELSE excused)
      /\ permits' = permits + 1 /\ UNCHANGED <<lock, up>>
    BY <1>2, <1>3, Zenon DEF SummaryDone, Leave, Elements
<1>5. /\ excused \subseteq said /\ said \subseteq Said
      /\ Elements(rest) \subseteq Said
    BY ElementOfSeq DEF IInv, MemoryOK, Elements
<1>6. /\ context' \in Contexts
      /\ Known(context'.messages) = summary \cup Elements(rest)
    BY <1>4, <1>5, SummarizedTells, AddedTells
<1>7. excused \cup missing \subseteq excused' /\ excused' \subseteq said'
    BY <1>4, <1>5
<1>8. MemoryOK'
    BY <1>4, <1>5, <1>6, <1>7 DEF MemoryOK, OnlyExcusedForgotten
<1>9. PICK r \in Locals : r.pc = "done" /\ r = [NewTurn EXCEPT !.pc = "done"]
  <2>1. "done" \in Places /\ [NewTurn EXCEPT !.pc = "done"].pc = "done"
    BY DEF Places, NewTurn
  <2> QED BY <2>1, Fresh
<1>10. Moved(t, r)
    BY <1>9, Zenon DEF SummaryDone, Leave, Moved
<1>11. LockMoves(t, r) /\ PermitsMove(t, r)
    BY <1>4, <1>9 DEF LockMoves, PermitsMove, Holding, Outside
<1>12. Control'
    BY <1>4, <1>9, <1>10, <1>11, ControlMoved DEF IInv, Control
<1>13. SummariesOK'
  <2>1. turn'[t] = r /\ \A u \in Turns \ {t} : turn'[u] = turn[u]
    BY <1>10, MovedTurns DEF IInv
  <2> SUFFICES ASSUME NEW u \in Turns, turn'[u].pc = "summarising"
               PROVE  /\ turn'[u].snapshot \subseteq said'
                      /\ said' \ excused' \subseteq turn'[u].snapshot
    BY DEF SummariesOK
  <2>2. u # t /\ turn'[u] = turn[u]
    BY <1>9, <2>1
  <2>3. excused \cup Elements(rest) \subseteq excused'
    BY <1>3, <1>4, <2>2
  <2>4. turn[u].snapshot \subseteq said /\ said \ excused \subseteq turn[u].snapshot
    BY <2>2 DEF IInv, SummariesOK
  <2> QED BY <1>4, <2>2, <2>3, <2>4
<1> QED BY <1>8, <1>12, <1>13 DEF IInv, Control

LEMMA SummaryStep ==
    ASSUME IInv, NEW t \in Turns, ModelSummarizes(t) \/ SummaryIsEmpty(t) \/ FallBack(t)
    PROVE  IInv'
<1>1. turn[t].pc = "summarising"
    BY DEF ModelSummarizes, SummaryIsEmpty, FallBack
<1>2. CASE ModelSummarizes(t)
  <2>1. turn[t].snapshot \subseteq said /\ said \ excused \subseteq turn[t].snapshot
    BY <1>1 DEF IInv, SummariesOK
  <2> QED BY <1>1, <1>2, <2>1, SummaryReplaces DEF ModelSummarizes
<1>3. CASE FallBack(t)
  <2>1. PICK n \in 0..Len(LastOf(context.messages)) :
          SummaryDone(t, ByFallback(context.messages, n),
                      Known(context.messages) \ ByFallback(context.messages, n))
    BY <1>3 DEF FallBack
  <2>2. PICK told, summary :
          told = Known(context.messages) /\ summary = ByFallback(context.messages, n)
    OBVIOUS
  <2>3. told \subseteq said /\ said \ excused \subseteq told
    BY <2>2 DEF IInv, MemoryOK, OnlyExcusedForgotten
  <2>4. summary \subseteq told
    BY <2>1, <2>2, FallbackTells DEF IInv, MemoryOK, Contexts
  <2>5. SummaryDone(t, summary, told \ summary)
    BY <2>1, <2>2
  <2>6. summary \in SUBSET said /\ told \ summary \in SUBSET said
    BY <2>3, <2>4
  <2>7. (said \ excused) \ (told \ summary) \subseteq summary
    BY <2>3
  <2> QED BY <1>1, <2>5, <2>6, <2>7, SummaryReplaces
<1>4. CASE SummaryIsEmpty(t)
  <2>1. PICK told : told = Known(context.messages)
    OBVIOUS
  <2>2. told \in SUBSET said /\ (said \ excused) \ told \subseteq {}
    BY <2>1 DEF IInv, MemoryOK, OnlyExcusedForgotten
  <2>3. SummaryDone(t, {}, told)
    BY <1>4, <2>1 DEF SummaryIsEmpty
  <2> QED BY <1>1, <2>2, <2>3, SummaryReplaces
<1> QED BY <1>2, <1>3, <1>4

-----------------------------------------------------------------------------
(* The theorems *)

LEMMA InitInvariant == Init => IInv
<1> SUFFICES ASSUME Init PROVE IInv
    OBVIOUS
<1>1. \A t \in Turns : turn[t] = NewTurn
    BY DEF Init
<1>2. \A t \in Turns : turn[t].pc = "new"
    BY <1>1 DEF NewTurn
<1>3. TurnsOK
  <2>1. turn \in [Turns -> Locals]
    BY Fresh DEF Init
  <2> QED BY <1>2, <2>1 DEF TurnsOK
<1>4. LockOK
    BY <1>2, ChatAssumption DEF Init, LockOK, Holding
<1>5. PermitsOK
  <2>1. ActiveTurns = {}
    BY <1>2 DEF ActiveTurns, Active
  <2> QED BY <2>1, FS_EmptySet, ChatAssumption DEF Init, PermitsOK
<1>6. MemoryOK
  <2>1. PICK none : none = << >>
    OBVIOUS
  <2>2. none \in Seq(SUBSET Said) /\ Len(none) = 0
    BY <2>1
  <2>3. context = [messages |-> none, since |-> 0, hasSummary |-> FALSE]
    BY <2>1 DEF Init, NewContext
  <2>4. context \in Contexts /\ Known(context.messages) = {}
    BY <2>2, <2>3 DEF Contexts, Known
  <2> QED BY <2>4 DEF Init, MemoryOK, OnlyExcusedForgotten
<1>7. SummariesOK
    BY <1>2 DEF SummariesOK
<1> QED BY <1>3, <1>4, <1>5, <1>6, <1>7 DEF Init, IInv

LEMMA Unchanged ==
    ASSUME IInv, UNCHANGED <<turn, permits, lock, memory>>, up' \in BOOLEAN
    PROVE  IInv'
<1>1. UNCHANGED <<turn, permits, lock, context, said, excused>>
    BY DEF memory
<1>2. ActiveTurns' = ActiveTurns
    BY <1>1 DEF ActiveTurns, Active
<1>3. TurnsOK' /\ LockOK' /\ PermitsOK'
    BY <1>1, <1>2 DEF IInv, TurnsOK, LockOK, PermitsOK
<1>4. MemoryOK' /\ SummariesOK'
    BY <1>1 DEF IInv, MemoryOK, SummariesOK, OnlyExcusedForgotten
<1> QED BY <1>3, <1>4 DEF IInv

LEMMA NextInvariant == IInv /\ [Next]_vars => IInv'
<1> SUFFICES ASSUME IInv, [Next]_vars PROVE IInv'
    OBVIOUS
<1>1. CASE ServerToggles
  <2>1. up' \in BOOLEAN
    BY <1>1, Zenon DEF ServerToggles
  <2> QED BY <1>1, <2>1, Unchanged DEF ServerToggles
<1>2. ASSUME NEW t \in Turns, Begin(t) PROVE IInv'
    BY <1>2, RoutingStep
<1>3. ASSUME NEW t \in Turns, AcquireSlot(t) PROVE IInv'
    BY <1>3, AcquireSlotStep
<1>4. ASSUME NEW t \in Turns, Step(t) PROVE IInv'
  <2>1. CASE Arrive(t) \/ DescribeCapabilities(t) \/ FastPath(t) \/ BuildPrompt(t)
    BY <2>1, RoutingStep
  <2>2. CASE EmptyAnswer(t) \/ CleanedAway(t) \/ TransientError(t) \/ Recovered(t)
    BY <2>2, RetryStep
  <2>3. CASE Answered(t)
    BY <2>3, AnsweredStep
  <2>4. CASE ToolsEnd(t)
    BY <2>4, ToolsEndStep
  <2>5. CASE RepairEnds(t)
    BY <2>5, RepairEndsStep
  <2>6. CASE ContextShift(t)
    BY <2>6, ContextShiftStep
  <2>7. CASE TurnFails(t)
    BY <2>7, TurnFailsStep
  <2>8. CASE Remember(t)
    BY <2>8, RememberStep
  <2>9. CASE StartSummary(t)
    BY <2>9, StartSummaryStep
  <2>10. CASE ModelSummarizes(t) \/ SummaryIsEmpty(t) \/ FallBack(t)
    BY <2>10, SummaryStep
  <2>11. CASE ToolsFail(t)
    BY <2>11, ToolsFailStep
  <2> QED BY <1>4, <2>1, <2>2, <2>3, <2>4, <2>5, <2>6, <2>7, <2>8, <2>9, <2>10, <2>11
          DEF Step, Sends
<1>5. CASE UNCHANGED vars
    BY <1>5, Unchanged DEF vars, memory, IInv
<1> QED BY <1>1, <1>2, <1>3, <1>4, <1>5 DEF Next

\* The invariant holds in every behaviour.
THEOREM Invariance == Spec => []IInv
BY InitInvariant, NextInvariant, PTL DEF Spec

LEMMA InvariantTypes == IInv => TypeOK
<1> SUFFICES ASSUME IInv PROVE TypeOK
    OBVIOUS
<1>1. ASSUME NEW t \in Turns
      PROVE  /\ turn[t].pc \in Places
             /\ turn[t].stage \in {"answer", "shifted", "repair"}
             /\ turn[t].iteration \in 0..MaxIterations
             /\ turn[t].call \in 0..4 /\ turn[t].try \in 0..MaxTries
             /\ turn[t].toAdd \in Seq(Said) /\ turn[t].snapshot \subseteq Said
    BY LocalsOf DEF IInv, Locals
<1>2. \A t \in Turns : lock = t <=> turn[t].pc \in {"posting", "recovering"}
    BY DEF IInv, LockOK, Holding
<1>3. permits = Concurrency - Cardinality({t \in Turns : Active(t)})
    BY DEF IInv, PermitsOK, ActiveTurns
<1>4. lock \in Turns \cup {NoTurn} /\ excused \subseteq said /\ said \subseteq Said
    BY DEF IInv, LockOK, MemoryOK
<1>5. up \in BOOLEAN
    BY Zenon DEF IInv
<1> QED BY <1>1, <1>2, <1>3, <1>4, <1>5 DEF TypeOK

\* TYPE INVARIANT of direct chat: also, whichever way a turn ends, the semaphore
\* counts the turns under way and the slot's lock is with the turn that uses it
\* (slot_manager.py:128-157).
THEOREM TypeCorrect == Spec => []TypeOK
BY Invariance, InvariantTypes, PTL

\* However many turns overlap, and over summaries of summaries, what is missing
\* from the rolling context was added while a summary was awaited, left out by a
\* fallback, or there when a summary came back empty (rolling_context.py:58-105,
\* llama_client.py:146-151).
THEOREM NothingElseForgotten == Spec => []OnlyExcusedForgotten
<1>1. IInv => OnlyExcusedForgotten
    BY DEF IInv, MemoryOK
<1> QED BY <1>1, Invariance, PTL

\* Never more turns are under way than the semaphore allows, and never more than
\* one of them is with the main slot (main.py:1222, slot_manager.py:128-157); a
\* summary is none of these, it goes past the lock.
LimitsKept ==
    /\ Cardinality(ActiveTurns) <= Concurrency
    /\ \A t, u \in Turns : turn[t].pc \in Holding /\ turn[u].pc \in Holding => t = u

THEOREM ConcurrencyIsLimited == Spec => []LimitsKept
<1>1. ASSUME IInv PROVE LimitsKept
  <2>1. Cardinality(ActiveTurns) \in Nat /\ Concurrency \in Nat
    BY <1>1, FS_CardinalityType, ChatAssumption DEF IInv, PermitsOK
  <2>2. Cardinality(ActiveTurns) <= Concurrency
    BY <1>1, <2>1 DEF IInv, PermitsOK
  <2>3. \A t, u \in Turns : turn[t].pc \in Holding /\ turn[u].pc \in Holding => t = u
    BY <1>1 DEF IInv, LockOK
  <2> QED BY <2>2, <2>3 DEF LimitsKept
<1> QED BY <1>1, Invariance, PTL
===============================================================================
