-------------------------- MODULE DiscordBridgeProofs --------------------------
(***************************************************************************)
(* Proofs about DiscordBridge, for any number of messages, any sizes of    *)
(* its history, backlog and lock, any number of events and restarts.  IInv *)
(* is the inductive invariant.                                             *)
(***************************************************************************)
EXTENDS DiscordBridge, FiniteSetTheorems, SequenceTheorems, TLAPS

Stages == {"none", "waiting", "running", "replying", "over"}

Run == [open : BOOLEAN, did : Nat, dir : BOOLEAN,
        jsonl : Nat, lines : Nat, torn : BOOLEAN, refused : Nat,
        bundle : {"none", "torn", "whole"}, bundled : Nat,
        analysis : {"none", "torn", "whole"}]

TypesOK ==
    /\ posted \in 0..MaxMessages
    /\ kind \in [Messages -> Kinds \cup {"unread"}]
    /\ listener \in [pc : {"sleeping", "next", "handling"}, queue : Seq(Messages),
                     maxSeen : 0..MaxMessages]
    /\ mem \in [seen : 0..MaxMessages, processed : SUBSET Messages, primed : BOOLEAN]
    /\ disk \in [seen : 0..MaxMessages, processed : SUBSET Messages]
    /\ task \in [Messages -> Stages]
    /\ run \in [Messages -> Run]
    /\ sees \in [Messages -> BOOLEAN] /\ mainRecords \in BOOLEAN
    /\ handled \in Seq(Messages)

Grows(s) == \A i, j \in 1..Len(s) : i < j => s[i] < s[j]

AtMost(s, bound) == \A i \in 1..Len(s) : s[i] <= bound

\* What was handled comes before what the poll has still to handle, and is not
\* beyond the watermark as soon as this poll is over.  Before the first poll has
\* marked what is there, the watermark means nothing: it may be an old one.
ListenerOK ==
    /\ Grows(handled) /\ AtMost(handled, posted)
    /\ Grows(listener.queue)
    /\ AtMost(listener.queue, posted) /\ AtMost(listener.queue, listener.maxSeen)
    /\ listener.pc # "sleeping" => mem.primed /\ AtMost(handled, listener.maxSeen)
    /\ listener.pc = "sleeping" /\ mem.primed => AtMost(handled, mem.seen)
    /\ listener.pc = "handling" => listener.queue # << >>
    /\ \A i \in 1..Len(handled), j \in 1..Len(listener.queue) :
         (listener.pc = "handling" => j > 1) => handled[i] < listener.queue[j]

Running == {m \in Messages : task[m] = "running"}

\* Only a message that was handled has a task.
TasksOK ==
    /\ \A m \in Messages : task[m] # "none" => Handled(m)
    /\ permits \in Nat /\ others \in Nat
    /\ permits = Concurrency - others - Cardinality(Running)
    /\ active # None => active \in Messages /\ task[active] \in {"waiting", "running", "replying"}

\* An event that cannot be read from the file is one whose append failed, or the
\* one behind it; the one that a torn line still waits for is not lost yet.  A
\* bundle holds all events, and an analysis comes only with a bundle.
RunOK(r) ==
    /\ r.dir => r.did - r.jsonl <= 2 * r.refused - (IF r.torn THEN 1 ELSE 0)
    /\ r.jsonl <= r.lines /\ r.lines <= r.did
    /\ r.open => r.bundle = "none"
    /\ r.bundle = "whole" => r.bundled = r.did
    /\ r.analysis # "none" => r.bundle = "whole"

RunsOK == \A m \in Messages : RunOK(run[m])

\* An agentic run that is without the recorder, or may be when it looks again, is
\* one that the end of another fell into, or the start of one without a recorder.
MutedOK ==
    /\ missed \subseteq muted
    /\ \A m \in Recording : kind[m] = "task" => m \in muted \/ (sees[m] /\ mainRecords)

IInv == TypesOK /\ ListenerOK /\ TasksOK /\ RunsOK /\ MutedOK
-----------------------------------------------------------------------------
(* Numbers and queues *)

\* A bounded set of numbers that is not empty has a greatest one: among the
\* intervals from its members to the bound, take one that contains no other.
LEMMA Greatest ==
    ASSUME NEW bound \in Nat, NEW S \in SUBSET (0..bound), S # {}
    PROVE  \E m \in S : \A n \in S : n <= m
<1> DEFINE intervals == {n..bound : n \in S}
<1>1. \A n \in S : n..bound \in FiniteSubsetsOf(Nat)
  <2>1. \A n \in S : IsFiniteSet(n..bound) /\ n..bound \subseteq Nat
      BY FS_Interval
  <2> QED BY <2>1 DEF FiniteSubsetsOf
<1>2. intervals # {} /\ intervals \subseteq FiniteSubsetsOf(Nat)
    BY <1>1
<1>3. PICK least \in intervals :
        \A i \in intervals : ~ (<<i, least>> \in StrictSubsetOrdering(Nat))
  <2> HIDE DEF intervals
  <2> QED BY <1>2, WFMin, FS_StrictSubsetOrderingWellFounded
<1>4. PICK m \in S : least = m..bound
    OBVIOUS
<1>5. ASSUME NEW n \in S, m < n PROVE FALSE
  <2>1. n..bound \in SUBSET Nat /\ m..bound \in SUBSET Nat
      OBVIOUS
  <2>2. n..bound \subseteq m..bound /\ n..bound # m..bound
    <3>1. m \in m..bound /\ m \notin n..bound
        BY <1>5
    <3> QED BY <1>5, <3>1
  <2>3. <<n..bound, m..bound>> \in StrictSubsetOrdering(Nat)
      BY <1>1, <2>1, <2>2 DEF StrictSubsetOrdering, FiniteSubsetsOf
  <2> QED BY <1>3, <1>4, <2>3
<1> QED BY <1>5

LEMMA MaxOfIs ==
    ASSUME NEW S, S \subseteq 0..MaxMessages, NEW low \in 0..MaxMessages
    PROVE  /\ MaxOf(S, low) \in S \cup {low} /\ MaxOf(S, low) \in 0..MaxMessages
           /\ \A m \in S \cup {low} : m <= MaxOf(S, low)
<1> DEFINE T == S \cup {low}
<1>1. T \in SUBSET (0..MaxMessages) /\ T # {}
    OBVIOUS
<1>2. \E m \in T : \A n \in T : n <= m
  <2> HIDE DEF T
  <2> QED BY <1>1, Greatest, BridgeAssumption
<1>3. MaxOf(S, low) \in T /\ \A m \in T : m <= MaxOf(S, low)
    BY <1>2 DEF MaxOf
<1> QED BY <1>1, <1>3

\* A poll that finds anything finds the newest message.
LEMMA WindowIs ==
    ASSUME posted \in 0..MaxMessages
    PROVE  /\ Window \subseteq 1..posted /\ Window \subseteq 0..MaxMessages
           /\ Window # {} => posted \in Window
BY BridgeAssumption DEF Window, Posted

\* How many members of S are not greater than m.
Rank(S, m) == Cardinality({n \in S : n <= m})

\* Every number up to the size of a set is the rank of one of its members.
LEMMA RankIs ==
    ASSUME NEW S, S \subseteq Messages
    PROVE  /\ IsFiniteSet(S) /\ Cardinality(S) \in Nat
           /\ \A m, p \in S : m < p => Rank(S, m) < Rank(S, p)
           /\ \A i \in 1..Cardinality(S) : \E m \in S : Rank(S, m) = i
<1>1. IsFiniteSet(S) /\ Cardinality(S) \in Nat
  <2>1. IsFiniteSet(Messages) /\ S \in SUBSET Messages
      BY FS_Interval, BridgeAssumption DEF Messages
  <2> QED BY <2>1, FS_Subset, FS_CardinalityType
<1>2. \A m \in S : /\ IsFiniteSet({n \in S : n <= m})
                   /\ Rank(S, m) \in 1..Cardinality(S) /\ Rank(S, m) \in Nat
  <2> SUFFICES ASSUME NEW m \in S
               PROVE  /\ IsFiniteSet({n \in S : n <= m})
                      /\ Rank(S, m) \in 1..Cardinality(S) /\ Rank(S, m) \in Nat
      OBVIOUS
  <2> DEFINE below == {n \in S : n <= m}
  <2>1. below \in SUBSET S /\ m \in below
      BY DEF Messages
  <2> HIDE DEF below
  <2>2. IsFiniteSet(below) /\ Cardinality(below) <= Cardinality(S)
      BY <1>1, <2>1, FS_Subset
  <2>3. Cardinality(below) \in Nat /\ Cardinality(below) # 0
      BY <2>1, <2>2, FS_CardinalityType, FS_EmptySet
  <2>4. Rank(S, m) = Cardinality(below)
      BY DEF Rank, below
  <2> QED BY <1>1, <2>2, <2>3, <2>4 DEF below
<1>3. \A m, p \in S : m < p => Rank(S, m) < Rank(S, p)
  <2> SUFFICES ASSUME NEW m \in S, NEW p \in S, m < p PROVE Rank(S, m) < Rank(S, p)
      OBVIOUS
  <2> DEFINE small == {n \in S : n <= m}
             large == {n \in S : n <= p}
  <2>1. small \in SUBSET large /\ p \in large /\ p \notin small
    <3>1. \A n \in S : n \in Nat
        BY DEF Messages
    <3> QED BY <3>1
  <2>2. IsFiniteSet(large)
      BY <1>2
  <2>3. Rank(S, m) = Cardinality(small) /\ Rank(S, p) = Cardinality(large)
      BY DEF Rank
  <2>4. Rank(S, m) \in Nat /\ Rank(S, p) \in Nat
      BY <1>2
  <2> HIDE DEF small, large
  <2>5. Cardinality(small) <= Cardinality(large) /\ Cardinality(small) # Cardinality(large)
      BY <2>1, <2>2, FS_Subset
  <2> QED BY <2>3, <2>4, <2>5
<1>4. \A i \in 1..Cardinality(S) : \E m \in S : Rank(S, m) = i
  <2> DEFINE ranks == [m \in S |-> Rank(S, m)]
             N     == Cardinality(S)
  <2>1. ranks \in [S -> 1..N]
      BY <1>2
  <2>2. \A m, p \in S : ranks[m] = ranks[p] => m = p
    <3> SUFFICES ASSUME NEW m \in S, NEW p \in S, m # p PROVE Rank(S, m) # Rank(S, p)
        OBVIOUS
    <3>1. m < p \/ p < m
        BY DEF Messages
    <3>2. Rank(S, m) \in Nat /\ Rank(S, p) \in Nat
        BY <1>2
    <3> QED BY <1>3, <3>1, <3>2
  <2>3. N \in Nat /\ IsFiniteSet(1..N) /\ Cardinality(1..N) = N
      BY <1>1, FS_Interval
  <2> HIDE DEF ranks
  <2>4. ranks \in Injection(S, 1..N)
      BY <2>1, <2>2 DEF Injection, IsInjective
  <2>5. ranks \in Surjection(S, 1..N)
      BY <2>3, <2>4, FS_Injection
  <2>6. \A i \in 1..N : \E m \in S : ranks[m] = i
      BY <2>5 DEF Surjection
  <2> QED BY <2>6 DEF ranks
<1> QED BY <1>1, <1>3, <1>4

\* A set of messages in the order they were posted.
LEMMA InOrderIs ==
    ASSUME NEW S, S \subseteq Messages
    PROVE  InOrder(S) \in Seq(S) /\ Grows(InOrder(S))
<1>1. PICK N \in Nat : N = Cardinality(S)
    BY RankIs
<1>2. \A m, p \in S : m < p => Rank(S, m) < Rank(S, p)
    BY RankIs
<1>3. \A i \in 1..N : \E m \in S : Rank(S, m) = i
    BY <1>1, RankIs
<1>4. InOrder(S) = [i \in 1..N |-> CHOOSE m \in S : Rank(S, m) = i]
    BY <1>1 DEF InOrder, Rank
<1>5. \A i \in 1..N : InOrder(S)[i] \in S /\ Rank(S, InOrder(S)[i]) = i
    BY <1>3, <1>4
<1>6. InOrder(S) \in [1..N -> S]
    BY <1>3, <1>4
<1>7. InOrder(S) \in Seq(S) /\ Len(InOrder(S)) = N
    BY <1>6
<1>8. ASSUME NEW i \in 1..N, NEW j \in 1..N, i < j PROVE InOrder(S)[i] < InOrder(S)[j]
  <2>1. InOrder(S)[i] \in Messages /\ InOrder(S)[j] \in Messages
      BY <1>5
  <2> DEFINE m == InOrder(S)[i]
             p == InOrder(S)[j]
  <2>2. m \in S /\ p \in S /\ Rank(S, m) = i /\ Rank(S, p) = j
      BY <1>5
  <2>3. m \in Nat /\ p \in Nat
      BY <2>1 DEF Messages
  <2> HIDE DEF m, p
  <2>4. m # p /\ ~(p < m)
      BY <1>2, <1>8, <2>2
  <2>5. m < p
      BY <2>3, <2>4
  <2> QED BY <2>5 DEF m, p
<1> QED BY <1>7, <1>8 DEF Grows
-----------------------------------------------------------------------------
(* Runs *)

LEMMA RecordedIs ==
    ASSUME NEW r \in Run, RunOK(r), NEW more \in Recorded(r)
    PROVE  more \in Run /\ RunOK(more)
<1>1. CASE ~r.open
    BY <1>1 DEF Recorded, Run
<1>2. CASE r.open
  <2> DEFINE g == [r EXCEPT !.did = @ + 1]
  <2>1. /\ r.did \in Nat /\ r.jsonl \in Nat /\ r.lines \in Nat /\ r.refused \in Nat
        /\ r.dir \in BOOLEAN /\ r.torn \in BOOLEAN
      BY DEF Run
  <2>2. /\ g \in Run /\ g.did = r.did + 1
        /\ g.open = r.open /\ g.dir = r.dir /\ g.jsonl = r.jsonl /\ g.lines = r.lines
        /\ g.torn = r.torn /\ g.refused = r.refused /\ g.bundle = r.bundle
        /\ g.bundled = r.bundled /\ g.analysis = r.analysis
      BY DEF Run
  <2>3. more = g \/ (r.dir /\ more \in Appended(g))
      BY <1>2, <2>1 DEF Recorded
  <2>4. r.bundle = "none" /\ r.analysis = "none"
      BY <1>2 DEF RunOK, Run
  <2> HIDE DEF g
  <2>5. CASE ~r.dir
    <3>1. more = g
        BY <2>3, <2>5
    <3> QED BY <2>1, <2>2, <2>4, <2>5, <3>1 DEF RunOK
  <2>6. CASE r.dir
    <3> DEFINE added == IF r.torn THEN 0 ELSE 1
    <3>1. added \in {0, 1} /\ (added = 0 <=> r.torn)
        BY <2>1
    <3>2. more \in Appended(g)
        BY <1>2, <2>6 DEF Recorded, g
    <3>3. \/ more = [g EXCEPT !.torn = FALSE, !.jsonl = @ + added, !.lines = @ + added]
          \/ more = [g EXCEPT !.refused = @ + 1]
          \/ more = [[g EXCEPT !.refused = @ + 1] EXCEPT !.torn = TRUE, !.lines = @ + added]
        BY <2>2, <3>2 DEF Appended
    <3> HIDE DEF added
    <3> DEFINE jsonl == g.jsonl + added
               lines == g.lines + added
    <3>0. jsonl \in Nat /\ lines \in Nat /\ g.refused + 1 \in Nat
      <4>1. added \in Nat /\ g.jsonl \in Nat /\ g.lines \in Nat /\ g.refused \in Nat
          BY <2>1, <2>2, <3>1
      <4> QED BY <4>1
    <3>4. /\ r.did - r.jsonl <= 2 * r.refused - (IF r.torn THEN 1 ELSE 0)
          /\ r.jsonl <= r.lines /\ r.lines <= r.did
        BY <2>6 DEF RunOK
    <3>5. CASE more = [g EXCEPT !.torn = FALSE, !.jsonl = @ + added, !.lines = @ + added]
      <4>1. /\ more \in Run /\ more.did = g.did /\ more.open = g.open /\ more.dir = g.dir
            /\ more.jsonl = g.jsonl + added /\ more.lines = g.lines + added
            /\ more.torn = FALSE /\ more.refused = g.refused
            /\ more.bundle = g.bundle /\ more.analysis = g.analysis
        <5>1. more = [g EXCEPT !.torn = FALSE, !.jsonl = jsonl, !.lines = lines]
            BY <3>5
        <5> HIDE DEF jsonl, lines
        <5>2. /\ more \in Run /\ more.did = g.did /\ more.open = g.open /\ more.dir = g.dir
              /\ more.jsonl = jsonl /\ more.lines = lines
              /\ more.torn = FALSE /\ more.refused = g.refused
              /\ more.bundle = g.bundle /\ more.analysis = g.analysis
            BY <2>2, <3>0, <5>1 DEF Run
        <5> QED BY <5>2 DEF jsonl, lines
      <4>2. /\ more.did - more.jsonl <= 2 * more.refused - (IF more.torn THEN 1 ELSE 0)
            /\ more.jsonl <= more.lines /\ more.lines <= more.did
        <5>1. CASE r.torn
          <6>1. r.did - r.jsonl <= 2 * r.refused - 1 /\ added = 0
              BY <3>1, <3>4, <5>1
          <6> QED BY <2>1, <2>2, <3>4, <4>1, <6>1
        <5>2. CASE ~r.torn
          <6>1. r.did - r.jsonl <= 2 * r.refused /\ added = 1
              BY <2>1, <3>1, <3>4, <5>2
          <6> QED BY <2>1, <2>2, <3>4, <4>1, <6>1
        <5> QED BY <5>1, <5>2
      <4> QED BY <2>2, <2>4, <4>1, <4>2 DEF RunOK
    <3>6. CASE more = [g EXCEPT !.refused = @ + 1]
      <4>1. /\ more \in Run /\ more.did = g.did /\ more.open = g.open /\ more.dir = g.dir
            /\ more.jsonl = g.jsonl /\ more.lines = g.lines
            /\ more.torn = g.torn /\ more.refused = g.refused + 1
            /\ more.bundle = g.bundle /\ more.analysis = g.analysis
          BY <2>2, <3>6 DEF Run
      <4> QED BY <2>1, <2>2, <2>4, <3>4, <4>1 DEF RunOK
    <3>7. CASE more = [[g EXCEPT !.refused = @ + 1] EXCEPT !.torn = TRUE, !.lines = @ + added]
      <4>1. /\ more \in Run /\ more.did = g.did /\ more.open = g.open /\ more.dir = g.dir
            /\ more.jsonl = g.jsonl /\ more.lines = g.lines + added
            /\ more.torn = TRUE /\ more.refused = g.refused + 1
            /\ more.bundle = g.bundle /\ more.analysis = g.analysis
        <5>1. more = [[g EXCEPT !.refused = @ + 1] EXCEPT !.torn = TRUE, !.lines = lines]
            BY <2>2, <3>7 DEF Run
        <5> HIDE DEF jsonl, lines
        <5>2. /\ more \in Run /\ more.did = g.did /\ more.open = g.open /\ more.dir = g.dir
              /\ more.jsonl = g.jsonl /\ more.lines = lines
              /\ more.torn = TRUE /\ more.refused = g.refused + 1
              /\ more.bundle = g.bundle /\ more.analysis = g.analysis
            BY <2>2, <3>0, <5>1 DEF Run
        <5> QED BY <5>2 DEF jsonl, lines
      <4>2. r.did - r.jsonl <= 2 * r.refused
          BY <2>1, <3>4
      <4>3. /\ more.did - more.jsonl <= 2 * more.refused - 1
            /\ more.jsonl <= more.lines /\ more.lines <= more.did
          BY <2>1, <2>2, <3>1, <3>4, <4>1, <4>2
      <4> QED BY <2>2, <2>4, <4>1, <4>3 DEF RunOK
    <3> QED BY <3>3, <3>5, <3>6, <3>7
  <2> QED BY <2>1, <2>5, <2>6
<1> QED BY <1>1, <1>2

LEMMA StartedIs ==
    /\ NoRun \in Run /\ RunOK(NoRun)
    /\ \A started \in Started : started \in Run /\ RunOK(started)
<1>1. NoRun \in Run /\ RunOK(NoRun)
    BY DEF NoRun, Run, RunOK
<1>2. ASSUME NEW started \in Started PROVE started \in Run /\ RunOK(started)
  <2>1. PICK dir \in BOOLEAN : started \in Recorded([NoRun EXCEPT !.open = TRUE, !.dir = dir])
      BY <1>2 DEF Started
  <2> DEFINE r == [NoRun EXCEPT !.open = TRUE, !.dir = dir]
  <2>2. /\ r \in Run /\ r.dir = dir /\ r.did = 0 /\ r.jsonl = 0 /\ r.lines = 0
        /\ r.refused = 0 /\ r.torn = FALSE /\ r.bundle = "none" /\ r.analysis = "none"
      BY DEF NoRun, Run
  <2>3. started \in Recorded(r)
      BY <2>1
  <2> HIDE DEF r
  <2>4. RunOK(r)
      BY <2>2 DEF RunOK
  <2> QED BY <2>2, <2>3, <2>4, RecordedIs
<1> QED BY <1>1, <1>2

LEMMA WrittenIs ==
    ASSUME NEW r \in Run, RunOK(r), r.open, NEW bundle \in {"none", "torn", "whole"}
    PROVE  /\ Written(r, bundle) \in Run /\ RunOK(Written(r, bundle))
           /\ ~Written(r, bundle).open /\ Written(r, bundle).analysis = "none"
<1> DEFINE w       == Written(r, bundle)
           bundled == IF bundle = "whole" THEN r.did ELSE 0
<1>1. r.analysis = "none"
    BY DEF RunOK, Run
<1>2. bundled \in Nat /\ (bundle = "whole" => bundled = r.did)
    BY DEF Run
<1>3. w = [r EXCEPT !.open = FALSE, !.bundle = bundle, !.bundled = bundled]
    BY DEF Written
<1> HIDE DEF w, bundled
<1>4. w \in Run
    BY <1>2, <1>3 DEF Run
<1>5. /\ ~w.open /\ w.bundle = bundle /\ w.bundled = bundled
      /\ w.did = r.did /\ w.jsonl = r.jsonl /\ w.dir = r.dir /\ w.analysis = "none"
      /\ w.lines = r.lines /\ w.torn = r.torn /\ w.refused = r.refused
    BY <1>1, <1>3 DEF Run
<1>6. RunOK(w)
    BY <1>2, <1>5 DEF RunOK
<1> QED BY <1>4, <1>5, <1>6 DEF w

\* However finish_run ends, the run it leaves is sound.
LEMMA FinishesIs ==
    ASSUME NEW r \in Run, RunOK(r), NEW f \in Finishes(r)
    PROVE  f \in Run /\ RunOK(f)
<1>1. CASE ~r.open
    BY <1>1 DEF Finishes
<1>2. CASE r.open
  <2>1. PICK bundle \in {"none", "torn", "whole"} : f \in Analysed(Written(r, bundle))
      BY <1>2 DEF Finishes
  <2> DEFINE w == Written(r, bundle)
  <2>2. w \in Run /\ RunOK(w) /\ ~w.open
      BY <1>2, WrittenIs
  <2>3. f \in Analysed(w)
      BY <2>1
  <2> HIDE DEF w
  <2>4. PICK a \in {"none", "torn", "whole"} :
          f = [w EXCEPT !.analysis = a] /\ (a # "none" => w.bundle = "whole")
      BY <2>3 DEF Analysed
  <2>5. /\ f \in Run /\ f.analysis = a
        /\ f.open = w.open /\ f.bundle = w.bundle /\ f.bundled = w.bundled
        /\ f.did = w.did /\ f.jsonl = w.jsonl /\ f.dir = w.dir
        /\ f.lines = w.lines /\ f.torn = w.torn /\ f.refused = w.refused
      BY <2>2, <2>4 DEF Run
  <2> QED BY <2>2, <2>4, <2>5 DEF RunOK
<1> QED BY <1>1, <1>2

LEMMA CrashedIs ==
    ASSUME NEW r \in Run, RunOK(r)
    PROVE  Crashed(r) \in Run /\ RunOK(Crashed(r))
<1> DEFINE closed == [r EXCEPT !.open = FALSE]
<1>1. /\ closed \in Run /\ ~closed.open /\ closed.bundle = r.bundle
      /\ closed.bundled = r.bundled /\ closed.analysis = r.analysis
      /\ closed.did = r.did /\ closed.jsonl = r.jsonl /\ closed.dir = r.dir
      /\ closed.lines = r.lines /\ closed.torn = r.torn /\ closed.refused = r.refused
    BY DEF Run
<1> HIDE DEF closed
<1>2. RunOK(closed)
    BY <1>1 DEF RunOK
<1> QED BY <1>1, <1>2 DEF Crashed, closed

-----------------------------------------------------------------------------
(* What an action leaves alone *)

LEMMA KeepListener ==
    ASSUME IInv, UNCHANGED <<listener, mem, handled>>, posted' \in Nat, posted <= posted'
    PROVE  ListenerOK'
<1>1. handled \in Seq(Messages) /\ listener.queue \in Seq(Messages) /\ posted \in Nat
    BY BridgeAssumption DEF IInv, TypesOK
<1>2. AtMost(handled, posted') /\ AtMost(listener.queue, posted')
  <2>1. /\ \A i \in 1..Len(handled) : handled[i] \in Nat
        /\ \A i \in 1..Len(listener.queue) : listener.queue[i] \in Nat
    <3>1. /\ \A i \in 1..Len(handled) : handled[i] \in Messages
          /\ \A i \in 1..Len(listener.queue) : listener.queue[i] \in Messages
        BY <1>1
    <3> QED BY <3>1 DEF Messages
  <2>2. AtMost(handled, posted) /\ AtMost(listener.queue, posted)
      BY DEF IInv, ListenerOK
  <2>3. ASSUME NEW s, \A i \in 1..Len(s) : s[i] \in Nat, AtMost(s, posted)
        PROVE  AtMost(s, posted')
      BY <1>1, <2>3 DEF AtMost
  <2> QED BY <2>1, <2>2, <2>3
<1>3. ListenerOK
    BY DEF IInv
<1> QED BY <1>2, <1>3 DEF ListenerOK, AtMost, Grows

LEMMA KeepTasks ==
    ASSUME IInv, UNCHANGED <<kind, task, active, permits, others, mainRecords, sees, run, muted,
                             missed, handled>>
    PROVE  TasksOK' /\ RunsOK' /\ MutedOK'
<1>1. /\ Running' = Running /\ Recording' = Recording
      /\ \A m \in Messages : Handled(m)' <=> Handled(m)
    BY DEF Running, Recording, Handled
<1>2. TasksOK'
    BY <1>1 DEF IInv, TasksOK
<1>3. RunsOK'
    BY DEF IInv, RunsOK
<1>4. MutedOK'
    BY <1>1 DEF IInv, MutedOK
<1> QED BY <1>2, <1>3, <1>4

LEMMA InitEstablishes == Init => IInv
<1> SUFFICES ASSUME Init PROVE IInv
    OBVIOUS
<1>1. TypesOK
  <2>1. listener \in [pc : {"sleeping", "next", "handling"}, queue : Seq(Messages),
                      maxSeen : 0..MaxMessages]
      BY BridgeAssumption DEF Init, Sleeping, None
  <2>2. /\ mem \in [seen : 0..MaxMessages, processed : SUBSET Messages, primed : BOOLEAN]
        /\ disk \in [seen : 0..MaxMessages, processed : SUBSET Messages]
      BY BridgeAssumption DEF Init, Fresh, None
  <2>3. run \in [Messages -> Run]
      BY StartedIs DEF Init
  <2>4. kind \in [Messages -> Kinds \cup {"unread"}]
      BY DEF Init
  <2>5. task \in [Messages -> Stages]
      BY DEF Init, Stages
  <2>6. sees \in [Messages -> BOOLEAN] /\ mainRecords \in BOOLEAN
      BY DEF Init
  <2>7. posted \in 0..MaxMessages /\ handled \in Seq(Messages)
      BY BridgeAssumption DEF Init
  <2> QED BY <2>1, <2>2, <2>3, <2>4, <2>5, <2>6, <2>7 DEF TypesOK
<1>2. ListenerOK
    BY DEF Init, ListenerOK, Sleeping, Grows, AtMost
<1>3. TasksOK
  <2>1. Running = {}
      BY DEF Init, Running
  <2> QED BY <2>1, FS_EmptySet, BridgeAssumption DEF Init, TasksOK
<1>4. RunsOK
    BY StartedIs DEF Init, RunsOK
<1>5. MutedOK
    BY BridgeAssumption DEF Init, MutedOK, Recording, Messages
<1> QED BY <1>1, <1>2, <1>3, <1>4, <1>5 DEF IInv

-----------------------------------------------------------------------------
(* The listener *)

LEMMA PostKeeps ==
    ASSUME IInv, Post
    PROVE  IInv'
<1>1. posted' = posted + 1 /\ posted < MaxMessages
      /\ UNCHANGED <<kind, listener, mem, disk, task, active, permits, others, mainRecords, sees,
                     run, muted, missed, handled>>
    BY DEF Post, bridge, tasks, history
<1>2. posted' \in 0..MaxMessages /\ posted <= posted'
    BY <1>1, BridgeAssumption DEF IInv, TypesOK
<1>3. TypesOK'
    BY <1>1, <1>2 DEF IInv, TypesOK
<1>4. ListenerOK'
    BY <1>1, <1>2, KeepListener
<1>5. TasksOK' /\ RunsOK' /\ MutedOK'
    BY <1>1, KeepTasks
<1> QED BY <1>3, <1>4, <1>5 DEF IInv

\* A save, or one that failed, leaves a state file.
LEMMA SaveTypes ==
    ASSUME TypesOK, Save,
           mem' \in [seen : 0..MaxMessages, processed : SUBSET Messages, primed : BOOLEAN]
    PROVE  disk' \in [seen : 0..MaxMessages, processed : SUBSET Messages]
BY DEF TypesOK, Save

\* What the listener's steps have in common.
LEMMA ListenerSteps ==
    ASSUME IInv, UNCHANGED <<posted, kind, task, active, permits, others, mainRecords, sees, run,
                             muted, missed, handled>>,
           listener' \in [pc : {"sleeping", "next", "handling"}, queue : Seq(Messages),
                          maxSeen : 0..MaxMessages],
           mem' \in [seen : 0..MaxMessages, processed : SUBSET Messages, primed : BOOLEAN],
           Save \/ UNCHANGED disk,
           ListenerOK'
    PROVE  IInv'
<1>1. disk' \in [seen : 0..MaxMessages, processed : SUBSET Messages]
    BY SaveTypes DEF IInv, TypesOK
<1>2. TypesOK'
    BY <1>1 DEF IInv, TypesOK
<1>3. TasksOK' /\ RunsOK' /\ MutedOK'
    BY KeepTasks
<1> QED BY <1>2, <1>3 DEF IInv

\* Once everything there is has been marked, all that was handled before, by
\* whatever process, is below the watermark.
LEMMA PrimeKeeps ==
    ASSUME IInv, Prime
    PROVE  IInv'
<1> DEFINE seen == MaxOf(Window, mem.seen)
<1>1. /\ listener.pc = "sleeping" /\ Window # {} /\ Save
      /\ mem' = [seen |-> seen, processed |-> mem.processed \cup Window, primed |-> TRUE]
      /\ UNCHANGED <<posted, kind, listener, task, active, permits, others, mainRecords, sees, run,
                     muted, missed, handled>>
    BY DEF Prime, channel, tasks
<1>2. /\ posted \in 0..MaxMessages /\ mem.seen \in 0..MaxMessages
      /\ mem.processed \subseteq Messages
      /\ handled \in Seq(Messages)
      /\ listener \in [pc : {"sleeping", "next", "handling"}, queue : Seq(Messages),
                       maxSeen : 0..MaxMessages]
    BY DEF IInv, TypesOK
<1>3. seen \in 0..MaxMessages /\ posted <= seen
    BY <1>1, <1>2, WindowIs, MaxOfIs
<1> HIDE DEF seen
<1>4. Window \subseteq Messages
    BY <1>2, WindowIs, BridgeAssumption DEF Messages
<1>5. mem' \in [seen : 0..MaxMessages, processed : SUBSET Messages, primed : BOOLEAN]
    BY <1>1, <1>2, <1>3, <1>4
<1>6. AtMost(handled, seen)
  <2>1. \A i \in 1..Len(handled) : handled[i] \in Messages /\ handled[i] <= posted
      BY <1>2 DEF IInv, ListenerOK, AtMost
  <2> QED BY <1>2, <1>3, <2>1 DEF AtMost, Messages
<1>7. mem'.seen = seen
    BY <1>1
<1>8. ListenerOK'
    BY <1>1, <1>6, <1>7 DEF IInv, ListenerOK, AtMost, Grows
<1> QED BY <1>1, <1>2, <1>5, <1>8, ListenerSteps

\* A poll takes up only messages beyond the watermark.
LEMMA PollKeeps ==
    ASSUME IInv, Poll
    PROVE  IInv'
<1> DEFINE newest == {m \in New : Cardinality({n \in New : n > m}) < MaxBacklog}
           queue  == InOrder(newest)
           bound  == MaxOf(Window, mem.seen)
<1>1. /\ listener.pc = "sleeping" /\ mem.primed
      /\ listener' = [pc |-> "next", queue |-> queue, maxSeen |-> bound]
      /\ mem' = [mem EXCEPT !.processed = @ \cup (Window \ New)]
      /\ UNCHANGED <<posted, kind, disk, task, active, permits, others, mainRecords, sees, run,
                     muted, missed, handled>>
    BY DEF Poll, channel, tasks
<1>2. /\ posted \in 0..MaxMessages /\ mem.seen \in 0..MaxMessages
      /\ mem \in [seen : 0..MaxMessages, processed : SUBSET Messages, primed : BOOLEAN]
      /\ handled \in Seq(Messages)
    BY DEF IInv, TypesOK
<1>3. Window \subseteq Messages /\ \A m \in Window : m <= posted
    BY <1>2, WindowIs, BridgeAssumption DEF Messages
<1>4. /\ newest \subseteq Messages
      /\ \A m \in newest : m \in Window /\ m > mem.seen
    BY <1>3 DEF New
<1>5. bound \in 0..MaxMessages /\ mem.seen <= bound /\ \A m \in Window : m <= bound
    BY <1>2, WindowIs, MaxOfIs
<1> HIDE DEF newest
<1>6. queue \in Seq(newest) /\ Grows(queue)
    BY <1>4, InOrderIs
<1> HIDE DEF queue, bound
<1>7. \A j \in 1..Len(queue) : queue[j] \in newest
    BY <1>6
<1>8. queue \in Seq(Messages)
    BY <1>4, <1>6
<1>9. AtMost(queue, posted) /\ AtMost(queue, bound)
    BY <1>3, <1>4, <1>5, <1>7 DEF AtMost
<1>10. AtMost(handled, mem.seen)
    BY <1>1 DEF IInv, ListenerOK
<1>11. \A i \in 1..Len(handled) : handled[i] \in Nat
  <2>1. \A i \in 1..Len(handled) : handled[i] \in Messages
      BY <1>2
  <2> QED BY <2>1 DEF Messages
<1>12. AtMost(handled, bound)
    BY <1>2, <1>5, <1>10, <1>11 DEF AtMost
<1>13. \A i \in 1..Len(handled), j \in 1..Len(queue) : handled[i] < queue[j]
  <2> SUFFICES ASSUME NEW i \in 1..Len(handled), NEW j \in 1..Len(queue)
               PROVE  handled[i] < queue[j]
      OBVIOUS
  <2>1. mem.seen \in Nat
      BY <1>2, BridgeAssumption
  <2>2. handled[i] \in Nat /\ handled[i] <= mem.seen
      BY <1>10, <1>11 DEF AtMost
  <2>3. queue[j] \in Nat /\ queue[j] > mem.seen
    <3>1. queue[j] \in newest
        BY <1>7
    <3>2. queue[j] \in Messages /\ queue[j] > mem.seen
        BY <1>4, <3>1
    <3> QED BY <3>2 DEF Messages
  <2> QED BY <2>1, <2>2, <2>3
<1>14. /\ listener'.pc = "next" /\ listener'.queue = queue /\ listener'.maxSeen = bound
       /\ mem'.primed /\ mem'.seen = mem.seen
    BY <1>1, <1>2
<1>15. ListenerOK'
    BY <1>1, <1>6, <1>9, <1>12, <1>13, <1>14 DEF IInv, ListenerOK
<1>16. listener' \in [pc : {"sleeping", "next", "handling"}, queue : Seq(Messages),
                      maxSeen : 0..MaxMessages]
    BY <1>1, <1>5, <1>8
<1>17. mem' \in [seen : 0..MaxMessages, processed : SUBSET Messages, primed : BOOLEAN]
    BY <1>1, <1>2, <1>3
<1> QED BY <1>1, <1>15, <1>16, <1>17, ListenerSteps

\* The message that was handled leaves the queue; what is left comes after it.
LEMMA Popped ==
    ASSUME IInv, listener.pc = "handling", Pop, UNCHANGED <<posted, handled>>,
           mem'.primed = mem.primed
    PROVE  /\ ListenerOK'
           /\ listener' \in [pc : {"sleeping", "next", "handling"}, queue : Seq(Messages),
                             maxSeen : 0..MaxMessages]
<1> DEFINE queue == listener.queue
           left  == Tail(listener.queue)
<1>1. /\ queue \in Seq(Messages) /\ queue # << >>
      /\ listener \in [pc : {"sleeping", "next", "handling"}, queue : Seq(Messages),
                       maxSeen : 0..MaxMessages]
    BY DEF IInv, TypesOK, ListenerOK
<1>2. listener' = [listener EXCEPT !.pc = "next", !.queue = left]
    BY DEF Pop
<1>3. /\ left \in Seq(Messages) /\ Len(left) = Len(queue) - 1
      /\ \A j \in 1..Len(left) : left[j] = queue[j + 1]
    BY <1>1, HeadTailProperties
<1>4. Len(queue) \in Nat
    BY <1>1
<1> HIDE DEF queue, left
<1>5. \A j \in 1..Len(left) : j + 1 \in 1..Len(queue) /\ j + 1 > 1
    BY <1>3, <1>4
<1>6. /\ listener' \in [pc : {"sleeping", "next", "handling"}, queue : Seq(Messages),
                        maxSeen : 0..MaxMessages]
      /\ listener'.pc = "next" /\ listener'.queue = left
      /\ listener'.maxSeen = listener.maxSeen
    BY <1>1, <1>2, <1>3
<1>7. /\ Grows(queue) /\ AtMost(queue, posted) /\ AtMost(queue, listener.maxSeen)
      /\ mem.primed /\ AtMost(handled, listener.maxSeen)
      /\ \A i \in 1..Len(handled), j \in 1..Len(queue) : j > 1 => handled[i] < queue[j]
    BY DEF IInv, ListenerOK, queue
<1>8. Grows(left)
  <2> SUFFICES ASSUME NEW i \in 1..Len(left), NEW j \in 1..Len(left), i < j
               PROVE  left[i] < left[j]
      BY DEF Grows
  <2>1. i + 1 \in 1..Len(queue) /\ j + 1 \in 1..Len(queue) /\ i + 1 < j + 1
      BY <1>3, <1>4
  <2> QED BY <1>3, <1>7, <2>1 DEF Grows
<1>9. AtMost(left, posted) /\ AtMost(left, listener.maxSeen)
    BY <1>3, <1>5, <1>7 DEF AtMost
<1>10. \A i \in 1..Len(handled), j \in 1..Len(left) : handled[i] < left[j]
    BY <1>3, <1>5, <1>7
<1>11. ListenerOK'
    BY <1>6, <1>7, <1>8, <1>9, <1>10 DEF IInv, ListenerOK
<1> QED BY <1>6, <1>11

LEMMA HandledKeeps ==
    ASSUME IInv, Processed \/ TimesOut \/ HandlerFails
    PROVE  IInv'
<1>1. /\ listener.pc = "handling" /\ Pop /\ (Save \/ UNCHANGED disk)
      /\ \/ mem' = [mem EXCEPT !.processed = @ \cup {Current},
                               !.seen = MaxOf({Current}, @)]
         \/ mem' = [mem EXCEPT !.processed = @ \cup {Current}]
      /\ UNCHANGED <<posted, kind, task, active, permits, others, mainRecords, sees, run,
                     muted, missed, handled>>
    BY DEF Processed, TimesOut, HandlerFails, channel, tasks, history
<1>2. Current \in Messages /\ {Current} \subseteq 0..MaxMessages
  <2>1. listener.queue \in Seq(Messages) /\ listener.queue # << >>
      BY <1>1 DEF IInv, TypesOK, ListenerOK
  <2>2. Current \in Messages
      BY <2>1, HeadTailProperties DEF Current
  <2> QED BY <2>2, BridgeAssumption DEF Messages
<1>3. mem \in [seen : 0..MaxMessages, processed : SUBSET Messages, primed : BOOLEAN]
    BY DEF IInv, TypesOK
<1> DEFINE seen == MaxOf({Current}, mem.seen)
<1>4. seen \in 0..MaxMessages
    BY <1>2, <1>3, MaxOfIs
<1>5. \/ mem' = [mem EXCEPT !.processed = @ \cup {Current}, !.seen = seen]
      \/ mem' = [mem EXCEPT !.processed = @ \cup {Current}]
    BY <1>1
<1> HIDE DEF seen
<1>6. /\ mem' \in [seen : 0..MaxMessages, processed : SUBSET Messages, primed : BOOLEAN]
      /\ mem'.primed = mem.primed
    BY <1>2, <1>3, <1>4, <1>5
<1>7. /\ ListenerOK'
      /\ listener' \in [pc : {"sleeping", "next", "handling"}, queue : Seq(Messages),
                        maxSeen : 0..MaxMessages]
    BY <1>1, <1>6, Popped
<1> QED BY <1>1, <1>6, <1>7, ListenerSteps

\* The watermark of the poll is not below what it handled.
LEMMA PollEndsKeeps ==
    ASSUME IInv, PollEnds
    PROVE  IInv'
<1> DEFINE seen == MaxOf({listener.maxSeen}, mem.seen)
<1>1. /\ listener.pc = "next" /\ listener' = Sleeping
      /\ mem' = [mem EXCEPT !.seen = seen]
      /\ Save \/ UNCHANGED disk
      /\ UNCHANGED <<posted, kind, task, active, permits, others, mainRecords, sees, run,
                     muted, missed, handled>>
    BY DEF PollEnds, channel, tasks, history
<1>2. /\ mem \in [seen : 0..MaxMessages, processed : SUBSET Messages, primed : BOOLEAN]
      /\ listener.maxSeen \in 0..MaxMessages /\ handled \in Seq(Messages)
    BY DEF IInv, TypesOK
<1>3. seen \in 0..MaxMessages /\ listener.maxSeen <= seen
    BY <1>2, MaxOfIs
<1> HIDE DEF seen
<1>4. /\ mem' \in [seen : 0..MaxMessages, processed : SUBSET Messages, primed : BOOLEAN]
      /\ mem'.seen = seen /\ mem'.primed = mem.primed
    BY <1>1, <1>2, <1>3
<1>5. AtMost(handled, seen)
  <2>1. AtMost(handled, listener.maxSeen)
      BY <1>1 DEF IInv, ListenerOK
  <2>2. \A i \in 1..Len(handled) : handled[i] \in Messages
      BY <1>2
  <2> QED BY <1>2, <1>3, <2>1, <2>2, BridgeAssumption DEF AtMost, Messages
<1>6. /\ listener' \in [pc : {"sleeping", "next", "handling"}, queue : Seq(Messages),
                        maxSeen : 0..MaxMessages]
      /\ listener'.pc = "sleeping" /\ listener'.queue = << >>
    BY <1>1, BridgeAssumption DEF Sleeping, None
<1>7. ListenerOK'
    BY <1>1, <1>4, <1>5, <1>6 DEF IInv, ListenerOK, Grows, AtMost
<1> QED BY <1>1, <1>4, <1>6, <1>7, ListenerSteps

\* A message is handed over after all that were, so that it has no task yet.
LEMMA HandleKeeps ==
    ASSUME IInv, Handle
    PROVE  IInv'
<1> DEFINE queue == listener.queue
<1>1. /\ listener.pc = "next" /\ queue # << >>
      /\ listener' = [listener EXCEPT !.pc = "handling"]
      /\ handled' = Append(handled, Current)
      /\ UNCHANGED <<posted, mem, disk, permits, others, mainRecords, sees, muted, missed>>
    BY DEF Handle
<1>2. TypesOK /\ ListenerOK /\ TasksOK /\ RunsOK /\ MutedOK
    BY DEF IInv
<1>3. /\ queue \in Seq(Messages) /\ handled \in Seq(Messages)
      /\ Len(queue) \in Nat /\ Len(handled) \in Nat
      /\ listener \in [pc : {"sleeping", "next", "handling"}, queue : Seq(Messages),
                       maxSeen : 0..MaxMessages]
    BY <1>2 DEF TypesOK
<1>4. PICK c \in Messages : c = Current /\ c = queue[1] /\ 1 \in 1..Len(queue)
  <2>1. Len(queue) # 0
      BY <1>1, <1>3, EmptySeq
  <2>2. 1 \in 1..Len(queue)
      BY <1>3, <2>1
  <2>3. Current = queue[1] /\ queue[1] \in Messages
      BY <1>1, <1>3, <2>2 DEF Current
  <2> QED BY <2>2, <2>3
<1>5. PICK k \in Kinds :
        /\ kind' = [kind EXCEPT ![c] = k]
        /\ \/ UNCHANGED <<task, active>>
           \/ task' = [task EXCEPT ![c] = "waiting"] /\ active' = c
        /\ \/ UNCHANGED run
           \/ \E started \in Started : run' = [run EXCEPT ![c] = started]
  <2>1. PICK k \in Kinds :
          /\ kind' = [kind EXCEPT ![Current] = k]
          /\ IF k = "command"
             THEN UNCHANGED <<task, active>>
             ELSE /\ task' = [task EXCEPT ![Current] = "waiting"]
                  /\ active' = Current
          /\ IF k = "chat" /\ Current \in Followed
             THEN \E started \in Started : run' = [run EXCEPT ![Current] = started]
             ELSE UNCHANGED run
      BY DEF Handle
  <2> QED BY <1>4, <2>1
<1>6. /\ handled' \in Seq(Messages) /\ Len(handled') = Len(handled) + 1
      /\ \A i \in 1..Len(handled) : handled'[i] = handled[i]
      /\ handled'[Len(handled) + 1] = c
    BY <1>1, <1>3, <1>4, AppendProperties
<1>7. \A i \in 1..Len(handled') : i \in 1..Len(handled) \/ i = Len(handled) + 1
    BY <1>3, <1>6
<1>8. \A i \in 1..Len(handled), j \in 1..Len(queue) : handled[i] < queue[j]
    BY <1>1, <1>2 DEF ListenerOK
<1>9. \A i \in 1..Len(handled) : handled[i] < c
    BY <1>4, <1>8
<1>10. task[c] = "none"
  <2>1. \A i \in 1..Len(handled) : handled[i] # c
    <3>1. \A i \in 1..Len(handled) : handled[i] \in Messages
        BY <1>3
    <3> QED BY <1>4, <1>9, <3>1 DEF Messages
  <2> QED BY <1>2, <1>4, <2>1 DEF TasksOK, Handled
<1>11. ListenerOK'
  <2>1. /\ Grows(queue) /\ AtMost(queue, posted) /\ AtMost(queue, listener.maxSeen)
        /\ Grows(handled) /\ AtMost(handled, posted)
        /\ mem.primed /\ AtMost(handled, listener.maxSeen)
      BY <1>1, <1>2 DEF ListenerOK
  <2>2. /\ listener'.pc = "handling" /\ listener'.queue = queue
        /\ listener'.maxSeen = listener.maxSeen
      BY <1>1, <1>3
  <2>3. \A i, j \in 1..Len(handled') : i < j => handled'[i] < handled'[j]
    <3> SUFFICES ASSUME NEW i \in 1..Len(handled'), NEW j \in 1..Len(handled'), i < j
                 PROVE  handled'[i] < handled'[j]
        OBVIOUS
    <3>1. i \in 1..Len(handled)
        BY <1>3, <1>6
    <3>2. CASE j \in 1..Len(handled)
        BY <1>6, <2>1, <3>1, <3>2 DEF Grows
    <3>3. CASE j = Len(handled) + 1
        BY <1>6, <1>9, <3>1, <3>3
    <3> QED BY <1>7, <3>2, <3>3
  <2>4. \A i \in 1..Len(handled') :
          handled'[i] <= posted /\ handled'[i] <= listener.maxSeen
    <3> SUFFICES ASSUME NEW i \in 1..Len(handled')
                 PROVE  handled'[i] <= posted /\ handled'[i] <= listener.maxSeen
        OBVIOUS
    <3>1. CASE i \in 1..Len(handled)
        BY <1>6, <2>1, <3>1 DEF AtMost
    <3>2. CASE i = Len(handled) + 1
        BY <1>4, <1>6, <2>1, <3>2 DEF AtMost
    <3> QED BY <1>7, <3>1, <3>2
  <2>5. \A i \in 1..Len(handled'), j \in 1..Len(queue) : j > 1 => handled'[i] < queue[j]
    <3> SUFFICES ASSUME NEW i \in 1..Len(handled'), NEW j \in 1..Len(queue), j > 1
                 PROVE  handled'[i] < queue[j]
        OBVIOUS
    <3>1. CASE i \in 1..Len(handled)
        BY <1>6, <1>8, <3>1
    <3>2. CASE i = Len(handled) + 1
        BY <1>4, <1>6, <2>1, <3>2 DEF Grows
    <3> QED BY <1>7, <3>1, <3>2
  <2> QED BY <1>1, <2>1, <2>2, <2>3, <2>4, <2>5 DEF ListenerOK, Grows, AtMost
<1>12. Running' = Running /\ Recording' = Recording /\ c \notin Recording
  <2>1. \A m \in Messages : task'[m] = "running" <=> task[m] = "running"
      BY <1>2, <1>4, <1>5, <1>10 DEF TypesOK
  <2>2. \A m \in Messages : m \in Running' <=> m \in Running
      BY <2>1 DEF Running
  <2>3. Running' = Running
      BY <2>2 DEF Running
  <2>4. Recording' = Recording
      BY <2>1, BridgeAssumption DEF Recording, Messages
  <2> QED BY <1>10, <2>3, <2>4 DEF Recording
<1>13. \A m \in Messages : (Handled(m) \/ m = c) => Handled(m)'
  <2>1. \E i \in 1..Len(handled') : handled'[i] = c
    <3>1. Len(handled) + 1 \in 1..Len(handled')
        BY <1>3, <1>6
    <3> QED BY <1>6, <3>1
  <2>2. ASSUME NEW m \in Messages, Handled(m) PROVE Handled(m)'
      BY <1>3, <1>6, <2>2 DEF Handled
  <2> QED BY <2>1, <2>2 DEF Handled
<1>14. TasksOK'
  <2>1. \A m \in Messages : task'[m] # "none" => Handled(m)'
      BY <1>2, <1>4, <1>5, <1>13 DEF TasksOK, TypesOK
  <2>2. /\ permits' \in Nat /\ others' \in Nat
        /\ permits' = Concurrency - others' - Cardinality(Running')
      BY <1>1, <1>2, <1>12 DEF TasksOK
  <2>3. active' # None =>
          active' \in Messages /\ task'[active'] \in {"waiting", "running", "replying"}
      BY <1>2, <1>4, <1>5 DEF TasksOK, TypesOK
  <2> QED BY <2>1, <2>2, <2>3 DEF TasksOK
<1>15. RunsOK' /\ run' \in [Messages -> Run]
  <2>1. CASE UNCHANGED run
      BY <1>2, <2>1 DEF RunsOK, TypesOK
  <2>2. CASE \E started \in Started : run' = [run EXCEPT ![c] = started]
      BY <1>2, <2>2, StartedIs DEF RunsOK, TypesOK
  <2> QED BY <1>5, <2>1, <2>2
<1>16. MutedOK'
  <2>1. \A m \in Recording : m # c /\ m \in Messages
      BY <1>12, BridgeAssumption DEF Recording, Messages
  <2>2. \A m \in Recording : kind'[m] = kind[m]
      BY <1>2, <1>5, <2>1 DEF TypesOK
  <2> QED BY <1>1, <1>2, <1>12, <2>2 DEF MutedOK
<1>17. kind' \in [Messages -> Kinds \cup {"unread"}] /\ task' \in [Messages -> Stages]
    BY <1>2, <1>4, <1>5 DEF TypesOK, Stages
<1>18. listener' \in [pc : {"sleeping", "next", "handling"}, queue : Seq(Messages),
                      maxSeen : 0..MaxMessages]
    BY <1>1, <1>3
<1>19. TypesOK'
    BY <1>1, <1>2, <1>6, <1>15, <1>17, <1>18 DEF TypesOK
<1> QED BY <1>11, <1>14, <1>15, <1>16, <1>19 DEF IInv

-----------------------------------------------------------------------------
(* Background tasks *)

\* What the steps of tasks have in common.
LEMMA TaskSteps ==
    ASSUME IInv, UNCHANGED <<posted, kind, listener, mem, disk, handled>>,
           task' \in [Messages -> Stages], run' \in [Messages -> Run],
           sees' \in [Messages -> BOOLEAN], mainRecords' \in BOOLEAN,
           TasksOK', RunsOK', MutedOK'
    PROVE  IInv'
<1>1. TypesOK'
    BY DEF IInv, TypesOK
<1>2. ListenerOK'
  <2>1. posted' \in Nat /\ posted <= posted'
      BY BridgeAssumption DEF IInv, TypesOK
  <2> QED BY <2>1, KeepListener
<1> QED BY <1>1, <1>2 DEF IInv

LEMMA RunningIsFinite == IsFiniteSet(Running) /\ Cardinality(Running) \in Nat
<1>1. IsFiniteSet(Messages) /\ Running \in SUBSET Messages
    BY FS_Interval, BridgeAssumption DEF Messages, Running
<1> QED BY <1>1, FS_Subset, FS_CardinalityType

\* A run that is followed is that of a task.
LEMMA RecordingIs == Recording = Running \cap Followed /\ Recording \subseteq Messages
BY BridgeAssumption DEF Recording, Running, Messages

\* One run is replaced by a sound one.
LEMMA RunReplaced ==
    ASSUME IInv, NEW m \in Messages, NEW r \in Run, RunOK(r),
           run' = [run EXCEPT ![m] = r]
    PROVE  RunsOK' /\ run' \in [Messages -> Run]
BY DEF IInv, TypesOK, RunsOK

\* A task that begins takes a permit, and an agentic one the recorder.
LEMMA BeginKeeps ==
    ASSUME IInv, NEW m \in Messages, Begin(m)
    PROVE  IInv'
<1>1. /\ task[m] = "waiting" /\ permits > 0 /\ permits' = permits - 1
      /\ task' = [task EXCEPT ![m] = "running"]
      /\ UNCHANGED <<posted, kind, listener, mem, disk, active, others, muted, missed, handled>>
    BY DEF Begin, channel, bridge, history
<1>2. TypesOK /\ TasksOK /\ RunsOK /\ MutedOK
    BY DEF IInv
<1>3. m \notin Running /\ Running' = Running \cup {m}
    BY <1>1, <1>2 DEF Running, TypesOK
<1>4. permits' \in Nat /\ permits' = Concurrency - others - Cardinality(Running')
  <2>1. Cardinality(Running \cup {m}) = Cardinality(Running) + 1
      BY <1>3, RunningIsFinite, FS_AddElement
  <2> QED BY <1>1, <1>2, <1>3, <2>1, RunningIsFinite, BridgeAssumption DEF TasksOK
<1>5. TasksOK'
  <2>1. \A n \in Messages : Handled(n)' <=> Handled(n)
      BY <1>1 DEF Handled
  <2>2. \A n \in Messages : task'[n] # "none" => task[n] # "none"
      BY <1>1, <1>2 DEF TypesOK
  <2>3. active' # None =>
          active' \in Messages /\ task'[active'] \in {"waiting", "running", "replying"}
      BY <1>1, <1>2 DEF TasksOK, TypesOK
  <2> QED BY <1>1, <1>2, <1>4, <2>1, <2>2, <2>3 DEF TasksOK
<1>6. task' \in [Messages -> Stages]
    BY <1>1, <1>2 DEF TypesOK, Stages
<1> DEFINE recording == Recording'
<1>7. CASE kind[m] = "task"
  <2>1. \/ \E started \in Started : run' = [run EXCEPT ![m] = started]
        \/ UNCHANGED run
      BY <1>7 DEF Begin
  <2>2. mainRecords' = TRUE /\ sees' = [sees EXCEPT ![m] = TRUE]
      BY <1>7 DEF Begin
  <2>3. RunsOK' /\ run' \in [Messages -> Run]
    <3>1. CASE UNCHANGED run
        BY <1>2, <3>1 DEF RunsOK, TypesOK
    <3> QED BY <2>1, <3>1, StartedIs, RunReplaced
  <2>4. sees' \in [Messages -> BOOLEAN] /\ sees'[m]
        /\ \A n \in Messages : n # m => sees'[n] = sees[n]
      BY <1>2, <2>2 DEF TypesOK
  <2>5. ASSUME NEW n \in recording, kind[n] = "task"
        PROVE  n \in muted \/ sees'[n]
    <3>1. n \in Messages /\ (n = m \/ n \in Recording)
        BY <1>1, <1>2, BridgeAssumption DEF Recording, Messages, TypesOK
    <3> QED BY <1>2, <2>4, <2>5, <3>1 DEF MutedOK
  <2>6. MutedOK'
      BY <1>1, <1>2, <2>2, <2>5 DEF MutedOK
  <2> QED BY <1>1, <1>5, <1>6, <2>2, <2>3, <2>4, <2>6, TaskSteps
<1>8. CASE kind[m] # "task"
  <2>1. UNCHANGED <<run, mainRecords, sees>>
      BY <1>8 DEF Begin
  <2>2. RunsOK'
      BY <1>2, <2>1 DEF RunsOK
  <2>3. \A n \in recording : n = m \/ n \in Recording
      BY <1>1, <1>2, BridgeAssumption DEF Recording, Messages, TypesOK
  <2>4. MutedOK'
      BY <1>1, <1>2, <1>8, <2>1, <2>3 DEF MutedOK
  <2> QED BY <1>1, <1>2, <1>5, <1>6, <2>1, <2>2, <2>4, TaskSteps DEF TypesOK
<1> QED BY <1>7, <1>8

\* Another run that begins takes a permit, and at its end gives it back.  It takes
\* the recorder away only from runs that are muted with it.
LEMMA OthersKeep ==
    ASSUME IInv, OtherBegins \/ OtherEnds
    PROVE  IInv'
<1>1. UNCHANGED <<posted, kind, listener, mem, disk, task, active, sees, run, missed, handled>>
    BY DEF OtherBegins, OtherEnds, channel, bridge, history
<1>2. TypesOK /\ TasksOK /\ RunsOK /\ MutedOK
    BY DEF IInv
<1>3. Running' = Running /\ Recording' = Recording
    BY <1>1 DEF Running, Recording
<1>4. /\ permits' \in Nat /\ others' \in Nat
      /\ permits' = Concurrency - others' - Cardinality(Running)
  <2>1. /\ permits \in Nat /\ others \in Nat
        /\ permits = Concurrency - others - Cardinality(Running)
      BY <1>2 DEF TasksOK
  <2>2. \/ permits > 0 /\ permits' = permits - 1 /\ others' = others + 1
        \/ others > 0 /\ permits' = permits + 1 /\ others' = others - 1
      BY DEF OtherBegins, OtherEnds
  <2> QED BY <2>1, <2>2, RunningIsFinite, BridgeAssumption
<1>5. TasksOK'
  <2>1. \A n \in Messages : Handled(n)' <=> Handled(n)
      BY <1>1 DEF Handled
  <2> QED BY <1>1, <1>2, <1>3, <1>4, <2>1 DEF TasksOK
<1>6. /\ mainRecords' \in BOOLEAN
      /\ \/ mainRecords' = TRUE /\ UNCHANGED muted
         \/ muted' = muted \cup Recording
    BY DEF OtherBegins, OtherEnds
<1>7. MutedOK'
    BY <1>1, <1>2, <1>3, <1>6 DEF MutedOK
<1>8. RunsOK'
    BY <1>1, <1>2 DEF RunsOK
<1> QED BY <1>1, <1>2, <1>5, <1>6, <1>7, <1>8, TaskSteps DEF TypesOK

\* An event is recorded, or the main agent looks its recorder up, or an event is
\* missed for want of one.
LEMMA EventKeeps ==
    ASSUME IInv, NEW m \in Messages, LoopEvent(m) \/ LooksUp(m) \/ MainAgentEvent(m)
    PROVE  IInv'
<1>1. /\ m \in Recording /\ kind[m] = "task"
      /\ UNCHANGED <<posted, kind, listener, mem, disk, task, active, permits, others, mainRecords,
                     muted, handled>>
    BY DEF LoopEvent, LooksUp, MainAgentEvent, channel, bridge, history
<1>2. TypesOK /\ TasksOK /\ RunsOK /\ MutedOK
    BY DEF IInv
<1>3. RunsOK' /\ run' \in [Messages -> Run]
  <2>1. CASE \E more \in Recorded(run[m]) : run' = [run EXCEPT ![m] = more]
    <3>1. PICK more \in Recorded(run[m]) : run' = [run EXCEPT ![m] = more]
        BY <2>1
    <3>2. run[m] \in Run /\ RunOK(run[m])
        BY <1>2 DEF TypesOK, RunsOK
    <3>3. more \in Run /\ RunOK(more)
        BY <3>2, RecordedIs
    <3> QED BY <3>1, <3>3, RunReplaced
  <2>2. CASE UNCHANGED run
      BY <1>2, <2>2 DEF TypesOK, RunsOK
  <2> QED BY <2>1, <2>2 DEF LoopEvent, LooksUp, MainAgentEvent
<1>4. Running' = Running /\ Recording' = Recording
    BY <1>1 DEF Running, Recording
<1>5. TasksOK'
  <2>1. \A n \in Messages : Handled(n)' <=> Handled(n)
      BY <1>1 DEF Handled
  <2> QED BY <1>1, <1>2, <1>4, <2>1 DEF TasksOK
<1>6. /\ sees' \in [Messages -> BOOLEAN] /\ (sees'[m] => sees[m] \/ mainRecords)
      /\ \A n \in Messages : n # m => sees'[n] = sees[n]
      /\ sees'[m] # sees[m] => sees'[m] = mainRecords
    BY <1>2 DEF LoopEvent, LooksUp, MainAgentEvent, TypesOK
<1>7. missed' \subseteq muted
    BY <1>1, <1>2 DEF LoopEvent, LooksUp, MainAgentEvent, MutedOK
<1>8. \A n \in Recording : kind[n] = "task" => n \in muted \/ (sees'[n] /\ mainRecords)
  <2> SUFFICES ASSUME NEW n \in Recording, kind[n] = "task", n \notin muted
               PROVE  sees'[n] /\ mainRecords
      OBVIOUS
  <2>1. sees[n] /\ mainRecords /\ n \in Messages
      BY <1>2, RecordingIs DEF MutedOK
  <2>2. CASE n # m
      BY <1>6, <2>1, <2>2
  <2>3. CASE n = m
      BY <1>2, <1>6, <2>1, <2>3 DEF TypesOK
  <2> QED BY <2>2, <2>3
<1>9. MutedOK'
    BY <1>1, <1>4, <1>7, <1>8 DEF MutedOK
<1> QED BY <1>1, <1>2, <1>3, <1>5, <1>6, <1>9, TaskSteps DEF TypesOK

\* A run that ends gives its permit back; an agentic one takes the recorder away
\* from all that are running.
LEMMA FinishKeeps ==
    ASSUME IInv, NEW m \in Messages, FinishDirect(m) \/ FinishAgentic(m)
    PROVE  IInv'
<1>1. /\ m \in Running /\ permits' = permits + 1
      /\ task' = [task EXCEPT ![m] = "replying"]
      /\ sees' = [sees EXCEPT ![m] = FALSE]
      /\ UNCHANGED <<posted, kind, listener, mem, disk, active, others, missed, handled>>
    BY DEF FinishDirect, FinishAgentic, Finish, channel, bridge, history, Running
<1>2. TypesOK /\ TasksOK /\ RunsOK /\ MutedOK
    BY DEF IInv
<1>3. Running' = Running \ {m} /\ Recording' = Recording \ {m}
    BY <1>1, <1>2, BridgeAssumption DEF Running, Recording, TypesOK, Messages
<1>4. permits' \in Nat /\ permits' = Concurrency - others - Cardinality(Running')
  <2>1. Cardinality(Running \ {m}) = Cardinality(Running) - 1
      BY <1>1, RunningIsFinite, FS_RemoveElement
  <2> QED BY <1>1, <1>2, <1>3, <2>1, RunningIsFinite, BridgeAssumption DEF TasksOK
<1>5. TasksOK'
  <2>1. \A n \in Messages : Handled(n)' <=> Handled(n)
      BY <1>1 DEF Handled
  <2>2. \A n \in Messages : task'[n] # "none" => task[n] # "none"
      BY <1>1, <1>2 DEF TypesOK, Running
  <2>3. active' # None =>
          active' \in Messages /\ task'[active'] \in {"waiting", "running", "replying"}
      BY <1>1, <1>2 DEF TasksOK, TypesOK
  <2> QED BY <1>1, <1>2, <1>4, <2>1, <2>2, <2>3 DEF TasksOK
<1>6. task' \in [Messages -> Stages] /\ sees' \in [Messages -> BOOLEAN]
    BY <1>1, <1>2 DEF TypesOK, Stages
<1>7. RunsOK' /\ run' \in [Messages -> Run]
  <2>1. PICK last \in {run[m]} \cup Recorded(run[m]) :
          \E finished \in Finishes(last) : run' = [run EXCEPT ![m] = finished]
      BY DEF FinishDirect, FinishAgentic, Finish
  <2>2. run[m] \in Run /\ RunOK(run[m])
      BY <1>2 DEF TypesOK, RunsOK
  <2>3. last \in Run /\ RunOK(last)
      BY <2>2, RecordedIs
  <2>4. PICK finished \in Finishes(last) : run' = [run EXCEPT ![m] = finished]
      BY <2>1
  <2>5. finished \in Run /\ RunOK(finished)
      BY <2>3, FinishesIs
  <2> QED BY <2>4, <2>5, RunReplaced
<1>8. mainRecords' \in BOOLEAN /\ MutedOK'
  <2>1. \A n \in Recording' : n # m /\ sees'[n] = sees[n]
      BY <1>2, <1>1, <1>3, RecordingIs DEF TypesOK
  <2>2. CASE FinishDirect(m)
    <3>1. UNCHANGED <<mainRecords, muted>>
        BY <2>2 DEF FinishDirect
    <3> QED BY <1>1, <1>2, <1>3, <2>1, <3>1 DEF MutedOK, TypesOK
  <2>3. CASE FinishAgentic(m)
    <3>1. /\ mainRecords' = FALSE
          /\ muted' = muted \cup (Recording \ {m})
        BY <2>3 DEF FinishAgentic
    <3> QED BY <1>1, <1>2, <1>3, <3>1 DEF MutedOK
  <2> QED BY <2>2, <2>3
<1> QED BY <1>1, <1>5, <1>6, <1>7, <1>8, TaskSteps

\* Whichever task _on_done forgets.
LEMMA ReplyKeeps ==
    ASSUME IInv, NEW m \in Messages, Reply(m)
    PROVE  IInv'
<1>1. /\ task[m] = "replying" /\ task' = [task EXCEPT ![m] = "over"]
      /\ run' = [run EXCEPT ![m] = NoRun]
      /\ muted' = muted \ {m} /\ missed' = missed \ {m} /\ active' = None
      /\ UNCHANGED <<posted, kind, listener, mem, disk, permits, others, mainRecords, sees, handled>>
    BY DEF Reply, Replied, channel, bridge, history
<1>2. TypesOK /\ TasksOK /\ RunsOK /\ MutedOK
    BY DEF IInv
<1>3. Running' = Running /\ Recording' = Recording /\ m \notin Recording
    BY <1>1, <1>2, BridgeAssumption DEF Running, Recording, TypesOK, Messages
<1>4. TasksOK'
  <2>1. \A n \in Messages : Handled(n)' <=> Handled(n)
      BY <1>1 DEF Handled
  <2>2. \A n \in Messages : task'[n] # "none" => task[n] # "none"
      BY <1>1, <1>2 DEF TypesOK
  <2> QED BY <1>1, <1>2, <1>3, <2>1, <2>2 DEF TasksOK
<1>5. RunsOK' /\ run' \in [Messages -> Run]
    BY <1>1, StartedIs, RunReplaced
<1>6. MutedOK'
    BY <1>1, <1>2, <1>3 DEF MutedOK
<1>7. task' \in [Messages -> Stages]
    BY <1>1, <1>2 DEF TypesOK, Stages
<1> QED BY <1>1, <1>2, <1>4, <1>5, <1>6, <1>7, TaskSteps DEF TypesOK

\* After a restart the watermark may be an old one, and the history is not primed.
LEMMA CrashKeeps ==
    ASSUME IInv, Crash
    PROVE  IInv'
<1>1. /\ disk' \in {disk, Fresh}
      /\ mem' = [seen |-> disk'.seen, processed |-> disk'.processed, primed |-> FALSE]
      /\ listener' = Sleeping
      /\ task' = [m \in Messages |-> IF task[m] = "none" THEN "none" ELSE "over"]
      /\ active' = None /\ permits' = Concurrency /\ others' = 0 /\ mainRecords' = FALSE
      /\ sees' = [m \in Messages |-> FALSE]
      /\ UNCHANGED <<posted, kind, handled, muted, missed>>
    BY DEF Crash, channel
<1>2. TypesOK /\ ListenerOK /\ TasksOK /\ RunsOK /\ MutedOK
    BY DEF IInv
<1>3. disk' \in [seen : 0..MaxMessages, processed : SUBSET Messages]
    BY <1>1, <1>2, BridgeAssumption DEF TypesOK, Fresh, None
<1>4. mem' \in [seen : 0..MaxMessages, processed : SUBSET Messages, primed : BOOLEAN]
      /\ ~mem'.primed
    BY <1>1, <1>3
<1>5. /\ listener' \in [pc : {"sleeping", "next", "handling"}, queue : Seq(Messages),
                        maxSeen : 0..MaxMessages]
      /\ listener'.pc = "sleeping" /\ listener'.queue = << >>
    BY <1>1, BridgeAssumption DEF Sleeping, None
<1>6. ListenerOK'
    BY <1>1, <1>2, <1>4, <1>5 DEF ListenerOK, Grows, AtMost
<1>7. RunsOK' /\ run' \in [Messages -> Run]
  <2>1. \A n \in Messages : /\ run[n] \in Run /\ RunOK(run[n])
                              /\ Crashed(run[n]) \in Run /\ RunOK(Crashed(run[n]))
      BY <1>2, CrashedIs DEF TypesOK, RunsOK
  <2>2. CASE run' = [m \in Messages |-> Crashed(run[m])]
      BY <2>1, <2>2 DEF RunsOK
  <2>3. CASE \E m \in Recording : \E left \in Finishes(run[m]) :
               run' = [n \in Messages |-> IF n = m THEN left ELSE Crashed(run[n])]
    <3>1. PICK m \in Messages : \E left \in Finishes(run[m]) :
            run' = [n \in Messages |-> IF n = m THEN left ELSE Crashed(run[n])]
        BY <2>3, RecordingIs
    <3>2. PICK left \in Finishes(run[m]) :
            run' = [n \in Messages |-> IF n = m THEN left ELSE Crashed(run[n])]
        BY <3>1
    <3>3. left \in Run /\ RunOK(left)
        BY <2>1, FinishesIs
    <3> QED BY <2>1, <3>2, <3>3 DEF RunsOK
  <2> QED BY <2>2, <2>3 DEF Crash
<1>8. Running' = {} /\ Recording' = {}
    BY <1>1, BridgeAssumption DEF Running, Recording, Messages
<1>9. TasksOK'
  <2>1. \A n \in Messages : Handled(n)' <=> Handled(n)
      BY <1>1 DEF Handled
  <2>2. \A n \in Messages : task'[n] # "none" => task[n] # "none"
      BY <1>1
  <2>3. /\ permits' \in Nat /\ others' \in Nat
        /\ permits' = Concurrency - others' - Cardinality(Running')
      BY <1>1, <1>8, FS_EmptySet, BridgeAssumption
  <2> QED BY <1>1, <1>2, <2>1, <2>2, <2>3 DEF TasksOK
<1>10. MutedOK'
    BY <1>1, <1>2, <1>8 DEF MutedOK
<1>11. task' \in [Messages -> Stages] /\ sees' \in [Messages -> BOOLEAN]
    BY <1>1 DEF Stages
<1>12. TypesOK'
    BY <1>1, <1>2, <1>3, <1>4, <1>5, <1>7, <1>11 DEF TypesOK
<1> QED BY <1>6, <1>7, <1>9, <1>10, <1>12 DEF IInv

LEMMA NextKeeps == IInv /\ [Next]_vars => IInv'
<1> SUFFICES ASSUME IInv, [Next]_vars PROVE IInv'
    OBVIOUS
<1>1. CASE Post
    BY <1>1, PostKeeps
<1>2. CASE Prime
    BY <1>2, PrimeKeeps
<1>3. CASE Poll
    BY <1>3, PollKeeps
<1>4. CASE Handle
    BY <1>4, HandleKeeps
<1>5. CASE Processed \/ TimesOut \/ HandlerFails
    BY <1>5, HandledKeeps
<1>6. CASE PollEnds
    BY <1>6, PollEndsKeeps
<1>7. ASSUME NEW m \in Messages, Work(m) \/ LoopEvent(m) \/ LooksUp(m) \/ MainAgentEvent(m)
      PROVE  IInv'
    BY <1>7, BeginKeeps, EventKeeps, FinishKeeps, ReplyKeeps DEF Work, Ends
<1>8. CASE Crash
    BY <1>8, CrashKeeps
<1>9. CASE OtherBegins \/ OtherEnds
    BY <1>9, OthersKeep
<1>10. CASE UNCHANGED vars
  <2>1. /\ UNCHANGED <<posted, kind, listener, mem, disk, task, active, permits, others,
                       mainRecords, sees, run, muted, missed, handled>>
      BY <1>10 DEF vars, channel, bridge, tasks, history
  <2>2. posted' \in 0..MaxMessages
      BY <2>1 DEF IInv, TypesOK
  <2>3. TasksOK' /\ RunsOK' /\ MutedOK'
      BY <2>1, KeepTasks
  <2> QED BY <2>1, <2>3, TaskSteps DEF IInv, TypesOK
<1> QED BY <1>1, <1>2, <1>3, <1>4, <1>5, <1>6, <1>7, <1>8, <1>9, <1>10 DEF Next, Listen

THEOREM Invariance == Spec => []IInv
BY InitEstablishes, NextKeeps, PTL DEF Spec

-----------------------------------------------------------------------------
(* What the bridge promises *)

\* TYPE INVARIANT: as many permits are taken as runs are under way, never more
\* than the lock has, and a task /status tells of has not ended (main.py:690-704, 734).
THEOREM TypeCorrect == Spec => []TypeOK
<1>1. IInv => TypeOK
    BY DEF IInv, TypesOK, TasksOK, TypeOK, Stages, Running
<1> QED BY <1>1, Invariance, PTL

\* However polls, timeouts, errors and restarts follow each other, and whatever
\* the state file holds after them, no message is handled twice or after a later
\* one (main.py:454-600).
THEOREM NeverTwice == Spec => []HandledOnceInOrder
<1>1. IInv => HandledOnceInOrder
    BY DEF IInv, ListenerOK, Grows, HandledOnceInOrder
<1> QED BY <1>1, Invariance, PTL

\* Wherever the process dies and whichever writes fail, what events.jsonl lacks is
\* owed to appends that failed, at most two events to each; a bundle has every
\* event, a run without one is listed with no more than it had, and an analysis
\* only with a complete one (diagnostic_recorder.py:8-22, 216-226, 380-505).
THEOREM EventsAreKept == Spec => []NoEventLost
<1>1. ASSUME IInv, NEW m \in Messages
      PROVE  /\ run[m].dir => run[m].did - run[m].jsonl <= 2 * run[m].refused
             /\ run[m].bundle = "whole" =>
                  \E l \in Listed(run[m]) : l.status = "complete" /\ l.events = run[m].did
             /\ run[m].dir /\ run[m].bundle = "none" =>
                  \E l \in Listed(run[m]) : Shown(run[m]) <= l.events /\ l.events <= run[m].did
             /\ run[m].analysis # "none" => \E l \in Listed(run[m]) : l.status = "complete"
  <2> DEFINE r == run[m]
  <2>1. r \in Run /\ RunOK(r)
      BY <1>1 DEF IInv, TypesOK, RunsOK
  <2> HIDE DEF r
  <2>2. /\ r.did \in Nat /\ r.jsonl \in Nat /\ r.lines \in Nat /\ r.refused \in Nat
        /\ r.torn \in BOOLEAN
      BY <2>1 DEF Run
  <2>3. r.dir => r.did - r.jsonl <= 2 * r.refused
      BY <2>1, <2>2 DEF RunOK
  <2> DEFINE listed == [status  |-> IF r.bundle = "whole" THEN "complete" ELSE "partial",
                        events  |-> IF r.bundle = "whole" THEN r.bundled ELSE r.lines,
                        counted |-> r.analysis = "whole"]
  <2>4. r.bundle = "whole" \/ (r.bundle = "none" /\ r.dir) => listed \in Listed(r)
      BY DEF Listed
  <2>5. r.bundle = "whole" => listed.status = "complete" /\ listed.events = r.did
      BY <2>1 DEF RunOK
  <2>6. r.bundle = "none" => Shown(r) <= listed.events /\ listed.events <= r.did
      BY <2>1, <2>2 DEF RunOK, Shown
  <2>7. r.analysis # "none" => r.bundle = "whole"
      BY <2>1 DEF RunOK
  <2> HIDE DEF listed
  <2>8. r.bundle = "whole" => \E l \in Listed(r) : l.status = "complete" /\ l.events = r.did
      BY <2>4, <2>5
  <2>9. r.dir /\ r.bundle = "none" =>
          \E l \in Listed(r) : Shown(r) <= l.events /\ l.events <= r.did
      BY <2>4, <2>6
  <2>10. r.analysis # "none" => \E l \in Listed(r) : l.status = "complete"
      BY <2>7, <2>8
  <2> QED BY <2>3, <2>8, <2>9, <2>10 DEF r
<1>2. IInv => NoEventLost
    BY <1>1 DEF NoEventLost
<1> QED BY <1>2, Invariance, PTL

\* An event of the main agent is missing only in a run into which another agentic
\* run's end fell, or the start of one that has no recorder, whatever the number of
\* runs (agentic_loop.py:212, 261, main.py:2432-2438, main_agent.py:1625).
THEOREM OnlyOverlapMisses == Spec => []MissedOnlyByOverlap
<1>1. IInv => MissedOnlyByOverlap
    BY DEF IInv, MutedOK, MissedOnlyByOverlap
<1> QED BY <1>1, Invariance, PTL
=============================================================================
