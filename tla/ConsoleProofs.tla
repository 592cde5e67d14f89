---------------------------- MODULE ConsoleProofs ----------------------------
(***************************************************************************)
(* Proofs about Console, for any clients, settings, presets and slots, any *)
(* limits and any number of requests, tasks, failures and restarts.  IInv  *)
(* is the inductive invariant: ControlInv is about the control plane,      *)
(* ChatInv about the chat tab, its requests and the runs they start.       *)
(***************************************************************************)
EXTENDS Console, FiniteSetTheorems, SequenceTheorems, TLAPS

KVs == {data.kv : data \in {d \in Updates : "kv" \in DOMAIN d}}

EntryOf(actions, payloads) ==
    [id : Approvals, action : actions, payload : payloads,
     status : {"pending", "approved", "rejected"}]

\* What an approval asks for is told by its action.
Entry ==
    EntryOf({"kv_cache_change"}, [kv : KVs])
        \cup EntryOf({"large_context_increase"}, [context : Nat])
        \cup EntryOf({"server_restart", "emergency_stop"}, {<< >>})

Ordered(q, last) ==
    /\ \A i \in 1..Len(q) : q[i].id <= last
    /\ \A i, k \in 1..Len(q) : i < k => q[i].id < q[k].id

\* Entries are pending until somebody decides on them.
Undecided(q, v) == \A i \in 1..Len(q) : q[i].status = "pending" <=> v[q[i].id] = "none"

QueueOK ==
    /\ queue \in Seq(Entry) /\ Len(queue) <= MaxEntries
    /\ Ordered(queue, submitted)
    /\ Undecided(queue, verdicts)

VerdictsOK ==
    /\ requests \in 0..MaxRequests /\ submitted \in 0..requests
    /\ verdicts \in [Approvals -> {"none", "approved", "rejected"}]
    /\ \A a \in Approvals : a > submitted => verdicts[a] = "none"
    /\ carried \in [Approvals -> Nat]
    /\ DecidedOnce

SettingsOK ==
    /\ DOMAIN settings = DOMAIN InitialSettings
    /\ settings.guarded \subseteq CriticalActions /\ settings.context \in Nat

Agent == [id : Nat, by : {"api", "tool"}, slot : ParallelSlots]

AgentsOK ==
    /\ presets \in [Presets -> {"new", "there", "gone"}]
    /\ spawned \in Nat /\ crashes \in Nat
    /\ agents \subseteq Agent /\ IsFiniteSet(agents)
    /\ \A a, b \in agents : a.id \in 1..spawned /\ (a.id = b.id => a = b)

\* The chat tab spawns no agents.
CallsOK ==
    /\ call = [c \in Clients |-> call[c]]
    /\ \A c \in Clients : call[c].op \in Ops
    /\ ~ Waiting(Chat, "spawn")

Others   == Clients \ {Chat}
Api(set) == {a \in set : a.by = "api"}
Spawning == {c \in Others : Waiting(c, "spawn")}

\* A client that is about to spawn an agent found room for it, when the others
\* that were about to do so were not more than the other clients.
LimitOK == Cardinality(Api(agents)) + Cardinality(Spawning) < MaxSlots + Cardinality(Others)

ControlInv == QueueOK /\ VerdictsOK /\ SettingsOK /\ AgentsOK /\ CallsOK /\ LimitOK

\* What waits for a task is a request of the tab.
JobOf(kinds, places) ==
    {job \in [kind : kinds, task : Tasks \cup {None}, there : BOOLEAN, at : places,
              slot : ParallelSlots \cup {None}] :
       job.at = "waiting" /\ job.task # None => job.kind \in Retried}
Waits  == JobOf(Requests, {"waiting"})
AnyJob == JobOf(Requests \cup {"socket", "other"},
                {"waiting", "running", "asking", "delegating", "resumed"})

Places ==
    Requests \cup {"ready", "connecting", "stream", "fallback", "second", "command"}

Tab == [at : Places, task : Tasks \cup {None}, result : BOOLEAN]

\* Where the tab may still have to send its task once more.
Streams == {"connecting", "stream", "fallback", "request", "second"}

TabOK ==
    /\ typed \in 0..MaxTasks
    /\ tab \in Tab
    /\ tab.at \in Streams => tab.task \in 1..typed
    /\ started \in [Tasks -> Nat] /\ failed \in [Tasks -> Nat]

InLine(l) == l \in Seq(AnyJob) /\ \A i \in 2..Len(l) : l[i].at = "waiting"

LineOK == InLine(line) /\ preflight \subseteq Waits

\* A task has at most two requests, which their names tell apart.
Name(job) == <<job.task, job.kind>>
Names     == Tasks \X Retried

WaitsInLine(n, l, i) == Name(l[i]) = n /\ l[i].at = "waiting"

SomeWaits(n, p, l) ==
    \/ \E j \in p : Name(j) = n
    \/ \E i \in 1..Len(l) : WaitsInLine(n, l, i)

\* No request waits twice to be run.
OneWaits(n, p, l) ==
    /\ \A j, k \in p : Name(j) = n /\ Name(k) = n => j = k
    /\ \A i, k \in 1..Len(l) : WaitsInLine(n, l, i) /\ WaitsInLine(n, l, k) => i = k
    /\ \A j \in p, i \in 1..Len(l) : Name(j) = n => ~ WaitsInLine(n, l, i)

\* Where the tab is with a task.
Place(t) == IF t > typed THEN "untyped" ELSE IF tab.task = t THEN tab.at ELSE "ready"

Count(waits) == IF waits THEN 1 ELSE 0

\* How often a task was started, and how many of its sendings failed: each of its
\* requests that waits, or is still to be sent, is owed to one of these.
Fits(place, starts, fails, request, retry) ==
    /\ starts + Count(request) + Count(retry) <= 1 + fails /\ fails <= 2
    /\ place \in {"untyped", "connecting"} => starts = 0
    /\ place \in {"untyped", "connecting", "stream"} => fails = 0
    /\ place \in {"fallback", "request"} => fails = 1
    /\ place \in {"untyped", "connecting", "stream", "fallback"} => ~ request
    /\ place \in Streams \cup {"untyped"} => ~ retry
    /\ place \in {"fallback", "second"} => starts + Count(request) <= fails

Once(t, p, l) ==
    /\ OneWaits(<<t, "request">>, p, l) /\ OneWaits(<<t, "retry">>, p, l)
    /\ Fits(Place(t), started[t], failed[t],
            SomeWaits(<<t, "request">>, p, l), SomeWaits(<<t, "retry">>, p, l))

OnceOK == \A t \in Tasks : Once(t, preflight, line)

ChatInv == TabOK /\ LineOK /\ OnceOK

IInv == ControlInv /\ ChatInv
-----------------------------------------------------------------------------
(* The queue *)

LEMMA Smallest ==
    ASSUME NEW S, S \subseteq Nat, S # {}
    PROVE  \E m \in S : \A n \in S : m <= n
<1>1. PICK m \in S : \A n \in S : ~ (<<n, m>> \in OpToRel(<, Nat))
    BY WFMin, NatLessThanWellFounded
<1>2. \A n \in S : ~ (n < m)
    BY <1>1 DEF OpToRel
<1> QED BY <1>2

\* What is left of a queue when one entry is taken out.
Without(q, k) == SubSeq(q, 1, k - 1) \o SubSeq(q, k + 1, Len(q))

LEMMA WithoutIs ==
    ASSUME NEW S, NEW q \in Seq(S), NEW k \in 1..Len(q)
    PROVE  /\ Without(q, k) \in Seq(S)
           /\ Len(Without(q, k)) = Len(q) - 1
           /\ \A i \in 1..(Len(q) - 1) :
                Without(q, k)[i] = q[IF i < k THEN i ELSE i + 1]
<1> DEFINE front == SubSeq(q, 1, k - 1)
           back  == SubSeq(q, k + 1, Len(q))
<1>1. Len(q) \in Nat
    BY LenProperties
<1>2. front \in Seq(S) /\ Len(front) = k - 1 /\ \A i \in 1..(k - 1) : front[i] = q[i]
    BY <1>1, SubSeqProperties
<1>3. /\ back \in Seq(S) /\ Len(back) = Len(q) - k
      /\ \A i \in 1..(Len(q) - k) : back[i] = q[k + i]
    BY <1>1, SubSeqProperties
<1>4. /\ front \o back \in Seq(S) /\ Len(front \o back) = Len(front) + Len(back)
      /\ \A i \in 1..(Len(front) + Len(back)) :
           (front \o back)[i] = IF i <= Len(front) THEN front[i] ELSE back[i - Len(front)]
  <2> HIDE DEF front, back
  <2> QED BY <1>2, <1>3, ConcatProperties
<1>5. Without(q, k) = front \o back
    BY DEF Without
<1> HIDE DEF front, back
<1>6. ASSUME NEW i \in 1..(Len(q) - 1)
      PROVE  Without(q, k)[i] = q[IF i < k THEN i ELSE i + 1]
    BY <1>1, <1>2, <1>3, <1>4, <1>5
<1>7. Without(q, k) \in Seq(S)
    BY <1>4, <1>5
<1>8. Len(Without(q, k)) = Len(q) - 1
  <2>1. Len(Without(q, k)) = Len(front) + Len(back)
      BY <1>4, <1>5
  <2> QED BY <1>1, <1>2, <1>3, <2>1
<1> QED BY <1>6, <1>7, <1>8

\* Pruning takes out one entry at most, and makes room for another.
LEMMA PrunedIs ==
    ASSUME NEW q \in Seq(Entry), Len(q) <= MaxEntries
    PROVE  /\ Len(Pruned(q)) < MaxEntries
           /\ Pruned(q) = q \/ \E k \in 1..Len(q) : Pruned(q) = Without(q, k)
<1>1. Len(q) \in Nat /\ MaxEntries \in Nat \ {0}
    BY LenProperties, ControlAssumption
<1>2. CASE Len(q) < MaxEntries
    BY <1>2 DEF Pruned
<1>3. CASE ~ (Len(q) < MaxEntries) /\ \E i \in DOMAIN q : IsDecided(q[i])
  <2> DEFINE I == {i \in 1..Len(q) : IsDecided(q[i])}
  <2>1. I # {} /\ I \subseteq 1..Len(q)
      BY <1>3, LenProperties
  <2>5. I \subseteq Nat
      BY <1>1
  <2>2. \E m \in I : \A n \in I : m <= n
    <3> HIDE DEF I
    <3> QED BY <2>1, <2>5, Smallest
  <2>3. SelectInSeq(q, IsDecided) \in 1..Len(q)
      BY <2>1, <2>2 DEF SelectInSeq, Min
  <2>4. Pruned(q) = Without(q, SelectInSeq(q, IsDecided))
      BY <1>3, LenProperties DEF Pruned, RemoveFirstMatch, RemoveAt, Without
  <2> QED BY <1>1, <1>3, <2>3, <2>4, WithoutIs
<1>4. CASE ~ (Len(q) < MaxEntries) /\ ~ \E i \in DOMAIN q : IsDecided(q[i])
  <2>1. Pruned(q) = Tail(q)
      BY <1>4 DEF Pruned
  <2>2. q # << >> /\ 1 \in 1..Len(q)
      BY <1>1, <1>4
  <2>3. Tail(q) = Without(q, 1)
    <3>1. /\ Tail(q) \in Seq(Entry) /\ Len(Tail(q)) = Len(q) - 1
          /\ \A i \in 1..(Len(q) - 1) : Tail(q)[i] = q[i + 1]
        BY <2>2, HeadTailProperties
    <3>2. /\ Without(q, 1) \in Seq(Entry) /\ Len(Without(q, 1)) = Len(q) - 1
          /\ \A i \in 1..(Len(q) - 1) : Without(q, 1)[i] = q[i + 1]
      <4>1. \A i \in 1..(Len(q) - 1) : (IF i < 1 THEN i ELSE i + 1) = i + 1
          OBVIOUS
      <4> QED BY <2>2, <4>1, WithoutIs
    <3> HIDE DEF Without
    <3> QED BY <1>1, <3>1, <3>2, SeqEqual
  <2>4. Len(Pruned(q)) = Len(q) - 1
      BY <2>1, <2>2, HeadTailProperties
  <2>5. Len(Pruned(q)) < MaxEntries
      BY <1>1, <2>4
  <2> QED BY <2>1, <2>2, <2>3, <2>5
<1> QED BY <1>2, <1>3, <1>4

LEMMA WithoutKeeps ==
    ASSUME NEW q \in Seq(Entry), NEW k \in 1..Len(q), NEW last, NEW v,
           Ordered(q, last), Undecided(q, v)
    PROVE  /\ Without(q, k) \in Seq(Entry)
           /\ Ordered(Without(q, k), last) /\ Undecided(Without(q, k), v)
<1> DEFINE p    == Without(q, k)
           e[i \in 1..Len(q)] == IF i < k THEN i ELSE i + 1
<1>1. Len(q) \in Nat
    BY LenProperties
<1>2. p \in Seq(Entry) /\ Len(p) = Len(q) - 1
    BY WithoutIs
<1>3. \A i \in 1..Len(p) : p[i] = q[e[i]]
    BY <1>1, <1>2, WithoutIs
<1>4. \A i \in 1..Len(p) : e[i] \in 1..Len(q)
    BY <1>1, <1>2
<1>5. \A i, j \in 1..Len(p) : i < j => e[i] < e[j]
    BY <1>1, <1>2
<1> HIDE DEF p, e
<1>6. Ordered(p, last)
    BY <1>3, <1>4, <1>5 DEF Ordered
<1>7. Undecided(p, v)
    BY <1>3, <1>4 DEF Undecided
<1> QED BY <1>2, <1>6, <1>7 DEF p

\* An entry that is new in every respect goes to the end.
LEMMA AppendKeeps ==
    ASSUME NEW q \in Seq(Entry), NEW a \in Entry, NEW last \in Nat, NEW v,
           Ordered(q, last), Undecided(q, v),
           a.id = last + 1, a.status = "pending", v[last + 1] = "none"
    PROVE  /\ Append(q, a) \in Seq(Entry)
           /\ Ordered(Append(q, a), last + 1) /\ Undecided(Append(q, a), v)
<1> DEFINE p == Append(q, a)
<1>1. Len(q) \in Nat
    BY LenProperties
<1>2. p \in Seq(Entry) /\ Len(p) = Len(q) + 1
    BY AppendProperties
<1>3. (\A i \in 1..Len(q) : p[i] = q[i]) /\ p[Len(q) + 1] = a
    BY AppendProperties
<1>4. \A i \in 1..Len(q) : q[i] \in Entry
    BY ElementOfSeq
<1>5. \A b \in Entry : b.id \in Nat
    BY DEF Entry, EntryOf, Approvals
<1> HIDE DEF p
<1>6. \A i \in 1..Len(q) : p[i].id \in Nat /\ p[i].id <= last
    BY <1>3, <1>4, <1>5 DEF Ordered
<1>7. Ordered(p, last + 1)
  <2>1. ASSUME NEW i \in 1..Len(p) PROVE p[i].id <= last + 1
    <3>1. CASE i = Len(q) + 1
        BY <3>1, <1>3
    <3>2. CASE i \in 1..Len(q)
        BY <3>2, <1>6
    <3> QED BY <1>1, <1>2, <3>1, <3>2
  <2>2. ASSUME NEW i \in 1..Len(p), NEW j \in 1..Len(p), i < j PROVE p[i].id < p[j].id
    <3>1. i \in 1..Len(q)
        BY <1>1, <1>2, <2>2
    <3>2. CASE j = Len(q) + 1
        BY <3>1, <3>2, <1>3, <1>6
    <3>3. CASE j \in 1..Len(q)
        BY <3>1, <3>3, <1>3, <2>2 DEF Ordered
    <3> QED BY <1>1, <1>2, <3>2, <3>3
  <2> QED BY <2>1, <2>2 DEF Ordered
<1>8. Undecided(p, v)
    BY <1>1, <1>2, <1>3 DEF Undecided
<1> QED BY <1>2, <1>7, <1>8 DEF p

LEMMA DecisionsStay ==
    ASSUME QueueOK, VerdictsOK,
           UNCHANGED decisions, requests' \in requests..MaxRequests
    PROVE  QueueOK' /\ VerdictsOK'
<1>1. QueueOK'
    BY DEF QueueOK, decisions, Ordered, Undecided
<1>2. VerdictsOK'
    BY ControlAssumption DEF VerdictsOK, DecidedOnce, decisions
<1> QED BY <1>1, <1>2

\* The oldest decided approval goes or, if there is none, the oldest: an approval
\* that is dropped stays without a verdict.
LEMMA SubmitKeeps ==
    ASSUME QueueOK, VerdictsOK, requests < MaxRequests, requests' = requests + 1,
           NEW action, NEW payload, Submit(action, payload),
           NewApproval(submitted + 1, action, payload) \in Entry
    PROVE  QueueOK' /\ VerdictsOK'
<1> DEFINE a == NewApproval(submitted + 1, action, payload)
<1>1. /\ queue \in Seq(Entry) /\ Len(queue) <= MaxEntries
      /\ Ordered(queue, submitted) /\ Undecided(queue, verdicts)
    BY DEF QueueOK
<1>2. /\ Pruned(queue) \in Seq(Entry) /\ Len(Pruned(queue)) < MaxEntries
      /\ Ordered(Pruned(queue), submitted) /\ Undecided(Pruned(queue), verdicts)
    BY <1>1, PrunedIs, WithoutKeeps
<1>3. /\ submitted \in Nat /\ submitted + 1 \in Approvals
      /\ verdicts[submitted + 1] = "none"
    BY ControlAssumption DEF VerdictsOK, Approvals
<1>4. a \in Entry /\ a.id = submitted + 1 /\ a.status = "pending"
    BY DEF NewApproval
<1>5. queue' = Append(Pruned(queue), a) /\ submitted' = submitted + 1
    BY DEF Submit, Submitted
<1> HIDE DEF a
<1>6. /\ Append(Pruned(queue), a) \in Seq(Entry)
      /\ Ordered(Append(Pruned(queue), a), submitted + 1)
      /\ Undecided(Append(Pruned(queue), a), verdicts)
    BY <1>2, <1>3, <1>4, AppendKeeps
<1>7. Len(Append(Pruned(queue), a)) <= MaxEntries
  <2>1. Len(Append(Pruned(queue), a)) = Len(Pruned(queue)) + 1 /\ Len(Pruned(queue)) \in Nat
      BY <1>2, <1>4, AppendProperties, LenProperties
  <2> QED BY <2>1, <1>2, ControlAssumption
<1>8. UNCHANGED <<verdicts, carried>>
    BY DEF Submit
<1>9. QueueOK'
  <2>1. Ordered(queue, submitted)' = Ordered(queue', submitted')
      BY DEF Ordered
  <2>2. Undecided(queue, verdicts)' = Undecided(queue', verdicts')
      BY DEF Undecided
  <2> QED BY <1>5, <1>6, <1>7, <1>8, <2>1, <2>2 DEF QueueOK
<1>10. VerdictsOK'
  <2>1. requests' \in 0..MaxRequests /\ submitted' \in 0..requests'
      BY <1>5, ControlAssumption DEF VerdictsOK
  <2>2. DecidedOnce'
      BY <1>8 DEF VerdictsOK, DecidedOnce
  <2> QED BY <1>3, <1>5, <1>8, <2>1, <2>2 DEF VerdictsOK, Approvals
<1> QED BY <1>9, <1>10

LEMMA DecidedIs ==
    ASSUME NEW q \in Seq(Entry), NEW id \in Approvals,
           NEW verdict \in {"approved", "rejected"}, NEW last, NEW v, NEW w,
           Ordered(q, last), Undecided(q, v),
           v \in [Approvals -> {"none", "approved", "rejected"}],
           w = [v EXCEPT ![id] = verdict]
    PROVE  /\ Decided(q, id, verdict) \in Seq(Entry)
           /\ Len(Decided(q, id, verdict)) = Len(q)
           /\ Ordered(Decided(q, id, verdict), last)
           /\ Undecided(Decided(q, id, verdict), w)
<1> DEFINE p == Decided(q, id, verdict)
<1>1. Len(q) \in Nat /\ DOMAIN q = 1..Len(q)
    BY LenProperties
<1>2. \A i \in 1..Len(q) : q[i] \in Entry
    BY ElementOfSeq
<1>3. p = [i \in 1..Len(q) |->
             IF q[i].id = id THEN [q[i] EXCEPT !.status = verdict] ELSE q[i]]
    BY <1>1 DEF Decided
<1>4. \A a \in Entry :
        LET b == [a EXCEPT !.status = verdict]
        IN  b \in Entry /\ b.id = a.id /\ b.status = verdict
  <2> SUFFICES ASSUME NEW a \in Entry
               PROVE  /\ [a EXCEPT !.status = verdict] \in Entry
                      /\ [a EXCEPT !.status = verdict].id = a.id
                      /\ [a EXCEPT !.status = verdict].status = verdict
      OBVIOUS
  <2>1. CASE a \in EntryOf({"kv_cache_change"}, [kv : KVs])
      BY <2>1 DEF Entry, EntryOf
  <2>2. CASE a \in EntryOf({"large_context_increase"}, [context : Nat])
      BY <2>2 DEF Entry, EntryOf
  <2>3. CASE a \in EntryOf({"server_restart", "emergency_stop"}, {<< >>})
      BY <2>3 DEF Entry, EntryOf
  <2> QED BY <2>1, <2>2, <2>3 DEF Entry
<1>5. \A i \in 1..Len(q) : /\ p[i] \in Entry /\ p[i].id = q[i].id
                           /\ p[i].status = IF q[i].id = id THEN verdict ELSE q[i].status
    BY <1>2, <1>3, <1>4
<1>6. p \in Seq(Entry) /\ Len(p) = Len(q)
  <2>1. p \in [1..Len(q) -> Entry]
    <3>1. p = [i \in 1..Len(q) |-> p[i]]
        BY <1>3
    <3> HIDE DEF p
    <3> QED BY <1>5, <3>1
  <2> HIDE DEF p
  <2>2. p \in Seq(Entry)
      BY <1>1, <2>1
  <2> QED BY <1>1, <2>1, <2>2, LenProperties
<1> HIDE DEF p
<1>7. Ordered(p, last)
    BY <1>5, <1>6 DEF Ordered
<1>8. Undecided(p, w)
  <2>1. \A a \in Approvals : w[a] = IF a = id THEN verdict ELSE v[a]
      OBVIOUS
  <2>2. \A i \in 1..Len(q) : q[i].id \in Approvals
      BY <1>2 DEF Entry, EntryOf
  <2> QED BY <1>5, <1>6, <2>1, <2>2 DEF Undecided
<1> QED BY <1>6, <1>7, <1>8 DEF p

\* Who decides decides on an approval that is pending, and so has no verdict yet.
LEMMA OpenIs ==
    ASSUME QueueOK, NEW id, NEW a \in Open(queue, id)
    PROVE  /\ a \in Entry /\ a.id = id /\ id \in Approvals /\ id <= submitted
           /\ a \in Pending(queue) /\ verdicts[id] = "none"
<1>1. Len(queue) \in Nat /\ queue \in Seq(Entry)
    BY LenProperties DEF QueueOK
<1>2. PICK i \in 1..Len(queue) : queue[i] = a
    BY <1>1, LenProperties DEF Open, ToSet
<1>3. a \in Entry
    BY <1>1, <1>2, ElementOfSeq
<1>4. a.id = id /\ a.status = "pending" /\ a \in Pending(queue)
    BY DEF Open, Pending
<1>5. id \in Approvals
    BY <1>3, <1>4 DEF Entry, EntryOf
<1> QED BY <1>2, <1>3, <1>4, <1>5 DEF QueueOK, Ordered, Undecided

LEMMA DecideKeeps ==
    ASSUME QueueOK, VerdictsOK, requests < MaxRequests, requests' = requests + 1,
           NEW id, NEW a \in Open(queue, id),
           \/ Decide(a, "approved") /\ carried' = [carried EXCEPT ![id] = @ + 1]
           \/ Decide(a, "rejected") /\ carried' = carried
    PROVE  QueueOK' /\ VerdictsOK'
<1>1. /\ queue \in Seq(Entry) /\ Len(queue) <= MaxEntries
      /\ Ordered(queue, submitted) /\ Undecided(queue, verdicts)
    BY DEF QueueOK
<1>2. a.id = id /\ id \in Approvals /\ id <= submitted /\ verdicts[id] = "none"
    BY OpenIs
<1>3. verdicts \in [Approvals -> {"none", "approved", "rejected"}]
    BY DEF VerdictsOK
<1>4. PICK verdict \in {"approved", "rejected"} :
        /\ queue' = Decided(queue, id, verdict)
        /\ verdicts' = [verdicts EXCEPT ![id] = verdict]
        /\ submitted' = submitted
        /\ verdict = "approved" => carried' = [carried EXCEPT ![id] = @ + 1]
        /\ verdict = "rejected" => carried' = carried
    BY <1>2 DEF Decide
<1>5. QueueOK'
  <2>1. /\ queue' \in Seq(Entry) /\ Len(queue') = Len(queue)
        /\ Ordered(queue', submitted) /\ Undecided(queue', verdicts')
      BY <1>1, <1>2, <1>3, <1>4, DecidedIs
  <2>2. Ordered(queue, submitted)' = Ordered(queue', submitted')
      BY DEF Ordered
  <2>3. Undecided(queue, verdicts)' = Undecided(queue', verdicts')
      BY DEF Undecided
  <2> QED BY <1>1, <1>4, <2>1, <2>2, <2>3 DEF QueueOK
<1>6. VerdictsOK'
  <2>1. requests' \in 0..MaxRequests /\ submitted' \in 0..requests'
      BY <1>4, ControlAssumption DEF VerdictsOK
  <2>2. verdicts' \in [Approvals -> {"none", "approved", "rejected"}]
      BY <1>2, <1>3, <1>4
  <2>3. carried' \in [Approvals -> Nat]
      BY <1>2, <1>4 DEF VerdictsOK
  <2>4. DecidedOnce'
      BY <1>2, <1>3, <1>4 DEF VerdictsOK, DecidedOnce
  <2>5. \A b \in Approvals : b > submitted' => verdicts'[b] = "none"
    <3>1. \A b \in Approvals : b > submitted => b # id
        BY <1>2, ControlAssumption DEF VerdictsOK, Approvals
    <3> QED BY <1>2, <1>3, <1>4, <3>1 DEF VerdictsOK
  <2> QED BY <2>1, <2>2, <2>3, <2>4, <2>5 DEF VerdictsOK, Approvals
<1> QED BY <1>5, <1>6

-----------------------------------------------------------------------------
(* Settings, agents and handlers *)

LEMMA ChangedIs ==
    ASSUME SettingsOK, NEW data,
           "context" \in DOMAIN data => data.context \in Nat,
           "guarded" \in DOMAIN data => data.guarded \subseteq CriticalActions,
           settings' = Changed(data)
    PROVE  SettingsOK'
<1>1. {"context", "guarded"} \subseteq DOMAIN settings
    BY SettingsAssumption DEF SettingsOK
<1> QED BY <1>1 DEF SettingsOK, Changed

LEMMA PayloadFits ==
    ASSUME NEW a \in Entry
    PROVE  /\ "context" \in DOMAIN a.payload => a.payload.context \in Nat
           /\ "guarded" \notin DOMAIN a.payload
           /\ "kv" \in DOMAIN a.payload => a.action = "kv_cache_change"
           /\ "context" \in DOMAIN a.payload => a.action = "large_context_increase"
<1>1. CASE a \in EntryOf({"kv_cache_change"}, [kv : KVs])
    BY <1>1 DEF EntryOf
<1>2. CASE a \in EntryOf({"large_context_increase"}, [context : Nat])
    BY <1>2 DEF EntryOf
<1>3. CASE a \in EntryOf({"server_restart", "emergency_stop"}, {<< >>})
  <2>1. a.payload = << >>
      BY <1>3 DEF EntryOf
  <2>2. DOMAIN << >> = {}
      OBVIOUS
  <2> QED BY <2>1, <2>2
<1> QED BY <1>1, <1>2, <1>3 DEF Entry


LEMMA NewEntriesFit ==
    ASSUME NEW id \in Approvals
    PROVE  /\ \A data \in Updates : ChangesKv(data)
                => NewApproval(id, "kv_cache_change", [kv |-> data.kv]) \in Entry
           /\ \A data \in Updates : GrowsALot(data)
                => NewApproval(id, "large_context_increase", [context |-> data.context])
                     \in Entry
           /\ \A action \in {"server_restart", "emergency_stop"} :
                NewApproval(id, action, << >>) \in Entry
<1>1. ASSUME NEW data \in Updates, ChangesKv(data)
      PROVE  NewApproval(id, "kv_cache_change", [kv |-> data.kv]) \in Entry
  <2>1. data.kv \in KVs
      BY <1>1 DEF KVs, ChangesKv
  <2> QED BY <2>1 DEF NewApproval, Entry, EntryOf
<1>2. ASSUME NEW data \in Updates, GrowsALot(data)
      PROVE  NewApproval(id, "large_context_increase", [context |-> data.context]) \in Entry
  <2>1. data.context \in Nat
      BY <1>2, SettingsAssumption DEF GrowsALot
  <2> QED BY <2>1 DEF NewApproval, Entry, EntryOf
<1>3. ASSUME NEW action \in {"server_restart", "emergency_stop"}
      PROVE  NewApproval(id, action, << >>) \in Entry
    BY DEF NewApproval, Entry, EntryOf
<1> QED BY <1>1, <1>2, <1>3

-----------------------------------------------------------------------------
(* Agents and handlers *)

\* Handlers other than spawn_agent leave the agents alone, or remove some.
Handles ==
    /\ agents' \subseteq agents
    /\ \/ call' = call
       \/ \E c \in Clients, op \in Ops \ {"spawn"} : \E on : Begins(c, op, on)
    /\ UNCHANGED <<spawned, crashes>>

LEMMA CallsChange ==
    ASSUME CallsOK, NEW c \in Clients, NEW op \in Ops, NEW on, Begins(c, op, on),
           c = Chat => op # "spawn"
    PROVE  /\ CallsOK'
           /\ op = "spawn" => Spawning' \subseteq Spawning \cup {c}
           /\ op # "spawn" => Spawning' = Spawning \ {c}
<1>1. /\ call' = [d \in Clients |-> call'[d]]
      /\ \A d \in Clients : call'[d] = IF d = c THEN [op |-> op, on |-> on] ELSE call[d]
    BY DEF CallsOK, Begins
<1>2. Chat \in Clients
    BY ControlAssumption
<1>3. CallsOK'
    BY <1>1, <1>2 DEF CallsOK, Waiting
<1>4. Spawning' = {d \in Others : call'[d].op = "spawn"}
    BY DEF Spawning, Others, Waiting
<1>5. \A d \in Others : call'[d].op = IF d = c THEN op ELSE call[d].op
    BY <1>1 DEF Others
<1>6. op = "spawn" => Spawning' \subseteq Spawning \cup {c}
    BY <1>4, <1>5 DEF Spawning, Waiting
<1>7. op # "spawn" => Spawning' = Spawning \ {c}
    BY <1>4, <1>5 DEF Spawning, Waiting
<1> QED BY <1>3, <1>6, <1>7

LEMMA FiniteParts ==
    ASSUME IsFiniteSet(agents)
    PROVE  /\ IsFiniteSet(Others) /\ IsFiniteSet(Spawning) /\ IsFiniteSet(Api(agents))
           /\ Cardinality(Others) \in Nat /\ Cardinality(Spawning) \in Nat
           /\ Cardinality(Api(agents)) \in Nat
           /\ Cardinality(Spawning) <= Cardinality(Others)
           /\ Cardinality(Api(agents)) <= Cardinality(agents)
           /\ Cardinality(agents) \in Nat
<1>1. Others \subseteq Clients /\ Spawning \subseteq Others /\ Api(agents) \subseteq agents
    BY DEF Others, Spawning, Api
<1> QED BY <1>1, ControlAssumption, FS_Subset, FS_CardinalityType

LEMMA HandlesKeeps ==
    ASSUME AgentsOK, CallsOK, LimitOK, Handles,
           presets' \in [Presets -> {"new", "there", "gone"}]
    PROVE  AgentsOK' /\ CallsOK' /\ LimitOK'
<1>1. IsFiniteSet(agents) /\ IsFiniteSet(agents')
    BY FS_Subset DEF AgentsOK, Handles
<1>2. AgentsOK'
    BY <1>1 DEF AgentsOK, Handles
<1>3. CallsOK' /\ Spawning' \subseteq Spawning
  <2>1. CASE call' = call
      BY <2>1 DEF CallsOK, Spawning, Waiting
  <2>2. CASE \E c \in Clients, op \in Ops \ {"spawn"} : \E on : Begins(c, op, on)
    <3>1. PICK c \in Clients, op \in Ops \ {"spawn"} : \E on : Begins(c, op, on)
        BY <2>2
    <3>2. PICK on : Begins(c, op, on)
        BY <3>1
    <3> QED BY <3>2, CallsChange
  <2> QED BY <2>1, <2>2 DEF Handles
<1>4. /\ Cardinality(Spawning') <= Cardinality(Spawning)
      /\ Cardinality(Spawning') \in Nat
    BY <1>1, <1>3, FiniteParts, FS_Subset, FS_CardinalityType
<1>5. /\ Cardinality(Api(agents')) <= Cardinality(Api(agents))
      /\ Cardinality(Api(agents')) \in Nat
  <2>1. Api(agents') \subseteq Api(agents)
      BY DEF Api, Handles
  <2> QED BY <1>1, <2>1, FiniteParts, FS_Subset, FS_CardinalityType
<1>6. LimitOK'
  <2>1. Api(agents)' = Api(agents') /\ Others' = Others
      BY DEF Api, Others
  <2> QED BY <1>1, <1>4, <1>5, <2>1, FiniteParts, ControlAssumption DEF LimitOK
<1> QED BY <1>2, <1>3, <1>6

\* An agent is entered with a number that no other has, and the smallest slot.
LEMMA RegisterIs ==
    ASSUME AgentsOK, NEW by \in {"api", "tool"},
           NEW slots, slots \subseteq ParallelSlots, slots # {}, Register(by, slots)
    PROVE  \E a \in Agent : /\ agents' = agents \cup {a} /\ a \notin agents
                            /\ a.id = spawned + 1 /\ a.by = by
                            /\ \A b \in agents' : b.id = spawned + 1 => b = a
<1> DEFINE least == CHOOSE s \in slots : \A t \in slots : s <= t
           a == [id |-> spawned + 1, by |-> by, slot |-> least]
<1>1. least \in ParallelSlots
    BY Smallest, ControlAssumption
<1> HIDE DEF least
<1>2. a \in Agent /\ a.id = spawned + 1 /\ a.by = by
    BY <1>1 DEF Agent, AgentsOK
<1>3. agents' = agents \cup {a}
    BY DEF Register, least
<1> HIDE DEF a
<1>4. \A b \in agents : b.id # spawned + 1
    BY DEF AgentsOK
<1> QED BY <1>2, <1>3, <1>4

LEMMA RegisterKeeps ==
    ASSUME AgentsOK, NEW by \in {"api", "tool"},
           NEW slots, slots \subseteq ParallelSlots, slots # {}, Register(by, slots),
           UNCHANGED <<presets, crashes>>
    PROVE  /\ AgentsOK'
           /\ by = "tool" => Api(agents') = Api(agents)
           /\ by = "api" => Cardinality(Api(agents')) = Cardinality(Api(agents)) + 1
<1>1. PICK a \in Agent : /\ agents' = agents \cup {a} /\ a \notin agents
                         /\ a.id = spawned + 1 /\ a.by = by
                         /\ \A b \in agents' : b.id = spawned + 1 => b = a
    BY RegisterIs
<1>2. spawned' = spawned + 1 /\ spawned \in Nat
    BY DEF Register, AgentsOK
<1>3. IsFiniteSet(agents')
    BY <1>1, FS_AddElement DEF AgentsOK
<1>4. \A b \in agents' : b.id \in 1..spawned'
    BY <1>1, <1>2 DEF AgentsOK
<1>5. \A b, c \in agents' : b.id = c.id => b = c
    BY <1>1, <1>2 DEF AgentsOK
<1>6. AgentsOK'
    BY <1>1, <1>2, <1>3, <1>4, <1>5 DEF AgentsOK
<1>7. by = "tool" => Api(agents') = Api(agents)
    BY <1>1 DEF Api
<1>8. by = "api" => Cardinality(Api(agents')) = Cardinality(Api(agents)) + 1
  <2>1. by = "api" => Api(agents') = Api(agents) \cup {a} /\ a \notin Api(agents)
      BY <1>1 DEF Api
  <2>2. IsFiniteSet(Api(agents))
      BY FiniteParts DEF AgentsOK
  <2> QED BY <2>1, <2>2, FS_AddElement
<1> QED BY <1>6, <1>7, <1>8

\* spawn_agent counts the agents; then it waits for the slots.
LEMMA SpawnAgentKeeps ==
    ASSUME AgentsOK, CallsOK, LimitOK, NEW c \in Others, NEW p,
           Room, Begins(c, "spawn", p), UNCHANGED <<presets, agents, spawned, crashes>>
    PROVE  AgentsOK' /\ CallsOK' /\ LimitOK'
<1>1. AgentsOK'
    BY DEF AgentsOK
<1>2. CallsOK'
    BY CallsChange DEF Ops, Others
<1>3. /\ Cardinality(Api(agents)) < MaxSlots
      /\ Cardinality(Api(agents)) \in Nat /\ Cardinality(Others) \in Nat
    BY FiniteParts, ControlAssumption DEF AgentsOK, Room
<1>4. Cardinality(Spawning') <= Cardinality(Others) /\ Cardinality(Spawning') \in Nat
  <2>1. IsFiniteSet(Others) /\ Spawning' \subseteq Others
      BY FiniteParts DEF AgentsOK, Spawning, Others
  <2> QED BY <2>1, FS_Subset, FS_CardinalityType
<1>5. Api(agents)' = Api(agents) /\ Others' = Others
    BY DEF Api, Others
<1>6. LimitOK'
    BY <1>3, <1>4, <1>5, ControlAssumption DEF LimitOK
<1> QED BY <1>1, <1>2, <1>6

\* The agent takes the place of the handler that spawns it.
LEMMA SpawnKeeps ==
    ASSUME AgentsOK, CallsOK, LimitOK, NEW c \in Clients, NEW busy, Spawn(c, busy)
    PROVE  AgentsOK' /\ CallsOK' /\ LimitOK'
<1>1. c \in Spawning /\ c \in Others
    BY DEF CallsOK, Spawn, Spawning, Others
<1>2. /\ AgentsOK'
      /\ Cardinality(Api(agents')) = Cardinality(Api(agents)) + 1
    BY RegisterKeeps DEF Spawn, IdleSlots
<1>3. CallsOK' /\ Spawning' = Spawning \ {c}
    BY CallsChange DEF Spawn, Answers, Begins, Idle, Ops
<1>4. IsFiniteSet(agents)
    BY DEF AgentsOK
<1>5. Cardinality(Spawning') = Cardinality(Spawning) - 1
    BY <1>1, <1>3, <1>4, FiniteParts, FS_RemoveElement
<1>6. Api(agents)' = Api(agents') /\ Others' = Others
    BY DEF Api, Others
<1>7. LimitOK'
    BY <1>2, <1>4, <1>5, <1>6, FiniteParts, ControlAssumption DEF LimitOK
<1> QED BY <1>2, <1>3, <1>7

LEMMA ToolSpawnKeeps ==
    ASSUME AgentsOK, CallsOK, LimitOK,
           NEW slots, slots \subseteq ParallelSlots, slots # {}, Register("tool", slots),
           UNCHANGED <<presets, call, crashes>>
    PROVE  AgentsOK' /\ CallsOK' /\ LimitOK'
<1>1. AgentsOK' /\ Api(agents') = Api(agents)
    BY RegisterKeeps
<1>2. CallsOK' /\ Spawning' = Spawning
    BY DEF CallsOK, Spawning, Waiting
<1>3. Api(agents)' = Api(agents') /\ Others' = Others
    BY DEF Api, Others
<1> QED BY <1>1, <1>2, <1>3 DEF LimitOK

\* At the start, and after a crash, nobody has an agent or waits for one.
LEMMA NobodyFits ==
    /\ \A c \in Clients : Nobody[c] = Idle
    /\ Nobody = [c \in Clients |-> Nobody[c]]
    /\ Idle.op = "idle"
    BY DEF Nobody, Idle

Fresh == agents = {} /\ call = Nobody

LEMMA FreshIs == Fresh => CallsOK /\ LimitOK /\ IsFiniteSet(agents)
<1> SUFFICES ASSUME Fresh PROVE CallsOK /\ LimitOK /\ IsFiniteSet(agents)
    OBVIOUS
<1> USE DEF Fresh
<1>1. CallsOK
    BY NobodyFits, ControlAssumption DEF CallsOK, Waiting, Ops
<1>2. Spawning = {} /\ Api(agents) = {}
    BY NobodyFits DEF Spawning, Others, Waiting, Api
<1>3. IsFiniteSet(agents)
    BY FS_EmptySet
<1>4. LimitOK
    BY <1>2, <1>3, FS_EmptySet, FiniteParts, ControlAssumption DEF LimitOK
<1> QED BY <1>1, <1>3, <1>4

-----------------------------------------------------------------------------
(* The steps of the control plane *)

LEMMA AsksIs ==
    ASSUME VerdictsOK, NEW c \in Clients, Asks(c)
    PROVE  /\ requests' \in requests..MaxRequests
           /\ requests < MaxRequests /\ requests' = requests + 1
           /\ submitted + 1 \in Approvals
    BY ControlAssumption DEF VerdictsOK, Asks, Approvals

LEMMA SettingsStay ==
    ASSUME SettingsOK, settings' = settings
    PROVE  SettingsOK'
    BY DEF SettingsOK

\* A step that decides nothing, changes no setting and spawns no agent.
LEMMA QuietKeeps ==
    ASSUME ControlInv, Handles, UNCHANGED <<decisions, settings>>,
           requests' \in requests..MaxRequests,
           presets' \in [Presets -> {"new", "there", "gone"}]
    PROVE  ControlInv'
    BY DecisionsStay, SettingsStay, HandlesKeeps DEF ControlInv

LEMMA SubmittingKeeps ==
    ASSUME ControlInv, NEW c \in Clients, Asks(c),
           NEW action, NEW payload, Submit(action, payload),
           NewApproval(submitted + 1, action, payload) \in Entry,
           UNCHANGED <<settings, presets, agents, call, spawned, crashes>>
    PROVE  ControlInv'
<1>1. QueueOK' /\ VerdictsOK'
    BY AsksIs, SubmitKeeps DEF ControlInv
<1>2. Handles
    BY DEF Handles
<1> QED BY <1>1, <1>2, SettingsStay, HandlesKeeps DEF ControlInv, AgentsOK

LEMMA UpdateSettingsKeeps ==
    ASSUME ControlInv, NEW c \in Clients, NEW data \in Updates, UpdateSettings(c, data)
    PROVE  ControlInv'
<1>1. CASE QueueKvChange(c, data)
    BY <1>1, AsksIs, NewEntriesFit, SubmittingKeeps DEF QueueKvChange, ControlInv
<1>2. CASE QueueLargeContext(c, data)
    BY <1>2, AsksIs, NewEntriesFit, SubmittingKeeps DEF QueueLargeContext, ControlInv
<1>3. CASE ApplyUpdate(c, data)
  <2>1. SettingsOK'
      BY <1>3, SettingsAssumption, ChangedIs DEF ApplyUpdate, ControlInv
  <2>2. Handles
      BY <1>3 DEF ApplyUpdate, Handles
  <2>3. QueueOK' /\ VerdictsOK'
      BY <1>3, AsksIs, DecisionsStay DEF ApplyUpdate, ControlInv
  <2> QED BY <1>3, <2>1, <2>2, <2>3, HandlesKeeps DEF ApplyUpdate, ControlInv, AgentsOK
<1> QED BY <1>1, <1>2, <1>3 DEF UpdateSettings

LEMMA QueueActionKeeps ==
    ASSUME ControlInv, NEW c \in Clients,
           NEW action \in {"server_restart", "emergency_stop"}, QueueAction(c, action)
    PROVE  ControlInv'
    BY AsksIs, NewEntriesFit, SubmittingKeeps DEF QueueAction, ControlInv

LEMMA RestartServerKeeps ==
    ASSUME ControlInv, NEW c \in Clients, RestartServer(c)
    PROVE  ControlInv'
<1>1. Handles
    BY DEF RestartServer, Handles, Ops
<1> QED BY <1>1, AsksIs, QuietKeeps DEF RestartServer, ControlInv, AgentsOK

LEMMA EmergencyStopKeeps ==
    ASSUME ControlInv, NEW c \in Clients, EmergencyStop(c)
    PROVE  ControlInv'
<1>1. Handles
    BY DEF EmergencyStop, Handles, Ops
<1> QED BY <1>1, AsksIs, QuietKeeps DEF EmergencyStop, ControlInv, AgentsOK

LEMMA ApproveActionKeeps ==
    ASSUME ControlInv, NEW c \in Clients, NEW id, ApproveAction(c, id)
    PROVE  ControlInv'
<1>1. PICK a \in Open(queue, id) :
        Decide(a, "approved") /\ CarryOut(c, a)
    BY DEF ApproveAction
<1>2. carried' = [carried EXCEPT ![id] = @ + 1] /\ Asks(c)
      /\ UNCHANGED <<presets, spawned, crashes>>
    BY DEF ApproveAction
<1>3. QueueOK' /\ VerdictsOK'
    BY <1>1, <1>2, AsksIs, DecideKeeps DEF ControlInv
<1>4. a \in Entry
    BY OpenIs DEF ControlInv
<1>5. SettingsOK'
    BY <1>1, <1>4, PayloadFits, ChangedIs DEF CarryOut, ControlInv
<1>6. Handles
  <2>1. agents' \subseteq agents
      BY <1>1 DEF CarryOut
  <2>2. \/ call' = call
        \/ \E op \in Ops \ {"spawn"} : \E on : Begins(c, op, on)
    <3>1. {"restart", "stop"} \subseteq Ops \ {"spawn"}
        BY DEF Ops
    <3>2. CASE a.action = "server_restart"
        BY <1>1, <3>1, <3>2 DEF CarryOut
    <3>3. CASE a.action = "emergency_stop"
        BY <1>1, <3>1, <3>3 DEF CarryOut
    <3>4. CASE a.action \notin {"server_restart", "emergency_stop"}
        BY <1>1, <3>4 DEF CarryOut
    <3> QED BY <3>2, <3>3, <3>4
  <2> QED BY <1>2, <2>1, <2>2 DEF Handles
<1> QED BY <1>2, <1>3, <1>5, <1>6, HandlesKeeps DEF ControlInv, AgentsOK

LEMMA RejectActionKeeps ==
    ASSUME ControlInv, NEW c \in Clients, NEW id, RejectAction(c, id)
    PROVE  ControlInv'
<1>1. PICK a \in Open(queue, id) : Decide(a, "rejected")
    BY DEF RejectAction
<1>2. Asks(c) /\ UNCHANGED <<carried, settings, presets, agents, call, spawned, crashes>>
    BY DEF RejectAction
<1>3. QueueOK' /\ VerdictsOK'
    BY <1>1, <1>2, AsksIs, DecideKeeps DEF ControlInv
<1>4. Handles
    BY <1>2 DEF Handles
<1> QED BY <1>2, <1>3, <1>4, SettingsStay, HandlesKeeps DEF ControlInv, AgentsOK

LEMMA PresetKeeps ==
    ASSUME ControlInv, NEW c \in Clients, NEW p \in Presets,
           CreatePreset(c, p) \/ DeletePreset(c, p)
    PROVE  ControlInv'
<1>1. presets' \in [Presets -> {"new", "there", "gone"}]
    BY DEF CreatePreset, DeletePreset, ControlInv, AgentsOK
<1>2. Handles
    BY DEF CreatePreset, DeletePreset, Handles
<1> QED BY <1>1, <1>2, AsksIs, QuietKeeps DEF CreatePreset, DeletePreset, ControlInv

LEMMA AgentRequestKeeps ==
    ASSUME ControlInv, NEW c \in Others, NEW agent \in agents,
           DestroyAgent(c, agent) \/ ChatWithAgent(c, agent)
    PROVE  ControlInv'
<1>1. Handles
  <2>1. CASE DestroyAgent(c, agent)
      BY <2>1 DEF DestroyAgent, Handles
  <2>2. CASE ChatWithAgent(c, agent)
      BY <2>2 DEF ChatWithAgent, Handles, Ops, Others
  <2> QED BY <2>1, <2>2
<1> QED BY <1>1, AsksIs, QuietKeeps
        DEF DestroyAgent, ChatWithAgent, ControlInv, AgentsOK, Others

LEMMA RequestKeeps ==
    ASSUME ControlInv, NEW c \in Others, Request(c)
    PROVE  ControlInv'
<1> c \in Clients
    BY DEF Others
<1>1. CASE Save(c)
    BY <1>1, UpdateSettingsKeeps DEF Save
<1>2. CASE Restart(c)
    BY <1>2, QueueActionKeeps, RestartServerKeeps DEF Restart
<1>3. CASE ActionEmergencyStop(c)
    BY <1>3, QueueActionKeeps, EmergencyStopKeeps DEF ActionEmergencyStop
<1>4. CASE ApproveSelected(c)
    BY <1>4, ApproveActionKeeps DEF ApproveSelected
<1>5. CASE RejectSelected(c)
    BY <1>5, RejectActionKeeps DEF RejectSelected
<1>6. CASE OnPresetCreated(c)
    BY <1>6, PresetKeeps DEF OnPresetCreated
<1>7. CASE DeleteSelectedPreset(c)
    BY <1>7, PresetKeeps DEF DeleteSelectedPreset, ShownPresets
<1>8. CASE SpawnSelected(c)
  <2>1. PICK p : SpawnAgent(c, p)
      BY <1>8 DEF SpawnSelected
  <2>2. QueueOK' /\ VerdictsOK' /\ SettingsOK'
      BY <2>1, AsksIs, DecisionsStay, SettingsStay DEF SpawnAgent, ControlInv
  <2> QED BY <2>1, <2>2, SpawnAgentKeeps DEF SpawnAgent, ControlInv
<1>9. CASE KillSelected(c)
  <2>1. Handles
      BY <1>9 DEF KillSelected, Handles
  <2> QED BY <1>9, <2>1, AsksIs, QuietKeeps DEF KillSelected, ControlInv, AgentsOK
<1>10. CASE ByApi(c)
    BY <1>10, AgentRequestKeeps DEF ByApi
<1> QED BY <1>1, <1>2, <1>3, <1>4, <1>5, <1>6, <1>7, <1>8, <1>9, <1>10 DEF Request

LEMMA AnswerKeeps ==
    ASSUME ControlInv, NEW c \in Clients, NEW busy, Answer(c, busy)
    PROVE  ControlInv'
<1>1. requests' = requests => requests' \in requests..MaxRequests
    BY ControlAssumption DEF ControlInv, VerdictsOK
<1>2. CASE Spawn(c, busy)
  <2>1. QueueOK' /\ VerdictsOK' /\ SettingsOK'
      BY <1>1, <1>2, DecisionsStay, SettingsStay DEF Spawn, ControlInv
  <2> QED BY <1>2, <2>1, SpawnKeeps DEF ControlInv
<1>3. CASE ServerAnswers(c) \/ SpawnFails(c) \/ Generated(c)
  <2>1. Begins(c, "idle", None) /\ "idle" \in Ops \ {"spawn"}
      BY <1>3 DEF ServerAnswers, SpawnFails, Generated, Answers, Begins, Idle, Ops
  <2>2. Handles
      BY <1>3, <2>1 DEF ServerAnswers, SpawnFails, Generated, Handles
  <2> QED BY <1>1, <1>3, <2>2, QuietKeeps
          DEF ServerAnswers, SpawnFails, Generated, ControlInv, AgentsOK
<1>4. CASE Generate(c)
  <2>1. Handles
      BY <1>4 DEF Generate, Handles, Ops
  <2> QED BY <1>1, <1>4, <2>1, QuietKeeps DEF Generate, ControlInv, AgentsOK
<1> QED BY <1>2, <1>3, <1>4 DEF Answer

LEMMA CrashKeeps ==
    ASSUME ControlInv, Crash
    PROVE  ControlInv'
<1>1. QueueOK'
  <2>1. << >> \in Seq(Entry) /\ Len(<< >>) = 0
      OBVIOUS
  <2> QED BY <2>1, ControlAssumption DEF Crash, QueueOK, Ordered, Undecided
<1>2. VerdictsOK'
    BY DEF Crash, VerdictsOK, ControlInv, DecidedOnce
<1>3. SettingsOK'
    BY SettingsAssumption DEF Crash, SettingsOK
<1>4. CallsOK' /\ LimitOK' /\ IsFiniteSet(agents')
  <2>1. Fresh'
      BY DEF Crash, Fresh, Nobody
  <2>2. (CallsOK /\ LimitOK /\ IsFiniteSet(agents))'
      BY <2>1, FreshIs, PTL
  <2> QED BY <2>2
<1>5. AgentsOK'
    BY <1>4 DEF Crash, AgentsOK, ControlInv
<1> QED BY <1>1, <1>2, <1>3, <1>4, <1>5 DEF ControlInv

-----------------------------------------------------------------------------
(* Requests that wait *)

\* The second pair lets no request wait that did not wait in the first, and none
\* wait twice.
NoMoreWait(p, l, q, m) ==
    \A n \in Names : /\ SomeWaits(n, q, m) => SomeWaits(n, p, l)
                     /\ OneWaits(n, p, l) => OneWaits(n, q, m)

LEMMA TailWaits ==
    ASSUME NEW p, NEW l, InLine(l), l # << >>
    PROVE  InLine(Tail(l)) /\ NoMoreWait(p, l, p, Tail(l))
<1> DEFINE m == Tail(l)
<1>1. /\ Len(l) \in Nat /\ m \in Seq(AnyJob) /\ Len(m) = Len(l) - 1
      /\ \A i \in 1..Len(m) : m[i] = l[i + 1]
    BY HeadTailProperties, LenProperties DEF InLine
<1> HIDE DEF m
<1>2. InLine(m)
    BY <1>1 DEF InLine
<1>3. \A i \in 1..Len(m) : i + 1 \in 1..Len(l)
    BY <1>1
<1>4. \A n : \A i \in 1..Len(m) : WaitsInLine(n, m, i) => WaitsInLine(n, l, i + 1)
    BY <1>1 DEF WaitsInLine
<1>5. ASSUME NEW n PROVE SomeWaits(n, p, m) => SomeWaits(n, p, l)
    BY <1>3, <1>4 DEF SomeWaits
<1>6. ASSUME NEW n, OneWaits(n, p, l) PROVE OneWaits(n, p, m)
  <2>1. ASSUME NEW i \in 1..Len(m), NEW k \in 1..Len(m),
               WaitsInLine(n, m, i), WaitsInLine(n, m, k)
        PROVE  i = k
    <3>1. i + 1 = k + 1
        BY <1>3, <1>4, <1>6, <2>1 DEF OneWaits
    <3> QED BY <1>1, <3>1
  <2>2. \A j \in p, i \in 1..Len(m) : Name(j) = n => ~ WaitsInLine(n, m, i)
      BY <1>3, <1>4, <1>6 DEF OneWaits
  <2> QED BY <1>6, <2>1, <2>2 DEF OneWaits
<1> QED BY <1>2, <1>5, <1>6 DEF NoMoreWait, m

\* What the holder of the lock does next, it waits no more.
LEMMA FirstWaits ==
    ASSUME NEW p, NEW l, InLine(l), l # << >>, NEW job \in AnyJob, job.at # "waiting"
    PROVE  /\ InLine([l EXCEPT ![1] = job])
           /\ NoMoreWait(p, l, p, [l EXCEPT ![1] = job])
           /\ \A n : OneWaits(n, p, l) /\ WaitsInLine(n, l, 1)
                       => ~ SomeWaits(n, p, [l EXCEPT ![1] = job])
<1> DEFINE m == [l EXCEPT ![1] = job]
<1>1. Len(l) \in Nat /\ 1 \in 1..Len(l)
    BY LenProperties, EmptySeq DEF InLine
<1>2. m \in Seq(AnyJob) /\ Len(m) = Len(l)
    BY <1>1, ExceptSeq DEF InLine
<1>3. m[1] = job /\ \A i \in 1..Len(m) : i # 1 => m[i] = l[i]
    BY <1>1, ExceptSeq DEF InLine
<1> HIDE DEF m
<1>4. InLine(m)
    BY <1>2, <1>3 DEF InLine
<1>5. \A n : \A i \in 1..Len(m) : WaitsInLine(n, m, i) => WaitsInLine(n, l, i) /\ i # 1
    BY <1>3 DEF WaitsInLine
<1>6. ASSUME NEW n PROVE SomeWaits(n, p, m) => SomeWaits(n, p, l)
    BY <1>2, <1>5 DEF SomeWaits
<1>7. ASSUME NEW n, OneWaits(n, p, l) PROVE OneWaits(n, p, m)
    BY <1>2, <1>5, <1>7 DEF OneWaits
<1>8. ASSUME NEW n, OneWaits(n, p, l), WaitsInLine(n, l, 1) PROVE ~ SomeWaits(n, p, m)
    BY <1>1, <1>2, <1>5, <1>8 DEF OneWaits, SomeWaits
<1> QED BY <1>4, <1>6, <1>7, <1>8 DEF NoMoreWait, m

LEMMA AppendWaits ==
    ASSUME NEW l, InLine(l), NEW job \in AnyJob, job.at = "waiting"
    PROVE  /\ InLine(Append(l, job))
           /\ Len(Append(l, job)) = Len(l) + 1 /\ Len(l) \in Nat
           /\ \A n : \A i \in 1..(Len(l) + 1) :
                WaitsInLine(n, Append(l, job), i)
                  => IF i = Len(l) + 1 THEN Name(job) = n ELSE WaitsInLine(n, l, i)
<1> DEFINE m == Append(l, job)
<1>1. /\ Len(l) \in Nat /\ m \in Seq(AnyJob) /\ Len(m) = Len(l) + 1
      /\ \A i \in 1..Len(l) : m[i] = l[i]
      /\ m[Len(l) + 1] = job
    BY AppendProperties, LenProperties DEF InLine
<1> HIDE DEF m
<1>2. \A i \in 1..(Len(l) + 1) : i = Len(l) + 1 \/ i \in 1..Len(l)
    BY <1>1
<1>3. InLine(m)
    BY <1>1, <1>2 DEF InLine
<1>4. \A n : \A i \in 1..(Len(l) + 1) :
        WaitsInLine(n, m, i) => IF i = Len(l) + 1 THEN Name(job) = n ELSE WaitsInLine(n, l, i)
    BY <1>1, <1>2 DEF WaitsInLine
<1> QED BY <1>1, <1>3, <1>4 DEF m

\* From the check of llama.cpp to the end of the line.
LEMMA MovedWaits ==
    ASSUME NEW p, NEW l, InLine(l), NEW job \in p, job \in Waits
    PROVE  InLine(Append(l, job)) /\ NoMoreWait(p, l, p \ {job}, Append(l, job))
<1> DEFINE m == Append(l, job)
<1>1. job \in AnyJob /\ job.at = "waiting"
    BY DEF Waits, AnyJob, JobOf
<1>2. InLine(m) /\ Len(m) = Len(l) + 1 /\ Len(l) \in Nat
    BY <1>1, AppendWaits
<1>3. \A n : \A i \in 1..Len(m) :
        WaitsInLine(n, m, i)
          => \/ i = Len(l) + 1 /\ Name(job) = n
             \/ i \in 1..Len(l) /\ WaitsInLine(n, l, i)
    BY <1>1, <1>2, AppendWaits
<1> HIDE DEF m
<1>4. ASSUME NEW n PROVE SomeWaits(n, p \ {job}, m) => SomeWaits(n, p, l)
    BY <1>3 DEF SomeWaits
<1>5. ASSUME NEW n, OneWaits(n, p, l) PROVE OneWaits(n, p \ {job}, m)
  <2>1. \A j, k \in p \ {job} : Name(j) = n /\ Name(k) = n => j = k
      BY <1>5 DEF OneWaits
  <2>2. ASSUME NEW i \in 1..Len(m), NEW k \in 1..Len(m),
               WaitsInLine(n, m, i), WaitsInLine(n, m, k)
        PROVE  i = k
      BY <1>3, <1>5, <2>2 DEF OneWaits
  <2>3. ASSUME NEW j \in p \ {job}, NEW i \in 1..Len(m), Name(j) = n
        PROVE  ~ WaitsInLine(n, m, i)
      BY <1>3, <1>5, <2>3 DEF OneWaits
  <2> QED BY <2>1, <2>2, <2>3 DEF OneWaits
<1> QED BY <1>2, <1>4, <1>5 DEF NoMoreWait, m

\* A job that is nobody's task does not matter, wherever it waits.
LEMMA OthersWait ==
    ASSUME NEW p, NEW l, InLine(l), NEW job \in AnyJob,
           job.task = None, job.at = "waiting"
    PROVE  /\ InLine(Append(l, job))
           /\ NoMoreWait(p, l, p, Append(l, job))
           /\ NoMoreWait(p, l, p \cup {job}, l)
<1> DEFINE m == Append(l, job)
<1>1. InLine(m) /\ Len(m) = Len(l) + 1 /\ Len(l) \in Nat
    BY AppendWaits
<1>2. \A n \in Names : n # Name(job)
  <2>1. \A t \in Tasks : t # None
      BY ConsoleAssumption DEF Tasks, None
  <2> QED BY <2>1 DEF Names, Name
<1>3. \A n \in Names : \A i \in 1..Len(m) :
        WaitsInLine(n, m, i) => i \in 1..Len(l) /\ WaitsInLine(n, l, i)
    BY <1>1, <1>2, AppendWaits
<1> HIDE DEF m
<1>4. NoMoreWait(p, l, p, m)
    BY <1>3 DEF NoMoreWait, OneWaits, SomeWaits
<1>5. NoMoreWait(p, l, p \cup {job}, l)
    BY <1>2 DEF NoMoreWait, OneWaits, SomeWaits
<1> QED BY <1>1, <1>4, <1>5 DEF m

LEMMA FewerWait ==
    ASSUME NEW p, NEW l, NEW q, q \subseteq p
    PROVE  NoMoreWait(p, l, q, l)
    BY DEF NoMoreWait, OneWaits, SomeWaits

\* A client that is gone makes no difference to what waits.
LEMMA GoneIs ==
    ASSUME NEW job \in AnyJob
    PROVE  /\ Gone(job) \in AnyJob /\ Name(Gone(job)) = Name(job) /\ Gone(job).at = job.at
           /\ job \in Waits => Gone(job) \in Waits
    BY DEF Gone, Name, AnyJob, Waits, JobOf

LEMMA DesertedWaits ==
    ASSUME LineOK, Deserted
    PROVE  LineOK' /\ NoMoreWait(preflight, line, preflight', line')
<1>1. InLine(line) /\ preflight \subseteq Waits /\ Waits \subseteq AnyJob
    BY DEF LineOK, Waits, AnyJob, JobOf
<1>2. Len(line) \in Nat /\ DOMAIN line = 1..Len(line) /\ \A i \in 1..Len(line) : line[i] \in AnyJob
    BY <1>1, LenProperties, ElementOfSeq DEF InLine
<1>3. line' = [i \in 1..Len(line) |-> Gone(line[i])]
    BY <1>2 DEF Deserted
<1>4. \A i \in 1..Len(line) : /\ line'[i] \in AnyJob /\ Name(line'[i]) = Name(line[i])
                              /\ line'[i].at = line[i].at
    BY <1>2, <1>3, GoneIs
<1>5. line' \in Seq(AnyJob) /\ Len(line') = Len(line)
  <2>1. line' \in [1..Len(line) -> AnyJob]
      BY <1>3, <1>4
  <2> QED BY <1>2, <2>1, LenProperties
<1>6. InLine(line')
    BY <1>1, <1>4, <1>5 DEF InLine
<1>7. preflight' = {Gone(job) : job \in preflight}
    BY DEF Deserted
<1>8. preflight' \subseteq Waits
    BY <1>1, <1>7, GoneIs
<1>9. LineOK'
    BY <1>6, <1>8 DEF LineOK, InLine
<1>10. \A j \in preflight' : \E k \in preflight : j = Gone(k) /\ Name(j) = Name(k)
    BY <1>1, <1>7, GoneIs
<1>11. \A n : \A i \in 1..Len(line') : WaitsInLine(n, line', i) => WaitsInLine(n, line, i)
    BY <1>4, <1>5 DEF WaitsInLine
<1>12. ASSUME NEW n PROVE SomeWaits(n, preflight', line') => SomeWaits(n, preflight, line)
    BY <1>5, <1>10, <1>11 DEF SomeWaits
<1>13. ASSUME NEW n, OneWaits(n, preflight, line) PROVE OneWaits(n, preflight', line')
  <2>1. ASSUME NEW j \in preflight', NEW k \in preflight', Name(j) = n, Name(k) = n
        PROVE  j = k
      BY <1>10, <1>13, <2>1 DEF OneWaits
  <2>2. \A i, k \in 1..Len(line') :
          WaitsInLine(n, line', i) /\ WaitsInLine(n, line', k) => i = k
      BY <1>5, <1>11, <1>13 DEF OneWaits
  <2>3. \A j \in preflight', i \in 1..Len(line') : Name(j) = n => ~ WaitsInLine(n, line', i)
      BY <1>5, <1>10, <1>11, <1>13 DEF OneWaits
  <2> QED BY <2>1, <2>2, <2>3 DEF OneWaits
<1> QED BY <1>9, <1>12, <1>13 DEF NoMoreWait

-----------------------------------------------------------------------------
(* The steps of the chat *)

LEMMA NumbersFit ==
    /\ MaxTasks \in Nat /\ Tasks \subseteq Nat /\ None \notin Tasks
    BY ConsoleAssumption DEF Tasks, None

LEMMA NowIs ==
    ASSUME tab \in Tab, NEW at \in Places, Now(at)
    PROVE  tab' \in Tab /\ tab'.at = at /\ tab'.task = tab.task
    BY DEF Tab, Now

LEMMA ReadyIs == Ready \in Tab /\ Ready.at \notin Streams
    BY DEF Ready, Tab, Streams, Places

\* The task of the tab is one that was typed.
LEMMA TaskIs ==
    ASSUME TabOK, tab.at \in Streams
    PROVE  /\ tab.task \in Tasks /\ tab.task # None /\ Place(tab.task) = tab.at
           /\ tab.task \in 1..typed /\ typed \in Nat
<1>1. tab.task \in 1..typed /\ typed \in 0..MaxTasks
    BY DEF TabOK
<1> QED BY <1>1, NumbersFit DEF Tasks, Place

\* Fewer requests fit as well, and anything fits where nothing more is to be sent.
LEMMA FewerFit ==
    ASSUME NEW place, NEW starts \in Nat, NEW fails \in Nat,
           NEW q \in BOOLEAN, NEW r \in BOOLEAN, Fits(place, starts, fails, q, r),
           NEW q2 \in BOOLEAN, NEW r2 \in BOOLEAN, q2 => q, r2 => r
    PROVE  /\ Fits(place, starts, fails, q2, r2)
           /\ \A other : other \notin Streams \cup {"untyped"} => Fits(other, starts, fails, q2, r2)
BY DEF Fits, Count, Streams

\* A sending that failed is owed another one.
LEMMA FailureFits ==
    ASSUME NEW place \in {"connecting", "stream", "request"},
           NEW starts \in Nat, NEW fails \in Nat,
           NEW q \in BOOLEAN, NEW r \in BOOLEAN, Fits(place, starts, fails, q, r)
    PROVE  /\ Fits("second", starts, fails + 1, q, r)
           /\ place = "stream" => Fits("fallback", starts, fails + 1, q, r)
BY DEF Fits, Count, Streams

\* It is paid by a request that waits, and this by a start.
LEMMA SendingFits ==
    ASSUME NEW starts \in Nat, NEW fails \in Nat, NEW q \in BOOLEAN, NEW r \in BOOLEAN
    PROVE  /\ Fits("fallback", starts, fails, q, r) => Fits("request", starts, fails, TRUE, r)
           /\ Fits("second", starts, fails, q, r) => Fits("retry", starts, fails, q, TRUE)
           /\ Fits("untyped", starts, fails, q, r) => Fits("connecting", starts, fails, q, r)
           /\ Fits("connecting", starts, fails, q, r)
                => Fits("stream", starts, fails, q, r) /\ Fits("stream", starts + 1, fails, q, r)
BY DEF Fits, Count, Streams

LEMMA StartFits ==
    ASSUME NEW place, NEW starts \in Nat, NEW fails \in Nat,
           NEW q \in BOOLEAN, NEW r \in BOOLEAN, Fits(place, starts, fails, q, r)
    PROVE  /\ q => Fits(place, starts + 1, fails, FALSE, r)
           /\ r => Fits(place, starts + 1, fails, q, FALSE)
BY DEF Fits, Count, Streams

\* What waits after a step that lets no more wait.
LEMMA WaitsAfter ==
    ASSUME NEW t \in Tasks, Once(t, preflight, line),
           NoMoreWait(preflight, line, preflight', line')
    PROVE  /\ OneWaits(<<t, "request">>, preflight, line)'
           /\ OneWaits(<<t, "retry">>, preflight, line)'
           /\ SomeWaits(<<t, "request">>, preflight, line)'
                => SomeWaits(<<t, "request">>, preflight, line)
           /\ SomeWaits(<<t, "retry">>, preflight, line)'
                => SomeWaits(<<t, "retry">>, preflight, line)
<1>1. ASSUME NEW n \in Names, OneWaits(n, preflight, line)
      PROVE  /\ OneWaits(n, preflight, line)'
             /\ SomeWaits(n, preflight, line)' => SomeWaits(n, preflight, line)
  <2>1. OneWaits(n, preflight', line')
      BY <1>1 DEF NoMoreWait
  <2>2. SomeWaits(n, preflight', line') => SomeWaits(n, preflight, line)
      BY DEF NoMoreWait
  <2>3. OneWaits(n, preflight, line)' = OneWaits(n, preflight', line')
      BY DEF OneWaits, WaitsInLine, Name
  <2>4. SomeWaits(n, preflight, line)' = SomeWaits(n, preflight', line')
      BY DEF SomeWaits, WaitsInLine, Name
  <2> QED BY <2>1, <2>2, <2>3, <2>4
<1>2. <<t, "request">> \in Names /\ <<t, "retry">> \in Names
    BY DEF Names, Retried
<1> QED BY <1>1, <1>2 DEF Once

\* What waits is a matter of fact.
LEMMA WaitsOrNot ==
    ASSUME NEW n
    PROVE  SomeWaits(n, preflight, line) \in BOOLEAN /\ SomeWaits(n, preflight, line)' \in BOOLEAN
    BY DEF SomeWaits

\* A step after which no more wait, for a task whose failures and starts stay as they
\* are, and that the tab is where it was with, or has done with.
LEMMA SameOnce ==
    ASSUME ChatInv, NEW t \in Tasks,
           NoMoreWait(preflight, line, preflight', line'),
           UNCHANGED <<started[t], failed[t]>>,
           Place(t)' = Place(t) \/ Place(t)' \notin Streams \cup {"untyped"}
    PROVE  Once(t, preflight, line)'
<1>1. Once(t, preflight, line)
    BY DEF ChatInv, OnceOK
<1>2. started[t] \in Nat /\ failed[t] \in Nat
    BY DEF ChatInv, TabOK
<1> DEFINE q == SomeWaits(<<t, "request">>, preflight, line)
           r == SomeWaits(<<t, "retry">>, preflight, line)
<1>3. q \in BOOLEAN /\ r \in BOOLEAN /\ q' \in BOOLEAN /\ r' \in BOOLEAN
    BY WaitsOrNot
<1>4. (q' => q) /\ (r' => r)
    BY <1>1, WaitsAfter
<1>5. Fits(Place(t), started[t], failed[t], q, r)
    BY <1>1 DEF Once
<1> HIDE DEF q, r
<1>6. Fits(Place(t)', started[t], failed[t], q', r')
    BY <1>2, <1>3, <1>4, <1>5, FewerFit
<1>7. Fits(Place(t)', started'[t], failed'[t], q', r')
    BY <1>6
<1> QED BY <1>1, <1>7, WaitsAfter DEF Once, q, r

\* A step that starts nothing, and after which the tab is where it was, or has
\* nothing more to send.
CalmTab == /\ tab' \in Tab
           /\ \/ tab'.at = tab.at /\ tab'.task = tab.task
              \/ tab'.at \notin Streams

LEMMA CalmKeeps ==
    ASSUME ChatInv, CalmTab, UNCHANGED <<typed, started, failed>>, LineOK',
           NoMoreWait(preflight, line, preflight', line')
    PROVE  ChatInv'
<1>1. TabOK'
    BY DEF TabOK, CalmTab, ChatInv
<1>2. ASSUME NEW t \in Tasks PROVE Once(t, preflight, line)'
  <2>1. Place(t)' = Place(t) \/ Place(t)' \notin Streams \cup {"untyped"}
    <3>1. CASE t > typed
        BY <3>1 DEF Place
    <3>2. CASE ~ (t > typed) /\ tab'.at = tab.at /\ tab'.task = tab.task
        BY <3>2 DEF Place
    <3>3. CASE ~ (t > typed) /\ tab'.at \notin Streams
        BY <3>3 DEF Place, CalmTab, Tab, Places, Requests, Retried, Streams
    <3> QED BY <3>1, <3>2, <3>3 DEF CalmTab
  <2> QED BY <2>1, SameOnce
<1> QED BY <1>1, <1>2 DEF ChatInv, OnceOK

LEMMA SameWait == NoMoreWait(preflight, line, preflight, line)
    BY DEF NoMoreWait

LEMMA LineStays ==
    ASSUME LineOK, UNCHANGED <<preflight, line>>
    PROVE  LineOK' /\ NoMoreWait(preflight, line, preflight', line')
    BY SameWait DEF LineOK, InLine

LEMMA ChatStays ==
    ASSUME ChatInv, UNCHANGED chat
    PROVE  ChatInv'
<1>1. CalmTab
    BY DEF CalmTab, chat, tui, ChatInv, TabOK
<1> QED BY <1>1, LineStays, CalmKeeps DEF chat, tui, ChatInv

\* What the tab sends, and what it reads without its coming to a failure.
LEMMA SendTaskKeeps ==
    ASSUME ChatInv, SendTask
    PROVE  ChatInv'
<1>1. /\ typed \in Nat /\ typed < MaxTasks /\ typed' = typed + 1 /\ typed' \in Tasks
      /\ tab.at = "ready"
      /\ tab' = [at |-> "connecting", task |-> typed', result |-> FALSE]
      /\ UNCHANGED <<preflight, line, started, failed>>
    BY NumbersFit DEF SendTask, Types, ChatInv, TabOK, Tasks
<1>2. TabOK'
    BY <1>1, NumbersFit DEF TabOK, Tab, Places, ChatInv, Tasks, Streams
<1>3. tab'.at = "connecting" /\ tab'.task = typed'
    BY <1>1
<1>4. NoMoreWait(preflight, line, preflight', line')
    BY <1>1, LineStays DEF ChatInv
<1>5. ASSUME NEW t \in Tasks PROVE Once(t, preflight, line)'
  <2>1. t \in Nat
      BY NumbersFit
  <2>2. CASE t = typed'
    <3>1. Place(t) = "untyped" /\ Place(t)' = "connecting"
        BY <1>1, <1>3, <2>1, <2>2 DEF Place
    <3> DEFINE q == SomeWaits(<<t, "request">>, preflight, line)
               r == SomeWaits(<<t, "retry">>, preflight, line)
    <3>2. Fits("untyped", started[t], failed[t], q, r) /\ started[t] \in Nat /\ failed[t] \in Nat
        BY <3>1 DEF ChatInv, OnceOK, Once, TabOK
    <3>3. q \in BOOLEAN /\ r \in BOOLEAN
        BY WaitsOrNot
    <3>4. q' = q /\ r' = r
        BY <1>1 DEF SomeWaits, WaitsInLine, Name
    <3> HIDE DEF q, r
    <3>5. Fits("connecting", started[t], failed[t], q, r)
        BY <3>2, <3>3, SendingFits
    <3>6. Fits(Place(t)', started'[t], failed'[t], q', r')
        BY <1>1, <3>1, <3>4, <3>5
    <3>7. Once(t, preflight, line)
        BY DEF ChatInv, OnceOK
    <3> QED BY <1>4, <3>6, <3>7, WaitsAfter DEF Once, q, r
  <2>3. CASE t # typed'
    <3>1. t > typed' <=> t > typed
        BY <1>1, <2>1, <2>3
    <3>2. Place(t)' = Place(t) \/ Place(t)' = "ready"
        BY <1>3, <2>3, <3>1 DEF Place
    <3> QED BY <1>1, <1>4, <3>2, SameOnce DEF Streams
  <2> QED BY <2>2, <2>3
<1>6. LineOK'
    BY <1>1, LineStays DEF ChatInv
<1> QED BY <1>2, <1>5, <1>6 DEF ChatInv, OnceOK

LEMMA SendDirectKeeps ==
    ASSUME ChatInv, SendDirect
    PROVE  ChatInv'
<1>1. CalmTab
    BY NowIs DEF SendDirect, CalmTab, ChatInv, TabOK, Streams, Places, Requests
<1> DEFINE job == Job("direct", None, "waiting")
<1>2. job \in Waits /\ job \in AnyJob /\ job.task = None /\ job.at = "waiting"
    BY DEF Job, Waits, AnyJob, JobOf, Requests
<1> HIDE DEF job
<1>3. preflight' = preflight \cup {job} /\ line' = line
    BY DEF SendDirect, job
<1>4. LineOK'
    BY <1>2, <1>3 DEF LineOK, InLine, ChatInv
<1>5. NoMoreWait(preflight, line, preflight', line')
    BY <1>2, <1>3, OthersWait DEF ChatInv, LineOK
<1> QED BY <1>1, <1>4, <1>5, CalmKeeps DEF SendDirect

LEMMA CommandKeeps ==
    ASSUME ChatInv, SendRestart \/ Restarted
    PROVE  ChatInv'
<1>1. CalmTab
  <2>1. CASE SendRestart
      BY <2>1, NowIs DEF SendRestart, CalmTab, ChatInv, TabOK, Streams, Places
  <2>2. CASE Restarted
      BY <2>2, ReadyIs DEF Restarted, CalmTab
  <2> QED BY <2>1, <2>2
<1> QED BY <1>1, LineStays, CalmKeeps DEF SendRestart, Restarted, ChatInv

LEMMA ReadResultKeeps ==
    ASSUME ChatInv, ReadResult
    PROVE  ChatInv'
<1>1. CalmTab
    BY DEF ReadResult, CalmTab, ChatInv, TabOK, Tab
<1> QED BY <1>1, LineStays, CalmKeeps DEF ReadResult, Read, ChatInv

\* A sending of the task has failed: the tab is about to send it again.
Fails(at) ==
    /\ tab.at \in {"connecting", "stream", "request"}
    /\ at = "second" \/ (at = "fallback" /\ tab.at = "stream")
    /\ Now(at)
    /\ failed' = [failed EXCEPT ![tab.task] = @ + 1]
    /\ UNCHANGED <<typed, started>>

LEMMA FailsKeeps ==
    ASSUME ChatInv, NEW at, Fails(at), LineOK',
           NoMoreWait(preflight, line, preflight', line')
    PROVE  ChatInv'
<1>1. at \in Streams /\ at \in Places /\ tab.at \in Streams
    BY DEF Fails, Streams, Places
<1>2. tab' \in Tab /\ tab'.at = at /\ tab'.task = tab.task
    BY <1>1, NowIs DEF Fails, ChatInv, TabOK
<1>3. tab.task \in Tasks /\ Place(tab.task) = tab.at /\ tab.task \in 1..typed
    BY <1>1, TaskIs DEF ChatInv
<1>4. TabOK'
    BY <1>2, <1>3 DEF Fails, ChatInv, TabOK
<1>5. ASSUME NEW t \in Tasks PROVE Once(t, preflight, line)'
  <2>1. started[t] \in Nat /\ failed[t] \in Nat /\ started'[t] = started[t]
      BY DEF Fails, ChatInv, TabOK
  <2>2. CASE t = tab.task
    <3>1. Place(t)' = at
        BY <1>2, <1>3, <2>2, NumbersFit DEF Place, Fails, ChatInv, TabOK
    <3> DEFINE q == SomeWaits(<<t, "request">>, preflight, line)
               r == SomeWaits(<<t, "retry">>, preflight, line)
    <3>2. Once(t, preflight, line)
        BY DEF ChatInv, OnceOK
    <3>3. q \in BOOLEAN /\ r \in BOOLEAN /\ q' \in BOOLEAN /\ r' \in BOOLEAN
        BY WaitsOrNot
    <3>4. (q' => q) /\ (r' => r)
        BY <3>2, WaitsAfter
    <3>5. Fits(tab.at, started[t], failed[t], q, r)
        BY <1>3, <2>2, <3>2 DEF Once
    <3> HIDE DEF q, r
    <3>6. Fits(at, started[t], failed[t] + 1, q, r)
        BY <2>1, <3>3, <3>5, FailureFits DEF Fails
    <3>7. Fits(at, started[t], failed[t] + 1, q', r')
        BY <2>1, <3>3, <3>4, <3>6, FewerFit
    <3>8. failed'[t] = failed[t] + 1
        BY <2>2 DEF Fails, ChatInv, TabOK
    <3>9. Fits(Place(t)', started'[t], failed'[t], q', r')
        BY <2>1, <3>1, <3>7, <3>8
    <3> QED BY <3>2, <3>9, WaitsAfter DEF Once, q, r
  <2>3. CASE t # tab.task
    <3>1. failed'[t] = failed[t] /\ Place(t)' = Place(t)
        BY <1>2, <2>3 DEF Fails, Place, ChatInv, TabOK
    <3> QED BY <2>1, <3>1, SameOnce
  <2> QED BY <2>2, <2>3
<1> QED BY <1>4, <1>5 DEF ChatInv, OnceOK

LEMMA RaisesKeeps ==
    ASSUME ChatInv, Raises, UNCHANGED <<typed, started>>, LineOK',
           NoMoreWait(preflight, line, preflight', line')
    PROVE  ChatInv'
<1>1. CASE tab.at \in {"connecting", "stream", "request"}
  <2>1. Fails("second")
      BY <1>1 DEF Raises, Fails
  <2> QED BY <2>1, FailsKeeps
<1>2. CASE tab.at \notin {"connecting", "stream", "request"}
  <2>1. CalmTab /\ UNCHANGED failed
      BY <1>2, ReadyIs DEF Raises, CalmTab
  <2> QED BY <2>1, CalmKeeps
<1> QED BY <1>1, <1>2

LEMMA ReadFailureKeeps ==
    ASSUME ChatInv, ReadClose \/ ReadError
    PROVE  ChatInv'
<1>1. UNCHANGED <<typed, preflight, line, started>> /\ tab.at = "stream"
    BY DEF ReadClose, ReadError, Read
<1>2. CASE tab' = Ready /\ failed' = failed
  <2>1. CalmTab
      BY <1>2, ReadyIs DEF CalmTab
  <2> QED BY <1>1, <1>2, <2>1, LineStays, CalmKeeps DEF ChatInv
<1>3. CASE Now("fallback") /\ failed' = [failed EXCEPT ![tab.task] = @ + 1]
  <2>1. Fails("fallback")
      BY <1>1, <1>3 DEF Fails
  <2> QED BY <1>1, <2>1, LineStays, FailsKeeps DEF ChatInv
<1>4. CASE Raises
    BY <1>1, <1>4, LineStays, RaisesKeeps DEF ChatInv
<1> QED BY <1>2, <1>3, <1>4 DEF ReadClose, ReadError

LEMMA BreaksKeeps ==
    ASSUME ChatInv, StreamBreaks \/ RequestBreaks
    PROVE  ChatInv'
    BY DesertedWaits, RaisesKeeps DEF StreamBreaks, RequestBreaks, ChatInv

\* The task is asked for by a request of which none waits yet.
LEMMA FallbackKeeps ==
    ASSUME ChatInv, Fallback
    PROVE  ChatInv'
<1> DEFINE kind == IF tab.at = "fallback" THEN "request" ELSE "retry"
           job  == Job(kind, tab.task, "waiting")
<1>1. /\ tab.at \in {"fallback", "second"} /\ tab.at \in Streams
      /\ kind \in Retried /\ kind \in Requests /\ kind \in Places
    BY DEF Fallback, Streams, Retried, Requests, Places
<1>2. tab.task \in Tasks /\ Place(tab.task) = tab.at /\ tab.task \in 1..typed
    BY <1>1, TaskIs DEF ChatInv
<1>3. Now(kind) /\ preflight' = preflight \cup {job} /\ UNCHANGED <<line, typed, failed, started>>
    BY DEF Fallback
<1>4. tab.at = "fallback" <=> kind = "request"
    OBVIOUS
<1>5. kind = "request" \/ kind = "retry"
    OBVIOUS
<1> HIDE DEF kind
<1>6. job \in Waits /\ Name(job) = <<tab.task, kind>>
    BY <1>1, <1>2 DEF Job, Waits, JobOf, Name
<1> HIDE DEF job
<1>7. LineOK'
    BY <1>3, <1>6 DEF LineOK, InLine, ChatInv
<1>8. tab' \in Tab /\ tab'.at = kind /\ tab'.task = tab.task
    BY <1>1, <1>3, NowIs DEF ChatInv, TabOK
<1>9. TabOK'
    BY <1>2, <1>3, <1>8 DEF TabOK, ChatInv
<1>10. ASSUME NEW t \in Tasks PROVE Once(t, preflight, line)'
  <2>1. Once(t, preflight, line) /\ started[t] \in Nat /\ failed[t] \in Nat
      BY DEF ChatInv, OnceOK, TabOK
  <2> DEFINE request == <<t, "request">>
             retry   == <<t, "retry">>
             q == SomeWaits(request, preflight, line)
             r == SomeWaits(retry, preflight, line)
  <2>2. q \in BOOLEAN /\ r \in BOOLEAN /\ q' \in BOOLEAN /\ r' \in BOOLEAN
      BY WaitsOrNot
  <2>3. Fits(Place(t), started[t], failed[t], q, r)
      BY <2>1 DEF Once
  \* A name other than the job's.
  <2>4. ASSUME NEW n, n # Name(job), OneWaits(n, preflight, line)
        PROVE  /\ OneWaits(n, preflight, line)'
               /\ SomeWaits(n, preflight, line)' = SomeWaits(n, preflight, line)
    <3>1. \A j \in preflight' : Name(j) = n => j \in preflight
        BY <1>3, <2>4
    <3>2. OneWaits(n, preflight, line)' = OneWaits(n, preflight', line)
        BY <1>3 DEF OneWaits, WaitsInLine, Name
    <3>3. SomeWaits(n, preflight, line)' = SomeWaits(n, preflight', line)
        BY <1>3 DEF SomeWaits, WaitsInLine, Name
    <3>4. OneWaits(n, preflight', line)
        BY <2>4, <3>1 DEF OneWaits
    <3>5. SomeWaits(n, preflight', line) = SomeWaits(n, preflight, line)
        BY <1>3, <3>1 DEF SomeWaits
    <3> QED BY <3>2, <3>3, <3>4, <3>5
  \* The job's name, of which none waited.
  <2>5. ASSUME NEW n, n = Name(job), ~ SomeWaits(n, preflight, line)
        PROVE  OneWaits(n, preflight, line)' /\ SomeWaits(n, preflight, line)'
    <3>1. OneWaits(n, preflight, line)' = OneWaits(n, preflight', line)
        BY <1>3 DEF OneWaits, WaitsInLine, Name
    <3>2. SomeWaits(n, preflight, line)' = SomeWaits(n, preflight', line)
        BY <1>3 DEF SomeWaits, WaitsInLine, Name
    <3>3. OneWaits(n, preflight', line) /\ SomeWaits(n, preflight', line)
        BY <1>3, <2>5 DEF OneWaits, SomeWaits
    <3> QED BY <3>1, <3>2, <3>3
  <2>6. OneWaits(request, preflight, line) /\ OneWaits(retry, preflight, line)
      BY <2>1 DEF Once
  <2>7. CASE t = tab.task /\ kind = "request"
    <3>1. request = Name(job) /\ retry # Name(job) /\ Place(t) = "fallback"
        BY <1>2, <1>4, <1>6, <2>7
    <3>2. ~ q
        BY <2>3, <3>1 DEF Fits
    <3>3. Place(t)' = "request"
        BY <1>2, <1>3, <1>8, <2>7, NumbersFit DEF Place, ChatInv, TabOK
    <3>4. /\ OneWaits(request, preflight, line)' /\ OneWaits(retry, preflight, line)'
          /\ q' = TRUE /\ r' = r
        BY <2>4, <2>5, <2>6, <3>1, <3>2
    <3> HIDE DEF q, r
    <3>5. Fits("request", started[t], failed[t], TRUE, r)
        BY <2>1, <2>2, <2>3, <3>1, SendingFits
    <3>6. Fits(Place(t)', started'[t], failed'[t], q', r')
        BY <1>3, <3>3, <3>4, <3>5
    <3> QED BY <3>4, <3>6 DEF Once, q, r
  <2>8. CASE t = tab.task /\ kind = "retry"
    <3>1. retry = Name(job) /\ request # Name(job) /\ Place(t) = "second"
        BY <1>1, <1>2, <1>4, <1>6, <2>8
    <3>2. ~ r
        BY <2>3, <3>1 DEF Fits, Streams
    <3>3. Place(t)' = "retry"
        BY <1>2, <1>3, <1>8, <2>8, NumbersFit DEF Place, ChatInv, TabOK
    <3>4. /\ OneWaits(request, preflight, line)' /\ OneWaits(retry, preflight, line)'
          /\ q' = q /\ r' = TRUE
        BY <2>4, <2>5, <2>6, <3>1, <3>2
    <3> HIDE DEF q, r
    <3>5. Fits("retry", started[t], failed[t], q, TRUE)
        BY <2>1, <2>2, <2>3, <3>1, SendingFits
    <3>6. Fits(Place(t)', started'[t], failed'[t], q', r')
        BY <1>3, <3>3, <3>4, <3>5
    <3> QED BY <3>4, <3>6 DEF Once, q, r
  <2>9. CASE t # tab.task
    <3>1. request # Name(job) /\ retry # Name(job)
        BY <1>6, <2>9
    <3>2. Place(t)' = Place(t)
        BY <1>3, <1>8, <2>9 DEF Place
    <3>3. /\ OneWaits(request, preflight, line)' /\ OneWaits(retry, preflight, line)'
          /\ q' = q /\ r' = r
        BY <2>4, <2>6, <3>1
    <3> HIDE DEF q, r
    <3>4. Fits(Place(t)', started'[t], failed'[t], q', r')
        BY <1>3, <2>3, <3>2, <3>3
    <3> QED BY <3>3, <3>4 DEF Once, q, r
  <2> QED BY <1>5, <2>7, <2>8, <2>9
<1> QED BY <1>7, <1>9, <1>10 DEF ChatInv, OnceOK

\* The endpoints: the websocket refuses or starts the task, the requests wait for
\* the lock.
LEMMA StreamOpensKeeps ==
    ASSUME ChatInv, StreamIsBusy \/ StreamStarts
    PROVE  ChatInv'
<1> DEFINE task == tab.task
           job  == Job("socket", tab.task, "running")
<1>1. tab' \in Tab /\ tab'.at = "stream" /\ tab'.task = tab.task
    BY NowIs DEF StreamIsBusy, StreamStarts, ChatInv, TabOK, Places
<1>2. tab.at = "connecting" /\ UNCHANGED <<typed, failed, preflight>>
    BY DEF StreamIsBusy, StreamStarts
<1>3. task \in Tasks /\ task # None /\ Place(task) = "connecting" /\ task \in 1..typed
    BY <1>2, TaskIs DEF ChatInv, Streams
<1>4. job \in AnyJob /\ job.at = "running"
    BY <1>3 DEF Job, AnyJob, JobOf
<1>5. \/ UNCHANGED <<line, started>>
      \/ line = << >> /\ line' = <<job>> /\ started' = [started EXCEPT ![task] = @ + 1]
    BY <1>3 DEF StreamIsBusy, StreamStarts, Starts
<1> HIDE DEF job
<1>6. LineOK' /\ NoMoreWait(preflight, line, preflight', line')
  <2>1. CASE UNCHANGED line
      BY <1>2, <2>1, LineStays DEF ChatInv
  <2>2. CASE line = << >> /\ line' = <<job>>
    <3>1. line' \in Seq(AnyJob) /\ Len(line') = 1 /\ line'[1] = job /\ Len(line) = 0
        BY <1>4, <2>2
    <3>2. LineOK'
        BY <1>2, <3>1 DEF LineOK, InLine, ChatInv
    <3>3. \A n : \A i \in 1..Len(line') : ~ WaitsInLine(n, line', i)
        BY <1>4, <3>1 DEF WaitsInLine
    <3>4. NoMoreWait(preflight, line, preflight, line')
        BY <3>1, <3>3 DEF NoMoreWait, OneWaits, SomeWaits
    <3> QED BY <1>2, <3>2, <3>4
  <2> QED BY <1>5, <2>1, <2>2
<1>7. TabOK'
    BY <1>1, <1>2, <1>3, <1>5 DEF TabOK, ChatInv
<1>8. ASSUME NEW t \in Tasks PROVE Once(t, preflight, line)'
  <2>1. Once(t, preflight, line) /\ started[t] \in Nat /\ failed[t] \in Nat
      BY DEF ChatInv, OnceOK, TabOK
  <2>2. CASE t = task
    <3>1. Place(t)' = "stream" /\ Place(t) = "connecting"
        BY <1>1, <1>2, <1>3, <2>2, NumbersFit DEF Place, ChatInv, TabOK
    <3> DEFINE q == SomeWaits(<<t, "request">>, preflight, line)
               r == SomeWaits(<<t, "retry">>, preflight, line)
    <3>2. q \in BOOLEAN /\ r \in BOOLEAN /\ q' \in BOOLEAN /\ r' \in BOOLEAN
        BY WaitsOrNot
    <3>3. (q' => q) /\ (r' => r)
        BY <1>6, <2>1, WaitsAfter
    <3>4. Fits("connecting", started[t], failed[t], q, r)
        BY <2>1, <3>1 DEF Once
    <3> HIDE DEF q, r
    <3>5. /\ Fits("stream", started[t], failed[t], q, r)
          /\ Fits("stream", started[t] + 1, failed[t], q, r)
        BY <2>1, <3>2, <3>4, SendingFits
    <3>6. /\ Fits("stream", started[t], failed[t], q', r')
          /\ Fits("stream", started[t] + 1, failed[t], q', r')
      <4>1. started[t] + 1 \in Nat
          BY <2>1
      <4> QED BY <2>1, <3>2, <3>3, <3>5, <4>1, FewerFit
    <3>7. started'[t] = started[t] \/ started'[t] = started[t] + 1
        BY <1>5, <2>2 DEF ChatInv, TabOK
    <3>8. Fits(Place(t)', started'[t], failed'[t], q', r')
        BY <1>2, <3>1, <3>6, <3>7
    <3> QED BY <1>6, <2>1, <3>8, WaitsAfter DEF Once, q, r
  <2>3. CASE t # task
    <3>1. Place(t)' = Place(t) /\ started'[t] = started[t]
        BY <1>1, <1>2, <1>5, <2>3 DEF Place, ChatInv, TabOK
    <3> QED BY <1>2, <1>6, <3>1, SameOnce
  <2> QED BY <2>2, <2>3
<1> QED BY <1>6, <1>7, <1>8 DEF ChatInv, OnceOK

\* A request is answered, refused, or nobody waits for it.
LEMMA AnsweredKeeps ==
    ASSUME ChatInv, NEW job, Answered(job) \/ Refused(job) \/ UNCHANGED <<tab, failed>>,
           UNCHANGED <<typed, started>>, LineOK',
           NoMoreWait(preflight, line, preflight', line')
    PROVE  ChatInv'
<1>1. CASE (tab' = Ready \/ UNCHANGED tab) /\ UNCHANGED failed
  <2>1. CalmTab
      BY <1>1, ReadyIs DEF CalmTab, ChatInv, TabOK
  <2> QED BY <1>1, <2>1, CalmKeeps
<1>2. CASE Raises
    BY <1>2, RaisesKeeps
<1> QED BY <1>1, <1>2 DEF Answered, Refused

LEMMA PreflightKeeps ==
    ASSUME ChatInv, NEW job \in preflight, Preflight(job)
    PROVE  ChatInv'
<1>1. job \in Waits /\ InLine(line) /\ preflight \subseteq Waits
    BY DEF ChatInv, LineOK
<1>2. CASE PreflightFails(job)
  <2>1. LineOK'
      BY <1>1, <1>2 DEF PreflightFails, LineOK, InLine
  <2>2. NoMoreWait(preflight, line, preflight', line')
      BY <1>2, FewerWait DEF PreflightFails
  <2> QED BY <1>2, <2>1, <2>2, AnsweredKeeps DEF PreflightFails
<1>3. CASE PreflightOk(job)
  <2>1. InLine(line') /\ NoMoreWait(preflight, line, preflight', line')
      BY <1>1, <1>3, MovedWaits DEF PreflightOk
  <2>2. LineOK'
      BY <1>1, <1>3, <2>1 DEF PreflightOk, LineOK, InLine
  <2> QED BY <1>3, <2>1, <2>2, AnsweredKeeps DEF PreflightOk, tui
<1> QED BY <1>2, <1>3 DEF Preflight

LEMMA OtherRunKeeps ==
    ASSUME ChatInv, OtherRun
    PROVE  ChatInv'
<1> DEFINE job == Job("other", None, "waiting")
<1>1. job \in AnyJob /\ job.task = None /\ job.at = "waiting"
    BY DEF Job, AnyJob, JobOf
<1> HIDE DEF job
<1>2. line' = Append(line, job) /\ UNCHANGED <<tui, preflight, started>>
    BY DEF OtherRun, job
<1>3. InLine(line') /\ NoMoreWait(preflight, line, preflight', line')
    BY <1>1, <1>2, OthersWait DEF ChatInv, LineOK
<1>4. LineOK'
    BY <1>2, <1>3 DEF LineOK, InLine, ChatInv
<1>5. CalmTab
    BY <1>2 DEF CalmTab, tui, ChatInv, TabOK
<1> QED BY <1>2, <1>3, <1>4, <1>5, CalmKeeps DEF tui

LEMMA HolderIs ==
    ASSUME LineOK, Holder.at # "over"
    PROVE  line # << >> /\ Holder = line[1] /\ Holder \in AnyJob /\ 1 \in 1..Len(line)
<1>1. line # << >>
    BY DEF Holder, NoJob
<1>2. line \in Seq(AnyJob)
    BY DEF LineOK, InLine
<1>3. 1 \in 1..Len(line)
    BY <1>1, <1>2, LenProperties, EmptySeq
<1> QED BY <1>1, <1>2, <1>3, ElementOfSeq DEF Holder

\* The run that holds the lock goes on.
LEMMA HolderNowKeeps ==
    ASSUME ChatInv, Holder.at # "over", NEW job \in AnyJob, job.at # "waiting",
           HolderNow(job), UNCHANGED <<tui, preflight, started>>
    PROVE  ChatInv'
<1>1. line # << >> /\ InLine(line)
    BY HolderIs DEF ChatInv, LineOK
<1>2. InLine(line') /\ NoMoreWait(preflight, line, preflight', line')
    BY <1>1, FirstWaits DEF HolderNow
<1>3. LineOK'
    BY <1>2 DEF LineOK, InLine, ChatInv
<1>4. CalmTab
    BY DEF CalmTab, tui, ChatInv, TabOK
<1> QED BY <1>2, <1>3, <1>4, CalmKeeps DEF tui

\* A task that is begun waited until now, and its request waits no more.
LEMMA BeginKeeps ==
    ASSUME ChatInv, Begin
    PROVE  ChatInv'
<1> DEFINE task == Holder.task
           kind == Holder.kind
           job  == [Holder EXCEPT !.at = "running"]
<1>1. /\ line # << >> /\ Holder = line[1] /\ Holder \in AnyJob /\ 1 \in 1..Len(line)
      /\ Holder.at = "waiting" /\ InLine(line)
    BY HolderIs DEF Begin, ChatInv, LineOK
<1>2. /\ task \in Tasks \cup {None} /\ job \in AnyJob /\ job.at # "waiting"
      /\ task # None => kind \in Retried
    BY <1>1 DEF AnyJob, JobOf
<1>3. WaitsInLine(<<task, kind>>, line, 1)
    BY <1>1 DEF WaitsInLine, Name
<1>4. /\ line' = [line EXCEPT ![1] = job] /\ UNCHANGED <<tab, typed, failed, preflight>>
      /\ started' = IF task = None THEN started ELSE [started EXCEPT ![task] = @ + 1]
    BY DEF Begin, HolderNow, Starts, tui
<1> HIDE DEF task, kind, job
<1>5. /\ InLine(line')
      /\ NoMoreWait(preflight, line, preflight', line')
      /\ OneWaits(<<task, kind>>, preflight, line)
           => ~ SomeWaits(<<task, kind>>, preflight, line')
    BY <1>1, <1>2, <1>3, <1>4, FirstWaits
<1>6. LineOK'
    BY <1>4, <1>5 DEF LineOK, InLine, ChatInv
<1>7. started' \in [Tasks -> Nat]
    BY <1>2, <1>4 DEF ChatInv, TabOK
<1>8. TabOK'
    BY <1>4, <1>7 DEF ChatInv, TabOK
<1>9. ASSUME NEW t \in Tasks PROVE Once(t, preflight, line)'
  <2>1. Once(t, preflight, line) /\ started[t] \in Nat /\ failed[t] \in Nat
      BY DEF ChatInv, OnceOK, TabOK
  <2>2. Place(t)' = Place(t) /\ failed'[t] = failed[t]
      BY <1>4 DEF Place
  <2>3. CASE t = task
    <3> DEFINE q == SomeWaits(<<t, "request">>, preflight, line)
               r == SomeWaits(<<t, "retry">>, preflight, line)
    <3>1. started'[t] = started[t] + 1 /\ (kind = "request" \/ kind = "retry")
        BY <1>2, <1>4, <2>3, NumbersFit DEF ChatInv, TabOK, Retried
    <3>2. q \in BOOLEAN /\ r \in BOOLEAN /\ q' \in BOOLEAN /\ r' \in BOOLEAN
        BY WaitsOrNot
    <3>3. (q' => q) /\ (r' => r)
        BY <1>5, <2>1, WaitsAfter
    <3>4. Fits(Place(t), started[t], failed[t], q, r)
        BY <2>1 DEF Once
    <3>5. /\ kind = "request" => q /\ ~ q'
          /\ kind = "retry" => r /\ ~ r'
      <4>1. OneWaits(<<t, "request">>, preflight, line) /\ OneWaits(<<t, "retry">>, preflight, line)
          BY <2>1 DEF Once
      <4>2. ~ SomeWaits(<<t, kind>>, preflight, line')
          BY <1>5, <2>3, <3>1, <4>1
      <4>3. SomeWaits(<<t, kind>>, preflight, line)
          BY <1>1, <1>3, <2>3 DEF SomeWaits
      <4>4. CASE kind = "request"
          BY <1>4, <4>2, <4>3, <4>4 DEF SomeWaits, WaitsInLine, Name
      <4>5. CASE kind = "retry"
          BY <1>4, <4>2, <4>3, <4>5 DEF SomeWaits, WaitsInLine, Name
      <4> QED BY <3>1, <4>4, <4>5
    <3> HIDE DEF q, r
    <3>6. \/ Fits(Place(t), started[t] + 1, failed[t], FALSE, r) /\ q' = FALSE
          \/ Fits(Place(t), started[t] + 1, failed[t], q, FALSE) /\ r' = FALSE
        BY <2>1, <3>1, <3>2, <3>4, <3>5, StartFits
    <3>7. Fits(Place(t), started[t] + 1, failed[t], q', r')
      <4>1. started[t] + 1 \in Nat
          BY <2>1
      <4> QED BY <2>1, <3>2, <3>3, <3>6, <4>1, FewerFit
    <3>8. Fits(Place(t)', started'[t], failed'[t], q', r')
        BY <2>2, <3>1, <3>7
    <3> QED BY <1>5, <2>1, <3>8, WaitsAfter DEF Once, q, r
  <2>4. CASE t # task
    <3>1. started'[t] = started[t]
        BY <1>4, <2>4 DEF ChatInv, TabOK
    <3> QED BY <1>5, <2>2, <3>1, SameOnce
  <2> QED BY <2>3, <2>4
<1> QED BY <1>6, <1>8, <1>9 DEF ChatInv, OnceOK

\* The lock is released, and the client that waited is answered.
LEMMA ReleaseKeeps ==
    ASSUME ChatInv, Holder.at # "over", line' = Tail(line),
           Answered(Holder) \/ Refused(Holder) \/ UNCHANGED <<tab, failed>>,
           UNCHANGED <<typed, preflight, started>>
    PROVE  ChatInv'
<1>1. line # << >> /\ InLine(line)
    BY HolderIs DEF ChatInv, LineOK
<1>2. InLine(line') /\ NoMoreWait(preflight, line, preflight', line')
    BY <1>1, TailWaits
<1>3. LineOK'
    BY <1>2 DEF LineOK, InLine, ChatInv
<1> QED BY <1>2, <1>3, AnsweredKeeps

LEMMA EndKeeps ==
    ASSUME ChatInv, End
    PROVE  ChatInv'
<1>1. Answered(Holder) \/ Refused(Holder) \/ UNCHANGED <<tab, failed>>
  <2>1. CASE Holder.kind = "socket" /\ Holder.there
      BY <2>1 DEF End
  <2>2. CASE ~ (Holder.kind = "socket" /\ Holder.there) /\ Holder.kind \in Requests
      BY <2>2 DEF End
  <2>3. CASE ~ (Holder.kind = "socket" /\ Holder.there) /\ Holder.kind \notin Requests
      BY <2>3 DEF End
  <2> QED BY <2>1, <2>2, <2>3
<1> QED BY <1>1, ReleaseKeeps DEF End

LEMMA CancelKeeps ==
    ASSUME ChatInv, Cancel
    PROVE  ChatInv'
<1>1. Holder.at # "over"
  <2>1. line # << >>
      BY DEF Cancel, Holder, NoJob, Retried
  <2>2. Holder \in AnyJob
      BY <2>1, HeadTailProperties DEF Holder, ChatInv, LineOK, InLine
  <2> QED BY <2>2 DEF AnyJob, JobOf
<1> QED BY <1>1, ReleaseKeeps DEF Cancel, tui

LEMMA DelegateKeeps ==
    ASSUME ChatInv, Delegate \/ DelegateEnds
    PROVE  ChatInv'
<1>1. Holder.at # "over"
    BY DEF Delegate, DelegateEnds
<1>2. Holder \in AnyJob
    BY <1>1, HolderIs DEF ChatInv
<1>3. CASE Delegate
  <2>1. [Holder EXCEPT !.at = "asking"] \in AnyJob
      BY <1>2 DEF AnyJob, JobOf
  <2>2. [Holder EXCEPT !.at = "asking"].at # "waiting"
      BY <1>2 DEF AnyJob, JobOf
  <2> QED BY <1>1, <1>3, <2>1, <2>2, HolderNowKeeps DEF Delegate
<1>4. CASE DelegateEnds
  <2>1. [Holder EXCEPT !.at = "resumed", !.slot = None] \in AnyJob
      BY <1>2 DEF AnyJob, JobOf
  <2>2. [Holder EXCEPT !.at = "resumed", !.slot = None].at # "waiting"
      BY <1>2 DEF AnyJob, JobOf
  <2> QED BY <1>1, <1>4, <2>1, <2>2, HolderNowKeeps DEF DelegateEnds
<1> QED BY <1>3, <1>4

LEMMA DelegateSpawnsKeeps ==
    ASSUME AgentsOK, ChatInv, DelegateSpawns
    PROVE  ChatInv'
<1>1. Holder.at # "over" /\ UNCHANGED <<tui, preflight, started>>
    BY DEF DelegateSpawns
<1>2. Holder \in AnyJob
    BY <1>1, HolderIs DEF ChatInv
<1>3. PICK agent \in agents' :
        /\ agent.id = spawned + 1
        /\ HolderNow([Holder EXCEPT !.at = "delegating", !.slot = agent.slot])
    BY DEF DelegateSpawns
<1>4. agent \in Agent
    BY <1>3, RegisterIs DEF DelegateSpawns, IdleSlots
<1> DEFINE job == [Holder EXCEPT !.at = "delegating", !.slot = agent.slot]
<1>5. job \in AnyJob
    BY <1>2, <1>4 DEF AnyJob, JobOf, Agent
<1>6. job.at # "waiting"
    BY <1>2 DEF AnyJob, JobOf
<1> HIDE DEF job
<1>7. HolderNow(job)
    BY <1>3 DEF job
<1> QED BY <1>1, <1>5, <1>6, <1>7, HolderNowKeeps

LEMMA BackendDiesKeeps ==
    ASSUME ChatInv, BackendDies
    PROVE  ChatInv'
<1>1. line' = << >> /\ preflight' = {} /\ UNCHANGED <<typed, started>>
    BY DEF BackendDies
<1>2. LineOK'
    BY <1>1 DEF LineOK, InLine
<1>3. NoMoreWait(preflight, line, preflight', line')
  <2>1. Len(line') = 0
      BY <1>1
  <2> QED BY <1>1, <2>1 DEF NoMoreWait, OneWaits, SomeWaits
<1>4. CASE tab.at \in {"fallback", "second"}
  <2>1. CalmTab /\ UNCHANGED failed
      BY <1>4 DEF BackendDies, CalmTab, ChatInv, TabOK
  <2> QED BY <1>1, <1>2, <1>3, <2>1, CalmKeeps
<1>5. CASE tab.at \notin {"fallback", "second"}
    BY <1>1, <1>2, <1>3, <1>5, RaisesKeeps DEF BackendDies
<1> QED BY <1>4, <1>5

-----------------------------------------------------------------------------
(* The invariant *)

\* What happens in the chat leaves the control plane alone, except that it may ask
\* for something, restart the server, or spawn an agent by the tool.
JustAsks ==
    /\ requests < MaxRequests /\ requests' = requests + 1
    /\ UNCHANGED <<decisions, settings, presets, agents, call, spawned, crashes>>

ChatMoves ==
    \/ UNCHANGED control
    \/ JustAsks
    \/ RestartServer(Chat)
    \/ DelegateSpawns

LEMMA ChatMovesKeeps ==
    ASSUME ControlInv, ChatMoves
    PROVE  ControlInv'
<1>1. requests \in requests..MaxRequests
    BY ControlAssumption DEF ControlInv, VerdictsOK
<1>2. CASE UNCHANGED control
  <2>1. Handles
      BY <1>2 DEF Handles, control
  <2>2. requests' = requests /\ presets' = presets /\ UNCHANGED <<decisions, settings>>
      BY <1>2 DEF control
  <2>3. presets' \in [Presets -> {"new", "there", "gone"}]
      BY <2>2 DEF ControlInv, AgentsOK
  <2> QED BY <1>1, <2>1, <2>2, <2>3, QuietKeeps
<1>3. CASE JustAsks
  <2>1. Handles
      BY <1>3 DEF Handles, JustAsks
  <2>2. requests' \in requests..MaxRequests
      BY <1>3, ControlAssumption DEF JustAsks, ControlInv, VerdictsOK
  <2>3. presets' \in [Presets -> {"new", "there", "gone"}]
      BY <1>3 DEF JustAsks, ControlInv, AgentsOK
  <2> QED BY <1>3, <2>1, <2>2, <2>3, QuietKeeps DEF JustAsks
<1>4. CASE RestartServer(Chat)
    BY <1>4, RestartServerKeeps, ControlAssumption
<1>5. CASE DelegateSpawns
  <2>1. QueueOK' /\ VerdictsOK' /\ SettingsOK'
      BY <1>1, <1>5, DecisionsStay, SettingsStay DEF DelegateSpawns, ControlInv
  <2>2. AgentsOK' /\ CallsOK' /\ LimitOK'
      BY <1>5, ToolSpawnKeeps DEF DelegateSpawns, IdleSlots, ControlInv
  <2> QED BY <2>1, <2>2 DEF ControlInv
<1> QED BY <1>2, <1>3, <1>4, <1>5 DEF ChatMoves

LEMMA Initially == Init => IInv
<1> SUFFICES ASSUME Init PROVE IInv
    OBVIOUS
<1> USE DEF Init
<1>1. QueueOK
  <2>1. << >> \in Seq(Entry) /\ Len(<< >>) = 0
      OBVIOUS
  <2> QED BY <2>1, ControlAssumption DEF ControlInit, QueueOK, Ordered, Undecided
<1>2. VerdictsOK
    BY ControlAssumption DEF ControlInit, VerdictsOK, DecidedOnce
<1>3. SettingsOK
    BY SettingsAssumption DEF ControlInit, SettingsOK
<1>4. CallsOK /\ LimitOK /\ IsFiniteSet(agents)
    BY FreshIs DEF ControlInit, Fresh
<1>5. AgentsOK
    BY <1>4 DEF ControlInit, AgentsOK
<1>6. TabOK
    BY NumbersFit, ReadyIs DEF ChatInit, TabOK
<1>7. Len(line) = 0 /\ line \in Seq(AnyJob) /\ preflight = {}
    BY DEF ChatInit
<1>8. LineOK
    BY <1>7 DEF LineOK, InLine
<1>9. OnceOK
  <2> SUFFICES ASSUME NEW t \in Tasks PROVE Once(t, preflight, line)
      BY DEF OnceOK
  <2>1. typed = 0 /\ started[t] = 0 /\ failed[t] = 0 /\ t > 0
      BY NumbersFit DEF ChatInit, Tasks
  <2>2. \A n : OneWaits(n, preflight, line) /\ ~ SomeWaits(n, preflight, line)
      BY <1>7 DEF OneWaits, SomeWaits
  <2>3. Place(t) = "untyped"
      BY <2>1 DEF Place
  <2>4. Fits("untyped", 0, 0, FALSE, FALSE)
      BY DEF Fits, Count
  <2>5. /\ SomeWaits(<<t, "request">>, preflight, line) = FALSE
        /\ SomeWaits(<<t, "retry">>, preflight, line) = FALSE
      BY <2>2 DEF SomeWaits
  <2> QED BY <2>1, <2>2, <2>3, <2>4, <2>5 DEF Once
<1> QED BY <1>1, <1>2, <1>3, <1>4, <1>5, <1>6, <1>8, <1>9 DEF IInv, ControlInv, ChatInv

\* What a step is to the control plane.
LEMMA NextIs ==
    ASSUME [Next]_vars
    PROVE  \/ ChatMoves
           \/ \E c \in Others : Request(c) /\ UNCHANGED chat
           \/ \E c \in Clients : Answer(c, Busy) /\ UNCHANGED chat
           \/ Crash /\ BackendDies
<1>1. CASE SendTask \/ SendDirect \/ OtherRun
    BY <1>1 DEF SendTask, SendDirect, OtherRun, Types, ChatMoves, JustAsks
<1>2. CASE SendRestart
    BY <1>2 DEF SendRestart, ChatMoves
<1>3. CASE TabActs
    BY <1>3 DEF TabActs, Restarted, ReadResult, ReadClose, ReadError, Read, Fallback,
                StreamIsBusy, StreamStarts, ChatMoves
<1>4. CASE StreamBreaks \/ RequestBreaks
    BY <1>4 DEF StreamBreaks, RequestBreaks, ChatMoves
<1>5. CASE \E job \in preflight : Preflight(job)
    BY <1>5 DEF Preflight, PreflightFails, PreflightOk, ChatMoves
<1>6. CASE JobActs \/ Delegate
    BY <1>6 DEF JobActs, Begin, End, Cancel, DelegateEnds, Delegate, ChatMoves
<1>7. CASE \E c \in Clients \ {Chat} : Operates(c)
    BY <1>7 DEF Operates, Others
<1>8. CASE \E c \in Clients : IsAnswered(c)
    BY <1>8 DEF IsAnswered
<1>9. CASE BackendDies
    BY <1>9 DEF BackendDies
<1>10. CASE UNCHANGED vars
    BY <1>10 DEF vars, ChatMoves
<1> QED BY <1>1, <1>2, <1>3, <1>4, <1>5, <1>6, <1>7, <1>8, <1>9, <1>10 DEF Next

LEMMA ChatInvKept ==
    ASSUME IInv, [Next]_vars
    PROVE  ChatInv'
<1> ChatInv /\ AgentsOK
    BY DEF IInv, ControlInv
<1>1. CASE SendTask \/ SendDirect \/ SendRestart \/ OtherRun
    BY <1>1, SendTaskKeeps, SendDirectKeeps, CommandKeeps, OtherRunKeeps
<1>2. CASE TabActs
    BY <1>2, CommandKeeps, ReadResultKeeps, ReadFailureKeeps, FallbackKeeps,
       StreamOpensKeeps DEF TabActs
<1>3. CASE StreamBreaks \/ RequestBreaks
    BY <1>3, BreaksKeeps
<1>4. CASE \E job \in preflight : Preflight(job)
    BY <1>4, PreflightKeeps
<1>5. CASE JobActs \/ Delegate
    BY <1>5, BeginKeeps, EndKeeps, CancelKeeps, DelegateSpawnsKeeps, DelegateKeeps
       DEF JobActs
<1>6. CASE \E c \in Clients \ {Chat} : Operates(c)
    BY <1>6, ChatStays DEF Operates
<1>7. CASE \E c \in Clients : IsAnswered(c)
    BY <1>7, ChatStays DEF IsAnswered
<1>8. CASE BackendDies
    BY <1>8, BackendDiesKeeps
<1>9. CASE UNCHANGED vars
    BY <1>9, ChatStays DEF vars
<1> QED BY <1>1, <1>2, <1>3, <1>4, <1>5, <1>6, <1>7, <1>8, <1>9 DEF Next

LEMMA Kept == IInv /\ [Next]_vars => IInv'
<1> SUFFICES ASSUME IInv, [Next]_vars PROVE IInv'
    OBVIOUS
<1>1. ControlInv'
    BY NextIs, ChatMovesKeeps, RequestKeeps, AnswerKeeps, CrashKeeps DEF IInv
<1>2. ChatInv'
    BY ChatInvKept
<1> QED BY <1>1, <1>2 DEF IInv

\* The inductive invariant.
THEOREM Invariance == Spec => []IInv
<1>1. Init => IInv
    BY Initially
<1>2. IInv /\ [Next]_vars => IInv'
    BY Kept
<1> QED BY <1>1, <1>2, PTL DEF Spec

\* TYPE CORRECTNESS.  The queue keeps its cap and its order, an approval is pending
\* as long as it has no verdict, and only the holder of the lock runs.
THEOREM TypeCorrect == Spec => []TypeOK
<1>1. IInv => TypeOK
  <2> SUFFICES ASSUME IInv PROVE TypeOK
      OBVIOUS
  <2> USE DEF IInv, ControlInv, ChatInv
  <2>1. Len(queue) \in Nat /\ DOMAIN queue = 1..Len(queue) /\ Len(queue) <= MaxEntries
      BY LenProperties DEF QueueOK
  <2>2. ASSUME NEW i \in DOMAIN queue
        PROVE  /\ queue[i].id \in 1..submitted
               /\ i > 1 => queue[i - 1].id < queue[i].id
               /\ queue[i].status = "pending" <=> verdicts[queue[i].id] = "none"
    <3>1. queue[i] \in Entry
        BY <2>1, ElementOfSeq DEF QueueOK
    <3>2. queue[i].id \in 1..MaxRequests /\ queue[i].id <= submitted
        BY <2>1, <3>1 DEF Entry, EntryOf, Approvals, QueueOK, Ordered
    <3>3. queue[i].id \in 1..submitted
        BY <3>2, ControlAssumption DEF VerdictsOK
    <3>4. i > 1 => queue[i - 1].id < queue[i].id
      <4>1. i > 1 => i - 1 \in 1..Len(queue) /\ i - 1 < i
          BY <2>1
      <4> QED BY <2>1, <4>1 DEF QueueOK, Ordered
    <3> QED BY <2>1, <3>3, <3>4 DEF QueueOK, Undecided
  <2>3. /\ DOMAIN settings = DOMAIN InitialSettings
        /\ settings.guarded \subseteq CriticalActions
      BY DEF SettingsOK
  <2>4. /\ presets \in [Presets -> {"new", "there", "gone"}]
        /\ \A a, b \in agents : a.id \in 1..spawned /\ (a.id = b.id => a = b)
        /\ \A c \in Clients : call[c].op \in Ops
      BY DEF AgentsOK, CallsOK
  <2>5. /\ verdicts \in [Approvals -> {"none", "approved", "rejected"}]
        /\ carried \in [Approvals -> Nat]
      BY DEF VerdictsOK
  <2>6. /\ tab.at \in Requests \cup {"ready", "connecting", "stream", "fallback", "second",
                                      "command"}
        /\ tab.task \in Tasks \cup {None} /\ tab.result \in BOOLEAN
      BY DEF TabOK, Tab, Places
  <2>7. started \in [Tasks -> Nat] /\ failed \in [Tasks -> Nat]
      BY DEF TabOK
  <2>8. \A i \in 2..Len(line) : line[i].at = "waiting"
      BY DEF LineOK, InLine
  <2>9. \A job \in preflight : job.kind \in Requests
      BY DEF LineOK, Waits, JobOf
  <2> QED BY <2>1, <2>2, <2>3, <2>4, <2>5, <2>6, <2>7, <2>8, <2>9 DEF TypeOK
<1> QED BY <1>1, Invariance, PTL

\* The action of an approval is begun just once if it was approved, and never if it
\* was rejected, dropped from the queue or lost in a crash.
THEOREM ApprovalsCountOnce == Spec => []DecidedOnce
<1>1. IInv => DecidedOnce
    BY DEF IInv, ControlInv, VerdictsOK
<1> QED BY <1>1, Invariance, PTL

\* Spawning past the limit takes clients that all found room before.
THEOREM OnlyOverlapExceeds == Spec => []LimitExceededOnlyByOverlap
<1>1. IInv => LimitExceededOnlyByOverlap
  <2> SUFFICES ASSUME IInv PROVE LimitExceededOnlyByOverlap
      OBVIOUS
  <2>1. IsFiniteSet(agents) /\ LimitOK
      BY DEF IInv, ControlInv, AgentsOK
  <2> QED BY <2>1, FiniteParts, ControlAssumption
          DEF LimitOK, LimitExceededOnlyByOverlap, Api, Others
<1> QED BY <1>1, Invariance, PTL

\* Each further run of a task is owed to a sending of its own that failed, and
\* there are never more than three, however many connections break (tui/app.py:320-402).
THEOREM OnlyFailureRepeats == Spec => []RunAgainOnlyAfterFailure
<1>1. ASSUME IInv, NEW t \in Tasks
      PROVE  started[t] <= 1 + failed[t] /\ started[t] <= 3
  <2>1. started[t] \in Nat /\ failed[t] \in Nat /\ Once(t, preflight, line)
      BY <1>1 DEF IInv, ChatInv, TabOK, OnceOK
  <2> DEFINE q == Count(SomeWaits(<<t, "request">>, preflight, line))
             r == Count(SomeWaits(<<t, "retry">>, preflight, line))
  <2>2. q \in Nat /\ r \in Nat
      BY DEF Count
  <2>3. started[t] + q + r <= 1 + failed[t] /\ failed[t] <= 2
      BY <2>1 DEF Once, Fits
  <2> HIDE DEF q, r
  <2> QED BY <2>1, <2>2, <2>3
<1>2. IInv => RunAgainOnlyAfterFailure
    BY <1>1 DEF RunAgainOnlyAfterFailure
<1> QED BY <1>2, Invariance, PTL

-----------------------------------------------------------------------------
(* What is guarded *)

ByApproval ==
    crashes' = crashes =>
        KvByApproval /\ ContextByApproval /\ RestartByApproval /\ StopByApproval

\* A step that changes no setting and lets no handler begin to restart or to stop
\* the server.
Harmless ==
    /\ settings' = settings
    /\ \A c \in Clients : /\ Begun(c, "restart") => c = Chat \/ ~ Guarded("server_restart")
                          /\ Begun(c, "stop") => ~ Guarded("emergency_stop")

LEMMA HarmlessIs ==
    ASSUME ControlInv, Harmless
    PROVE  ByApproval
<1>1. KvByApproval
    BY DEF Harmless, KvByApproval
<1>2. ContextByApproval
    BY DEF Harmless, ContextByApproval, ControlInv, SettingsOK
<1>3. RestartByApproval /\ StopByApproval
    BY DEF Harmless, RestartByApproval, StopByApproval
<1> QED BY <1>1, <1>2, <1>3 DEF ByApproval

LEMMA QuietIsHarmless ==
    ASSUME CallsOK, settings' = settings,
           \/ call' = call
           \/ \E c \in Clients, op \in Ops : \E on :
                /\ Begins(c, op, on)
                /\ op = "restart" => c = Chat \/ ~ Guarded("server_restart")
                /\ op = "stop" => ~ Guarded("emergency_stop")
    PROVE  Harmless
<1>1. CASE call' = call
    BY <1>1 DEF Harmless, Begun
<1>2. CASE \E c \in Clients, op \in Ops : \E on :
             /\ Begins(c, op, on)
             /\ op = "restart" => c = Chat \/ ~ Guarded("server_restart")
             /\ op = "stop" => ~ Guarded("emergency_stop")
  <2>0. PICK c \in Clients, op \in Ops : \E on :
          /\ Begins(c, op, on)
          /\ op = "restart" => c = Chat \/ ~ Guarded("server_restart")
          /\ op = "stop" => ~ Guarded("emergency_stop")
      BY <1>2
  <2>1. PICK on :
          /\ Begins(c, op, on)
          /\ op = "restart" => c = Chat \/ ~ Guarded("server_restart")
          /\ op = "stop" => ~ Guarded("emergency_stop")
      BY <2>0
  <2>2. \A d \in Clients : call'[d] = IF d = c THEN [op |-> op, on |-> on] ELSE call[d]
      BY <2>1 DEF CallsOK, Begins
  <2>3. \A d \in Clients : call'[d].op = IF d = c THEN op ELSE call[d].op
      BY <2>2
  <2> QED BY <2>1, <2>3 DEF Harmless, Begun
<1> QED BY <1>1, <1>2

LEMMA ApplyUpdateIsGuarded ==
    ASSUME ControlInv, NEW c \in Clients, NEW data \in Updates, ApplyUpdate(c, data)
    PROVE  ByApproval
<1>1. /\ settings' = Changed(data) /\ call' = call
      /\ ~ (ChangesKv(data) /\ Guarded("kv_cache_change"))
      /\ ~ (GrowsALot(data) /\ Guarded("large_context_increase"))
    BY DEF ApplyUpdate
<1>2. {"kv", "context"} \subseteq DOMAIN settings /\ settings.context \in Nat
    BY SettingsAssumption DEF ControlInv, SettingsOK
<1>3. /\ settings'.kv = IF "kv" \in DOMAIN data THEN data.kv ELSE settings.kv
      /\ settings'.context = IF "context" \in DOMAIN data THEN data.context
                             ELSE settings.context
    BY <1>1, <1>2 DEF Changed
<1>4. "context" \in DOMAIN data => data.context \in Nat
    BY SettingsAssumption
<1>5. KvByApproval
    BY <1>1, <1>3 DEF KvByApproval, ChangesKv
<1>6. ContextByApproval
    BY <1>1, <1>2, <1>3, <1>4 DEF ContextByApproval, GrowsALot
<1>7. RestartByApproval /\ StopByApproval
    BY <1>1 DEF RestartByApproval, StopByApproval, Begun
<1> QED BY <1>5, <1>6, <1>7 DEF ByApproval

\* What an approval changes is what it asked for.
LEMMA ApproveActionIsGuarded ==
    ASSUME ControlInv, NEW c \in Clients, NEW id, ApproveAction(c, id)
    PROVE  ByApproval
<1>1. PICK a \in Open(queue, id) : Decide(a, "approved") /\ CarryOut(c, a)
    BY DEF ApproveAction
<1>2. a \in Entry /\ a.id = id /\ id \in Approvals /\ a \in Pending(queue)
    BY OpenIs DEF ControlInv
<1>3. verdicts'[a.id] = "approved"
    BY <1>1, <1>2 DEF Decide, ControlInv, VerdictsOK
<1>4. {"kv", "context"} \subseteq DOMAIN settings /\ settings.context \in Nat
    BY SettingsAssumption DEF ControlInv, SettingsOK
<1>5. settings' = Changed(a.payload)
    BY <1>1 DEF CarryOut
<1>6. /\ settings'.kv = IF "kv" \in DOMAIN a.payload THEN a.payload.kv ELSE settings.kv
      /\ settings'.context = IF "context" \in DOMAIN a.payload THEN a.payload.context
                             ELSE settings.context
    BY <1>4, <1>5 DEF Changed
<1>7. /\ a.action = "kv_cache_change" => a.payload = [kv |-> a.payload.kv]
      /\ a.action = "large_context_increase" => a.payload = [context |-> a.payload.context]
      /\ a.action \in {"server_restart", "emergency_stop"} => a.payload = << >>
      /\ a.action \in CriticalActions
    BY <1>2 DEF Entry, EntryOf, CriticalActions
<1>8. KvByApproval
  <2>1. settings'.kv # settings.kv
          => a.action = "kv_cache_change" /\ a.payload = [kv |-> settings'.kv]
      BY <1>2, <1>6, <1>7, PayloadFits
  <2> QED BY <1>2, <1>3, <2>1 DEF KvByApproval, ApprovedNow
<1>9. ContextByApproval
  <2>1. settings'.context > 2 * settings.context
          => /\ a.action = "large_context_increase"
             /\ a.payload = [context |-> settings'.context]
      BY <1>2, <1>4, <1>6, <1>7, PayloadFits
  <2> QED BY <1>2, <1>3, <2>1 DEF ContextByApproval, ApprovedNow
<1>10. RestartByApproval /\ StopByApproval
  <2>1. \A d \in Clients : /\ Begun(d, "restart") => a.action = "server_restart"
                           /\ Begun(d, "stop") => a.action = "emergency_stop"
    <3>1. CASE a.action = "server_restart"
      <4>1. Begins(c, "restart", None)
          BY <1>1, <3>1 DEF CarryOut
      <4>2. \A d \in Clients : call'[d].op = "restart" \/ call'[d] = call[d]
          BY <4>1 DEF Begins, ControlInv, CallsOK
      <4> QED BY <3>1, <4>2 DEF Begun
    <3>2. CASE a.action = "emergency_stop"
      <4>1. Begins(c, "stop", None)
          BY <1>1, <3>2 DEF CarryOut
      <4>2. \A d \in Clients : call'[d].op = "stop" \/ call'[d] = call[d]
          BY <4>1 DEF Begins, ControlInv, CallsOK
      <4> QED BY <3>2, <4>2 DEF Begun
    <3>3. CASE a.action \notin {"server_restart", "emergency_stop"}
      <4>1. call' = call
          BY <1>1, <3>3 DEF CarryOut
      <4> QED BY <4>1 DEF Begun
    <3> QED BY <3>1, <3>2, <3>3
  <2> QED BY <1>2, <1>3, <1>7, <2>1 DEF RestartByApproval, StopByApproval, ApprovedNow
<1> QED BY <1>8, <1>9, <1>10 DEF ByApproval

LEMMA RequestIsGuarded ==
    ASSUME ControlInv, NEW c \in Others, Request(c)
    PROVE  ByApproval
<1> CallsOK /\ c \in Clients
    BY DEF ControlInv, Others
<1>1. CASE Save(c)
  <2>1. PICK data \in Updates : UpdateSettings(c, data)
      BY <1>1 DEF Save
  <2>2. CASE ApplyUpdate(c, data)
      BY <2>2, ApplyUpdateIsGuarded
  <2>3. CASE QueueKvChange(c, data) \/ QueueLargeContext(c, data)
      BY <2>3, QuietIsHarmless, HarmlessIs DEF QueueKvChange, QueueLargeContext
  <2> QED BY <2>1, <2>2, <2>3 DEF UpdateSettings
<1>2. CASE RestartServer(c)
    BY <1>2, QuietIsHarmless, HarmlessIs DEF RestartServer, Ops
<1>3. CASE EmergencyStop(c)
    BY <1>3, QuietIsHarmless, HarmlessIs DEF EmergencyStop, Ops
<1>4. CASE QueueAction(c, "server_restart") \/ QueueAction(c, "emergency_stop")
    BY <1>4, QuietIsHarmless, HarmlessIs DEF QueueAction
<1>5. CASE ApproveSelected(c)
    BY <1>5, ApproveActionIsGuarded DEF ApproveSelected
<1>6. CASE RejectSelected(c) \/ OnPresetCreated(c) \/ DeleteSelectedPreset(c)
             \/ KillSelected(c)
    BY <1>6, QuietIsHarmless, HarmlessIs
       DEF RejectSelected, RejectAction, OnPresetCreated, CreatePreset,
           DeleteSelectedPreset, DeletePreset, KillSelected
<1>7. CASE SpawnSelected(c)
  <2>1. PICK p : SpawnAgent(c, p)
      BY <1>7 DEF SpawnSelected
  <2> QED BY <2>1, QuietIsHarmless, HarmlessIs DEF SpawnAgent, Ops
<1>8. CASE ByApi(c)
  <2>1. PICK agent \in agents : DestroyAgent(c, agent) \/ ChatWithAgent(c, agent)
      BY <1>8 DEF ByApi
  <2>2. CASE DestroyAgent(c, agent)
      BY <2>2, QuietIsHarmless, HarmlessIs DEF DestroyAgent
  <2>3. CASE ChatWithAgent(c, agent)
      BY <2>3, QuietIsHarmless, HarmlessIs DEF ChatWithAgent, Ops
  <2> QED BY <2>1, <2>2, <2>3
<1> QED BY <1>1, <1>2, <1>3, <1>4, <1>5, <1>6, <1>7, <1>8
        DEF Request, Restart, ActionEmergencyStop

LEMMA AnswerIsGuarded ==
    ASSUME ControlInv, NEW c \in Clients, NEW busy, Answer(c, busy)
    PROVE  ByApproval
<1> CallsOK
    BY DEF ControlInv
<1>1. CASE ServerAnswers(c) \/ Spawn(c, busy) \/ SpawnFails(c) \/ Generated(c)
  <2>1. Begins(c, "idle", None) /\ "idle" \in Ops /\ settings' = settings
      BY <1>1 DEF ServerAnswers, Spawn, SpawnFails, Generated, Answers, Begins, Idle, Ops
  <2> QED BY <2>1, QuietIsHarmless, HarmlessIs
<1>2. CASE Generate(c)
    BY <1>2, QuietIsHarmless, HarmlessIs DEF Generate, Ops
<1> QED BY <1>1, <1>2 DEF Answer

LEMMA ChatMovesAreGuarded ==
    ASSUME ControlInv, ChatMoves
    PROVE  ByApproval
<1> CallsOK
    BY DEF ControlInv
<1>1. CASE UNCHANGED control
    BY <1>1, QuietIsHarmless, HarmlessIs DEF control
<1>2. CASE JustAsks
    BY <1>2, QuietIsHarmless, HarmlessIs DEF JustAsks
<1>3. CASE RestartServer(Chat)
    BY <1>3, QuietIsHarmless, HarmlessIs, ControlAssumption DEF RestartServer, Ops
<1>4. CASE DelegateSpawns
    BY <1>4, QuietIsHarmless, HarmlessIs DEF DelegateSpawns
<1> QED BY <1>1, <1>2, <1>3, <1>4 DEF ChatMoves

\* No setting that is guarded changes, and no server that is guarded is restarted or
\* stopped, but by the step that approves of it, and as it was asked for.
THEOREM GuardedTakesApproval == Spec => GuardedOnlyByApproval
<1>1. IInv /\ [Next]_vars => [ByApproval]_vars
  <2> SUFFICES ASSUME IInv, [Next]_vars PROVE ByApproval
      OBVIOUS
  <2>1. ControlInv
      BY DEF IInv
  <2>2. CASE ChatMoves
      BY <2>1, <2>2, ChatMovesAreGuarded
  <2>3. CASE \E c \in Others : Request(c)
      BY <2>1, <2>3, RequestIsGuarded
  <2>4. CASE \E c \in Clients : Answer(c, Busy)
      BY <2>1, <2>4, AnswerIsGuarded
  <2>5. CASE Crash
    <3>1. crashes' # crashes
        BY <2>1, <2>5 DEF Crash, ControlInv, AgentsOK
    <3> QED BY <3>1 DEF ByApproval
  <2> QED BY <2>2, <2>3, <2>4, <2>5, NextIs
<1>2. IInv /\ [Next]_vars =>
        [crashes' = crashes =>
           KvByApproval /\ ContextByApproval /\ RestartByApproval /\ StopByApproval]_vars
    BY <1>1 DEF ByApproval
<1> QED BY <1>2, Invariance, PTL DEF Spec, GuardedOnlyByApproval
=============================================================================
