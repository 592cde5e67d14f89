-------------------------- MODULE ServerManagerProofs --------------------------
(***************************************************************************)
(* Proofs about ServerManager for any tasks, processes, limits and hours.  *)
(* IInv is the inductive invariant.  It says how the times the manager     *)
(* keeps relate to the restarts of the last hour, and how the processes    *)
(* relate to _process as long as no two of them were created at the same   *)
(* time.                                                                   *)
(***************************************************************************)
EXTENDS ServerManager, FiniteSetTheorems, SequenceTheorems, TLAPS

\* _restart_times ends with the restarts of the last hour; what it has before
\* them is older.  No pruning is needed for that, it only shortens the list.
TimesTell ==
    LET dropped == Len(times) - Len(recent) IN
    /\ Len(recent) <= Len(times)
    /\ \A i \in 1..dropped : times[i] > Hour
    /\ \A i \in 1..Len(recent) : times[dropped + i] = recent[i]
    /\ \A i, j \in 1..Len(recent) : i < j => recent[j] <= recent[i]

\* Stop is all that an emergency stop does.
StoppersStop == \A t \in Stoppers : pc[t] \in {"idle", "stopping", "killing"}

Spawning == {t \in Tasks : pc[t] = "spawning"}

\* A process is created only while none is running, so it is the only one, and
\* a process that is being stopped keeps others from being created.
OneProcess ==
    /\ \A t, u \in Spawning : t = u
    /\ Spawning # {} => ~Running
    /\ \A p \in alive : p = current \/ \E t \in Spawning : child[t] = p
    /\ \A t \in Tasks : pc[t] \in {"stopping", "killing"} => child[t] = current

Ages == 0..(Hour + 1)

TimesOK ==
    /\ times \in Seq(Ages) /\ recent \in Seq(0..Hour)
    /\ TimesTell
    /\ RestartsLimited

Places == {"idle", "stopping", "killing", "resting", "spawning", "gone"}

ProcessesOK ==
    /\ pc \in [Tasks -> Places]
    /\ child \in [Tasks -> Processes \cup {NoProcess}]
    /\ \A t \in Tasks : pc[t] \in {"stopping", "killing"} => child[t] \in alive
    /\ \A t \in Tasks : child[t] = NoProcess <=> pc[t] \in {"idle", "resting", "gone"}
    /\ current \in Processes \cup {NoProcess}
    /\ alive \subseteq Processes
    /\ overlapped \in BOOLEAN
    /\ StoppersStop
    /\ ~overlapped => OneProcess

SlowOK == slow \in [breaches : 0..SlowPolls, cooling : BOOLEAN]

IInv == TimesOK /\ ProcessesOK /\ SlowOK

-----------------------------------------------------------------------------
(* Ages *)

\* A set of numbers that is not empty has a smallest one: among the intervals
\* from 1 to its members, take one that contains no other.
LEMMA Smallest ==
    ASSUME NEW S \in SUBSET Nat, S # {}
    PROVE  \E m \in S : \A n \in S : m <= n
<1> DEFINE intervals == {1..n : n \in S}
<1>1. \A n \in S : 1..n \in FiniteSubsetsOf(Nat)
  <2>1. \A n \in S : IsFiniteSet(1..n) /\ 1..n \subseteq Nat
      BY FS_Interval
  <2> QED BY <2>1 DEF FiniteSubsetsOf
<1>2. intervals # {} /\ intervals \subseteq FiniteSubsetsOf(Nat)
    BY <1>1
<1>3. PICK least \in intervals :
        \A i \in intervals : ~ (<<i, least>> \in StrictSubsetOrdering(Nat))
  <2> HIDE DEF intervals
  <2> QED BY <1>2, WFMin, FS_StrictSubsetOrderingWellFounded
<1>4. PICK m \in S : least = 1..m
    OBVIOUS
<1>5. ASSUME NEW n \in S, n < m PROVE FALSE
  <2>1. 1..n \in SUBSET Nat /\ 1..m \in SUBSET Nat
      OBVIOUS
  <2>2. 1..n \subseteq 1..m /\ 1..n # 1..m
    <3>1. m \in 1..m /\ m \notin 1..n
        BY <1>5
    <3> QED BY <1>5, <3>1
  <2>3. <<1..n, 1..m>> \in StrictSubsetOrdering(Nat)
      BY <1>1, <2>1, <2>2 DEF StrictSubsetOrdering, FiniteSubsetsOf
  <2> QED BY <1>3, <1>4, <2>3
<1> QED BY <1>5

LEMMA Narrowed ==
    ASSUME NEW S, NEW T, NEW s \in Seq(S), \A i \in 1..Len(s) : s[i] \in T
    PROVE  s \in Seq(T)
OBVIOUS

\* What is left of a list without its first n entries.
LEMMA DropFirst ==
    ASSUME NEW S, NEW s \in Seq(S), NEW n \in 0..Len(s)
    PROVE  /\ SubSeq(s, n + 1, Len(s)) \in Seq(S)
           /\ Len(SubSeq(s, n + 1, Len(s))) = Len(s) - n
           /\ \A i \in 1..(Len(s) - n) : SubSeq(s, n + 1, Len(s))[i] = s[n + i]
<1>1. Len(s) \in Nat /\ n \in Nat
    BY LenProperties
<1>2. n + 1 \in 1..(Len(s) + 1) /\ Len(s) \in n..Len(s)
    BY <1>1
<1> QED BY <1>1, <1>2, SubSeqProperties

\* Among the times, pruning finds the restarts of the last hour.
LEMMA YoungIsRecent ==
    ASSUME TimesOK
    PROVE  Young(times) = recent
<1> DEFINE dropped == Len(times) - Len(recent)
           Oldest(n) == /\ \A i \in 1..n : times[i] > Hour
                        /\ n < Len(times) => times[n + 1] <= Hour
           found == CHOOSE n \in 0..Len(times) : Oldest(n)
<1>1. /\ times \in Seq(Ages) /\ recent \in Seq(0..Hour)
      /\ Len(times) \in Nat /\ Len(recent) \in Nat /\ Hour \in Nat
    BY ServerAssumption, LenProperties DEF TimesOK, Ages
<1>2. /\ \A i \in 1..Len(times) : times[i] \in Ages
      /\ \A i \in 1..Len(recent) : recent[i] \in 0..Hour
    BY <1>1
<1>3. dropped \in 0..Len(times) /\ Oldest(dropped)
  <2>1. dropped < Len(times) => times[dropped + 1] = recent[1] /\ 1 \in 1..Len(recent)
      BY <1>1 DEF TimesOK, TimesTell
  <2> QED BY <1>1, <1>2, <2>1 DEF TimesOK, TimesTell
<1>4. found \in 0..Len(times) /\ Oldest(found)
  <2> HIDE DEF Oldest
  <2> QED BY <1>3
<1> HIDE DEF found
<1>5. found = dropped
  <2>1. ASSUME found < dropped PROVE FALSE
    <3>1. found + 1 \in 1..dropped /\ found + 1 \in 1..Len(times)
        BY <1>1, <1>3, <1>4, <2>1
    <3> QED BY <1>1, <1>2, <1>3, <1>4, <3>1 DEF Ages
  <2>2. ASSUME dropped < found PROVE FALSE
    <3>1. dropped + 1 \in 1..found /\ dropped + 1 \in 1..Len(times) /\ dropped < Len(times)
        BY <1>1, <1>3, <1>4, <2>2
    <3>2. times[dropped + 1] > Hour
        BY <1>4, <3>1
    <3>3. times[dropped + 1] <= Hour
        BY <1>3, <3>1
    <3>4. times[dropped + 1] \in Nat
        BY <1>1, <1>2, <3>1 DEF Ages
    <3> QED BY <1>1, <3>2, <3>3, <3>4
  <2> QED BY <1>1, <1>3, <1>4, <2>1, <2>2
<1>6. Young(times) = SubSeq(times, dropped + 1, Len(times))
    BY <1>5 DEF Young, found
<1>7. /\ SubSeq(times, dropped + 1, Len(times)) \in Seq(Ages)
      /\ Len(SubSeq(times, dropped + 1, Len(times))) = Len(recent)
      /\ \A i \in 1..Len(recent) :
           SubSeq(times, dropped + 1, Len(times))[i] = times[dropped + i]
    BY <1>1, <1>3, DropFirst
<1>8. \A i \in 1..Len(recent) : times[dropped + i] = recent[i]
    BY DEF TimesOK, TimesTell
<1> HIDE DEF dropped
<1>9. recent \in Seq(Ages)
    BY <1>1, <1>2 DEF Ages
<1> QED BY <1>6, <1>7, <1>8, <1>9, SeqEqual

\* Of a list with the oldest first, the ages of the last hour are the last ones.
LEMMA LastHourProperties ==
    ASSUME NEW s \in Seq(Ages),
           \A i, j \in 1..Len(s) : i < j => s[j] <= s[i]
    PROVE  \E k \in 0..Len(s) :
             /\ \A i \in 1..k : s[i] > Hour
             /\ LastHour(s) \in Seq(0..Hour)
             /\ Len(LastHour(s)) = Len(s) - k
             /\ \A i \in 1..(Len(s) - k) : LastHour(s)[i] = s[k + i]
<1> DEFINE old == {i \in 1..Len(s) : s[i] > Hour}
           kept == ((1..Len(s)) \ old) \cup {Len(s) + 1}
<1>1. /\ Len(s) \in Nat /\ Hour \in Nat
      /\ \A i \in 1..Len(s) : s[i] \in 0..(Hour + 1)
    BY ServerAssumption, LenProperties DEF Ages
<1>2. PICK first \in kept : \A i \in kept : first <= i
  <2>1. kept \in SUBSET Nat /\ kept # {}
      BY <1>1
  <2> QED BY <2>1, Smallest
<1> DEFINE k == first - 1
<1>3. first \in 1..(Len(s) + 1) /\ k \in 0..Len(s)
    BY <1>1, <1>2
<1>4. \A i \in 1..k : i \in old
  <2> SUFFICES ASSUME NEW i \in 1..k, i \notin old PROVE FALSE
      OBVIOUS
  <2>1. i \in kept
      BY <1>1, <1>3
  <2> QED BY <1>2, <1>3, <2>1
<1>5. \A i \in (k + 1)..Len(s) : s[i] <= Hour
  <2> SUFFICES ASSUME NEW i \in (k + 1)..Len(s) PROVE s[i] <= Hour
      OBVIOUS
  <2>1. first \in 1..Len(s) /\ first \notin old
      BY <1>1, <1>2, <1>3
  <2>2. s[first] <= Hour
      BY <1>1, <2>1
  <2>3. i \in 1..Len(s) /\ first <= i
      BY <1>1, <1>3
  <2>4. s[i] <= s[first]
      BY <1>1, <2>1, <2>3
  <2> QED BY <1>1, <2>1, <2>2, <2>3, <2>4
<1>6. old = 1..k
  <2>1. \A i \in old : i \in 1..Len(s) /\ ~(s[i] <= Hour)
      BY <1>1
  <2> QED BY <1>1, <1>3, <1>4, <1>5, <2>1
<1>7. Cardinality(old) = k
  <2>1. k \in Nat /\ Cardinality(1..k) = k
      BY <1>1, <1>3, FS_Interval
  <2> QED BY <1>6, <2>1
<1>8. LastHour(s) = SubSeq(s, k + 1, Len(s))
    BY <1>7 DEF LastHour
<1> HIDE DEF k
<1>9. /\ LastHour(s) \in Seq(Ages)
      /\ Len(LastHour(s)) = Len(s) - k
      /\ \A i \in 1..(Len(s) - k) : LastHour(s)[i] = s[k + i]
    BY <1>3, <1>8, DropFirst
<1>10. \A i \in 1..Len(LastHour(s)) : LastHour(s)[i] \in 0..Hour
  <2> SUFFICES ASSUME NEW i \in 1..(Len(s) - k) PROVE s[k + i] \in 0..Hour
      BY <1>9
  <2>1. k + i \in (k + 1)..Len(s) /\ k + i \in 1..Len(s)
      BY <1>1, <1>3
  <2> QED BY <1>1, <1>5, <2>1
<1>11. LastHour(s) \in Seq(0..Hour)
    BY <1>9, <1>10, Narrowed
<1>12. \A i \in 1..k : s[i] > Hour
    BY <1>4
<1> QED BY <1>3, <1>9, <1>11, <1>12

-----------------------------------------------------------------------------
(* What each action keeps *)

\* A restart counts, or is refused: either way the list is pruned.
LEMMA RestartKeepsTimes ==
    ASSUME TimesOK, NEW t, TriesRestart(t)
    PROVE  TimesOK'
<1>1. Pruned = recent /\ recent \in Seq(0..Hour) /\ recent \in Seq(Ages)
      /\ Len(recent) \in Nat /\ Hour \in Nat /\ MaxRestarts \in Nat
  <2>1. Pruned = recent /\ recent \in Seq(0..Hour)
      BY YoungIsRecent DEF Pruned, TimesOK
  <2>2. Hour \in Nat /\ MaxRestarts \in Nat
      BY ServerAssumption
  <2>3. \A i \in 1..Len(recent) : recent[i] \in Ages
      BY <2>1, <2>2 DEF Ages
  <2> QED BY <2>1, <2>2, <2>3, Narrowed, LenProperties
<1>2. \A i \in 1..Len(recent) : recent[i] \in 0..Hour
    BY <1>1
<1>3. \A i, j \in 1..Len(recent) : i < j => recent[j] <= recent[i]
    BY DEF TimesOK, TimesTell
<1>4. CASE BeginRestart(t)
  <2>1. times' = Append(recent, 0) /\ recent' = Append(recent, 0)
      BY <1>1, <1>4 DEF BeginRestart
  <2>2. 0 \in 0..Hour /\ 0 \in Ages
      BY <1>1 DEF Ages
  <2>3. /\ recent' \in Seq(0..Hour) /\ times' \in Seq(Ages)
        /\ Len(recent') = Len(recent) + 1
        /\ \A i \in 1..Len(recent) : recent'[i] = recent[i]
        /\ recent'[Len(recent) + 1] = 0
      BY <1>1, <2>1, <2>2, AppendProperties
  <2>4. Len(recent) < MaxRestarts
      BY <1>1, <1>4 DEF BeginRestart, Allowed
  <2>5. \A i, j \in 1..Len(recent') : i < j => recent'[j] <= recent'[i]
    <3> SUFFICES ASSUME NEW i \in 1..(Len(recent) + 1), NEW j \in 1..(Len(recent) + 1),
                        i < j
                 PROVE  recent'[j] <= recent'[i]
        BY <2>3
    <3>0. i \in 1..Len(recent) /\ (j \in 1..Len(recent) \/ j = Len(recent) + 1)
        BY <1>1
    <3>1. i \in 1..Len(recent) /\ recent'[i] = recent[i] /\ recent[i] \in 0..Hour
        BY <1>2, <2>3, <3>0
    <3>2. CASE j \in 1..Len(recent)
      <4>1. recent[j] <= recent[i] /\ recent'[j] = recent[j]
          BY <1>3, <2>3, <3>1, <3>2
      <4> QED BY <3>1, <4>1
    <3>3. CASE j = Len(recent) + 1
        BY <1>1, <2>3, <3>1, <3>3
    <3> QED BY <3>0, <3>2, <3>3
  <2>6. TimesTell'
    <3>1. Len(times') = Len(recent') /\ Len(recent') \in Nat
        BY <1>1, <2>1, <2>3
    <3>2. Len(times') - Len(recent') = 0
        BY <3>1
    <3> QED BY <2>1, <2>5, <3>1, <3>2 DEF TimesTell
  <2>7. RestartsLimited'
      BY <1>1, <2>3, <2>4 DEF RestartsLimited
  <2> QED BY <2>3, <2>6, <2>7 DEF TimesOK
<1>5. CASE RefuseRestart(t)
  <2>1. times' = recent /\ recent' = recent
      BY <1>1, <1>5 DEF RefuseRestart
  <2>2. Len(times') - Len(recent') = 0 /\ Len(recent') \in Nat
      BY <1>1, <2>1
  <2>3. TimesTell'
      BY <1>3, <2>1, <2>2 DEF TimesTell
  <2> QED BY <1>1, <2>1, <2>3 DEF TimesOK, RestartsLimited
<1> QED BY <1>4, <1>5 DEF TriesRestart

LEMMA OlderProperties ==
    ASSUME NEW s \in Seq(Ages)
    PROVE  /\ Older(s) \in Seq(Ages) /\ Len(Older(s)) = Len(s)
           /\ \A i \in 1..Len(s) :
                Older(s)[i] = IF s[i] > Hour THEN s[i] ELSE s[i] + 1
<1>1. Len(s) \in Nat /\ Hour \in Nat /\ \A i \in 1..Len(s) : s[i] \in 0..(Hour + 1)
    BY ServerAssumption, LenProperties DEF Ages
<1>2. \A i \in 1..Len(s) : (IF s[i] > Hour THEN s[i] ELSE s[i] + 1) \in Ages
    BY <1>1 DEF Ages
<1> QED BY <1>1, <1>2 DEF Older

LEMMA TickKeepsTimes ==
    ASSUME TimesOK, Tick
    PROVE  TimesOK'
<1>1. /\ times \in Seq(Ages) /\ recent \in Seq(Ages)
      /\ Len(times) \in Nat /\ Len(recent) \in Nat /\ Len(recent) <= Len(times)
      /\ Hour \in Nat /\ MaxRestarts \in Nat
      /\ \A i \in 1..Len(times) : times[i] \in 0..(Hour + 1)
      /\ \A i \in 1..Len(recent) : recent[i] \in 0..Hour
  <2>1. /\ times \in Seq(Ages) /\ recent \in Seq(0..Hour) /\ Len(recent) <= Len(times)
        /\ Hour \in Nat /\ MaxRestarts \in Nat
      BY ServerAssumption DEF TimesOK, TimesTell
  <2>2. \A i \in 1..Len(recent) : recent[i] \in Ages
      BY <2>1 DEF Ages
  <2> QED BY <2>1, <2>2, Narrowed, LenProperties DEF Ages
<1> DEFINE older == Older(recent)
           dropped == Len(times) - Len(recent)
<1>2. /\ times' \in Seq(Ages) /\ Len(times') = Len(times)
      /\ \A i \in 1..Len(times) :
           times'[i] = IF times[i] > Hour THEN times[i] ELSE times[i] + 1
    BY <1>1, OlderProperties DEF Tick
<1>3. /\ older \in Seq(Ages) /\ Len(older) = Len(recent)
      /\ \A i \in 1..Len(recent) : older[i] = recent[i] + 1
  <2>1. /\ older \in Seq(Ages) /\ Len(older) = Len(recent)
        /\ \A i \in 1..Len(recent) :
             older[i] = IF recent[i] > Hour THEN recent[i] ELSE recent[i] + 1
      BY <1>1, OlderProperties
  <2> HIDE DEF older
  <2> QED BY <1>1, <2>1
<1> HIDE DEF older
<1>4. \A i, j \in 1..Len(older) : i < j => older[j] <= older[i]
    BY <1>1, <1>3 DEF TimesOK, TimesTell
<1>5. PICK k \in 0..Len(older) :
             /\ \A i \in 1..k : older[i] > Hour
             /\ LastHour(older) \in Seq(0..Hour)
             /\ Len(LastHour(older)) = Len(older) - k
             /\ \A i \in 1..(Len(older) - k) : LastHour(older)[i] = older[k + i]
    BY <1>3, <1>4, LastHourProperties
<1>6. /\ recent' \in Seq(0..Hour) /\ Len(recent') = Len(recent) - k
      /\ \A i \in 1..(Len(recent) - k) : recent'[i] = older[k + i]
      /\ k \in 0..Len(recent)
    BY <1>3, <1>5 DEF Tick, older
<1>7. \A i \in 1..dropped : times[i] > Hour
    BY DEF TimesOK, TimesTell
<1>8. \A i \in 1..Len(recent) : times[dropped + i] = recent[i]
    BY DEF TimesOK, TimesTell
<1>9. dropped \in Nat /\ Len(times) = dropped + Len(recent)
    BY <1>1
<1> HIDE DEF dropped
<1>10. \A i \in 1..Len(recent) : times'[dropped + i] = older[i]
  <2> SUFFICES ASSUME NEW i \in 1..Len(recent) PROVE times'[dropped + i] = older[i]
      OBVIOUS
  <2>1. dropped + i \in 1..Len(times) /\ times[dropped + i] = recent[i]
      BY <1>1, <1>8, <1>9
  <2> QED BY <1>1, <1>2, <1>3, <2>1
<1>11. Len(times') - Len(recent') = dropped + k
    BY <1>1, <1>2, <1>6, <1>9
<1>12. \A i \in 1..(dropped + k) : times'[i] > Hour
  <2> SUFFICES ASSUME NEW i \in 1..(dropped + k) PROVE times'[i] > Hour
      OBVIOUS
  <2>1. CASE i <= dropped
    <3>1. i \in 1..Len(times) /\ times[i] > Hour
        BY <1>1, <1>7, <1>9, <2>1
    <3> QED BY <1>2, <3>1
  <2>2. CASE ~(i <= dropped)
    <3>1. i - dropped \in 1..k /\ i - dropped \in 1..Len(recent)
        BY <1>1, <1>6, <1>9, <2>2
    <3>2. times'[dropped + (i - dropped)] = older[i - dropped]
        BY <1>10, <3>1
    <3>3. dropped + (i - dropped) = i
        BY <1>9
    <3> QED BY <1>5, <3>1, <3>2, <3>3
  <2> QED BY <2>1, <2>2
<1>13. \A i \in 1..Len(recent') : times'[(dropped + k) + i] = recent'[i]
  <2> SUFFICES ASSUME NEW i \in 1..Len(recent')
               PROVE  times'[(dropped + k) + i] = recent'[i]
      OBVIOUS
  <2>1. /\ i \in 1..(Len(recent) - k) /\ k + i \in 1..Len(recent)
        /\ (dropped + k) + i = dropped + (k + i)
      BY <1>1, <1>6, <1>9
  <2>2. times'[dropped + (k + i)] = older[k + i]
      BY <1>10, <2>1
  <2> QED BY <1>6, <2>1, <2>2
<1>14. \A i, j \in 1..Len(recent') : i < j => recent'[j] <= recent'[i]
  <2> SUFFICES ASSUME NEW i \in 1..Len(recent'), NEW j \in 1..Len(recent'), i < j
               PROVE  recent'[j] <= recent'[i]
      OBVIOUS
  <2>1. /\ i \in 1..(Len(recent) - k) /\ j \in 1..(Len(recent) - k)
        /\ k + i \in 1..Len(older) /\ k + j \in 1..Len(older) /\ k + i < k + j
      BY <1>1, <1>3, <1>6
  <2>2. older[k + j] <= older[k + i]
      BY <1>4, <2>1
  <2> QED BY <1>6, <2>1, <2>2
<1>15. TimesTell'
  <2>1. Len(recent') <= Len(times')
      BY <1>1, <1>2, <1>6
  <2> QED BY <1>11, <1>12, <1>13, <1>14, <2>1 DEF TimesTell
<1>16. RestartsLimited'
    BY <1>1, <1>6 DEF TimesOK, RestartsLimited
<1> QED BY <1>2, <1>6, <1>15, <1>16 DEF TimesOK

\* The roles of the tasks, from the assumption that nobody has two.
LEMMA Roles ==
    /\ Stoppers \subseteq Tasks /\ Restarters \subseteq Tasks
    /\ Watchdog \notin Stoppers
    /\ \A t \in Stoppers : t \notin Restarters /\ AfterStop(t) = "idle" /\ AfterError(t) = "idle"
    /\ \A t \in Tasks : AfterStop(t) \in {"resting", "idle"} /\ AfterError(t) \in {"gone", "idle"}
BY ServerAssumption DEF Tasks, Restarters, AfterStop, AfterError

\* A task that is not in a call begins stop.
LEMMA StopOrKeeps ==
    ASSUME ProcessesOK, NEW t \in Tasks, pc[t] = "idle",
           NEW next \in {"resting", "idle"}, t \in Stoppers => next = "idle",
           StopOr(t, next), UNCHANGED <<server, overlapped>>
    PROVE  ProcessesOK'
<1>1. CASE Running
  <2>1. /\ pc' = [pc EXCEPT ![t] = "stopping"] /\ child' = [child EXCEPT ![t] = current]
        /\ UNCHANGED <<current, alive, overlapped>>
        /\ current \in alive /\ current \in Processes /\ current # NoProcess
      BY <1>1, ServerAssumption DEF StopOr, server, Running, ProcessesOK
  <2>2. StoppersStop'
      BY <2>1 DEF ProcessesOK, StoppersStop
  <2>3. ~overlapped' => OneProcess'
      BY <2>1 DEF ProcessesOK, OneProcess, Spawning, Running
  <2> QED BY <2>1, <2>2, <2>3 DEF ProcessesOK, Places
<1>2. CASE ~Running
  <2>1. /\ pc' = [pc EXCEPT ![t] = next]
        /\ UNCHANGED <<child, current, alive, overlapped>>
      BY <1>2 DEF StopOr, server
  <2>2. StoppersStop'
      BY <2>1 DEF ProcessesOK, StoppersStop
  <2>3. ~overlapped' => OneProcess'
      BY <2>1 DEF ProcessesOK, OneProcess, Spawning, Running
  <2> QED BY <2>1, <2>2, <2>3 DEF ProcessesOK, Places
<1> QED BY <1>1, <1>2

LEMMA ExitKeeps ==
    ASSUME ProcessesOK, NEW p \in Processes, Exit(p)
    PROVE  ProcessesOK'
<1>1. /\ alive' = alive \ {p} /\ UNCHANGED <<current, overlapped>>
      /\ pc' = [t \in Tasks |-> IF t \in Woken(p) THEN AfterStop(t) ELSE pc[t]]
      /\ child' = [t \in Tasks |-> IF t \in Woken(p) THEN NoProcess ELSE child[t]]
    BY DEF Exit
<1>2. \A t \in Tasks : t \in Woken(p) <=> child[t] = p /\ pc[t] \in {"stopping", "killing"}
    BY DEF Woken
<1>3. ASSUME NEW t \in Tasks
      PROVE  \/ pc'[t] = pc[t] /\ child'[t] = child[t]
                /\ ~(child[t] = p /\ pc[t] \in {"stopping", "killing"})
             \/ pc'[t] = AfterStop(t) /\ child'[t] = NoProcess
                /\ pc[t] \in {"stopping", "killing"}
    BY <1>1, <1>2
<1>4. pc' \in [Tasks -> Places] /\ child' \in [Tasks -> Processes \cup {NoProcess}]
    BY <1>1, Roles DEF ProcessesOK, Places
<1>5. ASSUME NEW t \in Tasks
      PROVE  /\ pc'[t] \in {"stopping", "killing"} =>
                  child'[t] \in alive' /\ child'[t] = child[t] /\ pc[t] = pc'[t]
             /\ child'[t] = NoProcess <=> pc'[t] \in {"idle", "resting", "gone"}
             /\ pc'[t] = "spawning" <=> pc[t] = "spawning"
             /\ pc'[t] = "spawning" => child'[t] = child[t]
    BY <1>1, <1>3, Roles DEF ProcessesOK
<1>6. StoppersStop'
    BY <1>3, Roles DEF ProcessesOK, StoppersStop
<1>7. ~overlapped' => OneProcess'
  <2>1. Spawning' = Spawning
      BY <1>5 DEF Spawning
  <2>2. \A t \in Spawning : child'[t] = child[t]
      BY <1>5 DEF Spawning
  <2> SUFFICES ASSUME ~overlapped PROVE OneProcess'
      BY <1>1
  <2>3. OneProcess
      BY DEF ProcessesOK
  <2>4. \A q \in alive' : q = current' \/ \E t \in Spawning' : child'[t] = q
      BY <1>1, <2>1, <2>2, <2>3 DEF OneProcess
  <2>5. \A t \in Tasks : pc'[t] \in {"stopping", "killing"} => child'[t] = current'
      BY <1>1, <1>5, <2>3 DEF OneProcess
  <2>6. Spawning' # {} => ~Running'
      BY <1>1, <2>1, <2>3 DEF OneProcess, Running
  <2>7. \A t, u \in Spawning' : t = u
      BY <2>1, <2>3 DEF OneProcess
  <2> QED BY <2>4, <2>5, <2>6, <2>7 DEF OneProcess
<1> QED BY <1>1, <1>4, <1>5, <1>6, <1>7 DEF ProcessesOK

\* An await ends: SIGTERM was in vain, or start goes on.
LEMMA EndsKeeps ==
    ASSUME ProcessesOK, NEW t \in Tasks, Ends(t)
    PROVE  ProcessesOK'
<1>1. CASE Timeout(t)
  <2>1. CASE Running
    <3>1. /\ pc' = [pc EXCEPT ![t] = "killing"] /\ child' = [child EXCEPT ![t] = current]
          /\ UNCHANGED <<current, alive, overlapped>> /\ pc[t] = "stopping"
        BY <1>1, <2>1 DEF Timeout, Killed, server
    <3>0. current \in alive /\ current \in Processes /\ current # NoProcess
        BY <2>1, ServerAssumption DEF Running, ProcessesOK
    <3>2. StoppersStop'
        BY <3>1 DEF ProcessesOK, StoppersStop
    <3>3. ~overlapped' => OneProcess'
        BY <3>0, <3>1 DEF ProcessesOK, OneProcess, Spawning, Running
    <3> QED BY <3>0, <3>1, <3>2, <3>3 DEF ProcessesOK, Places
  <2>2. CASE ~Running
    <3>1. /\ pc' = [pc EXCEPT ![t] = AfterError(t)]
          /\ child' = [child EXCEPT ![t] = NoProcess]
          /\ UNCHANGED <<current, alive, overlapped>> /\ pc[t] = "stopping"
        BY <1>1, <2>2 DEF Timeout, Killed, server
    <3>2. StoppersStop'
        BY <3>1, Roles DEF ProcessesOK, StoppersStop
    <3>3. ~overlapped' => OneProcess'
        BY <3>1, Roles DEF ProcessesOK, OneProcess, Spawning, Running
    <3> QED BY <3>1, <3>2, <3>3, Roles DEF ProcessesOK, Places
  <2> QED BY <2>1, <2>2
<1>2. CASE StartIsDone(t) \/ StartFails(t)
  <2>1. PICK place \in {"idle", "gone"} : pc' = [pc EXCEPT ![t] = place]
      BY <1>2, Roles DEF StartIsDone, StartFails
  <2>2. UNCHANGED <<child, current, alive, overlapped>> /\ pc[t] = "resting"
      BY <1>2 DEF StartIsDone, StartFails, server
  <2>3. StoppersStop'
      BY <2>1, <2>2 DEF ProcessesOK, StoppersStop
  <2>4. ~overlapped' => OneProcess'
      BY <2>1, <2>2 DEF ProcessesOK, OneProcess, Spawning, Running
  <2> QED BY <2>1, <2>2, <2>3, <2>4 DEF ProcessesOK, Places
<1>3. CASE StartProcess(t)
  <2>1. PICK p \in Free : child' = [child EXCEPT ![t] = p] /\ alive' = alive \cup {p}
      BY <1>3 DEF StartProcess
  <2>2. /\ pc' = [pc EXCEPT ![t] = "spawning"] /\ pc[t] = "resting"
        /\ current' = current /\ ~Running
        /\ overlapped' = (overlapped \/ Spawning # {})
      BY <1>3 DEF StartProcess, Needed, Spawning
  <2>3. p \in Processes /\ p # current /\ p # NoProcess
      BY ServerAssumption DEF Free
  <2>4. StoppersStop'
      BY <2>2 DEF ProcessesOK, StoppersStop
  <2>5. ~overlapped' => OneProcess'
    <3> SUFFICES ASSUME ~overlapped' PROVE OneProcess'
        OBVIOUS
    <3>1. ~overlapped /\ Spawning = {} /\ OneProcess
        BY <2>2 DEF ProcessesOK
    <3>2. Spawning' = {t}
        BY <2>2, <3>1 DEF ProcessesOK, Spawning
    <3>3. child'[t] = p
        BY <2>1 DEF ProcessesOK
    <3>4. alive = {}
        BY <2>2, <3>1 DEF OneProcess, Running
    <3>5. \A u \in Tasks : pc'[u] \notin {"stopping", "killing"}
        BY <2>2, <3>4 DEF ProcessesOK
    <3> QED BY <2>1, <2>2, <2>3, <3>2, <3>3, <3>4, <3>5 DEF OneProcess, Running
  <2> QED BY <2>1, <2>2, <2>3, <2>4, <2>5 DEF ProcessesOK, Places
<1>4. CASE Spawned(t)
  <2>1. /\ pc' = [pc EXCEPT ![t] = "idle"] /\ pc[t] = "spawning"
        /\ current' = child[t] /\ child' = [child EXCEPT ![t] = NoProcess]
        /\ UNCHANGED <<alive, overlapped>>
      BY <1>4 DEF Spawned
  <2>2. StoppersStop'
      BY <2>1 DEF ProcessesOK, StoppersStop
  <2>3. ~overlapped' => OneProcess'
    <3> SUFFICES ASSUME ~overlapped PROVE OneProcess'
        BY <2>1
    <3>1. OneProcess /\ t \in Spawning
        BY <2>1 DEF ProcessesOK, Spawning
    <3>2. Spawning = {t} /\ current \notin alive
        BY <3>1 DEF OneProcess, Running
    <3>3. Spawning' = {}
        BY <2>1, <3>2 DEF ProcessesOK, Spawning
    <3>4. \A u \in Tasks : pc[u] \notin {"stopping", "killing"}
        BY <3>1, <3>2 DEF ProcessesOK, OneProcess
    <3>5. \A u \in Tasks : pc'[u] \notin {"stopping", "killing"}
        BY <2>1, <3>4 DEF ProcessesOK
    <3>6. \A p \in alive : p = child[t]
        BY <3>1, <3>2 DEF OneProcess
    <3> QED BY <2>1, <3>3, <3>5, <3>6 DEF OneProcess
  <2> QED BY <2>1, <2>2, <2>3 DEF ProcessesOK, Places
<1> QED BY <1>1, <1>2, <1>3, <1>4 DEF Ends

LEMMA InitEstablishes == Init => IInv
<1> SUFFICES ASSUME Init PROVE IInv
    OBVIOUS
<1>1. TimesOK
  <2>1. << >> \in Seq(Ages) /\ << >> \in Seq(0..Hour) /\ Len(<< >>) = 0
      BY EmptySeq
  <2> QED BY <2>1, ServerAssumption DEF Init, TimesOK, TimesTell, RestartsLimited
<1>2. PICK watch \in {"idle", "gone"} :
        pc = [t \in Tasks |-> CASE t = Boot -> "resting"
                                [] t = Watchdog -> watch
                                [] OTHER -> "idle"]
    BY DEF Init
<1>3. \A t \in Tasks : pc[t] \in {"idle", "resting", "gone"} /\ (t \in Stoppers => pc[t] = "idle")
  <2>1. Boot \notin Stoppers /\ Watchdog \notin Stoppers
      BY ServerAssumption
  <2> QED BY <1>2, <2>1
<1>4. ProcessesOK
  <2>1. pc \in [Tasks -> Places]
      BY <1>2, <1>3 DEF Places
  <2>2. StoppersStop
      BY <1>3, Roles DEF StoppersStop
  <2>3. OneProcess
      BY <1>3 DEF Init, OneProcess, Spawning, Running
  <2> QED BY <1>3, <2>1, <2>2, <2>3 DEF Init, ProcessesOK
<1>5. SlowOK
    BY ServerAssumption DEF Init, SlowOK
<1> QED BY <1>1, <1>4, <1>5 DEF IInv

LEMMA NextKeeps == IInv /\ [Next]_vars => IInv'
<1> SUFFICES ASSUME IInv, [Next]_vars PROVE IInv'
    OBVIOUS
<1> USE DEF IInv
<1>1. ASSUME NEW t \in Restarters, TriesRestart(t), SlowOK' PROVE IInv'
  <2>1. TimesOK'
      BY <1>1, RestartKeepsTimes
  <2>2. ProcessesOK'
    <3>1. CASE BeginRestart(t)
      <4>1. /\ t \in Tasks /\ t \notin Stoppers /\ pc[t] = "idle" /\ StopOr(t, "resting")
            /\ UNCHANGED <<server, overlapped>>
          BY <1>1, <3>1, Roles DEF BeginRestart
      <4> QED BY <4>1, StopOrKeeps
    <3>2. CASE RefuseRestart(t)
        BY <3>2 DEF RefuseRestart, server, ProcessesOK, StoppersStop, OneProcess,
                    Spawning, Running
    <3> QED BY <1>1, <3>1, <3>2 DEF TriesRestart
  <2> QED BY <1>1, <2>1, <2>2
<1>2. CASE \E t \in Callers \cup {Watchdog} : TriesRestart(t) /\ UNCHANGED slow
    BY <1>1, <1>2 DEF Restarters, SlowOK
<1>3. CASE SlowRestart
  <2>1. SlowOK' /\ Monitor \in Restarters
      BY <1>3, ServerAssumption DEF SlowRestart, SlowOK, Restarters
  <2> QED BY <1>1, <1>3, <2>1 DEF SlowRestart
<1>4. CASE NotSlow \/ Slow \/ CoolDown \/ UNCHANGED vars
  <2>1. SlowOK'
    <3>1. Breaches \in 0..SlowPolls /\ 0 \in 0..SlowPolls
        BY ServerAssumption DEF SlowOK, Breaches
    <3> QED BY <1>4, <3>1 DEF NotSlow, Slow, CoolDown, SlowOK, vars
  <2>2. UNCHANGED <<pc, child, server, times, recent, overlapped>>
      BY <1>4 DEF NotSlow, Slow, CoolDown, vars
  <2> QED BY <2>1, <2>2 DEF server, TimesOK, TimesTell, RestartsLimited, ProcessesOK,
                            StoppersStop, OneProcess, Spawning, Running
<1>5. ASSUME UNCHANGED <<times, slow, recent>>, ProcessesOK' PROVE IInv'
    BY <1>5 DEF TimesOK, TimesTell, RestartsLimited, SlowOK
<1>6. CASE \E t \in Stoppers : Stop(t)
  <2>1. PICK t \in Stoppers : Stop(t)
      BY <1>6
  <2>2. ProcessesOK'
      BY <2>1, Roles, StopOrKeeps DEF Stop
  <2> QED BY <1>5, <2>1, <2>2 DEF Stop
<1>7. CASE \E t \in Tasks : Ends(t)
  <2>1. PICK t \in Tasks : Ends(t)
      BY <1>7
  <2>2. ProcessesOK'
      BY <2>1, EndsKeeps
  <2>3. UNCHANGED <<times, slow, recent>>
      BY <2>1 DEF Ends, Timeout, StartIsDone, StartProcess, StartFails, Spawned
  <2> QED BY <1>5, <2>2, <2>3
<1>8. CASE \E p \in Processes : Exit(p)
  <2>1. PICK p \in Processes : Exit(p)
      BY <1>8
  <2>2. ProcessesOK'
      BY <2>1, ExitKeeps
  <2> QED BY <1>5, <2>1, <2>2 DEF Exit
<1>9. CASE Tick
  <2>1. TimesOK'
      BY <1>9, TickKeepsTimes
  <2>2. UNCHANGED <<pc, child, server, slow, overlapped>>
      BY <1>9 DEF Tick
  <2> QED BY <2>1, <2>2 DEF SlowOK, server, ProcessesOK, StoppersStop, OneProcess,
                            Spawning, Running
<1> QED BY <1>2, <1>3, <1>4, <1>6, <1>7, <1>8, <1>9 DEF Next

THEOREM Invariance == Spec => []IInv
BY InitEstablishes, NextKeeps, PTL DEF Spec

-----------------------------------------------------------------------------
(* What the manager promises *)

\* A task waits for a process exactly while it stops or kills one, and that
\* process has not exited: no wait is for ever.
THEOREM TypeCorrect == Spec => []TypeOK
<1>1. TimesOK => times \in Seq(0..(Hour + 1)) /\ recent \in Seq(0..Hour)
    BY DEF TimesOK, Ages
<1>2. IInv => TypeOK
    BY <1>1 DEF IInv, ProcessesOK, SlowOK, TypeOK, Places
<1> QED BY <1>2, Invariance, PTL

\* Whatever tasks call restart, no hour sees more than max_restarts_per_hour.
THEOREM RestartsAreLimited == Spec => []RestartsLimited
<1>1. IInv => RestartsLimited
    BY DEF IInv, TimesOK
<1> QED BY <1>1, Invariance, PTL

\* More than one server only comes of two processes created at the same time.
THEOREM OnlyOneAtATime == Spec => []OneAtATime
<1>1. IInv => OneAtATime
  <2> SUFFICES ASSUME IInv, ~overlapped PROVE Cardinality(alive) <= 1
      BY DEF OneAtATime
  <2>1. OneProcess
      BY DEF IInv, ProcessesOK
  <2>2. \E x : alive \subseteq {x}
    <3>1. CASE Spawning = {}
        BY <2>1, <3>1 DEF OneProcess
    <3>2. CASE Spawning # {}
      <4>1. PICK t \in Spawning : TRUE
          BY <3>2
      <4>2. \A p \in alive : p = child[t]
          BY <2>1, <3>2, <4>1 DEF OneProcess, Running
      <4> QED BY <4>2
    <3> QED BY <3>1, <3>2
  <2>3. PICK x : alive \in SUBSET {x}
      BY <2>2
  <2>4. IsFiniteSet({x}) /\ Cardinality({x}) = 1
      BY FS_Singleton
  <2> QED BY <2>3, <2>4, FS_Subset
<1> QED BY <1>1, Invariance, PTL

\* And as long as that has not happened, stop signals the process it found.
THEOREM StopsOnlyWhatItFound == Spec => []StopsWhatItFound
<1>1. IInv => StopsWhatItFound
    BY DEF IInv, ProcessesOK, OneProcess, StopsWhatItFound
<1> QED BY <1>1, Invariance, PTL

\* What answers a stop is the exit it waits for.
LEMMA OnlyExitAnswers ==
    ASSUME ProcessesOK, Next, NEW t \in Tasks, pc[t] \in {"stopping", "killing"},
           pc'[t] = "idle", child[t] = current
    PROVE  Exit(child[t])
<1>1. pc'[t] # pc[t] /\ pc \in [Tasks -> Places] /\ Running
    BY DEF ProcessesOK, Running
<1>2. ASSUME NEW u \in Tasks, NEW place, pc' = [pc EXCEPT ![u] = place] PROVE u = t
    BY <1>1, <1>2
<1>3. ASSUME NEW u \in Tasks, NEW place, pc[u] = "idle", StopOr(u, place) PROVE FALSE
    BY <1>2, <1>3 DEF StopOr
<1>4. ASSUME NEW u \in Restarters, TriesRestart(u) PROVE FALSE
    BY <1>1, <1>3, <1>4, Roles DEF TriesRestart, BeginRestart, RefuseRestart
<1>5. ASSUME NEW u \in Stoppers, Stop(u) PROVE FALSE
    BY <1>3, <1>5, Roles DEF Stop
<1>6. ASSUME NEW u \in Tasks, Ends(u) PROVE FALSE
  <2>1. \E place : pc' = [pc EXCEPT ![u] = place]
      BY <1>6 DEF Ends, Timeout, Killed, StartIsDone, StartProcess, StartFails, Spawned
  <2>2. u = t
      BY <1>2, <2>1
  <2>3. pc' = [pc EXCEPT ![t] = "killing"]
      BY <1>1, <1>6, <2>2 DEF Ends, Timeout, Killed, StartIsDone, StartProcess, StartFails,
                              Spawned
  <2> QED BY <1>1, <2>3
<1>7. \E p \in Processes : Exit(p)
  <2>1. Monitor \in Restarters /\ Callers \cup {Watchdog} \subseteq Restarters
      BY DEF Restarters
  <2> QED BY <1>1, <1>4, <1>5, <1>6, <2>1
          DEF Next, NotSlow, Slow, SlowRestart, CoolDown, Tick
<1>8. PICK p \in Processes : Exit(p)
    BY <1>7
<1>9. t \in Woken(p)
    BY <1>1, <1>8 DEF Exit
<1> QED BY <1>8, <1>9 DEF Woken

\* A stop that is answered leaves no server behind, unless another task is just
\* creating one.
THEOREM StopIsFinal == Spec => StopLeavesNone
<1>1. IInv /\ [Next]_vars =>
        [\A t \in Stoppers :
           /\ StopAnswers(t)
           /\ ~overlapped /\ \A other \in Tasks : pc[other] # "spawning"
           => alive' = {}]_vars
  <2> SUFFICES ASSUME IInv, Next, NEW t \in Stoppers, StopAnswers(t), ~overlapped,
                      \A other \in Tasks : pc[other] # "spawning"
               PROVE  alive' = {}
      OBVIOUS
  <2>1. /\ t \in Tasks /\ pc \in [Tasks -> Places]
        /\ OneProcess /\ alive \subseteq {current}
      BY Roles DEF IInv, ProcessesOK, OneProcess, Spawning
  <2>2. CASE Stop(t)
    <3>1. ~Running /\ alive' = alive
        BY <2>1, <2>2 DEF StopAnswers, Stop, StopOr, server
    <3> QED BY <2>1, <3>1 DEF Running
  <2>3. CASE pc[t] # "idle"
    <3>1. pc[t] \in {"stopping", "killing"} /\ pc'[t] = "idle"
        BY <2>3 DEF StopAnswers, IInv, ProcessesOK, StoppersStop
    <3>2. child[t] = current /\ child[t] \in alive
        BY <2>1, <3>1 DEF IInv, ProcessesOK, OneProcess
    <3>3. Exit(child[t])
        BY <2>1, <3>1, <3>2, OnlyExitAnswers DEF IInv
    <3> QED BY <2>1, <3>2, <3>3 DEF Exit
  <2> QED BY <2>2, <2>3 DEF StopAnswers
<1> QED BY <1>1, Invariance, PTL DEF Spec, StopLeavesNone
=============================================================================
