---------------------------- MODULE SchedulerProofs ----------------------------
(***************************************************************************)
(* Proofs about Scheduler for any number of jobs, restarts and failures,   *)
(* any kinds of job and any faults of _save.  IInv is the inductive        *)
(* invariant.                                                              *)
(***************************************************************************)
EXTENDS Scheduler, FiniteSetTheorems, SequenceTheorems, TLAPS

\* A job that failed too often is cancelled, in memory and in every file that
\* a save has left behind.
SoundJob == {job \in Job : ~job.cancelled => job.failures < MaxFailures}

ListOK(list) == list \in Seq(SoundJob) /\ Len(list) <= MaxJobs

\* The poll looks at jobs there are, and has none left while it sleeps.  The
\* job that is being triggered may fail once more.
PollOK ==
    /\ pc \in {"sleeping", "scanning", "firing", "down"}
    /\ todo \subseteq 1..Len(jobs)
    /\ pc \in {"sleeping", "down"} => todo = {}
    /\ pc = "firing" => todo # {} /\ jobs[At].failures < MaxFailures
    /\ pc = "down" => restarts > 0 /\ jobs = << >>

\* Before the first restart only the job that is being triggered is marked.
MarksOK ==
    restarts = 0 => \A id \in 1..Len(jobs) : jobs[id].running => pc = "firing" /\ id = At

\* Where the jobs are: in the file alone while the process is down.
Kept == IF pc = "down" THEN file ELSE jobs

\* What is over is cancelled for good, unless a change was lost.
OverOK == ~forgot => \A id \in over : id \in 1..Len(Kept) /\ Kept[id].cancelled

IInv ==
    /\ ListOK(jobs) /\ ListOK(file)
    /\ restarts \in 0..MaxRestarts /\ over \subseteq Ids /\ forgot \in BOOLEAN
    /\ PollOK
    /\ MarksOK
    /\ OverOK

-----------------------------------------------------------------------------
(* Jobs and lists of jobs *)

\* A set of numbers that is not empty has a smallest one: among the intervals
\* from 1 to its members, take one that contains no other.
LEMMA Smallest ==
    ASSUME NEW S \in SUBSET Nat, S # {}
    PROVE  \E m \in S : \A n \in S : m <= n
<1> DEFINE intervals == {1..n : n \in S}
<1>1. \A n \in S : 1..n \in FiniteSubsetsOf(Nat)
  <2>1. \A n \in S : IsFiniteSet(1..n) /\ 1..n \subseteq Nat
      BY FS_Interval
  <2> QED BY <2>1 DEF FiniteSubsetsOf
<1>2. intervals # {} /\ intervals \subseteq FiniteSubsetsOf(Nat)
    BY <1>1
<1>3. PICK least \in intervals :
        \A i \in intervals : ~ (<<i, least>> \in StrictSubsetOrdering(Nat))
  <2> HIDE DEF intervals
  <2> QED BY <1>2, WFMin, FS_StrictSubsetOrderingWellFounded
<1>4. PICK m \in S : least = 1..m
    OBVIOUS
<1>5. ASSUME NEW n \in S, n < m PROVE FALSE
  <2>1. 1..n \in SUBSET Nat /\ 1..m \in SUBSET Nat
      OBVIOUS
  <2>2. 1..n \subseteq 1..m /\ 1..n # 1..m
    <3>1. m \in 1..m /\ m \notin 1..n
        BY <1>5
    <3> QED BY <1>5, <3>1
  <2>3. <<1..n, 1..m>> \in StrictSubsetOrdering(Nat)
      BY <1>1, <2>1, <2>2 DEF StrictSubsetOrdering, FiniteSubsetsOf
  <2> QED BY <1>3, <1>4, <2>3
<1> QED BY <1>5

\* The scan is at one of the jobs it has still to look at.
LEMMA AtIsNext ==
    ASSUME PollOK, todo # {}
    PROVE  At \in todo /\ At \in 1..Len(jobs)
<1>1. todo \in SUBSET Nat /\ todo \subseteq 1..Len(jobs)
    BY DEF PollOK
<1>2. \E m \in todo : \A n \in todo : m <= n
    BY <1>1, Smallest
<1> QED BY <1>1, <1>2 DEF At

\* What the scan and the tool make of a job.
LEMMA JobTypes ==
    ASSUME NEW job \in SoundJob
    PROVE  /\ ~job.cancelled => Marked(job) \in SoundJob
           /\ [job EXCEPT !.cancelled = TRUE] \in SoundJob
           /\ [job EXCEPT !.due = TRUE] \in SoundJob
           /\ Settled([job EXCEPT !.failures = 0]) \in SoundJob
           /\ job.failures < MaxFailures => Settled(Failed(job)) \in SoundJob
<1>1. MaxFailures \in Nat \ {0}
    BY SchedulerAssumption
<1>2. job \in Job /\ job.failures \in 0..MaxFailures
    BY DEF SoundJob, Job
<1>3. ~job.cancelled => Marked(job) \in SoundJob
  <2> DEFINE once == job.kind = "once"
  <2>1. once \in BOOLEAN
      OBVIOUS
  <2>2. Marked(job) = [job EXCEPT !.running = TRUE, !.due = FALSE, !.cancelled = once]
      BY DEF Marked
  <2> HIDE DEF once
  <2>3. Marked(job) \in Job /\ Marked(job).failures = job.failures
      BY <1>2, <2>1, <2>2 DEF Job
  <2> QED BY <2>3 DEF SoundJob
<1>4. [job EXCEPT !.cancelled = TRUE] \in SoundJob /\ [job EXCEPT !.due = TRUE] \in SoundJob
    BY <1>1, <1>2 DEF SoundJob, Job
<1>5. Settled([job EXCEPT !.failures = 0]) \in SoundJob
  <2> DEFINE cleared == [job EXCEPT !.failures = 0]
  <2>1. cleared \in Job /\ cleared.failures = 0
      BY <1>1, <1>2 DEF Job
  <2> HIDE DEF cleared
  <2>2. Settled(cleared) \in Job /\ Settled(cleared).failures = 0
      BY <2>1 DEF Job, Settled
  <2>3. Settled(cleared) \in SoundJob
      BY <1>1, <2>2 DEF SoundJob
  <2> QED BY <2>3 DEF cleared
<1>6. job.failures < MaxFailures => Settled(Failed(job)) \in SoundJob
  <2> SUFFICES ASSUME job.failures < MaxFailures PROVE Settled(Failed(job)) \in SoundJob
      OBVIOUS
  <2>1. job.failures + 1 \in 0..MaxFailures
      BY <1>1, <1>2
  <2> DEFINE cancelled == job.cancelled \/ job.failures + 1 >= MaxFailures
             failures  == job.failures + 1
  <2>2. cancelled \in BOOLEAN /\ (~cancelled => failures < MaxFailures)
      BY <1>1, <1>2
  <2>3. Failed(job) = [job EXCEPT !.failures = failures, !.cancelled = cancelled]
      BY DEF Failed
  <2> HIDE DEF cancelled, failures
  <2>4. /\ Failed(job) \in Job
        /\ Failed(job).failures = failures /\ Failed(job).cancelled = cancelled
      BY <1>2, <2>1, <2>2, <2>3 DEF Job, failures
  <2>5. Failed(job) \in SoundJob
      BY <2>2, <2>4 DEF SoundJob
  <2> QED BY <2>5 DEF Settled, SoundJob, Job
<1> QED BY <1>3, <1>4, <1>5, <1>6

\* One job of a list is replaced.
With(list, id, job) == [list EXCEPT ![id] = job]

LEMMA ReplaceOne ==
    ASSUME NEW list, ListOK(list), NEW id \in 1..Len(list), NEW job \in SoundJob
    PROVE  /\ ListOK(With(list, id, job)) /\ Len(With(list, id, job)) = Len(list)
           /\ \A i \in 1..Len(list) :
                With(list, id, job)[i] = IF i = id THEN job ELSE list[i]
<1> DEFINE result == With(list, id, job)
<1>1. list \in Seq(SoundJob) /\ Len(list) <= MaxJobs
    BY DEF ListOK
<1>2. result \in Seq(SoundJob) /\ Len(result) = Len(list)
    BY <1>1, ExceptSeq DEF With
<1>3. \A i \in 1..Len(list) : result[i] = IF i = id THEN job ELSE list[i]
    BY <1>1, ExceptSeq DEF With
<1> QED BY <1>1, <1>2, <1>3 DEF ListOK

\* Whatever a save ends in, the file holds a sound list.
LEMMA SaveKeeps ==
    ASSUME ListOK(jobs'), ListOK(file), Save
    PROVE  ListOK(file')
<1>1. ListOK(<< >>)
    BY SchedulerAssumption DEF ListOK
<1> QED BY <1>1 DEF Save

\* A job of a sound list is sound.
LEMMA JobOfList ==
    ASSUME NEW list, ListOK(list), NEW id \in 1..Len(list)
    PROVE  list[id] \in SoundJob
BY DEF ListOK

-----------------------------------------------------------------------------
(* What each action keeps *)

LEMMA InitEstablishes == Init => IInv
<1> SUFFICES ASSUME Init PROVE IInv
    OBVIOUS
<1>1. ListOK(<< >>) /\ Len(<< >>) = 0 /\ 0 \in 0..MaxRestarts
    BY SchedulerAssumption DEF ListOK
<1>2. PollOK /\ MarksOK /\ OverOK
    BY <1>1 DEF Init, PollOK, MarksOK, OverOK
<1> QED BY <1>1, <1>2 DEF Init, IInv

LEMMA PollStartsKeeps ==
    ASSUME IInv, PollStarts \/ PollEnds \/ SkipJob \/ PollBreaks
    PROVE  IInv'
<1>1. /\ UNCHANGED <<jobs, file, restarts, over, forgot>>
      /\ pc \in {"sleeping", "scanning"} /\ pc' \in {"sleeping", "scanning"}
    BY DEF PollStarts, PollEnds, SkipJob, PollBreaks, ghosts
<1>2. todo' \subseteq 1..Len(jobs) /\ (pc' = "sleeping" => todo' = {})
    BY DEF PollStarts, PollEnds, SkipJob, PollBreaks, IInv, PollOK
<1> QED BY <1>1, <1>2 DEF IInv, PollOK, MarksOK, OverOK, Kept

\* One job is replaced, and saved.
LEMMA Replaced ==
    ASSUME IInv, NEW id \in 1..Len(jobs), NEW job \in SoundJob,
           jobs' = [jobs EXCEPT ![id] = job], Save
    PROVE  /\ ListOK(jobs') /\ ListOK(file') /\ Len(jobs') = Len(jobs)
           /\ \A i \in 1..Len(jobs) : jobs'[i] = IF i = id THEN job ELSE jobs[i]
<1>1. /\ ListOK(jobs') /\ Len(jobs') = Len(jobs)
      /\ \A i \in 1..Len(jobs) : jobs'[i] = IF i = id THEN job ELSE jobs[i]
  <2>1. jobs' = With(jobs, id, job) /\ ListOK(jobs)
      BY DEF IInv, With
  <2>2. /\ ListOK(With(jobs, id, job)) /\ Len(With(jobs, id, job)) = Len(jobs)
        /\ \A i \in 1..Len(jobs) :
             With(jobs, id, job)[i] = IF i = id THEN job ELSE jobs[i]
      BY <2>1, ReplaceOne
  <2> QED BY <2>1, <2>2 DEF ListOK
<1>2. ListOK(file')
    BY <1>1, SaveKeeps DEF IInv
<1> QED BY <1>1, <1>2

\* Triggering a job marks it before anything else may happen.
LEMMA FireJobKeeps ==
    ASSUME IInv, FireJob
    PROVE  IInv'
<1>1. /\ pc = "scanning" /\ todo # {} /\ ~jobs[At].cancelled
      /\ pc' = "firing" /\ UNCHANGED <<todo, restarts, forgot>>
      /\ over' = IF jobs[At].kind = "once" THEN over \cup {At} ELSE over
    BY DEF FireJob, Firing, PassedOver
<1>2. At \in 1..Len(jobs) /\ At \in todo /\ jobs[At] \in SoundJob /\ At' = At
    BY <1>1, AtIsNext, JobOfList DEF IInv, At
<1> DEFINE new == Marked(jobs[At])
<1>3. /\ new \in SoundJob
      /\ new.failures = jobs[At].failures /\ (jobs[At].kind = "once" => new.cancelled)
  <2>1. new \in SoundJob
      BY <1>1, <1>2, JobTypes
  <2>2. jobs[At] \in Job
      BY <1>2 DEF SoundJob
  <2> DEFINE once == jobs[At].kind = "once"
  <2>3. new = [jobs[At] EXCEPT !.running = TRUE, !.due = FALSE, !.cancelled = once]
      BY DEF Marked
  <2> HIDE DEF new
  <2>4. new.failures = jobs[At].failures
      BY <2>2, <2>3 DEF Job
  <2>5. new.cancelled = once
    <3> HIDE DEF once
    <3> QED BY <2>2, <2>3 DEF Job
  <2> QED BY <2>1, <2>4, <2>5
<1>4. jobs' = [jobs EXCEPT ![At] = new] /\ Save
    BY DEF FireJob
<1> HIDE DEF new
<1>5. /\ ListOK(jobs') /\ ListOK(file') /\ Len(jobs') = Len(jobs)
      /\ \A i \in 1..Len(jobs) : jobs'[i] = IF i = At THEN new ELSE jobs[i]
    BY <1>2, <1>3, <1>4, Replaced
<1>6. jobs[At].failures < MaxFailures
    BY <1>1, <1>2 DEF SoundJob
<1>7. PollOK'
    BY <1>1, <1>2, <1>3, <1>5, <1>6 DEF IInv, PollOK
<1>8. MarksOK'
    BY <1>1, <1>2, <1>5 DEF IInv, MarksOK
<1>9. OverOK'
  <2> SUFFICES ASSUME ~forgot, NEW id \in over'
               PROVE  id \in 1..Len(jobs) /\ jobs'[id].cancelled
      BY <1>1, <1>5 DEF OverOK, Kept
  <2>1. CASE id \in over
    <3>1. id \in 1..Len(jobs) /\ jobs[id].cancelled
        BY <1>1, <2>1 DEF IInv, OverOK, Kept
    <3> QED BY <1>1, <1>5, <3>1
  <2>2. CASE id \notin over
      BY <1>1, <1>2, <1>3, <1>5, <2>2
  <2> QED BY <2>1, <2>2
<1>10. over' \subseteq Ids
  <2>1. At \in Ids
      BY <1>2, SchedulerAssumption, LenProperties DEF IInv, ListOK, Ids
  <2> QED BY <1>1, <2>1 DEF IInv
<1> QED BY <1>1, <1>5, <1>7, <1>8, <1>9, <1>10 DEF IInv

LEMMA DailyFailsKeeps ==
    ASSUME IInv, DailyFails
    PROVE  IInv'
<1>1. pc = "scanning" /\ todo # {} /\ UNCHANGED <<pc, restarts, over, forgot>>
      /\ todo' = todo \ {At}
    BY DEF DailyFails, Firing, ghosts
<1> DEFINE new == [jobs[At] EXCEPT !.cancelled = TRUE]
<1>2. At \in 1..Len(jobs) /\ jobs[At] \in SoundJob
    BY <1>1, AtIsNext, JobOfList DEF IInv
<1>3. new \in SoundJob /\ new.cancelled /\ new.running = jobs[At].running
    BY <1>2, JobTypes DEF SoundJob, Job
<1>4. jobs' = [jobs EXCEPT ![At] = new] /\ Save
    BY DEF DailyFails
<1> HIDE DEF new
<1>5. /\ ListOK(jobs') /\ ListOK(file') /\ Len(jobs') = Len(jobs)
      /\ \A i \in 1..Len(jobs) : jobs'[i] = IF i = At THEN new ELSE jobs[i]
    BY <1>2, <1>3, <1>4, Replaced
<1>6. MarksOK'
    BY <1>1, <1>3, <1>5 DEF IInv, MarksOK
<1>7. OverOK'
    BY <1>1, <1>3, <1>5 DEF IInv, OverOK, Kept
<1> QED BY <1>1, <1>5, <1>6, <1>7 DEF IInv, PollOK

\* However a trigger ends, its job is free again.
LEMMA TriggerEndsKeeps ==
    ASSUME IInv, TriggerEnds
    PROVE  IInv'
<1>1. /\ pc = "firing" /\ pc' = "scanning" /\ todo' \subseteq todo
      /\ UNCHANGED <<restarts, over, forgot>> /\ Save
    BY DEF TriggerEnds, Rest, ghosts
<1>2. /\ At \in 1..Len(jobs) /\ jobs[At] \in SoundJob /\ jobs[At].failures < MaxFailures
    BY <1>1, AtIsNext, JobOfList DEF IInv, PollOK
<1>3. PICK new \in SoundJob : /\ jobs' = [jobs EXCEPT ![At] = new]
                              /\ ~new.running
                              /\ jobs[At].cancelled => new.cancelled
  <2>1. CASE jobs' = [jobs EXCEPT ![At] = Settled([@ EXCEPT !.failures = 0])]
    <3> DEFINE new == Settled([jobs[At] EXCEPT !.failures = 0])
    <3>1. new \in SoundJob /\ ~new.running /\ new.cancelled = jobs[At].cancelled
        BY <1>2, JobTypes DEF Settled, SoundJob, Job
    <3>2. jobs' = [jobs EXCEPT ![At] = new]
        BY <2>1
    <3> HIDE DEF new
    <3> QED BY <3>1, <3>2
  <2>2. CASE jobs' = [jobs EXCEPT ![At] = Settled(Failed(@))]
    <3> DEFINE new == Settled(Failed(jobs[At]))
    <3>1. new \in SoundJob
        BY <1>2, JobTypes
    <3>2. ~new.running /\ (jobs[At].cancelled => new.cancelled)
        BY <1>2 DEF Settled, Failed, SoundJob, Job
    <3>3. jobs' = [jobs EXCEPT ![At] = new]
        BY <2>2
    <3> HIDE DEF new
    <3> QED BY <3>1, <3>2, <3>3
  <2> QED BY <2>1, <2>2 DEF TriggerEnds
<1>4. /\ ListOK(jobs') /\ ListOK(file') /\ Len(jobs') = Len(jobs)
      /\ \A i \in 1..Len(jobs) : jobs'[i] = IF i = At THEN new ELSE jobs[i]
    BY <1>1, <1>2, <1>3, Replaced
<1>5. MarksOK'
    BY <1>1, <1>3, <1>4 DEF IInv, MarksOK
<1>6. OverOK'
    BY <1>1, <1>3, <1>4 DEF IInv, OverOK, Kept
<1> QED BY <1>1, <1>4, <1>5, <1>6 DEF IInv, PollOK

LEMMA CancelKeeps ==
    ASSUME IInv, Cancel
    PROVE  IInv'
<1>1. PICK id \in 1..Len(jobs) : /\ jobs' = [jobs EXCEPT ![id].cancelled = TRUE]
                                 /\ over' = over \cup {id}
    BY DEF Cancel
<1>2. pc \in {"sleeping", "firing"} /\ UNCHANGED <<pc, todo, restarts, forgot>> /\ Save
    BY DEF Cancel, AtAwait
<1> DEFINE new == [jobs[id] EXCEPT !.cancelled = TRUE]
<1>3. /\ new \in SoundJob /\ new.cancelled /\ new.running = jobs[id].running
      /\ new.failures = jobs[id].failures
    BY JobOfList, JobTypes DEF IInv, SoundJob, Job
<1>4. jobs' = [jobs EXCEPT ![id] = new]
    BY <1>1
<1> HIDE DEF new
<1>5. /\ ListOK(jobs') /\ ListOK(file') /\ Len(jobs') = Len(jobs)
      /\ \A i \in 1..Len(jobs) : jobs'[i] = IF i = id THEN new ELSE jobs[i]
    BY <1>2, <1>3, <1>4, Replaced
<1>6. At' = At /\ (todo # {} => At \in 1..Len(jobs))
    BY <1>2, AtIsNext DEF At, IInv
<1>7. PollOK'
    BY <1>2, <1>3, <1>5, <1>6 DEF IInv, PollOK
<1>8. MarksOK'
    BY <1>2, <1>3, <1>5, <1>6 DEF IInv, MarksOK
<1>9. OverOK'
    BY <1>1, <1>2, <1>3, <1>5 DEF IInv, OverOK, Kept
<1>10. over' \subseteq Ids
  <2>1. id \in Ids
      BY SchedulerAssumption, LenProperties DEF IInv, ListOK, Ids
  <2> QED BY <1>1, <2>1 DEF IInv
<1> QED BY <1>2, <1>5, <1>7, <1>8, <1>9, <1>10 DEF IInv

LEMMA AddKeeps ==
    ASSUME IInv, Add
    PROVE  IInv'
<1>1. /\ pc \in {"sleeping", "firing"} /\ Len(jobs) < MaxJobs
      /\ UNCHANGED <<pc, todo, restarts, over, forgot>> /\ Save
    BY DEF Add, AtAwait, ghosts
<1>2. PICK new \in SoundJob : jobs' = Append(jobs, new) /\ ~new.running
  <2>1. PICK kind \in Kinds :
          jobs' = Append(jobs, [kind |-> kind, due |-> FALSE, cancelled |-> FALSE,
                                running |-> FALSE, failures |-> 0])
      BY DEF Add
  <2> DEFINE new == [kind |-> kind, due |-> FALSE, cancelled |-> FALSE,
                     running |-> FALSE, failures |-> 0]
  <2>2. new \in SoundJob /\ ~new.running
      BY SchedulerAssumption DEF SoundJob, Job
  <2> HIDE DEF new
  <2> QED BY <2>1, <2>2 DEF new
<1>3. jobs \in Seq(SoundJob) /\ Len(jobs) \in Nat /\ MaxJobs \in Nat
    BY SchedulerAssumption, LenProperties DEF IInv, ListOK
<1>4. /\ jobs' \in Seq(SoundJob) /\ Len(jobs') = Len(jobs) + 1
      /\ \A i \in 1..Len(jobs) : jobs'[i] = jobs[i]
      /\ jobs'[Len(jobs) + 1] = new
    BY <1>2, <1>3, AppendProperties
<1>5. ListOK(jobs') /\ 1..Len(jobs) \subseteq 1..Len(jobs')
    BY <1>1, <1>3, <1>4 DEF ListOK
<1>6. ListOK(file')
    BY <1>1, <1>5, SaveKeeps DEF IInv
<1>7. At' = At /\ (todo # {} => At \in 1..Len(jobs))
    BY <1>1, AtIsNext DEF At, IInv
<1>8. PollOK'
    BY <1>1, <1>4, <1>5, <1>7 DEF IInv, PollOK
<1>9. MarksOK'
  <2> SUFFICES ASSUME restarts = 0, NEW id \in 1..Len(jobs'), jobs'[id].running
               PROVE  pc = "firing" /\ id = At
      BY <1>1, <1>7 DEF MarksOK
  <2>1. id \in 1..Len(jobs) \/ id = Len(jobs) + 1
      BY <1>3, <1>4
  <2> QED BY <1>2, <1>4, <2>1 DEF IInv, MarksOK
<1>10. OverOK'
    BY <1>1, <1>4, <1>5 DEF IInv, OverOK, Kept
<1> QED BY <1>1, <1>5, <1>6, <1>8, <1>9, <1>10 DEF IInv

LEMMA PassKeeps ==
    ASSUME NEW list, ListOK(list), NEW id
    PROVE  /\ ListOK(Pass(list, id)) /\ Len(Pass(list, id)) = Len(list)
           /\ \A i \in 1..Len(list) :
                /\ Pass(list, id)[i].cancelled = list[i].cancelled
                /\ Pass(list, id)[i].running = list[i].running
                /\ Pass(list, id)[i].failures = list[i].failures
<1>1. DOMAIN list = 1..Len(list)
    BY LenProperties DEF ListOK
<1>2. CASE id \in 1..Len(list)
  <2> DEFINE new == [list[id] EXCEPT !.due = TRUE]
  <2>1. /\ new \in SoundJob /\ new.cancelled = list[id].cancelled
        /\ new.running = list[id].running /\ new.failures = list[id].failures
      BY <1>2, JobOfList, JobTypes DEF SoundJob, Job
  <2>2. Pass(list, id) = [list EXCEPT ![id] = new]
      BY <1>1, <1>2 DEF Pass
  <2> HIDE DEF new
  <2>3. /\ ListOK(Pass(list, id)) /\ Len(Pass(list, id)) = Len(list)
        /\ \A i \in 1..Len(list) : Pass(list, id)[i] = IF i = id THEN new ELSE list[i]
    <3>1. Pass(list, id) = With(list, id, new)
        BY <2>2 DEF With
    <3> QED BY <1>2, <2>1, <3>1, ReplaceOne
  <2> QED BY <2>1, <2>3
<1>3. CASE id \notin 1..Len(list)
    BY <1>1, <1>3 DEF Pass
<1> QED BY <1>2, <1>3

LEMMA TimePassesKeeps ==
    ASSUME IInv, TimePasses
    PROVE  IInv'
<1>1. PICK id \in Ids : jobs' = Pass(jobs, id) /\ file' = Pass(file, id)
    BY DEF TimePasses
<1>2. UNCHANGED <<pc, todo, restarts, over, forgot>>
    BY DEF TimePasses, ghosts
<1>3. /\ ListOK(jobs') /\ Len(jobs') = Len(jobs)
      /\ \A i \in 1..Len(jobs) : /\ jobs'[i].cancelled = jobs[i].cancelled
                                 /\ jobs'[i].running = jobs[i].running
                                 /\ jobs'[i].failures = jobs[i].failures
    BY <1>1, PassKeeps DEF IInv
<1>4. /\ ListOK(file') /\ Len(file') = Len(file)
      /\ \A i \in 1..Len(file) : file'[i].cancelled = file[i].cancelled
    BY <1>1, PassKeeps DEF IInv
<1>5. At' = At /\ (todo # {} => At \in 1..Len(jobs))
    BY <1>2, AtIsNext DEF At, IInv
<1>6. pc = "down" => jobs' = << >>
  <2> SUFFICES ASSUME pc = "down" PROVE jobs' = << >>
      OBVIOUS
  <2>1. Len(jobs') = 0 /\ jobs' \in Seq(SoundJob)
      BY <1>3 DEF IInv, PollOK, ListOK
  <2> QED BY <2>1, EmptySeq
<1>7. PollOK'
    BY <1>2, <1>3, <1>5, <1>6 DEF IInv, PollOK
<1>8. MarksOK'
    BY <1>2, <1>3, <1>5 DEF IInv, MarksOK
<1>9. OverOK'
    BY <1>2, <1>3, <1>4 DEF IInv, OverOK, Kept
<1> QED BY <1>2, <1>3, <1>4, <1>7, <1>8, <1>9 DEF IInv

\* The process goes down and comes up with what the file holds.
LEMMA RestartKeeps ==
    ASSUME IInv, GoDown \/ ComeUp
    PROVE  IInv'
<1>1. ListOK(<< >>) /\ Len(<< >>) = 0
    BY SchedulerAssumption DEF ListOK
<1>2. CASE GoDown
  <2>1. /\ pc' = "down" /\ pc # "down" /\ restarts' = restarts + 1
        /\ restarts < MaxRestarts
        /\ forgot' = (forgot \/ file # jobs)
        /\ jobs' = << >> /\ todo' = {} /\ UNCHANGED <<file, over>>
      BY <1>2 DEF GoDown
  <2>2. restarts' \in 0..MaxRestarts /\ restarts' > 0
      BY <2>1, SchedulerAssumption DEF IInv
  <2>3. ~forgot' => Kept' = Kept
      BY <2>1 DEF Kept
  <2>4. OverOK'
      BY <2>1, <2>3 DEF IInv, OverOK
  <2> QED BY <1>1, <2>1, <2>2, <2>4 DEF IInv, PollOK, MarksOK
<1>3. CASE ComeUp
  <2>1. /\ pc = "down" /\ pc' = "sleeping" /\ jobs' = file
        /\ UNCHANGED <<file, todo, restarts, over, forgot>>
      BY <1>3 DEF ComeUp, ghosts
  <2>2. restarts > 0 /\ restarts \in Nat /\ todo = {}
      BY <2>1 DEF IInv, PollOK
  <2>3. OverOK'
      BY <2>1 DEF IInv, OverOK, Kept
  <2> QED BY <2>1, <2>2, <2>3 DEF IInv, PollOK, MarksOK
<1> QED BY <1>2, <1>3

LEMMA NextKeeps == IInv /\ [Next]_vars => IInv'
<1> SUFFICES ASSUME IInv, [Next]_vars PROVE IInv'
    OBVIOUS
<1>1. CASE PollStarts \/ PollEnds \/ SkipJob \/ PollBreaks
    BY <1>1, PollStartsKeeps
<1>2. CASE FireJob
    BY <1>2, FireJobKeeps
<1>3. CASE DailyFails
    BY <1>3, DailyFailsKeeps
<1>4. CASE TriggerEnds
    BY <1>4, TriggerEndsKeeps
<1>5. CASE Add
    BY <1>5, AddKeeps
<1>6. CASE Cancel
    BY <1>6, CancelKeeps
<1>7. CASE TimePasses
    BY <1>7, TimePassesKeeps
<1>8. CASE GoDown \/ ComeUp
    BY <1>8, RestartKeeps
<1>9. CASE UNCHANGED vars
    BY <1>9 DEF vars, ghosts, IInv, PollOK, MarksOK, OverOK, Kept, At
<1> QED BY <1>1, <1>2, <1>3, <1>4, <1>5, <1>6, <1>7, <1>8, <1>9 DEF Next, Polling

THEOREM Invariance == Spec => []IInv
BY InitEstablishes, NextKeeps, PTL DEF Spec

-----------------------------------------------------------------------------
(* What the scheduler promises *)

\* The counter of failures stays within MaxFailures: the job that reaches it is
\* cancelled with it, before and after every restart.
THEOREM TypeCorrect == Spec => []TypeOK
<1>1. IInv => TypeOK
  <2>1. ASSUME NEW list, ListOK(list) PROVE list \in Seq(Job) /\ Len(list) <= MaxJobs
      BY <2>1 DEF ListOK, SoundJob
  <2> QED BY <2>1 DEF IInv, PollOK, TypeOK
<1> QED BY <1>1, Invariance, PTL

\* Between two polls no job is marked, however the triggers ended.
THEOREM FreeAfterEveryPoll == Spec => []FreeAfterPoll
<1>1. IInv => FreeAfterPoll
    BY DEF IInv, MarksOK, FreeAfterPoll
<1> QED BY <1>1, Invariance, PTL

\* A one-shot job is triggered once and a cancelled job never again, before,
\* during and after restarts, as long as no change was lost with the process.
THEOREM OverForGood == Spec => OverIsOver
<1>1. IInv /\ [Next]_vars =>
        [~forgot /\ pc # "firing" /\ pc' = "firing" => At \notin over]_vars
  <2> SUFFICES ASSUME IInv, Next, ~forgot, pc # "firing", pc' = "firing", At \in over
               PROVE  FALSE
      OBVIOUS
  <2>1. FireJob
      BY DEF Next, Polling, PollStarts, PollEnds, SkipJob, PollBreaks, DailyFails,
             TriggerEnds, Add, Cancel, TimePasses, GoDown, ComeUp, Firing
  <2>2. pc = "scanning" /\ ~jobs[At].cancelled
      BY <2>1 DEF FireJob, Firing, PassedOver
  <2> QED BY <2>2 DEF IInv, OverOK, Kept
<1> QED BY <1>1, Invariance, PTL DEF Spec, OverIsOver
=============================================================================
