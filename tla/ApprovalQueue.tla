---------------------------- MODULE ApprovalQueue ----------------------------
(***************************************************************************)
(* The queue of pending approvals (backend/core/approval_queue.py) as      *)
(* operators on its state: the approvals in the order of submission.       *)
(* Identifiers are fresh, here numbers counting up.                        *)
(***************************************************************************)
EXTENDS Naturals, Sequences, SequencesExt

CONSTANT MaxEntries      \* max_pending_approvals

CriticalActions ==
    {"server_restart", "kv_cache_change", "large_context_increase", "emergency_stop"}

NewApproval(id, action, payload) ==
    [id |-> id, action |-> action, payload |-> payload, status |-> "pending"]

\* list_pending
Pending(queue) == {a \in ToSet(queue) : a.status = "pending"}

IsDecided(a) == a.status # "pending"

\* _prune_if_needed: at the cap, which no queue exceeds, the oldest entry that is
\* decided goes, and if there is none the oldest of all, pending as it is.
\* A slip: pending entries are spared.
SlipPruned(queue) ==
    IF Len(queue) < MaxEntries THEN queue ELSE RemoveFirstMatch(queue, IsDecided)
Pruned(queue) ==
    IF Len(queue) < MaxEntries THEN queue
    ELSE IF \E i \in DOMAIN queue : IsDecided(queue[i])
    THEN RemoveFirstMatch(queue, IsDecided)
    ELSE Tail(queue)

Submitted(queue, approval) == Append(Pruned(queue), approval)

\* approve and reject look the approval up and insist on its being pending; an
\* unknown one and a decided one are both answered with 404.
\* A slip: a decided one is decided again.
SlipOpen(queue, id) == {a \in ToSet(queue) : a.id = id}
Open(queue, id) == {a \in ToSet(queue) : a.id = id /\ a.status = "pending"}

Decided(queue, id, verdict) ==
    [i \in DOMAIN queue |->
        IF queue[i].id = id THEN [queue[i] EXCEPT !.status = verdict] ELSE queue[i]]
=============================================================================
