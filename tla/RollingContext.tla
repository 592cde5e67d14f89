---------------------------- MODULE RollingContext ----------------------------
(***************************************************************************)
(* The buffer of a RollingContext (backend/memory/rolling_context.py) as   *)
(* operators on its state.  A message is the set of the things said in it: *)
(* one for a message just added, those of the conversation for a summary.  *)
(* Sizes are not kept: whether the estimate is above summarize_at after a  *)
(* message depends on texts of any length and is left open.                *)
(***************************************************************************)
EXTENDS Naturals, Sequences

CONSTANTS
    MinMessages,         \* min_messages_before_resummarize
    Kept                 \* messages a summary falls back on

NewContext == [messages |-> << >>, since |-> 0, hasSummary |-> FALSE]

\* What the messages still tell.
Known(messages) == UNION {messages[i] : i \in 1..Len(messages)}

\* messages.append, and the counter, for several messages.
Added(ctx, said) ==
    [ctx EXCEPT !.messages = @ \o [i \in 1..Len(said) |-> {said[i]}],
                !.since    = @ + Len(said)]

\* should_summarize, given an estimate above the limit
MaySummarize(ctx) == ctx.hasSummary => ctx.since >= MinMessages

\* The messages are replaced by one summary.
Summarized(summary) ==
    [messages |-> <<summary>>, since |-> 0, hasSummary |-> TRUE]

LastOf(messages) ==
    SubSeq(messages, IF Len(messages) > Kept THEN Len(messages) - Kept + 1 ELSE 1,
           Len(messages))

\* What the prompt for the model tells it, and so its summary: the whole
\* conversation as it was when the prompt was built.
\* A slip: built from the messages of the fallback.
SlipConversation(messages) == Known(LastOf(messages))
Conversation(messages)     == Known(messages)

\* The fallback joins the last messages there are by now and cuts the text, so
\* that it tells the first n of them in full; none, when a summary among them is
\* itself too long.
ByFallback(messages, n) == Known(SubSeq(LastOf(messages), 1, n))
=============================================================================
