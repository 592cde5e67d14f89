---------------------------- MODULE MCAgenticLoop ----------------------------
(* AgenticLoop on small instances. *)
EXTENDS AgenticLoop

\* What the request runs with when it sets nothing, over HTTP.
MCDefault == [planning |-> TRUE, checkpointing |-> TRUE, supervised |-> TRUE,
              rolling |-> TRUE, streaming |-> FALSE]

\* The default over HTTP and over the WebSocket, and the WebSocket with one of
\* the debug switches off.
MCOptions ==
    LET streamed == [MCDefault EXCEPT !.streaming = TRUE] IN
    {MCDefault, streamed,
     [streamed EXCEPT !.planning = FALSE], [streamed EXCEPT !.checkpointing = FALSE],
     [streamed EXCEPT !.supervised = FALSE], [streamed EXCEPT !.rolling = FALSE]}

MCDefaultOptions == {MCDefault}
=============================================================================
