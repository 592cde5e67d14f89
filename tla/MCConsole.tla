------------------------------ MODULE MCConsole ------------------------------
(***************************************************************************)
(* Console for TLC: the settings and what clients send to change them.     *)
(***************************************************************************)
EXTENDS Console

MCSettings == [kv |-> "f16", context |-> 2, guarded |-> CriticalActions]

\* A smaller context; one that is too large once the context is small; the cache
\* with another field of the same request; the gates of stop and restart off.
MCUpdates ==
    {[context |-> 1], [context |-> 3], [kv |-> "q8", context |-> 1],
     [guarded |-> {"kv_cache_change", "large_context_increase"}]}
=============================================================================
