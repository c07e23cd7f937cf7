--------------------------- MODULE MCAgentRuntime ---------------------------
(***************************************************************************)
(* Environments for model checking AgentRuntime: each run of the project   *)
(* picks one as the constant Events.                                       *)
(***************************************************************************)
EXTENDS AgentRuntime

\* No failures: submits, injections and the token limit against each other, under a
\* budget that may cut what a request shows.
Interleaving == {"estimator_awaits", "handler_awaits", "snip"}
\* Failures the checkpoint exists for; nobody pauses.
Recovery == {"crash", "cancel", "provider_error", "checkpoint_error", "session_error"}
\* Pausing at the awaits of a run but those of the stream handler; no failures.
Revision == {"pause", "estimator_awaits"}
\* Pauses at every await the code may have, clears, crashes and checkpoint failures.
Mixed ==
  {"crash", "pause", "clear", "checkpoint_error", "estimator_awaits", "handler_awaits"}
=============================================================================
