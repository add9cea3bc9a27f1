------------------------------- MODULE MCHook -------------------------------
(* Hook for TLC: the sessions are alike, each with a hook of its own. *)
EXTENDS Hook, TLC

AlikeSessions == Permutations(Sessions)
=============================================================================
