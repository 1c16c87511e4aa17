---------------------------- MODULE MCFilterChain ----------------------------
(***************************************************************************)
(* Model values for FilterChain: one flow, one worker and one replay.      *)
(***************************************************************************)
EXTENDS FilterChain

CONSTANTS f1, w1, r1
=============================================================================
