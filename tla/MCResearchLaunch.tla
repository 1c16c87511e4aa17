-------------------------- MODULE MCResearchLaunch --------------------------
(***************************************************************************)
(* Instances of the durable research launch for TLC.                       *)
(***************************************************************************)
EXTENDS ResearchLaunch, TLC

CONSTANTS c1, c2, d1, d2

\* Two threads that live and die with processes of their own.
TwoProcesses == c1 :> d1 @@ c2 :> d2

\* One thread that starts one flow after another.
OneProcess == c1 :> d1

\* Keys, runs and flow identities are interchangeable.
LaunchSymmetry ==
    Permutations(Keys) \cup Permutations(Runs) \cup Permutations(Flows)
=============================================================================
