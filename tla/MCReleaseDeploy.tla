--------------------------- MODULE MCReleaseDeploy ---------------------------
(* Small instances of ReleaseDeploy. *)
EXTENDS ReleaseDeploy

\* Revision 2 changes the privileged files.
MCInfraOf == [r \in Revisions |-> IF r < 2 THEN 1 ELSE 2]

=============================================================================
