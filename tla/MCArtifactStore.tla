--------------------------- MODULE MCArtifactStore ---------------------------
(* Two writers of any two roles, and a reader, on one run. *)
EXTENDS ArtifactStore, TLC

CONSTANTS p1, p2, p3, d1, d2

\* Two writers of any roles and a reader, or three who open the database.
WritersAndReader ==
    p1 :> (Roles \ {"read"}) @@ p2 :> (Roles \ {"read"}) @@ p3 :> {"read", "open"}
=============================================================================
