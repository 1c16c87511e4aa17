---------------------------- MODULE MCAutoCampaign ----------------------------
(* Small instances of AutoCampaign. *)
EXTENDS AutoCampaign

MCPacket(rules, market, fault, revision) ==
    [rules |-> rules, market |-> market, fault |-> fault,
     revision |-> revision]

\* One sound packet: every idea has the same rules.
SamePacket == {MCPacket("r", "m", "none", 1)}

\* Packets that differ in their rules and in what is wrong with them.
ManyPackets ==
    {MCPacket("r", "m", "none", 1), MCPacket("s", "m", "none", 1),
     MCPacket("r", "m", "intake", 1), MCPacket("r", "m", "rules", 1),
     MCPacket("r", "m", "data", 1)}

Quiet == [d \in Disturbances |-> 0]

\* One idea: restarts, a retest and a requeue until its budget is spent, and
\* a packet that is changed, or linked by hand, while it waits.
OneAllowance ==
    [Quiet EXCEPT !["restart"] = 2, !["retest"] = 1, !["requeue"] = 1,
                  !["method"] = 1, !["edit"] = 1, !["broken"] = 1,
                  !["handbuilt"] = 1, !["drain"] = 1]

\* Two ideas of the same rules, of which some fail and some are retested,
\* while the owner pauses.
TwoAllowance ==
    [Quiet EXCEPT !["restart"] = 1, !["retest"] = 1, !["raise"] = 1,
                  !["pause"] = 1]

\* A retest, and a restart before it is tested.
FixAllowance ==
    [Quiet EXCEPT !["restart"] = 1, !["retest"] = 1, !["method"] = 1]

=============================================================================
