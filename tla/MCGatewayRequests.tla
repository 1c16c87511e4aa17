-------------------------- MODULE MCGatewayRequests --------------------------
(* A small instance of GatewayRequests: a Candidate submitted by two agents *)
(* and a child of it, an invalid one, a note, a pause and a resume, a read  *)
(* under the id of another request, an id that three callers use, and an    *)
(* agent who may only read.                                                 *)
EXTENDS GatewayRequests

MCRequest(id, agent, op, content, parent) ==
    [id |-> id, agent |-> agent, op |-> op, content |-> content,
     parent |-> parent]

MCLevels == [a \in Agents |-> IF a = "reader" THEN 0 ELSE 1]

MCRequests ==
    {MCRequest("q1", "alice", "candidate.submit", "c", None),
     MCRequest("q2", "bob", "candidate.submit", "c", None),
     MCRequest("q3", "bob", "candidate.submit", "d", "c"),
     MCRequest("q4", "alice", "research.note.add", "c", None),
     MCRequest("q1", "bob", "candidate.get", "c", None),
     MCRequest("q5", "alice", "campaign.pause", "c", None),
     MCRequest("q6", "alice", "campaign.resume", "c", None),
     MCRequest("q4", "reader", "campaign.resume", "c", None),
     MCRequest("q4", "bob", "candidate.submit", "bad", None)}
=============================================================================
