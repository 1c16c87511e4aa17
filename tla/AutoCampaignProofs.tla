-------------------------- MODULE AutoCampaignProofs --------------------------
(***************************************************************************)
(* Proofs about the automatic test campaign, for any number of ideas, any  *)
(* packets, any budget of attempts and any allowance of restarts, retests, *)
(* edits and the rest.                                                     *)
(***************************************************************************)
EXTENDS AutoCampaign, WellFoundedInduction, FiniteSetTheorems, TLAPS

-----------------------------------------------------------------------------
(* The inductive invariant *)

\* An idea is under way at these, in a child process at the last ones.
ChildPc == {"link", "launch", "testing", "decided", "report"}

BusyPc == {"judge", "begin"} \cup ChildPc

\* The locals of the thread go with its step.
Turn ==
    /\ camp.pc \in BusyPc => \E i \in Ideas : Queued(i)
    /\ \A i \in camp.fresh : Queued(i)
    /\ camp.pc # "append" => camp.fresh = {}
    /\ \A i \in Ideas : Queued(i) => HasEvent(i) \/ i \in camp.fresh
    /\ camp.pc = "launch" =>
          /\ camp.document # None
          /\ camp.document = drafts[Idea].link
    /\ camp.pc \in {"launch", "testing", "decided"} =>
          Linked(Idea) /\ drafts[Idea].link.rules = Packet.rules
    /\ camp.pc = "decided" => camp.outcome # None
    /\ camp.pc = "report" =>
          /\ camp.outcome # None
          /\ camp.outcome.state \in ResultStates =>
                Linked(Idea) /\ drafts[Idea].link.rules = Packet.rules
    /\ camp.pc \in {"link", "launch"} => camp.attempt < starts[Idea][Packet]

\* A draft that is queued or linked has a packet.
PacketsStay ==
    /\ \A i \in Ideas : Queued(i) \/ Linked(i) => drafts[i].packet # None
    /\ \A d \in Disturbances : left[d] <= Allowance[d]

\* A packet that is never edited is the same everywhere.
PacketsAgree ==
    NeverEdited =>
        /\ \A i \in Ideas :
              /\ Queued(i) => camp.queue[i] = drafts[i].packet
              /\ HasEvent(i) => log[i].packet = drafts[i].packet
        /\ operator # None =>
              operator.packet = drafts[operator.idea].packet

\* A result belongs to a setup of the rules, and is not tested again.
ResultsAreLinked ==
    \A i \in Ideas : HasResult(i) =>
        Linked(i) /\ drafts[i].link.rules = log[i].packet.rules /\ ~Queued(i)

\* What the thread knows of the other ideas when it decides on one.
OthersAreKnown ==
    /\ camp.pc = "begin" =>
          \A k \in Ideas :
              /\ HasResult(k) => k \notin camp.without
              /\ IsDuplicate(k) => k \in camp.without
    /\ (NeverEdited /\ camp.pc \in ChildPc) =>
          \A k \in Ideas : HasResult(k) =>
              \/ log[k].packet.rules # Packet.rules
              \/ log[k].packet.market # Packet.market

\* An idea whose packet never changes is queued while it is open or closed as
\* a duplicate, so nobody asks for a requeue of an idea under way.
RequeuesAreIdle ==
    NeverEdited =>
        /\ \A i \in Ideas :
              Queued(i) => ~HasEvent(i) \/ IsOpen(i) \/ IsDuplicate(i)
        /\ (operator # None /\ operator.reason = "requeued_by_agent") =>
              /\ ~Queued(operator.idea) /\ HasEvent(operator.idea)
              /\ log[operator.idea].state = "failed"

\* Retests that were asked for; the last one may not be written yet.
Retests == Allowance["retest"] - left["retest"]

Pending ==
    IF operator # None /\ operator.reason = "requeued_after_fix" THEN 1 ELSE 0

\* Starts are paid for by the budget of the packet or by a retest.
StartsAreCounted ==
    \A i \in Ideas, p \in Packets :
        /\ recent[i][p] <= MaxAttempts
        /\ starts[i][p] <= recent[i][p] + MaxAttempts * (Retests - Pending)

\* A key names the rules of the setup, and stands for one launch.
KeysAreOwn ==
    /\ \A l \in launched :
          /\ Linked(l.key.idea)
          /\ drafts[l.key.idea].link.rules = l.key.rules
          /\ l.document.rules = l.key.rules
          /\ \E p \in Packets : l.key.attempt < starts[l.key.idea][p]
    /\ \A l, m \in launched : l.key = m.key => l = m
    /\ NeverEdited =>
          /\ \A l \in launched :
                l.key.attempt < starts[l.key.idea][drafts[l.key.idea].packet]
          /\ camp.pc \in {"link", "launch"} =>
                \A l \in launched :
                    l.key.idea = Idea => l.key.attempt < camp.attempt

\* Without a retest no setup is built twice.
SetupsAreKept ==
    Retests = 0 =>
        /\ \A l \in launched : l.document = drafts[l.key.idea].link
        /\ \A i \in Ideas :
              HasEvent(i) => log[i].reason # "requeued_after_fix"
        /\ operator # None => operator.reason # "requeued_after_fix"
        /\ ~camp.rebuild

\* A pause leaves one test at most past its check.
PauseIsSeen ==
    /\ begun <= 1
    /\ (control.paused /\ camp.pc \in {"judge", "begin"}) => begun = 0

CampaignInv ==
    /\ TypeOK
    /\ Turn
    /\ PacketsStay
    /\ PacketsAgree
    /\ ResultsAreLinked
    /\ OthersAreKnown
    /\ RequeuesAreIdle
    /\ StartsAreCounted
    /\ KeysAreOwn
    /\ SetupsAreKept
    /\ PauseIsSeen
    /\ OneResultPerRules
    /\ NoMutualDuplicates

-----------------------------------------------------------------------------
(* The idea under way *)

LEMMA IdeaIsQueued ==
    ASSUME TypeOK, \E i \in Ideas : Queued(i)
    PROVE  Idea \in Ideas /\ Queued(Idea) /\ Packet \in Packets
<1> DEFINE Q == {i \in Ideas : Queued(i)}
<1>1. Q # {} /\ Q \subseteq Nat
  BY NIdeasAssumption DEF Ideas
<1>2. PICK i \in Q : \A j \in Q : ~(<<j, i>> \in OpToRel(<, Nat))
  <2>1. IsWellFoundedOn(OpToRel(<, Nat), Nat)
    BY NatLessThanWellFounded
  <2> HIDE DEF Q
  <2> QED
    BY <1>1, <2>1, WFMin
<1>3. ASSUME NEW j \in Ideas, Queued(j)
      PROVE  i <= j
  <2>1. j \in Q /\ i \in Nat /\ j \in Nat
    BY <1>1, <1>3
  <2>2. ~(<<j, i>> \in OpToRel(<, Nat))
    BY <1>2, <2>1
  <2>3. ~(j < i)
    BY <2>1, <2>2 DEF OpToRel
  <2> QED
    BY <2>1, <2>3
<1>4. Idea \in Ideas /\ Queued(Idea)
  BY <1>2, <1>3 DEF Idea
<1> QED
  BY <1>4 DEF TypeOK, CampRecord, Packet, Queued

\* Steps that leave the queue alone leave the idea under way alone.
LEMMA SameIdea ==
    ASSUME camp'.queue = camp.queue
    PROVE  /\ Idea' = Idea /\ Packet' = Packet
           /\ \A i : Queued(i)' <=> Queued(i)
BY DEF Idea, Packet, Queued

LEMMA BusyIdea ==
    ASSUME TypeOK, Turn, camp.pc \in BusyPc
    PROVE  Idea \in Ideas /\ Queued(Idea) /\ Packet \in Packets
BY IdeaIsQueued DEF Turn

\* A turn ends: the event is recorded and the next idea is taken up.
LEMMA EndEffect ==
    ASSUME TypeOK, Turn, camp.pc \in BusyPc,
           NEW state \in States, NEW reason \in Reasons,
           NEW owner \in Ideas \cup {None},
           RecordEnd(state, reason, owner)
    PROVE  /\ log' \in [Ideas -> Event \cup {None}] /\ camp' \in CampRecord
           /\ camp'.pc = "gate" /\ camp'.fresh = {} /\ ~camp'.rebuild
           /\ \A i \in Ideas : Queued(i)' <=> Queued(i) /\ i # Idea
           /\ \A i \in Ideas \ {Idea} :
                 log'[i] = log[i] /\ camp'.queue[i] = camp.queue[i]
           /\ log'[Idea] = NewEvent(state, reason, Packet, owner)
<1>1. Idea \in Ideas /\ Packet \in Packets
  BY BusyIdea
<1>2. NewEvent(state, reason, Packet, owner) \in Event
  BY <1>1 DEF NewEvent, Event
<1>3. log' = [log EXCEPT ![Idea] = NewEvent(state, reason, Packet, owner)]
  BY DEF RecordEnd
<1>4. /\ log' \in [Ideas -> Event \cup {None}]
      /\ \A i \in Ideas \ {Idea} : log'[i] = log[i]
      /\ log'[Idea] = NewEvent(state, reason, Packet, owner)
  BY <1>1, <1>2, <1>3 DEF TypeOK
<1>5. camp' = [Rest("gate") EXCEPT
                    !.queue = [camp.queue EXCEPT ![Idea] = None]]
  BY DEF RecordEnd, Advance
<1>6. /\ camp'.queue = [camp.queue EXCEPT ![Idea] = None]
      /\ camp'.pc = "gate" /\ camp'.fresh = {} /\ ~camp'.rebuild
      /\ camp'.without = {} /\ camp'.attempt = 0
      /\ camp'.document = None /\ camp'.outcome = None
      /\ camp' = [pc |-> "gate", queue |-> [camp.queue EXCEPT ![Idea] = None],
                  fresh |-> {}, without |-> {}, rebuild |-> FALSE,
                  attempt |-> 0, document |-> None, outcome |-> None]
  BY <1>5 DEF Rest
<1>7. camp.queue \in [Ideas -> Packets \cup {None}]
  BY DEF TypeOK, CampRecord
<1>8. /\ camp'.queue \in [Ideas -> Packets \cup {None}]
      /\ \A i \in Ideas : camp'.queue[i] = IF i = Idea THEN None
                                           ELSE camp.queue[i]
  BY <1>1, <1>6, <1>7
<1>9. camp' \in CampRecord
  <2>1. [camp.queue EXCEPT ![Idea] = None] \in [Ideas -> Packets \cup {None}]
    BY <1>6, <1>8
  <2> QED
    BY <1>6, <2>1 DEF CampRecord, Pc
<1> QED
  BY <1>4, <1>6, <1>8, <1>9 DEF Queued

\* The thread at rest has nothing queued.
LEMMA RestEffect ==
    ASSUME NEW pc \in Pc, camp' = Rest(pc)
    PROVE  /\ camp' \in CampRecord /\ camp'.pc = pc /\ camp'.fresh = {}
           /\ ~camp'.rebuild /\ \A i \in Ideas : ~Queued(i)'
BY DEF Rest, CampRecord, Queued

\* What the child returns.
LEMMA ReturnEffect ==
    ASSUME TypeOK, NEW state, NEW reason,
           [state |-> state, reason |-> reason] \in Outcome,
           Return(state, reason)
    PROVE  /\ camp' \in CampRecord /\ camp'.pc = "report"
           /\ camp'.queue = camp.queue /\ camp'.fresh = camp.fresh
           /\ camp'.rebuild = camp.rebuild
           /\ camp'.outcome = [state |-> state, reason |-> reason]
<1>1. camp \in CampRecord
  BY DEF TypeOK
<1> QED
  BY <1>1 DEF Return, CampRecord, Pc

LEMMA SpendEffect ==
    ASSUME TypeOK, NEW d \in Disturbances, Spend(d)
    PROVE  /\ left' \in [Disturbances -> Nat]
           /\ left'[d] = left[d] - 1
           /\ \A e \in Disturbances : e # d => left'[e] = left[e]
BY DEF TypeOK, Spend

\* The setup that is run, and that the idea is linked to from then on.
LEMMA LinkEffect ==
    ASSUME TypeOK, Turn, Link
    PROVE  /\ camp.pc = "link" /\ Idea \in Ideas /\ Packet \in Packets
           /\ camp' \in CampRecord /\ camp'.queue = camp.queue
           /\ camp'.fresh = camp.fresh /\ camp'.rebuild = camp.rebuild
           /\ drafts' \in [Ideas -> Draft]
           /\ \A i \in Ideas :
                 /\ drafts'[i].packet = drafts[i].packet
                 /\ i # Idea => drafts'[i] = drafts[i]
           /\ \/ /\ drafts' = drafts /\ camp'.pc = "report"
                 /\ camp'.outcome = [state |-> "failed",
                                     reason |-> "rules_changed"]
              \/ /\ camp'.pc = "launch" /\ camp'.document # None
                 /\ camp'.attempt = camp.attempt
                 /\ camp'.document = drafts'[Idea].link
                 /\ drafts'[Idea].link.rules = Packet.rules
                 /\ Linked(Idea) =>
                       /\ drafts[Idea].link.rules = Packet.rules
                       /\ ~camp.rebuild =>
                             drafts'[Idea].link = drafts[Idea].link
<1> DEFINE i == Idea
           old == drafts[i].link
           doc == [rules |-> Packet.rules, market |-> Packet.market,
                   method |-> method]
           new == old = None \/ old = doc
           chosen == IF new \/ camp.rebuild THEN doc ELSE old
<1>1. camp.pc = "link" /\ Idea \in Ideas /\ Packet \in Packets
  BY BusyIdea DEF Link, BusyPc, ChildPc
<1>2. doc \in Documents /\ doc # None /\ doc.rules = Packet.rules
  BY <1>1, NoneAssumption DEF Documents, Rules, TypeOK
<1>3. old \in Documents \cup {None} /\ drafts[i] \in Draft
  BY <1>1 DEF TypeOK, Draft
<1>4. CASE ~new /\ old.rules # doc.rules
  <2>1. Return("failed", "rules_changed") /\ drafts' = drafts
    BY <1>4 DEF Link
  <2> QED
    BY <1>1, <2>1, ReturnEffect DEF Outcome, TypeOK
<1>5. CASE ~(~new /\ old.rules # doc.rules)
  <2>1. /\ drafts' = [drafts EXCEPT ![i].link = chosen]
        /\ camp' = [camp EXCEPT !.pc = "launch", !.document = chosen]
    BY <1>5 DEF Link
  <2>2. /\ chosen \in Documents /\ chosen.rules = Packet.rules
        /\ old # None => old.rules = Packet.rules
        /\ (old # None /\ ~camp.rebuild) => chosen = old
    BY <1>2, <1>3, <1>5
  <2> HIDE DEF chosen, new, doc
  <2>3. chosen # None
    BY <2>2, NoneAssumption
  <2>4. /\ camp' \in CampRecord /\ camp'.queue = camp.queue
        /\ camp'.fresh = camp.fresh /\ camp'.rebuild = camp.rebuild
        /\ camp'.pc = "launch" /\ camp'.document = chosen
        /\ camp'.attempt = camp.attempt
    <3>1. camp \in CampRecord
      BY DEF TypeOK
    <3> QED
      BY <2>1, <2>2, <3>1 DEF CampRecord, Pc
  <2>5. drafts'[i] = [drafts[i] EXCEPT !.link = chosen]
    BY <1>1, <2>1 DEF TypeOK
  <2>6. drafts'[i] \in Draft /\ drafts'[i].link = chosen
        /\ drafts'[i].packet = drafts[i].packet
    BY <1>3, <2>2, <2>5 DEF Draft
  <2>7. \A j \in Ideas : j # i => drafts'[j] = drafts[j]
    BY <2>1 DEF TypeOK
  <2>8. drafts' \in [Ideas -> Draft]
    BY <2>1, <2>6, <2>7 DEF TypeOK
  <2> QED
    BY <1>1, <2>2, <2>3, <2>4, <2>6, <2>7, <2>8 DEF Linked
<1> QED
  BY <1>4, <1>5

-----------------------------------------------------------------------------
(* What a step does, by the part it plays for the invariant *)

\* An allowance is spent, but none for an edit or a retest.
LeftKept ==
    /\ left' \in [Disturbances -> Nat]
    /\ left'["edit"] = left["edit"] /\ left'["retest"] = left["retest"]
    /\ \A d \in Disturbances : left'[d] <= left[d]

\* The thread goes on with the same idea.
TurnKept ==
    /\ camp' \in CampRecord
    /\ camp'.queue = camp.queue /\ camp'.fresh = camp.fresh
    /\ camp'.rebuild = camp.rebuild

DraftsKept == UNCHANGED <<drafts, method, control, fixed>>

CountersKept == UNCHANGED <<starts, recent, begun>>

\* The thread ends its pass, or the gateway restarts.
Rests ==
    /\ camp' \in CampRecord /\ camp'.pc \in {"idle", "boot"}
    /\ camp'.fresh = {} /\ ~camp'.rebuild
    /\ \A i \in Ideas : ~Queued(i)'
    /\ operator' \in {operator, None}
    /\ LeftKept /\ DraftsKept /\ CountersKept /\ UNCHANGED <<log, launched>>

\* An idea is next, and no pause was seen.
Takes ==
    /\ camp.pc = "gate" /\ camp'.pc = "judge" /\ TurnKept
    /\ ~control.paused
    /\ \E i \in Ideas : Queued(i)
    /\ DraftsKept /\ CountersKept
    /\ UNCHANGED <<log, launched, operator, left>>

\* The other ideas are looked at.
Looks ==
    /\ camp.pc = "judge" /\ camp'.pc = "begin" /\ TurnKept
    /\ camp'.without = WithoutResult
    /\ DraftsKept /\ CountersKept
    /\ UNCHANGED <<log, launched, operator, left>>

\* A test of the idea starts.
Starts ==
    /\ camp.pc = "begin" /\ camp'.pc = "link" /\ camp' \in CampRecord
    /\ camp'.queue = camp.queue /\ camp'.fresh = camp.fresh
    /\ camp'.rebuild <=> (log[Idea].reason = "requeued_after_fix")
    /\ camp'.attempt = starts[Idea][Packet]
    /\ Owners(Idea, Packet, camp.without) = {}
    /\ recent[Idea][Packet] < MaxAttempts
    /\ log' =
          [log EXCEPT ![Idea] = NewEvent("running", "started", Packet, None)]
    /\ starts' = [starts EXCEPT ![Idea][Packet] = @ + 1]
    /\ recent' = [recent EXCEPT ![Idea][Packet] = @ + 1]
    /\ begun' = IF control.paused THEN begun + 1 ELSE begun
    /\ DraftsKept /\ UNCHANGED <<launched, operator, left>>

\* The pipeline is launched under a new key.
Runs ==
    /\ camp.pc = "launch" /\ camp'.pc = "testing" /\ TurnKept
    /\ Launches(LaunchKey) = {}
    /\ launched' = launched \cup
           {[key |-> LaunchKey, document |-> camp.document,
             decision |-> None, fixed |-> fixed[Idea]]}
    /\ DraftsKept /\ CountersKept /\ UNCHANGED <<log, operator, left>>

\* The pipeline's decision is recorded with its launch.
Decides ==
    /\ camp.pc = "testing" /\ camp'.pc = "decided" /\ TurnKept
    /\ camp'.outcome # None
    /\ \E l \in launched, d \in ResultStates :
          launched' = (launched \ {l}) \cup {[l EXCEPT !.decision = d]}
    /\ DraftsKept /\ CountersKept /\ UNCHANGED <<log, operator, left>>

\* The child is done: with a result only of the rules it is linked to.
Returns ==
    /\ camp.pc \in ChildPc \ {"report"} /\ camp'.pc = "report" /\ TurnKept
    /\ camp'.outcome # None
    /\ camp'.outcome.state \in ResultStates =>
          camp.pc \in {"launch", "decided"}
    /\ LeftKept /\ DraftsKept /\ CountersKept
    /\ UNCHANGED <<log, launched, operator>>

\* The turn of the idea ends with an event.
Ends ==
    /\ camp.pc \in {"judge", "begin", "report"}
    /\ camp' \in CampRecord /\ camp'.pc = "gate"
    /\ camp'.fresh = {} /\ ~camp'.rebuild
    /\ \A i \in Ideas : Queued(i)' <=> Queued(i) /\ i # Idea
    /\ \A i \in Ideas \ {Idea} :
          log'[i] = log[i] /\ camp'.queue[i] = camp.queue[i]
    /\ log' \in [Ideas -> Event \cup {None}]
    /\ log'[Idea] # None /\ log'[Idea].packet = Packet
    /\ log'[Idea].reason # "requeued_after_fix"
    /\ log'[Idea].state \in ResultStates =>
          camp.pc = "report" /\ camp.outcome.state \in ResultStates
    /\ log'[Idea].owner # None =>
          /\ camp.pc = "begin"
          /\ log'[Idea].owner \in Owners(Idea, Packet, camp.without)
    /\ LeftKept /\ DraftsKept /\ CountersKept
    /\ UNCHANGED <<launched, operator>>

\* Nothing of the campaign but the method or the control moves.
Aside ==
    /\ LeftKept
    /\ method' \in Nat
    /\ control' \in [paused : BOOLEAN, drain : BOOLEAN]
    /\ \/ begun' = begun /\ (control'.paused => control.paused)
       \/ begun' = 0
    /\ UNCHANGED <<drafts, log, starts, recent, launched, camp, operator,
                   fixed>>

LEMMA SpendKeeps ==
    ASSUME TypeOK, NEW d \in Disturbances \ {"edit", "retest"}, Spend(d)
    PROVE  LeftKept
<1>1. "edit" \in Disturbances /\ "retest" \in Disturbances
  BY DEF Disturbances
<1>2. /\ left' \in [Disturbances -> Nat]
      /\ left'[d] = left[d] - 1 /\ left[d] \in Nat
      /\ \A e \in Disturbances : e # d => left'[e] = left[e]
      /\ \A e \in Disturbances : left[e] \in Nat
  BY SpendEffect DEF TypeOK
<1> QED
  BY <1>1, <1>2 DEF LeftKept

LEMMA LeftStays ==
    ASSUME TypeOK, left' = left
    PROVE  LeftKept
<1>1. left \in [Disturbances -> Nat]
  BY DEF TypeOK
<1> QED
  BY <1>1 DEF LeftKept, Disturbances

LEMMA EndCase ==
    ASSUME TypeOK, Turn, camp.pc \in {"judge", "begin", "report"},
           NEW state \in States,
           NEW reason \in Reasons \ {"requeued_after_fix"},
           NEW owner \in Ideas \cup {None},
           RecordEnd(state, reason, owner),
           state \in ResultStates =>
               camp.pc = "report" /\ camp.outcome.state \in ResultStates,
           owner # None =>
               /\ camp.pc = "begin"
               /\ owner \in Owners(Idea, Packet, camp.without),
           LeftKept, DraftsKept, CountersKept, UNCHANGED <<launched, operator>>
    PROVE  Ends
<1>1. camp.pc \in BusyPc
  BY DEF BusyPc, ChildPc
<1>2. Idea \in Ideas /\ Packet \in Packets
  BY <1>1, BusyIdea
<1>3. NewEvent(state, reason, Packet, owner) \in Event
  BY <1>2 DEF NewEvent, Event
<1>4. /\ log'[Idea] = NewEvent(state, reason, Packet, owner)
      /\ log'[Idea] # None
  BY <1>1, <1>3, EndEffect, NoneAssumption
<1>5. /\ log'[Idea].packet = Packet /\ log'[Idea].reason = reason
      /\ log'[Idea].state = state /\ log'[Idea].owner = owner
  BY <1>4 DEF NewEvent
<1>6. /\ log' \in [Ideas -> Event \cup {None}] /\ camp' \in CampRecord
      /\ camp'.pc = "gate" /\ camp'.fresh = {} /\ ~camp'.rebuild
      /\ \A i \in Ideas : Queued(i)' <=> Queued(i) /\ i # Idea
      /\ \A i \in Ideas \ {Idea} :
            log'[i] = log[i] /\ camp'.queue[i] = camp.queue[i]
  BY <1>1, EndEffect
<1> QED
  BY <1>4, <1>5, <1>6 DEF Ends

LEMMA JudgeCases ==
    ASSUME TypeOK, Turn, Judge
    PROVE  Looks \/ Ends
<1>1. camp.pc = "judge" /\ camp \in CampRecord
  BY DEF Judge, TypeOK
<1>2. LeftKept
  BY LeftStays DEF Judge
<1>3. CASE Packet.fault = "rules"
  <2>1. RecordEnd("implementation_blocked", "blocked", None)
    BY <1>3 DEF Judge
  <2>2. /\ "implementation_blocked" \in States
        /\ "blocked" \in Reasons \ {"requeued_after_fix"}
        /\ "implementation_blocked" \notin ResultStates
        /\ camp.pc \in {"judge", "begin", "report"}
    BY <1>1 DEF States, ResultStates, Reasons
  <2>3. DraftsKept /\ CountersKept /\ UNCHANGED <<launched, operator>>
    BY DEF Judge, DraftsKept, CountersKept
  <2> QED
    BY <1>2, <2>1, <2>2, <2>3, EndCase
<1>4. CASE Packet.fault # "rules"
  <2>1. /\ camp' = [camp EXCEPT !.pc = "begin", !.without = WithoutResult]
        /\ UNCHANGED log
    BY <1>4 DEF Judge
  <2>2. WithoutResult \in SUBSET Ideas
    BY DEF WithoutResult
  <2>3. camp'.pc = "begin" /\ TurnKept /\ camp'.without = WithoutResult
    BY <1>1, <2>1, <2>2 DEF TurnKept, CampRecord, Pc
  <2> QED
    BY <1>1, <2>1, <2>3 DEF Judge, Looks, DraftsKept, CountersKept
<1> QED
  BY <1>3, <1>4

\* The least of a set of ideas.
LEMMA OldestIdea ==
    ASSUME NEW S \in SUBSET Ideas, S # {}
    PROVE  (CHOOSE j \in S : \A k \in S : j <= k) \in S
<1>1. S \subseteq Nat
  BY NIdeasAssumption DEF Ideas
<1>2. PICK i \in S : \A j \in S : ~(<<j, i>> \in OpToRel(<, Nat))
  <2>1. IsWellFoundedOn(OpToRel(<, Nat), Nat)
    BY NatLessThanWellFounded
  <2> QED
    BY <1>1, <2>1, WFMin
<1>3. ASSUME NEW j \in S
      PROVE  i <= j
  <2>1. i \in Nat /\ j \in Nat
    BY <1>1
  <2>2. ~(j < i)
    BY <1>2, <2>1 DEF OpToRel
  <2> QED
    BY <2>1, <2>2
<1> QED
  BY <1>3

LEMMA BeginCases ==
    ASSUME TypeOK, Turn, Begin
    PROVE  Starts \/ Ends
<1> DEFINE owners == Owners(Idea, Packet, camp.without)
           oldest == CHOOSE j \in owners : \A k \in owners : j <= k
<1>1. camp.pc = "begin" /\ camp \in CampRecord
  BY DEF Begin, TypeOK
<1>2. LeftKept /\ DraftsKept /\ UNCHANGED <<launched, operator>>
  BY LeftStays DEF Begin, DraftsKept
<1>3. /\ {"duplicate_closed", "implementation_blocked", "failed"}
             \subseteq States
      /\ {"same_rules", "blocked", "interrupted"}
             \subseteq Reasons \ {"requeued_after_fix"}
      /\ ResultStates \cap
             {"duplicate_closed", "implementation_blocked", "failed"} = {}
      /\ camp.pc \in {"judge", "begin", "report"}
  BY <1>1 DEF States, ResultStates, Reasons
<1>4. CASE /\ owners # {}
           /\ RecordEnd("duplicate_closed", "same_rules", oldest)
           /\ UNCHANGED <<starts, recent, begun>>
  <2>1. oldest \in owners /\ oldest \in Ideas
    BY <1>4, OldestIdea DEF Owners
  <2> HIDE DEF oldest
  <2>2. CountersKept
    BY <1>4 DEF CountersKept
  <2> QED
    BY <1>1, <1>2, <1>3, <1>4, <2>1, <2>2, EndCase
<1>5. CASE /\ RecordEnd("implementation_blocked", "blocked", None)
           /\ UNCHANGED <<starts, recent, begun>>
  <2>1. CountersKept
    BY <1>5 DEF CountersKept
  <2> QED
    BY <1>1, <1>2, <1>3, <1>5, <2>1, EndCase
<1>6. CASE /\ RecordEnd("failed", "interrupted", None)
           /\ UNCHANGED <<starts, recent, begun>>
  <2>1. CountersKept
    BY <1>6 DEF CountersKept
  <2> QED
    BY <1>1, <1>2, <1>3, <1>6, <2>1, EndCase
<1>7. CASE /\ owners = {} /\ ~BudgetSpent(Idea, Packet)
           /\ camp' = [camp EXCEPT !.pc = "link",
                  !.rebuild = log[Idea].reason = "requeued_after_fix",
                  !.attempt = Attempt(Idea, Packet)]
           /\ log' = [log EXCEPT ![Idea] =
                  NewEvent("running", "started", Packet, None)]
           /\ starts' = [starts EXCEPT ![Idea][Packet] = @ + 1]
           /\ recent' = [recent EXCEPT ![Idea][Packet] = @ + 1]
           /\ begun' = IF control.paused THEN begun + 1 ELSE begun
  <2>1. Idea \in Ideas /\ Packet \in Packets
    BY <1>1, BusyIdea DEF BusyPc
  <2>2. starts[Idea][Packet] \in Nat /\ recent[Idea][Packet] \in Nat
    BY <2>1 DEF TypeOK
  <2>3. /\ camp'.pc = "link" /\ camp' \in CampRecord
        /\ camp'.queue = camp.queue /\ camp'.fresh = camp.fresh
        /\ camp'.rebuild <=> (log[Idea].reason = "requeued_after_fix")
        /\ camp'.attempt = starts[Idea][Packet]
    BY <1>1, <1>7, <2>2 DEF CampRecord, Pc, Attempt
  <2>4. recent[Idea][Packet] < MaxAttempts
    BY <1>7, <2>2, AttemptsAssumption DEF BudgetSpent
  <2>5. UNCHANGED left
    BY DEF Begin
  <2> QED
    BY <1>1, <1>2, <1>7, <2>3, <2>4, <2>5 DEF Starts
<1> QED
  BY <1>4, <1>5, <1>6, <1>7 DEF Begin

LEMMA GateCases ==
    ASSUME TypeOK, Gate
    PROVE  Takes \/ Rests
<1>1. camp.pc = "gate" /\ camp \in CampRecord
  BY DEF Gate, TypeOK
<1>2. /\ LeftKept /\ DraftsKept /\ CountersKept
      /\ UNCHANGED <<log, launched, operator, left>>
  BY LeftStays DEF Gate, DraftsKept, CountersKept
<1>3. CASE camp' = Rest("idle")
  <2>1. "idle" \in Pc
    BY DEF Pc
  <2> QED
    BY <1>2, <1>3, <2>1, RestEffect DEF Rests
<1>4. CASE /\ \E i \in Ideas : Queued(i)
           /\ ~control.paused
           /\ camp' = [camp EXCEPT !.pc = "judge"]
  <2>1. camp'.pc = "judge" /\ TurnKept
    BY <1>1, <1>4 DEF TurnKept, CampRecord, Pc
  <2> QED
    BY <1>1, <1>2, <1>4, <2>1 DEF Takes
<1> QED
  BY <1>3, <1>4 DEF Gate

LEMMA LaunchCases ==
    ASSUME TypeOK, Turn, Launch
    PROVE  Runs \/ Returns
<1>1. camp.pc = "launch" /\ camp \in CampRecord
  BY DEF Launch, TypeOK
<1>2. /\ LeftKept /\ DraftsKept /\ CountersKept
      /\ UNCHANGED <<log, operator, left>>
  BY LeftStays DEF Launch, DraftsKept, CountersKept
<1>3. CASE /\ Launches(LaunchKey) = {}
           /\ launched' = launched \cup
                 {[key |-> LaunchKey, document |-> camp.document,
                   decision |-> None, fixed |-> fixed[Idea]]}
           /\ camp' = [camp EXCEPT !.pc = "testing"]
  <2>1. camp'.pc = "testing" /\ TurnKept
    BY <1>1, <1>3 DEF TurnKept, CampRecord, Pc
  <2> QED
    BY <1>1, <1>2, <1>3, <2>1 DEF Runs
<1>4. ASSUME NEW l \in Launches(LaunchKey),
             IF l.decision = None
             THEN Return("failed", "interrupted")
             ELSE Return(l.decision, "decided"),
             UNCHANGED launched
      PROVE  Returns
  <2>1. l.decision \in ResultStates \cup {None}
    BY DEF Launches, TypeOK, LaunchRecord
  <2>2. camp.pc \in ChildPc \ {"report"}
    BY <1>1 DEF ChildPc
  <2>3. CASE l.decision = None
    <3>1. Return("failed", "interrupted")
      BY <1>4, <2>3
    <3>2. [state |-> "failed", reason |-> "interrupted"] \in Outcome
      BY DEF Outcome
    <3>3. /\ camp' \in CampRecord /\ camp'.pc = "report"
          /\ camp'.queue = camp.queue /\ camp'.fresh = camp.fresh
          /\ camp'.rebuild = camp.rebuild
          /\ camp'.outcome = [state |-> "failed", reason |-> "interrupted"]
      BY <3>1, <3>2, ReturnEffect
    <3>4. camp'.outcome # None
      BY <3>2, <3>3, NoneAssumption
    <3> QED
      BY <1>1, <1>2, <1>4, <2>2, <3>3, <3>4 DEF Returns, TurnKept
  <2>4. CASE l.decision # None
    <3>1. Return(l.decision, "decided")
      BY <1>4, <2>4
    <3>2. [state |-> l.decision, reason |-> "decided"] \in Outcome
      BY <2>1, <2>4 DEF Outcome
    <3>3. /\ camp' \in CampRecord /\ camp'.pc = "report"
          /\ camp'.queue = camp.queue /\ camp'.fresh = camp.fresh
          /\ camp'.rebuild = camp.rebuild
          /\ camp'.outcome = [state |-> l.decision, reason |-> "decided"]
      BY <3>1, <3>2, ReturnEffect
    <3>4. camp'.outcome # None
      BY <3>2, <3>3, NoneAssumption
    <3> QED
      BY <1>1, <1>2, <1>4, <2>2, <3>3, <3>4 DEF Returns, TurnKept
  <2> QED
    BY <2>3, <2>4
<1> QED
  BY <1>3, <1>4 DEF Launch

LEMMA DecideCase ==
    ASSUME TypeOK, Decide
    PROVE  Decides
<1>1. camp.pc = "testing" /\ camp \in CampRecord
  BY DEF Decide, TypeOK
<1>2. PICK l \in Launches(LaunchKey), d \in ResultStates :
          /\ launched' = (launched \ {l}) \cup {[l EXCEPT !.decision = d]}
          /\ camp' = [camp EXCEPT !.pc = "decided",
                          !.outcome = [state |-> d, reason |-> "decided"]]
  BY DEF Decide
<1>3. [state |-> d, reason |-> "decided"] \in Outcome
  BY DEF Outcome
<1>4. camp'.pc = "decided" /\ TurnKept /\ camp'.outcome # None
  BY <1>1, <1>2, <1>3, NoneAssumption DEF TurnKept, CampRecord, Pc
<1>5. l \in launched
  BY DEF Launches
<1> QED
  BY <1>1, <1>2, <1>4, <1>5 DEF Decide, Decides, DraftsKept, CountersKept

LEMMA ReturnCases ==
    ASSUME TypeOK, Turn, Send \/ ChildBlocked \/ ChildFails
    PROVE  Returns
<1>1. camp \in CampRecord
  BY DEF TypeOK
<1>2. {"raise", "broken"} \subseteq Disturbances \ {"edit", "retest"}
  BY DEF Disturbances
<1>3. CASE Send
  <2>1. camp.pc = "decided" /\ camp' = [camp EXCEPT !.pc = "report"]
    BY <1>3 DEF Send
  <2>2. camp'.pc = "report" /\ TurnKept /\ camp'.outcome = camp.outcome
    BY <1>1, <2>1 DEF TurnKept, CampRecord, Pc
  <2>3. camp.outcome # None
    BY <2>1 DEF Turn
  <2>4. LeftKept
    BY <1>3, LeftStays DEF Send
  <2> QED
    BY <1>3, <2>1, <2>2, <2>3, <2>4 DEF Send, Returns, DraftsKept,
                                        CountersKept, ChildPc
<1>4. CASE ChildBlocked
  <2>1. camp.pc = "link" /\ Return("implementation_blocked", "blocked")
    BY <1>4 DEF ChildBlocked
  <2>2. [state |-> "implementation_blocked", reason |-> "blocked"] \in Outcome
    BY DEF Outcome
  <2>3. /\ TurnKept /\ camp'.pc = "report"
        /\ camp'.outcome =
               [state |-> "implementation_blocked", reason |-> "blocked"]
    BY <2>1, <2>2, ReturnEffect DEF TurnKept
  <2>4. camp'.outcome # None /\ camp'.outcome.state \notin ResultStates
    BY <2>2, <2>3, NoneAssumption DEF ResultStates
  <2>5. LeftKept
    BY <1>2, <1>4, SpendKeeps DEF ChildBlocked
  <2> QED
    BY <1>4, <2>1, <2>3, <2>4, <2>5 DEF ChildBlocked, Returns, DraftsKept,
                                        CountersKept, ChildPc
<1>5. CASE ChildFails
  <2>1. /\ camp.pc \in {"link", "launch", "testing", "decided"}
        /\ Return("failed", "run_error")
    BY <1>5 DEF ChildFails
  <2>2. [state |-> "failed", reason |-> "run_error"] \in Outcome
    BY DEF Outcome
  <2>3. /\ TurnKept /\ camp'.pc = "report"
        /\ camp'.outcome = [state |-> "failed", reason |-> "run_error"]
    BY <2>1, <2>2, ReturnEffect DEF TurnKept
  <2>4. camp'.outcome # None /\ camp'.outcome.state \notin ResultStates
    BY <2>2, <2>3, NoneAssumption DEF ResultStates
  <2>5. LeftKept
    BY <1>2, <1>5, SpendKeeps DEF ChildFails
  <2> QED
    BY <1>5, <2>1, <2>3, <2>4, <2>5 DEF ChildFails, Returns, DraftsKept,
                                        CountersKept, ChildPc
<1> QED
  BY <1>3, <1>4, <1>5

LEMMA ReportCase ==
    ASSUME TypeOK, Turn, Report
    PROVE  Ends
<1>1. /\ camp.pc = "report" /\ camp \in CampRecord /\ camp.outcome # None
      /\ RecordEnd(camp.outcome.state, camp.outcome.reason, None)
  BY DEF Report, TypeOK, Turn
<1>2. camp.outcome \in Outcome
  BY <1>1 DEF CampRecord
<1>3. /\ camp.outcome.state \in States
      /\ camp.outcome.reason \in Reasons \ {"requeued_after_fix"}
  BY <1>2 DEF Outcome, States, Reasons
<1>4. /\ LeftKept /\ DraftsKept /\ CountersKept
      /\ UNCHANGED <<launched, operator>>
  BY LeftStays DEF Report, DraftsKept, CountersKept
<1> QED
  BY <1>1, <1>3, <1>4, EndCase

LEMMA RaiseCases ==
    ASSUME TypeOK, Turn, ProcessRaises
    PROVE  Ends \/ Rests
<1>1. camp.pc \in {"judge", "begin", "report"}
  BY DEF ProcessRaises
<1>2. "raise" \in Disturbances \ {"edit", "retest"}
  BY DEF Disturbances
<1>3. /\ LeftKept /\ DraftsKept /\ CountersKept
      /\ UNCHANGED <<launched, operator>>
  BY <1>2, SpendKeeps DEF ProcessRaises, DraftsKept, CountersKept
<1>4. CASE RecordEnd("failed", "run_error", None)
  <2>1. /\ "failed" \in States /\ "failed" \notin ResultStates
        /\ "run_error" \in Reasons \ {"requeued_after_fix"}
    BY DEF States, ResultStates, Reasons
  <2> QED
    BY <1>1, <1>3, <1>4, <2>1, EndCase
<1>5. CASE camp' = Rest("idle") /\ UNCHANGED log
  <2>1. "idle" \in Pc
    BY DEF Pc
  <2> QED
    BY <1>3, <1>5, <2>1, RestEffect DEF Rests
<1> QED
  BY <1>4, <1>5 DEF ProcessRaises

LEMMA RestartCase ==
    ASSUME TypeOK, Restart
    PROVE  Rests
<1>1. "restart" \in Disturbances \ {"edit", "retest"} /\ "boot" \in Pc
  BY DEF Disturbances, Pc
<1>2. LeftKept
  BY <1>1, SpendKeeps DEF Restart
<1>3. camp' = Rest("boot")
  BY DEF Restart
<1> QED
  BY <1>1, <1>2, <1>3, RestEffect DEF Restart, Rests, DraftsKept, CountersKept

LEMMA AsideCases ==
    ASSUME TypeOK,
           MethodChanges \/ Pause \/ Resume \/ SetDrain \/ ClearDrain
           \/ UNCHANGED vars
    PROVE  Aside
<1>1. {"method", "pause", "drain"} \subseteq Disturbances \ {"edit", "retest"}
  BY DEF Disturbances
<1>2. /\ method \in Nat /\ control \in [paused : BOOLEAN, drain : BOOLEAN]
  BY DEF TypeOK
<1>3. CASE MethodChanges
  BY <1>1, <1>2, <1>3, SpendKeeps DEF MethodChanges, Aside
<1>4. CASE Pause
  BY <1>1, <1>2, <1>4, SpendKeeps DEF Pause, Aside
<1>5. CASE Resume
  BY <1>2, <1>5, LeftStays DEF Resume, Aside
<1>6. CASE SetDrain
  BY <1>1, <1>2, <1>6, SpendKeeps DEF SetDrain, Aside
<1>7. CASE ClearDrain
  BY <1>2, <1>7, LeftStays DEF ClearDrain, Aside
<1>8. CASE UNCHANGED vars
  BY <1>2, <1>8, LeftStays DEF vars, Aside
<1> QED
  BY <1>3, <1>4, <1>5, <1>6, <1>7, <1>8

\* The steps of requests, and of people who change a draft.
Asks ==
    \/ \E i \in Ideas :
          Submit(i) \/ EditPacket(i) \/ HandBuild(i)
          \/ RetestRead(i) \/ RequeueRead(i)
    \/ OperatorWrite

LEMMA StepCases ==
    ASSUME TypeOK, Turn, [Next]_vars
    PROVE  \/ Boot \/ QueuePass \/ AppendWaiting
           \/ Rests \/ Takes \/ Looks \/ Starts \/ Link \/ Runs \/ Decides
           \/ Returns \/ Ends \/ Asks \/ Aside
<1>1. \/ CampaignStep \/ ChildBlocked \/ ChildFails \/ ProcessRaises
      \/ Asks \/ Restart
      \/ MethodChanges \/ Pause \/ Resume \/ SetDrain \/ ClearDrain
      \/ UNCHANGED vars
  BY DEF Next, Asks
<1>2. CASE CampaignStep
  BY <1>2, JudgeCases, BeginCases, GateCases, LaunchCases, DecideCase,
     ReturnCases, ReportCase DEF CampaignStep
<1> QED
  BY <1>1, <1>2, ReturnCases, RaiseCases, RestartCase, AsideCases

-----------------------------------------------------------------------------
(* Every step keeps the types *)

LEMMA AsksTyped ==
    ASSUME TypeOK, Asks
    PROVE  TypeOK'
<1> USE DEF TypeOK
<1>1. {"edit", "retest", "requeue", "handbuilt"} \subseteq Disturbances
  BY DEF Disturbances
<1>2. ASSUME NEW i \in Ideas, Submit(i)
      PROVE  TypeOK'
  <2>1. PICK p \in Packets : drafts' = [drafts EXCEPT ![i].packet = p]
    BY <1>2 DEF Submit
  <2>2. drafts' \in [Ideas -> Draft]
    BY <2>1 DEF Draft
  <2> QED
    BY <1>2, <2>2 DEF Submit
<1>3. ASSUME NEW i \in Ideas, EditPacket(i)
      PROVE  TypeOK'
  <2>1. PICK p \in Packets : drafts' = [drafts EXCEPT ![i].packet = p]
    BY <1>3 DEF EditPacket
  <2>2. drafts' \in [Ideas -> Draft]
    BY <2>1 DEF Draft
  <2> QED
    BY <1>1, <1>3, <2>2, SpendEffect DEF EditPacket
<1>4. ASSUME NEW i \in Ideas, HandBuild(i)
      PROVE  TypeOK'
  <2>1. PICK r \in Rules :
            drafts' = [drafts EXCEPT ![i].link =
               [rules |-> r, market |-> drafts[i].packet.market,
                method |-> method]]
    BY <1>4 DEF HandBuild
  <2>2. drafts[i].packet \in Packets
    BY <1>4 DEF HandBuild, Draft
  <2>3. [rules |-> r, market |-> drafts[i].packet.market, method |-> method]
            \in Documents
    BY <2>2 DEF Documents
  <2>4. drafts' \in [Ideas -> Draft]
    BY <2>1, <2>3 DEF Draft
  <2> QED
    BY <1>1, <1>4, <2>4, SpendEffect DEF HandBuild
<1>5. ASSUME NEW i \in Ideas, RetestRead(i) \/ RequeueRead(i)
      PROVE  TypeOK'
  <2>1. log[i] \in Event
    BY <1>5 DEF RetestRead, RequeueRead, IsSettled, HasEvent
  <2>2. operator' \in Request
    BY <1>5, <2>1 DEF RetestRead, RequeueRead, Request, Event
  <2>3. left' \in [Disturbances -> Nat]
    BY <1>1, <1>5, SpendEffect DEF RetestRead, RequeueRead
  <2> QED
    BY <1>5, <2>2, <2>3 DEF RetestRead, RequeueRead
<1>6. CASE OperatorWrite
  <2>1. operator \in Request
    BY <1>6 DEF OperatorWrite
  <2>2. NewEvent("queued", operator.reason, operator.packet, None) \in Event
    BY <2>1 DEF NewEvent, Event, Request, States, OpenStates, Reasons
  <2>3. operator.idea \in Ideas /\ operator.packet \in Packets
    BY <2>1 DEF Request
  <2>4. log' \in [Ideas -> Event \cup {None}]
    BY <1>6, <2>2, <2>3 DEF OperatorWrite
  <2>5. recent' \in [Ideas -> [Packets -> Nat]]
    BY <1>6, <2>3 DEF OperatorWrite
  <2>6. fixed' \in [Ideas -> Nat]
    BY <1>6, <2>3 DEF OperatorWrite
  <2> QED
    BY <1>6, <2>4, <2>5, <2>6 DEF OperatorWrite
<1> QED
  BY <1>2, <1>3, <1>4, <1>5, <1>6 DEF Asks

LEMMA NextTyped ==
    ASSUME TypeOK, Turn, [Next]_vars
    PROVE  TypeOK'
<1> USE DEF TypeOK
<1>1. CASE Boot
  <2>1. \A i \in Ideas : IsOpen(i) =>
            NewEvent("queued", "requeued_after_restart", log[i].packet, None)
                \in Event
    BY DEF IsOpen, HasEvent, NewEvent, Event, States, OpenStates, Reasons
  <2>2. log' \in [Ideas -> Event \cup {None}]
    BY <1>1, <2>1 DEF Boot
  <2>3. "idle" \in Pc
    BY DEF Pc
  <2>4. camp' \in CampRecord
    BY <1>1, <2>3, RestEffect DEF Boot
  <2> QED
    BY <1>1, <2>2, <2>4 DEF Boot
<1>2. CASE QueuePass
  <2> DEFINE q == [i \in Ideas |->
                      IF ToQueue(i) THEN drafts[i].packet ELSE None]
             f == {i \in Ideas : ToQueue(i) /\ ~IsOpen(i)}
  <2>1. q \in [Ideas -> Packets \cup {None}] /\ f \in SUBSET Ideas
    BY DEF Draft
  <2>2. camp' = [Rest("append") EXCEPT !.queue = q, !.fresh = f]
    BY <1>2 DEF QueuePass
  <2> HIDE DEF q, f
  <2>3. camp' \in CampRecord
    BY <2>1, <2>2 DEF Rest, CampRecord, Pc
  <2> QED
    BY <1>2, <2>3 DEF QueuePass
<1>3. CASE AppendWaiting
  <2>1. \A i \in camp.fresh : camp.queue[i] \in Packets
    BY DEF Turn, CampRecord, Queued
  <2>2. \A i \in camp.fresh :
            NewEvent("queued", "waiting", camp.queue[i], None) \in Event
    BY <2>1 DEF NewEvent, Event, States, OpenStates, Reasons
  <2>3. log' \in [Ideas -> Event \cup {None}]
    BY <1>3, <2>2 DEF AppendWaiting
  <2>4. camp' \in CampRecord
    BY <1>3 DEF AppendWaiting, CampRecord, Pc
  <2> QED
    BY <1>3, <2>3, <2>4 DEF AppendWaiting
<1>4. CASE Rests
  BY <1>4 DEF Rests, LeftKept, DraftsKept, CountersKept
<1>5. CASE Takes \/ Looks \/ Returns \/ Ends
  BY <1>5 DEF Takes, Looks, Returns, Ends, TurnKept, LeftKept, DraftsKept,
              CountersKept
<1>6. CASE Starts
  <2>1. Idea \in Ideas /\ Packet \in Packets
    BY <1>6, BusyIdea DEF Starts, BusyPc
  <2>2. NewEvent("running", "started", Packet, None) \in Event
    BY <2>1 DEF NewEvent, Event, States, OpenStates, Reasons
  <2>3. log' \in [Ideas -> Event \cup {None}]
    BY <1>6, <2>1, <2>2 DEF Starts
  <2>4. starts' \in [Ideas -> [Packets -> Nat]]
    BY <1>6, <2>1 DEF Starts
  <2>5. recent' \in [Ideas -> [Packets -> Nat]]
    BY <1>6, <2>1 DEF Starts
  <2>6. begun' \in Nat
    BY <1>6 DEF Starts
  <2> QED
    BY <1>6, <2>3, <2>4, <2>5, <2>6 DEF Starts, DraftsKept
<1>7. CASE Link
  BY <1>7, LinkEffect DEF Link
<1>8. CASE Runs
  <2>1. Idea \in Ideas /\ Packet \in Packets /\ camp.document # None
    BY <1>8, BusyIdea DEF Runs, BusyPc, ChildPc, Turn
  <2>2. [key |-> LaunchKey, document |-> camp.document,
         decision |-> None, fixed |-> fixed[Idea]] \in LaunchRecord
    BY <2>1 DEF LaunchRecord, LaunchKey, Key, Rules, CampRecord
  <2> QED
    BY <1>8, <2>2 DEF Runs, TurnKept, DraftsKept, CountersKept
<1>9. CASE Decides
  <2>1. PICK l \in launched, d \in ResultStates :
          launched' = (launched \ {l}) \cup {[l EXCEPT !.decision = d]}
    BY <1>9 DEF Decides
  <2>2. [l EXCEPT !.decision = d] \in LaunchRecord
    BY DEF LaunchRecord
  <2> QED
    BY <1>9, <2>1, <2>2 DEF Decides, TurnKept, DraftsKept, CountersKept
<1>10. CASE Aside
  BY <1>10 DEF Aside, LeftKept
<1> QED
  BY <1>1, <1>2, <1>3, <1>4, <1>5, <1>6, <1>7, <1>8, <1>9, <1>10,
     StepCases, AsksTyped

-----------------------------------------------------------------------------
(* Each part of the invariant is kept *)

\* A draft only changes before it is linked, and it keeps a packet.
LEMMA DraftChange ==
    ASSUME TypeOK, PacketsStay, NEW i \in Ideas,
           Submit(i) \/ EditPacket(i) \/ HandBuild(i)
    PROVE  /\ ~Linked(i) /\ drafts'[i].packet # None
           /\ \A j \in Ideas \ {i} : drafts'[j] = drafts[j]
           /\ NeverEdited' =>
                 /\ NeverEdited
                 /\ drafts[i].packet # None =>
                       drafts'[i].packet = drafts[i].packet
           /\ left'["retest"] = left["retest"]
           /\ \A d \in Disturbances : left'[d] <= left[d]
           /\ UNCHANGED <<log, starts, recent, launched, camp, operator,
                          control, begun>>
<1> USE DEF TypeOK
<1>1. {"edit", "retest", "handbuilt"} \subseteq Disturbances
  BY DEF Disturbances
<1>2. drafts[i] \in Draft
  OBVIOUS
<1>3. \A d \in Disturbances : left[d] \in Nat /\ Allowance[d] \in Nat
  BY AllowanceAssumption
<1>4. CASE Submit(i)
  <2>1. PICK p \in Packets : drafts' = [drafts EXCEPT ![i].packet = p]
    BY <1>4 DEF Submit
  <2>2. drafts'[i].packet = p /\ p # None
    BY <1>2, <2>1, NoneAssumption DEF Draft
  <2>3. ~Linked(i) /\ drafts[i].packet = None
    BY <1>4 DEF Submit, PacketsStay
  <2> QED
    BY <1>3, <1>4, <2>1, <2>2, <2>3 DEF Submit, NeverEdited
<1>5. CASE EditPacket(i)
  <2>1. PICK p \in Packets : drafts' = [drafts EXCEPT ![i].packet = p]
    BY <1>5 DEF EditPacket
  <2>2. drafts'[i].packet = p /\ p # None
    BY <1>2, <2>1, NoneAssumption DEF Draft
  <2>3. /\ left'["edit"] = left["edit"] - 1
        /\ \A d \in Disturbances : d # "edit" => left'[d] = left[d]
    BY <1>1, <1>5, SpendEffect DEF EditPacket
  <2>4. ~NeverEdited'
    BY <1>1, <1>3, <2>3 DEF NeverEdited, PacketsStay
  <2> QED
    BY <1>1, <1>3, <1>5, <2>1, <2>2, <2>3, <2>4 DEF EditPacket
<1>6. CASE HandBuild(i)
  <2>1. PICK r \in Rules :
            drafts' = [drafts EXCEPT ![i].link =
               [rules |-> r, market |-> drafts[i].packet.market,
                method |-> method]]
    BY <1>6 DEF HandBuild
  <2>2. drafts'[i].packet = drafts[i].packet /\ drafts[i].packet # None
    BY <1>2, <1>6, <2>1 DEF Draft, HandBuild
  <2>3. /\ left'["handbuilt"] = left["handbuilt"] - 1
        /\ \A d \in Disturbances : d # "handbuilt" => left'[d] = left[d]
    BY <1>1, <1>6, SpendEffect DEF HandBuild
  <2> QED
    BY <1>1, <1>3, <1>6, <2>1, <2>2, <2>3 DEF HandBuild, NeverEdited
<1> QED
  BY <1>4, <1>5, <1>6

\* A request reads the event of an idea that is settled.
LEMMA RequestRead ==
    ASSUME TypeOK, NEW i \in Ideas, RetestRead(i) \/ RequeueRead(i)
    PROVE  /\ operator = None /\ operator' # None
           /\ operator'.idea = i /\ operator'.packet = log[i].packet
           /\ HasEvent(i)
           /\ operator'.reason = "requeued_by_agent" =>
                 log[i].state = "failed" /\ left'["retest"] = left["retest"]
           /\ operator'.reason # "requeued_by_agent" =>
                 /\ operator'.reason = "requeued_after_fix"
                 /\ left'["retest"] = left["retest"] - 1
           /\ left'["edit"] = left["edit"]
           /\ \A d \in Disturbances : left'[d] <= left[d]
           /\ UNCHANGED <<drafts, log, starts, recent, launched, camp, control,
                          begun>>
<1>1. {"edit", "retest", "requeue"} \subseteq Disturbances
  BY DEF Disturbances
<1>2. \A d \in Disturbances : left[d] \in Nat
  BY DEF TypeOK
<1>3. CASE RetestRead(i)
  <2>1. /\ left'["retest"] = left["retest"] - 1
        /\ \A d \in Disturbances : d # "retest" => left'[d] = left[d]
    BY <1>1, <1>3, SpendEffect DEF RetestRead
  <2>2. HasEvent(i) /\ log[i] \in Event
    BY <1>3 DEF RetestRead, IsSettled, HasEvent, TypeOK
  <2>3. operator' = [idea |-> i, reason |-> "requeued_after_fix",
                     packet |-> log[i].packet]
    BY <1>3 DEF RetestRead
  <2>4. operator' \in Request
    BY <2>2, <2>3 DEF Request, Event
  <2>5. operator' # None
    BY <2>4, NoneAssumption
  <2> QED
    BY <1>1, <1>2, <1>3, <2>1, <2>2, <2>3, <2>5 DEF RetestRead
<1>4. CASE RequeueRead(i)
  <2>1. /\ left'["requeue"] = left["requeue"] - 1
        /\ \A d \in Disturbances : d # "requeue" => left'[d] = left[d]
    BY <1>1, <1>4, SpendEffect DEF RequeueRead
  <2>2. HasEvent(i) /\ log[i] \in Event /\ log[i].state = "failed"
    BY <1>4 DEF RequeueRead, HasEvent, TypeOK
  <2>3. operator' = [idea |-> i, reason |-> "requeued_by_agent",
                     packet |-> log[i].packet]
    BY <1>4 DEF RequeueRead
  <2>4. operator' \in Request
    BY <2>2, <2>3 DEF Request, Event
  <2>5. operator' # None
    BY <2>4, NoneAssumption
  <2> QED
    BY <1>1, <1>2, <1>4, <2>1, <2>2, <2>3, <2>5 DEF RequeueRead
<1> QED
  BY <1>3, <1>4

\* The request is written, and the idea is queued.
LEMMA RequestWritten ==
    ASSUME TypeOK, OperatorWrite
    PROVE  /\ operator \in Request /\ operator # None /\ operator' = None
           /\ operator.idea \in Ideas
           /\ log'[operator.idea] # None
           /\ log'[operator.idea].state = "queued"
           /\ log'[operator.idea].packet = operator.packet
           /\ log'[operator.idea].reason = operator.reason
           /\ log'[operator.idea].owner = None
           /\ \A i \in Ideas \ {operator.idea} : log'[i] = log[i]
           /\ UNCHANGED <<drafts, starts, launched, camp, control, left,
                          begun>>
<1>1. operator \in Request /\ operator # None /\ operator' = None
  BY DEF OperatorWrite, TypeOK
<1>2. operator.idea \in Ideas
  BY <1>1 DEF Request
<1>3. NewEvent("queued", operator.reason, operator.packet, None) \in Event
  BY <1>1 DEF NewEvent, Event, Request, States, OpenStates, Reasons
<1>4. log' = [log EXCEPT ![operator.idea] =
                 NewEvent("queued", operator.reason, operator.packet, None)]
  BY DEF OperatorWrite
<1>5. /\ log'[operator.idea] =
             NewEvent("queued", operator.reason, operator.packet, None)
      /\ \A i \in Ideas \ {operator.idea} : log'[i] = log[i]
  BY <1>2, <1>4 DEF TypeOK
<1>6. log'[operator.idea] # None
  BY <1>3, <1>5, NoneAssumption
<1> QED
  BY <1>1, <1>2, <1>5, <1>6 DEF OperatorWrite, NewEvent

\* The start of a test.
LEMMA StartEffect ==
    ASSUME TypeOK, Turn, Starts
    PROVE  /\ camp.pc = "begin" /\ Idea \in Ideas /\ Packet \in Packets
           /\ Queued(Idea)
           /\ Idea' = Idea /\ Packet' = Packet
           /\ \A i : Queued(i)' <=> Queued(i)
           /\ log'[Idea] # None /\ log'[Idea].state = "running"
           /\ log'[Idea].packet = Packet /\ log'[Idea].owner = None
           /\ log'[Idea].reason = "started"
           /\ \A i \in Ideas \ {Idea} : log'[i] = log[i]
           /\ starts'[Idea][Packet] = starts[Idea][Packet] + 1
           /\ recent'[Idea][Packet] = recent[Idea][Packet] + 1
           /\ \A i \in Ideas, p \in Packets :
                 ~(i = Idea /\ p = Packet) =>
                     /\ starts'[i][p] = starts[i][p]
                     /\ recent'[i][p] = recent[i][p]
<1>1. camp.pc = "begin" /\ Idea \in Ideas /\ Packet \in Packets /\ Queued(Idea)
  BY BusyIdea DEF Starts, BusyPc
<1>2. Idea' = Idea /\ Packet' = Packet /\ \A i : Queued(i)' <=> Queued(i)
  BY SameIdea DEF Starts
<1>3. NewEvent("running", "started", Packet, None) \in Event
  BY <1>1 DEF NewEvent, Event, States, OpenStates, Reasons
<1>4. /\ log'[Idea] = NewEvent("running", "started", Packet, None)
      /\ \A i \in Ideas \ {Idea} : log'[i] = log[i]
  BY <1>1 DEF Starts, TypeOK
<1>5. log'[Idea] # None
  BY <1>3, <1>4, NoneAssumption
<1>6. /\ starts \in [Ideas -> [Packets -> Nat]]
      /\ starts' = [starts EXCEPT ![Idea][Packet] = @ + 1]
  BY DEF Starts, TypeOK
<1>7. /\ recent \in [Ideas -> [Packets -> Nat]]
      /\ recent' = [recent EXCEPT ![Idea][Packet] = @ + 1]
  BY DEF Starts, TypeOK
<1>8. /\ starts'[Idea][Packet] = starts[Idea][Packet] + 1
      /\ \A i \in Ideas, p \in Packets :
            ~(i = Idea /\ p = Packet) => starts'[i][p] = starts[i][p]
  BY <1>1, <1>6
<1>9. /\ recent'[Idea][Packet] = recent[Idea][Packet] + 1
      /\ \A i \in Ideas, p \in Packets :
            ~(i = Idea /\ p = Packet) => recent'[i][p] = recent[i][p]
  BY <1>1, <1>7
<1> QED
  BY <1>1, <1>2, <1>4, <1>5, <1>8, <1>9 DEF NewEvent

\* The start of the gateway.
LEMMA BootEffect ==
    ASSUME TypeOK, Boot
    PROVE  /\ \A i \in Ideas :
                 /\ ~IsOpen(i) => log'[i] = log[i]
                 /\ IsOpen(i) =>
                       /\ HasEvent(i) /\ log'[i] # None
                       /\ log'[i].state = "queued"
                       /\ log'[i].packet = log[i].packet
                       /\ log'[i].reason = "requeued_after_restart"
                       /\ log'[i].owner = None
           /\ camp'.pc = "idle" /\ camp'.fresh = {} /\ ~camp'.rebuild
           /\ \A i \in Ideas : ~Queued(i)'
<1>1. "idle" \in Pc /\ camp' = Rest("idle")
  BY DEF Pc, Boot
<1>2. /\ camp'.pc = "idle" /\ camp'.fresh = {} /\ ~camp'.rebuild
      /\ \A i \in Ideas : ~Queued(i)'
  BY <1>1, RestEffect
<1>3. ASSUME NEW i \in Ideas, IsOpen(i)
      PROVE  /\ HasEvent(i) /\ log'[i] # None /\ log'[i].state = "queued"
             /\ log'[i].packet = log[i].packet
             /\ log'[i].reason = "requeued_after_restart"
             /\ log'[i].owner = None
  <2>1. log[i] \in Event /\ HasEvent(i)
    BY <1>3 DEF IsOpen, HasEvent, TypeOK
  <2>2. log'[i] =
            NewEvent("queued", "requeued_after_restart", log[i].packet, None)
    BY <1>3 DEF Boot
  <2>3. log'[i] \in Event
    BY <2>1, <2>2 DEF NewEvent, Event, States, OpenStates, Reasons
  <2> QED
    BY <2>1, <2>2, <2>3, NoneAssumption DEF NewEvent
<1>4. \A i \in Ideas : ~IsOpen(i) => log'[i] = log[i]
  BY DEF Boot
<1> QED
  BY <1>2, <1>3, <1>4

\* What a pass of the thread takes up.
LEMMA QueueEffect ==
    ASSUME TypeOK, QueuePass
    PROVE  /\ camp'.pc = "append" /\ ~camp'.rebuild
           /\ \A i \in Ideas :
                 /\ Queued(i)' =>
                       ToQueue(i) /\ camp'.queue[i] = drafts[i].packet
                 /\ i \in camp'.fresh <=> ToQueue(i) /\ ~IsOpen(i)
                 /\ i \in camp'.fresh => Queued(i)'
           /\ camp'.fresh \subseteq Ideas
<1> DEFINE q == [i \in Ideas |->
                    IF ToQueue(i) THEN drafts[i].packet ELSE None]
           f == {i \in Ideas : ToQueue(i) /\ ~IsOpen(i)}
<1>1. \A i \in Ideas :
          /\ q[i] # None => ToQueue(i) /\ q[i] = drafts[i].packet
          /\ i \in f <=> ToQueue(i) /\ ~IsOpen(i)
          /\ i \in f => q[i] # None
  BY DEF ToQueue
<1>2. f \subseteq Ideas
  OBVIOUS
<1>3. camp' = [Rest("append") EXCEPT !.queue = q, !.fresh = f]
  BY DEF QueuePass
<1> HIDE DEF q, f
<1>4. /\ camp'.queue = q /\ camp'.fresh = f
      /\ camp'.pc = "append" /\ ~camp'.rebuild
  BY <1>3 DEF Rest
<1> QED
  BY <1>1, <1>2, <1>4 DEF Queued

\* Those are appended as waiting.
LEMMA AppendEffect ==
    ASSUME TypeOK, Turn, AppendWaiting
    PROVE  /\ camp'.fresh = {} /\ camp'.pc = "gate"
           /\ camp'.rebuild = camp.rebuild
           /\ \A i : Queued(i)' <=> Queued(i)
           /\ camp'.queue = camp.queue
           /\ \A i \in Ideas \ camp.fresh : log'[i] = log[i]
           /\ \A i \in camp.fresh :
                 /\ i \in Ideas /\ Queued(i)
                 /\ log'[i] # None /\ log'[i].state = "queued"
                 /\ log'[i].packet = camp.queue[i]
                 /\ log'[i].reason = "waiting" /\ log'[i].owner = None
<1>1. camp \in CampRecord
  BY DEF TypeOK
<1>2. /\ camp'.fresh = {} /\ camp'.pc = "gate" /\ camp'.rebuild = camp.rebuild
      /\ camp'.queue = camp.queue
  BY <1>1 DEF AppendWaiting, CampRecord
<1>3. \A i : Queued(i)' <=> Queued(i)
  BY <1>2, SameIdea
<1>4. \A i \in Ideas \ camp.fresh : log'[i] = log[i]
  BY DEF AppendWaiting
<1>5. ASSUME NEW i \in camp.fresh
      PROVE  /\ i \in Ideas /\ Queued(i)
             /\ log'[i] # None /\ log'[i].state = "queued"
             /\ log'[i].packet = camp.queue[i]
             /\ log'[i].reason = "waiting" /\ log'[i].owner = None
  <2>1. i \in Ideas /\ Queued(i) /\ camp.queue[i] \in Packets
    BY <1>1 DEF CampRecord, Turn, Queued
  <2>2. log'[i] = NewEvent("queued", "waiting", camp.queue[i], None)
    BY <2>1 DEF AppendWaiting
  <2>3. log'[i] \in Event
    BY <2>1, <2>2 DEF NewEvent, Event, States, OpenStates, Reasons
  <2> QED
    BY <2>1, <2>2, <2>3, NoneAssumption DEF NewEvent
<1> QED
  BY <1>2, <1>3, <1>4, <1>5

LEMMA TurnStep ==
    ASSUME TypeOK, Turn, PacketsStay, [Next]_vars
    PROVE  Turn'
<1>1. camp.pc \in BusyPc =>
          Idea \in Ideas /\ Queued(Idea) /\ Packet \in Packets
  BY BusyIdea
<1>2. \A i \in Ideas : Queued(i) => HasEvent(i) \/ i \in camp.fresh
  BY DEF Turn
<1>3. CASE Boot
  BY <1>3, BootEffect DEF Turn, BusyPc, ChildPc
<1>4. CASE QueuePass
  BY <1>4, QueueEffect DEF QueuePass, Turn, BusyPc, ChildPc, IsOpen, HasEvent
<1>5. CASE AppendWaiting
  <2>1. camp'.pc = "gate" /\ camp'.fresh = {}
    BY <1>5, AppendEffect
  <2>2. \A i \in Ideas : Queued(i)' => HasEvent(i)'
    BY <1>2, <1>5, AppendEffect DEF HasEvent
  <2> QED
    BY <2>1, <2>2 DEF Turn, BusyPc, ChildPc
<1>6. CASE Rests
  BY <1>6 DEF Rests, Turn, BusyPc, ChildPc
<1>7. CASE Takes \/ Looks
  <2>1. /\ Idea' = Idea /\ Packet' = Packet
        /\ \A i : Queued(i)' <=> Queued(i)
        /\ camp'.fresh = camp.fresh
    BY <1>7, SameIdea DEF Takes, Looks, TurnKept
  <2>2. /\ camp.pc \in {"gate", "judge"} /\ camp'.pc \in {"judge", "begin"}
        /\ \E i \in Ideas : Queued(i)
        /\ \A i : HasEvent(i)' <=> HasEvent(i)
    BY <1>7 DEF Takes, Looks, Turn, BusyPc, HasEvent
  <2> QED
    BY <2>1, <2>2 DEF Turn, BusyPc
<1>8. CASE Starts
  <2>1. /\ Idea \in Ideas /\ Packet \in Packets
        /\ Idea' = Idea /\ Packet' = Packet
        /\ Queued(Idea) /\ \A i : Queued(i)' <=> Queued(i)
        /\ starts'[Idea][Packet] = starts[Idea][Packet] + 1
    BY <1>8, StartEffect
  <2>2. camp'.fresh = camp.fresh /\ camp.fresh = {} /\ camp'.pc = "link"
    BY <1>8 DEF Starts, Turn
  <2>3. \A i \in Ideas : Queued(i)' => HasEvent(i)'
    BY <1>2, <1>8, <2>1, <2>2, StartEffect DEF HasEvent
  <2>4. camp'.attempt = starts[Idea][Packet] /\ starts[Idea][Packet] \in Nat
    BY <1>8, <2>1 DEF Starts, TypeOK
  <2> QED
    BY <2>1, <2>2, <2>3, <2>4 DEF Turn, BusyPc, ChildPc
<1>9. CASE Link
  <2>1. /\ Idea' = Idea /\ Packet' = Packet
        /\ \A i : Queued(i)' <=> Queued(i)
        /\ camp'.fresh = camp.fresh /\ camp.pc = "link"
    BY <1>9, SameIdea, LinkEffect
  <2>2. /\ \A i : HasEvent(i)' <=> HasEvent(i)
        /\ starts' = starts
    BY <1>9 DEF Link, HasEvent
  <2>3. /\ \E i \in Ideas : Queued(i)
        /\ camp.fresh = {}
        /\ camp.attempt < starts[Idea][Packet]
    BY <2>1 DEF Turn, BusyPc, ChildPc
  <2>4. CASE /\ camp'.pc = "report"
             /\ camp'.outcome =
                    [state |-> "failed", reason |-> "rules_changed"]
    <3>1. camp'.outcome # None /\ camp'.outcome.state \notin ResultStates
      <4>1. [state |-> "failed", reason |-> "rules_changed"] \in Outcome
        BY DEF Outcome
      <4> QED
        BY <2>4, <4>1, NoneAssumption DEF ResultStates
    <3> QED
      BY <1>2, <2>1, <2>2, <2>3, <2>4, <3>1 DEF Turn, BusyPc, ChildPc
  <2>5. CASE /\ camp'.pc = "launch" /\ camp'.document # None
             /\ camp'.attempt = camp.attempt
             /\ camp'.document = drafts'[Idea].link
             /\ drafts'[Idea].link.rules = Packet.rules
    BY <1>2, <2>1, <2>2, <2>3, <2>5 DEF Turn, BusyPc, ChildPc, Linked
  <2> QED
    BY <1>9, <2>4, <2>5, LinkEffect
<1>10. CASE Runs \/ Decides \/ Returns
  <2>1. /\ Idea' = Idea /\ Packet' = Packet
        /\ \A i : Queued(i)' <=> Queued(i)
        /\ camp'.fresh = camp.fresh
    BY <1>10, SameIdea DEF Runs, Decides, Returns, TurnKept
  <2>2. /\ UNCHANGED <<drafts, starts>>
        /\ \A i : HasEvent(i)' <=> HasEvent(i)
    BY <1>10 DEF Runs, Decides, Returns, HasEvent, DraftsKept, CountersKept
  <2>3. camp.pc \in ChildPc /\ camp'.pc \in {"testing", "decided", "report"}
    BY <1>10 DEF Runs, Decides, Returns, ChildPc
  <2>4. /\ \E i \in Ideas : Queued(i)
        /\ camp.fresh = {}
    BY <2>3 DEF Turn, BusyPc, ChildPc
  <2>5. CASE Runs \/ Decides
    <3>1. /\ Linked(Idea) /\ drafts[Idea].link.rules = Packet.rules
          /\ camp'.pc \in {"testing", "decided"}
          /\ camp'.pc = "decided" => camp'.outcome # None
      BY <2>5 DEF Runs, Decides, Turn
    <3> QED
      BY <1>2, <2>1, <2>2, <2>4, <3>1 DEF Turn, BusyPc, ChildPc, Linked
  <2>6. CASE Returns
    <3>1. /\ camp'.pc = "report" /\ camp'.outcome # None
          /\ camp'.outcome.state \in ResultStates =>
                Linked(Idea) /\ drafts[Idea].link.rules = Packet.rules
      BY <2>6 DEF Returns, Turn
    <3> QED
      BY <1>2, <2>1, <2>2, <2>4, <3>1 DEF Turn, BusyPc, ChildPc, Linked
  <2> QED
    BY <1>10, <2>5, <2>6
<1>11. CASE Ends
  <2>1. camp.fresh = {} /\ camp'.fresh = {} /\ camp'.pc = "gate"
    BY <1>11 DEF Ends, Turn
  <2>2. \A i \in Ideas : Queued(i)' => HasEvent(i)'
    BY <1>2, <1>11, <2>1 DEF Ends, HasEvent
  <2> QED
    BY <2>1, <2>2 DEF Turn, BusyPc, ChildPc
<1>12. CASE Asks
  <2>1. /\ UNCHANGED <<starts, camp>>
        /\ \A i \in Ideas : Linked(i) => drafts'[i] = drafts[i]
        /\ \A i \in Ideas : HasEvent(i) => HasEvent(i)'
    <3>1. ASSUME NEW i \in Ideas, Submit(i) \/ EditPacket(i) \/ HandBuild(i)
          PROVE  /\ UNCHANGED <<starts, camp, log>>
                 /\ \A j \in Ideas : Linked(j) => drafts'[j] = drafts[j]
      BY <3>1, DraftChange
    <3>2. ASSUME NEW i \in Ideas, RetestRead(i) \/ RequeueRead(i)
          PROVE  UNCHANGED <<starts, camp, log, drafts>>
      BY <3>2, RequestRead
    <3>3. CASE OperatorWrite
      BY <3>3, RequestWritten DEF HasEvent
    <3> QED
      BY <1>12, <3>1, <3>2, <3>3 DEF Asks, HasEvent
  <2>2. /\ Idea' = Idea /\ Packet' = Packet
        /\ \A i : Queued(i)' <=> Queued(i)
    BY <2>1, SameIdea
  <2>3. camp.pc \in {"launch", "testing", "decided", "report"} =>
            (Linked(Idea) => drafts'[Idea] = drafts[Idea])
    BY <1>1, <2>1 DEF BusyPc, ChildPc
  <2>4. camp.pc = "launch" => Linked(Idea)
    BY DEF Turn
  <2> QED
    BY <1>2, <2>1, <2>2, <2>3, <2>4 DEF Turn, Linked
<1>13. CASE Aside
  <2>1. UNCHANGED <<camp, drafts, starts, log>>
    BY <1>13 DEF Aside
  <2>2. /\ Idea' = Idea /\ Packet' = Packet
        /\ \A i : Queued(i)' <=> Queued(i)
    BY <2>1, SameIdea
  <2> QED
    BY <2>1, <2>2 DEF Turn, Linked, HasEvent
<1> QED
  BY <1>3, <1>4, <1>5, <1>6, <1>7, <1>8, <1>9, <1>10, <1>11, <1>12, <1>13,
     StepCases

\* What can become of an event.
Reopened(i) ==
    /\ log'[i] # None /\ log'[i].state \in OpenStates /\ log'[i].owner = None
    /\ \/ /\ IsOpen(i) /\ log'[i].packet = log[i].packet
          /\ log'[i].reason = "requeued_after_restart"
       \/ /\ Queued(i) /\ log'[i].packet = camp.queue[i]
          /\ log'[i].reason \in {"waiting", "started"}
       \/ /\ OperatorWrite /\ i = operator.idea
          /\ log'[i].packet = operator.packet
          /\ log'[i].reason = operator.reason

LEMMA LogCases ==
    ASSUME TypeOK, Turn, PacketsStay, [Next]_vars, NEW i \in Ideas
    PROVE  \/ log'[i] = log[i]
           \/ Reopened(i)
           \/ Ends /\ i = Idea
<1>1. CASE Boot
  BY <1>1, BootEffect DEF Reopened, OpenStates
<1>2. CASE AppendWaiting
  BY <1>2, AppendEffect DEF Reopened, OpenStates
<1>3. CASE Starts
  <2>1. CASE i = Idea
    BY <1>3, <2>1, StartEffect DEF Reopened, OpenStates, Packet
  <2>2. CASE i # Idea
    BY <1>3, <2>2, StartEffect
  <2> QED
    BY <2>1, <2>2
<1>4. CASE Ends
  BY <1>4 DEF Ends
<1>5. CASE Asks
  <2>1. ASSUME NEW j \in Ideas, Submit(j) \/ EditPacket(j) \/ HandBuild(j)
        PROVE  log' = log
    BY <2>1, DraftChange
  <2>2. ASSUME NEW j \in Ideas, RetestRead(j) \/ RequeueRead(j)
        PROVE  log' = log
    BY <2>2, RequestRead
  <2>3. CASE OperatorWrite
    BY <2>3, RequestWritten DEF Reopened, OpenStates
  <2> QED
    BY <1>5, <2>1, <2>2, <2>3 DEF Asks
<1>6. CASE \/ QueuePass \/ Rests \/ Takes \/ Looks \/ Link \/ Runs
           \/ Decides \/ Returns \/ Aside
  BY <1>6 DEF QueuePass, Rests, Takes, Looks, Link, Runs, Decides, Returns,
              Aside
<1> QED
  BY <1>1, <1>2, <1>3, <1>4, <1>5, <1>6, StepCases

\* Only a pass of the thread queues ideas.
LEMMA QueueCases ==
    ASSUME TypeOK, Turn, PacketsStay, [Next]_vars, ~QueuePass,
           NEW i \in Ideas, Queued(i)'
    PROVE  Queued(i) /\ camp'.queue[i] = camp.queue[i]
<1>1. CASE Boot
  BY <1>1, BootEffect
<1>2. CASE AppendWaiting
  BY <1>2, AppendEffect
<1>3. CASE Rests \/ Ends
  BY <1>3 DEF Rests, Ends
<1>4. CASE Link
  BY <1>4, LinkEffect DEF Queued
<1>5. CASE Asks
  <2>1. camp' = camp
    BY <1>5 DEF Asks, Submit, EditPacket, HandBuild, RetestRead, RequeueRead,
                OperatorWrite
  <2> QED
    BY <2>1 DEF Queued
<1>6. CASE Takes \/ Looks \/ Starts \/ Runs \/ Decides \/ Returns \/ Aside
  BY <1>6 DEF Takes, Looks, Starts, Runs, Decides, Returns, Aside, TurnKept,
              Queued
<1> QED
  BY <1>1, <1>2, <1>3, <1>4, <1>5, <1>6, StepCases

\* Allowances are only spent.
LEMMA LeftCases ==
    ASSUME TypeOK, Turn, PacketsStay, [Next]_vars
    PROVE  /\ \A d \in Disturbances : left'[d] <= left[d]
           /\ NeverEdited' => NeverEdited
<1>1. CASE Boot \/ QueuePass \/ AppendWaiting \/ Takes \/ Looks \/ Starts
           \/ Link \/ Runs \/ Decides
  <2>1. left' = left
    BY <1>1 DEF Boot, QueuePass, AppendWaiting, Takes, Looks, Starts, Link,
                Runs, Decides
  <2> QED
    BY <2>1, LeftStays DEF LeftKept, NeverEdited
<1>2. CASE Rests \/ Returns \/ Ends \/ Aside
  BY <1>2 DEF Rests, Returns, Ends, Aside, LeftKept, NeverEdited
<1>3. CASE Asks
  <2>1. ASSUME NEW j \in Ideas, Submit(j) \/ EditPacket(j) \/ HandBuild(j)
        PROVE  /\ NeverEdited' => NeverEdited
               /\ \A d \in Disturbances : left'[d] <= left[d]
    BY <2>1, DraftChange
  <2>2. ASSUME NEW j \in Ideas, RetestRead(j) \/ RequeueRead(j)
        PROVE  /\ NeverEdited' => NeverEdited
               /\ \A d \in Disturbances : left'[d] <= left[d]
    BY <2>2, RequestRead DEF NeverEdited
  <2>3. CASE OperatorWrite
    <3>1. left' = left
      BY <2>3, RequestWritten
    <3> QED
      BY <3>1, LeftStays DEF LeftKept, NeverEdited
  <2> QED
    BY <1>3, <2>1, <2>2, <2>3 DEF Asks
<1> QED
  BY <1>1, <1>2, <1>3, StepCases

\* A draft changes by hand before it is linked, or by the child that links it.
LEMMA DraftCases ==
    ASSUME TypeOK, Turn, PacketsStay, [Next]_vars, NEW i \in Ideas
    PROVE  /\ drafts[i].packet # None => drafts'[i].packet # None
           /\ Linked(i)' => drafts'[i].packet # None
           /\ \/ drafts'[i] = drafts[i]
              \/ ~Linked(i) /\ Asks
              \/ Link /\ i = Idea
           /\ (NeverEdited' /\ drafts[i].packet # None) =>
                 drafts'[i].packet = drafts[i].packet
<1>1. Linked(i) => drafts[i].packet # None
  BY DEF PacketsStay
<1>2. CASE drafts' = drafts
  BY <1>1, <1>2 DEF Linked
<1>3. CASE Link
  <2>1. /\ drafts'[i].packet = drafts[i].packet
        /\ i # Idea => drafts'[i] = drafts[i]
        /\ Idea \in Ideas /\ Queued(Idea)
    BY <1>3, LinkEffect, BusyIdea DEF BusyPc, ChildPc
  <2>2. drafts[Idea].packet # None
    BY <2>1 DEF PacketsStay
  <2> QED
    BY <1>1, <1>3, <2>1, <2>2 DEF Linked
<1>4. ASSUME NEW j \in Ideas, Submit(j) \/ EditPacket(j) \/ HandBuild(j)
      PROVE  /\ drafts[i].packet # None => drafts'[i].packet # None
             /\ Linked(i)' => drafts'[i].packet # None
             /\ drafts'[i] = drafts[i] \/ (~Linked(i) /\ Asks)
             /\ (NeverEdited' /\ drafts[i].packet # None) =>
                   drafts'[i].packet = drafts[i].packet
  <2>1. Asks
    BY <1>4 DEF Asks
  <2>2. /\ ~Linked(j) /\ drafts'[j].packet # None
        /\ j # i => drafts'[i] = drafts[i]
        /\ (NeverEdited' /\ drafts[j].packet # None) =>
              drafts'[j].packet = drafts[j].packet
    BY <1>4, DraftChange
  <2>3. CASE i = j
    BY <2>1, <2>2, <2>3
  <2>4. CASE i # j
    BY <1>1, <2>2, <2>4 DEF Linked
  <2> QED
    BY <2>3, <2>4
<1>5. CASE Asks
  <2>1. ASSUME NEW j \in Ideas, RetestRead(j) \/ RequeueRead(j)
        PROVE  drafts' = drafts
    BY <2>1, RequestRead
  <2>2. ASSUME OperatorWrite
        PROVE  drafts' = drafts
    BY <2>2, RequestWritten
  <2> QED
    BY <1>2, <1>4, <1>5, <2>1, <2>2 DEF Asks
<1>6. CASE Boot \/ QueuePass \/ AppendWaiting \/ Rests \/ Takes \/ Looks
           \/ Starts \/ Runs \/ Decides \/ Returns \/ Ends \/ Aside
  <2>1. drafts' = drafts
    BY <1>6 DEF Boot, QueuePass, AppendWaiting, Rests, Takes, Looks, Starts,
                Runs, Decides, Returns, Ends, Aside, DraftsKept
  <2> QED
    BY <1>2, <2>1
<1> QED
  BY <1>3, <1>5, <1>6, StepCases

LEMMA PacketsStayStep ==
    ASSUME TypeOK, Turn, PacketsStay, [Next]_vars
    PROVE  PacketsStay'
<1>1. ASSUME NEW i \in Ideas, Queued(i)'
      PROVE  drafts'[i].packet # None
  <2>1. CASE QueuePass
    BY <1>1, <2>1, QueueEffect, DraftCases DEF ToQueue
  <2>2. CASE ~QueuePass
    <3>1. drafts[i].packet # None
      BY <1>1, <2>2, QueueCases DEF PacketsStay
    <3> QED
      BY <3>1, DraftCases
  <2> QED
    BY <2>1, <2>2
<1>2. ASSUME NEW i \in Ideas, Linked(i)'
      PROVE  drafts'[i].packet # None
  BY <1>2, DraftCases
<1>3. ASSUME NEW d \in Disturbances
      PROVE  left'[d] <= Allowance[d]
  <2>1. left'[d] \in Nat /\ left[d] \in Nat /\ Allowance[d] \in Nat
    BY NextTyped, AllowanceAssumption DEF TypeOK
  <2>2. left[d] <= Allowance[d]
    BY DEF PacketsStay
  <2>3. left'[d] <= left[d]
    BY LeftCases
  <2> QED
    BY <2>1, <2>2, <2>3
<1> QED
  BY <1>1, <1>2, <1>3 DEF PacketsStay

\* A request under way is finished, or another one reads its event.
LEMMA OperatorCases ==
    ASSUME TypeOK, Turn, PacketsStay, [Next]_vars
    PROVE  \/ operator' = operator /\ ~OperatorWrite
           \/ operator' = None
           \/ \E i \in Ideas : RetestRead(i) \/ RequeueRead(i)
<1>1. CASE Asks
  <2>1. ASSUME NEW i \in Ideas, Submit(i) \/ EditPacket(i) \/ HandBuild(i)
        PROVE  operator' = operator
    BY <2>1, DraftChange
  <2>2. OperatorWrite => operator' = None
    BY DEF OperatorWrite
  <2> QED
    BY <1>1, <2>1, <2>2 DEF Asks
<1>2. CASE Rests
  BY <1>2 DEF Rests, OperatorWrite
<1>3. CASE Boot \/ QueuePass \/ AppendWaiting \/ Takes \/ Looks \/ Starts
           \/ Link \/ Runs \/ Decides \/ Returns \/ Ends \/ Aside
  BY <1>3 DEF Boot, QueuePass, AppendWaiting, Takes, Looks, Starts, Link, Runs,
              Decides, Returns, Ends, Aside, OperatorWrite
<1> QED
  BY <1>1, <1>2, <1>3, StepCases

LEMMA PacketsAgreeStep ==
    ASSUME TypeOK, Turn, PacketsStay, PacketsAgree, [Next]_vars
    PROVE  PacketsAgree'
<1> SUFFICES ASSUME NeverEdited'
             PROVE  /\ \A i \in Ideas :
                          /\ Queued(i)' => camp'.queue[i] = drafts'[i].packet
                          /\ HasEvent(i)' => log'[i].packet = drafts'[i].packet
                    /\ operator' # None =>
                          operator'.packet = drafts'[operator'.idea].packet
  BY DEF PacketsAgree
<1>1. NeverEdited
  BY LeftCases
<1>2. ASSUME NEW i \in Ideas, drafts[i].packet # None
      PROVE  drafts'[i].packet = drafts[i].packet
  BY <1>2, DraftCases
<1>3. ASSUME NEW i \in Ideas, HasEvent(i)
      PROVE  log[i].packet = drafts[i].packet /\ drafts[i].packet # None
  <2>1. log[i] \in Event
    BY <1>3 DEF HasEvent, TypeOK
  <2>2. log[i].packet # None
    BY <2>1, NoneAssumption DEF Event
  <2> QED
    BY <1>1, <1>3, <2>2 DEF PacketsAgree
<1>4. ASSUME NEW i \in Ideas, Queued(i)
      PROVE  camp.queue[i] = drafts[i].packet /\ drafts[i].packet # None
  BY <1>1, <1>4 DEF PacketsAgree, Queued
<1>5. ASSUME operator # None
      PROVE  /\ operator.idea \in Ideas /\ drafts[operator.idea].packet # None
             /\ operator.packet = drafts[operator.idea].packet
  <2>1. operator \in Request
    BY <1>5 DEF TypeOK
  <2>2. operator.packet # None /\ operator.idea \in Ideas
    BY <2>1, NoneAssumption DEF Request
  <2> QED
    BY <1>1, <1>5, <2>2 DEF PacketsAgree
<1>6. ASSUME NEW i \in Ideas, Queued(i)'
      PROVE  camp'.queue[i] = drafts'[i].packet
  <2>1. CASE QueuePass
    BY <1>6, <2>1, QueueEffect DEF QueuePass
  <2>2. CASE ~QueuePass
    BY <1>2, <1>4, <1>6, <2>2, QueueCases
  <2> QED
    BY <2>1, <2>2
<1>7. ASSUME NEW i \in Ideas, HasEvent(i)'
      PROVE  log'[i].packet = drafts'[i].packet
  <2>1. CASE log'[i] = log[i]
    BY <1>2, <1>3, <1>7, <2>1 DEF HasEvent
  <2>2. CASE Reopened(i)
    <3>1. OperatorWrite => operator # None
      BY DEF OperatorWrite
    <3> QED
      BY <1>2, <1>3, <1>4, <1>5, <2>2, <3>1 DEF Reopened, IsOpen
  <2>3. CASE Ends /\ i = Idea
    <3>1. camp.pc \in BusyPc
      BY <2>3 DEF Ends, BusyPc, ChildPc
    <3>2. Queued(i) /\ camp.queue[i] = Packet
      BY <2>3, <3>1, BusyIdea DEF Packet
    <3> QED
      BY <1>2, <1>4, <2>3, <3>2 DEF Ends
  <2> QED
    BY <2>1, <2>2, <2>3, LogCases
<1>8. ASSUME operator' # None
      PROVE  operator'.packet = drafts'[operator'.idea].packet
  <2>1. CASE operator' = operator
    BY <1>2, <1>5, <1>8, <2>1
  <2>2. ASSUME NEW i \in Ideas, RetestRead(i) \/ RequeueRead(i)
        PROVE  operator'.packet = drafts'[operator'.idea].packet
    BY <1>3, <2>2, RequestRead
  <2> QED
    BY <1>8, <2>1, <2>2, OperatorCases
<1> QED
  BY <1>6, <1>7, <1>8

\* An idea with a result is not taken up again.
LEMMA ResultsAreLinkedStep ==
    ASSUME TypeOK, Turn, PacketsStay, ResultsAreLinked, [Next]_vars
    PROVE  ResultsAreLinked'
<1> SUFFICES ASSUME NEW i \in Ideas, HasResult(i)'
             PROVE  /\ Linked(i)' /\ ~Queued(i)'
                    /\ drafts'[i].link.rules = log'[i].packet.rules
  BY DEF ResultsAreLinked
<1>1. CASE log'[i] = log[i]
  <2>1. HasResult(i)
    BY <1>1 DEF HasResult, HasEvent
  <2>2. /\ Linked(i) /\ ~Queued(i)
        /\ drafts[i].link.rules = log[i].packet.rules
    BY <2>1 DEF ResultsAreLinked
  <2>3. drafts'[i] = drafts[i]
    <3>1. ~(Link /\ i = Idea)
      BY <2>2, LinkEffect, BusyIdea DEF BusyPc, ChildPc
    <3> QED
      BY <2>2, <3>1, DraftCases
  <2>4. ~Queued(i)'
    <3>1. CASE QueuePass
      <4>1. ~ToQueue(i)
        BY <2>1, <2>2 DEF ToQueue, HasResult, IsSettled, IsDuplicate,
                          ResultStates, OpenStates
      <4> QED
        BY <3>1, <4>1, QueueEffect
    <3>2. CASE ~QueuePass
      BY <2>2, <3>2, QueueCases
    <3> QED
      BY <3>1, <3>2
  <2> QED
    BY <1>1, <2>2, <2>3, <2>4 DEF Linked
<1>2. CASE Reopened(i)
  BY <1>2 DEF Reopened, HasResult, ResultStates, OpenStates
<1>3. CASE Ends /\ i = Idea
  <2>1. camp.pc = "report" /\ camp.outcome.state \in ResultStates
    BY <1>3 DEF Ends, HasResult
  <2>2. Linked(i) /\ drafts[i].link.rules = Packet.rules
    BY <1>3, <2>1 DEF Turn
  <2>3. drafts' = drafts /\ log'[i].packet = Packet /\ ~Queued(i)'
    BY <1>3 DEF Ends, DraftsKept
  <2> QED
    BY <2>2, <2>3 DEF Linked
<1> QED
  BY <1>1, <1>2, <1>3, LogCases

\* The thread knows which ideas of the same rules hold a result.
LEMMA OthersAreKnownStep ==
    ASSUME TypeOK, Turn, PacketsStay, PacketsAgree, ResultsAreLinked,
           OthersAreKnown, [Next]_vars
    PROVE  OthersAreKnown'
<1>1. ASSUME camp.pc = "begin", camp'.pc = "begin",
             camp'.without = camp.without, ~Ends
      PROVE  OthersAreKnown'
  <2>1. ASSUME NEW k \in Ideas
        PROVE  /\ HasResult(k)' => k \notin camp.without
               /\ IsDuplicate(k)' => k \in camp.without
    <3>1. CASE log'[k] = log[k]
      BY <1>1, <3>1 DEF OthersAreKnown, HasResult, IsDuplicate, HasEvent
    <3>2. CASE Reopened(k)
      BY <3>2 DEF Reopened, HasResult, IsDuplicate, ResultStates, OpenStates
    <3> QED
      BY <1>1, <3>1, <3>2, LogCases
  <2> QED
    BY <1>1, <2>1 DEF OthersAreKnown, ChildPc
<1>2. ASSUME camp.pc \in ChildPc, camp'.pc \in ChildPc, Packet' = Packet, ~Ends
      PROVE  OthersAreKnown'
  <2>1. ASSUME NeverEdited', NEW k \in Ideas, HasResult(k)'
        PROVE  \/ log'[k].packet.rules # Packet.rules
               \/ log'[k].packet.market # Packet.market
    <3>1. NeverEdited
      BY <2>1, LeftCases
    <3>2. CASE log'[k] = log[k]
      BY <1>2, <2>1, <3>1, <3>2 DEF OthersAreKnown, HasResult, HasEvent
    <3>3. CASE Reopened(k)
      BY <2>1, <3>3 DEF Reopened, HasResult, ResultStates, OpenStates
    <3> QED
      BY <1>2, <3>2, <3>3, LogCases
  <2> QED
    BY <1>2, <2>1 DEF OthersAreKnown, ChildPc
<1>3. CASE Boot
  BY <1>3, BootEffect DEF OthersAreKnown, ChildPc
<1>4. CASE QueuePass
  BY <1>4, QueueEffect DEF OthersAreKnown, ChildPc
<1>5. CASE AppendWaiting
  BY <1>5, AppendEffect DEF OthersAreKnown, ChildPc
<1>6. CASE Rests
  BY <1>6 DEF Rests, OthersAreKnown, ChildPc
<1>7. CASE Takes
  BY <1>7 DEF Takes, OthersAreKnown, ChildPc
<1>8. CASE Looks
  <2>1. camp'.pc = "begin" /\ log' = log /\ camp'.without = WithoutResult
    BY <1>8 DEF Looks
  <2>2. \A k \in Ideas :
            /\ HasResult(k) => k \notin WithoutResult
            /\ IsDuplicate(k) => k \in WithoutResult
    BY DEF WithoutResult, HasResult, IsDuplicate, IsSettled, ResultStates,
           OpenStates
  <2>3. \A k \in Ideas : /\ HasResult(k)' <=> HasResult(k)
                         /\ IsDuplicate(k)' <=> IsDuplicate(k)
    BY <2>1 DEF HasResult, IsDuplicate, HasEvent
  <2> QED
    BY <2>1, <2>2, <2>3 DEF OthersAreKnown, ChildPc
<1>9. CASE Starts
  <2>1. /\ camp.pc = "begin" /\ Idea \in Ideas /\ Queued(Idea)
        /\ Packet' = Packet
        /\ log'[Idea].state = "running"
        /\ \A k \in Ideas \ {Idea} : log'[k] = log[k]
    BY <1>9, StartEffect
  <2>2. camp'.pc = "link" /\ drafts' = drafts
        /\ Owners(Idea, Packet, camp.without) = {}
    BY <1>9 DEF Starts, DraftsKept
  <2>3. ASSUME NeverEdited', NEW k \in Ideas, HasResult(k)'
        PROVE  \/ log'[k].packet.rules # Packet.rules
               \/ log'[k].packet.market # Packet.market
    <3>1. NeverEdited
      BY <2>3, LeftCases
    <3>2. k # Idea
      BY <2>1, <2>3 DEF HasResult, ResultStates
    <3>3. HasResult(k) /\ log'[k] = log[k]
      BY <2>1, <2>3, <3>2 DEF HasResult, HasEvent
    <3>4. Linked(k) /\ drafts[k].link.rules = log[k].packet.rules
      BY <3>3 DEF ResultsAreLinked
    <3>5. k \notin camp.without
      BY <2>1, <3>3 DEF OthersAreKnown
    <3>6. log[k].packet = drafts[k].packet
      BY <3>1, <3>3 DEF PacketsAgree, HasResult
    <3>7. k \notin Owners(Idea, Packet, camp.without)
      BY <2>2
    <3> QED
      BY <3>2, <3>3, <3>4, <3>5, <3>6, <3>7 DEF Owners
  <2> QED
    BY <2>1, <2>2, <2>3 DEF OthersAreKnown, ChildPc
<1>10. CASE Ends
  BY <1>10 DEF Ends, OthersAreKnown, ChildPc
<1>11. CASE (Link \/ Runs \/ Decides \/ Returns) /\ ~Ends
  <2>1. camp'.queue = camp.queue
    BY <1>11, LinkEffect DEF Runs, Decides, Returns, TurnKept
  <2>2. camp.pc \in ChildPc /\ camp'.pc \in ChildPc
    BY <1>11, LinkEffect DEF Runs, Decides, Returns, ChildPc
  <2> QED
    BY <1>2, <1>11, <2>1, <2>2, SameIdea
<1>12. CASE (Asks \/ Aside) /\ ~Ends
  <2>1. camp' = camp
    BY <1>12 DEF Asks, Aside, Submit, EditPacket, HandBuild, RetestRead,
                 RequeueRead, OperatorWrite
  <2>2. Packet' = Packet
    BY <2>1, SameIdea
  <2>3. CASE camp.pc \notin ChildPc \cup {"begin"}
    BY <2>1, <2>3 DEF OthersAreKnown
  <2> QED
    BY <1>1, <1>2, <1>12, <2>1, <2>2, <2>3
<1> QED
  BY <1>3, <1>4, <1>5, <1>6, <1>7, <1>8, <1>9, <1>10, <1>11, <1>12, StepCases

\* Nobody requeues an idea that is under way.
LEMMA RequeuesAreIdleStep ==
    ASSUME TypeOK, Turn, PacketsStay, PacketsAgree, RequeuesAreIdle,
           [Next]_vars
    PROVE  RequeuesAreIdle'
<1> SUFFICES ASSUME NeverEdited'
             PROVE  /\ \A i \in Ideas : Queued(i)' =>
                          ~HasEvent(i)' \/ IsOpen(i)' \/ IsDuplicate(i)'
                    /\ (operator' # None
                        /\ operator'.reason = "requeued_by_agent") =>
                          /\ camp'.queue[operator'.idea] = None
                          /\ log'[operator'.idea] # None
                          /\ log'[operator'.idea].state = "failed"
  BY DEF RequeuesAreIdle, Queued, HasEvent
<1>1. NeverEdited
  BY LeftCases
<1>2. ASSUME NEW i \in Ideas, Queued(i)
      PROVE  ~HasEvent(i) \/ IsOpen(i) \/ IsDuplicate(i)
  BY <1>1, <1>2 DEF RequeuesAreIdle
<1>3. ASSUME NEW i \in Ideas, HasEvent(i), log[i].state = "failed"
      PROVE  ~Queued(i)
  BY <1>2, <1>3 DEF IsOpen, IsDuplicate, OpenStates
<1>4. ASSUME NEW i \in Ideas, ToQueue(i)
      PROVE  ~HasEvent(i) \/ IsOpen(i) \/ IsDuplicate(i)
  <2>1. CASE IsSettled(i)
    <3>1. log[i].packet = drafts[i].packet
      BY <1>1, <2>1 DEF PacketsAgree, IsSettled
    <3> QED
      BY <1>4, <2>1, <3>1 DEF ToQueue
  <2> QED
    BY <2>1 DEF IsSettled, IsOpen
<1>5. ASSUME NEW i \in Ideas, Queued(i)'
      PROVE  ~HasEvent(i)' \/ IsOpen(i)' \/ IsDuplicate(i)'
  <2>1. CASE log'[i] = log[i]
    <3>1. ~HasEvent(i) \/ IsOpen(i) \/ IsDuplicate(i)
      <4>1. CASE QueuePass
        BY <1>4, <1>5, <4>1, QueueEffect
      <4>2. CASE ~QueuePass
        BY <1>2, <1>5, <4>2, QueueCases
      <4> QED
        BY <4>1, <4>2
    <3> QED
      BY <2>1, <3>1 DEF HasEvent, IsOpen, IsDuplicate
  <2>2. CASE Reopened(i)
    BY <2>2 DEF Reopened, IsOpen, HasEvent
  <2>3. CASE Ends /\ i = Idea
    BY <1>5, <2>3 DEF Ends
  <2> QED
    BY <2>1, <2>2, <2>3, LogCases
<1>6. ASSUME operator' # None, operator'.reason = "requeued_by_agent"
      PROVE  /\ camp'.queue[operator'.idea] = None
             /\ log'[operator'.idea] # None
             /\ log'[operator'.idea].state = "failed"
  <2>1. CASE operator' = operator /\ ~OperatorWrite
    <3> DEFINE j == operator.idea
    <3>1. /\ ~Queued(j) /\ HasEvent(j) /\ log[j].state = "failed"
          /\ j \in Ideas
      BY <1>1, <1>6, <2>1 DEF RequeuesAreIdle, TypeOK, Request
    <3>2. log'[j] = log[j]
      <4>1. ~(Ends /\ j = Idea)
        BY <3>1, BusyIdea DEF Ends, BusyPc, ChildPc
      <4>2. ~Reopened(j)
        BY <2>1, <3>1 DEF Reopened, IsOpen, OpenStates
      <4> QED
        BY <3>1, <4>1, <4>2, LogCases
    <3>3. camp'.queue[j] = None
      <4>1. CASE QueuePass
        <5>1. ~ToQueue(j)
          BY <1>4, <3>1 DEF IsOpen, IsDuplicate, OpenStates
        <5> QED
          BY <3>1, <4>1, <5>1, QueueEffect DEF Queued
      <4>2. CASE ~QueuePass
        BY <3>1, <4>2, QueueCases DEF Queued
      <4> QED
        BY <4>1, <4>2
    <3> QED
      BY <2>1, <3>1, <3>2, <3>3 DEF HasEvent
  <2>2. ASSUME NEW i \in Ideas, RetestRead(i) \/ RequeueRead(i)
        PROVE  /\ camp'.queue[operator'.idea] = None
               /\ log'[operator'.idea] # None
               /\ log'[operator'.idea].state = "failed"
    <3>1. /\ operator'.idea = i /\ HasEvent(i) /\ log[i].state = "failed"
          /\ UNCHANGED <<log, camp>>
      BY <1>6, <2>2, RequestRead
    <3>2. ~Queued(i)
      BY <1>3, <3>1
    <3> QED
      BY <3>1, <3>2 DEF HasEvent, Queued
  <2> QED
    BY <1>6, <2>1, <2>2, OperatorCases
<1> QED
  BY <1>5, <1>6

\* One idea of the same rules and market at most has a result.
LEMMA OneResultStep ==
    ASSUME TypeOK, Turn, PacketsStay, OthersAreKnown, OneResultPerRules,
           [Next]_vars
    PROVE  OneResultPerRules'
<1> SUFFICES ASSUME NeverEdited', NEW i \in Ideas, NEW j \in Ideas,
                    i # j, HasResult(i)', HasResult(j)'
             PROVE  \/ log'[i].packet.rules # log'[j].packet.rules
                    \/ log'[i].packet.market # log'[j].packet.market
  BY DEF OneResultPerRules
<1>1. NeverEdited
  BY LeftCases
<1>2. ASSUME NEW k \in Ideas, HasResult(k)'
      PROVE  (log'[k] = log[k] /\ HasResult(k)) \/ (Ends /\ k = Idea)
  <2>1. ~Reopened(k)
    BY <1>2 DEF Reopened, HasResult, ResultStates, OpenStates
  <2> QED
    BY <1>2, <2>1, LogCases DEF HasResult, HasEvent
<1>3. ASSUME NEW e \in Ideas, NEW k \in Ideas, Ends, e = Idea,
             HasResult(e)', HasResult(k), k # e
      PROVE  /\ log'[e].packet = Packet
             /\ \/ log[k].packet.rules # Packet.rules
                \/ log[k].packet.market # Packet.market
  <2>1. camp.pc = "report" /\ log'[e].packet = Packet
    BY <1>3 DEF Ends, HasResult
  <2> QED
    BY <1>1, <1>3, <2>1 DEF OthersAreKnown, ChildPc
<1>4. CASE HasResult(i) /\ HasResult(j) /\ log'[i] = log[i] /\ log'[j] = log[j]
  BY <1>1, <1>4 DEF OneResultPerRules
<1> QED
  BY <1>2, <1>3, <1>4

\* An owner is never itself a duplicate.
LEMMA NoMutualDuplicatesStep ==
    ASSUME TypeOK, Turn, PacketsStay, OthersAreKnown, NoMutualDuplicates,
           [Next]_vars
    PROVE  NoMutualDuplicates'
<1> SUFFICES ASSUME NEW i \in Ideas, NEW j \in Ideas,
                    IsDuplicate(i)', IsDuplicate(j)',
                    log'[i].owner = j, log'[j].owner = i
             PROVE  FALSE
  BY DEF NoMutualDuplicates
<1>1. ASSUME NEW k \in Ideas, IsDuplicate(k)'
      PROVE  (log'[k] = log[k] /\ IsDuplicate(k)) \/ (Ends /\ k = Idea)
  <2>1. ~Reopened(k)
    BY <1>1 DEF Reopened, IsDuplicate, OpenStates
  <2> QED
    BY <1>1, <2>1, LogCases DEF IsDuplicate, HasEvent
<1>2. ASSUME NEW k \in Ideas, Ends, log'[Idea].owner = k
      PROVE  k # Idea /\ ~IsDuplicate(k)
  <2>1. camp.pc = "begin" /\ k \in Owners(Idea, Packet, camp.without)
    BY <1>2, NoneAssumption DEF Ends
  <2> QED
    BY <2>1 DEF Owners, OthersAreKnown
<1>3. CASE /\ log'[i] = log[i] /\ IsDuplicate(i)
           /\ log'[j] = log[j] /\ IsDuplicate(j)
  BY <1>3 DEF NoMutualDuplicates
<1> QED
  BY <1>1, <1>2, <1>3

\* A pause is seen before the next test.
LEMMA PauseIsSeenStep ==
    ASSUME TypeOK, Turn, PacketsStay, PauseIsSeen, [Next]_vars
    PROVE  PauseIsSeen'
<1>1. begun \in Nat
  BY DEF TypeOK
<1>2. CASE Boot \/ QueuePass \/ AppendWaiting
  <2>1. begun' = begun /\ camp'.pc \notin {"judge", "begin"}
    BY <1>2, BootEffect, QueueEffect, AppendEffect DEF Boot, QueuePass,
       AppendWaiting
  <2> QED
    BY <2>1 DEF PauseIsSeen
<1>3. CASE Rests \/ Runs \/ Decides \/ Returns \/ Ends
  BY <1>3 DEF Rests, Runs, Decides, Returns, Ends, CountersKept, PauseIsSeen
<1>4. CASE Takes \/ Looks
  BY <1>4 DEF Takes, Looks, CountersKept, DraftsKept, PauseIsSeen
<1>5. CASE Starts
  BY <1>1, <1>5 DEF Starts, DraftsKept, PauseIsSeen
<1>6. CASE Link
  <2>1. begun' = begun /\ camp'.pc \notin {"judge", "begin"}
    BY <1>6, LinkEffect DEF Link
  <2> QED
    BY <2>1 DEF PauseIsSeen
<1>7. CASE Asks
  <2>1. UNCHANGED <<camp, control, begun>>
    BY <1>7 DEF Asks, Submit, EditPacket, HandBuild, RetestRead, RequeueRead,
                OperatorWrite
  <2> QED
    BY <2>1 DEF PauseIsSeen
<1>8. CASE Aside
  BY <1>8 DEF Aside, PauseIsSeen
<1> QED
  BY <1>2, <1>3, <1>4, <1>5, <1>6, <1>7, <1>8, StepCases

\* Which step launches, and which sets up a draft that is launched.
LEMMA LaunchedCases ==
    ASSUME TypeOK, Turn, [Next]_vars
    PROVE  launched' = launched \/ Runs \/ Decides
<1>1. CASE Asks
  BY <1>1 DEF Asks, Submit, EditPacket, HandBuild, RetestRead, RequeueRead,
              OperatorWrite
<1> QED
  BY <1>1, StepCases DEF Boot, QueuePass, AppendWaiting, Rests, Takes, Looks,
     Starts, Link, Returns, Ends, Aside

\* Starts are only added to.
LEMMA StartsCases ==
    ASSUME TypeOK, Turn, [Next]_vars
    PROVE  /\ starts' = starts \/ Starts
           /\ recent' = recent \/ Starts \/ OperatorWrite
<1>1. CASE Asks
  BY <1>1 DEF Asks, Submit, EditPacket, HandBuild, RetestRead, RequeueRead,
              OperatorWrite
<1> QED
  BY <1>1, StepCases DEF Boot, QueuePass, AppendWaiting, Rests, Takes, Looks,
     Link, Runs, Decides, Returns, Ends, Aside, CountersKept

LEMMA StartsGrow ==
    ASSUME TypeOK, Turn, [Next]_vars, NEW i \in Ideas, NEW p \in Packets
    PROVE  starts[i][p] \in Nat /\ starts'[i][p] >= starts[i][p]
<1>1. starts[i][p] \in Nat
  BY DEF TypeOK
<1>2. CASE Starts
  BY <1>1, <1>2, StartEffect
<1> QED
  BY <1>1, <1>2, StartsCases

\* Retests are only asked for.
LEMMA RetestsGrow ==
    ASSUME TypeOK, Turn, PacketsStay, [Next]_vars
    PROVE  /\ Retests \in Nat /\ Retests' \in Nat
           /\ Retests' >= Retests
           /\ (\E i \in Ideas : RetestRead(i) \/ RequeueRead(i)) =>
                 Retests' =
                    Retests + (IF operator'.reason = "requeued_by_agent"
                               THEN 0 ELSE 1)
           /\ OperatorWrite => Retests' = Retests
<1>1. "retest" \in Disturbances
  BY DEF Disturbances
<1>2. /\ left["retest"] \in Nat /\ left'["retest"] \in Nat
      /\ Allowance["retest"] \in Nat
      /\ left["retest"] <= Allowance["retest"]
      /\ left'["retest"] <= left["retest"]
  BY <1>1, NextTyped, LeftCases, AllowanceAssumption DEF TypeOK, PacketsStay
<1>3. OperatorWrite => left' = left
  BY DEF OperatorWrite
<1>4. ASSUME NEW i \in Ideas, RetestRead(i) \/ RequeueRead(i)
      PROVE  left'["retest"] = IF operator'.reason = "requeued_by_agent"
                               THEN left["retest"] ELSE left["retest"] - 1
  BY <1>4, RequestRead
<1> QED
  BY <1>2, <1>3, <1>4 DEF Retests

LEMMA SetupsAreKeptStep ==
    ASSUME TypeOK, Turn, PacketsStay, KeysAreOwn, SetupsAreKept, [Next]_vars
    PROVE  SetupsAreKept'
<1> SUFFICES ASSUME Retests' = 0
             PROVE  /\ \A l \in launched' :
                          l.document = drafts'[l.key.idea].link
                    /\ \A i \in Ideas :
                          HasEvent(i)' => log'[i].reason # "requeued_after_fix"
                    /\ operator' # None =>
                          operator'.reason # "requeued_after_fix"
                    /\ ~camp'.rebuild
  BY DEF SetupsAreKept
<1>1. Retests = 0
  BY RetestsGrow
<1>2. /\ \A l \in launched : l.document = drafts[l.key.idea].link
      /\ \A i \in Ideas : HasEvent(i) => log[i].reason # "requeued_after_fix"
      /\ operator # None => operator.reason # "requeued_after_fix"
      /\ ~camp.rebuild
  BY <1>1 DEF SetupsAreKept
<1>3. ASSUME NEW l \in launched
      PROVE  l.document = drafts'[l.key.idea].link
  <2> DEFINE k == l.key.idea
  <2>1. k \in Ideas /\ Linked(k)
    BY DEF TypeOK, LaunchRecord, KeysAreOwn
  <2>2. drafts'[k].link = drafts[k].link
    <3>1. CASE Link /\ k = Idea
      BY <1>2, <2>1, <3>1, LinkEffect
    <3> QED
      BY <2>1, <3>1, DraftCases
  <2> QED
    BY <1>2, <2>2
<1>4. ASSUME NEW l \in launched'
      PROVE  l.document = drafts'[l.key.idea].link
  <2>1. CASE Runs
    <3>1. \/ l \in launched
          \/ l = [key |-> LaunchKey, document |-> camp.document,
                  decision |-> None, fixed |-> fixed[Idea]]
      BY <2>1 DEF Runs
    <3>2. drafts' = drafts /\ camp.document = drafts[Idea].link
      BY <2>1 DEF Runs, DraftsKept, Turn
    <3>3. LaunchKey.idea = Idea
      BY DEF LaunchKey, Key
    <3> QED
      BY <1>3, <3>1, <3>2, <3>3
  <2>2. CASE Decides
    <3>1. PICK m \in launched, d \in ResultStates :
              launched' = (launched \ {m}) \cup {[m EXCEPT !.decision = d]}
      BY <2>2 DEF Decides
    <3>2. [m EXCEPT !.decision = d].key = m.key
          /\ [m EXCEPT !.decision = d].document = m.document
      BY DEF TypeOK, LaunchRecord
    <3> QED
      BY <1>3, <3>1, <3>2
  <2>3. CASE launched' = launched
    BY <1>3, <2>3
  <2> QED
    BY <2>1, <2>2, <2>3, LaunchedCases
<1>5. ASSUME NEW i \in Ideas, HasEvent(i)'
      PROVE  log'[i].reason # "requeued_after_fix"
  <2>1. CASE log'[i] = log[i]
    BY <1>2, <1>5, <2>1 DEF HasEvent
  <2>2. CASE Reopened(i)
    <3>1. OperatorWrite => operator # None
      BY DEF OperatorWrite
    <3> QED
      BY <1>2, <2>2, <3>1 DEF Reopened
  <2>3. CASE Ends /\ i = Idea
    BY <2>3 DEF Ends
  <2> QED
    BY <2>1, <2>2, <2>3, LogCases
<1>6. ASSUME operator' # None
      PROVE  operator'.reason # "requeued_after_fix"
  <2>1. ASSUME NEW i \in Ideas, RetestRead(i) \/ RequeueRead(i)
        PROVE  operator'.reason # "requeued_after_fix"
    BY <1>1, <2>1, RetestsGrow
  <2> QED
    BY <1>2, <1>6, <2>1, OperatorCases
<1>7. ~camp'.rebuild
  <2>1. CASE Starts
    <3>1. Idea \in Ideas /\ HasEvent(Idea)
      BY <2>1, StartEffect DEF Turn
    <3> QED
      BY <1>2, <2>1, <3>1 DEF Starts
  <2>2. CASE Boot \/ QueuePass \/ AppendWaiting \/ Link
    BY <1>2, <2>2, BootEffect, QueueEffect, AppendEffect, LinkEffect
  <2>3. CASE Asks \/ Aside
    <3>1. camp' = camp
      BY <2>3 DEF Asks, Aside, Submit, EditPacket, HandBuild, RetestRead,
                  RequeueRead, OperatorWrite
    <3> QED
      BY <1>2, <3>1
  <2>4. CASE Rests \/ Takes \/ Looks \/ Runs \/ Decides \/ Returns \/ Ends
    BY <1>2, <2>4 DEF Rests, Takes, Looks, Runs, Decides, Returns, Ends,
                      TurnKept
  <2> QED
    BY <2>1, <2>2, <2>3, <2>4, StepCases
<1> QED
  BY <1>4, <1>5, <1>6, <1>7

LEMMA TimesGrow ==
    ASSUME NEW m \in Nat, NEW a \in Int, NEW b \in Int, a <= b
    PROVE  m * a <= m * b
<1>1. m * (b - a) >= 0
  <2>1. b - a \in Nat
    OBVIOUS
  <2> QED
    BY <2>1
<1>2. m * (b - a) = m * b - m * a
  OBVIOUS
<1>3. m * a \in Int /\ m * b \in Int
  OBVIOUS
<1> QED
  BY <1>1, <1>2, <1>3

\* Retests that are written.
LEMMA PaidGrows ==
    ASSUME TypeOK, Turn, PacketsStay, [Next]_vars
    PROVE  /\ Pending \in Nat /\ Pending' \in Nat
           /\ Retests - Pending <= Retests' - Pending'
           /\ (OperatorWrite /\ operator.reason = "requeued_after_fix") =>
                 Retests' - Pending' = Retests - Pending + 1
<1>1. /\ Pending = 0 \/ Pending = 1
      /\ Pending' = 0 \/ Pending' = 1
  BY DEF Pending
<1>2. Retests \in Nat /\ Retests' \in Nat /\ Retests <= Retests'
  BY RetestsGrow
<1>3. ASSUME operator' = operator, ~OperatorWrite
      PROVE  Pending' = Pending
  BY <1>3 DEF Pending
<1>4. ASSUME operator' = None
      PROVE  Pending' = 0
  BY <1>4 DEF Pending
<1>5. ASSUME OperatorWrite, operator.reason = "requeued_after_fix"
      PROVE  Pending = 1 /\ Pending' = 0 /\ Retests' = Retests
  <2>1. operator # None /\ operator' = None
    BY <1>5 DEF OperatorWrite
  <2> QED
    BY <1>4, <1>5, <2>1, RetestsGrow DEF Pending
<1>6. ASSUME NEW i \in Ideas, RetestRead(i) \/ RequeueRead(i)
      PROVE  Retests' - Pending' = Retests - Pending
  <2>1. /\ operator = None /\ operator' # None
        /\ operator'.reason \in {"requeued_by_agent", "requeued_after_fix"}
    BY <1>6, RequestRead
  <2>2. Retests' = Retests + (IF operator'.reason = "requeued_by_agent"
                              THEN 0 ELSE 1)
    BY <1>6, RetestsGrow
  <2>3. Pending = 0
    BY <2>1 DEF Pending
  <2>4. CASE operator'.reason = "requeued_by_agent"
    <3>1. Pending' = 0 /\ Retests' = Retests
      BY <1>2, <2>2, <2>4 DEF Pending
    <3> QED
      BY <2>3, <3>1
  <2>5. CASE operator'.reason = "requeued_after_fix"
    <3>1. Pending' = 1 /\ Retests' = Retests + 1
      BY <2>1, <2>2, <2>5 DEF Pending
    <3> QED
      BY <1>2, <2>3, <3>1
  <2> QED
    BY <2>1, <2>4, <2>5
<1> HIDE DEF Pending, Retests
<1>7. Retests - Pending <= Retests' - Pending'
  BY <1>1, <1>2, <1>3, <1>4, <1>6, OperatorCases
<1> QED
  BY <1>1, <1>2, <1>5, <1>7

LEMMA StartsAreCountedStep ==
    ASSUME TypeOK, Turn, PacketsStay, StartsAreCounted, [Next]_vars
    PROVE  StartsAreCounted'
<1> DEFINE B == Retests - Pending
           C == Retests' - Pending'
<1>1. /\ B \in Int /\ C \in Int /\ B <= C
      /\ (OperatorWrite /\ operator.reason = "requeued_after_fix") => C = B + 1
  BY PaidGrows, RetestsGrow
<1>2. MaxAttempts \in Nat
  BY AttemptsAssumption
<1> HIDE DEF B, C
<1>3. /\ MaxAttempts * B \in Int /\ MaxAttempts * C \in Int
      /\ MaxAttempts * B <= MaxAttempts * C
  BY <1>1, <1>2, TimesGrow
<1> SUFFICES ASSUME NEW i \in Ideas, NEW p \in Packets
             PROVE  /\ recent'[i][p] <= MaxAttempts
                    /\ starts'[i][p] <= recent'[i][p] + MaxAttempts * C
  BY DEF StartsAreCounted, C
<1>4. /\ recent[i][p] \in Nat /\ starts[i][p] \in Nat
      /\ recent[i][p] <= MaxAttempts
      /\ starts[i][p] <= recent[i][p] + MaxAttempts * B
  BY DEF TypeOK, StartsAreCounted, B
<1>5. CASE starts' = starts /\ recent' = recent
  BY <1>2, <1>3, <1>4, <1>5
<1>6. CASE Starts
  <2>1. recent[Idea][Packet] < MaxAttempts
    BY <1>6 DEF Starts
  <2> QED
    BY <1>2, <1>3, <1>4, <1>6, <2>1, StartEffect
<1>7. CASE OperatorWrite
  <2>1. starts' = starts /\ operator \in Request
    BY <1>7, RequestWritten
  <2>2. CASE operator.reason = "requeued_after_fix"
    <3>1. recent' = [recent EXCEPT ![operator.idea][operator.packet] = 0]
      BY <1>7, <2>2 DEF OperatorWrite
    <3>2. \/ recent'[i][p] = recent[i][p]
          \/ recent'[i][p] = 0
      BY <2>1, <3>1 DEF TypeOK, Request
    <3>3. MaxAttempts * C = MaxAttempts * B + MaxAttempts
      BY <1>1, <1>2, <1>7, <2>2
    <3> QED
      BY <1>2, <1>3, <1>4, <2>1, <3>2, <3>3
  <2>3. CASE operator.reason # "requeued_after_fix"
    <3>1. recent' = recent
      BY <1>7, <2>3 DEF OperatorWrite
    <3> QED
      BY <1>5, <2>1, <3>1
  <2> QED
    BY <2>2, <2>3
<1> QED
  BY <1>5, <1>6, <1>7, StartsCases

LEMMA KeysAreOwnStep ==
    ASSUME TypeOK, Turn, PacketsStay, PacketsAgree, KeysAreOwn, [Next]_vars
    PROVE  KeysAreOwn'
<1> DEFINE Own(l) ==
        /\ drafts[l.key.idea].link # None
        /\ drafts[l.key.idea].link.rules = l.key.rules
        /\ l.document.rules = l.key.rules
        /\ \E p \in Packets : l.key.attempt < starts[l.key.idea][p]
      Spent(l) == l.key.attempt < starts[l.key.idea][drafts[l.key.idea].packet]
      Unused(l) == l.key.idea = Idea => l.key.attempt < camp.attempt
      New == [key |-> LaunchKey, document |-> camp.document,
              decision |-> None, fixed |-> fixed[Idea]]
<1>1. ASSUME NEW l \in launched
      PROVE  /\ l \in LaunchRecord
             /\ l.key.idea \in Ideas /\ l.key.attempt \in Nat
  BY DEF TypeOK, LaunchRecord
<1>2. \A l \in launched : Own(l)
  BY DEF KeysAreOwn, Linked
<1>3. ASSUME NeverEdited
      PROVE  /\ \A l \in launched : Spent(l)
             /\ camp.pc \in {"link", "launch"} => \A l \in launched : Unused(l)
  BY <1>3 DEF KeysAreOwn
<1>4. ASSUME NEW l \in launched
      PROVE  /\ drafts'[l.key.idea].link # None
             /\ drafts'[l.key.idea].link.rules = l.key.rules
             /\ l.document.rules = l.key.rules
             /\ \E p \in Packets : l.key.attempt < starts'[l.key.idea][p]
  <2> DEFINE k == l.key.idea
  <2>1. k \in Ideas /\ Own(l) /\ Linked(k)
    BY <1>1, <1>2 DEF Linked
  <2>2. /\ drafts'[k].link # None
        /\ drafts'[k].link.rules = drafts[k].link.rules
    <3>1. CASE Link /\ k = Idea
      <4>1. \/ drafts' = drafts
            \/ /\ camp'.document # None
               /\ camp'.document = drafts'[Idea].link
               /\ drafts'[Idea].link.rules = Packet.rules
               /\ Linked(Idea) => drafts[Idea].link.rules = Packet.rules
        BY <3>1, LinkEffect
      <4> QED
        BY <2>1, <3>1, <4>1
    <3>2. CASE drafts'[k] = drafts[k]
      BY <2>1, <3>2
    <3> QED
      BY <2>1, <3>1, <3>2, DraftCases
  <2>3. PICK p \in Packets : l.key.attempt < starts[k][p]
    BY <2>1
  <2>4. l.key.attempt < starts'[k][p]
    <3>1. starts[k][p] \in Nat /\ starts'[k][p] \in Nat
          /\ starts'[k][p] >= starts[k][p]
      BY <2>1, StartsGrow, NextTyped DEF TypeOK
    <3> QED
      BY <1>1, <2>3, <3>1
  <2> QED
    BY <2>1, <2>2, <2>4
<1>5. ASSUME NeverEdited', NEW l \in launched
      PROVE  l.key.attempt < starts'[l.key.idea][drafts'[l.key.idea].packet]
  <2> DEFINE k == l.key.idea
  <2>1. NeverEdited
    BY <1>5, LeftCases
  <2>2. k \in Ideas /\ Linked(k) /\ l.key.attempt \in Nat /\ Spent(l)
    BY <1>1, <1>2, <1>3, <2>1 DEF Linked
  <2>3. drafts[k].packet # None /\ drafts[k].packet \in Packets
    BY <2>2 DEF PacketsStay, TypeOK, Draft
  <2>4. drafts'[k].packet = drafts[k].packet
    BY <1>5, <2>2, <2>3, DraftCases
  <2>5. starts[k][drafts[k].packet] \in Nat
        /\ starts'[k][drafts[k].packet] \in Nat
        /\ starts'[k][drafts[k].packet] >= starts[k][drafts[k].packet]
    BY <2>2, <2>3, StartsGrow, NextTyped DEF TypeOK
  <2> QED
    BY <2>2, <2>4, <2>5
<1>6. CASE Runs
  <2>1. /\ Idea \in Ideas /\ Packet \in Packets /\ Queued(Idea)
        /\ camp.pc = "launch" /\ camp'.pc = "testing"
    BY <1>6, BusyIdea DEF Runs, BusyPc, ChildPc
  <2>2. /\ launched' = launched \cup {New} /\ Launches(LaunchKey) = {}
        /\ drafts' = drafts /\ starts' = starts
    BY <1>6 DEF Runs, DraftsKept, CountersKept
  <2>3. /\ New.key = LaunchKey /\ New.document = camp.document
        /\ LaunchKey.idea = Idea /\ LaunchKey.rules = Packet.rules
        /\ LaunchKey.attempt = camp.attempt
    BY DEF LaunchKey, Key
  <2> HIDE DEF New
  <2>4. /\ camp.document = drafts[Idea].link /\ camp.document # None
        /\ drafts[Idea].link.rules = Packet.rules
        /\ camp.attempt < starts[Idea][Packet]
    BY <2>1 DEF Turn
  <2>5. Own(New)
    BY <2>1, <2>3, <2>4
  <2>6. \A l \in launched' :
            /\ Linked(l.key.idea)' /\ Own(l)
    BY <1>2, <2>2, <2>5 DEF Linked
  <2>7. \A l, m \in launched' : l.key = m.key => l = m
    BY <2>2, <2>3 DEF KeysAreOwn, Launches
  <2>8. ASSUME NeverEdited', NEW l \in launched'
        PROVE  Spent(l)
    <3>1. NeverEdited
      BY <2>8, LeftCases
    <3>2. drafts[Idea].packet = Packet
      BY <2>1, <3>1 DEF PacketsAgree, Packet
    <3> QED
      BY <1>3, <2>2, <2>3, <2>4, <3>1, <3>2
  <2> QED
    BY <2>1, <2>2, <2>6, <2>7, <2>8 DEF KeysAreOwn
<1>7. CASE Decides
  <2>1. PICK m \in launched, d \in ResultStates :
            launched' = (launched \ {m}) \cup {[m EXCEPT !.decision = d]}
    BY <1>7 DEF Decides
  <2> DEFINE n == [m EXCEPT !.decision = d]
  <2>2. n.key = m.key /\ n.document = m.document
    BY <1>1 DEF LaunchRecord
  <2>3. /\ drafts' = drafts /\ starts' = starts /\ camp'.pc = "decided"
        /\ launched' = (launched \ {m}) \cup {n}
    BY <1>7, <2>1 DEF Decides, DraftsKept, CountersKept
  <2> HIDE DEF n
  <2>4. \A l \in launched' : Linked(l.key.idea)' /\ Own(l)
    BY <1>2, <2>2, <2>3 DEF Linked
  <2>5. \A l, k \in launched' : l.key = k.key => l = k
    BY <2>2, <2>3 DEF KeysAreOwn
  <2>6. ASSUME NeverEdited', NEW l \in launched'
        PROVE  Spent(l)
    BY <1>3, <2>2, <2>3, <2>6, LeftCases
  <2> QED
    BY <2>3, <2>4, <2>5, <2>6 DEF KeysAreOwn
<1>8. CASE launched' = launched
  <2>1. ASSUME NEW l \in launched
        PROVE  Linked(l.key.idea)'
    BY <1>4 DEF Linked
  <2>2. ASSUME NeverEdited', camp'.pc \in {"link", "launch"},
               NEW l \in launched, l.key.idea = Idea'
        PROVE  l.key.attempt < camp'.attempt
    <3>1. NeverEdited
      BY <2>2, LeftCases
    <3>2. CASE Starts
      <4>1. Idea' = Idea /\ Idea \in Ideas /\ Queued(Idea)
        BY <3>2, StartEffect
      <4>2. camp'.attempt = starts[Idea][Packet]
        BY <3>2 DEF Starts
      <4>3. drafts[Idea].packet = Packet
        BY <3>1, <4>1 DEF PacketsAgree, Packet
      <4> QED
        BY <1>3, <2>2, <3>1, <4>1, <4>2, <4>3
    <3>3. CASE Link
      <4>1. camp.pc = "link" /\ camp'.attempt = camp.attempt /\ Idea' = Idea
        BY <2>2, <3>3, LinkEffect, SameIdea
      <4> QED
        BY <1>3, <2>2, <3>1, <4>1
    <3>4. CASE Asks \/ Aside
      <4>1. camp' = camp
        BY <3>4 DEF Asks, Aside, Submit, EditPacket, HandBuild, RetestRead,
                    RequeueRead, OperatorWrite
      <4>2. Idea' = Idea
        BY <4>1, SameIdea
      <4> QED
        BY <1>3, <2>2, <3>1, <4>1, <4>2
    <3>5. CASE Boot \/ QueuePass \/ AppendWaiting
      BY <2>2, <3>5, BootEffect, QueueEffect, AppendEffect
    <3>6. CASE Rests \/ Takes \/ Looks \/ Runs \/ Decides \/ Returns \/ Ends
      BY <2>2, <3>6 DEF Rests, Takes, Looks, Runs, Decides, Returns, Ends
    <3> QED
      BY <3>2, <3>3, <3>4, <3>5, <3>6, StepCases
  <2> QED
    BY <1>4, <1>5, <1>8, <2>1, <2>2 DEF KeysAreOwn
<1> QED
  BY <1>6, <1>7, <1>8, LaunchedCases

-----------------------------------------------------------------------------
(* The invariant, and what follows from it *)

LEMMA InitInv == Init => CampaignInv
<1> SUFFICES ASSUME Init
             PROVE  CampaignInv
  OBVIOUS
<1>1. /\ camp.pc = "boot" /\ camp.fresh = {} /\ ~camp.rebuild
      /\ camp \in CampRecord
      /\ \A i \in Ideas : ~Queued(i)
  BY DEF Init, Rest, CampRecord, Pc, Queued
<1>2. /\ \A i \in Ideas : ~HasEvent(i) /\ ~Linked(i)
      /\ \A i \in Ideas : drafts[i] \in Draft
      /\ \A i \in Ideas, p \in Packets : starts[i][p] = 0 /\ recent[i][p] = 0
      /\ launched = {} /\ operator = None /\ begun = 0 /\ left = Allowance
  BY DEF Init, HasEvent, Linked, Draft
<1>3. TypeOK
  BY <1>1, <1>2, AllowanceAssumption DEF Init, TypeOK
<1>4. \A d \in Disturbances : left[d] <= Allowance[d]
  BY <1>2, AllowanceAssumption
<1>5. Retests = 0 /\ Pending = 0
  BY <1>2, AllowanceAssumption DEF Retests, Pending, Disturbances
<1>6. MaxAttempts * (Retests - Pending) = 0
  BY <1>5, AttemptsAssumption
<1>7. StartsAreCounted
  BY <1>2, <1>6, AttemptsAssumption DEF StartsAreCounted
<1>8. Turn /\ PacketsStay /\ PacketsAgree /\ PauseIsSeen
  BY <1>1, <1>2, <1>4 DEF Turn, PacketsStay, PacketsAgree, PauseIsSeen, BusyPc,
                          ChildPc
<1>9. ResultsAreLinked /\ OthersAreKnown /\ RequeuesAreIdle
  BY <1>1, <1>2 DEF ResultsAreLinked, OthersAreKnown, RequeuesAreIdle, ChildPc,
                    HasResult
<1>10. KeysAreOwn /\ SetupsAreKept
  BY <1>1, <1>2 DEF KeysAreOwn, SetupsAreKept
<1>11. OneResultPerRules /\ NoMutualDuplicates
  BY <1>2 DEF OneResultPerRules, NoMutualDuplicates, HasResult, IsDuplicate
<1> QED
  BY <1>3, <1>7, <1>8, <1>9, <1>10, <1>11 DEF CampaignInv

LEMMA NextInv == CampaignInv /\ [Next]_vars => CampaignInv'
BY NextTyped, TurnStep, PacketsStayStep, PacketsAgreeStep,
   ResultsAreLinkedStep, OthersAreKnownStep, RequeuesAreIdleStep,
   StartsAreCountedStep, KeysAreOwnStep, SetupsAreKeptStep, PauseIsSeenStep,
   OneResultStep, NoMutualDuplicatesStep DEF CampaignInv

\* The inductive invariant: what the thread knows of the ideas, how starts are
\* paid for, and how drafts, events and launches go together.
THEOREM CampaignInvariant == Spec => []CampaignInv
<1> QED
  BY InitInv, NextInv, PTL DEF Spec

\* The drafts, the log, the launches and the locals of the thread keep their
\* types.
THEOREM CampaignTypeCorrect == Spec => []TypeOK
<1>1. CampaignInv => TypeOK
  BY DEF CampaignInv
<1> QED
  BY <1>1, CampaignInvariant, PTL

\* The launches of an idea are numbered by its starts under one set of rules.
LEMMA LaunchesFit ==
    ASSUME CampaignInv, NEW i \in Ideas
    PROVE  Cardinality({l \in launched : l.key.idea = i}) <=
               MaxAttempts * (1 + Allowance["retest"] - left["retest"])
<1> DEFINE S == {l \in launched : l.key.idea = i}
           K == MaxAttempts * (1 + Retests)
           f == [l \in S |-> l.key.attempt]
<1> USE DEF CampaignInv
<1>1. "retest" \in Disturbances
  BY DEF Disturbances
<1>2. Retests \in Nat /\ Retests = Allowance["retest"] - left["retest"]
  BY <1>1, AllowanceAssumption DEF Retests, TypeOK, PacketsStay
<1>3. MaxAttempts \in Nat
  BY AttemptsAssumption
<1>4. K \in Nat /\ K = MaxAttempts + MaxAttempts * Retests
      /\ MaxAttempts * Retests \in Nat
  BY <1>2, <1>3
<1>5. K = MaxAttempts * (1 + Allowance["retest"] - left["retest"])
  <2>1. Allowance["retest"] \in Nat /\ left["retest"] \in Nat
    BY <1>1, AllowanceAssumption DEF TypeOK
  <2>2. 1 + Retests = 1 + Allowance["retest"] - left["retest"]
    BY <1>2, <2>1
  <2> QED
    BY <2>2
<1>6. ASSUME NEW p \in Packets
      PROVE  starts[i][p] \in Nat /\ starts[i][p] <= K
  <2>1. /\ starts[i][p] \in Nat /\ recent[i][p] \in Nat
        /\ recent[i][p] <= MaxAttempts
        /\ starts[i][p] <= recent[i][p] + MaxAttempts * (Retests - Pending)
    BY DEF TypeOK, StartsAreCounted
  <2>2. /\ Retests - Pending \in Int /\ Retests - Pending <= Retests
    BY <1>2 DEF Pending
  <2>3. MaxAttempts * (Retests - Pending) <= MaxAttempts * Retests
    BY <1>2, <1>3, <2>2, TimesGrow
  <2>4. MaxAttempts * (Retests - Pending) \in Int
    BY <1>3, <2>2
  <2> HIDE DEF K
  <2> QED
    BY <1>3, <1>4, <2>1, <2>3, <2>4
<1> HIDE DEF K
<1>7. ASSUME NEW l \in S
      PROVE  /\ l.key.attempt \in 0..(K - 1)
             /\ l.key.rules = drafts[i].link.rules
             /\ l.key = [idea |-> i, rules |-> l.key.rules,
                         attempt |-> l.key.attempt]
  <2>1. l \in launched /\ l.key.idea = i
        /\ l.key \in [idea : Ideas, rules : Rules, attempt : Nat]
    BY DEF TypeOK, LaunchRecord
  <2>2. PICK p \in Packets : l.key.attempt < starts[i][p]
    BY <2>1 DEF KeysAreOwn
  <2>3. l.key.attempt \in Nat
    BY <2>1
  <2>4. l.key.attempt \in 0..(K - 1)
    BY <1>4, <1>6, <2>2, <2>3
  <2>5. l.key.rules = drafts[i].link.rules
    BY <2>1 DEF KeysAreOwn
  <2>6. l.key = [idea |-> i, rules |-> l.key.rules, attempt |-> l.key.attempt]
    BY <2>1
  <2> QED
    BY <2>4, <2>5, <2>6
<1>8. f \in Injection(S, 0..(K - 1))
  <2>1. f \in [S -> 0..(K - 1)]
    BY <1>7
  <2>2. ASSUME NEW l \in S, NEW m \in S, f[l] = f[m]
        PROVE  l = m
    <3>1. l.key = m.key
      BY <1>7, <2>2
    <3> QED
      BY <3>1 DEF KeysAreOwn
  <2> QED
    BY <2>1, <2>2 DEF Injection, IsInjective
<1>9. IsFiniteSet(0..(K - 1)) /\ Cardinality(0..(K - 1)) = K
  <2>1. 0 \in Int /\ K - 1 \in Int
    BY <1>4
  <2> QED
    BY <1>4, <2>1, FS_Interval
<1>10. Cardinality(S) <= K
  <2> HIDE DEF f, S
  <2> QED
    BY <1>8, <1>9, FS_Injection
<1> QED
  BY <1>5, <1>10

\* campaign_attempts and MAX_ATTEMPTS: an idea costs a bounded number of
\* launches, each under a key of its own, whatever is restarted, requeued or
\* lost in between.
THEOREM LaunchesAreBounded == Spec => []LaunchesAreCounted
<1>1. ASSUME CampaignInv
      PROVE  LaunchesAreCounted
  <2>1. LaunchBudget
    BY <1>1, LaunchesFit DEF LaunchBudget
  <2>2. ASSUME NeverEdited, camp.pc = "launch"
        PROVE  Launches(LaunchKey) = {}
    <3>1. LaunchKey.idea = Idea /\ LaunchKey.attempt = camp.attempt
      BY DEF LaunchKey, Key
    <3>2. \A l \in launched : l.key.idea = Idea => l.key.attempt < camp.attempt
      BY <1>1, <2>2 DEF CampaignInv, KeysAreOwn
    <3>3. camp.attempt \in Nat
      BY <1>1 DEF CampaignInv, TypeOK, CampRecord
    <3> QED
      BY <3>1, <3>2, <3>3 DEF Launches
  <2> QED
    BY <2>1, <2>2 DEF LaunchesAreCounted, OwnLaunchKey
<1> QED
  BY <1>1, CampaignInvariant, PTL

\* run_auto_test launches the rules that the key names, and without a retest
\* the setup that the idea was first linked to.
THEOREM LaunchUsesItsSetup == Spec => []LaunchSetupHolds
<1>1. ASSUME CampaignInv
      PROVE  LaunchSetupHolds
  <2>1. LaunchRunsItsRules
    BY <1>1 DEF CampaignInv, KeysAreOwn, LaunchRunsItsRules
  <2>2. ASSUME left["retest"] = Allowance["retest"]
        PROVE  Retests = 0
    BY <2>2, AllowanceAssumption DEF Retests, Disturbances
  <2>3. SetupIsKept
    BY <1>1, <2>2 DEF CampaignInv, SetupsAreKept, SetupIsKept
  <2> QED
    BY <2>1, <2>3 DEF LaunchSetupHolds
<1> QED
  BY <1>1, CampaignInvariant, PTL

\* earlier_owner_of_strategy lets one idea of the same rules and market reach a
\* result, and never closes two ideas on account of each other.
THEOREM SameRulesTestedOnce == Spec => []RulesAreTestedOnce
<1>1. CampaignInv => RulesAreTestedOnce
  BY DEF CampaignInv, RulesAreTestedOnce
<1> QED
  BY <1>1, CampaignInvariant, PTL

\* run_once looks at the pause between two ideas: one test at most begins after
\* set_campaign_paused.
THEOREM PauseIsObeyed == Spec => []PauseStopsTesting
<1>1. CampaignInv => PauseStopsTesting
  BY DEF CampaignInv, PauseIsSeen, PauseStopsTesting
<1> QED
  BY <1>1, CampaignInvariant, PTL

\* The event of a decided idea is only replaced by retest_settled.
THEOREM ResultsAreKept == Spec => ResultsStay
<1>1. CampaignInv /\ [Next]_vars =>
          [\A i \in Ideas :
              (NeverEdited /\ HasResult(i)) =>
                  \/ log'[i] = log[i]
                  \/ log'[i].reason = "requeued_after_fix"]_vars
  <2> SUFFICES ASSUME CampaignInv, [Next]_vars, NEW i \in Ideas,
                      NeverEdited, HasResult(i), log'[i] # log[i]
               PROVE  log'[i].reason = "requeued_after_fix"
    OBVIOUS
  <2> USE DEF CampaignInv
  <2>1. ~Queued(i)
    BY DEF ResultsAreLinked
  <2>2. ~(Ends /\ i = Idea)
    BY <2>1, BusyIdea DEF Ends, BusyPc, ChildPc
  <2>3. Reopened(i)
    BY <2>2, LogCases
  <2>4. ~IsOpen(i)
    BY DEF HasResult, IsOpen, ResultStates, OpenStates
  <2>5. /\ OperatorWrite /\ i = operator.idea
        /\ log'[i].reason = operator.reason
    BY <2>1, <2>3, <2>4 DEF Reopened
  <2>6. operator # None /\ operator \in Request
    BY <2>5 DEF OperatorWrite, TypeOK
  <2>7. operator.reason # "requeued_by_agent"
    BY <2>5, <2>6 DEF RequeuesAreIdle, HasResult, ResultStates
  <2> QED
    BY <2>5, <2>6, <2>7 DEF Request
<1> QED
  BY <1>1, CampaignInvariant, PTL DEF Spec, ResultsStay

=============================================================================
