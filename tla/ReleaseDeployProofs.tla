------------------------- MODULE ReleaseDeployProofs -------------------------
(***************************************************************************)
(* Proofs about qf-deploy, for every number of revisions, every choice of  *)
(* privileged files per revision and any number of administrator's runs,   *)
(* faults and crashes.                                                     *)
(***************************************************************************)
EXTENDS ReleaseDeploy, TLAPS, WellFoundedInduction

-----------------------------------------------------------------------------
(* The inductive invariant *)

\* A host, or what a rollback returns to, is on one revision.
AllAt(h, r) ==
    h.env = r /\ h.containers = r /\ h.current = r /\ h.dashboard = r

InfraAt(r) == \A f \in InfraFiles : infra[f] = InfraOf[r]

\* Before something is switched, while it is switched, and while it is
\* rolled back.
PreparePc == {"drain", "clear", "build", "verify", "previous"}

\* A revision is put on the host after its tests, and a rollback returns to
\* what was there.
VerifiedFirst ==
    /\ OnlyVerifiedIsLive
    /\ dep.pc \in SwitchPc \cup {"previous", "write", "prune"} =>
          dep.target \in verified
    /\ dep.pc \in SwitchPc \cup RollbackPc =>
          {dep.before.env, dep.before.containers, dep.before.current,
           dep.before.dashboard} \subseteq verified

\* What a run has switched is on its target, however the host stood before.
SwitchedSoFar ==
    /\ dep.pc \in PreparePc \cup {"infra"} =>
          \A f \in InfraFiles \ dep.drift : infra[f] = InfraOf[dep.target]
    /\ dep.pc \in {"reload", "env", "compose", "current", "dashboard",
                   "write", "prune"} => InfraAt(dep.target)
    /\ dep.pc \in {"compose", "current", "dashboard", "write", "prune"} =>
          host.env = dep.target
    /\ dep.pc \in {"current", "dashboard", "write", "prune"} =>
          host.containers = dep.target
    /\ dep.pc \in {"dashboard", "write", "prune"} =>
          host.current = dep.target
    /\ dep.pc \in {"write", "prune"} => host.dashboard = dep.target
    /\ dep.pc = "prune" => state.revision = dep.target

\* Which privileged files the run has replaced, and which ones its handler
\* knows of.
InstalledIsKnown ==
    /\ dep.pc \in PreparePc \cup {"off", "plan"} => dep.installed = {}
    /\ dep.pc \in PreparePc \cup {"off", "plan", "infra", "reload"} =>
          dep.restored = {}
    /\ dep.pc \in {"env", "compose", "current", "dashboard"} =>
          dep.restored = dep.installed

\* On a host that was whole a run knows the way back, and a rollback has gone
\* part of it.
WayBack ==
    intact =>
        /\ dep.pc \in PreparePc \cup {"off", "plan", "prune", "failed"} =>
              AllAt(host, state.revision) /\ InfraAt(state.revision)
        /\ dep.pc \in SwitchPc \cup RollbackPc =>
              /\ AllAt(dep.before, state.revision)
              /\ \A f \in InfraFiles :
                    dep.backups[f] = InfraOf[state.revision]
        /\ dep.pc \in SwitchPc =>
              \A f \in InfraFiles \ dep.installed : infra[f] = dep.backups[f]
        /\ dep.pc = "rb_infra" =>
              \A f \in InfraFiles \ dep.restored : infra[f] = dep.backups[f]
        /\ dep.pc \in RollbackPc \ {"rb_infra"} => InfraAt(state.revision)
        /\ dep.pc \in RollbackPc \ {"rb_infra", "rb_env"} =>
              host.env = state.revision
        /\ dep.pc \in {"rb_current", "rb_dashboard"} =>
              host.containers = state.revision
        /\ dep.pc = "rb_dashboard" => host.current = state.revision

\* The releases that the host, a rollback or the rest of the run links.
ReleasesAreThere ==
    /\ LiveReleaseKept
    /\ dep.pc \in SwitchPc => InSeq(dep.before.current, releases)
    /\ dep.pc \in PreparePc \cup SwitchPc \cup {"write", "prune"} =>
          InSeq(dep.target, releases)

DeployInv ==
    /\ TypeOK
    /\ VerifiedFirst
    /\ SwitchedSoFar
    /\ InstalledIsKnown
    /\ WayBack
    /\ ReleasesAreThere

-----------------------------------------------------------------------------
(* Selecting from a sequence.  Induction is by a least counterexample, for  *)
(* the induction theorems' parameter is an operator.                        *)

LEMMA SetInduction ==
    ASSUME NEW A, 0 \in A, \A n \in Nat : n \in A => n + 1 \in A
    PROVE  Nat \subseteq A
<1> SUFFICES ASSUME Nat \ A # {} PROVE FALSE
  OBVIOUS
<1>1. PICK n \in Nat \ A : \A m \in Nat \ A : ~(<<m, n>> \in OpToRel(<, Nat))
  BY NatLessThanWellFounded, WFMin
<1>2. \A m \in Nat \ A : ~(m < n)
  BY <1>1 DEF OpToRel
<1>3. n # 0
  OBVIOUS
<1>4. n - 1 \in Nat /\ n - 1 < n /\ (n - 1) + 1 = n
  BY <1>3
<1>5. n - 1 \in A
  BY <1>2, <1>4
<1> QED
  BY <1>4, <1>5

\* The function by which Kept is defined, up to position n.
KeptStep(s, S, n, before) ==
    IF s[n] \in S THEN Append(before, s[n]) ELSE before

IsKept(f, s, S, n) ==
    f = [m \in 0..n |-> IF m = 0 THEN <<>>
                        ELSE IF s[m] \in S THEN Append(f[m - 1], s[m])
                             ELSE f[m - 1]]

LEMMA IsKeptAt ==
    ASSUME NEW f, NEW s, NEW S, NEW n \in Nat, IsKept(f, s, S, n)
    PROVE  /\ f[0] = <<>>
           /\ \A k \in 1..n : f[k] = KeptStep(s, S, k, f[k - 1])
<1> DEFINE E(k) == IF k = 0 THEN <<>> ELSE KeptStep(s, S, k, f[k - 1])
<1>1. f = [k \in 0..n |-> E(k)]
  BY DEF IsKept, KeptStep
<1> HIDE DEF E
<1>2. \A k \in 0..n : f[k] = E(k)
  BY <1>1
<1>3. 0 \in 0..n /\ \A k \in 1..n : k \in 0..n /\ k # 0
  OBVIOUS
<1> QED
  BY <1>2, <1>3 DEF E

LEMMA KeptExists ==
    ASSUME NEW s, NEW S, NEW n \in Nat
    PROVE  \E f : IsKept(f, s, S, n)
<1> DEFINE A == {m \in Nat : \E f : IsKept(f, s, S, m)}
<1>1. 0 \in A
  <2>1. IsKept([m \in 0..0 |-> <<>>], s, S, 0)
    BY DEF IsKept
  <2> QED
    BY <2>1
<1>2. ASSUME NEW m \in Nat, m \in A
      PROVE  m + 1 \in A
  <2>1. PICK f : IsKept(f, s, S, m)
    BY <1>2
  <2> DEFINE g == [k \in 0..(m + 1) |->
                      IF k = m + 1 THEN KeptStep(s, S, m + 1, f[m])
                      ELSE f[k]]
  <2>2. \A k \in 0..(m + 1) :
            g[k] = IF k = 0 THEN <<>>
                   ELSE IF s[k] \in S THEN Append(g[k - 1], s[k])
                        ELSE g[k - 1]
    <3> SUFFICES ASSUME NEW k \in 0..(m + 1)
                 PROVE  g[k] = IF k = 0 THEN <<>>
                               ELSE IF s[k] \in S THEN Append(g[k - 1], s[k])
                                    ELSE g[k - 1]
      OBVIOUS
    <3>1. CASE k = m + 1
      <4>1. g[k] = KeptStep(s, S, k, f[m]) /\ g[k - 1] = f[m]
        BY <3>1
      <4> QED
        BY <3>1, <4>1 DEF KeptStep
    <3>2. CASE k = 0
      BY <2>1, <3>2 DEF IsKept
    <3>3. CASE k \in 1..m
      <4>1. g[k] = f[k] /\ g[k - 1] = f[k - 1]
        BY <3>3
      <4>2. f[k] = IF s[k] \in S THEN Append(f[k - 1], s[k]) ELSE f[k - 1]
        BY <2>1, <3>3, IsKeptAt DEF KeptStep
      <4> QED
        BY <3>3, <4>1, <4>2
    <3> QED
      BY <3>1, <3>2, <3>3
  <2>3. IsKept(g, s, S, m + 1)
    BY <2>2 DEF IsKept
  <2> QED
    BY <2>3
<1> HIDE DEF A
<1>3. n \in A
  BY <1>1, <1>2, SetInduction
<1> QED
  BY <1>3 DEF A

LEMMA AppendedTo ==
    ASSUME NEW T, NEW s \in Seq(T), NEW x \in T, NEW r
    PROVE  InSeq(r, Append(s, x)) <=> InSeq(r, s) \/ r = x
<1>1. /\ Len(s) \in Nat /\ Len(Append(s, x)) = Len(s) + 1
      /\ \A i \in 1..Len(s) : Append(s, x)[i] = s[i]
      /\ Append(s, x)[Len(s) + 1] = x
  OBVIOUS
<1>2. ASSUME InSeq(r, Append(s, x)) PROVE InSeq(r, s) \/ r = x
  <2>1. PICK i \in 1..(Len(s) + 1) : Append(s, x)[i] = r
    BY <1>1, <1>2 DEF InSeq
  <2>2. CASE i = Len(s) + 1
    BY <1>1, <2>1, <2>2
  <2>3. CASE i \in 1..Len(s)
    BY <1>1, <2>1, <2>3 DEF InSeq
  <2> QED
    BY <1>1, <2>2, <2>3
<1>3. ASSUME InSeq(r, s) \/ r = x PROVE InSeq(r, Append(s, x))
  <2>1. \A i \in 1..Len(s) : i \in 1..(Len(s) + 1)
    BY <1>1
  <2>2. Len(s) + 1 \in 1..(Len(s) + 1)
    BY <1>1
  <2> QED
    BY <1>1, <1>3, <2>1, <2>2 DEF InSeq
<1> QED
  BY <1>2, <1>3

\* Kept selects: what it returns is in s and in S, and everything that is in
\* both is returned.
LEMMA KeptEffect ==
    ASSUME NEW T, NEW s \in Seq(T), NEW S
    PROVE  /\ Kept(s, S) \in Seq(T)
           /\ \A r : InSeq(r, Kept(s, S)) <=> InSeq(r, s) /\ r \in S
<1> DEFINE f == CHOOSE f : IsKept(f, s, S, Len(s))
<1>0. Len(s) \in Nat
  OBVIOUS
<1>1. IsKept(f, s, S, Len(s))
  BY <1>0, KeptExists
<1>2. Kept(s, S) = f[Len(s)]
  BY DEF Kept, IsKept
<1> HIDE DEF f
<1> DEFINE Ok(n) == /\ f[n] \in Seq(T)
                    /\ \A r : InSeq(r, f[n]) <=>
                           (\E i \in 1..n : s[i] = r) /\ r \in S
           A == {n \in Nat : n <= Len(s) => Ok(n)}
<1>3. 0 \in A
  <2>1. f[0] = <<>>
    BY <1>0, <1>1 DEF IsKept
  <2>2. f[0] \in Seq(T) /\ \A r : ~InSeq(r, f[0])
    BY <2>1 DEF InSeq
  <2> QED
    BY <2>2
<1>4. ASSUME NEW n \in Nat, n \in A
      PROVE  n + 1 \in A
  <2> SUFFICES ASSUME n + 1 <= Len(s) PROVE Ok(n + 1)
    OBVIOUS
  <2>1. Ok(n)
    BY <1>0, <1>4
  <2>2. f[n + 1] = IF s[n + 1] \in S THEN Append(f[n], s[n + 1]) ELSE f[n]
    <3>1. n + 1 \in 1..Len(s) /\ (n + 1) - 1 = n
      BY <1>0
    <3>2. f[n + 1] = KeptStep(s, S, n + 1, f[(n + 1) - 1])
      BY <1>0, <1>1, <3>1, IsKeptAt
    <3> QED
      BY <3>1, <3>2 DEF KeptStep
  <2>3. s[n + 1] \in T
    BY <1>0
  <2>4. CASE s[n + 1] \in S
    <3>1. f[n + 1] = Append(f[n], s[n + 1]) /\ f[n] \in Seq(T)
      BY <2>1, <2>2, <2>4
    <3>2. \A r : InSeq(r, f[n + 1]) <=> InSeq(r, f[n]) \/ r = s[n + 1]
      BY <2>3, <3>1, AppendedTo
    <3>3. \A r : (\E i \in 1..(n + 1) : s[i] = r)
                    <=> (\E i \in 1..n : s[i] = r) \/ r = s[n + 1]
      OBVIOUS
    <3> QED
      BY <2>1, <2>3, <2>4, <3>1, <3>2, <3>3
  <2>5. CASE s[n + 1] \notin S
    <3>1. f[n + 1] = f[n]
      BY <2>2, <2>5
    <3>2. \A r : (\E i \in 1..(n + 1) : s[i] = r)
                    <=> (\E i \in 1..n : s[i] = r) \/ r = s[n + 1]
      OBVIOUS
    <3> QED
      BY <2>1, <2>5, <3>1, <3>2
  <2> QED
    BY <2>4, <2>5
<1> HIDE DEF A
<1>5. Len(s) \in A
  BY <1>0, <1>3, <1>4, SetInduction
<1> QED
  BY <1>0, <1>2, <1>5 DEF A, InSeq

-----------------------------------------------------------------------------
(* Type correctness *)

LEMMA PutFirst ==
    ASSUME NEW T, NEW s \in Seq(T), NEW x \in T
    PROVE  /\ <<x>> \o s \in Seq(T) /\ InSeq(x, <<x>> \o s)
           /\ \A r : InSeq(r, s) => InSeq(r, <<x>> \o s)
<1>1. /\ <<x>> \o s \in Seq(T) /\ Len(s) \in Nat
      /\ Len(<<x>> \o s) = Len(s) + 1 /\ (<<x>> \o s)[1] = x
      /\ \A i \in 1..Len(s) : (<<x>> \o s)[i + 1] = s[i]
  OBVIOUS
<1>2. 1 \in 1..(Len(s) + 1)
      /\ \A i \in 1..Len(s) : i + 1 \in 1..(Len(s) + 1)
  BY <1>1
<1>3. ASSUME NEW r, InSeq(r, s) PROVE InSeq(r, <<x>> \o s)
  BY <1>1, <1>2, <1>3 DEF InSeq
<1> QED
  BY <1>1, <1>2, <1>3 DEF InSeq

\* dep' when only its program counter moves.
LEMMA GotoEffect ==
    ASSUME TypeOK, NEW pc \in DeployPc, Goto(pc)
    PROVE  /\ dep' \in DeployRecord /\ dep'.pc = pc
           /\ dep'.target = dep.target /\ dep'.revision = dep.revision
           /\ dep'.opts = dep.opts /\ dep'.drift = dep.drift
           /\ dep'.before = dep.before /\ dep'.backups = dep.backups
           /\ dep'.installed = dep.installed /\ dep'.restored = dep.restored
BY DEF TypeOK, Goto, DeployRecord

LEMMA OffTyped ==
    /\ Off \in DeployRecord
    /\ [Off EXCEPT !.pc = "plan"] \in DeployRecord
    /\ \A opts \in Options :
          [Off EXCEPT !.pc = "plan", !.opts = opts] \in DeployRecord
<1>1. 0 \in Revisions
  BY RevisionsAssumption DEF Revisions
<1>2. TimerOptions \in Options
  BY DEF TimerOptions, Options
<1> QED
  BY <1>1, <1>2 DEF Off, DeployRecord, DeployPc, HostRecord

LEMMA SpendTyped ==
    ASSUME TypeOK, NEW what \in {"admin", "fault", "crash"}, NEW max,
           Spend(what, max)
    PROVE  used' \in [{"admin", "fault", "crash"} -> Nat]
BY DEF TypeOK, Spend

LEMMA RecreateTyped ==
    ASSUME TypeOK, NEW r \in Revisions, Recreate(r)
    PROVE  /\ host' \in HostRecord
           /\ tests' \in {"idle", "checked", "running"}
           /\ interrupted' \in Nat
           /\ host'.containers = r /\ host'.env = host.env
           /\ host'.current = host.current
           /\ host'.dashboard = host.dashboard
BY DEF TypeOK, Recreate, HostRecord

LEMMA ExportTyped ==
    ASSUME TypeOK, NEW r \in Revisions
    PROVE  /\ Export(r) \in Seq(Revisions) /\ InSeq(r, Export(r))
           /\ \A x : InSeq(x, releases) => InSeq(x, Export(r))
<1>1. CASE InSeq(r, releases)
  BY <1>1 DEF TypeOK, Export
<1>2. CASE ~InSeq(r, releases)
  BY <1>2, PutFirst DEF TypeOK, Export
<1> QED
  BY <1>1, <1>2

LEMMA PrunedTyped ==
    ASSUME TypeOK, NEW keep
    PROVE  /\ Pruned(keep) \in Seq(Revisions)
           /\ \A r : InSeq(r, releases) /\ r \in keep
                        => InSeq(r, Pruned(keep))
BY KeptEffect DEF TypeOK, Pruned

\* The release a run links is touched, and the others stay.
LEMMA TouchedTyped ==
    ASSUME TypeOK, NEW r \in Revisions
    PROVE  /\ <<r>> \o Without(r, releases) \in Seq(Revisions)
           /\ \A x : InSeq(x, releases)
                        => InSeq(x, <<r>> \o Without(r, releases))
<1>1. /\ Without(r, releases) \in Seq(Revisions)
      /\ \A x : InSeq(x, releases) /\ x \in Revisions \ {r}
                   => InSeq(x, Without(r, releases))
  BY KeptEffect DEF TypeOK, Without
<1>2. \A x : InSeq(x, releases) => x \in Revisions
  BY DEF TypeOK, InSeq
<1> QED
  BY <1>1, <1>2, PutFirst

LEMMA InitTyped == Init => TypeOK
<1> SUFFICES ASSUME Init PROVE TypeOK
  OBVIOUS
<1>1. 0 \in Revisions
  BY RevisionsAssumption DEF Revisions
<1>2. infra \in [InfraFiles -> Nat]
  BY <1>1, RevisionsAssumption DEF Init
<1>3. releases \in Seq(Revisions)
  BY <1>1 DEF Init
<1>4. state \in StateRecord /\ host \in HostRecord
  BY <1>1 DEF Init, StateRecord, HostRecord
<1> QED
  BY <1>1, <1>2, <1>3, <1>4, OffTyped DEF Init, TypeOK

LEMMA NextTyped ==
    ASSUME TypeOK, [Next]_vars
    PROVE  TypeOK'
<1>0. TypeOK
  OBVIOUS
<1>1. CASE UNCHANGED vars
  BY <1>1 DEF TypeOK, vars
<1>2. CASE TimerRun
  BY <1>2, OffTyped DEF TypeOK, TimerRun
<1>3. CASE AdminRun
  <2>1. used' \in [{"admin", "fault", "crash"} -> Nat]
    BY <1>3, SpendTyped DEF AdminRun
  <2>2. dep' \in DeployRecord
    BY <1>3, OffTyped DEF AdminRun
  <2> QED
    BY <1>3, <2>1, <2>2 DEF TypeOK, AdminRun
<1>4. CASE Plan
  <2> DEFINE target == Target
  <2>1. dep.opts.requested \in Revisions \cup {None} /\ main \in Revisions
    BY DEF TypeOK, DeployRecord, Options
  <2>2. target \in Revisions
    BY <2>1 DEF Target
  <2>3. releases' = releases \/ releases' = Export(target)
    BY <1>4 DEF Plan
  <2>4. releases' \in Seq(Revisions)
    BY <2>2, <2>3, ExportTyped DEF TypeOK
  <2>5. state' \in StateRecord
    BY <1>4 DEF Plan, TypeOK, StateRecord
  <2>6. dep' = Off \/ dep' = [dep EXCEPT !.pc = "drain", !.target = target,
                                 !.revision = state.revision,
                                 !.drift = Drift(target)]
    BY <1>4 DEF Plan
  <2>7. Drift(target) \in SUBSET InfraFiles
    BY DEF Drift
  <2> HIDE DEF target
  <2>8. dep' \in DeployRecord
    BY <2>2, <2>6, <2>7, OffTyped
       DEF TypeOK, DeployRecord, DeployPc, StateRecord
  <2>9. marker' \in BOOLEAN
    BY <1>4 DEF Plan, TypeOK
  <2> QED
    BY <1>4, <2>4, <2>5, <2>8, <2>9 DEF TypeOK, Plan
<1>5. CASE DrainCheck \/ DrainCheckBlind \/ ClearMarker
  <2>1. dep' \in DeployRecord
    BY <1>5, OffTyped, GotoEffect
       DEF DrainCheck, DrainCheckBlind, ClearMarker, DeployPc
  <2>2. used' \in [{"admin", "fault", "crash"} -> Nat]
    BY <1>5, SpendTyped DEF DrainCheck, DrainCheckBlind, ClearMarker, TypeOK
  <2> QED
    BY <1>5, <2>1, <2>2 DEF TypeOK, DrainCheck, DrainCheckBlind, ClearMarker
<1>6. CASE Build
  <2>1. dep' \in DeployRecord
    BY <1>6, GotoEffect DEF Build, DeployPc
  <2>2. releases' \in Seq(Revisions)
    BY <1>6, TouchedTyped DEF Build, TypeOK, DeployRecord
  <2> QED
    BY <1>6, <2>1, <2>2 DEF TypeOK, Build
<1>7. CASE Verify
  <2>1. dep' \in DeployRecord
    BY <1>7, GotoEffect DEF Verify, DeployPc
  <2> QED
    BY <1>7, <2>1 DEF TypeOK, Verify, DeployRecord
<1>8. CASE ReadPrevious
  <2>1. dep' \in DeployRecord
    BY <1>8 DEF TypeOK, ReadPrevious, DeployRecord, DeployPc, SwitchPc
  <2> QED
    BY <1>8, <2>1 DEF TypeOK, ReadPrevious
<1>9. CASE InstallInfra
  <2>1. PICK f \in dep.drift :
            /\ infra' = [infra EXCEPT ![f] = InfraOf[dep.target]]
            /\ dep' = [dep EXCEPT !.drift = @ \ {f},
                                  !.installed = @ \cup {f},
                                  !.pc = IF dep.drift = {f}
                                         THEN "reload" ELSE "infra"]
    BY <1>9 DEF InstallInfra
  <2>2. f \in InfraFiles /\ InfraOf[dep.target] \in Nat
    BY RevisionsAssumption DEF TypeOK, DeployRecord
  <2>3. infra' \in [InfraFiles -> Nat]
    BY <2>1, <2>2 DEF TypeOK
  <2>4. dep' \in DeployRecord
    BY <2>1, <2>2 DEF TypeOK, DeployRecord, DeployPc, SwitchPc
  <2> QED
    BY <1>9, <2>3, <2>4 DEF TypeOK, InstallInfra
<1>10. CASE ReloadInfra
  <2>1. dep' \in DeployRecord
    BY <1>10 DEF TypeOK, ReloadInfra, DeployRecord, DeployPc, SwitchPc
  <2> QED
    BY <1>10, <2>1 DEF TypeOK, ReloadInfra
<1>11. CASE SwitchEnv \/ SwitchCurrent \/ RestartDashboard
  <2>1. dep' \in DeployRecord
    BY <1>11, GotoEffect
       DEF SwitchEnv, SwitchCurrent, RestartDashboard, DeployPc, SwitchPc
  <2>2. host' \in HostRecord
    BY <1>11 DEF SwitchEnv, SwitchCurrent, RestartDashboard, TypeOK,
                 HostRecord, DeployRecord
  <2> QED
    BY <1>11, <2>1, <2>2
       DEF TypeOK, SwitchEnv, SwitchCurrent, RestartDashboard
<1>12. CASE ComposeUp \/ RollbackCompose
  <2>1. dep' \in DeployRecord
    BY <1>12, GotoEffect
       DEF ComposeUp, RollbackCompose, DeployPc, SwitchPc, RollbackPc
  <2>2. Recreate(host.env) /\ host.env \in Revisions
    BY <1>12 DEF ComposeUp, RollbackCompose, TypeOK, HostRecord
  <2>3. /\ host' \in HostRecord
        /\ tests' \in {"idle", "checked", "running"} /\ interrupted' \in Nat
    BY <2>2, RecreateTyped
  <2> QED
    BY <1>12, <2>1, <2>3 DEF TypeOK, ComposeUp, RollbackCompose
<1>13. CASE WriteState
  <2>1. dep' \in DeployRecord
    BY <1>13, GotoEffect DEF WriteState, DeployPc
  <2>2. state' \in StateRecord
    BY <1>13 DEF WriteState, TypeOK, StateRecord, DeployRecord, Options
  <2> QED
    BY <1>13, <2>1, <2>2 DEF TypeOK, WriteState
<1>14. CASE Prune
  <2>1. releases' \in Seq(Revisions)
    BY <1>14, PrunedTyped DEF Prune
  <2> QED
    BY <1>14, <2>1, OffTyped DEF TypeOK, Prune
<1>24. CASE RunFails
  <2>1. Target \in Revisions
    BY DEF Target, TypeOK, DeployRecord, Options
  <2>2. used' \in [{"admin", "fault", "crash"} -> Nat]
    BY <1>24, SpendTyped DEF RunFails
  <2>3. releases' = releases \/ releases' = Export(Target)
    BY <1>24 DEF RunFails
  <2>4. releases' \in Seq(Revisions)
    BY <2>1, <2>3, ExportTyped DEF TypeOK
  <2> QED
    BY <1>24, <2>2, <2>4, OffTyped DEF TypeOK, RunFails
<1>15. CASE StepFails
  <2>1. dep' \in DeployRecord
    BY <1>15, GotoEffect DEF StepFails, DeployPc
  <2>2. used' \in [{"admin", "fault", "crash"} -> Nat]
    BY <1>15, SpendTyped DEF StepFails
  <2>3. releases' \in Seq(Revisions)
    BY <1>15, PrunedTyped DEF StepFails, TypeOK
  <2>4. intact' \in BOOLEAN
    BY <1>15 DEF StepFails
  <2> QED
    BY <1>15, <2>1, <2>2, <2>3, <2>4 DEF TypeOK, StepFails
<1>16. CASE SwitchFails
  <2>1. dep' \in DeployRecord
    BY <1>16, GotoEffect DEF SwitchFails, DeployPc, RollbackPc
  <2>2. used' \in [{"admin", "fault", "crash"} -> Nat]
    BY <1>16, SpendTyped DEF SwitchFails
  <2>3. host.env \in Revisions /\ host.current \in Revisions
    BY DEF TypeOK, HostRecord
  <2>4. /\ host' \in HostRecord
        /\ tests' \in {"idle", "checked", "running"} /\ interrupted' \in Nat
    <3>1. CASE UNCHANGED <<host, tests, interrupted>>
      BY <3>1 DEF TypeOK
    <3>2. CASE Recreate(host.env)
      BY <2>3, <3>2, RecreateTyped
    <3>3. CASE /\ host' = [host EXCEPT !.dashboard = host.current]
               /\ UNCHANGED <<tests, interrupted>>
      BY <2>3, <3>3 DEF TypeOK, HostRecord
    <3> QED
      BY <1>16, <3>1, <3>2, <3>3 DEF SwitchFails
  <2>5. intact' \in BOOLEAN
    BY <1>16 DEF SwitchFails
  <2> QED
    BY <1>16, <2>1, <2>2, <2>4, <2>5 DEF TypeOK, SwitchFails
<1>17. CASE RollbackInfra
  <2>1. dep' \in DeployRecord
    BY <1>17, GotoEffect DEF RollbackInfra, DeployPc, RollbackPc
  <2>2. infra' \in [InfraFiles -> Nat]
    BY <1>17 DEF RollbackInfra, TypeOK, DeployRecord
  <2> QED
    BY <1>17, <2>1, <2>2 DEF TypeOK, RollbackInfra
<1>18. CASE RollbackEnv \/ RollbackCurrent \/ RollbackDashboard
  <2>1. dep' \in DeployRecord
    BY <1>18, GotoEffect
       DEF RollbackEnv, RollbackCurrent, RollbackDashboard, DeployPc,
           RollbackPc
  <2>2. host' \in HostRecord
    BY <1>18 DEF RollbackEnv, RollbackCurrent, RollbackDashboard, TypeOK,
                 HostRecord, DeployRecord
  <2> QED
    BY <1>18, <2>1, <2>2
       DEF TypeOK, RollbackEnv, RollbackCurrent, RollbackDashboard
<1>19. CASE RollbackFails
  <2>1. dep' \in DeployRecord
    BY <1>19, GotoEffect DEF RollbackFails, DeployPc
  <2>2. used' \in [{"admin", "fault", "crash"} -> Nat]
    BY <1>19, SpendTyped DEF RollbackFails
  <2> QED
    BY <1>19, <2>1, <2>2 DEF TypeOK, RollbackFails
<1>20. CASE RecordFailure
  <2>1. state' \in StateRecord
    BY <1>20 DEF RecordFailure, TypeOK, StateRecord, DeployRecord
  <2> QED
    BY <1>20, <2>1, OffTyped DEF TypeOK, RecordFailure
<1>21. CASE Killed
  <2>1. used' \in [{"admin", "fault", "crash"} -> Nat]
    BY <1>21, SpendTyped DEF Killed
  <2>2. intact' \in BOOLEAN
    BY <1>21 DEF Killed
  <2> QED
    BY <1>21, <2>1, <2>2, OffTyped DEF TypeOK, Killed
<1>22. CASE CheckDrain \/ BeginTest \/ EndTest
  BY <1>22 DEF TypeOK, CheckDrain, BeginTest, EndTest
<1>23. CASE Merge
  <2>1. main' \in Revisions
    BY <1>23, RevisionsAssumption DEF Merge, TypeOK, Revisions
  <2> QED
    BY <1>23, <2>1 DEF TypeOK, Merge
<1> QED
  BY <1>1, <1>2, <1>3, <1>4, <1>5, <1>6, <1>7, <1>8, <1>9, <1>10, <1>11,
     <1>12, <1>13, <1>14, <1>15, <1>16, <1>17, <1>18, <1>19, <1>20, <1>21,
     <1>22, <1>23, <1>24 DEF Next, DeployStep

-----------------------------------------------------------------------------
(* The parts of the invariant, step by step *)

\* Steps after which no run is under way, or one that has switched nothing.
EarlyStep ==
    \/ TimerRun \/ AdminRun \/ Plan \/ DrainCheck \/ DrainCheckBlind
    \/ ClearMarker \/ Build

LateStep ==
    \/ Prune \/ StepFails \/ RunFails \/ RollbackFails \/ RecordFailure
    \/ Killed

OtherStep == CheckDrain \/ BeginTest \/ EndTest \/ Merge \/ UNCHANGED vars

LEMMA EarlyEffect ==
    ASSUME TypeOK, EarlyStep
    PROVE  /\ UNCHANGED <<host, infra, verified, intact>>
           /\ state'.revision = state.revision
           /\ dep'.pc \in {"off", "plan", "drain", "clear", "build", "verify"}
           /\ \/ dep'.installed = {} /\ dep'.restored = {}
              \/ /\ dep.pc \in PreparePc \cup {"plan"}
                 /\ dep'.installed = dep.installed
                 /\ dep'.restored = dep.restored
           /\ \/ dep'.pc \in {"off", "plan"}
              \/ dep'.drift = Drift(dep'.target)
              \/ /\ dep.pc \in PreparePc /\ dep'.target = dep.target
                 /\ dep'.drift = dep.drift
<1>1. CASE TimerRun \/ AdminRun
  BY <1>1 DEF TimerRun, AdminRun, Off
<1>2. CASE Plan
  <2> DEFINE target == Target
  <2>1. /\ UNCHANGED <<host, infra, verified, intact>>
        /\ state'.revision = state.revision /\ dep.pc = "plan"
    BY <1>2 DEF Plan, TypeOK, StateRecord
  <2>2. dep' = Off \/ dep' = [dep EXCEPT !.pc = "drain", !.target = target,
                                 !.revision = state.revision,
                                 !.drift = Drift(target)]
    BY <1>2 DEF Plan
  <2> HIDE DEF target
  <2>3. CASE dep' = Off
    BY <2>1, <2>3 DEF Off
  <2>4. CASE dep' = [dep EXCEPT !.pc = "drain", !.target = target,
                        !.revision = state.revision,
                        !.drift = Drift(target)]
    BY <2>1, <2>4 DEF TypeOK, DeployRecord
  <2> QED
    BY <2>2, <2>3, <2>4
<1>3. CASE DrainCheck \/ DrainCheckBlind \/ ClearMarker \/ Build
  <2>1. /\ UNCHANGED <<host, infra, verified, intact, state>>
        /\ dep.pc \in PreparePc
    BY <1>3 DEF DrainCheck, DrainCheckBlind, ClearMarker, Build, PreparePc
  <2>2. dep' = Off \/ \E pc \in {"clear", "build", "verify"} : Goto(pc)
    BY <1>3 DEF DrainCheck, DrainCheckBlind, ClearMarker, Build
  <2>3. CASE dep' = Off
    BY <2>1, <2>3 DEF Off
  <2>4. CASE \E pc \in {"clear", "build", "verify"} : Goto(pc)
    <3>1. PICK pc \in {"clear", "build", "verify"} : Goto(pc)
      BY <2>4
    <3> QED
      BY <2>1, <3>1, GotoEffect DEF DeployPc
  <2> QED
    BY <2>2, <2>3, <2>4
<1> QED
  BY <1>1, <1>2, <1>3 DEF EarlyStep

LEMMA EarlyPlace ==
    ASSUME EarlyStep
    PROVE  dep.pc \in PreparePc \cup {"off", "plan"}
BY DEF EarlyStep, TimerRun, AdminRun, Plan, DrainCheck, DrainCheckBlind,
       ClearMarker, Build, PreparePc

\* The target of a run that prepares is exported.
LEMMA EarlyTarget ==
    ASSUME TypeOK, EarlyStep, dep'.pc \in PreparePc
    PROVE  \/ InSeq(dep'.target, releases')
           \/ dep.pc \in PreparePc /\ dep'.target = dep.target
<1>1. CASE Plan
  <2> DEFINE target == Target
  <2>1. target \in Revisions
    BY DEF Target, TypeOK, DeployRecord, Options
  <2>2. \/ dep' = Off
        \/ /\ releases' = Export(target)
           /\ dep' = [dep EXCEPT !.pc = "drain", !.target = target,
                         !.revision = state.revision,
                         !.drift = Drift(target)]
    BY <1>1 DEF Plan
  <2> HIDE DEF target
  <2>3. dep' # Off
    BY DEF Off, PreparePc
  <2>4. dep'.target = target
    BY <2>2, <2>3 DEF TypeOK, DeployRecord
  <2> QED
    BY <2>1, <2>2, <2>3, <2>4, ExportTyped
<1>2. CASE DrainCheck \/ DrainCheckBlind \/ ClearMarker \/ Build
  <2>1. dep.pc \in PreparePc
    BY <1>2 DEF DrainCheck, DrainCheckBlind, ClearMarker, Build, PreparePc
  <2>2. \E pc \in {"clear", "build", "verify"} : Goto(pc)
    BY <1>2 DEF DrainCheck, DrainCheckBlind, ClearMarker, Build, Off,
                PreparePc
  <2>3. PICK pc \in {"clear", "build", "verify"} : Goto(pc)
    BY <2>2
  <2> QED
    BY <2>1, <2>3, GotoEffect DEF DeployPc
<1>3. CASE TimerRun \/ AdminRun
  BY <1>3 DEF TimerRun, AdminRun, Off, PreparePc
<1> QED
  BY <1>1, <1>2, <1>3 DEF EarlyStep

LEMMA LateEffect ==
    ASSUME TypeOK, LateStep
    PROVE  /\ UNCHANGED <<host, infra, verified>>
           /\ state'.revision = state.revision
           /\ dep'.pc \in {"off", "failed"}
           /\ dep'.pc = "off" => dep'.installed = {} /\ dep'.restored = {}
           /\ intact' => /\ intact
                         /\ dep.pc \in PreparePc
                                \cup {"off", "plan", "prune", "failed"}
<1>1. CASE Prune \/ RecordFailure
  BY <1>1 DEF Prune, RecordFailure, Off, TypeOK, StateRecord
<1>2. CASE StepFails
  <2>1. /\ dep'.pc = "failed" /\ UNCHANGED <<host, infra, verified, state>>
        /\ dep.pc \in {"build", "verify", "previous", "write", "prune"}
    BY <1>2, GotoEffect DEF StepFails, DeployPc
  <2>2. intact' => intact /\ dep.pc # "write"
    BY <1>2 DEF StepFails
  <2> QED
    BY <2>1, <2>2 DEF PreparePc
<1>5. CASE RollbackFails
  BY <1>5, GotoEffect DEF RollbackFails, DeployPc
<1>3. CASE Killed
  BY <1>3 DEF Killed, Off, TypeOK, DeployRecord, DeployPc, PreparePc
<1>4. CASE RunFails
  BY <1>4 DEF RunFails, Off
<1> QED
  BY <1>1, <1>2, <1>3, <1>4, <1>5 DEF LateStep

LEMMA OtherEffect ==
    ASSUME OtherStep
    PROVE  UNCHANGED <<host, infra, verified, intact, state, dep, releases>>
BY DEF OtherStep, CheckDrain, BeginTest, EndTest, Merge, vars

\* A rollback is reached by a step that has perhaps taken effect already.
LEMMA SwitchFailsEffect ==
    ASSUME TypeOK, SwitchFails
    PROVE  /\ UNCHANGED <<infra, verified, state, releases>>
           /\ dep.pc \in SwitchPc /\ dep'.pc = "rb_infra"
           /\ dep'.before = dep.before /\ dep'.backups = dep.backups
           /\ dep'.restored = dep.restored
           /\ intact' = (intact /\ dep.installed = dep.restored)
           /\ host'.env = host.env /\ host'.current = host.current
           /\ host'.containers \in {host.containers, host.env}
           /\ host'.dashboard \in {host.dashboard, host.current}
<1>1. host.env \in Revisions
  BY DEF TypeOK, HostRecord
<1>2. /\ dep'.pc = "rb_infra"
      /\ dep'.before = dep.before /\ dep'.backups = dep.backups
      /\ dep'.restored = dep.restored
  BY GotoEffect DEF SwitchFails, DeployPc, RollbackPc
<1>3. /\ host'.env = host.env /\ host'.current = host.current
      /\ host'.containers \in {host.containers, host.env}
      /\ host'.dashboard \in {host.dashboard, host.current}
  <2>1. CASE UNCHANGED host
    BY <2>1
  <2>2. CASE Recreate(host.env)
    BY <1>1, <2>2, RecreateTyped
  <2>3. CASE host' = [host EXCEPT !.dashboard = host.current]
    BY <2>3 DEF TypeOK, HostRecord
  <2> QED
    BY <2>1, <2>2, <2>3 DEF SwitchFails
<1> QED
  BY <1>2, <1>3 DEF SwitchFails

\* The next step's disjuncts, as the lemmas below take them.
LEMMA StepCases ==
    ASSUME [Next]_vars
    PROVE  \/ EarlyStep \/ LateStep \/ OtherStep
           \/ Verify \/ ReadPrevious \/ InstallInfra \/ ReloadInfra
           \/ SwitchEnv \/ ComposeUp \/ SwitchCurrent \/ RestartDashboard
           \/ WriteState \/ SwitchFails
           \/ RollbackInfra \/ RollbackEnv \/ RollbackCompose
           \/ RollbackCurrent \/ RollbackDashboard
BY DEF Next, DeployStep, EarlyStep, LateStep, OtherStep

LEMMA VerifiedStep ==
    ASSUME TypeOK, VerifiedFirst, [Next]_vars, TypeOK'
    PROVE  VerifiedFirst'
<1> USE DEF VerifiedFirst, OnlyVerifiedIsLive, Live
<1>1. CASE EarlyStep
  BY <1>1, EarlyEffect DEF SwitchPc, RollbackPc
<1>2. CASE LateStep
  BY <1>2, LateEffect DEF SwitchPc, RollbackPc
<1>3. CASE OtherStep
  BY <1>3, OtherEffect
<1>4. CASE Verify
  <2>1. dep'.pc = "previous" /\ dep'.target = dep.target
    BY <1>4, GotoEffect DEF Verify, DeployPc
  <2> QED
    BY <1>4, <2>1 DEF Verify, SwitchPc, RollbackPc
<1>5. CASE ReadPrevious
  <2>1. /\ dep.pc = "previous" /\ dep'.pc \in {"env", "infra"}
        /\ dep'.target = dep.target /\ dep'.before = host
        /\ host' = host /\ verified' = verified
    BY <1>5 DEF ReadPrevious, TypeOK, DeployRecord
  <2> QED
    BY <2>1 DEF SwitchPc, RollbackPc
<1>6. CASE InstallInfra
  <2>1. /\ dep.pc = "infra" /\ dep'.pc \in {"infra", "reload"}
        /\ dep'.target = dep.target /\ dep'.before = dep.before
        /\ host' = host /\ verified' = verified
    BY <1>6 DEF InstallInfra, TypeOK, DeployRecord
  <2> QED
    BY <2>1 DEF SwitchPc, RollbackPc
<1>7. CASE ReloadInfra
  BY <1>7 DEF ReloadInfra, TypeOK, DeployRecord, SwitchPc, RollbackPc
<1>8. CASE SwitchEnv \/ SwitchCurrent \/ RestartDashboard
  <2>1. /\ dep.pc \in SwitchPc /\ dep'.pc \in SwitchPc \cup {"write"}
        /\ dep'.target = dep.target /\ dep'.before = dep.before
    BY <1>8, GotoEffect
       DEF SwitchEnv, SwitchCurrent, RestartDashboard, SwitchPc, DeployPc
  <2> HIDE DEF VerifiedFirst
  <2>2. /\ host'.env \in {host.env, dep.target}
        /\ host'.containers = host.containers
        /\ host'.current \in {host.current, dep.target}
        /\ host'.dashboard \in {host.dashboard, host.current}
        /\ verified' = verified
    <3>1. CASE SwitchEnv
      BY <3>1 DEF SwitchEnv, TypeOK, HostRecord
    <3>2. CASE SwitchCurrent
      BY <3>2 DEF SwitchCurrent, TypeOK, HostRecord
    <3>3. CASE RestartDashboard
      BY <3>3 DEF RestartDashboard, TypeOK, HostRecord
    <3> QED
      BY <1>8, <3>1, <3>2, <3>3
  <2> QED
    BY <2>1, <2>2 DEF VerifiedFirst, SwitchPc, RollbackPc
<1>9. CASE ComposeUp
  <2>1. /\ dep.pc \in SwitchPc /\ dep'.pc \in SwitchPc
        /\ dep'.target = dep.target /\ dep'.before = dep.before
    BY <1>9, GotoEffect DEF ComposeUp, SwitchPc, DeployPc
  <2>2. host.env \in Revisions /\ Recreate(host.env) /\ verified' = verified
    BY <1>9 DEF ComposeUp, TypeOK, HostRecord
  <2> QED
    BY <2>1, <2>2, RecreateTyped DEF SwitchPc, RollbackPc
<1>10. CASE WriteState
  <2>1. dep.pc = "write" /\ dep'.pc = "prune" /\ dep'.target = dep.target
    BY <1>10, GotoEffect DEF WriteState, DeployPc
  <2> QED
    BY <1>10, <2>1 DEF WriteState, SwitchPc, RollbackPc
<1>11. CASE SwitchFails
  BY <1>11, SwitchFailsEffect DEF SwitchPc, RollbackPc
<1>12. CASE RollbackInfra \/ RollbackEnv \/ RollbackCurrent
               \/ RollbackDashboard
  <2>1. /\ dep.pc \in RollbackPc /\ dep'.pc \in RollbackPc \cup {"failed"}
        /\ dep'.before = dep.before
    BY <1>12, GotoEffect
       DEF RollbackInfra, RollbackEnv, RollbackCurrent, RollbackDashboard,
           RollbackPc, DeployPc
  <2> QED
    BY <1>12, <2>1
       DEF RollbackInfra, RollbackEnv, RollbackCurrent, RollbackDashboard,
           TypeOK, HostRecord, SwitchPc, RollbackPc
<1>13. CASE RollbackCompose
  <2>1. /\ dep.pc \in RollbackPc /\ dep'.pc \in RollbackPc
        /\ dep'.before = dep.before
    BY <1>13, GotoEffect DEF RollbackCompose, RollbackPc, DeployPc
  <2>2. host.env \in Revisions /\ Recreate(host.env) /\ verified' = verified
    BY <1>13 DEF RollbackCompose, TypeOK, HostRecord
  <2> QED
    BY <2>1, <2>2, RecreateTyped DEF SwitchPc, RollbackPc
<1> QED
  BY <1>1, <1>2, <1>3, <1>4, <1>5, <1>6, <1>7, <1>8, <1>9, <1>10, <1>11,
     <1>12, <1>13, StepCases

\* Each step of a switch adds one thing that is on the target.
LEMMA SwitchedStep ==
    ASSUME TypeOK, SwitchedSoFar, [Next]_vars, TypeOK'
    PROVE  SwitchedSoFar'
<1> USE DEF SwitchedSoFar, InfraAt
<1>1. CASE EarlyStep
  <2>1. /\ infra' = infra
        /\ dep'.pc \in {"off", "plan", "drain", "clear", "build", "verify"}
        /\ \/ dep'.pc \in {"off", "plan"}
           \/ dep'.drift = Drift(dep'.target)
           \/ /\ dep.pc \in PreparePc /\ dep'.target = dep.target
              /\ dep'.drift = dep.drift
    BY <1>1, EarlyEffect
  <2>2. \A f \in InfraFiles \ Drift(dep'.target) :
            infra[f] = InfraOf[dep'.target]
    BY DEF Drift
  <2> QED
    BY <2>1, <2>2 DEF PreparePc
<1>2. CASE LateStep
  BY <1>2, LateEffect DEF PreparePc
<1>3. CASE OtherStep
  BY <1>3, OtherEffect
<1>4. CASE Verify
  <2>1. /\ dep.pc = "verify" /\ dep'.pc = "previous"
        /\ dep'.target = dep.target /\ dep'.drift = dep.drift
        /\ infra' = infra
    BY <1>4, GotoEffect DEF Verify, DeployPc
  <2> QED
    BY <2>1 DEF PreparePc
<1>5. CASE ReadPrevious
  <2>1. /\ dep.pc = "previous"
        /\ dep'.pc = IF dep.drift = {} THEN "env" ELSE "infra"
        /\ dep'.target = dep.target /\ dep'.drift = dep.drift
        /\ infra' = infra
    BY <1>5 DEF ReadPrevious, TypeOK, DeployRecord
  <2> QED
    BY <2>1 DEF PreparePc
<1>6. CASE InstallInfra
  <2>1. PICK f \in dep.drift :
            /\ infra' = [infra EXCEPT ![f] = InfraOf[dep.target]]
            /\ dep' = [dep EXCEPT !.drift = @ \ {f},
                                  !.installed = @ \cup {f},
                                  !.pc = IF dep.drift = {f}
                                         THEN "reload" ELSE "infra"]
    BY <1>6 DEF InstallInfra
  <2>2. /\ dep.pc = "infra" /\ dep'.target = dep.target
        /\ dep'.drift = dep.drift \ {f}
        /\ dep'.pc = IF dep.drift = {f} THEN "reload" ELSE "infra"
    BY <1>6, <2>1 DEF InstallInfra, TypeOK, DeployRecord
  <2>3. /\ infra'[f] = InfraOf[dep.target]
        /\ \A g \in InfraFiles \ {f} : infra'[g] = infra[g]
    BY <2>1 DEF TypeOK, DeployRecord
  <2> QED
    BY <2>2, <2>3 DEF PreparePc
<1>7. CASE ReloadInfra
  <2>1. /\ dep.pc = "reload" /\ dep'.pc = "env" /\ dep'.target = dep.target
        /\ infra' = infra
    BY <1>7 DEF ReloadInfra, TypeOK, DeployRecord
  <2> QED
    BY <2>1 DEF PreparePc
<1>8. CASE SwitchEnv
  <2>1. /\ dep.pc = "env" /\ dep'.pc = "compose" /\ dep'.target = dep.target
        /\ infra' = infra /\ host'.env = dep.target
    BY <1>8, GotoEffect
       DEF SwitchEnv, DeployPc, SwitchPc, TypeOK, HostRecord
  <2> QED
    BY <2>1 DEF PreparePc
<1>9. CASE ComposeUp
  <2>1. /\ dep.pc = "compose" /\ dep'.pc = "current"
        /\ dep'.target = dep.target /\ infra' = infra
    BY <1>9, GotoEffect DEF ComposeUp, DeployPc, SwitchPc
  <2>2. host'.containers = host.env /\ host'.env = host.env
    BY <1>9, RecreateTyped DEF ComposeUp, TypeOK, HostRecord
  <2> QED
    BY <2>1, <2>2 DEF PreparePc
<1>10. CASE SwitchCurrent
  <2>1. /\ dep.pc = "current" /\ dep'.pc = "dashboard"
        /\ dep'.target = dep.target /\ infra' = infra
        /\ host'.env = host.env /\ host'.containers = host.containers
        /\ host'.current = dep.target
    BY <1>10, GotoEffect
       DEF SwitchCurrent, DeployPc, SwitchPc, TypeOK, HostRecord
  <2> QED
    BY <2>1 DEF PreparePc
<1>11. CASE RestartDashboard
  <2>1. /\ dep.pc = "dashboard" /\ dep'.pc = "write"
        /\ dep'.target = dep.target /\ infra' = infra
        /\ host'.env = host.env /\ host'.containers = host.containers
        /\ host'.current = host.current /\ host'.dashboard = host.current
    BY <1>11, GotoEffect DEF RestartDashboard, DeployPc, TypeOK, HostRecord
  <2> QED
    BY <2>1 DEF PreparePc
<1>12. CASE WriteState
  <2>1. /\ dep.pc = "write" /\ dep'.pc = "prune" /\ dep'.target = dep.target
        /\ infra' = infra /\ host' = host /\ state'.revision = dep.target
    BY <1>12, GotoEffect DEF WriteState, DeployPc
  <2> QED
    BY <2>1 DEF PreparePc
<1>13. CASE SwitchFails
  BY <1>13, SwitchFailsEffect DEF PreparePc
<1>14. CASE RollbackInfra \/ RollbackEnv \/ RollbackCompose
               \/ RollbackCurrent \/ RollbackDashboard
  <2>1. dep'.pc \in RollbackPc \cup {"failed"}
    BY <1>14, GotoEffect
       DEF RollbackInfra, RollbackEnv, RollbackCompose, RollbackCurrent,
           RollbackDashboard, RollbackPc, DeployPc
  <2> QED
    BY <2>1 DEF PreparePc, RollbackPc
<1> QED
  BY <1>1, <1>2, <1>3, <1>4, <1>5, <1>6, <1>7, <1>8, <1>9, <1>10, <1>11,
     <1>12, <1>13, <1>14, StepCases

\* The handler learns of the replaced files when all of them are.
LEMMA InstalledStep ==
    ASSUME TypeOK, InstalledIsKnown, [Next]_vars, TypeOK'
    PROVE  InstalledIsKnown'
<1> USE DEF InstalledIsKnown
<1>1. CASE EarlyStep
  BY <1>1, EarlyEffect DEF PreparePc
<1>2. CASE LateStep
  BY <1>2, LateEffect DEF PreparePc
<1>3. CASE OtherStep
  BY <1>3, OtherEffect
<1>4. CASE Verify
  BY <1>4, GotoEffect DEF Verify, DeployPc, PreparePc
<1>5. CASE ReadPrevious
  <2>1. /\ dep.pc = "previous" /\ dep'.pc \in {"env", "infra"}
        /\ dep'.installed = dep.installed /\ dep'.restored = dep.restored
    BY <1>5 DEF ReadPrevious, TypeOK, DeployRecord
  <2> QED
    BY <2>1 DEF PreparePc
<1>6. CASE InstallInfra
  <2>1. /\ dep.pc = "infra" /\ dep'.pc \in {"infra", "reload"}
        /\ dep'.restored = dep.restored
    BY <1>6 DEF InstallInfra, TypeOK, DeployRecord
  <2> QED
    BY <2>1 DEF PreparePc
<1>7. CASE ReloadInfra
  <2>1. dep'.pc = "env" /\ dep'.restored = dep'.installed
    BY <1>7 DEF ReloadInfra, TypeOK, DeployRecord
  <2> QED
    BY <2>1 DEF PreparePc
<1>8. CASE SwitchEnv \/ ComposeUp \/ SwitchCurrent \/ RestartDashboard
              \/ WriteState
  <2>1. /\ dep.pc \in {"env", "compose", "current", "dashboard", "write"}
        /\ dep'.pc \in {"compose", "current", "dashboard", "write", "prune"}
        /\ dep.pc = "write" => dep'.pc = "prune"
        /\ dep'.installed = dep.installed /\ dep'.restored = dep.restored
    BY <1>8, GotoEffect
       DEF SwitchEnv, ComposeUp, SwitchCurrent, RestartDashboard, WriteState,
           DeployPc, SwitchPc
  <2> QED
    BY <2>1 DEF PreparePc
<1>9. CASE SwitchFails
  BY <1>9, SwitchFailsEffect DEF PreparePc
<1>10. CASE RollbackInfra \/ RollbackEnv \/ RollbackCompose
               \/ RollbackCurrent \/ RollbackDashboard
  <2>1. dep'.pc \in RollbackPc \cup {"failed"}
    BY <1>10, GotoEffect
       DEF RollbackInfra, RollbackEnv, RollbackCompose, RollbackCurrent,
           RollbackDashboard, RollbackPc, DeployPc
  <2> QED
    BY <2>1 DEF PreparePc, RollbackPc
<1> QED
  BY <1>1, <1>2, <1>3, <1>4, <1>5, <1>6, <1>7, <1>8, <1>9, <1>10, StepCases

\* A rollback undoes what was switched, from the last thing to the first.
LEMMA WayBackStep ==
    ASSUME TypeOK, SwitchedSoFar, InstalledIsKnown, WayBack, [Next]_vars,
           TypeOK'
    PROVE  WayBack'
<1> USE DEF WayBack, InfraAt, AllAt
<1> SUFFICES ASSUME intact' PROVE WayBack'
  OBVIOUS
<1>1. CASE EarlyStep
  BY <1>1, EarlyEffect, EarlyPlace DEF PreparePc, SwitchPc, RollbackPc
<1>2. CASE LateStep
  BY <1>2, LateEffect DEF PreparePc, SwitchPc, RollbackPc
<1>3. CASE OtherStep
  BY <1>3, OtherEffect
<1>4. CASE Verify
  <2>1. /\ dep.pc = "verify" /\ dep'.pc = "previous"
        /\ UNCHANGED <<host, infra, state, intact>>
    BY <1>4, GotoEffect DEF Verify, DeployPc
  <2> QED
    BY <2>1 DEF PreparePc, SwitchPc, RollbackPc
<1>5. CASE ReadPrevious
  <2>1. /\ dep.pc = "previous" /\ dep'.pc \in {"env", "infra"}
        /\ UNCHANGED <<host, infra, state, intact>>
        /\ dep'.before = host /\ dep'.backups = infra
    BY <1>5 DEF ReadPrevious, TypeOK, DeployRecord
  <2> QED
    BY <2>1 DEF PreparePc, SwitchPc, RollbackPc
<1>6. CASE InstallInfra
  <2>1. PICK f \in dep.drift :
            /\ infra' = [infra EXCEPT ![f] = InfraOf[dep.target]]
            /\ dep' = [dep EXCEPT !.drift = @ \ {f},
                                  !.installed = @ \cup {f},
                                  !.pc = IF dep.drift = {f}
                                         THEN "reload" ELSE "infra"]
    BY <1>6 DEF InstallInfra
  <2>2. /\ dep.pc = "infra" /\ dep'.pc \in {"infra", "reload"}
        /\ UNCHANGED <<host, state, intact>>
        /\ dep'.before = dep.before /\ dep'.backups = dep.backups
        /\ dep'.installed = dep.installed \cup {f}
    BY <1>6, <2>1 DEF InstallInfra, TypeOK, DeployRecord
  <2>3. \A g \in InfraFiles \ {f} : infra'[g] = infra[g]
    BY <2>1 DEF TypeOK
  <2> QED
    BY <2>2, <2>3 DEF PreparePc, SwitchPc, RollbackPc
<1>7. CASE ReloadInfra
  <2>1. /\ dep.pc = "reload" /\ dep'.pc = "env"
        /\ UNCHANGED <<host, infra, state, intact>>
        /\ dep'.before = dep.before /\ dep'.backups = dep.backups
        /\ dep'.installed = dep.installed
    BY <1>7 DEF ReloadInfra, TypeOK, DeployRecord
  <2> QED
    BY <2>1 DEF PreparePc, SwitchPc, RollbackPc
<1>8. CASE SwitchEnv \/ ComposeUp \/ SwitchCurrent \/ RestartDashboard
  <2>1. /\ dep.pc \in {"env", "compose", "current", "dashboard"}
        /\ dep'.pc \in {"compose", "current", "dashboard", "write"}
        /\ UNCHANGED <<infra, state, intact>>
        /\ dep'.before = dep.before /\ dep'.backups = dep.backups
        /\ dep'.installed = dep.installed
    BY <1>8, GotoEffect
       DEF SwitchEnv, ComposeUp, SwitchCurrent, RestartDashboard, DeployPc,
           SwitchPc
  <2> QED
    BY <2>1 DEF PreparePc, SwitchPc, RollbackPc
<1>9. CASE WriteState
  <2>1. /\ dep.pc = "write" /\ dep'.pc = "prune"
        /\ UNCHANGED <<host, infra>> /\ state'.revision = dep.target
    BY <1>9, GotoEffect DEF WriteState, DeployPc
  <2> QED
    BY <2>1 DEF SwitchedSoFar, PreparePc, SwitchPc, RollbackPc
<1>10. CASE SwitchFails
  <2>1. /\ intact /\ dep.installed = dep.restored
        /\ UNCHANGED <<infra, state>>
        /\ dep.pc \in SwitchPc /\ dep'.pc = "rb_infra"
        /\ dep'.before = dep.before /\ dep'.backups = dep.backups
        /\ dep'.restored = dep.restored
    BY <1>10, SwitchFailsEffect
  <2> QED
    BY <2>1 DEF PreparePc, SwitchPc, RollbackPc
<1>11. CASE RollbackInfra
  <2>1. /\ dep.pc = "rb_infra" /\ dep'.pc = "rb_env"
        /\ UNCHANGED <<host, state, intact>>
        /\ dep'.before = dep.before /\ dep'.backups = dep.backups
    BY <1>11, GotoEffect DEF RollbackInfra, DeployPc, RollbackPc
  <2>2. \A f \in InfraFiles :
            infra'[f] = IF f \in dep.restored THEN dep.backups[f]
                        ELSE infra[f]
    BY <1>11 DEF RollbackInfra
  <2> QED
    BY <2>1, <2>2 DEF PreparePc, SwitchPc, RollbackPc
<1>12. CASE RollbackEnv
  <2>1. /\ dep.pc = "rb_env" /\ dep'.pc = "rb_compose"
        /\ UNCHANGED <<infra, state, intact>> /\ host'.env = dep.before.env
        /\ dep'.before = dep.before /\ dep'.backups = dep.backups
    BY <1>12, GotoEffect
       DEF RollbackEnv, DeployPc, RollbackPc, TypeOK, HostRecord
  <2> QED
    BY <2>1 DEF PreparePc, SwitchPc, RollbackPc
<1>13. CASE RollbackCompose
  <2>1. /\ dep.pc = "rb_compose" /\ dep'.pc = "rb_current"
        /\ UNCHANGED <<infra, state, intact>>
        /\ dep'.before = dep.before /\ dep'.backups = dep.backups
    BY <1>13, GotoEffect DEF RollbackCompose, DeployPc, RollbackPc
  <2>2. host'.containers = host.env /\ host'.env = host.env
    BY <1>13, RecreateTyped DEF RollbackCompose, TypeOK, HostRecord
  <2> QED
    BY <2>1, <2>2 DEF PreparePc, SwitchPc, RollbackPc
<1>14. CASE RollbackCurrent
  <2>1. /\ dep.pc = "rb_current" /\ dep'.pc = "rb_dashboard"
        /\ UNCHANGED <<infra, state, intact>>
        /\ dep'.before = dep.before /\ dep'.backups = dep.backups
        /\ host'.env = host.env /\ host'.containers = host.containers
        /\ host'.current = dep.before.current
    BY <1>14, GotoEffect
       DEF RollbackCurrent, DeployPc, RollbackPc, TypeOK, HostRecord
  <2> QED
    BY <2>1 DEF PreparePc, SwitchPc, RollbackPc
<1>15. CASE RollbackDashboard
  <2>1. /\ dep.pc = "rb_dashboard" /\ dep'.pc = "failed"
        /\ UNCHANGED <<infra, state, intact>>
        /\ host'.env = host.env /\ host'.containers = host.containers
        /\ host'.current = host.current /\ host'.dashboard = host.current
    BY <1>15, GotoEffect DEF RollbackDashboard, DeployPc, TypeOK, HostRecord
  <2> QED
    BY <2>1 DEF PreparePc, SwitchPc, RollbackPc
<1> QED
  BY <1>1, <1>2, <1>3, <1>4, <1>5, <1>6, <1>7, <1>8, <1>9, <1>10, <1>11,
     <1>12, <1>13, <1>14, <1>15, StepCases

\* A release goes only in Prune, which keeps the one the run put live and the
\* one that was live before.
LEMMA ReleaseStays ==
    ASSUME TypeOK, [Next]_vars, NEW r, InSeq(r, releases),
           dep.pc = "prune" => r = dep.target
    PROVE  InSeq(r, releases')
<1>1. CASE Plan
  <2>1. ASSUME NEW t \in Revisions, releases' = Export(t)
        PROVE  InSeq(r, releases')
    BY <2>1, ExportTyped
  <2>2. main \in Revisions /\ dep.opts.requested \in Revisions \cup {None}
    BY DEF TypeOK, DeployRecord, Options
  <2>3. Target \in Revisions
    BY <2>2 DEF Target
  <2> QED
    BY <1>1, <2>1, <2>3 DEF Plan
<1>5. CASE RunFails
  <2>1. Target \in Revisions
    BY DEF Target, TypeOK, DeployRecord, Options
  <2>2. releases' = releases \/ releases' = Export(Target)
    BY <1>5 DEF RunFails
  <2> QED
    BY <2>1, <2>2, ExportTyped
<1>2. CASE Build
  BY <1>2, TouchedTyped DEF Build, TypeOK, DeployRecord
<1>3. CASE Prune \/ (StepFails /\ releases' # releases)
  BY <1>3, PrunedTyped DEF Prune, StepFails
<1>4. CASE releases' = releases
  BY <1>4
<1> QED
  BY <1>1, <1>2, <1>3, <1>4, <1>5
     DEF Next, DeployStep, vars, TimerRun, AdminRun, DrainCheck, ClearMarker,
         Verify, ReadPrevious, InstallInfra, ReloadInfra, SwitchEnv,
         ComposeUp, SwitchCurrent, RestartDashboard, WriteState,
         RollbackInfra, RollbackEnv, RollbackCompose, RollbackCurrent,
         RollbackDashboard, RecordFailure, DrainCheckBlind, SwitchFails,
         RollbackFails, Killed, CheckDrain, BeginTest, EndTest, Merge

\* What is live, what a rollback would link and what the run puts live are
\* exported.
LEMMA ReleasesStep ==
    ASSUME TypeOK, SwitchedSoFar, ReleasesAreThere, [Next]_vars, TypeOK'
    PROVE  ReleasesAreThere'
<1> USE DEF ReleasesAreThere, LiveReleaseKept
<1>1. /\ InSeq(host.current, releases') /\ InSeq(host.dashboard, releases')
      /\ InSeq(state.revision, releases')
  BY ReleaseStays DEF SwitchedSoFar
<1>2. dep.pc \in SwitchPc \cup RollbackPc =>
          InSeq(dep.before.current, releases')
  BY ReleaseStays DEF SwitchPc, RollbackPc
<1>3. dep.pc \in PreparePc \cup SwitchPc \cup {"write", "prune"} =>
          InSeq(dep.target, releases')
  BY ReleaseStays
<1>4. CASE EarlyStep
  <2>1. /\ host' = host /\ state'.revision = state.revision
        /\ dep'.pc \in {"off", "plan", "drain", "clear", "build", "verify"}
    BY <1>4, EarlyEffect
  <2>2. dep'.pc \in PreparePc => InSeq(dep'.target, releases')
    BY <1>3, <1>4, EarlyTarget
  <2> QED
    BY <1>1, <2>1, <2>2 DEF PreparePc, SwitchPc, RollbackPc
<1>5. CASE LateStep
  BY <1>1, <1>5, LateEffect DEF PreparePc, SwitchPc, RollbackPc
<1>6. CASE OtherStep
  BY <1>6, OtherEffect
<1>7. CASE Verify
  <2>1. /\ dep.pc = "verify" /\ dep'.pc = "previous"
        /\ dep'.target = dep.target /\ UNCHANGED <<host, state>>
    BY <1>7, GotoEffect DEF Verify, DeployPc
  <2> QED
    BY <1>1, <1>3, <2>1 DEF PreparePc, SwitchPc, RollbackPc
<1>8. CASE ReadPrevious
  <2>1. /\ dep.pc = "previous" /\ dep'.pc \in {"env", "infra"}
        /\ dep'.target = dep.target /\ dep'.before = host
        /\ UNCHANGED <<host, state>>
    BY <1>8 DEF ReadPrevious, TypeOK, DeployRecord
  <2> QED
    BY <1>1, <1>3, <2>1 DEF PreparePc, SwitchPc, RollbackPc
<1>9. CASE InstallInfra \/ ReloadInfra
  <2>1. /\ dep.pc \in SwitchPc /\ dep'.pc \in SwitchPc
        /\ dep'.target = dep.target /\ dep'.before = dep.before
        /\ UNCHANGED <<host, state>>
    BY <1>9 DEF InstallInfra, ReloadInfra, TypeOK, DeployRecord, SwitchPc
  <2> QED
    BY <1>1, <1>2, <1>3, <2>1 DEF PreparePc, SwitchPc, RollbackPc
<1>10. CASE SwitchEnv \/ SwitchCurrent \/ RestartDashboard
  <2>1. /\ dep.pc \in SwitchPc /\ dep'.pc \in SwitchPc \cup {"write"}
        /\ dep'.target = dep.target /\ dep'.before = dep.before
        /\ state' = state
    BY <1>10, GotoEffect
       DEF SwitchEnv, SwitchCurrent, RestartDashboard, DeployPc, SwitchPc
  <2>2. /\ host'.current \in {host.current, dep.target}
        /\ host'.dashboard \in {host.dashboard, host.current}
    BY <1>10 DEF SwitchEnv, SwitchCurrent, RestartDashboard, TypeOK,
                 HostRecord
  <2> QED
    BY <1>1, <1>2, <1>3, <2>1, <2>2 DEF PreparePc, SwitchPc, RollbackPc
<1>11. CASE ComposeUp \/ RollbackCompose
  <2>1. /\ \/ dep.pc = "compose" /\ dep'.pc = "current"
           \/ dep.pc = "rb_compose" /\ dep'.pc = "rb_current"
        /\ dep'.target = dep.target /\ dep'.before = dep.before
        /\ state' = state
    BY <1>11, GotoEffect
       DEF ComposeUp, RollbackCompose, DeployPc, SwitchPc, RollbackPc
  <2>2. host'.current = host.current /\ host'.dashboard = host.dashboard
    BY <1>11, RecreateTyped DEF ComposeUp, RollbackCompose, TypeOK, HostRecord
  <2> QED
    BY <1>1, <1>2, <1>3, <2>1, <2>2 DEF PreparePc, SwitchPc, RollbackPc
<1>12. CASE WriteState
  <2>1. /\ dep.pc = "write" /\ dep'.pc = "prune"
        /\ dep'.target = dep.target /\ host' = host
        /\ state'.revision = dep.target
    BY <1>12, GotoEffect DEF WriteState, DeployPc
  <2> QED
    BY <1>1, <1>3, <2>1 DEF PreparePc, SwitchPc, RollbackPc
<1>13. CASE SwitchFails
  <2>1. /\ dep.pc \in SwitchPc /\ dep'.pc = "rb_infra" /\ state' = state
        /\ dep'.before = dep.before
        /\ host'.current = host.current
        /\ host'.dashboard \in {host.dashboard, host.current}
    BY <1>13, SwitchFailsEffect
  <2> QED
    BY <1>1, <1>2, <2>1 DEF PreparePc, SwitchPc, RollbackPc
<1>14. CASE RollbackInfra \/ RollbackEnv \/ RollbackCurrent
               \/ RollbackDashboard
  <2>1. /\ dep.pc \in RollbackPc /\ dep'.pc \in RollbackPc \cup {"failed"}
        /\ dep'.before = dep.before /\ state' = state
    BY <1>14, GotoEffect
       DEF RollbackInfra, RollbackEnv, RollbackCurrent, RollbackDashboard,
           DeployPc, RollbackPc
  <2>2. /\ host'.current \in {host.current, dep.before.current}
        /\ host'.dashboard \in {host.dashboard, host.current}
    BY <1>14 DEF RollbackInfra, RollbackEnv, RollbackCurrent,
                 RollbackDashboard, TypeOK, HostRecord
  <2> QED
    BY <1>1, <1>2, <2>1, <2>2 DEF PreparePc, SwitchPc, RollbackPc
<1> QED
  BY <1>4, <1>5, <1>6, <1>7, <1>8, <1>9, <1>10, <1>11, <1>12, <1>13, <1>14,
     StepCases

-----------------------------------------------------------------------------
(* The theorems *)

LEMMA InitInv == Init => DeployInv
<1> SUFFICES ASSUME Init PROVE DeployInv
  OBVIOUS
<1>1. TypeOK
  BY InitTyped
<1>2. dep.pc = "off" /\ dep.installed = {} /\ dep.restored = {}
  BY DEF Init, Off
<1>3. AllAt(host, 0) /\ InfraAt(0) /\ state.revision = 0 /\ verified = {0}
  BY RevisionsAssumption DEF Init, AllAt, InfraAt, Revisions
<1>4. InSeq(0, releases)
  BY DEF Init, InSeq
<1>5. VerifiedFirst
  BY <1>2, <1>3
     DEF VerifiedFirst, OnlyVerifiedIsLive, Live, AllAt, SwitchPc, RollbackPc
<1>6. SwitchedSoFar /\ InstalledIsKnown
  BY <1>2 DEF SwitchedSoFar, InstalledIsKnown, PreparePc
<1>7. WayBack
  BY <1>2, <1>3 DEF WayBack, PreparePc, SwitchPc, RollbackPc
<1>8. ReleasesAreThere
  BY <1>2, <1>3, <1>4
     DEF ReleasesAreThere, LiveReleaseKept, AllAt, PreparePc, SwitchPc,
         RollbackPc
<1> QED
  BY <1>1, <1>5, <1>6, <1>7, <1>8 DEF DeployInv

LEMMA NextInv ==
    ASSUME DeployInv, [Next]_vars
    PROVE  DeployInv'
<1>1. TypeOK'
  BY NextTyped DEF DeployInv
<1> QED
  BY <1>1, VerifiedStep, SwitchedStep, InstalledStep, WayBackStep,
     ReleasesStep DEF DeployInv

\* The invariant from which the theorems below follow.
THEOREM DeployInvariant == Spec => []DeployInv
<1>1. Init => DeployInv
  BY InitInv
<1>2. DeployInv /\ [Next]_vars => DeployInv'
  BY NextInv
<1> QED
  BY <1>1, <1>2, PTL DEF Spec

\* The host, deployed.json, the releases and the run keep their types.
THEOREM DeployTypeCorrect == Spec => []TypeOK
<1>1. DeployInv => TypeOK
  BY DEF DeployInv
<1> QED
  BY <1>1, DeployInvariant, PTL

\* Whatever fails or is killed, the host only ever runs revisions whose
\* licensed tests have passed.
THEOREM LiveIsVerified == Spec => []OnlyVerifiedIsLive
<1>1. DeployInv => OnlyVerifiedIsLive
  BY DEF DeployInv, VerifiedFirst
<1> QED
  BY <1>1, DeployInvariant, PTL

\* Between two runs the host is on the one revision that deployed.json names,
\* a failed switch that was rolled back included, and no release it links or
\* a rollback would link has been pruned.  The hosts that HostIsWhole names are
\* excluded: a run killed between its first switch and deployed.json, a failed
\* rollback, install_infra or write of deployed.json.
THEOREM HostIsLeftWhole == Spec => []HostStaysWhole
<1>1. DeployInv => HostIsWhole
  BY DEF DeployInv, WayBack, HostIsWhole, Live, AllAt, InfraAt
<1>2. DeployInv => LiveReleaseKept
  BY DEF DeployInv, ReleasesAreThere
<1>3. DeployInv => HostStaysWhole
  BY <1>1, <1>2 DEF HostStaysWhole
<1> QED
  BY <1>3, DeployInvariant, PTL

=============================================================================
