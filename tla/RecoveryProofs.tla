---------------------------- MODULE RecoveryProofs ----------------------------
(***************************************************************************)
(* Theorems about backups and restores: what CycleProofs shows of a        *)
(* mission stays true when an older snapshot takes its place, except for   *)
(* the reservations, which are bounded once per restored instance, and for *)
(* the scripts, whose history goes back with the snapshot.                 *)
(***************************************************************************)
EXTENDS CycleProofs, PinnedRecovery, FiniteSetTheorems, WellFoundedInduction

Names == {State, Script, Manifest} \cup {Artifact(digest) : digest \in Results}

Archives == [taken : BOOLEAN, snapshot : Snapshots, listed : Seq(Names), files : Seq(Names)]

RecoveryTypeOK == TypeOK /\ archive \in Archives /\ restores \in Nat

\* An archive is loadable and its ledger of cycles is intact.
ArchiveSound ==
  archive.taken => Verified(archive) /\ Counted(archive.snapshot)
                     /\ archive.snapshot.modelAttempts <= MaxCalls

-----------------------------------------------------------------------------
(* What Backup writes is what unpack asks for.                             *)

\* Induction in the form of minimal counterexamples, which needs no operator parameter.
LEMMA Least ==
  ASSUME NEW S \in SUBSET Nat, S # {}
  PROVE  \E m \in S : \A k \in S : m <= k
<1> DEFINE R == OpToRel(<, Nat)
<1>1. IsWellFoundedOn(R, Nat)
  BY NatLessThanWellFounded
<1>2. R = {pair \in Nat \X Nat : pair[1] < pair[2]}
  BY DEF OpToRel
<1> HIDE DEF R
<1>3. PICK x \in S : \A y \in S : <<y, x>> \notin R
  BY <1>1, WFMin
<1>4. \A y \in S : ~(y < x)
  BY <1>2, <1>3
<1> QED BY <1>4

\* The step of Backup's loop, from the entries it has written.
Adding(entries, digest) ==
  IF Artifact(digest) \in Range(entries) THEN entries ELSE Append(entries, Artifact(digest))

\* The loop is what its recursive definition says.
LEMMA AddedDef ==
  ASSUME NEW s \in Snapshots
  PROVE  \E f : /\ Added(s) = f[Len(s.artifacts)]
                /\ f[0] = <<State, Script>>
                /\ \A n \in 1..Len(s.artifacts) :
                     f[n] = Adding(f[n - 1], s.artifacts[n].digest)
<1> DEFINE L == Len(s.artifacts)
           next(prev, n) == IF Artifact(s.artifacts[n].digest) \in Range(prev) THEN prev
                            ELSE Append(prev, Artifact(s.artifacts[n].digest))
           added[n \in 0..L] == IF n = 0 THEN <<State, Script>> ELSE next(added[n - 1], n)
           Def(f, m) == f = [n \in 0..m |-> IF n = 0 THEN <<State, Script>>
                                             ELSE next(f[n - 1], n)]
<1>0. L \in Nat
  BY DEF Snapshots
<1>1. Added(s) = added[L]
  BY DEF Added
<1> HIDE DEF next, L
<1>2. \E f : Def(f, L)
  <2> DEFINE Bad == {m \in Nat : ~\E f : Def(f, m)}
  <2>1. SUFFICES ASSUME Bad # {} PROVE FALSE
    <3> HIDE DEF Def
    <3> QED BY <1>0
  <2>2. PICK m \in Bad : \A k \in Bad : m <= k
    <3> HIDE DEF Bad
    <3>1. Bad \in SUBSET Nat
      BY DEF Bad
    <3> QED BY <2>1, <3>1, Least
  <2>3. CASE m = 0
    <3>1. Def([n \in 0..0 |-> <<State, Script>>], 0)
      OBVIOUS
    <3> QED BY <2>3, <3>1
  <2>4. CASE m # 0
    <3>1. m - 1 \in Nat /\ m \in Nat /\ ~(m <= m - 1)
      BY <2>4
    <3>2. PICK g : Def(g, m - 1)
      BY <2>2, <3>1
    <3> DEFINE h == [n \in 0..m |-> IF n = m THEN next(g[m - 1], m) ELSE g[n]]
    <3>3. Def(h, m)
      <4>1. ASSUME NEW n \in 0..m
            PROVE  h[n] = IF n = 0 THEN <<State, Script>> ELSE next(h[n - 1], n)
        <5>1. n \in 0..m-1 => g[n] = IF n = 0 THEN <<State, Script>> ELSE next(g[n - 1], n)
          BY <3>1, <3>2
        <5>2. n \in 0..m-1 \/ n = m
          BY <3>1
        <5>3. n # 0 => n - 1 \in 0..m-1 /\ n - 1 # m /\ n - 1 \in 0..m
          BY <3>1
        <5> QED BY <3>1, <5>1, <5>2, <5>3
      <4> QED BY <4>1
    <3> QED BY <2>2, <3>3
  <2> QED BY <2>3, <2>4
<1>3. Def(added, L)
  BY <1>2
<1>4. ASSUME NEW f, Def(f, L)
      PROVE  /\ f[0] = <<State, Script>>
             /\ \A n \in 1..L : f[n] = next(f[n - 1], n)
  <2>1. 0 \in 0..L /\ \A n \in 1..L : n \in 0..L /\ n # 0
    BY <1>0
  <2> QED BY <1>4, <2>1
<1> HIDE DEF added, Def
<1>5. added[0] = <<State, Script>> /\ \A n \in 1..L : added[n] = next(added[n - 1], n)
  BY <1>3, <1>4
<1>6. \A n \in 1..Len(s.artifacts) : added[n] = Adding(added[n - 1], s.artifacts[n].digest)
  BY <1>5 DEF next, Adding, L
<1> QED BY <1>1, <1>5, <1>6 DEF L

\* What a sequence names after one more entry.
LEMMA OneMore ==
  ASSUME NEW entries \in Seq(Names), IsInjective(entries), NEW name \in Names,
         name \notin Range(entries)
  PROVE  /\ Append(entries, name) \in Seq(Names) /\ IsInjective(Append(entries, name))
         /\ Range(Append(entries, name)) = Range(entries) \cup {name}
         /\ Len(Append(entries, name)) = Len(entries) + 1
<1> DEFINE more == Append(entries, name)
           L == Len(entries)
<1>1. /\ more \in Seq(Names) /\ Len(more) = L + 1 /\ L \in Nat /\ more[L + 1] = name
      /\ \A k \in 1..L : more[k] = entries[k]
      /\ DOMAIN more = 1..L + 1 /\ DOMAIN entries = 1..L
  OBVIOUS
<1> HIDE DEF more, L
<1>2. 1..L + 1 = 1..L \cup {L + 1} /\ L + 1 \notin 1..L
  BY <1>1
<1>3. \A k \in 1..L : entries[k] # name
  BY <1>1 DEF Range
<1>4. IsInjective(more)
  BY <1>1, <1>2, <1>3 DEF IsInjective
<1>5. Range(more) = Range(entries) \cup {name}
  BY <1>1, <1>2 DEF Range
<1> QED BY <1>1, <1>4, <1>5 DEF more, L

\* The names of an archive are different from one another.
LEMMA NamesDiffer ==
  /\ State # Script /\ State # Manifest /\ Script # Manifest
  /\ \A d : Artifact(d) \notin {State, Script, Manifest}
  /\ \A d, e : Artifact(d) = Artifact(e) => d = e
BY DEF State, Script, Manifest, Artifact

\* Whatever results repeat, each artifact of the snapshot is added, and once.
LEMMA AddedNames ==
  ASSUME NEW s \in Snapshots
  PROVE  /\ Added(s) \in Seq(Names) /\ IsInjective(Added(s))
         /\ Range(Added(s)) =
              {State, Script} \cup {Artifact(digest) : digest \in Referenced(s)}
         /\ Referenced(s) \subseteq Results
<1> DEFINE L == Len(s.artifacts)
           D(n) == s.artifacts[n].digest
           Upto(n) == {State, Script} \cup {Artifact(D(k)) : k \in 1..n}
<1>1. /\ L \in Nat /\ DOMAIN s.artifacts = 1..L
      /\ \A n \in 1..L : D(n) \in Results
  <2> DEFINE Entries == [cycle : Nat, digest : Results]
  <2>1. s.artifacts \in Seq(Entries)
    BY DEF Snapshots
  <2>2. \A e \in Entries : e.digest \in Results
    OBVIOUS
  <2> HIDE DEF Entries
  <2>3. /\ Len(s.artifacts) \in Nat /\ DOMAIN s.artifacts = 1..Len(s.artifacts)
        /\ \A n \in 1..Len(s.artifacts) : s.artifacts[n] \in Entries
    BY <2>1
  <2> QED BY <2>2, <2>3
<1>2. PICK f : /\ Added(s) = f[L] /\ f[0] = <<State, Script>>
               /\ \A n \in 1..L : f[n] = Adding(f[n - 1], D(n))
  BY AddedDef
<1> HIDE DEF L, D
<1> DEFINE Good(n) == f[n] \in Seq(Names) /\ IsInjective(f[n]) /\ Range(f[n]) = Upto(n)
<1>3. Good(0)
  <2>1. <<State, Script>> \in Seq(Names) /\ DOMAIN <<State, Script>> = {1, 2}
    BY DEF Names
  <2>2. IsInjective(<<State, Script>>) /\ Range(<<State, Script>>) = {State, Script}
    BY <2>1, NamesDiffer DEF IsInjective, Range
  <2>3. Upto(0) = {State, Script}
    <3>1. 1..0 = {}
      OBVIOUS
    <3> QED BY <3>1
  <2> QED BY <1>2, <2>1, <2>2, <2>3
<1>4. ASSUME NEW n \in 1..L, Good(n - 1)
      PROVE  Good(n)
  <2>1. f[n] = Adding(f[n - 1], D(n))
    BY <1>2
  <2>2. Upto(n) = Upto(n - 1) \cup {Artifact(D(n))}
    <3>1. 1..n = 1..n - 1 \cup {n}
      BY <1>1
    <3> QED BY <3>1
  <2>3. Artifact(D(n)) \in Names
    BY <1>1 DEF Names
  <2> HIDE DEF Upto
  <2>4. CASE Artifact(D(n)) \in Range(f[n - 1])
    BY <1>4, <2>1, <2>2, <2>4 DEF Adding
  <2>5. CASE Artifact(D(n)) \notin Range(f[n - 1])
    BY <1>4, <2>1, <2>2, <2>3, <2>5, OneMore DEF Adding
  <2> QED BY <2>4, <2>5
<1>5. \A n \in 0..L : Good(n)
  <2> DEFINE Bad == {n \in 0..L : ~Good(n)}
  <2> HIDE DEF Good
  <2>1. SUFFICES ASSUME Bad # {} PROVE FALSE
    OBVIOUS
  <2>2. PICK m \in Bad : \A k \in Bad : m <= k
    <3>1. Bad \in SUBSET Nat
      BY <1>1
    <3> HIDE DEF Bad
    <3> QED BY <2>1, <3>1, Least
  <2>3. m # 0 /\ m \in 1..L
    BY <1>1, <1>3, <2>2
  <2>4. m - 1 \in 0..L /\ ~(m <= m - 1)
    BY <1>1, <2>3
  <2>5. Good(m - 1)
    BY <2>2, <2>4
  <2> QED BY <1>4, <2>2, <2>3, <2>5
<1>6. Good(L)
  <2>1. L \in 0..L
    BY <1>1
  <2> HIDE DEF Good
  <2> QED BY <1>5, <2>1
<1>7. Referenced(s) = {D(k) : k \in 1..L}
  BY <1>1 DEF Referenced, D
<1>8. {Artifact(digest) : digest \in Referenced(s)} = {Artifact(D(k)) : k \in 1..L}
  BY <1>7
<1> QED BY <1>1, <1>2, <1>6, <1>7, <1>8

\* As many entries as names.
LEMMA NamesCounted ==
  ASSUME NEW entries \in Seq(Names), IsInjective(entries)
  PROVE  Cardinality(Range(entries)) = Len(entries)
<1>1. DOMAIN entries = 1..Len(entries) /\ Len(entries) \in Nat
  OBVIOUS
<1>2. entries \in [1..Len(entries) -> Range(entries)]
  BY <1>1 DEF Range
<1>3. entries \in Injection(1..Len(entries), Range(entries))
  BY <1>2 DEF Injection
<1>4. entries \in Surjection(1..Len(entries), Range(entries))
  BY <1>1, <1>2 DEF Surjection, Range
<1>5. ExistsBijection(1..Len(entries), Range(entries))
  BY <1>3, <1>4 DEF ExistsBijection, Bijection
<1> QED BY <1>1, <1>5, FS_CountingElements

\* The reader accepts what the writer has written, if the writer has.
LEMMA WrittenIsVerified ==
  ASSUME NEW s \in Snapshots, ValidActions(s), Len(Added(s)) < MaxEntries
  PROVE  Bundled(s) \in Archives /\ Verified(Bundled(s))
<1> DEFINE entries == Added(s)
           all == Append(Added(s), Manifest)
           a == Bundled(s)
<1>1. /\ entries \in Seq(Names) /\ IsInjective(entries) /\ Referenced(s) \subseteq Results
      /\ Range(entries) =
           {State, Script} \cup {Artifact(digest) : digest \in Referenced(s)}
  BY AddedNames
<1>2. Manifest \in Names /\ Manifest \notin Range(entries)
  BY <1>1, NamesDiffer DEF Names
<1>3. /\ all \in Seq(Names) /\ IsInjective(all) /\ Len(all) = Len(entries) + 1
      /\ Range(all) = Range(entries) \cup {Manifest}
  <2> HIDE DEF entries
  <2> QED BY <1>1, <1>2, OneMore DEF entries
<1>4. /\ a.taken = TRUE /\ a.snapshot = s /\ a.listed = entries /\ a.files = all
      /\ a = [taken |-> TRUE, snapshot |-> s, listed |-> entries, files |-> all]
  BY DEF Bundled
<1>5. Range(all) \ {Manifest} = Range(entries)
  BY <1>2, <1>3
<1>6. Len(all) <= MaxEntries
  <2>1. Len(entries) \in Nat /\ MaxEntries \in Nat
    BY <1>1, RecoveryAssumption
  <2> QED BY <1>3, <2>1
<1>7. Len(entries) = Cardinality(Range(entries))
  BY <1>1, NamesCounted
<1>8. \A digest : Artifact(digest) \in Range(entries) <=> digest \in Referenced(s)
  BY <1>1, NamesDiffer
<1> HIDE DEF entries, all, a
<1>9. a \in Archives
  BY <1>1, <1>3, <1>4 DEF Archives
<1>10. Verified(a)
  BY <1>1, <1>3, <1>4, <1>5, <1>6, <1>7, <1>8 DEF Verified
<1> QED BY <1>9, <1>10 DEF a

-----------------------------------------------------------------------------
(* What a restored snapshot is.                                            *)

\* Restoring changes the statuses and the recovery flag, and nothing that was counted.
LEMMA RestoredFields ==
  ASSUME NEW s \in Snapshots
  PROVE  LET t == Restored(s) IN
         /\ t \in Snapshots /\ t.recovery = "review" /\ t.status # "active"
         /\ t.status = IF s.status = "active" THEN "paused" ELSE s.status
         /\ t.completed = s.completed /\ t.pending = s.pending
         /\ t.artifacts = s.artifacts /\ t.modelAttempts = s.modelAttempts
         /\ DOMAIN t.actions = DOMAIN s.actions /\ Len(t.actions) = Len(s.actions)
         /\ \A i \in DOMAIN s.actions :
              t.actions[i] = IF s.actions[i].status \in Unconfirmed
                             THEN [s.actions[i] EXCEPT !.status = "unknown"]
                             ELSE s.actions[i]
<1> DEFINE status == IF s.status = "active" THEN "paused" ELSE s.status
           actions == [i \in DOMAIN s.actions |->
                         IF s.actions[i].status \in Unconfirmed
                         THEN [s.actions[i] EXCEPT !.status = "unknown"]
                         ELSE s.actions[i]]
<1>1. Restored(s) = [s EXCEPT !.status = status, !.recovery = "review",
                              !.actions = actions]
  BY DEF Restored
<1>2. status \in Statuses /\ status # "active"
  BY DEF Snapshots, Statuses
<1>3. s.actions \in Seq(Intents)
  BY DEF Snapshots
<1>4. \A a \in Intents : [a EXCEPT !.status = "unknown"] \in Intents
  BY DEF Intents, ActionStatuses, Authorised
<1>5. /\ DOMAIN actions = DOMAIN s.actions
      /\ \A i \in DOMAIN s.actions : actions[i] \in Intents
  BY <1>3, <1>4
<1>6. actions \in Seq(Intents) /\ Len(actions) = Len(s.actions)
  <2>1. DOMAIN s.actions = 1..Len(s.actions) /\ Len(s.actions) \in Nat
    BY <1>3
  <2> HIDE DEF actions
  <2>2. actions = [i \in 1..Len(s.actions) |-> actions[i]]
    BY <2>1 DEF actions
  <2> QED BY <1>5, <2>1, <2>2
<1>7. \A i \in DOMAIN s.actions :
        actions[i] = IF s.actions[i].status \in Unconfirmed
                     THEN [s.actions[i] EXCEPT !.status = "unknown"]
                     ELSE s.actions[i]
  OBVIOUS
<1> HIDE DEF actions
<1>8. LET t == Restored(s) IN
      /\ t \in Snapshots /\ t.recovery = "review" /\ t.status = status
      /\ t.actions = actions /\ t.completed = s.completed /\ t.pending = s.pending
      /\ t.artifacts = s.artifacts /\ t.modelAttempts = s.modelAttempts
  <2> HIDE DEF status
  <2> QED BY <1>1, <1>2, <1>6 DEF Snapshots
<1> QED BY <1>2, <1>5, <1>6, <1>7, <1>8

\* What a restored action is.
LEMMA RestoredActions ==
  ASSUME NEW s \in Snapshots, NEW i \in DOMAIN s.actions
  PROVE  LET a == s.actions[i]
             b == Restored(s).actions[i]
         IN  /\ b.status = IF a.status \in Unconfirmed THEN "unknown" ELSE a.status
             /\ b.attempts = a.attempts /\ b.checks = a.checks
             /\ b.approved = a.approved /\ b.receipt = a.receipt
             /\ a \in Intents
<1>1. s.actions[i] \in Intents
  BY DEF Snapshots
<1>2. Restored(s).actions[i] = IF s.actions[i].status \in Unconfirmed
                               THEN [s.actions[i] EXCEPT !.status = "unknown"]
                               ELSE s.actions[i]
  BY RestoredFields
<1> QED BY <1>1, <1>2 DEF Intents

\* A restored queue is loadable.
LEMMA RestoredLoadable ==
  ASSUME NEW s \in Snapshots, ValidActions(s)
  PROVE  ValidActions(Restored(s))
<1> DEFINE t == Restored(s)
<1>1. /\ DOMAIN t.actions = DOMAIN s.actions /\ Len(t.actions) = Len(s.actions)
  BY RestoredFields
<1>2. ASSUME NEW i \in DOMAIN s.actions
      PROVE  ValidAction(t.actions[i])
  <2> DEFINE a == s.actions[i]
             b == t.actions[i]
  <2>1. /\ b.status = IF a.status \in Unconfirmed THEN "unknown" ELSE a.status
        /\ b.attempts = a.attempts /\ b.checks = a.checks
        /\ b.approved = a.approved /\ b.receipt = a.receipt /\ a \in Intents
    BY RestoredActions
  <2>2. ValidAction(a)
    BY DEF ValidActions, ValidAction
  <2> HIDE DEF a, b
  <2>3. CASE a.status \in Unconfirmed
    <3>1. a.approved /\ a.receipt = FALSE
      BY <2>1, <2>2, <2>3 DEF Unconfirmed, ValidAction, Authorised, Intents
    <3>2. b.approved /\ b.receipt = FALSE /\ (b.status = "succeeded") = FALSE
      BY <2>1, <2>3, <3>1
    <3> QED BY <2>1, <2>2, <3>2 DEF ValidAction, b
  <2>4. CASE a.status \notin Unconfirmed
    BY <2>1, <2>2, <2>4 DEF ValidAction, b
  <2> QED BY <2>3, <2>4
<1> QED BY <1>1, <1>2 DEF ValidActions, ValidAction

-----------------------------------------------------------------------------
(* Type correctness.                                                       *)

\* The mission has no backup at first.
LEMMA RecoveryTypeInit == RecoveryInit => RecoveryTypeOK
<1>1. Fresh \in Snapshots /\ <<>> \in Seq(Names)
  BY DEF Fresh, Snapshots, Statuses
<1> QED BY <1>1, TypeInit DEF RecoveryInit, RecoveryTypeOK, NoArchive, Archives

\* The steps of Recovery: a step of the mission, or one of the three commands.
LEMMA RecoverySteps ==
  ASSUME [RecoveryNext]_recoveryVars
  PROVE  \/ [Next]_vars /\ UNCHANGED backupVars
         \/ Backup \/ Restore \/ Recover
BY DEF RecoveryNext, recoveryVars, MissionStep, vars

\* recover changes the flag alone.
LEMMA RecoverFields ==
  ASSUME TypeOK, Recover
  PROVE  /\ disk' \in Snapshots /\ st' = disk' /\ proc = "none"
         /\ disk'.status = disk.status /\ disk'.completed = disk.completed
         /\ disk'.pending = disk.pending /\ disk'.artifacts = disk.artifacts
         /\ disk'.actions = disk.actions /\ disk'.modelAttempts = disk.modelAttempts
         /\ RecoveryReady(disk) => RecoveryReady(disk')
BY DEF Recover, TypeOK, Snapshots, RecoveryReady

\* Every step keeps the types.
LEMMA RecoveryTypeNext ==
  RecoveryTypeOK /\ [RecoveryNext]_recoveryVars => RecoveryTypeOK'
<1> SUFFICES ASSUME RecoveryTypeOK, [RecoveryNext]_recoveryVars PROVE RecoveryTypeOK'
  OBVIOUS
<1> USE DEF RecoveryTypeOK
<1>1. CASE [Next]_vars /\ UNCHANGED backupVars
  BY <1>1, TypeNext DEF backupVars
<1>2. CASE Backup
  <2>1. TypeOK'
    BY <1>2 DEF Backup, vars, TypeOK
  <2>2. disk \in Snapshots /\ ValidActions(disk) /\ Len(Added(disk)) < MaxEntries
    BY <1>2 DEF Backup, TypeOK
  <2> QED BY <1>2, <2>1, <2>2, WrittenIsVerified DEF Backup
<1>3. CASE Restore
  <2>1. disk' \in Snapshots /\ st' = disk'
    BY <1>3, RestoredFields DEF Restore, Archives
  <2>2. files' \subseteq Results /\ archive' = archive /\ restores' \in Nat
    BY <1>3 DEF Restore, Archives
  <2>3. /\ sent' \in [Indexes -> Nat] /\ remote' \subseteq Indexes
        /\ licensed' \subseteq Indexes
    BY <1>3 DEF Restore, TypeOK
  <2> QED BY <1>3, <2>1, <2>2, <2>3 DEF Restore, TypeOK
<1>4. CASE Recover
  BY <1>4, RecoverFields DEF Recover, TypeOK, network, backupVars
<1> QED BY <1>1, <1>2, <1>3, <1>4, RecoverySteps

-----------------------------------------------------------------------------
(* What the budgets have carried over from the instances before.           *)

\* Calls and requests of this instance, over those of the ones before.
Carried(calledBefore, sentBefore) ==
  /\ disk.modelAttempts <= MaxCalls /\ calls <= calledBefore + disk.modelAttempts
  /\ \A i \in Indexes :
       sent[i] <= sentBefore + IF i \in DOMAIN disk.actions
                               THEN disk.actions[i].attempts ELSE 0
  /\ job.kind = "action" /\ job.write /\ job.phase \in {"get", "send"} =>
       sent[job.index] < sentBefore + disk.actions[job.index].attempts

Carry == Carried(MaxCalls * restores, MaxAttempts * restores)

\* Within one instance, what is spent is reserved first.
LEMMA CarriedNext ==
  ASSUME TypeOK, TypeOK', Durability, Together, CycleInHand, ActionInHand,
         NEW c \in Nat, NEW m \in Nat, Carried(c, m), [Next]_vars
  PROVE  Carried(c, m)'
<1> DEFINE Kept(i) == IF i \in DOMAIN disk.actions THEN disk.actions[i].attempts ELSE 0
           Job == job.kind = "action" /\ job.write /\ job.phase \in {"get", "send"} =>
                    sent[job.index] < m + disk.actions[job.index].attempts
<1>a. /\ disk.modelAttempts \in Nat /\ disk.modelAttempts <= MaxCalls
      /\ calls \in Nat /\ calls <= c + disk.modelAttempts
      /\ \A i \in Indexes : sent[i] \in Nat /\ sent[i] <= m + Kept(i)
      /\ Job /\ disk.actions \in Seq(Intents) /\ MaxCalls \in Nat
  BY SnapshotAssumption DEF TypeOK, Snapshots, Carried
<1>b. \A i \in DOMAIN disk.actions : disk.actions[i] \in Intents /\ Kept(i) \in Nat
  <2>1. \A i \in DOMAIN disk.actions : disk.actions[i] \in Intents
    BY <1>a
  <2> QED BY <2>1 DEF Intents
<1>1. disk'.modelAttempts <= MaxCalls /\ calls' <= c + disk'.modelAttempts
  BY <1>a, BudgetSteps
<1>c. \A i \in DOMAIN disk.actions : i \in DOMAIN disk'.actions /\ Kept(i) <= Kept(i)'
  <2>1. CASE disk'.actions = disk.actions
    BY <1>b, <2>1
  <2>2. CASE Proposes
    <3>1. disk'.actions = Append(disk.actions, NewIntent)
      BY <2>2 DEF Proposes
    <3>2. \A i \in DOMAIN disk.actions :
            i \in DOMAIN disk'.actions /\ disk'.actions[i] = disk.actions[i]
      BY <1>a, <3>1
    <3> QED BY <1>b, <3>2
  <2>3. ASSUME NEW i \in DOMAIN disk.actions, NEW b \in Intents, Replaces(i, b)
        PROVE  \A j \in DOMAIN disk.actions :
                 j \in DOMAIN disk'.actions /\ Kept(j) <= Kept(j)'
    <3> DEFINE a == disk.actions[i]
    <3>1. /\ DOMAIN disk'.actions = DOMAIN disk.actions
          /\ \A j \in DOMAIN disk.actions :
               disk'.actions[j] = IF j = i THEN b ELSE disk.actions[j]
      BY <2>3 DEF Replaces
    <3>2. a.attempts <= b.attempts
      <4>0. a \in Intents /\ a.attempts \in Nat
        BY <1>b
      <4>1. CASE Decides(i, b)
        BY <4>0, <4>1, IntentFields DEF Decides
      <4>2. CASE Starts(i, b)
        <5>1. PICK readOnly \in BOOLEAN : b = InFlight(a, AllowWrite(a, readOnly))
          BY <4>2 DEF Starts
        <5>2. AllowWrite(a, readOnly) \in BOOLEAN
          BY DEF AllowWrite
        <5>3. b.attempts \in {a.attempts, a.attempts + 1}
          BY <4>0, <5>1, <5>2, IntentFields
        <5> QED BY <4>0, <5>3
      <4>3. CASE Settles(i, b)
        <5>1. job.answer \in Answers
          BY DEF TypeOK, Jobs, Answers
        <5> QED BY <4>0, <4>3, <5>1, IntentFields DEF Settles
      <4> QED BY <2>3, <4>1, <4>2, <4>3 DEF Replaces
    <3> HIDE DEF a
    <3> QED BY <1>b, <3>1, <3>2 DEF a
  <2> QED BY <2>1, <2>2, <2>3, QueueSteps
<1>d. \A i \in Indexes : Kept(i)' \in Nat
  <2>1. disk'.actions \in Seq(Intents)
    BY DEF TypeOK, Snapshots
  <2>2. \A i \in DOMAIN disk'.actions : disk'.actions[i] \in Intents
    BY <2>1
  <2> QED BY <2>2 DEF Intents
<1>2. ASSUME NEW i \in Indexes PROVE sent'[i] <= m + Kept(i)'
  <2>1. CASE sent' = sent
    <3>1. CASE i \in DOMAIN disk.actions
      <4>1. Kept(i) \in Nat /\ Kept(i)' \in Nat /\ Kept(i) <= Kept(i)'
        BY <1>b, <1>c, <1>d, <3>1
      <4> HIDE DEF Kept
      <4> QED BY <1>a, <2>1, <4>1
    <3>2. CASE i \notin DOMAIN disk.actions
      <4>1. sent[i] <= m /\ Kept(i)' \in Nat
        BY <1>a, <1>d, <3>2
      <4> HIDE DEF Kept
      <4> QED BY <1>a, <2>1, <4>1
    <3> QED BY <3>1, <3>2
  <2>2. CASE SendPut
    <3>1. /\ disk' = disk /\ sent' = [sent EXCEPT ![job.index] = @ + 1]
          /\ job.kind = "action" /\ job.phase = "send"
      BY <2>2 DEF SendPut
    <3>2. /\ job.index \in DOMAIN disk.actions /\ job.index \in Indexes
          /\ sent[job.index] < m + disk.actions[job.index].attempts
      BY <1>a, <3>1 DEF ActionInHand
    <3>3. sent'[i] = IF i = job.index THEN sent[i] + 1 ELSE sent[i]
      BY <3>1 DEF TypeOK
    <3>4. Kept(i)' = Kept(i) /\ Kept(job.index) = disk.actions[job.index].attempts
          /\ Kept(job.index) \in Nat
      BY <1>b, <3>1, <3>2
    <3> HIDE DEF Kept
    <3> QED BY <1>a, <3>2, <3>3, <3>4
  <2> QED BY <2>1, <2>2, OnlySendPut
<1>3. Job'
  <2>1. CASE ~Running'
    BY <2>1 DEF Running
  <2>2. CASE LaunchesCycle
    BY <2>2 DEF LaunchesCycle, CycleJob, Idle
  <2>3. ASSUME NEW i \in Indexes, NEW readOnly \in BOOLEAN, LaunchesAction(i, readOnly)
        PROVE  Job'
    <3> DEFINE write == AllowWrite(disk.actions[i], readOnly)
               b == InFlight(disk.actions[i], write)
    <3>1. /\ i \in DOMAIN disk.actions /\ b \in Intents
          /\ job' = ActionJob(i, write) /\ disk' = WithAction(disk, i, b)
      BY <2>3 DEF LaunchesAction
    <3>2. /\ job'.index = i /\ job'.write = write /\ job'.phase = "get"
      BY <3>1 DEF ActionJob
    <3>3. /\ disk.actions[i] \in Intents /\ write \in BOOLEAN
          /\ disk.actions[i].attempts = Kept(i) /\ Kept(i) \in Nat
      BY <1>b, <3>1 DEF AllowWrite
    <3>4. write => b.attempts = Kept(i) + 1
      <4> HIDE DEF write
      <4>1. b.attempts = IF write THEN disk.actions[i].attempts + 1
                                  ELSE disk.actions[i].attempts
        BY <3>3, IntentFields
      <4> QED BY <3>3, <4>1
    <3>5. disk'.actions[i] = b
      <4> HIDE DEF b
      <4>1. disk'.actions = [disk.actions EXCEPT ![i] = b]
        BY <3>1, WithActionType DEF TypeOK
      <4> QED BY <3>1, <4>1
    <3>6. sent' = sent
      <4>1. ~SendPut
        BY <3>2, AdapterSteps DEF WriteAdapter
      <4> QED BY <4>1, OnlySendPut
    <3> HIDE DEF Kept, write, b
    <3> QED BY <1>a, <3>2, <3>3, <3>4, <3>5, <3>6
  <2>4. CASE WriteAdapter
    <3>1. /\ job'.index = job.index /\ job'.write = job.write /\ disk' = disk
          /\ job.kind = "action"
          /\ (job'.phase = "send" /\ job.phase = "get") \/ job'.phase \in {"put", "done"}
      BY <2>4, AdapterSteps
    <3>2. job'.phase = "send" => sent' = sent
      BY <3>1, OnlySendPut DEF SendPut
    <3> QED BY <1>a, <3>1, <3>2
  <2>5. CASE KeepsJob
    <3>1. job' = job /\ disk'.actions = disk.actions
      BY <2>5, KeepsJobDisk DEF KeepsJob
    <3>2. sent' = sent
      <4>1. SendPut => job'.phase # job.phase
        BY AdapterSteps DEF SendPut, WriteAdapter
      <4> QED BY <3>1, <4>1, OnlySendPut
    <3> QED BY <1>a, <3>1, <3>2
  <2> QED BY <2>1, <2>2, <2>3, <2>4, <2>5, JobSteps
<1> QED BY <1>1, <1>2, <1>3 DEF Carried

-----------------------------------------------------------------------------
(* The invariant of a mission that is backed up and restored.              *)

RInv == /\ RecoveryTypeOK /\ ArchiveSound /\ Carry
        /\ Durability /\ InHand /\ Licence /\ Counted(disk) /\ DiskLoadable

\* No restore has happened, and nothing is spent.
LEMMA RInvInit == RecoveryInit => RInv
<1> SUFFICES ASSUME RecoveryInit PROVE RInv
  OBVIOUS
<1>1. Init /\ archive = NoArchive /\ restores = 0
  BY DEF RecoveryInit
<1>2. TypeOK /\ CInv
  BY <1>1, CInvInit
<1>3. ArchiveSound
  BY <1>1 DEF ArchiveSound, NoArchive
<1>4. Carry
  BY <1>1, SnapshotAssumption DEF Init, Carry, Carried, Fresh, Idle
<1> QED BY <1>2, <1>3, <1>4, RecoveryTypeInit DEF RInv, CInv

\* A step of the mission keeps the invariant.
LEMMA RInvMission ==
  ASSUME RInv, [Next]_vars, UNCHANGED backupVars
  PROVE  RInv'
<1>0. /\ TypeOK /\ Durability /\ Together /\ ActiveReady /\ CycleInHand /\ ActionInHand
      /\ Licence /\ Counted(disk) /\ DiskLoadable /\ RecoveryTypeOK
  BY DEF RInv, InHand, RecoveryTypeOK
<1>1. TypeOK' /\ Durability'
  BY <1>0, TypeNext, DurabilityNext
<1>2. InHand' /\ Licence' /\ Counted(disk') /\ DiskLoadable'
  BY <1>0, <1>1, TogetherNext, ActiveReadyNext, CycleInHandNext, ActionInHandNext,
     LicenceNext, CountedNext, LoadableNext
  DEF InHand
<1>3. RecoveryTypeOK'
  BY <1>0, <1>1 DEF RecoveryTypeOK, backupVars
<1>4. ArchiveSound'
  BY DEF RInv, ArchiveSound, backupVars
<1>5. Carry'
  <2> SUFFICES ASSUME NEW c, NEW m, c = MaxCalls * restores, m = MaxAttempts * restores
               PROVE  Carry'
    OBVIOUS
  <2>1. c \in Nat /\ m \in Nat
    BY <1>0, SnapshotAssumption DEF RecoveryTypeOK
  <2>2. Carried(c, m)
    BY DEF RInv, Carry
  <2>3. Carried(c, m)'
    BY <1>0, <1>1, <2>1, <2>2, CarriedNext
  <2>4. restores' = restores
    BY DEF backupVars
  <2> QED BY <2>3, <2>4 DEF Carry, Carried
<1> QED BY <1>1, <1>2, <1>3, <1>4, <1>5 DEF RInv

\* A backup of a sound mission is sound.
LEMMA RInvBackup ==
  ASSUME RInv, Backup
  PROVE  RInv'
<1>1. UNCHANGED <<vars, restores>> /\ archive' = Bundled(disk) /\ ValidActions(disk)
  BY DEF Backup
<1>2. /\ UNCHANGED <<proc, st, disk, files, fatal, epoch, stopping, job, sent, remote,
                     calls, interrupted, saveFailed, licensed, restores>>
  BY <1>1 DEF vars
<1>3. archive'.taken /\ archive'.snapshot = disk
  BY <1>1 DEF Bundled
<1>4. ArchiveSound'
  <2>1. disk \in Snapshots /\ Len(Added(disk)) < MaxEntries
    BY DEF Backup, RInv, RecoveryTypeOK, TypeOK
  <2>2. Verified(archive')
    BY <1>1, <2>1, WrittenIsVerified
  <2>3. Counted(disk) /\ disk.modelAttempts <= MaxCalls
    BY DEF RInv, Carry, Carried
  <2>4. Verified(archive)'
    BY <2>2 DEF Verified
  <2> QED BY <1>3, <2>3, <2>4 DEF ArchiveSound
<1>5. RecoveryTypeOK'
  BY RecoveryTypeNext DEF RInv, RecoveryNext
<1>6. Durability' /\ InHand' /\ Licence' /\ Counted(disk') /\ DiskLoadable' /\ Carry'
  BY <1>2 DEF RInv, Durability, NoProcess, NoUnsavedState, RunningSaved, Running, InHand,
     Together, ActiveReady, CycleInHand, ActionInHand, Licence, DiskLoadable, Carry, Carried
<1> QED BY <1>4, <1>5, <1>6 DEF RInv

\* Restoring rewinds the reservations by at most one budget, and spends every licence.
LEMMA RInvRestore ==
  ASSUME RInv, Restore
  PROVE  RInv'
<1> DEFINE s == archive.snapshot
           t == Restored(archive.snapshot)
<1>0. /\ proc = "none" /\ archive.taken /\ disk' = t /\ st' = disk'
      /\ UNCHANGED <<proc, fatal, epoch, stopping, job, calls, archive>>
      /\ licensed' = {} /\ restores' = restores + 1
  BY DEF Restore
<1>a. s \in Snapshots /\ restores \in Nat /\ ~fatal /\ ~Running
  BY <1>0 DEF RInv, RecoveryTypeOK, Archives, Durability, NoProcess
<1>b. Verified(archive) /\ Counted(s) /\ s.modelAttempts <= MaxCalls
  BY <1>0 DEF RInv, ArchiveSound
<1>1. RecoveryTypeOK'
  BY RecoveryTypeNext DEF RInv, RecoveryNext
<1>2. ArchiveSound'
  BY <1>0 DEF RInv, ArchiveSound
<1>3. Durability' /\ ~Running'
  BY <1>0, <1>a DEF Durability, NoProcess, NoUnsavedState, RunningSaved, Running
<1>4. InHand'
  <2>1. disk'.status # "active" /\ st'.status # "active"
    BY <1>0, <1>a, RestoredFields
  <2> QED BY <1>3, <2>1
          DEF InHand, Together, ActiveReady, CycleInHand, ActionInHand, Running
<1>5. DiskLoadable'
  <2>1. ValidActions(archive.snapshot)
    BY <1>b DEF Verified
  <2> QED BY <1>0, <1>a, <2>1, RestoredLoadable DEF DiskLoadable
<1>6. Counted(disk')
  <2>1. /\ t.completed = s.completed /\ t.pending = s.pending /\ t.artifacts = s.artifacts
        /\ t.status = IF s.status = "active" THEN "paused" ELSE s.status
    BY <1>a, RestoredFields
  <2> HIDE DEF s, t
  <2> QED BY <1>0, <1>b, <2>1 DEF Counted
<1>7. Licence'
  <2>1. \A i \in DOMAIN t.actions : t.actions[i].status # "approved"
    BY <1>a, RestoredFields, RestoredActions DEF Unconfirmed
  <2> QED BY <1>0, <1>3, <2>1 DEF Licence, Running
<1>8. Carry'
  <2> SUFFICES ASSUME NEW c, NEW m, c = MaxCalls * restores, m = MaxAttempts * restores
               PROVE  Carry'
    OBVIOUS
  <2>1. /\ c \in Nat /\ m \in Nat
        /\ MaxCalls * (restores + 1) = c + MaxCalls
        /\ MaxAttempts * (restores + 1) = m + MaxAttempts
    BY <1>a, SnapshotAssumption
  <2>2. Carried(c, m) /\ MaxCalls \in Nat /\ MaxAttempts \in Nat
    BY SnapshotAssumption DEF RInv, Carry
  <2>3. disk'.modelAttempts \in Nat /\ disk'.modelAttempts <= MaxCalls
    BY <1>0, <1>a, <1>b, RestoredFields DEF Snapshots
  <2>4. calls' <= (c + MaxCalls) + disk'.modelAttempts
    <3>1. /\ calls \in Nat /\ disk.modelAttempts \in Nat
          /\ calls <= c + disk.modelAttempts /\ disk.modelAttempts <= MaxCalls
      BY <2>2 DEF RInv, RecoveryTypeOK, TypeOK, Snapshots, Carried
    <3> QED BY <1>0, <2>1, <2>2, <2>3, <3>1
  <2>5. ASSUME NEW i \in Indexes
        PROVE  sent'[i] <= (m + MaxAttempts) + IF i \in DOMAIN disk'.actions
                                               THEN disk'.actions[i].attempts ELSE 0
    <3>1. sent'[i] = IF i \in DOMAIN disk'.actions THEN sent[i] ELSE 0
      BY DEF Restore
    <3>2. sent[i] <= m + MaxAttempts
      <4>1. sent[i] \in Nat /\ disk.actions \in Seq(Intents)
        BY DEF RInv, RecoveryTypeOK, TypeOK, Snapshots
      <4>2. CASE i \in DOMAIN disk.actions
        <5>1. disk.actions[i] \in Intents
          BY <4>1, <4>2
        <5>2. disk.actions[i].attempts \in Nat /\ disk.actions[i].attempts <= MaxAttempts
          BY <4>2, <5>1 DEF Intents, RInv, DiskLoadable, ValidActions
        <5> QED BY <2>1, <2>2, <4>1, <4>2, <5>2 DEF Carried
      <4>3. CASE i \notin DOMAIN disk.actions
        BY <2>1, <2>2, <4>1, <4>3 DEF Carried
      <4> QED BY <4>2, <4>3
    <3>3. i \in DOMAIN disk'.actions => disk'.actions[i].attempts \in Nat
      <4>1. i \in DOMAIN disk'.actions => disk'.actions[i] \in Intents
        BY <1>1 DEF RecoveryTypeOK, TypeOK, Snapshots
      <4> QED BY <4>1 DEF Intents
    <3>4. sent[i] \in Nat
      BY DEF RInv, RecoveryTypeOK, TypeOK
    <3> QED BY <2>1, <2>2, <3>1, <3>2, <3>3, <3>4
  <2>6. Carried(c + MaxCalls, m + MaxAttempts)'
    BY <1>3, <2>3, <2>4, <2>5 DEF Carried, Running
  <2>7. restores' = restores + 1
    BY <1>0
  <2> QED BY <2>1, <2>6, <2>7 DEF Carry, Carried
<1> QED BY <1>1, <1>2, <1>3, <1>4, <1>5, <1>6, <1>7, <1>8 DEF RInv

\* Recovering sets the flag and nothing else.
LEMMA RInvRecover ==
  ASSUME RInv, Recover
  PROVE  RInv'
<1>0. /\ st' = disk' /\ proc = "none" /\ disk'.status = disk.status
      /\ disk'.completed = disk.completed /\ disk'.pending = disk.pending
      /\ disk'.artifacts = disk.artifacts /\ disk'.actions = disk.actions
      /\ disk'.modelAttempts = disk.modelAttempts
      /\ RecoveryReady(disk) => RecoveryReady(disk')
  BY RecoverFields DEF RInv, RecoveryTypeOK
<1>1. /\ UNCHANGED <<proc, fatal, job, calls, sent, licensed, archive, restores>>
  BY DEF Recover, network, backupVars
<1>2. RecoveryTypeOK' /\ ArchiveSound'
  BY <1>1, RecoveryTypeNext DEF RInv, RecoveryNext, ArchiveSound
<1>3. Durability' /\ ~Running'
  BY <1>0, <1>1 DEF RInv, Durability, NoProcess, NoUnsavedState, RunningSaved, Running
<1>4. InHand'
  BY <1>0, <1>3 DEF RInv, InHand, Together, ActiveReady, CycleInHand, ActionInHand, Running
<1>5. Licence' /\ Counted(disk') /\ DiskLoadable' /\ Carry'
  BY <1>0, <1>1 DEF RInv, Licence, Counted, DiskLoadable, ValidActions, Carry, Carried
<1> QED BY <1>2, <1>3, <1>4, <1>5 DEF RInv

\* The inductive invariant of a mission with backups, restores and recoveries.
THEOREM RecoveryInvariance == RecoverySpec => []RInv
<1>1. RInv /\ [RecoveryNext]_recoveryVars => RInv'
  BY RecoverySteps, RInvMission, RInvBackup, RInvRestore, RInvRecover
<1> QED BY <1>1, RInvInit, PTL DEF RecoverySpec

\* However often the mission is restored, its snapshot can be loaded.
THEOREM RestoredStaysLoadable == RecoverySpec => []DiskLoadable
<1>1. RInv => DiskLoadable
  BY DEF RInv
<1> QED BY <1>1, RecoveryInvariance, PTL

\* Before the operator confirms that the source is fenced, only queries are executed.
THEOREM ReviewComesFirst == RecoverySpec => []ReviewFirst
<1>1. RInv => ReviewFirst
  BY DEF RInv, InHand, ActiveReady, CycleInHand, ActionInHand, ReviewFirst, RecoveryReady
<1> QED BY <1>1, RecoveryInvariance, PTL

\* Model calls and requests are bounded by one budget per restored instance.
THEOREM SpendingIsBounded == RecoverySpec => []SpendingBounded
<1>1. RInv => SpendingBounded
  <2> SUFFICES ASSUME RInv PROVE SpendingBounded
    OBVIOUS
  <2> SUFFICES ASSUME NEW c, NEW m, c = MaxCalls * restores, m = MaxAttempts * restores
               PROVE  SpendingBounded
    OBVIOUS
  <2>1. /\ c \in Nat /\ m \in Nat /\ MaxCalls \in Nat /\ MaxAttempts \in Nat
        /\ MaxCalls * (restores + 1) = c + MaxCalls
        /\ MaxAttempts * (restores + 1) = m + MaxAttempts
    BY SnapshotAssumption DEF RInv, RecoveryTypeOK
  <2>2. Carried(c, m)
    BY DEF RInv, Carry
  <2>3. calls <= c + MaxCalls
    <3>1. calls \in Nat /\ disk.modelAttempts \in Nat
      BY DEF RInv, RecoveryTypeOK, TypeOK, Snapshots
    <3> QED BY <2>1, <2>2, <3>1 DEF Carried
  <2>4. ASSUME NEW i \in Indexes PROVE sent[i] <= m + MaxAttempts
    <3>1. sent[i] \in Nat /\ disk.actions \in Seq(Intents)
      BY DEF RInv, RecoveryTypeOK, TypeOK, Snapshots
    <3>2. CASE i \in DOMAIN disk.actions
      <4>1. disk.actions[i] \in Intents
        BY <3>1, <3>2
      <4>2. disk.actions[i].attempts \in Nat /\ disk.actions[i].attempts <= MaxAttempts
        BY <3>2, <4>1 DEF Intents, RInv, DiskLoadable, ValidActions
      <4> QED BY <2>1, <2>2, <3>1, <3>2, <4>2 DEF Carried
    <3>3. CASE i \notin DOMAIN disk.actions
      BY <2>1, <2>2, <3>1, <3>3 DEF Carried
    <3> QED BY <3>2, <3>3
  <2> QED BY <2>1, <2>3, <2>4 DEF SpendingBounded
<1> QED BY <1>1, RecoveryInvariance, PTL

\* Whatever results repeat and however long the mission is, the reader's own count and
\* comparison of the entries never refuse an archive that the writer has published.
THEOREM BackupsAreRestorable == RecoverySpec => []BackupRestorable
<1>1. RInv => BackupRestorable
  BY DEF RInv, ArchiveSound, BackupRestorable
<1> QED BY <1>1, RecoveryInvariance, PTL

\* A restored mission sends nothing on an approval given before the backup.
THEOREM RestoredPutsAreLicensed == RecoverySpec => EveryPutIsLicensed
<1>1. RInv /\ [RecoveryNext]_recoveryVars =>
        [\A i \in Indexes : sent'[i] > sent[i] => i \in licensed]_vars
  <2> SUFFICES ASSUME RInv, [RecoveryNext]_recoveryVars,
                      NEW i \in Indexes, sent'[i] > sent[i]
               PROVE  i \in licensed
    OBVIOUS
  <2>0. sent[i] \in Nat /\ TypeOK
    BY DEF RInv, RecoveryTypeOK, TypeOK
  <2>1. CASE [Next]_vars
    BY <2>0, <2>1, SendsLicensed DEF RInv, InHand
  <2>2. CASE Backup \/ Recover
    BY <2>0, <2>2 DEF Backup, Recover, vars, network
  <2>3. CASE Restore
    BY <2>0, <2>3 DEF Restore
  <2> QED BY <2>1, <2>2, <2>3, RecoverySteps
<1> QED BY <1>1, RecoveryInvariance, PTL DEF RecoverySpec, EveryPutIsLicensed

-----------------------------------------------------------------------------
(* Scripts: a mission that is pinned, backed up and restored.              *)

Ran(history) == {x.cycle : x \in history}

\* What has been executed, in a mission whose snapshot is s and whose manifest is m:
\* the confirmed cycles, each with one script, and at most the one in hand, which is
\* announced in the snapshot and ran the script m attests.
History(s, m, history) ==
  /\ 1..s.completed \subseteq Ran(history)
  /\ Ran(history) \subseteq 1..s.completed + 1
  /\ \A x, y \in history : x.cycle = y.cycle => x.source = y.source
  /\ \A x \in history : x.cycle = s.completed + 1 => s.pending # 0 /\ x.source = m

\* The executor works for the cycle in hand, on the script the manifest attests.
ExecutionInHand ==
  /\ execution.phase # "none" => job.kind = "cycle" /\ execution.source = manifest
  /\ execution.phase = "run" => disk.completed + 1 \in Ran(executed)

\* While the cycle in hand of an archive is not confirmed, it stays in hand and the
\* manifest stays as it was; so whoever executes it runs the archive's script.
SinceBackup ==
  LET s == archive.snapshot IN
  archive.taken =>
    /\ History(s, pinned.manifest, pinned.executed)
    /\ s.completed <= disk.completed
    /\ s.pending # 0 /\ disk.completed = s.completed =>
         disk.pending # 0 /\ manifest = pinned.manifest
    /\ s.pending # 0 => \A x \in since : x.cycle = s.pending => x.source = pinned.manifest

PInv == RInv /\ ExecutionInHand /\ History(disk, manifest, executed) /\ SinceBackup

\* Each step of the pinned mission is a step of the mission that leaves the script's
\* state alone, or one of the executor's, the operator's or the host's own.
LEMMA PinnedSteps ==
  ASSUME [PinnedRecoveryNext]_pinnedRecoveryVars
  PROVE  \/ /\ [Next]_vars
            /\ UNCHANGED <<backupVars, pinned>>
            /\ since' \subseteq since \cup (executed' \ executed)
            /\ \/ UNCHANGED <<vars, manifest, execution, executed>>
               \/ Attest \/ Inspect \/ Run \/ Confirm \/ Otherwise
               \/ UNCHANGED <<pinVars, disk, job>>
         \/ BackupScript \/ RestoreScript \/ RecoverScript
<1>1. CASE PinnedMission
  <2>1. /\ UNCHANGED <<backupVars, pinned>> /\ PinnedNext
        /\ since' \subseteq since \cup (executed' \ executed)
    BY <1>1 DEF PinnedMission
  <2>2. ASSUME NEW content \in Scripts, Edit(content)
        PROVE  UNCHANGED <<vars, manifest, execution, executed>>
    BY <2>2 DEF Edit
  <2>3. ASSUME NEW kind \in {"serve", "run"}, StartAttested(kind)
        PROVE  Next /\ UNCHANGED <<pinVars, disk, job>>
    BY <2>3 DEF StartAttested, Start, Next, Host
  <2>4. Confirm => Next
    BY DEF Confirm, Next, Cycles
  <2>5. Otherwise => Next
    BY DEF Otherwise, Next, Cycles, Host
  <2>6. Attest \/ Inspect \/ Run => UNCHANGED vars
    BY DEF Attest, Inspect, Run
  <2> QED BY <2>1, <2>2, <2>3, <2>4, <2>5, <2>6 DEF PinnedNext
<1>2. CASE UNCHANGED pinnedRecoveryVars
  BY <1>2 DEF pinnedRecoveryVars, recoveryVars, pinVars
<1> QED BY <1>1, <1>2 DEF PinnedRecoveryNext

\* The pinned mission is a mission with backups and restores.
LEMMA PinnedRefines ==
  [PinnedRecoveryNext]_pinnedRecoveryVars => [RecoveryNext]_recoveryVars
<1> SUFFICES ASSUME [PinnedRecoveryNext]_pinnedRecoveryVars
             PROVE  [RecoveryNext]_recoveryVars
  OBVIOUS
<1>1. CASE BackupScript \/ RestoreScript \/ RecoverScript
  BY <1>1 DEF BackupScript, RestoreScript, RecoverScript, RecoveryNext
<1>2. CASE [Next]_vars /\ UNCHANGED backupVars
  BY <1>2 DEF RecoveryNext, MissionStep, recoveryVars
<1> QED BY <1>1, <1>2, PinnedSteps

\* Nothing has been executed at first.
LEMMA PInvInit == PinnedRecoveryInit => PInv
<1> SUFFICES ASSUME PinnedRecoveryInit PROVE PInv
  OBVIOUS
<1>1. RInv
  BY RInvInit DEF PinnedRecoveryInit
<1>2. /\ disk = Fresh /\ executed = {} /\ execution = NotStarted /\ ~archive.taken
  BY DEF PinnedRecoveryInit, RecoveryInit, PinnedInit, Init, NoArchive
<1>3. Ran(executed) = {} /\ Fresh.completed = 0
  BY <1>2 DEF Ran, Fresh
<1>4. History(disk, manifest, executed)
  <2>1. 1..0 = {}
    OBVIOUS
  <2> QED BY <1>2, <1>3, <2>1 DEF History
<1>5. ExecutionInHand /\ SinceBackup
  BY <1>2 DEF ExecutionInHand, NotStarted, SinceBackup
<1> QED BY <1>1, <1>4, <1>5 DEF PInv

\* The history fits a snapshot that has confirmed as much and still announces what it did.
LEMMA HistoryKept ==
  ASSUME NEW s, NEW t, NEW m, NEW history, History(s, m, history),
         t.completed = s.completed, s.pending # 0 => t.pending # 0
  PROVE  History(t, m, history)
BY DEF History

\* Nothing but Confirm confirms a cycle.
LEMMA OtherwiseKeepsCompleted ==
  ASSUME TypeOK, CycleInHand, Otherwise, NEW r \in Results, ConfirmsCycle(r)
  PROVE  FALSE
<1>1. /\ job.kind = "cycle" /\ job'.kind = "none" /\ st = disk /\ proc # "none"
      /\ disk'.completed = disk.completed + 1 /\ disk.completed \in Nat
  BY CommittedFields DEF ConfirmsCycle, CycleCommitted, Idle, CycleInHand, TypeOK, Snapshots
<1>2. Paused(disk).completed = disk.completed
  BY DEF Paused, TypeOK, Snapshots
<1>3. disk' # disk /\ disk' # Paused(disk) /\ job' # job /\ Running
  BY <1>1, <1>2 DEF Running
<1>4. CASE StartCycle \/ CycleDiscarded \/ CycleFailed \/ TickFails
  BY <1>1, <1>3, <1>4 DEF StartCycle, MayStep, CycleDiscarded, CycleFailed, SaveFails,
     TickFails, Gone
<1>5. CASE Actions
  BY <1>1, <1>3, <1>5 DEF Actions, StepAction, MayStep, WriteAdapter, QueryFinds, QueryMisses,
     SendPut, PutConfirmed, RequestFails, SettleAction
<1>6. CASE Operator
  BY <1>1, <1>3, <1>6 DEF Operator, Control, OfflineControl, Propose, Decide, MayDecide,
     RunAction
<1>7. CASE Signal \/ Exit \/ Crash \/ World
  BY <1>3, <1>7 DEF Signal, Exit, Crash, Gone, World, Deliver, Elapse
<1> QED BY <1>4, <1>5, <1>6, <1>7 DEF Otherwise

\* What a step that is not a confirmation leaves of the snapshot's progress.
LEMMA ProgressSteps ==
  ASSUME RInv, [Next]_vars
  PROVE  \/ disk'.completed = disk.completed /\ (disk.pending # 0 => disk'.pending # 0)
         \/ \E r \in Results : ConfirmsCycle(r)
<1>1. TypeOK /\ Durability /\ Together /\ CycleInHand
  BY DEF RInv, InHand, RecoveryTypeOK
<1>2. CASE Moves(disk, disk')
  BY <1>2 DEF Moves, SameProgress
<1>3. CASE StartsCycle
  <2>1. disk \in Snapshots /\ disk.completed \in Nat /\ MaxCycles \in Nat
    BY <1>1, SnapshotAssumption DEF TypeOK, Snapshots
  <2>2. /\ disk'.completed = disk.completed
        /\ disk.completed >= MaxCycles => disk'.pending = disk.pending
        /\ disk.completed < MaxCycles =>
             disk'.pending = (IF disk.pending = 0 THEN disk.completed + 1 ELSE disk.pending)
    BY <1>3, <2>1, CycleStartFields DEF StartsCycle
  <2> QED BY <2>1, <2>2
<1> QED BY <1>1, <1>2, <1>3, DiskSteps

\* A step of the pinned mission keeps the history and the execution in hand.
LEMMA PInvMission ==
  ASSUME PInv, [Next]_vars,
         \/ UNCHANGED <<vars, manifest, execution, executed>>
         \/ Attest \/ Inspect \/ Run \/ Confirm \/ Otherwise
         \/ UNCHANGED <<pinVars, disk, job>>
  PROVE  (ExecutionInHand /\ History(disk, manifest, executed))'
<1>0. /\ RInv /\ ExecutionInHand /\ History(disk, manifest, executed)
      /\ TypeOK /\ Together /\ CycleInHand /\ Counted(disk)
      /\ disk.completed \in Nat /\ disk \in Snapshots
  BY DEF PInv, RInv, InHand, RecoveryTypeOK, TypeOK, Snapshots
<1>1. CASE UNCHANGED <<vars, manifest, execution, executed>> \/ UNCHANGED <<pinVars, disk, job>>
  BY <1>0, <1>1 DEF vars, pinVars, ExecutionInHand, History
<1>2. CASE Attest
  <2>1. /\ disk' = disk /\ job' = job /\ execution' = execution /\ executed' = executed
        /\ proc = "none" /\ disk.pending = 0
    BY <1>2 DEF Attest, vars
  <2>2. execution.phase = "none"
    BY <1>0, <2>1 DEF ExecutionInHand, CycleInHand
  <2> QED BY <1>0, <2>1, <2>2 DEF ExecutionInHand, History
<1>3. CASE Inspect
  <2>1. /\ disk' = disk /\ job' = job /\ manifest' = manifest /\ executed' = executed
        /\ job.kind = "cycle" /\ execution' = [phase |-> "inspected", source |-> manifest]
    BY <1>3 DEF Inspect, vars
  <2> QED BY <1>0, <2>1 DEF ExecutionInHand, History
<1>4. CASE Run
  <2> DEFINE x == [cycle |-> disk.completed + 1, source |-> manifest]
  <2>1. st.pending = disk.completed + 1 /\ disk.pending = disk.completed + 1
    BY <1>0, <1>4 DEF Run, Running, Together, CycleInHand, Snapshots
  <2>2. /\ disk' = disk /\ job' = job /\ manifest' = manifest /\ job.kind = "cycle"
        /\ execution' = [phase |-> "run", source |-> manifest]
        /\ executed' = executed \cup {x}
    BY <1>0, <1>4, <2>1 DEF Run, vars, ExecutionInHand
  <2>3. Ran(executed') = Ran(executed) \cup {disk.completed + 1}
    <3>1. x.cycle = disk.completed + 1
      OBVIOUS
    <3> HIDE DEF x
    <3>2. Ran(executed \cup {x}) = Ran(executed) \cup {x.cycle}
      BY DEF Ran
    <3>3. Ran(executed') = Ran(executed \cup {x})
      BY <2>2
    <3> QED BY <3>1, <3>2, <3>3
  <2>4. ExecutionInHand'
    BY <2>2, <2>3 DEF ExecutionInHand
  <2>5. \A y \in executed : y.cycle = x.cycle => y.source = x.source
    BY <1>0 DEF History
  <2>6. x.cycle = disk.completed + 1 /\ x.source = manifest
    OBVIOUS
  <2> HIDE DEF x
  <2>7. /\ \A y, z \in executed' : y.cycle = z.cycle => y.source = z.source
        /\ \A y \in executed' : y.cycle = disk.completed + 1 =>
             disk.pending # 0 /\ y.source = manifest
    BY <1>0, <2>1, <2>2, <2>5, <2>6 DEF History
  <2>8. History(disk, manifest, executed')
    BY <1>0, <2>3, <2>7 DEF History
  <2> QED BY <2>2, <2>4, <2>8
<1>5. CASE Confirm
  <2>1. /\ manifest' = manifest /\ executed' = executed /\ execution' = NotStarted
        /\ disk.completed + 1 \in Ran(executed)
    BY <1>0, <1>5 DEF Confirm, ExecutionInHand
  <2>2. ExecutionInHand'
    BY <2>1 DEF ExecutionInHand, NotStarted
  <2>3. ASSUME NEW r \in Results, ConfirmsCycle(r)
        PROVE  History(disk', manifest, executed)
    <3>1. disk'.completed = disk.completed + 1
      BY <1>0, <2>3, CommittedFields DEF ConfirmsCycle
    <3>2. 1..disk'.completed \subseteq Ran(executed)
      <4>1. 1..disk.completed + 1 = 1..disk.completed \cup {disk.completed + 1}
        BY <1>0
      <4> QED BY <1>0, <2>1, <3>1, <4>1 DEF History
    <3>3. \A x \in executed : x.cycle \in 1..disk.completed + 1
      BY <1>0 DEF History, Ran
    <3>4. Ran(executed) \subseteq 1..disk'.completed + 1
      BY <1>0, <3>1 DEF History
    <3> QED BY <1>0, <3>1, <3>2, <3>3, <3>4 DEF History
  <2>4. History(disk', manifest, executed)
    BY <1>0, <2>3, ProgressSteps, HistoryKept
  <2> QED BY <2>1, <2>2, <2>4
<1>6. CASE Otherwise
  <2>1. /\ manifest' = manifest /\ executed' = executed
        /\ execution' = IF job' = job THEN execution ELSE NotStarted
    BY <1>6 DEF Otherwise
  <2>2. disk'.completed = disk.completed /\ (disk.pending # 0 => disk'.pending # 0)
    BY <1>0, <1>6, ProgressSteps, OtherwiseKeepsCompleted
  <2>3. ExecutionInHand'
    BY <1>0, <2>1, <2>2 DEF ExecutionInHand, NotStarted
  <2>4. History(disk', manifest, executed)
    BY <1>0, <2>2, HistoryKept
  <2> QED BY <2>1, <2>3, <2>4
<1> QED BY <1>1, <1>2, <1>3, <1>4, <1>5, <1>6

\* What a step of the pinned mission changes of what concerns an archive.
LEMMA SinceSteps ==
  ASSUME PInv, [Next]_vars,
         \/ UNCHANGED <<vars, manifest, execution, executed>>
         \/ Attest \/ Inspect \/ Run \/ Confirm \/ Otherwise
         \/ UNCHANGED <<pinVars, disk, job>>
  PROVE  /\ \A x \in executed' \ executed : x.cycle = disk.completed + 1 /\ x.source = manifest
         /\ manifest' # manifest => disk' = disk /\ disk.pending = 0
         /\ \/ disk'.completed = disk.completed /\ (disk.pending # 0 => disk'.pending # 0)
            \/ disk'.completed = disk.completed + 1
<1>0. /\ RInv /\ ExecutionInHand /\ TypeOK /\ Together /\ CycleInHand
      /\ disk.completed \in Nat /\ disk \in Snapshots
  BY DEF PInv, RInv, InHand, RecoveryTypeOK, TypeOK, Snapshots
<1>1. \/ disk'.completed = disk.completed /\ (disk.pending # 0 => disk'.pending # 0)
      \/ disk'.completed = disk.completed + 1
  <2>1. ASSUME NEW r \in Results, ConfirmsCycle(r)
        PROVE  disk'.completed = disk.completed + 1
    BY <1>0, <2>1, CommittedFields DEF ConfirmsCycle
  <2> QED BY <1>0, <2>1, ProgressSteps
<1>2. CASE Run
  <2> DEFINE x == [cycle |-> disk.completed + 1, source |-> manifest]
  <2>1. st.pending = disk.completed + 1
    BY <1>0, <1>2 DEF Run, Running, Together, CycleInHand, Snapshots
  <2>2. executed' = executed \cup {x} /\ manifest' = manifest
    BY <1>0, <1>2, <2>1 DEF Run, ExecutionInHand
  <2>3. x.cycle = disk.completed + 1 /\ x.source = manifest
    OBVIOUS
  <2> HIDE DEF x
  <2> QED BY <1>1, <2>2, <2>3
<1>3. CASE Attest
  BY <1>1, <1>3 DEF Attest, vars
<1>4. CASE \/ UNCHANGED <<vars, manifest, execution, executed>>
           \/ Inspect \/ Confirm \/ Otherwise
           \/ UNCHANGED <<pinVars, disk, job>>
  <2>1. manifest' = manifest /\ executed' = executed
    BY <1>4 DEF Inspect, Confirm, Otherwise, pinVars
  <2> QED BY <1>1, <2>1
<1> QED BY <1>2, <1>3, <1>4

\* A step of the pinned mission leaves the cycle in hand of an archive its script.
LEMMA SinceMission ==
  ASSUME PInv, UNCHANGED <<archive, pinned>>,
         since' \subseteq since \cup (executed' \ executed),
         \A x \in executed' \ executed : x.cycle = disk.completed + 1 /\ x.source = manifest,
         manifest' # manifest => disk' = disk /\ disk.pending = 0,
         \/ disk'.completed = disk.completed /\ (disk.pending # 0 => disk'.pending # 0)
         \/ disk'.completed = disk.completed + 1
  PROVE  SinceBackup'
<1> DEFINE s == archive.snapshot
<1> SUFFICES ASSUME archive.taken
             PROVE  /\ History(s, pinned.manifest, pinned.executed)
                    /\ s.completed <= disk'.completed
                    /\ s.pending # 0 /\ disk'.completed = s.completed =>
                         disk'.pending # 0 /\ manifest' = pinned.manifest
                    /\ s.pending # 0 =>
                         \A x \in since' : x.cycle = s.pending => x.source = pinned.manifest
  BY DEF SinceBackup, History
<1>1. /\ History(s, pinned.manifest, pinned.executed)
      /\ s.completed <= disk.completed
      /\ s.pending # 0 /\ disk.completed = s.completed =>
           disk.pending # 0 /\ manifest = pinned.manifest
      /\ s.pending # 0 => \A x \in since : x.cycle = s.pending => x.source = pinned.manifest
  BY DEF PInv, SinceBackup
<1>2. /\ s.completed \in Nat /\ disk.completed \in Nat
      /\ s.pending \in {0, s.completed + 1}
  BY DEF PInv, RInv, RecoveryTypeOK, TypeOK, Archives, Snapshots, ArchiveSound, Counted
<1> HIDE DEF s
<1>3. s.completed <= disk'.completed
  BY <1>1, <1>2
<1>4. s.pending # 0 /\ disk'.completed = s.completed =>
        disk'.pending # 0 /\ manifest' = pinned.manifest
  BY <1>1, <1>2
<1>5. ASSUME s.pending # 0, NEW x \in since', x.cycle = s.pending
      PROVE  x.source = pinned.manifest
  <2>1. CASE x \in since
    BY <1>1, <1>5, <2>1
  <2>2. CASE x \in executed' \ executed
    BY <1>1, <1>2, <1>5, <2>2
  <2> QED BY <1>5, <2>1, <2>2
<1> QED BY <1>1, <1>3, <1>4, <1>5

\* Every step keeps the histories.
LEMMA PInvNext == PInv /\ [PinnedRecoveryNext]_pinnedRecoveryVars => PInv'
<1> SUFFICES ASSUME PInv, [PinnedRecoveryNext]_pinnedRecoveryVars PROVE PInv'
  OBVIOUS
<1>0. RInv /\ ExecutionInHand /\ History(disk, manifest, executed) /\ SinceBackup
  BY DEF PInv
<1>1. RInv'
  BY <1>0, PinnedRefines, RecoverySteps, RInvMission, RInvBackup, RInvRestore, RInvRecover
<1>a. disk.completed \in Nat /\ disk' \in Snapshots /\ disk'.completed \in Nat
  BY <1>0, <1>1 DEF RInv, RecoveryTypeOK, TypeOK, Snapshots
<1>2. CASE /\ [Next]_vars
           /\ UNCHANGED <<backupVars, pinned>>
           /\ since' \subseteq since \cup (executed' \ executed)
           /\ \/ UNCHANGED <<vars, manifest, execution, executed>>
              \/ Attest \/ Inspect \/ Run \/ Confirm \/ Otherwise
              \/ UNCHANGED <<pinVars, disk, job>>
  <2>1. (ExecutionInHand /\ History(disk, manifest, executed))'
    BY <1>2, PInvMission
  <2>2. SinceBackup'
    BY <1>2, SinceSteps, SinceMission DEF backupVars
  <2> QED BY <1>1, <2>1, <2>2 DEF PInv
<1>3. CASE BackupScript
  <2>1. /\ UNCHANGED <<pinVars, disk, job>> /\ archive'.snapshot = disk /\ since' = {}
        /\ pinned'.manifest = manifest /\ pinned'.executed = executed
    BY <1>3 DEF BackupScript, Backup, Bundled, vars
  <2>2. SinceBackup'
    BY <1>0, <1>a, <2>1 DEF SinceBackup, pinVars, History
  <2> QED BY <1>0, <1>1, <2>1, <2>2 DEF PInv, pinVars, ExecutionInHand, History
<1>4. CASE RestoreScript
  <2>1. /\ manifest' = pinned.manifest /\ executed' = pinned.executed
        /\ execution' = NotStarted /\ UNCHANGED <<archive, pinned, since>> /\ archive.taken
        /\ disk' = Restored(archive.snapshot)
    BY <1>4 DEF RestoreScript, Restore
  <2>2. archive.snapshot \in Snapshots
    BY <1>0 DEF RInv, RecoveryTypeOK, Archives
  <2>3. /\ disk'.completed = archive.snapshot.completed
        /\ disk'.pending = archive.snapshot.pending
    BY <2>1, <2>2, RestoredFields
  <2>4. History(disk', pinned.manifest, pinned.executed)
    BY <1>0, <2>1, <2>3, HistoryKept DEF SinceBackup
  <2>5. ExecutionInHand'
    BY <2>1 DEF ExecutionInHand, NotStarted
  <2>6. SinceBackup'
    BY <1>0, <1>a, <2>1, <2>3 DEF SinceBackup, History
  <2> QED BY <1>1, <2>1, <2>4, <2>5, <2>6 DEF PInv
<1>5. CASE RecoverScript
  <2>1. UNCHANGED <<pinVars, pinned, since, job, archive>> /\ Recover
    BY <1>5 DEF RecoverScript, Recover, backupVars
  <2>2. disk'.completed = disk.completed /\ disk'.pending = disk.pending
    BY <1>0, <2>1, RecoverFields DEF RInv, RecoveryTypeOK
  <2>3. SinceBackup'
    BY <1>0, <2>1, <2>2 DEF SinceBackup, pinVars, History
  <2> QED BY <1>0, <1>1, <2>1, <2>2, <2>3 DEF PInv, pinVars, ExecutionInHand, History
<1> QED BY <1>2, <1>3, <1>4, <1>5, PinnedSteps

\* The inductive invariant of a pinned mission.
THEOREM PinnedInvariance == PinnedRecoverySpec => []PInv
BY PInvInit, PInvNext, PTL DEF PinnedRecoverySpec

\* What an executor runs is what the manifest attests, whoever edits the file meanwhile.
THEOREM ExecutionsAreAttested == PinnedRecoverySpec => []RunsAttested
<1>1. PInv => RunsAttested
  BY DEF PInv, ExecutionInHand, RunsAttested
<1> QED BY <1>1, PinnedInvariance, PTL

\* A cycle that is executed again runs the script it ran before, after any failure; the one
\* in hand when an archive was written runs one script in the original, before and after
\* the backup, and in every copy.
THEOREM ScriptSurvivesRestore == PinnedRecoverySpec => []OneScriptAfterRestore
<1>1. PInv => OneScriptAfterRestore
  <2> SUFFICES ASSUME PInv PROVE OneScriptAfterRestore
    OBVIOUS
  <2>1. OneScriptPerCycle
    BY DEF PInv, History, OneScriptPerCycle
  <2>2. archive.taken => archive.snapshot.pending \in {0, archive.snapshot.completed + 1}
    BY DEF PInv, RInv, ArchiveSound, Counted
  <2> QED BY <2>1, <2>2 DEF PInv, SinceBackup, History, OneScriptAfterRestore
<1> QED BY <1>1, PinnedInvariance, PTL

\* Every confirmed cycle has been executed, and nothing but those and the one in hand.
THEOREM ConfirmedCyclesHaveRun == PinnedRecoverySpec => []ConfirmedCyclesRan
<1>1. PInv => ConfirmedCyclesRan
  BY DEF PInv, History, Ran, ConfirmedCyclesRan
<1> QED BY <1>1, PinnedInvariance, PTL

\* An archive that holds a script is never refused by the reader's checks.
THEOREM PinnedBackupsAreRestorable == PinnedRecoverySpec => []BackupRestorable
<1>1. PInv => BackupRestorable
  BY DEF PInv, RInv, ArchiveSound, BackupRestorable
<1> QED BY <1>1, PinnedInvariance, PTL
=============================================================================
