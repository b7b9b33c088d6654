------------------------------ MODULE HistoryProofs ------------------------------
(***************************************************************************)
(* The safety of concurrent rebuilds, for any number of handlers,          *)
(* mutations, failures and crashes: the invariants of KetoSyncHistory.     *)
(***************************************************************************)
EXTENDS KetoSyncHistory, KetoSyncProofs

-----------------------------------------------------------------------------
(* Order on sets of tuples *)

\* Tuples depend on each table separately, so tuples of a roles table and of a
\* users table read at different times are each justified by their own table.
TornWithin(rs, us, k) == /\ MemberTuples(us) \subseteq k.members
                         /\ NestedTuples(rs) \subseteq k.nested
                         /\ GrantTuples(rs) \subseteq k.grants

\* Within of a configuration's tuples is TornWithin of its two tables.
LEMMA TornIsWithin ==
    ASSUME NEW rs, NEW us, NEW k
    PROVE  Within(Tuples(rs, us), k) <=> TornWithin(rs, us, k)
  BY DEF Within, Tuples, TornWithin

\* Joining is an upper bound.
LEMMA JoinBounds ==
    ASSUME NEW k1, NEW k2, NEW k
    PROVE  /\ Within(k1, Join(k1, k2))
           /\ Within(k2, Join(k1, k2))
           /\ Within(k, k1) => Within(k, Join(k1, k2))
           /\ Within(k1, k) /\ Within(k2, k) => Within(Join(k1, k2), k)
  BY DEF Within, Join

\* Within is a preorder.
LEMMA WithinOrder ==
    ASSUME NEW k1, NEW k2, NEW k3
    PROVE  /\ Within(k1, k1)
           /\ Within(k1, k2) /\ Within(k2, k3) => Within(k1, k3)
  BY DEF Within

\* Empty tables have no tuples.
LEMMA EmptyTablesHaveNoTuples ==
    /\ MemberTuples(NoUsers) = {}
    /\ NestedTuples(NoRoles) = {}
    /\ GrantTuples(NoRoles) = {}
  BY DEF MemberTuples, NestedTuples, GrantTuples, NoUsers, NoRoles, GrantTupleSet

-----------------------------------------------------------------------------
(* Types *)

\* The history variables are well typed whatever happens.
THEOREM HistoryTypeCorrect == HSpec => []HistoryTypeOK
  <1>1. HInit => HistoryTypeOK
    <2> SUFFICES ASSUME HInit PROVE HistoryTypeOK
      OBVIOUS
    <2>1. TypeOK
      BY InitType DEF HInit
    <2> QED
      BY <2>1 DEF HInit, HistoryTypeOK, TypeOK
  <1>2. HistoryTypeOK /\ [HNext]_vars => HistoryTypeOK'
    <2> SUFFICES ASSUME HistoryTypeOK, [HNext]_vars PROVE HistoryTypeOK'
      OBVIOUS
    <2>0. TypeOK
      BY DEF HistoryTypeOK
    <2>1. CASE UNCHANGED vars
      BY <2>1 DEF vars, historyVars, syncVars, HistoryTypeOK, TypeOK
    <2>2. ASSUME NEW h \in Handlers, HMutate(h) PROVE HistoryTypeOK'
      <3>1. TypeOK'
        BY <2>0, <2>2, MutateType DEF HMutate
      <3>2. Tuples(roles', users') \in KetoStates
        BY TuplesType
      <3>3. ever' \in KetoStates /\ era' \in KetoStates
        BY <2>2, <3>2, JoinType DEF HMutate, Record, HistoryTypeOK
      <3> QED
        BY <2>2, <3>1, <3>3 DEF HMutate, Record, HistoryTypeOK, Quiet
    <2>3. ASSUME NEW h \in Handlers, HPrepare(h) PROVE HistoryTypeOK'
      <3>1. TypeOK'
        BY <2>0, <2>3, SyncStepType DEF HPrepare, SyncStep
      <3> QED
        BY <2>3, <3>1 DEF HPrepare, historyVars, HistoryTypeOK
    <2>4. ASSUME NEW h \in Handlers, HTransact(h) PROVE HistoryTypeOK'
      <3>1. TypeOK'
        BY <2>0, <2>4, SyncStepType DEF HTransact, SyncStep
      <3>2. last' \in KetoStates
        BY <2>4, TuplesType DEF HTransact
      <3> QED
        BY <2>4, <3>1, <3>2 DEF HTransact, HistoryTypeOK
    <2>5. CASE HFault
      <3>1. TypeOK'
        BY <2>0, <2>5, FaultType DEF HFault
      <3> QED
        BY <2>5, <3>1 DEF HFault, HistoryTypeOK
    <2> QED
      BY <2>1, <2>2, <2>3, <2>4, <2>5 DEF HNext
  <1> QED
    BY <1>1, <1>2, PTL DEF HSpec

-----------------------------------------------------------------------------
(* Every tuple of Keto was committed once *)

\* The strengthening: not only Keto, but the tables and every snapshot that a
\* handler may still write, be it torn, are covered by the tuples ever committed.
EverCovers ==
    /\ Within(keto, ever)
    /\ TornWithin(roles, users, ever)
    /\ \A h \in Handlers : TornWithin(snapRoles[h], snapUsers[h], ever)

\* Reading a table or giving a snapshot up keeps snapshots covered.
LEMMA SnapshotsStayCovered ==
    ASSUME NEW k, NEW h \in Handlers, TypeOK,
           TornWithin(roles, users, k),
           \A g \in Handlers : TornWithin(snapRoles[g], snapUsers[g], k),
           \/ snapRoles' = snapRoles
           \/ snapRoles' = [snapRoles EXCEPT ![h] = roles]
           \/ snapRoles' = [snapRoles EXCEPT ![h] = NoRoles]
           \/ snapRoles' = [g \in Handlers |-> NoRoles],
           \/ snapUsers' = snapUsers
           \/ snapUsers' = [snapUsers EXCEPT ![h] = users]
           \/ snapUsers' = [snapUsers EXCEPT ![h] = NoUsers]
           \/ snapUsers' = [g \in Handlers |-> NoUsers]
    PROVE  \A g \in Handlers : TornWithin(snapRoles'[g], snapUsers'[g], k)
  <1> SUFFICES ASSUME NEW g \in Handlers
               PROVE  TornWithin(snapRoles'[g], snapUsers'[g], k)
    OBVIOUS
  <1>1. snapRoles'[g] \in {snapRoles[g], roles, NoRoles}
    BY DEF TypeOK
  <1>2. snapUsers'[g] \in {snapUsers[g], users, NoUsers}
    BY DEF TypeOK
  <1>3. \A rs \in {snapRoles[g], roles, NoRoles} :
            NestedTuples(rs) \subseteq k.nested /\ GrantTuples(rs) \subseteq k.grants
    BY EmptyTablesHaveNoTuples DEF TornWithin
  <1>4. \A us \in {snapUsers[g], users, NoUsers} :
            MemberTuples(us) \subseteq k.members
    BY EmptyTablesHaveNoTuples DEF TornWithin
  <1> QED
    BY <1>1, <1>2, <1>3, <1>4 DEF TornWithin

\* What each step of sync and each failure does to the snapshots.
LEMMA SnapshotUpdates ==
    ASSUME NEW h \in Handlers, SyncStep(h) \/ Fail(h) \/ Crash
    PROVE  /\ \/ snapRoles' = snapRoles
              \/ snapRoles' = [snapRoles EXCEPT ![h] = roles]
              \/ snapRoles' = [snapRoles EXCEPT ![h] = NoRoles]
              \/ snapRoles' = [g \in Handlers |-> NoRoles]
           /\ \/ snapUsers' = snapUsers
              \/ snapUsers' = [snapUsers EXCEPT ![h] = users]
              \/ snapUsers' = [snapUsers EXCEPT ![h] = NoUsers]
              \/ snapUsers' = [g \in Handlers |-> NoUsers]
           /\ roles' = roles /\ users' = users
  BY DEF SyncStep, ReadRoles, ReadUsers, ClearResource, ClearRole, Transact,
         Fail, Crash, Finish, snaps, db

\* A bound on Keto and on a handler's snapshot bounds Keto after its next step.
LEMMA KetoStaysWithin ==
    ASSUME NEW k, NEW h \in Handlers, TypeOK, SyncStep(h) \/ Fail(h) \/ Crash,
           Within(keto, k), TornWithin(snapRoles[h], snapUsers[h], k)
    PROVE  Within(keto', k)
  <1>1. CASE keto' = keto
    BY <1>1
  <1>2. CASE ClearResource(h)
    BY <1>2 DEF ClearResource, Within, TypeOK, KetoStates
  <1>3. CASE ClearRole(h)
    BY <1>3 DEF ClearRole, Within, TypeOK, KetoStates
  <1>4. CASE Transact(h)
    BY <1>4, TornIsWithin, JoinBounds DEF Transact
  <1> QED
    BY <1>1, <1>2, <1>3, <1>4 DEF SyncStep, ReadRoles, ReadUsers, Fail, Crash

\* The tuples ever committed cover them throughout.
LEMMA EverCovered == HSpec => []EverCovers
  <1>1. HInit => EverCovers
    <2> SUFFICES ASSUME HInit PROVE EverCovers
      OBVIOUS
    <2>1. ever = Tuples(roles, users) /\ keto = Tuples(roles, users)
      BY DEF HInit, Init
    <2>2. TornWithin(roles, users, ever) /\ Within(keto, ever)
      BY <2>1, WithinOrder, TornIsWithin
    <2>3. \A h \in Handlers : TornWithin(snapRoles[h], snapUsers[h], ever)
      BY EmptyTablesHaveNoTuples DEF HInit, Init, TornWithin
    <2> QED
      BY <2>2, <2>3 DEF EverCovers
  <1>2. HistoryTypeOK /\ EverCovers /\ [HNext]_vars => EverCovers'
    <2> SUFFICES ASSUME HistoryTypeOK, EverCovers, [HNext]_vars PROVE EverCovers'
      OBVIOUS
    <2>0. TypeOK
      BY DEF HistoryTypeOK
    <2>1. CASE UNCHANGED vars
      BY <2>1 DEF vars, historyVars, syncVars, EverCovers, TornWithin, Within
    <2>2. ASSUME NEW h \in Handlers, HMutate(h) PROVE EverCovers'
      <3>1. /\ keto' = keto /\ snapRoles' = snapRoles /\ snapUsers' = snapUsers
            /\ ever' = Join(ever, Tuples(roles', users'))
        BY <2>2 DEF HMutate, Record, Mutate, PutRole, DeleteRole, PutUser,
                    DeleteUser, MutateOther, Seed, Accept
      <3>2. Within(ever, ever') /\ Within(Tuples(roles', users'), ever')
        BY <3>1, JoinBounds
      <3>3. Within(keto', ever')
        BY <3>1, <3>2, WithinOrder DEF EverCovers
      <3>4. TornWithin(roles', users', ever')
        BY <3>2, TornIsWithin
      <3>5. \A g \in Handlers : TornWithin(snapRoles'[g], snapUsers'[g], ever')
        BY <3>1, <3>2 DEF EverCovers, TornWithin, Within
      <3> QED
        BY <3>3, <3>4, <3>5 DEF EverCovers
    <2>3. ASSUME NEW h \in Handlers, SyncStep(h) \/ Fail(h) \/ Crash, ever' = ever
          PROVE  EverCovers'
      <3>1. Within(keto', ever')
        BY <2>0, <2>3, KetoStaysWithin DEF EverCovers
      <3>2. TornWithin(roles', users', ever')
        BY <2>3, SnapshotUpdates DEF EverCovers, TornWithin
      <3>3. \A g \in Handlers : TornWithin(snapRoles'[g], snapUsers'[g], ever')
        BY <2>0, <2>3, SnapshotUpdates, SnapshotsStayCovered DEF EverCovers
      <3> QED
        BY <3>1, <3>2, <3>3 DEF EverCovers
    <2>4. CASE Crash /\ ever' = ever /\ Handlers = {}
      BY <2>4 DEF Crash, db, EverCovers, Within, TornWithin
    <2>5. ASSUME NEW h \in Handlers, HPrepare(h) \/ HTransact(h) PROVE EverCovers'
      BY <2>3, <2>5 DEF HPrepare, HTransact, SyncStep, historyVars
    <2>6. CASE HFault
      BY <2>3, <2>4, <2>6 DEF HFault
    <2> QED
      BY <2>1, <2>2, <2>5, <2>6 DEF HNext
  <1> QED
    BY <1>1, <1>2, HistoryTypeCorrect, PTL DEF HSpec

\* Keto never holds a tuple that no committed configuration had, although the
\* handlers' snapshots may be torn and their rebuilds may interleave or break off.
THEOREM NothingInvented == HSpec => []NoInventedTuples
  <1>1. EverCovers => NoInventedTuples
    BY DEF EverCovers, NoInventedTuples
  <1> QED
    BY <1>1, EverCovered, PTL

-----------------------------------------------------------------------------
(* Keto holds a whole snapshot or answers nothing *)

\* How each action changes Keto and the record of the last insertion.
LEMMA KetoUpdates ==
    ASSUME HNext, TypeOK
    PROVE  \/ keto' = keto /\ last' = last
           \/ keto'.grants = {} /\ last' = last
           \/ keto'.members = {} /\ last' = last
           \/ \E k : keto' = Join(k, last')
  <1>1. ASSUME NEW h \in Handlers, HMutate(h) PROVE keto' = keto /\ last' = last
    BY <1>1 DEF HMutate, Record, Mutate, PutRole, DeleteRole, PutUser,
                DeleteUser, MutateOther, Seed, Accept
  <1>2. ASSUME NEW h \in Handlers, HPrepare(h)
        PROVE  /\ last' = last
               /\ keto' = keto \/ keto'.grants = {} \/ keto'.members = {}
    <2>1. CASE ReadRoles(h) \/ ReadUsers(h)
      BY <1>2, <2>1 DEF HPrepare, ReadRoles, ReadUsers, historyVars
    <2>2. CASE ClearResource(h)
      BY <1>2, <2>2 DEF HPrepare, ClearResource, historyVars, TypeOK, KetoStates
    <2>3. CASE ClearRole(h)
      BY <1>2, <2>3 DEF HPrepare, ClearRole, historyVars, TypeOK, KetoStates
    <2> QED
      BY <1>2, <2>1, <2>2, <2>3 DEF HPrepare
  <1>3. ASSUME NEW h \in Handlers, HTransact(h) PROVE keto' = Join(keto, last')
    BY <1>3 DEF HTransact, Transact
  <1>4. CASE HFault
    BY <1>4 DEF HFault, Crash, Fail
  <1> QED
    BY <1>1, <1>2, <1>3, <1>4 DEF HNext

\* No Check is ever answered on half of a snapshot, whoever is clearing or
\* inserting at the time and whatever has failed before.
THEOREM NeverHalfASnapshot == HSpec => []WholeSnapshotOrNothing
  <1>1. HInit => WholeSnapshotOrNothing
    BY WithinOrder DEF HInit, WholeSnapshotOrNothing
  <1>2. HistoryTypeOK /\ WholeSnapshotOrNothing /\ [HNext]_vars
            => WholeSnapshotOrNothing'
    <2> SUFFICES ASSUME HistoryTypeOK, WholeSnapshotOrNothing, [HNext]_vars
                 PROVE  WholeSnapshotOrNothing'
      OBVIOUS
    <2>1. CASE UNCHANGED vars
      BY <2>1 DEF vars, historyVars, syncVars, WholeSnapshotOrNothing, Within
    <2>2. CASE HNext
      <3>1. CASE keto' = keto /\ last' = last
        BY <3>1 DEF WholeSnapshotOrNothing, Within
      <3>2. CASE keto'.grants = {} \/ keto'.members = {}
        BY <3>2 DEF WholeSnapshotOrNothing
      <3>3. ASSUME NEW k, keto' = Join(k, last') PROVE Within(last', keto')
        BY <3>3, JoinBounds
      <3> QED
        BY <2>2, <3>1, <3>2, <3>3, KetoUpdates DEF WholeSnapshotOrNothing,
           HistoryTypeOK
    <2> QED
      BY <2>1, <2>2
  <1> QED
    BY <1>1, <1>2, HistoryTypeCorrect, PTL DEF HSpec

\* Whoever Keto says is granted an action that the snapshot inserted last denies
\* is denied it by Keto at the same instant.
THEOREM DenyWithGrant == HSpec => []DenyAccompaniesGrant
  <1>1. HistoryTypeOK /\ WholeSnapshotOrNothing => DenyAccompaniesGrant
    <2> SUFFICES ASSUME HistoryTypeOK, WholeSnapshotOrNothing,
                        NEW uid \in UserIds, NEW key \in GrantKeys,
                        KetoCheck(keto, uid, key, FALSE),
                        KetoCheck(last, uid, key, TRUE)
                 PROVE  KetoCheck(keto, uid, key, TRUE)
      BY DEF DenyAccompaniesGrant
    <2>1. keto \in KetoStates /\ last \in KetoStates
      BY DEF HistoryTypeOK, TypeOK
    <2>2. keto.grants # {} /\ keto.members # {}
      BY <2>1, NothingReachedWhileCleared
    <2> QED
      BY <2>1, <2>2, CheckMonotone DEF WholeSnapshotOrNothing
  <1> QED
    BY <1>1, HistoryTypeCorrect, NeverHalfASnapshot, PTL

-----------------------------------------------------------------------------
(* A request that ran alone leaves Keto exact *)

\* The strengthening: every request that has been alone so far is as Alone says.
SoloInv ==
    /\ SoloSyncIsExact
    /\ \A h \in Handlers : solo[h] /\ pc[h] # "idle" => Alone(h)

\* SoloInv holds whatever overlaps, fails or crashes.
LEMMA SoloInvariant == HSpec => []SoloInv
  <1>1. HInit => SoloInv
    <2> SUFFICES ASSUME HInit PROVE SoloInv
      OBVIOUS
    <2>1. Quiet /\ Synced
      BY DEF HInit, Init, Quiet, Synced
    <2> QED
      BY <2>1 DEF HInit, SoloInv, SoloSyncIsExact
  <1>2. HistoryTypeOK /\ SoloInv /\ [HNext]_vars => SoloInv'
    <2> SUFFICES ASSUME HistoryTypeOK, SoloInv, [HNext]_vars PROVE SoloInv'
      OBVIOUS
    <2>0. TypeOK
      BY DEF HistoryTypeOK
    <2>1. CASE UNCHANGED vars
      BY <2>1 DEF vars, historyVars, syncVars, SoloInv, SoloSyncIsExact, Alone,
                  Quiet, Synced
    <2>2. ASSUME NEW h \in Handlers, HMutate(h) PROVE SoloInv'
      <3>1. ~exact' /\ solo' = [g \in Handlers |-> g = h /\ Quiet]
        BY <2>2 DEF HMutate, Record
      <3>2. pc' = [pc EXCEPT ![h] = "readRoles"]
        BY <2>2 DEF HMutate, Mutate, PutRole, DeleteRole, PutUser, DeleteUser,
                    MutateOther, Seed, Accept, Goto
      <3>3. Quiet => Alone(h)'
        BY <2>0, <3>2 DEF Quiet, Alone, TypeOK
      <3> QED
        BY <3>1, <3>3 DEF SoloInv, SoloSyncIsExact
    <2>3. ASSUME NEW h \in Handlers, SyncStep(h), HPrepare(h) \/ HTransact(h)
          PROVE  SoloInv'
      <3>1. solo' = solo /\ exact' \in {exact, solo[h]}
        BY <2>3 DEF HPrepare, HTransact, historyVars
      <3>2. pc[h] # "idle" /\ \A g \in Handlers : g # h => pc'[g] = pc[g]
        BY <2>0, <2>3 DEF SyncStep, ReadRoles, ReadUsers, ClearResource, ClearRole,
                          Transact, Finish, Goto, TypeOK
      <3>3. ~exact
        BY <3>2 DEF SoloInv, SoloSyncIsExact, Quiet
      <3>4. exact' => solo[h] /\ Transact(h)
        BY <2>3, <3>3 DEF HPrepare, HTransact, historyVars
      <3>5. solo[h] => Alone(h)
        BY <3>2 DEF SoloInv
      <3>6. exact' => Quiet' /\ Synced'
        BY <2>0, <2>3, <3>4, <3>5, AloneStep
      <3>7. \A g \in Handlers : g # h /\ pc'[g] # "idle" => ~solo'[g]
        BY <3>1, <3>2 DEF SoloInv, Alone
      <3>8. solo'[h] /\ pc'[h] # "idle" => Alone(h)'
        BY <2>0, <2>3, <3>1, <3>5, AloneStep
      <3> QED
        BY <3>6, <3>7, <3>8 DEF SoloInv, SoloSyncIsExact
    <2>4. CASE HFault
      <3>1. ~exact' /\ solo' = solo
        BY <2>4 DEF HFault
      <3>2. CASE Crash
        BY <3>1, <3>2 DEF Crash, SoloInv, SoloSyncIsExact
      <3>3. ASSUME NEW h \in Handlers, Fail(h) PROVE SoloInv'
        <4>1. pc[h] # "idle" /\ pc' = [pc EXCEPT ![h] = "idle"]
          BY <3>3 DEF Fail, Finish, Goto
        <4>2. \A g \in Handlers : pc'[g] # "idle" => ~solo[g]
          BY <2>0, <4>1 DEF SoloInv, Alone, TypeOK
        <4> QED
          BY <3>1, <4>2 DEF SoloInv, SoloSyncIsExact
      <3> QED
        BY <2>4, <3>2, <3>3 DEF HFault
    <2> QED
      BY <2>1, <2>2, <2>3, <2>4 DEF HNext, HPrepare, HTransact, SyncStep
  <1> QED
    BY <1>1, <1>2, HistoryTypeCorrect, PTL DEF HSpec

\* A mutation whose handler ran alone from its commit to its reply leaves Keto
\* equal to Postgres, whatever state earlier races and failures left Keto in.
THEOREM SoloSyncExact == HSpec => []SoloSyncIsExact
  <1>1. SoloInv => SoloSyncIsExact
    BY DEF SoloInv
  <1> QED
    BY <1>1, SoloInvariant, PTL

-----------------------------------------------------------------------------
(* Overlapping rebuilds, seen from outside *)

\* Of handlers that are under way, the one that is solo is alone.
LEMMA OneSolo ==
    ASSUME SoloInv, NEW h \in Handlers, pc[h] # "idle"
    PROVE  Phase = IF solo[h] THEN "alone" ELSE "overlap"
  BY DEF SoloInv, Alone, Phase, Quiet

\* A mutation that arrives is alone if nobody was under way.
LEMMA PhaseOfMutate ==
    ASSUME TypeOK, NEW h \in Handlers, HMutate(h)
    PROVE  Phase' = IF Phase = "stable" THEN "alone" ELSE "overlap"
  <1>1. /\ pc' = [pc EXCEPT ![h] = "readRoles"]
        /\ solo' = [g \in Handlers |-> g = h /\ Quiet]
    BY DEF HMutate, Record, Mutate, PutRole, DeleteRole, PutUser, DeleteUser, MutateOther,
           Seed, Accept, Goto
  <1>2. pc'[h] # "idle" /\ ~Quiet'
    BY <1>1 DEF TypeOK, Quiet
  <1>3. Phase = "stable" <=> Quiet
    BY DEF Phase
  <1> QED
    BY <1>1, <1>2, <1>3 DEF Phase

\* A handler's step before its last leaves the phase as it is.
LEMMA PhaseOfPrepare ==
    ASSUME TypeOK, NEW h \in Handlers, HPrepare(h)
    PROVE  Phase' = Phase /\ pc[h] # "idle"
  <1>1. /\ solo' = solo /\ pc[h] # "idle"
        /\ pc' \in {[pc EXCEPT ![h] = step] : step \in Steps \ {"idle"}}
    BY DEF HPrepare, historyVars, ReadRoles, ReadUsers, ClearResource, ClearRole, Goto,
           Steps
  <1>2. \A g \in Handlers : pc'[g] = "idle" <=> pc[g] = "idle"
    BY <1>1 DEF TypeOK
  <1> QED
    BY <1>1, <1>2 DEF Phase, Quiet

\* A handler that ends leaves the phase as it is, or nobody is under way any more.
LEMMA PhaseOfEnd ==
    ASSUME TypeOK, SoloInv, NEW h \in Handlers, solo' = solo,
           pc[h] # "idle", pc' = [pc EXCEPT ![h] = "idle"]
    PROVE  Phase' \in {Phase, "stable"} /\ (solo[h] => Phase' = "stable")
  <1>1. /\ pc'[h] = "idle"
        /\ \A g \in Handlers : g # h => pc'[g] = pc[g]
    BY DEF TypeOK
  <1>2. CASE solo[h]
    BY <1>1, <1>2 DEF SoloInv, Alone, Phase, Quiet
  <1>3. CASE ~solo[h]
    BY <1>1, <1>3, OneSolo DEF Phase, Quiet
  <1> QED
    BY <1>2, <1>3

\* Whatever overlaps, fails or crashes, every step of the service is a step of the
\* rebuilds that OverlappingSync promises, or changes nothing of them.
THEOREM OverlapsAsPromised == HSpec => ImplementsOverlappingSync
  <1>1. HInit => Overlapping!OverlapInit
    BY DEF HInit, Init, Overlapping!OverlapInit, Phase, Quiet
  <1>2. HistoryTypeOK /\ EverCovers /\ SoloInv /\ [HNext]_vars
           => [Overlapping!OverlapNext]_(Overlapping!overlapVars)
    <2> SUFFICES ASSUME HistoryTypeOK, EverCovers, SoloInv, [HNext]_vars
                 PROVE  Overlapping!OverlapNext \/ UNCHANGED Overlapping!overlapVars
      OBVIOUS
    <2>0. TypeOK
      BY DEF HistoryTypeOK
    <2>1. CASE UNCHANGED vars
      BY <2>1 DEF vars, historyVars, syncVars, Overlapping!overlapVars, Phase, Quiet
    <2>2. ASSUME NEW h \in Handlers, HMutate(h) PROVE Overlapping!OverlapNext
      <3>1. keto' = keto /\ ever' = Join(ever, Tuples(roles', users')) /\ exact' = FALSE
        BY <2>2 DEF HMutate, Record, Mutate, PutRole, DeleteRole, PutUser, DeleteUser,
                    MutateOther, Seed, Accept
      <3> QED
        BY <2>0, <2>2, <3>1, PhaseOfMutate
           DEF Overlapping!OverlapNext, Overlapping!Commit
    <2>3. ASSUME NEW h \in Handlers, HPrepare(h) PROVE Overlapping!OverlapNext
      <3>1. Phase' = Phase /\ Phase # "stable"
        BY <2>0, <2>3, PhaseOfPrepare, OneSolo
      <3>2. Within(keto', keto) /\ UNCHANGED <<roles, users>>
        BY <2>0, <2>3, RebuildShrinks DEF HPrepare, SyncStep, Transact, ReadRoles,
           ReadUsers, ClearResource, ClearRole
      <3> QED
        BY <2>3, <3>1, <3>2
           DEF HPrepare, historyVars, Overlapping!OverlapNext, Overlapping!Shrink
    <2>4. ASSUME NEW h \in Handlers, HTransact(h) PROVE Overlapping!OverlapNext
      <3>1. /\ pc[h] # "idle" /\ pc' = [pc EXCEPT ![h] = "idle"] /\ solo' = solo
            /\ exact' = solo[h] /\ UNCHANGED <<roles, users, ever>>
            /\ keto' = Join(keto, Tuples(snapRoles[h], snapUsers[h]))
        BY <2>4 DEF HTransact, Transact, Finish, Goto, db
      <3>2. SyncStep(h) /\ Transact(h)
        BY <2>4 DEF HTransact, SyncStep
      <3>3. CASE solo[h]
        <4>1. Phase = "alone" /\ Phase' = "stable"
          BY <2>0, <3>1, <3>3, OneSolo, PhaseOfEnd
        <4>2. keto' = Tuples(roles, users)
          BY <2>0, <3>1, <3>2, <3>3, AloneStep DEF SoloInv, Synced
        <4> QED
          BY <3>1, <3>3, <4>1, <4>2 DEF Overlapping!OverlapNext, Overlapping!Complete
      <3>4. CASE ~solo[h]
        <4>1. Phase = "overlap" /\ Phase' \in {"overlap", "stable"}
          BY <2>0, <3>1, <3>4, OneSolo, PhaseOfEnd
        <4>2. Within(keto, keto')
          BY <3>1, JoinBounds
        <4>3. Within(keto', ever)
          BY <2>0, <3>2, KetoStaysWithin DEF EverCovers
        <4>4. exact' = FALSE
          BY <3>1, <3>4 DEF HistoryTypeOK
        <4> QED
          BY <3>1, <4>1, <4>2, <4>3, <4>4 DEF Overlapping!OverlapNext, Overlapping!Mix
      <3> QED
        BY <3>3, <3>4
    <2>5. CASE HFault
      <3>1. UNCHANGED <<roles, users, keto, ever>> /\ exact' = FALSE /\ solo' = solo
        BY <2>5 DEF HFault, Crash, Fail, db
      <3>2. Phase' \in {Phase, "stable"}
        <4>1. CASE Crash
          BY <4>1 DEF Crash, Phase, Quiet
        <4>2. ASSUME NEW h \in Handlers, Fail(h) PROVE Phase' \in {Phase, "stable"}
          BY <2>0, <3>1, <4>2, PhaseOfEnd DEF Fail, Finish, Goto
        <4> QED
          BY <2>5, <4>1, <4>2 DEF HFault
      <3> QED
        BY <3>1, <3>2 DEF Overlapping!OverlapNext, Overlapping!GiveUp
    <2> QED
      BY <2>1, <2>2, <2>3, <2>4, <2>5 DEF HNext
  <1> QED
    BY <1>1, <1>2, HistoryTypeCorrect, EverCovered, SoloInvariant, PTL
       DEF HSpec, ImplementsOverlappingSync, Overlapping!OverlapSpec

-----------------------------------------------------------------------------
(* A busy period without failures leaves nothing older behind *)

\* Handlers that still have a namespace to clear.
BeforeResource == {"readRoles", "readUsers", "clearResource"}
BeforeRole == BeforeResource \cup {"clearRole"}

\* The strengthening: while a request is in flight, the tables and all snapshots
\* are of this busy period, and what Keto has in a namespace is of this busy
\* period unless somebody has yet to clear that namespace.
EraCovers ==
    /\ ~Quiet => TornWithin(roles, users, era)
    /\ \A h \in Handlers : TornWithin(snapRoles[h], snapUsers[h], era)
    /\ clean => \/ keto.grants \subseteq era.grants
                \/ \E h \in Handlers : pc[h] \in BeforeResource
    /\ clean => \/ keto.members \subseteq era.members /\ keto.nested \subseteq era.nested
                \/ \E h \in Handlers : pc[h] \in BeforeRole

\* An idle handler has no snapshot.
IdleHasNoSnapshot ==
    \A h \in Handlers :
        pc[h] = "idle" => snapRoles[h] = NoRoles /\ snapUsers[h] = NoUsers

\* Snapshots are dropped with the request, on every way it can end.
LEMMA IdleForgets ==
    HistoryTypeOK /\ IdleHasNoSnapshot /\ [HNext]_vars => IdleHasNoSnapshot'
  <1> SUFFICES ASSUME HistoryTypeOK, IdleHasNoSnapshot, [HNext]_vars,
                      NEW g \in Handlers, pc'[g] = "idle"
               PROVE  snapRoles'[g] = NoRoles /\ snapUsers'[g] = NoUsers
    BY DEF IdleHasNoSnapshot
  <1>0. TypeOK
    BY DEF HistoryTypeOK
  <1>1. CASE UNCHANGED vars
    BY <1>1 DEF vars, syncVars, IdleHasNoSnapshot
  <1>2. ASSUME NEW h \in Handlers, HMutate(h)
        PROVE  snapRoles'[g] = NoRoles /\ snapUsers'[g] = NoUsers
    <2>1. /\ pc' = [pc EXCEPT ![h] = "readRoles"]
          /\ snapRoles' = snapRoles /\ snapUsers' = snapUsers
      BY <1>2 DEF HMutate, Mutate, PutRole, DeleteRole, PutUser, DeleteUser,
                  MutateOther, Seed, Accept, Goto
    <2> QED
      BY <1>0, <2>1 DEF TypeOK, IdleHasNoSnapshot
  <1>3. ASSUME NEW h \in Handlers, HPrepare(h) \/ HTransact(h)
        PROVE  snapRoles'[g] = NoRoles /\ snapUsers'[g] = NoUsers
    BY <1>0, <1>3 DEF HPrepare, HTransact, ReadRoles, ReadUsers, ClearResource,
       ClearRole, Transact, Finish, Goto, snaps, TypeOK, IdleHasNoSnapshot
  <1>4. CASE HFault
    BY <1>0, <1>4 DEF HFault, Crash, Fail, Finish, Goto, TypeOK, IdleHasNoSnapshot
  <1> QED
    BY <1>1, <1>2, <1>3, <1>4 DEF HNext

\* EraCovers through a commit, which may open a new busy period.
LEMMA EraMutate ==
    ASSUME HistoryTypeOK, IdleHasNoSnapshot, EraCovers, NEW h \in Handlers, HMutate(h)
    PROVE  EraCovers'
  <1>0. TypeOK
    BY DEF HistoryTypeOK
  <1>1. /\ pc' = [pc EXCEPT ![h] = "readRoles"]
        /\ snapRoles' = snapRoles /\ snapUsers' = snapUsers
        /\ era' = IF Quiet THEN Tuples(roles', users')
                           ELSE Join(era, Tuples(roles', users'))
    BY DEF HMutate, Record, Mutate, PutRole, DeleteRole, PutUser, DeleteUser,
           MutateOther, Seed, Accept, Goto
  <1>2. \E g \in Handlers : pc'[g] \in BeforeResource /\ pc'[g] \in BeforeRole
    BY <1>0, <1>1 DEF TypeOK, BeforeResource, BeforeRole
  <1>3. Within(Tuples(roles', users'), era')
    BY <1>1, WithinOrder, JoinBounds
  <1>4. ASSUME NEW g \in Handlers
        PROVE  TornWithin(snapRoles'[g], snapUsers'[g], era')
    <2>1. CASE Quiet
      BY <1>1, <2>1, EmptyTablesHaveNoTuples DEF Quiet, IdleHasNoSnapshot, TornWithin
    <2>2. CASE ~Quiet
      BY <1>1, <2>2 DEF EraCovers, TornWithin, Join
    <2> QED
      BY <2>1, <2>2
  <1> QED
    BY <1>2, <1>3, <1>4, TornIsWithin DEF EraCovers

\* EraCovers through a step of sync.
LEMMA EraSync ==
    ASSUME HistoryTypeOK, EraCovers, NEW h \in Handlers, SyncStep(h),
           era' = era, clean' = clean
    PROVE  EraCovers'
  <1>0. TypeOK
    BY DEF HistoryTypeOK
  <1>1. pc[h] # "idle" /\ ~Quiet
    BY DEF SyncStep, ReadRoles, ReadUsers, ClearResource, ClearRole, Transact, Quiet
  <1>2. TornWithin(roles, users, era)
    BY <1>1 DEF EraCovers
  <1>3. TornWithin(roles', users', era')
    BY <1>2, SnapshotUpdates
  <1>4. \A g \in Handlers : TornWithin(snapRoles'[g], snapUsers'[g], era')
    BY <1>0, <1>2, SnapshotUpdates, SnapshotsStayCovered DEF EraCovers
  <1>5. \A g \in Handlers : g # h => pc'[g] = pc[g]
    BY <1>0 DEF SyncStep, ReadRoles, ReadUsers, ClearResource, ClearRole, Transact,
                Finish, Goto, TypeOK
  <1>6. ASSUME clean
        PROVE  \/ keto'.grants \subseteq era.grants
               \/ \E g \in Handlers : pc'[g] \in BeforeResource
    <2>1. CASE ReadRoles(h) \/ ReadUsers(h)
      BY <1>0, <2>1 DEF ReadRoles, ReadUsers, Goto, TypeOK, BeforeResource
    <2>2. CASE ClearResource(h)
      BY <1>0, <2>2 DEF ClearResource, TypeOK, KetoStates
    <2>3. CASE ClearRole(h)
      <3>1. keto'.grants = keto.grants /\ pc[h] \notin BeforeResource
        BY <1>0, <2>3 DEF ClearRole, TypeOK, KetoStates, BeforeResource
      <3> QED
        BY <1>5, <1>6, <3>1 DEF EraCovers
    <2>4. CASE Transact(h)
      <3>1. /\ keto'.grants = keto.grants \cup GrantTuples(snapRoles[h])
            /\ pc[h] \notin BeforeResource
        BY <2>4 DEF Transact, Join, Tuples, BeforeResource
      <3> QED
        BY <1>5, <1>6, <3>1 DEF EraCovers, TornWithin
    <2> QED
      BY <2>1, <2>2, <2>3, <2>4 DEF SyncStep
  <1>7. ASSUME clean
        PROVE  \/ keto'.members \subseteq era.members /\ keto'.nested \subseteq era.nested
               \/ \E g \in Handlers : pc'[g] \in BeforeRole
    <2>1. CASE ReadRoles(h) \/ ReadUsers(h) \/ ClearResource(h)
      BY <1>0, <2>1 DEF ReadRoles, ReadUsers, ClearResource, Goto, TypeOK,
                        BeforeRole, BeforeResource
    <2>2. CASE ClearRole(h)
      BY <1>0, <2>2 DEF ClearRole, TypeOK, KetoStates
    <2>3. CASE Transact(h)
      <3>1. /\ keto'.members = keto.members \cup MemberTuples(snapUsers[h])
            /\ keto'.nested = keto.nested \cup NestedTuples(snapRoles[h])
            /\ pc[h] \notin BeforeRole
        BY <2>3 DEF Transact, Join, Tuples, BeforeRole, BeforeResource
      <3> QED
        BY <1>5, <1>7, <3>1 DEF EraCovers, TornWithin
    <2> QED
      BY <2>1, <2>2, <2>3 DEF SyncStep
  <1> QED
    BY <1>3, <1>4, <1>6, <1>7 DEF EraCovers

\* Racing rebuilds may leave a mix of the configurations they raced over, but in
\* a busy period without failures nothing older than it survives in Keto.
THEOREM NothingOlderLeft == HSpec => []NothingOlderSurvives
  <1> DEFINE Inv == EraCovers /\ IdleHasNoSnapshot
  <1>1. HInit => Inv
    <2> SUFFICES ASSUME HInit PROVE Inv
      OBVIOUS
    <2>1. IdleHasNoSnapshot
      BY DEF HInit, Init, IdleHasNoSnapshot
    <2>2. EraCovers
      BY EmptyTablesHaveNoTuples DEF HInit, Init, Quiet, EraCovers, TornWithin
    <2> QED
      BY <2>1, <2>2
  <1>2. HistoryTypeOK /\ Inv /\ [HNext]_vars => Inv'
    <2> SUFFICES ASSUME HistoryTypeOK, EraCovers, IdleHasNoSnapshot, [HNext]_vars
                 PROVE  EraCovers'
      BY IdleForgets
    <2>0. TypeOK
      BY DEF HistoryTypeOK
    <2>1. CASE UNCHANGED vars
      BY <2>1 DEF vars, historyVars, syncVars, EraCovers, Quiet, TornWithin
    <2>2. ASSUME NEW h \in Handlers, HMutate(h) PROVE EraCovers'
      BY <2>2, EraMutate
    <2>3. ASSUME NEW h \in Handlers, HPrepare(h) \/ HTransact(h) PROVE EraCovers'
      <3>1. SyncStep(h) /\ era' = era /\ clean' = clean
        BY <2>3 DEF HPrepare, HTransact, SyncStep, historyVars
      <3> QED
        BY <3>1, EraSync
    <2>4. CASE HFault
      <3>1. ~clean' /\ era' = era
        BY <2>4 DEF HFault
      <3>2. CASE Crash
        BY <3>1, <3>2, EmptyTablesHaveNoTuples
           DEF Crash, EraCovers, Quiet, TornWithin
      <3>3. ASSUME NEW h \in Handlers, Fail(h) PROVE EraCovers'
        <4>1. ~Quiet /\ roles' = roles /\ users' = users
          BY <3>3 DEF Fail, Quiet, db
        <4>2. \A g \in Handlers : TornWithin(snapRoles'[g], snapUsers'[g], era')
          BY <2>0, <3>1, <3>3, <4>1, SnapshotUpdates, SnapshotsStayCovered
             DEF EraCovers
        <4> QED
          BY <3>1, <4>1, <4>2 DEF EraCovers, TornWithin
      <3> QED
        BY <2>4, <3>2, <3>3 DEF HFault
    <2> QED
      BY <2>1, <2>2, <2>3, <2>4 DEF HNext
  <1>3. Inv => NothingOlderSurvives
    BY DEF EraCovers, NothingOlderSurvives, Within, Quiet, BeforeResource, BeforeRole
  <1> QED
    BY <1>1, <1>2, <1>3, HistoryTypeCorrect, PTL DEF HSpec
=============================================================================
