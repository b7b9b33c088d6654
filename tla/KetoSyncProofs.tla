----------------------------- MODULE KetoSyncProofs -----------------------------
(***************************************************************************)
(* What holds of KetoSync for any number of handlers, any tables and any   *)
(* number of mutations and failures.                                       *)
(***************************************************************************)
EXTENDS KetoSync, RbacProofs

-----------------------------------------------------------------------------
(* Types *)

\* The tuples of a configuration are tuples.
LEMMA TuplesType ==
    ASSUME NEW rs, NEW us
    PROVE  Tuples(rs, us) \in KetoStates
  BY DEF Tuples, KetoStates, MemberTuples, NestedTuples, GrantTuples

\* So are those of two sets of tuples together.
LEMMA JoinType ==
    ASSUME NEW k1 \in KetoStates, NEW k2 \in KetoStates
    PROVE  Join(k1, k2) \in KetoStates
  BY DEF Join, KetoStates

\* The tables of a fresh handler are empty tables.
LEMMA EmptyTables == NoRoles \in RoleTables /\ NoUsers \in UserTables
  BY EmptyRoleTable DEF NoRoles, NoUsers, UserTables

\* The initial states are well typed.
LEMMA InitType == Init => TypeOK
  <1> SUFFICES ASSUME Init PROVE TypeOK
    OBVIOUS
  <1>1. PICK c \in StartConfigs : /\ roles = c.roles
                                  /\ users = c.users
                                  /\ keto = Tuples(c.roles, c.users)
    BY DEF Init
  <1>2. c \in Configs
    BY <1>1, InputAssumption
  <1>3. roles \in RoleTables /\ users \in UserTables /\ keto \in KetoStates
    BY <1>1, <1>2, TuplesType DEF Configs
  <1>4. mutations \in 0..MaxMutations /\ faults \in 0..MaxFaults
    BY BoundAssumption DEF Init
  <1> QED
    BY <1>3, <1>4, EmptyTables DEF Init, TypeOK, Steps, Replies

\* A mutating request's write keeps the tables well typed.
LEMMA MutateType ==
    ASSUME TypeOK, NEW h \in Handlers, Mutate(h)
    PROVE  TypeOK'
  <1>1. Accept(h)
    BY DEF Mutate, PutRole, DeleteRole, PutUser, DeleteUser, MutateOther, Seed
  <1>2. /\ keto' \in KetoStates
        /\ pc' \in [Handlers -> Steps]
        /\ snapRoles' \in [Handlers -> RoleTables]
        /\ snapUsers' \in [Handlers -> UserTables]
        /\ reply' \in [Handlers -> Replies]
        /\ faults' \in 0..MaxFaults
    BY <1>1 DEF TypeOK, Accept, Goto, Steps, Replies
  <1>3. mutations' \in 0..MaxMutations
    BY <1>1, BoundAssumption DEF TypeOK, Accept
  <1>4. roles' \in RoleTables /\ users' \in UserTables
    <2>1. CASE PutRole(h)
      <3>1. PICK id \in RoleIds, row \in RolePuts : roles' = [roles EXCEPT ![id] = row]
        BY <2>1 DEF PutRole
      <3>2. row \in RoleRows \cup {Absent}
        BY InputAssumption
      <3> QED
        BY <2>1, <3>1, <3>2, WrittenRoleTable DEF PutRole, TypeOK
    <2>2. CASE DeleteRole(h)
      <3>1. PICK id \in RoleIds : roles' = [roles EXCEPT ![id] = Absent]
        BY <2>2 DEF DeleteRole
      <3> QED
        BY <2>2, <3>1, WrittenRoleTable DEF DeleteRole, TypeOK
    <2>3. CASE PutUser(h)
      BY <2>3, InputAssumption DEF PutUser, TypeOK, UserTables
    <2>4. CASE DeleteUser(h)
      BY <2>4 DEF DeleteUser, TypeOK, UserTables
    <2>5. CASE MutateOther(h)
      BY <2>5 DEF MutateOther, TypeOK, db
    <2>6. CASE Seed(h)
      BY <2>6, InputAssumption DEF Seed, Configs
    <2> QED
      BY <2>1, <2>2, <2>3, <2>4, <2>5, <2>6 DEF Mutate
  <1> QED
    BY <1>2, <1>3, <1>4 DEF TypeOK

\* The end of a request, however it ends, keeps its variables well typed.
LEMMA FinishType ==
    ASSUME TypeOK, NEW h \in Handlers, NEW a \in Replies, Finish(h, a)
    PROVE  /\ pc' \in [Handlers -> Steps]
           /\ snapRoles' \in [Handlers -> RoleTables]
           /\ snapUsers' \in [Handlers -> UserTables]
           /\ reply' \in [Handlers -> Replies]
  BY EmptyTables DEF TypeOK, Finish, Goto, Steps

\* The steps of sync keep Keto and the snapshots well typed.
LEMMA SyncStepType ==
    ASSUME TypeOK, NEW h \in Handlers, SyncStep(h)
    PROVE  TypeOK'
  <1>1. CASE ReadRoles(h)
    BY <1>1 DEF ReadRoles, TypeOK, Goto, Steps, db
  <1>2. CASE ReadUsers(h)
    BY <1>2 DEF ReadUsers, TypeOK, Goto, Steps, db
  <1>3. CASE ClearResource(h)
    <2>1. keto' \in KetoStates
      BY <1>3 DEF ClearResource, TypeOK, KetoStates
    <2> QED
      BY <1>3, <2>1 DEF ClearResource, TypeOK, Goto, Steps, db, snaps
  <1>4. CASE ClearRole(h)
    <2>1. keto' \in KetoStates
      BY <1>4 DEF ClearRole, TypeOK, KetoStates
    <2> QED
      BY <1>4, <2>1 DEF ClearRole, TypeOK, Goto, Steps, db, snaps
  <1>5. CASE Transact(h)
    <2>1. keto' \in KetoStates
      BY <1>5, JoinType, TuplesType DEF Transact, TypeOK
    <2>2. /\ pc' \in [Handlers -> Steps]
          /\ snapRoles' \in [Handlers -> RoleTables]
          /\ snapUsers' \in [Handlers -> UserTables]
          /\ reply' \in [Handlers -> Replies]
      BY <1>5, FinishType DEF Transact, Replies
    <2> QED
      BY <1>5, <2>1, <2>2 DEF Transact, TypeOK, db
  <1> QED
    BY <1>1, <1>2, <1>3, <1>4, <1>5 DEF SyncStep

\* Failures keep everything well typed.
LEMMA FaultType ==
    ASSUME TypeOK, Crash \/ \E h \in Handlers : Fail(h)
    PROVE  TypeOK'
  <1>1. CASE Crash
    <2>1. faults' \in 0..MaxFaults
      BY <1>1, BoundAssumption DEF Crash, TypeOK
    <2> QED
      BY <1>1, <2>1, EmptyTables DEF Crash, TypeOK, Steps, Replies, db
  <1>2. ASSUME NEW h \in Handlers, Fail(h) PROVE TypeOK'
    <2>1. faults' \in 0..MaxFaults
      BY <1>2, BoundAssumption DEF Fail, TypeOK
    <2>2. /\ pc' \in [Handlers -> Steps]
          /\ snapRoles' \in [Handlers -> RoleTables]
          /\ snapUsers' \in [Handlers -> UserTables]
          /\ reply' \in [Handlers -> Replies]
      BY <1>2, FinishType DEF Fail, Replies
    <2> QED
      BY <1>2, <2>1, <2>2 DEF Fail, TypeOK, db
  <1> QED
    BY <1>1, <1>2

\* Every reachable state of the service's configuration, of its handlers and of
\* Keto is well typed.
THEOREM TypeCorrect == Spec => []TypeOK
  <1>1. Init => TypeOK
    BY InitType
  <1>2. TypeOK /\ [Next]_syncVars => TypeOK'
    <2> SUFFICES ASSUME TypeOK, [Next]_syncVars PROVE TypeOK'
      OBVIOUS
    <2>1. CASE UNCHANGED syncVars
      BY <2>1 DEF syncVars, TypeOK
    <2>2. CASE Next
      BY <2>2, MutateType, SyncStepType, FaultType DEF Next
    <2> QED
      BY <2>1, <2>2
  <1> QED
    BY <1>1, <1>2, PTL DEF Spec

-----------------------------------------------------------------------------
(* A request on its own *)

\* What holds of a handler that has been alone since it committed, by how far it
\* has come: the others are idle, what it has read is still what Postgres holds,
\* and what it has cleared is still empty.
Alone(h) ==
    /\ \A g \in Handlers : g # h => pc[g] = "idle"
    /\ pc[h] \in {"readUsers", "clearResource", "clearRole", "transact"}
          => snapRoles[h] = roles
    /\ pc[h] \in {"clearResource", "clearRole", "transact"} => snapUsers[h] = users
    /\ pc[h] \in {"clearRole", "transact"} => keto.grants = {}
    /\ pc[h] = "transact" => keto.members = {} /\ keto.nested = {}

\* A handler that is alone stays so through each of its own steps, and its last
\* step makes Keto exact.
LEMMA AloneStep ==
    ASSUME TypeOK, NEW h \in Handlers, SyncStep(h), Alone(h)
    PROVE  /\ pc'[h] # "idle" => Alone(h)'
           /\ Transact(h) => Quiet' /\ Synced'
  <1>1. CASE ReadRoles(h)
    BY <1>1 DEF ReadRoles, Alone, TypeOK, Goto, db, Transact
  <1>2. CASE ReadUsers(h)
    BY <1>2 DEF ReadUsers, Alone, TypeOK, Goto, db, Transact
  <1>3. CASE ClearResource(h)
    <2>1. keto'.grants = {}
      BY <1>3 DEF ClearResource, TypeOK, KetoStates
    <2> QED
      BY <1>3, <2>1 DEF ClearResource, Alone, TypeOK, Goto, db, snaps, Transact
  <1>4. CASE ClearRole(h)
    <2>1. /\ keto'.grants = keto.grants
          /\ keto'.members = {} /\ keto'.nested = {}
      BY <1>4 DEF ClearRole, TypeOK, KetoStates
    <2> QED
      BY <1>4, <2>1 DEF ClearRole, Alone, TypeOK, Goto, db, snaps, Transact
  <1>5. CASE Transact(h)
    <2>1. pc' = [pc EXCEPT ![h] = "idle"] /\ roles' = roles /\ users' = users
      BY <1>5 DEF Transact, Finish, Goto, db
    <2>2. Quiet' /\ pc'[h] = "idle"
      BY <2>1 DEF Quiet, Alone, TypeOK
    <2>3. snapRoles[h] = roles /\ snapUsers[h] = users
      BY <1>5 DEF Transact, Alone
    <2>4. keto.members = {} /\ keto.nested = {} /\ keto.grants = {}
      BY <1>5 DEF Transact, Alone
    <2>5. keto' = Tuples(roles, users)
      BY <1>5, <2>3, <2>4 DEF Transact, Join, Tuples
    <2> QED
      BY <2>1, <2>2, <2>5 DEF Synced
  <1> QED
    BY <1>1, <1>2, <1>3, <1>4, <1>5 DEF SyncStep

\* While a handler works, Keto only loses tuples.
LEMMA RebuildShrinks ==
    ASSUME TypeOK, NEW h \in Handlers, SyncStep(h), ~Transact(h)
    PROVE  Within(keto', keto) /\ UNCHANGED <<roles, users, reply>>
  <1>1. CASE ReadRoles(h) \/ ReadUsers(h)
    BY <1>1 DEF ReadRoles, ReadUsers, Within, db
  <1>2. CASE ClearResource(h)
    BY <1>2 DEF ClearResource, TypeOK, KetoStates, Within, db
  <1>3. CASE ClearRole(h)
    BY <1>3 DEF ClearRole, TypeOK, KetoStates, Within, db
  <1> QED
    BY <1>1, <1>2, <1>3 DEF SyncStep
=============================================================================
