-------------------------------- MODULE KetoSync --------------------------------
(***************************************************************************)
(* The mutating half of KAM: HTTP handlers that change the configuration  *)
(* in Postgres and then rebuild Keto's relation tuples from it.           *)
(*                                                                         *)
(* Each handler is a goroutine of the server.  A mutation commits to      *)
(* Postgres and then runs API.sync, which reads the tables one after      *)
(* another (Store.Snapshot) and has keto.SyncAll delete the Resource      *)
(* namespace, delete the Role namespace and insert every tuple of the     *)
(* snapshot in one transaction.  Nothing serialises two handlers, nothing *)
(* is rolled back when a step fails, and the server does not sync when it *)
(* starts.                                                                 *)
(***************************************************************************)
EXTENDS Rbac, Naturals

CONSTANTS
    Handlers,       \* requests the server may be working on at a time
    RolePuts,       \* role rows that a PUT /v1/roles may carry
    UserPuts,       \* user rows that a PUT /v1/users may carry
    StartConfigs,   \* configurations, already synced, that a run starts from
    SeedConfig,     \* seed.DB()
    MaxMutations,   \* bound: mutating requests in a run
    MaxFaults       \* bound: failed steps and crashes in a run

Configs == [roles : RoleTables, users : UserTables]

ASSUME InputAssumption == /\ RolePuts \subseteq RoleRows
                          /\ UserPuts \subseteq UserRows
                          /\ StartConfigs \subseteq Configs
                          /\ SeedConfig \in Configs
ASSUME BoundAssumption == MaxMutations \in Nat /\ MaxFaults \in Nat

VARIABLES
    roles, users,          \* the tables roles and users in Postgres
    keto,                  \* the relation tuples in Keto
    pc,                    \* what each handler does next
    snapRoles, snapUsers,  \* the snapshot each handler has read so far
    reply,                 \* what each handler's last request was answered
    mutations, faults      \* how many there were, for the bounds

db == <<roles, users>>
snaps == <<snapRoles, snapUsers>>
syncVars == <<roles, users, keto, pc, snapRoles, snapUsers, reply,
              mutations, faults>>

Steps == {"idle", "readRoles", "readUsers",
          "clearResource", "clearRole", "transact"}
Replies == {"none", "ok", "failed"}

NoRoles == [r \in RoleIds |-> Absent]
NoUsers == [u \in UserIds |-> Absent]

\* Every variable holds a value of its kind: rows in the tables and the
\* snapshots, tuples of the three kinds in Keto.
TypeOK ==
    /\ roles \in RoleTables
    /\ users \in UserTables
    /\ keto \in KetoStates
    /\ pc \in [Handlers -> Steps]
    /\ snapRoles \in [Handlers -> RoleTables]
    /\ snapUsers \in [Handlers -> UserTables]
    /\ reply \in [Handlers -> Replies]
    /\ mutations \in 0..MaxMutations
    /\ faults \in 0..MaxFaults

Init ==
    /\ \E c \in StartConfigs : /\ roles = c.roles
                               /\ users = c.users
                               /\ keto = Tuples(c.roles, c.users)
    /\ pc = [h \in Handlers |-> "idle"]
    /\ snapRoles = [h \in Handlers |-> NoRoles]
    /\ snapUsers = [h \in Handlers |-> NoUsers]
    /\ reply = [h \in Handlers |-> "none"]
    /\ mutations = 0
    /\ faults = 0

-----------------------------------------------------------------------------
(* The write to Postgres that starts a mutating request *)

Goto(h, step) == pc' = [pc EXCEPT ![h] = step]

\* A request arrives and its write commits; sync comes next.
Accept(h) ==
    /\ pc[h] = "idle"
    /\ mutations < MaxMutations
    /\ mutations' = mutations + 1
    /\ Goto(h, "readRoles")
    /\ reply' = [reply EXCEPT ![h] = "none"]
    /\ UNCHANGED <<keto, snapRoles, snapUsers, faults>>

\* Upsert and Delete are single statements on one table.
PutRole(h) ==
    /\ Accept(h)
    /\ \E id \in RoleIds, row \in RolePuts : roles' = [roles EXCEPT ![id] = row]
    /\ UNCHANGED users

DeleteRole(h) ==
    /\ Accept(h)
    /\ \E id \in RoleIds : roles' = [roles EXCEPT ![id] = Absent]
    /\ UNCHANGED users

PutUser(h) ==
    /\ Accept(h)
    /\ \E id \in UserIds, row \in UserPuts : users' = [users EXCEPT ![id] = row]
    /\ UNCHANGED roles

DeleteUser(h) ==
    /\ Accept(h)
    /\ \E id \in UserIds : users' = [users EXCEPT ![id] = Absent]
    /\ UNCHANGED roles

\* PUT or DELETE of a resource type, an item or a condition: no tuple depends
\* on those tables, but the handler syncs all the same.
MutateOther(h) ==
    /\ Accept(h)
    /\ UNCHANGED db

\* ReplaceAll empties and refills every table in one transaction.
Seed(h) ==
    /\ Accept(h)
    /\ roles' = SeedConfig.roles
    /\ users' = SeedConfig.users

Mutate(h) == \/ PutRole(h) \/ DeleteRole(h) \/ PutUser(h) \/ DeleteUser(h)
             \/ MutateOther(h) \/ Seed(h)

-----------------------------------------------------------------------------
(* sync: Snapshot, then SyncAll *)

\* Snapshot's five queries are separate statements outside a transaction; the
\* three tables read before roles do not reach Keto.
ReadRoles(h) ==
    /\ pc[h] = "readRoles"
    /\ snapRoles' = [snapRoles EXCEPT ![h] = roles]
    /\ Goto(h, "readUsers")
    /\ UNCHANGED <<db, keto, snapUsers, reply, mutations, faults>>

\* Faulty variant: the last query of Snapshot scans into the wrong field.
ReadUsersMisplaced(h) ==
    /\ pc[h] = "readUsers"
    /\ snapUsers' = [snapUsers EXCEPT ![h] = roles]
    /\ Goto(h, "clearResource")
    /\ UNCHANGED <<db, keto, snapRoles, reply, mutations, faults>>

ReadUsers(h) ==
    /\ pc[h] = "readUsers"
    /\ snapUsers' = [snapUsers EXCEPT ![h] = users]
    /\ Goto(h, "clearResource")
    /\ UNCHANGED <<db, keto, snapRoles, reply, mutations, faults>>

\* Faulty variant: only the deny relations are cleared.
ClearResourceDenies(h) ==
    /\ pc[h] = "clearResource"
    /\ keto' = [keto EXCEPT !.grants = {t \in @ : ~t.deny}]
    /\ Goto(h, "clearRole")
    /\ UNCHANGED <<db, snaps, reply, mutations, faults>>

ClearResource(h) ==
    /\ pc[h] = "clearResource"
    /\ keto' = [keto EXCEPT !.grants = {}]
    /\ Goto(h, "clearRole")
    /\ UNCHANGED <<db, snaps, reply, mutations, faults>>

\* Faulty variant: only direct memberships are cleared.
ClearRoleMembers(h) ==
    /\ pc[h] = "clearRole"
    /\ keto' = [keto EXCEPT !.members = {}]
    /\ Goto(h, "transact")
    /\ UNCHANGED <<db, snaps, reply, mutations, faults>>

ClearRole(h) ==
    /\ pc[h] = "clearRole"
    /\ keto' = [keto EXCEPT !.members = {}, !.nested = {}]
    /\ Goto(h, "transact")
    /\ UNCHANGED <<db, snaps, reply, mutations, faults>>

\* The request is over: its goroutine and its snapshot are gone.
Finish(h, answer) ==
    /\ Goto(h, "idle")
    /\ snapRoles' = [snapRoles EXCEPT ![h] = NoRoles]
    /\ snapUsers' = [snapUsers EXCEPT ![h] = NoUsers]
    /\ reply' = [reply EXCEPT ![h] = answer]

\* Faulty variant: with nothing to insert the handler never gets to its reply.
TransactStalls(h) ==
    /\ pc[h] = "transact"
    /\ Tuples(snapRoles[h], snapUsers[h]) # NoTuples
    /\ keto' = Join(keto, Tuples(snapRoles[h], snapUsers[h]))
    /\ Finish(h, "ok")
    /\ UNCHANGED <<db, mutations, faults>>

\* Faulty variant: the inheritance tuples are written child for parent.
TransactSwapped(h) ==
    /\ pc[h] = "transact"
    /\ keto' = Join(keto, [Tuples(snapRoles[h], snapUsers[h]) EXCEPT
                              !.nested = NestedTuplesSwapped(snapRoles[h])])
    /\ Finish(h, "ok")
    /\ UNCHANGED <<db, mutations, faults>>

\* Faulty variant: memberships and grants are inserted by two transactions.
TransactInTwo(h) ==
    /\ pc[h] = "transact"
    /\ LET all == Tuples(snapRoles[h], snapUsers[h]) IN
       \/ /\ keto.members = all.members
          /\ keto' = Join(keto, all)
          /\ Finish(h, "ok")
       \/ /\ keto.members # all.members
          /\ keto' = [keto EXCEPT !.members = all.members]
          /\ UNCHANGED <<pc, snaps, reply>>
    /\ UNCHANGED <<db, mutations, faults>>

\* All inserts go in one transaction, which is skipped when there are none.
Transact(h) ==
    /\ pc[h] = "transact"
    /\ keto' = Join(keto, Tuples(snapRoles[h], snapUsers[h]))
    /\ Finish(h, "ok")
    /\ UNCHANGED <<db, mutations, faults>>

SyncStep(h) == ReadRoles(h) \/ ReadUsers(h) \/ ClearResource(h)
               \/ ClearRole(h) \/ Transact(h)

-----------------------------------------------------------------------------
(* Failures *)

\* The step that comes next returns an error, or the client has gone and the
\* request's context is cancelled: the handler answers 500 and undoes nothing.
\* A call that took effect but reported an error is that call's own action
\* followed by this one.
Fail(h) ==
    /\ pc[h] # "idle"
    /\ faults < MaxFaults
    /\ faults' = faults + 1
    /\ Finish(h, "failed")
    /\ UNCHANGED <<db, keto, mutations>>

\* The server dies and is started again: Postgres and Keto keep what they have,
\* and main does not sync.
Crash ==
    /\ faults < MaxFaults
    /\ faults' = faults + 1
    /\ pc' = [h \in Handlers |-> "idle"]
    /\ snapRoles' = [h \in Handlers |-> NoRoles]
    /\ snapUsers' = [h \in Handlers |-> NoUsers]
    /\ reply' = [h \in Handlers |-> IF pc[h] = "idle" THEN reply[h] ELSE "failed"]
    /\ UNCHANGED <<db, keto, mutations>>

Next == Crash \/ \E h \in Handlers : Mutate(h) \/ SyncStep(h) \/ Fail(h)

Spec == Init /\ [][Next]_syncVars

\* A goroutine that has a step to take is scheduled, and Postgres and Keto
\* answer; clients need not send anything.
FairSpec == Spec /\ \A h \in Handlers : WF_syncVars(SyncStep(h))

-----------------------------------------------------------------------------
(* Properties *)

Quiet == \A h \in Handlers : pc[h] = "idle"
Synced == keto = Tuples(roles, users)

\* With no request in flight, if every handler's last request was answered with
\* success then Keto holds exactly the tuples of the configuration in Postgres:
\* a client that got a 200 from api.go's PUT may rely on its change, also after
\* earlier requests failed half way or the server crashed.
AckedMeansSynced ==
    Quiet /\ (\A h \in Handlers : reply[h] # "failed")
          /\ (\E h \in Handlers : reply[h] = "ok")
        => Synced

\* Once the clients stop, every request gets its answer, and Keto stays equal to
\* the configuration unless a client was told that its last request failed.
Settles ==
    <>[](Quiet /\ (Synced \/ \E h \in Handlers : reply[h] = "failed"))
=============================================================================
