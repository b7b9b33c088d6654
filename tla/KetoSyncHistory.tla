----------------------------- MODULE KetoSyncHistory -----------------------------
(***************************************************************************)
(* KetoSync with history variables: what the safety of concurrent syncs    *)
(* is stated about.  Every action is an action of KetoSync that also       *)
(* records what happened; none of them is constrained by the record.       *)
(***************************************************************************)
EXTENDS KetoSync

VARIABLES
    ever,   \* tuples of every configuration that was ever committed
    era,    \* tuples of the configurations committed in this busy period
    clean,  \* no step failed in this busy period
    last,   \* tuples that the latest completed sync inserted
    solo,   \* solo[h]: no other request was in flight beside h's
    exact   \* the latest event was the end of such a request

historyVars == <<ever, era, clean, last, solo, exact>>
vars == <<syncVars, historyVars>>

HistoryTypeOK ==
    /\ TypeOK
    /\ ever \in KetoStates
    /\ era \in KetoStates
    /\ clean \in BOOLEAN
    /\ last \in KetoStates
    /\ solo \in [Handlers -> BOOLEAN]
    /\ exact \in BOOLEAN

HInit ==
    /\ Init
    /\ ever = keto
    /\ era = keto
    /\ clean = TRUE
    /\ last = keto
    /\ solo = [h \in Handlers |-> FALSE]
    /\ exact = TRUE

\* A busy period starts with the first request that arrives when none is in
\* flight, and ends when none is any more.
Record(h) ==
    /\ ever' = Join(ever, Tuples(roles', users'))
    /\ era' = IF Quiet THEN Tuples(roles', users')
                       ELSE Join(era, Tuples(roles', users'))
    /\ clean' = (Quiet \/ clean)
    /\ solo' = [g \in Handlers |-> g = h /\ Quiet]
    /\ exact' = FALSE
    /\ UNCHANGED last

HMutate(h) == Mutate(h) /\ Record(h)

HPrepare(h) ==
    /\ ReadRoles(h) \/ ReadUsers(h) \/ ClearResource(h) \/ ClearRole(h)
    /\ UNCHANGED historyVars

HTransact(h) ==
    /\ Transact(h)
    /\ last' = Tuples(snapRoles[h], snapUsers[h])
    /\ exact' = solo[h]
    /\ UNCHANGED <<ever, era, clean, solo>>

HFault ==
    /\ Crash \/ \E h \in Handlers : Fail(h)
    /\ clean' = FALSE
    /\ exact' = FALSE
    /\ UNCHANGED <<ever, era, last, solo>>

HNext == HFault \/ \E h \in Handlers : HMutate(h) \/ HPrepare(h) \/ HTransact(h)

HSpec == HInit /\ [][HNext]_vars

-----------------------------------------------------------------------------
(* Properties *)

\* A mutation whose handler ran alone, from its commit to its reply, leaves
\* Keto equal to Postgres, whatever earlier failures, crashes and races left
\* there: SyncAll is a full rebuild.
SoloSyncIsExact == exact => Quiet /\ Synced

\* Keto never holds a membership, an inheritance edge or a grant that no
\* committed configuration had, in spite of snapshots torn across commits and
\* of interleaved rebuilds.
NoInventedTuples == Within(keto, ever)

\* When no request is in flight and none of this busy period failed, nothing
\* older than the busy period is left in Keto: racing rebuilds may leave a mix
\* of the configurations they raced over, but each of them has first cleared
\* both namespaces.
NothingOlderSurvives == Quiet /\ clean => Within(keto, era)

\* At every instant Keto either answers every Check with false, having no grant
\* or no membership, or holds all of the snapshot that was inserted last, its
\* denies with its allows: no Check sees half of a snapshot.
WholeSnapshotOrNothing ==
    keto.grants = {} \/ keto.members = {} \/ Within(last, keto)

\* So a deny is never missing at an instant at which a grant is there: whoever
\* Keto says is granted an action, and the snapshot inserted last denies it, is
\* denied it by Keto at that same instant.  Only an engine that asks the two
\* questions at two instants can see the grant without the deny.
DenyAccompaniesGrant ==
    \A uid \in UserIds, key \in GrantKeys :
        KetoCheck(keto, uid, key, FALSE) /\ KetoCheck(last, uid, key, TRUE)
            => KetoCheck(keto, uid, key, TRUE)

\* Nobody is under way, or one who has been alone so far, or several who overlapped.
Phase == IF Quiet THEN "stable"
         ELSE IF \E h \in Handlers : solo[h] /\ pc[h] # "idle" THEN "alone"
         ELSE "overlap"

Overlapping == INSTANCE OverlappingSync WITH called <- ever, phase <- Phase, assured <- exact

\* The separate reads of Postgres and the separate calls to Keto, of any number of
\* handlers at a time and with failures and crashes between them (api.go's sync,
\* store.go's Snapshot and client.go's SyncAll), amount to rebuilds of which each that
\* is alone is exact, and the others together add nothing that was not called for.
ImplementsOverlappingSync == Overlapping!OverlapSpec
=============================================================================
