------------------------------- MODULE SerialSync -------------------------------
(***************************************************************************)
(* KetoSync with its requests handled one at a time, against AtomicSync.   *)
(***************************************************************************)
EXTENDS KetoSync

TheHandler == CHOOSE h \in Handlers : TRUE

Atomic == INSTANCE AtomicSync WITH
              phase <- IF pc[TheHandler] = "idle" THEN "stable" ELSE "rebuilding",
              told <- reply[TheHandler]

\* One handler's separate reads of Postgres and separate calls to Keto, with
\* failures and crashes between them (api.go's sync, store.go's Snapshot and
\* client.go's SyncAll), amount to rebuilds that are atomic to the next client.
ImplementsAtomicSync == Atomic!AtomicSpec
=============================================================================
