# KAM in TLA+

KAM is an access-control service: administrators keep resource types, items,
ABAC conditions, roles and users in Postgres, the service mirrors the role part
of that configuration into Ory Keto as relation tuples, and callers ask whether
a user may perform an action (`POST /v1/check`). This directory specifies the
service, model-checks it on small instances with TLC and proves its main
invariants for every instance with TLAPS.

Paths below are relative to `src/`.

## 1. The system

| Component | State | Operations | Talks to |
|---|---|---|---|
| HTTP API (`internal/httpapi/api.go`) | none; one goroutine per request | PUT, DELETE of five entities, seed, check, expand, GETs | store, Keto client, engine |
| Store (`internal/store/store.go`) | five tables in Postgres | Upsert, Delete, ReplaceAll, Snapshot, lookups | Postgres |
| Keto client (`internal/keto/client.go`) | none | SyncAll, Check, CheckDeny | Keto over gRPC |
| Keto with the OPL model (`keto/opl/permissions.ts`) | relation tuples of the namespaces Role and Resource | delete by namespace, transact, check | - |
| Engine (`internal/engine/engine.go`) | none | Decide, ExpandUser | store, Keto client |
| Model (`internal/model/model.go`) | - | rows, JSON codec of a grant effect | - |
| Start-up (`cmd/server/main.go`) | - | wait for Postgres, serve; no sync | store |
| SDK and guard (`pkg/sdk`, `pkg/middleware`) | - | HTTP client; block a request unless allowed | HTTP API |
| Admin console, lists and dialogs (`frontend/src`) | React Query caches, open dialogs | list, edit, save, delete | HTTP API through a proxy |
| Admin console, forms, playground, effective grants | a copy of one row; what is picked | the controls of each form, the codec of effects | the lists of the other entities |
| Prototype (`access-control.html`) | one in-memory DB | `decide()`, ported by the engine | - |

How a mutation runs: the handler commits one statement (or, for seed, one
transaction) to Postgres; `API.sync` then reads the tables by separate queries
(`Store.Snapshot`), and `SyncAll` deletes the namespace Resource, deletes the
namespace Role, and inserts every tuple of the snapshot in one transaction. A
failure at any of these steps is answered with 500 and undoes nothing. There is
no lock, no version and no retry, and no sync at start-up.

How a check runs: `Decide` reads the user, the resource type, all roles and all
conditions from Postgres, computes the effective grant from them, asks Keto
`CheckDeny` and then `Check`, and, when the grant is conditional, reads the item
and evaluates the conditions. A deny reported by Keto, or no grant reported by
Keto, is final; what the grant says otherwise comes from Postgres.

What makes it hard: two stores with no common transaction; rebuilds that empty
Keto before they fill it; rebuilds of concurrent requests that interleave; reads
of a decision spread over seven moments; two notions of role inheritance (a Go
loop over parents, and Keto's nested groups) that must agree, and two notions of
deny (nearest role wins in the loop, any reachable deny in Keto) that do not.

What makes each component correct:

* sync: an acknowledged mutation is what Keto holds; nothing invented, nothing
  half done is ever visible; a full rebuild heals whatever was there before;
* tuples and Keto: a check answers what the rows say, cycles, missing parents
  and missing roles included;
* merge and precedence: nearest role on a chain, deny over everything between
  roles, otherwise the last role;
* decision: README's precedence when nothing moves, and a bound on what a race
  may allow;
* conditions: operators that do not contradict each other, and that come out as
  in the prototype they are ported from;
* console: lists that do not go back behind a change the administrator was told
  of, and dialogs that close only on what was saved;
* forms: a form shows a part of a row and puts the whole of it, so what it does
  not show must come through unchanged; what it shows must be what decides;
* guard: nothing but an allow to its own question lets a request through.

`PROJECT.json` lists the hazards, each at its line, with the properties that
watch it.

## 2. The modules

| Module | Models | Uses |
|---|---|---|
| `Rbac` | rows, tuples, Keto's answer, the engine's merge and precedence (operators only) | - |
| `KetoSync` | mutating handlers, sync, failures, crashes | extends `Rbac` |
| `AtomicSync` | the promise: a rebuild is one step, or fails and only lacks tuples | - |
| `SerialSync` | one handler at a time, against `AtomicSync` (refinement mapping) | extends `KetoSync`, instance of `AtomicSync` |
| `OverlappingSync` | the promise for any number of requests at a time | - |
| `KetoSyncHistory` | the handlers with history variables, for statements about races; against `OverlappingSync` (refinement mapping) | extends `KetoSync`, instance of `OverlappingSync` |
| `Decide` | the whole service: checks beside mutations | extends `KetoSyncHistory` |
| `Guard` | a service behind `middleware.Guard` and the SDK, over the whole of KAM | extends `Decide` |
| `Verdict` | one decision when nothing moves, over every small configuration; the page of effective grants | extends `Rbac` |
| `AbacRules` | values, operators, the attribute bag, one condition, beside the prototype's (operators only) | - |
| `Abac` | one conditional grant while its three rows are rewritten | extends `AbacRules` |
| `FormRows` | the rows in the five forms, what each control makes of them, the codec of effects (operators only) | extends `Rbac`, `AbacRules` |
| `Forms` | an administrator's page, form and playground, beside other clients | extends `FormRows` |
| `AdminConsole` | browser tabs over the service: cached lists, dialogs, saves, deletes, seed | - |
| `MCKetoSync`, `MCSerialSync`, `MCKetoSyncHistory`, `MCDecide`, `MCGuard`, `MCVerdict`, `MCAbac`, `MCForms`, `MCAdminConsole` | the inputs for TLC | |
| `RbacProofs`, `VerdictProofs`, `KetoSyncProofs`, `HistoryProofs`, `GuardProofs` (with those about `Decide`), `AbacProofs`, `FormsProofs`, `AdminConsoleProofs` | theorems | |

### Rbac

A grant key `"<resourceKey>:<action>"` is the pair it splits into. A role row
keeps `parent` and `grants`; a user row is the sequence of role ids. Tuples are
three sets: `members` (user, role), `nested` (child, parent), and `grants` with
a `deny` flag for the `deny_` relations. `KetoMember` is the least set of roles
closed under nested groups, stated as "in every closed set", because a least
fixed point in that form needs no recursion and can be proved about. `ChainTurn`
is one turn of `roleChain`'s loop and `RoleChain` the chain after as many turns as
there are rows; that no turn is left then is a theorem, since the code's loop has no
such bound. A table may be for any set of ids and has finitely many rows.
`NearestHolder` is the role whose grant survives the overwriting in
`effectiveRoleGrants`, and `EffectiveUserGrant` folds the merge along the user's
row. `MatchOf` is Go's `grants[key]`: a missing entry yields the zero Grant, whose
kind is `EffectAllow`.

Every faulty variant of an operator or action is defined before it, under a name
of its own, with the comment "Faulty variant"; the mutants of `PROJECT.json` put
it in the place of the original and TLC must then refute the property.

### KetoSync

`pc[h]` says which call handler `h` makes next. `Accept` with one of the
mutations is decoding and commit; `ReadRoles`, `ReadUsers` are the two queries
of `Snapshot` whose rows reach Keto (the three before them read tables that do
not, and commute with everything); `ClearResource`, `ClearRole`, `Transact` are
the three calls of `SyncAll`; `Finish` is the reply. `Fail` stands for an error
or a cancelled context at any of these calls; a call that took effect and yet
reported an error is that call's action followed by `Fail`. `Crash` ends every
request, and Postgres and Keto keep their contents. A request refused before its
commit changes nothing and is not an action.

### AtomicSync and SerialSync

`AtomicSync` is what a client may believe while requests are handled one at a
time. Its state is the configuration, the tuples, whether a rebuild is under way,
and what the last client was told. A commit replaces the configuration; the
rebuild may take tuples away (`Shrink`) and ends by making Keto exactly what the
configuration calls for and saying "ok", or by saying "failed". `SerialSync` maps
`KetoSync` to it: `phase` is whether the handler is idle, `told` is its reply, and
the other variables are themselves. The two reads of the snapshot are stuttering
steps; the two deletions are `Shrink`; a crash is `GiveUp`.

### OverlappingSync and KetoSyncHistory

Records, beside the actions: `ever` and `era` (tuples of every configuration
committed so far, and of those committed in the current busy period), `clean`
(no failure in the period), `last` (the snapshot inserted last), `solo` and
`exact` (whether the request just finished was alone). No guard reads them.

`OverlappingSync` is what remains of the promise when requests overlap, as they may.
Its phase is "stable", "alone" or "overlap". A mutation that has been alone from its
commit to its end makes Keto exact (`Complete`), and `assured` says that this was the
latest event; while mutations overlap, one that ends may add tuples that some
configuration called for (`Mix`); otherwise Keto only loses tuples. `Phase` maps the
handlers to it, for any number of them. `AtomicSync` is the special case of requests
that never overlap, with what the client is told.

### Decide

One action per call of `engine.Decide`. `seen[c]` holds what the check has read;
of the roles only the effective grant is kept, since the code uses them for
nothing else but the trace. A condition row is abstracted to the set of
attribute sources under which its rule holds for this request: the item's
values, or the type's defaults when the item does not exist or could not be
read. `SyncPart`, `SyncFault` and the mutations are the actions of
`KetoSyncHistory`, so `Decide` implements it by construction of its variables;
`DecideRefinesSync` proves that.

### Guard

Each slot for a check can carry a guarded request. `gate[c]` is what became of
it, with the question that the guard asked, kept as history. `GuardAsk` is Guard
up to the call of the SDK and is at the same time the arrival of the check at KAM
(`Ask`); `AnswerArrives` is the rest of Guard, for each of the three kinds of
answer: a decision to allow, a decision to deny, or an error, which is every
status outside 2xx. `GiveUp` is a lost connection or the SDK's timeout of ten
seconds; KAM may go on with the check, and other clients' checks use the slot
meanwhile. `Kam` is any step of `Decide` that does not start a new check in a slot
whose answer is awaited.

### Verdict

The state is one input: the roles table, the subject's row, the conditions that
hold. `DecideSynced` is `Decide` with Keto equal to Postgres, `PrototypeDecide`
is `decide()` of `access-control.html`. The two evaluate a condition differently in
places, so each has its own set of conditions that hold, `passing` and `passingJs`,
and the run has every pair of sets. `Expand` is `ExpandUser` for one key: the
effective grant with its source, the assigned role it came by and whether the two
differ; `ExpandLines` is what the console's table shows of it. Roles are named by
their ids there, where the code uses their names.

### AbacRules and Abac

The state of `Abac` is the three rows that a conditional grant is judged on,
rewritten at any time: what the resource type declares, the item, the condition.
`AbacRules` has the operators, which `FormRows` uses as well. A value is missing, a
number, a flag or a text; `ToStr`, `ToFloat`, `ApplyOp`, `ResolveItemAttr` and `Attr` follow the functions of `engine.go` with those
names (`Attr` is one entry of `buildAttrs`), `JsString`, `JsFloat` and
`PrototypeOp` the prototype's. How numbers are printed and texts are parsed in
the two languages is given by the tables `GoText`, `JsText`, `GoNumber`,
`JsNumber`, of which only this is assumed: what Go prints of a number it parses
back to that number, and it refuses the empty text. A missing value is an absent
key; numbers are integers; infinities do not occur. The clearance, an `int`, is
printed like the numbers of attributes, `float64`s; the two differ from 10^6 on,
and the clearance in the runs is 2.

### FormRows and Forms

`db` is the five tables. A form is a copy of a whole row; each control is a set of
rows that one event makes of the row, given the options that it shows: `TypeEdits`,
`ItemEdits`, `ConditionEdits`, `RoleEdits` with `KindPicks` and `ConditionPicks`
(the grant matrix), `UserEdits`. `Without` is JavaScript's `filter`, with which a
menu takes a value out and the properties leave out what a form has shown. `Shown` is what page, tables and row make the form
show; `form.seen` accumulates it as history, and so does `form.kinds` the grants
whose kind was picked. `Save` puts the whole row through the console's and the
service's codec (`RoleToWire`, `JsEncode`, `Decode`); `OpenEdit` reads it through
the other direction (`RoleFromWire`, `GoEncode`). `Delete` and `OtherPut` are this
administrator's or anybody's. `FieldText` is the field of one declaration: a type that
declares a key twice gives the item's form two fields, with one override and two
placeholders. The playground has what is picked, the question under way and the
verdict; what is picked stays when the lists change. `Allowed` is what `Decide`
answers, with every condition evaluated by `AbacRules`.

What is left out: names, labels, and the columns of a user beside the roles, so
all users have the attributes `Subject`; the order of a type's actions; an explicit
JSON null among an item's overrides. Lists are up to date and a save is one step,
since `AdminConsole` has the delays and failures; Keto is in step with the tables,
since `Decide` has the races.

### AdminConsole

The five entity pages are one pattern with different fields; the model is the
roles page, with a row's fields beside the id as one value. A tab has a page, a
cached list with its status, at most one fetch in flight, a form dialog and a
confirmation dialog. `calls` are the mutations under way; `attached` says whether
the page that sent one is still mounted, since the callback that closes the
dialog runs only then, while the one that invalidates the list always runs.
`Serve` commits and answers 2xx or, if the sync or the way back fails, an error;
`Refuse` fails before the commit. `ServeOthers` is any other client. `Forwarded`
is the proxy. `Invalidate` is `invalidateQueries`: once a list has data, a fetch in
flight is dropped for a new one; before that (`loaded`), the fetch in flight goes on
and its answer counts as the refetch (`Join`). `server.at`, `list.data.at`, `acked`
and the mark `overlooks` are history; no guard reads them. React Query (one fetch at
a time, retried once, cancelled by an invalidation if there are data) and Radix (modal dialogs that Escape closes) are external, modelled
as `query-provider.tsx` and the pages configure and use them.

## 3. The runs

| Run | Expect | What it asks | Size |
|---|---|---|---|
| `SyncSerial` | pass | one handler, 3 mutations, 2 faults: `AckedMeansSynced`, `ImplementsAtomicSync`, `Settles` | 11 thousand states |
| `SyncHistory` | pass | two handlers, 3 mutations, 1 fault: the safety that races leave, `ImplementsOverlappingSync` | 1.2 million |
| `Verdict` | pass | 3 roles, rows of up to 2 roles, one condition judged by either | 82 thousand, up to renaming roles |
| `VerdictPrototype` | violation | the same inputs: `MatchesPrototype` | |
| `Decide` | pass | two handlers, one check, guarded or not, 2 mutations, 1 fault | 3.9 million |
| `DecideDenyLost` | violation | one handler, one check: `DenyBeatsAllow` | |
| `DecideUngranted` | violation | two handlers, 3 mutations, one check: `NoGrantNoAllow` | |
| `Abac` | pass | 12 declarations, 12 items or none, every operator on attributes and 5 literals | 39 thousand |
| `Console` | pass | one tab, 2 mutations of it or of others, 2 faults | 0.6 million |
| `ConsoleDelete` | violation | one tab, one mutation, no fault: `CompletedMutationRefetches` | |
| `Forms` | pass | one form opened, one change elsewhere, the playground | 1.4 million |
| `FormsOps` | violation | the same inputs: `OperatorsAreTheEngines` | |

The bounds and why they are enough. Two roles, one user, one grant key make
every kind of tuple and one inheritance edge; a deny, an allow and an inheriting
role can each be written. Two handlers give every interleaving of two rebuilds;
a third mutation lets a handler start while the other is stuck between clear and
insert, or repair what two others left. One fault puts a failure or a crash at
every point. In `Verdict` three roles give chains of length three, cycles of
length one to three, a parent that is missing, and two roles of a user that
share an ancestor; the 480 thousand inputs are all there are. The ids of roles are
symmetric: no operator or property tells one from another. `Abac` has a
number on either side of the subject's clearance, one that Go prints with an
exponent, a text that only JavaScript parses, one that neither does, a blank, a
flag and a list. `Console` needs two mutations for a save that outlives its page
beside a second one, or a change elsewhere beside a save, and two faults for a
fetch that fails for good; another tab is one more client to the first, which
`ServeOthers` is. It starts before the first load, so saves during that load are
among its states. `Forms` has two types, roles and
conditions, of which one of each may be missing though it is referred to, an item
that overrides an attribute nobody declares, and a user with both roles; a form
lives on one page and is closed by leaving it, so one form and one change elsewhere
(`MaxOpens`, `MaxOthers`) bring every control together with every list that changes
under it; two declared attributes (`MaxDecls`) make a duplicate key. Its texts are
an empty one, a number, a name of an attribute, and what `true`, `false` and an
absent value print as. The tables start from two configurations, and everything a
form or another client can put is reached from there. `CHECK_DEADLOCK`
is off in the runs with a bound on mutations, where the system stops once the
clients do.

Fairness. `FairSpec` assumes weak fairness of each handler's own steps: a
goroutine is scheduled, and Postgres and Keto answer. Nothing is assumed of
clients, and nothing about `Fail` or `Crash`. `ConsoleFairSpec` assumes that every
request of a tab comes to an answer or an error, and nothing of administrators.
`Settles` and `SavedIsShown` are the liveness properties.

### What the violations show

* `DecideDenyLost`. `CheckDeny` is asked while Keto is empty, `Check` after the
  insert; a user whom every configuration denies is allowed. `DenyAccompaniesGrant`
  holds at every single instant, so asking both at one snapshot of Keto is enough.
* `DecideUngranted`. The union of two snapshots connects a user to a grant that
  no configuration gave; Postgres has no match; the zero Grant is `EffectAllow`,
  and `hasMatch` is not consulted on this path. `MatchExistsWhenReachable` says
  that this never happens while Keto equals Postgres. It takes the race that breaks
  `AckedMeansSynced` for two handlers: both read their snapshots, both clear, both
  insert; either the older snapshot is inserted last over an already cleared Keto,
  or the union of both stays, both clients got 200, and nobody syncs until the next
  mutation. `SoloSyncIsExact` and `ImplementsOverlappingSync` say, for any number of
  handlers, that a request which nobody overlaps is not concerned.
* `VerdictPrototype`. A role that allows below an ancestor that denies: the
  prototype (and the comment in the engine) let the nearest role win, Keto
  reports the deny. `MatchesPrototype` speaks of inputs on which the two agree what
  conditions hold. `NeverLaxerThanPrototype` says, without that premise, that where
  the two precedences part Decide's is the stricter: it allows what the prototype
  refuses only when the grant has a condition that the engine passes and the prototype
  fails, as below.
* `ConsoleDelete`. The service answers a delete with 204; the proxy builds a new
  `Response` with that status and an empty text as body, which the constructor
  refuses; its `catch` says 502. The delete is done, the console says that it
  failed, keeps the dialog, and does not refetch. The deleted row stays in the
  list, where it can be edited and saved, which brings it back.
* `FormsOps`. A stored rule with the engine's `eq` is opened, an operator is picked
  from the menu, and the row is saved with one that the engine passes no rule with;
  a new condition starts with such a one. Of the eight operators on offer only `in`
  is one of the engine's.

Two departures have no run of their own. A save or a seed during a list's first load:
the answer of that load, if it was read before, is shown as fresh and lacks what was
just saved; `OwnWritesVisible` and `SavedIsShown` name it as their exception, and it
ends with the next fetch. A type that declares a key twice: the item's form shows the
first default in one field and the last in the other, and says of both that a blank
field inherits it; the last decides.

Where the port of `applyOp` departs from the prototype no run is spent either:
`clearance > x` with `x` missing, or a text, counts `x` as 0 in the engine and as
NaN in the prototype, so the one may pass what the other fails, and Decide may allow what the prototype
refuses; and numbers from
10^6 on, which Go prints as `1e+06`, equal no literal. `AgreesOnOrdinaryValues`
says that the two agree everywhere else.

## 4. The proofs

All are for any sets of handlers, checkers, roles, users, keys and any bounds;
the assumptions used are the named ASSUMEs of `Rbac`, `KetoSync`, `Decide`,
`Verdict`, `AbacRules`, `Abac`, `FormRows`, `Forms` and `AdminConsole` (marker
values are outside the sets they mark; inputs are rows; bounds are natural numbers).
Every invariant, and every property of a step, that a passing run checks is also
proved, but for those at the end of this section.

* `RbacProofs`, of tuples. `MemberMonotone`, `CheckMonotone`: more tuples, never
  fewer yeses. `NothingReachedWhileCleared`. `MembersInherit`,
  `MembersOnlyInherit`: nested groups add the members of a child to its parent, and
  nothing else.
* `RbacProofs`, of the engine's loops. `RoleChainIsAncestry`: the chain lists
  existing rows, none twice, each the parent of the one before it, and ends only at
  a root, a missing row or a role already listed. The invariant of the loop
  (`WalkInv`) is proved turn by turn, and a chain without repetition is no longer
  than the table, so the walk has ended after that many turns.
  `NearestHolderIsFirst`, and `UserGrantIsDenyElseLast` for the fold along a user's
  row of any length. From these `MembersAreResolved`: the least fixed point that
  Keto computes over nested groups and the engine's walk over parents find the same
  roles; `CheckIsResolved` and `MatchFitsReach` put it in terms of Check, CheckDeny
  and the grant in force.
* `VerdictProofs`: the run's six properties for every table, row and sets of
  conditions, from the theorems above. `NearestRoleAlwaysDecides` compares the walk
  with the ids reachable without passing a holder. `StricterThanPrototype` rests on
  `MatchFitsReach`: where Keto reports no deny, none is in force; the rest is the
  condition that the two judge differently. `ExpansionAlwaysExplains`: the page's
  merge and the check's come by the same grant, so a line that allows where the check
  denies leaves only a deny that Keto reaches, which is another role's.
* `KetoSyncProofs`. `TypeCorrect`. `Alone(h)`: while `h` is the only request in
  flight, what it has read equals the tables and what it has cleared is empty;
  `AloneStep` keeps it, and makes the insert exact. Nothing is assumed of the number
  of handlers.
* `HistoryProofs`. `NothingInvented` from `EverCovers`: a snapshot torn between
  two commits is within what was ever committed, table by table
  (`TornWithin`). `NeverHalfASnapshot` is inductive as it stands; `DenyWithGrant`
  follows from it and `CheckMonotone`. `SoloSyncExact` from `SoloInv`.
  `NothingOlderLeft` from `EraCovers`: in a clean busy period, grants from before
  it are still in Keto only while some handler has yet to clear Resource, and
  likewise for memberships and Role; when all is quiet no such handler is left.
  `OverlapsAsPromised` is the refinement, with `EverCovers` and `SoloInv` as
  invariants: a handler under way is alone or in an overlap as `solo` says
  (`OneSolo`), and each action's effect on the phase is a lemma (`PhaseOfMutate`,
  `PhaseOfPrepare`, `PhaseOfEnd`).
* `GuardProofs`, of the service. `DecideRefinesSync`: every step of the service is a
  step of `HSpec` or leaves its variables alone, so the theorems of `HistoryProofs`
  hold of it. `DecideTypeCorrect`. `AllowNeedsACommittedGrant`: the step that
  answers "allow" follows a positive `Check`, and Keto at that moment was within
  `ever`, which only grows. `ReachInit` and `ReachStep` are its two halves, which
  the guard's proof cites.
* `GuardProofs`, of the decision. `UndisturbedIsPolicy`: the inductive invariant
  `CalmInv` says, of a check that nothing has disturbed so far and at each of its
  seven steps, what it has read is what the tables say, Keto is in step with them,
  and the branches already passed are those that the precedence passes; the step
  that answers then answers as the precedence does. A commit, a rebuild or a fault
  sets the mark that takes the check out of the claim (`CalmDisturb`); all other
  steps leave both what it has read and what it is compared with (`CalmFrame`).
* `GuardProofs`, of the guard. `GuardRefinesDecide`: a step of the guarded service
  is a step of `DSpec` or leaves its variables alone. `GuardFailsClosed`: the
  inductive invariant `GateInv` ties the gate to the check it asked, for as long as
  it waits (the check in the slot is the guard's own, or its answer), which is what
  a late answer could break; then the answer "allow" has the reach that `ReachStep`
  gives it, and `ever` only grows while the request is served. `GuardTypeCorrect`.
* `AbacProofs`. `EqualNeverOrdered` rests on `PrintedAlikeComparedAlike`: the
  number a value compares as is a function of the text it prints as, flags aside.
  `UndeclaredNeverDecides` and `OrdinaryValuesAgree` are by cases on the kind of a
  value, for every table of conversions. `AbacTypeCorrect`.
* `FormsProofs`. The inductive invariant `FormsInv` has the kind of the tables, the
  shape of the form (`FormOK`), the three properties of what is hidden, and the fact
  they turn on: what a form shows now it has shown, so a control that edits a shown
  part never touches a part that was not seen. `HiddenRolesAreKept` rests on what
  `filter` computes for a sequence of any length (`WithoutAppend`, `WithoutTwice`).
  `CodecsAgree`: decoding what the service or the console encodes gives the effect
  back; `RolesTravel` lifts it to a role, hence `UntouchedSavesKeep`.
  `DeletingAdmitsNobody` rests on `LessIsAllowed`: fewer conditions hold and the
  grants are the same, or the type is gone. `FieldsShowWhatDecides`: a declared attribute
  has a default, the last that is declared, which is that of the field unless another
  declaration follows; an override that counts hides it; and a value that prints alike
  is compared as it is printed. `ItemsAskedFit` is by cases on the choices
  (`ChoicesFit`). `FormsTypeCorrect`: every edit makes a row of the form's page.
* `AdminConsoleProofs`. `OwnWritesAlwaysVisible` and `ListsGoForward`. The
  inductive invariant `Fresh` adds, to what is to be shown, that an answer which
  was read but has not arrived is no older than the list and than what the tab
  was told: an acknowledgement drops the answers it overtook, or marks them in a first
  load, which it joins. `ClosedFormsAreSaved`
  from `SaveMatches`: while a form is untouched since it was submitted, the save
  attached to it carries the id and the content that the form holds.

How the loops are proved. A loop, a fold and a search are recursive functions over
the turns or positions 0..n, and their induction is `LeastNatural`, from the
library's `NatLessThanWellFounded`: in a set of natural numbers that has an element
there is a least one, and a counterexample that is least has a predecessor that is
none (`Counting`, `CountingTo`). `FoldExists` gives a community-module fold its
equations. That is why the model has loops with a turn as a definition of its own,
and a `Without` in place of `SelectSeq`, whose definition recurses where the provers
cannot follow.

Only model-checked: `Settles` and `SavedIsShown`, which are liveness under fairness;
and `AckedMeansSynced` and `ImplementsAtomicSync`, which hold when requests do not
overlap, as in their run with one handler, and not in general: of the general case
`SoloSyncExact` and `OverlapsAsPromised` are the theorems.
The properties of the violation runs are false of the code and have no proof.

## 5. What is not modelled

* `Decide` and `Verdict` do not evaluate conditions: one holds or not, depending
  on the source of the attributes. `Abac` and `FormRows` evaluate them, with Keto in
  step. A condition's scope is never read by the engine, and no property speaks of it.
* The depth at which Keto gives up. A check asks for `checkMaxDepth`, 20
  (`internal/keto/client.go:25`), and `keto/keto.yml` sets no `limit.max_read_depth`,
  so Keto's default of 5 caps it, counting the step from a resource to `Role#members`.
  `KetoCheck` follows nested groups however deep. In a deeper hierarchy Keto may miss
  a grant, which refuses, or a deny, which admits; how it counts is external.
* Effects that no stored row decodes to (JSON null, a number), and lists that are
  null in a row: a service that stored them fails to read the table, and the
  console's pages fail to render. Action names that start with `deny_`, keys
  without a colon.
* Typing character by character: a field gets its text in one event. A default that
  is coerced at each keystroke loses the point of a decimal on the way.
* Names, labels, and the user's columns beside the roles; wording of traces and
  reasons; layout; the GET handlers, which only read (`GET /v1/resource-types/{key}`
  asks for a column `id` that its table does not have).
* The SDK's typed CRUD calls, one request each; the defaults and helpers of the
  guard's resolvers (an unlisted HTTP method is passed on as it is, where the comment
  says lower-cased).
* The bounded wait for Postgres at start-up (30 attempts), after which the process
  exits; the environment. The seed's rows are a constant.
* Lists that no page watches. Lost updates are behaviours of `AdminConsole`, the
  verdict left standing beside a new selection one of `Forms`, and so is a question
  about an item under the type it had before another client retyped it; the code
  promises nothing about them.
* Several server processes: they would behave as more handlers.
* Examples, container files and the prototype's own page.

## 6. The plan

1. Done: `Rbac`, `KetoSync`, `KetoSyncHistory`, `Decide`, `Verdict`, `AdminConsole`,
   `Abac`; then the atomic rebuild and its refinement (`AtomicSync`, `SerialSync`),
   `Guard`, the forms (`AbacRules`, `FormRows`, `Forms`), expansion in `Verdict`,
   overlapping rebuilds (`OverlappingSync`); and their proofs, with the loops of `roleChain` and of the merge, the
   undisturbed decision and the forms' rows among them.
2. `AdminConsole` composed with `KetoSync`: a tab's request as a handler, with the
   sync as it is; `Forms` over its lists.
3. Decisions beside mutations that do not overlap: no union of two snapshots reaches
   Keto then, so an allow should need a grant of one committed configuration, a
   sharper bound than `AllowedOnlyIfEverReachable`; as a property of `Decide`, then as
   a theorem from `SoloInv`.
4. Relation names: `deny_` as a prefix, and keys that do not split.
