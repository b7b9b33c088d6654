------------------------------ MODULE AdminConsole ------------------------------
(***************************************************************************)
(* The admin console: browser tabs that show the list of one entity, edit   *)
(* whole rows in dialogs and delete them, over the service's table.         *)
(*                                                                         *)
(* The five entity pages are one pattern; the rows here are roles.  A page  *)
(* is "roles", with its two dialogs, or "home", with the seed button; both  *)
(* watch the list.  What a row holds beside its id is a member of Contents. *)
(* The list is cached by React Query, which is external: a mutation that    *)
(* succeeds invalidates it, which drops the fetch in flight and starts a    *)
(* new one, except that a first load, while there is nothing cached, goes   *)
(* on and serves as the new one; a fetch that fails is retried once.        *)
(***************************************************************************)
EXTENDS Naturals

CONSTANTS
    Tabs, Ids, Contents,
    Absent, None,       \* no row; no dialog, no id, no call
    EmptyContent,       \* what a new form starts with
    SeedRows,           \* the table that a seed leaves
    Slots,              \* mutations that may be under way at once
    MaxCalls,           \* bound on mutations, of the tabs and of other clients
    MaxFaults           \* bound on refusals, failed syncs and failed fetches

Tables == [Ids -> Contents \cup {Absent}]
Versions == [rows : Tables, at : Nat]
NoVersion == [rows |-> [i \in Ids |-> Absent], at |-> 0]

Forms == [id : Ids \cup {None}, content : Contents, isNew : BOOLEAN, touched : BOOLEAN]
Calls == [tab : Tabs, kind : {"put", "delete", "seed"}, id : Ids \cup {None},
          content : Contents, stage : {"sent", "answered"}, ok : BOOLEAN,
          at : Nat, attached : BOOLEAN]
\* "overlooks" is history: the first load was read before a change of which the tab
\* was told while that load was under way; and so it stays until the next fetch.
Fetches == [stage : {"idle", "sent", "read"}, got : Versions, retried : BOOLEAN,
            overlooks : BOOLEAN]
Idle == [stage |-> "idle", got |-> NoVersion, retried |-> FALSE, overlooks |-> FALSE]
Refetch == [Idle EXCEPT !.stage = "sent"]
\* The status is how the last fetch that ended went; "loaded" says that one brought data.
Lists == [status : {"loading", "ready", "error"}, loaded : BOOLEAN, data : Versions]

ASSUME ConsoleAssumption ==
    /\ MaxCalls \in Nat /\ MaxFaults \in Nat
    /\ Absent \notin Contents
    /\ None \notin Ids /\ None \notin Forms /\ None \notin Calls
    /\ EmptyContent \in Contents
    /\ SeedRows \in Tables

VARIABLES
    server,     \* the table, with the number of commits that made it
    page,       \* of each tab
    list,       \* what each tab's cache holds of the table, if anything, and its status
    fetch,      \* each tab's fetch of the list
    editing,    \* the row in each tab's form dialog
    deleting,   \* the row in each tab's confirmation dialog
    calls,      \* the mutations under way
    sent,       \* how many mutations there were so far
    faults,     \* how many faults there were
    acked       \* history: the newest commit of which a tab was told "saved"

consoleVars == <<server, page, list, fetch, editing, deleting, calls, sent, faults, acked>>
dialogs == <<editing, deleting>>
serviceVars == <<server, calls, sent, faults, acked>>

ConsoleTypeOK ==
    /\ server \in Versions
    /\ page \in [Tabs -> {"roles", "home"}]
    /\ list \in [Tabs -> Lists]
    /\ fetch \in [Tabs -> Fetches]
    /\ editing \in [Tabs -> Forms \cup {None}]
    /\ deleting \in [Tabs -> Ids \cup {None}]
    /\ calls \in [Slots -> Calls \cup {None}]
    /\ sent \in 0..MaxCalls /\ faults \in 0..MaxFaults
    /\ acked \in [Tabs -> Nat]

ConsoleInit ==
    /\ server \in {[rows |-> table, at |-> 0] : table \in Tables}
    /\ page = [t \in Tabs |-> "roles"]
    /\ list = [t \in Tabs |-> [status |-> "loading", loaded |-> FALSE, data |-> NoVersion]]
    /\ fetch = [t \in Tabs |-> Refetch]
    /\ editing = [t \in Tabs |-> None] /\ deleting = [t \in Tabs |-> None]
    /\ calls = [s \in Slots |-> None]
    /\ sent = 0 /\ faults = 0
    /\ acked = [t \in Tabs |-> 0]

-----------------------------------------------------------------------------
(* Dialogs *)

Attached(s, t, kind) == calls[s] # None /\ calls[s].tab = t /\ calls[s].kind = kind
                        /\ calls[s].attached
Pending(t, kind) == \E s \in Slots : Attached(s, t, kind)

\* The dialogs are modal: what is behind an open one cannot be clicked.
NoDialog(t) == page[t] = "roles" /\ editing[t] = None /\ deleting[t] = None
Shown(t, id) == list[t].status = "ready" /\ list[t].data.rows[id] # Absent

OpenForm(t, id, content, isNew) ==
    /\ NoDialog(t)
    /\ editing' = [editing EXCEPT ![t] =
           [id |-> id, content |-> content, isNew |-> isNew, touched |-> Pending(t, "put")]]
    /\ UNCHANGED <<serviceVars, page, list, fetch, deleting>>

\* Faulty variant: EMPTY lacks the fields beside the id.
OpenNewBare(t) == OpenForm(t, None, None, TRUE)

OpenNew(t) == OpenForm(t, None, EmptyContent, TRUE)
OpenEdit(t) == \E id \in Ids : Shown(t, id)
                               /\ OpenForm(t, id, list[t].data.rows[id], FALSE)

\* The fields stay enabled while a save is pending; the id of a stored row is fixed.
Type(t) ==
    /\ editing[t] # None
    /\ \E id \in Ids, content \in Contents :
           /\ editing[t].isNew \/ id = editing[t].id
           /\ editing' = [editing EXCEPT ![t].id = id, ![t].content = content,
                                         ![t].touched = @ \/ Pending(t, "put")]
    /\ UNCHANGED <<serviceVars, page, list, fetch, deleting>>

\* Escape and the overlay close a dialog, pending or not.
Dismiss(t) ==
    /\ editing[t] # None \/ deleting[t] # None
    /\ editing' = [editing EXCEPT ![t] = None]
    /\ deleting' = [deleting EXCEPT ![t] = None]
    /\ UNCHANGED <<serviceVars, page, list, fetch>>

AskDelete(t) ==
    /\ NoDialog(t)
    /\ \E id \in Ids : Shown(t, id) /\ deleting' = [deleting EXCEPT ![t] = id]
    /\ UNCHANGED <<serviceVars, page, list, fetch, editing>>

-----------------------------------------------------------------------------
(* Mutations *)

Send(t, kind, id, content) ==
    /\ ~Pending(t, kind)
    /\ sent < MaxCalls /\ sent' = sent + 1
    /\ \E s \in Slots :
           /\ calls[s] = None
           /\ calls' = [calls EXCEPT ![s] =
                  [tab |-> t, kind |-> kind, id |-> id, content |-> content,
                   stage |-> "sent", ok |-> FALSE, at |-> 0, attached |-> TRUE]]
    /\ UNCHANGED <<server, page, list, fetch, deleting, faults, acked>>

Submit(t) ==
    /\ editing[t] # None /\ editing[t].id # None
    /\ Send(t, "put", editing[t].id, editing[t].content)
    /\ editing' = [editing EXCEPT ![t].touched = FALSE]

ConfirmDelete(t) ==
    /\ deleting[t] # None
    /\ Send(t, "delete", deleting[t], EmptyContent)
    /\ UNCHANGED editing

SeedPrototype(t) ==
    /\ page[t] = "home"
    /\ Send(t, "seed", None, EmptyContent)
    /\ UNCHANGED editing

Applied(c) ==
    CASE c.kind = "put" -> [server.rows EXCEPT ![c.id] = c.content]
      [] c.kind = "delete" -> [server.rows EXCEPT ![c.id] = Absent]
      [] OTHER -> SeedRows

\* The service commits, and answers 2xx only if the sync went well too.
Serve(s) ==
    /\ calls[s] # None /\ calls[s].stage = "sent"
    /\ server' = [rows |-> Applied(calls[s]), at |-> server.at + 1]
    /\ \E ok \in BOOLEAN :
           /\ faults' = (IF ok THEN faults ELSE faults + 1) /\ faults' <= MaxFaults
           /\ calls' = [calls EXCEPT ![s].stage = "answered", ![s].ok = ok,
                                     ![s].at = server.at + 1]
    /\ UNCHANGED <<page, list, fetch, dialogs, sent, acked>>

\* Another client of the service changes a row.
ServeOthers ==
    /\ sent < MaxCalls /\ sent' = sent + 1
    /\ \E id \in Ids, content \in Contents \cup {Absent} :
           server' = [rows |-> [server.rows EXCEPT ![id] = content], at |-> server.at + 1]
    /\ UNCHANGED <<page, list, fetch, dialogs, calls, faults, acked>>

\* The request fails before it commits anything.
Refuse(s) ==
    /\ calls[s] # None /\ calls[s].stage = "sent"
    /\ faults < MaxFaults /\ faults' = faults + 1
    /\ calls' = [calls EXCEPT ![s].stage = "answered"]
    /\ UNCHANGED <<server, page, list, fetch, dialogs, sent, acked>>

\* The proxy rebuilds the answer with a body, which the constructor of Response
\* refuses for the status 204 of a delete: its catch answers 502 instead.
Forwarded(c) == c.ok /\ c.kind # "delete"

\* Faulty variant: the dialog is closed in onSettled, whatever the answer.
SettleAlways(s) ==
    /\ calls[s] # None /\ calls[s].stage = "answered"
    /\ LET c == calls[s] t == c.tab IN
       /\ calls' = [calls EXCEPT ![s] = None]
       /\ fetch' = (IF Forwarded(c) THEN [fetch EXCEPT ![t] = Refetch] ELSE fetch)
       /\ acked' = (IF Forwarded(c) /\ acked[t] < c.at THEN [acked EXCEPT ![t] = c.at]
                                                      ELSE acked)
       /\ editing' = (IF c.attached /\ c.kind = "put" THEN [editing EXCEPT ![t] = None]
                                                     ELSE editing)
       /\ UNCHANGED <<server, page, list, deleting, sent, faults>>

\* The mutation fails: a toast, and the dialog stays open on what was typed.
SettleError(s) ==
    /\ calls[s] # None /\ calls[s].stage = "answered" /\ ~Forwarded(calls[s])
    /\ calls' = [calls EXCEPT ![s] = None]
    /\ UNCHANGED <<server, page, list, fetch, dialogs, sent, faults, acked>>

\* The fetch under way goes on, and serves as the refetch.
Join(t) == [fetch[t] EXCEPT
                !.overlooks = @ \/ (fetch[t].stage = "read" /\ ~list[t].loaded)]

\* Faulty variant: any fetch that is already under way serves as the refetch.
InvalidateJoins(t) == IF fetch[t].stage = "idle" THEN Refetch ELSE Join(t)

\* Faulty variant: a success leaves the cached list as it is.
InvalidateNothing(t) == fetch[t]

\* A fetch in flight is dropped for a new one only once there are data; the first
\* load is joined, and its answer counts as fresh.
Invalidate(t) == IF list[t].loaded \/ fetch[t].stage = "idle" THEN Refetch ELSE Join(t)

\* The mutation succeeds: the list is invalidated even if the page was left, and
\* whatever dialog of that kind is open on the page is closed if it was not.
SettleSuccess(s) ==
    /\ calls[s] # None /\ calls[s].stage = "answered" /\ Forwarded(calls[s])
    /\ LET c == calls[s] t == c.tab IN
       /\ calls' = [calls EXCEPT ![s] = None]
       /\ fetch' = [fetch EXCEPT ![t] = Invalidate(t)]
       /\ acked' = [acked EXCEPT ![t] = IF @ < c.at THEN c.at ELSE @]
       /\ editing' = (IF c.attached /\ c.kind = "put" THEN [editing EXCEPT ![t] = None]
                                                     ELSE editing)
       /\ deleting' = (IF c.attached /\ c.kind = "delete" THEN [deleting EXCEPT ![t] = None]
                                                          ELSE deleting)
       /\ UNCHANGED <<server, page, list, sent, faults>>

Settle(s) == SettleSuccess(s) \/ SettleError(s)

-----------------------------------------------------------------------------
(* The cached list *)

ListServed(t) ==
    /\ fetch[t].stage = "sent"
    /\ fetch' = [fetch EXCEPT ![t].stage = "read", ![t].got = server]
    /\ UNCHANGED <<serviceVars, page, list, dialogs>>

ListArrives(t) ==
    /\ fetch[t].stage = "read"
    /\ list' = [list EXCEPT ![t] = [status |-> "ready", loaded |-> TRUE,
                                    data |-> fetch[t].got]]
    /\ fetch' = [fetch EXCEPT ![t] = [Idle EXCEPT !.overlooks = fetch[t].overlooks]]
    /\ UNCHANGED <<serviceVars, page, dialogs>>

\* Faulty variant: an error forgets the data of the last successful fetch.
FetchFailsForgets(t) ==
    /\ fetch[t].stage # "idle"
    /\ faults < MaxFaults /\ faults' = faults + 1
    /\ fetch' = [fetch EXCEPT ![t] = Idle]
    /\ list' = [list EXCEPT ![t] = [status |-> "error", loaded |-> FALSE,
                                    data |-> NoVersion]]
    /\ UNCHANGED <<server, page, dialogs, calls, sent, acked>>

\* A failure is retried once; after that the page shows an error.
FetchFails(t) ==
    /\ fetch[t].stage # "idle"
    /\ faults < MaxFaults /\ faults' = faults + 1
    /\ \/ /\ ~fetch[t].retried
          /\ fetch' = [fetch EXCEPT ![t] = [Refetch EXCEPT !.retried = TRUE]]
          /\ UNCHANGED list
       \/ /\ fetch[t].retried
          /\ fetch' = [fetch EXCEPT ![t] = Idle]
          /\ list' = [list EXCEPT ![t].status = "error"]
    /\ UNCHANGED <<server, page, dialogs, calls, sent, acked>>

\* Another page: its dialogs are closed, its mutations go on without it, and a
\* list older than staleTime is fetched anew if it is not being fetched.
Navigate(t) ==
    /\ page' = [page EXCEPT ![t] = IF @ = "roles" THEN "home" ELSE "roles"]
    /\ editing' = [editing EXCEPT ![t] = None]
    /\ deleting' = [deleting EXCEPT ![t] = None]
    /\ calls' = [s \in Slots |-> IF calls[s] # None /\ calls[s].tab = t
                                 THEN [calls[s] EXCEPT !.attached = FALSE] ELSE calls[s]]
    /\ \/ UNCHANGED fetch
       \/ fetch[t].stage = "idle" /\ fetch' = [fetch EXCEPT ![t] = Refetch]
    /\ UNCHANGED <<server, list, sent, faults, acked>>

-----------------------------------------------------------------------------
(* Specification *)

TabStep(t) == \/ OpenNew(t) \/ OpenEdit(t) \/ Type(t) \/ Dismiss(t) \/ AskDelete(t)
              \/ Submit(t) \/ ConfirmDelete(t) \/ SeedPrototype(t) \/ Navigate(t)
              \/ ListServed(t) \/ ListArrives(t) \/ FetchFails(t)
CallStep(s) == Serve(s) \/ Refuse(s) \/ Settle(s)

ConsoleNext == \/ \E t \in Tabs : TabStep(t)
               \/ \E s \in Slots : CallStep(s)
               \/ ServeOthers
ConsoleSpec == ConsoleInit /\ [][ConsoleNext]_consoleVars

\* Requests are answered, by the service or by an error; administrators may idle.
ConsoleFairSpec ==
    /\ ConsoleSpec
    /\ \A s \in Slots : WF_consoleVars(CallStep(s))
    /\ \A t \in Tabs : WF_consoleVars(ListServed(t) \/ ListArrives(t))

-----------------------------------------------------------------------------
(* Properties *)

\* A list that is shown, and is not being fetched, holds every change of which
\* this tab was told "saved": an older answer never replaces it.  The one exception
\* is the answer of a first load that was read before a change and came after the
\* tab was told of it (crudHooks' invalidateQueries joins that load); it lasts
\* until the list is next fetched.
OwnWritesVisible ==
    \A t \in Tabs :
        list[t].status = "ready" /\ fetch[t].stage = "idle" /\ ~fetch[t].overlooks
            => list[t].data.at >= acked[t]

\* A fetched list never takes a tab back to an older state of the table.
ListNeverGoesBack ==
    [][\A t \in Tabs : list'[t].data.at >= list[t].data.at]_consoleVars

\* When an answer closes a form, what the form held was saved and synchronised;
\* except for what was typed, or opened, while that save was under way.
ClosedMeansSaved ==
    [][\A t \in Tabs :
          /\ editing[t] # None /\ editing'[t] = None
          /\ \E s \in Slots : Settle(s) /\ calls[s].tab = t
          => \/ editing[t].touched
             \/ \E s \in Slots : /\ calls[s] # None /\ calls'[s] = None
                                 /\ calls[s].ok /\ calls[s].at > 0
                                 /\ calls[s].id = editing[t].id
                                 /\ calls[s].content = editing[t].content]_consoleVars

\* A change of which a tab was told is in its list in the end, or the page says
\* that the list could not be loaded, or the tab was told during a first load
\* that had been read before.
SavedIsShown ==
    \A t \in Tabs, n \in 1..MaxCalls :
        acked[t] = n ~> \/ list[t].data.at >= n
                        \/ list[t].status = "error" \/ fetch[t].overlooks

\* crud.ts: "Mutations on the Go service trigger a Keto resync server-side, so
\* callers just refetch": when a mutation that the service completed has been
\* answered, a fetch of the list is at least under way.
CompletedMutationRefetches ==
    [][\A s \in Slots : calls[s] # None /\ calls[s].ok /\ calls'[s] = None
          => fetch'[calls[s].tab].stage # "idle"]_consoleVars
=============================================================================
