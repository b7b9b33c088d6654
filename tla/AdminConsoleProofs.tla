--------------------------- MODULE AdminConsoleProofs ---------------------------
(***************************************************************************)
(* The admin console for any number of tabs, rows and mutations under way:  *)
(* its cached lists never go back, and never hide an acknowledged change;   *)
(* and a form that an answer closes was saved.                              *)
(***************************************************************************)
EXTENDS AdminConsole, TLAPS

-----------------------------------------------------------------------------
(* Type correctness *)

\* The table with no rows is a version.
LEMMA NoVersionType == NoVersion \in Versions
  BY DEF NoVersion, Versions, Tables

\* A fetch that idles, or has just been sent, is a fetch.
LEMMA FetchTypes == Idle \in Fetches /\ Refetch \in Fetches
                    /\ [Refetch EXCEPT !.retried = TRUE] \in Fetches
  BY NoVersionType DEF Idle, Refetch, Fetches

\* An invalidated list has a fetch.
LEMMA InvalidateType ==
    ASSUME ConsoleTypeOK, NEW t \in Tabs
    PROVE  Invalidate(t) \in Fetches
  <1>1. fetch[t] \in Fetches /\ list[t] \in Lists
    BY DEF ConsoleTypeOK
  <1>2. fetch[t].overlooks \/ (fetch[t].stage = "read" /\ ~list[t].loaded) \in BOOLEAN
    BY <1>1 DEF Fetches, Lists
  <1>3. Join(t) \in Fetches
    BY <1>1, <1>2 DEF Join, Fetches
  <1> QED BY <1>3, FetchTypes DEF Invalidate

\* What a mutation leaves is a table.
LEMMA AppliedType ==
    ASSUME ConsoleTypeOK, NEW s \in Slots, calls[s] # None
    PROVE  Applied(calls[s]) \in Tables
  <1>1. calls[s] \in Calls /\ server.rows \in Tables
    BY DEF ConsoleTypeOK, Versions
  <1>2. calls[s].content \in Contents
    BY <1>1 DEF Calls
  <1>3. [server.rows EXCEPT ![calls[s].id] = calls[s].content] \in Tables
    BY <1>1, <1>2 DEF Tables
  <1>4. [server.rows EXCEPT ![calls[s].id] = Absent] \in Tables
    BY <1>1 DEF Tables
  <1> QED BY <1>3, <1>4, ConsoleAssumption DEF Applied

\* The dialogs of a tab keep their types.
LEMMA DialogsTyped ==
    ASSUME ConsoleTypeOK, NEW t \in Tabs,
           OpenNew(t) \/ OpenEdit(t) \/ Type(t) \/ Dismiss(t) \/ AskDelete(t)
    PROVE  ConsoleTypeOK'
  <1>1. UNCHANGED <<server, page, list, fetch, calls, sent, faults, acked>>
    BY DEF OpenNew, OpenEdit, OpenForm, Type, Dismiss, AskDelete, serviceVars
  <1>2. deleting' \in [Tabs -> Ids \cup {None}]
    BY DEF OpenNew, OpenEdit, OpenForm, Type, Dismiss, AskDelete, ConsoleTypeOK
  <1>3. Pending(t, "put") \in BOOLEAN
    BY DEF Pending, Attached
  <1>4. editing' \in [Tabs -> Forms \cup {None}]
    <2>1. CASE OpenNew(t)
      BY <2>1, <1>3, ConsoleAssumption DEF OpenNew, OpenForm, ConsoleTypeOK, Forms
    <2>2. CASE OpenEdit(t)
      <3>1. PICK id \in Ids : Shown(t, id)
                              /\ OpenForm(t, id, list[t].data.rows[id], FALSE)
        BY <2>2 DEF OpenEdit
      <3>2. list[t].data.rows[id] \in Contents
        BY <3>1 DEF Shown, ConsoleTypeOK, Lists, Versions, Tables
      <3> QED BY <3>1, <3>2, <1>3 DEF OpenForm, ConsoleTypeOK, Forms
    <2>3. CASE Type(t)
      <3>1. PICK id \in Ids, content \in Contents :
                editing' = [editing EXCEPT ![t].id = id, ![t].content = content,
                                           ![t].touched = @ \/ Pending(t, "put")]
        BY <2>3 DEF Type
      <3>2. editing[t] \in Forms /\ editing[t].touched \in BOOLEAN
        BY <2>3 DEF Type, ConsoleTypeOK, Forms
      <3>3. [editing[t] EXCEPT !.id = id, !.content = content,
                               !.touched = @ \/ Pending(t, "put")] \in Forms
        BY <3>2, <1>3 DEF Forms
      <3> QED BY <3>1, <3>3 DEF ConsoleTypeOK
    <2>4. CASE Dismiss(t) \/ AskDelete(t)
      BY <2>4 DEF Dismiss, AskDelete, ConsoleTypeOK
    <2> QED BY <2>1, <2>2, <2>3, <2>4
  <1> QED BY <1>1, <1>2, <1>4 DEF ConsoleTypeOK

\* Sending a mutation keeps the types of everything but the form.
LEMMA SendTyped ==
    ASSUME ConsoleTypeOK, NEW t \in Tabs, NEW kind \in {"put", "delete", "seed"},
           NEW id \in Ids \cup {None}, NEW content \in Contents,
           Send(t, kind, id, content), editing' \in [Tabs -> Forms \cup {None}]
    PROVE  ConsoleTypeOK'
  <1>1. sent' \in 0..MaxCalls
    BY ConsoleAssumption DEF Send, ConsoleTypeOK
  <1>2. calls' \in [Slots -> Calls \cup {None}]
    BY DEF Send, ConsoleTypeOK, Calls
  <1> QED BY <1>1, <1>2 DEF Send, ConsoleTypeOK

\* The mutations that a tab sends keep the types.
LEMMA MutationsTyped ==
    ASSUME ConsoleTypeOK, NEW t \in Tabs,
           Submit(t) \/ ConfirmDelete(t) \/ SeedPrototype(t)
    PROVE  ConsoleTypeOK'
  <1>1. CASE Submit(t)
    <2>1. editing[t] \in Forms
      BY <1>1 DEF Submit, ConsoleTypeOK
    <2>2. editing[t].id \in Ids \cup {None} /\ editing[t].content \in Contents
      BY <2>1 DEF Forms
    <2>3. [editing[t] EXCEPT !.touched = FALSE] \in Forms
      BY <2>1 DEF Forms
    <2>4. editing' \in [Tabs -> Forms \cup {None}]
      BY <1>1, <2>3 DEF Submit, ConsoleTypeOK
    <2> QED BY <1>1, <2>2, <2>4, SendTyped DEF Submit
  <1>2. CASE ConfirmDelete(t)
    <2>1. deleting[t] \in Ids \cup {None} /\ editing' \in [Tabs -> Forms \cup {None}]
      BY <1>2 DEF ConfirmDelete, ConsoleTypeOK
    <2> QED BY <1>2, <2>1, SendTyped, ConsoleAssumption DEF ConfirmDelete
  <1>3. CASE SeedPrototype(t)
    <2>1. editing' \in [Tabs -> Forms \cup {None}]
      BY <1>3 DEF SeedPrototype, ConsoleTypeOK
    <2> QED BY <1>3, <2>1, SendTyped, ConsoleAssumption DEF SeedPrototype
  <1> QED BY <1>1, <1>2, <1>3

\* The fetch of a list keeps the types.
LEMMA FetchingTyped ==
    ASSUME ConsoleTypeOK, NEW t \in Tabs,
           ListServed(t) \/ ListArrives(t) \/ FetchFails(t)
    PROVE  ConsoleTypeOK'
  <1>0. fetch[t] \in Fetches
    BY DEF ConsoleTypeOK
  <1>1. CASE ListServed(t)
    <2>1. [fetch[t] EXCEPT !.stage = "read", !.got = server] \in Fetches
      BY <1>0 DEF Fetches, ConsoleTypeOK
    <2> QED BY <1>1, <2>1 DEF ListServed, ConsoleTypeOK, serviceVars, dialogs
  <1>2. CASE ListArrives(t)
    <2>1. [status |-> "ready", loaded |-> TRUE, data |-> fetch[t].got] \in Lists
      BY <1>0 DEF Fetches, Lists
    <2>2. [Idle EXCEPT !.overlooks = fetch[t].overlooks] \in Fetches
      BY <1>0, FetchTypes DEF Fetches
    <2> QED BY <1>2, <2>1, <2>2 DEF ListArrives, ConsoleTypeOK, serviceVars, dialogs
  <1>3. CASE FetchFails(t)
    <2>1. faults' \in 0..MaxFaults
      BY <1>3, ConsoleAssumption DEF FetchFails, ConsoleTypeOK
    <2>2. fetch' \in [Tabs -> Fetches]
      BY <1>3, FetchTypes DEF FetchFails, ConsoleTypeOK
    <2>3. list' \in [Tabs -> Lists]
      BY <1>3 DEF FetchFails, ConsoleTypeOK, Lists
    <2> QED BY <1>3, <2>1, <2>2, <2>3 DEF FetchFails, ConsoleTypeOK, dialogs
  <1> QED BY <1>1, <1>2, <1>3

\* The answers to mutations keep the types.
LEMMA CallsTyped ==
    ASSUME ConsoleTypeOK, NEW s \in Slots, CallStep(s)
    PROVE  ConsoleTypeOK'
  <1>0. calls[s] \in Calls /\ calls[s].tab \in Tabs /\ calls[s].at \in Nat
    BY DEF CallStep, Serve, Refuse, Settle, SettleSuccess, SettleError,
           ConsoleTypeOK, Calls
  <1>1. CASE Serve(s)
    <2>1. server' \in Versions
      BY <1>1, AppliedType DEF Serve, ConsoleTypeOK, Versions
    <2>2. PICK ok \in BOOLEAN :
              /\ faults' = (IF ok THEN faults ELSE faults + 1) /\ faults' <= MaxFaults
              /\ calls' = [calls EXCEPT ![s].stage = "answered", ![s].ok = ok,
                                        ![s].at = server.at + 1]
      BY <1>1 DEF Serve
    <2> DEFINE n == server.at + 1
    <2>n. n \in Nat
      BY DEF ConsoleTypeOK, Versions
    <2> HIDE DEF n
    <2>3. [calls[s] EXCEPT !.stage = "answered", !.ok = ok, !.at = n] \in Calls
      BY <1>0, <2>n DEF Calls
    <2>4. calls' \in [Slots -> Calls \cup {None}]
      BY <2>2, <2>3 DEF ConsoleTypeOK, n
    <2>5. faults' \in 0..MaxFaults
      BY <2>2, ConsoleAssumption DEF ConsoleTypeOK
    <2> QED BY <1>1, <2>1, <2>4, <2>5 DEF Serve, ConsoleTypeOK, dialogs
  <1>2. CASE Refuse(s)
    <2>1. [calls[s] EXCEPT !.stage = "answered"] \in Calls
      BY <1>0 DEF Calls
    <2>2. faults' \in 0..MaxFaults
      BY <1>2, ConsoleAssumption DEF Refuse, ConsoleTypeOK
    <2> QED BY <1>2, <2>1, <2>2 DEF Refuse, ConsoleTypeOK, dialogs
  <1>3. CASE SettleError(s)
    BY <1>3 DEF SettleError, ConsoleTypeOK, dialogs
  <1>4. CASE SettleSuccess(s)
    BY <1>0, <1>4, InvalidateType DEF SettleSuccess, ConsoleTypeOK
  <1> QED BY <1>1, <1>2, <1>3, <1>4 DEF CallStep, Settle

\* The cached list, the dialogs and the mutations keep their shape.
THEOREM ConsoleTypeCorrect == ConsoleSpec => []ConsoleTypeOK
  <1>1. ConsoleInit => ConsoleTypeOK
    BY NoVersionType, FetchTypes, ConsoleAssumption
       DEF ConsoleInit, ConsoleTypeOK, Versions, Lists
  <1>2. ConsoleTypeOK /\ [ConsoleNext]_consoleVars => ConsoleTypeOK'
    <2> SUFFICES ASSUME ConsoleTypeOK, [ConsoleNext]_consoleVars PROVE ConsoleTypeOK'
      OBVIOUS
    <2>1. ASSUME NEW t \in Tabs, Navigate(t) PROVE ConsoleTypeOK'
      <3>1. page' \in [Tabs -> {"roles", "home"}]
        BY <2>1 DEF Navigate, ConsoleTypeOK
      <3>n. ASSUME NEW s \in Slots, calls[s] # None
            PROVE  [calls[s] EXCEPT !.attached = FALSE] \in Calls
        <4>1. calls[s] \in Calls
          BY <3>n DEF ConsoleTypeOK
        <4> QED BY <4>1 DEF Calls
      <3>2. calls' \in [Slots -> Calls \cup {None}]
        BY <2>1, <3>n DEF Navigate, ConsoleTypeOK
      <3>3. fetch' \in [Tabs -> Fetches]
        BY <2>1, FetchTypes DEF Navigate, ConsoleTypeOK
      <3> QED BY <2>1, <3>1, <3>2, <3>3 DEF Navigate, ConsoleTypeOK
    <2>2. ASSUME NEW t \in Tabs, TabStep(t) PROVE ConsoleTypeOK'
      BY <2>1, <2>2, DialogsTyped, MutationsTyped, FetchingTyped DEF TabStep
    <2>3. ASSUME NEW s \in Slots, CallStep(s) PROVE ConsoleTypeOK'
      BY <2>3, CallsTyped
    <2>4. CASE ServeOthers
      <3>1. server' \in Versions
        BY <2>4 DEF ServeOthers, ConsoleTypeOK, Versions, Tables
      <3>2. sent' \in 0..MaxCalls
        BY <2>4, ConsoleAssumption DEF ServeOthers, ConsoleTypeOK
      <3> QED BY <2>4, <3>1, <3>2 DEF ServeOthers, ConsoleTypeOK, dialogs
    <2>5. CASE UNCHANGED consoleVars
      BY <2>5 DEF consoleVars, ConsoleTypeOK
    <2> QED BY <2>2, <2>3, <2>4, <2>5 DEF ConsoleNext
  <1> QED BY <1>1, <1>2, PTL DEF ConsoleSpec

-----------------------------------------------------------------------------
(* What a cached list holds *)

\* Acknowledgements, answers and lists come from commits that happened; an answer
\* that has been read is no older than the list it will replace, nor than what
\* the tab was told, since an acknowledgement drops the answer it overtook or marks it.
Fresh ==
    /\ \A s \in Slots : calls[s] # None => calls[s].at <= server.at
    /\ \A t \in Tabs : acked[t] <= server.at /\ list[t].data.at <= server.at
    /\ \A t \in Tabs : fetch[t].stage = "read" =>
           /\ fetch[t].overlooks \/ acked[t] <= fetch[t].got.at
           /\ list[t].data.at <= fetch[t].got.at /\ fetch[t].got.at <= server.at
    /\ OwnWritesVisible

\* Every step of the console keeps its lists fresh.
LEMMA FreshStep ==
    ASSUME ConsoleTypeOK, Fresh, [ConsoleNext]_consoleVars
    PROVE  Fresh'
  <1>0. /\ server.at \in Nat
        /\ \A t \in Tabs : /\ acked[t] \in Nat /\ list[t].data.at \in Nat
                            /\ fetch[t].got.at \in Nat
        /\ \A s \in Slots : calls[s] # None =>
               calls[s].at \in Nat /\ calls[s].tab \in Tabs
    BY DEF ConsoleTypeOK, Versions, Lists, Fetches, Calls
  <1>1. ASSUME NEW t \in Tabs,
               OpenNew(t) \/ OpenEdit(t) \/ Type(t) \/ Dismiss(t) \/ AskDelete(t)
        PROVE  Fresh'
    BY <1>1 DEF OpenNew, OpenEdit, OpenForm, Type, Dismiss, AskDelete, serviceVars,
                Fresh, OwnWritesVisible
  <1>2. ASSUME NEW t \in Tabs, Submit(t) \/ ConfirmDelete(t) \/ SeedPrototype(t)
        PROVE  Fresh'
    <2>1. UNCHANGED <<server, list, fetch, acked>>
      BY <1>2 DEF Submit, ConfirmDelete, SeedPrototype, Send
    <2>2. \A s \in Slots : calls'[s] # None => calls'[s].at <= server.at
      BY <1>0, <1>2 DEF Submit, ConfirmDelete, SeedPrototype, Send, ConsoleTypeOK, Fresh
    <2> QED BY <2>1, <2>2 DEF Fresh, OwnWritesVisible
  <1>3. ASSUME NEW t \in Tabs, Navigate(t) PROVE Fresh'
    <2>1. \A s \in Slots : calls'[s] # None => calls'[s].at <= server.at
      BY <1>3 DEF Navigate, ConsoleTypeOK, Calls, Fresh
    <2>2. \A u \in Tabs : fetch'[u] = fetch[u] \/ fetch'[u].stage = "sent"
      BY <1>3 DEF Navigate, ConsoleTypeOK, Refetch, Idle
    <2> QED BY <1>3, <2>1, <2>2 DEF Navigate, Fresh, OwnWritesVisible
  <1>4. ASSUME NEW t \in Tabs, ListServed(t) PROVE Fresh'
    <2>1. \A u \in Tabs : \/ fetch'[u] = fetch[u]
                          \/ fetch'[u].stage = "read" /\ fetch'[u].got = server
      BY <1>4 DEF ListServed, ConsoleTypeOK, Fetches
    <2>2. UNCHANGED <<server, list, calls, acked>>
      BY <1>4 DEF ListServed, serviceVars
    <2>3. ASSUME NEW u \in Tabs, fetch'[u].stage = "read"
          PROVE  /\ fetch'[u].overlooks \/ acked[u] <= fetch'[u].got.at
                 /\ list[u].data.at <= fetch'[u].got.at /\ fetch'[u].got.at <= server.at
      BY <1>0, <2>1, <2>3 DEF Fresh
    <2>4. OwnWritesVisible'
      BY <2>1, <2>2 DEF Fresh, OwnWritesVisible
    <2> QED BY <2>2, <2>3, <2>4 DEF Fresh
  <1>5. ASSUME NEW t \in Tabs, ListArrives(t) PROVE Fresh'
    <2>1. /\ list'[t].data = fetch[t].got /\ fetch'[t].stage = "idle"
          /\ fetch'[t].overlooks = fetch[t].overlooks
      BY <1>5 DEF ListArrives, ConsoleTypeOK, Idle
    <2>2. \A u \in Tabs \ {t} : list'[u] = list[u] /\ fetch'[u] = fetch[u]
      BY <1>5 DEF ListArrives, ConsoleTypeOK
    <2>3. fetch[t].stage = "read"
      BY <1>5 DEF ListArrives
    <2>4. UNCHANGED <<server, calls, acked>>
      BY <1>5 DEF ListArrives, serviceVars
    <2> QED BY <2>1, <2>2, <2>3, <2>4 DEF Fresh, OwnWritesVisible
  <1>6. ASSUME NEW t \in Tabs, FetchFails(t) PROVE Fresh'
    <2>1. UNCHANGED <<server, calls, acked>>
      BY <1>6 DEF FetchFails
    <2>2. \A u \in Tabs : list'[u].data = list[u].data
      BY <1>6 DEF FetchFails, ConsoleTypeOK, Lists
    <2>3. \A u \in Tabs : \/ fetch'[u] = fetch[u] /\ list'[u] = list[u]
                          \/ fetch'[u].stage = "sent"
                          \/ fetch'[u].stage = "idle" /\ list'[u].status = "error"
      <3>1. [Refetch EXCEPT !.retried = TRUE].stage = "sent" /\ Idle.stage = "idle"
        BY DEF Refetch, Idle
      <3>2. /\ \A u \in Tabs \ {t} : fetch'[u] = fetch[u] /\ list'[u] = list[u]
            /\ \/ fetch'[t] = [Refetch EXCEPT !.retried = TRUE]
               \/ fetch'[t] = Idle /\ list'[t] = [list[t] EXCEPT !.status = "error"]
        BY <1>6 DEF FetchFails, ConsoleTypeOK
      <3>3. [list[t] EXCEPT !.status = "error"].status = "error"
        BY DEF ConsoleTypeOK, Lists
      <3> QED BY <3>1, <3>2, <3>3
    <2> QED BY <2>1, <2>2, <2>3 DEF Fresh, OwnWritesVisible
  <1>7. ASSUME NEW s \in Slots, Serve(s) PROVE Fresh'
    <2>1. server'.at = server.at + 1
      BY <1>7 DEF Serve
    <2>2. \A r \in Slots : calls'[r] # None => calls'[r].at <= server'.at
      BY <1>0, <1>7, <2>1 DEF Serve, ConsoleTypeOK, Calls, Fresh
    <2>3. UNCHANGED <<list, fetch, acked>>
      BY <1>7 DEF Serve
    <2>4. \A n \in Nat : n <= server.at => n <= server'.at
      BY <1>0, <2>1
    <2> HIDE <2>1
    <2>5. OwnWritesVisible'
      BY <2>3 DEF Fresh, OwnWritesVisible
    <2> QED BY <1>0, <2>2, <2>3, <2>4, <2>5 DEF Fresh
  <1>8. ASSUME NEW s \in Slots, Refuse(s) PROVE Fresh'
    <2>1. \A r \in Slots : calls'[r] # None => calls'[r].at <= server.at
      BY <1>8 DEF Refuse, ConsoleTypeOK, Calls, Fresh
    <2> QED BY <1>8, <2>1 DEF Refuse, Fresh, OwnWritesVisible
  <1>9. ASSUME NEW s \in Slots, SettleError(s) PROVE Fresh'
    BY <1>9 DEF SettleError, ConsoleTypeOK, Fresh, OwnWritesVisible
  <1>10. ASSUME NEW s \in Slots, SettleSuccess(s) PROVE Fresh'
    <2>1. UNCHANGED <<server, list>>
      BY <1>10 DEF SettleSuccess
    <2>2. \A r \in Slots : calls'[r] # None => calls'[r].at <= server.at
      BY <1>10 DEF SettleSuccess, ConsoleTypeOK, Fresh
    <2>3. calls[s].tab \in Tabs /\ calls[s].at <= server.at
      BY <1>0, <1>10 DEF SettleSuccess, Fresh
    <2>4. \A u \in Tabs : acked'[u] <= server.at
      BY <1>10, <2>3 DEF SettleSuccess, ConsoleTypeOK, Fresh
    <2>5. \A u \in Tabs : \/ fetch'[u] = fetch[u] /\ acked'[u] = acked[u]
                          \/ fetch'[u].stage = "sent"
                          \/ /\ fetch'[u].stage = "read" /\ fetch'[u].overlooks
                             /\ fetch[u].stage = "read" /\ fetch'[u].got = fetch[u].got
      <3> DEFINE t == calls[s].tab
      <3>0. t \in Tabs /\ fetch[t] \in Fetches
        BY <2>3 DEF ConsoleTypeOK
      <3>1. \A u \in Tabs \ {t} : fetch'[u] = fetch[u] /\ acked'[u] = acked[u]
        BY <1>10 DEF SettleSuccess, ConsoleTypeOK
      <3>2. fetch'[t] = Invalidate(t)
        BY <1>10, <3>0 DEF SettleSuccess, ConsoleTypeOK
      <3>3. CASE list[t].loaded \/ fetch[t].stage = "idle"
        BY <3>1, <3>2, <3>3 DEF Invalidate, Refetch, Idle
      <3>4. CASE ~list[t].loaded /\ fetch[t].stage # "idle"
        BY <3>0, <3>1, <3>2, <3>4 DEF Invalidate, Join, Fetches
      <3> QED BY <3>3, <3>4
    <2> QED BY <2>1, <2>2, <2>4, <2>5 DEF Fresh, OwnWritesVisible
  <1>11. CASE ServeOthers
    <2>1. server'.at = server.at + 1
      BY <1>11 DEF ServeOthers
    <2> QED BY <1>0, <1>11, <2>1 DEF ServeOthers, Fresh, OwnWritesVisible
  <1>12. CASE UNCHANGED consoleVars
    BY <1>12 DEF consoleVars, Fresh, OwnWritesVisible
  <1> QED BY <1>1, <1>2, <1>3, <1>4, <1>5, <1>6, <1>7, <1>8, <1>9, <1>10, <1>11, <1>12
          DEF ConsoleNext, TabStep, CallStep, Settle

\* The lists are fresh throughout.
LEMMA AlwaysFresh == ConsoleSpec => []Fresh
  <1>1. ConsoleInit => Fresh
    BY DEF ConsoleInit, Fresh, OwnWritesVisible, NoVersion, Refetch, Idle
  <1>2. ConsoleTypeOK /\ Fresh /\ [ConsoleNext]_consoleVars => Fresh'
    BY FreshStep
  <1> QED BY <1>1, <1>2, ConsoleTypeCorrect, PTL DEF ConsoleSpec

\* A tab that shows its list shows every change it was told of, those excepted
\* that it was told of while it waited for the answer to an older first load.
THEOREM OwnWritesAlwaysVisible == ConsoleSpec => []OwnWritesVisible
  <1>1. Fresh => OwnWritesVisible
    BY DEF Fresh
  <1> QED BY <1>1, AlwaysFresh, PTL

\* A list is replaced only by a read that is no older.
LEMMA ListStep ==
    ASSUME ConsoleTypeOK, Fresh, ConsoleNext, NEW u \in Tabs
    PROVE  list'[u].data.at >= list[u].data.at
  <1>0. list[u].data.at \in Nat /\ fetch[u].got.at \in Nat
    BY DEF ConsoleTypeOK, Versions, Lists, Fetches
  <1>1. CASE UNCHANGED list
    BY <1>0, <1>1
  <1>2. ASSUME NEW t \in Tabs, ListArrives(t) PROVE list'[u].data.at >= list[u].data.at
    <2>1. CASE u = t
      BY <1>0, <1>2, <2>1 DEF ListArrives, ConsoleTypeOK, Fresh
    <2>2. CASE u # t
      BY <1>0, <1>2, <2>2 DEF ListArrives, ConsoleTypeOK
    <2> QED BY <2>1, <2>2
  <1>3. ASSUME NEW t \in Tabs, FetchFails(t) PROVE list'[u].data.at >= list[u].data.at
    <2>1. list'[u].data = list[u].data
      BY <1>3 DEF FetchFails, ConsoleTypeOK, Lists
    <2> QED BY <1>0, <2>1
  <1>4. ASSUME NEW t \in Tabs, TabStep(t), ~ListArrives(t), ~FetchFails(t)
        PROVE  UNCHANGED list
    BY <1>4 DEF TabStep, OpenNew, OpenEdit, OpenForm, Type, Dismiss, AskDelete,
                Submit, ConfirmDelete, SeedPrototype, Send, Navigate, ListServed
  <1>5. ASSUME NEW s \in Slots, CallStep(s) PROVE UNCHANGED list
    BY <1>5 DEF CallStep, Serve, Refuse, Settle, SettleSuccess, SettleError
  <1> QED BY <1>1, <1>2, <1>3, <1>4, <1>5 DEF ConsoleNext, ServeOthers

\* What a tab shows of the table only moves forward, however its fetches and
\* its mutations overlap.
THEOREM ListsGoForward == ConsoleSpec => ListNeverGoesBack
  <1>1. ConsoleTypeOK /\ Fresh /\ [ConsoleNext]_consoleVars
            => [\A t \in Tabs : list'[t].data.at >= list[t].data.at]_consoleVars
    BY ListStep
  <1> QED BY <1>1, ConsoleTypeCorrect, AlwaysFresh, PTL DEF ConsoleSpec, ListNeverGoesBack
-----------------------------------------------------------------------------
(* What a closed form means *)

\* The strengthening: the save that a form is waiting for carries what the form
\* holds, unless something was typed or opened after it was sent; and a mutation
\* that went well has a commit.
SaveMatches ==
    /\ \A s \in Slots, t \in Tabs :
           Attached(s, t, "put") /\ editing[t] # None /\ ~editing[t].touched
               => calls[s].id = editing[t].id /\ calls[s].content = editing[t].content
    /\ \A s \in Slots : calls[s] # None /\ calls[s].ok => calls[s].at > 0

\* Every step of the console keeps it.
LEMMA SaveMatchesStep ==
    ASSUME ConsoleTypeOK, SaveMatches, [ConsoleNext]_consoleVars
    PROVE  SaveMatches'
  <1>0. /\ server.at \in Nat
        /\ \A s \in Slots : calls[s] # None => calls[s] \in Calls
        /\ \A t \in Tabs : editing[t] # None => editing[t] \in Forms
    BY DEF ConsoleTypeOK, Versions
  <1>1. ASSUME NEW t \in Tabs, OpenNew(t) \/ OpenEdit(t) PROVE SaveMatches'
    <2>1. \E id, content, isNew : OpenForm(t, id, content, isNew)
      BY <1>1 DEF OpenNew, OpenEdit
    <2>2. /\ \A u \in Tabs \ {t} : editing'[u] = editing[u]
          /\ ~editing'[t].touched => ~Pending(t, "put")
      BY <2>1 DEF OpenForm, ConsoleTypeOK
    <2>3. UNCHANGED calls
      BY <2>1 DEF OpenForm, serviceVars
    <2> QED BY <2>2, <2>3 DEF SaveMatches, Pending, Attached
  <1>2. ASSUME NEW t \in Tabs, Type(t) PROVE SaveMatches'
    <2>1. /\ \A u \in Tabs \ {t} : editing'[u] = editing[u]
          /\ ~editing'[t].touched => ~Pending(t, "put")
      BY <1>0, <1>2 DEF Type, ConsoleTypeOK, Forms
    <2>2. UNCHANGED calls
      BY <1>2 DEF Type, serviceVars
    <2> QED BY <2>1, <2>2 DEF SaveMatches, Pending, Attached
  <1>3. ASSUME NEW t \in Tabs, Dismiss(t) PROVE SaveMatches'
    BY <1>3 DEF Dismiss, serviceVars, ConsoleTypeOK, SaveMatches, Attached
  <1>4. ASSUME NEW t \in Tabs, Submit(t) PROVE SaveMatches'
    <2>1. PICK s \in Slots :
              calls' = [calls EXCEPT ![s] =
                  [tab |-> t, kind |-> "put", id |-> editing[t].id,
                   content |-> editing[t].content, stage |-> "sent", ok |-> FALSE,
                   at |-> 0, attached |-> TRUE]]
      BY <1>4 DEF Submit, Send
    <2>2. /\ \A r \in Slots \ {s} : calls'[r] = calls[r]
          /\ calls'[s].tab = t /\ calls'[s].id = editing[t].id
          /\ calls'[s].content = editing[t].content /\ calls'[s].ok = FALSE
      BY <2>1 DEF ConsoleTypeOK
    <2>3. /\ \A u \in Tabs \ {t} : editing'[u] = editing[u]
          /\ editing'[t].id = editing[t].id /\ editing'[t].content = editing[t].content
      BY <1>0, <1>4 DEF Submit, ConsoleTypeOK, Forms
    <2>4. \A r \in Slots : ~Attached(r, t, "put")
      BY <1>4 DEF Submit, Send, Pending
    <2> QED BY <2>2, <2>3, <2>4 DEF SaveMatches, Attached
  <1>5. ASSUME NEW t \in Tabs, ConfirmDelete(t) \/ SeedPrototype(t) PROVE SaveMatches'
    <2>0. PICK kind \in {"delete", "seed"} :
              \E id : Send(t, kind, id, EmptyContent)
      BY <1>5 DEF ConfirmDelete, SeedPrototype
    <2>1. PICK s \in Slots :
              \E id : calls' = [calls EXCEPT ![s] =
                  [tab |-> t, kind |-> kind, id |-> id, content |-> EmptyContent,
                   stage |-> "sent", ok |-> FALSE, at |-> 0, attached |-> TRUE]]
      BY <2>0 DEF Send
    <2>2. /\ \A r \in Slots \ {s} : calls'[r] = calls[r]
          /\ calls'[s].kind # "put" /\ calls'[s].ok = FALSE
      BY <2>1 DEF ConsoleTypeOK
    <2>3. UNCHANGED editing
      BY <1>5 DEF ConfirmDelete, SeedPrototype
    <2> QED BY <2>2, <2>3 DEF SaveMatches, Attached
  <1>6. ASSUME NEW t \in Tabs, Navigate(t) PROVE SaveMatches'
    <2>1. \A s \in Slots :
             \/ calls'[s] = calls[s]
             \/ /\ calls[s] # None /\ calls[s].tab = t
                /\ calls'[s].tab = t /\ calls'[s].ok = calls[s].ok
                /\ calls'[s].at = calls[s].at
      BY <1>0, <1>6 DEF Navigate, Calls
    <2>2. \A u \in Tabs : editing'[u] = IF u = t THEN None ELSE editing[u]
      BY <1>6 DEF Navigate, ConsoleTypeOK
    <2> QED BY <2>1, <2>2 DEF SaveMatches, Attached
  <1>7. ASSUME UNCHANGED <<editing, calls>> PROVE SaveMatches'
    BY <1>7 DEF SaveMatches, Attached
  <1>8. ASSUME NEW s \in Slots, Serve(s) PROVE SaveMatches'
    <2>1. \A r \in Slots :
             \/ calls'[r] = calls[r]
             \/ /\ calls[r] # None
                /\ calls'[r].tab = calls[r].tab /\ calls'[r].kind = calls[r].kind
                /\ calls'[r].id = calls[r].id /\ calls'[r].content = calls[r].content
                /\ calls'[r].attached = calls[r].attached
                /\ calls'[r].at > 0
      BY <1>0, <1>8 DEF Serve, ConsoleTypeOK, Calls
    <2>2. UNCHANGED editing
      BY <1>8 DEF Serve, dialogs
    <2> QED BY <2>1, <2>2 DEF SaveMatches, Attached
  <1>9. ASSUME NEW s \in Slots, Refuse(s) PROVE SaveMatches'
    <2>1. \A r \in Slots :
             \/ calls'[r] = calls[r]
             \/ /\ calls[r] # None
                /\ calls'[r].tab = calls[r].tab /\ calls'[r].kind = calls[r].kind
                /\ calls'[r].id = calls[r].id /\ calls'[r].content = calls[r].content
                /\ calls'[r].attached = calls[r].attached
                /\ calls'[r].ok = calls[r].ok /\ calls'[r].at = calls[r].at
      BY <1>0, <1>9 DEF Refuse, ConsoleTypeOK, Calls
    <2>2. UNCHANGED editing
      BY <1>9 DEF Refuse, dialogs
    <2> QED BY <2>1, <2>2 DEF SaveMatches, Attached
  <1>10. ASSUME NEW s \in Slots, Settle(s) PROVE SaveMatches'
    <2>1. \A r \in Slots : calls'[r] = calls[r] \/ calls'[r] = None
      BY <1>10 DEF Settle, SettleSuccess, SettleError, ConsoleTypeOK
    <2>2. \A u \in Tabs : editing'[u] = editing[u] \/ editing'[u] = None
      BY <1>10 DEF Settle, SettleSuccess, SettleError, ConsoleTypeOK, dialogs
    <2> QED BY <2>1, <2>2 DEF SaveMatches, Attached
  <1>11. ASSUME NEW t \in Tabs,
                AskDelete(t) \/ ListServed(t) \/ ListArrives(t) \/ FetchFails(t)
         PROVE  UNCHANGED <<editing, calls>>
    BY <1>11 DEF AskDelete, ListServed, ListArrives, FetchFails, serviceVars, dialogs
  <1>12. CASE ServeOthers
    BY <1>7, <1>12 DEF ServeOthers, dialogs
  <1>13. CASE UNCHANGED consoleVars
    BY <1>7, <1>13 DEF consoleVars
  <1> QED BY <1>1, <1>2, <1>3, <1>4, <1>5, <1>6, <1>7, <1>8, <1>9, <1>10, <1>11, <1>12, <1>13
          DEF ConsoleNext, TabStep, CallStep

\* What a step that closes a form by an answer has to show for it.
ClosedSaved ==
    \A t \in Tabs :
        /\ editing[t] # None /\ editing'[t] = None
        /\ \E s \in Slots : Settle(s) /\ calls[s].tab = t
        => \/ editing[t].touched
           \/ \E s \in Slots : /\ calls[s] # None /\ calls'[s] = None
                               /\ calls[s].ok /\ calls[s].at > 0
                               /\ calls[s].id = editing[t].id
                               /\ calls[s].content = editing[t].content

\* When an answer closes a form, what the form held was saved and synchronised,
\* except for what was typed, or opened, while that save was under way.
THEOREM ClosedFormsAreSaved == ConsoleSpec => ClosedMeansSaved
  <1>1. ConsoleInit => SaveMatches
    BY DEF ConsoleInit, SaveMatches, Attached
  <1>2. ConsoleTypeOK /\ SaveMatches /\ [ConsoleNext]_consoleVars => SaveMatches'
    BY SaveMatchesStep
  <1>3. ConsoleTypeOK /\ SaveMatches => ClosedSaved
    <2> SUFFICES ASSUME ConsoleTypeOK, SaveMatches, NEW t \in Tabs, NEW s \in Slots,
                        editing[t] # None, editing'[t] = None, Settle(s), calls[s].tab = t,
                        ~editing[t].touched
                 PROVE  /\ calls[s] # None /\ calls'[s] = None
                        /\ calls[s].ok /\ calls[s].at > 0
                        /\ calls[s].id = editing[t].id
                        /\ calls[s].content = editing[t].content
      BY DEF ClosedSaved
    <2>1. SettleSuccess(s)
      BY DEF Settle, SettleError, dialogs
    <2>2. Attached(s, t, "put") /\ calls[s].ok /\ calls'[s] = None
      BY <2>1 DEF SettleSuccess, Forwarded, Attached, ConsoleTypeOK
    <2> QED BY <2>2 DEF SaveMatches, Attached
  <1> QED BY <1>1, <1>2, <1>3, ConsoleTypeCorrect, PTL
          DEF ConsoleSpec, ClosedMeansSaved, ClosedSaved
=============================================================================
