--------------------------------- MODULE Verdict ---------------------------------
(***************************************************************************)
(* The decision on one request when nothing moves: Keto holds exactly the  *)
(* tuples of the configuration and every read sees the same rows.  The     *)
(* state is the input; the specification enumerates inputs and has no      *)
(* step.  What Decide answers is compared with the prototype it ports and  *)
(* with the promises made about it.                                        *)
(***************************************************************************)
EXTENDS Rbac, Naturals

CONSTANTS
    RoleInputs,     \* role rows to enumerate
    UserInputs,     \* user rows to enumerate
    Subject, Key    \* who asks, for which grant key

ASSUME VerdictAssumption == /\ RoleInputs \subseteq RoleRows
                            /\ UserInputs \subseteq UserRows
                            /\ Subject \in UserIds
                            /\ Key \in GrantKeys

VARIABLES
    rs,       \* the roles table
    row,      \* the subject's row
    passing,  \* ids of the conditions that evalCondition says hold for the request
    passingJs \* ids of those that the prototype's evaluation says hold

vars == <<rs, row, passing, passingJs>>

Users == [u \in UserIds |-> IF u = Subject THEN row ELSE Absent]
Answer(deny) == KetoCheck(Tuples(rs, Users), Subject, Key, deny)
Match == EffectiveUserGrant(rs, row, Key)

DecideSynced ==
    Precedence(Answer(TRUE), Answer(FALSE), MatchOf(Match), passing)

\* decide() of access-control.html: one map of effective grants settles it.  It
\* looks up the name of each of the subject's roles first, and throws when one
\* is missing.  The two evaluate a condition differently in places: a missing
\* attribute, or a text, is 0 in an ordered comparison of the engine's and NaN in
\* one of the prototype's.
PrototypeThrows == \E i \in DOMAIN row : rs[row[i]] = Absent
PrototypeDecide ==
    IF Match.kind \in {"none", "deny"} THEN "deny"
    ELSE IF Match.kind = "allow" \/ Match.conds \subseteq passingJs THEN "allow"
    ELSE "deny"

-----------------------------------------------------------------------------
(* What POST /v1/expand answers about the key, and the console lists: the    *)
(* effective grant with the role that has it and the assigned role that      *)
(* leads there.  A role is named by its id here.                             *)

NoEntry == [effect |-> NoGrant, source |-> NoRole, inherited |-> FALSE, via |-> NoRole]

\* Faulty variant: the flag is never set.
RoleEntryUninherited(rid) ==
    LET source == NearestHolder(rs, rid, Key)
    IN  IF source = NoRole THEN NoEntry
        ELSE [effect |-> rs[source].grants[Key], source |-> source,
              inherited |-> FALSE, via |-> rid]

RoleEntry(rid) ==
    LET source == NearestHolder(rs, rid, Key)
    IN  IF source = NoRole THEN NoEntry
        ELSE [effect |-> rs[source].grants[Key], source |-> source,
              inherited |-> source # rid, via |-> rid]

MergeEntry(existing, info) ==
    IF info.effect.kind = "none" THEN existing
    ELSE IF existing.effect.kind = "deny" /\ info.effect.kind # "deny" THEN existing
    ELSE info

Expand == FoldLeft(LAMBDA out, rid : MergeEntry(out, RoleEntry(rid)), NoEntry, row)

\* The line about the key in the console's table of effective grants, if any.
ExpandLines == {Expand} \ {NoEntry}

-----------------------------------------------------------------------------
VInit == /\ rs \in [RoleIds -> RoleInputs \cup {Absent}] /\ rs \in RoleTables
         /\ row \in UserInputs
         /\ passing \in SUBSET CondIds /\ passingJs \in SUBSET CondIds

VNext == UNCHANGED vars
VSpec == VInit /\ [][VNext]_vars

-----------------------------------------------------------------------------
(* Properties *)

Holds(r) == HasKey(rs, r, Key)

\* Keto's walk over nested groups and the engine's walk over parent columns meet
\* the same roles, with missing parents, cycles and self-parents among them:
\* Check and CheckDeny answer what internal/engine's roleChain would.
KetoFollowsChains ==
    \A deny \in BOOLEAN :
        Answer(deny) = \E r \in ResolvedRoles(rs, row) :
                           Holds(r) /\ (rs[r].grants[Key].kind = "deny") = deny

\* The zero Grant of a missing map key never decides: when Keto reports a
\* reachable grant or deny then Postgres has a matching grant, and conversely;
\* and a match that denies is one that Keto denies.
MatchExistsWhenReachable ==
    /\ (Match.kind # "none") = (Answer(TRUE) \/ Answer(FALSE))
    /\ Match.kind = "deny" => Answer(TRUE)

\* Along one role's chain the nearest role that has the key decides: every
\* holder that the walk can reach without passing another holder has the grant
\* that effectiveRoleGrants returns.
FirstHolders(r0) ==
    {r \in RoleIds :
        /\ rs[r] # Absent
        /\ Holds(r)
        /\ \A S \in SUBSET RoleIds :
            /\ r0 \in S
            /\ \A s \in S : rs[s] # Absent /\ ~Holds(s) /\ rs[s].parent # NoRole
                                => rs[s].parent \in S
            => r \in S}
NearestRoleDecides ==
    \A r0 \in RoleIds :
        {EffectiveRoleGrant(rs, r0, Key)} =
            IF FirstHolders(r0) = {} THEN {NoGrant}
            ELSE {rs[r].grants[Key] : r \in FirstHolders(r0)}

\* Among the subject's roles a deny wins wherever it stands, and otherwise the
\* effective grant of the last role of the row that has one.
RoleGrant(i) == EffectiveRoleGrant(rs, row[i], Key)
DenyElseLast ==
    LET having == {i \in DOMAIN row : RoleGrant(i).kind # "none"}
    IN  Match = IF having = {} THEN NoGrant
                ELSE IF \E i \in having : RoleGrant(i).kind = "deny" THEN Deny
                ELSE RoleGrant(CHOOSE i \in having : \A j \in having : j <= i)

\* Where Decide's precedence and the prototype's part, Decide's is the stricter one:
\* what Decide allows and the prototype refuses, a condition of the grant in force
\* allows, which holds as the engine evaluates it and not as the prototype does.
NeverLaxerThanPrototype ==
    DecideSynced = "allow" =>
        \/ PrototypeThrows
        \/ PrototypeDecide = "allow"
        \/ \E c \in Match.conds : c \in passing /\ c \notin passingJs

\* A grant that lets the request through by itself.
Allows(effect) == effect.kind = "allow" \/ (/\ effect.kind = "conditional"
                                            /\ effect.conds \subseteq passing)

\* The page of effective grants (ExpandUser) and a check (Decide): a check allows
\* only what every line about it allows, and there is one; the source in a line is a
\* role that has that grant, on the chain of the assigned role in it, and one that
\* Keto reaches as well; "inherited" is said exactly when the two roles differ; and
\* where a line allows what a check denies, another of the subject's roles has a
\* deny, which the page leaves out.
ExpansionExplains ==
    /\ DecideSynced = "allow" =>
           ExpandLines # {} /\ \A line \in ExpandLines : Allows(line.effect)
    /\ \A line \in ExpandLines :
           /\ line.effect = rs[line.source].grants[Key]
           /\ line.via \in ToSet(row) /\ line.source \in ToSet(RoleChain(rs, line.via))
           /\ line.inherited = (line.source # line.via)
           /\ KetoMember(Tuples(rs, Users), Subject, line.source)
           /\ Allows(line.effect) /\ DecideSynced = "deny" =>
                  \E r \in ResolvedRoles(rs, row) \ {line.source} :
                      Holds(r) /\ rs[r].grants[Key].kind = "deny"

\* The comment over effectiveUserGrants' use in Decide: the precedence (deny
\* wins, nearest role over ancestor) matches the prototype exactly, given the same
\* conditions hold.
MatchesPrototype ==
    passing = passingJs => PrototypeThrows \/ DecideSynced = PrototypeDecide
=============================================================================
