------------------------------ MODULE VerdictProofs ------------------------------
(***************************************************************************)
(* What Verdict's run checks on three roles, for any roles, rows, grants   *)
(* and conditions: Keto's half of a decision and Postgres' half belong     *)
(* together.                                                               *)
(***************************************************************************)
EXTENDS Verdict, RbacProofs

-----------------------------------------------------------------------------
(* The input *)

VInput == /\ rs \in RoleTables /\ row \in UserRows
          /\ passing \in SUBSET CondIds /\ passingJs \in SUBSET CondIds

\* Every state is an input: a table, a user row and two sets of conditions that hold.
LEMMA InputsOnly == VSpec => []VInput
  <1>1. VInit => VInput
    BY VerdictAssumption DEF VInit, VInput
  <1>2. VInput /\ [VNext]_vars => VInput'
    BY DEF VInput, VNext, vars
  <1> QED
    BY <1>1, <1>2, PTL DEF VSpec

\* The table of users that holds the subject alone.
LEMMA SubjectHasRow ==
    ASSUME VInput
    PROVE  Users \in UserTables /\ Users[Subject] = row /\ row # Absent
           /\ Subject \in UserIds /\ Key \in GrantKeys
  BY VerdictAssumption, AbsentAssumption DEF VInput, Users, UserTables

-----------------------------------------------------------------------------
(* Keto's answers and the match *)

LEMMA AnswerIsResolved ==
    ASSUME VInput, NEW deny \in BOOLEAN
    PROVE  Answer(deny) <=> \E r \in ResolvedRoles(rs, row) :
                               Holds(r) /\ (rs[r].grants[Key].kind = "deny") = deny
  <1>1. /\ rs \in RoleTables /\ Users \in UserTables /\ Users[Subject] = row /\ row # Absent
        /\ Subject \in UserIds /\ Key \in GrantKeys
    BY SubjectHasRow DEF VInput
  <1>2. KetoCheck(Tuples(rs, Users), Subject, Key, deny) <=>
               /\ Users[Subject] # Absent
               /\ \E r \in ResolvedRoles(rs, Users[Subject]) :
                     HasKey(rs, r, Key) /\ (rs[r].grants[Key].kind = "deny") = deny
    BY <1>1, CheckIsResolved
  <1> QED
    BY <1>1, <1>2 DEF Answer, Holds

\* Check and CheckDeny answer what internal/engine's roleChain would, whatever the
\* parent columns say.
THEOREM KetoFollowsEveryChain == VSpec => []KetoFollowsChains
  <1>1. ASSUME VInput PROVE KetoFollowsChains
    <2>1. \A deny \in BOOLEAN : Answer(deny) \in BOOLEAN
      BY DEF Answer, KetoCheck
    <2> QED
      BY <1>1, <2>1, AnswerIsResolved DEF KetoFollowsChains
  <1> QED
    BY <1>1, InputsOnly, PTL

\* The match and the roles' own grants are grants, or nothing.
LEMMA MatchType ==
    ASSUME VInput
    PROVE  /\ Match \in GrantsOrNone
           /\ \A i \in DOMAIN row : RoleGrant(i) \in GrantsOrNone
  <1>1. \A i \in DOMAIN row : RoleGrant(i) \in GrantsOrNone
    BY SubjectHasRow, RoleGrantType DEF VInput, UserRows, RoleGrant
  <1>2. Match \in GrantsOrNone
    BY SubjectHasRow, UserGrantType DEF VInput, Match
  <1> QED
    BY <1>1, <1>2

\* What is in force for the subject, and how its roles' grants make it.
LEMMA MatchIsDenyElseLast ==
    ASSUME VInput
    PROVE  \/ Match = NoGrant /\ \A i \in DOMAIN row : RoleGrant(i) = NoGrant
           \/ Match = Deny /\ \E i \in DOMAIN row : RoleGrant(i) = Deny
           \/ /\ Match # NoGrant /\ \A i \in DOMAIN row : RoleGrant(i) # Deny
              /\ \E i \in DOMAIN row :
                    Match = RoleGrant(i) /\ \A j \in DOMAIN row : j > i => RoleGrant(j) = NoGrant
  BY SubjectHasRow, UserGrantIsDenyElseLast DEF VInput, Match, RoleGrant

\* A match exists exactly when Keto reaches a grant or a deny; a match that denies
\* is one that Keto denies.
LEMMA MatchWhenReached ==
    ASSUME VInput
    PROVE  /\ Match # NoGrant <=> Answer(TRUE) \/ Answer(FALSE)
           /\ Match = Deny => Answer(TRUE)
  BY SubjectHasRow, MatchFitsReach DEF VInput, Match, Answer

\* The zero Grant of a missing map key never decides.
THEOREM MatchAlwaysExists == VSpec => []MatchExistsWhenReachable
  <1>1. ASSUME VInput PROVE MatchExistsWhenReachable
    <2>1. Match.kind = "none" <=> Match = NoGrant
      BY <1>1, MatchType, KindsTell
    <2>2. Match.kind = "deny" => Match = Deny
      BY <1>1, MatchType, KindsTell
    <2>3. Answer(TRUE) \in BOOLEAN /\ Answer(FALSE) \in BOOLEAN
      BY DEF Answer, KetoCheck
    <2> QED
      BY <1>1, <2>1, <2>2, <2>3, MatchWhenReached DEF MatchExistsWhenReachable
  <1> QED
    BY <1>1, InputsOnly, PTL

\* A deny wins wherever it stands in the row, and otherwise the last role that has
\* the key in force.
THEOREM DenyAlwaysElseLast == VSpec => []DenyElseLast
  <1>1. ASSUME VInput PROVE DenyElseLast
    <2> DEFINE having == {i \in DOMAIN row : RoleGrant(i).kind # "none"}
               last == CHOOSE i \in having : \A j \in having : j <= i
    <2>1. having = {i \in DOMAIN row : RoleGrant(i) # NoGrant}
      BY <1>1, MatchType, KindsTell
    <2>2. \A i \in DOMAIN row : RoleGrant(i).kind = "deny" <=> RoleGrant(i) = Deny
      BY <1>1, MatchType, KindsTell
    <2>3. Deny # NoGrant
      BY DEF Deny, NoGrant
    <2>4. DOMAIN row \subseteq Int
      BY <1>1 DEF VInput, UserRows
    <2>0. DenyElseLast <=>
              Match = IF having = {} THEN NoGrant
                      ELSE IF \E i \in having : RoleGrant(i).kind = "deny" THEN Deny
                      ELSE RoleGrant(last)
      BY DEF DenyElseLast
    <2> HIDE DEF having
    <2>5. CASE \A i \in DOMAIN row : RoleGrant(i) = NoGrant
      <3>1. Match = NoGrant /\ having = {}
        BY <1>1, <2>1, <2>3, <2>5, MatchIsDenyElseLast
      <3> QED
        BY <2>0, <3>1
    <2>6. CASE \E i \in DOMAIN row : RoleGrant(i) = Deny
      <3>1. Match = Deny /\ \E i \in having : RoleGrant(i).kind = "deny"
        BY <1>1, <2>1, <2>2, <2>3, <2>6, MatchIsDenyElseLast
      <3> QED
        BY <2>0, <3>1
    <2>7. CASE /\ \E i \in DOMAIN row : RoleGrant(i) # NoGrant
               /\ \A i \in DOMAIN row : RoleGrant(i) # Deny
      <3>1. PICK i \in DOMAIN row :
               Match = RoleGrant(i) /\ Match # NoGrant
               /\ \A j \in DOMAIN row : j > i => RoleGrant(j) = NoGrant
        BY <1>1, <2>3, <2>7, MatchIsDenyElseLast
      <3>2. i \in having /\ \A j \in having : j <= i
        BY <2>1, <2>4, <3>1
      <3>3. last = i
        <4>1. last \in having /\ \A j \in having : j <= last
          BY <3>2
        <4> QED
          BY <2>1, <2>4, <3>2, <4>1
      <3>4. having # {} /\ ~\E j \in having : RoleGrant(j).kind = "deny"
        <4>1. \A j \in having : j \in DOMAIN row
          BY <2>1
        <4>2. \A j \in DOMAIN row : RoleGrant(j).kind # "deny"
          BY <2>2, <2>7
        <4> QED
          BY <3>2, <4>1, <4>2
      <3> HIDE DEF last
      <3> QED
        BY <2>0, <3>1, <3>3, <3>4
    <2> QED
      BY <2>5, <2>6, <2>7
  <1> QED
    BY <1>1, InputsOnly, PTL

\* Keto said a grant and no deny, so the match is a grant: the effect Decide goes by
\* is the one in force, not the zero value.
LEMMA AllowedMatch ==
    ASSUME VInput, DecideSynced = "allow"
    PROVE  /\ Match.kind \in {"allow", "conditional"}
           /\ Match.kind = "allow" \/ Match.conds \subseteq passing
  <1>1. ~Answer(TRUE) /\ Answer(FALSE)
    BY DEF DecideSynced, Precedence
  <1>2. Match # NoGrant /\ Match # Deny
    BY <1>1, MatchWhenReached
  <1>3. Match.kind \in {"allow", "conditional"}
    BY <1>2, MatchType, KindsTell
  <1> QED
    BY <1>3 DEF DecideSynced, Precedence, MatchOf

\* Whatever sets of conditions hold in the two evaluations, an allow that the
\* prototype refuses is due to one of the grant's conditions, never to the precedence.
THEOREM StricterThanPrototype == VSpec => []NeverLaxerThanPrototype
  <1>1. ASSUME VInput PROVE NeverLaxerThanPrototype
    <2> SUFFICES ASSUME DecideSynced = "allow", PrototypeDecide # "allow"
                 PROVE  \E c \in Match.conds : c \in passing /\ c \notin passingJs
      BY DEF NeverLaxerThanPrototype
    <2>1. /\ Match.kind \in {"allow", "conditional"}
          /\ Match.kind = "allow" \/ Match.conds \subseteq passing
      BY <1>1, AllowedMatch
    <2>2. Match.kind # "allow" /\ ~(Match.conds \subseteq passingJs)
      BY <2>1 DEF PrototypeDecide
    <2> QED
      BY <2>1, <2>2
  <1> QED
    BY <1>1, InputsOnly, PTL

-----------------------------------------------------------------------------
(* The nearest role *)

\* The roles that a role's chain leads to, and the positions in it.
LEMMA ChainPositions ==
    ASSUME VInput, NEW id \in RoleIds
    PROVE  LET c == RoleChain(rs, id) IN
           /\ Len(c) \in Nat /\ Ancestry(rs, id, c)
           /\ \A n \in 1..Len(c) : c[n] \in RoleIds /\ rs[c[n]] # Absent
           /\ \A r : r \in ToSet(c) <=> \E n \in 1..Len(c) : r = c[n]
           /\ rs[id] # Absent => Len(c) > 0
           /\ Len(c) > 0 => LET p == rs[c[Len(c)]].parent
                            IN  p \in Present(rs) => p \in ToSet(c)
  <1> DEFINE c == RoleChain(rs, id)
  <1>1. Ancestry(rs, id, c) /\ DOMAIN rs = RoleIds
    BY RoleChainIsAncestry DEF VInput, RoleTables
  <1>2. rs[id] # Absent => Len(c) > 0
    BY <1>1, RoleChainIsAncestry DEF VInput, Present
  <1>3. Len(c) > 0 => LET p == rs[c[Len(c)]].parent
                      IN  p \in Present(rs) => p \in ToSet(c)
    BY RoleChainIsAncestry DEF VInput
  <1> HIDE DEF c
  <1>4. Len(c) \in Nat /\ DOMAIN c = 1..Len(c)
    BY <1>1 DEF Ancestry
  <1>5. \A n \in 1..Len(c) : c[n] \in RoleIds /\ rs[c[n]] # Absent
    BY <1>1 DEF Ancestry, Present
  <1>6. \A r : r \in ToSet(c) <=> \E n \in 1..Len(c) : r = c[n]
    BY <1>4 DEF ToSet
  <1> QED
    BY <1>1, <1>2, <1>3, <1>4, <1>5, <1>6 DEF c

\* Sets of roles that a walk which stops at holders of the key cannot leave.
Stopping(S) ==
    \A s \in S : rs[s] # Absent /\ ~Holds(s) /\ rs[s].parent # NoRole
                     => rs[s].parent \in S

\* The parent column of a row.
LEMMA ParentType ==
    ASSUME VInput, NEW r \in RoleIds, rs[r] # Absent
    PROVE  rs[r].parent \in RoleIds \cup {NoRole}
  BY DEF VInput, RoleTables, RoleRows

\* Only the nearest holder can be reached without passing another one.
LEMMA FirstHolderIsNearest ==
    ASSUME VInput, NEW r0 \in RoleIds, NEW r \in FirstHolders(r0)
    PROVE  r = NearestHolder(rs, r0, Key) /\ r # NoRole
  <1> DEFINE c == RoleChain(rs, r0)
             h == NearestHolder(rs, r0, Key)
             missing == {x \in RoleIds : rs[x] = Absent}
             Nothing == h = NoRole /\ \A i \in 1..Len(c) : ~Holds(c[i])
             First(n) == h = c[n] /\ Holds(h) /\ \A i \in 1..Len(c) : i < n => ~Holds(c[i])
  <1>1. /\ Len(c) \in Nat /\ Ancestry(rs, r0, c)
        /\ \A n \in 1..Len(c) : c[n] \in RoleIds /\ rs[c[n]] # Absent
        /\ \A x : x \in ToSet(c) <=> \E n \in 1..Len(c) : x = c[n]
        /\ rs[r0] # Absent => Len(c) > 0
        /\ Len(c) > 0 => (rs[c[Len(c)]].parent \in Present(rs)
                              => rs[c[Len(c)]].parent \in ToSet(c))
    BY ChainPositions
  <1>2. Nothing \/ \E n \in 1..Len(c) : First(n)
    BY NearestHolderIsFirst, SubjectHasRow DEF VInput, Holds
  <1>3. /\ r \in RoleIds /\ rs[r] # Absent /\ Holds(r)
        /\ \A S \in SUBSET RoleIds : r0 \in S /\ Stopping(S) => r \in S
    BY DEF FirstHolders, Stopping
  <1>4. \A x \in RoleIds : x \in Present(rs) \/ x \in missing
    BY DEF Present, VInput, RoleTables
  <1> HIDE DEF c, h, missing
  <1>5. CASE Nothing
    <2> DEFINE S == ToSet(c) \cup missing
    <2>1. S \in SUBSET RoleIds
      BY <1>1 DEF missing
    <2>2. r0 \in S
      BY <1>1, <1>4 DEF missing, Ancestry
    <2>3. Stopping(S)
      <3> SUFFICES ASSUME NEW s \in S, rs[s] # Absent, rs[s].parent # NoRole
                   PROVE  rs[s].parent \in S
        BY DEF Stopping
      <3>1. PICK n \in 1..Len(c) : s = c[n]
        BY <1>1 DEF missing
      <3>2. rs[s].parent \in RoleIds
        BY <1>1, <3>1, ParentType
      <3>3. CASE n < Len(c)
        <4>1. rs[s].parent = c[n + 1] /\ n + 1 \in 1..Len(c)
          BY <1>1, <3>1, <3>3 DEF Ancestry
        <4> QED
          BY <1>1, <4>1
      <3>4. CASE n = Len(c)
        BY <1>1, <1>4, <3>1, <3>2, <3>4
      <3> QED
        BY <1>1, <3>3, <3>4
    <2>4. r \in S
      <3> HIDE DEF S
      <3> QED
        BY <1>3, <2>1, <2>2, <2>3
    <2> QED
      BY <1>1, <1>3, <1>5, <2>4 DEF missing
  <1>6. ASSUME NEW n \in 1..Len(c), First(n) PROVE r = h
    <2> DEFINE S == {c[i] : i \in 1..n}
    <2>1. S \in SUBSET RoleIds /\ \A i \in 1..n : i \in 1..Len(c)
      BY <1>1
    <2>2. r0 \in S
      <3>1. c[1] = r0 /\ 1 \in 1..n
        BY <1>1 DEF Ancestry
      <3> QED
        BY <3>1
    <2>3. Stopping(S)
      <3> SUFFICES ASSUME NEW s \in S, ~Holds(s) PROVE rs[s].parent \in S
        BY DEF Stopping
      <3>1. PICK i \in 1..n : s = c[i]
        OBVIOUS
      <3>2. i < n /\ i \in 1..Len(c) /\ i < Len(c) /\ i + 1 \in 1..n
        BY <1>1, <1>6, <2>1, <3>1
      <3>3. rs[s].parent = c[i + 1]
        BY <1>1, <3>1, <3>2 DEF Ancestry
      <3> QED
        BY <3>2, <3>3
    <2>4. r \in S
      <3> HIDE DEF S
      <3> QED
        BY <1>3, <2>1, <2>2, <2>3
    <2>5. PICK i \in 1..n : r = c[i]
      BY <2>4
    <2>6. i \in 1..Len(c) /\ (i < n \/ i = n)
      BY <1>1, <2>1
    <2> QED
      BY <1>3, <1>6, <2>5, <2>6
  <1>7. r = h
    <2> HIDE DEF Nothing, First
    <2> QED
      BY <1>2, <1>5, <1>6 DEF h
  <1> QED
    BY <1>3, <1>7, NoRoleAssumption DEF h

\* And it can: the walk passes no other.
LEMMA NearestIsFirstHolder ==
    ASSUME VInput, NEW r0 \in RoleIds, NearestHolder(rs, r0, Key) # NoRole
    PROVE  NearestHolder(rs, r0, Key) \in FirstHolders(r0)
  <1> DEFINE c == RoleChain(rs, r0)
             h == NearestHolder(rs, r0, Key)
  <1>1. /\ Len(c) \in Nat /\ Ancestry(rs, r0, c)
        /\ \A n \in 1..Len(c) : c[n] \in RoleIds /\ rs[c[n]] # Absent
    BY ChainPositions
  <1>2. PICK n \in 1..Len(c) : /\ h = c[n] /\ Holds(h)
                               /\ \A i \in 1..Len(c) : i < n => ~Holds(c[i])
    BY NearestHolderIsFirst, SubjectHasRow DEF VInput, Holds
  <1> HIDE DEF c, h
  <1>3. ASSUME NEW S \in SUBSET RoleIds, r0 \in S, Stopping(S) PROVE h \in S
    <2> DEFINE P == {i \in 0..n : i = 0 \/ c[i] \in S}
    <2>1. ASSUME NEW i \in 1..n, i - 1 \in P PROVE i \in P
      <3>1. CASE i = 1
        BY <1>1, <1>3, <2>1, <3>1 DEF Ancestry
      <3>2. CASE i # 1
        <4>1. /\ i - 1 \in 1..Len(c) /\ i - 1 < n /\ i - 1 < Len(c) /\ (i - 1) + 1 = i
              /\ i \in 1..Len(c) /\ i \in 0..n
          BY <1>1, <3>2
        <4>2. /\ c[i - 1] \in S /\ rs[c[i - 1]] # Absent /\ ~Holds(c[i - 1])
              /\ rs[c[i - 1]].parent = c[i] /\ c[i] \in RoleIds
          BY <1>1, <1>2, <2>1, <4>1 DEF Ancestry
        <4>3. c[i] \in S
          BY <1>3, <4>2, NoRoleAssumption DEF Stopping
        <4> QED
          BY <4>1, <4>3
      <3> QED
        BY <3>1, <3>2
    <2>2. 0 \in P /\ n \in Nat
      BY <1>1
    <2>3. n \in P
      <3> HIDE DEF P
      <3>1. \A i \in 0..n : i \in P
        BY <2>1, <2>2, CountingTo
      <3> QED
        BY <2>2, <3>1
    <2> QED
      BY <1>1, <1>2, <2>3
  <1> QED
    BY <1>1, <1>2, <1>3 DEF FirstHolders, Stopping, h

\* Along a role's chain the nearest role that has the key decides.
THEOREM NearestRoleAlwaysDecides == VSpec => []NearestRoleDecides
  <1>1. ASSUME VInput PROVE NearestRoleDecides
    <2> SUFFICES ASSUME NEW r0 \in RoleIds
                 PROVE  {EffectiveRoleGrant(rs, r0, Key)} =
                            IF FirstHolders(r0) = {} THEN {NoGrant}
                            ELSE {rs[r].grants[Key] : r \in FirstHolders(r0)}
      BY DEF NearestRoleDecides
    <2> DEFINE h == NearestHolder(rs, r0, Key)
    <2>1. CASE h = NoRole
      <3>1. FirstHolders(r0) = {} /\ EffectiveRoleGrant(rs, r0, Key) = NoGrant
        BY <1>1, <2>1, FirstHolderIsNearest DEF EffectiveRoleGrant
      <3> QED
        BY <3>1
    <2>2. CASE h # NoRole
      <3>1. FirstHolders(r0) = {h}
        BY <1>1, <2>2, FirstHolderIsNearest, NearestIsFirstHolder
      <3>2. EffectiveRoleGrant(rs, r0, Key) = rs[h].grants[Key]
        BY <2>2 DEF EffectiveRoleGrant
      <3> HIDE DEF h
      <3> QED
        BY <3>1, <3>2
    <2> QED
      BY <2>1, <2>2
  <1> QED
    BY <1>1, InputsOnly, PTL

-----------------------------------------------------------------------------
(* The page of effective grants *)

\* Expand goes through the row like effectiveUserGrants, with the sources.
LEMMA ExpandTurns ==
    ASSUME VInput
    PROVE  \E out : /\ out[0] = NoEntry
                    /\ \A k \in 1..Len(row) : out[k] = MergeEntry(out[k - 1], RoleEntry(row[k]))
                    /\ Expand = out[Len(row)]
  <1> DEFINE n == Len(row)
             info(k) == RoleEntry(row[k])
             A == {NoEntry} \cup {info(k) : k \in 1..n}
             step == [k \in 1..n |-> [e \in A |-> MergeEntry(e, info(k))]]
             IsFold(g) == g = [s \in SUBSET (1..n) |-> IF s = {} THEN NoEntry
                                ELSE MergeEntry(g[s \ {Max(s)}], info(Max(s)))]
             fold == CHOOSE g : IsFold(g)
  <1>1. n \in Nat /\ DOMAIN row = 1..n
    BY DEF VInput, UserRows
  <1>2. n \in Nat
    BY <1>1
  <1> HIDE DEF n, info
  <1>3. step \in [1..n -> [A -> A]] /\ NoEntry \in A
    BY DEF MergeEntry
  <1>4. PICK g : Folding(g, A, NoEntry, n, step)
    <2> HIDE DEF step, A
    <2> QED
      BY <1>2, <1>3, FoldExists
  <1>5. IsFold(g)
    <2>1. ASSUME NEW s \in SUBSET (1..n), s # {}
          PROVE  step[Max(s)][g[s \ {Max(s)}]]
                     = MergeEntry(g[s \ {Max(s)}], info(Max(s)))
      <3>1. Max(s) \in 1..n
        BY <1>2, <2>1, GreatestNatural
      <3>2. g[s \ {Max(s)}] \in A
        <4> HIDE DEF step, A
        <4> QED
          BY <1>4 DEF Folding
      <3> HIDE DEF A
      <3> QED
        BY <3>1, <3>2
    <2> HIDE DEF step, A
    <2> QED
      BY <1>4, <2>1 DEF Folding
  <1>6. IsFold(fold)
    <2> HIDE DEF IsFold
    <2> QED
      BY <1>5
  <1>7. Expand = fold[1..n]
    BY <1>1 DEF Expand, FoldLeft, MapThenFoldSet, info
  <1> HIDE DEF fold
  <1> DEFINE out == [k \in 0..n |-> fold[1..k]]
  <1>8. out[0] = NoEntry /\ out[n] = fold[1..n]
    BY <1>2, <1>6
  <1>9. ASSUME NEW k \in 1..n PROVE out[k] = MergeEntry(out[k - 1], info(k))
    <2>1. 1..k \in SUBSET (1..n) /\ 1..k # {} /\ k \in Nat \ {0} /\ k - 1 \in 0..n
      BY <1>2
    <2>2. Max(1..k) = k /\ (1..k) \ {k} = 1..(k - 1)
      BY <2>1, TopPosition
    <2>3. fold[1..k] = MergeEntry(fold[(1..k) \ {Max(1..k)}], info(Max(1..k)))
      BY <1>6, <2>1
    <2>4. k \in 0..n /\ out[k] = fold[1..k] /\ out[k - 1] = fold[1..(k - 1)]
      BY <2>1, <1>2
    <2> HIDE DEF out
    <2> QED
      BY <2>2, <2>3, <2>4
  <1> HIDE DEF out
  <1> QED
    BY <1>7, <1>8, <1>9 DEF n, info

\* The effect it shows is the match, and the line is one role's entry.
LEMMA ExpandIsMatch ==
    ASSUME VInput
    PROVE  /\ Expand.effect = Match
           /\ Expand = NoEntry \/ \E i \in DOMAIN row : Expand = RoleEntry(row[i])
  <1> DEFINE n == Len(row)
  <1>1. n \in Nat /\ DOMAIN row = 1..n
    BY DEF VInput, UserRows
  <1>2. PICK line : /\ line[0] = NoEntry
                    /\ \A k \in 1..n : line[k] = MergeEntry(line[k - 1], RoleEntry(row[k]))
                    /\ Expand = line[n]
    BY ExpandTurns
  <1>3. PICK grant : /\ grant[0] = NoGrant
                     /\ \A k \in 1..n : grant[k] = MergeGrant(grant[k - 1], RoleGrant(k))
                     /\ Match = grant[n]
    BY SubjectHasRow, MergeTurns DEF VInput, Match, RoleGrant
  <1>4. \A k \in 1..n : RoleEntry(row[k]).effect = RoleGrant(k)
    BY DEF RoleEntry, RoleGrant, EffectiveRoleGrant, NoEntry
  <1>5. NoEntry.effect = NoGrant
    BY DEF NoEntry
  <1> HIDE DEF n
  <1> DEFINE P == {k \in 0..n : /\ line[k].effect = grant[k]
                                /\ \/ line[k] = NoEntry
                                   \/ \E i \in 1..n : line[k] = RoleEntry(row[i])}
  <1>6. 0 \in P
    BY <1>1, <1>2, <1>3, <1>5
  <1>7. ASSUME NEW k \in 1..n, k - 1 \in P PROVE k \in P
    <2>1. k \in 0..n
      BY <1>1
    <2>2. /\ line[k - 1].effect = grant[k - 1]
          /\ line[k - 1] = NoEntry \/ \E i \in 1..n : line[k - 1] = RoleEntry(row[i])
          /\ line[k] = MergeEntry(line[k - 1], RoleEntry(row[k]))
          /\ grant[k] = MergeGrant(grant[k - 1], RoleGrant(k))
          /\ RoleEntry(row[k]).effect = RoleGrant(k)
      BY <1>2, <1>3, <1>4, <1>7
    <2>3. line[k].effect = grant[k]
      BY <2>2 DEF MergeEntry, MergeGrant
    <2>4. line[k] = line[k - 1] \/ line[k] = RoleEntry(row[k])
      BY <2>2 DEF MergeEntry
    <2> QED
      BY <2>1, <2>2, <2>3, <2>4
  <1>8. n \in P
    <2> HIDE DEF P
    <2>1. \A k \in 0..n : k \in P
      BY <1>1, <1>6, <1>7, CountingTo
    <2> QED
      BY <1>1, <2>1
  <1> QED
    BY <1>1, <1>2, <1>3, <1>8

\* What a check allows is on the page, each line of the page names the roles it comes
\* from, and a line that a check overrules is overruled by a deny of another role.
THEOREM ExpansionAlwaysExplains == VSpec => []ExpansionExplains
  <1>1. ASSUME VInput, DecideSynced = "allow"
        PROVE  ExpandLines # {} /\ \A line \in ExpandLines : Allows(line.effect)
    <2>1. /\ Expand.effect = Match /\ Match.kind \in {"allow", "conditional"}
          /\ Match.kind = "allow" \/ Match.conds \subseteq passing
      BY <1>1, ExpandIsMatch, AllowedMatch
    <2>2. NoEntry.effect.kind = "none"
      BY DEF NoEntry, NoGrant
    <2> QED
      BY <2>1, <2>2 DEF ExpandLines, Allows
  <1>2. ASSUME VInput, NEW line \in ExpandLines
        PROVE  /\ line.effect = rs[line.source].grants[Key]
               /\ line.via \in ToSet(row) /\ line.source \in ToSet(RoleChain(rs, line.via))
               /\ line.inherited = (line.source # line.via)
               /\ KetoMember(Tuples(rs, Users), Subject, line.source)
    <2>1. PICK i \in DOMAIN row : line = RoleEntry(row[i]) /\ line # NoEntry
      BY <1>2, ExpandIsMatch DEF ExpandLines
    <2> DEFINE source == NearestHolder(rs, row[i], Key)
    <2>2. source # NoRole
      BY <2>1 DEF RoleEntry
    <2>3. line = [effect |-> rs[source].grants[Key], source |-> source,
                  inherited |-> source # row[i], via |-> row[i]]
      BY <2>1, <2>2 DEF RoleEntry
    <2>4. row[i] \in RoleIds /\ row[i] \in ToSet(row)
      BY <1>2 DEF VInput, UserRows, ToSet
    <2>5. source \in ToSet(RoleChain(rs, row[i])) /\ source \in RoleIds /\ rs[source] # Absent
      <3>1. \E n \in 1..Len(RoleChain(rs, row[i])) : source = RoleChain(rs, row[i])[n]
        BY <1>2, <2>2, <2>4, NearestHolderIsFirst, SubjectHasRow DEF VInput
      <3> QED
        BY <1>2, <2>4, <3>1, ChainPositions
    <2>6. source \in ResolvedRoles(rs, row)
      BY <2>5 DEF ResolvedRoles
    <2> HIDE DEF source
    <2>7. KetoMember(Tuples(rs, Users), Subject, source)
      BY <1>2, <2>5, <2>6, SubjectHasRow, MembersAreResolved DEF VInput
    <2> QED
      BY <2>3, <2>4, <2>5, <2>7
  <1>3. ASSUME VInput, NEW line \in ExpandLines, Allows(line.effect), DecideSynced = "deny"
        PROVE  \E r \in ResolvedRoles(rs, row) \ {line.source} :
                   Holds(r) /\ rs[r].grants[Key].kind = "deny"
    <2>1. line.effect = Match /\ line.effect = rs[line.source].grants[Key]
      BY <1>2, <1>3, ExpandIsMatch DEF ExpandLines
    <2>2. Match # NoGrant /\ Match.kind # "deny"
      BY <1>3, <2>1 DEF Allows, NoGrant
    <2>3. MatchOf(Match) = Match
      BY <1>3, <2>2, MatchType, KindsTell DEF MatchOf
    <2>4. Answer(TRUE) \/ ~Answer(FALSE)
      BY <1>3, <2>1, <2>3 DEF DecideSynced, Precedence, Allows
    <2>5. Answer(TRUE)
      BY <1>3, <2>2, <2>4, MatchWhenReached
    <2>6. PICK r \in ResolvedRoles(rs, row) :
             Holds(r) /\ (rs[r].grants[Key].kind = "deny") = TRUE
      BY <1>3, <2>5, AnswerIsResolved
    <2> QED
      BY <2>1, <2>2, <2>6
  <1>4. VInput => ExpansionExplains
    BY <1>1, <1>2, <1>3 DEF ExpansionExplains
  <1> QED
    BY <1>4, InputsOnly, PTL
=============================================================================
