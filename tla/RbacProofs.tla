------------------------------- MODULE RbacProofs -------------------------------
(***************************************************************************)
(* What holds of the operators of Rbac for any roles, users and tables:    *)
(* what Keto answers about a set of tuples, that roleChain's walk lists a   *)
(* role's whole ancestry, which grant is in force, and that Keto and the    *)
(* engine agree on a user's roles.                                         *)
(***************************************************************************)
EXTENDS Rbac, WellFoundedInduction, FiniteSetTheorems, TLAPS

-----------------------------------------------------------------------------
(* Counting: what the loops and folds of Rbac rest on *)

\* A set of natural numbers that has an element has a least one.
LEMMA LeastNatural ==
    ASSUME NEW I \in SUBSET Nat, I # {}
    PROVE  Min(I) \in I /\ \A j \in I : Min(I) <= j
  <1> DEFINE less == {ss \in Nat \X Nat : ss[1] < ss[2]}
  <1>1. IsWellFoundedOn(less, Nat)
    BY NatLessThanWellFounded DEF OpToRel
  <1> HIDE DEF less
  <1>2. PICK n \in I : \A m \in I : <<m, n>> \notin less
    BY <1>1, WFMin
  <1>3. ASSUME NEW m \in I PROVE n <= m
    <2>1. m \in Nat /\ n \in Nat /\ <<m, n>> \notin less
      BY <1>2
    <2> QED
      BY <2>1 DEF less
  <1>4. \E i \in I : \A j \in I : i <= j
    BY <1>3
  <1> QED
    BY <1>4 DEF Min

\* A set of numbers that holds 0 and, with a number, the next is Nat.
LEMMA Counting ==
    ASSUME NEW P \in SUBSET Nat, 0 \in P, \A n \in P : n + 1 \in P
    PROVE  P = Nat
  <1> SUFFICES ASSUME Nat \ P # {} PROVE FALSE
    OBVIOUS
  <1> DEFINE n == Min(Nat \ P)
  <1>1. n \in Nat \ P /\ \A j \in Nat \ P : n <= j
    BY LeastNatural
  <1> HIDE DEF n
  <1>2. n # 0 /\ n - 1 \in Nat /\ n - 1 \in P
    BY <1>1
  <1>3. (n - 1) + 1 \in P
    BY <1>2
  <1> QED
    BY <1>1, <1>2, <1>3

\* The same for the numbers up to n.
LEMMA CountingTo ==
    ASSUME NEW n \in Nat, NEW P, 0 \in P,
           \A k \in 1..n : k - 1 \in P => k \in P
    PROVE  \A k \in 0..n : k \in P
  <1> DEFINE Q == {k \in Nat : k <= n => k \in P}
  <1>1. 0 \in Q
    OBVIOUS
  <1>2. ASSUME NEW k \in Q PROVE k + 1 \in Q
    <2>1. k \in Nat /\ k + 1 \in Nat /\ (k + 1) - 1 = k
      OBVIOUS
    <2>2. k + 1 <= n => k \in P /\ k + 1 \in 1..n
      BY <2>1
    <2> QED
      BY <2>1, <2>2
  <1>3. Q = Nat
    <2>1. Q \in SUBSET Nat
      OBVIOUS
    <2> HIDE DEF Q
    <2> QED
      BY <1>1, <1>2, <2>1, Counting
  <1> QED
    BY <1>3

\* A set of numbers no greater than n that has an element has a greatest one.
LEMMA GreatestNatural ==
    ASSUME NEW n \in Nat, NEW I \in SUBSET (1..n), I # {}
    PROVE  Max(I) \in I /\ \A j \in I : j <= Max(I)
  <1> DEFINE J == {j \in 0..n : n - j \in I}
             least == Min(J)
  <1>1. \A i \in I : n - i \in J /\ n - (n - i) = i
    OBVIOUS
  <1>2. J \in SUBSET Nat /\ J # {}
    <2>1. PICK i \in I : TRUE
      OBVIOUS
    <2>2. n - i \in J
      BY <1>1
    <2>3. \A j \in J : j \in Nat
      OBVIOUS
    <2> HIDE DEF J
    <2> QED
      BY <2>2, <2>3
  <1> HIDE DEF J
  <1>3. least \in J /\ \A j \in J : least <= j
    BY <1>2, LeastNatural
  <1> HIDE DEF least
  <1>4. n - least \in I /\ least \in Nat
    BY <1>3 DEF J
  <1>5. \A i \in I : i <= n - least
    BY <1>1, <1>3, <1>4
  <1>6. \E i \in I : \A j \in I : i >= j
    BY <1>4, <1>5
  <1>7. Max(I) \in I /\ \A j \in I : Max(I) >= j
    BY <1>6 DEF Max
  <1> QED
    BY <1>7

\* The greatest of the first k positions is k.
LEMMA TopPosition ==
    ASSUME NEW k \in Nat \ {0}
    PROVE  Max(1..k) = k /\ (1..k) \ {k} = 1..(k - 1)
  <1>1. 1..k # {} /\ k \in 1..k
    OBVIOUS
  <1>2. Max(1..k) \in 1..k /\ \A j \in 1..k : j <= Max(1..k)
    BY <1>1, GreatestNatural
  <1>3. (1..k) \ {k} = 1..(k - 1)
    OBVIOUS
  <1> QED
    BY <1>1, <1>2, <1>3

\* g is a fold over the positions 1..n, from the last to the first: what FoldLeft
\* of the community modules comes to.
Folding(g, A, base, n, step) ==
    /\ g \in [SUBSET (1..n) -> A]
    /\ \A s \in SUBSET (1..n) :
          g[s] = IF s = {} THEN base ELSE step[Max(s)][g[s \ {Max(s)}]]

\* There is one, for any start and any turns.
LEMMA FoldExists ==
    ASSUME NEW A, NEW base \in A, NEW n \in Nat, NEW step \in [1..n -> [A -> A]]
    PROVE  \E g : Folding(g, A, base, n, step)
  <1> DEFINE Turn(g, s) == IF s = {} THEN base ELSE step[Max(s)][g[s \ {Max(s)}]]
             Upto(m, g) == /\ g \in [SUBSET (1..m) -> A]
                           /\ \A s \in SUBSET (1..m) : g[s] = Turn(g, s)
             P == {m \in Nat : m <= n => \E g : Upto(m, g)}
  <1>1. 0 \in P
    <2> DEFINE g == [s \in SUBSET (1..0) |-> base]
    <2>1. Upto(0, g)
      <3>1. 1..0 = {}
        OBVIOUS
      <3>2. \A s \in SUBSET (1..0) : s = {}
        BY <3>1
      <3> QED
        BY <3>2
    <2> HIDE DEF g, Upto
    <2> QED
      BY <2>1
  <1>2. ASSUME NEW m \in P PROVE m + 1 \in P
    <2>a. m \in Nat /\ m + 1 \in Nat
      OBVIOUS
    <2> SUFFICES ASSUME m + 1 <= n PROVE \E h : Upto(m + 1, h)
      <3> HIDE DEF Upto
      <3> QED
        BY <2>a
    <2>b. \E g : Upto(m, g)
      <3>1. m <= n
        BY <2>a
      <3> HIDE DEF Upto
      <3> QED
        BY <3>1
    <2>1. PICK g : Upto(m, g)
      <3> HIDE DEF Upto
      <3> QED
        BY <2>b
    <2> DEFINE top == m + 1
               h == [s \in SUBSET (1..top) |->
                       IF top \in s THEN step[top][g[s \ {top}]] ELSE g[s]]
    <2>2. /\ top \in 1..n /\ top \in Nat /\ top \notin 1..m
          /\ \A i \in 1..top : i \in Nat /\ i <= top /\ (i = top \/ i \in 1..m)
      BY <2>a
    <2> HIDE DEF top
    <2>3. ASSUME NEW s \in SUBSET (1..top)
          PROVE  h[s] \in A /\ h[s] = Turn(h, s)
      <3>1. CASE top \in s
        <4>1. s \ {top} \in SUBSET (1..m) /\ s \ {top} \in SUBSET (1..top)
          BY <2>2
        <4>2. g[s \ {top}] \in A /\ h[s \ {top}] = g[s \ {top}]
          BY <2>1, <4>1
        <4>3. Max(s) = top
          <5>1. Max(s) \in s /\ \A j \in s : j <= Max(s)
            BY <2>2, <3>1, GreatestNatural
          <5>2. Max(s) \in Nat /\ Max(s) <= top /\ top <= Max(s)
            BY <3>1, <5>1, <2>2
          <5> QED
            BY <5>2, <2>2
        <4>4. h[s] = step[top][g[s \ {top}]]
          BY <3>1
        <4>5. step[top][g[s \ {top}]] \in A
          BY <2>2, <4>2
        <4>6. Turn(h, s) = step[top][h[s \ {top}]]
          BY <3>1, <4>3
        <4> HIDE DEF h, Turn
        <4> QED
          BY <4>2, <4>4, <4>5, <4>6
      <3>2. CASE top \notin s
        <4>1. s \in SUBSET (1..m) /\ s \ {Max(s)} \in SUBSET (1..m)
          BY <2>2, <3>2
        <4>2. s \ {Max(s)} \in SUBSET (1..top) /\ top \notin s \ {Max(s)}
          BY <3>2
        <4>3. h[s] = g[s] /\ h[s \ {Max(s)}] = g[s \ {Max(s)}]
          BY <3>2, <4>2
        <4>4. g[s] \in A /\ g[s] = Turn(g, s)
          BY <2>1, <4>1
        <4> HIDE DEF h
        <4> QED
          BY <4>3, <4>4
      <3> QED
        BY <3>1, <3>2
    <2>4. Upto(top, h)
      <3>1. h \in [SUBSET (1..top) -> A]
        <4>1. \A s \in SUBSET (1..top) : h[s] \in A
          BY <2>3
        <4> QED
          BY <4>1
      <3>2. \A s \in SUBSET (1..top) : h[s] = Turn(h, s)
        BY <2>3
      <3> HIDE DEF h, Turn
      <3> QED
        BY <3>1, <3>2
    <2> HIDE DEF h, Upto
    <2> QED
      BY <2>4 DEF top
  <1>3. P = Nat
    <2>1. P \in SUBSET Nat
      OBVIOUS
    <2> HIDE DEF P
    <2> QED
      BY <1>1, <1>2, <2>1, Counting
  <1>4. \E g : Upto(n, g)
    <2>1. n \in P
      BY <1>3
    <2> HIDE DEF Upto
    <2> QED
      BY <2>1
  <1>5. PICK g : Upto(n, g)
    <2> HIDE DEF Upto
    <2> QED
      BY <1>4
  <1> QED
    BY <1>5 DEF Folding

\* A loop that starts at base and takes its turns with step has a history.
LEMMA LoopExists ==
    ASSUME NEW A, NEW base \in A, NEW step \in [A -> A]
    PROVE  \E g \in [Nat -> A] :
              g = [n \in Nat |-> IF n = 0 THEN base ELSE step[g[n - 1]]]
  <1> DEFINE Upto(m, g) == /\ g \in [0..m -> A]
                           /\ g[0] = base
                           /\ \A i \in 1..m : g[i] = step[g[i - 1]]
             P == {m \in Nat : \E g : Upto(m, g)}
  <1>1. 0 \in P
    <2>1. Upto(0, [i \in 0..0 |-> base])
      OBVIOUS
    <2> QED
      BY <2>1
  <1>2. ASSUME NEW m \in P PROVE m + 1 \in P
    <2>1. PICK g : Upto(m, g)
      OBVIOUS
    <2> DEFINE h == [i \in 0..(m + 1) |-> IF i = m + 1 THEN step[g[m]] ELSE g[i]]
    <2>2. Upto(m + 1, h)
      <3>1. g[m] \in A
        BY <2>1
      <3>2. h \in [0..(m + 1) -> A] /\ h[0] = base
        BY <2>1, <3>1
      <3>3. ASSUME NEW i \in 1..(m + 1) PROVE h[i] = step[h[i - 1]]
        BY <2>1
      <3> QED
        BY <3>2, <3>3
    <2> HIDE DEF h, Upto
    <2> QED
      BY <2>2
  <1>3. P = Nat
    <2> HIDE DEF P
    <2> QED
      BY <1>1, <1>2, Counting DEF P
  <1>4. ASSUME NEW m \in Nat, NEW k \in Nat, NEW g, NEW h, Upto(m, g), Upto(k, h)
        PROVE  \A i \in Nat : i <= m /\ i <= k => g[i] = h[i]
    <2> DEFINE Q == {i \in Nat : i <= m /\ i <= k => g[i] = h[i]}
    <2>1. 0 \in Q
      BY <1>4
    <2>2. ASSUME NEW i \in Q PROVE i + 1 \in Q
      <3>1. CASE i + 1 <= m /\ i + 1 <= k
        <4>1. g[i] = h[i]
          BY <3>1
        <4>2. i + 1 \in 1..m /\ i + 1 \in 1..k /\ (i + 1) - 1 = i
          BY <3>1
        <4> QED
          BY <1>4, <4>1, <4>2
      <3> QED
        BY <3>1
    <2> HIDE DEF Q
    <2>3. Q = Nat
      BY <2>1, <2>2, Counting DEF Q
    <2> QED
      BY <2>3 DEF Q
  <1> DEFINE part(m) == CHOOSE g : Upto(m, g)
             f == [m \in Nat |-> part(m)[m]]
  <1>5. ASSUME NEW m \in Nat PROVE Upto(m, part(m))
    <2>1. \E g : Upto(m, g)
      BY <1>3
    <2> HIDE DEF Upto
    <2> QED
      BY <2>1
  <1>6. f \in [Nat -> A]
    BY <1>5
  <1>7. f[0] = base
    BY <1>5
  <1>8. ASSUME NEW m \in Nat, m # 0 PROVE f[m] = step[f[m - 1]]
    <2>1. m - 1 \in Nat /\ Upto(m, part(m)) /\ Upto(m - 1, part(m - 1))
      <3> HIDE DEF Upto, part
      <3> QED
        BY <1>5, <1>8
    <2>2. part(m)[m - 1] = part(m - 1)[m - 1]
      <3> HIDE DEF Upto, part
      <3> QED
        BY <1>4, <2>1
    <2>3. part(m)[m] = step[part(m)[m - 1]]
      BY <2>1, <1>8
    <2> HIDE DEF part
    <2> QED
      BY <2>1, <2>2, <2>3
  <1> HIDE DEF f
  <1>9. f = [n \in Nat |-> IF n = 0 THEN base ELSE step[f[n - 1]]]
    BY <1>6, <1>7, <1>8
  <1> QED
    BY <1>6, <1>9

-----------------------------------------------------------------------------
(* Tables *)

\* A table without rows is a table.
LEMMA EmptyRoleTable == [r \in RoleIds |-> Absent] \in RoleTables
  <1>1. Present([r \in RoleIds |-> Absent]) = {}
    BY DEF Present
  <1> QED
    BY <1>1, FS_EmptySet DEF RoleTables

\* Writing or removing one row leaves a table a table.
LEMMA WrittenRoleTable ==
    ASSUME NEW rs \in RoleTables, NEW id, NEW row \in RoleRows \cup {Absent}
    PROVE  [rs EXCEPT ![id] = row] \in RoleTables
  <1> DEFINE new == [rs EXCEPT ![id] = row]
  <1>1. rs \in [RoleIds -> RoleRows \cup {Absent}] /\ IsFiniteSet(Present(rs))
    BY DEF RoleTables
  <1>2. new \in [RoleIds -> RoleRows \cup {Absent}]
    BY <1>1
  <1>3. IsFiniteSet(Present(rs) \cup {id})
    BY <1>1, FS_AddElement
  <1>4. Present(new) \subseteq Present(rs) \cup {id}
    BY <1>1 DEF Present
  <1>5. IsFiniteSet(Present(new))
    BY <1>3, <1>4, FS_Subset
  <1> QED
    BY <1>2, <1>5 DEF RoleTables

-----------------------------------------------------------------------------
(* Keto's answers *)

\* More tuples make more members.
LEMMA MemberMonotone ==
    ASSUME NEW k1, NEW k2, Within(k1, k2), NEW uid, NEW rid \in RoleIds,
           KetoMember(k1, uid, rid)
    PROVE  KetoMember(k2, uid, rid)
  <1> SUFFICES ASSUME NEW S \in SUBSET RoleIds,
                      \A r \in RoleIds : <<uid, r>> \in k2.members => r \in S,
                      UpClosed(S, k2.nested)
               PROVE  rid \in S
    BY DEF KetoMember
  <1>1. \A r \in RoleIds : <<uid, r>> \in k1.members => r \in S
    BY DEF Within
  <1>2. UpClosed(S, k1.nested)
    BY DEF Within, UpClosed
  <1> QED
    BY <1>1, <1>2 DEF KetoMember

\* Keto's answer to Check is monotone in its tuples: what a larger set of tuples
\* denies reachability of, a smaller one does not reach.
THEOREM CheckMonotone ==
    ASSUME NEW k1 \in KetoStates, NEW k2 \in KetoStates, Within(k1, k2),
           NEW uid, NEW key, NEW deny, KetoCheck(k1, uid, key, deny)
    PROVE  KetoCheck(k2, uid, key, deny)
  <1>1. PICK t \in k1.grants : /\ t.key = key
                               /\ t.deny = deny
                               /\ KetoMember(k1, uid, t.role)
    BY DEF KetoCheck
  <1>2. t \in k2.grants /\ t.role \in RoleIds
    BY <1>1 DEF Within, KetoStates, GrantTupleSet
  <1>3. KetoMember(k2, uid, t.role)
    BY <1>1, <1>2, MemberMonotone
  <1> QED
    BY <1>1, <1>2, <1>3 DEF KetoCheck

\* Without grants or without direct memberships Keto answers no to everything:
\* clearing either namespace takes all access away.
THEOREM NothingReachedWhileCleared ==
    ASSUME NEW k \in KetoStates, k.grants = {} \/ k.members = {},
           NEW uid, NEW key, NEW deny
    PROVE  ~KetoCheck(k, uid, key, deny)
  <1> SUFFICES ASSUME NEW t \in k.grants, k.members = {}
               PROVE  ~KetoMember(k, uid, t.role)
    BY DEF KetoCheck
  <1>1. UpClosed({}, k.nested) /\ {} \in SUBSET RoleIds
    BY DEF UpClosed
  <1> QED
    BY <1>1 DEF KetoMember

\* A subject is a member of each role of its row, and of the parent of each role
\* that it is a member of and that has a row: what nested groups stand for.
THEOREM MembersInherit ==
    ASSUME NEW rs, NEW us, NEW uid \in UserIds, us[uid] # Absent
    PROVE  LET k == Tuples(rs, us) IN
           /\ \A i \in DOMAIN us[uid] :
                 us[uid][i] \in RoleIds => KetoMember(k, uid, us[uid][i])
           /\ \A r \in RoleIds :
                 /\ KetoMember(k, uid, r)
                 /\ rs[r] # Absent
                 /\ rs[r].parent \in RoleIds
                 => KetoMember(k, uid, rs[r].parent)
  <1> DEFINE k == Tuples(rs, us)
  <1>1. ASSUME NEW i \in DOMAIN us[uid], us[uid][i] \in RoleIds
        PROVE  KetoMember(k, uid, us[uid][i])
    <2>1. <<uid, us[uid][i]>> \in k.members
      BY <1>1 DEF Tuples, MemberTuples
    <2> QED
      BY <2>1, <1>1 DEF KetoMember
  <1>2. ASSUME NEW r \in RoleIds, KetoMember(k, uid, r), rs[r] # Absent,
               rs[r].parent \in RoleIds
        PROVE  KetoMember(k, uid, rs[r].parent)
    <2>1. <<r, rs[r].parent>> \in k.nested
      BY <1>2 DEF Tuples, NestedTuples
    <2> QED
      BY <2>1, <1>2 DEF KetoMember, UpClosed
  <1> QED
    BY <1>1, <1>2

\* Nothing else makes a member: a set of roles that holds the subject's own roles
\* and is closed under the parent column of existing rows holds every role of
\* which Keto says that the subject is a member.
THEOREM MembersOnlyInherit ==
    ASSUME NEW rs, NEW us, NEW uid \in UserIds, NEW S \in SUBSET RoleIds,
           us[uid] = Absent \/ \A i \in DOMAIN us[uid] : us[uid][i] \in S,
           \A r \in S : rs[r] # Absent /\ rs[r].parent \in RoleIds
                            => rs[r].parent \in S,
           NEW rid \in RoleIds, KetoMember(Tuples(rs, us), uid, rid)
    PROVE  rid \in S
  <1>1. \A r \in RoleIds : <<uid, r>> \in Tuples(rs, us).members => r \in S
    BY DEF Tuples, MemberTuples
  <1>2. UpClosed(S, Tuples(rs, us).nested)
    BY DEF Tuples, NestedTuples, UpClosed
  <1> QED
    BY <1>1, <1>2 DEF KetoMember

-----------------------------------------------------------------------------
(* roleChain *)

\* The state of roleChain's loop: where it stands, and what it has collected.
Walks == [cur : RoleIds \cup {NoRole}, chain : Seq(RoleIds)]
WalkStart(id) == [cur |-> id, chain |-> <<>>]

\* A turn changes nothing any more.
WalkEnded(rs, w) == \/ w.cur = NoRole
                    \/ rs[w.cur] = Absent
                    \/ w.cur \in ToSet(w.chain)

\* A walk from a role along the parent column, over rows that exist, each once.
Ancestry(rs, id, c) ==
    /\ c \in Seq(RoleIds)
    /\ \A i \in 1..Len(c) : c[i] \in Present(rs)
    /\ \A i, j \in 1..Len(c) : c[i] = c[j] => i = j
    /\ Len(c) > 0 => c[1] = id
    /\ \A i \in 1..Len(c) : i < Len(c) => rs[c[i]].parent = c[i + 1]

\* What every turn keeps: the walk stands behind the last role it collected.
WalkInv(rs, id, w) ==
    /\ w \in Walks
    /\ Ancestry(rs, id, w.chain)
    /\ w.cur = IF Len(w.chain) = 0 THEN id ELSE rs[w.chain[Len(w.chain)]].parent

\* A turn keeps that, and adds a role unless the walk has ended.
LEMMA TurnKeeps ==
    ASSUME NEW rs \in RoleTables, NEW id \in RoleIds, NEW w, WalkInv(rs, id, w)
    PROVE  /\ WalkInv(rs, id, ChainTurn(rs, w))
           /\ IF WalkEnded(rs, w) THEN ChainTurn(rs, w) = w
              ELSE Len(ChainTurn(rs, w).chain) = Len(w.chain) + 1
  <1>1. CASE WalkEnded(rs, w)
    BY <1>1 DEF WalkEnded, ChainTurn
  <1>2. CASE ~WalkEnded(rs, w)
    <2> DEFINE c == w.chain
               d == Append(c, w.cur)
               p == rs[w.cur].parent
    <2>1. /\ w.cur \in RoleIds /\ rs[w.cur] # Absent
          /\ \A i \in 1..Len(c) : c[i] # w.cur
          /\ ChainTurn(rs, w) = [cur |-> p, chain |-> d]
      BY <1>2 DEF WalkEnded, ChainTurn, WalkInv, Walks, ToSet
    <2>2. c \in Seq(RoleIds) /\ Len(c) \in Nat
      BY DEF WalkInv, Walks
    <2>3. /\ d \in Seq(RoleIds) /\ Len(d) = Len(c) + 1
          /\ \A i \in 1..Len(d) : d[i] = IF i = Len(c) + 1 THEN w.cur ELSE c[i]
      BY <2>1, <2>2
    <2>4. p \in RoleIds \cup {NoRole} /\ w.cur \in Present(rs)
      BY <2>1 DEF RoleTables, RoleRows, Present
    <2>5. /\ \A i \in 1..Len(c) : c[i] \in Present(rs)
          /\ \A i, j \in 1..Len(c) : c[i] = c[j] => i = j
          /\ Len(c) > 0 => c[1] = id
          /\ \A i \in 1..Len(c) : i < Len(c) => rs[c[i]].parent = c[i + 1]
          /\ w.cur = IF Len(c) = 0 THEN id ELSE rs[c[Len(c)]].parent
      BY DEF WalkInv, Ancestry
    <2> HIDE DEF c, d, p
    <2>6. Ancestry(rs, id, d)
      <3>1. \A i \in 1..Len(d) : d[i] \in Present(rs)
        BY <2>2, <2>3, <2>4, <2>5
      <3>2. \A i, j \in 1..Len(d) : d[i] = d[j] => i = j
        BY <2>1, <2>2, <2>3, <2>5
      <3>3. d[1] = id
        BY <2>2, <2>3, <2>5
      <3>4. ASSUME NEW i \in 1..Len(d), i < Len(d) PROVE rs[d[i]].parent = d[i + 1]
        <4>1. i \in 1..Len(c) /\ i + 1 \in 1..Len(d) /\ d[i] = c[i]
          BY <2>2, <2>3, <3>4
        <4> QED
          BY <2>2, <2>3, <2>5, <4>1
      <3> QED
        BY <2>3, <3>1, <3>2, <3>3, <3>4 DEF Ancestry
    <2>7. d[Len(d)] = w.cur /\ Len(d) # 0
      BY <2>2, <2>3
    <2> QED
      BY <1>2, <2>1, <2>2, <2>3, <2>4, <2>6, <2>7 DEF WalkInv, Walks, c, p
  <1> QED
    BY <1>1, <1>2

\* The recursion of RoleChain is such a loop.
LEMMA WalkExists ==
    ASSUME NEW rs \in RoleTables, NEW id \in RoleIds
    PROVE  \E walk \in [Nat -> Walks] :
              /\ walk[0] = WalkStart(id)
              /\ \A n \in Nat : walk[n + 1] = ChainTurn(rs, walk[n])
              /\ RoleChain(rs, id) = walk[Cardinality(Present(rs))].chain
  <1> DEFINE step == [w \in Walks |-> ChainTurn(rs, w)]
             IsWalk(g) == g = [turn \in Nat |->
                                 IF turn = 0 THEN [cur |-> id, chain |-> <<>>]
                                 ELSE ChainTurn(rs, g[turn - 1])]
             walk == CHOOSE g : IsWalk(g)
  <1>1. ASSUME NEW w \in Walks PROVE ChainTurn(rs, w) \in Walks
    BY DEF Walks, ChainTurn, RoleTables, RoleRows
  <1>2. step \in [Walks -> Walks] /\ WalkStart(id) \in Walks
    BY <1>1 DEF WalkStart, Walks
  <1>3. PICK g \in [Nat -> Walks] :
           g = [n \in Nat |-> IF n = 0 THEN WalkStart(id) ELSE step[g[n - 1]]]
    <2> HIDE DEF step
    <2> QED
      BY <1>2, LoopExists
  <1>4. IsWalk(g)
    <2>1. \A n \in Nat : n # 0 => step[g[n - 1]] = ChainTurn(rs, g[n - 1])
      OBVIOUS
    <2> HIDE DEF step
    <2> QED
      BY <1>3, <2>1 DEF WalkStart
  <1>5. IsWalk(walk)
    <2> HIDE DEF IsWalk
    <2> QED
      BY <1>4
  <1>6. RoleChain(rs, id) = walk[Cardinality(Present(rs))].chain
    BY DEF RoleChain
  <1> HIDE DEF walk
  <1>7. walk[0] = WalkStart(id) /\ \A n \in Nat : walk[n + 1] = ChainTurn(rs, walk[n])
    BY <1>5 DEF WalkStart
  <1>8. walk \in [Nat -> Walks]
    <2> DEFINE P == {n \in Nat : walk[n] \in Walks}
    <2>1. 0 \in P
      BY <1>2, <1>7
    <2>2. \A n \in P : n + 1 \in P
      BY <1>1, <1>7
    <2> HIDE DEF P
    <2>3. P = Nat
      BY <2>1, <2>2, Counting DEF P
    <2> QED
      BY <1>5, <2>3 DEF P
  <1> QED
    BY <1>6, <1>7, <1>8

\* roleChain lists a role's whole ancestry: rows that exist, each once, each the
\* parent of the one before it, from the role itself on, and it stops only at a
\* root, at a parent that has no row or at a role already listed.  So the guard
\* against cycles cuts nothing off, and the walk ends whatever the parent columns
\* say.
THEOREM RoleChainIsAncestry ==
    ASSUME NEW rs \in RoleTables, NEW id \in RoleIds
    PROVE  LET c == RoleChain(rs, id) IN
           /\ Ancestry(rs, id, c)
           /\ id \in Present(rs) => Len(c) > 0
           /\ Len(c) > 0 => LET p == rs[c[Len(c)]].parent
                            IN  p \in Present(rs) => p \in ToSet(c)
  <1> DEFINE rows == Present(rs)
             last == Cardinality(rows)
  <1>1. PICK walk \in [Nat -> Walks] :
              /\ walk[0] = WalkStart(id)
              /\ \A n \in Nat : walk[n + 1] = ChainTurn(rs, walk[n])
              /\ RoleChain(rs, id) = walk[last].chain
    BY WalkExists
  <1>2. IsFiniteSet(rows) /\ last \in Nat /\ rows \subseteq RoleIds
    BY FS_CardinalityType DEF RoleTables, Present
  <1> DEFINE P == {n \in Nat : /\ WalkInv(rs, id, walk[n])
                               /\ WalkEnded(rs, walk[n]) \/ Len(walk[n].chain) = n}
  <1>3. 0 \in P
    <2>1. /\ walk[0].cur = id /\ walk[0].chain = <<>> /\ walk[0] \in Walks
          /\ Len(walk[0].chain) = 0
      BY <1>1 DEF WalkStart
    <2>2. Ancestry(rs, id, walk[0].chain)
      BY <2>1 DEF Ancestry
    <2>3. WalkInv(rs, id, walk[0])
      BY <2>1, <2>2 DEF WalkInv
    <2> QED
      BY <2>1, <2>3
  <1>4. ASSUME NEW n \in P PROVE n + 1 \in P
    <2>1. /\ n \in Nat /\ WalkInv(rs, id, walk[n])
          /\ WalkEnded(rs, walk[n]) \/ Len(walk[n].chain) = n
          /\ walk[n + 1] = ChainTurn(rs, walk[n])
      BY <1>1, <1>4
    <2>2. /\ WalkInv(rs, id, walk[n + 1])
          /\ IF WalkEnded(rs, walk[n]) THEN walk[n + 1] = walk[n]
             ELSE Len(walk[n + 1].chain) = Len(walk[n].chain) + 1
      BY <2>1, TurnKeeps
    <2> QED
      BY <2>1, <2>2
  <1>5. P = Nat
    <2> HIDE DEF P
    <2> QED
      BY <1>3, <1>4, Counting DEF P
  <1> DEFINE w == walk[last]
             c == w.chain
  <1>6. WalkInv(rs, id, w) /\ (WalkEnded(rs, w) \/ Len(c) = last)
    BY <1>2, <1>5
  <1>7. c \in Seq(RoleIds) /\ Len(c) \in Nat /\ Ancestry(rs, id, c)
    BY <1>6 DEF WalkInv, Walks
  <1>8. w.cur \in rows => w.cur \in ToSet(c)
    <2>1. CASE WalkEnded(rs, w)
      BY <2>1, NoRoleAssumption, <1>2 DEF WalkEnded, Present
    <2>2. CASE Len(c) = last
      <3>1. c \in Injection(1..Len(c), rows)
        BY <1>7 DEF Ancestry, Injection, IsInjective
      <3>2. Cardinality(1..Len(c)) = last
        BY <1>7, <2>2, FS_Interval
      <3>3. c \in Surjection(1..Len(c), rows)
        BY <1>2, <3>1, <3>2, FS_Injection
      <3> QED
        BY <1>7, <3>3 DEF Surjection, ToSet
    <2> QED
      BY <1>6, <2>1, <2>2
  <1> HIDE DEF w
  <1>9. id \in rows => Len(c) > 0
    <2> SUFFICES ASSUME id \in rows, Len(c) = 0 PROVE FALSE
      BY <1>7
    <2>1. w.cur = id
      BY <1>6 DEF WalkInv
    <2> QED
      BY <1>7, <1>8, <2>1 DEF ToSet
  <1>10. Len(c) > 0 => w.cur = rs[c[Len(c)]].parent
    BY <1>6, <1>7 DEF WalkInv
  <1> QED
    BY <1>1, <1>7, <1>8, <1>9, <1>10 DEF w

-----------------------------------------------------------------------------
(* The grant in force *)

\* A value of the map of effective grants, or that the key is not in it.
GrantsOrNone == Effects \cup {NoGrant}

\* Along a role's chain the first role that has the key holds it, and there is
\* none only when no role of the chain has it.
THEOREM NearestHolderIsFirst ==
    ASSUME NEW rs \in RoleTables, NEW id \in RoleIds, NEW key
    PROVE  LET c == RoleChain(rs, id)
               r == NearestHolder(rs, id, key)
           IN  \/ /\ r = NoRole
                  /\ \A i \in 1..Len(c) : ~HasKey(rs, c[i], key)
               \/ \E n \in 1..Len(c) :
                     /\ r = c[n] /\ HasKey(rs, r, key)
                     /\ \A i \in 1..Len(c) : i < n => ~HasKey(rs, c[i], key)
  <1> DEFINE c == RoleChain(rs, id)
             I == {i \in 1..Len(c) : HasKey(rs, c[i], key)}
  <1>1. Len(c) \in Nat
    BY RoleChainIsAncestry DEF Ancestry
  <1>2. NearestHolder(rs, id, key) =
            LET first == IF I # {} THEN Min(I) ELSE 0
            IN  IF first = 0 THEN NoRole ELSE c[first]
    BY DEF NearestHolder, SelectInSeq
  <1>3. CASE I = {}
    BY <1>2, <1>3
  <1>4. CASE I # {}
    <2> DEFINE n == Min(I)
    <2>1. I \in SUBSET Nat /\ 0 \notin I
      BY <1>1
    <2>2. n \in I /\ \A j \in I : n <= j
      BY <2>1, <1>4, LeastNatural
    <2>3. NearestHolder(rs, id, key) = c[n]
      BY <1>2, <1>4, <2>1, <2>2
    <2> HIDE DEF n, c
    <2>4. n \in 1..Len(c) /\ HasKey(rs, c[n], key)
      BY <2>2
    <2>5. \A i \in 1..Len(c) : i < n => ~HasKey(rs, c[i], key)
      BY <1>1, <2>2
    <2> QED
      BY <2>3, <2>4, <2>5 DEF c
  <1> QED
    BY <1>3, <1>4

\* What a role has in force is an effect, or nothing.
LEMMA RoleGrantType ==
    ASSUME NEW rs \in RoleTables, NEW id \in RoleIds, NEW key \in GrantKeys
    PROVE  EffectiveRoleGrant(rs, id, key) \in GrantsOrNone
  <1> DEFINE c == RoleChain(rs, id)
             r == NearestHolder(rs, id, key)
  <1>1. \A i \in 1..Len(c) : c[i] \in Present(rs)
    BY RoleChainIsAncestry DEF Ancestry
  <1>2. r = NoRole \/ r \in Present(rs)
    BY <1>1, NearestHolderIsFirst
  <1>3. r \in Present(rs) => rs[r].grants[key] \in GrantsOrNone
    BY DEF Present, RoleTables, RoleRows, GrantsOrNone
  <1> QED
    BY <1>2, <1>3 DEF EffectiveRoleGrant, GrantsOrNone

\* effectiveUserGrants goes through the roles of the row, from the first to the
\* last, and merges what each has in force.
LEMMA MergeTurns ==
    ASSUME NEW rs \in RoleTables, NEW row \in UserRows, NEW key \in GrantKeys
    PROVE  \E out \in [0..Len(row) -> GrantsOrNone] :
              /\ out[0] = NoGrant
              /\ \A k \in 1..Len(row) :
                    out[k] = MergeGrant(out[k - 1], EffectiveRoleGrant(rs, row[k], key))
              /\ EffectiveUserGrant(rs, row, key) = out[Len(row)]
  <1> DEFINE n == Len(row)
             info(k) == EffectiveRoleGrant(rs, row[k], key)
             step == [k \in 1..n |-> [grant \in GrantsOrNone |-> MergeGrant(grant, info(k))]]
             IsFold(g) == g = [s \in SUBSET (1..n) |-> IF s = {} THEN NoGrant
                                ELSE MergeGrant(g[s \ {Max(s)}], info(Max(s)))]
             fold == CHOOSE g : IsFold(g)
  <1>1. n \in Nat /\ DOMAIN row = 1..n /\ \A k \in 1..n : row[k] \in RoleIds
    BY DEF UserRows
  <1>2. \A k \in 1..n : info(k) \in GrantsOrNone
    BY <1>1, RoleGrantType
  <1>2a. n \in Nat
    BY <1>1
  <1> HIDE DEF n, info
  <1>3. step \in [1..n -> [GrantsOrNone -> GrantsOrNone]] /\ NoGrant \in GrantsOrNone
    BY <1>2 DEF MergeGrant, GrantsOrNone
  <1>4. PICK g : Folding(g, GrantsOrNone, NoGrant, n, step)
    <2> HIDE DEF step
    <2> QED
      BY <1>2a, <1>3, FoldExists
  <1>5. IsFold(g)
    <2>1. ASSUME NEW s \in SUBSET (1..n), s # {}
          PROVE  step[Max(s)][g[s \ {Max(s)}]]
                     = MergeGrant(g[s \ {Max(s)}], info(Max(s)))
      <3>1. Max(s) \in 1..n
        BY <1>1, <2>1, GreatestNatural
      <3>2. g[s \ {Max(s)}] \in GrantsOrNone
        BY <1>4 DEF Folding
      <3> QED
        BY <3>1, <3>2
    <2> HIDE DEF step
    <2> QED
      BY <1>4, <2>1 DEF Folding
  <1>6. IsFold(fold)
    <2> HIDE DEF IsFold
    <2> QED
      BY <1>5
  <1>7. EffectiveUserGrant(rs, row, key) = fold[1..n]
    BY <1>1 DEF EffectiveUserGrant, FoldLeft, MapThenFoldSet, info
  <1> HIDE DEF fold
  <1> DEFINE out == [k \in 0..n |-> fold[1..k]]
  <1>8. out[0] = NoGrant
    BY <1>1, <1>6
  <1>9. ASSUME NEW k \in 1..n PROVE out[k] = MergeGrant(out[k - 1], info(k))
    <2>1. 1..k \in SUBSET (1..n) /\ 1..k # {} /\ k \in Nat \ {0} /\ k - 1 \in 0..n
      BY <1>2a
    <2>2. Max(1..k) = k /\ (1..k) \ {k} = 1..(k - 1)
      BY <2>1, TopPosition
    <2>3. fold[1..k] = MergeGrant(fold[(1..k) \ {Max(1..k)}], info(Max(1..k)))
      BY <1>6, <2>1
    <2>4. k \in 0..n /\ out[k] = fold[1..k] /\ out[k - 1] = fold[1..(k - 1)]
      BY <2>1, <1>2a
    <2> HIDE DEF out
    <2> QED
      BY <2>2, <2>3, <2>4
  <1>10. out \in [0..n -> GrantsOrNone]
    <2> DEFINE P == {k \in 0..n : out[k] \in GrantsOrNone}
    <2>1. out = [k \in 0..n |-> out[k]]
      OBVIOUS
    <2> HIDE DEF out
    <2>2. 0 \in P
      BY <1>2a, <1>3, <1>8
    <2>3. ASSUME NEW k \in 1..n, k - 1 \in P PROVE k \in P
      BY <1>2, <1>9, <2>3 DEF MergeGrant
    <2> HIDE DEF P
    <2>4. \A k \in 0..n : k \in P
      BY <1>2a, <2>2, <2>3, CountingTo
    <2> QED
      BY <2>1, <2>4 DEF P
  <1> HIDE DEF out
  <1>11. out[n] = fold[1..n]
    BY <1>1 DEF out
  <1> QED
    BY <1>7, <1>8, <1>9, <1>10, <1>11 DEF n, info

\* Along the row a deny wins wherever it stands, and otherwise the last role that
\* has the key in force.
THEOREM UserGrantIsDenyElseLast ==
    ASSUME NEW rs \in RoleTables, NEW row \in UserRows, NEW key \in GrantKeys
    PROVE  LET m == EffectiveUserGrant(rs, row, key)
               grant(i) == EffectiveRoleGrant(rs, row[i], key)
           IN  \/ m = NoGrant /\ \A i \in DOMAIN row : grant(i) = NoGrant
               \/ m = Deny /\ \E i \in DOMAIN row : grant(i) = Deny
               \/ /\ m # NoGrant /\ \A i \in DOMAIN row : grant(i) # Deny
                  /\ \E i \in DOMAIN row :
                        m = grant(i) /\ \A j \in DOMAIN row : j > i => grant(j) = NoGrant
  <1> DEFINE n == Len(row)
             grant(i) == EffectiveRoleGrant(rs, row[i], key)
             Merged(m, k) ==
                 \/ m = NoGrant /\ \A i \in 1..k : grant(i) = NoGrant
                 \/ m = Deny /\ \E i \in 1..k : grant(i) = Deny
                 \/ /\ m # NoGrant /\ \A i \in 1..k : grant(i) # Deny
                    /\ \E i \in 1..k :
                          m = grant(i) /\ \A j \in 1..k : j > i => grant(j) = NoGrant
  <1>1. n \in Nat /\ DOMAIN row = 1..n /\ \A i \in 1..n : row[i] \in RoleIds
    BY DEF UserRows
  <1>2. \A i \in 1..n : grant(i) \in GrantsOrNone
    BY <1>1, RoleGrantType
  <1>3. PICK out \in [0..n -> GrantsOrNone] :
              /\ out[0] = NoGrant
              /\ \A k \in 1..n : out[k] = MergeGrant(out[k - 1], grant(k))
              /\ EffectiveUserGrant(rs, row, key) = out[n]
    BY MergeTurns
  <1>4. \A g \in GrantsOrNone : /\ (g.kind = "none") = (g = NoGrant)
                                /\ (g.kind = "deny") = (g = Deny)
    BY DEF GrantsOrNone, Effects, NoGrant, Allow, Deny, Conditional
  <1>5. Deny # NoGrant
    BY DEF Deny, NoGrant
  <1> HIDE DEF n, grant
  <1> DEFINE P == {k \in 0..n : Merged(out[k], k)}
  <1>6. 0 \in P
    BY <1>1, <1>3
  <1>7. ASSUME NEW k \in 1..n, k - 1 \in P PROVE k \in P
    <2> DEFINE m == out[k - 1]
    <2>1. /\ Merged(m, k - 1) /\ m \in GrantsOrNone /\ grant(k) \in GrantsOrNone
          /\ k \in 0..n /\ out[k] = MergeGrant(m, grant(k))
      BY <1>1, <1>2, <1>3, <1>7
    <2>2. \A i \in 1..k : i = k \/ (i \in 1..(k - 1) /\ i < k)
      BY <1>1
    <2>3. k \in 1..k /\ \A i \in 1..(k - 1) : i \in 1..k /\ i < k
      BY <1>1
    <2>4. out[k] = IF grant(k) = NoGrant \/ (m = Deny /\ grant(k) # Deny) THEN m
                   ELSE grant(k)
      BY <2>1, <1>4 DEF MergeGrant
    <2> HIDE DEF m, P
    <2>5. CASE grant(k) = NoGrant
      <3>1. out[k] = m
        BY <2>4, <2>5
      <3>2. Merged(m, k)
        BY <2>1, <2>2, <2>3, <2>5, <1>5
      <3> QED
        BY <2>1, <3>1, <3>2 DEF P
    <2>6. CASE grant(k) = Deny
      <3>1. Merged(Deny, k) /\ out[k] = Deny
        BY <2>3, <2>4, <2>6, <1>5
      <3> QED
        BY <2>1, <3>1 DEF P
    <2>7. CASE grant(k) # NoGrant /\ grant(k) # Deny /\ m = Deny
      <3>1. Merged(Deny, k) /\ out[k] = Deny
        BY <2>1, <2>3, <2>4, <2>7, <1>5
      <3> QED
        BY <2>1, <3>1 DEF P
    <2>8. CASE grant(k) # NoGrant /\ grant(k) # Deny /\ m # Deny
      <3>1. \A i \in 1..k : grant(i) # Deny
        BY <2>1, <2>2, <2>8, <1>5
      <3>2. \A j \in 1..k : ~(j > k)
        BY <2>2
      <3>3. Merged(grant(k), k) /\ out[k] = grant(k)
        BY <2>3, <2>4, <2>8, <3>1, <3>2
      <3> QED
        BY <2>1, <3>3 DEF P
    <2> QED
      BY <2>5, <2>6, <2>7, <2>8
  <1>8. n \in P
    <2> HIDE DEF P
    <2>1. \A k \in 0..n : k \in P
      BY <1>1, <1>6, <1>7, CountingTo
    <2> QED
      BY <1>1, <2>1
  <1> QED
    BY <1>1, <1>3, <1>8 DEF grant

-----------------------------------------------------------------------------
(* Keto and the engine agree *)

\* Keto's walk over nested groups and roleChain's walk over parent columns find the
\* same roles: those of a subject that have a row are the ones the engine resolves.
THEOREM MembersAreResolved ==
    ASSUME NEW rs \in RoleTables, NEW us \in UserTables, NEW uid \in UserIds,
           us[uid] # Absent, NEW r \in RoleIds, rs[r] # Absent
    PROVE  KetoMember(Tuples(rs, us), uid, r) <=> r \in ResolvedRoles(rs, us[uid])
  <1> DEFINE row == us[uid]
             chain(i) == RoleChain(rs, row[i])
             found == ResolvedRoles(rs, row)
  <1>1. row \in UserRows /\ DOMAIN row = 1..Len(row)
        /\ \A i \in DOMAIN row : row[i] \in RoleIds
    BY DEF UserTables, UserRows
  <1>2. \A x : x \in found <=>
                  \E i \in DOMAIN row : \E n \in 1..Len(chain(i)) : x = chain(i)[n]
    <2>1. \A i \in DOMAIN row : chain(i) \in Seq(RoleIds)
      BY <1>1, RoleChainIsAncestry DEF Ancestry
    <2>2. \A i \in DOMAIN row : DOMAIN chain(i) = 1..Len(chain(i))
      BY <2>1
    <2> HIDE DEF chain
    <2>3. found = UNION {ToSet(chain(i)) : i \in DOMAIN row}
      BY DEF ResolvedRoles, chain
    <2> HIDE DEF found, row
    <2> QED
      BY <2>2, <2>3 DEF ToSet
  <1>3. \A i \in DOMAIN row : Ancestry(rs, row[i], chain(i)) /\ Len(chain(i)) \in Nat
    BY <1>1, RoleChainIsAncestry DEF Ancestry
  <1>4. ASSUME NEW i \in DOMAIN row
        PROVE  \A n \in 1..Len(chain(i)) : KetoMember(Tuples(rs, us), uid, chain(i)[n])
    <2> DEFINE c == chain(i)
               P == {n \in 0..Len(c) : n = 0 \/ KetoMember(Tuples(rs, us), uid, c[n])}
    <2>1. Len(c) \in Nat /\ Ancestry(rs, row[i], c)
      BY <1>3
    <2>2. ASSUME NEW n \in 1..Len(c), n - 1 \in P PROVE n \in P
      <3>1. CASE n = 1
        <4>1. c[1] = row[i]
          BY <2>1, <2>2 DEF Ancestry
        <4>2. KetoMember(Tuples(rs, us), uid, row[i])
          BY <1>1, MembersInherit
        <4> QED
          BY <2>1, <3>1, <4>1, <4>2
      <3>2. CASE n # 1
        <4>1. n - 1 \in 1..Len(c) /\ n - 1 < Len(c) /\ (n - 1) + 1 = n /\ n \in 0..Len(c)
          BY <2>1, <3>2
        <4>2. /\ c[n - 1] \in RoleIds /\ rs[c[n - 1]] # Absent
              /\ rs[c[n - 1]].parent = c[n] /\ c[n] \in RoleIds
          BY <2>1, <4>1 DEF Ancestry, Present
        <4>3. KetoMember(Tuples(rs, us), uid, c[n - 1])
          BY <2>2, <4>1
        <4>4. KetoMember(Tuples(rs, us), uid, c[n])
          BY <4>2, <4>3, MembersInherit
        <4> QED
          BY <4>1, <4>4
      <3> QED
        BY <3>1, <3>2
    <2>3. 0 \in P
      BY <2>1
    <2>4. \A n \in 0..Len(c) : n \in P
      <3> HIDE DEF P, c
      <3> QED
        BY <2>1, <2>2, <2>3, CountingTo
    <2> QED
      BY <2>4
  <1>5. ASSUME KetoMember(Tuples(rs, us), uid, r) PROVE r \in found
    <2> DEFINE S == found \cup {x \in RoleIds : rs[x] = Absent}
    <2>1. found \subseteq RoleIds
      BY <1>2, <1>3 DEF Ancestry, Present, RoleTables
    <2>2. \A i \in DOMAIN row : row[i] \in S
      <3> TAKE i \in DOMAIN row
      <3>1. rs[row[i]] # Absent => Len(chain(i)) > 0 /\ chain(i)[1] = row[i]
        BY <1>1, RoleChainIsAncestry DEF Ancestry, Present, RoleTables
      <3> HIDE DEF chain, found
      <3> QED
        BY <1>1, <1>2, <1>3, <3>1
    <2>3. ASSUME NEW x \in S, rs[x] # Absent, rs[x].parent \in RoleIds
          PROVE  rs[x].parent \in S
      <3>1. x \in found
        BY <2>3
      <3>2. PICK i \in DOMAIN row : \E n \in 1..Len(chain(i)) : x = chain(i)[n]
        BY <1>2, <3>1
      <3> DEFINE c == chain(i)
      <3>3. PICK n \in 1..Len(c) : x = c[n]
        BY <3>2
      <3>4. Len(c) \in Nat /\ Ancestry(rs, row[i], c)
        BY <1>3
      <3>5. CASE n < Len(c)
        <4>1. rs[x].parent = c[n + 1] /\ n + 1 \in 1..Len(c)
          BY <3>3, <3>4, <3>5 DEF Ancestry
        <4> HIDE DEF found, chain
        <4> QED
          BY <1>2, <4>1
      <3>6. CASE n = Len(c)
        <4>1. rs[x].parent \in Present(rs) => rs[x].parent \in ToSet(c)
          BY <1>1, <3>3, <3>4, <3>6, RoleChainIsAncestry
        <4>2. \A y \in ToSet(c) : y \in found
          BY <1>2, <3>4 DEF ToSet, Ancestry
        <4>3. rs[x].parent \in Present(rs) \/ rs[rs[x].parent] = Absent
          BY <2>3 DEF Present, RoleTables
        <4> HIDE DEF found, chain
        <4> QED
          BY <2>3, <4>1, <4>2, <4>3
      <3> QED
        BY <3>4, <3>5, <3>6
    <2>4. r \in S
      <3> HIDE DEF S
      <3>1. S \in SUBSET RoleIds
        BY <2>1 DEF S
      <3> QED
        BY <1>5, <2>2, <2>3, <3>1, MembersOnlyInherit
    <2> QED
      BY <2>4
  <1>6. r \in found => KetoMember(Tuples(rs, us), uid, r)
    <2> HIDE DEF chain, found, row
    <2> QED
      BY <1>2, <1>4
  <1> QED
    BY <1>5, <1>6

\* A subject without a row is a member of nothing.
LEMMA UnknownIsNoMember ==
    ASSUME NEW rs, NEW us, NEW uid, us[uid] = Absent, NEW r \in RoleIds
    PROVE  ~KetoMember(Tuples(rs, us), uid, r)
  <1> DEFINE k == Tuples(rs, us)
  <1>1. \A x \in RoleIds : <<uid, x>> \notin k.members
    BY DEF Tuples, MemberTuples
  <1>2. UpClosed({}, k.nested) /\ {} \in SUBSET RoleIds
    BY DEF UpClosed
  <1> HIDE DEF k
  <1> QED
    BY <1>1, <1>2 DEF KetoMember, k

\* With Keto in step with the tables, Check and CheckDeny answer whether one of the
\* subject's resolved roles has a grant, or a deny, of the action.
THEOREM CheckIsResolved ==
    ASSUME NEW rs \in RoleTables, NEW us \in UserTables, NEW uid \in UserIds,
           NEW key \in GrantKeys, NEW deny \in BOOLEAN
    PROVE  KetoCheck(Tuples(rs, us), uid, key, deny) <=>
               /\ us[uid] # Absent
               /\ \E r \in ResolvedRoles(rs, us[uid]) :
                     HasKey(rs, r, key) /\ (rs[r].grants[key].kind = "deny") = deny
  <1> DEFINE Found(r) == us[uid] # Absent /\ r \in ResolvedRoles(rs, us[uid])
  <1>1. ASSUME NEW r, Found(r) PROVE r \in RoleIds /\ rs[r] # Absent
    <2>1. us[uid] \in UserRows
      BY <1>1 DEF UserTables
    <2>2. PICK i \in DOMAIN us[uid] : r \in ToSet(RoleChain(rs, us[uid][i]))
      BY <1>1 DEF ResolvedRoles
    <2>3. us[uid][i] \in RoleIds
      BY <2>1 DEF UserRows
    <2>4. \A x \in ToSet(RoleChain(rs, us[uid][i])) : x \in Present(rs)
      BY <2>3, RoleChainIsAncestry DEF Ancestry, ToSet
    <2> QED
      BY <2>2, <2>4 DEF Present, RoleTables
  <1>2. ASSUME NEW r \in RoleIds, rs[r] # Absent
        PROVE  KetoMember(Tuples(rs, us), uid, r) <=> Found(r)
    BY <1>2, MembersAreResolved, UnknownIsNoMember
  <1>3. ASSUME NEW t \in GrantTuples(rs), t.key = key, t.deny = deny,
               KetoMember(Tuples(rs, us), uid, t.role)
        PROVE  /\ Found(t.role) /\ HasKey(rs, t.role, key)
               /\ (rs[t.role].grants[key].kind = "deny") = deny
    <2>1. t.role \in RoleIds /\ rs[t.role] # Absent
      BY DEF GrantTuples, GrantTupleSet
    <2>2. HasKey(rs, t.role, key) /\ (rs[t.role].grants[key].kind = "deny") = deny
      BY <1>3 DEF GrantTuples, HasKey
    <2> QED
      BY <1>2, <1>3, <2>1, <2>2
  <1>4. ASSUME NEW r, Found(r), HasKey(rs, r, key),
               (rs[r].grants[key].kind = "deny") = deny
        PROVE  KetoCheck(Tuples(rs, us), uid, key, deny)
    <2> DEFINE t == [role |-> r, key |-> key, deny |-> deny]
    <2>1. r \in RoleIds /\ rs[r] # Absent /\ KetoMember(Tuples(rs, us), uid, r)
      BY <1>1, <1>2, <1>4
    <2>2. t \in GrantTuples(rs)
      BY <1>4, <2>1 DEF GrantTuples, GrantTupleSet, HasKey
    <2>3. GrantTuples(rs) = Tuples(rs, us).grants
      BY DEF Tuples
    <2> QED
      BY <2>1, <2>2, <2>3 DEF KetoCheck
  <1>5. Tuples(rs, us).grants = GrantTuples(rs)
    BY DEF Tuples
  <1> QED
    BY <1>3, <1>4, <1>5 DEF KetoCheck

\* The roles of the row lead to the resolved roles that have the key: one of them
\* has something in force exactly when one of those has it, and what is in force
\* is a grant of one of those.
THEOREM ResolvedRolesHold ==
    ASSUME NEW rs \in RoleTables, NEW row \in UserRows, NEW key \in GrantKeys
    PROVE  LET grant(i) == EffectiveRoleGrant(rs, row[i], key) IN
           /\ (\E r \in ResolvedRoles(rs, row) : HasKey(rs, r, key))
                  => \E i \in DOMAIN row : grant(i) # NoGrant
           /\ \A i \in DOMAIN row : grant(i) # NoGrant =>
                  \E r \in ResolvedRoles(rs, row) :
                     HasKey(rs, r, key) /\ grant(i) = rs[r].grants[key]
  <1> DEFINE chain(i) == RoleChain(rs, row[i])
             holder(i) == NearestHolder(rs, row[i], key)
             grant(i) == EffectiveRoleGrant(rs, row[i], key)
  <1>1. \A i \in DOMAIN row : row[i] \in RoleIds
    BY DEF UserRows
  <1>2. ASSUME NEW i \in DOMAIN row
        PROVE  /\ Len(chain(i)) \in Nat
               /\ ToSet(chain(i)) = {chain(i)[n] : n \in 1..Len(chain(i))}
               /\ \A n \in 1..Len(chain(i)) : chain(i)[n] \in RoleIds
    BY <1>1, RoleChainIsAncestry DEF Ancestry, ToSet, Present, RoleTables
  <1>3. ASSUME NEW i \in DOMAIN row, NEW r \in ToSet(chain(i)), HasKey(rs, r, key)
        PROVE  grant(i) # NoGrant
    <2>1. PICK n \in 1..Len(chain(i)) : r = chain(i)[n]
      BY <1>2
    <2>2. /\ holder(i) \in RoleIds /\ HasKey(rs, holder(i), key)
      BY <1>1, <1>2, <1>3, <2>1, NearestHolderIsFirst
    <2>3. holder(i) # NoRole
      BY <2>2, NoRoleAssumption
    <2> QED
      BY <2>2, <2>3 DEF EffectiveRoleGrant, HasKey, NoGrant
  <1>4. ASSUME NEW i \in DOMAIN row, grant(i) # NoGrant
        PROVE  \E r \in ToSet(chain(i)) : HasKey(rs, r, key) /\ grant(i) = rs[r].grants[key]
    <2>1. holder(i) # NoRole /\ grant(i) = rs[holder(i)].grants[key]
      BY <1>4 DEF EffectiveRoleGrant
    <2>2. \E n \in 1..Len(chain(i)) :
             holder(i) = chain(i)[n] /\ HasKey(rs, holder(i), key)
      BY <1>1, <2>1, NearestHolderIsFirst
    <2> QED
      BY <1>2, <2>1, <2>2
  <1>5. \A r : r \in ResolvedRoles(rs, row) <=> \E i \in DOMAIN row : r \in ToSet(chain(i))
    BY DEF ResolvedRoles
  <1> HIDE DEF chain, grant
  <1> QED
    BY <1>3, <1>4, <1>5 DEF grant

\* Grants say what kind they are.
LEMMA KindsTell ==
    ASSUME NEW grant \in GrantsOrNone
    PROVE  /\ grant.kind = "none" <=> grant = NoGrant
           /\ grant.kind = "deny" <=> grant = Deny
           /\ grant.kind = "allow" <=> grant = Allow
           /\ grant.kind \in {"none", "allow", "deny", "conditional"}
  BY DEF GrantsOrNone, Effects, NoGrant, Allow, Deny, Conditional

\* What is in force for a subject is a grant, or nothing.
LEMMA UserGrantType ==
    ASSUME NEW rs \in RoleTables, NEW row \in UserRows, NEW key \in GrantKeys
    PROVE  EffectiveUserGrant(rs, row, key) \in GrantsOrNone
  <1>1. \A i \in DOMAIN row : EffectiveRoleGrant(rs, row[i], key) \in GrantsOrNone
    BY RoleGrantType DEF UserRows
  <1> QED
    BY <1>1, UserGrantIsDenyElseLast DEF GrantsOrNone, Effects

\* What Postgres has in force fits what Keto reaches: there is something in force
\* exactly when Keto reaches a deny or a grant, and a deny in force is one that
\* Keto reaches.
THEOREM MatchFitsReach ==
    ASSUME NEW rs \in RoleTables, NEW us \in UserTables, NEW uid \in UserIds,
           us[uid] # Absent, NEW key \in GrantKeys
    PROVE  LET match == EffectiveUserGrant(rs, us[uid], key)
               reached(deny) == KetoCheck(Tuples(rs, us), uid, key, deny)
           IN  /\ match # NoGrant <=> reached(TRUE) \/ reached(FALSE)
               /\ match = Deny => reached(TRUE)
  <1> DEFINE row == us[uid]
             match == EffectiveUserGrant(rs, row, key)
             reached(deny) == KetoCheck(Tuples(rs, us), uid, key, deny)
             resolved == ResolvedRoles(rs, row)
             grant(i) == EffectiveRoleGrant(rs, row[i], key)
  <1>1. row \in UserRows
    BY DEF UserTables
  <1>2. \A deny \in BOOLEAN :
            reached(deny) <=> \E r \in resolved :
                HasKey(rs, r, key) /\ (rs[r].grants[key].kind = "deny") = deny
    BY CheckIsResolved
  <1>3. (\E r \in resolved : HasKey(rs, r, key)) => \E i \in DOMAIN row : grant(i) # NoGrant
    BY <1>1, ResolvedRolesHold
  <1>4. ASSUME NEW i \in DOMAIN row, grant(i) # NoGrant
        PROVE  \E r \in resolved : HasKey(rs, r, key) /\ grant(i) = rs[r].grants[key]
    BY <1>1, <1>4, ResolvedRolesHold
  <1>5. \/ match = NoGrant /\ \A i \in DOMAIN row : grant(i) = NoGrant
        \/ match = Deny /\ \E i \in DOMAIN row : grant(i) = Deny
        \/ /\ match # NoGrant /\ \A i \in DOMAIN row : grant(i) # Deny
           /\ \E i \in DOMAIN row : match = grant(i)
    BY <1>1, UserGrantIsDenyElseLast
  <1>6. Deny # NoGrant /\ Deny.kind = "deny"
    BY DEF Deny, NoGrant
  <1> HIDE DEF row, match, reached, resolved, grant
  <1>7. (\E r \in resolved : HasKey(rs, r, key)) <=> reached(TRUE) \/ reached(FALSE)
    BY <1>2
  <1>8. (\E i \in DOMAIN row : grant(i) = Deny) => reached(TRUE)
    BY <1>2, <1>4, <1>6
  <1>9. match # NoGrant <=> \E i \in DOMAIN row : grant(i) # NoGrant
    BY <1>5, <1>6
  <1>10. match = Deny => \E i \in DOMAIN row : grant(i) = Deny
    BY <1>5, <1>6
  <1>11. match # NoGrant <=> reached(TRUE) \/ reached(FALSE)
    BY <1>3, <1>4, <1>7, <1>9
  <1> QED
    BY <1>8, <1>10, <1>11 DEF match, reached, row
=============================================================================
