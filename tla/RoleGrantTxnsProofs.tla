------------------------ MODULE RoleGrantTxnsProofs ------------------------
(***************************************************************************)
(* Proofs about RoleGrantTxns, for any sessions, members, approvals, ids   *)
(* and quota.                                                              *)
(***************************************************************************)
EXTENDS RoleGrantTxns, FiniteSetTheorems, FunctionTheorems, TLAPS

USE QuotaAssumption, TargetAssumption, NamesAssumption, FiniteAssumption

-----------------------------------------------------------------------------
(* The strengthening.                                                      *)

\* A session before the indexes holds a whole row to insert.
Placed ==
  \A s \in Sessions : pc[s] = "index" =>
    stmt[s] \in [id: GrantIds, member: Members,
                 approval: ApprovalIds \cup {NoRow}]

Inv1 == TypeOK /\ Placed

\* g makes way for h: its revocation is committed, or it is the work of the
\* transaction that wrote h, so that the two stand or fall together.
MakesWay(g, h) == grants[g].revokedBy \in {Committed, grants[h].by}

\* What CommittedGrantsDoNotClash says of committed rows, of every row.
RowsDoNotClash ==
  \A g, h \in Rows : g # h =>
    /\ grants[g].approval # NoRow => grants[g].approval # grants[h].approval
    /\ grants[g].member = grants[h].member => MakesWay(g, h) \/ MakesWay(h, g)

\* The seats without an approval that session t has taken and may still give
\* back: those it wrote, and the one it carries past the trigger.
Held(t) ==
  {g \in GrantIds : \/ g \in Unapproved(Rows) /\ grants[g].by = t
                    \/ t \in EscapePassed /\ stmt[t].id = g}

Taken == Unapproved(CommittedRows) \cup UNION {Held(t) : t \in Sessions}

SeatsAreCounted ==
  /\ \A t \in Sessions : Cardinality(Held(t)) <= Quota
  /\ Cardinality(Taken) <= Cardinality(Sessions) * Quota

-----------------------------------------------------------------------------
(* What an abort and a commit leave of the rows.                           *)

LEMMA UndoneRow ==
  ASSUME TypeOK, NEW s \in Sessions, Undone(s), NEW g \in Rows'
  PROVE  /\ g \in Rows
         /\ grants[g].by # s
         /\ grants'[g] \in Row
         /\ grants'[g].member = grants[g].member
         /\ grants'[g].approval = grants[g].approval
         /\ grants'[g].by = grants[g].by
         /\ grants'[g].revokedBy =
              IF grants[g].revokedBy = s THEN NoOne ELSE grants[g].revokedBy
<1>1. g \in GrantIds /\ grants'[g] # NoRow
  BY DEF Rows
<1>2. grants'[g] =
        IF grants[g] = NoRow THEN NoRow
        ELSE IF grants[g].by = s THEN NoRow
        ELSE IF grants[g].revokedBy = s
             THEN [grants[g] EXCEPT !.revokedBy = NoOne]
        ELSE grants[g]
  BY <1>1 DEF Undone
<1>3. grants[g] # NoRow /\ grants[g] \in Row
  BY <1>1, <1>2 DEF TypeOK
<1>4. g \in Rows /\ grants[g].by # s
  BY <1>1, <1>2, <1>3 DEF Rows
<1>5. CASE grants[g].revokedBy = s
  <2>1. grants'[g] = [grants[g] EXCEPT !.revokedBy = NoOne]
    BY <1>2, <1>3, <1>4, <1>5
  <2> QED BY <2>1, <1>3, <1>4, <1>5 DEF Row
<1>6. CASE grants[g].revokedBy # s
  BY <1>2, <1>3, <1>4, <1>6
<1> QED BY <1>4, <1>5, <1>6

LEMMA CommitRow ==
  ASSUME TypeOK, NEW s \in Sessions, Commit(s), NEW g \in Rows'
  PROVE  /\ g \in Rows
         /\ grants'[g] \in Row
         /\ grants'[g].member = grants[g].member
         /\ grants'[g].approval = grants[g].approval
         /\ grants'[g].by =
              IF grants[g].by = s THEN Committed ELSE grants[g].by
         /\ grants'[g].revokedBy =
              IF grants[g].revokedBy = s THEN Committed ELSE grants[g].revokedBy
<1>1. g \in GrantIds /\ grants'[g] # NoRow
  BY DEF Rows
<1>2. grants'[g] =
        IF grants[g] = NoRow THEN NoRow
        ELSE [grants[g] EXCEPT !.by = IF @ = s THEN Committed ELSE @,
                               !.revokedBy = IF @ = s THEN Committed ELSE @]
  BY <1>1 DEF Commit
<1>3. g \in Rows /\ grants[g] \in Row
  BY <1>1, <1>2 DEF TypeOK, Rows
<1>4. grants'[g] = [grants[g] EXCEPT
                      !.by = IF @ = s THEN Committed ELSE @,
                      !.revokedBy = IF @ = s THEN Committed ELSE @]
  BY <1>2, <1>3 DEF Rows
<1> QED BY <1>3, <1>4 DEF Row

LEMMA RevokedRow ==
  ASSUME TypeOK, NEW s \in Sessions, NEW r \in GrantIds, RevokeRole(s, r),
         NEW g \in Rows'
  PROVE  /\ g \in Rows
         /\ grants'[g] \in Row
         /\ grants'[g].member = grants[g].member
         /\ grants'[g].approval = grants[g].approval
         /\ grants'[g].by = grants[g].by
         /\ grants'[g].revokedBy = IF g = r THEN s ELSE grants[g].revokedBy
         /\ g = r => grants[g].revokedBy = NoOne
<1>1. g \in GrantIds /\ grants'[g] # NoRow
  BY DEF Rows
<1>2. r \in Rows /\ grants[r].revokedBy = NoOne
  BY DEF RevokeRole, VisibleRows
<1>3. grants' = [grants EXCEPT ![r].revokedBy = s]
  BY DEF RevokeRole
<1>4. CASE g = r
  <2>1. grants[r] \in Row
    BY <1>2 DEF Rows, TypeOK
  <2>2. grants'[r] = [grants[r] EXCEPT !.revokedBy = s]
    BY <1>3 DEF TypeOK
  <2> QED BY <2>1, <2>2, <1>2, <1>4 DEF Row
<1>5. CASE g # r
  <2>1. grants'[g] = grants[g]
    BY <1>1, <1>3, <1>5 DEF TypeOK
  <2> QED BY <2>1, <1>1, <1>5 DEF Rows, TypeOK
<1> QED BY <1>4, <1>5

\* The row a session puts in, beside the rows there are.
Inserted(s) == [member |-> stmt[s].member, approval |-> stmt[s].approval,
                by |-> s, revokedBy |-> NoOne]

LEMMA InsertedRow ==
  ASSUME Inv1, NEW s \in Sessions, InsertRow(s), NEW g \in Rows'
  PROVE  /\ stmt[s].id \in GrantIds
         /\ Inserted(s) \in Row
         /\ g = stmt[s].id => grants'[g] = Inserted(s)
         /\ g # stmt[s].id => g \in Rows /\ grants'[g] = grants[g]
<1>1. pc[s] = "index" /\ g \in GrantIds /\ grants'[g] # NoRow
  BY DEF InsertRow, Rows
<1>2. stmt[s] \in [id: GrantIds, member: Members,
                   approval: ApprovalIds \cup {NoRow}]
  BY <1>1 DEF Inv1, Placed
<1>3. Inserted(s) \in Row
  BY <1>2 DEF Inserted, Row
<1>4. grants' = [grants EXCEPT ![stmt[s].id] = Inserted(s)]
  BY DEF InsertRow, Inserted
<1> QED BY <1>1, <1>2, <1>3, <1>4 DEF Inv1, TypeOK, Rows

-----------------------------------------------------------------------------
(* Type correctness.                                                       *)

\* Of the actions only these change more than where a session is.
LEMMA UndoneTypes ==
  ASSUME Inv1, NEW s \in Sessions, Undone(s)
  PROVE  Inv1'
<1>1. grants' \in [GrantIds -> Row \cup {NoRow}]
  <2> SUFFICES ASSUME NEW g \in GrantIds
               PROVE  grants'[g] \in Row \cup {NoRow}
    BY DEF Undone
  <2> QED BY UndoneRow DEF Inv1, Rows
<1>2. latch' \in Sessions \cup {Committed, NoOne}
  BY DEF Inv1, TypeOK, Undone
<1>3. pc' \in [Sessions -> Places]
  BY DEF Inv1, TypeOK, Undone, Places
<1>4. stmt' \in [Sessions -> [id: GrantIds \cup {NoRow},
                              member: Members \cup {NoRow},
                              approval: ApprovalIds \cup {NoRow}]]
  BY DEF Inv1, TypeOK, Undone, NoStmt
<1>5. Placed'
  <2> SUFFICES ASSUME NEW t \in Sessions, pc'[t] = "index"
               PROVE  stmt'[t] = stmt[t] /\ pc[t] = "index"
    BY DEF Inv1, Placed
  <2> QED BY DEF Undone, Inv1, TypeOK
<1> QED BY <1>1, <1>2, <1>3, <1>4, <1>5 DEF Inv1, TypeOK

LEMMA Inv1Step ==
  ASSUME Inv1, [Next]_vars
  PROVE  Inv1'
<1> USE DEF Inv1
<1>1. CASE UNCHANGED vars
  BY <1>1 DEF vars, TypeOK, Placed
<1>2. CASE Next
  <2>1. PICK s \in Sessions : Step(s)
    BY <1>2 DEF Next
  <2>2. CASE Begin(s) \/ ArmDecides(s) \/ ArmInserts(s)
    <3>1. /\ UNCHANGED <<grants, stmt>>
          /\ latch' \in Sessions \cup {Committed, NoOne}
      BY <2>2 DEF Begin, ArmDecides, ArmInserts, TypeOK
    <3>2. \E p \in Places \ {"index"} : pc' = [pc EXCEPT ![s] = p]
      BY <2>2 DEF Begin, ArmDecides, ArmInserts, Places
    <3> QED BY <3>1, <3>2 DEF TypeOK, Placed
  <2>3. ASSUME NEW g \in GrantIds, NEW m \in Members,
               NEW a \in ApprovalIds \cup {NoRow}, GrantRole(s, g, m, a)
        PROVE  Inv1'
    <3>1. /\ stmt' = [stmt EXCEPT ![s] = [id |-> g, member |-> m, approval |-> a]]
          /\ pc' = [pc EXCEPT ![s] = "index"]
          /\ UNCHANGED <<grants, latch>>
      BY <2>3 DEF GrantRole
    <3>2. TypeOK'
      BY <3>1 DEF TypeOK, Places
    <3>3. Placed'
      <4> SUFFICES ASSUME NEW t \in Sessions, pc'[t] = "index"
                   PROVE  stmt'[t] \in [id: GrantIds, member: Members,
                                        approval: ApprovalIds \cup {NoRow}]
        BY DEF Placed
      <4>1. CASE t = s
        BY <3>1, <4>1 DEF TypeOK
      <4>2. CASE t # s
        BY <3>1, <4>2 DEF TypeOK, Placed
      <4> QED BY <4>1, <4>2
    <3> QED BY <3>2, <3>3
  <2>4. CASE InsertRow(s)
    <3>1. /\ pc' = [pc EXCEPT ![s] = "arm"]
          /\ stmt' = [stmt EXCEPT ![s] = NoStmt]
          /\ UNCHANGED latch
      BY <2>4 DEF InsertRow
    <3>2. grants' \in [GrantIds -> Row \cup {NoRow}]
      <4>1. stmt[s] \in [id: GrantIds, member: Members,
                         approval: ApprovalIds \cup {NoRow}]
        BY <2>4 DEF InsertRow, Placed
      <4>2. Inserted(s) \in Row
        BY <4>1 DEF Inserted, Row
      <4>3. grants' = [grants EXCEPT ![stmt[s].id] = Inserted(s)]
        BY <2>4 DEF InsertRow, Inserted
      <4> QED BY <4>1, <4>2, <4>3 DEF TypeOK
    <3>3. TypeOK'
      BY <3>1, <3>2 DEF TypeOK, Places, NoStmt
    <3>4. Placed'
      BY <3>1 DEF TypeOK, Placed
    <3> QED BY <3>3, <3>4
  <2>5. ASSUME NEW g \in GrantIds, RevokeRole(s, g)
        PROVE  Inv1'
    <3>1. /\ pc' = [pc EXCEPT ![s] = "arm"]
          /\ UNCHANGED <<latch, stmt>>
      BY <2>5 DEF RevokeRole
    <3>2. grants' \in [GrantIds -> Row \cup {NoRow}]
      <4>1. \A h \in Rows' : grants'[h] \in Row
        BY <2>5, RevokedRow
      <4>2. grants' \in [GrantIds -> {grants'[h] : h \in GrantIds}]
        BY <2>5 DEF RevokeRole, TypeOK
      <4> QED BY <4>1, <4>2 DEF Rows
    <3>3. TypeOK'
      BY <3>1, <3>2 DEF TypeOK, Places
    <3>4. Placed'
      BY <3>1 DEF TypeOK, Placed
    <3> QED BY <3>3, <3>4
  <2>6. CASE Commit(s)
    <3>1. /\ pc' = [pc EXCEPT ![s] = "idle"]
          /\ latch' \in Sessions \cup {Committed, NoOne}
          /\ UNCHANGED stmt
      BY <2>6 DEF Commit, TypeOK
    <3>2. grants' \in [GrantIds -> Row \cup {NoRow}]
      <4>1. \A h \in Rows' : grants'[h] \in Row
        BY <2>6, CommitRow
      <4> SUFFICES ASSUME NEW g \in GrantIds
                   PROVE  grants'[g] \in Row \cup {NoRow}
        BY <2>6 DEF Commit
      <4> QED BY <4>1 DEF Rows
    <3>3. TypeOK'
      BY <3>1, <3>2 DEF TypeOK, Places
    <3>4. Placed'
      BY <3>1 DEF TypeOK, Placed
    <3> QED BY <3>3, <3>4
  <2>7. CASE DuplicateKey(s) \/ LatchTaken(s) \/ Rollback(s) \/ DeadlockVictim(s)
    BY <2>7, UndoneTypes DEF DuplicateKey, LatchTaken, Rollback, DeadlockVictim
  <2> QED BY <2>1, <2>2, <2>3, <2>4, <2>5, <2>6, <2>7 DEF Step
<1> QED BY <1>1, <1>2

LEMMA Inv1Holds == Spec => []Inv1
<1>1. Init => Inv1
  BY DEF Init, Inv1, TypeOK, Placed, Places, NoStmt
<1>2. Inv1 /\ [Next]_vars => Inv1'
  BY Inv1Step
<1> QED BY <1>1, <1>2, PTL DEF Spec

\* Every row, latch, place and statement is of its kind (002:176-198,
\* 013:60-119): in particular a row that reaches the indexes is whole.
THEOREM TypeCorrect == Spec => []TypeOK
<1>1. Inv1 => TypeOK
  BY DEF Inv1
<1> QED BY <1>1, Inv1Holds, PTL

-----------------------------------------------------------------------------
(* No two rows clash.                                                      *)

LEMMA UndoneKeepsApart ==
  ASSUME TypeOK, RowsDoNotClash, NEW s \in Sessions, Undone(s)
  PROVE  RowsDoNotClash'
<1> SUFFICES ASSUME NEW g \in Rows', NEW h \in Rows', g # h
             PROVE  /\ grants'[g].approval # NoRow =>
                         grants'[g].approval # grants'[h].approval
                    /\ grants'[g].member = grants'[h].member =>
                         MakesWay(g, h)' \/ MakesWay(h, g)'
  BY DEF RowsDoNotClash
<1>1. /\ g \in Rows /\ grants[g].by # s /\ grants'[g].member = grants[g].member
      /\ grants'[g].approval = grants[g].approval
      /\ grants'[g].by = grants[g].by
      /\ grants[g].revokedBy # s => grants'[g].revokedBy = grants[g].revokedBy
  BY UndoneRow
<1>2. /\ h \in Rows /\ grants[h].by # s /\ grants'[h].member = grants[h].member
      /\ grants'[h].approval = grants[h].approval
      /\ grants'[h].by = grants[h].by
      /\ grants[h].revokedBy # s => grants'[h].revokedBy = grants[h].revokedBy
  BY UndoneRow
<1> QED BY <1>1, <1>2 DEF RowsDoNotClash, MakesWay

LEMMA ClashStep ==
  ASSUME Inv1, RowsDoNotClash, [Next]_vars
  PROVE  RowsDoNotClash'
<1> USE DEF Inv1
<1>1. CASE UNCHANGED grants
  BY <1>1 DEF RowsDoNotClash, MakesWay, Rows
<1>2. CASE Next /\ ~UNCHANGED grants
  <2>1. PICK s \in Sessions : Step(s)
    BY <1>2 DEF Next
  <2>2. CASE InsertRow(s)
    <3> SUFFICES ASSUME NEW g \in Rows', NEW h \in Rows', g # h
                 PROVE  /\ grants'[g].approval # NoRow =>
                             grants'[g].approval # grants'[h].approval
                        /\ grants'[g].member = grants'[h].member =>
                             MakesWay(g, h)' \/ MakesWay(h, g)'
      BY DEF RowsDoNotClash
    <3>1. \A x \in Rows : ~SameLiveKey(s, x) /\ ~SameApproval(s, x)
      BY <2>2 DEF InsertRow, MustWait, IsRefused, Conflicts
    <3>2. CASE g = stmt[s].id
      <4>1. grants'[g] = Inserted(s) /\ h \in Rows /\ grants'[h] = grants[h]
        BY <2>2, <3>2, InsertedRow
      <4>2. ~SameLiveKey(s, h) /\ ~SameApproval(s, h)
        BY <3>1, <4>1
      <4> QED
        BY <4>1, <4>2 DEF Inserted, SameLiveKey, SameApproval, MakesWay
    <3>3. CASE h = stmt[s].id
      <4>1. grants'[h] = Inserted(s) /\ g \in Rows /\ grants'[g] = grants[g]
        BY <2>2, <3>3, InsertedRow
      <4>2. ~SameLiveKey(s, g) /\ ~SameApproval(s, g)
        BY <3>1, <4>1
      <4> QED
        BY <4>1, <4>2 DEF Inserted, SameLiveKey, SameApproval, MakesWay
    <3>4. CASE g # stmt[s].id /\ h # stmt[s].id
      <4>1. /\ g \in Rows /\ grants'[g] = grants[g]
            /\ h \in Rows /\ grants'[h] = grants[h]
        BY <2>2, <3>4, InsertedRow
      <4> QED BY <4>1 DEF RowsDoNotClash, MakesWay
    <3> QED BY <3>2, <3>3, <3>4
  <2>3. ASSUME NEW r \in GrantIds, RevokeRole(s, r)
        PROVE  RowsDoNotClash'
    <3> SUFFICES ASSUME NEW g \in Rows', NEW h \in Rows', g # h
                 PROVE  /\ grants'[g].approval # NoRow =>
                             grants'[g].approval # grants'[h].approval
                        /\ grants'[g].member = grants'[h].member =>
                             MakesWay(g, h)' \/ MakesWay(h, g)'
      BY DEF RowsDoNotClash
    <3>1. /\ g \in Rows /\ grants'[g].member = grants[g].member
          /\ grants'[g].approval = grants[g].approval
          /\ grants'[g].by = grants[g].by /\ grants[g].by # NoOne
          /\ grants[g].revokedBy # NoOne =>
               grants'[g].revokedBy = grants[g].revokedBy
      BY <2>3, RevokedRow DEF TypeOK, Rows, Row
    <3>2. /\ h \in Rows /\ grants'[h].member = grants[h].member
          /\ grants'[h].approval = grants[h].approval
          /\ grants'[h].by = grants[h].by /\ grants[h].by # NoOne
          /\ grants[h].revokedBy # NoOne =>
               grants'[h].revokedBy = grants[h].revokedBy
      BY <2>3, RevokedRow DEF TypeOK, Rows, Row
    <3> QED BY <3>1, <3>2 DEF RowsDoNotClash, MakesWay
  <2>4. CASE Commit(s)
    <3> SUFFICES ASSUME NEW g \in Rows', NEW h \in Rows', g # h
                 PROVE  /\ grants'[g].approval # NoRow =>
                             grants'[g].approval # grants'[h].approval
                        /\ grants'[g].member = grants'[h].member =>
                             MakesWay(g, h)' \/ MakesWay(h, g)'
      BY DEF RowsDoNotClash
    <3>1. /\ g \in Rows /\ grants'[g].member = grants[g].member
          /\ grants'[g].approval = grants[g].approval
          /\ grants'[g].by =
               IF grants[g].by = s THEN Committed ELSE grants[g].by
          /\ grants'[g].revokedBy =
               IF grants[g].revokedBy = s THEN Committed
               ELSE grants[g].revokedBy
      BY <2>4, CommitRow
    <3>2. /\ h \in Rows /\ grants'[h].member = grants[h].member
          /\ grants'[h].approval = grants[h].approval
          /\ grants'[h].by =
               IF grants[h].by = s THEN Committed ELSE grants[h].by
          /\ grants'[h].revokedBy =
               IF grants[h].revokedBy = s THEN Committed
               ELSE grants[h].revokedBy
      BY <2>4, CommitRow
    <3> QED BY <3>1, <3>2 DEF RowsDoNotClash, MakesWay
  <2>5. CASE DuplicateKey(s) \/ LatchTaken(s) \/ Rollback(s) \/ DeadlockVictim(s)
    BY <2>5, UndoneKeepsApart DEF DuplicateKey, LatchTaken, Rollback,
                                  DeadlockVictim
  <2>6. ASSUME \/ Begin(s) \/ ArmDecides(s) \/ ArmInserts(s)
               \/ \E g \in GrantIds, m \in Members, a \in ApprovalIds \cup {NoRow} :
                    GrantRole(s, g, m, a)
        PROVE  FALSE
    BY <1>2, <2>6 DEF Begin, ArmDecides, ArmInserts, GrantRole
  <2> QED BY <2>1, <2>2, <2>3, <2>4, <2>5, <2>6 DEF Step
<1> QED BY <1>1, <1>2 DEF vars

\* However many sessions interleave, two committed grants never rest on one
\* approval and a member never holds the role by two live committed rows
\* (002:195-198).  An uncommitted row keeps the promise too, and a row revoked
\* in the transaction that puts its successor in comes back only when the
\* successor goes.
THEOREM CommittedGrantsNeverClash == Spec => []CommittedGrantsDoNotClash
<1>1. Init => RowsDoNotClash
  BY DEF Init, RowsDoNotClash, Rows
<1>2. Inv1 /\ RowsDoNotClash /\ [Next]_vars => RowsDoNotClash'
  BY ClashStep
<1>3. Inv1 /\ RowsDoNotClash => CommittedGrantsDoNotClash
  <2> SUFFICES ASSUME Inv1, RowsDoNotClash,
                      NEW g \in CommittedRows, NEW h \in CommittedRows, g # h
               PROVE  /\ grants[g].approval # NoRow =>
                           grants[g].approval # grants[h].approval
                      /\ grants[g].member = grants[h].member =>
                           Committed \in {grants[g].revokedBy,
                                          grants[h].revokedBy}
    BY DEF CommittedGrantsDoNotClash
  <2>1. /\ g \in Rows /\ h \in Rows
        /\ grants[g].by = Committed /\ grants[h].by = Committed
    BY DEF CommittedRows
  <2> QED BY <2>1 DEF RowsDoNotClash, MakesWay
<1> QED BY <1>1, <1>2, <1>3, Inv1Holds, PTL DEF Spec

-----------------------------------------------------------------------------
(* Counting.                                                               *)

\* The elements of a small set can be numbered.
LEMMA Numbering ==
  ASSUME NEW S, IsFiniteSet(S), NEW q \in Nat, Cardinality(S) <= q
  PROVE  \E f \in [S -> 1..q] : f \in Injection(S, 1..q)
<1> DEFINE C == 1..Cardinality(S)
<1>1. Cardinality(S) \in Nat /\ ExistsBijection(C, S)
  BY FS_CardinalityType
<1>2. C \subseteq 1..q
  BY <1>1
<1> HIDE DEF C
<1>3. PICK b : b \in Bijection(C, S)
  BY <1>1, Fun_ExistsBij
<1>4. Inverse(b, C, S) \in Bijection(S, C)
  BY <1>3, Fun_BijInverse
<1>5. PICK f : f \in Injection(S, C)
  BY <1>4 DEF Bijection
<1> QED BY <1>2, <1>5 DEF Injection, IsInjective

\* A family of small sets, one for each session, is small.
LEMMA FamilyBound ==
  ASSUME NEW D \in [Sessions -> SUBSET GrantIds], NEW q \in Nat,
         \A t \in Sessions : Cardinality(D[t]) <= q
  PROVE  Cardinality(UNION {D[t] : t \in Sessions})
           <= Cardinality(Sessions) * q
<1> DEFINE U == UNION {D[t] : t \in Sessions}
           owner == [u \in U |-> CHOOSE t \in Sessions : u \in D[t]]
           number == [t \in Sessions |->
                        CHOOSE f \in [D[t] -> 1..q] : f \in Injection(D[t], 1..q)]
           F == [u \in U |-> <<owner[u], number[owner[u]][u]>>]
<1>1. ASSUME NEW u \in U
      PROVE  owner[u] \in Sessions /\ u \in D[owner[u]]
  <2>1. \E t \in Sessions : u \in D[t]
    OBVIOUS
  <2> QED BY <2>1
<1>2. ASSUME NEW t \in Sessions
      PROVE  number[t] \in Injection(D[t], 1..q)
  <2>1. IsFiniteSet(D[t])
    BY FS_Subset
  <2>2. \E f \in [D[t] -> 1..q] : f \in Injection(D[t], 1..q)
    BY <2>1, Numbering
  <2> QED BY <2>2
<1>3. F \in Injection(U, Sessions \X (1..q))
  <2>1. F \in [U -> Sessions \X (1..q)]
    <3> SUFFICES ASSUME NEW u \in U
                 PROVE  number[owner[u]][u] \in 1..q
      BY <1>1
    <3> HIDE DEF owner, number
    <3> QED BY <1>1, <1>2 DEF Injection, IsInjective
  <2>2. ASSUME NEW u \in U, NEW v \in U, F[u] = F[v]
        PROVE  u = v
    <3> HIDE DEF owner, number, U
    <3>1. owner[u] = owner[v] /\ number[owner[u]][u] = number[owner[v]][v]
      <4>1. /\ F[u] = <<owner[u], number[owner[u]][u]>>
            /\ F[v] = <<owner[v], number[owner[v]][v]>>
        OBVIOUS
      <4> HIDE DEF F
      <4>2. /\ F[u][1] = owner[u] /\ F[u][2] = number[owner[u]][u]
            /\ F[v][1] = owner[v] /\ F[v][2] = number[owner[v]][v]
        BY <4>1
      <4> QED BY <2>2, <4>2
    <3> HIDE DEF F
    <3> QED BY <1>1, <1>2, <3>1 DEF Injection, IsInjective
  <2> HIDE DEF F, U
  <2> QED BY <2>1, <2>2 DEF Injection, IsInjective
<1>4. IsFiniteSet(1..q) /\ Cardinality(1..q) = q
  BY FS_Interval
<1>5. /\ IsFiniteSet(Sessions \X (1..q))
      /\ Cardinality(Sessions \X (1..q)) = Cardinality(Sessions) * q
  BY <1>4, FS_Product
<1> HIDE DEF F
<1> QED BY <1>3, <1>5, FS_Injection

\* Every set counted is one of ids, and so finite.
LEMMA IdsAreFinite ==
  ASSUME NEW S \in SUBSET GrantIds
  PROVE  IsFiniteSet(S) /\ Cardinality(S) \in Nat
BY FS_Subset, FS_CardinalityType

LEMMA SmallerIsNoLarger ==
  ASSUME NEW S \in SUBSET GrantIds, NEW T \in SUBSET S
  PROVE  Cardinality(T) <= Cardinality(S)
BY IdsAreFinite, FS_Subset

LEMMA CountedAreIds ==
  /\ Taken \in SUBSET GrantIds
  /\ \A t \in Sessions : Held(t) \in SUBSET Taken
BY DEF Taken, Held, Unapproved, CommittedRows, Rows

\* A step that takes no seat keeps the count.
LEMMA NothingTaken ==
  ASSUME SeatsAreCounted, Taken' \subseteq Taken,
         \A t \in Sessions : Held(t)' \subseteq Held(t)
  PROVE  SeatsAreCounted'
<1>1. ASSUME NEW t \in Sessions
      PROVE  Cardinality(Held(t)') <= Quota
  <2>1. Held(t) \in SUBSET GrantIds /\ Held(t)' \in SUBSET Held(t)
    BY CountedAreIds
  <2>2. Cardinality(Held(t)') <= Cardinality(Held(t))
    BY <2>1, SmallerIsNoLarger
  <2>3. Cardinality(Held(t)) \in Nat /\ Cardinality(Held(t)') \in Nat
    BY <2>1, IdsAreFinite
  <2> QED BY <2>2, <2>3 DEF SeatsAreCounted
<1>2. Cardinality(Taken') <= Cardinality(Sessions) * Quota
  <2>1. Taken \in SUBSET GrantIds /\ Taken' \in SUBSET Taken
    BY CountedAreIds
  <2>2. Cardinality(Taken') <= Cardinality(Taken)
    BY <2>1, SmallerIsNoLarger
  <2>3. Cardinality(Taken) \in Nat /\ Cardinality(Taken') \in Nat
    BY <2>1, IdsAreFinite
  <2>4. Cardinality(Sessions) * Quota \in Nat
    BY FS_CardinalityType
  <2> HIDE DEF Taken
  <2> QED BY <2>2, <2>3, <2>4 DEF SeatsAreCounted
<1> QED BY <1>1, <1>2 DEF SeatsAreCounted

\* What one session sees taken, with the seat it takes now, is a quota at most,
\* and so is what each other one holds.
LEMMA SeatTaken ==
  ASSUME Inv1, SeatsAreCounted, NEW s \in Sessions, NEW g \in GrantIds,
         NEW m \in Members, GrantRole(s, g, m, NoRow)
  PROVE  SeatsAreCounted'
<1> DEFINE Seen == Unapproved(VisibleRows(s))
           D == [t \in Sessions |->
                   IF t = s THEN Seen \cup {g} ELSE Held(t)]
<1>1. Seen \in SUBSET GrantIds
  BY DEF Unapproved, VisibleRows, Rows
<1>2. Cardinality(Seen) < Quota
  <2>1. ~(bootstrap_admin_grants_used(s) >= Quota)
    BY DEF GrantRole, two_approver_rule_can_bind, bootstrap_is_spent
  <2>2. bootstrap_admin_grants_used(s) = Cardinality(Seen)
    BY DEF bootstrap_admin_grants_used, Unapproved
  <2> QED BY <2>1, <2>2, <1>1, IdsAreFinite
<1>3. Cardinality(Seen \cup {g}) <= Quota /\ Seen \cup {g} \in SUBSET GrantIds
  <2>1. Cardinality(Seen \cup {g}) <= Cardinality(Seen) + 1
    BY <1>1, IdsAreFinite, FS_AddElement
  <2>2. Cardinality(Seen) \in Nat /\ Cardinality(Seen \cup {g}) \in Nat
    BY <1>1, IdsAreFinite
  <2> HIDE DEF Seen
  <2> QED BY <2>1, <2>2, <1>1, <1>2
<1>4. /\ grants' = grants /\ pc[s] = "open"
      /\ stmt' = [stmt EXCEPT ![s] = [id |-> g, member |-> m, approval |-> NoRow]]
      /\ pc' = [pc EXCEPT ![s] = "index"]
  BY DEF GrantRole
<1>5. Rows' = Rows /\ CommittedRows' = CommittedRows
      /\ Unapproved(Rows)' = Unapproved(Rows)
      /\ Unapproved(CommittedRows)' = Unapproved(CommittedRows)
  BY <1>4 DEF Rows, CommittedRows, Unapproved
<1>6. ASSUME NEW t \in Sessions, t # s
      PROVE  Held(t)' = Held(t)
  <2>1. stmt'[t] = stmt[t] /\ pc'[t] = pc[t]
    BY <1>4, <1>6 DEF Inv1, TypeOK
  <2> QED BY <2>1, <1>4, <1>5 DEF Held, EscapePassed
<1>7. Held(s)' \subseteq Seen \cup {g}
  <2>1. stmt'[s].id = g
    BY <1>4 DEF Inv1, TypeOK
  <2> SUFFICES ASSUME NEW x \in Held(s)', x # g
               PROVE  x \in Seen
    OBVIOUS
  <2>2. x \in Unapproved(Rows) /\ grants[x].by = s
    BY <2>1, <1>4, <1>5 DEF Held
  <2> QED BY <2>2 DEF Unapproved, VisibleRows
<1>8. ASSUME NEW t \in Sessions
      PROVE  Held(t)' \subseteq D[t] /\ D[t] \in SUBSET GrantIds
                /\ Cardinality(D[t]) <= Quota
  <2>1. CASE t = s
    <3>1. D[t] = Seen \cup {g}
      BY <2>1
    <3> QED BY <3>1, <2>1, <1>3, <1>7
  <2>2. CASE t # s
    <3>1. D[t] = Held(t)
      BY <2>2
    <3> QED BY <3>1, <2>2, <1>6, CountedAreIds DEF SeatsAreCounted
  <2> QED BY <2>1, <2>2
<1>9. Taken' \subseteq UNION {D[t] : t \in Sessions}
  <2>1. Unapproved(CommittedRows)' \subseteq D[s]
    BY <1>5 DEF Unapproved, CommittedRows, VisibleRows
  <2> HIDE DEF D
  <2> QED BY <2>1, <1>8 DEF Taken
<1>10. D \in [Sessions -> SUBSET GrantIds]
  BY <1>8
<1> HIDE DEF D
<1>11. Cardinality(UNION {D[t] : t \in Sessions}) <= Cardinality(Sessions) * Quota
  BY <1>8, <1>10, FamilyBound
<1>12. UNION {D[t] : t \in Sessions} \in SUBSET GrantIds
  BY <1>8
<1>13. Cardinality(Taken') <= Cardinality(Sessions) * Quota
  <2>1. Cardinality(Taken') <= Cardinality(UNION {D[t] : t \in Sessions})
    BY <1>9, <1>12, SmallerIsNoLarger
  <2>2. /\ Cardinality(Taken') \in Nat
        /\ Cardinality(UNION {D[t] : t \in Sessions}) \in Nat
    BY <1>9, <1>12, IdsAreFinite
  <2>3. Cardinality(Sessions) * Quota \in Nat
    BY FS_CardinalityType
  <2> QED BY <2>1, <2>2, <2>3, <1>11
<1>14. ASSUME NEW t \in Sessions
       PROVE  Cardinality(Held(t)') <= Quota
  <2>1. Cardinality(Held(t)') <= Cardinality(D[t])
    BY <1>8, SmallerIsNoLarger
  <2>2. Cardinality(Held(t)') \in Nat /\ Cardinality(D[t]) \in Nat
    BY <1>8, IdsAreFinite
  <2> QED BY <2>1, <2>2, <1>8
<1> QED BY <1>13, <1>14 DEF SeatsAreCounted

\* The seats a step leaves are ones that were there, and a session holds none
\* it did not hold: what to show of every row and every session past the
\* trigger.
LEMMA SeatsShrink ==
  ASSUME SeatsAreCounted,
         \A g \in Rows' : grants'[g].approval = NoRow =>
           \/ /\ g \in Unapproved(Rows)
              /\ \/ grants'[g].by = grants[g].by
                 \/ grants[g].by \in Sessions /\ grants'[g].by = Committed
           \/ \E t \in EscapePassed : stmt[t].id = g /\ grants'[g].by = t,
         \A t \in EscapePassed' : t \in EscapePassed /\ stmt'[t] = stmt[t]
  PROVE  SeatsAreCounted'
<1>1. ASSUME NEW t \in Sessions
      PROVE  Held(t)' \subseteq Held(t)
  <2> SUFFICES ASSUME NEW g \in Held(t)'
               PROVE  g \in Held(t)
    OBVIOUS
  <2>1. g \in GrantIds
    BY DEF Held
  <2>2. CASE g \in Unapproved(Rows)' /\ grants'[g].by = t
    <3>1. g \in Rows' /\ grants'[g].approval = NoRow
      BY <2>2 DEF Unapproved
    <3> QED BY <2>1, <2>2, <3>1 DEF Held
  <2>3. CASE t \in EscapePassed' /\ stmt'[t].id = g
    BY <2>1, <2>3 DEF Held
  <2> QED BY <2>2, <2>3 DEF Held
<1>2. Taken' \subseteq Taken
  <2> SUFFICES ASSUME NEW g \in Unapproved(CommittedRows)'
               PROVE  g \in Taken
    BY <1>1 DEF Taken
  <2>1. /\ g \in Rows' /\ g \in GrantIds /\ grants'[g].approval = NoRow
        /\ grants'[g].by = Committed
    BY DEF Unapproved, CommittedRows, Rows
  <2>2. \A t \in EscapePassed : t # Committed
    BY DEF EscapePassed
  <2>3. /\ g \in Unapproved(Rows)
        /\ grants[g].by \in Sessions \cup {Committed}
    BY <2>1, <2>2
  <2> QED BY <2>1, <2>3 DEF Taken, Held, Unapproved, CommittedRows
<1> QED BY <1>1, <1>2, NothingTaken

LEMMA UndoneSeats ==
  ASSUME Inv1, SeatsAreCounted, NEW s \in Sessions, Undone(s)
  PROVE  SeatsAreCounted'
<1>1. \A g \in Rows' : /\ g \in Rows
                       /\ grants'[g].approval = grants[g].approval
                       /\ grants'[g].by = grants[g].by
  BY UndoneRow DEF Inv1
<1>2. ASSUME NEW t \in EscapePassed'
      PROVE  t \in EscapePassed /\ stmt'[t] = stmt[t]
  <2>1. t # s /\ pc'[t] = pc[t] /\ stmt'[t] = stmt[t]
    BY DEF EscapePassed, Undone, Inv1, TypeOK
  <2> QED BY <2>1 DEF EscapePassed
<1> QED BY <1>1, <1>2, SeatsShrink DEF Unapproved

LEMMA SeatsStep ==
  ASSUME Inv1, SeatsAreCounted, [Next]_vars
  PROVE  SeatsAreCounted'
<1>1. CASE UNCHANGED vars
  BY <1>1 DEF vars, SeatsAreCounted, Held, Taken, Unapproved, CommittedRows,
              Rows, EscapePassed
<1>2. CASE Next
  <2>1. PICK s \in Sessions : Step(s)
    BY <1>2 DEF Next
  <2>2. CASE Begin(s) \/ ArmDecides(s) \/ ArmInserts(s)
    <3>1. UNCHANGED <<grants, stmt>>
      BY <2>2 DEF Begin, ArmDecides, ArmInserts
    <3>2. \E p \in Places \ {"index"} : pc' = [pc EXCEPT ![s] = p]
      BY <2>2 DEF Begin, ArmDecides, ArmInserts, Places
    <3>3. \A t \in EscapePassed' : t \in EscapePassed /\ stmt'[t] = stmt[t]
      BY <3>1, <3>2 DEF EscapePassed, Inv1, TypeOK
    <3> QED BY <3>1, <3>3, SeatsShrink DEF Rows, Unapproved
  <2>3. ASSUME NEW g \in GrantIds, NEW m \in Members,
               NEW a \in ApprovalIds \cup {NoRow}, GrantRole(s, g, m, a)
        PROVE  SeatsAreCounted'
    <3>1. CASE a = NoRow
      BY <2>3, <3>1, SeatTaken
    <3>2. CASE a # NoRow
      <4>1. /\ UNCHANGED grants
            /\ stmt' = [stmt EXCEPT ![s] = [id |-> g, member |-> m, approval |-> a]]
            /\ pc' = [pc EXCEPT ![s] = "index"]
        BY <2>3 DEF GrantRole
      <4>2. ASSUME NEW t \in EscapePassed'
            PROVE  t \in EscapePassed /\ stmt'[t] = stmt[t]
        <5>1. t # s
          BY <3>2, <4>1 DEF EscapePassed, Inv1, TypeOK
        <5> QED BY <4>1, <5>1 DEF EscapePassed, Inv1, TypeOK
      <4> QED BY <4>1, <4>2, SeatsShrink DEF Rows, Unapproved
    <3> QED BY <3>1, <3>2
  <2>4. CASE InsertRow(s)
    <3>1. ASSUME NEW g \in Rows', grants'[g].approval = NoRow
          PROVE  \/ g \in Unapproved(Rows) /\ grants'[g].by = grants[g].by
                 \/ s \in EscapePassed /\ stmt[s].id = g /\ grants'[g].by = s
      <4>1. CASE g = stmt[s].id
        <5>1. grants'[g] = Inserted(s)
          BY <2>4, <3>1, <4>1, InsertedRow
        <5>2. pc[s] = "index"
          BY <2>4 DEF InsertRow
        <5> QED BY <3>1, <4>1, <5>1, <5>2 DEF Inserted, EscapePassed
      <4>2. CASE g # stmt[s].id
        BY <2>4, <3>1, <4>2, InsertedRow DEF Unapproved
      <4> QED BY <4>1, <4>2
    <3>2. \A t \in EscapePassed' : t \in EscapePassed /\ stmt'[t] = stmt[t]
      BY <2>4 DEF InsertRow, EscapePassed, Inv1, TypeOK
    <3> QED BY <3>1, <3>2, SeatsShrink
  <2>5. ASSUME NEW r \in GrantIds, RevokeRole(s, r)
        PROVE  SeatsAreCounted'
    <3>1. \A g \in Rows' : /\ g \in Rows
                           /\ grants'[g].approval = grants[g].approval
                           /\ grants'[g].by = grants[g].by
      BY <2>5, RevokedRow DEF Inv1
    <3>2. \A t \in EscapePassed' : t \in EscapePassed /\ stmt'[t] = stmt[t]
      BY <2>5 DEF RevokeRole, EscapePassed, Inv1, TypeOK
    <3> QED BY <3>1, <3>2, SeatsShrink DEF Unapproved
  <2>6. CASE Commit(s)
    <3>1. \A g \in Rows' : /\ g \in Rows
                           /\ grants'[g].approval = grants[g].approval
                           /\ grants'[g].by = IF grants[g].by = s
                                              THEN Committed ELSE grants[g].by
      BY <2>6, CommitRow DEF Inv1
    <3>2. \A t \in EscapePassed' : t \in EscapePassed /\ stmt'[t] = stmt[t]
      BY <2>6 DEF Commit, EscapePassed, Inv1, TypeOK
    <3> QED BY <3>1, <3>2, SeatsShrink DEF Unapproved
  <2>7. CASE DuplicateKey(s) \/ LatchTaken(s) \/ Rollback(s) \/ DeadlockVictim(s)
    BY <2>7, UndoneSeats DEF DuplicateKey, LatchTaken, Rollback, DeadlockVictim
  <2> QED BY <2>1, <2>2, <2>3, <2>4, <2>5, <2>6, <2>7 DEF Step
<1> QED BY <1>1, <1>2

\* Sessions that count before any of them commits can give more seats without
\* an approval than the quota (013:60-119), but never more than a quota for
\* each session: a session counts what is committed and what it wrote itself.
THEOREM OverrunNeverPassesItsBound == Spec => []OverrunIsBounded
<1>1. Init => SeatsAreCounted
  <2> SUFFICES ASSUME Init
               PROVE  SeatsAreCounted
    OBVIOUS
  <2>1. Taken = {} /\ \A t \in Sessions : Held(t) = {}
    BY DEF Init, Taken, Held, Unapproved, CommittedRows, Rows, EscapePassed
  <2>2. Cardinality(Sessions) \in Nat /\ Cardinality({}) = 0
    BY FS_CardinalityType, FS_EmptySet
  <2>3. 0 <= Cardinality(Sessions) * Quota
    BY <2>2
  <2>4. Cardinality(Taken) = 0 /\ \A t \in Sessions : Cardinality(Held(t)) = 0
    BY <2>1, <2>2
  <2> QED BY <2>3, <2>4 DEF SeatsAreCounted
<1>2. Inv1 /\ SeatsAreCounted /\ [Next]_vars => SeatsAreCounted'
  BY SeatsStep
<1>3. SeatsAreCounted => OverrunIsBounded
  <2> SUFFICES ASSUME SeatsAreCounted
               PROVE  Cardinality(Unapproved(CommittedRows))
                        <= Cardinality(Sessions) * Quota
    BY DEF OverrunIsBounded
  <2>1. Unapproved(CommittedRows) \in SUBSET Taken /\ Taken \in SUBSET GrantIds
    BY CountedAreIds DEF Taken
  <2>2. Cardinality(Unapproved(CommittedRows)) <= Cardinality(Taken)
    BY <2>1, SmallerIsNoLarger
  <2>3. /\ Cardinality(Unapproved(CommittedRows)) \in Nat
        /\ Cardinality(Taken) \in Nat
        /\ Cardinality(Sessions) * Quota \in Nat
    BY <2>1, IdsAreFinite, FS_CardinalityType
  <2> HIDE DEF Taken
  <2> QED BY <2>2, <2>3 DEF SeatsAreCounted
<1> QED BY <1>1, <1>2, <1>3, Inv1Holds, PTL DEF Spec

-----------------------------------------------------------------------------
(* A committed latch binds the transactions that were open before it.      *)

\* Past the trigger there is a session, and its seat is among the rows or
\* ahead of it: moving from one to the other does not raise the sum.
LEMMA SumShrinks ==
  ASSUME EscapePassed' \subseteq EscapePassed,
         \/ Unapproved(Rows)' \subseteq Unapproved(Rows)
         \/ \E s \in EscapePassed \ EscapePassed', g \in GrantIds :
              Unapproved(Rows)' \subseteq Unapproved(Rows) \cup {g}
  PROVE  Cardinality(Unapproved(Rows)') + Cardinality(EscapePassed')
           <= Cardinality(Unapproved(Rows)) + Cardinality(EscapePassed)
<1> DEFINE U == Unapproved(Rows)
           V == Unapproved(Rows)'
           E == EscapePassed
           F == EscapePassed'
<1>1. U \in SUBSET GrantIds /\ V \in SUBSET GrantIds
  BY DEF Unapproved, Rows
<1>2. E \in SUBSET Sessions /\ F \in SUBSET E
  BY DEF EscapePassed
<1> SUFFICES Cardinality(V) + Cardinality(F) <= Cardinality(U) + Cardinality(E)
  OBVIOUS
<1>3. /\ V \subseteq U
      \/ \E s \in E \ F, g \in GrantIds : V \subseteq U \cup {g}
  OBVIOUS
<1> HIDE DEF U, V, E, F
<1>4. IsFiniteSet(E) /\ IsFiniteSet(F)
  BY <1>2, FS_Subset
<1>5. /\ Cardinality(U) \in Nat /\ Cardinality(V) \in Nat
      /\ Cardinality(E) \in Nat /\ Cardinality(F) \in Nat
  BY <1>1, <1>4, IdsAreFinite, FS_CardinalityType
<1>6. CASE V \subseteq U
  <2>1. Cardinality(V) <= Cardinality(U)
    BY <1>1, <1>6, SmallerIsNoLarger
  <2>2. Cardinality(F) <= Cardinality(E)
    BY <1>2, <1>4, FS_Subset
  <2> QED BY <1>5, <2>1, <2>2
<1>7. ASSUME NEW s \in E \ F, NEW g \in GrantIds, V \subseteq U \cup {g}
      PROVE  Cardinality(V) + Cardinality(F) <= Cardinality(U) + Cardinality(E)
  <2>1. U \cup {g} \in SUBSET GrantIds /\ V \in SUBSET (U \cup {g})
    BY <1>1, <1>7
  <2>2. Cardinality(V) <= Cardinality(U \cup {g})
    BY <2>1, SmallerIsNoLarger
  <2>3. /\ Cardinality(U \cup {g}) <= Cardinality(U) + 1
        /\ Cardinality(U \cup {g}) \in Nat
    BY <1>1, <1>5, <2>1, IdsAreFinite, FS_AddElement
  <2>4. F \in SUBSET (E \ {s}) /\ s \in E
    BY <1>2
  <2>5. IsFiniteSet(E \ {s}) /\ Cardinality(E \ {s}) = Cardinality(E) - 1
    BY <1>4, <2>4, FS_RemoveElement
  <2>6. Cardinality(F) <= Cardinality(E) - 1
    BY <2>4, <2>5, FS_Subset
  <2> QED BY <1>5, <2>2, <2>3, <2>6
<1> QED BY <1>3, <1>6, <1>7

LEMMA LatchedUndone ==
  ASSUME Inv1, NEW s \in Sessions, Undone(s)
  PROVE  /\ EscapePassed' \subseteq EscapePassed
         /\ Unapproved(Rows)' \subseteq Unapproved(Rows)
<1>1. \A g \in Rows' : g \in Rows /\ grants'[g].approval = grants[g].approval
  BY UndoneRow DEF Inv1
<1>2. ASSUME NEW t \in EscapePassed'
      PROVE  t \in EscapePassed
  <2>1. t # s /\ pc'[t] = pc[t] /\ stmt'[t] = stmt[t]
    BY DEF EscapePassed, Undone, Inv1, TypeOK
  <2> QED BY <2>1 DEF EscapePassed
<1> QED BY <1>1, <1>2 DEF Unapproved

LEMMA LatchedStep ==
  ASSUME Inv1, [Next]_vars, latch = Committed
  PROVE  /\ EscapePassed' \subseteq EscapePassed
         /\ \/ Unapproved(Rows)' \subseteq Unapproved(Rows)
            \/ \E s \in EscapePassed \ EscapePassed', g \in GrantIds :
                 Unapproved(Rows)' \subseteq Unapproved(Rows) \cup {g}
<1>1. CASE UNCHANGED vars
  BY <1>1 DEF vars, Unapproved, Rows, EscapePassed
<1>2. CASE Next
  <2>1. PICK s \in Sessions : Step(s)
    BY <1>2 DEF Next
  <2>2. CASE Begin(s) \/ ArmDecides(s) \/ ArmInserts(s)
    <3>1. UNCHANGED <<grants, stmt>>
      BY <2>2 DEF Begin, ArmDecides, ArmInserts
    <3>2. \E p \in Places \ {"index"} : pc' = [pc EXCEPT ![s] = p]
      BY <2>2 DEF Begin, ArmDecides, ArmInserts, Places
    <3> QED BY <3>1, <3>2 DEF Unapproved, Rows, EscapePassed, Inv1, TypeOK
  <2>3. ASSUME NEW g \in GrantIds, NEW m \in Members,
               NEW a \in ApprovalIds \cup {NoRow}, GrantRole(s, g, m, a)
        PROVE  /\ EscapePassed' \subseteq EscapePassed
               /\ Unapproved(Rows)' \subseteq Unapproved(Rows)
    <3>1. /\ UNCHANGED grants
          /\ stmt' = [stmt EXCEPT ![s] = [id |-> g, member |-> m, approval |-> a]]
          /\ pc' = [pc EXCEPT ![s] = "index"]
      BY <2>3 DEF GrantRole
    <3>2. a # NoRow
      BY <2>3 DEF GrantRole, two_approver_rule_can_bind, Armed
    <3>3. ASSUME NEW t \in EscapePassed'
          PROVE  t \in EscapePassed
      <4>1. t # s
        BY <3>1, <3>2 DEF EscapePassed, Inv1, TypeOK
      <4> QED BY <3>1, <4>1 DEF EscapePassed, Inv1, TypeOK
    <3> QED BY <3>1, <3>3 DEF Unapproved, Rows
  <2>4. CASE InsertRow(s)
    <3>1. /\ pc' = [pc EXCEPT ![s] = "arm"]
          /\ stmt' = [stmt EXCEPT ![s] = NoStmt]
          /\ pc[s] = "index"
      BY <2>4 DEF InsertRow
    <3>2. EscapePassed' \subseteq EscapePassed /\ s \notin EscapePassed'
      BY <3>1 DEF EscapePassed, Inv1, TypeOK
    <3>3. stmt[s].id \in GrantIds
      BY <3>1 DEF Inv1, Placed
    <3>4. ASSUME NEW g \in Unapproved(Rows)', g \notin Unapproved(Rows)
          PROVE  g = stmt[s].id /\ s \in EscapePassed
      <4>1. g \in Rows' /\ grants'[g].approval = NoRow
        BY DEF Unapproved
      <4>2. g = stmt[s].id
        BY <2>4, <3>4, <4>1, InsertedRow DEF Unapproved
      <4>3. grants'[g] = Inserted(s)
        BY <2>4, <4>1, <4>2, InsertedRow
      <4> QED BY <3>1, <4>1, <4>2, <4>3 DEF Inserted, EscapePassed
    <3>5. CASE s \in EscapePassed
      <4>1. Unapproved(Rows)' \subseteq Unapproved(Rows) \cup {stmt[s].id}
        BY <3>4
      <4> QED BY <3>2, <3>3, <3>5, <4>1
    <3>6. CASE s \notin EscapePassed
      BY <3>2, <3>4, <3>6
    <3> QED BY <3>5, <3>6
  <2>5. ASSUME NEW r \in GrantIds, RevokeRole(s, r)
        PROVE  /\ EscapePassed' \subseteq EscapePassed
               /\ Unapproved(Rows)' \subseteq Unapproved(Rows)
    <3>1. \A g \in Rows' : g \in Rows /\ grants'[g].approval = grants[g].approval
      BY <2>5, RevokedRow DEF Inv1
    <3>2. EscapePassed' \subseteq EscapePassed
      BY <2>5 DEF RevokeRole, EscapePassed, Inv1, TypeOK
    <3> QED BY <3>1, <3>2 DEF Unapproved
  <2>6. CASE Commit(s)
    <3>1. \A g \in Rows' : g \in Rows /\ grants'[g].approval = grants[g].approval
      BY <2>6, CommitRow DEF Inv1
    <3>2. EscapePassed' \subseteq EscapePassed
      BY <2>6 DEF Commit, EscapePassed, Inv1, TypeOK
    <3> QED BY <3>1, <3>2 DEF Unapproved
  <2>7. CASE DuplicateKey(s) \/ LatchTaken(s) \/ Rollback(s) \/ DeadlockVictim(s)
    BY <2>7, LatchedUndone DEF DuplicateKey, LatchTaken, Rollback, DeadlockVictim
  <2> QED BY <2>1, <2>2, <2>3, <2>4, <2>5, <2>6, <2>7 DEF Step
<1> QED BY <1>1, <1>2

\* After one session commits the latch, the sessions whose transactions were
\* open before it give no more seats without an approval than had already
\* passed the trigger: the trigger asks the latch afresh (010:74-102).
THEOREM LatchBindsOpenTransactions == Spec => LatchStopsOpenTransactions
<1>1. Inv1 /\ [Next]_vars =>
        [latch = Committed =>
           /\ EscapePassed' \subseteq EscapePassed
           /\ Cardinality(Unapproved(Rows)') + Cardinality(EscapePassed')
                <= Cardinality(Unapproved(Rows)) + Cardinality(EscapePassed)]_vars
  BY LatchedStep, SumShrinks
<1> QED BY <1>1, Inv1Holds, PTL DEF Spec, LatchStopsOpenTransactions

=============================================================================
