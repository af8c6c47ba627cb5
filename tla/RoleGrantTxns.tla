--------------------------- MODULE RoleGrantTxns ---------------------------
(***************************************************************************)
(* Concurrent transactions that grant and revoke an admin role.            *)
(*                                                                         *)
(* RoleGrants takes every statement as atomic.  Here a session has a       *)
(* transaction open at PostgreSQL's READ COMMITTED level, and an INSERT    *)
(* into member_roles is the steps it is made of: the BEFORE trigger        *)
(* role_grant_rules, the unique indexes, which wait for another            *)
(* transaction's uncommitted row, and the AFTER statement trigger          *)
(* arm_the_rule, whose own INSERT waits on the primary key of              *)
(* two_approver_armed.  Each step reads what is committed when it runs     *)
(* and what its own transaction wrote.                                     *)
(*                                                                         *)
(* The approvals are given, approved and usable; deciding them is in       *)
(* RoleGrants.  No row expires and no member is removed here.              *)
(***************************************************************************)
EXTENDS Naturals, FiniteSets

CONSTANTS Sessions,     \* connections with a transaction
          Members,      \* rows of members
          GrantIds,     \* values of member_roles.id
          ApprovalIds,  \* approved grant_role approvals
          TargetOf,     \* approvals.target_member_id
          Quota,        \* bootstrap_admin_quota()
          Committed,    \* in place of a session: written and committed
          NoOne,        \* in place of a session: not written
          NoRow         \* an id with no row; NULL in approval_id

ASSUME QuotaAssumption == Quota \in Nat \ {0}
ASSUME TargetAssumption == TargetOf \in [ApprovalIds -> Members]
ASSUME NamesAssumption ==
  /\ Committed \notin Sessions /\ NoOne \notin Sessions /\ Committed # NoOne
  /\ NoRow \notin ApprovalIds
ASSUME FiniteAssumption == IsFiniteSet(Sessions) /\ IsFiniteSet(GrantIds)

Row == [member: Members, approval: ApprovalIds \cup {NoRow},
        by: Sessions \cup {Committed},
        revokedBy: Sessions \cup {Committed, NoOne}]

\* Where a session is: between statements ("idle" with no transaction, "open"
\* with one), before the indexes ("index"), before the statement trigger
\* ("arm"), before the insert into two_approver_armed ("latch").
Places == {"idle", "open", "index", "arm", "latch"}

VARIABLES grants,   \* member_roles, with the session that wrote each row
          latch,    \* who wrote the row of two_approver_armed
          pc,       \* where each session is
          stmt      \* the row a session is inserting, with its id

vars == <<grants, latch, pc, stmt>>

NoStmt == [id |-> NoRow, member |-> NoRow, approval |-> NoRow]

-----------------------------------------------------------------------------
(* What a session's statement sees.                                        *)

Rows == {g \in GrantIds : grants[g] # NoRow}

VisibleRows(s) == {g \in Rows : grants[g].by \in {Committed, s}}

LiveFor(s, g) == grants[g].revokedBy \notin {Committed, s}

admin_count(s) == Cardinality({g \in VisibleRows(s) : LiveFor(s, g)})

bootstrap_admin_grants_used(s) ==
  Cardinality({g \in VisibleRows(s) : grants[g].approval = NoRow})

bootstrap_is_spent(s) ==
  admin_count(s) >= Quota \/ bootstrap_admin_grants_used(s) >= Quota

Armed(s) == latch \in {Committed, s}

\* Faulty: the count alone is asked, and not the latch.
BindsOnCountOnly(s) == bootstrap_is_spent(s)

\* Faulty: the trigger does not see its own transaction.
BindsOnceCommitted(s) == latch = Committed

two_approver_rule_can_bind(s) == Armed(s) \/ bootstrap_is_spent(s)

-----------------------------------------------------------------------------
(* The unique indexes member_roles_one_live and                            *)
(* member_roles_one_grant_per_approval, for the row session s inserts.     *)

SameLiveKey(s, g) ==
  grants[g].member = stmt[s].member /\ grants[g].revokedBy \notin {Committed, s}

SameApproval(s, g) ==
  stmt[s].approval # NoRow /\ grants[g].approval = stmt[s].approval

\* A row another transaction wrote, or is revoking, may yet go away.
Unsettled(s, g) ==
  \/ grants[g].by \in Sessions \ {s}
  \/ ~SameApproval(s, g) /\ grants[g].revokedBy \in Sessions \ {s}

\* Faulty: the indexes look only at rows the statement sees.
ConflictsItSees(s) == {g \in VisibleRows(s) : SameLiveKey(s, g)}

Conflicts(s) == {g \in Rows : SameLiveKey(s, g) \/ SameApproval(s, g)}

MustWait(s) == \E g \in Conflicts(s) : Unsettled(s, g)

IsRefused(s) == \E g \in Conflicts(s) : ~Unsettled(s, g)

-----------------------------------------------------------------------------
Init ==
  /\ grants = [g \in GrantIds |-> NoRow]
  /\ latch = NoOne
  /\ pc = [s \in Sessions |-> "idle"]
  /\ stmt = [s \in Sessions |-> NoStmt]

Begin(s) ==
  /\ pc[s] = "idle"
  /\ pc' = [pc EXCEPT ![s] = "open"]
  /\ UNCHANGED <<grants, latch, stmt>>

\* What an abort takes away: the rows the transaction wrote, its revocations
\* and its latch.
Undone(s) ==
  /\ grants' = [g \in GrantIds |->
       IF grants[g] = NoRow THEN NoRow
       ELSE IF grants[g].by = s THEN NoRow
       ELSE IF grants[g].revokedBy = s
            THEN [grants[g] EXCEPT !.revokedBy = NoOne]
       ELSE grants[g]]
  /\ latch' = IF latch = s THEN NoOne ELSE latch
  /\ pc' = [pc EXCEPT ![s] = "idle"]
  /\ stmt' = [stmt EXCEPT ![s] = NoStmt]

\* The BEFORE trigger role_grant_rules, and the foreign key on the approval.
\* A refusal aborts the transaction, which Rollback covers.
GrantRole(s, g, m, a) ==
  /\ pc[s] = "open"
  /\ grants[g] = NoRow
  /\ \A t \in Sessions : stmt[t].id # g
  /\ a # NoRow => TargetOf[a] = m
  /\ two_approver_rule_can_bind(s) => a # NoRow
  /\ stmt' = [stmt EXCEPT ![s] = [id |-> g, member |-> m, approval |-> a]]
  /\ pc' = [pc EXCEPT ![s] = "index"]
  /\ UNCHANGED <<grants, latch>>

\* The row goes into the indexes once nothing unsettled conflicts with it.
InsertRow(s) ==
  /\ pc[s] = "index"
  /\ ~MustWait(s)
  /\ ~IsRefused(s)
  /\ grants' = [grants EXCEPT ![stmt[s].id] =
                  [member |-> stmt[s].member, approval |-> stmt[s].approval,
                   by |-> s, revokedBy |-> NoOne]]
  /\ pc' = [pc EXCEPT ![s] = "arm"]
  /\ stmt' = [stmt EXCEPT ![s] = NoStmt]
  /\ UNCHANGED latch

\* Faulty: the violation is swallowed, and the transaction stays where it is.
DuplicateKeyHangs(s) ==
  /\ pc[s] = "index"
  /\ IsRefused(s)
  /\ UNCHANGED vars

\* A unique violation aborts the transaction.
DuplicateKey(s) ==
  /\ pc[s] = "index"
  /\ IsRefused(s)
  /\ Undone(s)

\* UPDATE ... SET revoked_at WHERE revoked_at IS NULL on a row the session can
\* see.  It waits, by not being possible, for a transaction that is revoking
\* the same row.
RevokeRole(s, g) ==
  /\ pc[s] = "open"
  /\ g \in VisibleRows(s)
  /\ grants[g].revokedBy = NoOne
  /\ grants' = [grants EXCEPT ![g].revokedBy = s]
  /\ pc' = [pc EXCEPT ![s] = "arm"]
  /\ UNCHANGED <<latch, stmt>>

\* arm_two_approver_rule decides on what it can see ...
ArmDecides(s) ==
  /\ pc[s] = "arm"
  /\ pc' = [pc EXCEPT ![s] = IF bootstrap_is_spent(s) /\ ~Armed(s)
                             THEN "latch" ELSE "open"]
  /\ UNCHANGED <<grants, latch, stmt>>

\* ... and its INSERT waits while another transaction's latch is uncommitted.
ArmInserts(s) ==
  /\ pc[s] = "latch"
  /\ latch = NoOne
  /\ latch' = s
  /\ pc' = [pc EXCEPT ![s] = "open"]
  /\ UNCHANGED <<grants, stmt>>

\* The other transaction committed its latch: a unique violation.
LatchTaken(s) ==
  /\ pc[s] = "latch"
  /\ latch = Committed
  /\ Undone(s)

Commit(s) ==
  /\ pc[s] = "open"
  /\ grants' = [g \in GrantIds |->
       IF grants[g] = NoRow THEN NoRow
       ELSE [grants[g] EXCEPT !.by = IF @ = s THEN Committed ELSE @,
                              !.revokedBy = IF @ = s THEN Committed ELSE @]]
  /\ latch' = IF latch = s THEN Committed ELSE latch
  /\ pc' = [pc EXCEPT ![s] = "idle"]
  /\ UNCHANGED stmt

Rollback(s) ==
  /\ pc[s] = "open"
  /\ Undone(s)

-----------------------------------------------------------------------------
(* Waiting, and PostgreSQL's deadlock detector.                            *)

WaitsFor(s) ==
  IF pc[s] = "index"
  THEN {t \in Sessions \ {s} : \E g \in Conflicts(s) :
          Unsettled(s, g) /\ t \in {grants[g].by, grants[g].revokedBy}}
  ELSE IF pc[s] = "latch" THEN {latch} \cap (Sessions \ {s})
  ELSE {}

Waiting(s) == WaitsFor(s) # {}

\* Every member of a set of sessions waits for another of the set.
InDeadlock(s) ==
  \E D \in SUBSET Sessions :
    s \in D /\ \A t \in D : WaitsFor(t) \cap D # {}

\* deadlock_timeout: one of them is the victim.
DeadlockVictim(s) ==
  /\ InDeadlock(s)
  /\ Undone(s)

Step(s) ==
  \/ Begin(s)
  \/ \E g \in GrantIds, m \in Members, a \in ApprovalIds \cup {NoRow} :
       GrantRole(s, g, m, a)
  \/ InsertRow(s)
  \/ DuplicateKey(s)
  \/ \E g \in GrantIds : RevokeRole(s, g)
  \/ ArmDecides(s)
  \/ ArmInserts(s)
  \/ LatchTaken(s)
  \/ Commit(s)
  \/ Rollback(s)
  \/ DeadlockVictim(s)

Next == \E s \in Sessions : Step(s)

Spec == Init /\ [][Next]_vars

(***************************************************************************)
(* Statements run on, transactions end (every script and request commits   *)
(* or rolls back), and the deadlock detector fires.                        *)
(***************************************************************************)
RunsOn(s) ==
  InsertRow(s) \/ DuplicateKey(s) \/ ArmDecides(s) \/ ArmInserts(s)
    \/ LatchTaken(s)

FairSpec ==
  /\ Spec
  /\ \A s \in Sessions : /\ WF_vars(RunsOn(s))
                         /\ SF_vars(Commit(s) \/ Rollback(s))
                         /\ WF_vars(DeadlockVictim(s))

-----------------------------------------------------------------------------
(* Properties.                                                             *)

TypeOK ==
  /\ grants \in [GrantIds -> Row \cup {NoRow}]
  /\ latch \in Sessions \cup {Committed, NoOne}
  /\ pc \in [Sessions -> Places]
  /\ stmt \in [Sessions -> [id: GrantIds \cup {NoRow},
                            member: Members \cup {NoRow},
                            approval: ApprovalIds \cup {NoRow}]]

CommittedRows == {g \in Rows : grants[g].by = Committed}

Unapproved(S) == {g \in S : grants[g].approval = NoRow}

\* However sessions interleave, an approval is behind at most one committed
\* grant, and a member holds the role by at most one live committed row
\* (002:195-198, the two partial unique indexes and their waits).
CommittedGrantsDoNotClash ==
  \A g, h \in CommittedRows : g # h =>
    /\ grants[g].approval # NoRow => grants[g].approval # grants[h].approval
    /\ grants[g].member = grants[h].member =>
         Committed \in {grants[g].revokedBy, grants[h].revokedBy}

\* Once the latch is committed the set of grants with no approval, committed
\* or still in a transaction, never grows past the ones already past the
\* trigger: the trigger reads the latch afresh in transactions that were open
\* before it (010, two_approver_rule_can_bind; READ COMMITTED).
EscapePassed == {s \in Sessions : pc[s] = "index" /\ stmt[s].approval = NoRow}

LatchStopsOpenTransactions ==
  [][latch = Committed =>
       /\ EscapePassed' \subseteq EscapePassed
       /\ Cardinality(Unapproved(Rows)') + Cardinality(EscapePassed')
            <= Cardinality(Unapproved(Rows)) + Cardinality(EscapePassed)]_vars

\* How far concurrent sessions can overrun the quota.  Each passes the trigger
\* only while it sees fewer than Quota such grants, its own included, and none
\* passes it once a latch is committed (013:60-119, 010:74-102), so the excess
\* is at most one quota for each session that was already past it.
OverrunIsBounded ==
  Cardinality(Unapproved(CommittedRows)) <= Cardinality(Sessions) * Quota

\* No session waits for ever, whether on an index or on the latch: the other
\* transaction ends, or the deadlock detector ends one of them.
WaitersAreReleased == \A s \in Sessions : Waiting(s) ~> ~Waiting(s)

\* What 013:14-16 says: three admin grants carry no approval, ever, and the
\* fourth needs one.
SeatsWithinQuota == Cardinality(Unapproved(CommittedRows)) <= Quota

=============================================================================
