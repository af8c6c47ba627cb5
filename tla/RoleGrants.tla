----------------------------- MODULE RoleGrants -----------------------------
(***************************************************************************)
(* The two approver rule on roles that can grant roles.                    *)
(*                                                                         *)
(* State: the tables approvals, member_roles and two_approver_armed, and   *)
(* the members whose deleted_at is set.  One action per statement the      *)
(* application role (oro_api) or an operator can send, with every trigger, *)
(* CHECK, unique index, foreign key and row level security policy that     *)
(* statement meets, as the migrations 002 to 013 leave them.  A statement  *)
(* that is refused changes nothing and is not a step.  Every statement is  *)
(* atomic here; RoleGrantTxns has concurrent transactions.                 *)
(*                                                                         *)
(* The time stamps are kept as what the rules compare: a grant's           *)
(* expires_at is absent, ahead or passed, and an approval is "late" when   *)
(* its decided_at is after its expires_at.                                 *)
(***************************************************************************)
EXTENDS Naturals, FiniteSets

CONSTANTS Members,      \* rows of members
          Roles,        \* rows of roles
          GrantsRoles,  \* the roles whose grants_roles flag is true
          Quota,        \* bootstrap_admin_quota()
          ApprovalIds,  \* values of approvals.id
          GrantIds,     \* values of member_roles.id
          Expiries,     \* bound: what a statement sends as expires_at
          MaxImport,    \* bound: role rows the legacy import carries
          Operator,     \* a connection that is not oro_api
          NoOne,        \* NULL in a column that names a member
          NoRow         \* an id no row has yet, and NULL in approval_id

ASSUME RolesAssumption == GrantsRoles \subseteq Roles
ASSUME QuotaAssumption == Quota \in Nat \ {0}
ASSUME ExpiriesAssumption == Expiries \subseteq {"none", "ahead", "passed"}
ASSUME NullAssumption ==
  /\ Operator \notin Members
  /\ NoOne \notin Members
  /\ NoRow \notin ApprovalIds
ASSUME IdsAssumption == IsFiniteSet(GrantIds)

Kinds == {"grant_role", "revoke_role"}
Statuses == {"pending", "approved", "rejected", "withdrawn"}

Approval ==
  [kind: Kinds, target: Members, role: Roles, proposer: Members,
   decider: Members \cup {NoOne}, status: Statuses, late: BOOLEAN]

Grant ==
  [member: Members, role: Roles, approval: ApprovalIds \cup {NoRow},
   expiry: {"none", "ahead", "passed"}, revoked: BOOLEAN]

ASSUME NoRowAssumption == NoRow \notin Approval /\ NoRow \notin Grant

VARIABLES approvals,    \* approvals, by id
          memberRoles,  \* member_roles, by id
          armed,        \* two_approver_armed has its one row
          removed,      \* members with deleted_at set
          \* What happened, kept for the properties; no guard reads these.
          panel,        \* the live admins at the moment an approval was
                        \* approved under the binding rule; NoRow otherwise
          bound,        \* grants inserted while the rule could bind
          imported      \* grants 022_roles.sql wrote

vars == <<approvals, memberRoles, armed, removed, panel, bound, imported>>

-----------------------------------------------------------------------------
(* The predicates of 003, 010, 012 and 013, over a state of the tables.    *)

Rows(grants) == {g \in GrantIds : grants[g] # NoRow}

\* A member_roles row that counts: the role grants roles, the row is not
\* revoked or expired, and the member is not removed.
LiveAdminRows(grants, gone) ==
  {g \in Rows(grants) :
     /\ grants[g].role \in GrantsRoles
     /\ ~grants[g].revoked
     /\ grants[g].expiry # "passed"
     /\ grants[g].member \notin gone}

admin_count(grants, gone) == Cardinality(LiveAdminRows(grants, gone))

is_admin(m) == \E g \in LiveAdminRows(memberRoles, removed) :
                  memberRoles[g].member = m

Admins == {m \in Members : is_admin(m)}

\* Grants of a role that grants roles, with no approval behind them, over the
\* whole history: a revoked row still counts.
UnapprovedGrants(grants) ==
  {g \in Rows(grants) : /\ grants[g].role \in GrantsRoles
                        /\ grants[g].approval = NoRow}

\* Faulty: a revoked grant gives its seat back.
GrantsUsedForgetsRevoked(grants) ==
  Cardinality({g \in UnapprovedGrants(grants) : ~grants[g].revoked})

bootstrap_admin_grants_used(grants) == Cardinality(UnapprovedGrants(grants))

bootstrap_is_spent(grants, gone) ==
  \/ admin_count(grants, gone) >= Quota
  \/ bootstrap_admin_grants_used(grants) >= Quota

two_approver_rule_can_bind == armed \/ bootstrap_is_spent(memberRoles, removed)

\* Faulty: only the live count arms, as before 013.
ArmOnLiveCountOnly ==
  armed' = (armed \/ admin_count(memberRoles', removed') >= Quota)

\* The AFTER statement trigger arm_the_rule, on the rows the statement left.
arm_two_approver_rule ==
  armed' = (armed \/ bootstrap_is_spent(memberRoles', removed'))

-----------------------------------------------------------------------------
Init ==
  /\ approvals = [a \in ApprovalIds |-> NoRow]
  /\ memberRoles = [g \in GrantIds |-> NoRow]
  /\ armed = FALSE
  /\ removed = {}
  /\ panel = [a \in ApprovalIds |-> NoRow]
  /\ bound = {}
  /\ imported = {}

(***************************************************************************)
(* Statements on approvals.                                                *)
(***************************************************************************)

\* Who may write at all: the policies of 007 admit admins, and an operator's
\* connection is not subject to them.
MayWrite(by) == by = Operator \/ is_admin(by)

\* The CHECK constraints of 002 and 010.  A row with no decision has no
\* decided_at, so it is not late.
ChecksHold(row) ==
  /\ row.decider # row.proposer
  /\ (row.status \in {"pending", "withdrawn"}) <=> (row.decider = NoOne)
  /\ row.decider = NoOne => ~row.late

\* Faulty: only the decider is looked at.
DeciderAloneIsAdmin(row) ==
  row.status = "approved" /\ two_approver_rule_can_bind => is_admin(row.decider)

\* Trigger approval_is_by_two_admins.
enforce_approval_is_by_two_admins(row) ==
  row.status = "approved" /\ two_approver_rule_can_bind
    => is_admin(row.proposer) /\ is_admin(row.decider)

\* The admins who were there when an approval became approved.
RecordPanel(a, row) ==
  panel' = IF /\ row.status = "approved"
              /\ panel[a] = NoRow
              /\ approvals[a] = NoRow \/ approvals[a].status # "approved"
              /\ two_approver_rule_can_bind
           THEN [panel EXCEPT ![a] = Admins]
           ELSE panel

\* INSERT INTO approvals.  The policy admin_proposes and the trigger
\* proposer_is_caller bind proposed_by to the caller; nothing binds status
\* or decided_by.
ProposeApproval(by, a) ==
  /\ MayWrite(by)
  /\ approvals[a] = NoRow
  /\ \E row \in Approval :
       /\ by # Operator => row.proposer = by
       /\ ChecksHold(row)
       /\ enforce_approval_is_by_two_admins(row)
       /\ approvals' = [approvals EXCEPT ![a] = row]
       /\ RecordPanel(a, row)
  /\ UNCHANGED <<memberRoles, armed, removed, bound, imported>>

\* Faulty: a decided status may still move.
FreezeForgetsStatus(by, old, new) ==
  /\ old.kind = new.kind
  /\ old.target = new.target
  /\ old.role = new.role
  /\ old.proposer = new.proposer
  /\ by # Operator /\ old.decider = NoOne /\ new.decider # NoOne
       => new.decider = by

\* Trigger approval_proposal_is_frozen (010) on an UPDATE from old to new.
\* expires_at is not frozen, so late may change under a decision.
freeze_approval_proposal(by, old, new) ==
  /\ old.kind = new.kind
  /\ old.target = new.target
  /\ old.role = new.role
  /\ old.proposer = new.proposer
  /\ old.decider # NoOne => new.decider = old.decider
  /\ old.status \in {"approved", "rejected"} => new.status = old.status
  /\ old.decider = NoOne /\ new.decider # NoOne /\ by # Operator
       => new.decider = by

\* UPDATE approvals: deciding, withdrawing, reopening, moving the expiry.  The
\* policy admin_decides refuses a row whose decided_by is somebody else.
DecideApproval(by, a) ==
  /\ MayWrite(by)
  /\ approvals[a] # NoRow
  /\ \E row \in Approval :
       /\ freeze_approval_proposal(by, approvals[a], row)
       /\ by # Operator => row.decider \in {NoOne, by}
       /\ ChecksHold(row)
       /\ enforce_approval_is_by_two_admins(row)
       /\ approvals' = [approvals EXCEPT ![a] = row]
       /\ RecordPanel(a, row)
  /\ UNCHANGED <<memberRoles, armed, removed, bound, imported>>

(***************************************************************************)
(* Statements on member_roles.                                             *)
(***************************************************************************)

\* The foreign key approval_authorises_this_exact_grant.
ApprovalNamesThisGrant(row) ==
  row.approval # NoRow =>
    /\ approvals[row.approval] # NoRow
    /\ approvals[row.approval].target = row.member
    /\ approvals[row.approval].role = row.role

\* The unique indexes member_roles_one_live and
\* member_roles_one_grant_per_approval.
NoConflict(row) ==
  \A g \in Rows(memberRoles) :
    /\ (memberRoles[g].member = row.member /\ memberRoles[g].role = row.role)
         => memberRoles[g].revoked
    /\ row.approval # NoRow => memberRoles[g].approval # row.approval

\* What the trigger role_grant_rules asks of a row's approval once the rule
\* binds.
ApprovalIsUsable(row) ==
  /\ row.approval # NoRow
  /\ approvals[row.approval].status = "approved"
  /\ approvals[row.approval].kind = "grant_role"
  /\ ~approvals[row.approval].late

\* Trigger role_grant_rules on an INSERT, and on an UPDATE that does not
\* newly revoke.
enforce_role_grant_rules(row) ==
  \/ row.role \notin GrantsRoles
  \/ ~two_approver_rule_can_bind
  \/ ApprovalIsUsable(row)

\* INSERT INTO member_roles.
GrantRole(by, g) ==
  /\ MayWrite(by)
  /\ memberRoles[g] = NoRow
  /\ \E row \in [member: Members, role: Roles,
                approval: ApprovalIds \cup {NoRow},
                expiry: Expiries, revoked: {FALSE}] :
       /\ ApprovalNamesThisGrant(row)
       /\ NoConflict(row)
       /\ enforce_role_grant_rules(row)
       /\ memberRoles' = [memberRoles EXCEPT ![g] = row]
  /\ bound' = IF two_approver_rule_can_bind THEN bound \cup {g} ELSE bound
  /\ UNCHANGED <<approvals, removed, panel, imported>>
  /\ arm_two_approver_rule

\* UPDATE member_roles SET revoked_at: not a grant, so no approval is asked.
RevokeRole(by, g) ==
  /\ MayWrite(by)
  /\ memberRoles[g] # NoRow
  /\ ~memberRoles[g].revoked
  /\ memberRoles' = [memberRoles EXCEPT ![g].revoked = TRUE]
  /\ UNCHANGED <<approvals, removed, panel, bound, imported>>
  /\ arm_two_approver_rule

\* Faulty: the grant rules run on INSERT only.
MoveExpiryUnchecked(by, g) ==
  /\ MayWrite(by)
  /\ memberRoles[g] # NoRow
  /\ ~memberRoles[g].revoked
  /\ \E e \in Expiries :
       memberRoles' = [memberRoles EXCEPT ![g].expiry = e]
  /\ UNCHANGED <<approvals, removed, panel, bound, imported>>
  /\ arm_two_approver_rule

\* UPDATE member_roles SET expires_at: every other column is frozen by
\* freeze_role_grant (005), and the grant rules are asked again.
MoveExpiry(by, g) ==
  /\ MayWrite(by)
  /\ memberRoles[g] # NoRow
  /\ ~memberRoles[g].revoked
  /\ enforce_role_grant_rules(memberRoles[g])
  /\ \E e \in Expiries :
       memberRoles' = [memberRoles EXCEPT ![g].expiry = e]
  /\ UNCHANGED <<approvals, removed, panel, bound, imported>>
  /\ arm_two_approver_rule

\* An UPDATE of member_roles that matches no row the caller may see: no row
\* trigger runs, and the statement trigger still does.
UpdateNothing ==
  /\ UNCHANGED <<approvals, memberRoles, removed, panel, bound, imported>>
  /\ arm_two_approver_rule

\* A member 020_migrate.sql has only now written, so that no row names them.
Unnamed(m) ==
  /\ m \notin removed
  /\ \A g \in Rows(memberRoles) : memberRoles[g].member # m
  /\ \A a \in ApprovalIds : approvals[a] # NoRow =>
        m \notin {approvals[a].target, approvals[a].proposer,
                  approvals[a].decider}

\* 022_roles.sql: the two INSERTs of one transaction write the rows of a set of
\* new members, with role_grant_rules turned off and arm_the_rule left on.
\* members.legacy_id is unique, so it runs once.
ImportRoles(ids) ==
  /\ imported = {}
  /\ ids # {}
  /\ \A g \in ids : memberRoles[g] = NoRow
  /\ \E rows \in [ids -> [member: {m \in Members : Unnamed(m)}, role: Roles,
                          approval: {NoRow}, expiry: {"none"},
                          revoked: {FALSE}]] :
       /\ \A g, h \in ids : rows[g] = rows[h] => g = h
       /\ memberRoles' = [g \in GrantIds |->
                            IF g \in ids THEN rows[g] ELSE memberRoles[g]]
  /\ imported' = ids
  /\ UNCHANGED <<approvals, removed, panel, bound>>
  /\ arm_two_approver_rule

(***************************************************************************)
(* Members and the clock.  No trigger on members arms the rule.            *)
(***************************************************************************)

\* UPDATE members SET deleted_at: an admin or an operator, never the member
\* themselves unless they are one (004, enforce_profile_self_edit).
RemoveMember(by, m) ==
  /\ MayWrite(by)
  /\ m \notin removed
  /\ removed' = removed \cup {m}
  /\ UNCHANGED <<approvals, memberRoles, armed, panel, bound, imported>>

RestoreMember(by, m) ==
  /\ MayWrite(by)
  /\ m \in removed
  /\ removed' = removed \ {m}
  /\ UNCHANGED <<approvals, memberRoles, armed, panel, bound, imported>>

\* now() passes a grant's expires_at.
ExpiryPasses(g) ==
  /\ memberRoles[g] # NoRow
  /\ memberRoles[g].expiry = "ahead"
  /\ memberRoles' = [memberRoles EXCEPT ![g].expiry = "passed"]
  /\ UNCHANGED <<approvals, armed, removed, panel, bound, imported>>

-----------------------------------------------------------------------------
Callers == Members \cup {Operator}

ApprovalStep ==
  \E by \in Callers, a \in ApprovalIds :
    ProposeApproval(by, a) \/ DecideApproval(by, a)

GrantStep ==
  \E by \in Callers, g \in GrantIds :
    GrantRole(by, g) \/ RevokeRole(by, g) \/ MoveExpiry(by, g)

ImportStep ==
  \E ids \in SUBSET GrantIds :
    Cardinality(ids) <= MaxImport /\ ImportRoles(ids)

MemberStep ==
  \E by \in Callers, m \in Members : RemoveMember(by, m) \/ RestoreMember(by, m)

Next ==
  \/ ApprovalStep
  \/ GrantStep
  \/ UpdateNothing
  \/ ImportStep
  \/ MemberStep
  \/ \E g \in GrantIds : ExpiryPasses(g)

Spec == Init /\ [][Next]_vars

-----------------------------------------------------------------------------
(***************************************************************************)
(* Properties.                                                             *)
(***************************************************************************)

\* Every column holds a value of its type.
TypeOK ==
  /\ approvals \in [ApprovalIds -> Approval \cup {NoRow}]
  /\ memberRoles \in [GrantIds -> Grant \cup {NoRow}]
  /\ armed \in BOOLEAN
  /\ removed \in SUBSET Members
  /\ panel \in [ApprovalIds -> (SUBSET Members) \cup {NoRow}]
  /\ bound \in SUBSET GrantIds
  /\ imported \in SUBSET GrantIds

\* Over the whole history no more than Quota grants of an admin role are made
\* with no approval behind them, however members are revoked, removed and
\* restored in between; the rows the legacy import carried are counted apart
\* (013, bootstrap_admin_grants_used and enforce_role_grant_rules).
QuotaHolds == Cardinality(UnapprovedGrants(memberRoles) \ imported) <= Quota

\* Once the seats are used the latch is set, so nothing that happens to the
\* rows afterwards can open the escape again (013, arm_two_approver_rule).
SpentSeatsArmTheRule ==
  Cardinality(UnapprovedGrants(memberRoles)) >= Quota => armed

\* An admin role granted while the rule binds rests, from then on and for
\* ever, on an approved approval of exactly that grant in which two different
\* members are recorded (002's foreign key and CHECK, 010's freeze, 013's
\* trigger).
BoundGrantsStayJustified ==
  \A g \in bound : memberRoles[g].role \in GrantsRoles =>
    LET a == memberRoles[g].approval
    IN /\ a # NoRow
       /\ approvals[a] # NoRow
       /\ approvals[a].status = "approved"
       /\ approvals[a].kind = "grant_role"
       /\ approvals[a].target = memberRoles[g].member
       /\ approvals[a].role = memberRoles[g].role
       /\ approvals[a].decider \in Members \ {approvals[a].proposer}

\* The two members recorded on an approval that was approved under the binding
\* rule are, whatever is updated later, two who were admins at that moment
\* (003, enforce_approval_is_by_two_admins; 010, freeze_approval_proposal).
DecisionsKeepTheirPanel ==
  \A a \in ApprovalIds : panel[a] # NoRow =>
    /\ approvals[a].status = "approved"
    /\ approvals[a].proposer # approvals[a].decider
    /\ {approvals[a].proposer, approvals[a].decider} \subseteq panel[a]

\* Once the latch is set a member who was not an admin becomes one only by a
\* grant that an approved approval names, by being restored, or by the legacy
\* import: never by an update of a grant that has no approval (013, the rule
\* is asked again of every update that does not revoke).
AdminsArriveByTheRule ==
  [][\A m \in Members :
       armed /\ ~is_admin(m) /\ is_admin(m)' =>
         \/ m \in removed \ removed'
         \/ imported' # imported
         \/ \E g \in LiveAdminRows(memberRoles', removed') :
              /\ memberRoles'[g].member = m
              /\ ApprovalIsUsable(memberRoles'[g])]_vars

-----------------------------------------------------------------------------
(* The ledger these tables keep.                                           *)

\* Whoever has an admin grant, removed or not.
Holders == {memberRoles[g].member : g \in LiveAdminRows(memberRoles, {})}

Seats == Cardinality(UnapprovedGrants(memberRoles) \ imported)

\* Whom an approved approval would make an admin, and who is on it.
Decided ==
  {[target |-> approvals[a].target,
    by |-> {approvals[a].proposer, approvals[a].decider}] :
     a \in {x \in ApprovalIds :
              /\ approvals[x] # NoRow
              /\ approvals[x].status = "approved"
              /\ approvals[x].kind = "grant_role"
              /\ approvals[x].role \in GrantsRoles}}

Ledger == INSTANCE SeatLedger WITH holders <- Holders, gone <- removed,
                                   seats <- Seats, decided <- Decided,
                                   carried <- imported # {}

\* Whatever statements are sent, in any order and by anybody, the tables keep a
\* ledger of seats: each is given once, the latch is set when they are given
\* and stays, and from then on an admin is made by two (002, 003, 010, 013).
ImplementsLedger == Ledger!Spec

-----------------------------------------------------------------------------
\* What two_approver_armed's comment says of it (013:77-81): it records the
\* first moment the bootstrap ran out, by either count.
BootstrapRunningOutIsRecorded ==
  bootstrap_is_spent(memberRoles, removed) => armed

\* What 003:36-38 says of every approval: a grant the binding rule let through
\* rests on a decision two admins made.
BoundGrantsRestOnTwoAdmins ==
  \A g \in bound : memberRoles[g].role \in GrantsRoles =>
    panel[memberRoles[g].approval] # NoRow

=============================================================================
