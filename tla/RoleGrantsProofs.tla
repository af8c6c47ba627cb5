-------------------------- MODULE RoleGrantsProofs --------------------------
(***************************************************************************)
(* Proofs about RoleGrants, for any members, roles, quota, ids and import  *)
(* bound, and that it implements SeatLedger.                               *)
(***************************************************************************)
EXTENDS RoleGrants, FiniteSetTheorems, TLAPS

USE RolesAssumption, QuotaAssumption, ExpiriesAssumption, NullAssumption,
    IdsAssumption, NoRowAssumption

(***************************************************************************)
(* The strengthening that makes the safety properties inductive: every     *)
(* approval row satisfies the CHECKs, a bound grant has a row, and an      *)
(* imported row has no approval.                                           *)
(***************************************************************************)
RowsAreSound ==
  /\ \A a \in ApprovalIds : approvals[a] # NoRow => ChecksHold(approvals[a])
  /\ bound \subseteq Rows(memberRoles)
  /\ imported \subseteq Rows(memberRoles)

\* A panel is only ever kept of an approval that has a row.
PanelRowsExist == \A a \in ApprovalIds : panel[a] # NoRow => approvals[a] # NoRow

IInv ==
  /\ TypeOK
  /\ PanelRowsExist
  /\ RowsAreSound
  /\ QuotaHolds
  /\ SpentSeatsArmTheRule
  /\ BoundGrantsStayJustified
  /\ DecisionsKeepTheirPanel

-----------------------------------------------------------------------------
(* What the steps change.                                                  *)

\* A statement on approvals writes one row, which satisfies the CHECKs; an
\* existing row keeps what the freeze trigger protects.
LEMMA ApprovalStepEffect ==
  ASSUME TypeOK, ApprovalStep
  PROVE  \E a \in ApprovalIds, row \in Approval :
           /\ approvals' = [approvals EXCEPT ![a] = row]
           /\ ChecksHold(row)
           /\ enforce_approval_is_by_two_admins(row)
           /\ RecordPanel(a, row)
           /\ approvals[a] # NoRow =>
                \E by : freeze_approval_proposal(by, approvals[a], row)
           /\ UNCHANGED <<memberRoles, armed, removed, bound, imported>>
<1>1. PICK by \in Callers, a \in ApprovalIds :
         ProposeApproval(by, a) \/ DecideApproval(by, a)
  BY DEF ApprovalStep
<1>2. CASE ProposeApproval(by, a)
  BY <1>2 DEF ProposeApproval
<1>3. CASE DecideApproval(by, a)
  <2>1. PICK row \in Approval :
           /\ freeze_approval_proposal(by, approvals[a], row)
           /\ ChecksHold(row)
           /\ enforce_approval_is_by_two_admins(row)
           /\ approvals' = [approvals EXCEPT ![a] = row]
           /\ RecordPanel(a, row)
    BY <1>3 DEF DecideApproval
  <2>2. UNCHANGED <<memberRoles, armed, removed, bound, imported>>
    BY <1>3 DEF DecideApproval
  <2> QED BY <2>1, <2>2
<1> QED BY <1>1, <1>2, <1>3

\* The set of unapproved grants is finite, and so its size is a number.
LEMMA UnapprovedIsFinite ==
  ASSUME NEW grants
  PROVE  /\ IsFiniteSet(UnapprovedGrants(grants))
         /\ Cardinality(UnapprovedGrants(grants)) \in Nat
<1>1. UnapprovedGrants(grants) \in SUBSET GrantIds
  BY DEF UnapprovedGrants, Rows
<1> QED BY <1>1, FS_Subset, FS_CardinalityType

\* A step that leaves the unapproved grants and the imported ones alone and
\* keeps the latch keeps both counting invariants.
LEMMA CountsUnchanged ==
  ASSUME QuotaHolds, SpentSeatsArmTheRule,
         UnapprovedGrants(memberRoles') = UnapprovedGrants(memberRoles),
         imported' = imported, armed => armed'
  PROVE  QuotaHolds' /\ SpentSeatsArmTheRule'
BY DEF QuotaHolds, SpentSeatsArmTheRule

-----------------------------------------------------------------------------
(* Type correctness.                                                       *)

LEMMA InitTypeOK == Init => TypeOK
BY DEF Init, TypeOK

\* The trigger arm_the_rule leaves a latch that is a boolean.
LEMMA ArmType == ASSUME arm_two_approver_rule PROVE armed' \in BOOLEAN
BY DEF arm_two_approver_rule

\* Every statement preserves the types of the columns.
LEMMA NextTypeOK == TypeOK /\ [Next]_vars => TypeOK'
<1> SUFFICES ASSUME TypeOK, [Next]_vars PROVE TypeOK'
  OBVIOUS
<1> USE DEF TypeOK
<1>1. CASE ApprovalStep
  <2>1. PICK a \in ApprovalIds, row \in Approval :
           /\ approvals' = [approvals EXCEPT ![a] = row]
           /\ RecordPanel(a, row)
           /\ UNCHANGED <<memberRoles, armed, removed, bound, imported>>
    BY <1>1, ApprovalStepEffect
  <2>2. Admins \in SUBSET Members
    BY DEF Admins
  <2>3. panel' \in [ApprovalIds -> (SUBSET Members) \cup {NoRow}]
    BY <2>1, <2>2 DEF RecordPanel
  <2> QED BY <2>1, <2>3
<1>2. CASE GrantStep
  <2>1. PICK by \in Callers, g \in GrantIds :
           GrantRole(by, g) \/ RevokeRole(by, g) \/ MoveExpiry(by, g)
    BY <1>2 DEF GrantStep
  <2>2. CASE GrantRole(by, g)
    <3>1. PICK row \in [member: Members, role: Roles,
                        approval: ApprovalIds \cup {NoRow},
                        expiry: Expiries, revoked: {FALSE}] :
             memberRoles' = [memberRoles EXCEPT ![g] = row]
      BY <2>2 DEF GrantRole
    <3>2. row \in Grant
      BY DEF Grant
    <3> QED BY <2>2, <3>1, <3>2, ArmType DEF GrantRole
  <2>3. CASE RevokeRole(by, g)
    <3>1. [memberRoles[g] EXCEPT !.revoked = TRUE] \in Grant
      <4>1. memberRoles[g] \in Grant
        BY <2>3 DEF RevokeRole
      <4> QED BY <4>1 DEF Grant
    <3>2. memberRoles' \in [GrantIds -> Grant \cup {NoRow}]
      BY <2>3, <3>1 DEF RevokeRole
    <3> QED BY <2>3, <3>2, ArmType DEF RevokeRole
  <2>4. CASE MoveExpiry(by, g)
    <3>1. PICK e \in Expiries :
             memberRoles' = [memberRoles EXCEPT ![g].expiry = e]
      BY <2>4 DEF MoveExpiry
    <3>2. [memberRoles[g] EXCEPT !.expiry = e] \in Grant
      BY <2>4 DEF MoveExpiry, Grant
    <3> QED BY <2>4, <3>1, <3>2, ArmType DEF MoveExpiry
  <2> QED BY <2>1, <2>2, <2>3, <2>4
<1>3. CASE UpdateNothing
  BY <1>3, ArmType DEF UpdateNothing
<1>4. CASE ImportStep
  <2>1. PICK ids \in SUBSET GrantIds : ImportRoles(ids)
    BY <1>4 DEF ImportStep
  <2>2. PICK rows \in [ids -> [member: {m \in Members : Unnamed(m)},
                               role: Roles, approval: {NoRow},
                               expiry: {"none"}, revoked: {FALSE}]] :
           memberRoles' = [g \in GrantIds |->
                             IF g \in ids THEN rows[g] ELSE memberRoles[g]]
    BY <2>1 DEF ImportRoles
  <2>3. \A g \in ids : rows[g] \in Grant
    BY <2>2 DEF Grant
  <2> QED BY <2>1, <2>2, <2>3, ArmType DEF ImportRoles
<1>5. CASE MemberStep
  BY <1>5 DEF MemberStep, RemoveMember, RestoreMember
<1>6. ASSUME NEW g \in GrantIds, ExpiryPasses(g) PROVE TypeOK'
  <2>1. [memberRoles[g] EXCEPT !.expiry = "passed"] \in Grant
    BY <1>6 DEF ExpiryPasses, Grant
  <2> QED BY <1>6, <2>1 DEF ExpiryPasses
<1>7. CASE UNCHANGED vars
  BY <1>7 DEF vars
<1> QED BY <1>1, <1>2, <1>3, <1>4, <1>5, <1>6, <1>7 DEF Next

\* Every column of every row always holds a value of its type.
THEOREM TypeCorrect == Spec => []TypeOK
<1> QED BY InitTypeOK, NextTypeOK, PTL DEF Spec

-----------------------------------------------------------------------------
(* The safety invariant.                                                   *)

LEMMA InitIInv == Init => IInv
<1> SUFFICES ASSUME Init PROVE IInv
  OBVIOUS
<1>1. TypeOK
  BY InitTypeOK
<1>2. UnapprovedGrants(memberRoles) = {}
  BY DEF Init, UnapprovedGrants, Rows
<1>3. Cardinality(UnapprovedGrants(memberRoles)) = 0
      /\ UnapprovedGrants(memberRoles) \ imported = {}
  BY <1>2, FS_EmptySet
<1>4. QuotaHolds /\ SpentSeatsArmTheRule
  BY <1>2, <1>3 DEF QuotaHolds, SpentSeatsArmTheRule
<1>5. RowsAreSound /\ PanelRowsExist
  BY DEF Init, RowsAreSound, PanelRowsExist
<1>6. BoundGrantsStayJustified /\ DecisionsKeepTheirPanel
  BY DEF Init, BoundGrantsStayJustified, DecisionsKeepTheirPanel
<1> QED BY <1>1, <1>4, <1>5, <1>6 DEF IInv

\* A statement on approvals: the freeze trigger keeps what bound grants and
\* earlier decisions rest on.
LEMMA ApprovalStepIInv ==
  ASSUME IInv, ApprovalStep, TypeOK' PROVE IInv'
<1>1. PICK a \in ApprovalIds, row \in Approval :
         /\ approvals' = [approvals EXCEPT ![a] = row]
         /\ ChecksHold(row)
         /\ enforce_approval_is_by_two_admins(row)
         /\ RecordPanel(a, row)
         /\ approvals[a] # NoRow =>
              \E by : freeze_approval_proposal(by, approvals[a], row)
         /\ UNCHANGED <<memberRoles, armed, removed, bound, imported>>
  BY ApprovalStepEffect DEF IInv
<1>2. QuotaHolds' /\ SpentSeatsArmTheRule'
  BY <1>1 DEF IInv, QuotaHolds, SpentSeatsArmTheRule
<1>3. RowsAreSound'
  BY <1>1 DEF IInv, RowsAreSound, TypeOK, ChecksHold, Rows
<1>4. approvals[a] # NoRow =>
        /\ row.kind = approvals[a].kind
        /\ row.target = approvals[a].target
        /\ row.role = approvals[a].role
        /\ row.proposer = approvals[a].proposer
        /\ approvals[a].decider # NoOne => row.decider = approvals[a].decider
        /\ approvals[a].status = "approved" => row.status = "approved"
  BY <1>1 DEF freeze_approval_proposal
<1>5. BoundGrantsStayJustified'
  <2> SUFFICES ASSUME NEW g \in bound, memberRoles[g].role \in GrantsRoles
               PROVE  LET b == memberRoles[g].approval
                      IN /\ b # NoRow
                         /\ approvals'[b] # NoRow
                         /\ approvals'[b].status = "approved"
                         /\ approvals'[b].kind = "grant_role"
                         /\ approvals'[b].target = memberRoles[g].member
                         /\ approvals'[b].role = memberRoles[g].role
                         /\ approvals'[b].decider
                              \in Members \ {approvals'[b].proposer}
    BY <1>1 DEF BoundGrantsStayJustified
  <2> DEFINE b == memberRoles[g].approval
  <2>1. /\ b # NoRow
        /\ approvals[b] # NoRow
        /\ approvals[b].status = "approved"
        /\ approvals[b].kind = "grant_role"
        /\ approvals[b].target = memberRoles[g].member
        /\ approvals[b].role = memberRoles[g].role
        /\ approvals[b].decider \in Members \ {approvals[b].proposer}
    BY DEF IInv, BoundGrantsStayJustified
  <2>2. CASE b = a
    <3>1. approvals'[b] = row
      BY <1>1, <2>2 DEF IInv, TypeOK
    <3>2. row # NoRow
      OBVIOUS
    <3> QED BY <1>4, <2>1, <2>2, <3>1, <3>2
  <2>3. CASE b # a
    <3>1. approvals'[b] = approvals[b]
      BY <1>1, <2>3
    <3> QED BY <2>1, <3>1
  <2> QED BY <2>2, <2>3
<1>6. DecisionsKeepTheirPanel'
  <2> SUFFICES ASSUME NEW b \in ApprovalIds, panel'[b] # NoRow
               PROVE  /\ approvals'[b].status = "approved"
                      /\ approvals'[b].proposer # approvals'[b].decider
                      /\ {approvals'[b].proposer, approvals'[b].decider}
                           \subseteq panel'[b]
    BY DEF DecisionsKeepTheirPanel
  <2>1. CASE panel'[b] = panel[b]
    <3>1. /\ approvals[b].status = "approved"
          /\ approvals[b].proposer # approvals[b].decider
          /\ {approvals[b].proposer, approvals[b].decider} \subseteq panel[b]
      BY <2>1 DEF IInv, DecisionsKeepTheirPanel
    <3>2. CASE b # a
      BY <1>1, <2>1, <3>1, <3>2
    <3>3. CASE b = a
      <4>1. approvals'[b] = row
        BY <1>1, <3>3 DEF IInv, TypeOK
      <4>3. approvals[b] # NoRow
        BY <2>1 DEF IInv, PanelRowsExist
      <4>4. approvals[b].decider # NoOne
        BY <3>1, <4>3 DEF IInv, RowsAreSound, ChecksHold
      <4> QED BY <1>4, <2>1, <3>1, <3>3, <4>1, <4>3, <4>4
    <3> QED BY <3>2, <3>3
  <2>2. CASE panel'[b] # panel[b]
    <3>1. /\ b = a
          /\ row.status = "approved"
          /\ two_approver_rule_can_bind
          /\ panel'[b] = Admins
      BY <1>1, <2>2 DEF RecordPanel, IInv, TypeOK
    <3>2. approvals'[b] = row
      BY <1>1, <3>1 DEF IInv, TypeOK
    <3>3. is_admin(row.proposer) /\ is_admin(row.decider)
      BY <1>1, <3>1 DEF enforce_approval_is_by_two_admins
    <3>4. row.proposer \in Members /\ row.decider \in Members
      BY <1>1, <3>1 DEF Approval, ChecksHold
    <3> QED BY <1>1, <3>1, <3>2, <3>3, <3>4 DEF Admins, ChecksHold
  <2> QED BY <2>1, <2>2
<1>7. PanelRowsExist'
  <2> SUFFICES ASSUME NEW b \in ApprovalIds, panel'[b] # NoRow
               PROVE  approvals'[b] # NoRow
    BY DEF PanelRowsExist
  <2>1. CASE b = a
    BY <1>1, <2>1 DEF IInv, TypeOK
  <2>2. CASE b # a
    <3>1. panel'[b] = panel[b] /\ approvals'[b] = approvals[b]
      BY <1>1, <2>2 DEF RecordPanel, IInv, TypeOK
    <3> QED BY <3>1 DEF IInv, PanelRowsExist
  <2> QED BY <2>1, <2>2
<1> QED BY <1>2, <1>3, <1>5, <1>6, <1>7 DEF IInv

\* Whatever sets the latch, it is never cleared.
LEMMA ArmIsMonotone ==
  ASSUME arm_two_approver_rule PROVE armed => armed'
BY DEF arm_two_approver_rule

\* An update of one grant that keeps who was granted what under which
\* approval, which is all that freeze_role_grant lets an update do.
LEMMA RowUpdateIInv ==
  ASSUME IInv, TypeOK',
         NEW g \in GrantIds, memberRoles[g] # NoRow,
         NEW row \in Grant,
         row.member = memberRoles[g].member,
         row.role = memberRoles[g].role,
         row.approval = memberRoles[g].approval,
         memberRoles' = [memberRoles EXCEPT ![g] = row],
         UNCHANGED <<approvals, panel, bound, imported>>,
         armed => armed'
  PROVE  IInv'
<1>1. \A h \in GrantIds :
        /\ memberRoles'[h] = NoRow <=> memberRoles[h] = NoRow
        /\ memberRoles'[h].member = memberRoles[h].member
        /\ memberRoles'[h].role = memberRoles[h].role
        /\ memberRoles'[h].approval = memberRoles[h].approval
  BY DEF IInv, TypeOK
<1>2. Rows(memberRoles') = Rows(memberRoles)
  BY <1>1 DEF Rows
<1>3. UnapprovedGrants(memberRoles') = UnapprovedGrants(memberRoles)
  BY <1>1, <1>2 DEF UnapprovedGrants, Rows
<1>4. QuotaHolds' /\ SpentSeatsArmTheRule'
  BY <1>3, CountsUnchanged DEF IInv
<1>5. RowsAreSound' /\ PanelRowsExist' /\ DecisionsKeepTheirPanel'
  BY <1>2 DEF IInv, RowsAreSound, PanelRowsExist, DecisionsKeepTheirPanel
<1>6. BoundGrantsStayJustified'
  BY <1>1 DEF IInv, BoundGrantsStayJustified, TypeOK
<1> QED BY <1>4, <1>5, <1>6 DEF IInv

\* A step that leaves the rows of both tables alone.
LEMMA NoRowsIInv ==
  ASSUME IInv, TypeOK',
         UNCHANGED <<approvals, memberRoles, panel, bound, imported>>,
         armed => armed'
  PROVE  IInv'
<1>1. QuotaHolds' /\ SpentSeatsArmTheRule'
  BY CountsUnchanged DEF IInv
<1>2. RowsAreSound' /\ PanelRowsExist' /\ DecisionsKeepTheirPanel'
  BY DEF IInv, RowsAreSound, PanelRowsExist, DecisionsKeepTheirPanel
<1>3. BoundGrantsStayJustified'
  BY DEF IInv, BoundGrantsStayJustified
<1> QED BY <1>1, <1>2, <1>3 DEF IInv

\* A new grant: within the quota when it has no approval, justified when the
\* rule binds.
LEMMA GrantRoleIInv ==
  ASSUME IInv, TypeOK',
         NEW by \in Callers, NEW g \in GrantIds, GrantRole(by, g)
  PROVE  IInv'
<1>1. PICK row \in [member: Members, role: Roles,
                    approval: ApprovalIds \cup {NoRow},
                    expiry: Expiries, revoked: {FALSE}] :
         /\ ApprovalNamesThisGrant(row)
         /\ enforce_role_grant_rules(row)
         /\ memberRoles' = [memberRoles EXCEPT ![g] = row]
  BY DEF GrantRole
<1>2. /\ memberRoles[g] = NoRow
      /\ UNCHANGED <<approvals, removed, panel, imported>>
      /\ arm_two_approver_rule
      /\ bound' = IF two_approver_rule_can_bind
                  THEN bound \cup {g} ELSE bound
  BY DEF GrantRole
<1>3. row \in Grant /\ row # NoRow
  BY DEF Grant
<1>4. /\ memberRoles'[g] = row
      /\ \A h \in GrantIds : h # g => memberRoles'[h] = memberRoles[h]
  BY <1>1 DEF IInv, TypeOK
<1>5. Rows(memberRoles') = Rows(memberRoles) \cup {g} /\ g \notin bound
  BY <1>2, <1>3, <1>4 DEF Rows, IInv, RowsAreSound
<1>6. RowsAreSound' /\ PanelRowsExist' /\ DecisionsKeepTheirPanel'
  BY <1>2, <1>5 DEF IInv, RowsAreSound, PanelRowsExist,
                    DecisionsKeepTheirPanel
<1>7. BoundGrantsStayJustified'
  <2> SUFFICES ASSUME NEW h \in bound', memberRoles'[h].role \in GrantsRoles
               PROVE  LET b == memberRoles'[h].approval
                      IN /\ b # NoRow
                         /\ approvals[b] # NoRow
                         /\ approvals[b].status = "approved"
                         /\ approvals[b].kind = "grant_role"
                         /\ approvals[b].target = memberRoles'[h].member
                         /\ approvals[b].role = memberRoles'[h].role
                         /\ approvals[b].decider
                              \in Members \ {approvals[b].proposer}
    BY <1>2 DEF BoundGrantsStayJustified
  <2>1. CASE h = g
    <3>1. two_approver_rule_can_bind
      BY <1>2, <1>5, <2>1
    <3>2. ApprovalIsUsable(row)
      BY <1>1, <1>4, <2>1, <3>1 DEF enforce_role_grant_rules
    <3>3. /\ row.approval \in ApprovalIds
          /\ approvals[row.approval] # NoRow
          /\ approvals[row.approval].target = row.member
          /\ approvals[row.approval].role = row.role
      BY <1>1, <3>2 DEF ApprovalIsUsable, ApprovalNamesThisGrant
    <3>4. approvals[row.approval] \in Approval
          /\ ChecksHold(approvals[row.approval])
      BY <3>3 DEF IInv, TypeOK, RowsAreSound
    <3>5. approvals[row.approval].decider
            \in Members \ {approvals[row.approval].proposer}
      BY <3>2, <3>4 DEF ApprovalIsUsable, ChecksHold, Approval
    <3> QED BY <1>4, <2>1, <3>2, <3>3, <3>5 DEF ApprovalIsUsable
  <2>2. CASE h # g
    <3>1. h \in bound /\ h \in GrantIds
      BY <1>2, <2>2 DEF IInv, TypeOK
    <3> QED BY <1>4, <2>2, <3>1 DEF IInv, BoundGrantsStayJustified
  <2> QED BY <2>1, <2>2
<1>8. QuotaHolds' /\ SpentSeatsArmTheRule'
  <2> DEFINE U == UnapprovedGrants(memberRoles)
  <2>1. CASE row.role \in GrantsRoles /\ row.approval = NoRow
    <3>1. UnapprovedGrants(memberRoles') = U \cup {g} /\ g \notin U
      BY <1>2, <1>3, <1>4, <2>1 DEF UnapprovedGrants, Rows
    <3>2. ~two_approver_rule_can_bind
      BY <1>1, <2>1 DEF enforce_role_grant_rules, ApprovalIsUsable
    <3>3. IsFiniteSet(U) /\ Cardinality(U) \in Nat
      BY UnapprovedIsFinite
    <3>4. Cardinality(U) < Quota
      BY <3>2, <3>3 DEF two_approver_rule_can_bind, bootstrap_is_spent,
                   bootstrap_admin_grants_used
    <3>5. IsFiniteSet(U \cup {g})
          /\ Cardinality(U \cup {g}) = Cardinality(U) + 1
      BY <3>1, <3>3, FS_AddElement
    <3>6. (U \cup {g}) \ imported \in SUBSET (U \cup {g})
      OBVIOUS
    <3>7. Cardinality((U \cup {g}) \ imported) \in Nat
          /\ Cardinality((U \cup {g}) \ imported) <= Cardinality(U \cup {g})
      BY <3>5, <3>6, FS_Subset, FS_CardinalityType
    <3>8. QuotaHolds'
      BY <1>2, <3>1, <3>3, <3>4, <3>5, <3>7 DEF QuotaHolds
    <3>9. SpentSeatsArmTheRule'
      BY <1>2 DEF SpentSeatsArmTheRule, arm_two_approver_rule,
                  bootstrap_is_spent, bootstrap_admin_grants_used
    <3> QED BY <3>8, <3>9
  <2>2. CASE ~(row.role \in GrantsRoles /\ row.approval = NoRow)
    <3>1. UnapprovedGrants(memberRoles') = U
      BY <1>2, <1>3, <1>4, <2>2 DEF UnapprovedGrants, Rows
    <3> QED BY <1>2, <3>1, ArmIsMonotone, CountsUnchanged DEF IInv
  <2> QED BY <2>1, <2>2
<1> QED BY <1>6, <1>7, <1>8 DEF IInv

\* The legacy import: its rows are the ones QuotaHolds counts apart, and the
\* arming trigger counts them with the rest.
LEMMA ImportIInv ==
  ASSUME IInv, TypeOK', NEW ids \in SUBSET GrantIds, ImportRoles(ids)
  PROVE  IInv'
<1>1. PICK rows \in [ids -> [member: {m \in Members : Unnamed(m)},
                             role: Roles, approval: {NoRow},
                             expiry: {"none"}, revoked: {FALSE}]] :
         memberRoles' = [g \in GrantIds |->
                           IF g \in ids THEN rows[g] ELSE memberRoles[g]]
  BY DEF ImportRoles
<1>2. /\ imported = {} /\ imported' = ids
      /\ \A g \in ids : memberRoles[g] = NoRow
      /\ UNCHANGED <<approvals, removed, panel, bound>>
      /\ arm_two_approver_rule
  BY DEF ImportRoles
<1>3. \A g \in ids : rows[g] \in Grant /\ rows[g] # NoRow
  <2> SUFFICES ASSUME NEW g \in ids PROVE rows[g] \in Grant
    BY NoRowAssumption
  <2>1. rows[g] \in [member: {m \in Members : Unnamed(m)}, role: Roles,
                     approval: {NoRow}, expiry: {"none"}, revoked: {FALSE}]
    OBVIOUS
  <2> QED BY <2>1 DEF Grant
<1>4. Rows(memberRoles') = Rows(memberRoles) \cup ids
      /\ \A g \in Rows(memberRoles) : memberRoles'[g] = memberRoles[g]
  BY <1>1, <1>2, <1>3 DEF Rows
<1>5. RowsAreSound' /\ PanelRowsExist' /\ DecisionsKeepTheirPanel'
  BY <1>2, <1>4 DEF IInv, RowsAreSound, PanelRowsExist,
                    DecisionsKeepTheirPanel
<1>6. BoundGrantsStayJustified'
  BY <1>2, <1>4 DEF IInv, BoundGrantsStayJustified, RowsAreSound
<1>7. QuotaHolds'
  <2>1. UnapprovedGrants(memberRoles') \ ids
          = UnapprovedGrants(memberRoles) \ imported
    BY <1>2, <1>4 DEF UnapprovedGrants, Rows
  <2> QED BY <1>2, <2>1 DEF IInv, QuotaHolds
<1>8. SpentSeatsArmTheRule'
  BY <1>2 DEF SpentSeatsArmTheRule, arm_two_approver_rule,
              bootstrap_is_spent, bootstrap_admin_grants_used
<1> QED BY <1>5, <1>6, <1>7, <1>8 DEF IInv

\* Every step preserves the strengthened invariant.
LEMMA NextIInv == IInv /\ [Next]_vars => IInv'
<1> SUFFICES ASSUME IInv, [Next]_vars PROVE IInv'
  OBVIOUS
<1>0. TypeOK /\ TypeOK'
  BY NextTypeOK DEF IInv
<1>1. CASE ApprovalStep
  BY <1>0, <1>1, ApprovalStepIInv
<1>2. CASE GrantStep
  <2>1. PICK by \in Callers, g \in GrantIds :
           GrantRole(by, g) \/ RevokeRole(by, g) \/ MoveExpiry(by, g)
    BY <1>2 DEF GrantStep
  <2>2. CASE GrantRole(by, g)
    BY <1>0, <2>2, GrantRoleIInv
  <2>3. CASE RevokeRole(by, g)
    <3> DEFINE row == [memberRoles[g] EXCEPT !.revoked = TRUE]
    <3>1. memberRoles[g] \in Grant /\ memberRoles[g] # NoRow
      BY <1>0, <2>3 DEF RevokeRole, TypeOK
    <3>2. /\ row \in Grant
          /\ row.member = memberRoles[g].member
          /\ row.role = memberRoles[g].role
          /\ row.approval = memberRoles[g].approval
      BY <3>1 DEF Grant
    <3>3. memberRoles' = [memberRoles EXCEPT ![g] = row]
      BY <1>0, <2>3 DEF RevokeRole, TypeOK
    <3>4. UNCHANGED <<approvals, panel, bound, imported>>
      BY <2>3 DEF RevokeRole
    <3>5. armed => armed'
      BY <2>3, ArmIsMonotone DEF RevokeRole
    <3> HIDE DEF row
    <3> QED BY <1>0, <3>1, <3>2, <3>3, <3>4, <3>5, RowUpdateIInv
  <2>4. CASE MoveExpiry(by, g)
    <3>0. PICK e \in Expiries :
             memberRoles' = [memberRoles EXCEPT ![g].expiry = e]
      BY <2>4 DEF MoveExpiry
    <3> DEFINE row == [memberRoles[g] EXCEPT !.expiry = e]
    <3>1. memberRoles[g] \in Grant /\ memberRoles[g] # NoRow
      BY <1>0, <2>4 DEF MoveExpiry, TypeOK
    <3>2. /\ row \in Grant
          /\ row.member = memberRoles[g].member
          /\ row.role = memberRoles[g].role
          /\ row.approval = memberRoles[g].approval
      BY <3>1 DEF Grant
    <3>3. memberRoles' = [memberRoles EXCEPT ![g] = row]
      BY <1>0, <3>0 DEF TypeOK
    <3>4. UNCHANGED <<approvals, panel, bound, imported>>
      BY <2>4 DEF MoveExpiry
    <3>5. armed => armed'
      BY <2>4, ArmIsMonotone DEF MoveExpiry
    <3> HIDE DEF row
    <3> QED BY <1>0, <3>1, <3>2, <3>3, <3>4, <3>5, RowUpdateIInv
  <2> QED BY <2>1, <2>2, <2>3, <2>4
<1>3. CASE UpdateNothing
  <2>1. UNCHANGED <<approvals, memberRoles, panel, bound, imported>>
        /\ (armed => armed')
    BY <1>3, ArmIsMonotone DEF UpdateNothing
  <2> QED BY <1>0, <2>1, NoRowsIInv
<1>4. CASE ImportStep
  BY <1>0, <1>4, ImportIInv DEF ImportStep
<1>5. CASE MemberStep
  <2>1. UNCHANGED <<approvals, memberRoles, panel, bound, imported, armed>>
    BY <1>5 DEF MemberStep, RemoveMember, RestoreMember
  <2> QED BY <1>0, <2>1, NoRowsIInv
<1>6. ASSUME NEW g \in GrantIds, ExpiryPasses(g) PROVE IInv'
  <2> DEFINE row == [memberRoles[g] EXCEPT !.expiry = "passed"]
  <2>1. memberRoles[g] \in Grant /\ memberRoles[g] # NoRow
    BY <1>0, <1>6 DEF ExpiryPasses, TypeOK
  <2>2. /\ row \in Grant
        /\ row.member = memberRoles[g].member
        /\ row.role = memberRoles[g].role
        /\ row.approval = memberRoles[g].approval
    BY <2>1 DEF Grant
  <2>3. memberRoles' = [memberRoles EXCEPT ![g] = row]
    BY <1>0, <1>6 DEF ExpiryPasses, TypeOK
  <2>4. UNCHANGED <<approvals, panel, bound, imported, armed>>
    BY <1>6 DEF ExpiryPasses
  <2> HIDE DEF row
  <2> QED BY <1>0, <2>1, <2>2, <2>3, <2>4, RowUpdateIInv
<1>7. CASE UNCHANGED vars
  <2>1. UNCHANGED <<approvals, memberRoles, panel, bound, imported, armed>>
    BY <1>7 DEF vars
  <2> QED BY <1>0, <2>1, NoRowsIInv
<1> QED BY <1>1, <1>2, <1>3, <1>4, <1>5, <1>6, <1>7 DEF Next

LEMMA Invariance == Spec => []IInv
BY InitIInv, NextIInv, PTL DEF Spec

\* No history of grants, revocations, removals, restorations and updates makes
\* more than Quota admin grants that have no approval and were not imported.
THEOREM QuotaIsNeverExceeded == Spec => []QuotaHolds
<1>1. IInv => QuotaHolds
  BY DEF IInv
<1> QED BY <1>1, Invariance, PTL

\* When the seats are used the latch is set.
THEOREM SpentSeatsAreArmed == Spec => []SpentSeatsArmTheRule
<1>1. IInv => SpentSeatsArmTheRule
  BY DEF IInv
<1> QED BY <1>1, Invariance, PTL

\* A grant made under the binding rule keeps an approved approval of exactly
\* that grant, with two different members on it.
THEOREM BoundGrantsAreJustified == Spec => []BoundGrantsStayJustified
<1>1. IInv => BoundGrantsStayJustified
  BY DEF IInv
<1> QED BY <1>1, Invariance, PTL

\* An approval approved under the binding rule keeps naming two different
\* members who were both admins at that moment.
THEOREM DecisionsAreByTwoAdmins == Spec => []DecisionsKeepTheirPanel
<1>1. IInv => DecisionsKeepTheirPanel
  BY DEF IInv
<1> QED BY <1>1, Invariance, PTL

-----------------------------------------------------------------------------
(* How a member becomes an admin once the latch is set.                    *)

\* If the rows that count after a step counted before it with the same member,
\* nobody becomes an admin in that step.
LEMMA NoNewLiveRows ==
  ASSUME NEW m, is_admin(m)',
         \A g \in LiveAdminRows(memberRoles', removed') :
            memberRoles'[g].member = m =>
              /\ g \in LiveAdminRows(memberRoles, removed)
              /\ memberRoles[g].member = m
  PROVE  is_admin(m)
BY DEF is_admin

\* Once the latch is set, a member who was not an admin becomes one only by an
\* approved grant, by being restored, or by the legacy import.
THEOREM AdminsArriveOnlyByTheRule == Spec => AdminsArriveByTheRule
<1> DEFINE Arrives(m) == armed /\ ~is_admin(m) /\ is_admin(m)'
           ByTheRule(m) ==
             \/ m \in removed \ removed'
             \/ imported' # imported
             \/ \E g \in LiveAdminRows(memberRoles', removed') :
                  /\ memberRoles'[g].member = m
                  /\ ApprovalIsUsable(memberRoles'[g])
<1>1. TypeOK /\ [Next]_vars => [\A m \in Members : Arrives(m) => ByTheRule(m)]_vars
  <2> SUFFICES ASSUME TypeOK, Next, NEW m \in Members, Arrives(m)
               PROVE  ByTheRule(m)
    OBVIOUS
  <2>0. PICK h \in LiveAdminRows(memberRoles', removed') :
           /\ memberRoles'[h].member = m
           /\ ~(h \in LiveAdminRows(memberRoles, removed)
                  /\ memberRoles[h].member = m)
    BY NoNewLiveRows
  <2> USE DEF LiveAdminRows, Rows, TypeOK
  <2>1. CASE ApprovalStep
    BY <2>0, <2>1, ApprovalStepEffect
  <2>2. CASE GrantStep
    <3>1. PICK by \in Callers, g \in GrantIds :
             GrantRole(by, g) \/ RevokeRole(by, g) \/ MoveExpiry(by, g)
      BY <2>2 DEF GrantStep
    <3>2. CASE GrantRole(by, g)
      <4>1. PICK row \in [member: Members, role: Roles,
                          approval: ApprovalIds \cup {NoRow},
                          expiry: Expiries, revoked: {FALSE}] :
               /\ enforce_role_grant_rules(row)
               /\ memberRoles' = [memberRoles EXCEPT ![g] = row]
        BY <3>2 DEF GrantRole
      <4>2. removed' = removed
        BY <3>2 DEF GrantRole
      <4>3. h = g
        BY <2>0, <4>1, <4>2
      <4>4. ApprovalIsUsable(row)
        BY <2>0, <4>1, <4>3 DEF enforce_role_grant_rules,
                                two_approver_rule_can_bind
      <4> QED BY <2>0, <4>1, <4>3, <4>4
    <3>3. CASE RevokeRole(by, g)
      <4>1. memberRoles[g] \in Grant
        BY <3>3 DEF RevokeRole
      <4> QED BY <2>0, <3>3, <4>1 DEF RevokeRole, Grant
    <3>4. CASE MoveExpiry(by, g)
      <4>1. PICK e \in Expiries :
               memberRoles' = [memberRoles EXCEPT ![g].expiry = e]
        BY <3>4 DEF MoveExpiry
      <4>2. /\ removed' = removed
            /\ memberRoles[g] \in Grant
            /\ enforce_role_grant_rules(memberRoles[g])
        BY <3>4 DEF MoveExpiry
      <4>3. h = g
        BY <2>0, <4>1, <4>2
      <4>4. /\ memberRoles'[g].role = memberRoles[g].role
            /\ memberRoles'[g].approval = memberRoles[g].approval
        BY <4>1, <4>2 DEF Grant
      <4>5. ApprovalIsUsable(memberRoles[g])
        BY <2>0, <4>2, <4>3, <4>4 DEF enforce_role_grant_rules,
                                      two_approver_rule_can_bind
      <4>6. ApprovalIsUsable(memberRoles'[g])
        BY <4>4, <4>5 DEF ApprovalIsUsable
      <4> QED BY <2>0, <4>3, <4>6
    <3> QED BY <3>1, <3>2, <3>3, <3>4
  <2>3. CASE UpdateNothing
    BY <2>0, <2>3 DEF UpdateNothing
  <2>4. CASE ImportStep
    BY <2>4 DEF ImportStep, ImportRoles
  <2>5. CASE MemberStep
    <3>1. PICK by \in Callers, n \in Members :
             RemoveMember(by, n) \/ RestoreMember(by, n)
      BY <2>5 DEF MemberStep
    <3>2. CASE RemoveMember(by, n)
      BY <2>0, <3>2 DEF RemoveMember
    <3>3. CASE RestoreMember(by, n)
      BY <2>0, <3>3 DEF RestoreMember
    <3> QED BY <3>1, <3>2, <3>3
  <2>6. ASSUME NEW g \in GrantIds, ExpiryPasses(g) PROVE FALSE
    <3>1. memberRoles[g] \in Grant
      BY <2>6 DEF ExpiryPasses
    <3> QED BY <2>0, <2>6, <3>1 DEF ExpiryPasses, Grant
  <2> QED BY <2>1, <2>2, <2>3, <2>4, <2>5, <2>6 DEF Next
<1> QED BY <1>1, TypeCorrect, PTL DEF Spec, AdminsArriveByTheRule

-----------------------------------------------------------------------------
(* The tables keep a ledger of seats.  An approval behind a grant is of     *)
(* exactly that grant, so that a decision the trigger accepts is one about  *)
(* the member.                                                              *)

NamesItsGrant ==
  \A g \in Rows(memberRoles) : memberRoles[g].approval # NoRow =>
    /\ approvals[memberRoles[g].approval] # NoRow
    /\ approvals[memberRoles[g].approval].target = memberRoles[g].member
    /\ approvals[memberRoles[g].approval].role = memberRoles[g].role

Counts(row) == row.role \in GrantsRoles /\ ~row.revoked /\ row.expiry # "passed"

Approves(row) ==
  row.status = "approved" /\ row.kind = "grant_role" /\ row.role \in GrantsRoles

Made(row) == [target |-> row.target, by |-> {row.proposer, row.decider}]

LEMMA DecidedAre ==
  /\ \A d : d \in Decided <=>
       \E a \in ApprovalIds : /\ approvals[a] # NoRow /\ Approves(approvals[a])
                              /\ d = Made(approvals[a])
  /\ \A d : d \in Decided' <=>
       \E a \in ApprovalIds : /\ approvals'[a] # NoRow /\ Approves(approvals'[a])
                              /\ d = Made(approvals'[a])
BY DEF Decided, Approves, Made

\* A live row makes its member a holder, and a row that is not makes nobody one.
LEMMA OneRowHolds ==
  ASSUME TypeOK, NEW g \in GrantIds, NEW row \in Grant,
         memberRoles[g] # NoRow => memberRoles[g].member = row.member,
         memberRoles' = [memberRoles EXCEPT ![g] = row]
  PROVE  /\ Counts(row) => Holders' = Holders \cup {row.member}
         /\ ~Counts(row) => Holders' \subseteq Holders
         /\ ~Counts(row) /\ memberRoles[g] = NoRow => Holders' = Holders
<1>1. /\ memberRoles'[g] = row /\ row # NoRow
      /\ \A h \in GrantIds \ {g} : memberRoles'[h] = memberRoles[h]
  BY NoRowAssumption DEF TypeOK
<1>2. \A m : m \in Holders <=>
        \E h \in GrantIds : /\ memberRoles[h] # NoRow /\ Counts(memberRoles[h])
                            /\ m = memberRoles[h].member
  BY DEF Holders, LiveAdminRows, Rows, Counts
<1>3. \A m : m \in Holders' <=>
        \E h \in GrantIds : /\ memberRoles'[h] # NoRow /\ Counts(memberRoles'[h])
                            /\ m = memberRoles'[h].member
  BY DEF Holders, LiveAdminRows, Rows, Counts
<1>4. \A m \in Holders' : m \in Holders \/ (Counts(row) /\ m = row.member)
  BY <1>1, <1>2, <1>3
<1>5. Counts(row) => row.member \in Holders' /\ Holders \subseteq Holders'
  BY <1>1, <1>2, <1>3
<1>6. memberRoles[g] = NoRow => Holders \subseteq Holders'
  BY <1>1, <1>2, <1>3
<1> QED BY <1>4, <1>5, <1>6

\* An admin is a holder whose record is there.
LEMMA AdminsHold == ASSUME NEW m, is_admin(m) PROVE m \in Holders \ removed
BY DEF is_admin, LiveAdminRows, Holders

\* A row that a statement adds names its approval, and the columns it names are
\* never written again.
LEMMA NextNames ==
  ASSUME TypeOK, NamesItsGrant, [Next]_vars PROVE NamesItsGrant'
<1>1. ASSUME UNCHANGED approvals,
             \A g \in Rows(memberRoles') :
               \/ /\ g \in Rows(memberRoles)
                  /\ memberRoles'[g].member = memberRoles[g].member
                  /\ memberRoles'[g].role = memberRoles[g].role
                  /\ memberRoles'[g].approval = memberRoles[g].approval
               \/ ApprovalNamesThisGrant(memberRoles'[g])
      PROVE  NamesItsGrant'
  BY <1>1 DEF NamesItsGrant, ApprovalNamesThisGrant
<1>2. ASSUME NEW g \in GrantIds, NEW row \in Grant, UNCHANGED approvals,
             memberRoles' = [memberRoles EXCEPT ![g] = row],
             \/ ApprovalNamesThisGrant(row)
             \/ /\ memberRoles[g] # NoRow
                /\ row.member = memberRoles[g].member
                /\ row.role = memberRoles[g].role
                /\ row.approval = memberRoles[g].approval
      PROVE  NamesItsGrant'
  BY <1>1, <1>2 DEF TypeOK, Rows
<1>3. CASE ApprovalStep
  <2>1. PICK a \in ApprovalIds, row \in Approval :
          /\ approvals' = [approvals EXCEPT ![a] = row]
          /\ approvals[a] # NoRow =>
               \E by : freeze_approval_proposal(by, approvals[a], row)
          /\ UNCHANGED memberRoles
    BY <1>3, ApprovalStepEffect
  <2>2. approvals[a] # NoRow =>
          row.target = approvals[a].target /\ row.role = approvals[a].role
    BY <2>1 DEF freeze_approval_proposal
  <2>3. \A b \in ApprovalIds : approvals[b] # NoRow =>
          /\ approvals'[b] # NoRow
          /\ approvals'[b].target = approvals[b].target
          /\ approvals'[b].role = approvals[b].role
    BY <2>1, <2>2, NoRowAssumption DEF TypeOK
  <2>4. \A g \in Rows(memberRoles) : memberRoles[g].approval \in ApprovalIds \cup {NoRow}
    BY DEF TypeOK, Rows, Grant
  <2> QED BY <2>1, <2>3, <2>4 DEF NamesItsGrant
<1>4. CASE GrantStep
  <2>1. PICK by \in Callers, g \in GrantIds :
           GrantRole(by, g) \/ RevokeRole(by, g) \/ MoveExpiry(by, g)
    BY <1>4 DEF GrantStep
  <2>2. CASE GrantRole(by, g)
    <3>1. PICK row \in [member: Members, role: Roles,
                        approval: ApprovalIds \cup {NoRow},
                        expiry: Expiries, revoked: {FALSE}] :
            /\ ApprovalNamesThisGrant(row)
            /\ memberRoles' = [memberRoles EXCEPT ![g] = row]
      BY <2>2 DEF GrantRole
    <3>2. row \in Grant
      BY DEF Grant
    <3>3. UNCHANGED approvals
      BY <2>2 DEF GrantRole
    <3> QED BY <1>2, <3>1, <3>2, <3>3
  <2>3. CASE RevokeRole(by, g) \/ MoveExpiry(by, g)
    <3>1. \E x \in Grant : x = memberRoles[g]
      BY <2>3 DEF TypeOK, RevokeRole, MoveExpiry
    <3>2. \A h \in Rows(memberRoles') :
             /\ h \in Rows(memberRoles)
             /\ memberRoles'[h].member = memberRoles[h].member
             /\ memberRoles'[h].role = memberRoles[h].role
             /\ memberRoles'[h].approval = memberRoles[h].approval
      <4>1. CASE RevokeRole(by, g)
        BY <3>1, <4>1 DEF RevokeRole, TypeOK, Rows, Grant
      <4>2. CASE MoveExpiry(by, g)
        <5>1. PICK e \in Expiries :
                memberRoles' = [memberRoles EXCEPT ![g].expiry = e]
          BY <4>2 DEF MoveExpiry
        <5>2. memberRoles[g] # NoRow
          BY <4>2 DEF MoveExpiry
        <5> QED BY <3>1, <5>1, <5>2 DEF TypeOK, Rows, Grant
      <4> QED BY <2>3, <4>1, <4>2
    <3>3. UNCHANGED approvals
      BY <2>3 DEF RevokeRole, MoveExpiry
    <3> QED BY <1>1, <3>2, <3>3
  <2> QED BY <2>1, <2>2, <2>3
<1>5. CASE UpdateNothing \/ MemberStep \/ UNCHANGED vars
  <2>1. UNCHANGED <<approvals, memberRoles>>
    BY <1>5 DEF UpdateNothing, MemberStep, RemoveMember, RestoreMember, vars
  <2> QED BY <1>1, <2>1
<1>6. CASE ImportStep
  <2>1. PICK ids \in SUBSET GrantIds : ImportRoles(ids)
    BY <1>6 DEF ImportStep
  <2>2. PICK rows \in [ids -> [member: {m \in Members : Unnamed(m)},
                               role: Roles, approval: {NoRow},
                               expiry: {"none"}, revoked: {FALSE}]] :
           memberRoles' = [g \in GrantIds |->
                             IF g \in ids THEN rows[g] ELSE memberRoles[g]]
    BY <2>1 DEF ImportRoles
  <2>3. \A g \in ids : rows[g].approval = NoRow
    BY <2>2
  <2>4. UNCHANGED approvals
    BY <2>1 DEF ImportRoles
  <2>5. \A g \in Rows(memberRoles') :
          \/ g \in Rows(memberRoles) /\ memberRoles'[g] = memberRoles[g]
          \/ ApprovalNamesThisGrant(memberRoles'[g])
    BY <2>2, <2>3 DEF Rows, ApprovalNamesThisGrant
  <2> QED BY <1>1, <2>4, <2>5
<1>7. ASSUME NEW g \in GrantIds, ExpiryPasses(g) PROVE NamesItsGrant'
  <2>1. memberRoles[g] \in Grant /\ memberRoles[g] # NoRow
    BY <1>7 DEF ExpiryPasses, TypeOK
  <2>2. \A h \in Rows(memberRoles') :
           /\ h \in Rows(memberRoles)
           /\ memberRoles'[h].member = memberRoles[h].member
           /\ memberRoles'[h].role = memberRoles[h].role
           /\ memberRoles'[h].approval = memberRoles[h].approval
    BY <1>7, <2>1 DEF ExpiryPasses, TypeOK, Rows, Grant
  <2>3. UNCHANGED approvals
    BY <1>7 DEF ExpiryPasses
  <2> QED BY <1>1, <2>2, <2>3
<1> QED BY <1>3, <1>4, <1>5, <1>6, <1>7 DEF Next

\* Seats are counted by what no update of a grant touches.
LEMMA SeatsStay ==
  ASSUME UnapprovedGrants(memberRoles') = UnapprovedGrants(memberRoles),
         UNCHANGED imported
  PROVE  Seats' = Seats
BY DEF Seats

LEMMA SeatsAreCounted ==
  ASSUME NEW grants, NEW carried
  PROVE  /\ Cardinality(UnapprovedGrants(grants) \ carried) \in Nat
         /\ Cardinality(UnapprovedGrants(grants) \ carried)
              <= Cardinality(UnapprovedGrants(grants))
<1>1. UnapprovedGrants(grants) \ carried \subseteq UnapprovedGrants(grants)
  OBVIOUS
<1> QED BY <1>1, UnapprovedIsFinite, FS_Subset, FS_CardinalityType

LEMMA SpentSeatsLatch ==
  ASSUME SpentSeatsArmTheRule' PROVE Seats' = Quota => armed'
<1>1. /\ Seats' <= Cardinality(UnapprovedGrants(memberRoles'))
      /\ Cardinality(UnapprovedGrants(memberRoles')) \in Nat
  BY SeatsAreCounted, UnapprovedIsFinite DEF Seats
<1> QED BY <1>1 DEF SpentSeatsArmTheRule

\* Once the latch is set, a row of an admin role that the trigger lets through
\* has a decision behind it.
LEMMA UsableIsDecided ==
  ASSUME TypeOK, armed, NEW row \in Grant, row.role \in GrantsRoles,
         enforce_role_grant_rules(row), ApprovalNamesThisGrant(row)
  PROVE  \E d \in Decided : d.target = row.member
<1>1. ApprovalIsUsable(row)
  BY DEF enforce_role_grant_rules, two_approver_rule_can_bind
<1> DEFINE a == row.approval
<1>2. /\ a \in ApprovalIds /\ approvals[a] # NoRow /\ Approves(approvals[a])
      /\ approvals[a].target = row.member
  BY <1>1 DEF ApprovalIsUsable, ApprovalNamesThisGrant, Approves, Grant
<1>3. Made(approvals[a]) \in Decided
  BY <1>2, DecidedAre
<1> QED BY <1>2, <1>3 DEF Made

\* A grant that is written, or whose expiry is moved.
LEMMA RowIsLedgered ==
  ASSUME TypeOK, armed' \in BOOLEAN, SpentSeatsArmTheRule',
         NEW g \in GrantIds, NEW row \in Grant,
         memberRoles[g] # NoRow => memberRoles[g].member = row.member,
         memberRoles' = [memberRoles EXCEPT ![g] = row],
         enforce_role_grant_rules(row), ApprovalNamesThisGrant(row),
         arm_two_approver_rule, UNCHANGED <<approvals, removed, imported>>,
         \/ Seats' = Seats
         \/ /\ memberRoles[g] = NoRow /\ row.role \in GrantsRoles
            /\ ~armed /\ Seats < Quota /\ Seats' = Seats + 1
  PROVE  Ledger!Next
<1>1. /\ Counts(row) => Holders' = Holders \cup {row.member}
      /\ ~Counts(row) => Holders' \subseteq Holders
      /\ ~Counts(row) /\ memberRoles[g] = NoRow => Holders' = Holders
  BY OneRowHolds
<1>2. Ledger!Latches
  BY ArmIsMonotone DEF Ledger!Latches
<1>3. Decided' = Decided /\ row.member \in Members
  BY DEF Decided, Grant
<1>4. Seats' = Quota => armed'
  BY SpentSeatsLatch
<1>5. CASE Counts(row)
  <2>1. armed => \E d \in Decided : d.target = row.member
    BY <1>5, UsableIsDecided DEF Counts
  <2>2. Ledger!Appoint(row.member)
    BY <1>1, <1>2, <1>3, <1>4, <1>5, <2>1 DEF Ledger!Appoint
  <2> QED BY <1>3, <2>2 DEF Ledger!Next
<1>6. CASE ~Counts(row) /\ Seats' = Seats
  BY <1>1, <1>2, <1>3, <1>6 DEF Ledger!Leave, Ledger!Next
<1>7. CASE ~Counts(row) /\ Seats' # Seats
  <2>1. Ledger!Appoint(row.member)
    BY <1>1, <1>2, <1>3, <1>4, <1>7 DEF Ledger!Appoint
  <2> QED BY <1>3, <2>1 DEF Ledger!Next
<1> QED BY <1>5, <1>6, <1>7

\* A decision is entered once, and no later update of its row changes it.
LEMMA DecisionIsLedgered ==
  ASSUME IInv, ApprovalStep
  PROVE  [Ledger!Next]_(Ledger!ledger)
<1>1. PICK a \in ApprovalIds, row \in Approval :
         /\ approvals' = [approvals EXCEPT ![a] = row]
         /\ ChecksHold(row)
         /\ enforce_approval_is_by_two_admins(row)
         /\ approvals[a] # NoRow =>
              \E by : freeze_approval_proposal(by, approvals[a], row)
         /\ UNCHANGED <<memberRoles, armed, removed, bound, imported>>
  BY ApprovalStepEffect DEF IInv
<1>2. UNCHANGED <<Holders, Seats, removed, armed, imported>>
  BY <1>1 DEF Holders, Seats
<1>3. /\ approvals'[a] = row /\ row # NoRow
      /\ \A b \in ApprovalIds \ {a} : approvals'[b] = approvals[b]
  BY <1>1, NoRowAssumption DEF IInv, TypeOK
<1>4. approvals[a] # NoRow /\ Approves(approvals[a]) =>
        Approves(row) /\ Made(row) = Made(approvals[a])
  <2> SUFFICES ASSUME approvals[a] # NoRow, Approves(approvals[a])
               PROVE  Approves(row) /\ Made(row) = Made(approvals[a])
    OBVIOUS
  <2>1. approvals[a].decider # NoOne
    BY DEF IInv, RowsAreSound, ChecksHold, Approves
  <2> QED BY <1>1, <2>1 DEF freeze_approval_proposal, Approves, Made
<1>5. CASE Approves(row)
  <2>1. Decided' = Decided \cup {Made(row)}
    <3>1. \A d : d \in Decided' => d \in Decided \cup {Made(row)}
      BY <1>3, DecidedAre
    <3>2. \A d : d \in Decided => d \in Decided'
      BY <1>3, <1>4, <1>5, DecidedAre
    <3>3. Made(row) \in Decided'
      BY <1>3, <1>5, DecidedAre
    <3> QED BY <3>1, <3>2, <3>3
  <2>2. /\ row.target \in Members /\ row.proposer \in Members
        /\ row.decider \in Members /\ row.proposer # row.decider
    BY <1>1, <1>5 DEF Approval, ChecksHold, Approves
  <2>3. armed => {row.proposer, row.decider} \subseteq Holders \ removed
    <3>1. armed => is_admin(row.proposer) /\ is_admin(row.decider)
      BY <1>1, <1>5 DEF enforce_approval_is_by_two_admins,
                        two_approver_rule_can_bind, Approves
    <3> QED BY <3>1, AdminsHold
  <2>4. Ledger!Decide(row.target, row.proposer, row.decider)
    BY <1>2, <2>1, <2>2, <2>3 DEF Ledger!Decide, Made
  <2> QED BY <2>2, <2>4 DEF Ledger!Next
<1>6. CASE ~Approves(row)
  <2>1. ~(approvals[a] # NoRow /\ Approves(approvals[a]))
    BY <1>4, <1>6
  <2>2. Decided' = Decided
    BY <1>3, <1>6, <2>1, DecidedAre
  <2> QED BY <1>2, <2>2 DEF Ledger!ledger
<1> QED BY <1>5, <1>6

\* A new grant takes a seat when it is of an admin role and names no approval.
LEMMA GrantIsLedgered ==
  ASSUME IInv, IInv', NEW by \in Callers, NEW g \in GrantIds, GrantRole(by, g)
  PROVE  Ledger!Next
<1>1. PICK row \in [member: Members, role: Roles,
                    approval: ApprovalIds \cup {NoRow},
                    expiry: Expiries, revoked: {FALSE}] :
         /\ ApprovalNamesThisGrant(row)
         /\ enforce_role_grant_rules(row)
         /\ memberRoles' = [memberRoles EXCEPT ![g] = row]
  BY DEF GrantRole
<1>2. row \in Grant /\ row # NoRow
  BY NoRowAssumption DEF Grant
<1>3. /\ memberRoles[g] = NoRow /\ arm_two_approver_rule
      /\ UNCHANGED <<approvals, removed, imported>>
  BY DEF GrantRole
<1>4. /\ memberRoles'[g] = row
      /\ \A h \in GrantIds \ {g} : memberRoles'[h] = memberRoles[h]
  BY <1>1 DEF IInv, TypeOK
<1>5. CASE row.role \in GrantsRoles /\ row.approval = NoRow
  <2>1. ~two_approver_rule_can_bind
    BY <1>1, <1>5 DEF enforce_role_grant_rules, ApprovalIsUsable
  <2>2. /\ g \notin UnapprovedGrants(memberRoles)
        /\ UnapprovedGrants(memberRoles') = UnapprovedGrants(memberRoles) \cup {g}
    BY <1>2, <1>3, <1>4, <1>5 DEF UnapprovedGrants, Rows
  <2>3. g \notin imported
    BY <1>3 DEF IInv, RowsAreSound, Rows
  <2> DEFINE S == UnapprovedGrants(memberRoles) \ imported
  <2>4. g \notin S /\ UnapprovedGrants(memberRoles') \ imported' = S \cup {g}
    BY <1>3, <2>2, <2>3
  <2>5. IsFiniteSet(S)
    BY UnapprovedIsFinite, FS_Subset
  <2>6. Cardinality(S \cup {g}) = Cardinality(S) + 1
    BY <2>4, <2>5, FS_AddElement
  <2>7. Seats' = Seats + 1
    BY <2>4, <2>6 DEF Seats
  <2>8. ~armed /\ Seats < Quota
    <3>1. ~armed /\ ~(Cardinality(UnapprovedGrants(memberRoles)) >= Quota)
      BY <2>1 DEF two_approver_rule_can_bind, bootstrap_is_spent,
                  bootstrap_admin_grants_used
    <3>2. /\ Seats \in Nat /\ Seats <= Cardinality(UnapprovedGrants(memberRoles))
          /\ Cardinality(UnapprovedGrants(memberRoles)) \in Nat
      BY SeatsAreCounted, UnapprovedIsFinite DEF Seats
    <3> QED BY <3>1, <3>2
  <2> HIDE DEF S
  <2> QED BY <1>1, <1>2, <1>3, <1>5, <2>7, <2>8, RowIsLedgered DEF IInv, TypeOK
<1>6. CASE ~(row.role \in GrantsRoles /\ row.approval = NoRow)
  <2>1. UnapprovedGrants(memberRoles') = UnapprovedGrants(memberRoles)
    BY <1>2, <1>3, <1>4, <1>6 DEF UnapprovedGrants, Rows
  <2>2. Seats' = Seats
    BY <1>3, <2>1 DEF Seats
  <2> QED BY <1>1, <1>2, <1>3, <2>2, RowIsLedgered DEF IInv, TypeOK
<1> QED BY <1>5, <1>6

\* An update of a grant that takes something from it.
LEMMA TakenIsLedgered ==
  ASSUME TypeOK, Ledger!Latches, UNCHANGED <<approvals, removed, imported>>,
         NEW g \in GrantIds, memberRoles[g] # NoRow, NEW row \in Grant,
         row.member = memberRoles[g].member, row.role = memberRoles[g].role,
         row.approval = memberRoles[g].approval, ~Counts(row),
         memberRoles' = [memberRoles EXCEPT ![g] = row]
  PROVE  Ledger!Next
<1>1. Holders' \subseteq Holders
  BY OneRowHolds
<1>2. UnapprovedGrants(memberRoles') = UnapprovedGrants(memberRoles)
  BY NoRowAssumption DEF UnapprovedGrants, Rows, TypeOK
<1>3. Seats' = Seats
  BY <1>2 DEF Seats
<1>4. Decided' = Decided
  BY DEF Decided
<1> QED BY <1>1, <1>3, <1>4 DEF Ledger!Leave, Ledger!Next

\* The import brings members that no row names.
LEMMA ImportIsLedgered ==
  ASSUME IInv, NEW ids \in SUBSET GrantIds, ImportRoles(ids)
  PROVE  Ledger!Next
<1>1. PICK rows \in [ids -> [member: {m \in Members : Unnamed(m)},
                             role: Roles, approval: {NoRow},
                             expiry: {"none"}, revoked: {FALSE}]] :
         memberRoles' = [g \in GrantIds |->
                           IF g \in ids THEN rows[g] ELSE memberRoles[g]]
  BY DEF ImportRoles
<1>2. /\ imported = {} /\ imported' = ids /\ ids # {}
      /\ \A g \in ids : memberRoles[g] = NoRow
      /\ UNCHANGED <<approvals, removed, panel, bound>>
      /\ arm_two_approver_rule
  BY DEF ImportRoles
<1>3. \A g \in ids :
        /\ rows[g] \in Grant /\ rows[g] # NoRow
        /\ rows[g].member \in Members /\ Unnamed(rows[g].member)
  <2> SUFFICES ASSUME NEW g \in ids
               PROVE  /\ rows[g] \in Grant /\ rows[g].member \in Members
                      /\ Unnamed(rows[g].member)
    BY NoRowAssumption
  <2>1. rows[g] \in [member: {m \in Members : Unnamed(m)}, role: Roles,
                     approval: {NoRow}, expiry: {"none"}, revoked: {FALSE}]
    OBVIOUS
  <2> QED BY <2>1 DEF Grant
<1> DEFINE people == {m \in Members :
                        \E g \in ids : Counts(rows[g]) /\ m = rows[g].member}
<1>4. /\ \A g \in ids : memberRoles'[g] = rows[g]
      /\ \A g \in GrantIds \ ids : memberRoles'[g] = memberRoles[g]
  BY <1>1
<1>5. Holders' = Holders \cup people
  <2>1. \A m : m \in Holders <=>
          \E h \in GrantIds : /\ memberRoles[h] # NoRow /\ Counts(memberRoles[h])
                              /\ m = memberRoles[h].member
    BY DEF Holders, LiveAdminRows, Rows, Counts
  <2>2. \A m : m \in Holders' <=>
          \E h \in GrantIds : /\ memberRoles'[h] # NoRow /\ Counts(memberRoles'[h])
                              /\ m = memberRoles'[h].member
    BY DEF Holders, LiveAdminRows, Rows, Counts
  <2> QED BY <1>2, <1>3, <1>4, <2>1, <2>2
<1>6. people \cap (Holders \cup removed) = {}
  BY <1>3 DEF Unnamed, Holders, LiveAdminRows
<1>7. UnapprovedGrants(memberRoles') \ imported'
        = UnapprovedGrants(memberRoles) \ imported
  BY <1>2, <1>4 DEF UnapprovedGrants, Rows
<1>8. Seats' = Seats /\ Decided' = Decided
  BY <1>2, <1>7 DEF Seats, Decided
<1>9. Ledger!Latches
  BY <1>2, ArmIsMonotone, ArmType DEF Ledger!Latches
<1>10. (imported # {}) = FALSE /\ (imported' # {}) = TRUE
  BY <1>2
<1> HIDE DEF people
<1>11. Ledger!Carry(people)
  BY <1>2, <1>5, <1>6, <1>8, <1>9, <1>10 DEF Ledger!Carry
<1>12. people \in SUBSET Members
  BY DEF people
<1> QED BY <1>11, <1>12 DEF Ledger!Next

\* Every statement, and the clock, makes an entry of the ledger or none.
LEMMA StepsAreLedgered ==
  ASSUME IInv, IInv', NamesItsGrant, [Next]_vars
  PROVE  [Ledger!Next]_(Ledger!ledger)
<1>0. TypeOK /\ TypeOK' /\ SpentSeatsArmTheRule'
  BY DEF IInv
<1>1. CASE ApprovalStep
  BY <1>1, DecisionIsLedgered
<1>2. CASE GrantStep
  <2>1. PICK by \in Callers, g \in GrantIds :
           GrantRole(by, g) \/ RevokeRole(by, g) \/ MoveExpiry(by, g)
    BY <1>2 DEF GrantStep
  <2>2. CASE GrantRole(by, g)
    BY <2>2, GrantIsLedgered
  <2>3. CASE RevokeRole(by, g)
    <3> DEFINE row == [memberRoles[g] EXCEPT !.revoked = TRUE]
    <3>1. memberRoles[g] \in Grant /\ memberRoles[g] # NoRow
      BY <1>0, <2>3 DEF RevokeRole, TypeOK
    <3>2. /\ row \in Grant /\ row.member = memberRoles[g].member
          /\ row.role = memberRoles[g].role /\ ~Counts(row)
          /\ row.approval = memberRoles[g].approval
      BY <3>1 DEF Grant, Counts
    <3>3. memberRoles' = [memberRoles EXCEPT ![g] = row]
      BY <1>0, <2>3 DEF RevokeRole, TypeOK
    <3>4. UNCHANGED <<approvals, removed, imported>> /\ Ledger!Latches
      BY <2>3, ArmIsMonotone, ArmType DEF RevokeRole, Ledger!Latches
    <3> HIDE DEF row
    <3> QED BY <1>0, <3>1, <3>2, <3>3, <3>4, TakenIsLedgered
  <2>4. CASE MoveExpiry(by, g)
    <3>0. PICK e \in Expiries :
             memberRoles' = [memberRoles EXCEPT ![g].expiry = e]
      BY <2>4 DEF MoveExpiry
    <3> DEFINE row == [memberRoles[g] EXCEPT !.expiry = e]
    <3>1. memberRoles[g] \in Grant /\ memberRoles[g] # NoRow
      BY <1>0, <2>4 DEF MoveExpiry, TypeOK
    <3>2. /\ row \in Grant
          /\ row.member = memberRoles[g].member
          /\ row.role = memberRoles[g].role
          /\ row.approval = memberRoles[g].approval
      BY <3>1 DEF Grant
    <3>3. memberRoles' = [memberRoles EXCEPT ![g] = row]
      BY <1>0, <3>0 DEF TypeOK
    <3>4. /\ UNCHANGED <<approvals, removed, imported>> /\ arm_two_approver_rule
          /\ enforce_role_grant_rules(memberRoles[g])
      BY <2>4 DEF MoveExpiry
    <3> HIDE DEF row
    <3>5. enforce_role_grant_rules(row) /\ ApprovalNamesThisGrant(row)
      <4>1. ApprovalNamesThisGrant(row)
        BY <3>1, <3>2 DEF NamesItsGrant, ApprovalNamesThisGrant, Rows
      <4>2. enforce_role_grant_rules(row)
        BY <3>2, <3>4 DEF enforce_role_grant_rules, ApprovalIsUsable
      <4> QED BY <4>1, <4>2
    <3>6. Seats' = Seats
      <4>1. UnapprovedGrants(memberRoles') = UnapprovedGrants(memberRoles)
        BY <1>0, <3>1, <3>2, <3>3, NoRowAssumption
        DEF UnapprovedGrants, Rows, TypeOK
      <4> QED BY <3>4, <4>1 DEF Seats
    <3>7. armed' \in BOOLEAN
      BY <1>0 DEF TypeOK
    <3> QED BY <1>0, <3>1, <3>2, <3>3, <3>4, <3>5, <3>6, <3>7, RowIsLedgered
  <2> QED BY <2>1, <2>2, <2>3, <2>4
<1>3. CASE UpdateNothing
  <2>1. UNCHANGED <<Holders, Seats, removed, imported>> /\ Decided' = Decided
    BY <1>3 DEF UpdateNothing, Holders, Seats, Decided
  <2>2. Ledger!Latches
    BY <1>3, ArmIsMonotone, ArmType DEF UpdateNothing, Ledger!Latches
  <2> QED BY <2>1, <2>2 DEF Ledger!Leave, Ledger!Next
<1>4. CASE ImportStep
  BY <1>4, ImportIsLedgered DEF ImportStep
<1>5. CASE MemberStep
  <2>1. PICK by \in Callers, m \in Members :
          RemoveMember(by, m) \/ RestoreMember(by, m)
    BY <1>5 DEF MemberStep
  <2>2. UNCHANGED <<approvals, memberRoles, armed, imported>>
    BY <2>1 DEF RemoveMember, RestoreMember
  <2>3. UNCHANGED <<Holders, Seats>> /\ Decided' = Decided
    BY <2>2 DEF Holders, Seats, Decided
  <2>4. removed' \in {removed \cup {m}, removed \ {m}}
    BY <2>1 DEF RemoveMember, RestoreMember
  <2> QED BY <2>2, <2>3, <2>4 DEF Ledger!ComeOrGo, Ledger!Next
<1>6. ASSUME NEW g \in GrantIds, ExpiryPasses(g) PROVE Ledger!Next
  <2> DEFINE row == [memberRoles[g] EXCEPT !.expiry = "passed"]
  <2>1. memberRoles[g] \in Grant /\ memberRoles[g] # NoRow
    BY <1>0, <1>6 DEF ExpiryPasses, TypeOK
  <2>2. /\ row \in Grant /\ row.member = memberRoles[g].member
        /\ row.role = memberRoles[g].role /\ ~Counts(row)
        /\ row.approval = memberRoles[g].approval
    BY <2>1 DEF Grant, Counts
  <2>3. memberRoles' = [memberRoles EXCEPT ![g] = row]
    BY <1>0, <1>6 DEF ExpiryPasses, TypeOK
  <2>4. UNCHANGED <<approvals, removed, imported>> /\ Ledger!Latches
    BY <1>0, <1>6 DEF ExpiryPasses, Ledger!Latches, TypeOK
  <2> HIDE DEF row
  <2> QED BY <1>0, <2>1, <2>2, <2>3, <2>4, TakenIsLedgered
<1>7. CASE UNCHANGED vars
  BY <1>7 DEF vars, Ledger!ledger, Holders, Seats, Decided
<1> QED BY <1>1, <1>2, <1>3, <1>4, <1>5, <1>6, <1>7 DEF Next

\* The rule keeps the ledger of seats, whatever statements are sent and by
\* whom: a seat is given once, the latch stays, and after it an admin is made by
\* two (002, 003, 010, 013).
THEOREM TheRuleKeepsTheLedger == Spec => ImplementsLedger
<1>1. Init => Ledger!Init
  <2> SUFFICES ASSUME Init PROVE Ledger!Init
    OBVIOUS
  <2>1. LiveAdminRows(memberRoles, {}) = {} /\ UnapprovedGrants(memberRoles) = {}
    BY DEF Init, LiveAdminRows, UnapprovedGrants, Rows
  <2>2. Holders = {} /\ Seats = 0
    <3>1. Cardinality({}) = 0
      BY FS_EmptySet
    <3> QED BY <2>1, <3>1 DEF Holders, Seats
  <2>3. Decided = {}
    BY DEF Init, Decided
  <2> QED BY <2>2, <2>3 DEF Init, Ledger!Init
<1>2. Init => NamesItsGrant
  BY DEF Init, NamesItsGrant, Rows
<1>3. IInv /\ NamesItsGrant /\ [Next]_vars => NamesItsGrant'
  BY NextNames DEF IInv
<1>4. IInv /\ IInv' /\ NamesItsGrant /\ [Next]_vars
        => [Ledger!Next]_(Ledger!ledger)
  BY StepsAreLedgered
<1> QED BY <1>1, <1>2, <1>3, <1>4, Invariance, PTL
        DEF Spec, ImplementsLedger, Ledger!Spec

=============================================================================
