---------------------------- MODULE FirstSignIn ----------------------------
(***************************************************************************)
(* Turning a verified sign in into a member record.                        *)
(*                                                                         *)
(* A request is one call of POST /me, or one person tools/bootstrap seats; *)
(* both call link_or_create_member as 015 leaves it.  Requests run in      *)
(* transactions of their own at READ COMMITTED, where every statement of   *)
(* that function takes a snapshot of its own, so each of its SELECTs is a  *)
(* step.  A write locks its row, enters the unique index on                *)
(* identity_subject and then the one on email, and waits there for another *)
(* transaction's unfinished row.  Admins remove, restore and link records  *)
(* meanwhile, and members change their address.                            *)
(*                                                                         *)
(* The name is not kept.  That an admin seat may be refused is all that is *)
(* kept of the two approver rule, which RoleGrants has.                    *)
(***************************************************************************)
EXTENDS Naturals, FiniteSets

CONSTANTS Requests,   \* calls of POST /me and of seat_one_admin.sql
          Subjects,   \* the sub claim: one for each account
          Emails,     \* addresses
          AddressOf,  \* the address the identity service holds for a subject
          RecordIds,  \* values of members.id
          Legacy,     \* the record that was there, which has no sign in
          LegacyEmail,
          MaxHands,   \* bound: statements sent beside the requests
          Null

ASSUME AddressAssumption == AddressOf \in [Subjects -> Emails]
ASSUME LegacyAssumption == Legacy \in RecordIds /\ LegacyEmail \in Emails
ASSUME BoundAssumption == MaxHands \in Nat
ASSUME NullAssumption == Null \notin Subjects \cup Emails \cup RecordIds \cup Requests

VARIABLES members,  \* committed rows: identity_subject, email, deleted_at
          roled,    \* records with a live row in member_roles
          draft,    \* the row a request's transaction has written
          call,     \* where each request is, and what it has read
          hands,    \* how many statements were sent beside the requests
          removal,  \* kept for the properties: for how much of a request its
                    \* subject's record has been a removed one
          owned     \* kept for the properties: the records that have been the
                    \* caller's own at some time in a request

kept == <<members, roled, hands, removal, owned>>
vars == <<kept, draft, call>>

Keys == {"subject", "email"}  \* the columns with a unique index
Row == [subject: Subjects \cup {Null}, email: Emails \cup {Null},
        removed: BOOLEAN]
Written == [id: RecordIds, row: Row]

ASSUME NoRowAssumption == Null \notin Row /\ Null \notin Written

Places == {"new", "known", "own", "gone", "match", "taken", "insert", "claim",
           "subject", "email", "address", "lock", "set", "role", "answer",
           "done"}
Answers == {"created", "found", "nothing", "address known", "removed",
            "unexpected", "seated", "refused"}

Called(kind, s, e, there, answer) ==
  [kind |-> kind, subject |-> s, email |-> e, at |-> there,
   known |-> Null, record |-> Null, answer |-> answer]

-----------------------------------------------------------------------------
(* What a statement of request q's transaction sees, and what it waits for. *)

HasDraft(q) == draft[q] # Null

Of(row, key) == IF key = "subject" THEN row.subject ELSE row.email

With(row, key, v) ==
  [subject |-> IF key = "subject" THEN v ELSE row.subject,
   email |-> IF key = "email" THEN v ELSE row.email,
   removed |-> row.removed]

Sees(q) == [r \in RecordIds |->
              IF HasDraft(q) /\ draft[q].id = r THEN draft[q].row
              ELSE members[r]]

Held(table, s) == {r \in RecordIds : table[r] # Null /\ table[r].subject = s}
Live(table, s) == {r \in Held(table, s) : ~table[r].removed}

\* The row of the subject the transaction acts under, as 012 reads it.
current_member_id(q) ==
  LET live == Live(Sees(q), call[q].subject)
  IN  IF live = {} THEN Null ELSE CHOOSE r \in live : TRUE

LockedBy(r) == {q \in Requests : HasDraft(q) /\ draft[q].id = r}

\* Faulty: an index looks only at committed rows.
NobodyUnfinished(q, key, v) == {}

\* The transactions whose unfinished row may hold v in the index on key: the
\* row as they leave it, or the row as they found it.
Unfinished(q, key, v) ==
  {p \in Requests \ {q} :
     /\ v # Null
     /\ HasDraft(p)
     /\ \/ Of(draft[p].row, key) = v
        \/ /\ members[draft[p].id] # Null
           /\ Of(members[draft[p].id], key) = v}

\* A finished row other than r that holds v.
Duplicate(r, key, v) ==
  \E o \in RecordIds \ {r} : /\ v # Null
                             /\ members[o] # Null
                             /\ Of(members[o], key) = v
                             /\ LockedBy(o) = {}

-----------------------------------------------------------------------------
Init ==
  /\ members = [r \in RecordIds |->
       IF r = Legacy
       THEN [subject |-> Null, email |-> LegacyEmail, removed |-> FALSE]
       ELSE Null]
  /\ roled \in SUBSET {Legacy}
  /\ draft = [q \in Requests |-> Null]
  /\ call = [q \in Requests |-> Called(Null, Null, Null, "new", Null)]
  /\ hands = 0
  /\ removal = [q \in Requests |-> "never"]
  /\ owned = [q \in Requests |-> {}]

RemovedFor(table, s) == Held(table, s) # {} /\ Live(table, s) = {}

\* How much of a request, up to its answer, has had its record removed, and
\* which records have been the caller's in it.
Watch ==
  /\ owned' = [q \in Requests |->
       IF call'[q].at \in {"new", "done"} THEN {}
       ELSE owned[q] \cup Live(members', call'[q].subject)]
  /\ removal' = [q \in Requests |->
       LET gone == RemovedFor(members', call'[q].subject)
       IN  IF call[q].at = "new" /\ call'[q].at # "new"
           THEN IF gone THEN "always" ELSE "never"
           ELSE IF call[q].at \in {"new", "done"} THEN removal[q]
           ELSE IF removal[q] = "always" /\ gone THEN "always"
           ELSE IF removal[q] = "never" /\ ~gone THEN "never"
           ELSE "partly"]

Goes(q, there) == call' = [call EXCEPT ![q].at = there]

GoesWith(q, r, there) ==
  call' = [call EXCEPT ![q].record = r, ![q].at = there]

\* Of a request that is over, whose it was and its answer are kept.
Ends(q, answer) ==
  /\ draft' = [draft EXCEPT ![q] = Null]
  /\ call' = [call EXCEPT ![q] =
       Called(call[q].kind, call[q].subject, Null, "done", answer)]

\* A refusal rolls the request's transaction back whole.
Refuse(q, why) ==
  /\ Ends(q, IF call[q].kind = "seat" THEN "refused" ELSE why)
  /\ UNCHANGED kept

\* POST /me with an address typed in, or with none.
Arrive(q, s, e) ==
  /\ call[q].at = "new"
  /\ call' = [call EXCEPT ![q] = Called("api", s, e, "known", Null)]
  /\ UNCHANGED <<members, roled, draft, hands>>
  /\ Watch

\* tools/bootstrap seats the person whose account this subject is.
Seat(q, s) ==
  /\ call[q].at = "new"
  /\ call' = [call EXCEPT
       ![q] = Called("seat", s, AddressOf[s], "own", Null)]
  /\ UNCHANGED <<members, roled, draft, hands>>
  /\ Watch

ReadKnown(q) ==
  /\ call[q].at = "known"
  /\ call' = [call EXCEPT ![q].known = current_member_id(q), ![q].at = "own"]
  /\ UNCHANGED <<kept, draft>>

-----------------------------------------------------------------------------
(* link_or_create_member, one step for each statement of it.               *)

\* Faulty: the address a caller typed reaches the function.
TypedAddress(q) == call[q].email

\* p_email: POST /me passes NULL.
p_email(q) == IF call[q].kind = "seat" THEN call[q].email ELSE Null

AfterLink(q) == IF call[q].kind = "seat" THEN "role" ELSE "address"

OwnRecord(q) ==
  /\ call[q].at = "own"
  /\ \/ /\ current_member_id(q) = Null
        /\ Goes(q, "gone")
     \/ /\ current_member_id(q) # Null
        /\ GoesWith(q, current_member_id(q), AfterLink(q))
  /\ UNCHANGED <<kept, draft>>

\* Faulty: a removed record is not looked for, as before 015.
RemovedRecordIgnored(q) ==
  /\ call[q].at = "gone"
  /\ Goes(q, "match")
  /\ UNCHANGED <<kept, draft>>

RemovedRecord(q) ==
  /\ call[q].at = "gone"
  /\ \/ /\ Held(Sees(q), call[q].subject) # {}
        /\ Refuse(q, "removed")
     \/ /\ Held(Sees(q), call[q].subject) = {}
        /\ Goes(q, "match")
        /\ UNCHANGED <<kept, draft>>

WithAddress(q) ==
  {r \in RecordIds : /\ p_email(q) # Null
                     /\ Sees(q)[r] # Null
                     /\ Sees(q)[r].email = p_email(q)}

\* A record with this address and no sign in, and whether it holds a role.
MatchAddress(q) ==
  LET free == {r \in WithAddress(q) : /\ Sees(q)[r].subject = Null
                                      /\ ~Sees(q)[r].removed}
  IN  /\ call[q].at = "match"
      /\ \/ /\ free \cap roled # {}
            /\ Refuse(q, "unexpected")
         \/ /\ free \cap roled = {}
            /\ \/ /\ free = {}
                  /\ Goes(q, "taken")
               \/ \E r \in free : GoesWith(q, r, "claim")
            /\ UNCHANGED <<kept, draft>>

TakenAddress(q) ==
  /\ call[q].at = "taken"
  /\ \/ /\ WithAddress(q) # {}
        /\ Refuse(q, "unexpected")
     \/ /\ WithAddress(q) = {}
        /\ Goes(q, "insert")
        /\ UNCHANGED <<kept, draft>>

\* UPDATE ... WHERE id = existing.id, which asks nothing else of the row it
\* finds once it has the row lock.
Claim(q) ==
  /\ call[q].at = "claim"
  /\ LockedBy(call[q].record) = {}
  /\ draft' = [draft EXCEPT ![q] = [id |-> call[q].record,
                                    row |-> members[call[q].record]]]
  /\ Goes(q, "subject")
  /\ UNCHANGED kept

\* gen_random_uuid(): some id no row has.
Insert(q) ==
  LET fresh == {r \in RecordIds : members[r] = Null /\ LockedBy(r) = {}}
  IN  /\ call[q].at = "insert"
      /\ fresh # {}
      /\ draft' = [draft EXCEPT ![q] =
           [id |-> CHOOSE r \in fresh : TRUE,
            row |-> [subject |-> Null, email |-> Null, removed |-> FALSE]]]
      /\ Goes(q, "subject")
      /\ UNCHANGED kept

\* A unique index: in, or refused by a finished row.  It waits, by not being
\* possible, while an unfinished row may hold the value.
Enter(q, key, v, refusal, there) ==
  /\ Unfinished(q, key, v) = {}
  /\ \/ /\ Duplicate(draft[q].id, key, v)
        /\ Refuse(q, refusal)
     \/ /\ ~Duplicate(draft[q].id, key, v)
        /\ draft' = [draft EXCEPT ![q] = [id |-> draft[q].id,
                                          row |-> With(draft[q].row, key, v)]]
        /\ GoesWith(q, draft[q].id, there)
        /\ UNCHANGED kept

\* Faulty: a sign in that is already joined waits for ever.
EnterSubjectOrHang(q) ==
  /\ call[q].at = "subject"
  /\ ~Duplicate(draft[q].id, "subject", call[q].subject)
  /\ Enter(q, "subject", call[q].subject, "unexpected",
           IF members[draft[q].id] = Null THEN "email" ELSE AfterLink(q))

\* members_identity_subject_key; a claimed row keeps its address.
EnterSubject(q) ==
  /\ call[q].at = "subject"
  /\ Enter(q, "subject", call[q].subject, "unexpected",
           IF members[draft[q].id] = Null THEN "email" ELSE AfterLink(q))

EnterEmail(q) ==
  /\ call[q].at = "email"
  /\ Enter(q, "email", p_email(q), "address known", AfterLink(q))

-----------------------------------------------------------------------------
(* The rest of POST /me.                                                   *)

\* Whether SET_THE_ADDRESS is sent, and its snapshot has a row for it.
HasAddressToSet(q) ==
  /\ call[q].known = Null
  /\ call[q].email # Null
  /\ current_member_id(q) # Null
  /\ Sees(q)[current_member_id(q)].email = Null

\* The statement's snapshot says whose record it is: current_member_id() is
\* STABLE (012:47-62).
SendTheAddress(q) ==
  /\ call[q].at = "address"
  /\ HasAddressToSet(q)
  /\ GoesWith(q, current_member_id(q), "lock")
  /\ UNCHANGED <<kept, draft>>

\* The row lock, which waits for another transaction's.  Of the row it then
\* finds only the empty address is asked again, not whose record it now is.
SetTheAddress(q) ==
  LET found == Sees(q)[call[q].record]
  IN  /\ call[q].at = "lock"
      /\ LockedBy(call[q].record) \subseteq {q}
      /\ \/ /\ found.email = Null
            /\ draft' = [draft EXCEPT ![q] =
                            [id |-> call[q].record, row |-> found]]
            /\ Goes(q, "set")
         \/ /\ found.email # Null
            /\ Goes(q, "answer")
            /\ UNCHANGED draft
      /\ UNCHANGED kept

NoAddressToSet(q) ==
  /\ call[q].at = "address"
  /\ ~HasAddressToSet(q)
  /\ Goes(q, "answer")
  /\ UNCHANGED <<kept, draft>>

EnterAddress(q) ==
  /\ call[q].at = "set"
  /\ Enter(q, "email", call[q].email, "address known", "answer")

Commits(q, answer) ==
  /\ members' = Sees(q)
  /\ Ends(q, answer)
  /\ Watch
  /\ UNCHANGED hands

\* read_own_member, the commit, and the answer: 201, 200, or the 500 of a
\* record that is not there.
Answer(q) ==
  /\ call[q].at = "answer"
  /\ Commits(q, IF current_member_id(q) = Null THEN "nothing"
                ELSE IF call[q].known = Null THEN "created" ELSE "found")
  /\ UNCHANGED roled

\* The rest of seat_one_admin.sql: the role, unless the member has it.
GrantTheSeat(q) ==
  /\ call[q].at = "role"
  /\ Commits(q, "seated")
  /\ roled' = roled \cup {call[q].record}

SeatRefused(q) ==
  /\ call[q].at = "role"
  /\ call[q].record \notin roled
  /\ Refuse(q, "refused")

-----------------------------------------------------------------------------
(* Waiting, the statement ceiling on the service's connections, and         *)
(* PostgreSQL's deadlock detector.                                          *)

WaitsFor(q) ==
  CASE call[q].at = "claim" -> LockedBy(call[q].record)
    [] call[q].at = "subject" -> Unfinished(q, "subject", call[q].subject)
    [] call[q].at = "email" -> Unfinished(q, "email", p_email(q))
    [] call[q].at = "set" -> Unfinished(q, "email", call[q].email)
    [] call[q].at = "lock" -> LockedBy(call[q].record) \ {q}
    [] OTHER -> {}

TimesOut(q) ==
  /\ call[q].kind = "api"
  /\ WaitsFor(q) # {}
  /\ Refuse(q, "unexpected")

InDeadlock(q) ==
  \E D \in SUBSET Requests :
    q \in D /\ \A p \in D : WaitsFor(p) \cap D # {}

DeadlockVictim(q) ==
  /\ InDeadlock(q)
  /\ Refuse(q, "unexpected")

-----------------------------------------------------------------------------
(* Meanwhile: an admin on a record, and a member on their address.  Each is *)
(* one statement that commits; it waits for a locked row, and a value that  *)
(* another row has, or may yet have, refuses it or holds it up.             *)

Writes(r, row) ==
  /\ hands < MaxHands
  /\ LockedBy(r) = {}
  /\ \A key \in Keys :
       Of(row, key) # Of(members[r], key) =>
         /\ ~Duplicate(r, key, Of(row, key))
         /\ Unfinished(Null, key, Of(row, key)) = {}
  /\ hands' = hands + 1
  /\ members' = [members EXCEPT ![r] = row]
  /\ UNCHANGED <<roled, draft, call>>
  /\ Watch

SetRemoved(r, gone) ==
  /\ members[r] # Null
  /\ members[r].removed # gone
  /\ Writes(r, [members[r] EXCEPT !.removed = gone])

\* An admin links a record by hand, or repoint does after an account was
\* removed and made again.
LinkByHand(r, s) ==
  /\ members[r] # Null
  /\ members[r].subject # s
  /\ Writes(r, [members[r] EXCEPT !.subject = s])

ChangeAddress(r, e) ==
  /\ members[r] # Null
  /\ members[r].subject # Null
  /\ ~members[r].removed
  /\ members[r].email # e
  /\ Writes(r, [members[r] EXCEPT !.email = e])

-----------------------------------------------------------------------------
RunsOn(q) ==
  \/ ReadKnown(q)
  \/ OwnRecord(q)
  \/ RemovedRecord(q)
  \/ MatchAddress(q)
  \/ TakenAddress(q)
  \/ Claim(q)
  \/ Insert(q)
  \/ EnterSubject(q)
  \/ EnterEmail(q)
  \/ SendTheAddress(q)
  \/ SetTheAddress(q)
  \/ NoAddressToSet(q)
  \/ EnterAddress(q)
  \/ Answer(q)
  \/ GrantTheSeat(q)

Step(q) ==
  \/ \E s \in Subjects, e \in Emails \cup {Null} : Arrive(q, s, e)
  \/ \E s \in Subjects : Seat(q, s)
  \/ RunsOn(q)
  \/ SeatRefused(q)
  \/ TimesOut(q)
  \/ DeadlockVictim(q)

Meanwhile ==
  \E r \in RecordIds :
    \/ \E gone \in BOOLEAN : SetRemoved(r, gone)
    \/ \E s \in Subjects : LinkByHand(r, s)
    \/ \E e \in Emails \cup {Null} : ChangeAddress(r, e)

Next == (\E q \in Requests : Step(q)) \/ Meanwhile

Spec == Init /\ [][Next]_vars

(***************************************************************************)
(* Statements run on once nothing they wait for is in the way, and the     *)
(* deadlock detector fires.                                                *)
(***************************************************************************)
FairSpec ==
  /\ Spec
  /\ \A q \in Requests : /\ WF_vars(RunsOn(q))
                         /\ WF_vars(DeadlockVictim(q))

-----------------------------------------------------------------------------
(* Properties.                                                             *)

TypeOK ==
  /\ members \in [RecordIds -> Row \cup {Null}]
  /\ roled \subseteq RecordIds
  /\ draft \in [Requests -> Written \cup {Null}]
  /\ call \in [Requests ->
       [kind: {"api", "seat", Null}, subject: Subjects \cup {Null},
        email: Emails \cup {Null}, at: Places,
        known: RecordIds \cup {Null}, record: RecordIds \cup {Null},
        answer: Answers \cup {Null}]]
  /\ hands \in 0..MaxHands
  /\ removal \in [Requests -> {"never", "partly", "always"}]
  /\ owned \in [Requests -> SUBSET RecordIds]

\* Whatever is finished and whatever is not, no two records ever commit with
\* one sign in or one address (001:90-91, and what the waits of EnterSubject,
\* EnterEmail and EnterAddress are for).
RecordsAreDistinct ==
  \A r, o \in RecordIds, key \in Keys :
    r # o /\ members[r] # Null /\ members[o] # Null =>
      \/ Of(members[r], key) = Null
      \/ Of(members[r], key) # Of(members[o], key)

\* A member whose record is removed for the whole of a POST /me is told so.
\* They are not given a second record, and are not sent round again by a 500
\* (015:1-14, problems.py:104-116).
RemovedMembersAreTold ==
  \A q \in Requests :
    call[q].kind = "api" /\ call[q].at = "done" /\ removal[q] = "always" =>
      call[q].answer = "removed"

\* POST /me adds a record or fills in an empty address on a record that has
\* been the caller's own in that very request.  It joins no record that was
\* there to a sign in and replaces no address, whoever else wrote in the
\* meantime, and also when the record was given to another while the statement
\* waited for its row (first_sign_in.py:13-22, 62-74; 012:47-62).
FirstSignInOnlyAdds ==
  [][\A q \in Requests, r \in RecordIds :
       /\ call[q].kind = "api"
       /\ call[q].at # "done" /\ call'[q].at = "done"
       /\ members[r] # Null
       => \/ members'[r] = members[r]
          \/ /\ r \in owned[q]
             /\ members[r].email = Null
             /\ members'[r] = [members[r] EXCEPT !.email = call[q].email]]_vars

\* Every request is answered, whoever holds the rows and the index entries it
\* waits for.
EveryRequestIsAnswered ==
  \A q \in Requests : call[q].at # "new" ~> call[q].at = "done"

\* What problems.py:124-129 tells a caller, and no run checks: the record this
\* sign in belongs to was removed.  One joined to it between the two SELECTs of
\* 015:30-40 is found by the second and reported so.
ToldRemovedMeansRemoved ==
  \A q \in Requests : call[q].answer = "removed" => removal[q] # "never"

=============================================================================
