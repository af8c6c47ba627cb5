----------------------------- MODULE MembersApi -----------------------------
(***************************************************************************)
(* A request through the members API: the token is checked against the     *)
(* keys held (KeySet), a connection is taken from the pool, one            *)
(* transaction is opened as the caller, the database is asked who that is, *)
(* the endpoint runs its statements, each with a snapshot of its own, and  *)
(* one answer goes out.  What a request asks for is chosen where the code  *)
(* first looks at it.                                                      *)
(*                                                                         *)
(* Beside the requests, somebody in psql locks a member's row and joins    *)
(* the record to a sign in, or takes it away.  POST /me is the module      *)
(* FirstSignIn.                                                            *)
(***************************************************************************)
EXTENDS KeySet

CONSTANTS Connections,    \* the pool at its pool_max
          NoConnection,
          Subjects,       \* the sub claims tokens carry
          Nobody,         \* no identity: None, or SQL NULL
          MaxHands        \* bound: statements of others on members

ASSUME ApiAssumption ==
  /\ NoConnection \notin Connections
  /\ {Nobody, "directory"} \cap Subjects = {}
  /\ MaxHands \in Nat

VARIABLES at,         \* where a request is
          who,        \* the subject of its token
          conn,       \* the connection it holds
          setting,    \* oro.identity_subject on a connection
          record,     \* the subjects current_member_id() finds a record for
          locked,     \* rows another session holds, by subject
          draft,      \* the row a request updates and has not committed
          saved,      \* what became of a request's update
          answered,   \* what a request was answered
          hands       \* statements of others so far

requests == <<at, who, conn, setting, draft, saved, answered>>
others == <<record, locked, hands>>
vars == <<keyset, requests, others>>

Places == {"new", "reading keys", "waiting", "begun", "identified", "own",
           "changing", "written", "answered"}
InTransaction == {"begun", "identified", "own", "changing", "written"}

Ok == "ok"
Problems == {"unauthenticated", "not-in-directory", "invalid-request",
             "no-member-record", "no-waiver-recorded", "email-already-known",
             "record-was-removed", "no-such-path", "wrong-method", "unexpected"}
Fates == {"rolled back", "committed", "unheard"}
Answers == [said: Problems \cup {Ok}, about: Subjects \cup {Nobody, "directory"}]
Problem(p) == [said |-> p, about |-> Nobody]
Rows(s) == [said |-> Ok, about |-> s]

-----------------------------------------------------------------------------
(* Which problem a refusal is told as (refusals.py, profile.py).           *)

refused_by_the_database(message) ==
  CASE message = "no identity" -> "unauthenticated"
    [] message = "removed record" -> "record-was-removed"
    [] OTHER -> "unexpected"

refused_by_a_unique_constraint(name) ==
  IF name = "members_email_key" THEN "email-already-known" ELSE "unexpected"

refused_by_the_router == {"no-such-path", "wrong-method", "unexpected"}

\* The constraints an UPDATE of one's own record may meet.
Constraints == {"social_urls_are_http", "members_tier_id_fkey", "not null",
                "members_email_key", "another"}

\* What a member can act on is a field of theirs; the rest goes up.
what_the_database_refused(name) ==
  IF name \in {"social_urls_are_http", "members_tier_id_fkey", "not null"}
  THEN "invalid-request"
  ELSE refused_by_a_unique_constraint(name)

-----------------------------------------------------------------------------
(* The pool and the transaction.                                           *)

Free == Connections \ {conn[r] : r \in Requests}

\* Faulty: SET in place of SET LOCAL, so the identity outlives the transaction.
EndsKeepingIdentity(r, said, fate) ==
  /\ at' = [at EXCEPT ![r] = "answered"]
  /\ answered' = [answered EXCEPT ![r] = said]
  /\ conn' = [conn EXCEPT ![r] = NoConnection]
  /\ saved' = [saved EXCEPT ![r] = IF draft[r] = Nobody THEN @ ELSE fate]
  /\ draft' = [draft EXCEPT ![r] = Nobody]
  /\ UNCHANGED <<keyset, who, setting, others>>

\* Faulty: a refusal leaves its connection out of the pool.
EndsKeepingConnection(r, said, fate) ==
  /\ at' = [at EXCEPT ![r] = "answered"]
  /\ answered' = [answered EXCEPT ![r] = said]
  /\ conn' = [conn EXCEPT ![r] = IF fate = "committed" THEN NoConnection ELSE @]
  /\ setting' = [setting EXCEPT ![conn[r]] = Nobody]
  /\ saved' = [saved EXCEPT ![r] = IF draft[r] = Nobody THEN @ ELSE fate]
  /\ draft' = [draft EXCEPT ![r] = Nobody]
  /\ UNCHANGED <<keyset, who, others>>

\* The with block ends: by leaving it, which commits whatever the answer is, or
\* by an exception, which rolls back.  The settings were LOCAL, and the
\* connection goes back to the pool.
Ends(r, said, fate) ==
  /\ at' = [at EXCEPT ![r] = "answered"]
  /\ answered' = [answered EXCEPT ![r] = said]
  /\ conn' = [conn EXCEPT ![r] = NoConnection]
  /\ setting' = [setting EXCEPT ![conn[r]] = Nobody]
  /\ saved' = [saved EXCEPT ![r] = IF draft[r] = Nobody THEN @ ELSE fate]
  /\ draft' = [draft EXCEPT ![r] = Nobody]
  /\ UNCHANGED <<keyset, who, others>>

Leaves(r, said) == Ends(r, said, "committed")
Raises(r, problem) == Ends(r, Problem(problem), "rolled back")

GoesOn(r, place) ==
  /\ at' = [at EXCEPT ![r] = place]
  /\ UNCHANGED <<keyset, who, conn, setting, draft, saved, answered, others>>

-----------------------------------------------------------------------------
(* Before the transaction.                                                 *)

\* The router and the reading of the request answer before any endpoint runs.
RefusedBeforeTheEndpoint(r, problem) ==
  /\ at[r] = "new"
  /\ at' = [at EXCEPT ![r] = "answered"]
  /\ answered' = [answered EXCEPT ![r] = Problem(problem)]
  /\ UNCHANGED <<keyset, who, conn, setting, draft, saved, others>>

\* A token names a key and a subject, or is not usable at all: no header, not
\* readable, expired, for another audience, a signature that does not fit.
Tokens == [kid: Keys, sub: Subjects]
            \cup [kid: {NoRequest}, sub: {Nobody}]

subject_from(token, keys) == IF token.kid \in keys THEN token.sub ELSE Nobody

Verified(r, token, keys) ==
  /\ who' = [who EXCEPT ![r] = subject_from(token, keys)]
  /\ at' = [at EXCEPT ![r] = "waiting"]
  /\ UNCHANGED <<conn, setting, draft, saved, answered, others>>

\* _signing_key: the thread that finds the set stale reads it, unless another
\* is reading.
LookForKey(r, token) ==
  /\ at[r] = "new"
  /\ IF Stale /\ reader = NoRequest
     THEN /\ StartRead(r)
          /\ at' = [at EXCEPT ![r] = "reading keys"]
          /\ UNCHANGED <<who, conn, setting, draft, saved, answered, others>>
     ELSE Verified(r, token, held) /\ UNCHANGED keyset

KeysRead(r, token, ok) ==
  /\ at[r] = "reading keys"
  /\ EndRead(r, ok)
  /\ Verified(r, token, held')

\* BEGIN, SET LOCAL ROLE, and the identity where there is one.
TakeConnection(r, c) ==
  /\ at[r] = "waiting"
  /\ c \in Free
  /\ conn' = [conn EXCEPT ![r] = c]
  /\ setting' = [setting EXCEPT ![c] = IF who[r] = Nobody THEN @ ELSE who[r]]
  /\ at' = [at EXCEPT ![r] = "begun"]
  /\ UNCHANGED <<keyset, who, draft, saved, answered, others>>

\* WAIT_FOR_A_CONNECTION_SECONDS pass, for a full pool or no database.
WaitTimesOut(r) ==
  /\ at[r] = "waiting"
  /\ at' = [at EXCEPT ![r] = "answered"]
  /\ answered' = [answered EXCEPT ![r] = Problem("unexpected")]
  /\ UNCHANGED <<keyset, who, conn, setting, draft, saved, others>>

\* The member the database says this transaction acts as.
current_member_id(r) ==
  IF setting[conn[r]] \in record THEN setting[conn[r]] ELSE Nobody

\* The first query of every transaction, which raises where no identity is set.
AskWhoThisIs(r) ==
  /\ at[r] = "begun"
  /\ IF setting[conn[r]] = Nobody
     THEN Raises(r, refused_by_the_database("no identity"))
     ELSE GoesOn(r, "identified")

\* Faulty: a statement that waits for a row has no ceiling.
FailsUnlessWriting(r) ==
  /\ at[r] \in InTransaction \ {"changing"}
  /\ Raises(r, "unexpected")

\* A statement runs into its ceiling, the transaction into the one for idling,
\* or the connection breaks.
Fails(r) ==
  /\ at[r] \in InTransaction
  /\ Raises(r, "unexpected")

\* The database commits and the connection breaks before it says so.
CommitIsUnheard(r) ==
  /\ at[r] = "written"
  /\ Ends(r, Problem("unexpected"), "unheard")

-----------------------------------------------------------------------------
(* The endpoints.                                                          *)

get_me(r) ==
  /\ at[r] = "identified"
  /\ Leaves(r, IF current_member_id(r) = Nobody
               THEN Problem("no-member-record") ELSE Rows(current_member_id(r)))

\* The fields are refused after the database has said who this is.
list_directory(r, known) ==
  /\ at[r] = "identified"
  /\ Leaves(r, IF known THEN Rows("directory") ELSE Problem("invalid-request"))

get_directory_member(r, known, listed) ==
  /\ at[r] = "identified"
  /\ Leaves(r, IF ~known THEN Problem("invalid-request")
               ELSE IF listed THEN Rows("directory")
               ELSE Problem("not-in-directory"))

\* Every other path asks first whether the caller has a record at all.
caller_member_id(r) ==
  /\ at[r] = "identified"
  /\ IF current_member_id(r) = Nobody
     THEN Leaves(r, Problem("no-member-record"))
     ELSE GoesOn(r, "own")

\* Cards, certifications and eligibility: one query, which asks again who the
\* caller is and finds nothing if they have no record by now.
read_own(r) ==
  /\ at[r] = "own"
  /\ Leaves(r, Rows(current_member_id(r)))

get_my_waiver(r, signed) ==
  /\ at[r] = "own"
  /\ Leaves(r, IF signed /\ current_member_id(r) # Nobody
               THEN Rows(current_member_id(r)) ELSE Problem("no-waiver-recorded"))

list_my_door_events(r, legible) ==
  /\ at[r] = "own"
  /\ Leaves(r, IF legible THEN Rows(current_member_id(r))
               ELSE Problem("invalid-request"))

\* A row is written by one transaction at a time.
Unlocked(s) == s \notin locked /\ \A q \in Requests : at[q] = "written" => draft[q] # s

\* Nothing to change is nothing sent; no record by now is no row to update.
write_the_change(r, empty) ==
  LET row == IF empty THEN Nobody ELSE current_member_id(r) IN
  /\ at[r] = "own"
  /\ draft' = [draft EXCEPT ![r] = row]
  /\ at' = [at EXCEPT ![r] = IF row = Nobody THEN "written" ELSE "changing"]
  /\ UNCHANGED <<keyset, who, conn, setting, saved, answered, others>>

\* Faulty: the UPDATE commits by itself.
CommitsByItself(r) ==
  /\ at[r] = "changing"
  /\ Unlocked(draft[r])
  /\ saved' = [saved EXCEPT ![r] = "committed"]
  /\ at' = [at EXCEPT ![r] = "written"]
  /\ draft' = [draft EXCEPT ![r] = Nobody]
  /\ UNCHANGED <<keyset, who, conn, setting, answered, others>>

\* The UPDATE has waited for whoever holds the row.
RowIsUpdated(r) ==
  /\ at[r] = "changing"
  /\ Unlocked(draft[r])
  /\ GoesOn(r, "written")

ChangeIsRefused(r, name) ==
  /\ at[r] = "changing"
  /\ Unlocked(draft[r])
  /\ Raises(r, what_the_database_refused(name))

\* PATCH /me answers what it reads back, whatever that is.
ReadBack(r) ==
  /\ at[r] = "written"
  /\ Leaves(r, Rows(current_member_id(r)))

Endpoint(r) ==
  \/ get_me(r)
  \/ \E known \in BOOLEAN : list_directory(r, known)
  \/ \E known, listed \in BOOLEAN : get_directory_member(r, known, listed)
  \/ caller_member_id(r)
  \/ read_own(r)
  \/ \E signed \in BOOLEAN : get_my_waiver(r, signed)
  \/ \E legible \in BOOLEAN : list_my_door_events(r, legible)
  \/ \E empty \in BOOLEAN : write_the_change(r, empty)
  \/ RowIsUpdated(r)
  \/ \E name \in Constraints : ChangeIsRefused(r, name)
  \/ ReadBack(r)

-----------------------------------------------------------------------------
(* Others, and time.                                                       *)

\* Somebody else's transaction locks a member's row, for as long as it likes,
\* and commits the record joined to the sign in or not.
OthersLock(s) ==
  /\ hands < MaxHands
  /\ Unlocked(s)
  /\ locked' = locked \cup {s}
  /\ hands' = hands + 1
  /\ UNCHANGED <<keyset, requests, record>>

OthersCommit(s, joined) ==
  /\ s \in locked
  /\ locked' = locked \ {s}
  /\ record' = IF joined THEN record \cup {s} ELSE record \ {s}
  /\ UNCHANGED <<keyset, requests, hands>>

Provider ==
  /\ \/ ProviderAnswers
     \/ \E k \in Keys : Publish(k) \/ Withdraw(k)
     \/ Tick
  /\ UNCHANGED <<requests, others>>

Init ==
  /\ KeysInit
  /\ at = [r \in Requests |-> "new"]
  /\ who = [r \in Requests |-> Nobody]
  /\ conn = [r \in Requests |-> NoConnection]
  /\ setting = [c \in Connections |-> Nobody]
  /\ record \in SUBSET Subjects
  /\ locked = {}
  /\ draft = [r \in Requests |-> Nobody]
  /\ saved = [r \in Requests |-> "rolled back"]
  /\ answered = [r \in Requests |-> Problem("unexpected")]
  /\ hands = 0

\* A request once the endpoint has begun: it looks, waits, asks and answers.
Step(r) ==
  \/ \E t \in Tokens, ok \in BOOLEAN : KeysRead(r, t, ok)
  \/ \E c \in Connections : TakeConnection(r, c)
  \/ WaitTimesOut(r)
  \/ AskWhoThisIs(r)
  \/ Endpoint(r)
  \/ Fails(r)
  \/ CommitIsUnheard(r)

Next ==
  \/ \E r \in Requests :
       \/ \E p \in refused_by_the_router \cup {"invalid-request"} :
            RefusedBeforeTheEndpoint(r, p)
       \/ \E t \in Tokens : LookForKey(r, t)
       \/ Step(r)
  \/ \E s \in Subjects :
       \/ OthersLock(s)
       \/ \E joined \in BOOLEAN : OthersCommit(s, joined)
  \/ Provider

Spec == Init /\ [][Next]_vars

\* A request that has been taken up goes on: a read of the keys has a timeout,
\* a wait for a connection and a statement have one each.
FairSpec == Spec /\ \A r \in Requests : WF_vars(Step(r))

-----------------------------------------------------------------------------
(* Properties.                                                             *)

\* The service and the rows it works on are well typed.
TypeOK ==
  /\ KeysTypeOK
  /\ at \in [Requests -> Places]
  /\ who \in [Requests -> Subjects \cup {Nobody}]
  /\ conn \in [Requests -> Connections \cup {NoConnection}]
  /\ setting \in [Connections -> Subjects \cup {Nobody}]
  /\ record \in SUBSET Subjects
  /\ locked \in SUBSET Subjects
  /\ draft \in [Requests -> Subjects \cup {Nobody}]
  /\ saved \in [Requests -> Fates]
  /\ answered \in [Requests -> Answers]
  /\ hands \in 0 .. MaxHands

\* A caller is answered with their own rows or with none, and one with no
\* usable token with none, whoever had the connection before (database.py:8-24).
RowsAreTheCallers ==
  \A r \in Requests : at[r] = "answered" =>
    /\ answered[r].about \in Subjects => answered[r].about = who[r]
    /\ answered[r].said = Ok => who[r] # Nobody

\* Every problem says that nothing was saved or changed (problems.py), and an
\* update whose commit the service heard of is answered as one.  The exception
\* is a commit it did not hear of, which is told as "unexpected".
RefusedMeansUnchanged ==
  \A r \in Requests :
    at[r] = "answered" /\ answered[r].said # Ok =>
      /\ saved[r] # "committed"
      /\ saved[r] = "unheard" => answered[r].said = "unexpected"

\* A connection is held by one request in its transaction, carries that
\* request's identity and no other, and is back without one when it is answered.
PoolIsWhole ==
  /\ \A r \in Requests : (conn[r] # NoConnection) <=> (at[r] \in InTransaction)
  /\ \A r, q \in Requests : conn[r] = conn[q] /\ conn[r] # NoConnection => r = q
  /\ \A r \in Requests : conn[r] # NoConnection => setting[conn[r]] = who[r]
  /\ \A c \in Free : setting[c] = Nobody

\* After a read that succeeded, a key the provider had withdrawn before it is
\* not believed any more: what is held was published within the age the set
\* shows (identity.py:92-96).
FreshSetsAreCurrent ==
  fresh /\ reader = NoRequest => \A k \in held : gone[k] <= age + 1

\* Every request whose endpoint has begun is answered, whatever the provider,
\* the pool and the owners of row locks do (database.py:51-70, identity.py:88-91).
EveryRequestIsAnswered ==
  \A r \in Requests : at[r] \notin {"new", "answered"} ~> at[r] = "answered"

\* What identity.py:20-23 says of a key the provider withdrew, allowing it one
\* read of the set on top of its age.  The code keeps the old keys for as long as
\* its reads fail, so this is stated and not kept; no run checks it.
WithdrawnKeysStop ==
  \A k \in Accepted : gone[k] <= MaxAge + ReadTimeout + 1

=============================================================================
