# A formal model of project-oro

project-oro runs the membership of a makerspace: who is a member, who may
administer, which card opens which door. This directory holds TLA+ models of
the parts whose order of events decides whether they are right, the TLC
configurations that check them on small instances, and proofs, checked by
TLAPS, of what matters most for instances of every size.

Paths below are relative to the repository. A number before `.sql` stands for
the migration of that number under `db/migrations/`.

## 1. The system

| Component | State it keeps | Operations | Talks to |
|---|---|---|---|
| Two approver rule (`db/migrations/002,003,005,007,010,012,013`) | `approvals`, `member_roles`, the latch `two_approver_armed`, `members.deleted_at` | propose, decide, withdraw, grant, revoke, move an expiry, remove and restore a member, import roles | every statement on these tables, from the API, from `psql` and from the import |
| Members API (`services/api/app`) | the connection pool, the identity provider's key set; the rest is in the database | `GET/POST/PATCH /me`, directory, cards, eligibility, door events | PostgreSQL, one transaction for a request; the provider's JWKS |
| First sign-in (`first_sign_in.py`, `015`) | `members.identity_subject`, `email`, `deleted_at` | link an existing record, or make one | the API, and the tool that seats the first admins |
| Door adapter (`services/door/adapters/oac_ethernet`) | one lock; nothing survives a call | status, card table, write a slot, clear a slot, open, unlock, lock | the board, over HTTP on a network that loses things |
| Door controller board (`services/door/adapters/fake/device.py`, which says in code what the firmware does) | card table in EEPROM, alarm bytes, door locks, privilege bit, failed logins, lockout window | one request at a time | whoever is on its network |
| Reconciliation (`services/door/domain`) | the plan of one pass | read the table, plan the changes, apply them | the adapter, the rows of the database |
| Door events (`door_events.py`, `008`) | `door_events` | record one, read a page | the door service, the API |
| Members portal (`apps/members`) | tokens in a browser tab, what each view shows, a profile form | sign in, renew, sign out, load, save, claim | the provider, the API |
| Seating admins, sign ins (`tools/bootstrap`, `tools/identity/make_a_sign_in.py`) | accounts at the provider, rows in the database, a password on a terminal | seat three people, make, repair or replace a sign in | both |
| Identity configuration (`tools/identity/configure.py`) | the provider's own settings | configure, and again | the provider |
| Schema, backup and restore (`db/apply-the-schema.sh`, `tools/backup`) | the database, archive files, a copy on the container's `/dev/shm` | apply the files, dump, restore over a database | PostgreSQL, docker |
| Legacy import (`tools/migration`) | staging tables | preflight, migrate, verify | PostgreSQL |
| Tokens, validators, repository checks, proxy | none at run time | | |

What is hard here, and what makes each part right:

* **Two approver rule.** A rule that switches itself on. Before it binds, a
  fixed number of admins may be granted with no approval, and afterwards every
  admin grant needs two people. Rows are revoked, expire, are removed and come
  back, and the switch must not switch back. Two transactions may count before
  either commits, and both may wait on the same index. Right means: no more
  seats than the quota, no admin past the rule, and a decision that keeps the
  two people who made it.
* **Request path.** One thread reads the keys and the rest go on with what
  there is; a few connections serve many requests and carry the caller's
  identity as a setting; the record a caller has may be taken from them between
  two statements of one request. Right means: nobody sees another's rows, a
  refusal has changed nothing, every request is answered.
* **First sign-in.** A SECURITY DEFINER function of five SELECTs and two
  writes, each with a snapshot of its own, on rows an admin edits meanwhile.
  Right means: nobody is joined to a record without an admin, nobody has two
  records, and a removed member is told so instead of being sent in circles.
* **Door adapter and board.** The board has one privilege bit for everybody
  and a card table whose bounds check is off by one. The network loses requests
  and answers, and a timeout does not say which. Right means: the bit is never
  left set, no slot number reaches the alarm bytes, and what is reported as
  done was done.
* **Reconciliation.** The board's table is read, planned against and written
  without a transaction, and an answer cut short reads as empty slots, or as
  another card. Right means: a pass that says it is done has made the table what
  was asked for, as far as its read backs were whole, and writes only what
  differs, unless somebody else was at the table.
* **Door events.** The door sends what it has kept, late and more than once,
  while a member pages through what is there. Right means: no entry is missed
  or shown twice.
* **Portal.** One renewal of a rotating token for many requests, a sign out in
  the middle of them, and answers in any order. Right means: no token is spent
  twice, none is left after a sign out, and the form shows what the next save
  would write back.
* **Operator's tools.** Sequences of calls to systems that share no
  transaction, stopped anywhere and run again. Right means: one of each thing,
  an end that is what the tool says it is, and nothing left behind.

PROJECT.json lists each of these hazards at its line, with the properties that
cover it or the reason why none does.

## 2. The modules

| Module | Models | Run | Proofs |
|---|---|---|---|
| `SeatLedger` | what the rule promises; abstract | as a property of `role_grants` | |
| `RoleGrants` | the rule, one action for each statement; implements `SeatLedger` | `role_grants` | `RoleGrantsProofs` |
| `RoleGrantTxns` | the same INSERT as open READ COMMITTED transactions take it | `role_grant_txns`, `role_grant_quota` | `RoleGrantTxnsProofs` |
| `DoorDevice` | the board | in `reconcile` and `door_controller` | `ReconcileProofs` |
| `DoorController` | the adapter, its callers, the network; EXTENDS `DoorDevice` | `door_controller`, `door_unreachable` | `DoorControllerProofs` |
| `SlotKeeper` | what a pass over the card table promises; abstract | as a property of `reconcile` | |
| `Reconcile` | the pass; EXTENDS `DoorDevice`, implements `SlotKeeper` | `reconcile` | `ReconcileProofs` |
| `DoorEvents` | the record of entries, and paging through it | in `first_sign_in` | `FirstSignInProofs` |
| `FirstSignIn` | `POST /me`, seating, and what goes on beside them | `first_sign_in` | `FirstSignInProofs` |
| `KeySet` | the provider's keys as the API holds them | in `members_api` | `MembersApiProofs` |
| `MembersApi` | a request from token to answer, the pool; EXTENDS `KeySet` | `members_api` | `MembersApiProofs` |
| `MembersPortal` | one browser tab | `portal` | `MembersPortalProofs` |
| `Configure` | `configure.py` and the identity service | `operator_tools` | `OperatorToolsProofs` |
| `SignIns` | the commands that make accounts, and the hosted screens | `operator_tools`, `handed_over` | `OperatorToolsProofs` |
| `DatabaseTools` | the schema service, `backup.sh`, `restore.sh` | `operator_tools`, `schema_completed` | `OperatorToolsProofs` |

Each `MC...` module gives TLC its constants and, where no liveness property is
checked, a symmetry set. Definitions keep the names of the functions and
triggers they come from. A definition whose comment starts with "Faulty" is a
plausible bug: PROJECT.json pairs it with a definition and a property, and the
property fails when it takes that definition's place. No specification uses
one.

### RoleGrants and SeatLedger

State: the two tables by id, the latch, and the set of removed members. Three
history variables (`panel`, `bound`, `imported`) record what happened and are
read by no guard.

An action is a whole statement: the row level security policy that admits it,
the BEFORE trigger, the CHECKs, the foreign key and the partial unique
indexes, then the AFTER STATEMENT trigger. `GrantRole`, `RevokeRole` and
`MoveExpiry` all end in `arm_two_approver_rule`, and so does `UpdateNothing`,
an UPDATE that matches no row, because statement triggers fire for it too.
`RemoveMember` and `RestoreMember` do not, because no trigger on `members` arms
the rule. A statement that is refused is not a step.

Time is kept as what the rules compare: a grant's expiry is absent, ahead or
passed, and an approval is late when its decision is after its expiry.

`SeatLedger` has who holds an admin grant, who is removed, how many seats are
given, the latch, and what two people have decided about whom. `Appoint` gives
a seat while there are seats and no latch, or follows a decision; `Decide` asks
the latch whether the two have to be admins. The tables keep that ledger
(`Ledger`): holders are the members of live admin rows, seats the rows with no
approval that were not imported, decisions the approved rows. A grant that
names an undecided approval before the rule binds is an `Appoint` that takes no
seat, since the code counts none for it.

Left out: who granted (`stamp_actor`), an INSERT of a row that is already
revoked, a statement that writes several rows at once (the import excepted,
which does), DELETE (nothing sends it), the text of reasons and refusals.

### RoleGrantTxns

`GrantRole` of `RoleGrants` in the steps PostgreSQL takes: BEFORE trigger,
index entry, AFTER trigger, latch row. A row carries the session that wrote
it, which is how "what this session sees" and "what may still go away" are
told apart. Waiting is a step that is not enabled; `DeadlockVictim` is the
detector. The approvals are given, because deciding them has no race of its
own here: their UPDATEs lock one row and freeze it.

### DoorDevice and DoorController

`Handle` is one request: the login, the command if the login allows it, and the
logout behind it. `takes` is an EEPROM write that does not stick. Slot numbers
go up to and including `NUMUSERS`, as the firmware's check does, and the last
one wraps on to the alarm bytes. Tags and masks are one value.

`DoorController` adds threads with a program counter: wait for the lock, send,
wait for an answer, read back. A request in `net` may be served, lost, or
served after its sender gave up, since the board does not know that. An answer
may be cut before its header ends (`no header`), after it (`cut`), or inside a
card table or a slot, where the parser makes something of it: rows past the cut
read as empty slots, and a line cut inside its tag reads as a card whose tag
begins as the other's does (`CutTag`), since `_DUMP_LINE` takes one to eight hex
digits and wants nothing behind them (`wire.py:32`, 170-179). `torn` keeps which
operations had such a read back. `Crash` ends the door service, `PowerCycle`
restarts the board, `OtherClient` sends requests without the password.

`CutTag` gives for each entry the cards a cut line of it may read as. An empty
slot has some too, because an erased record is FF bytes and its line is not told
from a card's once its tag is short. That cut again it gives nothing new is the
assumption `DoorControllerAssumption` makes of it. In the instances every longer
tag, and the erased record, can be cut down to `ShortCard`.

Bounds: operations started (`MaxOps`) and wrong passwords (`MaxFailures`).

### Reconcile and SlotKeeper

The repository has the plan (`reconcile.py`) and the operations; the loop that
joins them is its conformance suite's `apply_plan`, and the module says so. A
step of the pass is one request the board serves, so `DoorDevice` does the
work, with any other client's request between any two. `SlotEntry` and
`normalise_tag` are kept as what they do to a diff: a tag spelt another way is
the same card, and a marker for "no card" is refused. `Breaks` stands for a
lost request, a lost answer and a crash; what was on its way may be served
later (`ServeLate`), one request at most. `Parsed` is a table cut at a row or
inside a row's tag, and `ReadBack` may see a line that is cut the same way
(`CutRow`): it is believed when it reads as what was asked for.

`SlotKeeper` has the table, what was asked, two flags, whether anybody else
has been at the table and whether the pass calls itself settled, and the slots
whose read back was cut inside the tag (`torn`). `Bring` brings one slot to what
was asked, and one that differs; a settled pass has every slot as asked, or one
of `torn` with a card the asked one is the beginning of. `Reconcile` implements
it, with "the table was read to its end" as part of `quiet`.

### FirstSignIn

A request is a record of where it is and what it has read. Its one uncommitted
row is `draft`, which is also its row lock. `Enter` is a unique index: it waits
for an unfinished row that may hold the value, is refused by a finished one, or
goes in. `link_or_create_member` is VOLATILE, so every statement of it sees
what is committed when it runs, and each is an action. The check of the role a
record holds is taken with the SELECT before it, since only a seating grants
one here. `SET_THE_ADDRESS` is two actions: `SendTheAddress` takes the
statement's snapshot, which says whose record it is, and `SetTheAddress` has
the row lock and asks again only whether the address is empty, because
`current_member_id()` is STABLE (012:47-62) and answers from the snapshot. A
record that passed to another subject while the statement waited is written all
the same; `owned` keeps which records have been the caller's. An admin's or
member's own UPDATE is one statement that commits, of which there are at most
`MaxHands`.

### DoorEvents

`record_event` is one transaction for each call, and those overlap: a row has
its number before it is committed, may not be committed at all, and may be sent
again, before or after its time has passed other rows by. Waiting for an open
row with the same `dedupe_key` is a step that is not enabled. `read_page` keeps
the order and the row more than the limit (`NEWEST_FIRST`, the answers that
ORDER BY and LIMIT allow), and the cursor, which is the last row shown; `Past`
is the row comparison of `LATER_PAGE`. A page is one statement, so it is one
step, and entries arrive between pages. Bounds: `MaxIds` numbers of the
sequence, pages of at most `MaxLimit`.

`MCFirstSignIn` has it beside `FirstSignIn`, which reads nothing it writes, so
a behaviour has one of the two.

### KeySet and MembersApi

`KeySet` is `identity.py`: a request that finds the set older than `MaxAge`
reads it on its own thread, the stamp is set before the read, a failed read
leaves the keys, and everybody else goes on. Time is ticks, counted up to
`Late`; `gone` is how long a key has been withdrawn. The provider answers at
any moment of a read, which ends by `ReadTimeout`.

`MembersApi` takes a request through the token check, the wait for a
connection, the transaction as the caller, `caller_member_id`, the endpoint's
statements and the one answer. The mapping from exceptions to problems is
`refused_by_...`, after `refusals.py`. Beside it, `psql` locks a row and links
or unlinks a record (`MaxHands`). Endpoints are told apart by what they do to
the properties: reads of one's own rows, reads of the directory, an update of
one's own record. `POST /me` is `FirstSignIn`.

### MembersPortal

A page runs on one thread, so a handler runs up to its next `await` as one
step, and the interleavings are those of answers. A request is served before it
is heard, and a page that goes takes its handlers with it and leaves
`sessionStorage`. The refresh token rotates: only the last one given is taken.
Refused and unanswered are one outcome, "trouble", since the code after them
differs only in its words.

The API goes on with a request whose page has gone or whose `fetch` has failed.
What such a request may still change is `astray`: a save or a first sign-in that
was on its way (`Left`), served at any later moment (`ServedUnheard`), after the
next page has read the older record for instance, or never. A renewal nobody
waits for needs no such set: one that is served late spends its token as one
that was served in time does.

`crossed` keeps the views about which a request was sent while another was under
way, a stray save included, which two properties leave out; section 7 says what
happens there. Bounds: `Tasks` at once, `MaxTokens` refresh tokens, `MaxAstray`
requests astray. `MCSpec` has one astray at a time, and only while the token is
fresh and the member neither signs in nor has signed out, because a stray
request writes nothing that signing in, renewing and signing out read; the
theorems have no such bound.

### Configure and SignIns

`Configure` is one `configure.py` after another, with a stop before any call
(`Stops`), a call whose answer is not heard (`Then`), reads that trail the
writes (`behind`, `CatchUp`) and changes made in the service's console
(`Hand`). The instance may have been configured by an older version, under ids
it generated. Such a client is found by its exact name (`clients.py:69-80`,
`registrations.py:70-77`), so one that was renamed in the console (`Renamed`) is
not found, and a second is registered beside it. `MaxStops` and `MaxByHand`
bound the stops and the changes by hand. Bound besides: nobody removes anything,
or renames the project or the door's service account, by hand.

`SignIns` is one command at a time for one person after another, cut off
between any two calls (`CutOff`, at most `MaxCuts`). `Pages` is what the hosted
screens show an account, `through_the_screens` whether `flow.py`'s walk gets to
the end of them within `ScreenLimit`.

### DatabaseTools

A database is how many of the files are in it and whose rows it holds; the
roles are the cluster's: `oro_api`, `oro_api_login`, and the grant of the one to
the other. `LookAtSchema` asks for one table, `ApplyFile` is a file's
transaction. Behind both, `LookForTheLoginRole` asks its own question, and
`CreateTheLoginRole` and `GrantOroApi` are the two statements of
`oro_api_login.sql`, of which the second fails where `004_security.sql` has not
run and leaves the first committed.

`restore.sh` and the process `docker exec` starts are two programs: `inside`
goes on whatever happens to `script`, and both remove the copy on `/dev/shm`.
`Signal` is a signal at any time, while the EXIT trap runs included; `stopped`
is the trap's terminate and what it says, `cleanup` the EXIT trap. Either may
get no answer, which the script lets go (`|| echo 0`, `|| true`): a terminate
that was not answered is told as one that found nobody, whether it was carried
out or not, and a copy whose removal was not answered stays. A shell whose
`pg_restore` has ended (`committed`, `rolled back`) still has its `rm` to run.
The number of members is compared in `members_in_the_database` and nowhere
later. A missing answer, a signal and a dropped database are `Breaks`, at most
`MaxBreaks` of them. Bounds besides: archives are of a database the whole schema
is in, and a restore is not started while the process of an earlier one still
runs.

`MCOperatorTools` composes the three: `configure.py`, the commands that make
accounts and the database's tools share nothing they write, so a behaviour has
one of the groups and leaves the others as they are.

## 3. The runs

| Run | Checks | Instance |
|---|---|---|
| `role_grants` | `QuotaHolds`: grants with no approval never exceed the quota over the whole history; `ImplementsLedger`: the refinement; `BoundGrantsStayJustified`, `DecisionsKeepTheirPanel`: what a bound grant rests on stays what it was; `AdminsArriveByTheRule`: after arming, a new admin has a usable approval, is restored, or is imported | 2 members, role admin, quota 2, 1 approval, 3 grants, expiries |
| `role_grant_txns` | `CommittedGrantsDoNotClash`; `OverrunIsBounded`: how far concurrent sessions can pass the quota; `LatchStopsOpenTransactions`: a committed latch binds transactions that were open before it; `WaitersAreReleased` | 2 sessions, 3 members, 3 grants, 1 approval, quota 1 |
| `reconcile` | `ImplementsKeeper`: the refinement; `WritesAreNeeded`: no slot is written that is as asked; `LockoutIsUnprivileged` | `NUMUSERS` 2: two slots and the wrap behind them; 2 cards, one of which the other can be cut down to; 1 door, threshold 1 |
| `door_controller` | `NoStandingPrivilege`; `AlarmMovesOnlyOnOpen`; `VerifiedMeansHeld`: a verified slot holds what was asked, or a card the asked one is the beginning of when the read back was cut inside its tag; `ReportedActionsRan`; `LockIsReleased` | 2 threads, 2 operations, `NUMUSERS` 2: two slots of which one is assigned, and the wrap; 1 card, which an erased record can be cut down to; 1 door |
| `first_sign_in` | `RecordsAreDistinct`; `RemovedMembersAreTold`; `FirstSignInOnlyAdds`: a commit adds a record, or fills the empty address of one that is or was the caller's while the request ran; `EveryRequestIsAnswered`; `WalkShowsEachOnce`: pages followed to their end show what was there, once, newest first | 2 requests, 2 subjects, 2 addresses, 3 records, 2 statements beside them; 3 entries at 2 times, pages of 1 or 2, 4 numbers |
| `members_api` | `RowsAreTheCallers`; `RefusedMeansUnchanged`; `PoolIsWhole`; `FreshSetsAreCurrent`; `EveryRequestIsAnswered` | 2 requests, 1 connection, 2 subjects, 1 key, `MaxAge` and `ReadTimeout` 1, 1 statement beside them |
| `portal` | `RefreshSpentOnce`; `SignedOutIsOut`; `TroubleIsAskedAgain`; `FormShowsTheRecord`; `EveryViewSettles` | 2 requests at once, 1 more astray, 2 views, 2 texts, 2 refresh tokens |
| `operator_tools` | `OneOfEach`, `ConfiguredMeansWanted`: one project, one client for each portal, all as asked, but for an older client renamed in the console, which stays beside its double; `RunAgainSettles`; `PasswordsAreHandedOver`; `RowsHaveTheirSignIn`; `WorkingSignInsStay`; `ToldIsTrue`: what `restore.sh` says at its end is so, where it was still in touch with what it started; `CopyIsWatched`: a copy of the members has somebody left to remove it, unless both are gone or the removal got no answer | 2 portals, 1 stop, 1 change by hand; 2 people, 2 subjects, quota 1, 1 cut; 2 members, 4 files, 2 breaks |

Type invariants are proved (section 5); the runs spend their time on the others.

Why these sizes are enough for the questions they ask. The quota's cases are
"below", "at" and "past", which a quota of 2 with three grant ids has, and the
rule compares two people. A race, a deadlock and a lost lock need two parties.
Two slots are one that may be assigned and one that may not, with the wrap
behind them, and two operations are one whose request outlives it and one it
can hurt. A pass over two slots has one that is done while the other is being
done, and one to do while the first is. One card that another can be cut down
to is believed in its place, and one that cannot is not. Two statements beside
the requests are enough to remove and restore, to link and change the address,
or to undo what a request read. Two requests for one connection are one that
waits and one that may leave its identity behind; age 1 of 1 has a set that is
current, due and overdue. Two requests of a tab cross, wait on one renewal, or
overtake each other, and two tokens are one spent and one given for it; one
request astray is a save the reload did not wait for. Two portals are the one
with a file and one without. Four files have a cut before the members table,
after it, before the roles and after them, and two breaks are a cut and what
makes it matter. Three entries at two times are two that share an instant and
one that does not, and a fourth number is for one that was rolled back and sent
again. For the properties of section 5 the proofs remove the question.

CHECK_DEADLOCK is off in `first_sign_in`: each request is sent once, so the
model stops when all are answered and `MaxHands` is spent. That no request
stops before its answer is `EveryRequestIsAnswered`.

## 4. Disagreements between the code and what is written about it

Each of these runs checks one property, taken from the repository's own words,
and TLC finds a behaviour of the code that breaks it.

| Run | Words | Behaviour |
|---|---|---|
| `role_grant_quota` | 013:14-15, three admin grants carry no approval, ever | two transactions count before either commits, and four are granted |
| `door_unreachable` | `transport.py:56-57`, the door is unchanged | the board ran the command and the answer was lost |
| `handed_over` | `handover.py:71-73`, the identity service makes them choose their own password | the one `--repair` sets on an account without a password is not marked to be changed |
| `schema_completed` | `compose.api.yaml:15-16`, everything the members API needs the database to already hold | a first start that is cut off after `004_security.sql` leaves a part of the files; the next start finds the members table, makes the login role, and calls it done |

Where the cut of `schema_completed` comes earlier, after the members table and
before the roles, the next start fails at the grant in `oro_api_login.sql:45`,
with the login role committed; the start after that finds the role and ends
well, without the grant.

Stated beside their modules' other properties, not kept by the code, and run by
no configuration:

* `BootstrapRunningOutIsRecorded` and `BoundGrantsRestOnTwoAdmins`
  (`RoleGrants`): a restored admin can bring the live count to three with
  nothing on `members` to record it; an approval decided before the rule binds
  is used after it does.
* `LockoutArmsOnce` (`DoorDevice`): a right password after the window sets the
  count to zero, and the next failures arm it again.
* `ToldRemovedMeansRemoved` (`FirstSignIn`): a record joined to the sign in
  between two SELECTs is reported as removed.
* `WithdrawnKeysStop` (`MembersApi`): a key set whose reads fail is kept.
* `ReplacedMembersAreNamed`, `StoppedMeansUnchanged` (`DatabaseTools`): an
  unanswered count is none, members join after it, and a restore that was
  stopped as its process was launched, or whose terminate got no answer, goes
  on.

Words that a property would repeat without its exception, and that the code
does not keep in the excepted case, all of them reached by the runs:

* `controller.py:95-100`, a write is believed only after this read back: a read
  back cut inside its tag is believed too (`VerifiedMeansHeld`,
  `ImplementsKeeper`).
* `first_sign_in.py:63`, only ever the caller's own row: not after a wait for
  the row's lock (`FirstSignInOnlyAdds`).
* `clients.py:33-35`, adopting what is there beats registering a second one
  beside it: not for a client renamed in the console (`OneOfEach`).
* `restore.sh:131-135`, stopped before the restore itself had started, or and
  the restore went with it: the one is also printed when the terminate got no
  answer and when the process is on its way to its transaction, the other when
  the transaction has just committed (`ToldIsTrue`).
* `restore.sh:213-215`, removal of the copy does not depend on this script living
  long enough to do it: it does when `/dev/shm` is full, because the shell then
  exits without its `rm`, and the script's own may get no answer
  (`CopyIsWatched`).

`OverrunIsBounded` is what remains true where `SeatsWithinQuota` does not: at
most one quota for every session. `FreshSetsAreCurrent` and `ToldIsTrue` say
likewise what remains true beside `WithdrawnKeysStop` and
`StoppedMeansUnchanged`.

## 5. What is proved

The proofs assume only the named ASSUMEs of the modules: a positive quota, that
NULL is none of the values and rows and the operator is no member, finite sets
of ids, sessions and patrons, slot numbers and bounds that are naturals, an
address for each account, two requests and one text at least in the portal, and
that a tag cut twice is a tag cut once. TLC evaluates them in the runs.

**`RoleGrantsProofs`**: `TypeCorrect`, `QuotaIsNeverExceeded`,
`SpentSeatsAreArmed`, `BoundGrantsAreJustified`, `DecisionsAreByTwoAdmins`,
`AdminsArriveOnlyByTheRule`, for any members, roles, quota, ids and import.
None of the invariants is inductive alone. `IInv` is their conjunction with
what they rest on: every approval satisfies its CHECKs, and bound and imported
grants have rows (`RowsAreSound`); a recorded panel has its approval
(`PanelRowsExist`). `QuotaHolds` needs `SpentSeatsArmTheRule`, since a grant
without an approval passes the trigger only while the rule cannot bind. The
step splits by action; most actions leave the count alone (`CountsUnchanged`)
and the latch only ever gets set (`ArmIsMonotone`). The action property follows
from `NoNewLiveRows`: an action that adds no live row makes nobody an admin.

`TheRuleKeepsTheLedger` is that `RoleGrants` implements `SeatLedger`. Beside
`IInv` it needs `NamesItsGrant`: the approval a grant names is of that member
and that role, whatever is updated later, or an expiry that is moved after the
latch could rest on a decision about somebody else. A statement on approvals is
a `Decide` or nothing, because a decision that was entered is frozen
(`DecisionIsLedgered`); one that writes a live admin row is an `Appoint`, with a
seat exactly when the row names no approval (`GrantIsLedgered`); the rest are a
`Leave`, a `Carry` or a `ComeOrGo`.

**`RoleGrantTxnsProofs`**: `TypeCorrect`, `CommittedGrantsNeverClash`,
`OverrunNeverPassesItsBound`, `LatchBindsOpenTransactions`, for any sessions,
members, ids and quota.

1. What `CommittedGrantsDoNotClash` says of committed rows, `RowsDoNotClash`
   says of every row, because a commit changes no more than who a row belongs
   to. A pair of one member is allowed when one makes way for the other
   (`MakesWay`): its revocation is committed, or is the work of the transaction
   that wrote the other, so that they stand or fall together.
2. `SeatsAreCounted` counts what each session holds and may give back (`Held`)
   and what is taken in all (`Taken`). A session's share is at most the quota,
   because the trigger compares what it sees with it. The total is bounded
   without induction over sessions, by an injection of the seats into
   Sessions × 1..Quota.
3. Once the latch is committed no session gets past the trigger without an
   approval, so that only those already past it can add a row.

**`DoorControllerProofs`**: for any number of threads, slots and operations, in
three layers.

1. `Inv1` is type correctness, that every message in the network is one the
   adapter sends (`NetSafe`: a slot in range, a login with its logout), that a
   thread waiting asked for something in range (`Asked`), and
   `NoStandingPrivilege`. It is not inductive without `NetSafe`, because a
   request may be served long after its sender is gone. `TypeCorrect`,
   `NeverLeftPrivileged` and `AlarmIsOutOfReach` follow.
2. `AnswerRan` ties an answer that is not a refusal to the call's serial number
   in `done`. `ReportedDoorsMoved` follows.
3. `Inv2` (`LockSound`, `SerialSound`: one thread is past the lock, and serial
   numbers are not shared) and `Inv3`: while nothing was abandoned, every
   message on its way is one its sender waits for (`Quiet`), and an answer to a
   read back shows what the table holds, or a beginning of it when it is
   counted as `torn` (`HeldSound`). `ReportedWritesHeld` follows. The condition
   is needed: after a timeout the old request may still arrive and change the
   slot behind a verified write.

**`ReconcileProofs`**: of the board alone, `LockedOutIsUnprivileged` and
`LockedOutChangesNothing`, for any threshold, slots and clients, from the
invariant `Lockout`. Of the pass, `TypeCorrect`, `NothingIsWrittenTwice`,
`LockedOutUnderAPass`, and `PassKeepsItsPromise`, which is that `Reconcile`
implements `SlotKeeper`, for any slots, cards, rows and other clients. The
invariant says what a plan is worth while nobody else has been at the table:
it is live while the pass runs (`PlanIsLive`), slots outside it are as asked
(`InStep`) or torn, and slots in it are not, but for the one being read back
(`StillToDo`). The first makes a write a `Bring`, the second makes the end a
`Settle`, the third is what `Bring` asks of a write.

**`FirstSignInProofs`**: for any number of requests, people, addresses, records
and statements beside the requests, again in layers.

1. `Inv1` is type correctness and `Placed`: which steps of a request find a row
   written, and a record read. `TypeCorrect` follows.
2. `RecordsAreDistinct` speaks of committed rows, and a commit puts in their
   place what its request wrote, so `Inv2` says it of unfinished rows too: each
   is apart from every other request's and from every other committed row
   (`Clear`). An index entry keeps it, because it waits for rows that may yet
   have the value and is refused by those that do (`EnterApart`); a claim or a
   locked row keeps it, because the row is as it was (`StoredIsClear`).
   `NoTwoAlike` follows.
3. `Inv3` says of an unfinished row what `FirstSignInOnlyAdds` says of its
   commit: it is a new record, or one of the caller's (`owned`) with an empty
   address filled in (`FillsIn`). The record was the caller's when the
   statement was sent and need not be any longer when the row lock is had. It
   needs layer 2, since what a request has locked must be nobody else's to
   change (`LockedStays`). `PostMeOnlyAdds` follows.
4. `Inv4` follows a request whose caller's record has been removed all along
   (`Told`): it has been refused, or has got no further than the first
   questions and the record still is removed (`OnItsWay`). `TheRemovedAreTold`
   follows.

The same module has `TheWalkShowsEachOnce` and `DoorEventsTypes`, for any entries,
times, numbers and page sizes. `Recorded` is that no two rows, committed or
open, share a number or a key; `Walked` that what was shown is in order, and
that what was owed is shown or lies behind the cursor. `PageIs` says what
`NEWEST_FIRST` and the row more than the limit give a page, `PageWalks` that a
page read behind the cursor keeps `Walked`.

**`MembersApiProofs`**: `TypeCorrect`, `PoolStaysWhole`, `AnswersAreTheCallers`,
`RefusalsSaveNothing`, `ReadSetsAreCurrent`, for any requests, connections,
subjects, keys, age and timeout. Past the first query the caller is somebody
(`Known`), nothing is saved before the answer (`Unsaved`), and the provider's
answer is no older than the read it answers (`AnswerIsCurrent`). The stamp set
before the read is what the last needs.

**`MembersPortalProofs`**: `TypeCorrect`, `RefreshTokensAreSpentOnce`,
`SignedOutStaysOut`, `TroubleIsNotKept`, `TheFormIsTheRecord`, for any requests,
views, texts and tokens. `Spent` is that the token the next renewal would spend
has not been sent; `Gone` that nothing runs which could store one; `Alone` that
requests about one view are alone unless counted as crossing; `ToAsk` that a
view being read does not count as read; `Filled` that an answer on its way, and
a save of an untouched form, hold the record, and `Heeded` that a stray save
does too while no crossing was counted, so that serving it changes nothing the
form shows; `Away` and `Saves` that a page which is gone keeps nothing and that
only the form is saved.

**`OperatorToolsProofs`**: `TypeCorrect`, and for any portals, people, accounts,
members and files, and however often a tool is stopped and run again:

1. `ThereIsOneOfEach` and `ConfiguredIsAsWanted`. `ConfigureInv` says by where
   a run is what it has got done: what it has passed is there (`Reached`), the
   portals it has dealt with are right (`PortalsDone`), there is one client for
   each unless its older one was renamed (`OneInv`), the mark is on
   (`Branded`). `Sends` is what makes reads behind the writes harmless: one
   that is behind hides the catcher and never a relay. `PolicyKept` needs the
   read before the write.
2. `PasswordsAreSeen`, `RowsKeepTheirSignIn`, `SignInsKeepWorking`. `CommandInv`
   is what a command knows of the account it works on; `RowsInv` that what a
   replacement has read of the member row is what it has to follow; `UnseenInv`
   counts the passwords nobody saw, but for the one about to be shown, against
   the runs that were cut off.
3. `WhatIsToldIsTrue` and `TheCopyIsWatched`. `InTouch` ties where `restore.sh` is
   to where its process is while it has not lost touch, and that nothing is told
   before its end; `LandedInside` ties the commit to that process.

Each step is one of a single group of tools (`OneGroupSteps`), so the three
invariants do not meet.

Only model-checked: the liveness properties (`WaitersAreReleased`,
`LockIsReleased`, `EveryRequestIsAnswered` in both modules, `EveryViewSettles`,
`RunAgainSettles`), because fairness and ENABLED are beyond the prover. Every
other property of a passing run is a theorem.

## 6. Fairness

* `RoleGrantTxns`: a statement that can run does; a transaction that keeps
  being able to end does end, since every script and every request commits or
  rolls back (`member_transaction` is a context manager, `psql` runs a file);
  the deadlock detector fires. Starting a transaction is not fair, nor is what
  it does.
* `DoorController`: a thread that holds the lock runs on, and the socket's
  timeout ends a wait that nothing else does (`transport.py:49-59`). Serving a
  request is not fair: the board may never answer. Waiting for the lock is not
  fair either, and no property needs it.
* `FirstSignIn`: a request's next statement runs once nothing it waits for is
  in the way, and the deadlock detector fires. The statement ceiling is not
  needed for the answer and is not fair.
* `MembersApi`: a request whose endpoint has begun goes on. A read of the keys
  ends after 3 s, a wait for a connection after 2 s and a statement after 5 s,
  and the steps that stand for those ends are part of `Step`. The provider and
  whoever holds a row lock are not fair.
* `MembersPortal`: the browser ends every request it has sent, one way or the
  other. Whether it was served is not fair.
* `MCOperatorTools`: `configure.py` goes on once started, is run again when it did
  not end configured, which is what its header says it is for
  (`configure.py:19-23`), and the projection follows the writes.
  Nothing is assumed of the other commands.

## 7. Not modelled

PROJECT.json gives a reason for each part. In short: reads with no state
between them (directory, eligibility, row level security of SELECT), rendering,
colour arithmetic, checks of the source tree, container and proxy
configuration, and column comments are left out for good. The legacy
import is left for later (section 8).

Behaviour of modelled parts that no property speaks of, met while modelling:

* Portal. A sign out while a renewal runs can store tokens again, which is why
  `SignedOutIsOut` leaves it out; a reload during a renewal comes back with a
  spent token. `renew` forgets the tokens when the provider cannot be reached,
  though its comment speaks of a refusal. Two requests about one view can leave
  trouble on screen that is not asked again, or an older record in the form,
  which the next save sends whole; one of the two may be a save of a page that
  was reloaded, or one told as failed, which the API serves afterwards. What is
  typed during a save is lost when its
  answer fills the form.
* Members API. A `PATCH /me` whose record is unlinked between two statements
  answers 200 with nothing in it. A commit whose acknowledgement is lost is
  told as "unexpected", whose text says that nothing was saved.
* First sign-in. The UPDATE of 015:50 does not look again at the record its
  SELECT found free.
* Tools. A run killed between making an account and showing its password
  leaves a password nobody saw, and the next run finds the account there.
  "Nothing was created or changed" is said of the step and not of the run. The
  login policy is read and put back whole, so a change by hand in between is
  overwritten; `ConfiguredMeansWanted` leaves that out. A second catcher can be
  registered while the provider list trails. `backup.sh` and
  `apply-the-schema.sh` look at nothing that a restore in progress changes.

Detail left out of modelled parts: the text of every message, tags and masks as
strings, times as dates, the columns of a record beyond subject, address and
the one text the form holds, and the password of the login role.

## 8. Plan

What is left, the most useful first:

1. An abstract register (who is joined to which record) which `FirstSignIn`
   implements, and a theorem for what remains true of each disagreement of
   section 4 that has none.
2. `LegacyImport`: staging, preflight and verify around the one statement that
   `RoleGrants` has as an action.
