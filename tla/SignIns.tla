------------------------------ MODULE SignIns ------------------------------
(***************************************************************************)
(* The two commands that make accounts: tools/bootstrap/seat_admins.py,    *)
(* which seats the first admins, and tools/identity/make_a_sign_in.py,     *)
(* which makes a sign in or repairs one.  One operator runs one of them at *)
(* a time, each may be stopped anywhere and run again, and the accounts    *)
(* and the member rows are in two services with no transaction over both.  *)
(*                                                                         *)
(* What an account is good for is what the hosted screens let it do, as    *)
(* tools/identity/flow.py walks them.  No mail is sent, so no code arrives.*)
(***************************************************************************)
EXTENDS Naturals, FiniteSets, Sequences

CONSTANTS People, Nobody,
          Subjects, NoSubject,
          Quota,         \* bootstrap_admin_quota()
          ScreenLimit,   \* SCREEN_LIMIT
          MaxCuts        \* bound: runs that are cut off on the way

ASSUME SignInsAssumption ==
  /\ Nobody \notin People /\ NoSubject \notin Subjects
  /\ Quota \in Nat /\ ScreenLimit \in Nat /\ MaxCuts \in Nat

VARIABLES login,       \* whose account a subject is
          stuck,       \* accounts in USER_STATE_INITIAL
          verified,    \* accounts whose address is
          password,    \* none, unseen, handed over, or their own
          mustchange,  \* accounts asked for a new one at the next sign in
          used,        \* subjects an account has had
          row,         \* the subject a member row carries
          admins,      \* people with a live grant of admin
          todo,        \* the people left to seat
          command,     \* the command that runs
          step,        \* where it is
          person,      \* whom it is about
          subject,     \* the account it works on
          joined,      \* the member row it has read, by whose it is
          changed,     \* whether a repair has written anything
          report,      \* what it says of a person
          orphaned,    \* kept for the properties: who was told so
          cuts         \* runs cut off so far

accounts == <<login, stuck, verified, password, mustchange, used>>
members == <<row, admins>>
terminal == <<todo, command, step, person, subject, joined, changed, report,
              orphaned>>
signins == <<accounts, members, terminal, cuts>>

Passwords == {"none", "unseen", "handed over", "own"}
Commands == {"seat", "make", "repair", "recreate"}
Steps == {"idle", "find", "create", "hand over", "member row", "seat", "verify",
          "look for a password", "set a password", "remove", "repoint"}
Reports == {"nothing yet", "seated", "refused", "made", "already there",
            "repaired", "nothing changed"}

-----------------------------------------------------------------------------
(* The hosted screens.                                                     *)

\* The pages a member is served, in order.  A code that cannot arrive is asked
\* for on a page that returns itself, so none comes after it.
Pages(s) ==
  IF s \in stuck \/ password[s] = "none" THEN <<"login name", "code">>
  ELSE IF s \notin verified THEN <<"login name", "password", "code">>
  ELSE IF s \in mustchange
       THEN <<"login name", "password", "change password", "second factor">>
       ELSE <<"login name", "password", "second factor">>

\* Faulty: a page is answered by the first field it carries, and the password
\* page carries the login name as a hidden one.
by_the_first_field(page) ==
  IF page \in {"login name", "password"} THEN "login name" ELSE "skip"

\* What is put into a page: what it asks for where that is held, or skipping it.
answer_for(page) ==
  CASE page \in {"login name", "password", "change password"} -> page
    [] OTHER -> "skip"

\* A page is passed by what it asks for; the second factor may be skipped.
Passes(page) == answer_for(page) = (IF page = "second factor" THEN "skip" ELSE page)

through_the_screens(s) ==
  /\ login[s] # Nobody
  /\ \A i \in DOMAIN Pages(s) : Passes(Pages(s)[i])
  /\ Len(Pages(s)) <= ScreenLimit

\* A person who was given the password signs in, and chooses their own where
\* they are asked to.
PersonSignsIn(s) ==
  /\ password[s] = "handed over"
  /\ through_the_screens(s)
  /\ password' = [password EXCEPT ![s] = IF s \in mustchange THEN "own" ELSE @]
  /\ mustchange' = mustchange \ {s}
  /\ UNCHANGED <<login, stuck, verified, used, members, terminal, cuts>>

-----------------------------------------------------------------------------
(* How a command goes on and how it ends.                                  *)

GoesTo(place) ==
  /\ step' = place
  /\ UNCHANGED <<todo, command, person, subject, joined, changed, report, orphaned,
                 cuts>>

Says(what) ==
  /\ report' = [report EXCEPT ![person] = what]
  /\ IF command = "seat" /\ what = "seated" /\ todo # {}
     THEN \E p \in todo : person' = p /\ todo' = todo \ {p} /\ step' = "find"
     ELSE step' = "idle" /\ UNCHANGED <<person, todo>>
  /\ UNCHANGED <<command, subject, joined, changed, orphaned, cuts>>

Refused == Says("refused")

\* Between the removal of the old account and the row that follows it.
Between == command = "recreate" /\ step \in {"create", "hand over", "repoint"}

CutOff ==
  /\ step # "idle"
  /\ cuts < MaxCuts
  /\ cuts' = cuts + 1
  /\ step' = "idle"
  /\ orphaned' = IF Between THEN orphaned \cup {person} ELSE orphaned
  /\ UNCHANGED <<accounts, members, todo, command, person, subject, joined, changed,
                 report>>

\* Nothing starts without a token, the schema and a terminal to write on.
StartSeating(people) ==
  /\ step = "idle" /\ step' = "find"
  /\ command' = "seat"
  /\ \E p \in people : person' = p /\ todo' = people \ {p}
  /\ report' = [p \in People |-> "nothing yet"]
  /\ subject' = NoSubject /\ joined' = Nobody /\ changed' = FALSE
  /\ UNCHANGED <<accounts, members, orphaned, cuts>>

StartOne(what, p) ==
  /\ step = "idle" /\ step' = "find"
  /\ command' = what /\ person' = p /\ todo' = {}
  /\ report' = [q \in People |-> "nothing yet"]
  /\ subject' = NoSubject /\ joined' = Nobody /\ changed' = FALSE
  /\ UNCHANGED <<accounts, members, orphaned, cuts>>

-----------------------------------------------------------------------------
(* Accounts.                                                               *)

\* The accounts that hold the login name.
find == {s \in Subjects : login[s] = person}

\* What a command does when it has looked the person up.
AccountIsThere(s) ==
  CASE command = "seat" -> "member row"
    [] command = "repair" /\ s \notin stuck -> "verify"
    [] command = "recreate" /\ s \in stuck -> "remove"
    [] OTHER -> "stop"

\* A search may still miss an account that was made a moment ago.
account_for(missed) ==
  /\ step = "find"
  /\ IF find = {} \/ missed
     THEN IF command \in {"seat", "make"} THEN GoesTo("create") ELSE Refused
     ELSE \E s \in find :
            IF AccountIsThere(s) = "stop"
            THEN Says(IF command = "make" THEN "already there" ELSE "refused")
            ELSE /\ step' = AccountIsThere(s)
                 /\ subject' = s
                 /\ UNCHANGED <<todo, command, person, joined, changed, report,
                                orphaned, cuts>>
  /\ UNCHANGED <<accounts, members>>

RecordedAsVerified(s) == verified \cup {s}

\* Faulty: an admin is seated before the password is handed over.
SeatedFirst == IF command = "seat" THEN "member row" ELSE "hand over"

AfterCreating == "hand over"

\* Active, with a password that has to be changed.
create(s) ==
  /\ step = "create"
  /\ s \notin used
  /\ \A t \in Subjects : login[t] # person
  /\ used' = used \cup {s}
  /\ login' = [login EXCEPT ![s] = person]
  /\ verified' = RecordedAsVerified(s)
  /\ password' = [password EXCEPT ![s] = "unseen"]
  /\ mustchange' = mustchange \cup {s}
  /\ subject' = s
  /\ step' = AfterCreating
  /\ UNCHANGED <<stuck, members, todo, command, person, joined, changed, report,
                 orphaned, cuts>>

CreateIsRefused ==
  /\ step = "create"
  /\ report' = [report EXCEPT ![person] = "refused"]
  /\ step' = "idle"
  /\ orphaned' = IF Between THEN orphaned \cup {person} ELSE orphaned
  /\ UNCHANGED <<accounts, members, todo, command, person, subject, joined, changed,
                 cuts>>

AfterHandingOver ==
  CASE command = "seat" -> "member row"
    [] command = "recreate" -> "repoint"
    [] OTHER -> "said"

\* The password is on the terminal and nowhere else.
hand_over ==
  /\ step = "hand over"
  /\ password' = [password EXCEPT ![subject] = "handed over"]
  /\ IF AfterHandingOver = "said"
     THEN Says(IF command = "make" THEN "made" ELSE "repaired")
     ELSE GoesTo(AfterHandingOver)
  /\ UNCHANGED <<login, stuck, verified, mustchange, used, members>>

-----------------------------------------------------------------------------
(* Seating.                                                                *)

member_row_state ==
  /\ step = "member row"
  /\ GoesTo("seat")
  /\ UNCHANGED <<accounts, members>>

\* link_or_create_member finds the row, claims it or writes it.
may_link ==
  \/ row[person] = subject
  \/ row[person] = "unlinked" /\ person \notin admins
  \/ row[person] = "none"

\* One transaction: the row and the grant, or neither.
seat ==
  /\ step = "seat"
  /\ IF may_link /\ (person \in admins \/ Cardinality(admins) < Quota)
     THEN /\ row' = [row EXCEPT ![person] = subject]
          /\ admins' = admins \cup {person}
          /\ Says("seated")
     ELSE Refused /\ UNCHANGED members
  /\ UNCHANGED accounts

\* The transaction commits, psql is cut off, and the report is a refusal.
SeatIsUnheard ==
  /\ step = "seat"
  /\ cuts < MaxCuts
  /\ may_link
  /\ person \in admins \/ Cardinality(admins) < Quota
  /\ row' = [row EXCEPT ![person] = subject]
  /\ admins' = admins \cup {person}
  /\ report' = [report EXCEPT ![person] = "refused"]
  /\ cuts' = cuts + 1
  /\ step' = "idle"
  /\ UNCHANGED <<accounts, todo, command, person, subject, joined, changed, orphaned>>

-----------------------------------------------------------------------------
(* Repairing.                                                              *)

\* What the account showed when it was found decides; a refused write ends it.
verify_the_address(refused) ==
  /\ step = "verify"
  /\ IF subject \in verified THEN GoesTo("look for a password") /\ UNCHANGED verified
     ELSE IF refused THEN Refused /\ UNCHANGED verified
     ELSE /\ verified' = verified \cup {subject}
          /\ changed' = TRUE
          /\ step' = "look for a password"
          /\ UNCHANGED <<todo, command, person, subject, joined, report, orphaned, cuts>>
  /\ UNCHANGED <<login, stuck, password, mustchange, used, members>>

\* Faulty: a password is set whether or not there is one.
holds_none == FALSE

holds_a_password == password[subject] # "none"

\* A password set here is not one that has to be changed.
set_a_password(refused) ==
  /\ step = "look for a password"
  /\ IF holds_a_password
     THEN /\ Says(IF changed THEN "repaired" ELSE "nothing changed")
          /\ UNCHANGED password
     ELSE IF refused THEN Refused /\ UNCHANGED password
     ELSE /\ password' = [password EXCEPT ![subject] = "unseen"]
          /\ GoesTo("hand over")
  /\ UNCHANGED <<login, stuck, verified, mustchange, used, members>>

\* Faulty: the row is looked for under the new subject.
JoinedAfterwards == Nobody

JoinedBefore ==
  IF \E p \in People : row[p] = subject
  THEN CHOOSE p \in People : row[p] = subject ELSE Nobody

\* The row is read before anything is removed, and then the account is.
remove(refused) ==
  /\ step = "remove"
  /\ IF refused THEN Refused /\ UNCHANGED accounts
     ELSE /\ joined' = JoinedBefore
          /\ login' = [login EXCEPT ![subject] = Nobody]
          /\ stuck' = stuck \ {subject}
          /\ verified' = verified \ {subject}
          /\ password' = [password EXCEPT ![subject] = "none"]
          /\ step' = "create"
          /\ mustchange' = mustchange \ {subject}
          /\ UNCHANGED <<used, todo, command, person, subject, changed, report,
                         orphaned, cuts>>
  /\ UNCHANGED members

\* The UPDATE names the row and not the old subject.
repoint ==
  /\ step = "repoint"
  /\ row' = IF joined = Nobody THEN row ELSE [row EXCEPT ![joined] = subject]
  /\ Says("repaired")
  /\ UNCHANGED <<accounts, admins>>

-----------------------------------------------------------------------------

\* Accounts from self registration are stuck; some were made by an import with
\* no password or an address not verified, and some rows are linked already.
SignInsInit ==
  /\ used \in SUBSET Subjects
  /\ login \in [Subjects -> People \cup {Nobody}]
  /\ \A s \in Subjects : login[s] # Nobody <=> s \in used
  /\ \A p \in People : Cardinality({s \in Subjects : login[s] = p}) <= 1
  /\ stuck \in SUBSET used
  /\ verified \in SUBSET (used \ stuck)
  /\ password \in [Subjects -> {"none", "own"}]
  /\ \A s \in Subjects : s \notin used \/ s \in stuck => password[s] = "none"
  /\ mustchange = {}
  /\ row \in [People -> {"none", "unlinked"} \cup Subjects]
  /\ \A p \in People : row[p] \in Subjects => login[row[p]] = p
  /\ admins = {}
  /\ todo = {} /\ command = "seat" /\ step = "idle"
  /\ person \in People /\ subject = NoSubject /\ joined = Nobody /\ changed = FALSE
  /\ report = [p \in People |-> "nothing yet"]
  /\ orphaned = {} /\ cuts = 0

SignInsNext ==
  \/ \E people \in SUBSET People \ {{}} : StartSeating(people)
  \/ \E p \in People, what \in Commands \ {"seat"} : StartOne(what, p)
  \/ \E s \in Subjects : create(s) \/ PersonSignsIn(s)
  \/ CreateIsRefused
  \/ hand_over
  \/ member_row_state
  \/ seat
  \/ SeatIsUnheard
  \/ \E missed \in BOOLEAN : account_for(missed)
  \/ \E refused \in BOOLEAN :
       verify_the_address(refused) \/ set_a_password(refused) \/ remove(refused)
  \/ repoint
  \/ CutOff

-----------------------------------------------------------------------------
(* Properties.                                                             *)

SignInsTypeOK ==
  /\ login \in [Subjects -> People \cup {Nobody}]
  /\ stuck \in SUBSET used
  /\ verified \in SUBSET used
  /\ password \in [Subjects -> Passwords]
  /\ mustchange \in SUBSET used
  /\ used \in SUBSET Subjects
  /\ row \in [People -> {"none", "unlinked"} \cup Subjects]
  /\ admins \in SUBSET People
  /\ todo \in SUBSET People
  /\ command \in Commands
  /\ step \in Steps
  /\ person \in People
  /\ subject \in Subjects \cup {NoSubject}
  /\ joined \in People \cup {Nobody}
  /\ changed \in BOOLEAN
  /\ report \in [People -> Reports]
  /\ orphaned \in SUBSET People
  /\ cuts \in 0 .. MaxCuts

\* A password nobody has seen costs a run that was cut off: every other way out
\* of the two commands has put it on the terminal (handover.py:14-17).
PasswordsAreHandedOver ==
  step = "idle" =>
    Cardinality({s \in Subjects : password[s] = "unseen"}) <= cuts

\* A member row carries the subject of an account that is there, but while its
\* account is being replaced and after a replacement that did not end
\* (make_a_sign_in.py:116-121, 131-134).
RowsHaveTheirSignIn ==
  \A p \in People : row[p] \in Subjects =>
    login[row[p]] = p \/ (Between /\ person = p) \/ p \in orphaned

\* What the terminal says of every password it shows: the identity service makes
\* the person choose their own the first time they sign in (handover.py:69-74).
HandedOverIsChanged ==
  \A s \in Subjects : password[s] = "handed over" => s \in mustchange

\* No command takes a working sign in away, nor the password its holder chose
\* (bootstrap/identity_accounts.py:8-12, make_a_sign_in.py:197-201).
WorkingSignInsStay ==
  [][\A s \in Subjects :
       /\ through_the_screens(s) => through_the_screens(s)'
       /\ password[s] = "own" => password'[s] = "own"]_signins

=============================================================================
