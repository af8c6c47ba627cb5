------------------------- MODULE MembersPortalProofs -------------------------
(***************************************************************************)
(* Proofs about MembersPortal, for any number of requests at once, any     *)
(* views, any texts and any bound on the refresh tokens.                   *)
(***************************************************************************)
EXTENDS MembersPortal, TLAPS

-----------------------------------------------------------------------------
(* The inductive invariant.                                                *)

\* A page that is away keeps nothing of its handlers.
Away ==
  page = "away" => /\ renewal = NoRenewal
                   /\ \A t \in Tasks : task[t] = Idle
                   /\ alreadyRead = {}

\* What has not been given has not been sent, and the token the next renewal
\* would spend has not been either.
Spent ==
  /\ \A n \in Tokens : sends[n] <= 1 /\ (n > good => sends[n] = 0)
  /\ stored <= good
  /\ renewal = NoRenewal /\ stored # None => sends[stored] = 0
  /\ renewal.new # None => renewal.new <= good /\ sends[renewal.new] = 0
  /\ renewal.at # "served" => renewal.new = None

\* Nothing is running that could store a token.
Gone == out => stored = None /\ renewal = NoRenewal

\* Requests about one view are alone unless they are counted as crossing.
Alone == \A s \in Sections \ crossed : \A t, u \in About(s) : t = u

Reads(t) == task[t].kind \in {"load", "claim"}

\* A view is not counted as read while it shows trouble or is being asked.
ToAsk ==
  \A s \in Sections \ crossed :
    (view[s] \in {"no record", "trouble"} \/ \E t \in About(s) : Reads(t))
      => s \notin alreadyRead

\* An answer that fills the form holds the record, and so does a save of a form
\* nobody typed in.
Filled ==
  Profile \notin crossed =>
    /\ \A t \in About(Profile) :
         task[t].at = "served" /\ task[t].kind \in {"load", "save"}
           /\ task[t].outcome = "ok" => task[t].text = record
    /\ view[Profile] = "record" /\ ~edited =>
         /\ form = record
         /\ \A t \in About(Profile) :
              task[t].kind = "save" /\ task[t].at # "served" => task[t].text = record

Saves == \A t \in Tasks : task[t].kind = "save" => task[t].section = Profile

AstraySaves == {c \in astray : c.kind = "save"}

\* Nothing is asked about the form beside a save that is astray, and no such save
\* changes what a filled form shows.
Heeded ==
  Profile \notin crossed =>
    /\ AstraySaves # {} => About(Profile) = {}
    /\ view[Profile] = "record" /\ ~edited => \A c \in AstraySaves : c.text = record

IInv == TypeOK /\ Away /\ Spent /\ Gone /\ Alone /\ ToAsk /\ Filled /\ Saves /\ Heeded

-----------------------------------------------------------------------------
(* Requests.                                                               *)
USE PortalAssumption

\* What a request is made of.
LEMMA Made ==
  /\ None = 0 /\ Unwritten \in Texts /\ Idle.text \in Texts /\ Idle.section \in Sections
  /\ form \in Texts => \A k \in Kinds, s \in Sections, near \in BOOLEAN :
       Call(k, s, near) \in Calls /\ Call(k, s, near) # Idle
<1>1. None = 0 /\ Unwritten \in Texts
  BY DEF None, Unwritten
<1>2. Idle.text \in Texts /\ Idle.section \in Sections
  BY <1>1 DEF Idle, Calls
<1>3. ASSUME form \in Texts, NEW k \in Kinds, NEW s \in Sections, NEW near \in BOOLEAN
      PROVE  Call(k, s, near) \in Calls /\ Call(k, s, near) # Idle
  BY <1>1, <1>3 DEF Idle, Calls, Kinds, Call
<1> QED BY <1>1, <1>2, <1>3

\* What is under way is a call.
LEMMA UnderWay ==
  ASSUME TypeOK, NEW t \in Tasks, task[t].at # "idle"
  PROVE  /\ Asking(t) /\ task[t] \in Calls
         /\ task[t].kind \in Kinds /\ task[t].section \in Sections
         /\ task[t].at \in {"token", "asked", "served"} /\ task[t].text \in Texts
         /\ task[t].outcome \in {"ok", "no record", "trouble"}
<1>1. Idle.at = "idle"
  BY DEF Idle
<1>2. task[t] \in Calls /\ Asking(t)
  BY <1>1 DEF TypeOK, Asking
<1> QED BY <1>2 DEF Calls

\* What may be left of a request is what it asked for.
LEMMA LeftIs ==
  ASSUME TypeOK, NEW t \in Tasks, NEW c \in Left(t)
  PROVE  /\ c \in Strays /\ c.kind = task[t].kind /\ c.text = task[t].text
         /\ task[t].at = "asked" /\ task[t].kind \in {"save", "claim"}
<1>1. task[t].at = "asked" /\ task[t].kind \in {"save", "claim"}
      /\ c = [kind |-> task[t].kind, text |-> task[t].text]
  BY DEF Left
<1>2. task[t].text \in Texts
  BY <1>1, UnderWay
<1> QED BY <1>1, <1>2 DEF Strays

-----------------------------------------------------------------------------
(* The type invariant.                                                     *)

LEMMA AsksType ==
  ASSUME TypeOK, NEW t \in Tasks, NEW k \in Kinds, NEW s \in Sections, Asks(t, k, s)
  PROVE  /\ task' \in [Tasks -> {Idle} \cup Calls] /\ view' \in [Sections -> Shown]
         /\ crossed' \subseteq Sections /\ sends' \in [Tokens -> Nat]
         /\ renewal' \in [token : {None} \cup Tokens, at : {"none", "sent", "served"},
                          new : {None} \cup Tokens]
<1> USE DEF TypeOK
<1>1. task' \in [Tasks -> {Idle} \cup Calls]
  <2>1. Idle.text \in Texts /\ Idle.section \in Sections /\ Call(k, s, aged) \in Calls
    BY Made
  <2>2. task' = [task EXCEPT ![t] = Idle] \/ task' = [task EXCEPT ![t] = Call(k, s, aged)]
    BY DEF Asks
  <2> QED BY <2>1, <2>2
<1>2. view' \in [Sections -> Shown]
  BY DEF Asks, Shown
<1>3. crossed' \subseteq Sections
  BY DEF Asks
<1>4. CASE UNCHANGED <<renewal, sends>>
  BY <1>1, <1>2, <1>3, <1>4
<1>5. CASE ~UNCHANGED <<renewal, sends>>
  <2>1. Renews /\ Renewing
    BY <1>5 DEF Asks, Renewing
  <2>2. stored \in Tokens /\ renewal' = [token |-> stored, at |-> "sent", new |-> None]
        /\ sends' = [sends EXCEPT ![stored] = @ + 1]
    BY <2>1 DEF Renews, Renewing
  <2> QED BY <1>1, <1>2, <1>3, <2>2
<1> QED BY <1>4, <1>5

LEMMA AnsweredType ==
  ASSUME TypeOK, NEW t \in Tasks, task[t].kind \in Kinds,
         NEW o \in {"ok", "no record", "trouble"}, Answered(t, o),
         astray' \subseteq Strays
  PROVE  TypeOK'
<1> USE DEF TypeOK
<1>0. task[t].section \in Sections /\ task[t].text \in Texts
  BY Made DEF Calls
<1>k. PICK k \in Kinds : k = task[t].kind OBVIOUS
<1>1. CASE k = "who"
  BY <1>k, <1>0, <1>1, Made DEF Answered, storage, Kinds
<1>2. CASE k = "load" \/ (k = "claim" /\ o # "ok")
  <2>1. present(task[t].section, o, task[t].text)
        /\ task' = [task EXCEPT ![t] = Idle] /\ UNCHANGED <<renewal, sends, crossed>>
        /\ UNCHANGED <<page, storage, route, good, joined, record, out>>
    BY <1>k, <1>2 DEF Answered
  <2>2. task' \in [Tasks -> {Idle} \cup Calls] /\ UNCHANGED <<joined, record>>
    BY <2>1
  <2>3. /\ view' \in [Sections -> Shown] /\ alreadyRead' \subseteq Sections
        /\ form' \in Texts /\ edited' \in BOOLEAN
    BY <2>1, <1>0, Made DEF present, ShownAs, ReadIfItCame, Shown
  <2> QED BY <2>1, <2>2, <2>3 DEF storage
<1>3. CASE k = "claim" /\ o = "ok"
  <2>1. alreadyRead' = {} /\ Asks(t, "load", route) /\ UNCHANGED <<form, edited>>
        /\ UNCHANGED <<page, storage, route, good, joined, record, out>>
    BY <1>k, <1>3 DEF Answered
  <2> QED BY <2>1, AsksType DEF storage, Kinds
<1>4. CASE k = "save"
  BY <1>k, <1>4, <1>0, Made DEF Answered, storage, Shown, FilledWithTheRecord
<1> QED BY <1>k, <1>1, <1>2, <1>3, <1>4 DEF Kinds

LEMMA OpensType ==
  ASSUME TypeOK, NEW s \in Sections, NEW token \in Tokens, NEW near \in BOOLEAN,
         Opens(s, token, near)
  PROVE  /\ task' \in [Tasks -> {Idle} \cup Calls] /\ view' \in [Sections -> Shown]
         /\ sends' \in [Tokens -> Nat]
         /\ renewal' \in [token : {None} \cup Tokens, at : {"none", "sent", "served"},
                          new : {None} \cup Tokens]
         /\ crossed' \subseteq Sections /\ UNCHANGED <<alreadyRead, form, edited>>
         /\ page' = "views" /\ route' = s
<1> DEFINE t == CHOOSE x \in Tasks : TRUE
           u == CHOOSE x \in Tasks \ {t} : TRUE
<1>0. t \in Tasks /\ u \in Tasks
  <2>1. \E x \in Tasks : TRUE
    BY PortalAssumption
  <2>2. t \in Tasks
    BY <2>1, Zenon
  <2> HIDE DEF t
  <2>3. \E x \in Tasks \ {t} : TRUE
    <3>1. PICK x, y \in Tasks : x # y
      BY PortalAssumption
    <3> QED BY <3>1
  <2>4. u \in Tasks \ {t}
    BY <2>3, Zenon
  <2> QED BY <2>2, <2>4
<1> USE DEF TypeOK
<1>1. task' = [task EXCEPT ![t] = Call("who", Profile, near), ![u] = Call("load", s, near)]
  BY DEF Opens
<1>2. Call("who", Profile, near) \in Calls /\ Call("load", s, near) \in Calls
  BY Made DEF Kinds
<1> HIDE DEF t, u
<1>3. task' \in [Tasks -> {Idle} \cup Calls]
  BY <1>0, <1>1, <1>2
<1>4. view' \in [Sections -> Shown]
  BY DEF Opens, Shown
<1> QED BY <1>3, <1>4 DEF Opens

LEMMA TypeStep == TypeOK /\ [Next]_vars => TypeOK'
<1> SUFFICES ASSUME TypeOK, [Next]_vars PROVE TypeOK'
  OBVIOUS
<1> USE DEF TypeOK
<1>0. None = 0 /\ Idle.text \in Texts /\ Idle.section \in Sections /\ Unwritten \in Texts
  BY Made
<1>1. ASSUME NEW t \in Tasks, Hears(t) PROVE TypeOK'
  <2>1. task[t] \in Calls /\ task[t].kind \in Kinds /\ task[t].outcome \in {"ok", "no record", "trouble"}
    BY <1>1, UnderWay DEF Hears
  <2> QED BY <1>1, <2>1, AnsweredType DEF Hears
<1>2. ASSUME NEW t \in Tasks, GivenUp(t) PROVE TypeOK'
  <2>1. task[t] \in Calls /\ task[t].kind \in Kinds
    BY <1>2, UnderWay DEF GivenUp
  <2>2. Left(t) \subseteq Strays
    BY LeftIs
  <2>3. astray' \subseteq Strays
    BY <1>2, <2>2 DEF GivenUp, Leaves
  <2> QED BY <1>2, <2>1, <2>3, AnsweredType DEF GivenUp
<1>3. ASSUME NEW t \in Tasks, Served(t) PROVE TypeOK'
  <2>0. task[t] \in Calls /\ task[t].text \in Texts
    BY <1>3, UnderWay DEF Served
  <2>1. record' \in Texts /\ joined' \in BOOLEAN
    BY <1>3, <2>0 DEF Served, Does
  <2>2. PICK o \in {"ok", "no record"}, x \in Texts :
          task' = [task EXCEPT ![t].at = "served", ![t].outcome = o, ![t].text = x]
    BY <1>3, <1>0, <2>1 DEF Served
  <2>3. task' \in [Tasks -> {Idle} \cup Calls]
    BY <2>0, <2>2 DEF Calls
  <2> QED BY <1>3, <2>1, <2>3 DEF Served, storage, screen
<1>4. ASSUME NEW t \in Tasks, sendProfileChanges(t) PROVE TypeOK'
  BY <1>4, AsksType DEF sendProfileChanges, storage, lab, Kinds, PortalAssumption
<1>5. ASSUME NEW t \in Tasks, writeFirstSignIn(t) PROVE TypeOK'
  BY <1>5, AsksType DEF writeFirstSignIn, storage, lab, Kinds
<1>6. ASSUME NEW s \in Sections, NEW t \in Tasks, show(s, t) PROVE TypeOK'
  BY <1>6, AsksType DEF show, storage, lab, Kinds, asking
<1>7. ASSUME NEW text \in Texts, Types(text) PROVE TypeOK'
  BY <1>7 DEF Types, storage, lab, asking
<1>8. ASSUME NEW taken \in BOOLEAN, RenewalServed(taken) PROVE TypeOK'
  <2>1. good' \in {None} \cup Tokens
    BY <1>8, <1>0 DEF RenewalServed, Tokens
  <2> QED BY <1>8, <2>1 DEF RenewalServed, storage, lab, screen
<1>9. ASSUME NEW heard \in BOOLEAN, RenewalEnds(heard) PROVE TypeOK'
  <2>0. \A t \in Waiting : [task[t] EXCEPT !.at = "asked"] \in Calls
    <3>1. ASSUME NEW t \in Waiting PROVE [task[t] EXCEPT !.at = "asked"] \in Calls
      <4>1. t \in Tasks /\ task[t] \in Calls
        BY UnderWay DEF Waiting
      <4> QED BY <4>1 DEF Calls
    <3> QED BY <3>1
  <2>1. task' \in [Tasks -> {Idle} \cup Calls]
    BY <1>9, <2>0 DEF RenewalEnds, ToldEitherWay
  <2>2. view' \in [Sections -> Shown] /\ renewal' = NoRenewal
    BY <1>9 DEF RenewalEnds, Shown
  <2>3. stored' \in {None} \cup Tokens
    BY <1>9 DEF RenewalEnds
  <2>4. NoRenewal \in [token : {None} \cup Tokens, at : {"none", "sent", "served"},
                      new : {None} \cup Tokens]
    BY <1>0 DEF NoRenewal
  <2> QED BY <1>9, <2>1, <2>2, <2>3, <2>4 DEF RenewalEnds, lab
<1>10. ASSUME NEW closed \in BOOLEAN, Unloads(closed) PROVE TypeOK'
  <2>1. UNION {Left(t) : t \in Tasks} \subseteq Strays
    BY LeftIs
  <2>2. astray' \subseteq Strays
    BY <1>10, <2>1 DEF Unloads, Leaves
  <2> QED BY <1>10, <1>0, <2>2 DEF Unloads, NoRenewal, Pages, Shown
<1>11. ASSUME NEW s \in Sections, Begins(s) PROVE TypeOK'
  BY <1>11, OpensType DEF Begins, Lands, storage, lab, Pages, asking, screen
<1>12. ASSUME NEW s \in Sections, NEW ours \in BOOLEAN, NEW given \in BOOLEAN,
              finishSignIn(s, ours, given)
       PROVE  TypeOK'
  <2>1. given => good' \in Tokens
    BY <1>12, <1>0 DEF finishSignIn, Tokens
  <2> QED BY <1>12, <2>1, OpensType DEF finishSignIn, Lands, lab, Pages, asking, screen
<1>13. CASE startSignIn
  BY <1>13 DEF startSignIn, Pages, asking, screen, lab
<1>14. CASE signOut
  BY <1>14 DEF signOut, Pages, asking, screen, lab
<1>15. CASE Ages
  BY <1>15 DEF Ages, asking, screen, lab
<1>16. CASE BeginsUnconfigured
  BY <1>16 DEF BeginsUnconfigured, Lands, Pages, asking, screen, lab, storage
<1>17. CASE UNCHANGED vars
  BY <1>17 DEF vars, asking, screen, lab, storage
<1>18. ASSUME NEW c \in astray, NEW left \in BOOLEAN, ServedUnheard(c, left) PROVE TypeOK'
  <2>1. c.text \in Texts
    BY DEF Strays
  <2> QED BY <1>18, <2>1 DEF ServedUnheard, Does, storage, asking, screen
<1> QED
  BY <1>1, <1>2, <1>3, <1>4, <1>5, <1>6, <1>7, <1>8, <1>9, <1>10, <1>11, <1>12,
     <1>13, <1>14, <1>15, <1>16, <1>17, <1>18 DEF Next

-----------------------------------------------------------------------------
(* The tokens.                                                             *)

\* A request spends the token that is stored, once, or none.
LEMMA AsksSpend ==
  ASSUME TypeOK, Spent, Gone, NEW t \in Tasks, NEW k \in Kinds, NEW s \in Sections,
         Asks(t, k, s), UNCHANGED <<stored, good, out>>
  PROVE  Spent' /\ Gone'
<1> USE DEF TypeOK
<1>1. CASE UNCHANGED <<renewal, sends>>
  BY <1>1 DEF Spent, Gone
<1>2. CASE ~UNCHANGED <<renewal, sends>>
  <2>1. Renews /\ Renewing
    BY <1>2 DEF Asks, Renewing
  <2>2. stored \in Tokens /\ renewal' = [token |-> stored, at |-> "sent", new |-> None]
        /\ sends' = [sends EXCEPT ![stored] = @ + 1] /\ renewal = NoRenewal
        /\ stored # None
    BY <2>1 DEF Renews, Renewing
  <2>3. sends[stored] = 0 /\ stored <= good
    BY <2>2 DEF Spent
  <2>4. Gone'
    BY <2>2 DEF Gone
  <2>5. sends'[stored] = 1 /\ \A n \in Tokens : n # stored => sends'[n] = sends[n]
    BY <2>2, <2>3
  <2>6. renewal'.new = None /\ renewal' # NoRenewal
    BY <2>2 DEF NoRenewal
  <2>7. \A n \in Tokens : sends'[n] <= 1 /\ (n > good' => sends'[n] = 0)
    BY <2>2, <2>3, <2>5 DEF Spent, Tokens
  <2> QED BY <2>2, <2>3, <2>4, <2>6, <2>7 DEF Spent
<1> QED BY <1>1, <1>2

LEMMA AnsweredSpend ==
  ASSUME TypeOK, Spent, Gone, NEW t \in Tasks, task[t].kind \in Kinds,
         NEW o \in {"ok", "no record", "trouble"}, Answered(t, o)
  PROVE  Spent' /\ Gone' /\ UNCHANGED page
<1>1. UNCHANGED <<page, stored, good, out, route>>
  BY DEF Answered, storage
<1>k. PICK k \in Kinds : k = task[t].kind OBVIOUS
<1>2. CASE k = "claim" /\ o = "ok"
  <2>1. Asks(t, "load", route)
    BY <1>k, <1>2 DEF Answered
  <2> QED BY <1>1, <2>1, AsksSpend DEF TypeOK, Kinds
<1>3. CASE ~(k = "claim" /\ o = "ok")
  <2>1. UNCHANGED <<renewal, sends>>
    BY <1>k, <1>3 DEF Answered, Kinds
  <2> QED BY <1>1, <2>1 DEF Spent, Gone
<1> QED BY <1>2, <1>3

LEMMA SpentStep == TypeOK /\ Away /\ Spent /\ Gone /\ [Next]_vars => Spent' /\ Gone'
<1> SUFFICES ASSUME TypeOK, Away, Spent, Gone, [Next]_vars PROVE Spent' /\ Gone'
  OBVIOUS
<1> USE DEF TypeOK
<1>0. None = 0 /\ NoRenewal.at = "none" /\ NoRenewal.new = None
  BY Made DEF NoRenewal
<1>1. ASSUME NEW t \in Tasks, Hears(t) PROVE Spent' /\ Gone'
  <2>1. task[t].kind \in Kinds /\ task[t].outcome \in {"ok", "no record", "trouble"}
    BY <1>1, UnderWay DEF Hears
  <2> QED BY <1>1, <2>1, AnsweredSpend DEF Hears
<1>2. ASSUME NEW t \in Tasks, GivenUp(t) PROVE Spent' /\ Gone'
  <2>1. task[t].kind \in Kinds
    BY <1>2, UnderWay DEF GivenUp
  <2> QED BY <1>2, <2>1, AnsweredSpend DEF GivenUp
<1>3. ASSUME UNCHANGED <<stored, good, renewal, sends, out>> PROVE Spent' /\ Gone'
  BY <1>3 DEF Spent, Gone
<1>4. ASSUME NEW t \in Tasks, sendProfileChanges(t) PROVE Spent' /\ Gone'
  BY <1>4, AsksSpend DEF sendProfileChanges, storage, Kinds, PortalAssumption
<1>5. ASSUME NEW t \in Tasks, writeFirstSignIn(t) PROVE Spent' /\ Gone'
  BY <1>5, AsksSpend DEF writeFirstSignIn, storage, Kinds
<1>6. ASSUME NEW s \in Sections, NEW t \in Tasks, show(s, t) PROVE Spent' /\ Gone'
  BY <1>3, <1>6, AsksSpend DEF show, storage, Kinds, asking
<1>8. ASSUME NEW taken \in BOOLEAN, RenewalServed(taken) PROVE Spent' /\ Gone'
  <2>1. renewal # NoRenewal /\ renewal' # NoRenewal /\ renewal'.at = "served"
    <3>1. renewal.at = "sent" /\ renewal'.at = "served"
      BY <1>8 DEF RenewalServed
    <3> QED BY <1>0, <3>1
  <2>2. UNCHANGED <<stored, sends, out>>
    BY <1>8 DEF RenewalServed, storage
  <2>3. CASE ~taken
    <3>1. good' = good /\ renewal'.new = None
      BY <1>8, <2>3 DEF RenewalServed
    <3> QED BY <2>1, <2>2, <3>1 DEF Spent, Gone
  <2>4. CASE taken
    <3>1. good' = good + 1 /\ good' \in Tokens /\ renewal'.new = good'
      BY <1>0, <1>8, <2>4 DEF RenewalServed, Tokens
    <3>2. sends[good'] = 0 /\ good <= good' /\ good \in Nat
      BY <1>0, <3>1 DEF Spent, Tokens
    <3>3. stored <= good'
      BY <1>0, <3>1 DEF Spent, Tokens
    <3>4. \A n \in Tokens : sends'[n] <= 1 /\ (n > good' => sends'[n] = 0)
      BY <2>2, <3>1, <3>2 DEF Spent, Tokens
    <3> QED BY <2>1, <2>2, <3>1, <3>2, <3>3, <3>4 DEF Spent, Gone, Tokens
  <2> QED BY <2>3, <2>4
<1>9. ASSUME NEW heard \in BOOLEAN, RenewalEnds(heard) PROVE Spent' /\ Gone'
  <2>1. renewal # NoRenewal /\ renewal' = NoRenewal /\ UNCHANGED <<good, sends, out>>
        /\ (stored' = None \/ stored' = renewal.new)
    BY <1>9 DEF RenewalEnds
  <2>2. stored' <= good /\ (stored' # None => sends[stored'] = 0)
    BY <1>0, <2>1 DEF Spent, Tokens
  <2> QED BY <1>0, <2>1, <2>2 DEF Spent, Gone
<1>10. ASSUME NEW closed \in BOOLEAN, Unloads(closed) PROVE Spent' /\ Gone'
  <2>1. renewal' = NoRenewal /\ sends' = [n \in Tokens |-> 0] /\ UNCHANGED <<good, out>>
        /\ stored' \in {None, stored}
    BY <1>10 DEF Unloads
  <2> QED BY <1>0, <2>1 DEF Spent, Gone, Tokens
<1>11. ASSUME NEW s \in Sections, Begins(s) PROVE Spent' /\ Gone'
  <2>0. renewal = NoRenewal /\ UNCHANGED <<stored, good, out>>
    BY <1>11 DEF Begins, Away, storage
  <2>1. CASE UNCHANGED <<renewal, sends>>
    BY <2>0, <2>1, <1>3
  <2>2. CASE ~UNCHANGED <<renewal, sends>>
    <3>1. stored # None /\ renewal' = [token |-> stored, at |-> "sent", new |-> None]
          /\ sends' = [sends EXCEPT ![stored] = @ + 1]
      BY <1>11, <2>2 DEF Begins, Opens, Lands, asking
    <3>2. sends[stored] = 0 /\ stored <= good /\ stored \in Tokens
      BY <2>0, <3>1 DEF Spent
    <3>3. \A n \in Tokens : sends'[n] <= 1 /\ (n > good' => sends'[n] = 0)
      BY <2>0, <3>1, <3>2 DEF Spent, Tokens
    <3>4. renewal' # NoRenewal /\ renewal'.new = None
      BY <3>1 DEF NoRenewal
    <3> QED BY <2>0, <3>1, <3>2, <3>3, <3>4 DEF Spent, Gone
  <2> QED BY <2>1, <2>2
<1>12. ASSUME NEW s \in Sections, NEW ours \in BOOLEAN, NEW given \in BOOLEAN,
              finishSignIn(s, ours, given)
       PROVE  Spent' /\ Gone'
  <2>1. UNCHANGED <<renewal, sends>> /\ renewal = NoRenewal
    BY <1>12 DEF finishSignIn, Opens, Lands, asking, Away
  <2>2. CASE ~given
    BY <1>3, <1>12, <2>1, <2>2 DEF finishSignIn
  <2>3. CASE given
    <3>1. good' = good + 1 /\ good' \in Tokens /\ stored' = good' /\ ~out'
      BY <1>0, <1>12, <2>3 DEF finishSignIn, Tokens
    <3>2. sends[good'] = 0 /\ good \in Nat
      BY <1>0, <3>1 DEF Spent, Tokens
    <3>3. \A n \in Tokens : sends'[n] <= 1 /\ (n > good' => sends'[n] = 0)
      BY <2>1, <3>1, <3>2 DEF Spent, Tokens
    <3> QED BY <1>0, <2>1, <3>1, <3>2, <3>3 DEF Spent, Gone, Tokens
  <2> QED BY <2>2, <2>3
<1>13. CASE signOut
  <2>1. stored' = None /\ out' = (renewal = NoRenewal) /\ UNCHANGED <<renewal, sends, good>>
    BY <1>13 DEF signOut, asking
  <2> QED BY <1>0, <2>1 DEF Spent, Gone, Tokens
<1>14. ASSUME \/ \E t \in Tasks : Served(t)
              \/ \E c \in astray, left \in BOOLEAN : ServedUnheard(c, left)
              \/ \E text \in Texts : Types(text)
              \/ startSignIn \/ Ages \/ BeginsUnconfigured \/ UNCHANGED vars
       PROVE  Spent' /\ Gone'
  BY <1>3, <1>14 DEF Served, ServedUnheard, Types, startSignIn, Ages, BeginsUnconfigured, Lands,
     vars, asking, storage
<1> QED
  BY <1>1, <1>2, <1>4, <1>5, <1>6, <1>8, <1>9, <1>10, <1>11, <1>12, <1>13, <1>14 DEF Next

-----------------------------------------------------------------------------
(* Saves, and a page that is away.                                         *)

\* The end of a renewal ends a request or lets it go on.
SameOrEnded(t) ==
  \/ task'[t] = Idle
  \/ task'[t] = task[t]
  \/ /\ task[t].at = "token" /\ task'[t].at = "asked"
     /\ task'[t].kind = task[t].kind /\ task'[t].section = task[t].section
     /\ task'[t].text = task[t].text /\ Asking(t) /\ Asking(t)'

LEMMA EndsTasks ==
  ASSUME TypeOK, NEW heard \in BOOLEAN, RenewalEnds(heard), NEW t \in Tasks
  PROVE  SameOrEnded(t)
<1>1. \/ task'[t] = Idle
      \/ task'[t] = task[t]
      \/ t \in Waiting /\ task'[t] = [task[t] EXCEPT !.at = "asked"]
  BY DEF RenewalEnds, ToldEitherWay
<1>2. ASSUME t \in Waiting, task'[t] = [task[t] EXCEPT !.at = "asked"] PROVE SameOrEnded(t)
  <2>1. task[t] \in Calls /\ task[t].at = "token" /\ Asking(t)
    BY <1>2, UnderWay DEF Waiting
  <2>2. task'[t].at = "asked" /\ Idle.at = "idle"
    BY <1>2, <2>1 DEF Calls, Idle
  <2> QED BY <1>2, <2>1, <2>2 DEF Calls, SameOrEnded, Asking
<1> QED BY <1>1, <1>2 DEF SameOrEnded

\* Only the profile form is saved.
LEMMA AsksSaves ==
  ASSUME TypeOK, Saves, NEW t \in Tasks, NEW k \in Kinds, NEW s \in Sections,
         Asks(t, k, s), k = "save" => s = Profile
  PROVE  Saves'
<1>1. task' = [task EXCEPT ![t] = Idle] \/ task' = [task EXCEPT ![t] = Call(k, s, aged)]
  BY DEF Asks
<1>2. Idle.kind = "none" /\ Call(k, s, aged).kind = k /\ Call(k, s, aged).section = s
  BY DEF Idle, Call
<1> QED BY <1>1, <1>2 DEF Saves, TypeOK

LEMMA AnsweredSaves ==
  ASSUME TypeOK, Saves, NEW t \in Tasks, task[t].kind \in Kinds,
         NEW o \in {"ok", "no record", "trouble"}, Answered(t, o)
  PROVE  Saves'
<1>k. PICK k \in Kinds : k = task[t].kind OBVIOUS
<1>2. CASE k = "claim" /\ o = "ok"
  <2>1. Asks(t, "load", route)
    BY <1>k, <1>2 DEF Answered
  <2> QED BY <2>1, AsksSaves DEF TypeOK, Kinds
<1>3. CASE ~(k = "claim" /\ o = "ok")
  <2>1. task' = [task EXCEPT ![t] = Idle]
    BY <1>k, <1>3 DEF Answered, Kinds
  <2>2. Idle.kind = "none"
    BY DEF Idle
  <2> QED BY <2>1, <2>2 DEF Saves, TypeOK
<1> QED BY <1>2, <1>3

LEMMA SavesStep == TypeOK /\ Saves /\ [Next]_vars => Saves'
<1> SUFFICES ASSUME TypeOK, Saves, [Next]_vars PROVE Saves'
  OBVIOUS
<1> USE DEF TypeOK
<1>0. Idle.kind = "none"
  BY DEF Idle
<1>1. ASSUME NEW t \in Tasks, Hears(t) PROVE Saves'
  <2>1. task[t].kind \in Kinds /\ task[t].outcome \in {"ok", "no record", "trouble"}
    BY <1>1, UnderWay DEF Hears
  <2> QED BY <1>1, <2>1, AnsweredSaves DEF Hears
<1>2. ASSUME NEW t \in Tasks, GivenUp(t) PROVE Saves'
  <2>1. task[t].kind \in Kinds
    BY <1>2, UnderWay DEF GivenUp
  <2> QED BY <1>2, <2>1, AnsweredSaves DEF GivenUp
<1>3. ASSUME NEW t \in Tasks, Served(t) PROVE Saves'
  <2>1. PICK o, x :
          task' = [task EXCEPT ![t].at = "served", ![t].outcome = o, ![t].text = x]
    BY <1>3 DEF Served
  <2> QED BY <2>1 DEF Saves
<1>4. ASSUME NEW t \in Tasks, sendProfileChanges(t) PROVE Saves'
  BY <1>4, AsksSaves DEF sendProfileChanges, Kinds, PortalAssumption
<1>5. ASSUME NEW t \in Tasks, writeFirstSignIn(t) PROVE Saves'
  BY <1>5, AsksSaves DEF writeFirstSignIn, Kinds
<1>6. ASSUME NEW s \in Sections, NEW t \in Tasks, show(s, t) PROVE Saves'
  <2>1. CASE UNCHANGED task
    BY <2>1 DEF Saves
  <2>2. CASE Asks(t, "load", s)
    BY <2>2, AsksSaves DEF Kinds
  <2> QED BY <1>6, <2>1, <2>2 DEF show, asking
<1>9. ASSUME NEW heard \in BOOLEAN, RenewalEnds(heard) PROVE Saves'
  <2>1. \A t \in Tasks : SameOrEnded(t)
    BY <1>9, EndsTasks
  <2> QED BY <1>0, <2>1 DEF Saves, SameOrEnded
<1>10. ASSUME NEW closed \in BOOLEAN, Unloads(closed) PROVE Saves'
  BY <1>0, <1>10 DEF Unloads, Saves
<1>11. ASSUME NEW s \in Sections, NEW token, NEW near \in BOOLEAN, Opens(s, token, near)
       PROVE  Saves'
  <2> DEFINE t == CHOOSE x \in Tasks : TRUE
             u == CHOOSE x \in Tasks \ {t} : TRUE
  <2>1. task' = [task EXCEPT ![t] = Call("who", Profile, near), ![u] = Call("load", s, near)]
    BY <1>11 DEF Opens
  <2>2. Call("who", Profile, near).kind = "who" /\ Call("load", s, near).kind = "load"
    BY DEF Call
  <2> HIDE DEF t, u
  <2> QED BY <2>1, <2>2 DEF Saves
<1>12. ASSUME NEW s \in Sections, Begins(s) PROVE Saves'
  BY <1>11, <1>12 DEF Begins, Lands, asking, Saves
<1>13. ASSUME NEW s \in Sections, NEW ours \in BOOLEAN, NEW given \in BOOLEAN,
              finishSignIn(s, ours, given)
       PROVE  Saves'
  BY <1>11, <1>13 DEF finishSignIn, Lands, asking, Saves
<1>14. ASSUME UNCHANGED task PROVE Saves'
  BY <1>14 DEF Saves
<1>15. ASSUME \/ \E text \in Texts : Types(text)
              \/ \E c \in astray, left \in BOOLEAN : ServedUnheard(c, left)
              \/ \E taken \in BOOLEAN : RenewalServed(taken)
              \/ startSignIn \/ signOut \/ Ages \/ BeginsUnconfigured \/ UNCHANGED vars
       PROVE  Saves'
  BY <1>14, <1>15 DEF Types, ServedUnheard, RenewalServed, startSignIn, signOut, Ages, BeginsUnconfigured, Lands,
     vars, asking
<1> QED
  BY <1>1, <1>2, <1>3, <1>4, <1>5, <1>6, <1>9, <1>10, <1>12, <1>13, <1>15 DEF Next

LEMMA AwayStep == Away /\ [Next]_vars => Away'
<1> SUFFICES ASSUME Away, [Next]_vars, page' = "away"
             PROVE  /\ renewal' = NoRenewal
                    /\ \A t \in Tasks : task'[t] = Idle
                    /\ alreadyRead' = {}
  BY DEF Away
<1>1. CASE \E closed \in BOOLEAN : Unloads(closed)
  BY <1>1 DEF Unloads
<1>2. CASE page = "away" /\ UNCHANGED <<asking, screen>>
  BY <1>2 DEF asking, screen, Away
<1>3. ASSUME NEW t \in Tasks, Hears(t) \/ GivenUp(t) \/ Served(t) PROVE FALSE
  <2>1. page = "away"
    BY <1>3 DEF Hears, GivenUp, Served, Answered
  <2>2. task[t].at = "idle"
    BY <2>1 DEF Away, Idle
  <2> QED BY <1>3, <2>2 DEF Hears, GivenUp, Served
<1>4. ASSUME NEW b \in BOOLEAN, RenewalServed(b) \/ RenewalEnds(b) PROVE FALSE
  <2>1. page = "away"
    BY <1>4 DEF RenewalServed, RenewalEnds
  <2>2. renewal = NoRenewal /\ renewal.at = "none"
    BY <2>1 DEF Away, NoRenewal
  <2> QED BY <1>4, <2>2 DEF RenewalServed, RenewalEnds
<1>5. ASSUME NEW t \in Tasks, sendProfileChanges(t) \/ writeFirstSignIn(t)
                               \/ \E s \in Sections : show(s, t)
      PROVE  FALSE
  BY <1>5 DEF sendProfileChanges, writeFirstSignIn, show
<1>6. ASSUME NEW s \in Sections,
             Begins(s) \/ \E ours, given \in BOOLEAN : finishSignIn(s, ours, given)
      PROVE  FALSE
  BY <1>6 DEF Begins, finishSignIn, Opens, Lands
<1>7. ASSUME \/ \E text \in Texts : Types(text)
             \/ startSignIn \/ signOut \/ BeginsUnconfigured
      PROVE  FALSE
  BY <1>7 DEF Types, startSignIn, signOut, BeginsUnconfigured, Lands
<1>8. CASE \/ Ages \/ UNCHANGED vars
           \/ \E c \in astray, left \in BOOLEAN : ServedUnheard(c, left)
  BY <1>2, <1>8 DEF Ages, ServedUnheard, vars
<1> QED
  BY <1>1, <1>3, <1>4, <1>5, <1>6, <1>7, <1>8 DEF Next

-----------------------------------------------------------------------------
(* The views and the form.                                                 *)

\* A step that starts no request and takes no view off the crossed ones.
Settles ==
  /\ crossed' = crossed
  /\ \A t \in Tasks : Asking(t)' => /\ Asking(t)
                                   /\ task'[t].kind = task[t].kind
                                   /\ task'[t].section = task[t].section

LEMMA SettlesAlone ==
  ASSUME Alone, Settles
  PROVE  /\ Alone'
         /\ \A s \in Sections : About(s)' \subseteq About(s)
                               /\ \A t \in About(s)' : Reads(t)' => Reads(t)
<1>1. \A s \in Sections : About(s)' \subseteq About(s)
        /\ \A t \in About(s)' : Reads(t)' => Reads(t)
  BY DEF About, Settles, Reads
<1> QED BY <1>1 DEF Alone, Settles

LEMMA SettlesToAsk ==
  ASSUME Alone, ToAsk, Settles, alreadyRead' = alreadyRead,
         \A s \in Sections \ crossed :
           view'[s] \in {"no record", "trouble"} => s \notin alreadyRead
  PROVE  ToAsk'
<1>1. \A s \in Sections : \A t \in About(s)' : Reads(t)' => t \in About(s) /\ Reads(t)
  BY SettlesAlone
<1> QED BY <1>1 DEF ToAsk, Settles

\* A request that is over.
LEMMA OverSettles ==
  ASSUME TypeOK, NEW t \in Tasks, task' = [task EXCEPT ![t] = Idle], crossed' = crossed
  PROVE  /\ Settles
         /\ \A s \in Sections : /\ t \notin About(s)'
                               /\ \A u \in About(s)' : u \in About(s) /\ task'[u] = task[u]
<1>1. \A u \in Tasks : IF u = t THEN task'[u] = Idle ELSE task'[u] = task[u]
  BY DEF TypeOK
<1>2. ~Asking(t)' /\ \A u \in Tasks : Asking(u)' => u # t /\ Asking(u)
  BY <1>1 DEF Asking
<1> QED BY <1>1, <1>2 DEF Settles, About

\* Fewer requests, the same record, and a form that is not filled.
LEMMA FilledKept ==
  ASSUME Filled, crossed' = crossed, record' = record,
         \A u \in About(Profile)' : u \in About(Profile) /\ task'[u] = task[u],
         view'[Profile] = "record" /\ ~edited' =>
           view[Profile] = "record" /\ ~edited /\ form' = form
  PROVE  Filled'
<1> SUFFICES ASSUME Profile \notin crossed PROVE Filled'
  BY DEF Filled
<1>1. \A u \in About(Profile)' :
        task'[u].at = "served" /\ task'[u].kind \in {"load", "save"}
          /\ task'[u].outcome = "ok" => task'[u].text = record'
  BY DEF Filled
<1>2. ASSUME view'[Profile] = "record", ~edited'
      PROVE  /\ form' = record'
             /\ \A u \in About(Profile)' :
                  task'[u].kind = "save" /\ task'[u].at # "served" => task'[u].text = record'
  BY <1>2 DEF Filled
<1> QED BY <1>1, <1>2 DEF Filled

LEMMA AsksViews ==
  ASSUME TypeOK, Alone, ToAsk, Filled, NEW t \in Tasks,
         NEW k \in {"load", "save", "claim"}, NEW s \in Sections, Asks(t, k, s),
         UNCHANGED <<record, form, edited>>, alreadyRead' \subseteq alreadyRead,
         k # "save" /\ s \notin crossed => s \notin alreadyRead',
         k = "save" => s = Profile /\ view[Profile] = "record"
  PROVE  Alone' /\ ToAsk' /\ Filled'
<1> USE DEF TypeOK
<1>1. CASE stored = None
  <2>1. view' = [view EXCEPT ![s] = "signed out"] /\ task' = [task EXCEPT ![t] = Idle]
        /\ crossed' = crossed
    BY <1>1 DEF Asks
  <2>2. Settles /\ \A x \in Sections : \A u \in About(x)' : u \in About(x) /\ task'[u] = task[u]
    BY <2>1, OverSettles
  <2>3. \A x \in Sections : view'[x] \in {"signed out", view[x]}
    BY <2>1
  <2>4. \A x \in Sections : \A u \in About(x)' : Reads(u)' => Reads(u)
    BY <2>2 DEF Reads
  <2>5. ToAsk'
    BY <2>1, <2>2, <2>3, <2>4 DEF ToAsk
  <2>6. Filled'
    BY <2>1, <2>2, <2>3, FilledKept
  <2> QED BY <2>2, <2>5, <2>6, SettlesAlone
<1>2. CASE stored # None
  <2> DEFINE call == Call(k, s, aged)
  <2>1. /\ view' = IF k = "save" THEN view ELSE [view EXCEPT ![s] = "loading"]
        /\ task' = [task EXCEPT ![t] = call]
        /\ crossed \subseteq crossed' /\ crossed' \subseteq crossed \cup {s}
        /\ s \notin crossed' => About(s) \ {t} = {}
    BY <1>2 DEF Asks, Crosses
  <2>2. call.kind = k /\ call.section = s /\ call.at # "served" /\ call # Idle
        /\ (k = "save" => call.text = form)
    BY DEF Call, Idle
  <2> HIDE DEF call
  <2>3. \A u \in Tasks : IF u = t THEN task'[u] = call ELSE task'[u] = task[u]
    BY <2>1
  <2>4. t \in About(s)' /\ \A x \in Sections : \A u \in About(x)' :
          IF u = t THEN x = s ELSE u \in About(x) /\ task'[u] = task[u]
    BY <2>2, <2>3 DEF About, Asking
  <2>5. s \notin crossed' => About(s)' \subseteq {t}
    BY <2>1, <2>4
  <2>6. crossed \subseteq crossed'
    BY <2>1
  <2>7. Alone'
    BY <2>4, <2>5, <2>6 DEF Alone
  <2>8. \A x \in Sections : x # s => view'[x] = view[x]
    BY <2>1
  <2>9. ToAsk'
    <3> SUFFICES ASSUME NEW x \in Sections \ crossed',
                        view'[x] \in {"no record", "trouble"} \/ \E u \in About(x)' : Reads(u)'
                 PROVE  x \notin alreadyRead'
      BY DEF ToAsk
    <3>1. CASE x # s
      BY <2>4, <2>6, <2>8, <3>1 DEF ToAsk, Reads
    <3>2. CASE x = s /\ k # "save"
      BY <2>6, <3>2
    <3>3. CASE x = s /\ k = "save"
      BY <2>1, <2>2, <2>3, <2>5, <3>3 DEF Reads
    <3> QED BY <3>1, <3>2, <3>3
  <2>10. Filled'
    <3> SUFFICES ASSUME Profile \notin crossed' PROVE Filled'
      BY DEF Filled
    <3>1. \A u \in About(Profile)' :
            task'[u].at = "served" /\ task'[u].kind \in {"load", "save"}
              /\ task'[u].outcome = "ok" => task'[u].text = record'
      BY <2>2, <2>3, <2>4, <2>6, PortalAssumption DEF Filled
    <3>2. ASSUME view'[Profile] = "record", ~edited'
          PROVE  /\ form' = record'
                 /\ \A u \in About(Profile)' :
                      task'[u].kind = "save" /\ task'[u].at # "served" => task'[u].text = record'
      <4>1. view[Profile] = "record" /\ ~edited /\ (s = Profile => k = "save")
        BY <2>1, <2>8, <3>2, PortalAssumption
      <4>2. form = record
        BY <2>6, <4>1 DEF Filled
      <4> QED BY <2>2, <2>3, <2>4, <2>6, <4>1, <4>2, PortalAssumption DEF Filled
    <3> QED BY <3>1, <3>2 DEF Filled
  <2> QED BY <2>7, <2>9, <2>10
<1> QED BY <1>1, <1>2

LEMMA AnsweredViews ==
  ASSUME TypeOK, Alone, ToAsk, Filled, Saves, NEW t \in Tasks, task[t].at # "idle",
         NEW o \in {"ok", "no record", "trouble"}, Answered(t, o),
         o = "ok" => task[t].at = "served" /\ task[t].outcome = "ok"
  PROVE  Alone' /\ ToAsk' /\ Filled'
<1> USE DEF TypeOK
<1>0. UNCHANGED <<record, route>>
  BY DEF Answered
<1>a. Asking(t) /\ task[t].kind \in Kinds /\ task[t].section \in Sections
  BY UnderWay
<1>k. PICK k \in Kinds : k = task[t].kind BY <1>a
<1>s. PICK s \in Sections : s = task[t].section BY <1>a
<1>1. CASE k = "who"
  <2>1. task' = [task EXCEPT ![t] = Idle] /\ UNCHANGED <<crossed, view, alreadyRead, form, edited>>
    BY <1>k, <1>1 DEF Answered
  <2>2. Settles /\ \A x \in Sections : \A u \in About(x)' : u \in About(x) /\ task'[u] = task[u]
    BY <2>1, OverSettles
  <2>3. Filled'
    BY <1>0, <2>1, <2>2, FilledKept, PortalAssumption
  <2>4. ToAsk'
    BY <2>1, <2>2, SettlesToAsk DEF ToAsk
  <2> QED BY <2>2, <2>3, <2>4, SettlesAlone
<1>2. CASE k = "load" \/ (k = "claim" /\ o # "ok")
  <2>1. present(s, o, task[t].text) /\ task' = [task EXCEPT ![t] = Idle] /\ crossed' = crossed
    BY <1>k, <1>s, <1>2 DEF Answered
  <2>2. Settles /\ \A x \in Sections : t \notin About(x)'
          /\ \A u \in About(x)' : u \in About(x) /\ task'[u] = task[u]
    BY <2>1, OverSettles
  <2>3. t \in About(s) /\ Reads(t)
    BY <1>a, <1>k, <1>s, <1>2 DEF About, Reads
  <2>4. s \notin crossed => About(s)' = {}
    <3>1. ASSUME s \notin crossed, NEW u \in About(s)' PROVE FALSE
      <4>1. u \in About(s) /\ u = t
        BY <2>2, <2>3, <3>1 DEF Alone
      <4> QED BY <2>2, <4>1
    <3> QED BY <3>1
  <2>5. /\ view'[s] = ShownAs(o) /\ \A x \in Sections : x # s => view'[x] = view[x]
        /\ alreadyRead' = IF o = "ok" THEN alreadyRead \cup {s} ELSE alreadyRead
    BY <2>1 DEF present, ReadIfItCame
  <2>6. ToAsk'
    <3> SUFFICES ASSUME NEW x \in Sections \ crossed',
                        view'[x] \in {"no record", "trouble"} \/ \E u \in About(x)' : Reads(u)'
                 PROVE  x \notin alreadyRead'
      BY DEF ToAsk
    <3>1. x \notin crossed
      BY <2>1
    <3>2. CASE x = s
      <4>1. o # "ok"
        BY <2>4, <2>5, <3>1, <3>2 DEF ShownAs
      <4> QED BY <2>3, <2>5, <3>1, <3>2, <4>1 DEF ToAsk
    <3>3. CASE x # s
      BY <2>2, <2>5, <3>1, <3>3 DEF ToAsk, Reads
    <3> QED BY <3>2, <3>3
  <2>7. Filled'
    <3>1. CASE o = "ok" /\ s = Profile
      <4>1. form' = task[t].text /\ edited' = FALSE /\ k = "load"
        BY <1>2, <2>1, <3>1 DEF present
      <4>2. Profile \notin crossed => task[t].text = record
        BY <1>k, <2>3, <3>1, <4>1 DEF Filled
      <4> QED BY <1>0, <2>1, <2>4, <3>1, <4>1, <4>2 DEF Filled
    <3>2. CASE ~(o = "ok" /\ s = Profile)
      <4>1. form' = form /\ edited' = edited
        BY <2>1, <3>2 DEF present
      <4>2. view'[Profile] = "record" => view[Profile] = "record"
        BY <2>5, <3>2, PortalAssumption DEF ShownAs
      <4> QED BY <1>0, <2>1, <2>2, <4>1, <4>2, FilledKept, PortalAssumption
    <3> QED BY <3>1, <3>2
  <2> QED BY <2>2, <2>6, <2>7, SettlesAlone
<1>3. CASE k = "claim" /\ o = "ok"
  <2>1. alreadyRead' = {} /\ Asks(t, "load", route) /\ UNCHANGED <<form, edited>>
    BY <1>k, <1>3 DEF Answered
  <2> QED BY <1>0, <2>1, AsksViews
<1>4. CASE k = "save"
  <2>0. s = Profile /\ t \in About(Profile)
    BY <1>a, <1>k, <1>s, <1>4 DEF Saves, About
  <2>1. task' = [task EXCEPT ![t] = Idle] /\ crossed' = crossed /\ alreadyRead' = alreadyRead
    BY <1>k, <1>4 DEF Answered
  <2>2. Settles /\ \A x \in Sections : t \notin About(x)'
          /\ \A u \in About(x)' : u \in About(x) /\ task'[u] = task[u]
    BY <2>1, OverSettles
  <2>3. Profile \notin crossed => About(Profile)' = {}
    <3>1. ASSUME Profile \notin crossed, NEW u \in About(Profile)' PROVE FALSE
      <4>1. u \in About(Profile) /\ u = t
        BY <2>0, <2>2, <3>1, PortalAssumption DEF Alone
      <4> QED BY <2>0, <2>2, <4>1, PortalAssumption
    <3> QED BY <3>1
  <2>4. CASE o = "ok"
    <3>1. view' = [view EXCEPT ![Profile] = "record"] /\ form' = task[t].text /\ edited' = FALSE
      BY <1>k, <1>4, <2>4 DEF Answered, FilledWithTheRecord
    <3>2. Profile \notin crossed => task[t].text = record
      BY <1>k, <1>4, <2>0, <2>4 DEF Filled
    <3>3. Filled'
      BY <1>0, <2>1, <2>3, <3>1, <3>2 DEF Filled
    <3>4. ToAsk'
      BY <2>1, <2>2, <3>1, SettlesToAsk DEF ToAsk
    <3> QED BY <2>2, <3>3, <3>4, SettlesAlone
  <2>5. CASE o # "ok"
    <3>1. UNCHANGED <<view, form, edited>>
      BY <1>k, <1>4, <2>5 DEF Answered
    <3>2. Filled'
      BY <1>0, <2>1, <2>2, <3>1, FilledKept, PortalAssumption
    <3>3. ToAsk'
      BY <2>1, <2>2, <3>1, SettlesToAsk DEF ToAsk
    <3> QED BY <2>2, <3>2, <3>3, SettlesAlone
  <2> QED BY <2>4, <2>5
<1> QED BY <1>1, <1>2, <1>3, <1>4 DEF Kinds

LEMMA ServedViews ==
  ASSUME TypeOK, Alone, ToAsk, Filled, Saves, NEW t \in Tasks, Served(t)
  PROVE  Alone' /\ ToAsk' /\ Filled'
<1> USE DEF TypeOK
<1>0. Asking(t) /\ task[t] \in Calls /\ task[t].at = "asked"
  BY UnderWay DEF Served
<1>1. /\ UNCHANGED <<crossed, view, alreadyRead, form, edited>>
      /\ record' = IF task[t].kind = "save" THEN task[t].text ELSE record
      /\ task[t].kind = "save" => joined
      /\ joined' = (joined \/ task[t].kind = "claim")
  BY DEF Served, Does, screen
<1> DEFINE outcome == IF task[t].kind = "load" /\ ~joined THEN "no record" ELSE "ok"
           text == IF task[t].kind \in {"load", "save"} /\ task[t].section = Profile /\ joined
                   THEN record' ELSE Unwritten
<1>2. task' = [task EXCEPT ![t].at = "served", ![t].outcome = outcome, ![t].text = text]
  BY DEF Served
<1>3. /\ task'[t].kind = task[t].kind /\ task'[t].section = task[t].section
      /\ task'[t].at = "served" /\ task'[t].outcome = outcome /\ task'[t].text = text
  BY <1>0, <1>2 DEF Calls
<1>4. \A u \in Tasks : u # t => task'[u] = task[u]
  BY <1>2
<1>5. Settles
  BY <1>0, <1>1, <1>3, <1>4 DEF Settles, Asking
<1>6. ToAsk'
  BY <1>1, <1>5, SettlesToAsk DEF ToAsk
<1>7. Filled'
  <2> SUFFICES ASSUME Profile \notin crossed PROVE Filled'
    BY <1>1 DEF Filled
  <2>1. About(Profile)' \subseteq About(Profile)
    BY <1>5, SettlesAlone, PortalAssumption
  <2>2. task[t].kind = "save" => About(Profile) = {t}
    BY <1>0, PortalAssumption DEF About, Alone, Saves
  <2>3. ASSUME NEW u \in About(Profile)', task'[u].at = "served",
               task'[u].kind \in {"load", "save"}, task'[u].outcome = "ok"
        PROVE  task'[u].text = record'
    <3>1. CASE u = t
      <4>1. task[t].section = Profile /\ task[t].kind \in {"load", "save"} /\ joined
        BY <1>1, <1>3, <2>1, <2>3, <3>1 DEF About
      <4> QED BY <1>3, <3>1, <4>1
    <3>2. CASE u # t
      <4>1. record' = record
        BY <1>1, <2>1, <2>2, <2>3, <3>2
      <4> QED BY <1>4, <2>1, <2>3, <3>2, <4>1 DEF About, Filled
    <3> QED BY <3>1, <3>2
  <2>4. ASSUME view'[Profile] = "record", ~edited'
        PROVE  /\ form' = record'
               /\ \A u \in About(Profile)' :
                    task'[u].kind = "save" /\ task'[u].at # "served" => task'[u].text = record'
    <3>1. form = record /\ (task[t].kind = "save" => task[t].text = record)
      BY <1>0, <1>1, <2>2, <2>4 DEF Filled
    <3>2. record' = record
      BY <1>1, <3>1
    <3> QED BY <1>1, <1>3, <1>4, <2>1, <2>4, <3>1, <3>2 DEF About, Filled
  <2> QED BY <2>3, <2>4 DEF Filled
<1> QED BY <1>5, <1>6, <1>7, SettlesAlone

LEMMA OpensViews ==
  ASSUME TypeOK, Away, Alone, ToAsk, Filled, page = "away", NEW s \in Sections, NEW token,
         NEW near \in BOOLEAN, Opens(s, token, near), record' = record
  PROVE  Alone' /\ ToAsk' /\ Filled'
<1> USE DEF TypeOK
<1> DEFINE t == CHOOSE x \in Tasks : TRUE
           u == CHOOSE x \in Tasks \ {t} : TRUE
<1>1. task' = [task EXCEPT ![t] = Call("who", Profile, near), ![u] = Call("load", s, near)]
  BY DEF Opens
<1>2. /\ crossed \subseteq crossed' /\ UNCHANGED <<alreadyRead, form, edited>>
      /\ view' = [view EXCEPT ![s] = "loading"]
  BY DEF Opens
<1>3. /\ Call("who", Profile, near).kind = "who"
      /\ Call("load", s, near).kind = "load" /\ Call("load", s, near).section = s
      /\ Call("load", s, near).at # "served"
  BY DEF Call
<1> HIDE DEF t, u
<1>4. alreadyRead = {} /\ \A x \in Tasks : task[x] = Idle
  BY DEF Away
<1>5. \A x \in Sections : \A v \in About(x)' :
        v = u /\ x = s /\ task'[v] = Call("load", s, near)
  BY <1>1, <1>3, <1>4 DEF About, Asking
<1>6. Alone'
  BY <1>5 DEF Alone
<1>7. ToAsk'
  BY <1>2, <1>4 DEF ToAsk
<1>8. Filled'
  <2> SUFFICES ASSUME Profile \notin crossed' PROVE Filled'
    BY DEF Filled
  <2>1. \A v \in About(Profile)' : task'[v].at # "served" /\ task'[v].kind # "save"
    BY <1>3, <1>5, PortalAssumption
  <2>2. view'[Profile] = "record" => view[Profile] = "record"
    BY <1>2, PortalAssumption
  <2> QED BY <1>2, <2>1, <2>2 DEF Filled
<1> QED BY <1>6, <1>7, <1>8

LEMMA ViewsStep ==
  IInv /\ [Next]_vars => Alone' /\ ToAsk' /\ Filled'
<1> SUFFICES ASSUME IInv, [Next]_vars PROVE Alone' /\ ToAsk' /\ Filled'
  OBVIOUS
<1> USE DEF IInv
<1>1. ASSUME NEW t \in Tasks, Hears(t) PROVE Alone' /\ ToAsk' /\ Filled'
  <2>1. task[t].at # "idle" /\ task[t].outcome \in {"ok", "no record", "trouble"}
    BY <1>1, UnderWay DEF Hears
  <2> QED BY <1>1, <2>1, AnsweredViews DEF Hears
<1>2. ASSUME NEW t \in Tasks, GivenUp(t) PROVE Alone' /\ ToAsk' /\ Filled'
  BY <1>2, AnsweredViews DEF GivenUp
<1>3. ASSUME NEW t \in Tasks, Served(t) PROVE Alone' /\ ToAsk' /\ Filled'
  BY <1>3, ServedViews
<1>4. ASSUME NEW t \in Tasks, sendProfileChanges(t) PROVE Alone' /\ ToAsk' /\ Filled'
  BY <1>4, AsksViews, PortalAssumption DEF sendProfileChanges, lab
<1>5. ASSUME NEW t \in Tasks, writeFirstSignIn(t) PROVE Alone' /\ ToAsk' /\ Filled'
  <2>1. Asks(t, "claim", route) /\ UNCHANGED <<record, form, edited, alreadyRead>>
        /\ view[route] = "no record"
    BY <1>5 DEF writeFirstSignIn, lab
  <2>2. route \in Sections /\ (route \notin crossed => route \notin alreadyRead)
    BY <2>1 DEF ToAsk, TypeOK
  <2> QED BY <2>1, <2>2, AsksViews
<1>6. ASSUME NEW s \in Sections, NEW t \in Tasks, show(s, t)
      PROVE  Alone' /\ ToAsk' /\ Filled'
  <2>1. CASE UNCHANGED <<view, asking>>
    BY <1>6, <2>1 DEF show, asking, lab, Alone, ToAsk, Filled, About, Asking, Reads
  <2>2. CASE s \notin alreadyRead /\ Asks(t, "load", s)
    BY <1>6, <2>2, AsksViews DEF show, lab
  <2> QED BY <1>6, <2>1, <2>2 DEF show
<1>7. ASSUME NEW text \in Texts, Types(text) PROVE Alone' /\ ToAsk' /\ Filled'
  BY <1>7 DEF Types, asking, lab, Alone, ToAsk, Filled, About, Asking, Reads
<1>8. ASSUME NEW heard \in BOOLEAN, RenewalEnds(heard) PROVE Alone' /\ ToAsk' /\ Filled'
  <2>1. \A t \in Tasks : SameOrEnded(t)
    BY <1>8, EndsTasks
  <2>2. UNCHANGED <<crossed, alreadyRead, form, edited, record>>
        /\ \A s \in Sections : view'[s] \in {"signed out", view[s]}
    BY <1>8 DEF RenewalEnds, lab
  <2>3. Settles
    BY <2>1, <2>2 DEF Settles, SameOrEnded, Asking
  <2>4. \A t \in Tasks : Asking(t)' =>
          task'[t] = task[t] \/ (/\ task'[t].at = "asked" /\ task[t].at = "token"
                                 /\ task'[t].text = task[t].text)
    BY <2>1 DEF SameOrEnded, Asking
  <2>5. Filled'
    <3> SUFFICES ASSUME Profile \notin crossed PROVE Filled'
      BY <2>2 DEF Filled
    <3>1. \A u \in About(Profile)' : u \in About(Profile) /\ task'[u].kind = task[u].kind
      BY <2>3 DEF About, Settles
    <3>2. ASSUME NEW u \in About(Profile)', task'[u].at = "served",
                 task'[u].kind \in {"load", "save"}, task'[u].outcome = "ok"
          PROVE  task'[u].text = record'
      <4>1. u \in About(Profile) /\ u \in Tasks /\ Asking(u)'
        BY <3>1, <3>2 DEF About
      <4>2. task'[u] = task[u]
        BY <2>4, <3>2, <4>1
      <4> QED BY <2>2, <3>2, <4>1, <4>2 DEF Filled
    <3>3. ASSUME view'[Profile] = "record", ~edited'
          PROVE  /\ form' = record'
                 /\ \A u \in About(Profile)' :
                      task'[u].kind = "save" /\ task'[u].at # "served" => task'[u].text = record'
      <4>1. view[Profile] = "record"
        BY <2>2, <3>3, PortalAssumption
      <4>2. ~edited /\ form = record
        BY <2>2, <3>3, <4>1 DEF Filled
      <4>3. ASSUME NEW u \in About(Profile)', task'[u].kind = "save", task'[u].at # "served"
            PROVE  task'[u].text = record'
        <5>1. u \in About(Profile) /\ task[u].kind = "save" /\ Asking(u)' /\ u \in Tasks
          BY <3>1, <4>3 DEF About
        <5>2. task[u].at # "served" /\ task'[u].text = task[u].text
          BY <2>4, <4>3, <5>1
        <5> QED BY <2>2, <4>1, <4>2, <5>1, <5>2 DEF Filled
      <4> QED BY <2>2, <4>2, <4>3
    <3> QED BY <3>2, <3>3 DEF Filled
  <2>6. ToAsk'
    <3>1. \A s \in Sections \ crossed :
            view'[s] \in {"no record", "trouble"} => s \notin alreadyRead
      BY <2>2 DEF ToAsk
    <3> QED BY <2>2, <2>3, <3>1, SettlesToAsk
  <2> QED BY <2>3, <2>5, <2>6, SettlesAlone
<1>13. ASSUME NEW c \in astray, NEW left \in BOOLEAN, ServedUnheard(c, left)
      PROVE  Alone' /\ ToAsk' /\ Filled'
  <2>1. /\ UNCHANGED <<task, crossed, screen>>
        /\ record' = IF c.kind = "save" THEN c.text ELSE record
    BY <1>13 DEF ServedUnheard, Does, asking
  <2>2. CASE c.kind # "save"
    BY <2>1, <2>2 DEF screen, Alone, ToAsk, Filled, About, Asking, Reads
  <2>3. CASE c.kind = "save"
    <3>1. Alone' /\ ToAsk' /\ About(Profile)' = About(Profile)
      BY <2>1 DEF screen, Alone, ToAsk, About, Asking, Reads
    <3>2. Profile \notin crossed => About(Profile) = {}
      BY <2>3 DEF Heeded, AstraySaves
    <3>3. Profile \notin crossed /\ view[Profile] = "record" /\ ~edited
            => form = record /\ record' = record
      BY <2>1, <2>3 DEF Heeded, AstraySaves, Filled
    <3> QED BY <2>1, <3>1, <3>2, <3>3 DEF screen, Filled
  <2> QED BY <2>2, <2>3
<1>9. ASSUME NEW closed \in BOOLEAN, Unloads(closed) PROVE Alone' /\ ToAsk' /\ Filled'
  <2>1. \A s \in Sections : About(s)' = {} /\ view'[s] = "blank"
    BY <1>9 DEF Unloads, About, Asking
  <2>2. alreadyRead' = {}
    BY <1>9 DEF Unloads
  <2> QED BY <2>1, <2>2, PortalAssumption DEF Alone, ToAsk, Filled
<1>10. ASSUME NEW s \in Sections,
              Begins(s) \/ \E ours, given \in BOOLEAN : finishSignIn(s, ours, given)
       PROVE  Alone' /\ ToAsk' /\ Filled'
  <2>0. page = "away" /\ record' = record /\ aged \in BOOLEAN
    BY <1>10 DEF Begins, finishSignIn, lab, TypeOK
  <2>1. CASE UNCHANGED <<asking, screen>>
    BY <2>0, <2>1 DEF asking, screen, Alone, ToAsk, Filled, About, Asking, Reads
  <2>2. CASE \E token, near : near \in BOOLEAN /\ Opens(s, token, near)
    BY <2>0, <2>2, OpensViews
  <2>3. UNCHANGED <<asking, screen>> \/ Opens(s, stored, aged) \/ Opens(s, good', FALSE)
    BY <1>10 DEF Begins, finishSignIn, Lands
  <2> QED BY <2>0, <2>1, <2>2, <2>3
<1>11. ASSUME UNCHANGED <<task, crossed, screen, record>> PROVE Alone' /\ ToAsk' /\ Filled'
  BY <1>11 DEF screen, Alone, ToAsk, Filled, About, Asking, Reads
<1>12. ASSUME \/ \E taken \in BOOLEAN : RenewalServed(taken)
              \/ startSignIn \/ signOut \/ Ages \/ BeginsUnconfigured \/ UNCHANGED vars
       PROVE  Alone' /\ ToAsk' /\ Filled'
  BY <1>11, <1>12 DEF RenewalServed, startSignIn, signOut, Ages, BeginsUnconfigured, Lands, vars,
     asking, lab
<1> QED
  BY <1>1, <1>2, <1>3, <1>4, <1>5, <1>6, <1>7, <1>8, <1>9, <1>10, <1>12, <1>13 DEF Next

-----------------------------------------------------------------------------
(* Saves that are astray.                                                  *)

\* A step that asks nothing about the form, sends nothing astray and fills nothing.
LEMMA HeededKept ==
  ASSUME Heeded, crossed \subseteq crossed', record' = record, astray' = astray,
         About(Profile)' \subseteq About(Profile),
         view'[Profile] = "record" /\ ~edited' => view[Profile] = "record" /\ ~edited
  PROVE  Heeded'
<1>1. AstraySaves' = AstraySaves
  BY DEF AstraySaves
<1> QED BY <1>1 DEF Heeded

LEMMA AsksHeeded ==
  ASSUME TypeOK, Heeded, NEW t \in Tasks, NEW k \in Kinds \ {"who"}, NEW s \in Sections,
         Asks(t, k, s), UNCHANGED <<record, astray, edited>>
  PROVE  Heeded'
<1> USE DEF TypeOK
<1>1. crossed \subseteq crossed'
      /\ (view'[Profile] = "record" => view[Profile] = "record")
  BY PortalAssumption DEF Asks
<1>2. PICK call \in {Idle, Call(k, s, aged)} : task' = [task EXCEPT ![t] = call]
  BY DEF Asks
<1>3. stored = None \/ (s = Profile /\ AstraySaves # {} => Profile \in crossed')
  BY DEF Asks, Crosses, AstraySaves
<1>4. Call(k, s, aged).section = s
  BY DEF Call
<1>5. stored = None => call = Idle
  <2>1. ASSUME stored = None PROVE task'[t] = Idle
    BY <2>1 DEF Asks
  <2> QED BY <1>2, <2>1
<1>6. CASE s = Profile /\ stored # None
  <2>1. AstraySaves # {} => Profile \in crossed'
    BY <1>3, <1>6
  <2>2. AstraySaves' = AstraySaves
    BY DEF AstraySaves
  <2> QED BY <1>1, <2>1, <2>2 DEF Heeded
<1>7. CASE ~(s = Profile /\ stored # None)
  <2>1. \A u \in Tasks : IF u = t THEN task'[u] = call ELSE task'[u] = task[u]
    BY <1>2
  <2>2. call = Idle \/ call.section # Profile
    BY <1>4, <1>5, <1>7
  <2>3. About(Profile)' \subseteq About(Profile)
    BY <2>1, <2>2 DEF About, Asking
  <2> QED BY <1>1, <2>3, HeededKept
<1> QED BY <1>6, <1>7

\* An answer fills the form only with no save astray, or counts as crossed.
LEMMA HearsHeeded ==
  ASSUME TypeOK, Heeded, Saves, NEW t \in Tasks, Hears(t)
  PROVE  Heeded'
<1> USE DEF TypeOK
<1>0. UNCHANGED <<record, astray, route>> /\ task[t].at # "idle"
  BY DEF Hears, Answered
<1>1. PICK k \in Kinds, o \in {"ok", "no record", "trouble"} :
        k = task[t].kind /\ o = task[t].outcome
  BY <1>0, UnderWay
<1>2. PICK s \in Sections : s = task[t].section /\ Asking(t)
  BY <1>0, UnderWay
<1>3. Answered(t, o)
  BY <1>1 DEF Hears
<1>4. CASE k = "claim" /\ o = "ok"
  <2>1. Asks(t, "load", route) /\ UNCHANGED edited
    BY <1>1, <1>3, <1>4 DEF Answered
  <2> QED BY <1>0, <2>1, AsksHeeded DEF Kinds
<1>5. CASE ~(k = "claim" /\ o = "ok")
  <2>1. task' = [task EXCEPT ![t] = Idle] /\ crossed' = crossed
    BY <1>1, <1>3, <1>5 DEF Answered, Kinds
  <2>2. About(Profile)' \subseteq About(Profile)
    BY <2>1, OverSettles, PortalAssumption
  <2>3. CASE k # "who" /\ s = Profile
    <3>1. t \in About(Profile)
      BY <1>1, <1>2, <2>3 DEF About
    <3>2. AstraySaves' = AstraySaves
      BY <1>0 DEF AstraySaves
    <3> QED BY <2>1, <3>1, <3>2 DEF Heeded
  <2>4. CASE k = "who" \/ s # Profile
    <3>1. k # "save"
      BY <1>1, <1>2, <2>4 DEF Saves
    <3>2. view'[Profile] = view[Profile] /\ edited' = edited
      <4>1. CASE k = "who"
        BY <1>1, <1>3, <4>1 DEF Answered
      <4>2. CASE k # "who"
        <5>1. present(s, o, task[t].text) /\ s # Profile
          BY <1>1, <1>2, <1>3, <1>5, <2>4, <3>1, <4>2 DEF Answered, Kinds
        <5> QED BY <5>1, PortalAssumption DEF present
      <4> QED BY <4>1, <4>2
    <3> QED BY <1>0, <2>1, <2>2, <3>2, HeededKept
  <2> QED BY <2>3, <2>4
<1> QED BY <1>4, <1>5

\* A save that is given up was alone, or counts as crossed.
LEMMA GivenUpHeeded ==
  ASSUME TypeOK, Heeded, Alone, Filled, Saves, NEW t \in Tasks, GivenUp(t)
  PROVE  Heeded'
<1> USE DEF TypeOK
<1>0. Answered(t, "trouble") /\ record' = record /\ task[t].at \in {"asked", "served"}
  BY DEF GivenUp, Answered
<1>1. PICK k \in Kinds : k = task[t].kind /\ Asking(t)
  BY <1>0, UnderWay
<1>2. task' = [task EXCEPT ![t] = Idle] /\ crossed' = crossed
  BY <1>0, <1>1 DEF Answered, Kinds
<1>3. \A u \in About(Profile)' : u \in About(Profile) /\ u # t
  BY <1>2, OverSettles, PortalAssumption
<1>4. view'[Profile] = "record" /\ ~edited' => view[Profile] = "record" /\ ~edited
  <2>1. CASE k \in {"who", "save"}
    BY <1>0, <1>1, <2>1 DEF Answered
  <2>2. CASE k \in {"load", "claim"}
    <3>1. present(task[t].section, "trouble", task[t].text)
      BY <1>0, <1>1, <2>2 DEF Answered
    <3> QED BY <3>1, PortalAssumption DEF present, ShownAs
  <2> QED BY <2>1, <2>2 DEF Kinds
<1>5. \A c \in AstraySaves' : c \in AstraySaves \/ (c \in Left(t) /\ c.kind = "save")
  BY DEF GivenUp, Leaves, AstraySaves
<1>6. CASE k # "save" \/ task[t].at # "asked"
  <2>1. AstraySaves' \subseteq AstraySaves
    BY <1>1, <1>5, <1>6, LeftIs
  <2> QED BY <1>0, <1>2, <1>3, <1>4, <2>1 DEF Heeded
<1>7. CASE k = "save" /\ task[t].at = "asked"
  <2> SUFFICES ASSUME Profile \notin crossed PROVE Heeded'
    BY <1>2 DEF Heeded
  <2>1. t \in About(Profile)
    BY <1>1, <1>7 DEF About, Saves
  <2>2. About(Profile)' = {}
    BY <1>3, <2>1, PortalAssumption DEF Alone
  <2>3. AstraySaves = {}
    BY <2>1 DEF Heeded
  <2>4. \A c \in AstraySaves' : c.text = task[t].text
    BY <1>5, <2>3, LeftIs
  <2>5. view[Profile] = "record" /\ ~edited => task[t].text = record
    BY <1>1, <1>7, <2>1 DEF Filled
  <2> QED BY <1>0, <1>4, <2>2, <2>4, <2>5 DEF Heeded
<1> QED BY <1>6, <1>7

\* The views open with nothing asked before, and about the form only counted as
\* crossed when a save is astray.
LEMMA OpensHeeded ==
  ASSUME TypeOK, Away, Heeded, page = "away", NEW s \in Sections, NEW token,
         NEW near \in BOOLEAN, Opens(s, token, near), UNCHANGED <<record, astray>>
  PROVE  Heeded'
<1> USE DEF TypeOK
<1> DEFINE t == CHOOSE x \in Tasks : TRUE
           u == CHOOSE x \in Tasks \ {t} : TRUE
<1>1. task' = [task EXCEPT ![t] = Call("who", Profile, near), ![u] = Call("load", s, near)]
  BY DEF Opens
<1>2. /\ crossed \subseteq crossed' /\ UNCHANGED <<form, edited>>
      /\ view' = [view EXCEPT ![s] = "loading"]
      /\ s = Profile /\ AstraySaves # {} => Profile \in crossed'
  BY DEF Opens, Crosses, AstraySaves
<1>3. Call("who", Profile, near).kind = "who" /\ Call("load", s, near).section = s
  BY DEF Call
<1> HIDE DEF t, u
<1>4. \A x \in Tasks : task[x] = Idle
  BY DEF Away
<1>5. s # Profile => About(Profile)' = {}
  BY <1>1, <1>3, <1>4 DEF About, Asking
<1>6. view'[Profile] = "record" => view[Profile] = "record"
  BY <1>2, PortalAssumption
<1>7. AstraySaves' = AstraySaves
  BY DEF AstraySaves
<1> QED BY <1>2, <1>5, <1>6, <1>7 DEF Heeded

LEMMA HeededStep == IInv /\ [Next]_vars => Heeded'
<1> SUFFICES ASSUME IInv, [Next]_vars PROVE Heeded'
  OBVIOUS
<1> USE DEF IInv
<1>1. ASSUME NEW t \in Tasks, Hears(t) PROVE Heeded'
  BY <1>1, HearsHeeded
<1>2. ASSUME NEW t \in Tasks, GivenUp(t) PROVE Heeded'
  BY <1>2, GivenUpHeeded
<1>3. ASSUME NEW t \in Tasks, Served(t) PROVE Heeded'
  <2>0. Asking(t) /\ task[t] \in Calls
    BY <1>3, UnderWay DEF Served
  <2>1. /\ UNCHANGED <<crossed, view, edited, astray>>
        /\ record' = IF task[t].kind = "save" THEN task[t].text ELSE record
    BY <1>3 DEF Served, Does, screen
  <2>2. PICK o, x :
          task' = [task EXCEPT ![t].at = "served", ![t].outcome = o, ![t].text = x]
    BY <1>3 DEF Served
  <2>3. /\ task'[t].kind = task[t].kind /\ task'[t].section = task[t].section
        /\ \A v \in Tasks : v # t => task'[v] = task[v]
    BY <2>0, <2>2 DEF Calls, TypeOK
  <2>4. About(Profile)' \subseteq About(Profile)
    BY <2>0, <2>3 DEF About, Asking
  <2>5. CASE task[t].kind # "save"
    BY <2>1, <2>4, <2>5, HeededKept
  <2>6. CASE task[t].kind = "save"
    <3>1. t \in About(Profile)
      BY <2>0, <2>6 DEF About, Saves
    <3>2. AstraySaves' = AstraySaves
      BY <2>1 DEF AstraySaves
    <3> QED BY <2>1, <3>1, <3>2 DEF Heeded
  <2> QED BY <2>5, <2>6
<1>4. ASSUME NEW t \in Tasks, sendProfileChanges(t) PROVE Heeded'
  BY <1>4, AsksHeeded, PortalAssumption DEF sendProfileChanges, lab, Kinds
<1>5. ASSUME NEW t \in Tasks, writeFirstSignIn(t) PROVE Heeded'
  BY <1>5, AsksHeeded DEF writeFirstSignIn, lab, Kinds, TypeOK
<1>6. ASSUME NEW s \in Sections, NEW t \in Tasks, show(s, t) PROVE Heeded'
  <2>1. CASE UNCHANGED <<view, asking>>
    BY <1>6, <2>1 DEF show, asking, lab, Heeded, AstraySaves, About, Asking
  <2>2. CASE Asks(t, "load", s)
    BY <1>6, <2>2, AsksHeeded DEF show, lab, Kinds
  <2> QED BY <1>6, <2>1, <2>2 DEF show
<1>7. ASSUME NEW text \in Texts, Types(text) PROVE Heeded'
  BY <1>7, HeededKept DEF Types, asking, lab, About, Asking
<1>8. ASSUME NEW heard \in BOOLEAN, RenewalEnds(heard) PROVE Heeded'
  <2>1. \A t \in Tasks : SameOrEnded(t)
    BY <1>8, EndsTasks
  <2>2. UNCHANGED <<crossed, edited, record, astray>>
        /\ view'[Profile] \in {"signed out", view[Profile]}
    BY <1>8, PortalAssumption DEF RenewalEnds, lab
  <2>3. About(Profile)' \subseteq About(Profile)
    BY <2>1 DEF SameOrEnded, About, Asking
  <2> QED BY <2>2, <2>3, HeededKept
<1>9. ASSUME NEW closed \in BOOLEAN, Unloads(closed) PROVE Heeded'
  <2>1. About(Profile)' = {} /\ view'[Profile] = "blank"
    BY <1>9, PortalAssumption DEF Unloads, About, Asking
  <2> QED BY <2>1 DEF Heeded
<1>10. ASSUME NEW s \in Sections,
              Begins(s) \/ \E ours, given \in BOOLEAN : finishSignIn(s, ours, given)
       PROVE  Heeded'
  <2>0. page = "away" /\ UNCHANGED <<record, astray>> /\ aged \in BOOLEAN
    BY <1>10 DEF Begins, finishSignIn, lab, TypeOK
  <2>1. CASE UNCHANGED <<asking, screen>>
    BY <2>0, <2>1 DEF asking, screen, Heeded, AstraySaves, About, Asking
  <2>2. CASE \E token, near : near \in BOOLEAN /\ Opens(s, token, near)
    BY <2>0, <2>2, OpensHeeded
  <2>3. UNCHANGED <<asking, screen>> \/ Opens(s, stored, aged) \/ Opens(s, good', FALSE)
    BY <1>10 DEF Begins, finishSignIn, Lands
  <2> QED BY <2>0, <2>1, <2>2, <2>3
<1>11. ASSUME UNCHANGED <<task, crossed, screen, record, astray>> PROVE Heeded'
  BY <1>11 DEF screen, Heeded, AstraySaves, About, Asking
<1>12. ASSUME \/ \E taken \in BOOLEAN : RenewalServed(taken)
              \/ startSignIn \/ signOut \/ Ages \/ BeginsUnconfigured \/ UNCHANGED vars
       PROVE  Heeded'
  BY <1>11, <1>12 DEF RenewalServed, startSignIn, signOut, Ages, BeginsUnconfigured, Lands, vars,
     asking, lab
<1>13. ASSUME NEW c \in astray, NEW left \in BOOLEAN, ServedUnheard(c, left) PROVE Heeded'
  <2>1. /\ UNCHANGED <<task, crossed, screen>> /\ astray' \subseteq astray
        /\ record' = IF c.kind = "save" THEN c.text ELSE record
    BY <1>13 DEF ServedUnheard, Does, asking
  <2>2. AstraySaves' \subseteq AstraySaves /\ About(Profile)' = About(Profile)
    BY <2>1 DEF AstraySaves, About, Asking
  <2>3. Profile \notin crossed /\ view[Profile] = "record" /\ ~edited => record' = record
    BY <2>1 DEF Heeded, AstraySaves
  <2> QED BY <2>1, <2>2, <2>3 DEF screen, Heeded
<1> QED
  BY <1>1, <1>2, <1>3, <1>4, <1>5, <1>6, <1>7, <1>8, <1>9, <1>10, <1>12, <1>13 DEF Next

-----------------------------------------------------------------------------
LEMMA InvariantHolds == Spec => []IInv
<1>1. Init => IInv
  <2> SUFFICES ASSUME Init PROVE IInv
    OBVIOUS
  <2>0. None = 0 /\ Unwritten \in Texts
    BY Made
  <2>1. TypeOK
    BY <2>0, PortalAssumption DEF Init, TypeOK, Pages, Shown, NoRenewal
  <2>2. Away /\ Gone /\ Saves
    BY DEF Init, Away, Gone, Saves, Idle
  <2>3. Spent
    BY <2>0 DEF Init, Spent, NoRenewal, Tokens
  <2>4. \A s \in Sections : About(s) = {}
    BY DEF Init, About, Asking
  <2>5. Alone /\ ToAsk /\ Filled
    BY <2>4, PortalAssumption DEF Init, Alone, ToAsk, Filled
  <2>6. Heeded
    BY <2>4, PortalAssumption DEF Init, Heeded, AstraySaves
  <2> QED BY <2>1, <2>2, <2>3, <2>5, <2>6 DEF IInv
<1>2. IInv /\ [Next]_vars => IInv'
  BY TypeStep, AwayStep, SpentStep, ViewsStep, SavesStep, HeededStep DEF IInv
<1> QED BY <1>1, <1>2, PTL DEF Spec

-----------------------------------------------------------------------------
(* The theorems.                                                           *)

\* Every variable of the tab keeps the kind of value its code gives it.
THEOREM TypeCorrect == Spec => []TypeOK
BY InvariantHolds, PTL DEF IInv

\* renew hands one running renewal to everybody who asks (identity.js), so no
\* page sends a refresh token twice.
THEOREM RefreshTokensAreSpentOnce == Spec => []RefreshSpentOnce
<1>1. IInv => RefreshSpentOnce
  BY DEF IInv, Spent, RefreshSpentOnce
<1> QED BY <1>1, InvariantHolds, PTL

\* What signOut forgets stays forgotten until the next sign in, unless a renewal
\* was running as it was called.
THEOREM SignedOutStaysOut == Spec => []SignedOutIsOut
<1>1. IInv => SignedOutIsOut
  BY DEF IInv, Gone, SignedOutIsOut
<1> QED BY <1>1, InvariantHolds, PTL

\* load asks again for what present did not add to alreadyRead (main.js), unless
\* two requests about one view crossed.
THEOREM TroubleIsNotKept == Spec => []TroubleIsAskedAgain
<1>1. IInv => TroubleIsAskedAgain
  BY DEF IInv, ToAsk, TroubleIsAskedAgain
<1> QED BY <1>1, InvariantHolds, PTL

\* The profile form is filled from what the API answered with, so what the next
\* save sends for an untouched field is the record, unless two requests about it
\* crossed, one of them perhaps of a page that is gone (api.js, profile.js).
THEOREM TheFormIsTheRecord == Spec => []FormShowsTheRecord
<1>1. IInv => FormShowsTheRecord
  BY DEF IInv, Filled, FormShowsTheRecord
<1> QED BY <1>1, InvariantHolds, PTL

=============================================================================
