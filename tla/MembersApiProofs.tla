-------------------------- MODULE MembersApiProofs --------------------------
(***************************************************************************)
(* Proofs about the request path, for any number of requests, connections, *)
(* subjects and keys, any key set age and read timeout, and any statements *)
(* of others on the members.                                               *)
(*                                                                         *)
(* Beside the properties themselves the inductive invariant says who is    *)
(* known by when (Known), what may be saved before the answer (Unsaved),   *)
(* and what the provider's answer holds while it is on its way             *)
(* (AnswerIsCurrent).                                                      *)
(***************************************************************************)
EXTENDS MembersApi, TLAPS

\* Past the first query the caller is somebody.
Known ==
  \A r \in Requests :
    at[r] \in {"identified", "own", "changing", "written"} => who[r] # Nobody

\* Nothing is saved before the answer, and only an update has a row to save.
Unsaved ==
  \A r \in Requests :
    /\ at[r] # "answered" => saved[r] = "rolled back"
    /\ at[r] \notin {"changing", "written"} => draft[r] = Nobody

\* A key that is published was never withdrawn, and the answer to a read is no
\* older than the read.
AnswerIsCurrent ==
  /\ \A k \in published : gone[k] = 0
  /\ answer.there => \A k \in answer.keys : gone[k] <= age + 1

KInv == KeysTypeOK /\ AnswerIsCurrent /\ FreshSetsAreCurrent

RInv ==
  /\ PoolIsWhole
  /\ Known
  /\ Unsaved
  /\ RowsAreTheCallers
  /\ RefusedMeansUnchanged

IInv == TypeOK /\ KInv /\ RInv

-----------------------------------------------------------------------------
(* The keys.                                                               *)

\* Late is a number of ticks.
LEMMA LateIsNat == Late \in Nat /\ Late >= 2
  BY KeySetAssumption DEF Late

\* What is held when the service starts is what is published.
LEMMA InitKInv ==
  ASSUME KeysInit
  PROVE  KInv
<1>1. KeysTypeOK
  <2>1. 0 \in 0 .. Late
    BY LateIsNat
  <2> QED BY <2>1 DEF KeysInit, KeysTypeOK, NoAnswer
<1>2. published \subseteq Keys /\ held \subseteq Keys
  BY DEF KeysInit
<1>3. \A k \in Keys : gone[k] = 0
  BY DEF KeysInit
<1>4. AnswerIsCurrent
  BY <1>2, <1>3 DEF KeysInit, AnswerIsCurrent, NoAnswer
<1>5. FreshSetsAreCurrent
  <2>1. age = 0
    BY DEF KeysInit
  <2>2. ASSUME NEW k \in held
        PROVE  gone[k] <= age + 1
    <3>1. gone[k] = 0
      BY <1>2, <1>3
    <3> QED BY <2>1, <3>1
  <2> QED BY <2>2 DEF FreshSetsAreCurrent
<1> QED BY <1>1, <1>4, <1>5 DEF KInv

LEMMA StartReadKInv ==
  ASSUME KInv, NEW r \in Requests, StartRead(r)
  PROVE  KInv'
<1>1. KeysTypeOK'
  <2>1. 0 \in 0 .. Late
    BY LateIsNat
  <2> QED BY <2>1 DEF StartRead, KInv, KeysTypeOK, NoAnswer
<1>2. reader' # NoRequest
  BY KeySetAssumption DEF StartRead
<1>3. AnswerIsCurrent'
  BY DEF StartRead, KInv, AnswerIsCurrent, NoAnswer
<1>4. FreshSetsAreCurrent'
  BY <1>2 DEF FreshSetsAreCurrent
<1> QED BY <1>1, <1>3, <1>4 DEF KInv

LEMMA EndReadKInv ==
  ASSUME KInv, NEW r \in Requests, NEW ok \in BOOLEAN, EndRead(r, ok)
  PROVE  KInv'
<1>1. KeysTypeOK'
  BY DEF EndRead, KInv, KeysTypeOK, NoAnswer
<1>2. AnswerIsCurrent'
  BY DEF EndRead, KInv, AnswerIsCurrent, NoAnswer
<1>3. FreshSetsAreCurrent'
  <2>1. CASE ok
    BY <2>1 DEF EndRead, KInv, AnswerIsCurrent, FreshSetsAreCurrent
  <2>2. CASE ~ok
    BY <2>2 DEF EndRead, FreshSetsAreCurrent
  <2> QED BY <2>1, <2>2
<1> QED BY <1>1, <1>2, <1>3 DEF KInv

LEMMA ProviderAnswersKInv ==
  ASSUME KInv, ProviderAnswers
  PROVE  KInv'
<1>1. KeysTypeOK'
  BY DEF ProviderAnswers, KInv, KeysTypeOK
<1>2. AnswerIsCurrent'
  BY LateIsNat DEF ProviderAnswers, KInv, KeysTypeOK, AnswerIsCurrent
<1> QED BY <1>1, <1>2 DEF ProviderAnswers, KInv, FreshSetsAreCurrent

LEMMA PublishKInv ==
  ASSUME KInv, NEW k \in Keys, Publish(k)
  PROVE  KInv'
<1>1. KeysTypeOK'
  BY DEF Publish, KInv, KeysTypeOK
<1> QED BY <1>1 DEF Publish, KInv, AnswerIsCurrent, FreshSetsAreCurrent

\* A key that is withdrawn now has been gone for no time at all.
LEMMA WithdrawKInv ==
  ASSUME KInv, NEW k \in Keys, Withdraw(k)
  PROVE  KInv'
<1>1. 1 \in 0 .. Late
  BY LateIsNat
<1>2. KeysTypeOK'
  BY <1>1 DEF Withdraw, KInv, KeysTypeOK
<1>3. /\ age \in Nat /\ age' = age
      /\ \A j \in Keys : gone'[j] = IF j = k THEN 1 ELSE gone[j]
  BY LateIsNat DEF Withdraw, KInv, KeysTypeOK
<1>4. published \subseteq Keys /\ held \subseteq Keys /\ answer.keys \subseteq Keys
  BY DEF KInv, KeysTypeOK
<1>5. AnswerIsCurrent'
  BY <1>3, <1>4 DEF Withdraw, KInv, AnswerIsCurrent
<1>6. FreshSetsAreCurrent'
  BY <1>3, <1>4 DEF Withdraw, KInv, FreshSetsAreCurrent
<1> QED BY <1>2, <1>5, <1>6 DEF KInv

\* The age of the set and the absence of a key grow together.
LEMMA TickKInv ==
  ASSUME KInv, Tick
  PROVE  KInv'
<1>1. Late \in Nat
  BY LateIsNat
<1>2. /\ age \in 0 .. Late
      /\ gone \in [Keys -> 0 .. Late]
      /\ published \subseteq Keys /\ held \subseteq Keys /\ answer.keys \subseteq Keys
  BY DEF KInv, KeysTypeOK
<1>3. /\ age' = OneMore(age)
      /\ \A k \in Keys : gone'[k] = IF gone[k] = 0 THEN 0 ELSE OneMore(gone[k])
      /\ UNCHANGED <<published, held, reader, answer, fresh>>
  BY DEF Tick
<1>4. \A t \in 0 .. Late : OneMore(t) \in 0 .. Late
  BY <1>1 DEF OneMore
<1>5. KeysTypeOK'
  BY <1>2, <1>3, <1>4 DEF Tick, KInv, KeysTypeOK
<1>6. \A k \in Keys : gone[k] <= age + 1 => gone'[k] <= age' + 1
  <2>1. \A g, a \in 0 .. Late : g <= a + 1 => OneMore(g) <= OneMore(a) + 1
    BY <1>1 DEF OneMore
  <2>2. OneMore(age) \in 0 .. Late
    BY <1>2, <1>4
  <2> QED BY <1>1, <1>2, <1>3, <2>1, <2>2
<1>7. AnswerIsCurrent'
  BY <1>2, <1>3, <1>6 DEF KInv, AnswerIsCurrent
<1>8. FreshSetsAreCurrent'
  BY <1>2, <1>3, <1>6 DEF KInv, FreshSetsAreCurrent
<1> QED BY <1>5, <1>7, <1>8 DEF KInv

LEMMA ProviderKInv ==
  ASSUME KInv, Provider
  PROVE  KInv'
  BY ProviderAnswersKInv, PublishKInv, WithdrawKInv, TickKInv DEF Provider

LEMMA SameKeysKInv ==
  ASSUME KInv, UNCHANGED keyset
  PROVE  KInv'
  BY DEF keyset, KInv, KeysTypeOK, AnswerIsCurrent, FreshSetsAreCurrent

-----------------------------------------------------------------------------
(* The ends of a transaction.                                              *)

\* A connection in a transaction is one of the pool's.
LEMMA HeldConnection ==
  ASSUME IInv, NEW r \in Requests, at[r] \in InTransaction
  PROVE  conn[r] \in Connections /\ setting[conn[r]] = who[r]
  BY DEF IInv, RInv, PoolIsWhole, TypeOK

\* However a transaction ends, its connection goes back clean, and the answer
\* is right if it is about nobody but the caller and a refusal has saved
\* nothing.
LEMMA EndsIInv ==
  ASSUME IInv, NEW r \in Requests, NEW said \in Answers, NEW fate \in Fates,
         at[r] \in InTransaction,
         Ends(r, said, fate),
         said.about \in Subjects => said.about = who[r],
         said.said = Ok => who[r] # Nobody,
         said.said # Ok /\ draft[r] # Nobody =>
           fate = "rolled back" \/ (fate = "unheard" /\ said.said = "unexpected")
  PROVE  IInv'
<1>1. /\ at' = [at EXCEPT ![r] = "answered"]
      /\ answered' = [answered EXCEPT ![r] = said]
      /\ conn' = [conn EXCEPT ![r] = NoConnection]
      /\ setting' = [setting EXCEPT ![conn[r]] = Nobody]
      /\ saved' = [saved EXCEPT ![r] = IF draft[r] = Nobody THEN saved[r] ELSE fate]
      /\ draft' = [draft EXCEPT ![r] = Nobody]
      /\ UNCHANGED <<keyset, who, others>>
  BY DEF Ends
<1>2. TypeOK /\ RInv
  BY DEF IInv
<1>3. conn[r] \in Connections
  BY HeldConnection
<1>4. KInv'
  BY <1>1, SameKeysKInv DEF IInv
<1>5. TypeOK'
  <2>1. at' \in [Requests -> Places] /\ draft' \in [Requests -> Subjects \cup {Nobody}]
    BY <1>1, <1>2 DEF TypeOK, Places
  <2>2. answered' \in [Requests -> Answers] /\ saved' \in [Requests -> Fates]
    BY <1>1, <1>2 DEF TypeOK
  <2>3. /\ conn' \in [Requests -> Connections \cup {NoConnection}]
        /\ setting' \in [Connections -> Subjects \cup {Nobody}]
    BY <1>1, <1>2 DEF TypeOK
  <2> QED BY <1>1, <1>2, <1>4, <2>1, <2>2, <2>3 DEF TypeOK, others, KInv
<1>6. \A q \in Requests \ {r} :
        /\ at'[q] = at[q] /\ conn'[q] = conn[q] /\ who'[q] = who[q]
        /\ draft'[q] = draft[q] /\ saved'[q] = saved[q] /\ answered'[q] = answered[q]
  BY <1>1, <1>2 DEF TypeOK
<1>7. /\ at'[r] = "answered" /\ conn'[r] = NoConnection /\ who'[r] = who[r]
      /\ draft'[r] = Nobody /\ answered'[r] = said
      /\ saved'[r] = IF draft[r] = Nobody THEN saved[r] ELSE fate
  BY <1>1, <1>2 DEF TypeOK
<1>8. PoolIsWhole'
  <2>0. /\ \A q \in Requests : (conn[q] # NoConnection) <=> (at[q] \in InTransaction)
        /\ \A q, p \in Requests : conn[q] = conn[p] /\ conn[q] # NoConnection => q = p
    BY <1>2 DEF RInv, PoolIsWhole
  <2>1. \A c \in Connections : setting'[c] = IF c = conn[r] THEN Nobody ELSE setting[c]
    BY <1>1, <1>2 DEF TypeOK
  <2>2. \A q \in Requests : (conn'[q] # NoConnection) <=> (at'[q] \in InTransaction)
    <3> SUFFICES ASSUME NEW q \in Requests
                 PROVE  (conn'[q] # NoConnection) <=> (at'[q] \in InTransaction)
      OBVIOUS
    <3>1. CASE q = r
      BY <1>7, <3>1 DEF InTransaction
    <3>2. CASE q # r
      BY <1>6, <2>0, <3>2
    <3> QED BY <3>1, <3>2
  <2>3. \A q, p \in Requests : conn'[q] = conn'[p] /\ conn'[q] # NoConnection => q = p
    <3> SUFFICES ASSUME NEW q \in Requests, NEW p \in Requests,
                        conn'[q] = conn'[p], conn'[q] # NoConnection
                 PROVE  q = p
      OBVIOUS
    <3>1. q # r /\ p # r
      BY <1>7
    <3>2. conn'[q] = conn[q] /\ conn'[p] = conn[p]
      BY <1>6, <3>1
    <3> QED BY <2>0, <3>2
  <2>4. \A q \in Requests : conn'[q] # NoConnection => setting'[conn'[q]] = who'[q]
    <3> SUFFICES ASSUME NEW q \in Requests, conn'[q] # NoConnection
                 PROVE  setting'[conn'[q]] = who'[q]
      OBVIOUS
    <3>1. q # r /\ conn'[q] = conn[q] /\ who'[q] = who[q]
      BY <1>6, <1>7
    <3>2. conn[q] # conn[r] /\ setting[conn[q]] = who[q]
      BY <1>2, <3>1 DEF RInv, PoolIsWhole
    <3>3. conn[q] \in Connections
      BY <1>2, <3>1 DEF TypeOK
    <3> QED BY <2>1, <3>1, <3>2, <3>3
  <2>5. \A c \in Free' : setting'[c] = Nobody
    <3> SUFFICES ASSUME NEW c \in Connections,
                        \A q \in Requests : c # conn'[q], c # conn[r]
                 PROVE  setting[c] = Nobody
      BY <2>1 DEF Free
    <3>1. \A q \in Requests : c # conn[q]
      BY <1>6
    <3> QED BY <1>2, <3>1 DEF RInv, PoolIsWhole, Free
  <2> QED BY <2>2, <2>3, <2>4, <2>5 DEF PoolIsWhole
<1>9. Known'
  BY <1>2, <1>6, <1>7 DEF RInv, Known
<1>10. Unsaved'
  BY <1>2, <1>6, <1>7 DEF RInv, Unsaved
<1>11. RowsAreTheCallers'
  BY <1>2, <1>6, <1>7 DEF RInv, RowsAreTheCallers
<1>12. RefusedMeansUnchanged'
  <2>1. at[r] # "answered"
    BY DEF InTransaction
  <2>2. saved[r] = "rolled back"
    BY <1>2, <2>1 DEF RInv, Unsaved
  <2> QED BY <1>2, <1>6, <1>7, <2>2 DEF RInv, RefusedMeansUnchanged
<1> QED BY <1>4, <1>5, <1>8, <1>9, <1>10, <1>11, <1>12 DEF IInv, RInv

\* What a transaction raises has saved nothing.
LEMMA RaisesIInv ==
  ASSUME IInv, NEW r \in Requests, NEW problem \in Problems,
         at[r] \in InTransaction, Raises(r, problem)
  PROVE  IInv'
<1>1. Problem(problem) \in Answers
  BY DEF Problem, Answers
<1>2. Problem(problem).about \notin Subjects /\ Problem(problem).said # Ok
  BY ApiAssumption DEF Problem, Problems, Ok
<1>3. "rolled back" \in Fates
  BY DEF Fates
<1> QED BY <1>1, <1>2, <1>3, EndsIInv DEF Raises

\* What it answers as it commits is about the caller, and is a refusal only
\* where there is nothing to commit.
LEMMA LeavesIInv ==
  ASSUME IInv, NEW r \in Requests, NEW said \in Answers,
         at[r] \in {"identified", "own", "written"},
         Leaves(r, said),
         said.about \in Subjects => said.about = who[r],
         said.said = Ok \/ at[r] # "written"
  PROVE  IInv'
<1>1. who[r] # Nobody
  BY DEF IInv, RInv, Known
<1>2. said.said # Ok => draft[r] = Nobody
  BY DEF IInv, RInv, Unsaved
<1>3. at[r] \in InTransaction /\ "committed" \in Fates
  BY DEF InTransaction, Fates
<1> QED BY <1>1, <1>2, <1>3, EndsIInv DEF Leaves

\* The member the database finds is the caller or nobody.
LEMMA CurrentIsTheCaller ==
  ASSUME IInv, NEW r \in Requests, at[r] \in InTransaction
  PROVE  current_member_id(r) \in {who[r], Nobody}
  BY HeldConnection DEF current_member_id

\* An answer with the caller's rows, or with none, is one about them.
LEMMA RowsOfTheCaller ==
  ASSUME IInv, NEW r \in Requests, at[r] \in InTransaction
  PROVE  LET said == Rows(current_member_id(r)) IN
         /\ said \in Answers
         /\ said.about \in Subjects => said.about = who[r]
         /\ said.said = Ok
<1>1. current_member_id(r) \in {who[r], Nobody}
  BY CurrentIsTheCaller
<1>2. who[r] \in Subjects \cup {Nobody}
  BY DEF IInv, TypeOK
<1> HIDE DEF current_member_id
<1>3. Rows(current_member_id(r)).about = current_member_id(r)
  BY DEF Rows
<1>4. Rows(current_member_id(r)) \in Answers
  BY <1>1, <1>2 DEF Rows, Answers
<1>5. Rows(current_member_id(r)).said = Ok
  BY DEF Rows
<1> QED BY <1>1, <1>3, <1>4, <1>5, ApiAssumption

-----------------------------------------------------------------------------
(* The steps within a transaction, and before it.                          *)

\* A request that goes on holds what it held.
LEMMA GoesOnIInv ==
  ASSUME IInv, NEW r \in Requests, NEW place \in InTransaction,
         at[r] \in InTransaction,
         GoesOn(r, place),
         place # "begun" => who[r] # Nobody,
         at[r] \in {"changing", "written"} => place \in {"changing", "written"}
  PROVE  IInv'
<1>1. /\ at' = [at EXCEPT ![r] = place]
      /\ UNCHANGED <<keyset, who, conn, setting, draft, saved, answered, others>>
  BY DEF GoesOn
<1>2. TypeOK /\ RInv
  BY DEF IInv
<1>3. KInv'
  BY <1>1, SameKeysKInv DEF IInv
<1>4. place \in Places /\ place # "answered"
  BY DEF InTransaction, Places
<1>5. TypeOK'
  <2>1. at' \in [Requests -> Places]
    BY <1>1, <1>2, <1>4 DEF TypeOK
  <2> QED BY <1>1, <1>2, <1>3, <2>1 DEF TypeOK, others, KInv
<1>6. \A q \in Requests : at'[q] = IF q = r THEN place ELSE at[q]
  BY <1>1, <1>2 DEF TypeOK
<1>7. PoolIsWhole'
  <2>1. \A q \in Requests : (conn'[q] # NoConnection) <=> (at'[q] \in InTransaction)
    BY <1>1, <1>2, <1>6 DEF RInv, PoolIsWhole
  <2>2. \A q, p \in Requests : conn'[q] = conn'[p] /\ conn'[q] # NoConnection => q = p
    BY <1>1, <1>2 DEF RInv, PoolIsWhole
  <2>3. \A q \in Requests : conn'[q] # NoConnection => setting'[conn'[q]] = who'[q]
    BY <1>1, <1>2 DEF RInv, PoolIsWhole
  <2>4. \A c \in Free' : setting'[c] = Nobody
    BY <1>1, <1>2 DEF RInv, PoolIsWhole, Free
  <2> QED BY <2>1, <2>2, <2>3, <2>4 DEF PoolIsWhole
<1>8. Known'
  BY <1>1, <1>2, <1>6 DEF RInv, Known, InTransaction
<1>9. Unsaved'
  BY <1>1, <1>2, <1>4, <1>6 DEF RInv, Unsaved, InTransaction
<1>10. RowsAreTheCallers' /\ RefusedMeansUnchanged'
  BY <1>1, <1>2, <1>4, <1>6 DEF RInv, RowsAreTheCallers, RefusedMeansUnchanged
<1> QED BY <1>3, <1>5, <1>7, <1>8, <1>9, <1>10 DEF IInv, RInv

\* A request outside its transaction holds no connection, and moves from one
\* such place to another, with a refusal when it is answered.
LEMMA OutsideIInv ==
  ASSUME IInv, KInv', NEW r \in Requests,
         NEW place \in {"reading keys", "waiting", "answered"},
         NEW sub \in Subjects \cup {Nobody},
         NEW problem \in Problems,
         at[r] \in {"new", "reading keys", "waiting"},
         at' = [at EXCEPT ![r] = place],
         who' = [who EXCEPT ![r] = sub],
         answered' = [answered EXCEPT ![r] = IF place = "answered"
                                             THEN Problem(problem) ELSE answered[r]],
         UNCHANGED <<conn, setting, draft, saved, others>>
  PROVE  IInv'
<1>1. TypeOK /\ RInv
  BY DEF IInv
<1>2. at[r] \notin InTransaction /\ place \notin InTransaction /\ place \in Places
  BY DEF InTransaction, Places
<1>3. Problem(problem) \in Answers /\ Problem(problem).said # Ok
      /\ Problem(problem).about \notin Subjects
  BY ApiAssumption DEF Problem, Answers, Problems, Ok
<1>4. TypeOK'
  <2>1. /\ at' \in [Requests -> Places] /\ who' \in [Requests -> Subjects \cup {Nobody}]
        /\ answered' \in [Requests -> Answers]
    BY <1>1, <1>2, <1>3 DEF TypeOK
  <2> QED BY <1>1, <2>1 DEF TypeOK, others, KInv
<1>5. \A q \in Requests \ {r} :
        at'[q] = at[q] /\ who'[q] = who[q] /\ answered'[q] = answered[q]
  BY <1>1 DEF TypeOK
<1>6. at'[r] = place /\ conn[r] = NoConnection /\ conn' = conn /\ setting' = setting
  BY <1>1, <1>2 DEF TypeOK, RInv, PoolIsWhole
<1>7. PoolIsWhole'
  <2>1. \A q \in Requests : (conn'[q] # NoConnection) <=> (at'[q] \in InTransaction)
    BY <1>1, <1>2, <1>5, <1>6 DEF RInv, PoolIsWhole
  <2>2. \A q, p \in Requests : conn'[q] = conn'[p] /\ conn'[q] # NoConnection => q = p
    BY <1>1, <1>6 DEF RInv, PoolIsWhole
  <2>3. \A q \in Requests : conn'[q] # NoConnection => setting'[conn'[q]] = who'[q]
    BY <1>1, <1>5, <1>6 DEF RInv, PoolIsWhole
  <2>4. \A c \in Free : setting[c] = Nobody
    BY <1>1 DEF RInv, PoolIsWhole
  <2>5. \A c \in Free' : setting'[c] = Nobody
    <3>1. conn' = conn /\ setting' = setting
      BY <1>6
    <3> QED BY <2>4, <3>1 DEF Free
  <2> QED BY <2>1, <2>2, <2>3, <2>5 DEF PoolIsWhole
<1>8. Known'
  BY <1>1, <1>5, <1>6 DEF RInv, Known
<1>9. draft[r] = Nobody /\ saved[r] = "rolled back" /\ draft' = draft /\ saved' = saved
  BY <1>1 DEF RInv, Unsaved
<1>10. Unsaved'
  BY <1>1, <1>5, <1>6, <1>9 DEF RInv, Unsaved
<1>11. at'[r] = "answered" => answered'[r] = Problem(problem)
  BY <1>1, <1>6 DEF TypeOK
<1>12. RowsAreTheCallers'
  BY <1>1, <1>3, <1>5, <1>6, <1>11 DEF RInv, RowsAreTheCallers
<1>13. RefusedMeansUnchanged'
  BY <1>1, <1>5, <1>6, <1>9 DEF RInv, RefusedMeansUnchanged
<1> QED BY <1>4, <1>7, <1>8, <1>10, <1>12, <1>13 DEF IInv, RInv

\* A connection from the pool carries nobody's identity before it carries the
\* caller's.
LEMMA TakeConnectionIInv ==
  ASSUME IInv, NEW r \in Requests, NEW c \in Connections, TakeConnection(r, c)
  PROVE  IInv'
<1>1. /\ at[r] = "waiting" /\ c \in Free
      /\ conn' = [conn EXCEPT ![r] = c]
      /\ setting' = [setting EXCEPT ![c] = IF who[r] = Nobody THEN setting[c] ELSE who[r]]
      /\ at' = [at EXCEPT ![r] = "begun"]
      /\ UNCHANGED <<keyset, who, draft, saved, answered, others>>
  BY DEF TakeConnection
<1>2. TypeOK /\ RInv
  BY DEF IInv
<1>3. KInv'
  BY <1>1, SameKeysKInv DEF IInv
<1>4. c # NoConnection /\ setting[c] = Nobody /\ \A q \in Requests : conn[q] # c
  BY <1>1, <1>2, ApiAssumption DEF Free, RInv, PoolIsWhole
<1>5. TypeOK'
  <2>1. at' \in [Requests -> Places] /\ conn' \in [Requests -> Connections \cup {NoConnection}]
    BY <1>1, <1>2 DEF TypeOK, Places
  <2>2. setting' \in [Connections -> Subjects \cup {Nobody}]
    BY <1>1, <1>2 DEF TypeOK
  <2> QED BY <1>1, <1>2, <1>3, <2>1, <2>2 DEF TypeOK, others, KInv
<1>6. \A q \in Requests \ {r} : at'[q] = at[q] /\ conn'[q] = conn[q]
  BY <1>1, <1>2 DEF TypeOK
<1>7. at'[r] = "begun" /\ conn'[r] = c /\ setting'[c] = who[r]
  BY <1>1, <1>2, <1>4 DEF TypeOK
<1>8. \A d \in Connections \ {c} : setting'[d] = setting[d]
  BY <1>1, <1>2 DEF TypeOK
<1>9. PoolIsWhole'
  <2>1. \A q \in Requests : (conn'[q] # NoConnection) <=> (at'[q] \in InTransaction)
    BY <1>2, <1>4, <1>6, <1>7 DEF RInv, PoolIsWhole, InTransaction
  <2>2. \A q, p \in Requests : conn'[q] = conn'[p] /\ conn'[q] # NoConnection => q = p
    BY <1>2, <1>4, <1>6, <1>7 DEF RInv, PoolIsWhole
  <2>3. \A q \in Requests : conn'[q] # NoConnection => setting'[conn'[q]] = who'[q]
    <3> SUFFICES ASSUME NEW q \in Requests \ {r}, conn[q] # NoConnection
                 PROVE  setting'[conn[q]] = who[q]
      BY <1>1, <1>6, <1>7
    <3>1. conn[q] \in Connections \ {c} /\ setting[conn[q]] = who[q]
      BY <1>2, <1>4 DEF TypeOK, RInv, PoolIsWhole
    <3> QED BY <1>8, <3>1
  <2>4. \A d \in Free' : setting'[d] = Nobody
    <3> SUFFICES ASSUME NEW d \in Connections, \A q \in Requests : d # conn'[q]
                 PROVE  setting'[d] = Nobody
      BY DEF Free
    <3>1. d # c /\ \A q \in Requests \ {r} : d # conn[q]
      BY <1>6, <1>7
    <3>2. conn[r] = NoConnection
      BY <1>1, <1>2 DEF RInv, PoolIsWhole, InTransaction, TypeOK
    <3>3. d \in Free
      BY <3>1, <3>2, ApiAssumption DEF Free
    <3> QED BY <1>2, <1>8, <3>1, <3>3 DEF RInv, PoolIsWhole
  <2> QED BY <2>1, <2>2, <2>3, <2>4 DEF PoolIsWhole
<1>10. Known'
  BY <1>1, <1>2, <1>6, <1>7 DEF RInv, Known
<1>11. Unsaved'
  BY <1>1, <1>2, <1>6, <1>7 DEF RInv, Unsaved
<1>12. RowsAreTheCallers' /\ RefusedMeansUnchanged'
  BY <1>1, <1>2, <1>6, <1>7 DEF RInv, RowsAreTheCallers, RefusedMeansUnchanged
<1> QED BY <1>3, <1>5, <1>9, <1>10, <1>11, <1>12 DEF IInv, RInv

-----------------------------------------------------------------------------
(* Every step keeps the invariant.                                         *)

\* Nobody has asked for anything yet.
LEMMA InitIInv == Init => IInv
<1> SUFFICES ASSUME Init PROVE IInv
  OBVIOUS
<1>1. KInv
  BY InitKInv DEF Init
<1>2. TypeOK
  <2>1. Problem("unexpected") \in Answers
    BY DEF Problem, Answers, Problems
  <2>2. /\ at \in [Requests -> Places] /\ saved \in [Requests -> Fates]
        /\ who \in [Requests -> Subjects \cup {Nobody}]
        /\ draft \in [Requests -> Subjects \cup {Nobody}]
        /\ answered \in [Requests -> Answers]
    BY <2>1 DEF Init, Places, Fates
  <2>3. /\ conn \in [Requests -> Connections \cup {NoConnection}]
        /\ setting \in [Connections -> Subjects \cup {Nobody}]
        /\ record \in SUBSET Subjects /\ locked \in SUBSET Subjects
    BY DEF Init
  <2>4. hands \in 0 .. MaxHands
    <3>1. hands = 0
      BY DEF Init
    <3> QED BY <3>1, ApiAssumption
  <2> QED BY <1>1, <2>2, <2>3, <2>4 DEF KInv, TypeOK
<1>3. \A r \in Requests : at[r] = "new" /\ conn[r] = NoConnection
  BY DEF Init
<1>4. \A c \in Connections : setting[c] = Nobody
  BY DEF Init
<1>5. PoolIsWhole
  BY <1>3, <1>4 DEF PoolIsWhole, InTransaction, Free
<1>6. Known /\ Unsaved /\ RowsAreTheCallers /\ RefusedMeansUnchanged
  BY <1>3 DEF Init, Known, Unsaved, RowsAreTheCallers, RefusedMeansUnchanged
<1> QED BY <1>1, <1>2, <1>5, <1>6 DEF IInv, RInv

\* A token is looked up outside the transaction, and says who is asking.
LEMMA TokenIInv ==
  ASSUME IInv, NEW r \in Requests, NEW t \in Tokens, NEW ok \in BOOLEAN,
         LookForKey(r, t) \/ KeysRead(r, t, ok)
  PROVE  IInv'
<1>1. \A keys \in SUBSET Keys : subject_from(t, keys) \in Subjects \cup {Nobody}
  BY DEF Tokens, subject_from
<1>2. "unexpected" \in Problems /\ who[r] \in Subjects \cup {Nobody}
  BY DEF Problems, IInv, TypeOK
<1>3. /\ who = [who EXCEPT ![r] = who[r]]
      /\ answered = [answered EXCEPT ![r] = answered[r]]
  BY DEF IInv, TypeOK
<1>4. ASSUME NEW keys \in SUBSET Keys, Verified(r, t, keys), KInv',
             at[r] \in {"new", "reading keys"}
      PROVE  IInv'
  <2>1. answered' = [answered EXCEPT ![r] = IF "waiting" = "answered"
                       THEN Problem("unexpected") ELSE answered[r]]
    BY <1>3, <1>4 DEF Verified
  <2> QED BY <1>1, <1>2, <1>4, <2>1, OutsideIInv DEF Verified
<1>5. CASE LookForKey(r, t)
  <2>1. CASE Stale /\ reader = NoRequest
    <3>1. StartRead(r) /\ at' = [at EXCEPT ![r] = "reading keys"]
          /\ UNCHANGED <<who, conn, setting, draft, saved, answered, others>>
          /\ at[r] = "new"
      BY <1>5, <2>1 DEF LookForKey
    <3>2. KInv'
      BY <3>1, StartReadKInv DEF IInv
    <3>3. answered' = [answered EXCEPT ![r] = IF "reading keys" = "answered"
                         THEN Problem("unexpected") ELSE answered[r]]
      BY <1>3, <3>1
    <3>4. who' = [who EXCEPT ![r] = who[r]]
      BY <1>3, <3>1
    <3> QED BY <1>2, <3>1, <3>2, <3>3, <3>4, OutsideIInv
  <2>2. CASE ~(Stale /\ reader = NoRequest)
    <3>1. Verified(r, t, held) /\ UNCHANGED keyset /\ at[r] = "new"
      BY <1>5, <2>2 DEF LookForKey
    <3>2. KInv' /\ held \in SUBSET Keys
      BY <3>1, SameKeysKInv DEF IInv, KInv, KeysTypeOK
    <3> QED BY <1>4, <3>1, <3>2
  <2> QED BY <2>1, <2>2
<1>6. CASE KeysRead(r, t, ok)
  <2>1. KInv'
    BY <1>6, EndReadKInv DEF KeysRead, IInv
  <2>2. held' \in SUBSET Keys
    BY <2>1 DEF KInv, KeysTypeOK
  <2> QED BY <1>4, <1>6, <2>1, <2>2 DEF KeysRead
<1> QED BY <1>5, <1>6

\* A refusal before the transaction has nothing to undo.
LEMMA RefusedOutsideIInv ==
  ASSUME IInv, NEW r \in Requests,
         \/ WaitTimesOut(r)
         \/ \E p \in refused_by_the_router \cup {"invalid-request"} :
              RefusedBeforeTheEndpoint(r, p)
  PROVE  IInv'
<1>1. who = [who EXCEPT ![r] = who[r]] /\ who[r] \in Subjects \cup {Nobody}
  BY DEF IInv, TypeOK
<1>2. ASSUME NEW p \in Problems,
             at[r] \in {"new", "waiting"},
             at' = [at EXCEPT ![r] = "answered"],
             answered' = [answered EXCEPT ![r] = Problem(p)],
             UNCHANGED <<keyset, who, conn, setting, draft, saved, others>>
      PROVE  IInv'
  <2>1. KInv'
    BY <1>2, SameKeysKInv DEF IInv
  <2>2. answered' = [answered EXCEPT ![r] = IF "answered" = "answered"
                       THEN Problem(p) ELSE answered[r]]
    BY <1>2
  <2>3. who' = [who EXCEPT ![r] = who[r]]
    BY <1>1, <1>2
  <2> QED BY <1>1, <1>2, <2>1, <2>2, <2>3, OutsideIInv
<1>3. CASE WaitTimesOut(r)
  <2>1. "unexpected" \in Problems
    BY DEF Problems
  <2> QED BY <1>2, <1>3, <2>1 DEF WaitTimesOut
<1>4. ASSUME NEW p \in refused_by_the_router \cup {"invalid-request"},
             RefusedBeforeTheEndpoint(r, p)
      PROVE  IInv'
  <2>1. p \in Problems
    BY DEF Problems, refused_by_the_router
  <2> QED BY <1>2, <1>4, <2>1 DEF RefusedBeforeTheEndpoint
<1> QED BY <1>3, <1>4

\* The first query either finds an identity or raises.
LEMMA AskWhoThisIsIInv ==
  ASSUME IInv, NEW r \in Requests, AskWhoThisIs(r)
  PROVE  IInv'
<1>1. at[r] = "begun" /\ at[r] \in InTransaction /\ "identified" \in InTransaction
  BY DEF AskWhoThisIs, InTransaction
<1>2. CASE setting[conn[r]] = Nobody
  <2>1. refused_by_the_database("no identity") \in Problems
    BY DEF refused_by_the_database, Problems
  <2> QED BY <1>1, <1>2, <2>1, RaisesIInv DEF AskWhoThisIs
<1>3. CASE setting[conn[r]] # Nobody
  <2>1. who[r] # Nobody
    BY <1>1, <1>3, HeldConnection
  <2> QED BY <1>1, <1>3, <2>1, GoesOnIInv DEF AskWhoThisIs
<1> QED BY <1>2, <1>3

\* A transaction that fails saves nothing; one whose commit is not heard of is
\* told as "unexpected".
LEMMA FailsIInv ==
  ASSUME IInv, NEW r \in Requests, Fails(r) \/ CommitIsUnheard(r)
  PROVE  IInv'
<1>1. "unexpected" \in Problems
  BY DEF Problems
<1>2. CASE Fails(r)
  BY <1>1, <1>2, RaisesIInv DEF Fails
<1>3. CASE CommitIsUnheard(r)
  <2>1. Problem("unexpected") \in Answers /\ "unheard" \in Fates
    BY <1>1 DEF Problem, Answers, Fates
  <2>2. Problem("unexpected").about = Nobody /\ Problem("unexpected").said = "unexpected"
    BY DEF Problem
  <2>3. Nobody \notin Subjects /\ "unexpected" # Ok /\ at[r] \in InTransaction
    BY <1>3, ApiAssumption DEF Ok, CommitIsUnheard, InTransaction
  <2> QED BY <1>3, <2>1, <2>2, <2>3, EndsIInv DEF CommitIsUnheard
<1> QED BY <1>2, <1>3

\* An update has a row of its caller's to write, or none.
LEMMA WriteTheChangeIInv ==
  ASSUME IInv, NEW r \in Requests, NEW empty \in BOOLEAN, write_the_change(r, empty)
  PROVE  IInv'
<1> DEFINE row == IF empty THEN Nobody ELSE current_member_id(r)
<1> DEFINE place == IF row = Nobody THEN "written" ELSE "changing"
<1>1. /\ at[r] = "own"
      /\ draft' = [draft EXCEPT ![r] = row]
      /\ at' = [at EXCEPT ![r] = place]
      /\ UNCHANGED <<keyset, who, conn, setting, saved, answered, others>>
  BY DEF write_the_change
<1>2. TypeOK /\ RInv
  BY DEF IInv
<1>3. at[r] \in InTransaction
  BY <1>1 DEF InTransaction
<1>4. row \in Subjects \cup {Nobody}
  <2>1. who[r] \in Subjects \cup {Nobody}
    BY <1>2 DEF TypeOK
  <2> QED BY <1>3, <2>1, CurrentIsTheCaller
<1>5. place \in {"written", "changing"}
  OBVIOUS
<1> HIDE DEF row, place
<1>6. KInv'
  BY <1>1, SameKeysKInv DEF IInv
<1>7. TypeOK'
  <2>1. at' \in [Requests -> Places] /\ draft' \in [Requests -> Subjects \cup {Nobody}]
    BY <1>1, <1>2, <1>4, <1>5 DEF TypeOK, Places
  <2> QED BY <1>1, <1>2, <1>6, <2>1 DEF TypeOK, others, KInv
<1>8. \A q \in Requests \ {r} : at'[q] = at[q] /\ draft'[q] = draft[q]
  BY <1>1, <1>2 DEF TypeOK
<1>9. at'[r] = place
  BY <1>1, <1>2 DEF TypeOK
<1>10. PoolIsWhole'
  <2>1. \A q \in Requests : (conn'[q] # NoConnection) <=> (at'[q] \in InTransaction)
    BY <1>1, <1>2, <1>3, <1>5, <1>8, <1>9 DEF RInv, PoolIsWhole, InTransaction
  <2>2. \A q, p \in Requests : conn'[q] = conn'[p] /\ conn'[q] # NoConnection => q = p
    BY <1>1, <1>2 DEF RInv, PoolIsWhole
  <2>3. \A q \in Requests : conn'[q] # NoConnection => setting'[conn'[q]] = who'[q]
    BY <1>1, <1>2 DEF RInv, PoolIsWhole
  <2>4. \A c \in Free' : setting'[c] = Nobody
    BY <1>1, <1>2 DEF RInv, PoolIsWhole, Free
  <2> QED BY <2>1, <2>2, <2>3, <2>4 DEF PoolIsWhole
<1>11. Known'
  BY <1>1, <1>2, <1>8 DEF RInv, Known
<1>12. Unsaved'
  BY <1>1, <1>2, <1>5, <1>8, <1>9 DEF RInv, Unsaved
<1>13. RowsAreTheCallers' /\ RefusedMeansUnchanged'
  BY <1>1, <1>2, <1>5, <1>8, <1>9 DEF RInv, RowsAreTheCallers, RefusedMeansUnchanged
<1> QED BY <1>6, <1>7, <1>10, <1>11, <1>12, <1>13 DEF IInv, RInv

\* What any endpoint answers is about its caller.
LEMMA EndpointIInv ==
  ASSUME IInv, NEW r \in Requests, Endpoint(r)
  PROVE  IInv'
<1>1. ASSUME NEW p \in Problems
      PROVE  /\ Problem(p) \in Answers
             /\ Problem(p).about \notin Subjects
             /\ Problem(p).said # Ok
  BY <1>1, ApiAssumption DEF Problem, Answers, Problems, Ok
<1>2. /\ "no-member-record" \in Problems /\ "invalid-request" \in Problems
      /\ "not-in-directory" \in Problems /\ "no-waiver-recorded" \in Problems
  BY DEF Problems
<1>3. ASSUME at[r] \in {"identified", "own"},
             NEW p \in Problems, Leaves(r, Problem(p))
      PROVE  IInv'
  <2>1. at[r] # "written" /\ at[r] \in {"identified", "own", "written"}
    BY <1>3
  <2> QED BY <1>1, <1>3, <2>1, LeavesIInv
<1>4. ASSUME at[r] \in {"identified", "own", "written"},
             Leaves(r, Rows(current_member_id(r)))
      PROVE  IInv'
  <2>1. at[r] \in InTransaction
    BY <1>4 DEF InTransaction
  <2> HIDE DEF current_member_id
  <2> QED BY <1>4, <2>1, RowsOfTheCaller, LeavesIInv
<1>5. ASSUME at[r] = "identified", Leaves(r, Rows("directory"))
      PROVE  IInv'
  <2>1. Rows("directory") \in Answers /\ Rows("directory").said = Ok
        /\ Rows("directory").about = "directory"
    BY DEF Rows, Answers
  <2> QED BY <1>5, <2>1, LeavesIInv, ApiAssumption
<1>6. CASE get_me(r)
  BY <1>2, <1>3, <1>4, <1>6 DEF get_me
<1>7. CASE \E known \in BOOLEAN : list_directory(r, known)
  BY <1>2, <1>3, <1>5, <1>7 DEF list_directory
<1>8. CASE \E known, listed \in BOOLEAN : get_directory_member(r, known, listed)
  BY <1>2, <1>3, <1>5, <1>8 DEF get_directory_member
<1>9. CASE caller_member_id(r)
  <2>1. CASE current_member_id(r) = Nobody
    BY <1>2, <1>3, <1>9, <2>1 DEF caller_member_id
  <2>2. CASE current_member_id(r) # Nobody
    <3>1. at[r] = "identified" /\ GoesOn(r, "own")
      BY <1>9, <2>2 DEF caller_member_id
    <3>2. who[r] # Nobody
      BY <3>1 DEF IInv, RInv, Known
    <3>3. at[r] \in InTransaction /\ "own" \in InTransaction
      BY <3>1 DEF InTransaction
    <3> QED BY <3>1, <3>2, <3>3, GoesOnIInv
  <2> QED BY <2>1, <2>2
<1>10. CASE read_own(r)
  BY <1>4, <1>10 DEF read_own
<1>11. CASE \E signed \in BOOLEAN : get_my_waiver(r, signed)
  BY <1>2, <1>3, <1>4, <1>11 DEF get_my_waiver
<1>12. CASE \E legible \in BOOLEAN : list_my_door_events(r, legible)
  BY <1>2, <1>3, <1>4, <1>12 DEF list_my_door_events
<1>13. CASE \E empty \in BOOLEAN : write_the_change(r, empty)
  BY <1>13, WriteTheChangeIInv
<1>14. CASE RowIsUpdated(r)
  <2>1. at[r] = "changing" /\ GoesOn(r, "written")
    BY <1>14 DEF RowIsUpdated
  <2>2. who[r] # Nobody /\ at[r] \in InTransaction /\ "written" \in InTransaction
    BY <2>1 DEF IInv, RInv, Known, InTransaction
  <2> QED BY <2>1, <2>2, GoesOnIInv
<1>15. CASE \E name \in Constraints : ChangeIsRefused(r, name)
  <2>1. PICK name \in Constraints : ChangeIsRefused(r, name)
    BY <1>15
  <2>2. what_the_database_refused(name) \in Problems
    BY DEF what_the_database_refused, refused_by_a_unique_constraint, Problems
  <2>3. at[r] \in InTransaction
    BY <2>1 DEF ChangeIsRefused, InTransaction
  <2> QED BY <2>1, <2>2, <2>3, RaisesIInv DEF ChangeIsRefused
<1>16. CASE ReadBack(r)
  BY <1>4, <1>16 DEF ReadBack
<1> QED BY <1>6, <1>7, <1>8, <1>9, <1>10, <1>11, <1>12, <1>13, <1>14, <1>15, <1>16
           DEF Endpoint

\* What others do to members' rows changes neither who is asking nor what was
\* answered.
LEMMA BesideIInv ==
  ASSUME IInv, KInv', UNCHANGED requests,
         record' \in SUBSET Subjects, locked' \in SUBSET Subjects,
         hands' \in 0 .. MaxHands
  PROVE  IInv'
<1>1. TypeOK /\ RInv
  BY DEF IInv
<1>2. UNCHANGED <<at, who, conn, setting, draft, saved, answered>>
  BY DEF requests
<1>3. TypeOK'
  BY <1>1, <1>2 DEF TypeOK, KInv
<1>4. PoolIsWhole'
  BY <1>1, <1>2 DEF RInv, PoolIsWhole, Free
<1>5. Known' /\ Unsaved' /\ RowsAreTheCallers' /\ RefusedMeansUnchanged'
  BY <1>1, <1>2 DEF RInv, Known, Unsaved, RowsAreTheCallers, RefusedMeansUnchanged
<1> QED BY <1>3, <1>4, <1>5 DEF IInv, RInv

LEMMA NextIInv ==
  ASSUME IInv, [Next]_vars
  PROVE  IInv'
<1>1. /\ record \in SUBSET Subjects /\ locked \in SUBSET Subjects
      /\ hands \in 0 .. MaxHands
  BY DEF IInv, TypeOK
<1>2. ASSUME NEW r \in Requests,
             \/ \E p \in refused_by_the_router \cup {"invalid-request"} :
                  RefusedBeforeTheEndpoint(r, p)
             \/ \E t \in Tokens : LookForKey(r, t)
             \/ Step(r)
      PROVE  IInv'
  <2>1. CASE (\E p \in refused_by_the_router \cup {"invalid-request"} :
                RefusedBeforeTheEndpoint(r, p)) \/ WaitTimesOut(r)
    BY <2>1, RefusedOutsideIInv
  <2>2. CASE \E t \in Tokens : LookForKey(r, t)
    BY <2>2, TokenIInv
  <2>3. CASE \E t \in Tokens, ok \in BOOLEAN : KeysRead(r, t, ok)
    BY <2>3, TokenIInv
  <2>4. CASE \E c \in Connections : TakeConnection(r, c)
    BY <2>4, TakeConnectionIInv
  <2>5. CASE AskWhoThisIs(r)
    BY <2>5, AskWhoThisIsIInv
  <2>6. CASE Endpoint(r)
    BY <2>6, EndpointIInv
  <2>7. CASE Fails(r) \/ CommitIsUnheard(r)
    BY <2>7, FailsIInv
  <2> QED BY <1>2, <2>1, <2>2, <2>3, <2>4, <2>5, <2>6, <2>7 DEF Step
<1>3. ASSUME NEW s \in Subjects, OthersLock(s)
      PROVE  IInv'
  <2>1. hands' \in 0 .. MaxHands /\ locked' \in SUBSET Subjects
    BY <1>1, <1>3, ApiAssumption DEF OthersLock
  <2> QED BY <1>1, <1>3, <2>1, SameKeysKInv, BesideIInv DEF OthersLock, IInv
<1>4. ASSUME NEW s \in Subjects, NEW joined \in BOOLEAN, OthersCommit(s, joined)
      PROVE  IInv'
  <2>1. record' \in SUBSET Subjects /\ locked' \in SUBSET Subjects
    BY <1>1, <1>4 DEF OthersCommit
  <2> QED BY <1>1, <1>4, <2>1, SameKeysKInv, BesideIInv DEF OthersCommit, IInv
<1>5. CASE Provider
  <2>1. UNCHANGED <<requests, others>>
    BY <1>5 DEF Provider
  <2> QED BY <1>1, <1>5, <2>1, ProviderKInv, BesideIInv DEF others, IInv
<1>6. CASE UNCHANGED vars
  BY <1>1, <1>6, SameKeysKInv, BesideIInv DEF vars, others, IInv
<1> QED BY <1>2, <1>3, <1>4, <1>5, <1>6 DEF Next

-----------------------------------------------------------------------------
(* The theorems.                                                           *)

\* The service and the rows it works on are well typed.
THEOREM TypeCorrect == Spec => []TypeOK
<1>1. IInv => TypeOK
  BY DEF IInv
<1>2. IInv /\ [Next]_vars => IInv'
  BY NextIInv
<1> QED BY InitIInv, <1>1, <1>2, PTL DEF Spec

\* A connection carries the identity of the one request that holds it, and
\* nobody's once it is back in the pool, however its transaction ended.
THEOREM PoolStaysWhole == Spec => []PoolIsWhole
<1>1. IInv => PoolIsWhole
  BY DEF IInv, RInv
<1>2. IInv /\ [Next]_vars => IInv'
  BY NextIInv
<1> QED BY InitIInv, <1>1, <1>2, PTL DEF Spec

\* Nobody is answered with the rows of another, and nobody without a usable
\* token with any.
THEOREM AnswersAreTheCallers == Spec => []RowsAreTheCallers
<1>1. IInv => RowsAreTheCallers
  BY DEF IInv, RInv
<1>2. IInv /\ [Next]_vars => IInv'
  BY NextIInv
<1> QED BY InitIInv, <1>1, <1>2, PTL DEF Spec

\* A problem is told only when nothing was saved, save for a commit the
\* service did not hear of.
THEOREM RefusalsSaveNothing == Spec => []RefusedMeansUnchanged
<1>1. IInv => RefusedMeansUnchanged
  BY DEF IInv, RInv
<1>2. IInv /\ [Next]_vars => IInv'
  BY NextIInv
<1> QED BY InitIInv, <1>1, <1>2, PTL DEF Spec

\* After a read that succeeded no key is believed that was withdrawn before
\* the set's age began.
THEOREM ReadSetsAreCurrent == Spec => []FreshSetsAreCurrent
<1>1. IInv => FreshSetsAreCurrent
  BY DEF IInv, KInv
<1>2. IInv /\ [Next]_vars => IInv'
  BY NextIInv
<1> QED BY InitIInv, <1>1, <1>2, PTL DEF Spec

=============================================================================
