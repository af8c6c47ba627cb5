------------------------- MODULE FirstSignInProofs -------------------------
(***************************************************************************)
(* Proofs about FirstSignIn, for any number of requests, subjects,         *)
(* addresses, records and statements beside the requests, and about        *)
(* DoorEvents, for any number of entries, times, numbers and page sizes.   *)
(***************************************************************************)
EXTENDS MCFirstSignIn, SequenceTheorems, TLAPS

Writing == {"subject", "email", "address", "lock", "set", "role", "answer"}

\* A request writes its row only when it claims, inserts or sets an address,
\* has written it when it enters an index, and has found the record that it
\* claims, waits to lock or grants a role to.
Placed ==
  \A q \in Requests :
    /\ HasDraft(q) => call[q].at \in Writing
    /\ call[q].at \in {"subject", "email", "set"} => HasDraft(q)
    /\ call[q].at = "claim" =>
         call[q].record \in RecordIds /\ members[call[q].record] # Null
    /\ call[q].at = "role" => call[q].record \in RecordIds
    /\ call[q].at = "lock" =>
         /\ call[q].record \in RecordIds
         /\ \/ members[call[q].record] # Null
            \/ HasDraft(q) /\ draft[q].id = call[q].record

Inv1 == TypeOK /\ Placed

CallType ==
  [kind: {"api", "seat", Null}, subject: Subjects \cup {Null},
   email: Emails \cup {Null}, at: Places,
   known: RecordIds \cup {Null}, record: RecordIds \cup {Null},
   answer: Answers \cup {Null}]

-----------------------------------------------------------------------------
(* What a request sees.                                                    *)

\* A request sees rows.
LEMMA SeesType ==
  ASSUME TypeOK, NEW q \in Requests
  PROVE  Sees(q) \in [RecordIds -> Row \cup {Null}]
BY DEF TypeOK, Sees, HasDraft, Written

\* The member a request acts as is a row it sees.
LEMMA CurrentType ==
  ASSUME TypeOK, NEW q \in Requests, current_member_id(q) # Null
  PROVE  /\ current_member_id(q) \in RecordIds
         /\ Sees(q)[current_member_id(q)] \in Row
<1>1. PICK r \in Live(Sees(q), call[q].subject) : current_member_id(q) = r
  BY DEF current_member_id
<1>2. r \in RecordIds /\ Sees(q)[r] # Null
  BY <1>1 DEF Live, Held
<1> QED BY <1>1, <1>2, SeesType

\* The member a request acts as is a record id or NULL.
LEMMA CurrentOrNull ==
  ASSUME TypeOK, NEW q \in Requests
  PROVE  current_member_id(q) \in RecordIds \cup {Null}
BY CurrentType

\* Putting a value into a column leaves a row.
LEMMA WithType ==
  ASSUME NEW row \in Row, NEW key \in Keys, NEW v,
         key = "subject" => v \in Subjects \cup {Null},
         key = "email" => v \in Emails \cup {Null}
  PROVE  With(row, key, v) \in Row
BY DEF With, Row, Keys

-----------------------------------------------------------------------------
(* The building blocks of the actions keep the types and the places.       *)

\* What the history variables may hold.
HistoryType ==
  /\ removal \in [Requests -> {"never", "partly", "always"}]
  /\ owned \in [Requests -> SUBSET RecordIds]

\* The history variables stay what they are.
LEMMA WatchType ==
  ASSUME TypeOK, Watch
  PROVE  HistoryType'
<1>1. removal' \in [Requests -> {"never", "partly", "always"}]
  BY DEF TypeOK, Watch
<1>2. owned' \in [Requests -> SUBSET RecordIds]
  BY DEF TypeOK, Watch, Live, Held
<1> QED BY <1>1, <1>2 DEF HistoryType

\* A request that ends is still one.
LEMMA EndsType ==
  ASSUME TypeOK, NEW q \in Requests, NEW a \in Answers, Ends(q, a)
  PROVE  /\ call' \in [Requests -> CallType]
         /\ call'[q].at = "done"
         /\ \A p \in Requests \ {q} : call'[p] = call[p]
         /\ draft' = [draft EXCEPT ![q] = Null]
         /\ draft' \in [Requests -> Written \cup {Null}]
<1>1. Called(call[q].kind, call[q].subject, Null, "done", a) \in CallType
  BY DEF TypeOK, CallType, Places, Called
<1>2. Called(call[q].kind, call[q].subject, Null, "done", a).at = "done"
  BY DEF Called
<1>3. call \in [Requests -> CallType]
  BY DEF TypeOK, CallType
<1> QED BY <1>1, <1>2, <1>3 DEF Ends, TypeOK

\* A refusal keeps the types and the places.
LEMMA RefuseInv1 ==
  ASSUME Inv1, NEW q \in Requests, NEW why \in Answers, Refuse(q, why)
  PROVE  Inv1'
<1> DEFINE a == IF call[q].kind = "seat" THEN "refused" ELSE why
<1>1. a \in Answers /\ Ends(q, a)
  BY DEF Refuse, Answers
<1>2. UNCHANGED kept /\ TypeOK
  BY DEF Refuse, Inv1
<1> HIDE DEF a
<1>3. /\ call' \in [Requests -> CallType]
      /\ call'[q].at = "done"
      /\ \A p \in Requests \ {q} : call'[p] = call[p]
      /\ draft' = [draft EXCEPT ![q] = Null]
      /\ draft' \in [Requests -> Written \cup {Null}]
  BY <1>1, <1>2, EndsType
<1>4. TypeOK'
  BY <1>2, <1>3 DEF TypeOK, kept, CallType
<1>5. Placed'
  BY <1>2, <1>3 DEF Inv1, Placed, kept, HasDraft, TypeOK
<1> QED BY <1>4, <1>5 DEF Inv1

\* A step that only moves a request, to a place that asks for nothing.
LEMMA MoveInv1 ==
  ASSUME Inv1, NEW q \in Requests, NEW c \in CallType,
         call' = [call EXCEPT ![q] = c], UNCHANGED <<members, roled, draft, hands>>,
         HistoryType',
         c.at \notin {"subject", "email", "set"},
         HasDraft(q) => c.at \in Writing,
         c.at = "claim" => c.record \in RecordIds /\ members[c.record] # Null,
         c.at = "role" => c.record \in RecordIds,
         c.at = "lock" => /\ c.record \in RecordIds
                          /\ \/ members[c.record] # Null
                             \/ HasDraft(q) /\ draft[q].id = c.record
  PROVE  Inv1'
<1>1. call \in [Requests -> CallType]
  BY DEF Inv1, TypeOK, CallType
<1>2. call' \in [Requests -> CallType] /\ call'[q] = c
      /\ \A p \in Requests \ {q} : call'[p] = call[p]
  BY <1>1
<1>3. TypeOK'
  BY <1>2 DEF Inv1, TypeOK, CallType, HistoryType
<1>4. Placed'
  BY <1>2 DEF Inv1, Placed, HasDraft
<1> QED BY <1>3, <1>4 DEF Inv1

\* A step that writes a request's row and moves the request.
LEMMA WriteInv1 ==
  ASSUME Inv1, NEW q \in Requests, NEW c \in CallType, NEW w \in Written,
         call' = [call EXCEPT ![q] = c], draft' = [draft EXCEPT ![q] = w],
         UNCHANGED kept,
         c.at \in Writing \ {"lock"},
         c.at = "role" => c.record \in RecordIds
  PROVE  Inv1'
<1>1. call \in [Requests -> CallType]
  BY DEF Inv1, TypeOK, CallType
<1>2. call' \in [Requests -> CallType] /\ call'[q] = c
      /\ \A p \in Requests \ {q} : call'[p] = call[p]
  BY <1>1
<1>3. draft' \in [Requests -> Written \cup {Null}] /\ draft'[q] # Null
      /\ \A p \in Requests \ {q} : draft'[p] = draft[p]
  BY NoRowAssumption DEF Inv1, TypeOK
<1>4. TypeOK'
  BY <1>2, <1>3 DEF Inv1, TypeOK, CallType, kept
<1>5. Placed'
  BY <1>2, <1>3 DEF Inv1, Placed, HasDraft, kept, Writing
<1> QED BY <1>4, <1>5 DEF Inv1

-----------------------------------------------------------------------------
(* Types and places hold of every reachable state.                         *)

\* Moving a request, with what it has found, is a change of its record.
LEMMA GoesIs ==
  ASSUME TypeOK, NEW q \in Requests, NEW there \in Places,
         NEW r \in RecordIds \cup {Null}
  PROVE  /\ \E c \in CallType : /\ Goes(q, there) => call' = [call EXCEPT ![q] = c]
                               /\ c.at = there /\ c.record = call[q].record
         /\ \E c \in CallType :
              /\ GoesWith(q, r, there) => call' = [call EXCEPT ![q] = c]
              /\ c.at = there /\ c.record = r
<1>1. call[q] \in CallType /\ call \in [Requests -> CallType]
  BY DEF TypeOK, CallType
<1>2. [call[q] EXCEPT !.at = there] \in CallType
  BY <1>1 DEF CallType
<1>3. [call[q] EXCEPT !.record = r, !.at = there] \in CallType
  BY <1>1 DEF CallType
<1>4. /\ [call[q] EXCEPT !.at = there].at = there
      /\ [call[q] EXCEPT !.at = there].record = call[q].record
      /\ [call[q] EXCEPT !.record = r, !.at = there].at = there
      /\ [call[q] EXCEPT !.record = r, !.at = there].record = r
  BY <1>1 DEF CallType
<1>5. [call EXCEPT ![q].at = there] = [call EXCEPT ![q] = [call[q] EXCEPT !.at = there]]
  BY <1>1 DEF CallType
<1>6. [call EXCEPT ![q].record = r, ![q].at = there]
        = [call EXCEPT ![q] = [call[q] EXCEPT !.record = r, !.at = there]]
  BY <1>1 DEF CallType
<1> QED BY <1>2, <1>3, <1>4, <1>5, <1>6 DEF Goes, GoesWith

\* A request that goes to a place that asks for nothing.
LEMMA GoesInv1 ==
  ASSUME Inv1, NEW q \in Requests,
         NEW there \in Places \ {"subject", "email", "set", "claim", "role",
                               "lock"},
         HasDraft(q) => there \in Writing,
         Goes(q, there), UNCHANGED <<kept, draft>>
  PROVE  Inv1'
<1>1. PICK c \in CallType : /\ call' = [call EXCEPT ![q] = c]
                            /\ c.at = there /\ c.record = call[q].record
  BY GoesIs, NullAssumption DEF Inv1
<1> QED BY <1>1, MoveInv1 DEF Inv1, TypeOK, kept, HistoryType

\* A request that goes on with the record it found.
LEMMA GoesWithInv1 ==
  ASSUME Inv1, NEW q \in Requests, NEW r \in RecordIds,
         NEW there \in {"claim", "role", "address"}, ~HasDraft(q),
         there = "claim" => members[r] # Null,
         GoesWith(q, r, there), UNCHANGED <<kept, draft>>
  PROVE  Inv1'
<1>1. there \in Places
  BY DEF Places
<1>2. PICK c \in CallType : /\ call' = [call EXCEPT ![q] = c]
                            /\ c.at = there /\ c.record = r
  BY <1>1, GoesIs DEF Inv1
<1> QED BY <1>2, MoveInv1 DEF Inv1, TypeOK, kept, HistoryType

\* What a request with no row of its own sees is what is in the table.
LEMMA SeesStored ==
  ASSUME TypeOK, NEW q \in Requests, ~HasDraft(q), NEW r \in RecordIds
  PROVE  Sees(q)[r] = members[r]
BY DEF Sees

\* What an index says keeps the types and the places.
LEMMA EnterInv1 ==
  ASSUME Inv1, NEW q \in Requests, NEW key \in Keys, NEW v,
         key = "subject" => v \in Subjects \cup {Null},
         key = "email" => v \in Emails \cup {Null},
         NEW refusal \in Answers, NEW there \in {"email", "address", "role", "answer"},
         HasDraft(q), Enter(q, key, v, refusal, there)
  PROVE  Inv1'
<1>1. CASE Refuse(q, refusal)
  BY <1>1, RefuseInv1
<1>2. ASSUME draft' = [draft EXCEPT ![q] = [id |-> draft[q].id,
                                            row |-> With(draft[q].row, key, v)]],
             GoesWith(q, draft[q].id, there), UNCHANGED kept
      PROVE  Inv1'
  <2> DEFINE w == [id |-> draft[q].id, row |-> With(draft[q].row, key, v)]
  <2>1. draft[q].id \in RecordIds /\ draft[q].row \in Row
    BY DEF Inv1, TypeOK, HasDraft, Written
  <2>2. With(draft[q].row, key, v) \in Row
    BY <2>1, WithType
  <2>3. w \in Written
    BY <2>1, <2>2 DEF Written
  <2>4. there \in Places
    BY DEF Places
  <2>5. PICK c \in CallType : /\ call' = [call EXCEPT ![q] = c]
                              /\ c.at = there /\ c.record = draft[q].id
    BY <1>2, <2>1, <2>4, GoesIs DEF Inv1
  <2>6. c.at \in Writing \ {"lock"}
    BY <2>5 DEF Writing
  <2> HIDE DEF w
  <2> QED BY <1>2, <2>1, <2>3, <2>5, <2>6, WriteInv1 DEF w
<1> QED BY <1>1, <1>2 DEF Enter

\* A commit keeps the types and the places.
LEMMA CommitsInv1 ==
  ASSUME Inv1, NEW q \in Requests, NEW a \in Answers, Commits(q, a),
         roled' \subseteq RecordIds
  PROVE  Inv1'
<1>1. /\ call' \in [Requests -> CallType]
      /\ call'[q].at = "done"
      /\ \A p \in Requests \ {q} : call'[p] = call[p]
      /\ draft' = [draft EXCEPT ![q] = Null]
      /\ draft' \in [Requests -> Written \cup {Null}]
  BY EndsType DEF Commits, Inv1
<1>2. HistoryType'
  BY WatchType DEF Inv1, Commits
<1>3. members' \in [RecordIds -> Row \cup {Null}]
  BY SeesType DEF Inv1, Commits
<1>4. TypeOK'
  BY <1>1, <1>2, <1>3 DEF Inv1, TypeOK, Commits, CallType, HistoryType
<1>5. \A r \in RecordIds : members[r] # Null => members'[r] # Null
  BY NoRowAssumption DEF Commits, Sees, HasDraft, Inv1, TypeOK, Written
<1>6. Placed'
  BY <1>1, <1>5 DEF Inv1, Placed, HasDraft, TypeOK
<1> QED BY <1>4, <1>6 DEF Inv1

\* A request that waits to lock a row sees one there.
LEMMA SeesLocked ==
  ASSUME Inv1, NEW q \in Requests, call[q].at = "lock"
  PROVE  call[q].record \in RecordIds /\ Sees(q)[call[q].record] \in Row
<1>1. call[q].record \in RecordIds
  BY DEF Inv1, Placed
<1>2. CASE HasDraft(q) /\ draft[q].id = call[q].record
  BY <1>1, <1>2 DEF Inv1, TypeOK, Sees, HasDraft, Written
<1>3. CASE ~(HasDraft(q) /\ draft[q].id = call[q].record)
  BY <1>1, <1>3 DEF Inv1, Placed, TypeOK, Sees
<1> QED BY <1>1, <1>2, <1>3

\* Each statement of a request keeps the types and the places.
LEMMA RunsOnInv1 ==
  ASSUME Inv1, NEW q \in Requests, RunsOn(q)
  PROVE  Inv1'
<1> USE DEF Inv1
<1>1. CASE ReadKnown(q)
  <2>1. current_member_id(q) \in RecordIds \cup {Null}
    BY CurrentOrNull
  <2>2. call[q] \in CallType /\ call \in [Requests -> CallType]
    BY DEF TypeOK, CallType
  <2> DEFINE c == [call[q] EXCEPT !.known = current_member_id(q), !.at = "own"]
  <2>3. c \in CallType /\ c.at = "own"
    BY <2>1, <2>2 DEF CallType, Places
  <2>4. call' = [call EXCEPT ![q] = c]
    BY <1>1, <2>2 DEF ReadKnown, CallType
  <2>5. ~HasDraft(q)
    BY <1>1 DEF ReadKnown, Placed, Writing
  <2> HIDE DEF c
  <2> QED BY <1>1, <2>3, <2>4, <2>5, MoveInv1
     DEF ReadKnown, kept, TypeOK, HistoryType
<1>2. CASE OwnRecord(q)
  <2>1. ~HasDraft(q)
    BY <1>2 DEF OwnRecord, Placed, Writing
  <2>2. CASE Goes(q, "gone")
    BY <1>2, <2>1, <2>2, GoesInv1 DEF OwnRecord, Places
  <2>3. CASE current_member_id(q) # Null
             /\ GoesWith(q, current_member_id(q), AfterLink(q))
    <3>1. current_member_id(q) \in RecordIds
      BY <2>3, CurrentType
    <3>2. AfterLink(q) \in {"role", "address"}
      BY DEF AfterLink
    <3> QED BY <1>2, <2>1, <2>3, <3>1, <3>2, GoesWithInv1 DEF OwnRecord
  <2> QED BY <1>2, <2>2, <2>3 DEF OwnRecord
<1>3. CASE RemovedRecord(q)
  <2>1. ~HasDraft(q)
    BY <1>3 DEF RemovedRecord, Placed, Writing
  <2>2. CASE Refuse(q, "removed")
    BY <2>2, RefuseInv1 DEF Answers
  <2>3. CASE Goes(q, "match") /\ UNCHANGED <<kept, draft>>
    BY <2>1, <2>3, GoesInv1 DEF Places
  <2> QED BY <1>3, <2>2, <2>3 DEF RemovedRecord
<1>4. CASE MatchAddress(q)
  <2>1. ~HasDraft(q)
    BY <1>4 DEF MatchAddress, Placed, Writing
  <2>2. CASE Refuse(q, "unexpected")
    BY <2>2, RefuseInv1 DEF Answers
  <2>3. CASE Goes(q, "taken") /\ UNCHANGED <<kept, draft>>
    BY <2>1, <2>3, GoesInv1 DEF Places
  <2>4. CASE \E r \in WithAddress(q) : GoesWith(q, r, "claim")
                                       /\ UNCHANGED <<kept, draft>>
    <3>1. PICK r \in WithAddress(q) : GoesWith(q, r, "claim")
                                       /\ UNCHANGED <<kept, draft>>
      BY <2>4
    <3>2. r \in RecordIds /\ members[r] # Null
      BY <2>1, SeesStored DEF WithAddress
    <3> QED BY <2>1, <3>1, <3>2, GoesWithInv1
  <2> QED BY <1>4, <2>2, <2>3, <2>4 DEF MatchAddress
<1>5. CASE TakenAddress(q)
  <2>1. ~HasDraft(q)
    BY <1>5 DEF TakenAddress, Placed, Writing
  <2>2. CASE Refuse(q, "unexpected")
    BY <2>2, RefuseInv1 DEF Answers
  <2>3. CASE Goes(q, "insert") /\ UNCHANGED <<kept, draft>>
    BY <2>1, <2>3, GoesInv1 DEF Places
  <2> QED BY <1>5, <2>2, <2>3 DEF TakenAddress
<1>6. CASE Claim(q)
  <2> DEFINE w == [id |-> call[q].record, row |-> members[call[q].record]]
  <2>1. w \in Written
    BY <1>6 DEF Claim, Placed, TypeOK, Written
  <2>2. PICK c \in CallType : call' = [call EXCEPT ![q] = c] /\ c.at = "subject"
    BY <1>6, GoesIs, NullAssumption DEF Claim, Places
  <2> HIDE DEF w
  <2> QED BY <1>6, <2>1, <2>2, WriteInv1 DEF Claim, Writing, w
<1>7. CASE Insert(q)
  <2> DEFINE fresh == {r \in RecordIds : members[r] = Null /\ LockedBy(r) = {}}
             w == [id |-> CHOOSE r \in fresh : TRUE,
                   row |-> [subject |-> Null, email |-> Null, removed |-> FALSE]]
  <2>1. (CHOOSE r \in fresh : TRUE) \in RecordIds
    BY <1>7 DEF Insert
  <2>2. [subject |-> Null, email |-> Null, removed |-> FALSE] \in Row
    BY DEF Row
  <2>3. w \in Written
    BY <2>1, <2>2 DEF Written
  <2>4. PICK c \in CallType : call' = [call EXCEPT ![q] = c] /\ c.at = "subject"
    BY <1>7, GoesIs, NullAssumption DEF Insert, Places
  <2>5. draft' = [draft EXCEPT ![q] = w] /\ UNCHANGED kept
    BY <1>7 DEF Insert
  <2> HIDE DEF w
  <2> QED BY <2>3, <2>4, <2>5, WriteInv1 DEF Writing
<1>8. CASE EnterSubject(q)
  <2> DEFINE there == IF members[draft[q].id] = Null THEN "email" ELSE AfterLink(q)
  <2>1. HasDraft(q) /\ there \in {"email", "address", "role"}
    BY <1>8 DEF EnterSubject, Placed, AfterLink
  <2>2. call[q].subject \in Subjects \cup {Null}
    BY DEF TypeOK
  <2> HIDE DEF there
  <2> QED BY <1>8, <2>1, <2>2, EnterInv1 DEF EnterSubject, there, Keys, Answers
<1>9. CASE EnterEmail(q)
  <2>1. HasDraft(q) /\ AfterLink(q) \in {"email", "address", "role"}
    BY <1>9 DEF EnterEmail, Placed, AfterLink
  <2>2. p_email(q) \in Emails \cup {Null}
    BY DEF TypeOK, p_email
  <2> QED BY <1>9, <2>1, <2>2, EnterInv1 DEF EnterEmail, Keys, Answers
<1>10. CASE SetTheAddress(q)
  <2>1. CASE Goes(q, "answer") /\ UNCHANGED <<kept, draft>>
    BY <2>1, GoesInv1 DEF Places, Writing
  <2>2. CASE /\ draft' = [draft EXCEPT ![q] = [id |-> call[q].record,
                                               row |-> Sees(q)[call[q].record]]]
             /\ Goes(q, "set") /\ UNCHANGED kept
    <3> DEFINE w == [id |-> call[q].record, row |-> Sees(q)[call[q].record]]
    <3>1. call[q].record \in RecordIds /\ Sees(q)[call[q].record] \in Row
      BY <1>10, SeesLocked DEF SetTheAddress
    <3>2. w \in Written
      BY <3>1 DEF Written
    <3>3. PICK c \in CallType : call' = [call EXCEPT ![q] = c] /\ c.at = "set"
      BY <2>2, GoesIs, NullAssumption DEF Places
    <3> HIDE DEF w
    <3> QED BY <2>2, <3>2, <3>3, WriteInv1 DEF Writing, w
  <2> QED BY <1>10, <2>1, <2>2 DEF SetTheAddress
<1>11. CASE NoAddressToSet(q)
  BY <1>11, GoesInv1 DEF NoAddressToSet, Places, Writing
<1>12. CASE EnterAddress(q)
  <2>1. HasDraft(q)
    BY <1>12 DEF EnterAddress, Placed
  <2>2. call[q].email \in Emails \cup {Null}
    BY DEF TypeOK
  <2> QED BY <1>12, <2>1, <2>2, EnterInv1 DEF EnterAddress, Keys, Answers
<1>13. CASE Answer(q)
  <2> DEFINE a == IF current_member_id(q) = Null THEN "nothing"
                  ELSE IF call[q].known = Null THEN "created" ELSE "found"
  <2>1. a \in Answers
    BY DEF Answers
  <2> HIDE DEF a
  <2> QED BY <1>13, <2>1, CommitsInv1 DEF Answer, TypeOK, a
<1>14. CASE GrantTheSeat(q)
  <2>1. call[q].record \in RecordIds
    BY <1>14 DEF GrantTheSeat, Placed
  <2> QED BY <1>14, <2>1, CommitsInv1 DEF GrantTheSeat, TypeOK, Answers
<1>15. CASE SendTheAddress(q)
  <2> DEFINE own == current_member_id(q)
  <2>1. own \in RecordIds /\ Sees(q)[own] \in Row
    BY <1>15, CurrentType DEF SendTheAddress, HasAddressToSet
  <2>2. members[own] # Null \/ (HasDraft(q) /\ draft[q].id = own)
    BY <2>1, NoRowAssumption DEF Sees
  <2>3. PICK c \in CallType : /\ call' = [call EXCEPT ![q] = c]
                              /\ c.at = "lock" /\ c.record = own
    BY <1>15, <2>1, GoesIs DEF SendTheAddress, Places
  <2>4. UNCHANGED <<members, roled, draft, hands>> /\ HistoryType'
    BY <1>15 DEF SendTheAddress, kept, TypeOK, HistoryType
  <2> HIDE DEF own
  <2> QED BY <2>1, <2>2, <2>3, <2>4, MoveInv1 DEF Writing
<1> QED BY <1>1, <1>2, <1>3, <1>4, <1>5, <1>6, <1>7, <1>8, <1>9, <1>10,
           <1>11, <1>12, <1>13, <1>14, <1>15 DEF RunsOn

\* A request that begins keeps the types and the places.
LEMMA BeginInv1 ==
  ASSUME Inv1, NEW q \in Requests, call[q].at = "new", Watch,
         NEW kind \in {"api", "seat"}, NEW s \in Subjects,
         NEW e \in Emails \cup {Null}, NEW there \in {"known", "own"},
         call' = [call EXCEPT ![q] = Called(kind, s, e, there, Null)],
         UNCHANGED <<members, roled, draft, hands>>
  PROVE  Inv1'
<1> DEFINE c == Called(kind, s, e, there, Null)
<1>1. c \in CallType /\ c.at = there
  BY DEF Called, CallType, Places
<1>2. ~HasDraft(q)
  BY DEF Inv1, Placed, Writing
<1>3. HistoryType'
  BY WatchType DEF Inv1
<1> HIDE DEF c
<1> QED BY <1>1, <1>2, <1>3, MoveInv1 DEF c

\* Each statement beside the requests keeps the types and the places.
LEMMA WritesInv1 ==
  ASSUME Inv1, NEW r \in RecordIds, NEW row \in Row, Writes(r, row)
  PROVE  Inv1'
<1>1. HistoryType'
  BY WatchType DEF Inv1, Writes
<1>2. members' \in [RecordIds -> Row \cup {Null}] /\ hands' \in 0..MaxHands
  BY BoundAssumption DEF Inv1, TypeOK, Writes
<1>3. TypeOK'
  BY <1>1, <1>2 DEF Inv1, TypeOK, Writes, HistoryType
<1>4. \A o \in RecordIds : members[o] # Null => members'[o] # Null
  BY NoRowAssumption DEF Inv1, TypeOK, Writes
<1>5. Placed'
  BY <1>4 DEF Inv1, Placed, Writes, HasDraft
<1> QED BY <1>3, <1>5 DEF Inv1

\* The row each of these statements leaves is a row.
LEMMA MeanwhileIs ==
  ASSUME TypeOK, Meanwhile
  PROVE  \E r \in RecordIds, row \in Row : members[r] # Null /\ Writes(r, row)
<1>1. PICK r \in RecordIds :
        \/ \E gone \in BOOLEAN : SetRemoved(r, gone)
        \/ \E s \in Subjects : LinkByHand(r, s)
        \/ \E e \in Emails \cup {Null} : ChangeAddress(r, e)
  BY DEF Meanwhile
<1>2. members[r] # Null => members[r] \in Row
  BY DEF TypeOK
<1>3. CASE \E gone \in BOOLEAN : SetRemoved(r, gone)
  BY <1>2, <1>3 DEF SetRemoved, Row
<1>4. CASE \E s \in Subjects : LinkByHand(r, s)
  BY <1>2, <1>4 DEF LinkByHand, Row
<1>5. CASE \E e \in Emails \cup {Null} : ChangeAddress(r, e)
  BY <1>2, <1>5 DEF ChangeAddress, Row
<1> QED BY <1>1, <1>3, <1>4, <1>5

\* Every step keeps the types and the places.
LEMMA NextInv1 ==
  ASSUME Inv1, [Next]_vars
  PROVE  Inv1'
<1>1. CASE UNCHANGED vars
  BY <1>1 DEF Inv1, TypeOK, Placed, vars, kept, HasDraft
<1>2. CASE Meanwhile
  BY <1>2, MeanwhileIs, WritesInv1 DEF Inv1
<1>3. ASSUME NEW q \in Requests, Step(q) PROVE Inv1'
  <2>1. CASE \E s \in Subjects, e \in Emails \cup {Null} : Arrive(q, s, e)
    BY <2>1, BeginInv1 DEF Arrive
  <2>2. ASSUME NEW s \in Subjects, Seat(q, s) PROVE Inv1'
    <3>1. AddressOf[s] \in Emails \cup {Null}
      BY AddressAssumption
    <3> QED BY <2>2, <3>1, BeginInv1 DEF Seat, kept
  <2>3. CASE SeatRefused(q) \/ TimesOut(q) \/ DeadlockVictim(q)
    BY <2>3, RefuseInv1 DEF SeatRefused, TimesOut, DeadlockVictim, Answers
  <2> QED BY <1>3, <2>1, <2>2, <2>3, RunsOnInv1 DEF Step
<1> QED BY <1>1, <1>2, <1>3 DEF Next

\* The system starts with the types and the places.
LEMMA InitInv1 == Init => Inv1
<1> SUFFICES ASSUME Init PROVE Inv1
  OBVIOUS
<1>1. members \in [RecordIds -> Row \cup {Null}]
  BY LegacyAssumption DEF Init, Row
<1>2. Called(Null, Null, Null, "new", Null) \in CallType
  BY DEF Called, CallType, Places
<1>3. call \in [Requests -> CallType]
  BY <1>2 DEF Init
<1>4. roled \subseteq RecordIds
  BY LegacyAssumption DEF Init
<1>5. hands \in 0..MaxHands
  BY BoundAssumption DEF Init
<1>6. TypeOK
  BY <1>1, <1>3, <1>4, <1>5 DEF Init, TypeOK, CallType
<1>7. Placed
  BY DEF Init, Placed, HasDraft, Called
<1> QED BY <1>6, <1>7 DEF Inv1

\* The type invariant of FirstSignIn holds of every reachable state.
THEOREM TypeCorrect == Spec => []TypeOK
<1>1. Inv1 /\ [Next]_vars => Inv1'
  BY NextInv1
<1>2. Inv1 => TypeOK
  BY DEF Inv1
<1> QED BY InitInv1, <1>1, <1>2, PTL DEF Spec

-----------------------------------------------------------------------------
(* No two records alike.  RecordsAreDistinct speaks of finished rows, which *)
(* a commit replaces by what its request has written: it is inductive only  *)
(* with the same said of unfinished rows, against each other and against    *)
(* the finished rows of other records.                                      *)

Apart(a, b) == \A key \in Keys : Of(a, key) = Null \/ Of(a, key) # Of(b, key)

Clear(q, w) ==
  /\ \A p \in Requests \ {q} :
       HasDraft(p) => draft[p].id # w.id /\ Apart(w.row, draft[p].row)
  /\ \A o \in RecordIds \ {w.id} :
       members[o] # Null => Apart(w.row, members[o])

DraftsApart == \A q \in Requests : HasDraft(q) => Clear(q, draft[q])

MembersApart ==
  \A r, o \in RecordIds :
    r # o /\ members[r] # Null /\ members[o] # Null
      => Apart(members[r], members[o])

Inv2 == Inv1 /\ DraftsApart /\ MembersApart

\* Which of two rows is named first does not matter.
LEMMA ApartSymmetric ==
  ASSUME NEW a, NEW b, Apart(a, b)
  PROVE  Apart(b, a)
BY DEF Apart

\* A column that is not written stays, and the one that is holds the value.
LEMMA WithOf ==
  ASSUME NEW row, NEW key \in Keys, NEW v, NEW other \in Keys
  PROVE  Of(With(row, key, v), other) = IF other = key THEN v ELSE Of(row, other)
BY DEF Of, With, Keys

\* A row clear of all others may be written.
LEMMA WriteApart ==
  ASSUME TypeOK, DraftsApart, NEW q \in Requests, NEW w \in Written, Clear(q, w),
         draft' = [draft EXCEPT ![q] = w], members' = members
  PROVE  DraftsApart'
<1>1. draft'[q] = w /\ \A p \in Requests \ {q} : draft'[p] = draft[p]
  BY DEF TypeOK
<1>2. ASSUME NEW p \in Requests, HasDraft(p)' PROVE Clear(p, draft[p])'
  <2>1. CASE p = q
    BY <1>1, <2>1 DEF Clear, HasDraft
  <2>2. CASE p # q
    <3>1. HasDraft(p) /\ draft'[p] = draft[p] /\ Clear(p, draft[p])
      BY <1>1, <1>2, <2>2 DEF HasDraft, DraftsApart
    <3>2. w.id # draft[p].id /\ Apart(draft[p].row, w.row)
      BY <2>2, <3>1, ApartSymmetric DEF Clear
    <3> QED BY <1>1, <3>1, <3>2 DEF Clear, HasDraft
  <2> QED BY <2>1, <2>2
<1> QED BY <1>2 DEF DraftsApart

\* So may the row of a record nobody has locked, as it is.
LEMMA StoredIsClear ==
  ASSUME DraftsApart, MembersApart, NEW q \in Requests, NEW r \in RecordIds,
         members[r] # Null, LockedBy(r) \subseteq {q}
  PROVE  Clear(q, [id |-> r, row |-> members[r]])
<1>1. ASSUME NEW p \in Requests \ {q}, HasDraft(p)
      PROVE  draft[p].id # r /\ Apart(members[r], draft[p].row)
  <2>1. draft[p].id # r
    BY <1>1 DEF LockedBy
  <2> QED BY <1>1, <2>1, ApartSymmetric DEF DraftsApart, Clear
<1> QED BY <1>1 DEF MembersApart, Clear

\* A request that lets go of its row leaves the others as they were.
LEMMA LetGoApart ==
  ASSUME TypeOK, DraftsApart, NEW q \in Requests,
         draft' = [draft EXCEPT ![q] = Null], members' = members
  PROVE  DraftsApart'
BY DEF TypeOK, DraftsApart, Clear, HasDraft

\* What an index lets in is clear of all others.
LEMMA EnterApart ==
  ASSUME Inv2, NEW q \in Requests, NEW key \in Keys, NEW v, HasDraft(q),
         Unfinished(q, key, v) = {}, ~Duplicate(draft[q].id, key, v)
  PROVE  Clear(q, [id |-> draft[q].id, row |-> With(draft[q].row, key, v)])
<1> DEFINE new == With(draft[q].row, key, v)
<1>1. Clear(q, draft[q])
  BY DEF Inv2, DraftsApart
<1>2. ASSUME NEW p \in Requests \ {q}, HasDraft(p) PROVE Apart(new, draft[p].row)
  <2>1. v = Null \/ Of(draft[p].row, key) # v
    BY <1>2 DEF Unfinished
  <2> QED BY <1>1, <1>2, <2>1, WithOf DEF Clear, Apart
<1>3. ASSUME NEW o \in RecordIds \ {draft[q].id}, members[o] # Null
      PROVE  Apart(new, members[o])
  <2>1. CASE LockedBy(o) = {}
    <3>1. v = Null \/ Of(members[o], key) # v
      BY <1>3, <2>1 DEF Duplicate
    <3> QED BY <1>1, <1>3, <3>1, WithOf DEF Clear, Apart
  <2>2. CASE LockedBy(o) # {}
    <3>1. PICK p \in Requests \ {q} : HasDraft(p) /\ draft[p].id = o
      BY <1>3, <2>2 DEF LockedBy
    <3>2. v = Null \/ Of(members[o], key) # v
      BY <1>3, <3>1 DEF Unfinished
    <3> QED BY <1>1, <1>3, <3>2, WithOf DEF Clear, Apart
  <2> QED BY <2>1, <2>2
<1> HIDE DEF new
<1>4. \A p \in Requests \ {q} : HasDraft(p) => draft[p].id # draft[q].id
  BY <1>1 DEF Clear
<1> QED BY <1>2, <1>3, <1>4 DEF Clear, new

\* What an index says keeps the rows apart.
LEMMA EnterKeepsApart ==
  ASSUME Inv2, NEW q \in Requests, NEW key \in Keys, NEW v, HasDraft(q),
         key = "subject" => v \in Subjects \cup {Null},
         key = "email" => v \in Emails \cup {Null},
         NEW refusal, NEW there, Enter(q, key, v, refusal, there)
  PROVE  DraftsApart' /\ MembersApart'
<1>1. members' = members
  BY DEF Enter, Refuse, kept
<1>2. CASE Refuse(q, refusal)
  BY <1>1, <1>2, LetGoApart DEF Inv2, Inv1, MembersApart, Refuse, Ends
<1>3. CASE /\ ~Duplicate(draft[q].id, key, v)
           /\ draft' = [draft EXCEPT ![q] = [id |-> draft[q].id,
                                             row |-> With(draft[q].row, key, v)]]
  <2> DEFINE w == [id |-> draft[q].id, row |-> With(draft[q].row, key, v)]
  <2>1. draft[q].id \in RecordIds /\ draft[q].row \in Row
    BY DEF Inv2, Inv1, TypeOK, HasDraft, Written
  <2>2. With(draft[q].row, key, v) \in Row
    BY <2>1, WithType
  <2>3. w \in Written
    BY <2>1, <2>2 DEF Written
  <2>4. Clear(q, w)
    BY <1>3, EnterApart DEF Enter
  <2>5. draft' = [draft EXCEPT ![q] = w]
    BY <1>3
  <2> HIDE DEF w
  <2>6. DraftsApart'
    BY <1>1, <2>3, <2>4, <2>5, WriteApart DEF Inv2, Inv1
  <2> QED BY <1>1, <2>6 DEF MembersApart, Inv2
<1> QED BY <1>2, <1>3 DEF Enter

\* A commit keeps the rows apart.
LEMMA CommitsKeepApart ==
  ASSUME Inv2, NEW q \in Requests, NEW a, Commits(q, a)
  PROVE  DraftsApart' /\ MembersApart'
<1>1. draft' = [draft EXCEPT ![q] = Null] /\ members' = Sees(q) /\ TypeOK
  BY DEF Commits, Ends, Inv2, Inv1
<1>2. CASE ~HasDraft(q)
  <2>1. members' = members
    BY <1>1, <1>2, SeesStored, SeesType DEF TypeOK
  <2> QED BY <1>1, <2>1, LetGoApart DEF Inv2, MembersApart
<1>3. CASE HasDraft(q)
  <2> DEFINE d == draft[q]
  <2>1. Clear(q, d) /\ d.id \in RecordIds
    BY <1>1, <1>3 DEF Inv2, DraftsApart, TypeOK, HasDraft, Written
  <2>2. \A r \in RecordIds :
          members'[r] = IF r = d.id THEN d.row ELSE members[r]
    BY <1>1, <1>3 DEF Sees
  <2> HIDE DEF d
  <2>3. MembersApart'
    <3>1. SUFFICES ASSUME NEW r \in RecordIds, NEW o \in RecordIds, r # o,
                          members'[r] # Null, members'[o] # Null
                   PROVE  Apart(members'[r], members'[o])
      BY DEF MembersApart, Apart, Of
    <3>2. CASE r = d.id
      BY <2>1, <2>2, <3>1, <3>2 DEF Clear
    <3>3. CASE o = d.id
      BY <2>1, <2>2, <3>1, <3>3, ApartSymmetric DEF Clear
    <3>4. CASE r # d.id /\ o # d.id
      BY <2>2, <3>1, <3>4 DEF Inv2, MembersApart
    <3> QED BY <3>2, <3>3, <3>4
  <2>4. ASSUME NEW p \in Requests, HasDraft(p)' PROVE Clear(p, draft[p])'
    <3>1. p # q /\ draft'[p] = draft[p] /\ HasDraft(p)
      BY <1>1, <2>4 DEF HasDraft, TypeOK
    <3>2. Clear(p, draft[p]) /\ Apart(draft[p].row, d.row)
      BY <2>1, <3>1, ApartSymmetric DEF Inv2, DraftsApart, Clear
    <3>3. \A o \in RecordIds \ {draft[p].id} :
            members'[o] # Null => Apart(draft[p].row, members'[o])
      BY <2>2, <3>2 DEF Clear
    <3>4. \A r \in Requests : HasDraft(r)' => HasDraft(r) /\ draft'[r] = draft[r]
      BY <1>1 DEF HasDraft, TypeOK
    <3> QED BY <3>1, <3>2, <3>3, <3>4 DEF Clear
  <2> QED BY <2>3, <2>4 DEF DraftsApart
<1> QED BY <1>2, <1>3

\* A statement beside the requests keeps the rows apart.
LEMMA WritesKeepApart ==
  ASSUME Inv2, NEW r \in RecordIds, NEW row \in Row, members[r] # Null,
         Writes(r, row)
  PROVE  DraftsApart' /\ MembersApart'
<1>1. draft' = draft /\ LockedBy(r) = {}
      /\ \A o \in RecordIds : members'[o] = IF o = r THEN row ELSE members[o]
  BY DEF Writes, Inv2, Inv1, TypeOK
<1>2. ASSUME NEW q \in Requests, HasDraft(q)
      PROVE  draft[q].id # r /\ Apart(row, draft[q].row)
  <2>1. draft[q].id # r
    BY <1>1, <1>2 DEF LockedBy
  <2>2. Apart(members[r], draft[q].row)
    BY <1>2, <2>1, ApartSymmetric DEF Inv2, DraftsApart, Clear
  <2>3. \A key \in Keys : \/ Of(row, key) = Of(members[r], key)
                          \/ Unfinished(Null, key, Of(row, key)) = {}
    BY DEF Writes
  <2>4. \A key \in Keys : Unfinished(Null, key, Of(row, key)) = {}
          => Of(row, key) = Null \/ Of(draft[q].row, key) # Of(row, key)
    BY <1>2, NullAssumption DEF Unfinished
  <2> QED BY <2>1, <2>2, <2>3, <2>4 DEF Apart
<1>3. ASSUME NEW o \in RecordIds \ {r}, members[o] # Null
      PROVE  Apart(row, members[o])
  <2>1. Apart(members[r], members[o])
    BY <1>3 DEF Inv2, MembersApart
  <2>2. ASSUME NEW key \in Keys, Of(row, key) # Of(members[r], key)
        PROVE  Of(row, key) = Null \/ Of(row, key) # Of(members[o], key)
    <3>1. /\ ~Duplicate(r, key, Of(row, key))
          /\ Unfinished(Null, key, Of(row, key)) = {}
      BY <2>2 DEF Writes
    <3>2. CASE LockedBy(o) = {}
      BY <1>3, <3>1, <3>2 DEF Duplicate
    <3>3. CASE LockedBy(o) # {}
      <4>1. PICK p \in Requests : HasDraft(p) /\ draft[p].id = o
        BY <3>3 DEF LockedBy
      <4> QED BY <1>3, <3>1, <4>1, NullAssumption DEF Unfinished
    <3> QED BY <3>2, <3>3
  <2> QED BY <2>1, <2>2 DEF Apart
<1>4. MembersApart'
  <2>1. SUFFICES ASSUME NEW a \in RecordIds, NEW b \in RecordIds, a # b,
                        members'[a] # Null, members'[b] # Null
                 PROVE  Apart(members'[a], members'[b])
    BY DEF MembersApart, Apart, Of
  <2> QED BY <1>1, <1>3, <2>1, ApartSymmetric DEF Inv2, MembersApart
<1>5. DraftsApart'
  BY <1>1, <1>2, ApartSymmetric DEF Inv2, DraftsApart, Clear, HasDraft
<1> QED BY <1>4, <1>5

\* Each statement of a request keeps the rows apart.
LEMMA RunsOnKeepsApart ==
  ASSUME Inv2, NEW q \in Requests, RunsOn(q)
  PROVE  DraftsApart' /\ MembersApart'
<1> USE DEF Inv2, Inv1
<1>1. ASSUME UNCHANGED <<kept, draft>> PROVE DraftsApart' /\ MembersApart'
  BY <1>1 DEF kept, DraftsApart, MembersApart, Clear, HasDraft
<1>2. ASSUME NEW why, Refuse(q, why) PROVE DraftsApart' /\ MembersApart'
  BY <1>2, LetGoApart DEF Refuse, Ends, kept, MembersApart
<1>3. ASSUME NEW w \in Written, Clear(q, w), UNCHANGED kept,
             draft' = [draft EXCEPT ![q] = w]
      PROVE  DraftsApart' /\ MembersApart'
  BY <1>3, WriteApart DEF kept, MembersApart
<1>4. CASE ReadKnown(q) \/ OwnRecord(q)
             \/ NoAddressToSet(q) \/ SendTheAddress(q)
  BY <1>1, <1>4 DEF ReadKnown, OwnRecord, NoAddressToSet, SendTheAddress
<1>5. CASE RemovedRecord(q) \/ MatchAddress(q) \/ TakenAddress(q)
  BY <1>1, <1>2, <1>5 DEF RemovedRecord, MatchAddress, TakenAddress
<1>6. CASE Claim(q)
  <2> DEFINE w == [id |-> call[q].record, row |-> members[call[q].record]]
  <2>1. call[q].record \in RecordIds /\ members[call[q].record] # Null
    BY <1>6 DEF Claim, Placed
  <2>2. w \in Written
    BY <2>1 DEF TypeOK, Written
  <2>3. Clear(q, w)
    BY <1>6, <2>1, StoredIsClear DEF Claim
  <2> HIDE DEF w
  <2> QED BY <1>3, <1>6, <2>2, <2>3 DEF Claim, w
<1>7. CASE Insert(q)
  <2> DEFINE fresh == {r \in RecordIds : members[r] = Null /\ LockedBy(r) = {}}
             new == [subject |-> Null, email |-> Null, removed |-> FALSE]
             w == [id |-> CHOOSE r \in fresh : TRUE, row |-> new]
  <2>1. w.id \in fresh
    BY <1>7 DEF Insert
  <2>2. new \in Row
    BY DEF Row
  <2>3. w \in Written
    BY <2>1, <2>2 DEF Written
  <2>4. \A b : Apart(w.row, b)
    BY DEF Apart, Of
  <2>5. draft' = [draft EXCEPT ![q] = w] /\ UNCHANGED kept
    BY <1>7 DEF Insert
  <2>6. \A p \in Requests : HasDraft(p) => draft[p].id # w.id
    BY <2>1 DEF LockedBy
  <2> HIDE DEF w
  <2>7. Clear(q, w)
    BY <2>4, <2>6 DEF Clear
  <2> QED BY <1>3, <2>3, <2>5, <2>7
<1>8. CASE EnterSubject(q)
  <2>1. HasDraft(q) /\ call[q].subject \in Subjects \cup {Null}
    BY <1>8 DEF EnterSubject, Placed, TypeOK
  <2> QED BY <1>8, <2>1, EnterKeepsApart DEF EnterSubject, Keys
<1>9. CASE EnterEmail(q)
  <2>1. HasDraft(q) /\ p_email(q) \in Emails \cup {Null}
    BY <1>9 DEF EnterEmail, Placed, TypeOK, p_email
  <2> QED BY <1>9, <2>1, EnterKeepsApart DEF EnterEmail, Keys
<1>10. CASE SetTheAddress(q)
  <2> DEFINE r == call[q].record
             w == [id |-> r, row |-> Sees(q)[r]]
  <2>1. r \in RecordIds /\ Sees(q)[r] \in Row
    BY <1>10, SeesLocked DEF SetTheAddress
  <2>2. w \in Written
    BY <2>1 DEF Written
  <2>3. Clear(q, w)
    <3>1. CASE HasDraft(q) /\ draft[q].id = r
      <4>1. w.id = draft[q].id /\ w.row = draft[q].row
        BY <2>1, <3>1 DEF Sees
      <4>2. Clear(q, draft[q])
        BY <3>1 DEF DraftsApart
      <4> HIDE DEF w
      <4> QED BY <4>1, <4>2 DEF Clear
    <3>2. CASE ~(HasDraft(q) /\ draft[q].id = r)
      <4>1. Sees(q)[r] = members[r] /\ members[r] # Null
        BY <2>1, <3>2, NoRowAssumption DEF Sees
      <4>2. LockedBy(r) \subseteq {q}
        BY <1>10 DEF SetTheAddress
      <4> QED BY <2>1, <4>1, <4>2, StoredIsClear
    <3> QED BY <3>1, <3>2
  <2>4. \/ UNCHANGED <<kept, draft>>
        \/ draft' = [draft EXCEPT ![q] = w] /\ UNCHANGED kept
    BY <1>10 DEF SetTheAddress
  <2> HIDE DEF w
  <2> QED BY <1>1, <1>3, <2>2, <2>3, <2>4
<1>11. CASE EnterAddress(q)
  <2>1. HasDraft(q) /\ call[q].email \in Emails \cup {Null}
    BY <1>11 DEF EnterAddress, Placed, TypeOK
  <2> QED BY <1>11, <2>1, EnterKeepsApart DEF EnterAddress, Keys
<1>12. CASE Answer(q) \/ GrantTheSeat(q)
  BY <1>12, CommitsKeepApart DEF Answer, GrantTheSeat
<1> QED BY <1>4, <1>5, <1>6, <1>7, <1>8, <1>9, <1>10, <1>11, <1>12 DEF RunsOn

\* Every step keeps the rows apart.
LEMMA NextInv2 ==
  ASSUME Inv2, [Next]_vars
  PROVE  Inv2'
<1>1. Inv1'
  BY NextInv1 DEF Inv2
<1>2. ASSUME draft' = draft, members' = members
      PROVE  DraftsApart' /\ MembersApart'
  BY <1>2 DEF Inv2, DraftsApart, MembersApart, Clear, HasDraft
<1>3. CASE UNCHANGED vars
  BY <1>1, <1>2, <1>3 DEF vars, kept, Inv2
<1>4. CASE Meanwhile
  BY <1>1, <1>4, MeanwhileIs, WritesKeepApart DEF Inv2, Inv1
<1>5. ASSUME NEW q \in Requests, Step(q) PROVE Inv2'
  <2>1. CASE \/ \E s \in Subjects, e \in Emails \cup {Null} : Arrive(q, s, e)
             \/ \E s \in Subjects : Seat(q, s)
    BY <1>1, <1>2, <2>1 DEF Arrive, Seat, Inv2
  <2>2. ASSUME NEW why, Refuse(q, why) PROVE Inv2'
    BY <1>1, <2>2, LetGoApart DEF Refuse, Ends, kept, Inv2, Inv1, MembersApart
  <2>3. CASE SeatRefused(q) \/ TimesOut(q) \/ DeadlockVictim(q)
    BY <2>2, <2>3 DEF SeatRefused, TimesOut, DeadlockVictim
  <2>4. CASE RunsOn(q)
    BY <1>1, <2>4, RunsOnKeepsApart DEF Inv2
  <2> QED BY <1>5, <2>1, <2>3, <2>4 DEF Step
<1> QED BY <1>3, <1>4, <1>5 DEF Next

\* No two records commit with one sign in or one address, however many
\* requests, people and admins write at once (001:90-91).
THEOREM NoTwoAlike == Spec => []RecordsAreDistinct
<1>1. Init => Inv2
  <2>1. ASSUME Init PROVE Inv2
    <3>1. Inv1
      BY <2>1, InitInv1
    <3>2. DraftsApart /\ MembersApart
      BY <2>1 DEF Init, DraftsApart, MembersApart, HasDraft
    <3> QED BY <3>1, <3>2 DEF Inv2
  <2> QED BY <2>1
<1>2. Inv2 /\ [Next]_vars => Inv2'
  BY NextInv2
<1>3. Inv2 => RecordsAreDistinct
  BY DEF Inv2, MembersApart, RecordsAreDistinct, Apart
<1> QED BY <1>1, <1>2, <1>3, PTL DEF Spec

-----------------------------------------------------------------------------
(* What POST /me may change.  The invariant says of a request's unfinished  *)
(* row what the property says of its commit; it rests on DraftsApart, since *)
(* the row a request has locked is nobody else's to change.                 *)

FillsIn(q) ==
  LET stored == members[draft[q].id]
  IN  /\ call[q].at \in {"set", "answer"}
      /\ draft[q].id \in owned[q]
      /\ stored.email = Null
      /\ call[q].at = "set" => draft[q].row = stored
      /\ call[q].at = "answer" =>
           draft[q].row = With(stored, "email", call[q].email)

Adds(q) ==
  call[q].kind = "api" =>
    /\ call[q].at # "claim"
    /\ HasDraft(q) /\ members[draft[q].id] # Null => FillsIn(q)
    /\ call[q].at = "lock" =>
         \/ call[q].record \in owned[q]
         \/ /\ HasDraft(q) /\ draft[q].id = call[q].record
            /\ members[call[q].record] = Null

\* Whatever is the caller's own has been so at some time.
OwnIsOwned ==
  \A q \in Requests :
    call[q].at \notin {"new", "done"} =>
      Live(members, call[q].subject) \subseteq owned[q]

Inv3 == Inv2 /\ OwnIsOwned /\ \A q \in Requests : Adds(q)

\* A request that goes somewhere stays the request it is.
LEMMA GoesKeeps ==
  ASSUME TypeOK, NEW q \in Requests, NEW r, NEW there,
         Goes(q, there) \/ GoesWith(q, r, there)
  PROVE  /\ call'[q].kind = call[q].kind
         /\ call'[q].subject = call[q].subject
         /\ call'[q].email = call[q].email
         /\ call'[q].at = there
BY DEF TypeOK, Goes, GoesWith

\* A step of one request leaves the others where they are.
LEMMA OthersStay ==
  ASSUME TypeOK, NEW q \in Requests, Step(q), NEW p \in Requests \ {q}
  PROVE  call'[p] = call[p] /\ draft'[p] = draft[p]
<1> USE DEF TypeOK
<1>1. CASE \/ \E s \in Subjects, e \in Emails \cup {Null} : Arrive(q, s, e)
           \/ \E s \in Subjects : Seat(q, s)
  BY <1>1 DEF Arrive, Seat
<1>2. ASSUME NEW why, Refuse(q, why)
      PROVE  call'[p] = call[p] /\ draft'[p] = draft[p]
  BY <1>2 DEF Refuse, Ends
<1>3. CASE SeatRefused(q) \/ TimesOut(q) \/ DeadlockVictim(q)
  BY <1>2, <1>3 DEF SeatRefused, TimesOut, DeadlockVictim
<1>4. CASE ReadKnown(q) \/ OwnRecord(q)
             \/ NoAddressToSet(q) \/ SendTheAddress(q)
  BY <1>4
     DEF ReadKnown, OwnRecord, NoAddressToSet, SendTheAddress, Goes, GoesWith
<1>5. CASE RemovedRecord(q) \/ MatchAddress(q) \/ TakenAddress(q)
  BY <1>2, <1>5 DEF RemovedRecord, MatchAddress, TakenAddress, Goes, GoesWith
<1>6. CASE Claim(q) \/ Insert(q) \/ SetTheAddress(q)
  BY <1>6 DEF Claim, Insert, SetTheAddress, Goes
<1>7. CASE EnterSubject(q) \/ EnterEmail(q) \/ EnterAddress(q)
  BY <1>2, <1>7 DEF EnterSubject, EnterEmail, EnterAddress, Enter, GoesWith
<1>8. CASE Answer(q) \/ GrantTheSeat(q)
  BY <1>8 DEF Answer, GrantTheSeat, Commits, Ends
<1> QED BY <1>1, <1>3, <1>4, <1>5, <1>6, <1>7, <1>8 DEF Step, RunsOn

\* Only a commit writes the table.
LEMMA OnlyCommitsWrite ==
  ASSUME NEW q \in Requests, Step(q)
  PROVE  members' = members \/ Answer(q) \/ GrantTheSeat(q)
<1>1. ASSUME NEW why, Refuse(q, why) PROVE members' = members
  BY <1>1 DEF Refuse, kept
<1>2. CASE \/ \E s \in Subjects, e \in Emails \cup {Null} : Arrive(q, s, e)
           \/ \E s \in Subjects : Seat(q, s)
  BY <1>2 DEF Arrive, Seat
<1>3. CASE SeatRefused(q) \/ TimesOut(q) \/ DeadlockVictim(q)
  BY <1>1, <1>3 DEF SeatRefused, TimesOut, DeadlockVictim
<1>4. CASE RunsOn(q)
  BY <1>1, <1>4
     DEF RunsOn, ReadKnown, OwnRecord, NoAddressToSet, SendTheAddress,
         RemovedRecord, MatchAddress, TakenAddress, Claim, Insert, SetTheAddress,
         EnterSubject, EnterEmail, EnterAddress, Enter, kept
<1> QED BY <1>2, <1>3, <1>4 DEF Step

\* A step of one request writes no row another has locked.
LEMMA LockedStays ==
  ASSUME Inv2, NEW q \in Requests, Step(q), NEW p \in Requests \ {q}, HasDraft(p)
  PROVE  members'[draft[p].id] = members[draft[p].id]
<1>1. draft[p].id \in RecordIds
  BY DEF Inv2, Inv1, TypeOK, HasDraft, Written
<1>2. HasDraft(q) => draft[q].id # draft[p].id
  BY DEF Inv2, DraftsApart, Clear
<1>3. CASE Answer(q) \/ GrantTheSeat(q)
  BY <1>1, <1>2, <1>3 DEF Answer, GrantTheSeat, Commits, Sees
<1> QED BY <1>3, OnlyCommitsWrite

\* A request that has let go of its row, and is over or has not begun to
\* write, adds only what it may.
LEMMA NoDraftAdds ==
  ASSUME NEW q \in Requests, ~HasDraft(q)', call'[q].at \notin {"claim", "lock"}
  PROVE  Adds(q)'
BY DEF Adds, HasDraft

\* A refused request adds nothing.
LEMMA RefuseAdds ==
  ASSUME Inv1, NEW q \in Requests, NEW why, Refuse(q, why)
  PROVE  Adds(q)'
<1>1. draft'[q] = Null /\ call'[q].at = "done"
  BY DEF Refuse, Ends, Inv1, TypeOK, Called
<1> QED BY <1>1, NoDraftAdds DEF HasDraft

\* What an index lets into the row of a new record is part of a new record.
LEMMA EnterAdds ==
  ASSUME Inv2, NEW q \in Requests, NEW key, NEW v, NEW refusal,
         NEW there \in {"email", "address", "role"}, HasDraft(q),
         Adds(q), call[q].at \in {"subject", "email"},
         Enter(q, key, v, refusal, there)
  PROVE  Adds(q)'
<1>1. CASE Refuse(q, refusal)
  BY <1>1, RefuseAdds DEF Inv2
<1>2. CASE /\ draft' = [draft EXCEPT ![q] = [id |-> draft[q].id,
                                             row |-> With(draft[q].row, key, v)]]
           /\ GoesWith(q, draft[q].id, there)
           /\ UNCHANGED kept
  <2>1. call'[q].kind = call[q].kind /\ call'[q].at = there
    BY <1>2, GoesKeeps DEF Inv2, Inv1
  <2>2. draft'[q].id = draft[q].id /\ members' = members
    BY <1>2 DEF Inv2, Inv1, TypeOK, kept
  <2>3. call[q].kind = "api" => members[draft[q].id] = Null
    BY DEF Adds, FillsIn
  <2> QED BY <2>1, <2>2, <2>3 DEF Adds
<1> QED BY <1>1, <1>2 DEF Enter

\* Each statement of a request keeps what it may add.
LEMMA RunsOnAdds ==
  ASSUME Inv2, OwnIsOwned, NEW q \in Requests, Adds(q), RunsOn(q)
  PROVE  Adds(q)'
<1> USE DEF Inv2, Inv1
<1>1. CASE ReadKnown(q)
  <2>1. ~HasDraft(q)
    BY <1>1 DEF ReadKnown, Placed, Writing
  <2>2. call'[q].at = "own"
    BY <1>1 DEF ReadKnown, TypeOK
  <2> QED BY <1>1, <2>1, <2>2, NoDraftAdds DEF ReadKnown, HasDraft
<1>2. CASE OwnRecord(q)
  <2>1. ~HasDraft(q)
    BY <1>2 DEF OwnRecord, Placed, Writing
  <2>2. call'[q].at \in {"gone", "role", "address"}
    BY <1>2, GoesKeeps DEF OwnRecord, AfterLink
  <2> QED BY <1>2, <2>1, <2>2, NoDraftAdds DEF OwnRecord, HasDraft
<1>3. CASE RemovedRecord(q) \/ MatchAddress(q) \/ TakenAddress(q)
  <2>1. ~HasDraft(q)
    BY <1>3 DEF RemovedRecord, MatchAddress, TakenAddress, Placed, Writing
  <2>2. CASE \E why : Refuse(q, why)
    BY <2>2, RefuseAdds
  <2>3. CASE /\ Goes(q, "match") \/ Goes(q, "taken") \/ Goes(q, "insert")
             /\ UNCHANGED <<kept, draft>>
    <3>1. call'[q].at \in {"match", "taken", "insert"}
      BY <2>3, GoesKeeps
    <3> QED BY <2>1, <2>3, <3>1, NoDraftAdds DEF HasDraft
  <2>4. CASE \E r \in WithAddress(q) : GoesWith(q, r, "claim")
    <3>1. call[q].kind # "api"
      BY <2>4 DEF WithAddress, p_email
    <3> QED BY <2>4, <3>1, GoesKeeps DEF Adds
  <2> QED BY <1>3, <2>2, <2>3, <2>4 DEF RemovedRecord, MatchAddress, TakenAddress
<1>4. CASE Claim(q)
  <2>1. call[q].kind # "api"
    BY <1>4 DEF Claim, Adds
  <2> QED BY <1>4, <2>1, GoesKeeps DEF Claim, Adds
<1>5. CASE Insert(q)
  <2> DEFINE fresh == {r \in RecordIds : members[r] = Null /\ LockedBy(r) = {}}
  <2>1. (CHOOSE r \in fresh : TRUE) \in fresh
    BY <1>5 DEF Insert
  <2>2. members' = members /\ draft'[q].id = (CHOOSE r \in fresh : TRUE)
    BY <1>5 DEF Insert, TypeOK, kept
  <2>3. call'[q].at = "subject"
    BY <1>5, GoesKeeps DEF Insert
  <2> QED BY <2>1, <2>2, <2>3 DEF Adds
<1>6. CASE EnterSubject(q)
  <2> DEFINE there == IF members[draft[q].id] = Null THEN "email" ELSE AfterLink(q)
  <2>1. HasDraft(q) /\ there \in {"email", "address", "role"}
    BY <1>6 DEF EnterSubject, Placed, AfterLink
  <2>2. Enter(q, "subject", call[q].subject, "unexpected", there)
    BY <1>6 DEF EnterSubject
  <2> HIDE DEF there
  <2> QED BY <1>6, <2>1, <2>2, EnterAdds DEF EnterSubject
<1>7. CASE EnterEmail(q)
  <2>1. HasDraft(q) /\ AfterLink(q) \in {"email", "address", "role"}
    BY <1>7 DEF EnterEmail, Placed, AfterLink
  <2> QED BY <1>7, <2>1, EnterAdds DEF EnterEmail
<1>8. CASE SetTheAddress(q)
  <2> DEFINE r == call[q].record
  <2>1. r \in RecordIds /\ call[q].at = "lock"
    BY <1>8, SeesLocked DEF SetTheAddress
  <2>2. CASE Goes(q, "answer") /\ UNCHANGED <<kept, draft>>
    <3>1. call[q].kind = "api" /\ HasDraft(q) => members[draft[q].id] = Null
      BY <2>1 DEF Adds, FillsIn
    <3>2. call'[q].kind = call[q].kind /\ call'[q].at = "answer"
      BY <2>2, GoesKeeps
    <3> QED BY <2>2, <3>1, <3>2 DEF Adds, kept, HasDraft
  <2>3. CASE /\ Sees(q)[r].email = Null
             /\ draft' = [draft EXCEPT ![q] = [id |-> r, row |-> Sees(q)[r]]]
             /\ Goes(q, "set") /\ UNCHANGED kept
    <3>1. call'[q].kind = call[q].kind /\ call'[q].at = "set"
      BY <2>3, GoesKeeps
    <3>2. /\ members' = members /\ owned' = owned
          /\ draft'[q].id = r /\ draft'[q].row = Sees(q)[r]
      BY <2>3 DEF TypeOK, kept
    <3>3. CASE HasDraft(q) /\ draft[q].id = r
      <4>1. call[q].kind = "api" => members[r] = Null
        BY <2>1, <3>3 DEF Adds, FillsIn
      <4> QED BY <3>1, <3>2, <4>1 DEF Adds
    <3>4. CASE ~(HasDraft(q) /\ draft[q].id = r)
      <4>1. Sees(q)[r] = members[r]
        BY <2>1, <3>4 DEF Sees
      <4>2. call[q].kind = "api" => r \in owned[q]
        BY <2>1, <3>4 DEF Adds
      <4> QED BY <2>3, <3>1, <3>2, <4>1, <4>2 DEF Adds, FillsIn
    <3> QED BY <3>3, <3>4
  <2> QED BY <1>8, <2>2, <2>3 DEF SetTheAddress
<1>9. CASE NoAddressToSet(q)
  <2>1. call[q].kind = "api" /\ HasDraft(q) => members[draft[q].id] = Null
    BY <1>9 DEF NoAddressToSet, Adds, FillsIn
  <2>2. call'[q].kind = call[q].kind /\ call'[q].at = "answer"
    BY <1>9, GoesKeeps DEF NoAddressToSet
  <2> QED BY <1>9, <2>1, <2>2 DEF NoAddressToSet, Adds, kept, HasDraft
<1>10. CASE EnterAddress(q)
  <2>1. CASE Refuse(q, "address known")
    BY <2>1, RefuseAdds
  <2>2. CASE /\ draft' = [draft EXCEPT
                  ![q] = [id |-> draft[q].id,
                          row |-> With(draft[q].row, "email", call[q].email)]]
             /\ GoesWith(q, draft[q].id, "answer")
             /\ UNCHANGED kept
    <3>1. /\ members' = members /\ owned' = owned
          /\ draft'[q].id = draft[q].id
          /\ draft'[q].row = With(draft[q].row, "email", call[q].email)
      BY <2>2 DEF TypeOK, kept
    <3>2. /\ call'[q].kind = call[q].kind /\ call'[q].at = "answer"
          /\ call'[q].subject = call[q].subject
          /\ call'[q].email = call[q].email
      BY <2>2, GoesKeeps
    <3>3. HasDraft(q) /\ call[q].at = "set"
      BY <1>10 DEF EnterAddress, Placed
    <3> QED BY <3>1, <3>2, <3>3 DEF Adds, FillsIn
  <2> QED BY <1>10, <2>1, <2>2 DEF EnterAddress, Enter
<1>11. CASE Answer(q) \/ GrantTheSeat(q)
  <2>1. draft'[q] = Null /\ call'[q].at = "done"
    BY <1>11 DEF Answer, GrantTheSeat, Commits, Ends, TypeOK, Called
  <2> QED BY <2>1, NoDraftAdds DEF HasDraft
<1>12. CASE SendTheAddress(q)
  <2> DEFINE own == current_member_id(q)
  <2>1. own \in Live(Sees(q), call[q].subject) /\ call[q].at = "address"
    BY <1>12 DEF SendTheAddress, HasAddressToSet, current_member_id
  <2>2. own \in RecordIds
    BY <2>1 DEF Live, Held
  <2>3. call'[q].kind = call[q].kind /\ call'[q].at = "lock"
    BY <1>12, GoesKeeps DEF SendTheAddress
  <2>4. UNCHANGED <<kept, draft>> /\ call'[q].record = own
    BY <1>12 DEF SendTheAddress, GoesWith, TypeOK
  <2>5. call[q].kind = "api" /\ HasDraft(q) => members[draft[q].id] = Null
    BY <2>1 DEF Adds, FillsIn
  <2>6. own \in owned[q] \/ (HasDraft(q) /\ draft[q].id = own)
    <3>1. SUFFICES ASSUME ~(HasDraft(q) /\ draft[q].id = own)
                   PROVE  own \in owned[q]
      OBVIOUS
    <3>2. Sees(q)[own] = members[own]
      BY <2>2, <3>1 DEF Sees
    <3>3. own \in Live(members, call[q].subject)
      BY <2>1, <2>2, <3>2 DEF Live, Held
    <3> QED BY <2>1, <3>3 DEF OwnIsOwned
  <2> HIDE DEF own
  <2> QED BY <2>3, <2>4, <2>5, <2>6 DEF Adds, kept, HasDraft
<1> QED BY <1>1, <1>2, <1>3, <1>4, <1>5, <1>6, <1>7, <1>8, <1>9, <1>10,
           <1>11, <1>12 DEF RunsOn

\* A refused request is the request it was.
LEMMA RefuseKeeps ==
  ASSUME TypeOK, NEW q \in Requests, NEW why, Refuse(q, why)
  PROVE  /\ call'[q].kind = call[q].kind /\ call'[q].subject = call[q].subject
         /\ call'[q].at = "done"
         /\ call[q].kind = "api" => call'[q].answer = why
         /\ members' = members /\ removal' = removal
BY DEF TypeOK, Refuse, Ends, Called, kept

\* A step either watches or leaves the table and what was watched.
LEMMA WatchedOrKept ==
  ASSUME TypeOK, [Next]_vars
  PROVE  Watch \/ (members' = members /\ owned' = owned)
<1>1. ASSUME NEW why, NEW q \in Requests, Refuse(q, why)
      PROVE  members' = members /\ owned' = owned
  BY <1>1 DEF Refuse, kept
<1>2. ASSUME NEW q \in Requests, RunsOn(q)
      PROVE  Watch \/ (members' = members /\ owned' = owned)
  <2>1. CASE Answer(q) \/ GrantTheSeat(q)
    BY <2>1 DEF Answer, GrantTheSeat, Commits
  <2>2. CASE \/ ReadKnown(q) \/ OwnRecord(q) \/ NoAddressToSet(q)
             \/ SendTheAddress(q)
    BY <2>2 DEF ReadKnown, OwnRecord, NoAddressToSet, SendTheAddress, kept
  <2>3. CASE RemovedRecord(q) \/ MatchAddress(q) \/ TakenAddress(q)
    BY <1>1, <2>3 DEF RemovedRecord, MatchAddress, TakenAddress, kept
  <2>4. CASE Claim(q) \/ Insert(q) \/ SetTheAddress(q)
    BY <2>4 DEF Claim, Insert, SetTheAddress, kept
  <2>5. CASE EnterSubject(q) \/ EnterEmail(q) \/ EnterAddress(q)
    BY <1>1, <2>5 DEF EnterSubject, EnterEmail, EnterAddress, Enter, kept
  <2> QED BY <1>2, <2>1, <2>2, <2>3, <2>4, <2>5 DEF RunsOn
<1>3. ASSUME NEW q \in Requests, Step(q)
      PROVE  Watch \/ (members' = members /\ owned' = owned)
  <2>1. CASE SeatRefused(q) \/ TimesOut(q) \/ DeadlockVictim(q)
    BY <1>1, <2>1 DEF SeatRefused, TimesOut, DeadlockVictim
  <2>2. CASE \/ \E s \in Subjects, e \in Emails \cup {Null} : Arrive(q, s, e)
             \/ \E s \in Subjects : Seat(q, s)
    BY <2>2 DEF Arrive, Seat
  <2> QED BY <1>2, <1>3, <2>1, <2>2 DEF Step
<1>4. CASE Meanwhile
  BY <1>4, MeanwhileIs DEF Writes
<1>5. CASE UNCHANGED vars
  BY <1>5 DEF vars, kept
<1> QED BY <1>3, <1>4, <1>5 DEF Next

\* A request under way stays its subject's.
LEMMA SubjectStays ==
  ASSUME TypeOK, [Next]_vars, NEW q \in Requests, call[q].at # "new"
  PROVE  call'[q].subject = call[q].subject
<1> USE DEF TypeOK
<1>1. ASSUME NEW r, NEW there, Goes(q, there) \/ GoesWith(q, r, there)
      PROVE  call'[q].subject = call[q].subject
  BY <1>1, GoesKeeps
<1>2. ASSUME NEW why, Refuse(q, why) PROVE call'[q].subject = call[q].subject
  BY <1>2, RefuseKeeps
<1>3. CASE RunsOn(q)
  <2>1. CASE ReadKnown(q)
    BY <2>1 DEF ReadKnown
  <2>2. CASE OwnRecord(q) \/ NoAddressToSet(q) \/ SendTheAddress(q)
    BY <1>1, <2>2 DEF OwnRecord, NoAddressToSet, SendTheAddress
  <2>3. CASE RemovedRecord(q) \/ MatchAddress(q) \/ TakenAddress(q)
    BY <1>1, <1>2, <2>3 DEF RemovedRecord, MatchAddress, TakenAddress
  <2>4. CASE Claim(q) \/ Insert(q) \/ SetTheAddress(q)
    BY <1>1, <2>4 DEF Claim, Insert, SetTheAddress
  <2>5. CASE EnterSubject(q) \/ EnterEmail(q) \/ EnterAddress(q)
    BY <1>1, <1>2, <2>5 DEF EnterSubject, EnterEmail, EnterAddress, Enter
  <2>6. CASE Answer(q) \/ GrantTheSeat(q)
    BY <2>6 DEF Answer, GrantTheSeat, Commits, Ends, Called
  <2> QED BY <1>3, <2>1, <2>2, <2>3, <2>4, <2>5, <2>6 DEF RunsOn
<1>4. CASE Step(q)
  <2>1. CASE SeatRefused(q) \/ TimesOut(q) \/ DeadlockVictim(q)
    BY <1>2, <2>1 DEF SeatRefused, TimesOut, DeadlockVictim
  <2> QED BY <1>3, <1>4, <2>1 DEF Step, Arrive, Seat
<1>5. CASE Meanwhile
  BY <1>5, MeanwhileIs DEF Writes
<1>6. CASE UNCHANGED vars
  BY <1>6 DEF vars
<1>7. ASSUME NEW p \in Requests \ {q}, Step(p)
      PROVE  call'[q].subject = call[q].subject
  BY <1>7, OthersStay
<1> QED BY <1>4, <1>5, <1>6, <1>7 DEF Next

\* A step that does not watch begins no request, and one that is over stays
\* over.
LEMMA StaysOver ==
  ASSUME Inv1, [Next]_vars, ~Watch, NEW q \in Requests,
         call[q].at \in {"new", "done"}
  PROVE  call'[q].at \in {"new", "done"}
<1>1. CASE Step(q)
  <2>1. CASE RunsOn(q)
    BY <2>1 DEF RunsOn, ReadKnown, OwnRecord, NoAddressToSet, SendTheAddress,
       RemovedRecord, MatchAddress, TakenAddress, Claim, Insert, SetTheAddress,
       EnterSubject, EnterEmail, EnterAddress, Answer, GrantTheSeat
  <2>2. CASE SeatRefused(q) \/ TimesOut(q) \/ DeadlockVictim(q)
    BY <2>2, RefuseKeeps DEF SeatRefused, TimesOut, DeadlockVictim, Inv1
  <2> QED BY <1>1, <2>1, <2>2 DEF Step, Arrive, Seat
<1>2. CASE Meanwhile
  BY <1>2, MeanwhileIs DEF Writes, Inv1
<1>3. CASE UNCHANGED vars
  BY <1>3 DEF vars
<1>4. ASSUME NEW p \in Requests \ {q}, Step(p)
      PROVE  call'[q].at \in {"new", "done"}
  BY <1>4, OthersStay DEF Inv1
<1> QED BY <1>1, <1>2, <1>3, <1>4 DEF Next

\* Whatever is the caller's own stays noted, and what was noted stays so while
\* the request goes on.
LEMMA NextOwned ==
  ASSUME Inv3, [Next]_vars
  PROVE  /\ OwnIsOwned'
         /\ \A q \in Requests :
              call'[q].at \notin {"new", "done"} => owned[q] \subseteq owned'[q]
<1>1. CASE Watch
  <2>1. ASSUME NEW q \in Requests, call'[q].at \notin {"new", "done"}
        PROVE  owned'[q] = owned[q] \cup Live(members', call'[q].subject)
    BY <1>1, <2>1 DEF Watch
  <2> QED BY <2>1 DEF OwnIsOwned, Live, Held
<1>2. CASE members' = members /\ owned' = owned /\ ~Watch
  <2>1. ASSUME NEW q \in Requests, call'[q].at \notin {"new", "done"}
        PROVE  /\ call[q].at \notin {"new", "done"}
               /\ call'[q].subject = call[q].subject
    <3>1. call[q].at \notin {"new", "done"}
      BY <1>2, <2>1, StaysOver DEF Inv3, Inv2
    <3> QED BY <3>1, SubjectStays DEF Inv3, Inv2, Inv1
  <2> QED BY <1>2, <2>1 DEF Inv3, OwnIsOwned, Live, Held
<1> QED BY <1>1, <1>2, WatchedOrKept DEF Inv3, Inv2, Inv1

\* Every step keeps what requests may add.
LEMMA NextInv3 ==
  ASSUME Inv3, [Next]_vars
  PROVE  Inv3'
<1>1. Inv2' /\ OwnIsOwned'
  BY NextInv2, NextOwned DEF Inv3
<1>2. ASSUME NEW p \in Requests, call'[p] = call[p], draft'[p] = draft[p],
             HasDraft(p) => members'[draft[p].id] = members[draft[p].id]
      PROVE  Adds(p)'
  <2>1. call[p].at \notin {"new", "done"} => owned[p] \subseteq owned'[p]
    BY <1>2, NextOwned
  <2>2. Adds(p)
    BY DEF Inv3
  <2>3. HasDraft(p)' = HasDraft(p)
    BY <1>2 DEF HasDraft
  <2>4. call[p].kind = "api" /\ HasDraft(p) /\ members[draft[p].id] # Null
          => FillsIn(p)'
    BY <1>2, <2>1, <2>2 DEF Adds, FillsIn
  <2> QED BY <1>2, <2>1, <2>2, <2>3, <2>4 DEF Adds
<1>3. CASE UNCHANGED vars
  BY <1>1, <1>2, <1>3 DEF vars, kept, Inv3
<1>4. CASE Meanwhile
  <2>1. PICK r \in RecordIds, row \in Row : Writes(r, row)
    BY <1>4, MeanwhileIs DEF Inv3, Inv2, Inv1
  <2>2. ASSUME NEW p \in Requests, HasDraft(p)
        PROVE  members'[draft[p].id] = members[draft[p].id]
    BY <2>1, <2>2 DEF Writes, LockedBy, Inv3, Inv2, Inv1, TypeOK, Written, HasDraft
  <2> QED BY <1>1, <1>2, <2>1, <2>2 DEF Writes, Inv3
<1>5. ASSUME NEW q \in Requests, Step(q) PROVE Inv3'
  <2>1. ASSUME NEW p \in Requests \ {q} PROVE Adds(p)'
    BY <1>2, <1>5, <2>1, OthersStay, LockedStays DEF Inv3, Inv2, Inv1
  <2>2. CASE \/ \E s \in Subjects, e \in Emails \cup {Null} : Arrive(q, s, e)
             \/ \E s \in Subjects : Seat(q, s)
    <3>1. ~HasDraft(q)
      BY <2>2 DEF Arrive, Seat, Inv3, Inv2, Inv1, Placed, Writing
    <3>2. call'[q].at \in {"known", "own"} /\ draft' = draft
      BY <2>2 DEF Arrive, Seat, Called, Inv3, Inv2, Inv1, TypeOK
    <3> QED BY <1>1, <2>1, <3>1, <3>2, NoDraftAdds DEF Inv3, HasDraft
  <2>3. CASE SeatRefused(q) \/ TimesOut(q) \/ DeadlockVictim(q)
    BY <1>1, <2>1, <2>3, RefuseAdds
       DEF SeatRefused, TimesOut, DeadlockVictim, Inv3, Inv2
  <2>4. CASE RunsOn(q)
    BY <1>1, <2>1, <2>4, RunsOnAdds DEF Inv3
  <2> QED BY <1>5, <2>2, <2>3, <2>4 DEF Step
<1> QED BY <1>3, <1>4, <1>5 DEF Next

\* POST /me adds a record, or fills in an empty address on one that has been
\* the caller's own in that request, and changes nothing else that is there
\* (first_sign_in.py:13-22, 62-74; 012:47-62).
THEOREM PostMeOnlyAdds == Spec => FirstSignInOnlyAdds
<1>1. Init => Inv3
  <2>1. ASSUME Init PROVE Inv3
    <3>1. /\ DraftsApart /\ MembersApart /\ OwnIsOwned
          /\ \A q \in Requests : Adds(q)
      BY <2>1 DEF Init, DraftsApart, MembersApart, Adds, HasDraft, Called,
         OwnIsOwned
    <3> QED BY <2>1, <3>1, InitInv1 DEF Inv3, Inv2
  <2> QED BY <2>1
<1>2. Inv3 /\ [Next]_vars => Inv3'
  BY NextInv3
<1>3. Inv3 /\ [Next]_vars =>
        [\A q \in Requests, r \in RecordIds :
           /\ call[q].kind = "api"
           /\ call[q].at # "done" /\ call'[q].at = "done"
           /\ members[r] # Null
           => \/ members'[r] = members[r]
              \/ /\ r \in owned[q]
                 /\ members[r].email = Null
                 /\ members'[r] =
                      [members[r] EXCEPT !.email = call[q].email]]_vars
  <2> SUFFICES ASSUME Inv3, Next, NEW q \in Requests, NEW r \in RecordIds,
                      call[q].kind = "api", call[q].at # "done",
                      call'[q].at = "done", members[r] # Null
               PROVE  \/ members'[r] = members[r]
                      \/ /\ r \in owned[q]
                         /\ members[r].email = Null
                         /\ members'[r] =
                              [members[r] EXCEPT !.email = call[q].email]
    OBVIOUS
  <2> USE DEF Inv3, Inv2, Inv1
  <2>1. Step(q)
    <3>1. ~Meanwhile
      BY MeanwhileIs DEF Writes
    <3>2. PICK p \in Requests : Step(p)
      BY <3>1 DEF Next
    <3> QED BY <3>2, OthersStay
  <2>2. CASE Answer(q) \/ GrantTheSeat(q)
    <3>1. members'[r] = Sees(q)[r] /\ call[q].at \in {"answer", "role"}
      BY <2>2 DEF Answer, GrantTheSeat, Commits
    <3>2. CASE HasDraft(q) /\ draft[q].id = r
      <4>1. FillsIn(q)
        BY <3>2 DEF Adds
      <4>2. members'[r] = With(members[r], "email", call[q].email)
        BY <3>1, <3>2, <4>1 DEF FillsIn, Sees
      <4>3. members[r] \in Row
        BY DEF TypeOK
      <4>4. With(members[r], "email", call[q].email)
              = [members[r] EXCEPT !.email = call[q].email]
        BY <4>3 DEF With, Row
      <4> QED BY <3>2, <4>1, <4>2, <4>4 DEF FillsIn
    <3>3. CASE ~(HasDraft(q) /\ draft[q].id = r)
      BY <3>1, <3>3 DEF Sees
    <3> QED BY <3>2, <3>3
  <2> QED BY <2>1, <2>2, OnlyCommitsWrite
<1> QED BY <1>1, <1>2, <1>3, PTL DEF Spec, FirstSignInOnlyAdds

-----------------------------------------------------------------------------
(* What a removed member is told.  A request whose subject's record has     *)
(* been a removed one all along has got no further than the two questions   *)
(* of 015 that come first, and the second of them is the refusal.           *)

OnItsWay(q) ==
  /\ call[q].at \in {"known", "own", "gone"}
  /\ RemovedFor(members, call[q].subject)

ToldSo(q) == call[q].at = "done" /\ call[q].answer = "removed"

Told(q) ==
  call[q].kind = "api" /\ removal[q] = "always" => OnItsWay(q) \/ ToldSo(q)

Inv4 == Inv1 /\ \A q \in Requests : Told(q)

\* For a request that is on its way, to have had its record removed all along
\* is to have had it so until now and to have it so.
LEMMA WatchTells ==
  ASSUME TypeOK, Watch, NEW q \in Requests,
         call[q].at # "new", removal'[q] = "always"
  PROVE  /\ removal[q] = "always"
         /\ call[q].at # "done" => RemovedFor(members', call'[q].subject)
<1> DEFINE gone == RemovedFor(members', call'[q].subject)
<1>1. removal'[q] = IF call[q].at = "done" THEN removal[q]
                    ELSE IF removal[q] = "always" /\ gone THEN "always"
                    ELSE IF removal[q] = "never" /\ ~gone THEN "never"
                    ELSE "partly"
  BY DEF Watch
<1> HIDE DEF gone
<1>2. CASE call[q].at = "done"
  BY <1>1, <1>2
<1>3. CASE call[q].at # "done"
  <2>1. removal[q] = "always" /\ gone
    BY <1>1, <1>3
  <2> QED BY <2>1, <1>3 DEF gone
<1> QED BY <1>2, <1>3

\* What others do leaves a request told, or on its way to being told.
LEMMA OthersKeepTold ==
  ASSUME Inv4, NEW q \in Requests, call'[q] = call[q],
         Watch \/ (members' = members /\ removal' = removal)
  PROVE  Told(q)'
<1>1. CASE members' = members /\ removal' = removal
  BY <1>1 DEF Inv4, Told, OnItsWay, ToldSo, RemovedFor, Held, Live
<1>2. CASE Watch /\ removal'[q] = "always"
  <2>1. CASE call[q].at # "new"
    BY <1>2, <2>1, WatchTells DEF Inv4, Inv1, Told, OnItsWay, ToldSo,
       RemovedFor, Held, Live
  <2>2. CASE call[q].at = "new"
    <3>1. removal'[q] = removal[q]
      BY <1>2, <2>2 DEF Watch
    <3> QED BY <1>2, <2>2, <3>1 DEF Inv4, Told, OnItsWay, ToldSo
  <2> QED BY <2>1, <2>2
<1>3. CASE removal'[q] # "always"
  BY <1>3 DEF Told
<1> QED BY <1>1, <1>2, <1>3

\* A request that is past those two questions has not had its record removed
\* all along, and ends so.
LEMMA PastTheQuestions ==
  ASSUME Inv4, NEW q \in Requests,
         call[q].at \notin {"new", "known", "own", "gone", "done"},
         call'[q].kind = call[q].kind,
         Watch \/ removal' = removal
  PROVE  Told(q)'
<1>1. ~(call[q].kind = "api" /\ removal[q] = "always")
  BY DEF Inv4, Told, OnItsWay, ToldSo
<1>2. removal'[q] = "always" => removal[q] = "always"
  BY WatchTells DEF Inv4, Inv1
<1> QED BY <1>1, <1>2 DEF Told

\* What an index says is of the request it was, and commits nothing.
LEMMA EnterKeeps ==
  ASSUME TypeOK, NEW q \in Requests, NEW key, NEW v, NEW refusal, NEW there,
         Enter(q, key, v, refusal, there)
  PROVE  call'[q].kind = call[q].kind /\ members' = members /\ removal' = removal
<1>1. CASE Refuse(q, refusal)
  BY <1>1, RefuseKeeps
<1>2. CASE GoesWith(q, draft[q].id, there) /\ UNCHANGED kept
  BY <1>2, GoesKeeps DEF kept
<1> QED BY <1>1, <1>2 DEF Enter

\* A request with no row of its own, whose record is a removed one, acts as
\* nobody.
LEMMA RemovedIsNobody ==
  ASSUME Inv1, NEW q \in Requests, ~HasDraft(q),
         RemovedFor(members, call[q].subject)
  PROVE  /\ current_member_id(q) = Null
         /\ Held(Sees(q), call[q].subject) # {}
<1>1. \A r \in RecordIds : Sees(q)[r] = members[r]
  BY SeesStored DEF Inv1
<1>2. /\ Held(Sees(q), call[q].subject) = Held(members, call[q].subject)
      /\ Live(Sees(q), call[q].subject) = Live(members, call[q].subject)
  BY <1>1 DEF Held, Live
<1> QED BY <1>2 DEF RemovedFor, current_member_id

\* The statements of a request keep it told.
LEMMA RunsOnTells ==
  ASSUME Inv4, NEW q \in Requests, RunsOn(q)
  PROVE  Told(q)'
<1> USE DEF Inv4, Inv1
<1>1. CASE ReadKnown(q)
  <2>1. /\ call'[q].kind = call[q].kind /\ call'[q].subject = call[q].subject
        /\ call'[q].at = "own" /\ call[q].at = "known"
        /\ members' = members /\ removal' = removal
    BY <1>1 DEF ReadKnown, TypeOK, kept
  <2> QED BY <2>1 DEF Told, OnItsWay, ToldSo, RemovedFor, Held, Live
<1>2. CASE OwnRecord(q)
  <2>1. ~HasDraft(q) /\ call[q].at = "own" /\ members' = members /\ removal' = removal
    BY <1>2 DEF OwnRecord, Placed, Writing, kept
  <2>2. CASE Goes(q, "gone")
    <3>1. /\ call'[q].kind = call[q].kind /\ call'[q].subject = call[q].subject
          /\ call'[q].at = "gone"
      BY <2>2, GoesKeeps
    <3> QED BY <2>1, <3>1 DEF Told, OnItsWay, ToldSo, RemovedFor, Held, Live
  <2>3. CASE current_member_id(q) # Null
             /\ GoesWith(q, current_member_id(q), AfterLink(q))
    <3>1. ~(call[q].kind = "api" /\ removal[q] = "always")
      BY <2>1, <2>3, RemovedIsNobody DEF Told, OnItsWay, ToldSo
    <3>2. call'[q].kind = call[q].kind
      BY <2>3, GoesKeeps
    <3> QED BY <2>1, <3>1, <3>2 DEF Told
  <2> QED BY <1>2, <2>2, <2>3 DEF OwnRecord
<1>3. CASE RemovedRecord(q)
  <2>1. ~HasDraft(q) /\ call[q].at = "gone"
    BY <1>3 DEF RemovedRecord, Placed, Writing
  <2>2. CASE Refuse(q, "removed")
    BY <2>2, RefuseKeeps DEF Told, ToldSo
  <2>3. CASE Held(Sees(q), call[q].subject) = {} /\ Goes(q, "match") /\ UNCHANGED kept
    <3>1. ~(call[q].kind = "api" /\ removal[q] = "always")
      BY <2>1, <2>3, RemovedIsNobody DEF Told, OnItsWay, ToldSo
    <3> QED BY <2>3, <3>1, GoesKeeps DEF Told, kept
  <2> QED BY <1>3, <2>2, <2>3 DEF RemovedRecord
<1>4. CASE \/ MatchAddress(q) \/ TakenAddress(q) \/ NoAddressToSet(q)
           \/ SendTheAddress(q)
  <2>1. /\ call'[q].kind = call[q].kind /\ removal' = removal
        /\ call[q].at \in {"match", "taken", "address"}
    BY <1>4, GoesKeeps, RefuseKeeps
       DEF MatchAddress, TakenAddress, NoAddressToSet, SendTheAddress, kept
  <2> QED BY <2>1, PastTheQuestions
<1>5. CASE Claim(q) \/ Insert(q) \/ SetTheAddress(q)
  <2>1. /\ call'[q].kind = call[q].kind /\ removal' = removal
        /\ call[q].at \in {"claim", "insert", "lock"}
    BY <1>5, GoesKeeps DEF Claim, Insert, SetTheAddress, kept
  <2> QED BY <2>1, PastTheQuestions
<1>6. CASE EnterSubject(q) \/ EnterEmail(q) \/ EnterAddress(q)
  <2>1. /\ call'[q].kind = call[q].kind /\ removal' = removal
        /\ call[q].at \in {"subject", "email", "set"}
    BY <1>6, EnterKeeps DEF EnterSubject, EnterEmail, EnterAddress
  <2> QED BY <2>1, PastTheQuestions
<1>7. CASE Answer(q) \/ GrantTheSeat(q)
  <2>1. /\ call'[q].kind = call[q].kind /\ Watch
        /\ call[q].at \in {"answer", "role"}
    BY <1>7 DEF Answer, GrantTheSeat, Commits, Ends, Called, TypeOK
  <2> QED BY <2>1, PastTheQuestions
<1> QED BY <1>1, <1>2, <1>3, <1>4, <1>5, <1>6, <1>7 DEF RunsOn

\* A request that is at one of those two questions waits for nobody: neither
\* the ceiling on a statement nor the deadlock detector ends it there.
LEMMA OnlyLaterWaits ==
  ASSUME NEW q \in Requests, TimesOut(q) \/ DeadlockVictim(q)
  PROVE  call[q].at \notin {"new", "known", "own", "gone", "done"}
<1>1. WaitsFor(q) # {}
  BY DEF TimesOut, DeadlockVictim, InDeadlock
<1> QED BY <1>1 DEF WaitsFor

\* Every step keeps the members told.
LEMMA NextTells ==
  ASSUME Inv4, [Next]_vars
  PROVE  Inv4'
<1> USE DEF Inv4
<1>1. Inv1'
  BY NextInv1
<1>2. CASE UNCHANGED vars
  BY <1>1, <1>2, OthersKeepTold DEF vars, kept
<1>3. CASE Meanwhile
  <2>1. PICK r \in RecordIds, row \in Row : Writes(r, row)
    BY <1>3, MeanwhileIs DEF Inv1
  <2> QED BY <1>1, <2>1, OthersKeepTold DEF Writes
<1>4. ASSUME NEW q \in Requests, Step(q) PROVE Inv4'
  <2>1. Watch \/ (members' = members /\ removal' = removal)
    <3>1. CASE RunsOn(q)
      <4>1. CASE EnterSubject(q) \/ EnterEmail(q) \/ EnterAddress(q)
        BY <4>1, EnterKeeps DEF EnterSubject, EnterEmail, EnterAddress, Inv1
      <4>2. CASE Answer(q) \/ GrantTheSeat(q)
        BY <4>2 DEF Answer, GrantTheSeat, Commits
      <4>3. CASE ReadKnown(q) \/ OwnRecord(q)
             \/ NoAddressToSet(q) \/ SendTheAddress(q)
        BY <4>3 DEF ReadKnown, OwnRecord, NoAddressToSet, SendTheAddress, kept
      <4>4. CASE RemovedRecord(q) \/ MatchAddress(q) \/ TakenAddress(q)
        BY <4>4 DEF RemovedRecord, MatchAddress, TakenAddress, Refuse, kept
      <4>5. CASE Claim(q) \/ Insert(q) \/ SetTheAddress(q)
        BY <4>5 DEF Claim, Insert, SetTheAddress, kept
      <4> QED BY <3>1, <4>1, <4>2, <4>3, <4>4, <4>5 DEF RunsOn
    <3>2. CASE SeatRefused(q) \/ TimesOut(q) \/ DeadlockVictim(q)
      BY <3>2 DEF SeatRefused, TimesOut, DeadlockVictim, Refuse, kept
    <3>3. CASE \/ \E s \in Subjects, e \in Emails \cup {Null} : Arrive(q, s, e)
               \/ \E s \in Subjects : Seat(q, s)
      BY <3>3 DEF Arrive, Seat
    <3> QED BY <1>4, <3>1, <3>2, <3>3 DEF Step
  <2>2. ASSUME NEW p \in Requests \ {q} PROVE Told(p)'
    BY <1>4, <2>1, <2>2, OthersStay, OthersKeepTold DEF Inv1
  <2>3. Told(q)'
    <3>1. ASSUME NEW s \in Subjects, NEW e \in Emails \cup {Null}, Arrive(q, s, e)
          PROVE  Told(q)'
      <4>1. /\ call'[q].at = "known" /\ call'[q].subject = s /\ call[q].at = "new"
            /\ Watch
        BY <3>1 DEF Arrive, Called, Inv1, TypeOK
      <4>2. removal'[q] = "always" => RemovedFor(members', s)
        BY <4>1 DEF Watch
      <4> QED BY <4>1, <4>2 DEF Told, OnItsWay, RemovedFor, Held, Live
    <3>2. ASSUME NEW s \in Subjects, Seat(q, s) PROVE Told(q)'
      BY <3>2 DEF Seat, Called, Inv1, TypeOK, Told
    <3>3. CASE SeatRefused(q)
      <4>1. /\ call'[q].kind = call[q].kind /\ removal' = removal
            /\ call[q].at = "role"
        BY <3>3, RefuseKeeps DEF SeatRefused, Inv1
      <4> QED BY <4>1, PastTheQuestions
    <3>4. CASE TimesOut(q) \/ DeadlockVictim(q)
      <4>1. call'[q].kind = call[q].kind /\ removal' = removal
        BY <3>4, RefuseKeeps DEF TimesOut, DeadlockVictim, Inv1
      <4> QED BY <3>4, <4>1, OnlyLaterWaits, PastTheQuestions
    <3> QED BY <1>4, <3>1, <3>2, <3>3, <3>4, RunsOnTells DEF Step
  <2> QED BY <1>1, <2>2, <2>3
<1> QED BY <1>2, <1>3, <1>4 DEF Next

\* A member whose record is removed for the whole of a POST /me is told so,
\* whatever else is written meanwhile and whoever waits for whom (015:1-14).
THEOREM TheRemovedAreTold == Spec => []RemovedMembersAreTold
<1>1. Init => Inv4
  <2>1. Init => \A q \in Requests : Told(q)
    BY DEF Init, Told
  <2> QED BY <2>1, InitInv1 DEF Inv4
<1>2. Inv4 /\ [Next]_vars => Inv4'
  BY NextTells
<1>3. Inv4 => RemovedMembersAreTold
  BY DEF Inv4, RemovedMembersAreTold, Told, OnItsWay, ToldSo
<1> QED BY <1>1, <1>2, <1>3, PTL DEF Spec

-----------------------------------------------------------------------------
(* The walk through a member's door events.  What has been shown is in the  *)
(* order of the walk and ends where the cursor is; what was owed is shown   *)
(* already or lies behind the cursor.  A row that commits meanwhile is      *)
(* never one that is there under its key or its number.                     *)

InOrder(rows) == \A i, j \in DOMAIN rows : i < j => Later(rows[j], rows[i])

Shown(r) == \E i \in DOMAIN seen : seen[i] = r

Recorded ==
  /\ occurred_at \in [Entries -> SUBSET Times]
  /\ \A e \in Entries : \A t, u \in occurred_at[e] : t = u
  /\ last_id \in Nat
  /\ door_events \subseteq Events /\ open \subseteq Events
  /\ \A r \in door_events \cup open : r.id <= last_id
  /\ \A r, o \in door_events \cup open : r.id = o.id \/ r.key = o.key => r = o

Walked ==
  /\ seen \in Seq(door_events) /\ InOrder(seen)
  /\ owed \subseteq door_events
  /\ walk = "not begun" => seen = <<>>
  /\ walk = "going on" =>
       /\ seen # <<>> /\ cursor = {seen[Len(seen)]}
       /\ \A r \in owed : Shown(r) \/ Later(r, seen[Len(seen)])
  /\ walk = "ended" => \A r \in owed : Shown(r)

WalkInv == Recorded /\ Walked

\* What is later than a later row is later; of two rows with different
\* numbers, one is.
LEMMA LaterOrders ==
  ASSUME NEW a \in Events, NEW b \in Events, NEW c \in Events
  PROVE  /\ Later(a, b) /\ Later(b, c) => Later(a, c)
         /\ ~Later(a, a)
<1>1. a.at \in Nat /\ b.at \in Nat /\ c.at \in Nat
  BY DoorEventsAssumption DEF Events
<1>2. a.id \in Nat /\ b.id \in Nat /\ c.id \in Nat
  BY DoorEventsAssumption DEF Events, Ids
<1> QED BY <1>1, <1>2 DEF Later

\* No rows are in order.
LEMMA NoRowsInOrder ==
  ASSUME NEW S, NEW s, s = <<>>
  PROVE  s \in Seq(S) /\ InOrder(s)
<1>1. s \in Seq(S) /\ Len(s) = 0
  BY EmptySeq
<1>2. DOMAIN s = {}
  BY <1>1, LenProperties
<1> QED BY <1>1, <1>2 DEF InOrder

\* Shown rows, and behind them others in order: all are in order.
LEMMA InOrderTogether ==
  ASSUME NEW S \in SUBSET Events, NEW s \in Seq(S), NEW t \in Seq(S),
         InOrder(s), InOrder(t),
         \A i \in 1 .. Len(s), j \in 1 .. Len(t) : Later(t[j], s[i])
  PROVE  s \o t \in Seq(S) /\ InOrder(s \o t)
<1>1. /\ s \o t \in Seq(S) /\ Len(s \o t) = Len(s) + Len(t)
      /\ \A i \in 1 .. Len(s) + Len(t) :
           (s \o t)[i] = IF i <= Len(s) THEN s[i] ELSE t[i - Len(s)]
  BY ConcatProperties
<1>2. Len(s) \in Nat /\ Len(t) \in Nat
  OBVIOUS
<1>3. ASSUME NEW i \in 1 .. Len(s) + Len(t), NEW j \in 1 .. Len(s) + Len(t), i < j
      PROVE  Later((s \o t)[j], (s \o t)[i])
  <2>1. CASE j <= Len(s)
    BY <1>1, <1>2, <1>3, <2>1 DEF InOrder
  <2>2. CASE i <= Len(s) /\ ~(j <= Len(s))
    <3>1. j - Len(s) \in 1 .. Len(t) /\ i \in 1 .. Len(s)
      BY <1>2, <2>2
    <3> QED BY <1>1, <2>2, <3>1
  <2>3. CASE ~(i <= Len(s))
    <3>1. /\ j - Len(s) \in 1 .. Len(t) /\ i - Len(s) \in 1 .. Len(t)
          /\ i - Len(s) < j - Len(s) /\ ~(j <= Len(s))
      BY <1>2, <1>3, <2>3
    <3> QED BY <1>1, <2>3, <3>1 DEF InOrder
  <2> QED BY <1>2, <2>1, <2>2, <2>3
<1> QED BY <1>1, <1>2, <1>3 DEF InOrder

\* Whether a page has another behind it, and what it shows.
More(found, limit) == Len(found) > limit
Items(found, limit) ==
  IF More(found, limit) THEN SubSeq(found, 1, limit) ELSE found

\* A page: its items in order, all of them rows asked for, and every other of
\* those rows behind the last item when there is another page.
LEMMA PageIs ==
  ASSUME NEW S \in SUBSET Events, NEW limit \in Nat \ {0},
         NEW found \in NEWEST_FIRST(S, limit + 1)
  PROVE  /\ Items(found, limit) \in Seq(S) /\ InOrder(Items(found, limit))
         /\ More(found, limit) => Len(Items(found, limit)) = limit
         /\ \A r \in S :
              \/ \E i \in 1 .. Len(Items(found, limit)) : Items(found, limit)[i] = r
              \/ /\ More(found, limit)
                 /\ Later(r, Items(found, limit)[Len(Items(found, limit))])
<1>1. PICK k \in 0 .. limit + 1 : found \in [1 .. k -> S]
  BY DEF NEWEST_FIRST
<1>2. found \in Seq(S) /\ Len(found) = k /\ k \in Nat /\ k <= limit + 1
  BY <1>1
<1>3. InOrder(found)
  BY DEF NEWEST_FIRST, InOrder
<1>4. \A r \in S : \/ \E i \in 1 .. k : found[i] = r
                   \/ k = limit + 1 /\ \A i \in 1 .. k : Later(r, found[i])
  BY <1>1, <1>2 DEF NEWEST_FIRST
<1>5. CASE ~(k > limit)
  <2>1. ~More(found, limit) /\ Items(found, limit) = found
    BY <1>2, <1>5 DEF More, Items
  <2> QED BY <1>2, <1>3, <1>4, <1>5, <2>1
<1>6. CASE k > limit
  <2>1. k = limit + 1
    BY <1>2, <1>6
  <2> DEFINE items == SubSeq(found, 1, limit)
  <2>2. /\ items \in Seq(S) /\ Len(items) = limit
        /\ \A i \in 1 .. limit : items[i] = found[i]
    <3>1. \A i \in 1 .. limit : found[i] \in S
      BY <1>1, <2>1
    <3>2. /\ items \in Seq(S) /\ Len(items) = IF 1 <= limit THEN limit - 1 + 1 ELSE 0
          /\ \A i \in 1 .. limit - 1 + 1 : items[i] = found[1 + i - 1]
      BY <3>1, SubSeqProperties
    <3> QED BY <3>2
  <2> HIDE DEF items
  <2>3. InOrder(items)
    BY <1>2, <1>3, <2>1, <2>2 DEF InOrder
  <2>4. ASSUME NEW r \in S
        PROVE  (\E i \in 1 .. limit : items[i] = r) \/ Later(r, items[limit])
    <3>1. CASE \E i \in 1 .. limit : found[i] = r
      BY <2>2, <3>1
    <3>2. CASE found[limit + 1] = r
      <4>1. Later(found[limit + 1], found[limit])
        BY <1>2, <1>3, <2>1 DEF InOrder
      <4> QED BY <2>2, <3>2, <4>1
    <3>3. CASE \A i \in 1 .. k : Later(r, found[i])
      BY <2>1, <2>2, <3>3
    <3> QED BY <1>4, <2>1, <3>1, <3>2, <3>3
  <2>5. More(found, limit) /\ Items(found, limit) = items
    BY <1>2, <1>6 DEF More, Items, items
  <2> QED BY <2>2, <2>3, <2>4, <2>5
<1> QED BY <1>2, <1>5, <1>6

\* A page read behind what has been shown leaves all of it in order, and what
\* was owed shown or behind its last item.
LEMMA PageWalks ==
  ASSUME WalkInv, NEW rows \in SUBSET door_events, NEW limit \in Nat \ {0},
         read_page(rows, limit),
         \A i \in DOMAIN seen, r \in rows : Later(r, seen[i]),
         owed' \subseteq door_events, \A r \in owed' : Shown(r) \/ r \in rows,
         UNCHANGED events
  PROVE  WalkInv'
<1> USE DEF WalkInv
<1>1. PICK found \in NEWEST_FIRST(rows, limit + 1) :
        /\ seen' = seen \o Items(found, limit)
        /\ walk' = IF More(found, limit) THEN "going on" ELSE "ended"
        /\ cursor' = IF More(found, limit) THEN {Items(found, limit)[limit]} ELSE {}
  BY DEF read_page, More, Items
<1> DEFINE more == More(found, limit)
           items == Items(found, limit)
<1>2. /\ seen' = seen \o items
      /\ walk' = IF more THEN "going on" ELSE "ended"
      /\ cursor' = IF more THEN {items[limit]} ELSE {}
  BY <1>1
<1>3. rows \in SUBSET Events /\ door_events \in SUBSET Events
  BY DEF Recorded
<1>4. /\ items \in Seq(rows) /\ InOrder(items)
      /\ more => Len(items) = limit
      /\ \A r \in rows : \/ \E i \in 1 .. Len(items) : items[i] = r
                         \/ more /\ Later(r, items[Len(items)])
  BY <1>3, PageIs
<1> HIDE DEF items, more
<1>5. seen \in Seq(door_events) /\ InOrder(seen) /\ items \in Seq(door_events)
  BY <1>4, SeqMonotonic DEF Walked
<1>6. \A i \in 1 .. Len(seen), j \in 1 .. Len(items) : Later(items[j], seen[i])
  BY <1>4, <1>5
<1>7. seen' \in Seq(door_events) /\ InOrder(seen')
  BY <1>2, <1>3, <1>4, <1>5, <1>6, InOrderTogether
<1>8. /\ Len(seen') = Len(seen) + Len(items)
      /\ \A i \in 1 .. Len(seen) : i \in DOMAIN seen' /\ seen'[i] = seen[i]
      /\ \A i \in 1 .. Len(items) :
           Len(seen) + i \in DOMAIN seen' /\ seen'[Len(seen) + i] = items[i]
  <2>1. /\ Len(seen') = Len(seen) + Len(items)
        /\ \A i \in 1 .. Len(seen) + Len(items) :
             seen'[i] = IF i <= Len(seen) THEN seen[i] ELSE items[i - Len(seen)]
    BY <1>2, <1>5, ConcatProperties
  <2>2. Len(seen) \in Nat /\ Len(items) \in Nat
    BY <1>5
  <2>3. DOMAIN seen' = 1 .. Len(seen) + Len(items)
    BY <1>7, <2>1
  <2>4. ASSUME NEW i \in 1 .. Len(seen)
        PROVE  i \in DOMAIN seen' /\ seen'[i] = seen[i]
    BY <2>1, <2>2, <2>3
  <2>5. ASSUME NEW i \in 1 .. Len(items)
        PROVE  Len(seen) + i \in DOMAIN seen' /\ seen'[Len(seen) + i] = items[i]
    <3>1. /\ Len(seen) + i \in 1 .. Len(seen) + Len(items)
          /\ ~(Len(seen) + i <= Len(seen)) /\ Len(seen) + i - Len(seen) = i
      BY <2>2
    <3> QED BY <2>1, <2>3, <3>1
  <2> QED BY <2>1, <2>4, <2>5
<1>9. more => /\ seen' # <<>> /\ cursor' = {seen'[Len(seen')]}
              /\ seen'[Len(seen')] = items[Len(items)]
  <2> SUFFICES ASSUME more
               PROVE  /\ seen' # <<>> /\ cursor' = {seen'[Len(seen')]}
                      /\ seen'[Len(seen')] = items[Len(items)]
    OBVIOUS
  <2>1. Len(items) = limit /\ limit \in 1 .. Len(items) /\ Len(seen) \in Nat
    BY <1>4, <1>5
  <2>2. seen'[Len(seen')] = items[limit] /\ Len(seen') > 0
    BY <1>8, <2>1
  <2>3. seen' # <<>>
    BY <2>2, EmptySeq
  <2> QED BY <1>2, <2>1, <2>2, <2>3
<1>10. \A r \in owed' : Shown(r)' \/ (more /\ Later(r, items[Len(items)]))
  <2> SUFFICES ASSUME NEW r \in owed', ~(more /\ Later(r, items[Len(items)]))
               PROVE  Shown(r)'
    OBVIOUS
  <2>1. CASE Shown(r)
    BY <1>5, <1>8, <2>1 DEF Shown
  <2>2. CASE r \in rows
    <3>1. PICK i \in 1 .. Len(items) : items[i] = r
      BY <1>4, <2>2
    <3> QED BY <1>8, <3>1 DEF Shown
  <2> QED BY <2>1, <2>2
<1>11. Walked'
  <2>1. CASE more
    <3>1. walk' = "going on"
      BY <1>2, <2>1
    <3> QED BY <1>7, <1>9, <1>10, <2>1, <3>1 DEF Walked, InOrder, events
  <2>2. CASE ~more
    <3>1. walk' = "ended"
      BY <1>2, <2>2
    <3> QED BY <1>7, <1>10, <2>2, <3>1 DEF Walked, InOrder, events
  <2> QED BY <2>1, <2>2
<1>12. Recorded'
  BY DEF Recorded, events
<1> QED BY <1>11, <1>12

\* Every step of the record, and of its reader, keeps the walk.
LEMMA StepsWalk ==
  ASSUME WalkInv, [DoorEventsNext]_doorevents
  PROVE  WalkInv'
<1> USE DEF WalkInv
<1>1. ASSUME UNCHANGED <<door_events, reading>> PROVE Walked'
  BY <1>1 DEF Walked, InOrder, Shown, reading
<1>2. CASE UNCHANGED doorevents
  BY <1>1, <1>2 DEF doorevents, events, Recorded
<1>3. ASSUME NEW e \in Entries, NEW t \in Times, Happens(e, t) PROVE WalkInv'
  BY <1>1, <1>3 DEF Happens, Recorded
<1>4. ASSUME NEW e \in Entries, record_event(e) PROVE WalkInv'
  <2>1. /\ last_id' = last_id + 1 /\ door_events' = door_events
        /\ occurred_at' = occurred_at
        /\ last_id < MaxIds
    BY <1>4 DEF record_event
  <2>2. PICK t \in Times :
          open' = open \cup {[id |-> last_id', at |-> t, key |-> e]}
    <3>1. PICK t \in Times : occurred_at[e] = {t}
      BY <1>4 DEF record_event, Recorded
    <3> QED BY <1>4, <3>1 DEF record_event
  <2> DEFINE row == [id |-> last_id', at |-> t, key |-> e]
  <2>3. row \in Events /\ row.id = last_id + 1 /\ row.key = e
    <3>1. last_id' \in Ids
      BY <2>1, DoorEventsAssumption DEF Recorded, Ids
    <3> QED BY <2>1, <3>1 DEF Events
  <2>4. \A r \in door_events \cup open : r.id # row.id /\ r.key # row.key
    <3>1. \A r \in door_events \cup open : r.id \in Nat /\ r.id <= last_id
      BY DoorEventsAssumption DEF Recorded, Events, Ids
    <3>2. \A r \in door_events \cup open : r.key # e
      BY <1>4 DEF record_event
    <3> QED BY <2>3, <3>1, <3>2 DEF Recorded
  <2>5. \A r \in door_events \cup open : r.id <= last_id'
    BY <2>1, DoorEventsAssumption DEF Recorded, Events, Ids
  <2>6. open' = open \cup {row} /\ last_id' \in Nat /\ row.id <= last_id'
    BY <2>1, <2>2, <2>3 DEF Recorded
  <2> HIDE DEF row
  <2>7. Recorded'
    BY <2>1, <2>3, <2>4, <2>5, <2>6 DEF Recorded
  <2> QED BY <1>1, <1>4, <2>7 DEF record_event
<1>5. ASSUME NEW r \in open, NEW commits \in BOOLEAN, RecordingEnds(r, commits)
      PROVE  WalkInv'
  <2>1. /\ door_events \subseteq door_events'
        /\ door_events' \cup open' \subseteq door_events \cup open
    BY <1>5 DEF RecordingEnds
  <2>2. Recorded'
    BY <1>5, <2>1 DEF Recorded, RecordingEnds
  <2>3. seen \in Seq(door_events')
    BY <2>1, SeqMonotonic DEF Walked
  <2>4. Walked'
    BY <1>5, <2>1, <2>3 DEF RecordingEnds, Walked, InOrder, Shown, reading
  <2> QED BY <2>2, <2>4
<1>6. ASSUME NEW limit \in 1 .. MaxLimit, FirstPage(limit) PROVE WalkInv'
  <2>1. seen = <<>> /\ owed' = door_events /\ UNCHANGED events
        /\ read_page(door_events, limit)
    BY <1>6 DEF FirstPage, Walked
  <2>2. limit \in Nat \ {0}
    BY DoorEventsAssumption
  <2>3. \A i \in DOMAIN seen, r \in door_events : Later(r, seen[i])
    BY <2>1
  <2>4. owed' \subseteq door_events /\ \A r \in owed' : Shown(r) \/ r \in door_events
    BY <2>1
  <2> QED BY <2>1, <2>2, <2>3, <2>4, PageWalks
<1>7. ASSUME NEW limit \in 1 .. MaxLimit, LaterPage(limit) PROVE WalkInv'
  <2> DEFINE last == seen[Len(seen)]
             rows == {r \in door_events : Past(r, last)}
  <2>1. cursor = {last} /\ seen # <<>> /\ seen \in Seq(door_events)
        /\ \A r \in owed : Shown(r) \/ Later(r, last)
    BY <1>7 DEF LaterPage, Walked
  <2>2. read_page(rows, limit)
    BY <1>7, <2>1 DEF LaterPage
  <2>3. limit \in Nat \ {0}
    BY DoorEventsAssumption
  <2>4. ASSUME NEW i \in DOMAIN seen, NEW r \in rows
        PROVE  Later(r, seen[i])
    <3>1. Len(seen) \in DOMAIN seen /\ last \in door_events /\ seen[i] \in door_events
          /\ (i = Len(seen) \/ i < Len(seen))
      BY <2>1
    <3>2. i = Len(seen) \/ Later(last, seen[i])
      BY <3>1 DEF Walked, InOrder
    <3>3. Later(r, last) /\ r \in door_events
      BY DEF Past
    <3> QED BY <3>1, <3>2, <3>3, LaterOrders DEF Recorded
  <2>5. \A r \in owed : Shown(r) \/ r \in rows
    BY <2>1 DEF Past, Walked
  <2> HIDE DEF rows
  <2>6. rows \in SUBSET door_events
    BY DEF rows
  <2>7. owed' = owed /\ owed \subseteq door_events /\ UNCHANGED events
    BY <1>7 DEF LaterPage, Walked
  <2> QED BY <2>2, <2>3, <2>4, <2>5, <2>6, <2>7, PageWalks
<1>8. CASE ReadAgain
  <2>1. Recorded'
    BY <1>8 DEF ReadAgain, events, Recorded
  <2>2. Walked'
    <3>1. seen' = <<>> /\ owed' = {} /\ walk' = "not begun"
      BY <1>8 DEF ReadAgain
    <3>2. seen' \in Seq(door_events') /\ InOrder(seen')
      BY <3>1, NoRowsInOrder
    <3> QED BY <3>1, <3>2 DEF Walked, InOrder
  <2> QED BY <2>1, <2>2
<1> QED BY <1>2, <1>3, <1>4, <1>5, <1>6, <1>7, <1>8 DEF DoorEventsNext

\* A behaviour of a tab that reads its door events is one of the record.
LEMMA WalkInvHolds == MCSpec => []WalkInv
<1>1. MCInit => WalkInv
  <2> SUFFICES ASSUME MCInit PROVE WalkInv
    OBVIOUS
  <2>1. Recorded
    BY DEF MCInit, DoorEventsInit, Recorded
  <2>2. seen = <<>> /\ owed = {} /\ walk = "not begun"
    BY DEF MCInit, DoorEventsInit
  <2>3. seen \in Seq(door_events) /\ InOrder(seen)
    BY <2>2, NoRowsInOrder
  <2> QED BY <2>1, <2>2, <2>3 DEF WalkInv, Walked
<1>2. WalkInv /\ [MCNext]_tabvars => WalkInv'
  <2> SUFFICES ASSUME WalkInv, [MCNext]_tabvars PROVE WalkInv'
    OBVIOUS
  <2>1. [DoorEventsNext]_doorevents
    BY DEF MCNext, SignsIn, tabvars
  <2> QED BY <2>1, StepsWalk
<1> QED BY <1>1, <1>2, PTL DEF MCSpec

\* A member who follows the cursors to the end is shown everything that was
\* there when they began, and nothing twice, whatever is recorded meanwhile and
\* however large the pages are (door_events.py:26-38, 008:79-82).
THEOREM TheWalkShowsEachOnce == MCSpec => []WalkShowsEachOnce
<1>1. WalkInv => WalkShowsEachOnce
  <2> SUFFICES ASSUME WalkInv PROVE WalkShowsEachOnce
    OBVIOUS
  <2>1. ASSUME NEW i \in DOMAIN seen, NEW j \in DOMAIN seen, i < j
        PROVE  seen[i].key # seen[j].key /\ Later(seen[j], seen[i])
    <3>1. /\ seen[i] \in door_events /\ seen[j] \in door_events
          /\ Later(seen[j], seen[i])
      <4>1. seen \in Seq(door_events) /\ InOrder(seen)
        BY DEF WalkInv, Walked
      <4>2. seen[i] \in door_events /\ seen[j] \in door_events
        BY <4>1
      <4> QED BY <2>1, <4>1, <4>2 DEF InOrder
    <3>2. seen[i] # seen[j]
      BY <3>1, LaterOrders DEF WalkInv, Recorded
    <3> QED BY <3>1, <3>2 DEF WalkInv, Recorded
  <2>2. walk = "ended" => owed \subseteq {seen[i] : i \in DOMAIN seen}
    BY DEF WalkInv, Walked, Shown
  <2> QED BY <2>1, <2>2 DEF WalkShowsEachOnce
<1> QED BY <1>1, WalkInvHolds, PTL

\* The types that the walk does not speak of.
Typed ==
  /\ last_id \in 0 .. MaxIds
  /\ walk \in {"not begun", "going on", "ended"}
  /\ walk # "going on" => cursor = {}

LEMMA ReadTyped ==
  ASSUME NEW rows, NEW limit, read_page(rows, limit)
  PROVE  /\ walk' \in {"going on", "ended"}
         /\ walk' # "going on" => cursor' = {}
BY DEF read_page

LEMMA StepsTyped ==
  ASSUME Typed, [DoorEventsNext]_doorevents
  PROVE  Typed'
<1>1. CASE UNCHANGED doorevents
  BY <1>1 DEF doorevents, events, reading, Typed
<1>2. ASSUME NEW e \in Entries, NEW t \in Times, Happens(e, t) PROVE Typed'
  BY <1>2 DEF Happens, reading, Typed
<1>3. ASSUME NEW e \in Entries, record_event(e) PROVE Typed'
  <2>1. last_id' = last_id + 1 /\ last_id < MaxIds /\ last_id \in 0 .. MaxIds
    BY <1>3 DEF record_event, Typed
  <2>2. last_id' \in 0 .. MaxIds
    BY <2>1, DoorEventsAssumption
  <2> QED BY <1>3, <2>2 DEF record_event, reading, Typed
<1>4. ASSUME NEW r \in open, NEW commits \in BOOLEAN, RecordingEnds(r, commits)
      PROVE  Typed'
  BY <1>4 DEF RecordingEnds, reading, Typed
<1>5. ASSUME NEW limit \in 1 .. MaxLimit, FirstPage(limit) \/ LaterPage(limit)
      PROVE  Typed'
  <2>1. last_id' = last_id
    BY <1>5 DEF FirstPage, LaterPage, events
  <2>2. \E rows : read_page(rows, limit)
    BY <1>5 DEF FirstPage, LaterPage
  <2> QED BY <2>1, <2>2, ReadTyped DEF Typed
<1>6. CASE ReadAgain
  BY <1>6 DEF ReadAgain, events, Typed
<1> QED BY <1>1, <1>2, <1>3, <1>4, <1>5, <1>6 DEF DoorEventsNext

\* The record of entries and its reader are well typed: a cursor is a row that
\* has been committed, and so is everything that was shown.
THEOREM DoorEventsTypes == MCSpec => []DoorEventsTypeOK
<1>1. MCInit => Typed
  <2>1. 0 \in 0 .. MaxIds
    BY DoorEventsAssumption
  <2> QED BY <2>1 DEF MCInit, DoorEventsInit, Typed
<1>2. Typed /\ [MCNext]_tabvars => Typed'
  <2> SUFFICES ASSUME Typed, [MCNext]_tabvars PROVE Typed'
    OBVIOUS
  <2>1. [DoorEventsNext]_doorevents
    BY DEF MCNext, SignsIn, tabvars
  <2> QED BY <2>1, StepsTyped
<1>3. Typed /\ WalkInv => DoorEventsTypeOK
  <2> SUFFICES ASSUME Typed, WalkInv PROVE DoorEventsTypeOK
    OBVIOUS
  <2>1. seen \in Seq(door_events) /\ owed \subseteq door_events
    BY DEF WalkInv, Walked
  <2>2. \A i \in DOMAIN seen : seen[i] \in door_events
    BY <2>1, ElementOfSeq, LenProperties
  <2>3. cursor \subseteq door_events
    <3>1. CASE walk = "going on"
      <4>1. seen # <<>> /\ cursor = {seen[Len(seen)]}
        BY <3>1 DEF WalkInv, Walked
      <4>2. Len(seen) \in DOMAIN seen
        BY <2>1, <4>1, EmptySeq, LenProperties
      <4> QED BY <2>2, <4>1, <4>2
    <3>2. CASE walk # "going on"
      BY <3>2 DEF Typed
    <3> QED BY <3>1, <3>2
  <2> QED BY <2>1, <2>2, <2>3 DEF DoorEventsTypeOK, Typed, WalkInv, Recorded
<1> QED BY <1>1, <1>2, <1>3, WalkInvHolds, PTL DEF MCSpec

=============================================================================
