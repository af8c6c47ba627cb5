--------------------------- MODULE MCFirstSignIn ---------------------------
(***************************************************************************)
(* Instances of FirstSignIn and DoorEvents for TLC: what a member's tab    *)
(* asks of the API that is spread over statements or requests.  No two of  *)
(* these read what another writes, so a behaviour has one of them.         *)
(***************************************************************************)
EXTENDS FirstSignIn, DoorEvents

CONSTANTS Known,      \* the subject whose account has the legacy address
          OtherEmail  \* every other subject's address

VARIABLE asking

tabvars == <<vars, doorevents, asking>>

MCAddressOf ==
  [s \in Subjects |-> IF s = Known THEN LegacyEmail ELSE OtherEmail]

MCInit ==
  /\ Init
  /\ DoorEventsInit
  /\ asking \in {"POST /me", "GET /me/door-events"}
  /\ asking = "GET /me/door-events" => roled = {}

SignsIn(A) == asking = "POST /me" /\ A /\ UNCHANGED <<doorevents, asking>>

MCNext ==
  \/ SignsIn(Next)
  \/ /\ asking = "GET /me/door-events"
     /\ DoorEventsNext
     /\ UNCHANGED <<vars, asking>>

\* The fairness of FairSpec.
MCSpec ==
  /\ MCInit /\ [][MCNext]_tabvars
  /\ \A q \in Requests : /\ WF_tabvars(SignsIn(RunsOn(q)))
                         /\ WF_tabvars(SignsIn(DeadlockVictim(q)))

=============================================================================
