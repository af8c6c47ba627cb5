----------------------------- MODULE SeatLedger -----------------------------
(***************************************************************************)
(* What the two approver rule promises, with no rows, triggers, policies   *)
(* or dates in it: a few seats that are given to admins without anybody's  *)
(* decision, each once, and a latch.  When the seats are given the latch   *)
(* is set, and it stays; from then on nobody is given admin but by a       *)
(* decision about them that two different people have made, and a decision *)
(* made from then on is made by two who are admins.                        *)
(***************************************************************************)
EXTENDS Naturals

CONSTANTS Members, Quota

VARIABLES holders,   \* members with a grant that is neither revoked nor expired
          gone,      \* members whose record is removed
          seats,     \* grants that no approval is behind
          armed,     \* the latch
          decided,   \* what was approved, and by whom
          carried    \* the import has run

ledger == <<holders, gone, seats, armed, decided, carried>>

Init ==
  /\ holders = {} /\ gone = {} /\ seats = 0
  /\ armed = FALSE /\ decided = {} /\ carried = FALSE

\* A latch may be set with anything that is given or taken.
Latches == armed' \in BOOLEAN /\ (armed => armed')

Decide(m, p, d) ==
  /\ p # d
  /\ armed => {p, d} \subseteq holders \ gone
  /\ decided' = decided \cup {[target |-> m, by |-> {p, d}]}
  /\ UNCHANGED <<holders, gone, seats, armed, carried>>

\* A grant may have expired as it is given.
Appoint(m) ==
  /\ armed => \E d \in decided : d.target = m
  /\ holders' \in {holders, holders \cup {m}}
  /\ \/ seats' = seats
     \/ ~armed /\ seats < Quota /\ seats' = seats + 1
  /\ Latches /\ (seats' = Quota => armed')
  /\ UNCHANGED <<gone, decided, carried>>

\* Grants are revoked or expire.
Leave ==
  /\ holders' \subseteq holders
  /\ Latches
  /\ UNCHANGED <<gone, seats, decided, carried>>

\* The import brings members nobody has heard of, once.
Carry(people) ==
  /\ ~carried /\ carried' = TRUE
  /\ people \cap (holders \cup gone) = {}
  /\ holders' = holders \cup people
  /\ Latches
  /\ UNCHANGED <<gone, seats, decided>>

\* A member who comes back is an admin again if they still have a grant.
ComeOrGo(m) ==
  /\ gone' \in {gone \cup {m}, gone \ {m}}
  /\ UNCHANGED <<holders, seats, armed, decided, carried>>

Next ==
  \/ \E m, p, d \in Members : Decide(m, p, d)
  \/ \E m \in Members : Appoint(m) \/ ComeOrGo(m)
  \/ Leave
  \/ \E people \in SUBSET Members : Carry(people)

Spec == Init /\ [][Next]_ledger

=============================================================================
