-------------------------- MODULE MCMembersPortal ---------------------------
(***************************************************************************)
(* The instance of MembersPortal for TLC.  Two requests at once can cross, *)
(* or wait for one renewal; of two views one can be left and come back to; *)
(* of two texts one is old; and two refresh tokens make one renewal that   *)
(* comes to something and one that does not.  One request at a time is     *)
(* astray, and only while the token is fresh and the member neither signs  *)
(* in nor has signed out.                                                  *)
(***************************************************************************)
EXTENDS MembersPortal

MCNext == Next /\ (astray' # {} => ~aged' /\ ~started' /\ ~out')

\* The fairness of FairSpec.
MCSpec ==
  /\ Init /\ [][MCNext]_vars
  /\ \A t \in Tasks : WF_vars(Hears(t) \/ GivenUp(t))
  /\ WF_vars(\E heard \in BOOLEAN : RenewalEnds(heard))

=============================================================================
