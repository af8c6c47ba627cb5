-------------------------- MODULE MCOperatorTools --------------------------
(***************************************************************************)
(* The tools an operator runs, for TLC: configure.py, the two commands     *)
(* that make accounts, and what is run against the database.  No two of    *)
(* these groups read what another writes, so a behaviour has one of them,  *)
(* with the others as they are before or after they have run.              *)
(***************************************************************************)
EXTENDS Configure, SignIns, DatabaseTools

VARIABLE tools

toolvars == <<configuration, signins, databasetools, tools>>

NoAccountYet ==
  /\ used = {} /\ row = [p \in People |-> "none"]
  /\ person = CHOOSE p \in People : TRUE
  /\ SignInsInit

ServiceIsConfigured ==
  /\ projects = {"ours"} /\ door = {"ours"}
  /\ clients = [p \in Portals |-> {"ours"}] /\ wrong = {}
  /\ label = "marked" /\ shown = "marked"
  /\ catchers = 0 /\ sending = "none" /\ asked = "none"
  /\ register = TRUE /\ rest = "the lab's" /\ read = rest
  /\ file = "ours" /\ behind = {}
  /\ at = "configured" /\ portal = NPortals
  /\ before = [sending |-> "none", rest |-> rest]
  /\ byhand = FALSE /\ stops = 0 /\ hands = 0

Init ==
  /\ DatabaseToolsInit
  /\ \/ tools = "configure" /\ ConfigureInit /\ NoAccountYet
     \/ tools = "sign ins" /\ ServiceIsConfigured /\ SignInsInit
     \/ tools = "database" /\ ServiceIsConfigured /\ NoAccountYet

Configures(A) ==
  tools = "configure" /\ A /\ UNCHANGED <<signins, databasetools, tools>>

Next ==
  \/ Configures(ConfigureNext)
  \/ /\ tools = "sign ins"
     /\ SignInsNext
     /\ UNCHANGED <<configuration, databasetools, tools>>
  \/ /\ tools = "database"
     /\ DatabaseToolsNext
     /\ UNCHANGED <<configuration, signins, tools>>

\* configure.py goes on until it ends, is run again, and the projection follows.
Spec ==
  /\ Init /\ [][Next]_toolvars
  /\ WF_toolvars(Configures(StartRun))
  /\ WF_toolvars(Configures(RunsOn))
  /\ WF_toolvars(Configures(CatchUp))

TypeOK == ConfigureTypeOK /\ SignInsTypeOK /\ DatabaseToolsTypeOK

=============================================================================
