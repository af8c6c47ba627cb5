----------------------------- MODULE Configure -----------------------------
(***************************************************************************)
(* tools/identity/configure.py against the identity service: the project,  *)
(* one client per portal, the door service account, the branding, the mail *)
(* server and self registration.  A run may stop before any call and may   *)
(* not hear the answer to one, and is run again.  The service answers      *)
(* reads from a projection that follows its writes; what somebody does by  *)
(* hand in its console is in the projection at once (a bound): a relay, the *)
(* login policy, a client's configuration or its name.  Nobody removes     *)
(* anything, or renames the project or the door service account (a bound). *)
(***************************************************************************)
EXTENDS Naturals, FiniteSets

CONSTANTS NPortals,    \* clients.PORTALS; the first one reads a file
          MaxStops,    \* bound: runs that stop on the way
          MaxByHand    \* bound: changes made by hand

ASSUME ConfigureAssumption ==
  NPortals \in Nat \ {0} /\ MaxStops \in Nat /\ MaxByHand \in Nat

VARIABLES projects,    \* the identifiers a project of our name is held under
          clients,     \* the same, for each portal
          wrong,       \* <<portal, identifier, what>> that is not as wanted
          door,        \* the identifiers of the door service account
          label,       \* how far the branding is stored
          shown,       \* what of it the screens show
          catchers,    \* providers registered for the catcher
          sending,     \* the one that is active
          register,    \* allowRegister
          rest,        \* everything else in the login policy
          file,        \* whose client id apps/members/identity.json names
          behind,      \* writes that reads do not show yet
          asked,       \* --mail-host
          at,          \* where the run is
          portal,      \* the portal it is at
          read,        \* the rest of the policy, as the run read it
          before,      \* kept for the properties: as the run found it
          byhand,      \* somebody has changed something since the run began
          stops, hands \* counters for the bounds

service == <<projects, clients, wrong, door, label, shown, catchers, sending,
             register, rest>>
running == <<portal, read, before, byhand, asked>>
configuration == <<service, file, behind, running, at, stops, hands>>

Portals == 1 .. NPortals
Ids == {"ours", "older"}    \* chosen here, or generated for an older version
Whats == {"configuration", "name"}
Writes == {"project", "door", "catcher", "sending", "register"} \X {0}
            \cup {"created", "corrected"} \X Portals
Places == {"organisation", "project", "client", "file", "door", "branding",
           "activate branding", "mail", "write the catcher", "activate mail",
           "policy", "write policy"}
Ended == {"not run", "refused", "configured"}

-----------------------------------------------------------------------------
(* Calls.                                                                  *)

\* What a read of something may show.
Shows(what, p) == IF <<what, p>> \in behind THEN BOOLEAN ELSE {TRUE}

\* A call is answered, or the run ends without an answer to it.
Then(place, heard) ==
  /\ heard \/ stops < MaxStops
  /\ at' = IF heard THEN place ELSE "refused"
  /\ stops' = IF heard THEN stops ELSE stops + 1
  /\ UNCHANGED hands

Goes(place) == Then(place, TRUE)
Written(what, p) == behind' = behind \cup {<<what, p>>}

\* The run is stopped, or the service refuses a call or cannot be reached.
Stops ==
  /\ at \in Places
  /\ Then(at, FALSE)
  /\ UNCHANGED <<service, file, behind, running>>

StartRun ==
  /\ at \in Ended
  /\ Goes("organisation")
  /\ portal' = 1
  /\ read' = rest
  /\ before' = [sending |-> sending, rest |-> rest]
  /\ byhand' = FALSE
  /\ UNCHANGED <<service, file, behind, asked>>

\* More organisations than one is one of the refusals of Stops.
organisation ==
  /\ at = "organisation"
  /\ Goes("project")
  /\ UNCHANGED <<service, file, behind, running>>

-----------------------------------------------------------------------------
(* The project, the clients and the door service account.                  *)

\* Faulty: the project is looked for under our identifier only.
ensure_ours(heard) ==
  /\ at = "project"
  /\ IF "ours" \in projects
     THEN Goes("client") /\ UNCHANGED <<projects, behind>>
     ELSE /\ Then("client", heard)
          /\ projects' = projects \cup {"ours"}
          /\ Written("project", 0)
  /\ UNCHANGED <<clients, wrong, door, label, shown, catchers, sending, register,
                 rest, file, running>>

\* By our identifier, then by name, and only then created.
ensure_project(heard) ==
  /\ at = "project"
  /\ \E seen \in Shows("project", 0) :
       IF "older" \in projects \/ ("ours" \in projects /\ seen)
       THEN Goes("client") /\ UNCHANGED <<projects, behind>>
       ELSE IF "ours" \in projects    \* the create is refused
       THEN Goes("refused") /\ UNCHANGED <<projects, behind>>
       ELSE /\ Then("client", heard)
            /\ projects' = projects \cup {"ours"}
            /\ Written("project", 0)
  /\ UNCHANGED <<clients, wrong, door, label, shown, catchers, sending, register,
                 rest, file, running>>

HasFile(p) == p = 1
AfterPortal(p) == IF p < NPortals THEN "client" ELSE "door"

\* A client of an older version that somebody has given another name.
Renamed(p) == <<p, "older", "name">> \in wrong

\* By our identifier, then by its exact name.
held_application(p, seen) ==
  IF "ours" \in clients[p] /\ seen THEN "ours"
  ELSE IF "older" \in clients[p] /\ ~Renamed(p) THEN "older" ELSE "none"

NextPortal(p, heard) ==
  /\ Then(IF HasFile(p) THEN "file" ELSE AfterPortal(p), heard)
  /\ portal' = IF heard /\ ~HasFile(p) /\ p < NPortals THEN p + 1 ELSE p
  /\ UNCHANGED <<read, before, byhand, asked>>

differences(p, held) == {what \in Whats : <<p, held, what>> \in wrong}

\* What an update puts right: the name is sent only when it differs.
corrects(p, held) == differences(p, held)

\* Made and read back, or corrected.  A read that is behind has a create or a
\* correction made again, which the service refuses.  A client that was renamed
\* is not found, and another is made beside it.
ensure_app(heard) ==
  LET p == portal IN
  /\ at = "client"
  /\ \E seen \in Shows("created", p), right \in Shows("corrected", p) :
       LET held == held_application(p, seen) IN
       CASE held = "none" /\ "ours" \notin clients[p] ->
              /\ clients' = [clients EXCEPT ![p] = @ \cup {"ours"}]
              /\ Written("created", p)
              /\ NextPortal(p, heard)
              /\ UNCHANGED wrong
         [] held # "none" /\ right ->
              /\ wrong' = wrong \ ({p} \X {held} \X corrects(p, held))
              /\ behind' = IF corrects(p, held) = {} THEN behind
                           ELSE behind \cup {<<"corrected", p>>}
              /\ NextPortal(p, heard)
              /\ UNCHANGED clients
         [] OTHER ->
              Goes("refused") /\ UNCHANGED <<clients, wrong, behind, running>>
  /\ UNCHANGED <<projects, door, label, shown, catchers, sending, register, rest,
                 file>>

\* The client the run has found or made.  A tree that cannot be written to does
\* not stop the run.
write_configuration(writable) ==
  /\ at = "file"
  /\ file' = IF ~writable THEN file
             ELSE IF "ours" \in clients[portal] THEN "ours" ELSE "older"
  /\ Goes(AfterPortal(portal))
  /\ portal' = IF portal < NPortals THEN portal + 1 ELSE portal
  /\ UNCHANGED <<service, behind, read, before, byhand, asked>>

\* Faulty: a login name that is taken ends the run.
TakenEndsTheRun == "refused"

\* An account that is there already, under whichever identifier, is enough.
TakenIsThere == "branding"

ensure_door_service(heard) ==
  /\ at = "door"
  /\ \E seen \in Shows("door", 0) :
       IF "ours" \in door /\ seen
       THEN Goes("branding") /\ UNCHANGED <<door, behind>>
       ELSE IF door # {}
       THEN Goes(TakenIsThere) /\ UNCHANGED <<door, behind>>
       ELSE /\ Then("branding", heard)
            /\ door' = {"ours"}
            /\ Written("door", 0)
  /\ UNCHANGED <<projects, clients, wrong, label, shown, catchers, sending,
                 register, rest, file, running>>

-----------------------------------------------------------------------------
(* Branding, mail and self registration.                                   *)

\* The policy, then the four pictures.
apply_branding(heard) ==
  /\ at = "branding"
  /\ Then("activate branding", heard)
  /\ label' = IF heard THEN "marked" ELSE "policy"
  /\ UNCHANGED <<projects, clients, wrong, door, shown, catchers, sending,
                 register, rest, file, behind, running>>

activate_branding(heard) ==
  /\ at = "activate branding"
  /\ Then(IF asked = "none" THEN "policy" ELSE "mail", heard)
  /\ shown' = label
  /\ UNCHANGED <<projects, clients, wrong, door, label, catchers, sending,
                 register, rest, file, behind, running>>

point_at(active, there) ==
  CASE active = "relay" -> "refused"
    [] active = "catcher" -> "policy"
    [] OTHER -> IF there THEN "activate mail" ELSE "write the catcher"

\* The providers are read once.
LookAtMail ==
  /\ at = "mail"
  /\ \E there \in Shows("catcher", 0), active \in Shows("sending", 0) :
       Goes(point_at(IF active THEN sending ELSE "none", there /\ catchers > 0))
  /\ UNCHANGED <<service, file, behind, running>>

\* Bound: providers for one host are counted so far.
Many == 2

\* A list that is behind has a second provider made beside the first.
write_the_catcher(heard) ==
  /\ at = "write the catcher"
  /\ Then("activate mail", heard)
  /\ catchers' = IF catchers < Many THEN catchers + 1 ELSE Many
  /\ Written("catcher", 0)
  /\ UNCHANGED <<projects, clients, wrong, door, label, shown, sending, register,
                 rest, file, running>>

\* Activating one deactivates the other.
activate(heard) ==
  /\ at = "activate mail"
  /\ Then("policy", heard)
  /\ sending' = "catcher"
  /\ Written("sending", 0)
  /\ UNCHANGED <<projects, clients, wrong, door, label, shown, catchers, register,
                 rest, file, running>>

LookAtPolicy ==
  /\ at = "policy"
  /\ \E seen \in Shows("register", 0) :
       Goes(IF register /\ seen THEN "configured" ELSE "write policy")
  /\ read' = rest
  /\ UNCHANGED <<service, file, behind, portal, before, byhand, asked>>

\* Faulty: allowRegister is sent on its own.
OnItsOwn == "cleared"

\* Every field the update takes, as it was read.
HandedBack == read

\* The update replaces the whole policy.
open_self_registration(heard) ==
  /\ at = "write policy"
  /\ Then("configured", heard)
  /\ register' = TRUE
  /\ rest' = HandedBack
  /\ Written("register", 0)
  /\ UNCHANGED <<projects, clients, wrong, door, label, shown, catchers, sending,
                 file, running>>

-----------------------------------------------------------------------------
(* The service and the people who have its console open.                   *)

\* The projection has followed every write; until then a read of one may show
\* it or not.
CatchUp ==
  /\ behind # {}
  /\ behind' = {}
  /\ UNCHANGED <<service, file, running, at, stops, hands>>

Hand(what, p) ==
  /\ hands < MaxByHand
  /\ hands' = hands + 1
  /\ byhand' = TRUE
  /\ behind' = behind \ {<<what, p>>}
  /\ UNCHANGED <<projects, clients, door, label, shown, catchers, file, portal,
                 read, before, asked, at, stops>>

RelayIsSetUp ==
  /\ sending' = "relay"
  /\ UNCHANGED <<wrong, register, rest>>
  /\ Hand("sending", 0)

PolicyIsChanged(open) ==
  /\ rest' = "changed"
  /\ register' = open
  /\ UNCHANGED <<wrong, sending>>
  /\ Hand("register", 0)

ClientIsChanged(p, id, what) ==
  /\ id \in clients[p]
  /\ wrong' = wrong \cup {<<p, id, what>>}
  /\ UNCHANGED <<sending, register, rest>>
  /\ Hand("corrected", p)

ConfigureInit ==
  /\ projects \in {{}, {"older"}}
  /\ \E p \in 0 .. NPortals :    \* the older version stopped after p of them
       clients = [q \in Portals |->
                    IF projects # {} /\ q <= p THEN {"older"} ELSE {}]
  /\ wrong = {}
  /\ door \in {{}, {"older"}}
  /\ label = "none" /\ shown = "none"
  /\ catchers = 0
  /\ sending \in {"none", "relay"}
  /\ register \in BOOLEAN
  /\ rest = "the lab's"
  /\ file = "none"
  /\ behind = {}
  /\ asked \in {"none", "catcher"}
  /\ at = "not run" /\ portal = 1 /\ read = rest
  /\ before = [sending |-> sending, rest |-> rest]
  /\ byhand = FALSE /\ stops = 0 /\ hands = 0

RunsOn ==
  \/ organisation
  \/ \E heard \in BOOLEAN :
       \/ ensure_project(heard)
       \/ ensure_app(heard)
       \/ ensure_door_service(heard)
       \/ apply_branding(heard)
       \/ activate_branding(heard)
       \/ write_the_catcher(heard)
       \/ activate(heard)
       \/ open_self_registration(heard)
  \/ \E writable \in BOOLEAN : write_configuration(writable)
  \/ LookAtMail
  \/ LookAtPolicy

ConfigureNext ==
  \/ StartRun
  \/ RunsOn
  \/ Stops
  \/ CatchUp
  \/ RelayIsSetUp
  \/ \E open \in BOOLEAN : PolicyIsChanged(open)
  \/ \E p \in Portals, id \in Ids, what \in Whats : ClientIsChanged(p, id, what)

-----------------------------------------------------------------------------
(* Properties.                                                             *)

ConfigureTypeOK ==
  /\ projects \in SUBSET Ids
  /\ clients \in [Portals -> SUBSET Ids]
  /\ wrong \in SUBSET (Portals \X Ids \X Whats)
  /\ door \in SUBSET Ids
  /\ {label, shown} \subseteq {"none", "policy", "marked"}
  /\ catchers \in 0 .. Many
  /\ {sending, before.sending} \subseteq {"none", "catcher", "relay"}
  /\ register \in BOOLEAN
  /\ {rest, read, before.rest} \subseteq {"the lab's", "changed"}
  /\ file \in Ids \cup {"none"}
  /\ behind \in SUBSET Writes
  /\ asked \in {"none", "catcher"}
  /\ at \in Places \cup Ended
  /\ portal \in Portals
  /\ byhand \in BOOLEAN
  /\ stops \in 0 .. MaxStops
  /\ hands \in 0 .. MaxByHand

\* However often a run stops and is made again, behind a projection or not,
\* there is one project, one client for each portal and one door service
\* account: a second one would leave the portals at one nothing writes to
\* (registrations.py:58-61).  A second client is made beside one of an older
\* version only after somebody has renamed that (registrations.py:70-77).
OneOfEach ==
  /\ Cardinality(projects) <= 1
  /\ Cardinality(door) <= 1
  /\ \A p \in Portals : Cardinality(clients[p]) <= 1 \/ Renamed(p)

\* A run that says it has configured the service has: everything it registers
\* is there, each portal has a client as asked, the mark is on the screens, mail
\* goes out where it was asked to, the Register button is on
\* (configure.py:128-148).  The only client that is not as asked is one of an
\* older version under another name.  What it was not asked to touch is as it
\* found it: a relay of the lab's still sends (mail.py:71-88), and the rest of the
\* login policy is what it was (login_policy.py:37-41).
ConfiguredMeansWanted ==
  at = "configured" /\ ~byhand =>
    /\ projects # {} /\ door # {}
    /\ \A p \in Portals : \E id \in clients[p] : differences(p, id) = {}
    /\ \A p \in Portals, id \in Ids :
         differences(p, id) # {} => id = "older" /\ Renamed(p)
    /\ file # "none" => file \in clients[1]
    /\ shown = "marked"
    /\ asked = "catcher" => sending = "catcher"
    /\ before.sending = "relay" => sending = "relay"
    /\ register
    /\ rest = before.rest

\* A run that stopped is made again and ends configured, whatever it had left
\* behind, unless it is asked to send where the lab has set up a relay
\* (configure.py:19-23, clients.py:113-118).
RunAgainSettles ==
  <>(at = "configured") \/ (asked = "catcher" /\ <>[](sending = "relay"))

=============================================================================
