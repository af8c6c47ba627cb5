------------------------ MODULE OperatorToolsProofs -------------------------
(***************************************************************************)
(* Proofs about the tools an operator runs, for any number of portals,     *)
(* people, accounts and files, and however often they are stopped and made *)
(* again.  No two groups of them read what another writes, so each has an  *)
(* invariant of its own, kept by its own steps and by everybody else's.    *)
(***************************************************************************)
EXTENDS MCOperatorTools, FiniteSetTheorems, TLAPS

\* A step of the whole is a step of one group and leaves the others alone.
LEMMA OneGroupSteps ==
  ASSUME [Next]_toolvars
  PROVE  /\ [ConfigureNext]_configuration
         /\ [SignInsNext]_signins
         /\ [DatabaseToolsNext]_databasetools
BY DEF Next, Configures, toolvars

-----------------------------------------------------------------------------
(* restore.sh: what it says, and what it leaves behind.                    *)

\* Where the script and the process it started can be, one against the other.
\* Nothing is told before the script is stopped or at its end, and a process goes
\* on after something is told only where the script is out of touch with it.
InTouch ==
  /\ script \in {"present", "count", "roles", "start"} => inside = "none"
  /\ script = "counting back" => inside = "ended well"
  /\ script \in {"present", "count", "roles", "start", "waiting", "counting back"} =>
       told = "nothing" /\ ~deaf
  /\ ~deaf /\ told # "nothing" => inside \in Over \cup {"ended well"}

\* What the restore has committed is what its process has got to.
LandedInside == landed <=> inside \in {"committed", "ended well"}

RestoreInv ==
  /\ script \in ScriptPlaces /\ inside \in InsidePlaces
  /\ landed \in BOOLEAN /\ deaf \in BOOLEAN
  /\ InTouch /\ LandedInside /\ ToldIsTrue

LEMMA InitRestoreInv == DatabaseToolsInit => RestoreInv /\ CopyIsWatched
BY DEF DatabaseToolsInit, RestoreInv, InTouch, LandedInside, ToldIsTrue, ScriptRuns,
       InsideRuns, CopyIsWatched, ScriptPlaces, InsidePlaces, Over

\* Wherever its process goes on to, nothing has been told or the script is out of
\* touch with it.
LEMMA InsideGoesOn ==
  ASSUME RestoreInv, InsideRuns, inside # "rolled back",
         inside' \in InsidePlaces \ {"none"},
         UNCHANGED <<script, told, deaf>>,
         landed' \in BOOLEAN, LandedInside'
  PROVE  RestoreInv'
<1>1. script \notin {"present", "count", "roles", "start", "counting back"}
  BY DEF RestoreInv, InTouch, InsideRuns
<1>2. told = "nothing" \/ deaf
  BY DEF RestoreInv, InTouch, InsideRuns, Over
<1>3. InTouch' /\ ToldIsTrue'
  BY <1>1, <1>2 DEF RestoreInv, InTouch, ToldIsTrue
<1> QED BY <1>3 DEF RestoreInv

\* No step of the three scripts, of the process in the container or of anybody
\* beside them breaks it.
LEMMA NextRestoreInv ==
  ASSUME RestoreInv, [DatabaseToolsNext]_databasetools
  PROVE  RestoreInv'
<1> USE DEF RestoreInv, InTouch, LandedInside, ToldIsTrue, ScriptRuns, InsideRuns,
            ScriptPlaces, InsidePlaces, Over
<1>0. ASSUME UNCHANGED <<script, told, inside, landed, deaf>>
      PROVE  RestoreInv'
  BY <1>0
<1>1. CASE StartSchema \/ ApplyFile \/ SchemaIsCut \/ CreateTheLoginRole \/ GrantOroApi
  BY <1>0, <1>1
  DEF StartSchema, ApplyFile, SchemaIsCut, CreateTheLoginRole, GrantOroApi, restoring,
      container, kept
<1>2. CASE \E answered \in BOOLEAN :
             \/ LookAtSchema(answered)
             \/ LookForTheLoginRole(answered)
             \/ Backup(answered)
  BY <1>0, <1>2
  DEF LookAtSchema, LookForTheLoginRole, Backup, restoring, container, kept
<1>3. CASE DatabaseIsDropped \/ \E m \in Patrons : Join(m)
  BY <1>0, <1>3 DEF DatabaseIsDropped, Join, restoring, container, kept
<1>4. CASE UNCHANGED databasetools
  BY <1>0, <1>4 DEF databasetools, restoring, container, kept
<1>5. CASE \E number \in 0 .. Cardinality(Patrons) : StartRestore(number)
  BY <1>5 DEF StartRestore
<1>6. CASE CreateIfAbsent
  BY <1>6 DEF CreateIfAbsent, GoesOnTo, container, kept
<1>7. CASE \E answered \in BOOLEAN : members_in_the_database(answered)
  <2>1. inside = "none" /\ ~deaf /\ ~landed /\ told = "nothing"
    BY <1>7 DEF members_in_the_database
  <2>2. inside' = inside /\ deaf' = deaf /\ landed' = landed
    BY <1>7 DEF members_in_the_database, container, kept
  <2>3. \/ script' = "cleaning" /\ told' = "refused"
        \/ script' = "roles" /\ told' = told
    BY <1>7 DEF members_in_the_database, GoesOnTo, EndsWith
  <2> QED BY <2>1, <2>2, <2>3
<1>8. CASE roles_the_archive_needs
  BY <1>8 DEF roles_the_archive_needs, GoesOnTo, EndsWith, container, kept
<1>9. CASE RestoreIsRefused
  BY <1>9 DEF RestoreIsRefused, EndsWith, container, kept
<1>10. CASE StartInside
  BY <1>10 DEF StartInside, GoesOnTo, kept
<1>11. CASE StartCopying \/ OpenCopy \/ Connect
  <2>1. InsideRuns /\ inside # "rolled back" /\ UNCHANGED <<script, told, deaf, landed>>
    BY <1>11 DEF StartCopying, OpenCopy, Connect, restoring, kept
  <2>2. inside' \in {"copying", "opened", "restoring", "rolled back", "ended badly"}
    BY <1>11 DEF StartCopying, OpenCopy, Connect
  <2>3. ~landed
    BY <1>11 DEF StartCopying, OpenCopy, Connect
  <2> QED BY <2>1, <2>2, <2>3, InsideGoesOn
<1>12. CASE CopyFails \/ RestoreFails
  <2>1. InsideRuns /\ inside # "rolled back" /\ UNCHANGED <<script, told, deaf, landed>>
    BY <1>12 DEF CopyFails, RestoreFails, restoring, kept
  <2>2. inside' \in {"rolled back", "ended badly"} /\ ~landed
    BY <1>12 DEF CopyFails, RestoreFails
  <2> QED BY <2>1, <2>2, InsideGoesOn
<1>13. CASE Land
  <2>1. InsideRuns /\ inside # "rolled back" /\ UNCHANGED <<script, told, deaf>>
    BY <1>13 DEF Land, restoring
  <2>2. inside' = "committed" /\ landed' = TRUE
    BY <1>13 DEF Land
  <2> QED BY <2>1, <2>2, InsideGoesOn
<1>14. CASE InsideEnds
  <2>1. UNCHANGED <<script, told, deaf, landed>>
    BY <1>14 DEF InsideEnds, restoring, kept
  <2>2. CASE inside = "rolled back"
    BY <1>14, <2>1, <2>2 DEF InsideEnds
  <2>3. CASE inside # "rolled back"
    <3>1. InsideRuns /\ inside' = "ended well" /\ landed
      BY <1>14, <2>3 DEF InsideEnds
    <3> QED BY <2>1, <2>3, <3>1, InsideGoesOn
  <2> QED BY <2>2, <2>3
<1>15. CASE WaitForIt
  BY <1>15 DEF WaitForIt, GoesOnTo, EndsWith, container, kept
<1>16. CASE WaitIsCut
  BY <1>16 DEF WaitIsCut, EndsWith
<1>17. CASE \E answered \in BOOLEAN : CountBack(answered)
  <2>1. inside = "ended well" /\ ~deaf /\ landed
    BY <1>17 DEF CountBack
  <2>2. inside' = inside /\ deaf' = deaf /\ landed' = landed
    BY <1>17 DEF CountBack, container, kept
  <2>3. script' = "cleaning" /\ told' \in {"restored", "nothing"}
    BY <1>17 DEF CountBack, EndsWith
  <2> QED BY <2>1, <2>2, <2>3
<1>18. CASE Signal
  BY <1>18 DEF Signal, GoesOnTo, kept
<1>19. CASE \E answered \in BOOLEAN : stopped(answered)
  <2>1. PICK answered \in BOOLEAN : stopped(answered)
    BY <1>19
  <2>2. /\ script' = "cleaning" /\ told' \in {"stopped with it", "stopped before"}
        /\ landed' = landed
    BY <2>1 DEF stopped, EndsWith
  <2>3. \/ inside' = inside
        \/ inside = "restoring" /\ inside' = "rolled back"
    BY <2>1 DEF stopped
  <2>4. /\ deaf' \in BOOLEAN
        /\ ~deaf' => inside' \in Over
    <3>1. deaf' = (inside \notin Over /\ ~(answered /\ present /\ inside = "restoring"))
      BY <2>1 DEF stopped
    <3>2. answered /\ present /\ inside = "restoring" => inside' = "rolled back"
      BY <2>1 DEF stopped
    <3> QED BY <2>3, <3>1, <3>2
  <2> QED BY <2>2, <2>3, <2>4
<1>20. CASE \E answered \in BOOLEAN : cleanup(answered)
  <2>1. script' = "idle" /\ UNCHANGED <<told, inside, landed, deaf>>
    BY <1>20 DEF cleanup, GoesOnTo
  <2> QED BY <2>1
<1>21. CASE Killed
  BY <1>21 DEF Killed, GoesOnTo
<1> QED
  BY <1>1, <1>2, <1>3, <1>4, <1>5, <1>6, <1>7, <1>8, <1>9, <1>10, <1>11, <1>12, <1>13,
     <1>14, <1>15, <1>16, <1>17, <1>18, <1>19, <1>20, <1>21
  DEF DatabaseToolsNext

\* Every step that takes the last one away who would remove the copy removes
\* it, or had no chance to.
LEMMA NextCopyIsWatched ==
  ASSUME CopyIsWatched, [DatabaseToolsNext]_databasetools
  PROVE  CopyIsWatched'
<1> USE DEF CopyIsWatched, ScriptRuns, InsideRuns
<1>1. ASSUME UNCHANGED <<script, inside, copy, stray>>
      PROVE  CopyIsWatched'
  BY <1>1
<1>2. CASE StartSchema \/ ApplyFile \/ SchemaIsCut \/ CreateTheLoginRole \/ GrantOroApi
  BY <1>1, <1>2
  DEF StartSchema, ApplyFile, SchemaIsCut, CreateTheLoginRole, GrantOroApi, restoring,
      container, kept
<1>3. CASE \E answered \in BOOLEAN :
             \/ LookAtSchema(answered)
             \/ LookForTheLoginRole(answered)
             \/ Backup(answered)
  BY <1>1, <1>3
  DEF LookAtSchema, LookForTheLoginRole, Backup, restoring, container, kept
<1>4. CASE DatabaseIsDropped \/ \E m \in Patrons : Join(m)
  BY <1>1, <1>4 DEF DatabaseIsDropped, Join, restoring, container, kept
<1>5. CASE \E number \in 0 .. Cardinality(Patrons) : StartRestore(number)
  BY <1>5 DEF StartRestore
<1>6. CASE CreateIfAbsent \/ StartInside
  BY <1>6 DEF CreateIfAbsent, StartInside, GoesOnTo
<1>7. CASE \E answered \in BOOLEAN :
             \/ members_in_the_database(answered)
             \/ CountBack(answered)
             \/ stopped(answered)
  BY <1>7 DEF members_in_the_database, CountBack, stopped, GoesOnTo, EndsWith
<1>8. CASE roles_the_archive_needs \/ RestoreIsRefused
  BY <1>8 DEF roles_the_archive_needs, RestoreIsRefused, GoesOnTo, EndsWith
<1>9. CASE WaitForIt \/ WaitIsCut
  BY <1>9 DEF WaitForIt, WaitIsCut, GoesOnTo, EndsWith
<1>10. CASE Signal \/ Killed
  BY <1>10 DEF Signal, Killed, GoesOnTo
<1>11. CASE \E answered \in BOOLEAN : cleanup(answered)
  BY <1>11 DEF cleanup
<1>12. CASE StartCopying \/ OpenCopy \/ Connect
  BY <1>12 DEF StartCopying, OpenCopy, Connect, restoring, kept
<1>13. CASE CopyFails \/ RestoreFails
  BY <1>13 DEF CopyFails, RestoreFails, restoring, kept
<1>14. CASE Land \/ InsideEnds
  BY <1>14 DEF Land, InsideEnds, restoring, kept
<1>15. CASE UNCHANGED databasetools
  BY <1>1, <1>15 DEF databasetools, restoring, container, kept
<1> QED
  BY <1>2, <1>3, <1>4, <1>5, <1>6, <1>7, <1>8, <1>9, <1>10, <1>11, <1>12, <1>13,
     <1>14, <1>15
  DEF DatabaseToolsNext

\* What restore.sh says of the database when it ends is so, wherever the script,
\* its process, the cluster or the operator gave out.
THEOREM WhatIsToldIsTrue == Spec => []ToldIsTrue
<1>1. Init => RestoreInv
  BY InitRestoreInv DEF Init
<1>2. RestoreInv /\ [Next]_toolvars => RestoreInv'
  BY OneGroupSteps, NextRestoreInv
<1>3. RestoreInv => ToldIsTrue
  BY DEF RestoreInv
<1> QED BY <1>1, <1>2, <1>3, PTL DEF Spec

\* The copy of the members database always has somebody who will remove it,
\* unless both who could are gone with no chance to.
THEOREM TheCopyIsWatched == Spec => []CopyIsWatched
<1>1. Init => CopyIsWatched
  BY InitRestoreInv DEF Init
<1>2. CopyIsWatched /\ [Next]_toolvars => CopyIsWatched'
  BY OneGroupSteps, NextCopyIsWatched
<1> QED BY <1>1, <1>2, PTL DEF Spec

-----------------------------------------------------------------------------
(* configure.py: one of each.                                              *)

AtMostOne == {{}, {"ours"}, {"older"}}

OneInv ==
  /\ projects \in AtMostOne /\ door \in AtMostOne
  /\ clients \in [Portals -> SUBSET Ids]
  /\ \A p \in Portals : clients[p] \in AtMostOne \/ Renamed(p)

\* At most one of two identifiers is at most one.
LEMMA AtMostOneCounted ==
  ASSUME NEW S \in AtMostOne
  PROVE  Cardinality(S) <= 1
<1>1. Cardinality({}) = 0
  BY FS_EmptySet
<1>2. Cardinality({"ours"}) = 1 /\ Cardinality({"older"}) = 1
  BY FS_Singleton
<1> QED BY <1>1, <1>2 DEF AtMostOne

-----------------------------------------------------------------------------
(* configure.py: what a run has got done by where it is.                   *)

\* The places of a run that come after the portals, after the door and after
\* the branding.
AfterPortals == {"door", "branding", "activate branding", "mail",
                 "write the catcher", "activate mail", "policy", "write policy",
                 "configured"}
AfterDoor == AfterPortals \ {"door"}
AfterBranding == AfterDoor \ {"branding", "activate branding"}
AtTheEnd == {"policy", "write policy", "configured"}

\* The portals a run has dealt with.
Done ==
  {p \in Portals : \/ at \in AfterPortals
                   \/ at = "client" /\ p < portal
                   \/ at = "file" /\ p <= portal}

\* What a run has passed is there.
Reached ==
  /\ portal \in Portals
  /\ at \in {"organisation", "project", "file"} => portal = 1
  /\ at \in {"client", "file"} \cup AfterPortals => projects # {}
  /\ at \in AfterDoor => door # {}

\* A client as it is wanted, with none that is not but one that was renamed.
AsWanted(p) ==
  /\ \E id \in clients[p] : \A what \in Whats : <<p, id, what>> \notin wrong
  /\ \A id \in Ids, what \in Whats :
       <<p, id, what>> \in wrong => id = "older" /\ Renamed(p)

\* A portal it has dealt with has a client, as it is wanted.
PortalsDone ==
  \A p \in Done : clients[p] # {} /\ (byhand = FALSE => AsWanted(p))

\* Only a client that is there can be wrong, or be named by the file.
OfClients ==
  /\ wrong \in SUBSET (Portals \X Ids \X Whats)
  /\ \A p \in Portals, id \in Ids, what \in Whats :
       <<p, id, what>> \in wrong => id \in clients[p]
  /\ file # "none" => file \in clients[1]

Registered == Reached /\ PortalsDone /\ OfClients

Branded ==
  /\ at = "activate branding" => label = "marked"
  /\ at \in AfterBranding => shown = "marked"

\* Where mail goes: a read of the active provider that is behind hides the
\* catcher and nothing else, so a relay is never taken for nothing.
Sends ==
  /\ <<"sending", 0>> \in behind => sending = "catcher"
  /\ byhand = FALSE =>
       /\ before.sending = "relay" => sending = "relay"
       /\ at \in {"write the catcher", "activate mail"} => sending # "relay"
       /\ at \in AtTheEnd /\ asked = "catcher" => sending = "catcher"

\* The login policy is written back as it was read, just before.
PolicyKept ==
  byhand = FALSE =>
    /\ rest = before.rest
    /\ at = "write policy" => read = rest
    /\ at = "configured" => register = TRUE

ConfigureInv ==
  byhand \in BOOLEAN /\ OneInv /\ Registered /\ Branded /\ Sends /\ PolicyKept

LEMMA InitConfigureInv ==
  ASSUME ConfigureInit \/ ServiceIsConfigured
  PROVE  ConfigureInv
<1> USE DEF AtMostOne, OneInv, Branded, Sends, PolicyKept, ConfigureInv, Registered
<1>1. NPortals \in Nat /\ 1 \in Portals /\ NPortals \in Portals
  BY ConfigureAssumption DEF Portals
<1>2. CASE ConfigureInit
  <2>1. Branded /\ Sends /\ PolicyKept
    BY <1>2 DEF ConfigureInit, AfterBranding, AfterDoor, AfterPortals, AtTheEnd
  <2>6. OneInv
    <3>1. /\ projects \in AtMostOne /\ door \in AtMostOne
          /\ clients \in [Portals -> {{}, {"older"}}]
      BY <1>2 DEF ConfigureInit
    <3> QED BY <3>1 DEF Ids
  <2>2. /\ portal = 1 /\ at = "not run" /\ wrong = {} /\ file = "none"
        /\ byhand = FALSE
    BY <1>2 DEF ConfigureInit
  <2>3. Done = {}
    BY <2>2 DEF Done, AfterPortals
  <2>4. Reached /\ PortalsDone /\ OfClients
    BY <1>1, <2>2, <2>3 DEF Reached, AfterPortals, AfterDoor, PortalsDone, OfClients
  <2> QED BY <2>1, <2>2, <2>4, <2>6
<1>3. CASE ServiceIsConfigured
  <2>1. Branded /\ Sends /\ PolicyKept
    BY <1>3 DEF ServiceIsConfigured, AtTheEnd
  <2>2. /\ portal = NPortals /\ at = "configured" /\ wrong = {} /\ file = "ours"
        /\ byhand = FALSE /\ projects = {"ours"} /\ door = {"ours"}
        /\ clients = [p \in Portals |-> {"ours"}]
    BY <1>3 DEF ServiceIsConfigured
  <2>3. OneInv
    BY <2>2 DEF Ids
  <2>4. Reached /\ OfClients
    BY <1>1, <2>2 DEF Reached, OfClients
  <2>5. PortalsDone
    BY <2>2 DEF PortalsDone, Done, AsWanted
  <2> QED BY <2>1, <2>2, <2>3, <2>4, <2>5
<1> QED BY <1>2, <1>3

\* Only a run makes anything, and only where it has found nothing.
LEMMA NextOneInv ==
  ASSUME OneInv, Registered, [ConfigureNext]_configuration
  PROVE  OneInv'
<1> USE DEF OneInv
<1>1. ASSUME UNCHANGED <<projects, clients, door>>, wrong \subseteq wrong' PROVE OneInv'
  BY <1>1 DEF Renamed
<1>2. CASE \E heard \in BOOLEAN : ensure_project(heard)
  BY <1>2 DEF ensure_project, AtMostOne, Renamed
<1>3. CASE \E heard \in BOOLEAN : ensure_app(heard)
  <2>1. UNCHANGED <<projects, door>> /\ portal \in Portals
    BY <1>3 DEF ensure_app, Registered, Reached
  <2>2. CASE /\ UNCHANGED wrong /\ "ours" \notin clients[portal]
             /\ "older" \in clients[portal] => Renamed(portal)
             /\ clients' = [clients EXCEPT ![portal] = @ \cup {"ours"}]
    <3>1. \A p \in Portals : Renamed(p)' <=> Renamed(p)
      BY <2>2 DEF Renamed
    <3>2. clients' \in [Portals -> SUBSET Ids]
      BY <2>2 DEF Ids
    <3>3. clients'[portal] = {"ours"} \/ Renamed(portal)
      BY <2>1, <2>2 DEF Ids
    <3> QED BY <2>1, <2>2, <3>1, <3>2, <3>3 DEF AtMostOne
  <2>3. CASE /\ UNCHANGED clients
             /\ \E app \in Ids :
                  /\ wrong' = wrong \ ({portal} \X {app} \X corrects(portal, app))
                  /\ app = "older" => ~Renamed(portal)
    <3>1. \A p \in Portals : Renamed(p) => Renamed(p)'
      BY <2>3 DEF Renamed
    <3> QED BY <2>1, <2>3, <3>1
  <2>4. CASE UNCHANGED <<clients, wrong>>
    BY <1>1, <2>1, <2>4
  <2> QED BY <1>3, <2>2, <2>3, <2>4 DEF ensure_app, held_application, Ids
<1>4. CASE \E heard \in BOOLEAN : ensure_door_service(heard)
  BY <1>4 DEF ensure_door_service, AtMostOne, Renamed
<1>5. CASE StartRun \/ organisation \/ LookAtMail \/ LookAtPolicy \/ Stops \/ CatchUp
  BY <1>1, <1>5
  DEF StartRun, organisation, LookAtMail, LookAtPolicy, Stops, CatchUp, service
<1>6. CASE \E heard \in BOOLEAN :
             apply_branding(heard) \/ activate_branding(heard)
             \/ write_the_catcher(heard) \/ activate(heard)
             \/ open_self_registration(heard)
  BY <1>1, <1>6
  DEF apply_branding, activate_branding, write_the_catcher, activate,
      open_self_registration
<1>7. CASE \E writable \in BOOLEAN : write_configuration(writable)
  BY <1>1, <1>7 DEF write_configuration, service
<1>8. CASE \/ RelayIsSetUp
           \/ \E open \in BOOLEAN : PolicyIsChanged(open)
           \/ \E p \in Portals, id \in Ids, what \in Whats : ClientIsChanged(p, id, what)
  BY <1>1, <1>8 DEF RelayIsSetUp, PolicyIsChanged, ClientIsChanged, Hand
<1>9. CASE UNCHANGED configuration
  BY <1>1, <1>9 DEF configuration, service
<1> QED
  BY <1>2, <1>3, <1>4, <1>5, <1>6, <1>7, <1>8, <1>9 DEF ConfigureNext, RunsOn

\* Each place of a run is reached with what comes before it done.
LEMMA NextRegistered ==
  ASSUME OneInv, Registered, [ConfigureNext]_configuration
  PROVE  Registered'
<1> USE ConfigureAssumption DEF Registered
<1>0. NPortals \in Nat /\ 1 \in Portals /\ portal \in Portals
  BY DEF Portals, Reached
\* A step that leaves what is registered alone, and deals with no portal.
<1>1. ASSUME UNCHANGED <<clients, wrong, file>>,
             Done' \subseteq Done, byhand' \in {byhand, TRUE}, Reached'
      PROVE  Registered'
  <2>1. PortalsDone'
    BY <1>1 DEF PortalsDone, AsWanted, Renamed
  <2>2. OfClients'
    BY <1>1 DEF OfClients
  <2> QED BY <1>1, <2>1, <2>2
\* A step after which none has been dealt with.
<1>2. ASSUME UNCHANGED <<clients, wrong, file>>, portal' = 1,
             at' \in {"organisation", "project", "client", "refused"}, Reached'
      PROVE  Registered'
  <2>1. Done' = {}
    <3>1. \A p \in Portals : p \in Int /\ ~(p < 1)
      BY <1>0 DEF Portals
    <3> QED BY <1>2, <3>1 DEF Done, AfterPortals
  <2>2. PortalsDone'
    BY <2>1 DEF PortalsDone
  <2>3. OfClients'
    BY <1>2 DEF OfClients
  <2> QED BY <1>2, <2>2, <2>3
<1>3. CASE StartRun
  <2>1. /\ portal' = 1 /\ at' = "organisation"
        /\ UNCHANGED <<projects, clients, wrong, door, file>>
    BY <1>3 DEF StartRun, Goes, Then, service
  <2>2. Reached'
    BY <1>0, <2>1 DEF Reached, AfterPortals, AfterDoor, Portals
  <2> QED BY <1>2, <2>1, <2>2
<1>4. CASE organisation
  <2>1. /\ portal' = 1 /\ at' = "project"
        /\ UNCHANGED <<projects, clients, wrong, door, file>>
    BY <1>4 DEF organisation, Goes, Then, service, running, Reached
  <2>2. Reached'
    BY <1>0, <2>1 DEF Reached, AfterPortals, AfterDoor, Portals
  <2> QED BY <1>2, <2>1, <2>2
<1>5. CASE \E heard \in BOOLEAN : ensure_project(heard)
  <2>1. /\ portal' = 1 /\ projects' # {} /\ at' \in {"client", "refused"}
        /\ UNCHANGED <<clients, wrong, door, file>>
    BY <1>5 DEF ensure_project, Goes, Then, running, Reached
  <2>2. Reached'
    BY <1>0, <2>1 DEF Reached, AfterPortals, AfterDoor, Portals
  <2> QED BY <1>2, <2>1, <2>2
<1>6. CASE \E heard \in BOOLEAN : ensure_app(heard)
  <2>1. PICK heard \in BOOLEAN : ensure_app(heard)
    BY <1>6
  <2>2. at = "client" /\ UNCHANGED <<projects, door, file, byhand>>
    BY <2>1 DEF ensure_app, running, NextPortal
  <2>3. clients[portal] \in SUBSET Ids
    BY <1>0 DEF OneInv
  \* The client is made where none is found, or the one that is is put right.
  <2>4. \/ /\ "ours" \notin clients[portal]
           /\ "older" \in clients[portal] => Renamed(portal)
           /\ clients' = [clients EXCEPT ![portal] = @ \cup {"ours"}]
           /\ wrong' = wrong
           /\ NextPortal(portal, heard)
        \/ \E app \in clients[portal] :
             /\ app = "older" => ~Renamed(portal)
             /\ clients' = clients
             /\ wrong' = wrong \ ({portal} \X {app} \X corrects(portal, app))
             /\ NextPortal(portal, heard)
        \/ at' = "refused" /\ UNCHANGED <<clients, wrong, portal>>
    BY <2>1 DEF ensure_app, held_application, Goes, Then, running
  <2>5. /\ wrong' \subseteq wrong
        /\ \A q \in Portals : clients[q] \subseteq clients'[q]
        /\ \A q \in Portals \ {portal} : clients'[q] = clients[q]
        /\ \A q \in Portals \ {portal}, id \in Ids, what \in Whats :
             <<q, id, what>> \in wrong' <=> <<q, id, what>> \in wrong
    BY <2>4 DEF OneInv
  <2>6. OfClients'
    BY <1>0, <2>2, <2>5 DEF OfClients
  <2>9. PICK p \in Portals : p = portal
    BY <1>0
  <2>7. CASE at' = "refused"
    <3>1. portal' \in Portals
      BY <1>0, <2>4, <2>7 DEF NextPortal, Then, HasFile, AfterPortal, Portals
    <3>2. Reached' /\ Done' = {}
      BY <2>2, <2>7, <3>1 DEF Reached, Done, AfterDoor, AfterPortals
    <3> QED BY <2>6, <3>2 DEF PortalsDone
  <2>8. CASE at' # "refused"
    <3>1. NextPortal(portal, heard) /\ heard
      BY <2>4, <2>8 DEF NextPortal, Then
    <3>2. clients'[portal] # {}
      BY <1>0, <2>4, <2>8 DEF OneInv
    <3>3. AsWanted(p)'
      <4>1. CASE /\ "ours" \notin clients[p]
                 /\ "older" \in clients[p] => Renamed(p)
                 /\ clients' = [clients EXCEPT ![p] = @ \cup {"ours"}]
                 /\ wrong' = wrong
        <5>1. "ours" \in clients'[p] /\ "ours" \in Ids
          BY <1>0, <2>9, <4>1 DEF OneInv, Ids
        <5>2. \A what \in Whats : <<p, "ours", what>> \notin wrong
          BY <1>0, <2>9, <4>1, <5>1 DEF OfClients
        <5>3. \A id \in Ids, what \in Whats :
                <<p, id, what>> \in wrong => id = "older" /\ Renamed(p)
          BY <1>0, <2>9, <4>1, <5>2 DEF OfClients, Ids
        <5> QED BY <4>1, <5>1, <5>2, <5>3 DEF AsWanted, Renamed
      <4>2. ASSUME NEW app \in clients[p],
                   app = "older" => ~Renamed(p), clients' = clients,
                   wrong' = wrong \ ({p} \X {app} \X corrects(p, app))
            PROVE  AsWanted(p)'
        <5>1. \A what \in Whats : <<p, app, what>> \notin wrong'
          BY <4>2 DEF corrects, differences
        <5>2. \A id \in Ids, what \in Whats :
                <<p, id, what>> \in wrong' => id \in clients[p] /\ id # app
          BY <1>0, <2>9, <2>5, <5>1 DEF OfClients
        <5>3. CASE app = "older"
          <6>1. clients[p] = {"older"}
            BY <1>0, <2>9, <4>2, <5>3 DEF OneInv, AtMostOne
          <6> QED BY <4>2, <5>1, <5>2, <5>3, <6>1 DEF AsWanted
        <5>4. CASE app # "older"
          <6>1. app = "ours"
            BY <2>3, <2>9, <5>4 DEF Ids
          <6>2. Renamed(p) => Renamed(p)'
            BY <4>2, <6>1 DEF Renamed
          <6>3. "older" \in clients[p] => Renamed(p)
            BY <1>0, <2>9, <6>1 DEF OneInv, AtMostOne
          <6>4. \A id \in Ids, what \in Whats :
                  <<p, id, what>> \in wrong' => id = "older" /\ Renamed(p)'
            BY <5>2, <6>1, <6>2, <6>3 DEF Ids
          <6> QED BY <4>2, <5>1, <6>4 DEF AsWanted
        <5> QED BY <5>3, <5>4
      <4> QED BY <2>4, <2>8, <2>9, <4>1, <4>2
    \* It goes on to the file, to the next portal, or past the last one.
    <3>4. \/ at' = "file" /\ portal = 1 /\ portal' = 1
          \/ at' = "client" /\ portal < NPortals /\ portal' = portal + 1
          \/ at' = "door" /\ portal = NPortals /\ portal' = portal
      BY <1>0, <3>1 DEF NextPortal, Then, HasFile, AfterPortal, Portals
    <3>5. portal' \in Portals
      BY <1>0, <3>4 DEF Portals
    <3>6. Reached'
      BY <2>2, <3>4, <3>5 DEF Reached, AfterDoor, AfterPortals
    <3>7. \A q \in Portals : q < portal + 1 => q < portal \/ q = portal
      BY <1>0 DEF Portals
    <3>8. \A q \in Portals : q <= portal => q < portal \/ q = portal
      BY <1>0 DEF Portals
    <3>9. \A q \in Portals : q <= NPortals
      BY <1>0 DEF Portals
    <3>10. Done' \subseteq Done \cup {portal}
      BY <2>2, <3>4, <3>7, <3>8, <3>9 DEF Done, AfterPortals
    <3>12. ASSUME NEW q \in Portals, q # portal, clients[q] # {},
                  byhand = FALSE => AsWanted(q)
           PROVE  clients'[q] # {} /\ (byhand' = FALSE => AsWanted(q)')
      <4>1. "older" \in Ids /\ "name" \in Whats
        BY DEF Ids, Whats
      <4>2. Renamed(q)' <=> Renamed(q)
        BY <2>5, <3>12, <4>1 DEF Renamed
      <4>3. clients'[q] = clients[q] /\ clients[q] \subseteq Ids
        BY <2>5, <3>12 DEF OneInv
      <4> QED BY <2>2, <2>5, <3>12, <4>2, <4>3 DEF AsWanted
    <3>11. PortalsDone'
      BY <2>2, <2>9, <3>2, <3>3, <3>10, <3>12 DEF PortalsDone, Done
    <3> QED BY <2>6, <3>6, <3>11
  <2> QED BY <2>7, <2>8
<1>7. CASE \E writable \in BOOLEAN : write_configuration(writable)
  <2>1. /\ at = "file" /\ portal = 1
        /\ UNCHANGED <<projects, clients, wrong, door, byhand>>
        /\ file' \in {file, IF "ours" \in clients[portal] THEN "ours" ELSE "older"}
        /\ \/ at' = "client" /\ 1 < NPortals /\ portal' = 2
           \/ at' = "door" /\ 1 = NPortals /\ portal' = 1
    BY <1>0, <1>7 DEF write_configuration, service, Goes, Then, AfterPortal, Reached,
                      Portals
  <2>2. portal' \in Portals /\ 1 \in Done
    BY <1>0, <2>1 DEF Portals, Done
  <2>3. Reached'
    BY <1>0, <2>1, <2>2 DEF Reached, AfterDoor, AfterPortals
  <2>4. \A q \in Portals : q < 2 \/ NPortals = 1 => q <= portal
    BY <1>0, <2>1 DEF Portals
  <2>5. Done' \subseteq Done
    <3> SUFFICES ASSUME NEW q \in Portals, q \in Done'
                 PROVE  q <= portal
      BY <2>1 DEF Done
    <3>1. q < 2 \/ NPortals = 1
      BY <2>1 DEF Done, AfterPortals
    <3> QED BY <2>4, <3>1
  <2>6. PortalsDone'
    BY <2>1, <2>5 DEF PortalsDone, AsWanted, Renamed
  <2>7. clients[1] \in SUBSET Ids /\ clients[1] # {}
    BY <1>0, <2>2 DEF OneInv, PortalsDone
  <2>8. OfClients'
    BY <2>1, <2>7 DEF OfClients, Ids
  <2> QED BY <2>3, <2>6, <2>8
<1>8. CASE \E heard \in BOOLEAN : ensure_door_service(heard)
  <2>1. /\ at = "door" /\ at' \in {"branding", "refused"} /\ door' # {}
        /\ UNCHANGED <<projects, clients, wrong, file, byhand, portal>>
    BY <1>8 DEF ensure_door_service, Goes, Then, running, TakenIsThere
  <2>2. Done' \subseteq Done
    BY <2>1 DEF Done, AfterPortals
  <2>3. Reached'
    BY <2>1 DEF Reached, AfterPortals, AfterDoor, Portals
  <2> QED BY <1>1, <2>1, <2>2, <2>3
<1>9. CASE \/ \E heard \in BOOLEAN :
                apply_branding(heard) \/ activate_branding(heard)
                \/ write_the_catcher(heard) \/ activate(heard)
                \/ open_self_registration(heard)
           \/ LookAtMail \/ LookAtPolicy
  <2>1. /\ at \in AfterDoor
        /\ UNCHANGED <<projects, clients, wrong, door, file, byhand, portal>>
    BY <1>9 DEF apply_branding, activate_branding, write_the_catcher, activate,
                open_self_registration, LookAtMail, LookAtPolicy, running, service,
                AfterDoor, AfterPortals
  <2>2. at' \in AfterDoor \cup {"refused"}
    BY <1>9 DEF apply_branding, activate_branding, write_the_catcher, activate,
                open_self_registration, LookAtMail, LookAtPolicy, Then, Goes, point_at,
                AfterDoor, AfterPortals
  <2>3. Done' \subseteq Done
    BY <2>1, <2>2 DEF Done, AfterDoor, AfterPortals
  <2>4. Reached'
    BY <2>1, <2>2 DEF Reached, AfterPortals, AfterDoor, Portals
  <2> QED BY <1>1, <2>1, <2>3, <2>4
<1>10. CASE Stops
  <2>1. /\ at' = "refused"
        /\ UNCHANGED <<projects, clients, wrong, door, file, byhand, portal>>
    BY <1>10 DEF Stops, Then, running, service
  <2>2. Done' \subseteq Done
    BY <2>1 DEF Done, AfterPortals
  <2>3. Reached'
    BY <2>1 DEF Reached, AfterPortals, AfterDoor, Portals
  <2> QED BY <1>1, <2>1, <2>2, <2>3
<1>11. CASE \/ CatchUp \/ UNCHANGED configuration
            \/ RelayIsSetUp \/ \E open \in BOOLEAN : PolicyIsChanged(open)
  <2>1. /\ UNCHANGED <<projects, clients, wrong, door, file, portal, at>>
        /\ byhand' \in {byhand, TRUE}
    BY <1>11 DEF CatchUp, configuration, running, service, RelayIsSetUp,
                 PolicyIsChanged, Hand
  <2>2. Done' \subseteq Done
    BY <2>1 DEF Done
  <2>3. Reached'
    BY <2>1 DEF Reached
  <2> QED BY <1>1, <2>1, <2>2, <2>3
<1>12. CASE \E p \in Portals, id \in Ids, what \in Whats : ClientIsChanged(p, id, what)
  <2>1. /\ UNCHANGED <<projects, clients, door, file, portal, at>>
        /\ byhand' = TRUE
    BY <1>12 DEF ClientIsChanged, Hand
  <2>2. \A p \in Portals, id \in Ids, what \in Whats :
          <<p, id, what>> \in wrong' => <<p, id, what>> \in wrong \/ id \in clients[p]
    BY <1>12 DEF ClientIsChanged
  <2>6. wrong' \in SUBSET (Portals \X Ids \X Whats)
    BY <1>12 DEF ClientIsChanged, OfClients
  <2>3. Reached'
    BY <2>1 DEF Reached
  <2>4. PortalsDone'
    BY <2>1 DEF PortalsDone, Done
  <2>5. OfClients'
    BY <2>1, <2>2, <2>6 DEF OfClients
  <2> QED BY <2>3, <2>4, <2>5
<1> QED
  BY <1>3, <1>4, <1>5, <1>6, <1>7, <1>8, <1>9, <1>10, <1>11, <1>12
  DEF ConfigureNext, RunsOn

\* Where the calls that register something go on to.
LEMMA WhereRegisteringGoes ==
  ASSUME NEW heard \in BOOLEAN,
         ensure_project(heard) \/ ensure_app(heard) \/ ensure_door_service(heard)
  PROVE  at' \in {"client", "file", "door", "branding", "refused"}
<1>1. CASE ensure_project(heard)
  BY <1>1 DEF ensure_project, Goes, Then
<1>2. CASE ensure_app(heard)
  <2>1. NextPortal(portal, heard) \/ at' = "refused"
    BY <1>2 DEF ensure_app, Goes, Then
  <2> QED BY <2>1 DEF NextPortal, AfterPortal, Then
<1>3. CASE ensure_door_service(heard)
  BY <1>3 DEF ensure_door_service, TakenIsThere, Goes, Then
<1> QED BY <1>1, <1>2, <1>3

\* The mark is stored before it is activated, and activated before anything
\* that comes after.
LEMMA NextBranded ==
  ASSUME Branded, [ConfigureNext]_configuration
  PROVE  Branded'
<1> USE DEF Branded, AfterBranding, AfterDoor, AfterPortals
<1>1. CASE StartRun \/ organisation \/ LookAtMail \/ LookAtPolicy \/ Stops
  <2>1. UNCHANGED <<label, shown>> /\ at' # "activate branding"
    BY <1>1 DEF StartRun, organisation, LookAtMail, LookAtPolicy, Stops, Goes, Then,
                point_at, service
  <2>2. at' \in AfterBranding => at \in AfterBranding
    BY <1>1 DEF StartRun, organisation, LookAtMail, LookAtPolicy, Stops, Goes, Then
  <2> QED BY <2>1, <2>2
<1>2. CASE \E heard \in BOOLEAN :
             \/ ensure_project(heard) \/ ensure_app(heard)
             \/ ensure_door_service(heard)
  <2>1. UNCHANGED <<label, shown>>
    BY <1>2 DEF ensure_project, ensure_app, ensure_door_service
  <2>2. at' \in {"client", "file", "door", "branding", "refused"}
    BY <1>2, WhereRegisteringGoes
  <2> QED BY <2>1, <2>2
<1>3. CASE \E heard \in BOOLEAN : apply_branding(heard)
  <2>1. \/ at' = "activate branding" /\ label' = "marked"
        \/ at' = "refused"
    BY <1>3 DEF apply_branding, Then
  <2> QED BY <2>1
<1>4. CASE \E heard \in BOOLEAN : activate_branding(heard)
  <2>1. shown' = "marked" /\ at' # "activate branding"
    BY <1>4 DEF activate_branding, Then
  <2> QED BY <2>1
<1>5. CASE \E heard \in BOOLEAN :
             write_the_catcher(heard) \/ activate(heard) \/ open_self_registration(heard)
  <2>1. UNCHANGED <<label, shown>> /\ at' # "activate branding" /\ at \in AfterBranding
    BY <1>5 DEF write_the_catcher, activate, open_self_registration, Then
  <2> QED BY <2>1
<1>6. CASE \E writable \in BOOLEAN : write_configuration(writable)
  <2>1. UNCHANGED <<label, shown>> /\ at' \in {"client", "door"}
    BY <1>6 DEF write_configuration, service, AfterPortal, Goes, Then
  <2> QED BY <2>1
<1>7. CASE \/ CatchUp \/ UNCHANGED configuration
           \/ RelayIsSetUp \/ \E open \in BOOLEAN : PolicyIsChanged(open)
           \/ \E p \in Portals, id \in Ids, what \in Whats : ClientIsChanged(p, id, what)
  <2>1. UNCHANGED <<label, shown, at>>
    BY <1>7 DEF CatchUp, configuration, service, RelayIsSetUp, PolicyIsChanged,
                ClientIsChanged, Hand
  <2> QED BY <2>1
<1> QED
  BY <1>1, <1>2, <1>3, <1>4, <1>5, <1>6, <1>7 DEF ConfigureNext, RunsOn

\* A run activates the catcher over nothing, or over itself, and never over a
\* relay.
LEMMA NextSends ==
  ASSUME byhand \in BOOLEAN, Sends, [ConfigureNext]_configuration
  PROVE  Sends'
<1> USE DEF Sends, AtTheEnd
<1>1. CASE StartRun
  <2>1. /\ UNCHANGED <<sending, behind>> /\ at' = "organisation"
        /\ before'.sending = sending
    BY <1>1 DEF StartRun, Goes, Then, service
  <2> QED BY <2>1
<1>2. CASE organisation \/ Stops
  <2>1. /\ UNCHANGED <<sending, behind, before, asked, byhand>>
        /\ at' \in {"project", "refused"}
    BY <1>2 DEF organisation, Stops, Goes, Then, service, running
  <2> QED BY <2>1
<1>3. CASE \/ \E heard \in BOOLEAN :
                \/ ensure_project(heard) \/ ensure_app(heard)
                \/ ensure_door_service(heard) \/ apply_branding(heard)
           \/ \E writable \in BOOLEAN : write_configuration(writable)
  <2>1. UNCHANGED <<sending, before, asked, byhand>>
    BY <1>3 DEF ensure_project, ensure_app, ensure_door_service, apply_branding,
                write_configuration, NextPortal, running, service
  <2>2. ASSUME NEW heard \in BOOLEAN, ensure_app(heard), <<"sending", 0>> \in behind'
        PROVE  <<"sending", 0>> \in behind
    <3>1. \/ behind' = behind \/ behind' = behind \cup {<<"created", portal>>}
          \/ behind' = behind \cup {<<"corrected", portal>>}
      BY <2>2 DEF ensure_app, Written, NextPortal
    <3>2. <<"sending", 0>> \notin {<<"created", portal>>, <<"corrected", portal>>}
      OBVIOUS
    <3> QED BY <2>2, <3>1, <3>2
  <2>3. ASSUME NEW heard \in BOOLEAN, <<"sending", 0>> \in behind',
               ensure_project(heard) \/ ensure_door_service(heard) \/ apply_branding(heard)
        PROVE  <<"sending", 0>> \in behind
    <3>1. \/ behind' = behind \/ behind' = behind \cup {<<"project", 0>>}
          \/ behind' = behind \cup {<<"door", 0>>}
      <4>1. CASE ensure_project(heard)
        BY <4>1 DEF ensure_project, Written
      <4>2. CASE ensure_door_service(heard)
        BY <4>2 DEF ensure_door_service, Written
      <4>3. CASE apply_branding(heard)
        BY <4>3 DEF apply_branding
      <4> QED BY <2>3, <4>1, <4>2, <4>3
    <3>2. <<"sending", 0>> \notin {<<"project", 0>>, <<"door", 0>>}
      OBVIOUS
    <3> QED BY <2>3, <3>1, <3>2
  <2>4. ASSUME NEW writable \in BOOLEAN, write_configuration(writable)
        PROVE  behind' = behind
    BY <2>4 DEF write_configuration
  <2>5. <<"sending", 0>> \in behind' => <<"sending", 0>> \in behind
    BY <1>3, <2>2, <2>3, <2>4
  <2>6. at' \in {"client", "file", "door", "branding", "activate branding", "refused"}
    BY <1>3, WhereRegisteringGoes
    DEF apply_branding, write_configuration, AfterPortal, Goes, Then
  <2> QED BY <2>1, <2>5, <2>6
<1>4. CASE \E heard \in BOOLEAN : activate_branding(heard)
  <2>1. /\ UNCHANGED <<sending, behind, before, asked, byhand>>
        /\ at' \in {"mail", "policy", "refused"} /\ (at' = "policy" => asked = "none")
    BY <1>4 DEF activate_branding, Then, running
  <2> QED BY <2>1
<1>5. CASE LookAtMail
  <2>1. UNCHANGED <<sending, behind, before, asked, byhand>>
    BY <1>5 DEF LookAtMail, Goes, Then, service, running
  <2>2. PICK active \in Shows("sending", 0) :
          /\ at' \in {"refused", "policy", "write the catcher", "activate mail"}
          /\ at' = "policy" => active /\ sending = "catcher"
          /\ at' \in {"write the catcher", "activate mail"} =>
               ~active \/ sending # "relay"
    BY <1>5 DEF LookAtMail, Goes, Then, point_at
  <2>3. ~active => sending = "catcher"
    BY <2>2 DEF Shows
  <2> QED BY <2>1, <2>2, <2>3
<1>6. CASE \E heard \in BOOLEAN : write_the_catcher(heard)
  <2>1. /\ UNCHANGED <<sending, before, asked, byhand>>
        /\ <<"sending", 0>> \in behind' => <<"sending", 0>> \in behind
        /\ at = "write the catcher" /\ at' \in {"activate mail", "refused"}
    BY <1>6 DEF write_the_catcher, Then, Written, running
  <2> QED BY <2>1
<1>7. CASE \E heard \in BOOLEAN : activate(heard)
  <2>1. /\ sending' = "catcher" /\ UNCHANGED <<before, asked, byhand>>
        /\ at = "activate mail" /\ at' \in {"policy", "refused"}
    BY <1>7 DEF activate, Then, running
  <2> QED BY <2>1
<1>8. CASE \/ LookAtPolicy
           \/ \E heard \in BOOLEAN : open_self_registration(heard)
  <2>1. /\ UNCHANGED <<sending, before, asked, byhand>>
        /\ <<"sending", 0>> \in behind' => <<"sending", 0>> \in behind
        /\ at \in AtTheEnd /\ at' \in AtTheEnd \cup {"refused"}
    BY <1>8 DEF LookAtPolicy, open_self_registration, Goes, Then, Written, running,
                service
  <2> QED BY <2>1
<1>9. CASE CatchUp \/ UNCHANGED configuration
  <2>1. /\ UNCHANGED <<sending, before, asked, byhand, at>>
        /\ behind' \in {behind, {}}
    BY <1>9 DEF CatchUp, configuration, service, running
  <2> QED BY <2>1
<1>10. CASE \/ RelayIsSetUp \/ \E open \in BOOLEAN : PolicyIsChanged(open)
            \/ \E p \in Portals, id \in Ids, what \in Whats : ClientIsChanged(p, id, what)
  <2>1. /\ byhand' = TRUE
        /\ <<"sending", 0>> \in behind' =>
             <<"sending", 0>> \in behind /\ sending' = sending
    BY <1>10 DEF RelayIsSetUp, PolicyIsChanged, ClientIsChanged, Hand
  <2> QED BY <2>1
<1> QED
  BY <1>1, <1>2, <1>3, <1>4, <1>5, <1>6, <1>7, <1>8, <1>9, <1>10
  DEF ConfigureNext, RunsOn

\* The policy is written as the run has read it, with registration open.
LEMMA NextPolicyKept ==
  ASSUME PolicyKept, [ConfigureNext]_configuration
  PROVE  PolicyKept'
<1> USE DEF PolicyKept
<1>1. CASE StartRun
  <2>1. UNCHANGED rest /\ at' = "organisation" /\ before'.rest = rest
    BY <1>1 DEF StartRun, Goes, Then, service
  <2> QED BY <2>1
<1>2. CASE \/ \E heard \in BOOLEAN :
                \/ ensure_project(heard) \/ ensure_app(heard)
                \/ ensure_door_service(heard) \/ apply_branding(heard)
                \/ activate_branding(heard) \/ write_the_catcher(heard)
                \/ activate(heard)
           \/ \E writable \in BOOLEAN : write_configuration(writable)
           \/ organisation \/ LookAtMail \/ Stops
  <2>1. UNCHANGED <<rest, before, byhand>>
    BY <1>2 DEF ensure_project, ensure_app, ensure_door_service, apply_branding,
                activate_branding, write_the_catcher, activate, write_configuration,
                organisation, LookAtMail, Stops, NextPortal, running, service
  <2>2. at' \notin {"write policy", "configured"}
    <3>1. CASE \E heard \in BOOLEAN :
                 \/ ensure_project(heard) \/ ensure_app(heard)
                 \/ ensure_door_service(heard)
      BY <3>1, WhereRegisteringGoes
    <3>2. CASE \E heard \in BOOLEAN :
                 \/ apply_branding(heard) \/ activate_branding(heard)
                 \/ write_the_catcher(heard) \/ activate(heard)
      BY <3>2 DEF apply_branding, activate_branding, write_the_catcher, activate, Then
    <3>3. CASE \E writable \in BOOLEAN : write_configuration(writable)
      BY <3>3 DEF write_configuration, AfterPortal, Goes, Then
    <3>4. CASE organisation \/ LookAtMail \/ Stops
      BY <3>4 DEF organisation, LookAtMail, Stops, Goes, Then, point_at
    <3> QED BY <1>2, <3>1, <3>2, <3>3, <3>4
  <2> QED BY <2>1, <2>2
<1>3. CASE LookAtPolicy
  <2>1. UNCHANGED <<rest, before, byhand, register>> /\ read' = rest
    BY <1>3 DEF LookAtPolicy, service
  <2>2. at' = "configured" => register = TRUE
    BY <1>3 DEF LookAtPolicy, Goes, Then
  <2> QED BY <2>1, <2>2
<1>4. CASE \E heard \in BOOLEAN : open_self_registration(heard)
  <2>1. /\ at = "write policy" /\ at' # "write policy"
        /\ register' = TRUE /\ rest' = read /\ UNCHANGED <<before, byhand>>
    BY <1>4 DEF open_self_registration, HandedBack, Then, running
  <2> QED BY <2>1
<1>5. CASE CatchUp \/ UNCHANGED configuration
  BY <1>5 DEF CatchUp, configuration, service, running
<1>6. CASE \/ RelayIsSetUp \/ \E open \in BOOLEAN : PolicyIsChanged(open)
           \/ \E p \in Portals, id \in Ids, what \in Whats : ClientIsChanged(p, id, what)
  BY <1>6 DEF RelayIsSetUp, PolicyIsChanged, ClientIsChanged, Hand
<1> QED
  BY <1>1, <1>2, <1>3, <1>4, <1>5, <1>6 DEF ConfigureNext, RunsOn

\* All of it, kept by every step of the whole.
LEMMA StepConfigureInv ==
  ASSUME ConfigureInv, [Next]_toolvars
  PROVE  ConfigureInv'
<1>1. [ConfigureNext]_configuration
  BY OneGroupSteps
<1>2. OneInv' /\ Registered' /\ Branded' /\ Sends' /\ PolicyKept'
  BY <1>1, NextOneInv, NextRegistered, NextBranded, NextSends, NextPolicyKept
  DEF ConfigureInv
<1>3. byhand' \in BOOLEAN
  <2>1. CASE StartRun
    BY <2>1 DEF StartRun
  <2>2. CASE RunsOn \/ Stops
    <3>1. UNCHANGED byhand
      BY <2>2 DEF RunsOn, Stops, ensure_project, ensure_app, ensure_door_service,
                  apply_branding, activate_branding, write_the_catcher, activate,
                  open_self_registration, write_configuration, organisation, LookAtMail,
                  LookAtPolicy, NextPortal, running
    <3> QED BY <3>1 DEF ConfigureInv
  <2>3. CASE CatchUp \/ UNCHANGED configuration
    BY <2>3 DEF CatchUp, configuration, running, ConfigureInv
  <2>4. CASE \/ RelayIsSetUp \/ \E open \in BOOLEAN : PolicyIsChanged(open)
             \/ \E p \in Portals, id \in Ids, what \in Whats : ClientIsChanged(p, id, what)
    BY <2>4 DEF RelayIsSetUp, PolicyIsChanged, ClientIsChanged, Hand
  <2> QED BY <1>1, <2>1, <2>2, <2>3, <2>4 DEF ConfigureNext
<1> QED BY <1>2, <1>3 DEF ConfigureInv

\* However often a run stops, does not hear an answer, reads what is behind and
\* is made again, there is one project, one client for each portal and one door
\* service account, but for a client of an older version that somebody has renamed,
\* beside which ensure_app makes another (clients.py:83-119).
THEOREM ThereIsOneOfEach == Spec => []OneOfEach
<1>1. Init => ConfigureInv
  BY InitConfigureInv DEF Init
<1>2. ConfigureInv => OneOfEach
  BY AtMostOneCounted DEF ConfigureInv, OneInv, OneOfEach
<1> QED BY <1>1, <1>2, StepConfigureInv, PTL DEF Spec

\* A run that says it has configured the service has, for each portal with a client
\* ensure_app has made or put right, and has left alone what it was not asked to
\* touch.  A client of an older version under another name is not found, and
\* stays as it is (clients.py:69-80).
THEOREM ConfiguredIsAsWanted == Spec => []ConfiguredMeansWanted
<1>1. Init => ConfigureInv
  BY InitConfigureInv DEF Init
<1>2. ASSUME ConfigureInv, at = "configured", ~byhand
      PROVE  /\ projects # {} /\ door # {}
             /\ \A p \in Portals : \E id \in clients[p] : differences(p, id) = {}
             /\ \A p \in Portals, id \in Ids :
                  differences(p, id) # {} => id = "older" /\ Renamed(p)
             /\ file # "none" => file \in clients[1]
             /\ shown = "marked"
             /\ asked = "catcher" => sending = "catcher"
             /\ before.sending = "relay" => sending = "relay"
             /\ register
             /\ rest = before.rest
  <2>1. byhand = FALSE
    BY <1>2 DEF ConfigureInv
  <2>2. Done = Portals
    BY <1>2 DEF Done, AfterPortals
  <2>3. projects # {} /\ door # {}
    BY <1>2 DEF ConfigureInv, Registered, Reached, AfterDoor, AfterPortals
  <2>4. \A p \in Portals : AsWanted(p)
    BY <1>2, <2>1, <2>2 DEF ConfigureInv, Registered, PortalsDone
  <2>5. /\ \A p \in Portals : \E id \in clients[p] : differences(p, id) = {}
        /\ \A p \in Portals, id \in Ids :
             differences(p, id) # {} => id = "older" /\ Renamed(p)
    BY <2>4 DEF AsWanted, differences
  <2> QED
    BY <1>2, <2>1, <2>3, <2>5
    DEF ConfigureInv, Registered, OfClients, Branded, AfterBranding, AfterDoor,
        AfterPortals, Sends, AtTheEnd, PolicyKept
<1>3. ConfigureInv => ConfiguredMeansWanted
  BY <1>2 DEF ConfiguredMeansWanted
<1> QED BY <1>1, <1>3, StepConfigureInv, PTL DEF Spec

-----------------------------------------------------------------------------
(* The two commands that make accounts.                                    *)

\* What is known of an account by whether it is stuck, and was ever one.
AccountsInv ==
  /\ login \in [Subjects -> People \cup {Nobody}]
  /\ password \in [Subjects -> Passwords]
  /\ stuck \subseteq used /\ used \subseteq Subjects
  /\ \A s \in Subjects : login[s] # Nobody => s \in used
  /\ \A s \in Subjects : s \notin used \/ s \in stuck => password[s] = "none"

\* What a command knows of the account it works on.
HasAccount == {"hand over", "member row", "seat", "verify", "look for a password",
               "remove", "repoint"}
CommandInv ==
  /\ person \in People /\ todo \subseteq People
  /\ step \in HasAccount => subject \in Subjects /\ login[subject] = person
  /\ step \in {"verify", "look for a password"} =>
       command = "repair" /\ subject \notin stuck
  /\ step = "remove" => command = "recreate" /\ subject \in stuck
  /\ step = "repoint" => command = "recreate"
  /\ step = "hand over" => password[subject] = "unseen"

\* A row carries no subject but its own person's, and what a replacement has
\* read of the row is what it has to follow.
RowsInv ==
  /\ row \in [People -> {"none", "unlinked"} \cup Subjects]
  /\ \A p \in People : row[p] \in Subjects =>
       row[p] \in used /\ login[row[p]] \in {p, Nobody}
  /\ Between =>
       /\ joined \in {person, Nobody}
       /\ joined = Nobody /\ row[person] \in Subjects =>
            login[row[person]] = person \/ person \in orphaned

Unseen == {s \in Subjects : password[s] = "unseen"}

\* A password that has been set and not handed over costs a cut, but the one
\* that is about to be.
InHand == IF step = "hand over" THEN {subject} ELSE {}
UnseenInv ==
  cuts \in Nat /\ IsFiniteSet(Unseen) /\ Cardinality(Unseen \ InHand) <= cuts

SignInsInv ==
  AccountsInv /\ CommandInv /\ RowsInv /\ UnseenInv /\ RowsHaveTheirSignIn

\* What one that has said something goes on to.
LEMMA SaysGoesOn ==
  ASSUME CommandInv, NEW what, Says(what)
  PROVE  /\ person' \in People /\ todo' \subseteq People
         /\ step' \in {"find", "idle"}
         /\ UNCHANGED <<command, subject, joined, orphaned, cuts>>
         /\ command # "seat" => person' = person
<1>1. CASE command = "seat" /\ what = "seated" /\ todo # {}
  BY <1>1 DEF Says, CommandInv
<1>2. CASE ~(command = "seat" /\ what = "seated" /\ todo # {})
  BY <1>2 DEF Says, CommandInv
<1> QED BY <1>1, <1>2

\* The steps that write to the identity service.
LEMMA WhoWritesAccounts ==
  ASSUME [SignInsNext]_signins
  PROVE  \/ UNCHANGED accounts
         \/ \E s \in Subjects : create(s) \/ PersonSignsIn(s)
         \/ hand_over
         \/ \E refused \in BOOLEAN :
              verify_the_address(refused) \/ set_a_password(refused) \/ remove(refused)
<1>1. CASE \/ \E people \in SUBSET People \ {{}} : StartSeating(people)
           \/ \E p \in People, what \in Commands \ {"seat"} : StartOne(what, p)
           \/ CreateIsRefused \/ member_row_state
  BY <1>1 DEF StartSeating, StartOne, CreateIsRefused, member_row_state
<1>2. CASE \/ seat \/ SeatIsUnheard \/ repoint \/ CutOff
           \/ \E missed \in BOOLEAN : account_for(missed)
  BY <1>2 DEF seat, SeatIsUnheard, repoint, CutOff, account_for
<1>3. CASE UNCHANGED signins
  BY <1>3 DEF signins
<1> QED BY <1>1, <1>2, <1>3 DEF SignInsNext

LEMMA NextAccountsInv ==
  ASSUME AccountsInv, CommandInv, [SignInsNext]_signins
  PROVE  AccountsInv'
<1> USE DEF AccountsInv
<1>1. CASE UNCHANGED accounts
  BY <1>1 DEF accounts
<1>2. ASSUME NEW s \in Subjects, create(s)
      PROVE  AccountsInv'
  BY <1>2 DEF create, CommandInv, Passwords
<1>3. ASSUME NEW s \in Subjects, PersonSignsIn(s)
      PROVE  AccountsInv'
  BY <1>3 DEF PersonSignsIn, Passwords
<1>4. CASE hand_over
  BY <1>4 DEF hand_over, CommandInv, HasAccount, Passwords
<1>5. ASSUME NEW refused \in BOOLEAN, verify_the_address(refused)
      PROVE  AccountsInv'
  BY <1>5 DEF verify_the_address
<1>6. ASSUME NEW refused \in BOOLEAN, set_a_password(refused)
      PROVE  AccountsInv'
  <2>1. subject \in used /\ subject \notin stuck
    BY <1>6, SignInsAssumption DEF set_a_password, CommandInv, HasAccount
  <2>2. /\ UNCHANGED <<login, stuck, used>>
        /\ \/ UNCHANGED password
           \/ password' = [password EXCEPT ![subject] = "unseen"]
    BY <1>6 DEF set_a_password
  <2> QED BY <2>1, <2>2 DEF Passwords
<1>7. ASSUME NEW refused \in BOOLEAN, remove(refused)
      PROVE  AccountsInv'
  BY <1>7, SignInsAssumption DEF remove, accounts, CommandInv, HasAccount, Passwords
<1> QED BY <1>1, <1>2, <1>3, <1>4, <1>5, <1>6, <1>7, WhoWritesAccounts

LEMMA NextCommandInv ==
  ASSUME AccountsInv, CommandInv, [SignInsNext]_signins
  PROVE  CommandInv'
<1> USE DEF CommandInv, HasAccount
<1>1. CASE \/ \E people \in SUBSET People \ {{}} : StartSeating(people)
           \/ \E p \in People, what \in Commands \ {"seat"} : StartOne(what, p)
  BY <1>1 DEF StartSeating, StartOne
<1>2. CASE CreateIsRefused \/ SeatIsUnheard \/ CutOff
  BY <1>2 DEF CreateIsRefused, SeatIsUnheard, CutOff
<1>3. CASE member_row_state
  BY <1>3 DEF member_row_state, GoesTo, accounts
<1>4. CASE seat
  <2>1. UNCHANGED accounts /\ \E what : Says(what)
    BY <1>4 DEF seat, Refused
  <2> QED BY <2>1, SaysGoesOn
<1>5. ASSUME NEW missed \in BOOLEAN, account_for(missed)
      PROVE  CommandInv'
  <2>1. UNCHANGED accounts
    BY <1>5 DEF account_for
  <2>2. CASE \E what : Says(what)
    BY <2>2, SaysGoesOn
  <2>3. CASE GoesTo("create")
    BY <2>3 DEF GoesTo
  <2>4. CASE \E s \in find :
               /\ AccountIsThere(s) # "stop"
               /\ step' = AccountIsThere(s) /\ subject' = s
               /\ UNCHANGED <<todo, command, person>>
    BY <2>1, <2>4 DEF find, AccountIsThere, accounts
  <2> QED BY <1>5, <2>2, <2>3, <2>4 DEF account_for, Refused
<1>6. ASSUME NEW s \in Subjects, create(s)
      PROVE  CommandInv'
  BY <1>6 DEF create, AfterCreating, AccountsInv
<1>7. ASSUME NEW s \in Subjects, PersonSignsIn(s)
      PROVE  CommandInv'
  <2>1. UNCHANGED <<login, stuck, todo, command, step, person, subject>>
    BY <1>7 DEF PersonSignsIn, terminal
  <2>2. step = "hand over" => password'[subject] = "unseen"
    BY <1>7 DEF PersonSignsIn, AccountsInv
  <2> QED BY <2>1, <2>2
<1>8. CASE hand_over
  <2>1. UNCHANGED <<login, stuck>>
    BY <1>8 DEF hand_over
  <2>2. CASE \E what : Says(what)
    BY <2>2, SaysGoesOn
  <2>3. CASE AfterHandingOver # "said" /\ GoesTo(AfterHandingOver)
    BY <1>8, <2>1, <2>3 DEF hand_over, GoesTo, AfterHandingOver
  <2> QED BY <1>8, <2>2, <2>3 DEF hand_over
<1>9. ASSUME NEW refused \in BOOLEAN, verify_the_address(refused)
      PROVE  CommandInv'
  <2>1. CASE \E what : Says(what)
    BY <2>1, SaysGoesOn
  <2>2. CASE step' = "look for a password" /\ UNCHANGED <<todo, command, person, subject>>
    BY <1>9, <2>2 DEF verify_the_address
  <2> QED BY <1>9, <2>1, <2>2 DEF verify_the_address, Refused, GoesTo
<1>10. ASSUME NEW refused \in BOOLEAN, set_a_password(refused)
       PROVE  CommandInv'
  <2>1. CASE \E what : Says(what)
    BY <2>1, SaysGoesOn
  <2>2. CASE /\ password' = [password EXCEPT ![subject] = "unseen"]
             /\ GoesTo("hand over")
    BY <1>10, <2>2 DEF set_a_password, GoesTo, AccountsInv
  <2> QED BY <1>10, <2>1, <2>2 DEF set_a_password, Refused
<1>11. ASSUME NEW refused \in BOOLEAN, remove(refused)
       PROVE  CommandInv'
  <2>1. CASE \E what : Says(what)
    BY <2>1, SaysGoesOn
  <2>2. CASE step' = "create" /\ UNCHANGED <<todo, person>>
    BY <2>2
  <2> QED BY <1>11, <2>1, <2>2 DEF remove, Refused
<1>12. CASE repoint
  BY <1>12, SaysGoesOn DEF repoint
<1>13. CASE UNCHANGED signins
  BY <1>13 DEF signins, accounts, terminal
<1> QED
  BY <1>1, <1>2, <1>3, <1>4, <1>5, <1>6, <1>7, <1>8, <1>9, <1>10, <1>11, <1>12, <1>13
  DEF SignInsNext

\* Rows follow the accounts they carry.
LEMMA NextRowsInv ==
  ASSUME AccountsInv, CommandInv, RowsInv, RowsHaveTheirSignIn,
         [SignInsNext]_signins
  PROVE  RowsInv' /\ RowsHaveTheirSignIn'
<1> USE SignInsAssumption DEF RowsInv, RowsHaveTheirSignIn, Between
<1>1. person \in People /\ (step \in HasAccount =>
         subject \in Subjects /\ login[subject] = person /\ subject \in used)
  BY DEF CommandInv, AccountsInv
\* The accounts and the rows are left alone, and no replacement begins or goes on.
<1>2. ASSUME UNCHANGED <<login, used, row>>, orphaned \subseteq orphaned', ~Between',
             Between => person \in orphaned'
      PROVE  RowsInv' /\ RowsHaveTheirSignIn'
  BY <1>2
\* They are left alone, and a replacement goes on or stays away.
<1>3. ASSUME UNCHANGED <<login, used, row, orphaned, joined, person>>,
             Between' <=> Between
      PROVE  RowsInv' /\ RowsHaveTheirSignIn'
  BY <1>3
<1>4. CASE \/ \E people \in SUBSET People \ {{}} : StartSeating(people)
           \/ \E p \in People, what \in Commands \ {"seat"} : StartOne(what, p)
  BY <1>2, <1>4 DEF StartSeating, StartOne, accounts, members
<1>5. CASE CreateIsRefused \/ CutOff
  BY <1>1, <1>2, <1>5 DEF CreateIsRefused, CutOff, accounts, members
<1>6. CASE member_row_state
  BY <1>3, <1>6 DEF member_row_state, GoesTo, accounts, members
<1>7. ASSUME NEW missed \in BOOLEAN, account_for(missed)
      PROVE  RowsInv' /\ RowsHaveTheirSignIn'
  <2>1. UNCHANGED <<login, used, row>> /\ ~Between
    BY <1>7 DEF account_for, accounts, members
  <2>2. \/ \E what : Says(what)
        \/ command \in {"seat", "make"} /\ GoesTo("create")
        \/ \E s \in find : step' = AccountIsThere(s) /\ AccountIsThere(s) # "stop"
                           /\ UNCHANGED orphaned
    BY <1>7 DEF account_for, Refused
  <2>3. ~Between' /\ UNCHANGED orphaned
    BY <2>2, SaysGoesOn DEF GoesTo, AccountIsThere
  <2> QED BY <1>2, <2>1, <2>3
<1>8. ASSUME NEW s \in Subjects, create(s)
      PROVE  RowsInv' /\ RowsHaveTheirSignIn'
  <2>1. /\ UNCHANGED <<row, orphaned, joined, person, command>>
        /\ step = "create" /\ step' = "hand over"
        /\ s \notin used /\ used' = used \cup {s}
        /\ login' = [login EXCEPT ![s] = person]
    BY <1>8 DEF create, AfterCreating, members
  <2>2. \A t \in used : login'[t] = login[t]
    BY <2>1 DEF AccountsInv
  <2>3. Between' <=> Between
    BY <2>1
  <2>4. \A p \in People : row[p] \in Subjects => row[p] \in used
    OBVIOUS
  <2> QED BY <1>1, <2>1, <2>2, <2>3, <2>4
<1>9. ASSUME NEW s \in Subjects, PersonSignsIn(s)
      PROVE  RowsInv' /\ RowsHaveTheirSignIn'
  BY <1>3, <1>9 DEF PersonSignsIn, members, terminal
<1>10. CASE hand_over
  <2>1. UNCHANGED <<login, used, row>>
    BY <1>10 DEF hand_over, members
  <2>2. CASE command = "recreate"
    <3>1. UNCHANGED <<orphaned, joined, person, command>> /\ step' = "repoint"
      BY <1>10, <2>2 DEF hand_over, AfterHandingOver, GoesTo
    <3> QED BY <1>3, <1>10, <2>1, <2>2, <3>1 DEF hand_over
  <2>3. CASE command # "recreate"
    <3>1. UNCHANGED <<orphaned, command>>
      BY <1>10, SaysGoesOn DEF hand_over, GoesTo
    <3> QED BY <1>2, <2>1, <2>3, <3>1
  <2> QED BY <2>2, <2>3
<1>11. CASE seat \/ SeatIsUnheard
  <2>1. UNCHANGED <<login, used, orphaned>> /\ ~Between /\ step \in HasAccount
    BY <1>11, SaysGoesOn DEF seat, SeatIsUnheard, Refused, accounts, HasAccount
  <2>2. row' = row \/ row' = [row EXCEPT ![person] = subject]
    BY <1>11 DEF seat, SeatIsUnheard, members
  <2>3. ~Between'
    BY <1>11, SaysGoesOn DEF seat, SeatIsUnheard, Refused
  <2> QED BY <1>1, <2>1, <2>2, <2>3
<1>12. ASSUME NEW refused \in BOOLEAN,
              verify_the_address(refused) \/ set_a_password(refused)
       PROVE  RowsInv' /\ RowsHaveTheirSignIn'
  <2>1. UNCHANGED <<login, used, row>> /\ ~Between /\ command = "repair"
    BY <1>12 DEF verify_the_address, set_a_password, members, CommandInv
  <2>2. UNCHANGED <<orphaned, command>>
    BY <1>12, SaysGoesOn DEF verify_the_address, set_a_password, Refused, GoesTo
  <2> QED BY <1>2, <2>1, <2>2
<1>13. ASSUME NEW refused \in BOOLEAN, remove(refused)
       PROVE  RowsInv' /\ RowsHaveTheirSignIn'
  <2>1. step = "remove" /\ command = "recreate" /\ UNCHANGED row /\ ~Between
    BY <1>13 DEF remove, members, CommandInv
  <2>2. CASE Refused
    <3>1. UNCHANGED <<login, used, orphaned>> /\ ~Between'
      BY <1>13, <2>1, <2>2, SaysGoesOn DEF remove, Refused, accounts
    <3> QED BY <1>2, <2>1, <3>1
  <2>3. CASE /\ joined' = JoinedBefore
             /\ login' = [login EXCEPT ![subject] = Nobody]
             /\ step' = "create" /\ UNCHANGED <<used, command, person, orphaned>>
    <3>1. subject \in Subjects /\ login[subject] = person /\ person # Nobody
      BY <1>1, <2>1 DEF HasAccount
    \* Nobody but the person can have had the account in their row.
    <3>2. \A p \in People : row[p] = subject => p = person
      BY <3>1
    <3>3. joined' = IF row[person] = subject THEN person ELSE Nobody
      BY <1>1, <2>3, <3>2 DEF JoinedBefore
    <3>4. \A p \in People : row[p] \in Subjects =>
            login[row[p]] = p \/ p \in orphaned
      BY <2>1
    <3>5. \A t \in Subjects : t # subject => login'[t] = login[t]
      BY <2>3 DEF AccountsInv
    <3>6. login'[subject] = Nobody
      BY <2>3, <3>1 DEF AccountsInv
    <3>7. Between'
      BY <2>1, <2>3
    <3>8. RowsHaveTheirSignIn'
      BY <2>1, <2>3, <3>2, <3>4, <3>5, <3>7
    <3>9. \A p \in People : row'[p] \in Subjects =>
            row'[p] \in used' /\ login'[row'[p]] \in {p, Nobody}
      BY <2>1, <2>3, <3>5, <3>6
    <3>10. joined' = Nobody /\ row[person] \in Subjects =>
             login'[row[person]] = person \/ person \in orphaned
      BY <1>1, <3>1, <3>3, <3>4, <3>5
    <3>11. joined' \in {person', Nobody}
      BY <2>3, <3>3
    <3> QED BY <2>1, <2>3, <3>8, <3>9, <3>10, <3>11
  <2> QED BY <1>13, <2>2, <2>3 DEF remove
<1>14. CASE repoint
  <2>1. /\ Between /\ step \in HasAccount /\ UNCHANGED <<login, used>>
        /\ row' = IF joined = Nobody THEN row ELSE [row EXCEPT ![joined] = subject]
    BY <1>14 DEF repoint, CommandInv, HasAccount, accounts
  <2>2. ~Between' /\ UNCHANGED orphaned
    BY <1>14, SaysGoesOn DEF repoint
  <2>3. CASE joined = Nobody
    BY <1>1, <2>1, <2>2, <2>3
  <2>4. CASE joined = person
    <3>1. row' = [row EXCEPT ![person] = subject]
      BY <1>1, <2>1, <2>4
    <3> QED BY <1>1, <2>1, <2>2, <3>1
  <2> QED BY <2>1, <2>3, <2>4
<1>15. CASE UNCHANGED signins
  BY <1>3, <1>15 DEF signins, accounts, members, terminal
<1> QED
  BY <1>4, <1>5, <1>6, <1>7, <1>8, <1>9, <1>10, <1>11, <1>12, <1>13, <1>14, <1>15
  DEF SignInsNext

\* A password is set just before it is in hand, and leaves the hand on the
\* terminal or with a cut.
LEMMA NextUnseenInv ==
  ASSUME AccountsInv, CommandInv, UnseenInv, [SignInsNext]_signins
  PROVE  UnseenInv'
<1> USE DEF UnseenInv
\* One more that has not been seen, which is in hand.
<1>1. ASSUME NEW s \in Subjects, step # "hand over", step' = "hand over", subject' = s,
             password' = [password EXCEPT ![s] = "unseen"], UNCHANGED cuts
      PROVE  UnseenInv'
  <2>1. Unseen' = Unseen \cup {s}
    BY <1>1 DEF Unseen, AccountsInv
  <2>2. IsFiniteSet(Unseen')
    BY <2>1, FS_AddElement
  <2>3. Unseen' \ InHand' \subseteq Unseen \ InHand
    BY <1>1, <2>1 DEF InHand
  <2>4. IsFiniteSet(Unseen \ InHand) /\ IsFiniteSet(Unseen' \ InHand')
    BY <2>2, FS_Subset
  <2>5. Cardinality(Unseen' \ InHand') <= Cardinality(Unseen \ InHand)
    BY <2>3, <2>4, FS_Subset
  <2>6. Cardinality(Unseen \ InHand) <= cuts
    OBVIOUS
  <2>7. /\ Cardinality(Unseen \ InHand) \in Nat
        /\ Cardinality(Unseen' \ InHand') \in Nat
    BY <2>4, FS_CardinalityType
  <2>8. Cardinality(Unseen' \ InHand') <= cuts'
    <3>1. \A m, n, c \in Nat : m <= n /\ n <= c => m <= c
      OBVIOUS
    <3>2. cuts' = cuts /\ cuts \in Nat
      BY <1>1
    <3> QED BY <2>5, <2>6, <2>7, <3>1, <3>2, Zenon
  <2> QED BY <1>1, <2>2, <2>8
\* None more, and none leaves the hand unseen.
<1>2. ASSUME Unseen' \subseteq Unseen, Unseen' \ InHand' \subseteq Unseen \ InHand,
             cuts' \in {cuts, cuts + 1}
      PROVE  UnseenInv'
  <2>1. IsFiniteSet(Unseen') /\ IsFiniteSet(Unseen \ InHand)
    BY <1>2, FS_Subset
  <2>2. /\ IsFiniteSet(Unseen' \ InHand')
        /\ Cardinality(Unseen' \ InHand') <= Cardinality(Unseen \ InHand)
    BY <1>2, <2>1, FS_Subset
  <2>3. /\ Cardinality(Unseen \ InHand) \in Nat
        /\ Cardinality(Unseen' \ InHand') \in Nat
    BY <2>1, <2>2, FS_CardinalityType
  <2>4. Cardinality(Unseen' \ InHand') <= cuts'
    BY <1>2, <2>2, <2>3
  <2> QED BY <1>2, <2>1, <2>4
\* No password is written, and none was or is in hand.
<1>3. ASSUME UNCHANGED password, step # "hand over", step' # "hand over",
             cuts' \in {cuts, cuts + 1}
      PROVE  UnseenInv'
  BY <1>2, <1>3 DEF Unseen, InHand
<1>4. CASE \/ \E people \in SUBSET People \ {{}} : StartSeating(people)
           \/ \E p \in People, what \in Commands \ {"seat"} : StartOne(what, p)
  BY <1>3, <1>4 DEF StartSeating, StartOne, accounts
<1>5. CASE CreateIsRefused \/ SeatIsUnheard \/ member_row_state
  BY <1>3, <1>5 DEF CreateIsRefused, SeatIsUnheard, member_row_state, GoesTo, accounts
<1>6. CASE seat \/ repoint
  BY <1>3, <1>6, SaysGoesOn DEF seat, repoint, Refused, accounts
<1>7. ASSUME NEW missed \in BOOLEAN, account_for(missed)
      PROVE  UnseenInv'
  <2>1. UNCHANGED password /\ step # "hand over"
    BY <1>7 DEF account_for, accounts
  <2>2. \/ \E what : Says(what)
        \/ GoesTo("create")
        \/ \E s \in find : step' = AccountIsThere(s) /\ UNCHANGED cuts
    BY <1>7 DEF account_for, Refused
  <2>3. step' # "hand over" /\ UNCHANGED cuts
    BY <2>2, SaysGoesOn DEF GoesTo, AccountIsThere
  <2> QED BY <1>3, <2>1, <2>3
<1>8. ASSUME NEW s \in Subjects, create(s)
      PROVE  UnseenInv'
  BY <1>1, <1>8 DEF create, AfterCreating
<1>9. ASSUME NEW s \in Subjects, PersonSignsIn(s)
      PROVE  UnseenInv'
  <2>1. Unseen' = Unseen
    BY <1>9 DEF PersonSignsIn, Unseen, AccountsInv
  <2>2. InHand' = InHand /\ cuts' = cuts
    BY <1>9 DEF PersonSignsIn, terminal, InHand
  <2> QED BY <1>2, <2>1, <2>2
<1>10. CASE hand_over
  <2>1. step = "hand over" /\ Unseen' = Unseen \ {subject}
    BY <1>10 DEF hand_over, Unseen, AccountsInv, CommandInv, HasAccount
  <2>2. step' # "hand over" /\ UNCHANGED cuts
    BY <1>10, SaysGoesOn DEF hand_over, GoesTo, AfterHandingOver
  <2> QED BY <1>2, <2>1, <2>2 DEF InHand
<1>11. ASSUME NEW refused \in BOOLEAN, verify_the_address(refused)
       PROVE  UnseenInv'
  BY <1>3, <1>11, SaysGoesOn DEF verify_the_address, GoesTo, Refused
<1>12. ASSUME NEW refused \in BOOLEAN, set_a_password(refused)
       PROVE  UnseenInv'
  <2>1. CASE UNCHANGED password /\ \E what : Says(what)
    BY <1>3, <1>12, <2>1, SaysGoesOn DEF set_a_password
  <2>2. CASE /\ password' = [password EXCEPT ![subject] = "unseen"]
             /\ GoesTo("hand over")
    <3>1. subject \in Subjects
      BY <1>12 DEF set_a_password, CommandInv, HasAccount
    <3> QED BY <1>1, <1>12, <2>2, <3>1 DEF set_a_password, GoesTo
  <2> QED BY <1>12, <2>1, <2>2 DEF set_a_password, Refused
<1>13. ASSUME NEW refused \in BOOLEAN, remove(refused)
       PROVE  UnseenInv'
  <2>1. CASE Refused /\ UNCHANGED accounts
    BY <1>3, <1>13, <2>1, SaysGoesOn DEF remove, Refused, accounts
  <2>2. CASE /\ password' = [password EXCEPT ![subject] = "none"]
             /\ step' = "create" /\ UNCHANGED cuts
    <3>1. Unseen' \subseteq Unseen
      BY <2>2 DEF Unseen, AccountsInv
    <3>2. InHand = {} /\ InHand' = {}
      BY <1>13, <2>2 DEF remove, InHand
    <3> QED BY <1>2, <2>2, <3>1, <3>2
  <2> QED BY <1>13, <2>1, <2>2 DEF remove
<1>14. CASE CutOff
  <2>1. Unseen' = Unseen /\ InHand' = {} /\ cuts' = cuts + 1
    BY <1>14 DEF CutOff, accounts, Unseen, InHand
  <2>2. CASE step # "hand over"
    BY <1>2, <2>1, <2>2 DEF InHand
  <2>3. CASE step = "hand over"
    <3> DEFINE m == Cardinality(Unseen)
               n == Cardinality(Unseen \ {subject})
    <3>1. m \in Nat /\ n \in Nat
      BY FS_RemoveElement, FS_CardinalityType
    <3>2. n = m - 1 \/ n = m
      BY FS_RemoveElement
    <3>3. n <= cuts
      <4>1. InHand = {subject}
        BY <2>3 DEF InHand
      <4> QED BY <4>1
    <3> HIDE DEF m, n
    <3>4. m <= cuts + 1
      BY <3>1, <3>2, <3>3
    <3> USE DEF m
    <3> QED BY <2>1, <3>4
  <2> QED BY <2>2, <2>3
<1>15. CASE UNCHANGED signins
  BY <1>2, <1>15 DEF signins, accounts, terminal, Unseen, InHand
<1> QED
  BY <1>4, <1>5, <1>6, <1>7, <1>8, <1>9, <1>10, <1>11, <1>12, <1>13, <1>14, <1>15
  DEF SignInsNext

LEMMA InitSignInsInv ==
  ASSUME SignInsInit
  PROVE  SignInsInv
<1>1. AccountsInv
  BY DEF SignInsInit, AccountsInv, Passwords
<1>2. CommandInv
  BY DEF SignInsInit, CommandInv, HasAccount
<1>3. \A p \in People : row[p] \in Subjects =>
        row[p] \in used /\ login[row[p]] = p
  BY SignInsAssumption DEF SignInsInit
<1>4. row \in [People -> {"none", "unlinked"} \cup Subjects] /\ ~Between
  BY DEF SignInsInit, Between
<1>5. RowsInv /\ RowsHaveTheirSignIn
  BY <1>3, <1>4 DEF RowsInv, RowsHaveTheirSignIn
<1>6. Unseen = {} /\ InHand = {} /\ cuts = 0
  BY DEF SignInsInit, Unseen, InHand
<1>7. IsFiniteSet(Unseen) /\ Unseen \ InHand = {} /\ Cardinality({}) = 0
  BY <1>6, FS_EmptySet
<1>8. UnseenInv
  BY <1>6, <1>7 DEF UnseenInv
<1> QED BY <1>1, <1>2, <1>5, <1>8 DEF SignInsInv

LEMMA StepSignInsInv ==
  ASSUME SignInsInv, [Next]_toolvars
  PROVE  SignInsInv'
<1>1. [SignInsNext]_signins
  BY OneGroupSteps
<1>2. AccountsInv' /\ CommandInv'
  BY <1>1, NextAccountsInv, NextCommandInv DEF SignInsInv
<1>3. RowsInv' /\ RowsHaveTheirSignIn'
  BY <1>1, NextRowsInv DEF SignInsInv
<1>4. UnseenInv'
  BY <1>1, NextUnseenInv DEF SignInsInv
<1> QED BY <1>2, <1>3, <1>4 DEF SignInsInv

\* Both commands only run where the other half of the operator's tools leaves
\* them as they begin.
LEMMA InitIsSignInsInit == Init => SignInsInit
BY DEF Init, NoAccountYet

\* A password that nobody has seen costs a run that was cut off.
THEOREM PasswordsAreSeen == Spec => []PasswordsAreHandedOver
<1>1. Init => SignInsInv
  BY InitIsSignInsInit, InitSignInsInv
<1>2. SignInsInv => PasswordsAreHandedOver
  <2> SUFFICES ASSUME UnseenInv, step = "idle"
               PROVE  Cardinality(Unseen) <= cuts
    BY DEF SignInsInv, PasswordsAreHandedOver, Unseen
  <2>1. Unseen \ InHand = Unseen
    BY DEF InHand
  <2> QED BY <2>1 DEF UnseenInv
<1> QED BY <1>1, <1>2, StepSignInsInv, PTL DEF Spec

\* A member row carries the subject of an account that is there, but while the
\* account is being replaced and after a replacement that did not end.
THEOREM RowsKeepTheirSignIn == Spec => []RowsHaveTheirSignIn
<1>1. Init => SignInsInv
  BY InitIsSignInsInit, InitSignInsInv
<1>2. SignInsInv => RowsHaveTheirSignIn
  BY DEF SignInsInv
<1> QED BY <1>1, <1>2, StepSignInsInv, PTL DEF Spec

-----------------------------------------------------------------------------
(* Working sign ins.                                                       *)

\* What an account needs to get its holder through the hosted screens.
GetsThrough(s) ==
  /\ login[s] # Nobody
  /\ s \notin stuck /\ password[s] # "none" /\ s \in verified
  /\ (IF s \in mustchange THEN 4 ELSE 3) <= ScreenLimit

\* The page that asks for a code is never passed, and everything else is.
LEMMA PagesPassed ==
  /\ ~Passes("code")
  /\ Passes("login name") /\ Passes("password") /\ Passes("change password")
  /\ Passes("second factor")
BY DEF Passes, answer_for

\* A few pages in a row.
LEMMA FourPages ==
  ASSUME NEW a, NEW b, NEW c, NEW d
  PROVE  /\ Len(<<a, b, c, d>>) = 4
         /\ \A i \in DOMAIN <<a, b, c, d>> : <<a, b, c, d>>[i] \in {a, b, c, d}
OBVIOUS

LEMMA ThreePages ==
  ASSUME NEW a, NEW b, NEW c
  PROVE  /\ Len(<<a, b, c>>) = 3
         /\ \A i \in DOMAIN <<a, b, c>> : <<a, b, c>>[i] \in {a, b, c}
OBVIOUS

\* A code stops anybody who is asked for one, and nothing else does but a walk
\* that is longer than SCREEN_LIMIT.
LEMMA ScreensOf ==
  ASSUME NEW s \in Subjects
  PROVE  through_the_screens(s) <=> GetsThrough(s)
<1>1. CASE s \in stuck \/ password[s] = "none"
  <2>1. 2 \in DOMAIN Pages(s) /\ Pages(s)[2] = "code"
    BY <1>1 DEF Pages
  <2> QED BY <1>1, <2>1, PagesPassed DEF through_the_screens, GetsThrough
<1>2. CASE s \notin stuck /\ password[s] # "none" /\ s \notin verified
  <2>1. 3 \in DOMAIN Pages(s) /\ Pages(s)[3] = "code"
    BY <1>2 DEF Pages
  <2> QED BY <1>2, <2>1, PagesPassed DEF through_the_screens, GetsThrough
<1>3. CASE /\ s \notin stuck /\ password[s] # "none" /\ s \in verified
           /\ s \in mustchange
  <2>1. Pages(s) = <<"login name", "password", "change password", "second factor">>
    BY <1>3 DEF Pages
  <2>2. /\ Len(Pages(s)) = 4
        /\ \A i \in DOMAIN Pages(s) :
             Pages(s)[i] \in {"login name", "password", "change password",
                             "second factor"}
    BY <2>1, FourPages, Zenon
  <2>3. \A i \in DOMAIN Pages(s) : Passes(Pages(s)[i])
    BY <2>2, PagesPassed
  <2> QED BY <1>3, <2>2, <2>3 DEF through_the_screens, GetsThrough
<1>4. CASE /\ s \notin stuck /\ password[s] # "none" /\ s \in verified
           /\ s \notin mustchange
  <2>1. Pages(s) = <<"login name", "password", "second factor">>
    BY <1>4 DEF Pages
  <2>2. /\ Len(Pages(s)) = 3
        /\ \A i \in DOMAIN Pages(s) :
             Pages(s)[i] \in {"login name", "password", "second factor"}
    BY <2>1, ThreePages, Zenon
  <2>3. \A i \in DOMAIN Pages(s) : Passes(Pages(s)[i])
    BY <2>2, PagesPassed
  <2> QED BY <1>4, <2>2, <2>3 DEF through_the_screens, GetsThrough
<1> QED BY <1>1, <1>2, <1>3, <1>4

\* It is so after a step as well.
LEMMA ScreensAfter ==
  (\A s \in Subjects : through_the_screens(s) <=> GetsThrough(s))'
<1>1. \A s \in Subjects : through_the_screens(s) <=> GetsThrough(s)
  BY ScreensOf
<1> QED BY <1>1, PTL

\* A step of either command, or of a person at the screens, takes no account
\* away from those that get their holder in.
LEMMA GetsThroughStays ==
  ASSUME AccountsInv, CommandInv, [SignInsNext]_signins,
         NEW s \in Subjects
  PROVE  /\ GetsThrough(s) => GetsThrough(s)'
         /\ password[s] = "own" => password'[s] = "own"
<1> USE DEF GetsThrough, AccountsInv
<1>1. CASE UNCHANGED accounts
  BY <1>1 DEF accounts
<1>2. ASSUME NEW t \in Subjects, create(t)
      PROVE  /\ GetsThrough(s) => GetsThrough(s)'
             /\ password[s] = "own" => password'[s] = "own"
  <2>1. t \notin used /\ login[t] = Nobody /\ password[t] = "none"
    BY <1>2 DEF create
  <2>2. CASE s = t
    BY <2>1, <2>2
  <2>3. CASE s # t
    <3>1. /\ login'[s] = login[s] /\ password'[s] = password[s] /\ stuck' = stuck
          /\ (s \in mustchange' <=> s \in mustchange)
          /\ (s \in verified => s \in verified')
      BY <1>2, <2>3 DEF create, RecordedAsVerified
    <3> QED BY <3>1
  <2> QED BY <2>2, <2>3
<1>3. ASSUME NEW t \in Subjects, PersonSignsIn(t)
      PROVE  /\ GetsThrough(s) => GetsThrough(s)'
             /\ password[s] = "own" => password'[s] = "own"
  <2>1. /\ UNCHANGED <<login, stuck, verified>>
        /\ s \in mustchange' => s \in mustchange
        /\ password'[s] \in {password[s], "own"}
    BY <1>3 DEF PersonSignsIn
  <2>2. (IF s \in mustchange THEN 4 ELSE 3) <= ScreenLimit
          => (IF s \in mustchange' THEN 4 ELSE 3) <= ScreenLimit
    BY <2>1, SignInsAssumption
  <2> QED BY <2>1, <2>2
<1>4. CASE hand_over
  <2>1. /\ UNCHANGED <<login, stuck, verified, mustchange>>
        /\ subject \in Subjects /\ password[subject] = "unseen"
        /\ password' = [password EXCEPT ![subject] = "handed over"]
    BY <1>4 DEF hand_over, CommandInv, HasAccount
  <2> QED BY <2>1
<1>5. ASSUME NEW refused \in BOOLEAN, verify_the_address(refused)
      PROVE  /\ GetsThrough(s) => GetsThrough(s)'
             /\ password[s] = "own" => password'[s] = "own"
  BY <1>5 DEF verify_the_address
<1>6. ASSUME NEW refused \in BOOLEAN, set_a_password(refused)
      PROVE  /\ GetsThrough(s) => GetsThrough(s)'
             /\ password[s] = "own" => password'[s] = "own"
  <2>1. /\ UNCHANGED <<login, stuck, verified, mustchange>>
        /\ \/ UNCHANGED password
           \/ /\ password[subject] = "none"
              /\ password' = [password EXCEPT ![subject] = "unseen"]
    BY <1>6 DEF set_a_password, holds_a_password
  <2> QED BY <2>1
<1>7. ASSUME NEW refused \in BOOLEAN, remove(refused)
      PROVE  /\ GetsThrough(s) => GetsThrough(s)'
             /\ password[s] = "own" => password'[s] = "own"
  <2>1. subject \in stuck /\ subject \in Subjects /\ password[subject] = "none"
    BY <1>7 DEF remove, CommandInv, HasAccount
  <2>2. \/ UNCHANGED accounts
        \/ /\ login' = [login EXCEPT ![subject] = Nobody]
           /\ stuck' = stuck \ {subject} /\ verified' = verified \ {subject}
           /\ password' = [password EXCEPT ![subject] = "none"]
           /\ mustchange' = mustchange \ {subject}
    BY <1>7 DEF remove
  <2>3. CASE s = subject
    BY <2>1, <2>2, <2>3 DEF accounts
  <2>4. CASE s # subject
    BY <2>2, <2>4 DEF accounts
  <2> QED BY <2>3, <2>4
<1> QED BY <1>1, <1>2, <1>3, <1>4, <1>5, <1>6, <1>7, WhoWritesAccounts

\* No command takes a working sign in away, nor the password its holder chose.
THEOREM SignInsKeepWorking == Spec => WorkingSignInsStay
<1>1. Init => SignInsInv
  BY InitIsSignInsInit, InitSignInsInv
<1>2. ASSUME SignInsInv, [Next]_toolvars
      PROVE  [\A s \in Subjects :
                /\ through_the_screens(s) => through_the_screens(s)'
                /\ password[s] = "own" => password'[s] = "own"]_signins
  <2>1. [SignInsNext]_signins
    BY <1>2, OneGroupSteps
  <2>2. ASSUME NEW s \in Subjects
        PROVE  /\ through_the_screens(s) => through_the_screens(s)'
               /\ password[s] = "own" => password'[s] = "own"
    <3>1. /\ GetsThrough(s) => GetsThrough(s)'
          /\ password[s] = "own" => password'[s] = "own"
      BY <1>2, <2>1, GetsThroughStays DEF SignInsInv
    <3>2. through_the_screens(s) => GetsThrough(s)
      BY ScreensOf
    <3>3. GetsThrough(s)' => through_the_screens(s)'
      BY ScreensAfter, Zenon
    <3>4. through_the_screens(s) => through_the_screens(s)'
      BY <3>1, <3>2, <3>3, Zenon
    <3> QED BY <3>1, <3>4, Zenon
  <2> QED BY <2>2, Zenon
<1>3. SignInsInv /\ [Next]_toolvars
        => [\A s \in Subjects :
              /\ through_the_screens(s) => through_the_screens(s)'
              /\ password[s] = "own" => password'[s] = "own"]_signins
  BY <1>2
<1>4. SignInsInv /\ [Next]_toolvars => SignInsInv'
  BY StepSignInsInv
<1> QED BY <1>1, <1>3, <1>4, PTL DEF Spec, WorkingSignInsStay

-----------------------------------------------------------------------------
(* Types.                                                                  *)

\* Configure.
LEMMA InitConfigureTypes ==
  ASSUME ConfigureInit \/ ServiceIsConfigured
  PROVE  ConfigureTypeOK
<1>1. /\ NPortals \in Portals /\ 1 \in Portals /\ 0 \in 0 .. MaxStops
      /\ 0 \in 0 .. MaxByHand /\ 0 \in 0 .. Many
  BY ConfigureAssumption DEF Portals, Many
<1> HIDE DEF Portals, Many
<1>2. CASE ConfigureInit
  BY <1>1, <1>2 DEF ConfigureInit, ConfigureTypeOK, Ids, Places, Ended, Writes
<1>3. CASE ServiceIsConfigured
  BY <1>1, <1>3 DEF ServiceIsConfigured, ConfigureTypeOK, Ids, Places, Ended, Writes
<1> QED BY <1>2, <1>3

\* One more than what is under a bound is within it.
LEMMA OneMore ==
  /\ \A N \in Nat : \A n \in 0 .. N : n < N => n + 1 \in 0 .. N
  /\ \A N \in Nat : \A n \in 1 .. N : n < N => n + 1 \in 1 .. N
OBVIOUS

\* What reads may not show yet.
LEMMA WritesAre ==
  /\ \A what \in {"project", "door", "catcher", "sending", "register"} :
       <<what, 0>> \in Writes
  /\ \A what \in {"created", "corrected"}, p \in Portals : <<what, p>> \in Writes
BY DEF Writes

\* A call that is answered or not keeps the types.
LEMMA ThenTypes ==
  ASSUME ConfigureTypeOK, NEW place \in Places \cup Ended, NEW heard \in BOOLEAN,
         Then(place, heard)
  PROVE  /\ at' \in Places \cup Ended
         /\ stops' \in 0 .. MaxStops /\ hands' \in 0 .. MaxByHand
<1>1. at' \in Places \cup Ended
  BY DEF Then, Ended
<1>2. stops' \in 0 .. MaxStops /\ hands' \in 0 .. MaxByHand
  <2>1. stops' = stops \/ (stops < MaxStops /\ stops' = stops + 1)
    BY DEF Then
  <2> QED BY <2>1, ConfigureAssumption, OneMore DEF Then, ConfigureTypeOK
<1> QED BY <1>1, <1>2

\* Every step of configure.py and of those beside it keeps the types.
LEMMA NextConfigureTypes ==
  ASSUME ConfigureTypeOK, [ConfigureNext]_configuration
  PROVE  ConfigureTypeOK'
<1> DEFINE Going == /\ at' \in Places \cup Ended
                    /\ stops' \in 0 .. MaxStops /\ hands' \in 0 .. MaxByHand
           Service == /\ projects \in SUBSET Ids
                      /\ clients \in [Portals -> SUBSET Ids]
                      /\ wrong \in SUBSET (Portals \X Ids \X Whats)
                      /\ door \in SUBSET Ids
                      /\ {label, shown} \subseteq {"none", "policy", "marked"}
                      /\ catchers \in 0 .. Many
                      /\ sending \in {"none", "catcher", "relay"}
                      /\ register \in BOOLEAN
                      /\ rest \in {"the lab's", "changed"}
           Running == /\ portal \in Portals
                      /\ read \in {"the lab's", "changed"}
                      /\ before.sending \in {"none", "catcher", "relay"}
                      /\ before.rest \in {"the lab's", "changed"}
                      /\ byhand \in BOOLEAN /\ asked \in {"none", "catcher"}
           Files_ == file \in Ids \cup {"none"} /\ behind \in SUBSET Writes
<1>0. Service /\ Running /\ Files_
  BY DEF ConfigureTypeOK
<1>1. Going /\ Service' /\ Running' /\ Files_' => ConfigureTypeOK'
  BY DEF ConfigureTypeOK
<1>2. ASSUME NEW place \in Places \cup Ended, NEW heard \in BOOLEAN, Then(place, heard)
      PROVE  Going
  BY <1>2, ThenTypes
<1>3. ASSUME NEW place \in Places \cup Ended, Goes(place)
      PROVE  Going
  BY <1>3, <1>2 DEF Goes
<1> HIDE DEF Going
<1>4. ASSUME UNCHANGED service PROVE Service'
  BY <1>0, <1>4 DEF service
<1>5. ASSUME UNCHANGED running PROVE Running'
  BY <1>0, <1>5 DEF running
<1>6. CASE StartRun
  <2>1. Going
    BY <1>3, <1>6 DEF StartRun, Places
  <2>2. 1 \in Portals
    BY ConfigureAssumption DEF Portals
  <2> QED BY <1>0, <1>1, <1>4, <1>6, <2>1, <2>2 DEF StartRun, service
<1>7. CASE organisation \/ Stops \/ LookAtMail
  <2>1. Going
    <3>1. CASE organisation
      BY <1>3, <3>1 DEF organisation, Places
    <3>2. CASE Stops
      BY <1>2, <3>2 DEF Stops
    <3>3. CASE LookAtMail
      <4>1. PICK place \in {"refused", "policy", "activate mail", "write the catcher"} :
              Goes(place)
        BY <3>3 DEF LookAtMail, point_at
      <4> QED BY <1>3, <4>1 DEF Places, Ended
    <3> QED BY <1>7, <3>1, <3>2, <3>3
  <2> QED BY <1>0, <1>1, <1>4, <1>5, <1>7, <2>1 DEF organisation, Stops, LookAtMail
<1>8. ASSUME NEW heard \in BOOLEAN, ensure_project(heard)
      PROVE  ConfigureTypeOK'
  <2>1. Going
    BY <1>2, <1>3, <1>8 DEF ensure_project, Places, Ended
  <2>2. /\ projects' \in SUBSET Ids
        /\ UNCHANGED <<clients, wrong, door, label, shown, catchers, sending,
                       register, rest, file, running>>
    BY <1>0, <1>8 DEF ensure_project, Ids
  <2>3. behind' \in SUBSET Writes
    <3>1. behind' = behind \/ behind' = behind \cup {<<"project", 0>>}
      BY <1>8 DEF ensure_project, Written
    <3> QED BY <1>0, <3>1, WritesAre
  <2> QED BY <1>0, <1>1, <1>5, <2>1, <2>2, <2>3
<1>9. ASSUME NEW heard \in BOOLEAN, ensure_app(heard)
      PROVE  ConfigureTypeOK'
  <2>1. ASSUME NextPortal(portal, heard)
        PROVE  Going /\ Running'
    <3>1. (IF HasFile(portal) THEN "file" ELSE AfterPortal(portal))
            \in Places \cup Ended
      BY DEF AfterPortal, Places
    <3>2. portal' \in Portals
      <4>1. portal' = portal \/ (portal < NPortals /\ portal' = portal + 1)
        BY <2>1 DEF NextPortal
      <4> QED BY <1>0, <4>1, ConfigureAssumption, OneMore DEF Portals
    <3> QED BY <1>0, <1>2, <2>1, <3>1, <3>2 DEF NextPortal
  <2>2. \/ NextPortal(portal, heard)
        \/ Goes("refused") /\ UNCHANGED running
    BY <1>9 DEF ensure_app
  <2>3. Going /\ Running'
    BY <1>3, <1>5, <2>1, <2>2 DEF Ended
  <2>4. clients' \in [Portals -> SUBSET Ids]
    <3>1. clients' = clients \/ clients' = [clients EXCEPT ![portal] = @ \cup {"ours"}]
      BY <1>9 DEF ensure_app
    <3> QED BY <1>0, <3>1 DEF Ids
  <2>5. wrong' \in SUBSET (Portals \X Ids \X Whats)
    <3>1. wrong' \subseteq wrong
      BY <1>9 DEF ensure_app
    <3> QED BY <1>0, <3>1
  <2>6. behind' \in SUBSET Writes
    <3>1. behind' \subseteq behind \cup {<<"created", portal>>, <<"corrected", portal>>}
      BY <1>9 DEF ensure_app, Written
    <3>2. <<"created", portal>> \in Writes /\ <<"corrected", portal>> \in Writes
      BY <1>0 DEF Writes
    <3> QED BY <1>0, <3>1, <3>2
  <2>7. UNCHANGED <<projects, door, label, shown, catchers, sending, register, rest,
                    file>>
    BY <1>9 DEF ensure_app
  <2> QED BY <1>0, <1>1, <2>3, <2>4, <2>5, <2>6, <2>7
<1>10. ASSUME NEW writable \in BOOLEAN, write_configuration(writable)
       PROVE  ConfigureTypeOK'
  <2>1. Going
    BY <1>3, <1>10 DEF write_configuration, AfterPortal, Places
  <2>2. portal' \in Portals
    <3>1. portal' = portal \/ (portal < NPortals /\ portal' = portal + 1)
      BY <1>10 DEF write_configuration
    <3> QED BY <1>0, <3>1, ConfigureAssumption, OneMore DEF Portals
  <2>3. file' \in Ids \cup {"none"}
    BY <1>0, <1>10 DEF write_configuration, Ids
  <2> QED BY <1>0, <1>1, <1>4, <1>10, <2>1, <2>2, <2>3 DEF write_configuration
<1>11. ASSUME NEW heard \in BOOLEAN, ensure_door_service(heard)
       PROVE  ConfigureTypeOK'
  <2>1. Going
    BY <1>2, <1>3, <1>11 DEF ensure_door_service, TakenIsThere, Places
  <2>2. /\ door' \in SUBSET Ids
        /\ UNCHANGED <<projects, clients, wrong, label, shown, catchers, sending,
                       register, rest, file, running>>
    BY <1>0, <1>11 DEF ensure_door_service, Ids
  <2>3. behind' \in SUBSET Writes
    <3>1. behind' = behind \/ behind' = behind \cup {<<"door", 0>>}
      BY <1>11 DEF ensure_door_service, Written
    <3> QED BY <1>0, <3>1, WritesAre
  <2> QED BY <1>0, <1>1, <1>5, <2>1, <2>2, <2>3
<1>12. ASSUME NEW heard \in BOOLEAN,
              apply_branding(heard) \/ activate_branding(heard)
       PROVE  ConfigureTypeOK'
  <2>1. Going
    BY <1>2, <1>12 DEF apply_branding, activate_branding, Places
  <2>2. {label', shown'} \subseteq {"none", "policy", "marked"}
    BY <1>0, <1>12 DEF apply_branding, activate_branding
  <2>3. UNCHANGED <<projects, clients, wrong, door, catchers, sending, register,
                    rest, file, behind, running>>
    BY <1>12 DEF apply_branding, activate_branding
  <2> QED BY <1>0, <1>1, <1>5, <2>1, <2>2, <2>3
<1>13. ASSUME NEW heard \in BOOLEAN,
              \/ write_the_catcher(heard) \/ activate(heard)
              \/ open_self_registration(heard)
       PROVE  ConfigureTypeOK'
  <2>1. Going
    BY <1>2, <1>13
    DEF write_the_catcher, activate, open_self_registration, Places, Ended
  <2>2. catchers' \in 0 .. Many
    <3>1. \/ catchers' = catchers \/ catchers' = Many
          \/ catchers < Many /\ catchers' = catchers + 1
      BY <1>13 DEF write_the_catcher, activate, open_self_registration
    <3>2. Many \in Nat /\ Many \in 0 .. Many
      BY DEF Many
    <3> QED BY <1>0, <3>1, <3>2, OneMore
  <2>3. /\ sending' \in {"none", "catcher", "relay"} /\ register' \in BOOLEAN
        /\ rest' \in {"the lab's", "changed"}
    BY <1>0, <1>13
    DEF write_the_catcher, activate, open_self_registration, HandedBack
  <2>4. behind' \in SUBSET Writes
    <3>1. PICK what \in {"catcher", "sending", "register"} :
            behind' = behind \cup {<<what, 0>>}
      BY <1>13 DEF write_the_catcher, activate, open_self_registration, Written
    <3> QED BY <1>0, <3>1, WritesAre
  <2>5. UNCHANGED <<projects, clients, wrong, door, label, shown, file, running>>
    BY <1>13 DEF write_the_catcher, activate, open_self_registration
  <2> QED BY <1>0, <1>1, <1>5, <2>1, <2>2, <2>3, <2>4, <2>5
<1>14. CASE LookAtPolicy
  <2>1. Going
    BY <1>3, <1>14 DEF LookAtPolicy, Places, Ended
  <2> QED BY <1>0, <1>1, <1>4, <1>14, <2>1 DEF LookAtPolicy
<1>15. CASE CatchUp
  <2>1. Going
    BY <1>15 DEF CatchUp, ConfigureTypeOK, Going
  <2> QED BY <1>0, <1>1, <1>4, <1>5, <1>15, <2>1 DEF CatchUp
<1>16. CASE \/ RelayIsSetUp
            \/ \E open \in BOOLEAN : PolicyIsChanged(open)
            \/ \E p \in Portals, id \in Ids, what \in Whats : ClientIsChanged(p, id, what)
  <2>1. \E what, p : Hand(what, p)
    BY <1>16 DEF RelayIsSetUp, PolicyIsChanged, ClientIsChanged
  <2>2. Going
    <3>1. /\ hands < MaxByHand /\ hands' = hands + 1
          /\ UNCHANGED <<at, stops>>
      BY <2>1 DEF Hand
    <3> QED BY <3>1, ConfigureAssumption, OneMore DEF ConfigureTypeOK, Going
  <2>3. /\ sending' \in {"none", "catcher", "relay"} /\ register' \in BOOLEAN
        /\ rest' \in {"the lab's", "changed"}
        /\ wrong' \in SUBSET (Portals \X Ids \X Whats)
    <3>1. CASE RelayIsSetUp
      BY <1>0, <3>1 DEF RelayIsSetUp
    <3>2. CASE \E open \in BOOLEAN : PolicyIsChanged(open)
      BY <1>0, <3>2 DEF PolicyIsChanged
    <3>3. CASE \E p \in Portals, id \in Ids, what \in Whats : ClientIsChanged(p, id, what)
      <4>1. PICK p \in Portals, id \in Ids, what \in Whats : ClientIsChanged(p, id, what)
        BY <3>3
      <4>2. /\ wrong' = wrong \cup {<<p, id, what>>}
            /\ <<p, id, what>> \in Portals \X Ids \X Whats
        BY <4>1 DEF ClientIsChanged
      <4>3. UNCHANGED <<sending, register, rest>>
        BY <4>1 DEF ClientIsChanged
      <4> QED BY <1>0, <4>2, <4>3
    <3> QED BY <1>16, <3>1, <3>2, <3>3
  <2>4. /\ UNCHANGED <<projects, clients, door, label, shown, catchers, file, portal,
                       read, before, asked>>
        /\ behind' \subseteq behind /\ byhand' = TRUE
    BY <2>1 DEF Hand
  <2> QED BY <1>0, <1>1, <2>2, <2>3, <2>4
<1>17. CASE UNCHANGED configuration
  BY <1>17 DEF configuration, service, running, ConfigureTypeOK
<1> QED
  BY <1>6, <1>7, <1>8, <1>9, <1>10, <1>11, <1>12, <1>13, <1>14, <1>15, <1>16, <1>17
  DEF ConfigureNext, RunsOn

\* SignIns: the types that its invariant does not speak of.
CommandTypes ==
  /\ verified \in SUBSET used /\ mustchange \in SUBSET used
  /\ admins \in SUBSET People
  /\ command \in Commands /\ step \in Steps
  /\ subject \in Subjects \cup {NoSubject} /\ joined \in People \cup {Nobody}
  /\ changed \in BOOLEAN /\ report \in [People -> Reports]
  /\ orphaned \in SUBSET People /\ cuts \in 0 .. MaxCuts

\* Says leaves a command that can go on.
LEMMA SaysTypes ==
  ASSUME SignInsInv, CommandTypes, NEW what \in Reports, Says(what)
  PROVE  /\ UNCHANGED <<command, subject, joined, changed, orphaned, cuts>>
         /\ step' \in Steps /\ report' \in [People -> Reports]
<1>1. person \in People
  BY DEF SignInsInv, CommandInv
<1>2. report' \in [People -> Reports]
  BY <1>1 DEF Says, CommandTypes
<1>3. step' \in {"find", "idle"}
  BY DEF Says
<1> QED BY <1>2, <1>3 DEF Says, Steps

\* Every step of the two commands, and of those who sign in, keeps the types.
LEMMA NextCommandTypes ==
  ASSUME SignInsInv, CommandTypes, [SignInsNext]_signins
  PROVE  CommandTypes'
<1> DEFINE Account == verified \in SUBSET used /\ mustchange \in SUBSET used
           Rest == /\ command \in Commands /\ step \in Steps
                   /\ subject \in Subjects \cup {NoSubject}
                   /\ joined \in People \cup {Nobody} /\ changed \in BOOLEAN
                   /\ report \in [People -> Reports]
                   /\ orphaned \in SUBSET People /\ cuts \in 0 .. MaxCuts
<1>0. Account /\ Rest /\ admins \in SUBSET People /\ person \in People
  BY DEF CommandTypes, SignInsInv, CommandInv
<1>1. Account' /\ Rest' /\ admins' \in SUBSET People => CommandTypes'
  BY DEF CommandTypes
<1>2. ASSUME NEW what \in Reports, Says(what) PROVE Rest'
  BY <1>0, <1>2, SaysTypes
<1>3. ASSUME NEW place \in Steps, GoesTo(place) PROVE Rest'
  BY <1>0, <1>3 DEF GoesTo
<1>4. ASSUME UNCHANGED accounts PROVE Account'
  BY <1>0, <1>4 DEF accounts
<1>5. step \in HasAccount => subject \in used
  BY SignInsAssumption DEF SignInsInv, CommandInv, AccountsInv
<1>6. cuts < MaxCuts => cuts + 1 \in 0 .. MaxCuts
  BY <1>0, SignInsAssumption, OneMore
<1>7. ASSUME NEW people \in SUBSET People \ {{}}, StartSeating(people)
      PROVE  CommandTypes'
  BY <1>0, <1>1, <1>4, <1>7 DEF StartSeating, members, Commands, Steps, Reports
<1>8. ASSUME NEW p \in People, NEW what \in Commands \ {"seat"}, StartOne(what, p)
      PROVE  CommandTypes'
  BY <1>0, <1>1, <1>4, <1>8 DEF StartOne, members, Steps, Reports
<1>9. ASSUME NEW s \in Subjects, create(s) PROVE CommandTypes'
  <2>1. Account'
    BY <1>0, <1>9 DEF create, RecordedAsVerified
  <2>2. Rest' /\ admins' = admins
    BY <1>0, <1>9 DEF create, AfterCreating, Steps, members
  <2> QED BY <1>0, <1>1, <2>1, <2>2
<1>10. ASSUME NEW s \in Subjects, PersonSignsIn(s) PROVE CommandTypes'
  <2>1. Account'
    BY <1>0, <1>10 DEF PersonSignsIn
  <2>2. Rest' /\ admins' = admins
    BY <1>0, <1>10 DEF PersonSignsIn, terminal, members
  <2> QED BY <1>0, <1>1, <2>1, <2>2
<1>11. CASE CreateIsRefused
  <2>1. Rest'
    BY <1>0, <1>11 DEF CreateIsRefused, Steps, Reports
  <2> QED BY <1>0, <1>1, <1>4, <1>11, <2>1 DEF CreateIsRefused, members
<1>12. CASE hand_over
  <2>1. AfterHandingOver # "said" => AfterHandingOver \in Steps
    BY DEF AfterHandingOver, Steps
  <2>2. \/ \E what \in Reports : Says(what)
        \/ AfterHandingOver # "said" /\ GoesTo(AfterHandingOver)
    BY <1>12 DEF hand_over, Reports
  <2>3. Rest'
    BY <1>2, <1>3, <2>1, <2>2
  <2> QED BY <1>0, <1>1, <1>12, <2>3 DEF hand_over, members
<1>13. CASE member_row_state
  BY <1>0, <1>1, <1>3, <1>4, <1>13 DEF member_row_state, members, Steps
<1>14. CASE seat
  <2>1. \E what \in Reports : Says(what)
    BY <1>14 DEF seat, Refused, Reports
  <2>2. admins' \in SUBSET People
    BY <1>0, <1>14 DEF seat, members
  <2>3. UNCHANGED accounts
    BY <1>14 DEF seat
  <2> QED BY <1>1, <1>2, <1>4, <2>1, <2>2, <2>3
<1>15. CASE SeatIsUnheard
  <2>1. Rest'
    BY <1>0, <1>6, <1>15 DEF SeatIsUnheard, Steps, Reports
  <2>2. admins' \in SUBSET People
    BY <1>0, <1>15 DEF SeatIsUnheard
  <2> QED BY <1>1, <1>4, <1>15, <2>1, <2>2 DEF SeatIsUnheard
<1>16. ASSUME NEW missed \in BOOLEAN, account_for(missed) PROVE CommandTypes'
  <2>1. UNCHANGED accounts /\ UNCHANGED members
    BY <1>16 DEF account_for
  <2>2. \/ GoesTo("create")
        \/ \E what \in Reports : Says(what)
        \/ \E s \in Subjects :
             /\ AccountIsThere(s) # "stop"
             /\ step' = AccountIsThere(s) /\ subject' = s
             /\ UNCHANGED <<command, joined, changed, report, orphaned, cuts>>
    BY <1>16 DEF account_for, Refused, Reports, find
  <2>3. \A s \in Subjects : AccountIsThere(s) # "stop" => AccountIsThere(s) \in Steps
    BY DEF AccountIsThere, Steps
  <2>4. Rest'
    BY <1>0, <1>2, <1>3, <2>2, <2>3 DEF Steps
  <2> QED BY <1>0, <1>1, <1>4, <2>1, <2>4 DEF members
<1>17. ASSUME NEW refused \in BOOLEAN, verify_the_address(refused)
       PROVE  CommandTypes'
  <2>1. Account'
    BY <1>0, <1>5, <1>17 DEF verify_the_address, HasAccount
  <2>2. \/ GoesTo("look for a password")
        \/ Says("refused")
        \/ /\ changed' = TRUE /\ step' = "look for a password"
           /\ UNCHANGED <<command, subject, joined, report, orphaned, cuts>>
    BY <1>17 DEF verify_the_address, Refused
  <2>3. Rest'
    BY <1>0, <1>2, <1>3, <2>2 DEF Steps, Reports
  <2> QED BY <1>0, <1>1, <1>17, <2>1, <2>3 DEF verify_the_address, members
<1>18. ASSUME NEW refused \in BOOLEAN, set_a_password(refused)
       PROVE  CommandTypes'
  <2>1. GoesTo("hand over") \/ \E what \in Reports : Says(what)
    BY <1>18 DEF set_a_password, Refused, Reports
  <2>2. Rest'
    BY <1>2, <1>3, <2>1 DEF Steps
  <2> QED BY <1>0, <1>1, <1>18, <2>2 DEF set_a_password, members
<1>19. ASSUME NEW refused \in BOOLEAN, remove(refused)
       PROVE  CommandTypes'
  <2>1. Account'
    BY <1>0, <1>19 DEF remove, accounts
  <2>2. \/ Says("refused")
        \/ /\ joined' = JoinedBefore /\ step' = "create"
           /\ UNCHANGED <<command, subject, changed, report, orphaned, cuts>>
    BY <1>19 DEF remove, Refused
  <2>3. JoinedBefore \in People \cup {Nobody}
    BY DEF JoinedBefore
  <2>4. Rest'
    BY <1>0, <1>2, <2>2, <2>3 DEF Steps, Reports
  <2> QED BY <1>0, <1>1, <1>19, <2>1, <2>4 DEF remove, members
<1>20. CASE repoint
  BY <1>0, <1>1, <1>2, <1>4, <1>20 DEF repoint, Reports
<1>21. CASE CutOff
  <2>1. Rest'
    BY <1>0, <1>6, <1>21 DEF CutOff, Steps
  <2> QED BY <1>0, <1>1, <1>4, <1>21, <2>1 DEF CutOff, members
<1>22. CASE UNCHANGED signins
  BY <1>0, <1>1, <1>4, <1>22 DEF signins, members, terminal
<1> QED
  BY <1>7, <1>8, <1>9, <1>10, <1>11, <1>12, <1>13, <1>14, <1>15, <1>16, <1>17, <1>18,
     <1>19, <1>20, <1>21, <1>22
  DEF SignInsNext

\* DatabaseTools: one more stop or missing answer, if there may be one.
LEMMA BreaksTypes ==
  ASSUME breaks \in 0 .. MaxBreaks
  PROVE  /\ Breaks => breaks' \in 0 .. MaxBreaks
         /\ \A answered \in BOOLEAN : Answers(answered) => breaks' \in 0 .. MaxBreaks
<1>1. Breaks => breaks' \in 0 .. MaxBreaks
  BY OneMore, DatabaseToolsAssumption DEF Breaks
<1> QED BY <1>1 DEF Answers

\* A script that runs, and a process that was started, have an archive.
Taken == script # "idle" \/ inside # "none" => taking # NoArchive

LEMMA NextTaken ==
  ASSUME Taken, [DatabaseToolsNext]_databasetools
  PROVE  Taken'
<1>1. ASSUME UNCHANGED taking, inside' = "none" => inside = "none",
             script = "idle" /\ inside = "none" => script' = "idle" /\ inside' = "none"
      PROVE  Taken'
  BY <1>1 DEF Taken
<1>2. CASE StartSchema \/ ApplyFile \/ SchemaIsCut \/ DatabaseIsDropped
  BY <1>1, <1>2
  DEF StartSchema, ApplyFile, SchemaIsCut, DatabaseIsDropped, restoring, container
<1>3. CASE CreateTheLoginRole \/ GrantOroApi
  BY <1>1, <1>3 DEF CreateTheLoginRole, GrantOroApi, restoring, container
<1>4. CASE \/ \E answered \in BOOLEAN :
                \/ LookAtSchema(answered)
                \/ LookForTheLoginRole(answered)
                \/ Backup(answered)
           \/ \E m \in Patrons : Join(m)
  BY <1>1, <1>4
  DEF LookAtSchema, LookForTheLoginRole, Backup, Join, restoring, container
<1>5. CASE \E number \in 0 .. Cardinality(Patrons) : StartRestore(number)
  BY <1>5 DEF StartRestore, Taken
<1>6. CASE CreateIfAbsent \/ roles_the_archive_needs \/ RestoreIsRefused
  BY <1>1, <1>6
  DEF CreateIfAbsent, roles_the_archive_needs, RestoreIsRefused, GoesOnTo, EndsWith,
      container
<1>7. CASE \E answered \in BOOLEAN :
             members_in_the_database(answered) \/ CountBack(answered)
  BY <1>1, <1>7 DEF members_in_the_database, CountBack, GoesOnTo, EndsWith, container
<1>8. CASE StartInside \/ WaitForIt \/ WaitIsCut
  BY <1>1, <1>8 DEF StartInside, WaitForIt, WaitIsCut, GoesOnTo, EndsWith, container
<1>9. CASE \E answered \in BOOLEAN : stopped(answered) \/ cleanup(answered)
  BY <1>1, <1>9 DEF stopped, cleanup, GoesOnTo, EndsWith
<1>10. CASE Signal \/ Killed
  BY <1>1, <1>10 DEF Signal, Killed, ScriptRuns, GoesOnTo
<1>11. CASE StartCopying \/ CopyFails \/ OpenCopy \/ Connect
  BY <1>1, <1>11 DEF StartCopying, CopyFails, OpenCopy, Connect, restoring
<1>12. CASE Land \/ RestoreFails \/ InsideEnds
  BY <1>1, <1>12 DEF Land, RestoreFails, InsideEnds, restoring
<1>13. CASE UNCHANGED databasetools
  BY <1>1, <1>13 DEF databasetools, restoring, container
<1> QED
  BY <1>2, <1>3, <1>4, <1>5, <1>6, <1>7, <1>8, <1>9, <1>10, <1>11, <1>12, <1>13
  DEF DatabaseToolsNext

\* Every step of the three scripts and of those beside them keeps the types.
LEMMA NextDatabaseTypes ==
  ASSUME DatabaseToolsTypeOK, Taken, [DatabaseToolsNext]_databasetools
  PROVE  DatabaseToolsTypeOK'
<1> DEFINE Database == /\ present \in BOOLEAN /\ roles \subseteq Roles
                       /\ applied \in 0 .. Files /\ held \in SUBSET Patrons
                       /\ applied < Files => held = {}
           Schema == schema \in SchemaPlaces /\ next \in 1 .. Files
           Archive == archive \in Archives \cup {NoArchive}
           Script == /\ script \in ScriptPlaces
                     /\ taking \in Archives \cup {NoArchive}
                     /\ overwrite \in 0 .. Cardinality(Patrons)
                     /\ told \in Sayings
           Inside == /\ inside \in InsidePlaces /\ input \in {"whole", "cut"}
                     /\ copy \in BOOLEAN
           Kept == landed \in BOOLEAN /\ deaf \in BOOLEAN /\ stray \in BOOLEAN
<1>0. /\ Database /\ Schema /\ Archive /\ Script /\ Inside /\ Kept
      /\ breaks \in 0 .. MaxBreaks /\ Files \in Nat
  BY DatabaseToolsAssumption DEF DatabaseToolsTypeOK
<1>1. /\ Database' /\ Schema' /\ Archive' /\ Script' /\ Inside' /\ Kept'
      /\ breaks' \in 0 .. MaxBreaks
      => DatabaseToolsTypeOK'
  BY DEF DatabaseToolsTypeOK
<1>2. /\ UNCHANGED database => Database'
      /\ UNCHANGED starting => Schema'
      /\ UNCHANGED archive => Archive'
      /\ UNCHANGED restoring => Script'
      /\ UNCHANGED container => Inside'
      /\ UNCHANGED kept => Kept'
  BY <1>0 DEF database, starting, restoring, container, kept
<1>3. ASSUME NEW place \in ScriptPlaces, GoesOnTo(place) PROVE Script'
  BY <1>0, <1>3 DEF GoesOnTo
<1>4. ASSUME NEW saying \in Sayings, EndsWith(saying) PROVE Script'
  BY <1>0, <1>4 DEF EndsWith, ScriptPlaces
<1>5. MayBeCut => input' \in {"whole", "cut"}
  BY <1>0 DEF MayBeCut
<1> HIDE DEF Database, Schema, Archive, Script, Inside, Kept
<1>6. CASE StartSchema \/ SchemaIsCut
  <2>1. Schema'
    BY <1>0, <1>6 DEF StartSchema, SchemaIsCut, SchemaPlaces, Schema
  <2>2. /\ UNCHANGED <<database, archive, restoring, container, kept>>
        /\ breaks' \in 0 .. MaxBreaks
    BY <1>0, <1>6, BreaksTypes DEF StartSchema, SchemaIsCut
  <2> QED BY <1>1, <1>2, <2>1, <2>2
<1>7. CASE ApplyFile
  <2>1. Database' /\ Schema'
    <3>1. CASE FileGoesIn
      <4>0. next \in 1 .. Files /\ applied = next - 1 /\ applied' = next
        BY <1>0, <1>7, <3>1 DEF ApplyFile, FileGoesIn, Schema
      <4>1. applied < Files /\ applied' \in 0 .. Files
        BY <1>0, <4>0
      <4>2. held = {} /\ held' = held /\ present' = present
        BY <1>0, <1>7, <4>1 DEF ApplyFile, Database
      <4>3. \/ schema' = "login role" /\ next' = next
            \/ next # Files /\ next' = next + 1 /\ schema' = schema
        BY <1>7, <3>1 DEF ApplyFile
      <4>4. next' \in 1 .. Files
        <5>1. next' = next \/ (next # Files /\ next' = next + 1)
          BY <4>3
        <5> QED BY <4>0, <5>1, DatabaseToolsAssumption
      <4>5. roles' \subseteq Roles
        <5>1. roles' = roles \/ roles' = roles \cup {"oro_api"}
          BY <1>7, <3>1 DEF ApplyFile
        <5> QED BY <1>0, <5>1 DEF Database, Roles
      <4> QED BY <1>0, <4>1, <4>2, <4>3, <4>4, <4>5 DEF Database, Schema, SchemaPlaces
    <3>2. CASE ~FileGoesIn
      BY <1>0, <1>7, <3>2 DEF ApplyFile, Database, Schema, SchemaPlaces
    <3> QED BY <3>1, <3>2
  <2> QED BY <1>0, <1>1, <1>2, <1>7, <2>1 DEF ApplyFile
<1>8. ASSUME NEW answered \in BOOLEAN, LookAtSchema(answered)
      PROVE  DatabaseToolsTypeOK'
  <2>1. 1 \in 1 .. Files
    BY DatabaseToolsAssumption
  <2>2. Schema'
    BY <1>8, <2>1 DEF LookAtSchema, SchemaPlaces, Schema
  <2> QED BY <1>0, <1>1, <1>2, <1>8, <2>2, BreaksTypes DEF LookAtSchema
<1>9. ASSUME NEW answered \in BOOLEAN, LookForTheLoginRole(answered)
      PROVE  DatabaseToolsTypeOK'
  <2>1. Schema'
    BY <1>0, <1>9 DEF LookForTheLoginRole, SchemaPlaces, Schema
  <2> QED BY <1>0, <1>1, <1>2, <1>9, <2>1, BreaksTypes DEF LookForTheLoginRole
<1>10. CASE CreateTheLoginRole \/ GrantOroApi
  <2>1. Schema'
    BY <1>0, <1>10 DEF CreateTheLoginRole, GrantOroApi, SchemaPlaces, Schema
  <2>2. roles' \in {roles, roles \cup {"oro_api_login"}, roles \cup {"granted"}}
    BY <1>10 DEF CreateTheLoginRole, GrantOroApi
  <2>3. UNCHANGED <<present, applied, held>>
    BY <1>10 DEF CreateTheLoginRole, GrantOroApi
  <2>4. Database'
    BY <1>0, <2>2, <2>3 DEF Database, Roles
  <2>5. UNCHANGED <<archive, restoring, container, kept, breaks>>
    BY <1>10 DEF CreateTheLoginRole, GrantOroApi
  <2> QED BY <1>0, <1>1, <1>2, <2>1, <2>4, <2>5
<1>11. ASSUME NEW answered \in BOOLEAN, Backup(answered)
       PROVE  DatabaseToolsTypeOK'
  <2>1. Archive'
    BY <1>0, <1>11 DEF Backup, Archive, Archives, Database
  <2> QED BY <1>0, <1>1, <1>2, <1>11, <2>1, BreaksTypes DEF Backup
<1>12. ASSUME NEW number \in 0 .. Cardinality(Patrons), StartRestore(number)
       PROVE  DatabaseToolsTypeOK'
  <2>1. Script'
    BY <1>0, <1>12 DEF StartRestore, Script, Archive, ScriptPlaces, Sayings
  <2>2. Inside' /\ Kept'
    BY <1>12 DEF StartRestore, Inside, Kept, InsidePlaces
  <2> QED BY <1>0, <1>1, <1>2, <1>12, <2>1, <2>2 DEF StartRestore
<1>13. CASE RestoreIsRefused
  BY <1>0, <1>1, <1>2, <1>4, <1>13, BreaksTypes DEF RestoreIsRefused, Sayings
<1>14. CASE CreateIfAbsent
  <2>1. Database'
    BY <1>0, <1>14 DEF CreateIfAbsent, Database
  <2> QED BY <1>0, <1>1, <1>2, <1>3, <1>14, <2>1 DEF CreateIfAbsent, ScriptPlaces
<1>15. ASSUME NEW answered \in BOOLEAN, members_in_the_database(answered)
       PROVE  DatabaseToolsTypeOK'
  <2>1. Script'
    BY <1>3, <1>4, <1>15 DEF members_in_the_database, ScriptPlaces, Sayings
  <2> QED BY <1>0, <1>1, <1>2, <1>15, <2>1, BreaksTypes DEF members_in_the_database
<1>16. CASE roles_the_archive_needs
  <2>1. Script'
    BY <1>3, <1>4, <1>16 DEF roles_the_archive_needs, ScriptPlaces, Sayings
  <2>2. Database'
    <3>1. UNCHANGED <<present, applied, held>>
      BY <1>16 DEF roles_the_archive_needs
    <3>2. script # "idle" => taking \in Archives
      BY <1>0 DEF Script, Taken
    <3>3. taking.roles \subseteq Roles
      BY <1>16, <3>2 DEF roles_the_archive_needs, Archives
    <3>4. roles' \in {roles, roles \cup taking.roles}
      BY <1>16 DEF roles_the_archive_needs
    <3> QED BY <1>0, <3>1, <3>3, <3>4 DEF Database
  <2> QED BY <1>0, <1>1, <1>2, <1>16, <2>1, <2>2 DEF roles_the_archive_needs
<1>17. CASE StartInside
  <2>1. Inside'
    BY <1>0, <1>17 DEF StartInside, Inside, InsidePlaces
  <2> QED BY <1>0, <1>1, <1>2, <1>3, <1>17, <2>1 DEF StartInside, ScriptPlaces
<1>18. CASE StartCopying \/ CopyFails \/ OpenCopy \/ Connect \/ RestoreFails \/ InsideEnds
  <2>1. Inside'
    BY <1>0, <1>18
    DEF StartCopying, CopyFails, OpenCopy, Connect, RestoreFails, InsideEnds,
        Inside, InsidePlaces
  <2>2. Kept'
    <3>1. UNCHANGED <<landed, deaf>> /\ stray' \in {stray, TRUE, FALSE}
      BY <1>18
      DEF StartCopying, CopyFails, OpenCopy, Connect, RestoreFails, InsideEnds, kept
    <3> QED BY <1>0, <3>1 DEF Kept
  <2>3. UNCHANGED <<database, starting, archive, restoring>>
    BY <1>18 DEF StartCopying, CopyFails, OpenCopy, Connect, RestoreFails, InsideEnds
  <2>4. breaks' \in 0 .. MaxBreaks
    BY <1>0, <1>18, BreaksTypes
    DEF StartCopying, CopyFails, OpenCopy, Connect, RestoreFails, InsideEnds, Answers
  <2> QED BY <1>1, <1>2, <2>1, <2>2, <2>3, <2>4
<1>19. CASE Land
  <2>1. Database'
    <3>1. inside = "restoring" /\ applied' = Files /\ held' = taking.held
          /\ UNCHANGED <<present, roles>>
      BY <1>19 DEF Land
    <3>2. taking \in Archives
      BY <1>0, <3>1 DEF Script, Taken
    <3>3. held' \in SUBSET Patrons
      BY <3>1, <3>2 DEF Archives
    <3> QED BY <1>0, <3>1, <3>3 DEF Database
  <2>2. Inside' /\ Kept'
    BY <1>0, <1>19 DEF Land, Inside, Kept, InsidePlaces
  <2> QED BY <1>0, <1>1, <1>2, <1>19, <2>1, <2>2 DEF Land
<1>20. CASE WaitForIt
  <2>1. Script'
    BY <1>3, <1>4, <1>20 DEF WaitForIt, ScriptPlaces, Sayings
  <2> QED BY <1>0, <1>1, <1>2, <1>20, <2>1 DEF WaitForIt
<1>21. CASE WaitIsCut
  <2>1. Script' /\ Inside' /\ Kept'
    BY <1>0, <1>4, <1>5, <1>21 DEF WaitIsCut, Sayings, Inside, Kept
  <2> QED BY <1>0, <1>1, <1>2, <1>21, <2>1, BreaksTypes DEF WaitIsCut
<1>22. ASSUME NEW answered \in BOOLEAN, CountBack(answered)
       PROVE  DatabaseToolsTypeOK'
  <2>1. Script'
    BY <1>4, <1>22 DEF CountBack, Sayings
  <2> QED BY <1>0, <1>1, <1>2, <1>22, <2>1, BreaksTypes DEF CountBack
<1>23. CASE Signal \/ Killed
  <2>1. Script'
    BY <1>3, <1>23 DEF Signal, Killed, ScriptPlaces
  <2>2. Inside' /\ Kept'
    BY <1>0, <1>5, <1>23 DEF Signal, Killed, kept, Inside, Kept
  <2> QED BY <1>0, <1>1, <1>2, <1>23, <2>1, <2>2, BreaksTypes DEF Signal, Killed
<1>24. ASSUME NEW answered \in BOOLEAN, stopped(answered)
       PROVE  DatabaseToolsTypeOK'
  <2>1. Script'
    BY <1>4, <1>24 DEF stopped, Sayings
  <2>2. Inside'
    BY <1>0, <1>24 DEF stopped, Inside, InsidePlaces
  <2>3. Kept'
    BY <1>0, <1>24 DEF stopped, Kept
  <2> QED BY <1>0, <1>1, <1>2, <1>24, <2>1, <2>2, <2>3, BreaksTypes DEF stopped
<1>25. ASSUME NEW answered \in BOOLEAN, cleanup(answered)
       PROVE  DatabaseToolsTypeOK'
  <2>1. Script'
    BY <1>3, <1>25 DEF cleanup, ScriptPlaces
  <2>2. Inside' /\ Kept'
    BY <1>0, <1>25 DEF cleanup, Inside, Kept
  <2> QED BY <1>0, <1>1, <1>2, <1>25, <2>1, <2>2, BreaksTypes DEF cleanup
<1>26. ASSUME NEW m \in Patrons, Join(m) PROVE DatabaseToolsTypeOK'
  <2>1. Database'
    BY <1>0, <1>26 DEF Join, Database
  <2> QED BY <1>0, <1>1, <1>2, <1>26, <2>1 DEF Join
<1>27. CASE DatabaseIsDropped
  <2>1. 0 \in 0 .. Files
    BY <1>0
  <2>2. Database'
    BY <1>0, <1>27, <2>1 DEF DatabaseIsDropped, Database
  <2> QED BY <1>0, <1>1, <1>2, <1>27, <2>2, BreaksTypes DEF DatabaseIsDropped
<1>28. CASE UNCHANGED databasetools
  BY <1>0, <1>1, <1>2, <1>28 DEF databasetools
<1> QED
  BY <1>6, <1>7, <1>8, <1>9, <1>10, <1>11, <1>12, <1>13, <1>14, <1>15, <1>16, <1>17,
     <1>18, <1>19, <1>20, <1>21, <1>22, <1>23, <1>24, <1>25, <1>26, <1>27, <1>28
  DEF DatabaseToolsNext

\* The type invariants of the three groups of tools hold of every reachable
\* state.
THEOREM TypeCorrect == Spec => []TypeOK
<1> DEFINE Inv == /\ SignInsInv /\ CommandTypes
                  /\ ConfigureTypeOK /\ DatabaseToolsTypeOK /\ Taken
<1>1. Init => Inv
  <2> SUFFICES ASSUME Init PROVE Inv
    OBVIOUS
  <2>1. SignInsInv /\ Taken
    BY InitIsSignInsInit, InitSignInsInv DEF Init, DatabaseToolsInit, Taken
  <2>2. CommandTypes
    <3>1. SignInsInit
      BY InitIsSignInsInit
    <3>2. verified \in SUBSET used /\ mustchange \in SUBSET used
      BY <3>1 DEF SignInsInit
    <3>3. admins \in SUBSET People /\ orphaned \in SUBSET People
      BY <3>1 DEF SignInsInit
    <3>4. command \in Commands /\ step \in Steps
      BY <3>1 DEF SignInsInit, Commands, Steps
    <3>5. report \in [People -> Reports]
      BY <3>1 DEF SignInsInit, Reports
    <3>6. /\ subject \in Subjects \cup {NoSubject} /\ joined \in People \cup {Nobody}
          /\ changed \in BOOLEAN
      BY <3>1 DEF SignInsInit
    <3>7. cuts \in 0 .. MaxCuts
      <4>1. 0 \in 0 .. MaxCuts
        BY SignInsAssumption
      <4> QED BY <3>1, <4>1 DEF SignInsInit
    <3> QED BY <3>2, <3>3, <3>4, <3>5, <3>6, <3>7 DEF CommandTypes
  <2>3. ConfigureTypeOK
    BY InitConfigureTypes DEF Init
  <2>4. DatabaseToolsTypeOK
    <3>1. /\ 0 \in 0 .. Files /\ 1 \in 1 .. Files /\ 0 \in 0 .. MaxBreaks
          /\ 0 \in 0 .. Cardinality(Patrons)
      BY DatabaseToolsAssumption, FS_CardinalityType
    <3> QED BY <3>1
         DEF Init, DatabaseToolsInit, DatabaseToolsTypeOK, SchemaPlaces, ScriptPlaces,
             InsidePlaces, Sayings
  <2> QED BY <2>1, <2>2, <2>3, <2>4
<1>2. Inv /\ [Next]_toolvars => Inv'
  <2> SUFFICES ASSUME Inv, [Next]_toolvars PROVE Inv'
    OBVIOUS
  <2>1. /\ [ConfigureNext]_configuration /\ [SignInsNext]_signins
        /\ [DatabaseToolsNext]_databasetools
    BY OneGroupSteps
  <2>2. SignInsInv'
    BY StepSignInsInv
  <2>3. CommandTypes'
    BY <2>1, NextCommandTypes
  <2>4. ConfigureTypeOK' /\ DatabaseToolsTypeOK' /\ Taken'
    BY <2>1, NextConfigureTypes, NextDatabaseTypes, NextTaken
  <2> QED BY <2>2, <2>3, <2>4
<1>3. Inv => TypeOK
  BY DEF TypeOK, SignInsTypeOK, SignInsInv, AccountsInv, CommandInv, RowsInv,
         CommandTypes
<1> QED BY <1>1, <1>2, <1>3, PTL DEF Spec

=============================================================================
