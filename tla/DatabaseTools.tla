--------------------------- MODULE DatabaseTools ---------------------------
(***************************************************************************)
(* What is run against the oro database from the host: the schema service  *)
(* (db/apply-the-schema.sh), tools/backup/backup.sh, and                   *)
(* tools/backup/restore.sh with the process it starts in the container.    *)
(* The service may be started again, members join while it is up, the      *)
(* database may be dropped, and each of the three may be stopped, or get   *)
(* no answer, anywhere.                                                    *)
(*                                                                         *)
(* A database is how many of the migrations and seeds are in it and whose  *)
(* rows it holds.  The roles are the cluster's, and outlive it: oro_api    *)
(* and door_reader, which come together, oro_api_login, which the members  *)
(* API logs in as, and the grant of the first to the last.                 *)
(***************************************************************************)
EXTENDS Naturals, FiniteSets

CONSTANTS Patrons,    \* people who may have a row
          Files,      \* migrations and seeds, in the order they are applied
          NoArchive,
          MaxBreaks   \* bound: stops, missing answers and dropped databases

ASSUME DatabaseToolsAssumption ==
  IsFiniteSet(Patrons) /\ Files \in Nat \ 0 .. 2 /\ MaxBreaks \in Nat

\* The file that makes the members table, and the one that makes the roles.
MembersFile == 2
RolesFile == 3

VARIABLES present,    \* there is a database called oro
          applied,    \* how many of the files are in it
          held,       \* the people whose rows it holds
          roles,      \* the roles and the grant the cluster has
          schema,     \* where the schema service is
          next,       \* the file it applies next
          archive,    \* the newest archive: its rows, and a roles file beside it
          script,     \* where restore.sh is
          taking,     \* the archive it restores
          overwrite,  \* --overwrite, 0 without it
          told,       \* what it has told the operator
          inside,     \* where the process in the container is
          input,      \* the archive arrives whole, or is cut
          copy,       \* there is a copy on the container's /dev/shm
          landed,     \* kept for the properties: the restore has committed,
          deaf,       \*   the script ended out of touch with what it started,
          stray,      \*   a copy was left that nobody comes back to
          breaks      \* how often something stopped or did not answer

database == <<present, applied, held, roles>>
starting == <<schema, next>>
restoring == <<script, taking, overwrite, told>>
container == <<inside, input, copy>>
kept == <<landed, deaf, stray>>
databasetools == <<database, starting, archive, restoring, container, kept, breaks>>

Roles == {"oro_api", "oro_api_login", "granted"}

SchemaPlaces == {"not run", "looking", "applying", "login role", "creating",
                 "granting", "completed", "failed"}
ScriptPlaces == {"idle", "present", "count", "roles", "start", "waiting",
                 "counting back", "stopping", "cleaning"}
InsidePlaces == {"none", "launched", "copying", "opened", "restoring",
                 "committed", "rolled back", "ended well", "ended badly"}
Sayings == {"nothing", "refused", "restored", "rolled back",
            "stopped before", "stopped with it"}
Archives == [held : SUBSET Patrons, roles : SUBSET Roles]

ScriptRuns == script # "idle"
InsideRuns == inside \notin {"none", "ended well", "ended badly"}

Breaks == breaks < MaxBreaks /\ breaks' = breaks + 1
Answers(answered) == IF answered THEN UNCHANGED breaks ELSE Breaks

-----------------------------------------------------------------------------
(* The schema service.                                                     *)

StartSchema ==
  /\ schema \in {"not run", "completed", "failed"}
  /\ schema' = "looking"
  /\ UNCHANGED <<database, next, archive, restoring, container, kept, breaks>>

\* The one thing asked: is there a table called members.
SchemaIsThere == applied >= MembersFile

\* A question that gets no answer is taken for a no.
LookAtSchema(answered) ==
  /\ schema = "looking"
  /\ Answers(answered)
  /\ schema' = IF answered /\ present /\ SchemaIsThere THEN "login role" ELSE "applying"
  /\ next' = 1
  /\ UNCHANGED <<database, archive, restoring, container, kept>>

\* Each file is a transaction of its own.  A database that is not as the file
\* before left it refuses it, and so does a cluster that has the roles.
FileGoesIn ==
  present /\ applied = next - 1 /\ (next = RolesFile => "oro_api" \notin roles)

ApplyFile ==
  /\ schema = "applying"
  /\ IF FileGoesIn
     THEN /\ applied' = next
          /\ roles' = IF next = RolesFile THEN roles \cup {"oro_api"} ELSE roles
          /\ IF next = Files THEN schema' = "login role" /\ UNCHANGED next
                             ELSE next' = next + 1 /\ UNCHANGED schema
     ELSE schema' = "failed" /\ UNCHANGED <<applied, roles, next>>
  /\ UNCHANGED <<present, held, archive, restoring, container, kept, breaks>>

\* A question of its own.  One that gets no answer, or has no database to go to,
\* is taken for a yes.
LookForTheLoginRole(answered) ==
  /\ schema = "login role"
  /\ Answers(answered)
  /\ schema' = IF answered /\ present /\ "oro_api_login" \notin roles
               THEN "creating" ELSE "completed"
  /\ UNCHANGED <<database, next, archive, restoring, container, kept>>

\* The role is committed before the grant is tried.
CreateTheLoginRole ==
  /\ schema = "creating"
  /\ IF present /\ "oro_api_login" \notin roles
     THEN roles' = roles \cup {"oro_api_login"} /\ schema' = "granting"
     ELSE schema' = "failed" /\ UNCHANGED roles
  /\ UNCHANGED <<present, applied, held, next, archive, restoring, container, kept,
                 breaks>>

GrantOroApi ==
  /\ schema = "granting"
  /\ IF present /\ "oro_api" \in roles
     THEN roles' = roles \cup {"granted"} /\ schema' = "completed"
     ELSE schema' = "failed" /\ UNCHANGED roles
  /\ UNCHANGED <<present, applied, held, next, archive, restoring, container, kept,
                 breaks>>

SchemaIsCut ==
  /\ schema \in {"looking", "applying", "login role", "creating", "granting"}
  /\ Breaks
  /\ schema' = "failed"
  /\ UNCHANGED <<database, next, archive, restoring, container, kept>>

-----------------------------------------------------------------------------
(* backup.sh.                                                              *)

\* pg_dump reads one snapshot into a partial file, which gets the archive's
\* name once it has been read back; one that is cut off gets none and changes
\* nothing here.  The roles are written after that, if the cluster answers.
\* Bound: archives are of a database the whole schema is in.
Backup(answered) ==
  /\ present /\ applied = Files
  /\ Answers(answered)
  /\ archive' = [held |-> held, roles |-> IF answered THEN roles ELSE {}]
  /\ archive' # archive
  /\ UNCHANGED <<database, starting, restoring, container, kept>>

-----------------------------------------------------------------------------
(* restore.sh, as far as starting the restore.                             *)

GoesOnTo(place) == script' = place /\ UNCHANGED <<taking, overwrite, told>>

\* It has said its last, and its EXIT trap is still to run.
EndsWith(saying) ==
  script' = "cleaning" /\ told' = saying /\ UNCHANGED <<taking, overwrite>>

\* Bound: the process of an earlier restore has ended.
StartRestore(number) ==
  /\ ~ScriptRuns /\ ~InsideRuns
  /\ archive # NoArchive
  /\ script' = "present"
  /\ taking' = archive
  /\ overwrite' = number
  /\ told' = "nothing"
  /\ inside' = "none" /\ input' = "whole"
  /\ copy' = FALSE      \* an earlier one has another name
  /\ landed' = FALSE /\ deaf' = FALSE /\ stray' = FALSE
  /\ UNCHANGED <<database, starting, archive, breaks>>

\* An archive that does not open, a cluster that does not answer, a /dev/shm
\* that is too small, a createdb that fails.
RestoreIsRefused ==
  /\ script \in {"present", "roles", "start"}
  /\ Breaks
  /\ EndsWith("refused")
  /\ UNCHANGED <<database, starting, archive, container, kept>>

CreateIfAbsent ==
  /\ script = "present"
  /\ GoesOnTo("count")
  /\ present' = TRUE
  /\ UNCHANGED <<applied, held, roles, starting, archive, container, kept, breaks>>

\* HOLDS is compared here and nowhere later.  No table, and no answer, are both
\* no members at all.
members_in_the_database(answered) ==
  /\ script = "count"
  /\ Answers(answered)
  /\ IF answered /\ held # {} /\ overwrite # Cardinality(held)
     THEN EndsWith("refused")
     ELSE GoesOnTo("roles")
  /\ UNCHANGED <<database, starting, archive, container, kept>>

\* The roles file is applied, statement by statement and whatever each meets, and
\* the roles the grants name are looked for.
roles_the_archive_needs ==
  /\ script = "roles"
  /\ roles' = IF present THEN roles \cup taking.roles ELSE roles
  /\ IF present /\ "oro_api" \in roles' THEN GoesOnTo("start") ELSE EndsWith("refused")
  /\ UNCHANGED <<present, applied, held, starting, archive, container, kept, breaks>>

StartInside ==
  /\ script = "start"
  /\ GoesOnTo("waiting")
  /\ inside' = "launched"
  /\ UNCHANGED <<database, starting, archive, input, copy, kept, breaks>>

-----------------------------------------------------------------------------
(* The process in the container.                                           *)

StartCopying ==
  /\ inside = "launched"
  /\ inside' = "copying"
  /\ copy' = TRUE
  /\ UNCHANGED <<database, starting, archive, restoring, input, kept, breaks>>

\* /dev/shm is full.  The shell exits without its rm.
CopyFails ==
  /\ inside = "copying"
  /\ Breaks
  /\ inside' = "ended badly"
  /\ stray' = (copy /\ ~ScriptRuns)
  /\ UNCHANGED <<database, starting, archive, restoring, input, copy, landed, deaf>>

\* pg_restore opens the copy before it connects.
OpenCopy ==
  /\ inside = "copying"
  /\ inside' = IF copy THEN "opened" ELSE "ended badly"
  /\ UNCHANGED <<database, starting, archive, restoring, input, copy, kept, breaks>>

Connect ==
  /\ inside = "opened"
  /\ inside' = IF present THEN "restoring" ELSE "rolled back"
  /\ UNCHANGED <<database, starting, archive, restoring, input, copy, kept, breaks>>

\* One transaction, which a cut archive does not get to the end of.
Land ==
  /\ inside = "restoring"
  /\ present /\ input = "whole"
  /\ applied' = Files
  /\ held' = taking.held
  /\ landed' = TRUE
  /\ inside' = "committed"
  /\ UNCHANGED <<present, roles, starting, archive, restoring, input, copy, deaf,
                 stray, breaks>>

\* Faulty: the shell ends where pg_restore fails.
FailsAtOnce ==
  /\ inside = "restoring"
  /\ Answers(input = "cut" \/ ~present)
  /\ inside' = "ended badly"
  /\ UNCHANGED <<database, starting, archive, restoring, input, copy, kept>>

RestoreFails ==
  /\ inside = "restoring"
  /\ Answers(input = "cut" \/ ~present)
  /\ inside' = "rolled back"
  /\ UNCHANGED <<database, starting, archive, restoring, input, copy, kept>>

\* pg_restore's status is kept until the copy is removed.
InsideEnds ==
  /\ inside \in {"committed", "rolled back"}
  /\ inside' = IF inside = "committed" THEN "ended well" ELSE "ended badly"
  /\ copy' = FALSE
  /\ UNCHANGED <<database, starting, archive, restoring, input, kept, breaks>>

-----------------------------------------------------------------------------
(* The rest of restore.sh.                                                 *)

\* wait gives the status of the process.
WaitForIt ==
  /\ script = "waiting"
  /\ ~InsideRuns
  /\ IF inside = "ended well" THEN GoesOnTo("counting back")
                              ELSE EndsWith("rolled back")
  /\ UNCHANGED <<database, starting, archive, container, kept, breaks>>

\* What docker exec still feeds in may stop with the script or go on.
MayBeCut ==
  input' \in IF inside \in {"launched", "copying"} THEN {"whole", "cut"} ELSE {input}

\* The connection to docker is lost, which is a status like any other.
WaitIsCut ==
  /\ script = "waiting"
  /\ Breaks
  /\ EndsWith("rolled back")
  /\ MayBeCut
  /\ deaf' = TRUE
  /\ UNCHANGED <<database, starting, archive, inside, copy, landed, stray>>

\* A count that gets no answer ends the script there, with nothing said.
CountBack(answered) ==
  /\ script = "counting back"
  /\ Answers(answered)
  /\ EndsWith(IF answered /\ present THEN "restored" ELSE "nothing")
  /\ UNCHANGED <<database, starting, archive, container, kept>>

\* ctrl-c, kill or a dropped session, while the process is waited for or at any
\* other time, the EXIT trap's included.
Signal ==
  /\ ScriptRuns /\ script # "stopping"
  /\ Breaks
  /\ GoesOnTo("stopping")
  /\ MayBeCut
  /\ UNCHANGED <<database, starting, archive, inside, copy, kept>>

\* The places a restore that is not in goes no further from.
Over == {"none", "rolled back", "ended badly"}

\* Faulty: pg_restore's connection does not carry the name.
FindsNobody(answered) ==
  /\ script = "stopping"
  /\ Answers(answered)
  /\ EndsWith("stopped before")
  /\ deaf' = (inside \notin Over /\ ~(answered /\ inside = "restoring"))
  /\ UNCHANGED <<database, starting, archive, container, landed, stray>>

\* The backend that carries the restore's name is terminated, if there is one.
\* A terminate that gets no answer is told as one that found nobody, and may have
\* been carried out or not.
stopped(answered) ==
  LET found == answered /\ present /\ inside \in {"restoring", "committed"}
  IN /\ script = "stopping"
     /\ Answers(answered)
     /\ EndsWith(IF found THEN "stopped with it" ELSE "stopped before")
     /\ \/ present /\ inside = "restoring" /\ inside' = "rolled back"
        \/ ~(found /\ inside = "restoring") /\ UNCHANGED inside
     /\ deaf' = (inside \notin Over /\ ~(found /\ inside = "restoring"))
     /\ UNCHANGED <<database, starting, archive, input, copy, landed, stray>>

\* The EXIT trap.  A removal that gets no answer is let go.
cleanup(answered) ==
  /\ script = "cleaning"
  /\ Answers(answered)
  /\ GoesOnTo("idle")
  /\ copy' = (copy /\ ~answered)
  /\ stray' = (copy' /\ ~InsideRuns)
  /\ UNCHANGED <<database, starting, archive, inside, input, landed, deaf>>

\* kill -9: no trap runs.
Killed ==
  /\ ScriptRuns
  /\ Breaks
  /\ GoesOnTo("idle")
  /\ MayBeCut
  /\ stray' = (copy /\ ~InsideRuns)
  /\ UNCHANGED <<database, starting, archive, inside, copy, landed, deaf>>

-----------------------------------------------------------------------------
(* Beside them.                                                            *)

\* POST /me, while the service is up.
Join(m) ==
  /\ schema = "completed" /\ present /\ applied = Files
  /\ m \notin held
  /\ held' = held \cup {m}
  /\ UNCHANGED <<present, applied, roles, starting, archive, restoring, container,
                 kept, breaks>>

\* The database is gone, as the runbook opens, and its backends with it.  The
\* roles are the cluster's.
DatabaseIsDropped ==
  /\ present
  /\ Breaks
  /\ present' = FALSE /\ applied' = 0 /\ held' = {}
  /\ UNCHANGED <<roles, starting, archive, restoring, container, kept>>

DatabaseToolsInit ==
  /\ present = TRUE /\ applied = 0 /\ held = {} /\ roles = {}
  /\ schema = "not run" /\ next = 1
  /\ archive = NoArchive
  /\ script = "idle" /\ taking = NoArchive /\ overwrite = 0 /\ told = "nothing"
  /\ inside = "none" /\ input = "whole" /\ copy = FALSE
  /\ landed = FALSE /\ deaf = FALSE /\ stray = FALSE
  /\ breaks = 0

DatabaseToolsNext ==
  \/ StartSchema
  \/ ApplyFile
  \/ CreateTheLoginRole \/ GrantOroApi
  \/ SchemaIsCut
  \/ \E answered \in BOOLEAN :
       \/ LookAtSchema(answered)
       \/ LookForTheLoginRole(answered)
       \/ Backup(answered)
       \/ members_in_the_database(answered)
       \/ CountBack(answered)
       \/ stopped(answered)
       \/ cleanup(answered)
  \/ \E number \in 0 .. Cardinality(Patrons) : StartRestore(number)
  \/ CreateIfAbsent \/ roles_the_archive_needs \/ RestoreIsRefused
  \/ StartInside \/ WaitForIt \/ WaitIsCut
  \/ Signal \/ Killed
  \/ StartCopying \/ CopyFails \/ OpenCopy \/ Connect
  \/ Land \/ RestoreFails \/ InsideEnds
  \/ \E m \in Patrons : Join(m)
  \/ DatabaseIsDropped

-----------------------------------------------------------------------------
(* Properties.                                                             *)

DatabaseToolsTypeOK ==
  /\ present \in BOOLEAN /\ roles \subseteq Roles
  /\ applied \in 0 .. Files
  /\ held \in SUBSET Patrons
  /\ applied < Files => held = {}
  /\ schema \in SchemaPlaces
  /\ next \in 1 .. Files
  /\ archive \in Archives \cup {NoArchive}
  /\ script \in ScriptPlaces
  /\ taking \in Archives \cup {NoArchive}
  /\ overwrite \in 0 .. Cardinality(Patrons)
  /\ told \in Sayings
  /\ inside \in InsidePlaces
  /\ input \in {"whole", "cut"}
  /\ {copy, landed, deaf, stray} \subseteq BOOLEAN
  /\ breaks \in 0 .. MaxBreaks

\* What restore.sh says of the database when it ends is so: restored when the
\* archive is in, and refused, rolled back or stopped when nothing of it is, nor
\* comes later.  Of a lost connection it says rolled back without knowing.  Of a
\* stop it is so where the terminate is answered and finds the restore inside its
\* transaction, or there is no restore to find; a restore that is on its way to
\* its transaction, or has committed, or whose terminate gets no answer, is told
\* as stopped and is not (restore.sh:21-29, 125-140, 242-263).
ToldIsTrue ==
  ~deaf /\ told # "nothing" => (landed <=> told = "restored")

\* The copy of the members database has somebody who will remove it: the script
\* or the process in the container, whichever is left.  It stays when both are
\* gone with no chance to, and when the removal the script tries at its end gets
\* no answer, which the script lets go (restore.sh:94-98, 119-123, 213-215).
CopyIsWatched == copy => ScriptRuns \/ InsideRuns \/ stray

\* What compose.api.yaml:15-16 says of the schema service, whose completion the
\* API waits for: the database then holds everything the API needs.  Where a run
\* was cut off after the members table, or refused by roles that outlived a
\* dropped database, a later one takes the table for the whole.
CompletedMeansWhole == schema = "completed" /\ present => applied = Files

\* What restore.sh:7-10 says, and no run checks: rows are only replaced by a
\* command that names how many.  A count that got no answer is none, and people
\* join between the count and the transaction.
ReplacedMembersAreNamed ==
  [][Land => Cardinality(held) \in {0, overwrite}]_databasetools

\* What restore.sh:21-22 says, and no run checks: a restore that was stopped
\* leaves the database where it was.  A process that is launched and not yet in
\* its transaction goes on, and so does one whose terminate got no answer.
StoppedMeansUnchanged ==
  script = "idle" /\ told \in {"stopped before", "stopped with it"} => ~landed

=============================================================================
