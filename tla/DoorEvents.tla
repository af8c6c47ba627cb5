----------------------------- MODULE DoorEvents -----------------------------
(***************************************************************************)
(* The record of entries into a building.  The door service appends them   *)
(* with door.record_event, each in a transaction of its own, some of them  *)
(* long after they happened and some of them twice, since it sends again   *)
(* what it has not heard about.  A member reads their own page by page,    *)
(* with the cursor each page came back with.  The rows here are those of   *)
(* one member.                                                             *)
(***************************************************************************)
EXTENDS Naturals, Sequences, FiniteSets

CONSTANTS Entries,    \* what happened at the door, by its dedupe_key
          Times,      \* when, as the door's clock says
          MaxLimit,   \* bound: the largest page a reader asks for
          MaxIds      \* bound: numbers the sequence gives

ASSUME DoorEventsAssumption ==
  /\ Times \subseteq Nat
  /\ MaxLimit \in Nat \ {0}
  /\ MaxIds \in Nat

VARIABLES occurred_at,   \* when an entry happened, {} before it has
          door_events,   \* the committed rows
          open,          \* the rows of transactions that have not ended
          last_id,       \* door_events_id_seq
          walk,          \* where the reader is
          cursor,        \* next_cursor of the last page, as a row
          seen,          \* the items of the pages so far
          owed           \* kept for the property: committed as the walk began

events == <<occurred_at, door_events, open, last_id>>
reading == <<walk, cursor, seen, owed>>
doorevents == <<events, reading>>

Ids == 1 .. MaxIds
Events == [id : Ids, at : Times, key : Entries]

-----------------------------------------------------------------------------
(* Recording.                                                              *)

Happens(e, t) ==
  /\ occurred_at[e] = {}
  /\ occurred_at' = [occurred_at EXCEPT ![e] = {t}]
  /\ UNCHANGED <<door_events, open, last_id, reading>>

\* An INSERT waits for an open row with its key and does nothing when it finds
\* a committed one.  Either way it has used up a number; the one that does
\* nothing is not a step, as numbers may be missing anyway.
record_event(e) ==
  /\ occurred_at[e] # {}
  /\ e \notin {r.key : r \in door_events \cup open}
  /\ last_id < MaxIds
  /\ last_id' = last_id + 1
  /\ open' = open \cup {[id |-> last_id', at |-> t, key |-> e] : t \in occurred_at[e]}
  /\ UNCHANGED <<occurred_at, door_events, reading>>

\* Whether it is heard of or not makes no difference here: what was heard of
\* may be sent again as well.
RecordingEnds(r, commits) ==
  /\ r \in open
  /\ open' = open \ {r}
  /\ door_events' = door_events \cup {x \in {r} : commits}
  /\ UNCHANGED <<occurred_at, last_id, reading>>

-----------------------------------------------------------------------------
(* Reading.                                                                *)

\* The row that comes later in the walk: older, or as old with a smaller id.
Later(r, c) == r.at < c.at \/ (r.at = c.at /\ r.id < c.id)

\* Faulty: the cursor carries only the time.
LaterInTime(r, c) == r.at < c.at

\* What the WHERE of a later page asks.
Past(r, c) == Later(r, c)

\* ORDER BY occurred_at DESC, id DESC LIMIT n.
NEWEST_FIRST(rows, n) ==
  {found \in UNION {[1 .. k -> rows] : k \in 0 .. n} :
     /\ \A i, j \in DOMAIN found : i < j => Later(found[j], found[i])
     /\ \A r \in rows \ {found[i] : i \in DOMAIN found} :
          Len(found) = n /\ \A i \in DOMAIN found : Later(r, found[i])}

\* One row more than the page is read, to know whether there is another page.
read_page(rows, limit) ==
  \E found \in NEWEST_FIRST(rows, limit + 1) :
    LET more == Len(found) > limit
        items == IF more THEN SubSeq(found, 1, limit) ELSE found
    IN  /\ seen' = seen \o items
        /\ walk' = IF more THEN "going on" ELSE "ended"
        /\ cursor' = IF more THEN {items[limit]} ELSE {}

FirstPage(limit) ==
  /\ walk = "not begun"
  /\ read_page(door_events, limit)
  /\ owed' = door_events
  /\ UNCHANGED events

LaterPage(limit) ==
  /\ walk = "going on"
  /\ \E c \in cursor : read_page({r \in door_events : Past(r, c)}, limit)
  /\ UNCHANGED <<events, owed>>

ReadAgain ==
  /\ walk = "ended"
  /\ walk' = "not begun" /\ cursor' = {} /\ seen' = <<>> /\ owed' = {}
  /\ UNCHANGED events

-----------------------------------------------------------------------------

DoorEventsInit ==
  /\ occurred_at = [e \in Entries |-> {}]
  /\ door_events = {} /\ open = {} /\ last_id = 0
  /\ walk = "not begun" /\ cursor = {} /\ seen = <<>> /\ owed = {}

DoorEventsNext ==
  \/ \E e \in Entries : record_event(e) \/ (\E t \in Times : Happens(e, t))
  \/ \E r \in open, commits \in BOOLEAN : RecordingEnds(r, commits)
  \/ \E limit \in 1 .. MaxLimit : FirstPage(limit) \/ LaterPage(limit)
  \/ ReadAgain

DoorEventsTypeOK ==
  /\ occurred_at \in [Entries -> SUBSET Times]
  /\ door_events \subseteq Events /\ open \subseteq Events
  /\ last_id \in 0 .. MaxIds
  /\ walk \in {"not begun", "going on", "ended"}
  /\ cursor \subseteq door_events /\ owed \subseteq door_events
  /\ \A i \in DOMAIN seen : seen[i] \in door_events

\* A reader who follows the cursors to the end is shown every entry that was
\* there when they began, and no entry twice, newest first, whatever arrives
\* between the pages, however late, and however often it is sent
\* (door_events.py:26-29, 008:79-82).
WalkShowsEachOnce ==
  /\ \A i, j \in DOMAIN seen : i < j =>
       seen[i].key # seen[j].key /\ Later(seen[j], seen[i])
  /\ walk = "ended" => owed \subseteq {seen[i] : i \in DOMAIN seen}

=============================================================================
