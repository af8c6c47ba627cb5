----------------------------- MODULE DoorDevice -----------------------------
(***************************************************************************)
(* The door controller board: its card table, its alarm bytes, its door    *)
(* flags, its one privilege bit and its login throttle.                    *)
(*                                                                         *)
(* One action, Handle, is one HTTP request served to the end, which is how *)
(* the board serves them (FakeController.handle).  A request is a record   *)
(* of what the firmware reads out of the query string; `login' says        *)
(* whether a password is there and whether it is the right one.  A card is *)
(* a tag with its permission mask.  Time is the one comparison the board   *)
(* makes: whether the lockout window of the first failure is still running.*)
(***************************************************************************)
EXTENDS Naturals

CONSTANTS NUMUSERS,     \* slots the EEPROM holds; a record past them wraps
          Cards,        \* a tag and a mask, as one slot record
          NoCard,       \* a record that was deleted or never written
          Doors,        \* DOOR_NUMBERS
          NoDoor,       \* any number that is not one of them
          Threshold,    \* LOGIN_FAILURES_BEFORE_LOCKOUT
          MaxFailures   \* bound: failed logins counted

ASSUME DeviceAssumption ==
  /\ NUMUSERS \in Nat \ {0}
  /\ Threshold \in Nat \ {0}
  /\ MaxFailures \in Nat
  /\ NoCard \notin Cards
  /\ NoDoor \notin Doors
  /\ {"kept", "chime"} \cap (Cards \cup {NoCard}) = {}

VARIABLES table,        \* the records of slots 0 to NUMUSERS - 1
          alarm,        \* what last went to the alarm bytes at address 0
          locked,       \* door_locked
          privileged,   \* the privilege bit
          failed,       \* failed_logins
          window,       \* less than LOGIN_LOCKOUT_SECONDS since _lockout_armed_at
          spent         \* kept for LockoutArmsOnce: a lockout has run out

device == <<table, alarm, locked, privileged, failed, window, spent>>

Slots == 0 .. NUMUSERS - 1
Entries == Cards \cup {NoCard}

DoorCommands == {"open", "unlock", "lock"}
Commands == {"status", "login", "table", "show", "write", "remove"}
              \cup DoorCommands
Logins == {"none", "right", "wrong"}

Request == [cmd: Commands, login: Logins, slot: Nat, entry: Entries,
            door: Doors \cup {NoDoor}]

\* The requests a client may put on the wire; slot NUMUSERS is the one the
\* firmware's own bounds check lets through.
Requests ==
  [cmd: {"status", "table"}, login: Logins,
   slot: {0}, entry: {NoCard}, door: {NoDoor}]
  \cup [cmd: {"login"}, login: Logins \ {"none"},
        slot: {0}, entry: {NoCard}, door: {NoDoor}]
  \cup [cmd: {"show", "remove"}, login: Logins,
        slot: 0 .. NUMUSERS, entry: {NoCard}, door: {NoDoor}]
  \cup [cmd: {"write"}, login: Logins,
        slot: 0 .. NUMUSERS, entry: Cards, door: {NoDoor}]
  \cup [cmd: DoorCommands, login: Logins,
        slot: {0}, entry: {NoCard}, door: Doors \cup {NoDoor}]

-----------------------------------------------------------------------------
(* The privilege bit.                                                      *)

\* Checked before the password is.
locked_out == failed >= Threshold /\ window

LoginSucceeds(r) == r.login = "right" /\ ~locked_out

\* Every form but a bare login carries its own login, and logs out behind it.
Chained(r) == r.cmd # "login" /\ r.login # "none"

\* Faulty: a failed login leaves the bit as it was.
LoginKeepsBit(r) ==
  IF r.login = "none" \/ locked_out THEN UNCHANGED <<failed, window, privileged>>
  ELSE IF r.login = "right"
  THEN failed' = 0 /\ UNCHANGED window /\ privileged' = ~Chained(r)
  ELSE /\ failed' = failed + 1
       /\ window' = (window \/ failed = 0)
       /\ UNCHANGED privileged

\* Faulty: a login that succeeds is not logged out behind the command.
LoginNeverLogsOut(r) ==
  IF r.login = "none" \/ locked_out THEN UNCHANGED <<failed, window, privileged>>
  ELSE IF r.login = "right"
  THEN failed' = 0 /\ UNCHANGED window /\ privileged' = TRUE
  ELSE /\ failed' = failed + 1
       /\ window' = (window \/ failed = 0)
       /\ privileged' = FALSE

\* _login, _count_a_failure, and the logout in _body's finally.  Only the first
\* failure starts the window.
Login(r) ==
  IF r.login = "none" THEN UNCHANGED <<failed, window, privileged>>
  ELSE IF locked_out
  THEN UNCHANGED <<failed, window>> /\ privileged' = FALSE
  ELSE IF r.login = "right"
  THEN failed' = 0 /\ UNCHANGED window /\ privileged' = ~Chained(r)
  ELSE /\ failed' = failed + 1
       /\ window' = (window \/ failed = 0)
       /\ privileged' = FALSE

\* Whether _dispatch reaches the command.  The status needs no login, and a
\* chained login that fails stops everything.
Runs(r) ==
  /\ r.cmd # "login"
  /\ Chained(r) => LoginSucceeds(r)
  /\ r.cmd = "status" \/ LoginSucceeds(r) \/ privileged

-----------------------------------------------------------------------------
(* The commands.                                                           *)

\* _store at a slot: slots up to and including NUMUSERS are accepted, and the
\* last of them wraps on to the alarm bytes.
Store(n, entry) ==
  IF n = NUMUSERS
  THEN alarm' = entry /\ UNCHANGED table
  ELSE table' = [table EXCEPT ![n] = entry] /\ UNCHANGED alarm

\* `takes' is reject_writes_silently: an EEPROM write that does not stick.
Perform(r, takes) ==
  CASE r.cmd \in {"write", "remove"} /\ takes ->
         Store(r.slot, r.entry) /\ UNCHANGED locked
    [] r.cmd = "open" /\ r.door \in Doors ->
         alarm' = "chime" /\ UNCHANGED <<table, locked>>
    [] r.cmd = "unlock" /\ r.door \in Doors ->
         /\ locked' = [locked EXCEPT ![r.door] = FALSE]
         /\ UNCHANGED <<table, alarm>>
    [] r.cmd = "lock" ->
         /\ locked' = [d \in Doors |-> locked[d] \/ r.door \in {d, NoDoor}]
         /\ UNCHANGED <<table, alarm>>
    [] OTHER -> UNCHANGED <<table, alarm, locked>>

\* What the body of the answer says, as far as a client reads it.  A write's
\* answer prints the same lines whether or not the write stuck.
Answer(r) ==
  IF ~Runs(r) \/ (r.cmd = "show" /\ r.slot = NUMUSERS)
     \/ (r.cmd \in {"open", "unlock"} /\ r.door = NoDoor)
  THEN [said |-> "refusal"]
  ELSE CASE r.cmd = "show" -> [said |-> "slot", held |-> table[r.slot]]
         [] r.cmd = "table" -> [said |-> "table", rows |-> table]
         [] r.cmd \in {"write", "remove"} -> [said |-> "prev and cur"]
         [] r.cmd \in {"open", "unlock"} -> [said |-> "moved", door |-> r.door]
         [] OTHER -> [said |-> "status", locked |-> locked']

Handle(r, takes) ==
  /\ r.login = "wrong" => failed < MaxFailures
  /\ Login(r)
  /\ IF Runs(r) THEN Perform(r, takes) ELSE UNCHANGED <<table, alarm, locked>>
  /\ UNCHANGED spent

\* The clock passes the end of the window.
WindowElapses ==
  /\ window
  /\ window' = FALSE
  /\ spent' = (spent \/ failed >= Threshold)
  /\ UNCHANGED <<table, alarm, locked, privileged, failed>>

\* Nothing but the EEPROM survives a power cut, and the doors are locked.
PowerCycle ==
  /\ locked' = [d \in Doors |-> TRUE]
  /\ privileged' = FALSE
  /\ failed' = 0
  /\ window' = FALSE
  /\ spent' = FALSE
  /\ UNCHANGED <<table, alarm>>

DeviceInit ==
  /\ table = [n \in Slots |-> NoCard]
  /\ alarm = "kept"
  /\ locked = [d \in Doors |-> TRUE]
  /\ privileged = FALSE
  /\ failed = 0
  /\ window = FALSE
  /\ spent = FALSE

DeviceNext ==
  \/ \E r \in Requests, takes \in BOOLEAN : Handle(r, takes)
  \/ WindowElapses
  \/ PowerCycle

\* The board on its own, with any client on its network.
DeviceSpec == DeviceInit /\ [][DeviceNext]_device

-----------------------------------------------------------------------------
(* Properties.                                                             *)

\* The board's memory holds what its types allow.
DeviceTypeOK ==
  /\ table \in [Slots -> Entries]
  /\ alarm \in Entries \cup {"kept", "chime"}
  /\ locked \in [Doors -> BOOLEAN]
  /\ privileged \in BOOLEAN
  /\ failed \in Nat
  /\ window \in BOOLEAN
  /\ spent \in BOOLEAN

\* While the lockout is in force nobody is privileged, not even a client that
\* was left privileged by a bare login before the failures (device.py:105-121).
LockoutIsUnprivileged == locked_out => ~privileged

\* From one moment of a lockout to the next nothing changes at the door and no
\* login succeeds, with the right password or without (firmware.py:31-35).
LockoutHolds ==
  [][locked_out /\ locked_out' =>
       UNCHANGED <<table, alarm, locked, privileged>>]_device

\* What firmware.py:33-35 and device.py:124-125 say of the lockout: once its
\* window has elapsed it is never armed again until the board is restarted.
LockoutArmsOnce == spent => ~locked_out

=============================================================================
