------------------------------- MODULE KeySet -------------------------------
(***************************************************************************)
(* The identity provider's signing keys as the members API holds them.     *)
(* They are read again when a request finds the set older than MaxAge, by  *)
(* the thread of that request; the others go on with the set there is.     *)
(* The stamp is put before the read and a read that fails leaves the keys. *)
(* Time is counted in ticks of one size for MaxAge and ReadTimeout.        *)
(***************************************************************************)
EXTENDS Naturals

CONSTANTS Keys,         \* key ids the provider may sign with
          Requests,     \* the requests, each on its thread
          NoRequest,    \* nobody is reading
          MaxAge,       \* jwks_max_age_seconds
          ReadTimeout   \* KEY_SET_READ_TIMEOUT_SECONDS

ASSUME KeySetAssumption ==
  /\ MaxAge \in Nat
  /\ ReadTimeout \in Nat
  /\ NoRequest \notin Requests

VARIABLES published,    \* the keys at the provider's JWKS address
          gone,         \* 0, or 1 and the ticks since a key was withdrawn
          held,         \* _signing_keys
          age,          \* time since _read_at
          reader,       \* the request whose thread holds _reading
          answer,       \* what the provider has answered the reader
          fresh         \* the last read that ended replaced the set

keyset == <<published, gone, held, age, reader, answer, fresh>>

\* Bound: ticks are counted so far and no further.
Late == MaxAge + ReadTimeout + 2
NoAnswer == [keys |-> {}, there |-> FALSE]

Stale == age > MaxAge

-----------------------------------------------------------------------------

\* Faulty: the set is stamped when the read ends.
StampAtTheEnd(r, ok) ==
  /\ reader = r
  /\ ok => answer.there
  /\ held' = IF ok THEN answer.keys ELSE held
  /\ fresh' = ok
  /\ age' = 0
  /\ reader' = NoRequest
  /\ answer' = NoAnswer
  /\ UNCHANGED <<published, gone>>

\* A request that finds the set stale and nobody reading begins to read.
StartRead(r) ==
  /\ Stale
  /\ reader = NoRequest
  /\ reader' = r
  /\ age' = 0
  /\ answer' = NoAnswer
  /\ UNCHANGED <<published, gone, held, fresh>>

\* The provider answers with what it publishes at that moment.
ProviderAnswers ==
  /\ reader # NoRequest
  /\ ~answer.there
  /\ answer' = [keys |-> published, there |-> TRUE]
  /\ UNCHANGED <<published, gone, held, age, reader, fresh>>

\* The read ends, with the answer or with an error.
EndRead(r, ok) ==
  /\ reader = r
  /\ ok => answer.there
  /\ held' = IF ok THEN answer.keys ELSE held
  /\ fresh' = ok
  /\ reader' = NoRequest
  /\ answer' = NoAnswer
  /\ UNCHANGED <<published, gone, age>>

\* The keys a token is checked against by a request that looks now.
Accepted == IF Stale /\ reader = NoRequest THEN {} ELSE held

\* The provider publishes a key, or withdraws one for good.
Publish(k) ==
  /\ k \notin published
  /\ gone[k] = 0
  /\ published' = published \cup {k}
  /\ UNCHANGED <<gone, held, age, reader, answer, fresh>>

Withdraw(k) ==
  /\ k \in published
  /\ published' = published \ {k}
  /\ gone' = [gone EXCEPT ![k] = 1]
  /\ UNCHANGED <<held, age, reader, answer, fresh>>

OneMore(t) == IF t < Late THEN t + 1 ELSE t

\* No read outlasts its timeout.
Tick ==
  /\ reader # NoRequest => age < ReadTimeout
  /\ age' = OneMore(age)
  /\ gone' = [k \in Keys |-> IF gone[k] = 0 THEN 0 ELSE OneMore(gone[k])]
  /\ UNCHANGED <<published, held, reader, answer, fresh>>

\* open_verifier reads once before the first request is served.
KeysInit ==
  /\ published \in SUBSET Keys
  /\ gone = [k \in Keys |-> 0]
  /\ fresh \in BOOLEAN
  /\ held = IF fresh THEN published ELSE {}
  /\ age = 0
  /\ reader = NoRequest
  /\ answer = NoAnswer

KeysTypeOK ==
  /\ published \in SUBSET Keys
  /\ gone \in [Keys -> 0 .. Late]
  /\ held \in SUBSET Keys
  /\ age \in 0 .. Late
  /\ reader \in Requests \cup {NoRequest}
  /\ answer \in [keys: SUBSET Keys, there: BOOLEAN]
  /\ fresh \in BOOLEAN

=============================================================================
