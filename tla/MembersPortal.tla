--------------------------- MODULE MembersPortal ----------------------------
(***************************************************************************)
(* One browser tab with the members portal in it (apps/members): the       *)
(* tokens it stores, the one renewal that may be running, the requests     *)
(* that are under way, the views and the profile form.                     *)
(*                                                                         *)
(* The page runs on one thread, so a handler runs up to its next await at  *)
(* once.  A page that goes away takes its handlers with it and leaves what *)
(* it has stored.  What it has sent is not called back: the API may go on  *)
(* with it while the next page asks for the same record.  What the         *)
(* application bar says is left out, and so is the name that a first sign  *)
(* in sends.                                                               *)
(***************************************************************************)
EXTENDS Naturals, FiniteSets

CONSTANTS Tasks,       \* bound: requests under way at once
          Sections,    \* the views
          Profile,     \* the one with the form in it
          Texts,       \* what the form and a record may hold
          MaxTokens,   \* bound: refresh tokens the identity service gives
          MaxAstray    \* bound: requests at once that nobody waits for

ASSUME PortalAssumption ==
  /\ Profile \in Sections
  /\ \E t, u \in Tasks : t # u
  /\ Texts # {}
  /\ MaxTokens \in Nat
  /\ MaxAstray \in Nat

VARIABLES page,        \* what the tab shows
          stored,      \* the refresh token in sessionStorage, with the others
          aged,        \* less than RENEW_WITH_SECONDS_LEFT are left
          started,     \* a sign in this tab has begun is stored
          renewal,     \* the renewal that is running
          task,        \* the requests under way
          route,       \* the view on screen
          view,        \* what each view shows
          alreadyRead,
          form,        \* what the profile form holds
          good,        \* the last refresh token given, the only one that is taken
          joined,      \* the API finds a member record for this sign in
          record,      \* what it holds
          astray,      \* saves and first sign ins that are on their way to it and
                       \* that nobody waits for
          edited,      \* kept for the properties: typed in since it was filled,
          crossed,     \* views two requests were under way about at once, one
                       \* of them perhaps astray,
          sends,       \* how often this page has sent a refresh token,
          out          \* the member has signed out, no renewal was running as
                       \* they did, and they have not signed in since

storage == <<stored, aged, started>>
asking == <<renewal, task, sends, crossed>>
screen == <<route, view, alreadyRead, form, edited>>
lab == <<joined, record, astray>>
vars == <<page, storage, asking, screen, good, lab, out>>

None == 0
Tokens == 1 .. MaxTokens
Pages == {"away", "landing", "views", "leaving"}
Shown == {"blank", "loading", "record", "no record", "trouble", "signed out"}
Kinds == {"load", "save", "claim", "who"}

Unwritten == CHOOSE x \in Texts : TRUE
Idle == [kind |-> "none", section |-> Profile, at |-> "idle",
         text |-> Unwritten, outcome |-> "trouble"]
NoRenewal == [token |-> None, at |-> "none", new |-> None]

Calls == [kind : Kinds, section : Sections, at : {"token", "asked", "served"},
          text : Texts, outcome : {"ok", "no record", "trouble"}]

Asking(t) == task[t] # Idle

\* The one the next request takes: which of those that are free is no matter.
Free(t) == ~Asking(t) /\ t = CHOOSE x \in Tasks : ~Asking(x)

Strays == [kind : {"save", "claim"}, text : Texts]

About(s) == {t \in Tasks : Asking(t) /\ task[t].kind # "who" /\ task[t].section = s}

\* Another request about view s is under way, or a save is astray.
Crosses(t, s) ==
  \/ About(s) \ {t} # {}
  \/ s = Profile /\ \E c \in astray : c.kind = "save"

-----------------------------------------------------------------------------
(* Asking, and what comes back.                                            *)

\* Faulty: every caller renews for itself.
RenewsForItself == stored # None /\ aged

\* renew: the first caller that needs it spends the token, and the others wait.
Renews == stored # None /\ aged /\ renewal = NoRenewal

Renewing ==
  IF Renews
  THEN /\ renewal' = [token |-> stored, at |-> "sent", new |-> None]
       /\ sends' = [sends EXCEPT ![stored] = @ + 1]
  ELSE UNCHANGED <<renewal, sends>>

\* accessToken and then send: one call of the API, or of the identity service,
\* which waits for the renewal when the access token is near its end.
Call(kind, s, near) ==
  [kind |-> kind, section |-> s, at |-> IF near THEN "token" ELSE "asked",
   text |-> IF kind = "save" THEN form ELSE Unwritten, outcome |-> "trouble"]

\* A call about a view.  Nobody signed in is an answer of its own, at once.
Asks(t, kind, s) ==
  IF stored = None
  THEN /\ view' = [view EXCEPT ![s] = "signed out"]
       /\ task' = [task EXCEPT ![t] = Idle]
       /\ UNCHANGED <<renewal, sends, crossed>>
  ELSE /\ view' = IF kind = "save" THEN view ELSE [view EXCEPT ![s] = "loading"]
       /\ task' = [task EXCEPT ![t] = Call(kind, s, aged)]
       /\ crossed' = IF Crosses(t, s) THEN crossed \cup {s} ELSE crossed
       /\ Renewing

\* Faulty: a view counts as read whatever came back.
ReadWhateverCame(s, outcome) == alreadyRead \cup {s}

ReadIfItCame(s, outcome) ==
  IF outcome = "ok" THEN alreadyRead \cup {s} ELSE alreadyRead

ShownAs(outcome) == IF outcome = "ok" THEN "record" ELSE outcome

\* present, with the record or with what stands in its place.
present(s, outcome, text) ==
  /\ view' = [view EXCEPT ![s] = ShownAs(outcome)]
  /\ alreadyRead' = ReadIfItCame(s, outcome)
  /\ form' = IF outcome = "ok" /\ s = Profile THEN text ELSE form
  /\ edited' = (edited /\ ~(outcome = "ok" /\ s = Profile))

\* Faulty: the form keeps what was typed when the save is answered.
FilledWithWhatWasSent(t) == form

FilledWithTheRecord(t) == task[t].text

\* What each call goes on to do with its answer.
Answered(t, outcome) ==
  LET call == task[t] IN
  /\ CASE call.kind = "who" ->
            /\ task' = [task EXCEPT ![t] = Idle]
            /\ UNCHANGED <<renewal, sends, crossed, view, alreadyRead, form, edited>>
       [] call.kind = "load" \/ (call.kind = "claim" /\ outcome # "ok") ->
            /\ present(call.section, outcome, call.text)
            /\ task' = [task EXCEPT ![t] = Idle]
            /\ UNCHANGED <<renewal, sends, crossed>>
       [] call.kind = "claim" /\ outcome = "ok" ->
            /\ alreadyRead' = {}
            /\ Asks(t, "load", route)
            /\ UNCHANGED <<form, edited>>
       [] call.kind = "save" ->
            /\ IF outcome = "ok"
               THEN /\ view' = [view EXCEPT ![Profile] = "record"]
                    /\ form' = FilledWithTheRecord(t)
                    /\ edited' = FALSE
               ELSE UNCHANGED <<view, form, edited>>
            /\ task' = [task EXCEPT ![t] = Idle]
            /\ UNCHANGED <<renewal, sends, crossed, alreadyRead>>
  /\ UNCHANGED <<page, storage, route, good, joined, record, out>>

\* An answer is read.
Hears(t) ==
  /\ task[t].at = "served"
  /\ Answered(t, task[t].outcome)
  /\ UNCHANGED astray

\* What may still be served of a request nobody waits for any longer.
Left(t) ==
  IF task[t].at = "asked" /\ task[t].kind \in {"save", "claim"}
  THEN {[kind |-> task[t].kind, text |-> task[t].text]} ELSE {}

\* Some of it is, and the rest comes to nothing.
Leaves(left) ==
  \E some \in SUBSET left :
    /\ Cardinality(astray \cup some) <= MaxAstray
    /\ astray' = astray \cup some

\* It is refused, or nothing answers: it was not served, its answer is lost, or
\* it is served yet.
GivenUp(t) ==
  /\ task[t].at \in {"asked", "served"}
  /\ Answered(t, "trouble")
  /\ Leaves(Left(t))

-----------------------------------------------------------------------------
(* The services.                                                           *)

\* The API does what it is asked.  A save needs a record, and a second first
\* sign in is refused.
Does(kind, text) ==
  /\ kind = "claim" => ~joined
  /\ kind = "save" => joined
  /\ joined' = (joined \/ kind = "claim")
  /\ record' = IF kind = "save" THEN text ELSE record

\* The API, or the identity service, does what it is asked.
Served(t) ==
  LET call == task[t] IN
  /\ call.at = "asked"
  /\ Does(call.kind, call.text)
  /\ task' = [task EXCEPT
       ![t].at = "served",
       ![t].outcome = IF call.kind = "load" /\ ~joined THEN "no record" ELSE "ok",
       ![t].text = IF call.kind \in {"load", "save"} /\ call.section = Profile /\ joined
                   THEN record' ELSE Unwritten]
  /\ UNCHANGED <<page, storage, renewal, sends, crossed, screen, good, astray, out>>

\* The API serves what nobody waits for.  Those alike are not counted: another
\* may be left.
ServedUnheard(c, left) ==
  /\ c \in astray
  /\ Does(c.kind, c.text)
  /\ astray' = IF left THEN astray ELSE astray \ {c}
  /\ UNCHANGED <<page, storage, asking, screen, good, out>>

\* The identity service takes the token that is good and gives another for it,
\* or refuses.
RenewalServed(taken) ==
  /\ renewal.at = "sent"
  /\ taken => renewal.token = good /\ good < MaxTokens
  /\ good' = IF taken THEN good + 1 ELSE good
  /\ renewal' = [renewal EXCEPT !.at = "served", !.new = IF taken THEN good' ELSE None]
  /\ UNCHANGED <<page, storage, task, sends, crossed, screen, lab, out>>

Waiting == {t \in Tasks : task[t].at = "token"}

\* Faulty: nobody is told of a renewal that came to nothing.
ToldWhenRenewed(new) == IF new = None THEN {} ELSE Waiting

ToldEitherWay(new) == Waiting

\* It is over: everybody who waits for it goes on with the new token, or is
\* told that nobody is signed in.
RenewalEnds(heard) ==
  LET new == IF heard THEN renewal.new ELSE None
      told == ToldEitherWay(new)
      ended == IF new = None THEN told ELSE {}
  IN
  /\ renewal # NoRenewal
  /\ heard => renewal.at = "served"
  /\ renewal' = NoRenewal
  /\ stored' = new
  /\ aged' = FALSE
  /\ task' = [t \in Tasks |-> CASE t \in ended -> Idle
                               [] t \in told \ ended -> [task[t] EXCEPT !.at = "asked"]
                               [] OTHER -> task[t]]
  /\ view' = [s \in Sections |-> IF About(s) \cap ended # {} THEN "signed out"
                                 ELSE view[s]]
  /\ UNCHANGED <<page, started, sends, crossed, route, alreadyRead, form,
                 edited, good, lab, out>>

-----------------------------------------------------------------------------
(* What the member does.                                                   *)

\* The view asked for is loaded unless it has been read.
show(s, t) ==
  /\ page = "views"
  /\ s # route
  /\ route' = s
  /\ IF s \in alreadyRead THEN UNCHANGED <<view, asking>>
     ELSE Free(t) /\ Asks(t, "load", s)
  /\ UNCHANGED <<page, storage, alreadyRead, form, edited, good, lab, out>>

Types(text) ==
  /\ page = "views" /\ route = Profile /\ view[Profile] = "record"
  /\ text # form
  /\ form' = text
  /\ edited' = TRUE
  /\ UNCHANGED <<page, storage, asking, route, view, alreadyRead, good, lab, out>>

\* Every field goes with every save, and nothing stops a second one.
sendProfileChanges(t) ==
  /\ page = "views" /\ route = Profile /\ view[Profile] = "record"
  /\ Free(t)
  /\ Asks(t, "save", Profile)
  /\ UNCHANGED <<page, storage, route, alreadyRead, form, edited, good,
                 lab, out>>

\* The button of a view that was refused for want of a record.
writeFirstSignIn(t) ==
  /\ page = "views" /\ view[route] = "no record"
  /\ Free(t)
  /\ Asks(t, "claim", route)
  /\ UNCHANGED <<page, storage, route, alreadyRead, form, edited, good,
                 lab, out>>

startSignIn ==
  /\ page = "landing" \/ (page = "views" /\ view[route] = "signed out")
  /\ started' = TRUE
  /\ page' = "leaving"
  /\ UNCHANGED <<stored, aged, asking, screen, good, lab, out>>

\* Faulty: only the access token is dropped.
DropsTheAccessToken ==
  /\ page = "views"
  /\ aged' = TRUE
  /\ page' = "leaving"
  /\ out' = (renewal = NoRenewal)
  /\ UNCHANGED <<stored, started, asking, screen, good, lab>>

\* The tokens go before the identity service is asked to end its session.
signOut ==
  /\ page = "views"
  /\ stored' = None
  /\ aged' = FALSE
  /\ page' = "leaving"
  /\ out' = (renewal = NoRenewal)
  /\ UNCHANGED <<started, asking, screen, good, lab>>

\* The page goes: to the identity service, on a reload, or with its tab, which
\* takes what is stored with it.  Its saves and first sign ins may be served yet;
\* a renewal that is served later might as well have been served before, since
\* only the next one asks which token is good.
Unloads(closed) ==
  /\ page # "away"
  /\ page' = "away"
  /\ stored' = IF closed THEN None ELSE stored
  /\ started' = (started /\ ~closed)
  /\ aged' = (aged /\ ~closed)
  /\ renewal' = NoRenewal
  /\ task' = [t \in Tasks |-> Idle]
  /\ sends' = [n \in Tokens |-> 0]
  /\ crossed' = {}
  /\ view' = [s \in Sections |-> "blank"]
  /\ alreadyRead' = {}
  /\ form' = Unwritten /\ edited' = FALSE
  /\ route' = Profile
  /\ Leaves(UNION {Left(t) : t \in Tasks})
  /\ UNCHANGED <<good, joined, record, out>>

\* The access token comes near its end.
Ages ==
  /\ stored # None /\ ~aged
  /\ aged' = TRUE
  /\ UNCHANGED <<page, stored, started, asking, screen, good, lab, out>>

-----------------------------------------------------------------------------
(* The page is loaded (begin and start).                                   *)

\* The views open on one of them, and who this is is asked beside it.  near: the
\* token they would be asked with is near its end, and token renews it.
Opens(s, token, near) ==
  LET t == CHOOSE x \in Tasks : TRUE
      u == CHOOSE x \in Tasks \ {t} : TRUE
  IN
    /\ page' = "views"
    /\ route' = s
    /\ view' = [view EXCEPT ![s] = "loading"]
    /\ task' = [task EXCEPT ![t] = Call("who", Profile, near), ![u] = Call("load", s, near)]
    /\ IF near
       THEN /\ renewal' = [token |-> token, at |-> "sent", new |-> None]
            /\ sends' = [sends EXCEPT ![token] = @ + 1]
       ELSE UNCHANGED <<renewal, sends>>
    /\ crossed' = IF Crosses(u, s) THEN crossed \cup {s} ELSE crossed
    /\ UNCHANGED <<alreadyRead, form, edited>>

Lands == page' = "landing" /\ UNCHANGED <<asking, screen>>

\* No configuration, or one for another origin, or no way to build a challenge.
BeginsUnconfigured ==
  /\ page = "away"
  /\ Lands
  /\ UNCHANGED <<storage, good, lab, out>>

\* No code in the address: the tab goes on as it was.
Begins(s) ==
  /\ page = "away"
  /\ IF stored = None THEN Lands ELSE Opens(s, stored, aged)
  /\ UNCHANGED <<storage, good, lab, out>>

\* A code arrives.  It is exchanged only for the start this tab has stored,
\* which is taken whatever comes of it.
finishSignIn(s, ours, given) ==
  /\ page = "away"
  /\ started' = FALSE
  /\ given => started /\ ours /\ good < MaxTokens
  /\ IF given
     THEN /\ good' = good + 1
          /\ stored' = good'
          /\ aged' = FALSE
          /\ out' = FALSE
          /\ Opens(s, good', FALSE)
     ELSE Lands /\ UNCHANGED <<stored, aged, good, out>>
  /\ UNCHANGED lab

-----------------------------------------------------------------------------
Init ==
  /\ page = "away" /\ stored = None /\ aged = FALSE /\ started = FALSE
  /\ renewal = NoRenewal /\ sends = [n \in Tokens |-> 0]
  /\ task = [t \in Tasks |-> Idle] /\ crossed = {}
  /\ route = Profile /\ view = [s \in Sections |-> "blank"]
  /\ alreadyRead = {} /\ form = Unwritten /\ edited = FALSE
  /\ good = None
  /\ joined \in BOOLEAN /\ record = Unwritten /\ astray = {}
  /\ out = FALSE

Next ==
  \/ \E t \in Tasks : Hears(t) \/ GivenUp(t) \/ Served(t)
  \/ \E c \in astray, left \in BOOLEAN : ServedUnheard(c, left)
  \/ \E t \in Tasks : sendProfileChanges(t) \/ writeFirstSignIn(t)
  \/ \E s \in Sections, t \in Tasks : show(s, t)
  \/ \E text \in Texts : Types(text)
  \/ \E taken \in BOOLEAN : RenewalServed(taken)
  \/ \E heard \in BOOLEAN : RenewalEnds(heard)
  \/ \E closed \in BOOLEAN : Unloads(closed)
  \/ \E s \in Sections : Begins(s)
  \/ \E s \in Sections, ours, given \in BOOLEAN : finishSignIn(s, ours, given)
  \/ startSignIn \/ signOut \/ Ages \/ BeginsUnconfigured

Spec == Init /\ [][Next]_vars

\* The browser ends every request it has sent, one way or the other.
FairSpec ==
  /\ Spec
  /\ \A t \in Tasks : WF_vars(Hears(t) \/ GivenUp(t))
  /\ WF_vars(\E heard \in BOOLEAN : RenewalEnds(heard))

-----------------------------------------------------------------------------
TypeOK ==
  /\ page \in Pages
  /\ stored \in {None} \cup Tokens
  /\ aged \in BOOLEAN /\ started \in BOOLEAN
  /\ renewal \in [token : {None} \cup Tokens, at : {"none", "sent", "served"},
                  new : {None} \cup Tokens]
  /\ task \in [Tasks -> {Idle} \cup Calls]
  /\ route \in Sections
  /\ view \in [Sections -> Shown]
  /\ alreadyRead \subseteq Sections
  /\ form \in Texts
  /\ good \in {None} \cup Tokens
  /\ joined \in BOOLEAN /\ record \in Texts /\ astray \subseteq Strays
  /\ edited \in BOOLEAN /\ crossed \subseteq Sections
  /\ sends \in [Tokens -> Nat]
  /\ out \in BOOLEAN

\* A refresh token is spent by being sent, so no page sends one twice, however
\* many views and saves want a renewal at the same time.
RefreshSpentOnce == \A n \in Tokens : sends[n] <= 1

\* Once the member has signed out, no token is left in the tab: no request that
\* was under way brings one back, on this page or a later one, unless a renewal
\* was running at that moment.
SignedOutIsOut == out => stored = None

\* A view that shows a refusal, or that nothing answered, is asked again when the
\* member comes back to it, unless two requests about it crossed.
TroubleIsAskedAgain ==
  \A s \in Sections \ crossed :
    view[s] \in {"no record", "trouble"} => s \notin alreadyRead

\* With nothing about it under way and nothing typed since, the form shows what
\* the lab holds, unless a request about it was sent while another was on its
\* way, which may be a save of a page that is gone or that was given up.  A save
\* that is served later, with nothing else sent, changes nothing the form shows.
\* The next save sends every field of it (profile.js, api.js:53-77).
FormShowsTheRecord ==
  (/\ page = "views" /\ view[Profile] = "record" /\ About(Profile) = {}
   /\ ~edited /\ Profile \notin crossed)
  => form = record

\* A view does not go on loading for ever while the member looks at it.
EveryViewSettles ==
  \A s \in Sections : []<>~(page = "views" /\ route = s /\ view[s] = "loading")

=============================================================================
