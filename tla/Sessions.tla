------------------------------ MODULE Sessions ------------------------------
(***************************************************************************)
(* Signing in, staying in and signing out: the signed cookie               *)
(* (auth/session.ts), the gate that renews it and the two routes of        *)
(* /session (http/session.ts), and one Console with the one cookie it      *)
(* holds (api/client.ts, useAuthRedirect, LoginPage, AccountMenu).         *)
(*                                                                         *)
(* The server remembers nothing: all there is of a session is in cookies,  *)
(* the browser's and those on the way.  A request and its answer are one   *)
(* slot.  What makes the order matter is that a renewal is worked out when *)
(* a request comes in, and takes effect when its answer arrives.           *)
(***************************************************************************)
EXTENDS Edge, Integers, FiniteSets

CONSTANTS
    Slots,          \* what the browser may have in flight at once
    Duration,       \* durationMs
    NoCookie,
    Nothing,        \* what an answer sets that sets no cookie
    MaxNow,         \* bound: how far the clock runs
    MaxLogins,      \* bound: sessions minted
    MaxRotations    \* bound: changes of the signing secret

ASSUME DurationAssumption == Duration \in Nat \ {0}
ASSUME BoundsAssumption ==
    MaxNow \in Nat /\ MaxLogins \in Nat /\ MaxRotations \in Nat

VARIABLES
    now,        \* Date.now(), the browser's and the server's
    secret,     \* the signing secret the server was started with
    minted,     \* how many sessions have been minted
    jar,        \* the browser's cookie
    jarUntil,   \* when its Max-Age runs out
    page,       \* "app": behind AuthenticatedLayout; "login": the login page
    req,        \* each slot's request
    logins,     \* history: the sessions minted, and what each was counted as
    signedOut,  \* history: a sign-out has been answered, and no sign-in since
    overtaken   \* history: something that carried a cookie was then in flight

vars == <<now, secret, minted, jar, jarUntil, page, req, logins, signedOut,
          overtaken>>

Ids == 1..MaxLogins

Times == 0..(MaxNow + Duration)

Cookies == [id : Ids, expiresAt : Times, by : 0..MaxRotations]

ASSUME NoCookieAssumption ==
    NoCookie \notin Cookies /\ Nothing \notin Cookies \cup {NoCookie}

(* Whom a meter counted a request against, when it is not a session. *)
NoOne == -1
Address == 0

Statuses == {"none", "ok", "unauthenticated", "refused"}

(* "sent"; "reading" its body; "inside" a route, waiting on the Gateway or *)
(* on the password check; "answered".                                      *)
Stages == {"idle", "sent", "reading", "inside", "answered"}

Asks ==
    [read     |-> [method |-> "GET",    area |-> "lights",    origin |-> "own"],
     change   |-> [method |-> "PATCH",  area |-> "lights",    origin |-> "own"],
     stream   |-> [method |-> "GET",    area |-> "events",    origin |-> "own"],
     login    |-> [method |-> "POST",   area |-> "session",   origin |-> "own"],
     logout   |-> [method |-> "DELETE", area |-> "session",   origin |-> "own"],
     foreign  |-> [method |-> "PATCH",  area |-> "lights",    origin |-> "other"],
     mistyped |-> [method |-> "GET",    area |-> "elsewhere", origin |-> "own"]]

Kinds == DOMAIN Asks
WithBody == {"change", "login", "foreign"}
Bodies == {"none", "readable", "unreadable"}

Request == [kind : Kinds, stage : Stages, body : Bodies,
            cookie : Cookies \cup {NoCookie},
            sets : Cookies \cup {NoCookie, Nothing},
            counted : Ids \cup {NoOne, Address},
            status : Statuses]

TypeOK ==
    /\ now \in 0..MaxNow
    /\ secret \in 0..MaxRotations
    /\ minted \in 0..MaxLogins
    /\ jar \in Cookies \cup {NoCookie}
    /\ jarUntil \in Times
    /\ page \in {"app", "login"}
    /\ req \in [Slots -> Request]
    /\ logins \subseteq [id : Ids, by : 0..MaxRotations, counted : Ids \cup {NoOne, Address}]
    /\ signedOut \in BOOLEAN
    /\ overtaken \in BOOLEAN

InFlight(r) == req[r].stage # "idle"

NoRequest == [kind |-> "read", stage |-> "idle", body |-> "none",
              cookie |-> NoCookie, sets |-> Nothing, counted |-> NoOne,
              status |-> "none"]

-----------------------------------------------------------------------------
(* The cookie *)

(* Mutant: the signature is not looked at. *)
VerifiesUnsigned(c) == c # NoCookie /\ now < c.expiresAt

(* `verify`: signed with this process's secret, and not expired. *)
Verifies(c) == c # NoCookie /\ c.by = secret /\ now < c.expiresAt

(* `renew`: the same session, its expiry slid forward from now. *)
Renewed(c) == [id |-> c.id, expiresAt |-> now + Duration, by |-> secret]

(* `mint`: a session distinct from every other. *)
Minted == [id |-> minted + 1, expiresAt |-> now + Duration, by |-> secret]

(* Mutant: signing out sets nothing. *)
SetBySigningOutNothing == Nothing

(* `clearSessionCookie`. *)
SetBySigningOut == NoCookie

-----------------------------------------------------------------------------
Init ==
    /\ now = 0
    /\ secret = 0
    /\ minted = 0
    /\ jar = NoCookie
    /\ jarUntil = 0
    /\ page \in {"app", "login"}
    /\ req = [r \in Slots |-> NoRequest]
    /\ logins = {}
    /\ signedOut = FALSE
    /\ overtaken = FALSE

Tick ==
    /\ now < MaxNow
    /\ now' = now + 1
    /\ UNCHANGED <<secret, minted, jar, jarUntil, page, req, logins, signedOut,
                   overtaken>>

(* The secret is changed and the process restarted: nothing it was in the  *)
(* middle of survives, so the connections those were on have failed first. *)
Rotate ==
    /\ secret < MaxRotations
    /\ \A r \in Slots : req[r].stage \notin {"reading", "inside"}
    /\ secret' = secret + 1
    /\ UNCHANGED <<now, minted, jar, jarUntil, page, req, logins, signedOut,
                   overtaken>>

(* The person goes back to the app; nothing asks first who is there. *)
Open ==
    /\ page = "login"
    /\ page' = "app"
    /\ UNCHANGED <<now, secret, minted, jar, jarUntil, req, logins, signedOut,
                   overtaken>>

(* What can be asked from where: the login page is not behind the layout   *)
(* and asks only to sign in, once at a time.                               *)
MayAsk(kind) ==
    CASE kind \in {"read", "change", "stream", "logout"} -> page = "app"
      [] kind = "login" ->
            /\ page = "login"
            /\ \A r \in Slots : InFlight(r) => req[r].kind # "login"
      [] OTHER -> TRUE

(* A request leaves with the cookie, unless its Max-Age has run out or the *)
(* page that sends it is not this service's own (SameSite=Strict).         *)
Ask(r, kind, body) ==
    /\ ~InFlight(r)
    /\ MayAsk(kind)
    /\ body = "none" <=> kind \notin WithBody
    /\ req' = [req EXCEPT ![r] =
                   [NoRequest EXCEPT
                       !.kind = kind,
                       !.stage = "sent",
                       !.body = body,
                       !.cookie = IF Asks[kind].origin = "own" /\ now < jarUntil
                                     THEN jar ELSE NoCookie]]
    /\ UNCHANGED <<now, secret, minted, jar, jarUntil, page, logins, signedOut,
                   overtaken>>

-----------------------------------------------------------------------------
(* The server *)

Seen(r) == [method |-> Asks[req[r].kind].method, area |-> Asks[req[r].kind].area,
            origin |-> Asks[req[r].kind].origin, body |-> req[r].body]

(* Whom a meter counts it against, if one it gets to has room for it.      *)
CountedAs(r, gates, room) ==
    CASE room /\ "meterMutations" \in gates /\ Changes(Seen(r)) -> req[r].cookie.id
      [] room /\ "loginRateLimit" \in gates /\ Seen(r).method = "POST" -> Address
      [] OTHER -> NoOne

(* What the gates are told of a request. *)
Facts(r, room) == [verified |-> Verifies(req[r].cookie), room |-> room]

Gates(r, room) == Reached(Seen(r), Facts(r, room))

(* A session that verifies is renewed on the way through its gate. *)
Renewal(r, room) ==
    IF "requireSession" \in Gates(r, room) /\ Verifies(req[r].cookie)
       THEN Renewed(req[r].cookie) ELSE Nothing

Passing(r, room, stage) ==
    [req[r] EXCEPT !.stage = stage,
                   !.sets = Renewal(r, room),
                   !.counted = CountedAs(r, Gates(r, room), room)]

Answering(r, room, status) ==
    [Passing(r, room, "answered") EXCEPT !.status = status]

(* A request, as far as it gets without its body: the gates are walked in  *)
(* one turn, one without a body goes on to its route in the same turn, and *)
(* signing out is answered there and then.                                 *)
Walked(r, room) ==
    CASE EndsAt("requireSession", Seen(r), Facts(r, room)) ->
            Answering(r, room, "unauthenticated")
      [] "json" \in Gates(r, room) /\ Seen(r).body # "none" ->
            Passing(r, room, "reading")
      [] EndsAt("routes", Seen(r), Facts(r, room)) /\ req[r].kind = "logout" ->
            [Answering(r, room, "ok") EXCEPT !.sets = SetBySigningOut]
      [] EndsAt("routes", Seen(r), Facts(r, room)) /\ req[r].kind # "logout" ->
            Passing(r, room, "inside")
      [] OTHER ->
            Answering(r, room, "refused")

Receive(r) ==
    /\ req[r].stage = "sent"
    /\ \E room \in BOOLEAN : req' = [req EXCEPT ![r] = Walked(r, room)]
    /\ UNCHANGED <<now, secret, minted, jar, jarUntil, page, logins, signedOut,
                   overtaken>>

(* Its body has arrived: what cannot be read, or is not what the route     *)
(* reads, is refused; otherwise the Gateway or the password is asked.      *)
ReadBody(r) ==
    /\ req[r].stage = "reading"
    /\ \/ /\ req[r].body = "readable"
          /\ req' = [req EXCEPT ![r].stage = "inside"]
       \/ req' = [req EXCEPT ![r].stage = "answered", ![r].status = "refused"]
    /\ UNCHANGED <<now, secret, minted, jar, jarUntil, page, logins, signedOut,
                   overtaken>>

(* The Gateway has answered, whichever way it went. *)
Relay(r) ==
    /\ req[r].stage = "inside"
    /\ req[r].kind # "login"
    /\ \E status \in {"ok", "refused"} :
          req' = [req EXCEPT ![r].stage = "answered", ![r].status = status]
    /\ UNCHANGED <<now, secret, minted, jar, jarUntil, page, logins, signedOut,
                   overtaken>>

(* The password does not match: the refusal an expired cookie gets. *)
WrongPassword(r) ==
    /\ req[r].stage = "inside"
    /\ req[r].kind = "login"
    /\ req' = [req EXCEPT ![r].stage = "answered", ![r].status = "unauthenticated"]
    /\ UNCHANGED <<now, secret, minted, jar, jarUntil, page, logins, signedOut,
                   overtaken>>

(* It does, and a session is minted. *)
SignIn(r) ==
    /\ req[r].stage = "inside"
    /\ req[r].kind = "login"
    /\ minted < MaxLogins
    /\ minted' = minted + 1
    /\ req' = [req EXCEPT ![r].stage = "answered", ![r].status = "ok",
                          ![r].sets = Minted]
    /\ logins' = logins \cup
          {[id |-> Minted.id, by |-> secret, counted |-> req[r].counted]}
    /\ UNCHANGED <<now, secret, jar, jarUntil, page, signedOut, overtaken>>

-----------------------------------------------------------------------------
(* The Console *)

(* `request` tells the listeners of a 401, and useAuthRedirect is one as   *)
(* long as the layout is mounted.  An EventSource does not go through it.  *)
IsToldOf401(r) ==
    /\ req[r].status = "unauthenticated"
    /\ req[r].kind \in {"read", "change", "login", "logout"}
    /\ page = "app"

SignedOutBy(r) == req[r].kind = "logout" /\ req[r].status = "ok"
SignedInBy(r) == req[r].kind = "login" /\ req[r].status = "ok"

(* An answer arrives: the browser does as its Set-Cookie says, and the     *)
(* Console as its status says.                                             *)
Arrive(r) ==
    /\ req[r].stage = "answered"
    /\ IF req[r].sets = Nothing
          THEN UNCHANGED <<jar, jarUntil>>
          ELSE /\ jar' = req[r].sets
               /\ jarUntil' = IF req[r].sets = NoCookie THEN now ELSE now + Duration
    /\ page' = CASE req[r].kind = "logout" \/ IsToldOf401(r) -> "login"
                 [] SignedInBy(r) -> "app"
                 [] OTHER -> page
    /\ signedOut' = (SignedOutBy(r) \/ (signedOut /\ ~SignedInBy(r)))
    /\ overtaken' = IF SignedOutBy(r)
                       THEN \E s \in Slots \ {r} :
                               InFlight(s) /\ req[s].cookie # NoCookie
                       ELSE overtaken
    /\ req' = [req EXCEPT ![r] = NoRequest]
    /\ UNCHANGED <<now, secret, minted, logins>>

(* The connection breaks, somewhere on the way there or back: what the     *)
(* server still does about it reaches nobody.  Signing out leads to the    *)
(* login page even so.                                                     *)
Fail(r) ==
    /\ InFlight(r)
    /\ page' = IF req[r].kind = "logout" THEN "login" ELSE page
    /\ req' = [req EXCEPT ![r] = NoRequest]
    /\ UNCHANGED <<now, secret, minted, jar, jarUntil, logins, signedOut, overtaken>>

Next ==
    \/ Tick \/ Rotate \/ Open
    \/ \E r \in Slots :
          \/ \E kind \in Kinds, body \in Bodies : Ask(r, kind, body)
          \/ Receive(r) \/ ReadBody(r) \/ Relay(r)
          \/ WrongPassword(r) \/ SignIn(r) \/ Arrive(r) \/ Fail(r)

Spec == Init /\ [][Next]_vars

-----------------------------------------------------------------------------
(* Properties *)

(* No body is read, no password checked and nothing asked of the Gateway   *)
(* for a request that the gates have not let by: a change is by then       *)
(* counted against the session it verified under, a guess at the password  *)
(* against its address, whether or not its body turns out to be readable.  *)
CountedBeforeRead ==
    \A r \in Slots :
        req[r].stage \in {"reading", "inside"} =>
            /\ Changes(Seen(r)) => Seen(r).origin = "own"
            /\ Seen(r).area \in {"lights", "events"} => req[r].sets \in Cookies
            /\ req[r].kind = "change" => req[r].counted = req[r].sets.id
            /\ req[r].kind = "login" => req[r].counted = Address

(* Every cookie this process would honour, in the browser or on its way    *)
(* there or back, comes down from a sign-in that was counted and whose     *)
(* password matched, under the secret it now has: renewing it makes no     *)
(* session of its own, and changing the secret ends every one there was.   *)
Held == {jar} \cup {req[r].cookie : r \in Slots} \cup {req[r].sets : r \in Slots}

EverySessionWasSignedIn ==
    \A c \in Held \cap Cookies :
        Verifies(c) =>
            [id |-> c.id, by |-> c.by, counted |-> Address] \in logins

(* "Signing out clears the cookie a browser holds": until somebody signs   *)
(* in again it holds none, unless something that had left with the cookie  *)
(* before was answered after the sign-out was.                             *)
SignedOutStaysOut ==
    signedOut /\ ~overtaken => jar = NoCookie
=============================================================================
