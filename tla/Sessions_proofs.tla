--------------------------- MODULE Sessions_proofs ---------------------------
(***************************************************************************)
(* What holds of Sessions for any number of requests at once, any length   *)
(* of a session, and any bounds.                                           *)
(***************************************************************************)
EXTENDS Sessions, TLAPS

(* The mounts, one by one. *)
LEMMA MountsAre ==
    /\ DOMAIN Mounts = 1..8
    /\ Mounts[1] = On("csrfGuard", Areas)
    /\ Mounts[2] = On("requireSession", {"lights"})
    /\ Mounts[3] = On("meterMutations", {"lights"})
    /\ Mounts[4] = On("requireSession", {"events"})
    /\ Mounts[5] = On("loginRateLimit", {"session"})
    /\ Mounts[6] = On("json", Areas)
    /\ Mounts[7] = On("routes", Areas)
    /\ Mounts[8] = On("unservedPath", Areas)
BY DEF Mounts

(* A request reaches the body reader, or a route, only past every gate     *)
(* that is mounted on its area in front of them.                           *)
LEMMA PastTheGates ==
    ASSUME NEW q, NEW facts, NEW gate \in {"json", "routes"},
           gate \in Reached(q, facts), q.area \in Areas
    PROVE  /\ Changes(q) => q.origin = "own"
           /\ q.area \in {"lights", "events"} => facts.verified
           /\ q.area = "lights" /\ Changes(q) => facts.room
           /\ q.area = "session" /\ q.method = "POST" => facts.room
           /\ q.area \in {"lights", "events"} =>
                 "requireSession" \in Reached(q, facts)
           /\ q.area = "lights" => "meterMutations" \in Reached(q, facts)
           /\ q.area = "session" => "loginRateLimit" \in Reached(q, facts)
<1>1. PICK i \in 1..8 :
         /\ Mounts[i].gate = gate
         /\ \A j \in 1..(i - 1) :
               q.area \in Mounts[j].areas => ~Ends(Mounts[j].gate, q, facts)
  BY MountsAre DEF Reached
<1>2. i \in {6, 7}
  BY <1>1, MountsAre DEF On
<1>3. \A j \in 1..5 :
         q.area \in Mounts[j].areas => ~Ends(Mounts[j].gate, q, facts)
  BY <1>1, <1>2
<1>4. ~Ends("csrfGuard", q, facts)
  BY <1>3, MountsAre DEF On
<1>5. q.area = "lights" =>
         ~Ends("requireSession", q, facts) /\ ~Ends("meterMutations", q, facts)
  BY <1>3, MountsAre DEF On
<1>6. q.area = "events" => ~Ends("requireSession", q, facts)
  BY <1>3, MountsAre DEF On
<1>7. q.area = "session" => ~Ends("loginRateLimit", q, facts)
  BY <1>3, MountsAre DEF On
<1>8. ASSUME NEW j \in 1..5, q.area \in Mounts[j].areas
      PROVE  Mounts[j].gate \in Reached(q, facts)
  BY <1>1, <1>2, <1>8, MountsAre DEF Reached
<1>9. /\ q.area = "lights" => "requireSession" \in Reached(q, facts)
      /\ q.area = "lights" => "meterMutations" \in Reached(q, facts)
      /\ q.area = "events" => "requireSession" \in Reached(q, facts)
      /\ q.area = "session" => "loginRateLimit" \in Reached(q, facts)
  BY <1>8, MountsAre DEF On
<1> QED
  BY <1>4, <1>5, <1>6, <1>7, <1>9 DEF Ends

(* A change is metered by the session it has verified under. *)
LEMMA MeteredIsVerified ==
    ASSUME NEW q, NEW facts, "meterMutations" \in Reached(q, facts)
    PROVE  facts.verified
<1>1. PICK i \in 1..8 :
         /\ q.area \in Mounts[i].areas
         /\ Mounts[i].gate = "meterMutations"
         /\ \A j \in 1..(i - 1) :
               q.area \in Mounts[j].areas => ~Ends(Mounts[j].gate, q, facts)
  BY MountsAre DEF Reached
<1>2. i = 3
  BY <1>1, MountsAre DEF On
<1>3. ~Ends("requireSession", q, facts)
  BY <1>1, <1>2, MountsAre DEF On
<1> QED
  BY <1>3 DEF Ends

-----------------------------------------------------------------------------
(* Types *)

USE DurationAssumption, BoundsAssumption, NoCookieAssumption

(* Only a change carries a body of a change, and so on: what a request is  *)
(* depends on its kind alone.                                              *)
LEMMA AsksAre ==
    ASSUME NEW kind \in Kinds
    PROVE  /\ Asks[kind].area \in Areas
           /\ Asks[kind].origin \in {"own", "other"}
           /\ kind = "login" =>
                 Asks[kind].area = "session" /\ Asks[kind].method = "POST"
           /\ kind = "change" =>
                 Asks[kind].area = "lights" /\ Asks[kind].method = "PATCH"
BY DEF Kinds, Asks, Areas

LEMMA RenewedTyped ==
    ASSUME TypeOK, NEW c \in Cookies, Verifies(c)
    PROVE  /\ Renewed(c) \in Cookies
           /\ Renewed(c).id = c.id
           /\ Renewed(c).by = c.by
BY DEF TypeOK, Verifies, Renewed, Cookies, Times, Ids

LEMMA MintedTyped ==
    ASSUME TypeOK, minted < MaxLogins
    PROVE  Minted \in Cookies
BY DEF TypeOK, Minted, Cookies, Times, Ids

(* What a sign-out is answered. *)
SigningOutAnswer(r, room) ==
    [Answering(r, room, "ok") EXCEPT !.sets = SetBySigningOut]

(* What a walk through the gates makes of a request. *)
LEMMA WalkTyped ==
    ASSUME TypeOK, NEW r \in Slots, NEW room \in BOOLEAN, req[r].stage = "sent"
    PROVE  /\ Walked(r, room) \in Request
           /\ Walked(r, room).stage # "idle"
           /\ Walked(r, room).kind = req[r].kind
           /\ Walked(r, room).cookie = req[r].cookie
           /\ \/ Walked(r, room).sets \in {NoCookie, Nothing}
              \/ /\ req[r].cookie \in Cookies
                 /\ Verifies(req[r].cookie)
                 /\ Walked(r, room).sets = Renewed(req[r].cookie)
<1>1. req[r] \in Request
  BY DEF TypeOK
<1>2. \/ Renewal(r, room) = Nothing
      \/ /\ req[r].cookie \in Cookies
         /\ Verifies(req[r].cookie)
         /\ Renewal(r, room) = Renewed(req[r].cookie)
  BY <1>1 DEF Renewal, Verifies, Request
<1>3. Renewal(r, room) \in Cookies \cup {NoCookie, Nothing}
  BY <1>2, RenewedTyped
<1>4. CountedAs(r, Gates(r, room), room) \in Ids \cup {NoOne, Address}
  <2>1. CASE "meterMutations" \in Gates(r, room)
    <3>1. Verifies(req[r].cookie)
      BY <2>1, MeteredIsVerified DEF Gates, Facts
    <3>2. req[r].cookie.id \in Ids
      BY <1>1, <3>1 DEF Verifies, Request, Cookies
    <3> QED
      BY <3>2 DEF CountedAs
  <2>2. CASE "meterMutations" \notin Gates(r, room)
    BY <2>2 DEF CountedAs
  <2> QED
    BY <2>1, <2>2
<1>5. ASSUME NEW stage \in Stages
      PROVE  /\ Passing(r, room, stage) \in Request
             /\ Passing(r, room, stage).stage = stage
             /\ Passing(r, room, stage).kind = req[r].kind
             /\ Passing(r, room, stage).cookie = req[r].cookie
             /\ Passing(r, room, stage).sets = Renewal(r, room)
  BY <1>1, <1>3, <1>4 DEF Passing, Request
<1>6. ASSUME NEW status \in Statuses
      PROVE  /\ Answering(r, room, status) \in Request
             /\ Answering(r, room, status).stage = "answered"
             /\ Answering(r, room, status).kind = req[r].kind
             /\ Answering(r, room, status).cookie = req[r].cookie
             /\ Answering(r, room, status).sets = Renewal(r, room)
  BY <1>5 DEF Answering, Request, Stages
<1>7. SigningOutAnswer(r, room) \in Request
  BY <1>6 DEF Request, SetBySigningOut, Statuses, SigningOutAnswer
<1>8. \/ \E status \in Statuses : Walked(r, room) = Answering(r, room, status)
      \/ Walked(r, room) = SigningOutAnswer(r, room)
      \/ \E stage \in {"reading", "inside"} : Walked(r, room) = Passing(r, room, stage)
  BY DEF Walked, Statuses, SigningOutAnswer
<1>9. CASE \E status \in Statuses : Walked(r, room) = Answering(r, room, status)
  BY <1>9, <1>2, <1>6
<1>10. CASE Walked(r, room) = SigningOutAnswer(r, room)
  BY <1>10, <1>6, <1>7 DEF SetBySigningOut, Statuses, Request, SigningOutAnswer
<1>11. CASE \E stage \in {"reading", "inside"} : Walked(r, room) = Passing(r, room, stage)
  BY <1>11, <1>2, <1>5 DEF Stages
<1> QED
  BY <1>8, <1>9, <1>10, <1>11

(* A request that is let through is one the gates have counted. *)
LEMMA WalkCounts ==
    ASSUME TypeOK, NEW r \in Slots, NEW room \in BOOLEAN,
           Walked(r, room).stage \in {"reading", "inside"}
    PROVE  /\ Changes(Seen(r)) => Seen(r).origin = "own"
           /\ Seen(r).area \in {"lights", "events"} =>
                 Walked(r, room).sets \in Cookies
           /\ req[r].kind = "change" =>
                 Walked(r, room).counted = Walked(r, room).sets.id
           /\ req[r].kind = "login" => Walked(r, room).counted = Address
<1> DEFINE walked == Walked(r, room)
<1>1. req[r] \in Request
  BY DEF TypeOK
<1>2. /\ Seen(r).area = Asks[req[r].kind].area
      /\ Seen(r).method = Asks[req[r].kind].method
      /\ Seen(r).area \in Areas
  BY <1>1, AsksAre DEF Seen, Request
<1>3. /\ \/ Walked(r, room) = Passing(r, room, "reading")
         \/ Walked(r, room) = Passing(r, room, "inside")
      /\ \E gate \in {"json", "routes"} : gate \in Gates(r, room)
  <2>1. ASSUME NEW status PROVE Answering(r, room, status).stage = "answered"
    BY <1>1 DEF Answering, Passing, Request, SigningOutAnswer
  <2>2. SigningOutAnswer(r, room).stage = "answered"
    BY <1>1 DEF Answering, Passing, Request, SigningOutAnswer
  <2> QED
    BY <2>1, <2>2 DEF Walked, EndsAt, Gates, SigningOutAnswer
<1>4. /\ Changes(Seen(r)) => Seen(r).origin = "own"
      /\ Seen(r).area \in {"lights", "events"} =>
            Verifies(req[r].cookie) /\ "requireSession" \in Gates(r, room)
      /\ Seen(r).area = "lights" => "meterMutations" \in Gates(r, room)
      /\ Seen(r).area = "lights" /\ Changes(Seen(r)) => room
      /\ Seen(r).area = "session" => "loginRateLimit" \in Gates(r, room)
      /\ Seen(r).area = "session" /\ Seen(r).method = "POST" => room
  BY <1>2, <1>3, PastTheGates DEF Gates, Facts
<1>5. /\ walked.sets = Renewal(r, room)
      /\ walked.counted = CountedAs(r, Gates(r, room), room)
  BY <1>1, <1>3 DEF Passing, Request
<1>6. Seen(r).area \in {"lights", "events"} =>
         /\ Renewal(r, room) \in Cookies
         /\ Renewal(r, room).id = req[r].cookie.id
  BY <1>1, <1>4, RenewedTyped DEF Renewal, Verifies, Request
<1>7. req[r].kind = "change" => CountedAs(r, Gates(r, room), room) = req[r].cookie.id
  BY <1>1, <1>2, <1>4, AsksAre DEF CountedAs, Changes, ChangesNothing, Request
<1>8. req[r].kind = "login" => CountedAs(r, Gates(r, room), room) = Address
  <2>1. "meterMutations" \in Gates(r, room) => Seen(r).area = "lights"
    <3>1. "meterMutations" \in Gates(r, room) =>
             \E i \in 1..8 : /\ Mounts[i].gate = "meterMutations"
                             /\ Seen(r).area \in Mounts[i].areas
      BY MountsAre DEF Gates, Reached
    <3> QED
      BY <3>1, MountsAre DEF On
  <2> QED
    BY <1>1, <1>2, <1>4, <2>1, AsksAre DEF CountedAs, Request
<1> QED
  BY <1>1, <1>2, <1>4, <1>5, <1>6, <1>7, <1>8, AsksAre DEF Request

LEMMA NoRequestTyped == NoRequest \in Request
<1>1. "read" \in Kinds
  BY DEF Kinds, Asks
<1> QED
  BY <1>1 DEF NoRequest, Request, Stages, Bodies, Statuses, NoOne

LEMMA TypeOKInit == Init => TypeOK
<1> SUFFICES ASSUME Init PROVE TypeOK
  OBVIOUS
<1>1. req \in [Slots -> Request]
  BY NoRequestTyped DEF Init
<1>2. /\ 0 \in 0..MaxNow /\ 0 \in 0..MaxRotations /\ 0 \in 0..MaxLogins
      /\ 0 \in Times
  BY DEF Times
<1> QED
  BY <1>1, <1>2 DEF Init, TypeOK

LEMMA TypeOKStep == TypeOK /\ [Next]_vars => TypeOK'
<1> SUFFICES ASSUME TypeOK, [Next]_vars PROVE TypeOK'
  OBVIOUS
<1>1. CASE Tick \/ Rotate \/ Open
  BY <1>1 DEF TypeOK, Tick, Rotate, Open
<1>2. ASSUME NEW r \in Slots, NEW kind \in Kinds, NEW body \in Bodies,
             Ask(r, kind, body)
      PROVE  TypeOK'
  <2>1. req'[r] \in Request
    BY <1>2 DEF Ask, TypeOK, Request, NoRequest, Stages, Statuses, NoOne
  <2> QED
    BY <1>2, <2>1 DEF Ask, TypeOK
<1>3. ASSUME NEW r \in Slots, Receive(r) PROVE TypeOK'
  <2>1. PICK room \in BOOLEAN : req' = [req EXCEPT ![r] = Walked(r, room)]
    BY <1>3 DEF Receive
  <2>2. Walked(r, room) \in Request
    BY <1>3, WalkTyped DEF Receive
  <2> QED
    BY <1>3, <2>1, <2>2 DEF Receive, TypeOK
<1>4. ASSUME NEW r \in Slots, ReadBody(r) \/ Relay(r) \/ WrongPassword(r)
      PROVE  TypeOK'
  <2>1. req'[r] \in Request
    BY <1>4 DEF ReadBody, Relay, WrongPassword, TypeOK, Request, Stages, Statuses
  <2> QED
    BY <1>4, <2>1 DEF ReadBody, Relay, WrongPassword, TypeOK
<1>5. ASSUME NEW r \in Slots, SignIn(r) PROVE TypeOK'
  <2>1. Minted \in Cookies
    BY <1>5, MintedTyped DEF SignIn
  <2>2. req'[r] \in Request
    BY <1>5, <2>1 DEF SignIn, TypeOK, Request, Stages, Statuses
  <2>3. [id |-> Minted.id, by |-> secret, counted |-> req[r].counted] \in
           [id : Ids, by : 0..MaxRotations, counted : Ids \cup {NoOne, Address}]
    BY <2>1 DEF TypeOK, Request, Cookies
  <2> QED
    BY <1>5, <2>2, <2>3 DEF SignIn, TypeOK
<1>6. ASSUME NEW r \in Slots, Arrive(r) PROVE TypeOK'
  <2>1. NoRequest \in Request
    BY NoRequestTyped
  <2>2. req[r].sets \in Cookies \cup {NoCookie, Nothing}
    BY DEF TypeOK, Request
  <2>3. jar' \in Cookies \cup {NoCookie} /\ jarUntil' \in Times
    BY <1>6, <2>2 DEF Arrive, TypeOK, Times
  <2>4. page' \in {"app", "login"}
    BY <1>6 DEF Arrive, TypeOK
  <2>5. signedOut' \in BOOLEAN /\ overtaken' \in BOOLEAN
    BY <1>6 DEF Arrive, TypeOK
  <2> QED
    BY <1>6, <2>1, <2>3, <2>4, <2>5 DEF Arrive, TypeOK
<1>7. ASSUME NEW r \in Slots, Fail(r) PROVE TypeOK'
  <2>1. NoRequest \in Request
    BY NoRequestTyped
  <2> QED
    BY <1>7, <2>1 DEF Fail, TypeOK
<1>8. CASE UNCHANGED vars
  BY <1>8 DEF vars, TypeOK
<1> QED
  BY <1>1, <1>2, <1>3, <1>4, <1>5, <1>6, <1>7, <1>8 DEF Next

(* The state of signing in and out is always well formed. *)
THEOREM SessionsTyped == Spec => []TypeOK
<1> QED
  BY TypeOKInit, TypeOKStep, PTL DEF Spec

-----------------------------------------------------------------------------
(* Counted before read *)

(* What the property says of one request, which only its kind, its stage   *)
(* and what the gates have written on it decide.                           *)
CountedAtTheGates(request) ==
    request.stage \in {"reading", "inside"} =>
        /\ Asks[request.kind].method \notin ChangesNothing =>
              Asks[request.kind].origin = "own"
        /\ Asks[request.kind].area \in {"lights", "events"} =>
              request.sets \in Cookies
        /\ request.kind = "change" => request.counted = request.sets.id
        /\ request.kind = "login" => request.counted = Address

LEMMA CountedOneByOne ==
    CountedBeforeRead <=> \A r \in Slots : CountedAtTheGates(req[r])
BY DEF CountedBeforeRead, CountedAtTheGates, Changes, Seen

LEMMA CountedStep ==
    TypeOK /\ CountedBeforeRead /\ [Next]_vars => CountedBeforeRead'
<1> SUFFICES ASSUME TypeOK, CountedBeforeRead, [Next]_vars
             PROVE  \A r \in Slots : CountedAtTheGates(req'[r])
  BY DEF CountedBeforeRead, CountedAtTheGates, Changes, Seen
<1>1. \A r \in Slots : CountedAtTheGates(req[r])
  BY CountedOneByOne
<1>2. CountedAtTheGates(NoRequest)
  BY DEF CountedAtTheGates, NoRequest
<1>3. ASSUME NEW r \in Slots, req' = [req EXCEPT ![r] = req'[r]],
             CountedAtTheGates(req'[r])
      PROVE  \A s \in Slots : CountedAtTheGates(req'[s])
  BY <1>1, <1>3 DEF TypeOK
<1>4. CASE Tick \/ Rotate \/ Open \/ UNCHANGED vars
  BY <1>1, <1>4 DEF Tick, Rotate, Open, vars
<1>5. ASSUME NEW r \in Slots, NEW kind \in Kinds, NEW body \in Bodies,
             Ask(r, kind, body)
      PROVE  \A s \in Slots : CountedAtTheGates(req'[s])
  <2>1. req'[r].stage = "sent" /\ req' = [req EXCEPT ![r] = req'[r]]
    BY <1>5 DEF Ask, NoRequest, TypeOK
  <2> QED
    BY <1>3, <2>1 DEF CountedAtTheGates
<1>6. ASSUME NEW r \in Slots, Receive(r)
      PROVE  \A s \in Slots : CountedAtTheGates(req'[s])
  <2>1. PICK room \in BOOLEAN : req' = [req EXCEPT ![r] = Walked(r, room)]
    BY <1>6 DEF Receive
  <2>2. Walked(r, room).kind = req[r].kind
    BY <1>6, WalkTyped DEF Receive
  <2>3. CountedAtTheGates(Walked(r, room))
    BY <2>2, WalkCounts DEF CountedAtTheGates, Changes, Seen
  <2> QED
    BY <1>3, <2>1, <2>3 DEF TypeOK
<1>7. ASSUME NEW r \in Slots, ReadBody(r)
      PROVE  \A s \in Slots : CountedAtTheGates(req'[s])
  <2>1. /\ req' = [req EXCEPT ![r] = req'[r]]
        /\ req'[r].kind = req[r].kind
        /\ req'[r].sets = req[r].sets
        /\ req'[r].counted = req[r].counted
        /\ req[r].stage = "reading"
    BY <1>7 DEF ReadBody, TypeOK, Request
  <2> QED
    BY <1>1, <1>3, <2>1 DEF CountedAtTheGates
<1>8. ASSUME NEW r \in Slots, Relay(r) \/ WrongPassword(r) \/ SignIn(r)
      PROVE  \A s \in Slots : CountedAtTheGates(req'[s])
  <2>1. req' = [req EXCEPT ![r] = req'[r]] /\ req'[r].stage = "answered"
    BY <1>8 DEF Relay, WrongPassword, SignIn, TypeOK, Request
  <2> QED
    BY <1>3, <2>1 DEF CountedAtTheGates
<1>9. ASSUME NEW r \in Slots, Arrive(r) \/ Fail(r)
      PROVE  \A s \in Slots : CountedAtTheGates(req'[s])
  BY <1>1, <1>2, <1>9 DEF Arrive, Fail, TypeOK
<1> QED
  BY <1>4, <1>5, <1>6, <1>7, <1>8, <1>9 DEF Next

(* Nothing is read of a body, and no route entered, before the gates have  *)
(* let the request by and the meters have counted it: the order of the     *)
(* mounts in app.ts is what makes it so, whatever the meters answer.       *)
THEOREM BodiesWaitForTheGates == Spec => []CountedBeforeRead
<1>1. Init => CountedBeforeRead
  BY DEF Init, CountedBeforeRead, NoRequest
<1> QED
  BY <1>1, TypeOKInit, TypeOKStep, CountedStep, PTL DEF Spec

-----------------------------------------------------------------------------
(* Where a cookie comes from *)

(* Expired ones too, and those of an earlier secret: a session that        *)
(* verifies is not told apart from one that does not, since what verifies  *)
(* changes with the clock and the secret and the sign-in it comes from     *)
(* does not.                                                               *)
Descends(c) ==
    c \in Cookies => [id |-> c.id, by |-> c.by, counted |-> Address] \in logins

Descent ==
    /\ Descends(jar)
    /\ \A r \in Slots : Descends(req[r].cookie) /\ Descends(req[r].sets)

LEMMA DescentStep ==
    TypeOK /\ CountedBeforeRead /\ Descent /\ [Next]_vars => Descent'
<1> SUFFICES ASSUME TypeOK, CountedBeforeRead, Descent, [Next]_vars
             PROVE  Descent'
  OBVIOUS
<1>1. ASSUME UNCHANGED <<jar, logins>>, NEW r \in Slots,
             req' = [req EXCEPT ![r] = req'[r]],
             Descends(req'[r].cookie), Descends(req'[r].sets)
      PROVE  Descent'
  BY <1>1 DEF Descent, Descends, TypeOK
<1>2. Descends(NoCookie) /\ Descends(Nothing)
  BY DEF Descends
<1>3. CASE Tick \/ Rotate \/ Open \/ UNCHANGED vars
  BY <1>3 DEF Descent, Descends, Tick, Rotate, Open, vars
<1>4. ASSUME NEW r \in Slots, NEW kind \in Kinds, NEW body \in Bodies,
             Ask(r, kind, body)
      PROVE  Descent'
  <2>1. /\ UNCHANGED <<jar, logins>>
        /\ req' = [req EXCEPT ![r] = req'[r]]
        /\ req'[r].cookie \in {jar, NoCookie}
        /\ req'[r].sets = Nothing
    BY <1>4 DEF Ask, NoRequest, TypeOK
  <2> QED
    BY <1>1, <1>2, <2>1 DEF Descent
<1>5. ASSUME NEW r \in Slots, Receive(r) PROVE Descent'
  <2>1. PICK room \in BOOLEAN : req' = [req EXCEPT ![r] = Walked(r, room)]
    BY <1>5 DEF Receive
  <2>2. /\ Walked(r, room).cookie = req[r].cookie
        /\ \/ Walked(r, room).sets \in {NoCookie, Nothing}
           \/ /\ req[r].cookie \in Cookies
              /\ Verifies(req[r].cookie)
              /\ Walked(r, room).sets = Renewed(req[r].cookie)
    BY <1>5, WalkTyped DEF Receive
  <2>3. Descends(Walked(r, room).cookie) /\ Descends(Walked(r, room).sets)
    BY <1>2, <2>2, RenewedTyped DEF Descent, Descends
  <2>4. UNCHANGED <<jar, logins>> /\ req'[r] = Walked(r, room)
    BY <1>5, <2>1 DEF Receive, TypeOK
  <2> QED
    BY <1>1, <2>1, <2>3, <2>4
<1>6. ASSUME NEW r \in Slots, ReadBody(r) \/ Relay(r) \/ WrongPassword(r)
      PROVE  Descent'
  <2>1. /\ UNCHANGED <<jar, logins>>
        /\ req' = [req EXCEPT ![r] = req'[r]]
        /\ req'[r].cookie = req[r].cookie
        /\ req'[r].sets = req[r].sets
    BY <1>6 DEF ReadBody, Relay, WrongPassword, TypeOK, Request
  <2> QED
    BY <1>1, <2>1 DEF Descent
<1>7. ASSUME NEW r \in Slots, SignIn(r) PROVE Descent'
  <2>1. req[r].counted = Address
    BY <1>7 DEF SignIn, CountedBeforeRead
  <2>2. /\ logins \subseteq logins' /\ UNCHANGED jar
        /\ [id |-> Minted.id, by |-> Minted.by, counted |-> Address] \in logins'
    BY <1>7, <2>1 DEF SignIn, Minted
  <2>3. /\ req' = [req EXCEPT ![r] = req'[r]]
        /\ req'[r].cookie = req[r].cookie
        /\ req'[r].sets = Minted
    BY <1>7 DEF SignIn, TypeOK, Request
  <2> QED
    BY <2>2, <2>3 DEF Descent, Descends, TypeOK
<1>8. ASSUME NEW r \in Slots, Arrive(r) \/ Fail(r) PROVE Descent'
  <2>1. /\ jar' \in {jar, req[r].sets} /\ UNCHANGED logins
        /\ req' = [req EXCEPT ![r] = NoRequest]
    BY <1>8 DEF Arrive, Fail
  <2> QED
    BY <1>2, <2>1 DEF Descent, Descends, NoRequest, TypeOK
<1> QED
  BY <1>3, <1>4, <1>5, <1>6, <1>7, <1>8 DEF Next

(* However often a session is renewed, whatever overtakes what, and        *)
(* whenever the secret is changed, a cookie this process honours comes     *)
(* down from a sign-in under the present secret, and one that was counted. *)
THEOREM SessionsAreSignedIn == Spec => []EverySessionWasSignedIn
<1>1. Init => CountedBeforeRead /\ Descent
  BY DEF Init, CountedBeforeRead, Descent, Descends, NoRequest
<1>2. Descent => EverySessionWasSignedIn
  BY DEF Descent, Descends, EverySessionWasSignedIn, Held
<1> QED
  BY <1>1, <1>2, TypeOKInit, TypeOKStep, CountedStep, DescentStep, PTL DEF Spec

-----------------------------------------------------------------------------
(* Signing out *)

(* An answer brings a cookie only to who came with one, or signed in.      *)
BringsACookieRightly(request) ==
    request.sets \in Cookies =>
        \/ request.cookie \in Cookies
        \/ request.kind = "login" /\ request.status = "ok"

(* Signing out has nothing to wait for, and so is never past its gates     *)
(* with an answer still to come; what it answers clears.                   *)
SignsOutInOneTurn(request) ==
    request.kind = "logout" =>
        /\ request.stage \in {"sent", "answered"}
        /\ request.body = "none"
        /\ request.status = "ok" => request.sets = NoCookie

(* A status comes with the answer. *)
StatusIsTheAnswers(request) ==
    request.stage # "answered" => request.status = "none"

Orderly(request) ==
    /\ BringsACookieRightly(request)
    /\ SignsOutInOneTurn(request)
    /\ StatusIsTheAnswers(request)

SigningOut ==
    /\ \A r \in Slots : Orderly(req[r])
    /\ \A r \in Slots : ~InFlight(r) => req[r].cookie = NoCookie
    /\ signedOut /\ ~overtaken =>
          jar = NoCookie /\ \A r \in Slots : req[r].cookie = NoCookie

(* A walk through the gates leaves a request orderly. *)
LEMMA WalkOrderly ==
    ASSUME TypeOK, NEW r \in Slots, NEW room \in BOOLEAN,
           req[r].stage = "sent", Orderly(req[r])
    PROVE  Orderly(Walked(r, room))
<1>1. req[r] \in Request
  BY DEF TypeOK
<1>2. BringsACookieRightly(Walked(r, room))
  BY WalkTyped DEF BringsACookieRightly
<1>3. ASSUME req[r].kind = "logout"
      PROVE  SignsOutInOneTurn(Walked(r, room))
  <2>1. Seen(r).body = "none" /\ req[r].body = "none"
    BY <1>3 DEF Orderly, SignsOutInOneTurn, Seen
  <2>2. ASSUME NEW status \in {"unauthenticated", "refused"}
        PROVE  SignsOutInOneTurn(Answering(r, room, status))
    BY <1>1, <2>1 DEF SignsOutInOneTurn, Answering, Passing, Request, SigningOutAnswer
  <2>3. SignsOutInOneTurn(SigningOutAnswer(r, room))
    BY <1>1, <2>1 DEF SignsOutInOneTurn, Answering, Passing, Request, SigningOutAnswer, SetBySigningOut
  <2> QED
    BY <1>3, <2>1, <2>2, <2>3 DEF Walked, SigningOutAnswer
<1>4. ASSUME req[r].kind # "logout"
      PROVE  SignsOutInOneTurn(Walked(r, room))
  BY <1>4, WalkTyped DEF SignsOutInOneTurn
<1>5. StatusIsTheAnswers(Walked(r, room))
  <2>1. req[r].status = "none"
    BY DEF Orderly, StatusIsTheAnswers
  <2>2. ASSUME NEW stage PROVE Passing(r, room, stage).status = "none"
    BY <1>1, <2>1 DEF Passing, Request
  <2>3. ASSUME NEW status PROVE Answering(r, room, status).stage = "answered"
    BY <1>1 DEF Answering, Passing, Request, SigningOutAnswer
  <2>4. SigningOutAnswer(r, room).stage = "answered"
    BY <1>1 DEF Answering, Passing, Request, SigningOutAnswer
  <2> QED
    BY <2>2, <2>3, <2>4 DEF StatusIsTheAnswers, Walked, SigningOutAnswer
<1> QED
  BY <1>2, <1>3, <1>4, <1>5 DEF Orderly

LEMMA SigningOutStep == TypeOK /\ SigningOut /\ [Next]_vars => SigningOut'
<1> SUFFICES ASSUME TypeOK, SigningOut, [Next]_vars PROVE SigningOut'
  OBVIOUS
<1>1. ASSUME UNCHANGED <<jar, signedOut, overtaken>>, NEW r \in Slots,
             req' = [req EXCEPT ![r] = req'[r]],
             Orderly(req'[r]),
             req'[r].cookie \in {req[r].cookie, jar, NoCookie},
             req'[r].stage = "idle" => req'[r].cookie = NoCookie
      PROVE  SigningOut'
  BY <1>1 DEF SigningOut, InFlight, TypeOK
<1>2. Orderly(NoRequest) /\ NoRequest.cookie = NoCookie
  BY DEF Orderly, BringsACookieRightly, SignsOutInOneTurn,
         StatusIsTheAnswers, NoRequest
<1>3. CASE Tick \/ Rotate \/ Open \/ UNCHANGED vars
  BY <1>3 DEF SigningOut, InFlight, Tick, Rotate, Open, vars
<1>4. ASSUME NEW r \in Slots, NEW kind \in Kinds, NEW body \in Bodies,
             Ask(r, kind, body)
      PROVE  SigningOut'
  <2>1. /\ UNCHANGED <<jar, signedOut, overtaken>>
        /\ req' = [req EXCEPT ![r] = req'[r]]
        /\ req'[r].kind = kind /\ req'[r].body = body
        /\ req'[r].stage = "sent" /\ req'[r].status = "none"
        /\ req'[r].cookie \in {jar, NoCookie}
        /\ req'[r].sets = Nothing
    BY <1>4 DEF Ask, NoRequest, TypeOK
  <2>2. kind = "logout" => body = "none"
    BY <1>4 DEF Ask, WithBody
  <2>3. Orderly(req'[r])
    BY <2>1, <2>2 DEF Orderly, BringsACookieRightly, SignsOutInOneTurn, StatusIsTheAnswers
  <2> QED
    BY <1>1, <2>1, <2>3
<1>5. ASSUME NEW r \in Slots, Receive(r) PROVE SigningOut'
  <2>1. PICK room \in BOOLEAN : req' = [req EXCEPT ![r] = Walked(r, room)]
    BY <1>5 DEF Receive
  <2>2. /\ Orderly(Walked(r, room))
        /\ Walked(r, room).cookie = req[r].cookie
        /\ Walked(r, room).stage # "idle"
    BY <1>5, WalkOrderly, WalkTyped DEF Receive, SigningOut
  <2>3. req'[r] = Walked(r, room) /\ UNCHANGED <<jar, signedOut, overtaken>>
    BY <1>5, <2>1 DEF Receive, TypeOK
  <2> QED
    BY <1>1, <2>1, <2>2, <2>3
<1>6. ASSUME NEW r \in Slots, ReadBody(r) \/ Relay(r) \/ WrongPassword(r) \/ SignIn(r)
      PROVE  SigningOut'
  <2>1. /\ UNCHANGED <<jar, signedOut, overtaken>>
        /\ req' = [req EXCEPT ![r] = req'[r]]
        /\ req'[r].kind = req[r].kind
        /\ req'[r].cookie = req[r].cookie
        /\ req'[r].stage # "idle"
        /\ \/ req'[r].sets = req[r].sets
           \/ req'[r].kind = "login" /\ req'[r].status = "ok"
        /\ \/ req'[r].stage = "answered"
           \/ req'[r].stage = "inside" /\ req'[r].status = req[r].status
        /\ req[r].stage \in {"reading", "inside"}
    BY <1>6 DEF ReadBody, Relay, WrongPassword, SignIn, TypeOK, Request
  <2>2. Orderly(req[r])
    BY DEF SigningOut
  <2>3. req[r].kind # "logout" /\ req[r].status = "none"
    BY <2>1, <2>2 DEF Orderly, SignsOutInOneTurn, StatusIsTheAnswers
  <2>4. Orderly(req'[r])
    BY <2>1, <2>2, <2>3
       DEF Orderly, BringsACookieRightly, SignsOutInOneTurn, StatusIsTheAnswers
  <2> QED
    BY <1>1, <2>1, <2>4
<1>7. ASSUME NEW r \in Slots, Arrive(r) PROVE SigningOut'
  <2>1. req' = [req EXCEPT ![r] = NoRequest]
    BY <1>7 DEF Arrive
  <2>2. /\ \A s \in Slots : Orderly(req'[s])
        /\ \A s \in Slots : ~InFlight(s)' => req'[s].cookie = NoCookie
    BY <1>2, <2>1 DEF SigningOut, InFlight, TypeOK
  <2>3. CASE SignedOutBy(r)
    <3>1. req[r].sets = NoCookie
      BY <2>3 DEF SignedOutBy, SigningOut, Orderly, SignsOutInOneTurn
    <3>2. jar' = NoCookie
      BY <1>7, <3>1 DEF Arrive
    <3>3. ~overtaken' => \A s \in Slots : req'[s].cookie = NoCookie
      BY <1>2, <1>7, <2>1, <2>3 DEF Arrive, SigningOut, TypeOK
    <3> QED
      BY <2>2, <3>2, <3>3 DEF SigningOut
  <2>4. CASE ~SignedOutBy(r)
    <3> SUFFICES ASSUME signedOut', ~overtaken'
                 PROVE  jar' = NoCookie /\ \A s \in Slots : req'[s].cookie = NoCookie
      BY <2>2 DEF SigningOut
    <3>1. signedOut /\ ~SignedInBy(r) /\ ~overtaken
      BY <1>7, <2>4 DEF Arrive
    <3>2. jar = NoCookie /\ \A s \in Slots : req[s].cookie = NoCookie
      BY <3>1 DEF SigningOut
    <3>3. req[r].sets \in {Nothing, NoCookie}
      BY <3>1, <3>2 DEF SigningOut, Orderly, BringsACookieRightly, SignedInBy,
                        TypeOK, Request
    <3> QED
      BY <1>2, <1>7, <2>1, <3>2, <3>3 DEF Arrive, TypeOK
  <2> QED
    BY <2>3, <2>4
<1>8. ASSUME NEW r \in Slots, Fail(r) PROVE SigningOut'
  <2>1. req' = [req EXCEPT ![r] = NoRequest] /\ UNCHANGED <<jar, signedOut, overtaken>>
    BY <1>8 DEF Fail
  <2>2. req'[r] = NoRequest
    BY <2>1 DEF TypeOK
  <2> QED
    BY <1>1, <1>2, <2>1, <2>2
<1> QED
  BY <1>3, <1>4, <1>5, <1>6, <1>7, <1>8 DEF Next

(* A browser that signed out holds no cookie until somebody signs in, but  *)
(* for a request that had left with the old one and was answered after.    *)
THEOREM SigningOutLasts == Spec => []SignedOutStaysOut
<1>1. Init => SigningOut
  BY DEF Init, SigningOut, Orderly, BringsACookieRightly, SignsOutInOneTurn,
         StatusIsTheAnswers, NoRequest
<1>2. SigningOut => SignedOutStaysOut
  BY DEF SigningOut, SignedOutStaysOut
<1> QED
  BY <1>1, <1>2, TypeOKInit, TypeOKStep, SigningOutStep, PTL DEF Spec
=============================================================================
