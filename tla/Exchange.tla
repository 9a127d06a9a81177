------------------------------ MODULE Exchange ------------------------------
(***************************************************************************)
(* One exchange from a browser to the Bridge and back: a read or a PATCH   *)
(* through the routes of http/lights.ts, the contract and the codec, over  *)
(* the wire to the Gateway, and its answer all the way to what a person is *)
(* shown; and an event of the one subscription, as far as the Notice it    *)
(* is.  Whatever joins two tiers may break at any step.                    *)
(*                                                                         *)
(* The Gateway is external.  It may be newer than the bindings here: it    *)
(* may then send fields and enumeration values these do not know.          *)
(***************************************************************************)
EXTENDS Codec, Answers

CONSTANTS
    Bodies,         \* what a browser may PATCH a Light with, as JSON
    Reports,        \* LightGets the Bridge may report
    Lists,          \* the lists of them it may answer with
    Happenings,     \* HueEvents the Gateway may tell of
    Mutations,      \* MutationResponses it may answer with
    LightId,
    encode(_, _),   \* a message of a type, as it is on the wire
    decode(_, _),   \* what these bindings read there
    newer(_, _)     \* the same, of a Gateway newer than they are

VARIABLES
    asked,      \* the request of the browser, or of the fanout
    rpc,        \* the request on the wire of the RPC, or None
    reply,      \* what the RPC ended with: a wire message, a status, or None
    meant,      \* history: the message of the Gateway's, as it meant it
    applied,    \* history: the Bridge changed the Light
    response,   \* the HTTP response on its way, or None
    shown,      \* what it is to whoever asked: a value, an error, or None
    broke       \* history: the tier the exchange broke at, or "nothing"

vars == <<asked, rpc, reply, meant, applied, response, shown, broke>>

Call(a) == IF a.route = "patch" THEN "update" ELSE "read"

(* Failures that say which tier they are of: the Gateway's own, on its way *)
(* to the Bridge.                                                          *)
BridgeSide == {"UNAVAILABLE", "FAILED_PRECONDITION"}

(* The Gateway refuses before it has done anything.  (UNKNOWN is a status  *)
(* the table has no row for.)                                              *)
Refusals == BridgeSide \cup
    {"INVALID_ARGUMENT", "NOT_FOUND", "RESOURCE_EXHAUSTED", "UNIMPLEMENTED",
     "UNAUTHENTICATED"}

(* It gives up, and by then may have changed the Light. *)
GivingUp == {"UNAVAILABLE", "DEADLINE_EXCEEDED", "INTERNAL", "UNKNOWN"}

-----------------------------------------------------------------------------
(* What may be asked for. *)
Requests ==
    {[route |-> r] : r \in {"list", "get", "subscribe"}}
    \cup {[route |-> "patch", body |-> b] : b \in Bodies}

(* The message an RPC asks with, and its type. *)
RequestType(a) ==
    CASE a.route = "list" -> "ListLightsRequest"
      [] a.route = "get" -> "GetLightRequest"
      [] a.route = "patch" -> "UpdateLightRequest"
      [] a.route = "subscribe" -> "SubscribeRequest"

LightOnly == <<EnumFromJSON("ResourceIdentifier_Rtype", "RTYPE_LIGHT")>>

RequestMessage(a) ==
    CASE a.route = "list" -> EmptyRecord
      [] a.route = "get" -> [lightId |-> LightId]
      [] a.route = "patch" ->
            [lightId |-> LightId,
             command |-> commandFor(readLightCommand(a.body).command)]
      [] a.route = "subscribe" ->
            [resourceIds |-> <<>>, resourceTypes |-> LightOnly]

Unsendable(a) == a.route = "patch" /\ ~readLightCommand(a.body).ok

(* What the Gateway may answer, and the type of it. *)
ReplyType(a) ==
    CASE a.route = "list" -> "ListLightsResponse"
      [] a.route = "get" -> "LightGet"
      [] a.route = "patch" -> "MutationResponse"
      [] a.route = "subscribe" -> "HueEvent"

PossibleAnswers(a) ==
    CASE a.route = "list" -> {[lights |-> ls] : ls \in Lists}
      [] a.route = "get" -> Reports
      [] a.route = "patch" -> Mutations
      [] a.route = "subscribe" -> Happenings

-----------------------------------------------------------------------------
(* What is taken of the constants. *)

(* JSON holds what its kind says. *)
IsValue(j) ==
    /\ j.kind = "number" => j.n \in Int
    /\ j.kind = "boolean" => j.b \in BOOLEAN

ASSUME BodiesAssumption ==
    \A b \in Bodies : b.kind = "object" =>
        \A k \in DOMAIN b.of :
            /\ IsValue(b.of[k])
            /\ b.of[k].kind = "object" =>
                  \A c \in DOMAIN b.of[k].of : IsValue(b.of[k].of[c])

(* A LightGet: each field that is set is of its type, and the Bridge names *)
(* its lights.                                                             *)
IsReport(m) ==
    /\ m.id # ""
    /\ Set(m, "metadata") => m.metadata.archetype \in Int
    /\ Set(m, "on") => m.on.on \in BOOLEAN
    /\ Reaches(m, "color", "xy") => IsXy(m.color.xy)
    /\ Reaches(m, "color", "gamut") =>
          \A corner \in DOMAIN m.color.gamut : IsXy(m.color.gamut[corner])

(* A ResourceIdentifier: the Bridge names what it changed, too. *)
IsIdentifier(r) == r.rid # "" /\ r.rtype \in Int

IsList(s) == s \in Seq({s[i] : i \in DOMAIN s})

ASSUME MessagesAssumption ==
    /\ \A m \in Reports : IsReport(m)
    /\ Lists \subseteq Seq(Reports)
    /\ \A m \in Mutations :
          /\ IsList(m.updated) /\ IsList(m.errors)
          /\ \A i \in DOMAIN m.updated : IsIdentifier(m.updated[i])
    /\ \A m \in Happenings : Set(m, "change") =>
          /\ ~Set(m, "gap") /\ m.change.type \in Int
          /\ Set(m.change, "resource") => m.change.resource.rtype \in Int

(* What is written for a call is read as it was meant, by the Gateway and  *)
(* by the adapter, whether the Gateway is newer or not.                    *)
ASSUME WireAssumption ==
    \A a \in Requests :
        /\ ~Unsendable(a) =>
              decode(RequestType(a), encode(RequestType(a), RequestMessage(a)))
                = RequestMessage(a)
        /\ \A m \in PossibleAnswers(a) :
              LET w == encode(ReplyType(a), m)
              IN  /\ decode(ReplyType(a), w) = m
                  /\ decode(ReplyType(a), newer(ReplyType(a), w)) = m

-----------------------------------------------------------------------------
Init ==
    /\ asked \in Requests
    /\ rpc = None /\ reply = None /\ meant = None
    /\ applied = FALSE
    /\ response = None /\ shown = None
    /\ broke = "nothing"

(* `refuseWithoutAsking`: a body that is not a Command. *)
RefuseWithoutAsking ==
    /\ rpc = None /\ response = None
    /\ Unsendable(asked)
    /\ response' = refuse(readLightCommand(asked.body).code)
    /\ UNCHANGED <<asked, rpc, reply, meant, applied, shown, broke>>

(* `ask`: the RPC goes out. *)
Ask ==
    /\ rpc = None /\ response = None
    /\ ~Unsendable(asked)
    /\ rpc' = [kind |-> "wire",
               of |-> encode(RequestType(asked), RequestMessage(asked))]
    /\ UNCHANGED <<asked, reply, meant, applied, response, shown, broke>>

-----------------------------------------------------------------------------
(* The Gateway *)

Outstanding == rpc # None /\ reply = None

(* It says what the Bridge changed and what it refused; if neither, nobody *)
(* can tell.                                                               *)
Consistent(m, touched) ==
    /\ m.updated # <<>> => touched
    /\ m.updated = <<>> /\ m.errors # <<>> => ~touched

(* It answers. *)
Answer ==
    /\ Outstanding
    /\ \E m \in PossibleAnswers(asked), isNewer, touched \in BOOLEAN :
          /\ IF asked.route = "patch" THEN Consistent(m, touched) ELSE ~touched
          /\ meant' = m
          /\ applied' = touched
          /\ LET w == encode(ReplyType(asked), m)
             IN  reply' = [kind |-> "wire",
                           of |-> IF isNewer THEN newer(ReplyType(asked), w) ELSE w]
    /\ UNCHANGED <<asked, rpc, response, shown, broke>>

(* Nobody is shown what breaks after the answer, or what stood for it. *)
Breaks(tier) == broke' = IF shown = None THEN tier ELSE broke

(* It refuses, or cannot reach the Bridge. *)
GatewayRefuses ==
    /\ Outstanding
    /\ \E name \in Refusals :
          /\ reply' = Status(name, TRUE)
          /\ Breaks(IF name \in BridgeSide THEN "bridge" ELSE "nothing")
    /\ UNCHANGED <<asked, rpc, meant, applied, response, shown>>

(* It gives up. *)
GatewayGivesUp ==
    /\ Outstanding
    /\ \E name \in GivingUp, touched \in BOOLEAN :
          /\ touched => asked.route = "patch"
          /\ reply' = Status(name, TRUE)
          /\ applied' = touched
          /\ Breaks(IF name \in BridgeSide THEN "bridge" ELSE "nothing")
    /\ UNCHANGED <<asked, rpc, meant, response, shown>>

(* The deadline of the RPC passes: nobody heard the Gateway. *)
DeadlinePasses ==
    /\ Outstanding
    /\ asked.route # "subscribe"
    /\ reply' = Status("DEADLINE_EXCEEDED", FALSE)
    /\ UNCHANGED <<asked, rpc, meant, applied, response, shown, broke>>

(* There is no connection to the Gateway, or no longer. *)
ChannelBreaks ==
    /\ Outstanding
    /\ reply' = Status("UNAVAILABLE", FALSE)
    /\ Breaks("channel")
    /\ UNCHANGED <<asked, rpc, meant, applied, response, shown>>

(* What nobody waits for any more is done all the same. *)
BridgeActsLate ==
    /\ asked.route = "patch" /\ ~applied
    /\ reply.kind = "status" /\ ~reply.trailers
    /\ applied' = TRUE
    /\ UNCHANGED <<asked, rpc, reply, meant, response, shown, broke>>

-----------------------------------------------------------------------------
(* The way back *)

(* What the adapter makes of an answer. *)
ValueOf(a, m) ==
    CASE a.route = "list" -> [i \in DOMAIN m.lights |-> lightFrom(m.lights[i])]
      [] a.route = "get" -> lightFrom(m)
      [] a.route = "patch" -> acknowledgementFrom(m)
      [] a.route = "subscribe" -> noticeFrom(m)

Read == ValueOf(asked, decode(ReplyType(asked), reply.of))

(* `relay`: the RPC has ended. *)
Relay ==
    /\ asked.route # "subscribe"
    /\ reply # None /\ response = None
    /\ response' = IF reply.kind = "wire" THEN relay(Read)
                   ELSE refuse(failureFrom(reply, Call(asked)))
    /\ UNCHANGED <<asked, rpc, reply, meant, applied, shown, broke>>

(* The stream's `data` and `error`. *)
Hear ==
    /\ asked.route = "subscribe"
    /\ reply # None /\ shown = None
    /\ shown' = IF reply.kind = "wire" THEN [kind |-> "value", value |-> Read]
                ELSE ApiError(failureFrom(reply, "read"))
    /\ UNCHANGED <<asked, rpc, reply, meant, applied, response, broke>>

(* The response is there. *)
Arrive ==
    /\ response # None /\ shown = None
    /\ shown' = ResultOf(response)
    /\ UNCHANGED <<asked, rpc, reply, meant, applied, response, broke>>

(* The browser's own connection breaks, whatever the API goes on to do. *)
FetchFails ==
    /\ asked.route # "subscribe"
    /\ shown = None
    /\ shown' = TypeError
    /\ broke' = "http"
    /\ UNCHANGED <<asked, rpc, reply, meant, applied, response>>

(* Or the proxy in front of the API answers in its stead. *)
ProxyAnswers ==
    /\ asked.route # "subscribe"
    /\ shown = None
    /\ shown' = ResultOf(ProxyPage)
    /\ broke' = "proxy"
    /\ UNCHANGED <<asked, rpc, reply, meant, applied, response>>

Next ==
    \/ RefuseWithoutAsking \/ Ask
    \/ Answer \/ GatewayRefuses \/ GatewayGivesUp
    \/ DeadlinePasses \/ ChannelBreaks \/ BridgeActsLate
    \/ Relay \/ Hear \/ Arrive \/ FetchFails \/ ProxyAnswers

Spec == Init /\ [][Next]_vars

-----------------------------------------------------------------------------
(* Properties *)

(* Every answer the Console API writes is of the shape its contract gives  *)
(* the route, whatever the Gateway reported.                               *)
KeepsTheContract ==
    response # None =>
        IF response.status # 200 THEN
            /\ IsEnvelope(response.json)
            /\ response.status = ERRORS[response.json.code].httpStatus
        ELSE CASE asked.route = "list" ->
                    \A i \in DOMAIN response.json : IsLight(response.json[i])
               [] asked.route = "get" -> IsLight(response.json)
               [] asked.route = "patch" -> IsAcknowledgement(response.json)

(* What the Gateway reads off the wire. *)
Received == decode(RequestType(asked), rpc.of)

(* Where in a LightPut each key of a Command goes. *)
PutPath ==
    [on |-> <<"on", "on">>, brightness |-> <<"dimming", "brightness">>,
     colorTemperatureMirek |-> <<"colorTemperature", "mirek">>,
     colorXy |-> <<"color", "xy">>]

(* "Presence is the whole contract": the Gateway is asked for exactly what *)
(* the body has, false and zero included, of the light it was sent for;    *)
(* and the fanout for lights alone.                                        *)
AskedAsCommitted ==
    rpc # None =>
        /\ asked.route \in {"get", "patch"} => Received.lightId = LightId
        /\ asked.route = "subscribe" => Received.resourceTypes = LightOnly
        /\ asked.route = "patch" =>
              LET put == Received.command
                  keys == DOMAIN asked.body.of
              IN  /\ DOMAIN put = {PutPath[k][1] : k \in keys}
                  /\ \A k \in keys :
                        put[PutPath[k][1]][PutPath[k][2]] = Plain(asked.body.of[k])

Between(low, n, high) == low <= n /\ n <= high

(* What Hue accepts, of a LightPut as the Gateway reads it                 *)
(* (hue_grpc/lighting/limits.py): both ends of each range included.        *)
HueAccepts(put) ==
    /\ DOMAIN put # {}
    /\ Set(put, "dimming") => Between(0, put.dimming.brightness, 100000)
    /\ Set(put, "colorTemperature") =>
          Between(153000, put.colorTemperature.mirek, 500000)
    /\ Set(put, "color") =>
          Between(0, put.color.xy.x, 1000) /\ Between(0, put.color.xy.y, 1000)

(* A body that can be put as one LightPut: keys Hue knows, each of its     *)
(* type, and one colour.                                                   *)
Expressible(body) ==
    /\ body.kind = "object"
    /\ \A k \in DOMAIN body.of : k \in Keys /\ WellTyped(k, body.of[k])
    /\ ~{"colorXy", "colorTemperatureMirek"} \subseteq DOMAIN body.of

(* Nothing is sent that Hue would refuse for its limits, and nothing it    *)
(* would accept is refused before it is sent: "a bound the Console API     *)
(* does not share with the Gateway is a request the Bridge would have      *)
(* accepted and a person cannot make".                                     *)
RefusesWhatHueRefuses ==
    asked.route = "patch" =>
        /\ rpc # None => HueAccepts(Received.command)
        /\ Unsendable(asked) /\ Expressible(asked.body) =>
              ~HueAccepts(commandFor([k \in DOMAIN asked.body.of |->
                                        Plain(asked.body.of[k])]))

Got == shown.kind = "value"

(* Where in a LightGet each optional value of a Light comes from. *)
GetPath ==
    [brightness |-> <<"dimming", "brightness">>,
     minDimLevel |-> <<"dimming", "minDimLevel">>,
     colorTemperatureMirek |-> <<"colorTemperature", "mirek">>,
     colorXy |-> <<"color", "xy">>]

(* The name a report gives a Light: without any, none. *)
NameIn(report) == IF Set(report, "metadata") THEN report.metadata.name ELSE ""

(* The archetype a report gives a Light: the one of Hue's names that goes  *)
(* by its number, if these bindings have a name for that number.           *)
ArchetypeIn(report) ==
    IF /\ Set(report, "metadata")
       /\ report.metadata.archetype + 1 \in DOMAIN Enumerations["LightArchetype"]
    THEN LIGHT_ARCHETYPES[report.metadata.archetype + 1]
    ELSE "unspecified"

(* A value of several parts is shown with all of them as reported if all   *)
(* of them were, and not at all otherwise.                                 *)
WholeOrNothing(light, k, report, path, parts) ==
    LET reported == report[path[1]][path[2]]
    IN  /\ Set(light, k) = (Reaches(report, path[1], path[2])
                              /\ parts \subseteq DOMAIN reported)
        /\ Set(light, k) => /\ DOMAIN light[k] = parts
                            /\ \A p \in parts : light[k][p] = reported[p]

TellsOf(light, report) ==
    /\ light.id = report.id
    /\ light.name = NameIn(report)
    /\ light.archetype = ArchetypeIn(report)
    /\ light.on = (Set(report, "on") /\ report.on.on)
    /\ \A k \in DOMAIN GetPath :
          LET path == GetPath[k]
          IN  /\ Set(light, k) = Reaches(report, path[1], path[2])
              /\ Set(light, k) => light[k] = report[path[1]][path[2]]
    /\ WholeOrNothing(light, "mirekSchema", report,
                      <<"colorTemperature", "mirekSchema">>,
                      {"mirekMinimum", "mirekMaximum"})
    /\ WholeOrNothing(light, "colorGamut", report, <<"color", "gamut">>,
                      {"red", "green", "blue"})
    /\ \A c \in DOMAIN light.capabilities :
          light.capabilities[c] = Set(report, c)

(* A person is shown every light the Bridge reported, with each value it   *)
(* reported and none it did not, also by a Gateway newer than this build:  *)
(* half a range or a corner of a triangle is none, and an archetype these  *)
(* bindings cannot name is unspecified.                                    *)
ShownAsReported ==
    Got =>
        /\ asked.route = "list" =>
              /\ Len(shown.value) = Len(meant.lights)
              /\ \A i \in DOMAIN shown.value :
                    TellsOf(shown.value[i], meant.lights[i])
        /\ asked.route = "get" => TellsOf(shown.value, meant)

(* No change of a Resource that has a name goes unsaid, an addition is     *)
(* never taken for anything else nor a removal, and a Gap stays a Gap.     *)
NoticeAsReported ==
    Got /\ asked.route = "subscribe" =>
        LET notice == shown.value
            named == Set(meant, "change") /\ Set(meant.change, "resource")
        IN  /\ (notice.kind = "invalidation") = named
            /\ (notice.kind = "gap") = Set(meant, "gap")
            /\ named =>
                  /\ notice.resource.rid = meant.change.resource.rid
                  /\ (notice.resource.rtype = "RTYPE_LIGHT")
                        = (<<meant.change.resource.rtype>> = LightOnly)
                  /\ (notice.change = "added") = (meant.change.type = 1)
                  /\ (notice.change = "removed") = (meant.change.type = 2)

(* The words that say that nothing was changed. *)
DenyingWords ==
    {"BRIDGE_REJECTED_COMMAND", "INVALID_REQUEST",
     "COLOR_AND_TEMPERATURE_BOTH_SET", "BRIDGE_TIMEOUT"}

(* A person told that a Command came to nothing is told the truth, and     *)
(* goes on being: the Bridge neither had acted nor does later.  A success  *)
(* was one.  And of a Command that was applied nobody is told of a plain   *)
(* failure but when a connection broke or the Gateway failed itself: a     *)
(* deadline is "couldn't confirm".                                         *)
ToldTrue ==
    shown # None /\ asked.route = "patch" =>
        LET words == MessageOf(shown)
        IN  /\ words \in DenyingWords => ~applied
            /\ Got /\ shown.value.outcome \in {"success", "partial"} => applied
            /\ /\ reply.kind = "status" /\ reply.name = "DEADLINE_EXCEEDED"
               /\ broke = "nothing"
               => words = CouldNotConfirm

(* A person whose read failed is told which tier is down: the Console API, *)
(* the Gateway behind it, or the Bridge.  Of none of the three is a        *)
(* failure anyone else answered for: a proxy's page in place of the        *)
(* Console API's JSON names no tier.                                       *)
OutageNamesTheTier ==
    shown.kind \in {"ApiError", "TypeError"} /\ Call(asked) = "read" =>
        classifyOutage(shown) =
            CASE broke = "http" -> "console_api_unreachable"
              [] broke = "channel" -> "gateway_unreachable"
              [] broke = "bridge" -> "bridge_unreachable"
              [] broke \in {"proxy", "nothing"} -> "other"
=============================================================================
