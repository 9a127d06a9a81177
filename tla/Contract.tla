------------------------------ MODULE Contract ------------------------------
(***************************************************************************)
(* What the Console API and a browser may say to each other                *)
(* (apps/console-api/src/contract): the Command a body is read as, the     *)
(* codes a failure is reported under, and the shapes of the answers.       *)
(*                                                                         *)
(* JSON that is yet to be read is a record that says of what kind it is;   *)
(* once read it is plain values.  A number is carried in thousandths.  The *)
(* prose of messages and details is left out.                              *)
(***************************************************************************)
EXTENDS Integers, Sequences

Thousand == 1000

Number(n) == [kind |-> "number", n |-> n]
Boolean(b) == [kind |-> "boolean", b |-> b]
Object(of) == [kind |-> "object", of |-> of]
Null == [kind |-> "null"]
Text == [kind |-> "string"]

-----------------------------------------------------------------------------
(* Commands *)

BRIGHTNESS == [minimum |-> 0, maximum |-> 100 * Thousand]
MIREK == [minimum |-> 153 * Thousand, maximum |-> 500 * Thousand]
GAMUT == [minimum |-> 0, maximum |-> 1 * Thousand]

(* Mutant: the ends do not count. *)
StrictlyWithin(range, n) == range.minimum < n /\ n < range.maximum

Within(range, n) == range.minimum <= n /\ n <= range.maximum

Keys == {"on", "brightness", "colorTemperatureMirek", "colorXy"}

(* What a key must be for the schema to go on. *)
WellTyped(key, j) ==
    CASE key = "on" -> j.kind = "boolean"
      [] key = "brightness" -> j.kind = "number"
      [] key = "colorTemperatureMirek" -> j.kind = "number" /\ j.n % Thousand = 0
      [] key = "colorXy" -> /\ j.kind = "object"
                            /\ DOMAIN j.of = {"x", "y"}
                            /\ \A c \in {"x", "y"} : j.of[c].kind = "number"
      [] OTHER -> FALSE

(* What is well typed may still be out of range, which does not stop the   *)
(* schema from looking further.                                            *)
InRange(key, j) ==
    CASE key = "brightness" -> Within(BRIGHTNESS, j.n)
      [] key = "colorTemperatureMirek" -> Within(MIREK, j.n)
      [] key = "colorXy" -> \A c \in {"x", "y"} : Within(GAMUT, j.of[c].n)
      [] OTHER -> TRUE

Plain(j) ==
    CASE j.kind = "boolean" -> j.b
      [] j.kind = "number" -> j.n
      [] j.kind = "object" -> [c \in DOMAIN j.of |-> j.of[c].n]

Refused(code) == [ok |-> FALSE, code |-> code]

(* Mutant: the two colours are one key each, like the others. *)
ReadingWithoutTheColourRule(body) ==
    IF /\ body.kind = "object" /\ body.of # <<>>
       /\ \A k \in DOMAIN body.of :
             k \in Keys /\ WellTyped(k, body.of[k]) /\ InRange(k, body.of[k])
    THEN [ok |-> TRUE, command |-> [k \in DOMAIN body.of |-> Plain(body.of[k])]]
    ELSE Refused("INVALID_REQUEST")

(* `readLightCommand`: the rule about colours is looked at only in a body  *)
(* in which nothing is of the wrong type, null, or unknown.                *)
readLightCommand(body) ==
    LET wellFormed == /\ body.kind = "object"
                      /\ \A k \in DOMAIN body.of :
                            k \in Keys /\ WellTyped(k, body.of[k])
        keys == DOMAIN body.of
    IN  IF ~wellFormed THEN Refused("INVALID_REQUEST")
        ELSE IF {"colorXy", "colorTemperatureMirek"} \subseteq keys
             THEN Refused("COLOR_AND_TEMPERATURE_BOTH_SET")
        ELSE IF keys = {} \/ \E k \in keys : ~InRange(k, body.of[k])
             THEN Refused("INVALID_REQUEST")
        ELSE [ok |-> TRUE, command |-> [k \in keys |-> Plain(body.of[k])]]

-----------------------------------------------------------------------------
(* Failures *)

Failing(httpStatus) == [httpStatus |-> httpStatus, retryAfter |-> FALSE]
Busy(httpStatus) == [httpStatus |-> httpStatus, retryAfter |-> TRUE]

ERRORS ==
    [BRIDGE_REJECTED_COMMAND |-> Failing(400), LIGHT_NOT_FOUND |-> Failing(404),
     GATEWAY_NOT_PAIRED |-> Failing(503), BRIDGE_UNREACHABLE |-> Failing(503),
     BRIDGE_TIMEOUT |-> Failing(504), MUTATION_OUTCOME_UNKNOWN |-> Failing(504),
     BRIDGE_BUSY |-> Busy(503), BRIDGE_UNSUPPORTED |-> Failing(501),
     GATEWAY_MISCONFIGURED |-> Failing(500), GATEWAY_ERROR |-> Failing(502),
     GATEWAY_UNREACHABLE |-> Failing(503), NOT_AUTHENTICATED |-> Failing(401),
     CSRF_REJECTED |-> Failing(403), TOO_MANY_REQUESTS |-> Busy(429),
     INVALID_REQUEST |-> Failing(400),
     COLOR_AND_TEMPERATURE_BOTH_SET |-> Failing(400)]

(* DEADLINE_EXCEEDED is the one that depends on what was asked. *)
BY_FAILURE ==
    [INVALID_ARGUMENT |-> "BRIDGE_REJECTED_COMMAND", NOT_FOUND |-> "LIGHT_NOT_FOUND",
     FAILED_PRECONDITION |-> "GATEWAY_NOT_PAIRED",
     UNAVAILABLE |-> "BRIDGE_UNREACHABLE", RESOURCE_EXHAUSTED |-> "BRIDGE_BUSY",
     UNIMPLEMENTED |-> "BRIDGE_UNSUPPORTED",
     UNAUTHENTICATED |-> "GATEWAY_MISCONFIGURED", INTERNAL |-> "GATEWAY_ERROR",
     CHANNEL_DOWN |-> "GATEWAY_UNREACHABLE"]

(* Mutant: a deadline is a deadline. *)
OneCodeForADeadline(failure, call) ==
    IF failure = "DEADLINE_EXCEEDED" THEN "BRIDGE_TIMEOUT"
    ELSE IF failure \in DOMAIN BY_FAILURE THEN BY_FAILURE[failure]
    ELSE "GATEWAY_ERROR"

(* The code a failure of a read or of an update is reported under. *)
errorCodeForGatewayFailure(failure, call) ==
    IF failure = "DEADLINE_EXCEEDED"
    THEN IF call = "read" THEN "BRIDGE_TIMEOUT" ELSE "MUTATION_OUTCOME_UNKNOWN"
    ELSE IF failure \in DOMAIN BY_FAILURE THEN BY_FAILURE[failure]
    ELSE "GATEWAY_ERROR"

-----------------------------------------------------------------------------
(* Answers *)

(* Hue's names of archetypes, in the order of the bindings' enumeration. *)
LIGHT_ARCHETYPES ==
    <<"unspecified", "unknown_archetype", "classic_bulb", "sultan_bulb",
      "flood_bulb", "spot_bulb", "candle_bulb", "luster_bulb", "pendant_round",
      "pendant_long", "ceiling_round", "ceiling_square", "floor_shade",
      "floor_lantern", "table_shade", "recessed_ceiling", "recessed_floor",
      "single_spot", "double_spot", "table_wash", "wall_lantern", "wall_shade",
      "flexible_lamp", "ground_spot", "wall_spot", "plug", "hue_go",
      "hue_lightstrip", "hue_iris", "hue_bloom", "bollard", "wall_washer",
      "hue_play", "vintage_bulb", "vintage_candle_bulb", "ellipse_bulb",
      "triangle_bulb", "small_globe_bulb", "large_globe_bulb", "edison_bulb",
      "christmas_tree", "string_light", "hue_centris", "hue_lightstrip_tv",
      "hue_lightstrip_pc", "hue_tube", "hue_signe", "pendant_spot",
      "ceiling_horizontal", "ceiling_tube">>

OUTCOMES == {"success", "partial", "rejected", "unknown"}

IsXy(p) == DOMAIN p = {"x", "y"} /\ {p.x, p.y} \subseteq Int

(* `lightSchema`. *)
IsLight(l) ==
    LET required == {"id", "name", "archetype", "on", "capabilities"}
        optional == {"brightness", "minDimLevel", "colorTemperatureMirek",
                     "mirekSchema", "colorXy", "colorGamut"}
        given(k) == k \in DOMAIN l
    IN  /\ required \subseteq DOMAIN l /\ DOMAIN l \subseteq required \cup optional
        /\ l.id # ""
        /\ \E i \in DOMAIN LIGHT_ARCHETYPES : l.archetype = LIGHT_ARCHETYPES[i]
        /\ l.on \in BOOLEAN
        /\ l.capabilities \in
              [{"dimming", "colorTemperature", "color"} -> BOOLEAN]
        /\ given("mirekSchema") =>
              DOMAIN l.mirekSchema = {"mirekMinimum", "mirekMaximum"}
        /\ given("colorXy") => IsXy(l.colorXy)
        /\ given("colorGamut") =>
              /\ DOMAIN l.colorGamut = {"red", "green", "blue"}
              /\ \A c \in DOMAIN l.colorGamut : IsXy(l.colorGamut[c])

(* `resourceIdentifierSchema` and `acknowledgementSchema`. *)
IsResource(r) == DOMAIN r = {"rid", "rtype"} /\ r.rid # "" /\ r.rtype # ""

IsAcknowledgement(a) ==
    /\ DOMAIN a = {"outcome", "updated", "errors"}
    /\ a.outcome \in OUTCOMES
    /\ \A i \in DOMAIN a.updated : IsResource(a.updated[i])

(* `errorEnvelopeSchema`. *)
IsEnvelope(e) == DOMAIN e = {"code"} /\ e.code \in DOMAIN ERRORS
=============================================================================
