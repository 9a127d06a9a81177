-------------------------------- MODULE Codec --------------------------------
(***************************************************************************)
(* Protobuf in, Lights out (apps/console-api/src/gateway/codec.ts): the    *)
(* Light a LightGet is reported as, the LightPut a Command is sent as, the *)
(* Acknowledgement of a MutationResponse, and the Notice an event means.   *)
(* What is undefined is not in a record's DOMAIN, on both sides.           *)
(***************************************************************************)
EXTENDS Bindings, Contract

EmptyRecord == [k \in {} |-> 0]

(* { key: from }, or nothing when there is nothing to take it from. *)
Given(key, present, from) ==
    IF present THEN [k \in {key} |-> from] ELSE EmptyRecord

(* { ...f, ...g }, of objects that share no key. *)
f ++ g ==
    [k \in DOMAIN f \cup DOMAIN g |-> IF k \in DOMAIN f THEN f[k] ELSE g[k]]

(* `a?.b` where it is used for whether it is undefined. *)
Reaches(m, a, b) == Set(m, a) /\ Set(m[a], b)

-----------------------------------------------------------------------------
(* Lights *)

(* Mutant: one end of a range is enough. *)
HalfARange(m) ==
    Given("mirekSchema",
          Set(m, "mirekMinimum") \/ Set(m, "mirekMaximum"),
          [k \in DOMAIN m \cap {"mirekMinimum", "mirekMaximum"} |-> m[k]])

(* The bulb's own range, if both ends of it were reported. *)
mirekRangeFrom(m) ==
    Given("mirekSchema",
          Set(m, "mirekMinimum") /\ Set(m, "mirekMaximum"),
          [mirekMinimum |-> m.mirekMinimum, mirekMaximum |-> m.mirekMaximum])

(* The triangle, if all three corners were. *)
colorGamutFrom(m) ==
    Given("colorGamut", {"red", "green", "blue"} \subseteq DOMAIN m,
          [red |-> m.red, green |-> m.green, blue |-> m.blue])

(* Mutant: an archetype newer than the bindings is Hue's own "unknown". *)
UnknownWhenUnnamed(number) ==
    IF EnumToJSON("LightArchetype", number) = Unrecognized
    THEN "unknown_archetype"
    ELSE LIGHT_ARCHETYPES[number + 1]

(* Hue's name is the enumeration's without its prefix and in small         *)
(* letters; one these bindings cannot name is `unspecified`.               *)
archetypeFrom(number) ==
    IF EnumToJSON("LightArchetype", number) = Unrecognized THEN "unspecified"
    ELSE LIGHT_ARCHETYPES[number + 1]

(* A Capability is the presence of its field, and nothing else. *)
Capabilities(m) ==
    [dimming |-> Set(m, "dimming"),
     colorTemperature |-> Set(m, "colorTemperature"),
     color |-> Set(m, "color")]

lightFrom(m) ==
    [id |-> m.id,
     name |-> IF Set(m, "metadata") THEN m.metadata.name ELSE "",
     archetype |-> IF Set(m, "metadata") THEN archetypeFrom(m.metadata.archetype)
                   ELSE "unspecified",
     on |-> Set(m, "on") /\ m.on.on,
     capabilities |-> Capabilities(m)]
    ++ Given("brightness", Reaches(m, "dimming", "brightness"),
             m.dimming.brightness)
    ++ Given("minDimLevel", Reaches(m, "dimming", "minDimLevel"),
             m.dimming.minDimLevel)
    ++ Given("colorTemperatureMirek", Reaches(m, "colorTemperature", "mirek"),
             m.colorTemperature.mirek)
    ++ Given("colorXy", Reaches(m, "color", "xy"), m.color.xy)
    ++ (IF Reaches(m, "colorTemperature", "mirekSchema")
        THEN mirekRangeFrom(m.colorTemperature.mirekSchema) ELSE EmptyRecord)
    ++ (IF Reaches(m, "color", "gamut")
        THEN colorGamutFrom(m.color.gamut) ELSE EmptyRecord)

-----------------------------------------------------------------------------
(* Commands *)

(* Both colours are members of one oneof, of which the xy goes first. *)
colourFor(asked) ==
    IF Set(asked, "colorXy") THEN [color |-> [xy |-> asked.colorXy]]
    ELSE Given("colorTemperature", Set(asked, "colorTemperatureMirek"),
               [mirek |-> asked.colorTemperatureMirek])

(* The LightPut of a Command: a key it has is a field that is set. *)
commandFor(asked) ==
    Given("on", Set(asked, "on"), [on |-> asked.on])
    ++ Given("dimming", Set(asked, "brightness"),
             [brightness |-> asked.brightness])
    ++ colourFor(asked)

-----------------------------------------------------------------------------
(* Acknowledgements *)

(* What the two arrays came to, by their lengths. *)
outcomeFrom(updated, errors) ==
    IF updated > 0 THEN IF errors > 0 THEN "partial" ELSE "success"
    ELSE IF errors > 0 THEN "rejected" ELSE "unknown"

(* A Resource; its type's name stands for Hue's spelling of it, and one    *)
(* these bindings cannot name is `unspecified`, like one nobody named.     *)
identifierFrom(r) ==
    LET name == EnumToJSON("ResourceIdentifier_Rtype", r.rtype)
    IN  [rid |-> r.rid,
         rtype |-> IF name \in {Unrecognized, "RTYPE_UNSPECIFIED"}
                   THEN "unspecified" ELSE name]

acknowledgementFrom(m) ==
    [outcome |-> outcomeFrom(Len(m.updated), Len(m.errors)),
     updated |-> [i \in DOMAIN m.updated |-> identifierFrom(m.updated[i])],
     errors |-> [i \in DOMAIN m.errors |-> m.errors[i].description]]

-----------------------------------------------------------------------------
(* Notices *)

Nothing == [kind |-> "nothing"]

(* What is neither an addition nor a deletion is a change. *)
changeFrom(type) ==
    CASE EnumToJSON("Event_Type", type) = "TYPE_ADD" -> "added"
      [] EnumToJSON("Event_Type", type) = "TYPE_DELETE" -> "removed"
      [] OTHER -> "changed"

causeFrom(cause) ==
    CASE EnumToJSON("Gap_Cause", cause) = "CAUSE_RECONNECTED" -> "reconnected"
      [] EnumToJSON("Gap_Cause", cause) = "CAUSE_SUBSCRIBER_BEHIND" ->
            "subscriber_behind"
      [] OTHER -> "unspecified"

(* Mutant: only a kind of change these bindings know is passed on. *)
NoticeOfAKnownType(m) ==
    IF Set(m, "change") /\ Set(m.change, "resource")
       /\ m.change.type \in 1..3
    THEN [kind |-> "invalidation", change |-> changeFrom(m.change.type),
          resource |-> identifierFrom(m.change.resource)]
    ELSE IF Set(m, "gap")
    THEN [kind |-> "gap", cause |-> causeFrom(m.gap.cause),
          missed |-> m.gap.missed]
    ELSE Nothing

(* What an event means: nothing, if it is neither a change of a Resource   *)
(* it names nor a Gap.                                                     *)
noticeFrom(m) ==
    IF Set(m, "change") /\ Set(m.change, "resource")
    THEN [kind |-> "invalidation", change |-> changeFrom(m.change.type),
          resource |-> identifierFrom(m.change.resource)]
    ELSE IF Set(m, "gap")
    THEN [kind |-> "gap", cause |-> causeFrom(m.gap.cause),
          missed |-> m.gap.missed]
    ELSE Nothing
=============================================================================
