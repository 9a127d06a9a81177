------------------------------ MODULE Bindings ------------------------------
(***************************************************************************)
(* The generated bindings (apps/console-api/src/gen): every message a call *)
(* of the two services can carry, as the table of its fields, and every    *)
(* enumeration they use.  What ts-proto writes out for each message (its   *)
(* createBase, encode, decode, fromJSON and toJSON) follows one rule per   *)
(* field; the rule is in the table, and what it does is in Wire.           *)
(*                                                                         *)
(* Left out: google.protobuf.Struct and what it is made of, and hue.v1's   *)
(* Event, which no call of either service carries.                         *)
(***************************************************************************)
EXTENDS Integers, Sequences

Field(n, name, type, rule) ==
    [number |-> n, name |-> name, type |-> type, rule |-> rule, group |-> ""]

(* Implicit presence: unset is the type's zero, and zero is not written. *)
One(n, name, type) == Field(n, name, type, "one")

(* Explicit presence: undefined is unset, and zero is written. *)
Maybe(n, name, type) == Field(n, name, type, "maybe")

(* Repeated, an entry on the wire for each. *)
Many(n, name, type) == Field(n, name, type, "many")

(* Repeated, and packed into one entry, which is written even if empty. *)
Packed(n, name, type) == Field(n, name, type, "packed")

(* A member of a oneof. *)
Case(n, group, name, type) ==
    [Field(n, name, type, "case") EXCEPT !.group = group]

-----------------------------------------------------------------------------
(* Enumerations, from 0 on. *)

LightArchetype ==
  <<"LIGHT_ARCHETYPE_UNSPECIFIED", "LIGHT_ARCHETYPE_UNKNOWN_ARCHETYPE",
    "LIGHT_ARCHETYPE_CLASSIC_BULB", "LIGHT_ARCHETYPE_SULTAN_BULB",
    "LIGHT_ARCHETYPE_FLOOD_BULB", "LIGHT_ARCHETYPE_SPOT_BULB",
    "LIGHT_ARCHETYPE_CANDLE_BULB", "LIGHT_ARCHETYPE_LUSTER_BULB",
    "LIGHT_ARCHETYPE_PENDANT_ROUND", "LIGHT_ARCHETYPE_PENDANT_LONG",
    "LIGHT_ARCHETYPE_CEILING_ROUND", "LIGHT_ARCHETYPE_CEILING_SQUARE",
    "LIGHT_ARCHETYPE_FLOOR_SHADE", "LIGHT_ARCHETYPE_FLOOR_LANTERN",
    "LIGHT_ARCHETYPE_TABLE_SHADE", "LIGHT_ARCHETYPE_RECESSED_CEILING",
    "LIGHT_ARCHETYPE_RECESSED_FLOOR", "LIGHT_ARCHETYPE_SINGLE_SPOT",
    "LIGHT_ARCHETYPE_DOUBLE_SPOT", "LIGHT_ARCHETYPE_TABLE_WASH",
    "LIGHT_ARCHETYPE_WALL_LANTERN", "LIGHT_ARCHETYPE_WALL_SHADE",
    "LIGHT_ARCHETYPE_FLEXIBLE_LAMP", "LIGHT_ARCHETYPE_GROUND_SPOT",
    "LIGHT_ARCHETYPE_WALL_SPOT", "LIGHT_ARCHETYPE_PLUG",
    "LIGHT_ARCHETYPE_HUE_GO", "LIGHT_ARCHETYPE_HUE_LIGHTSTRIP",
    "LIGHT_ARCHETYPE_HUE_IRIS", "LIGHT_ARCHETYPE_HUE_BLOOM",
    "LIGHT_ARCHETYPE_BOLLARD", "LIGHT_ARCHETYPE_WALL_WASHER",
    "LIGHT_ARCHETYPE_HUE_PLAY", "LIGHT_ARCHETYPE_VINTAGE_BULB",
    "LIGHT_ARCHETYPE_VINTAGE_CANDLE_BULB", "LIGHT_ARCHETYPE_ELLIPSE_BULB",
    "LIGHT_ARCHETYPE_TRIANGLE_BULB", "LIGHT_ARCHETYPE_SMALL_GLOBE_BULB",
    "LIGHT_ARCHETYPE_LARGE_GLOBE_BULB", "LIGHT_ARCHETYPE_EDISON_BULB",
    "LIGHT_ARCHETYPE_CHRISTMAS_TREE", "LIGHT_ARCHETYPE_STRING_LIGHT",
    "LIGHT_ARCHETYPE_HUE_CENTRIS", "LIGHT_ARCHETYPE_HUE_LIGHTSTRIP_TV",
    "LIGHT_ARCHETYPE_HUE_LIGHTSTRIP_PC", "LIGHT_ARCHETYPE_HUE_TUBE",
    "LIGHT_ARCHETYPE_HUE_SIGNE", "LIGHT_ARCHETYPE_PENDANT_SPOT",
    "LIGHT_ARCHETYPE_CEILING_HORIZONTAL", "LIGHT_ARCHETYPE_CEILING_TUBE">>

SupportedDynamicStatus ==
  <<"SUPPORTED_DYNAMIC_STATUS_UNSPECIFIED",
    "SUPPORTED_DYNAMIC_STATUS_DYNAMIC_PALETTE", "SUPPORTED_DYNAMIC_STATUS_NONE">>

SupportedEffects ==
  <<"SUPPORTED_EFFECTS_UNSPECIFIED", "SUPPORTED_EFFECTS_PRISM",
    "SUPPORTED_EFFECTS_OPAL", "SUPPORTED_EFFECTS_GLISTEN",
    "SUPPORTED_EFFECTS_SPARKLE", "SUPPORTED_EFFECTS_FIRE",
    "SUPPORTED_EFFECTS_CANDLE", "SUPPORTED_EFFECTS_NO_EFFECT",
    "SUPPORTED_EFFECTS_UNDERWATER", "SUPPORTED_EFFECTS_COSMOS",
    "SUPPORTED_EFFECTS_SUNBEAM", "SUPPORTED_EFFECTS_ENCHANT">>

SupportedGradientMode ==
  <<"SUPPORTED_GRADIENT_MODE_UNSPECIFIED",
    "SUPPORTED_GRADIENT_MODE_INTERPOLATED_PALETTE",
    "SUPPORTED_GRADIENT_MODE_INTERPOLATED_PALETTE_MIRRORED",
    "SUPPORTED_GRADIENT_MODE_RANDOM_PIXELATED">>

SupportedSignals ==
  <<"SUPPORTED_SIGNALS_UNSPECIFIED", "SUPPORTED_SIGNALS_NO_SIGNAL",
    "SUPPORTED_SIGNALS_ON_OFF", "SUPPORTED_SIGNALS_ON_OFF_COLOR",
    "SUPPORTED_SIGNALS_ALTERNATING">>

SupportedTimedEffects ==
  <<"SUPPORTED_TIMED_EFFECTS_UNSPECIFIED", "SUPPORTED_TIMED_EFFECTS_SUNRISE",
    "SUPPORTED_TIMED_EFFECTS_SUNSET", "SUPPORTED_TIMED_EFFECTS_NO_EFFECT">>

ColorTemperatureDelta_Action ==
  <<"ACTION_UNSPECIFIED", "ACTION_UP", "ACTION_DOWN", "ACTION_STOP">>

DimmingDelta_Action ==
  <<"ACTION_UNSPECIFIED", "ACTION_UP", "ACTION_DOWN", "ACTION_STOP">>

Powerup_Preset ==
  <<"PRESET_UNSPECIFIED", "PRESET_SAFETY", "PRESET_POWERFAIL",
    "PRESET_LAST_ON_STATE", "PRESET_CUSTOM">>

Powerup_On_Mode ==
  <<"MODE_UNSPECIFIED", "MODE_ON", "MODE_TOGGLE", "MODE_PREVIOUS">>

Powerup_Dimming_Mode ==
  <<"MODE_UNSPECIFIED", "MODE_DIMMING", "MODE_PREVIOUS">>

Powerup_Dimming_Color_Mode ==
  <<"MODE_UNSPECIFIED", "MODE_COLOR_TEMPERATURE", "MODE_COLOR", "MODE_PREVIOUS">>

ResourceIdentifier_Rtype ==
  <<"RTYPE_UNSPECIFIED", "RTYPE_DEVICE", "RTYPE_BRIDGE_HOME", "RTYPE_ROOM",
    "RTYPE_ZONE", "RTYPE_LIGHT", "RTYPE_BUTTON", "RTYPE_RELATIVE_ROTARY",
    "RTYPE_TEMPERATURE", "RTYPE_LIGHT_LEVEL", "RTYPE_MOTION",
    "RTYPE_CAMERA_MOTION", "RTYPE_ENTERTAINMENT", "RTYPE_CONTACT",
    "RTYPE_TAMPER", "RTYPE_GROUPED_LIGHT", "RTYPE_DEVICE_POWER",
    "RTYPE_ZIGBEE_BRIDGE_CONNECTIVITY", "RTYPE_ZIGBEE_CONNECTIVITY",
    "RTYPE_ZGP_CONNECTIVITY", "RTYPE_BRIDGE", "RTYPE_ZIGBEE_DEVICE_DISCOVERY",
    "RTYPE_HOMEKIT", "RTYPE_MATTER", "RTYPE_MATTER_FABRIC", "RTYPE_SCENE",
    "RTYPE_ENTERTAINMENT_CONFIGURATION", "RTYPE_PUBLIC_IMAGE", "RTYPE_AUTH_V1",
    "RTYPE_BEHAVIOR_SCRIPT", "RTYPE_BEHAVIOR_INSTANCE", "RTYPE_GEOFENCE",
    "RTYPE_GEOFENCE_CLIENT", "RTYPE_GEOLOCATION", "RTYPE_SMART_SCENE",
    "RTYPE_GROUPED_MOTION", "RTYPE_GROUPED_LIGHT_LEVEL">>

Signaling_Signal ==
  <<"SIGNAL_UNSPECIFIED", "SIGNAL_NO_SIGNAL", "SIGNAL_ON_OFF",
    "SIGNAL_ON_OFF_COLOR", "SIGNAL_ALTERNATING">>

Event_Type ==
  <<"TYPE_UNSPECIFIED", "TYPE_ADD", "TYPE_DELETE", "TYPE_ERROR", "TYPE_UPDATE">>

LightGet_Mode ==
  <<"MODE_UNSPECIFIED", "MODE_NORMAL", "MODE_STREAMING">>

LightGet_Metadata_Function ==
  <<"FUNCTION_UNSPECIFIED", "FUNCTION_FUNCTIONAL", "FUNCTION_DECORATIVE",
    "FUNCTION_MIXED", "FUNCTION_UNKNOWN">>

LightGet_Color_GamutType ==
  <<"GAMUT_TYPE_UNSPECIFIED", "GAMUT_TYPE_A", "GAMUT_TYPE_B", "GAMUT_TYPE_C",
    "GAMUT_TYPE_OTHER">>

LightGet_Powerup_Preset ==
  <<"PRESET_UNSPECIFIED", "PRESET_SAFETY", "PRESET_POWERFAIL",
    "PRESET_LAST_ON_STATE", "PRESET_CUSTOM">>

LightGet_Powerup_On_Mode ==
  <<"MODE_UNSPECIFIED", "MODE_ON", "MODE_TOGGLE", "MODE_PREVIOUS">>

LightGet_Powerup_Dimming_Mode ==
  <<"MODE_UNSPECIFIED", "MODE_DIMMING", "MODE_PREVIOUS">>

LightGet_Powerup_Dimming_Color_Mode ==
  <<"MODE_UNSPECIFIED", "MODE_COLOR_TEMPERATURE", "MODE_COLOR", "MODE_PREVIOUS">>

LightGet_ProductData_Function ==
  <<"FUNCTION_UNSPECIFIED", "FUNCTION_FUNCTIONAL", "FUNCTION_DECORATIVE",
    "FUNCTION_MIXED", "FUNCTION_UNKNOWN">>

LightPut_Mode ==
  <<"MODE_UNSPECIFIED", "MODE_NORMAL", "MODE_STREAMING">>

Gap_Cause ==
  <<"CAUSE_UNSPECIFIED", "CAUSE_RECONNECTED", "CAUSE_SUBSCRIBER_BEHIND">>

Enumerations ==
  [LightArchetype |-> LightArchetype,
   SupportedDynamicStatus |-> SupportedDynamicStatus,
   SupportedEffects |-> SupportedEffects,
   SupportedGradientMode |-> SupportedGradientMode,
   SupportedSignals |-> SupportedSignals,
   SupportedTimedEffects |-> SupportedTimedEffects,
   ColorTemperatureDelta_Action |-> ColorTemperatureDelta_Action,
   DimmingDelta_Action |-> DimmingDelta_Action,
   Powerup_Preset |-> Powerup_Preset, Powerup_On_Mode |-> Powerup_On_Mode,
   Powerup_Dimming_Mode |-> Powerup_Dimming_Mode,
   Powerup_Dimming_Color_Mode |-> Powerup_Dimming_Color_Mode,
   ResourceIdentifier_Rtype |-> ResourceIdentifier_Rtype,
   Signaling_Signal |-> Signaling_Signal, Event_Type |-> Event_Type,
   LightGet_Mode |-> LightGet_Mode,
   LightGet_Metadata_Function |-> LightGet_Metadata_Function,
   LightGet_Color_GamutType |-> LightGet_Color_GamutType,
   LightGet_Powerup_Preset |-> LightGet_Powerup_Preset,
   LightGet_Powerup_On_Mode |-> LightGet_Powerup_On_Mode,
   LightGet_Powerup_Dimming_Mode |-> LightGet_Powerup_Dimming_Mode,
   LightGet_Powerup_Dimming_Color_Mode |-> LightGet_Powerup_Dimming_Color_Mode,
   LightGet_ProductData_Function |-> LightGet_ProductData_Function,
   LightPut_Mode |-> LightPut_Mode, Gap_Cause |-> Gap_Cause]

-----------------------------------------------------------------------------
(* Messages, their fields in the order they are written. *)

Timestamp == <<One(1, "seconds", "int64"), One(2, "nanos", "int32")>>

Alert == <<Maybe(1, "action", "string")>>

Color == <<Maybe(1, "xy", "GamutPosition")>>

ColorTemperature == <<Maybe(1, "mirek", "int32")>>

ColorTemperatureDelta ==
  <<Maybe(1, "action", "ColorTemperatureDelta_Action"),
    Maybe(2, "mirekDelta", "int32")>>

Dimming == <<One(1, "brightness", "double")>>

DimmingDelta ==
  <<Maybe(1, "action", "DimmingDelta_Action"),
    Maybe(2, "brightnessDelta", "double")>>

Effects == <<Maybe(1, "effect", "SupportedEffects")>>

EffectsV2 ==
  <<Maybe(1, "action", "EffectsV2_Action"),
    Maybe(2, "status", "EffectsV2_Status")>>

EffectsV2_Action ==
  <<Maybe(1, "effect", "SupportedEffects"),
    Maybe(2, "parameters", "EffectsV2Parameters")>>

EffectsV2_Status ==
  <<Maybe(1, "effect", "SupportedEffects"),
    Packed(2, "effectValues", "SupportedEffects"),
    Maybe(3, "parameters", "EffectsV2Parameters")>>

EffectsV2Parameters ==
  <<Maybe(1, "color", "Color"),
    Maybe(2, "colorTemperature", "EffectsV2Parameters_ColorTemperature"),
    Maybe(3, "speed", "double")>>

EffectsV2Parameters_ColorTemperature ==
  <<Maybe(1, "mirek", "int32"), Maybe(2, "mirekValid", "bool")>>

Error == <<One(1, "description", "string")>>

GamutPosition == <<One(1, "x", "double"), One(2, "y", "double")>>

Gradient ==
  <<Many(1, "points", "Color"), Maybe(2, "mode", "SupportedGradientMode")>>

LightDynamics ==
  <<Maybe(1, "duration", "int32"), Maybe(2, "speed", "double")>>

On == <<One(1, "on", "bool")>>

Powerup ==
  <<Maybe(1, "preset", "Powerup_Preset"), Maybe(2, "configured", "bool"),
    Maybe(3, "on", "Powerup_On"), Maybe(4, "dimming", "Powerup_Dimming")>>

Powerup_On == <<Maybe(1, "mode", "Powerup_On_Mode"), Maybe(2, "on", "On")>>

Powerup_Dimming ==
  <<Maybe(1, "mode", "Powerup_Dimming_Mode"), Maybe(2, "dimming", "double"),
    Maybe(3, "color", "Powerup_Dimming_Color")>>

Powerup_Dimming_Color ==
  <<Maybe(1, "mode", "Powerup_Dimming_Color_Mode"),
    Maybe(2, "colorTemperature", "Powerup_Dimming_Color_ColorTemperature")>>

Powerup_Dimming_Color_ColorTemperature ==
  <<Maybe(1, "mirek", "int32"), Maybe(2, "color", "Color")>>

ResourceIdentifier ==
  <<One(1, "rid", "string"), One(2, "rtype", "ResourceIdentifier_Rtype")>>

Signaling ==
  <<Maybe(1, "signal", "Signaling_Signal"), Maybe(2, "duration", "int32"),
    Many(3, "color", "Color")>>

LightGet ==
  <<One(1, "type", "string"), One(2, "id", "string"),
    Maybe(3, "idV1", "string"), Maybe(4, "owner", "ResourceIdentifier"),
    Maybe(5, "metadata", "LightGet_Metadata"),
    Maybe(6, "identify", "LightGet_Identify"), One(7, "serviceId", "int32"),
    Maybe(8, "on", "On"), Maybe(9, "dimming", "LightGet_Dimming"),
    Maybe(10, "colorTemperature", "LightGet_ColorTemperature"),
    Maybe(11, "color", "LightGet_Color"),
    Maybe(12, "dynamics", "LightGet_Dynamics"),
    Maybe(13, "alert", "LightGet_Alert"),
    Maybe(14, "signaling", "LightGet_Signaling"),
    One(15, "mode", "LightGet_Mode"),
    Maybe(16, "gradient", "LightGet_Gradient"),
    Maybe(17, "effects", "LightGet_Effects"),
    Maybe(18, "effectsV2", "EffectsV2"),
    Maybe(19, "timedEffects", "LightGet_TimedEffects"),
    Maybe(20, "powerup", "LightGet_Powerup"),
    Maybe(21, "productData", "LightGet_ProductData"),
    Maybe(22, "geometry", "LightGet_Geometry")>>

LightGet_Metadata ==
  <<One(1, "name", "string"), One(2, "archetype", "LightArchetype"),
    One(3, "function", "LightGet_Metadata_Function"),
    Maybe(4, "fixedMired", "int32")>>

LightGet_Identify == <<>>

LightGet_Dimming ==
  <<Maybe(1, "brightness", "double"), Maybe(2, "minDimLevel", "double")>>

LightGet_ColorTemperature ==
  <<Maybe(1, "mirek", "int32"), Maybe(2, "mirekValid", "bool"),
    Maybe(3, "mirekSchema", "LightGet_ColorTemperature_MirekSchema")>>

LightGet_ColorTemperature_MirekSchema ==
  <<Maybe(1, "mirekMinimum", "int32"), Maybe(2, "mirekMaximum", "int32")>>

LightGet_Color ==
  <<Maybe(1, "xy", "GamutPosition"), Maybe(2, "gamut", "LightGet_Color_Gamut"),
    Maybe(3, "gamutType", "LightGet_Color_GamutType")>>

LightGet_Color_Gamut ==
  <<Maybe(1, "red", "GamutPosition"), Maybe(2, "green", "GamutPosition"),
    Maybe(3, "blue", "GamutPosition")>>

LightGet_Dynamics ==
  <<Maybe(1, "status", "SupportedDynamicStatus"),
    Packed(2, "statusValues", "SupportedDynamicStatus"),
    Maybe(3, "speed", "double"), Maybe(4, "speedValid", "bool")>>

LightGet_Alert == <<Many(1, "actionValues", "string")>>

LightGet_Signaling ==
  <<Packed(1, "signalValues", "SupportedSignals"),
    Maybe(2, "estimatedEnd", "int32"), Many(3, "colors", "Color")>>

LightGet_Gradient ==
  <<Many(1, "points", "Color"), Maybe(2, "mode", "SupportedGradientMode"),
    Maybe(3, "pointsCapable", "int32"),
    Packed(4, "modeValues", "SupportedGradientMode"),
    Maybe(5, "pixelCount", "int32")>>

LightGet_Effects ==
  <<Maybe(1, "status", "SupportedEffects"),
    Packed(2, "statusValues", "SupportedEffects"),
    Maybe(3, "effect", "SupportedEffects"),
    Packed(4, "effectValues", "SupportedEffects")>>

LightGet_TimedEffects ==
  <<Maybe(1, "effect", "SupportedTimedEffects"),
    Packed(2, "effectValues", "SupportedTimedEffects"),
    Maybe(3, "status", "SupportedTimedEffects"),
    Packed(4, "statusValues", "SupportedTimedEffects"),
    Maybe(5, "duration", "int32")>>

LightGet_Powerup ==
  <<Maybe(1, "preset", "LightGet_Powerup_Preset"),
    Maybe(2, "configured", "bool"), Maybe(3, "on", "LightGet_Powerup_On"),
    Maybe(4, "dimming", "LightGet_Powerup_Dimming")>>

LightGet_Powerup_On ==
  <<Maybe(1, "mode", "LightGet_Powerup_On_Mode"), Maybe(2, "on", "On")>>

LightGet_Powerup_Dimming ==
  <<Maybe(1, "mode", "LightGet_Powerup_Dimming_Mode"),
    Maybe(2, "dimming", "Dimming"),
    Maybe(3, "color", "LightGet_Powerup_Dimming_Color")>>

LightGet_Powerup_Dimming_Color ==
  <<Maybe(1, "mode", "LightGet_Powerup_Dimming_Color_Mode"),
    Maybe(2, "colorTemperature", "LightGet_Powerup_Dimming_Color_ColorTemperature")>>

LightGet_Powerup_Dimming_Color_ColorTemperature ==
  <<Maybe(1, "mirek", "int32"), Maybe(2, "color", "Color")>>

LightGet_ProductData ==
  <<Maybe(1, "function", "LightGet_ProductData_Function")>>

LightGet_Geometry ==
  <<Many(1, "pixelPositions", "LightGet_Geometry_PixelPositions")>>

LightGet_Geometry_PixelPositions ==
  <<Maybe(1, "x", "double"), Maybe(2, "y", "double"), Maybe(3, "z", "double")>>

LightPut ==
  <<Maybe(1, "type", "string"), Maybe(2, "on", "On"),
    Maybe(3, "dimming", "Dimming"), Maybe(4, "dimmingDelta", "DimmingDelta"),
    Maybe(6, "colorTemperatureDelta", "ColorTemperatureDelta"),
    Maybe(8, "dynamics", "LightDynamics"), Maybe(9, "alert", "Alert"),
    Maybe(10, "signaling", "Signaling"), Maybe(11, "mode", "LightPut_Mode"),
    Maybe(12, "gradient", "Gradient"), Maybe(13, "effects", "Effects"),
    Maybe(14, "effectsV2", "EffectsV2"),
    Maybe(15, "timedEffects", "LightPut_TimedEffects"),
    Maybe(16, "powerup", "Powerup"), Case(7, "colour", "color", "Color"),
    Case(5, "colour", "colorTemperature", "ColorTemperature")>>

LightPut_TimedEffects ==
  <<Maybe(1, "effect", "SupportedTimedEffects"), Maybe(2, "duration", "int32")>>

ListLightsRequest == <<>>

ListLightsResponse == <<Many(1, "lights", "LightGet")>>

GetLightRequest == <<One(1, "lightId", "string")>>

UpdateLightRequest ==
  <<One(1, "lightId", "string"), Maybe(2, "command", "LightPut")>>

MutationResponse ==
  <<Many(1, "updated", "ResourceIdentifier"), Many(2, "errors", "Error")>>

SubscribeRequest ==
  <<Many(1, "resourceIds", "string"),
    Packed(2, "resourceTypes", "ResourceIdentifier_Rtype")>>

HueEvent ==
  <<One(1, "bridgeId", "string"), Maybe(2, "gatewayTime", "Timestamp"),
    Case(3, "happened", "change", "ResourceChange"),
    Case(4, "happened", "gap", "Gap")>>

ResourceChange ==
  <<One(1, "eventId", "string"), One(2, "type", "Event_Type"),
    Maybe(3, "resource", "ResourceIdentifier"),
    Maybe(4, "bridgeTime", "Timestamp"), Case(5, "update", "light", "LightGet")>>

Gap == <<One(1, "cause", "Gap_Cause"), One(2, "missed", "uint32")>>

Messages ==
  [Timestamp |-> Timestamp, Alert |-> Alert, Color |-> Color,
   ColorTemperature |-> ColorTemperature,
   ColorTemperatureDelta |-> ColorTemperatureDelta, Dimming |-> Dimming,
   DimmingDelta |-> DimmingDelta, Effects |-> Effects, EffectsV2 |-> EffectsV2,
   EffectsV2_Action |-> EffectsV2_Action,
   EffectsV2_Status |-> EffectsV2_Status,
   EffectsV2Parameters |-> EffectsV2Parameters,
   EffectsV2Parameters_ColorTemperature |-> EffectsV2Parameters_ColorTemperature,
   Error |-> Error, GamutPosition |-> GamutPosition, Gradient |-> Gradient,
   LightDynamics |-> LightDynamics, On |-> On, Powerup |-> Powerup,
   Powerup_On |-> Powerup_On, Powerup_Dimming |-> Powerup_Dimming,
   Powerup_Dimming_Color |-> Powerup_Dimming_Color,
   Powerup_Dimming_Color_ColorTemperature |-> Powerup_Dimming_Color_ColorTemperature,
   ResourceIdentifier |-> ResourceIdentifier, Signaling |-> Signaling,
   LightGet |-> LightGet, LightGet_Metadata |-> LightGet_Metadata,
   LightGet_Identify |-> LightGet_Identify,
   LightGet_Dimming |-> LightGet_Dimming,
   LightGet_ColorTemperature |-> LightGet_ColorTemperature,
   LightGet_ColorTemperature_MirekSchema |-> LightGet_ColorTemperature_MirekSchema,
   LightGet_Color |-> LightGet_Color,
   LightGet_Color_Gamut |-> LightGet_Color_Gamut,
   LightGet_Dynamics |-> LightGet_Dynamics, LightGet_Alert |-> LightGet_Alert,
   LightGet_Signaling |-> LightGet_Signaling,
   LightGet_Gradient |-> LightGet_Gradient,
   LightGet_Effects |-> LightGet_Effects,
   LightGet_TimedEffects |-> LightGet_TimedEffects,
   LightGet_Powerup |-> LightGet_Powerup,
   LightGet_Powerup_On |-> LightGet_Powerup_On,
   LightGet_Powerup_Dimming |-> LightGet_Powerup_Dimming,
   LightGet_Powerup_Dimming_Color |-> LightGet_Powerup_Dimming_Color,
   LightGet_Powerup_Dimming_Color_ColorTemperature |-> LightGet_Powerup_Dimming_Color_ColorTemperature,
   LightGet_ProductData |-> LightGet_ProductData,
   LightGet_Geometry |-> LightGet_Geometry,
   LightGet_Geometry_PixelPositions |-> LightGet_Geometry_PixelPositions,
   LightPut |-> LightPut, LightPut_TimedEffects |-> LightPut_TimedEffects,
   ListLightsRequest |-> ListLightsRequest,
   ListLightsResponse |-> ListLightsResponse,
   GetLightRequest |-> GetLightRequest,
   UpdateLightRequest |-> UpdateLightRequest,
   MutationResponse |-> MutationResponse,
   SubscribeRequest |-> SubscribeRequest, HueEvent |-> HueEvent,
   ResourceChange |-> ResourceChange, Gap |-> Gap]

-----------------------------------------------------------------------------
(* Presence, and enumerations by name *)

(* A field of a message that is undefined is not in its DOMAIN. *)
Set(m, name) == name \in DOMAIN m

Unrecognized == "UNRECOGNIZED"

(* An enumeration's `...ToJSON`. *)
EnumToJSON(enum, number) ==
    IF number + 1 \in DOMAIN Enumerations[enum]
    THEN Enumerations[enum][number + 1] ELSE Unrecognized

(* Its `...FromJSON`, of a name. *)
EnumFromJSON(enum, name) ==
    IF \E i \in DOMAIN Enumerations[enum] : Enumerations[enum][i] = name
    THEN (CHOOSE i \in DOMAIN Enumerations[enum] :
             Enumerations[enum][i] = name) - 1
    ELSE -1
=============================================================================
