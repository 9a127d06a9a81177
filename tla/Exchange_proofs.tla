--------------------------- MODULE Exchange_proofs ---------------------------
(***************************************************************************)
(* What an exchange keeps, for every body, report, event and               *)
(* Acknowledgement, and every way it may end; and what the colour          *)
(* temperature's slider does.                                              *)
(*                                                                         *)
(* How the wire is laid out is not reasoned about: WireAssumption says     *)
(* what is used of it, and the run evaluates that for the bindings as they *)
(* are (Wire).  From there on nothing is bounded.                          *)
(*                                                                         *)
(* The values are lemmas on the functions of Codec and Contract, each of   *)
(* which says what the function returns, key by key.  The exchange is an   *)
(* invariant, ExchangeInv, that says of each step of the way what it was   *)
(* made of: the request, the answer as the Gateway meant it, the response, *)
(* what is shown, and the tier it broke at.  A property is then a lemma on *)
(* one state.                                                              *)
(***************************************************************************)
EXTENDS Exchange, Domain, SequenceTheorems, TLAPS

-----------------------------------------------------------------------------
(* Objects that are spread *)

LEMMA SpreadIs ==
    ASSUME NEW f, NEW g
    PROVE  /\ DOMAIN (f ++ g) = DOMAIN f \cup DOMAIN g
           /\ \A k \in DOMAIN f : (f ++ g)[k] = f[k]
           /\ \A k \in DOMAIN g : k \notin DOMAIN f => (f ++ g)[k] = g[k]
BY DEF ++

-----------------------------------------------------------------------------
(* Lights *)

(* The optional values of a Light, and what each comes from. *)
Brightness(m) == Given("brightness", Reaches(m, "dimming", "brightness"),
                       m.dimming.brightness)
MinDimLevel(m) == Given("minDimLevel", Reaches(m, "dimming", "minDimLevel"),
                        m.dimming.minDimLevel)
Mirek(m) == Given("colorTemperatureMirek", Reaches(m, "colorTemperature", "mirek"),
                  m.colorTemperature.mirek)
ColorXy(m) == Given("colorXy", Reaches(m, "color", "xy"), m.color.xy)
MirekSchema(m) ==
    IF Reaches(m, "colorTemperature", "mirekSchema")
    THEN mirekRangeFrom(m.colorTemperature.mirekSchema) ELSE EmptyRecord
ColorGamut(m) ==
    IF Reaches(m, "color", "gamut") THEN colorGamutFrom(m.color.gamut)
    ELSE EmptyRecord

Required == {"id", "name", "archetype", "on", "capabilities"}

LEMMA MirekSchemaIs ==
    ASSUME NEW m
    PROVE  /\ DOMAIN MirekSchema(m) \subseteq {"mirekSchema"}
           /\ "mirekSchema" \in DOMAIN MirekSchema(m) <=>
                 /\ Reaches(m, "colorTemperature", "mirekSchema")
                 /\ {"mirekMinimum", "mirekMaximum"}
                       \subseteq DOMAIN m["colorTemperature"]["mirekSchema"]
           /\ "mirekSchema" \in DOMAIN MirekSchema(m) =>
                 /\ DOMAIN MirekSchema(m)["mirekSchema"] = {"mirekMinimum", "mirekMaximum"}
                 /\ \A p \in {"mirekMinimum", "mirekMaximum"} :
                       MirekSchema(m)["mirekSchema"][p]
                          = m["colorTemperature"]["mirekSchema"][p]
<1>1. CASE ~Reaches(m, "colorTemperature", "mirekSchema")
  BY <1>1 DEF MirekSchema, EmptyRecord
<1>2. CASE Reaches(m, "colorTemperature", "mirekSchema")
  <2> DEFINE s == m.colorTemperature.mirekSchema
             both == Set(s, "mirekMinimum") /\ Set(s, "mirekMaximum")
             range == [mirekMinimum |-> s.mirekMinimum, mirekMaximum |-> s.mirekMaximum]
  <2>1. MirekSchema(m) = Given("mirekSchema", both, range)
    BY <1>2 DEF MirekSchema, mirekRangeFrom
  <2>2. /\ DOMAIN range = {"mirekMinimum", "mirekMaximum"}
        /\ \A p \in {"mirekMinimum", "mirekMaximum"} : range[p] = s[p]
    OBVIOUS
  <2>3. both <=> {"mirekMinimum", "mirekMaximum"} \subseteq DOMAIN s
    BY DEF Set
  <2>4. m["colorTemperature"]["mirekSchema"] = s
    OBVIOUS
  <2> HIDE DEF s, both, range
  <2>5. /\ DOMAIN MirekSchema(m) \subseteq {"mirekSchema"}
        /\ "mirekSchema" \in DOMAIN MirekSchema(m) <=> both
        /\ both => MirekSchema(m)["mirekSchema"] = range
    BY <2>1 DEF Given, EmptyRecord
  <2> QED
    BY <1>2, <2>2, <2>3, <2>4, <2>5
<1> QED
  BY <1>1, <1>2

LEMMA ColorGamutIs ==
    ASSUME NEW m, IsReport(m)
    PROVE  /\ DOMAIN ColorGamut(m) \subseteq {"colorGamut"}
           /\ "colorGamut" \in DOMAIN ColorGamut(m) <=>
                 /\ Reaches(m, "color", "gamut")
                 /\ {"red", "green", "blue"} \subseteq DOMAIN m["color"]["gamut"]
           /\ "colorGamut" \in DOMAIN ColorGamut(m) =>
                 /\ DOMAIN ColorGamut(m)["colorGamut"] = {"red", "green", "blue"}
                 /\ \A c \in {"red", "green", "blue"} :
                       /\ ColorGamut(m)["colorGamut"][c] = m["color"]["gamut"][c]
                       /\ IsXy(ColorGamut(m)["colorGamut"][c])
<1>1. CASE ~Reaches(m, "color", "gamut")
  BY <1>1 DEF ColorGamut, EmptyRecord
<1>2. CASE Reaches(m, "color", "gamut")
  <2> DEFINE g == m.color.gamut
             all == {"red", "green", "blue"} \subseteq DOMAIN g
             three == [red |-> g.red, green |-> g.green, blue |-> g.blue]
  <2>1. ColorGamut(m) = Given("colorGamut", all, three)
    BY <1>2 DEF ColorGamut, colorGamutFrom
  <2>2. \A corner \in DOMAIN g : IsXy(g[corner])
    BY <1>2 DEF IsReport
  <2>4. DOMAIN three = {"red", "green", "blue"}
    OBVIOUS
  <2>5. /\ \A c \in {"red", "green", "blue"} : three[c] = g[c]
        /\ all => \A c \in {"red", "green", "blue"} : IsXy(three[c])
    BY <2>2
  <2>6. m["color"]["gamut"] = g /\ (all <=> {"red", "green", "blue"} \subseteq DOMAIN g)
    OBVIOUS
  <2> HIDE DEF g, all, three
  <2>3. /\ DOMAIN ColorGamut(m) \subseteq {"colorGamut"}
        /\ "colorGamut" \in DOMAIN ColorGamut(m) <=> all
        /\ all => ColorGamut(m)["colorGamut"] = three
    BY <2>1 DEF Given, EmptyRecord
  <2> QED
    BY <1>2, <2>3, <2>4, <2>5, <2>6
<1> QED
  BY <1>1, <1>2

(* An object and what is spread after it, each under its own key. *)
Spread(p0, b, d, t, x, s, g) == p0 ++ b ++ d ++ t ++ x ++ s ++ g

IsSpread(l, p0, b, d, t, x, s, g) ==
    /\ DOMAIN l = Required \cup DOMAIN b \cup DOMAIN d \cup DOMAIN t
                     \cup DOMAIN x \cup DOMAIN s \cup DOMAIN g
    /\ \A k \in Required : l[k] = p0[k]
    /\ \A k \in DOMAIN b : l[k] = b[k]
    /\ \A k \in DOMAIN d : l[k] = d[k]
    /\ \A k \in DOMAIN t : l[k] = t[k]
    /\ \A k \in DOMAIN x : l[k] = x[k]
    /\ \A k \in DOMAIN s : l[k] = s[k]
    /\ \A k \in DOMAIN g : l[k] = g[k]

LEMMA SpreadsAre ==
    ASSUME NEW p0, NEW b, NEW d, NEW t, NEW x, NEW s, NEW g,
           DOMAIN p0 = Required,
           DOMAIN b \subseteq {"brightness"}, DOMAIN d \subseteq {"minDimLevel"},
           DOMAIN t \subseteq {"colorTemperatureMirek"}, DOMAIN x \subseteq {"colorXy"},
           DOMAIN s \subseteq {"mirekSchema"}, DOMAIN g \subseteq {"colorGamut"}
    PROVE  IsSpread(Spread(p0, b, d, t, x, s, g), p0, b, d, t, x, s, g)
<1> DEFINE p1 == p0 ++ b
           p2 == p1 ++ d
           p3 == p2 ++ t
           p4 == p3 ++ x
           p5 == p4 ++ s
           p6 == p5 ++ g
           Is(p, q, r) == /\ DOMAIN p = DOMAIN q \cup DOMAIN r
                          /\ \A k \in DOMAIN q : p[k] = q[k]
                          /\ \A k \in DOMAIN r : k \notin DOMAIN q => p[k] = r[k]
<1>1. \A q, r : Is(q ++ r, q, r)
  BY SpreadIs
<1> HIDE DEF Is
<1>2. Is(p1, p0, b) /\ Is(p2, p1, d) /\ Is(p3, p2, t)
  BY <1>1
<1>3. Is(p4, p3, x) /\ Is(p5, p4, s) /\ Is(p6, p5, g)
  BY <1>1
<1> USE DEF Is
<1> HIDE DEF p1, p2, p3, p4, p5, p6
<1>4. /\ DOMAIN p1 = Required \cup DOMAIN b
      /\ \A k \in Required : p1[k] = p0[k]
      /\ \A k \in DOMAIN b : p1[k] = b[k]
  BY <1>2 DEF Required
<1>5. /\ DOMAIN p2 = DOMAIN p1 \cup DOMAIN d
      /\ \A k \in DOMAIN p1 : p2[k] = p1[k]
      /\ \A k \in DOMAIN d : p2[k] = d[k]
  BY <1>2, <1>4 DEF Required
<1>6. /\ DOMAIN p3 = DOMAIN p2 \cup DOMAIN t
      /\ \A k \in DOMAIN p2 : p3[k] = p2[k]
      /\ \A k \in DOMAIN t : p3[k] = t[k]
  BY <1>2, <1>4, <1>5 DEF Required
<1>7. /\ DOMAIN p4 = DOMAIN p3 \cup DOMAIN x
      /\ \A k \in DOMAIN p3 : p4[k] = p3[k]
      /\ \A k \in DOMAIN x : p4[k] = x[k]
  BY <1>3, <1>4, <1>5, <1>6 DEF Required
<1>8. /\ DOMAIN p5 = DOMAIN p4 \cup DOMAIN s
      /\ \A k \in DOMAIN p4 : p5[k] = p4[k]
      /\ \A k \in DOMAIN s : p5[k] = s[k]
  BY <1>3, <1>4, <1>5, <1>6, <1>7 DEF Required
<1>9. /\ DOMAIN p6 = DOMAIN p5 \cup DOMAIN g
      /\ \A k \in DOMAIN p5 : p6[k] = p5[k]
      /\ \A k \in DOMAIN g : p6[k] = g[k]
  BY <1>3, <1>4, <1>5, <1>6, <1>7, <1>8 DEF Required
<1>10. DOMAIN p6 = Required \cup DOMAIN b \cup DOMAIN d \cup DOMAIN t
                     \cup DOMAIN x \cup DOMAIN s \cup DOMAIN g
  BY <1>4, <1>5, <1>6, <1>7, <1>8, <1>9
<1>11. /\ \A k \in Required : p6[k] = p0[k]
       /\ \A k \in DOMAIN b : p6[k] = b[k]
       /\ \A k \in DOMAIN d : p6[k] = d[k]
       /\ \A k \in DOMAIN t : p6[k] = t[k]
       /\ \A k \in DOMAIN x : p6[k] = x[k]
       /\ \A k \in DOMAIN s : p6[k] = s[k]
       /\ \A k \in DOMAIN g : p6[k] = g[k]
  BY <1>4, <1>5, <1>6, <1>7, <1>8, <1>9
<1> QED
  BY <1>10, <1>11 DEF Spread, IsSpread, p1, p2, p3, p4, p5, p6

(* A Light is what was reported, key by key. *)
Optional(m) ==
    (IF Reaches(m, "dimming", "brightness") THEN {"brightness"} ELSE {})
    \cup (IF Reaches(m, "dimming", "minDimLevel") THEN {"minDimLevel"} ELSE {})
    \cup (IF Reaches(m, "colorTemperature", "mirek")
          THEN {"colorTemperatureMirek"} ELSE {})
    \cup (IF Reaches(m, "color", "xy") THEN {"colorXy"} ELSE {})
    \cup DOMAIN MirekSchema(m) \cup DOMAIN ColorGamut(m)

ArchetypeOf(m) ==
    IF Set(m, "metadata") THEN archetypeFrom(m.metadata.archetype)
    ELSE "unspecified"

IsLightOf(l, m) ==
    /\ DOMAIN l = Required \cup Optional(m)
    /\ l.id = m.id
    /\ l.name = NameIn(m)
    /\ l.archetype = ArchetypeOf(m)
    /\ l.on = (Set(m, "on") /\ m.on.on)
    /\ l.capabilities = Capabilities(m)
    /\ Reaches(m, "dimming", "brightness") =>
          l.brightness = m.dimming.brightness
    /\ Reaches(m, "dimming", "minDimLevel") =>
          l.minDimLevel = m.dimming.minDimLevel
    /\ Reaches(m, "colorTemperature", "mirek") =>
          l.colorTemperatureMirek = m.colorTemperature.mirek
    /\ Reaches(m, "color", "xy") => l.colorXy = m.color.xy
    /\ "mirekSchema" \in DOMAIN MirekSchema(m) =>
          l.mirekSchema = MirekSchema(m)["mirekSchema"]
    /\ "colorGamut" \in DOMAIN ColorGamut(m) =>
          l.colorGamut = ColorGamut(m)["colorGamut"]

LEMMA LightIs ==
    ASSUME NEW m, IsReport(m) PROVE IsLightOf(lightFrom(m), m)
<1> DEFINE p0 == [id |-> m.id,
                  name |-> IF Set(m, "metadata") THEN m.metadata.name ELSE "",
                  archetype |-> IF Set(m, "metadata")
                                THEN archetypeFrom(m.metadata.archetype)
                                ELSE "unspecified",
                  on |-> Set(m, "on") /\ m.on.on,
                  capabilities |-> Capabilities(m)]
<1>1. /\ DOMAIN p0 = Required
      /\ p0["id"] = m.id
      /\ p0["name"] = NameIn(m)
      /\ p0["archetype"] = ArchetypeOf(m)
      /\ p0["on"] = (Set(m, "on") /\ m.on.on)
      /\ p0["capabilities"] = Capabilities(m)
  BY DEF Required, ArchetypeOf, NameIn
<1> HIDE DEF p0
<1>2. /\ DOMAIN Brightness(m) = IF Reaches(m, "dimming", "brightness")
                                THEN {"brightness"} ELSE {}
      /\ Reaches(m, "dimming", "brightness") =>
            Brightness(m)["brightness"] = m.dimming.brightness
  BY DEF Brightness, Given, EmptyRecord
<1>3. /\ DOMAIN MinDimLevel(m) = IF Reaches(m, "dimming", "minDimLevel")
                                 THEN {"minDimLevel"} ELSE {}
      /\ Reaches(m, "dimming", "minDimLevel") =>
            MinDimLevel(m)["minDimLevel"] = m.dimming.minDimLevel
  BY DEF MinDimLevel, Given, EmptyRecord
<1>4. /\ DOMAIN Mirek(m) = IF Reaches(m, "colorTemperature", "mirek")
                           THEN {"colorTemperatureMirek"} ELSE {}
      /\ Reaches(m, "colorTemperature", "mirek") =>
            Mirek(m)["colorTemperatureMirek"] = m.colorTemperature.mirek
  BY DEF Mirek, Given, EmptyRecord
<1>5. /\ DOMAIN ColorXy(m) = IF Reaches(m, "color", "xy")
                             THEN {"colorXy"} ELSE {}
      /\ Reaches(m, "color", "xy") => ColorXy(m)["colorXy"] = m.color.xy
  BY DEF ColorXy, Given, EmptyRecord
<1>6. /\ DOMAIN MirekSchema(m) \subseteq {"mirekSchema"}
      /\ DOMAIN ColorGamut(m) \subseteq {"colorGamut"}
  BY MirekSchemaIs, ColorGamutIs
<1> DEFINE l == Spread(p0, Brightness(m), MinDimLevel(m), Mirek(m), ColorXy(m),
                       MirekSchema(m), ColorGamut(m))
<1>7. lightFrom(m) = l
  BY DEF p0, Spread, lightFrom, Brightness, MinDimLevel, Mirek, ColorXy,
         MirekSchema, ColorGamut
<1>8. IsSpread(l, p0, Brightness(m), MinDimLevel(m), Mirek(m), ColorXy(m),
               MirekSchema(m), ColorGamut(m))
  <2>1. /\ DOMAIN Brightness(m) \subseteq {"brightness"}
        /\ DOMAIN MinDimLevel(m) \subseteq {"minDimLevel"}
        /\ DOMAIN Mirek(m) \subseteq {"colorTemperatureMirek"}
        /\ DOMAIN ColorXy(m) \subseteq {"colorXy"}
    BY <1>2, <1>3, <1>4, <1>5
  <2>2. DOMAIN p0 = Required
    BY <1>1
  <2> QED
    BY <1>6, <2>1, <2>2, SpreadsAre
<1> HIDE DEF l
<1>9. {"id", "name", "archetype", "on", "capabilities"} \subseteq Required
  BY DEF Required
<1>10. DOMAIN l = Required \cup Optional(m)
  BY <1>2, <1>3, <1>4, <1>5, <1>8 DEF IsSpread, Optional
<1> QED
  BY <1>1, <1>2, <1>3, <1>4, <1>5, <1>7, <1>8, <1>9, <1>10 DEF IsSpread, IsLightOf

(* None of the names is what the bindings call a number without one. *)
LEMMA ArchetypesAreNames ==
    \A i \in 1..50 : Enumerations["LightArchetype"][i] # Unrecognized
<1>1. Enumerations["LightArchetype"] = LightArchetype
  BY DEF Enumerations
<1>2. \A i \in 1..50 : LightArchetype[i] # Unrecognized
  <2> DEFINE T == LightArchetype
             U == Unrecognized
  <2>1. /\ T[1] # U /\ T[2] # U /\ T[3] # U /\ T[4] # U /\ T[5] # U
        /\ T[6] # U /\ T[7] # U /\ T[8] # U /\ T[9] # U /\ T[10] # U
        /\ T[11] # U /\ T[12] # U /\ T[13] # U /\ T[14] # U /\ T[15] # U
        /\ T[16] # U /\ T[17] # U /\ T[18] # U /\ T[19] # U /\ T[20] # U
        /\ T[21] # U /\ T[22] # U /\ T[23] # U /\ T[24] # U /\ T[25] # U
        /\ T[26] # U /\ T[27] # U /\ T[28] # U /\ T[29] # U /\ T[30] # U
        /\ T[31] # U /\ T[32] # U /\ T[33] # U /\ T[34] # U /\ T[35] # U
        /\ T[36] # U /\ T[37] # U /\ T[38] # U /\ T[39] # U /\ T[40] # U
        /\ T[41] # U /\ T[42] # U /\ T[43] # U /\ T[44] # U /\ T[45] # U
        /\ T[46] # U /\ T[47] # U /\ T[48] # U /\ T[49] # U /\ T[50] # U
    BY DEF LightArchetype, Unrecognized
  <2> HIDE DEF T, U
  <2>2. \A i \in 1..50 : T[i] # U
    BY <2>1
  <2> QED
    BY <2>2 DEF T, U
<1> QED
  BY <1>1, <1>2

(* Every number the bindings have a name for has one of Hue's too. *)
LEMMA ArchetypeIs ==
    ASSUME NEW n \in Int
    PROVE  /\ \E i \in DOMAIN LIGHT_ARCHETYPES : archetypeFrom(n) = LIGHT_ARCHETYPES[i]
           /\ archetypeFrom(n) = IF n + 1 \in DOMAIN Enumerations["LightArchetype"]
                                 THEN LIGHT_ARCHETYPES[n + 1] ELSE "unspecified"
<1>1. DOMAIN Enumerations["LightArchetype"] = 1..50
  BY DEF Enumerations, LightArchetype
<1>2. DOMAIN LIGHT_ARCHETYPES = 1..50 /\ LIGHT_ARCHETYPES[1] = "unspecified"
  BY DEF LIGHT_ARCHETYPES
<1>3. CASE n + 1 \in 1..50
  <2>1. EnumToJSON("LightArchetype", n) # Unrecognized
    BY <1>1, <1>3, ArchetypesAreNames DEF EnumToJSON
  <2> QED
    BY <1>1, <1>2, <1>3, <2>1 DEF archetypeFrom
<1>4. CASE n + 1 \notin 1..50
  <2>1. EnumToJSON("LightArchetype", n) = Unrecognized
    BY <1>1, <1>4 DEF EnumToJSON
  <2> QED
    BY <1>1, <1>2, <1>4, <2>1 DEF archetypeFrom
<1> QED
  BY <1>3, <1>4

LEMMA UnspecifiedIs ==
    \E i \in DOMAIN LIGHT_ARCHETYPES : "unspecified" = LIGHT_ARCHETYPES[i]
<1>1. 1 \in DOMAIN LIGHT_ARCHETYPES /\ LIGHT_ARCHETYPES[1] = "unspecified"
  BY DEF LIGHT_ARCHETYPES
<1> QED
  BY <1>1

LEMMA LightKeepsTheContract ==
    ASSUME NEW m, IsReport(m) PROVE IsLight(lightFrom(m))
<1> DEFINE l == lightFrom(m)
           optional == {"brightness", "minDimLevel", "colorTemperatureMirek",
                        "mirekSchema", "colorXy", "colorGamut"}
<1>1. IsLightOf(l, m)
  BY LightIs
<1> HIDE DEF l
<1>2. /\ DOMAIN MirekSchema(m) \subseteq {"mirekSchema"}
      /\ DOMAIN ColorGamut(m) \subseteq {"colorGamut"}
  BY MirekSchemaIs, ColorGamutIs
<1>3. Required \subseteq DOMAIN l /\ DOMAIN l \subseteq Required \cup optional
  BY <1>1, <1>2 DEF IsLightOf, Optional
<1>4. l.id # ""
  BY <1>1 DEF IsLightOf, IsReport
<1>5. \E i \in DOMAIN LIGHT_ARCHETYPES : l.archetype = LIGHT_ARCHETYPES[i]
  <2>1. Set(m, "metadata") => m.metadata.archetype \in Int
    BY DEF IsReport
  <2> QED
    BY <1>1, <2>1, ArchetypeIs, UnspecifiedIs DEF IsLightOf, ArchetypeOf
<1>6. l.on \in BOOLEAN
  BY <1>1 DEF IsLightOf, IsReport, Set
<1>7. l.capabilities \in [{"dimming", "colorTemperature", "color"} -> BOOLEAN]
  <2> DEFINE f == [k \in {"dimming", "colorTemperature", "color"} |-> l.capabilities[k]]
  <2>1. l.capabilities = f
    BY <1>1 DEF IsLightOf, Capabilities
  <2>2. \A name : Set(m, name) \in BOOLEAN
    BY DEF Set
  <2>3. /\ l.capabilities["dimming"] = Set(m, "dimming")
        /\ l.capabilities["colorTemperature"] = Set(m, "colorTemperature")
        /\ l.capabilities["color"] = Set(m, "color")
    BY <1>1 DEF IsLightOf, Capabilities
  <2>4. \A k \in {"dimming", "colorTemperature", "color"} : l.capabilities[k] \in BOOLEAN
    BY <2>2, <2>3
  <2> QED
    BY <2>1, <2>4
<1>8. "mirekSchema" \in DOMAIN l =>
          DOMAIN l.mirekSchema = {"mirekMinimum", "mirekMaximum"}
  <2>1. "mirekSchema" \in DOMAIN l => "mirekSchema" \in DOMAIN MirekSchema(m)
    BY <1>1, <1>2 DEF IsLightOf, Optional, Required
  <2> QED
    BY <1>1, <2>1, MirekSchemaIs DEF IsLightOf
<1>9. "colorXy" \in DOMAIN l => IsXy(l.colorXy)
  <2>1. "colorXy" \in DOMAIN l => Reaches(m, "color", "xy")
    BY <1>1, <1>2 DEF IsLightOf, Optional, Required
  <2> QED
    BY <1>1, <2>1 DEF IsLightOf, IsReport
<1>10. "colorGamut" \in DOMAIN l =>
          /\ DOMAIN l.colorGamut = {"red", "green", "blue"}
          /\ \A c \in DOMAIN l.colorGamut : IsXy(l.colorGamut[c])
  <2>1. "colorGamut" \in DOMAIN l => "colorGamut" \in DOMAIN ColorGamut(m)
    BY <1>1, <1>2 DEF IsLightOf, Optional, Required
  <2> QED
    BY <1>1, <2>1, ColorGamutIs DEF IsLightOf
<1>11. IsLight(l)
  BY <1>3, <1>4, <1>5, <1>6, <1>7, <1>8, <1>9, <1>10 DEF IsLight, Required
<1> QED
  BY <1>11 DEF l

LEMMA LightTellsOfItsReport ==
    ASSUME NEW m, IsReport(m) PROVE TellsOf(lightFrom(m), m)
<1> DEFINE l == lightFrom(m)
<1>1. IsLightOf(l, m)
  BY LightIs
<1> HIDE DEF l
<1>2. /\ DOMAIN MirekSchema(m) \subseteq {"mirekSchema"}
      /\ DOMAIN ColorGamut(m) \subseteq {"colorGamut"}
  BY MirekSchemaIs, ColorGamutIs
<1>3. /\ "brightness" \in DOMAIN l <=> Reaches(m, "dimming", "brightness")
      /\ "minDimLevel" \in DOMAIN l <=> Reaches(m, "dimming", "minDimLevel")
      /\ "colorTemperatureMirek" \in DOMAIN l
            <=> Reaches(m, "colorTemperature", "mirek")
      /\ "colorXy" \in DOMAIN l <=> Reaches(m, "color", "xy")
  BY <1>1, <1>2 DEF IsLightOf, Optional, Required
<1> DEFINE Comes(k) ==
              LET path == GetPath[k]
              IN  /\ Set(l, k) = Reaches(m, path[1], path[2])
                  /\ Set(l, k) => l[k] = m[path[1]][path[2]]
<1>4. /\ DOMAIN GetPath =
            {"brightness", "minDimLevel", "colorTemperatureMirek", "colorXy"}
      /\ GetPath["brightness"] = <<"dimming", "brightness">>
      /\ GetPath["minDimLevel"] = <<"dimming", "minDimLevel">>
      /\ GetPath["colorTemperatureMirek"] = <<"colorTemperature", "mirek">>
      /\ GetPath["colorXy"] = <<"color", "xy">>
  BY DEF GetPath
<1>5. Comes("brightness")
  BY <1>1, <1>3, <1>4 DEF IsLightOf, Set, Reaches
<1>6. Comes("minDimLevel")
  BY <1>1, <1>3, <1>4 DEF IsLightOf, Set, Reaches
<1>7. Comes("colorTemperatureMirek")
  BY <1>1, <1>3, <1>4 DEF IsLightOf, Set, Reaches
<1>8. Comes("colorXy")
  BY <1>1, <1>3, <1>4 DEF IsLightOf, Set, Reaches
<1>9. \A k \in DOMAIN GetPath : Comes(k)
  <2> HIDE DEF Comes
  <2> QED
    BY <1>4, <1>5, <1>6, <1>7, <1>8
<1>10. \A c \in DOMAIN l.capabilities : l.capabilities[c] = Set(m, c)
  <2>1. \A c \in {"dimming", "colorTemperature", "color"} :
           Capabilities(m)[c] = Set(m, c)
    BY DEF Capabilities
  <2>2. DOMAIN Capabilities(m) = {"dimming", "colorTemperature", "color"}
    BY DEF Capabilities
  <2> QED
    BY <1>1, <2>1, <2>2 DEF IsLightOf
<1>11. l.archetype = ArchetypeIn(m)
  <2>1. CASE Set(m, "metadata")
    <3>1. m.metadata.archetype \in Int
      BY <2>1 DEF IsReport
    <3>2. archetypeFrom(m.metadata.archetype) =
             IF m.metadata.archetype + 1 \in DOMAIN Enumerations["LightArchetype"]
             THEN LIGHT_ARCHETYPES[m.metadata.archetype + 1] ELSE "unspecified"
      BY <3>1, ArchetypeIs
    <3> QED
      BY <1>1, <2>1, <3>2 DEF IsLightOf, ArchetypeOf, ArchetypeIn
  <2>2. CASE ~Set(m, "metadata")
    BY <1>1, <2>2 DEF IsLightOf, ArchetypeOf, ArchetypeIn
  <2> QED
    BY <2>1, <2>2
<1>12. WholeOrNothing(l, "mirekSchema", m, <<"colorTemperature", "mirekSchema">>,
                      {"mirekMinimum", "mirekMaximum"})
  <2>1. "mirekSchema" \in DOMAIN l <=> "mirekSchema" \in DOMAIN MirekSchema(m)
    BY <1>1, <1>2 DEF IsLightOf, Optional, Required
  <2>2. "mirekSchema" \in DOMAIN l => l["mirekSchema"] = MirekSchema(m)["mirekSchema"]
    BY <1>1, <2>1 DEF IsLightOf
  <2> QED
    BY <2>1, <2>2, MirekSchemaIs DEF WholeOrNothing, Set, Reaches
<1>13. WholeOrNothing(l, "colorGamut", m, <<"color", "gamut">>,
                      {"red", "green", "blue"})
  <2>1. "colorGamut" \in DOMAIN l <=> "colorGamut" \in DOMAIN ColorGamut(m)
    BY <1>1, <1>2 DEF IsLightOf, Optional, Required
  <2>2. "colorGamut" \in DOMAIN l => l["colorGamut"] = ColorGamut(m)["colorGamut"]
    BY <1>1, <2>1 DEF IsLightOf
  <2> QED
    BY <2>1, <2>2, ColorGamutIs DEF WholeOrNothing, Set, Reaches
<1>14. TellsOf(l, m)
  BY <1>1, <1>9, <1>10, <1>11, <1>12, <1>13 DEF IsLightOf, TellsOf
<1> QED
  BY <1>14 DEF l

LEMMA ListIs ==
    ASSUME NEW m, m.lights \in Lists, NEW v,
           v = [i \in DOMAIN m.lights |-> lightFrom(m.lights[i])]
    PROVE  /\ Len(v) = Len(m.lights) /\ DOMAIN v = DOMAIN m.lights
           /\ \A i \in DOMAIN v : /\ v[i] = lightFrom(m.lights[i])
                                  /\ IsReport(m.lights[i])
<1>1. m.lights \in Seq(Reports)
  BY MessagesAssumption
<1>2. DOMAIN v = 1..Len(m.lights) /\ Len(m.lights) \in Nat
  BY <1>1
<1>3. Len(v) = Len(m.lights)
  <2> DEFINE n == Len(m.lights)
  <2>1. v = [i \in 1..n |-> lightFrom(m.lights[i])] /\ n \in Nat
    BY <1>1
  <2> HIDE DEF n
  <2>2. Len(v) = n
    BY <2>1
  <2> QED
    BY <2>2 DEF n
<1>4. \A i \in DOMAIN v : v[i] = lightFrom(m.lights[i]) /\ m.lights[i] \in Reports
  BY <1>1, <1>2
<1>5. \A i \in DOMAIN v : IsReport(m.lights[i])
  BY <1>4, MessagesAssumption
<1> QED
  BY <1>3, <1>4, <1>5


-----------------------------------------------------------------------------
(* Resources, Acknowledgements and Notices *)

(* No name at all. *)
Blank == ""

(* The one type of Resource the Console asks for has the number 5. *)
LEMMA RtypesAre ==
    /\ DOMAIN Enumerations["ResourceIdentifier_Rtype"] = 1..37
    /\ \A i \in 1..37 :
          /\ Enumerations["ResourceIdentifier_Rtype"][i] = "RTYPE_LIGHT" <=> i = 6
          /\ Enumerations["ResourceIdentifier_Rtype"][i] # Blank
<1>1. Enumerations["ResourceIdentifier_Rtype"] = ResourceIdentifier_Rtype
  BY DEF Enumerations
<1>2. DOMAIN ResourceIdentifier_Rtype = 1..37
  BY DEF ResourceIdentifier_Rtype
<1>3. \A i \in 1..37 : /\ ResourceIdentifier_Rtype[i] = "RTYPE_LIGHT" <=> i = 6
                       /\ ResourceIdentifier_Rtype[i] # Blank
  <2> DEFINE T == ResourceIdentifier_Rtype
  <2>1. \A i \in 1..37 : T[i] = "RTYPE_LIGHT" <=> i = 6
    BY DEF ResourceIdentifier_Rtype
  <2>2. /\ T[1] # Blank /\ T[2] # Blank /\ T[3] # Blank /\ T[4] # Blank
        /\ T[5] # Blank /\ T[6] # Blank /\ T[7] # Blank /\ T[8] # Blank
        /\ T[9] # Blank /\ T[10] # Blank /\ T[11] # Blank /\ T[12] # Blank
        /\ T[13] # Blank /\ T[14] # Blank /\ T[15] # Blank /\ T[16] # Blank
        /\ T[17] # Blank /\ T[18] # Blank /\ T[19] # Blank /\ T[20] # Blank
        /\ T[21] # Blank /\ T[22] # Blank /\ T[23] # Blank /\ T[24] # Blank
        /\ T[25] # Blank /\ T[26] # Blank /\ T[27] # Blank /\ T[28] # Blank
        /\ T[29] # Blank /\ T[30] # Blank /\ T[31] # Blank /\ T[32] # Blank
        /\ T[33] # Blank /\ T[34] # Blank /\ T[35] # Blank /\ T[36] # Blank
        /\ T[37] # Blank
    BY DEF ResourceIdentifier_Rtype, Blank
  <2> HIDE DEF T
  <2>3. \A i \in 1..37 : T[i] # Blank
    BY <2>2
  <2> QED
    BY <2>1, <2>3 DEF T
<1> QED
  BY <1>1, <1>2, <1>3

LEMMA LightOnlyIs == LightOnly = <<5>>
<1>1. EnumFromJSON("ResourceIdentifier_Rtype", "RTYPE_LIGHT") = 6 - 1
  <2> DEFINE T == Enumerations["ResourceIdentifier_Rtype"]
  <2>1. DOMAIN T = 1..37 /\ \A i \in 1..37 : T[i] = "RTYPE_LIGHT" <=> i = 6
    BY RtypesAre
  <2>2. EnumFromJSON("ResourceIdentifier_Rtype", "RTYPE_LIGHT") =
           IF \E i \in DOMAIN T : T[i] = "RTYPE_LIGHT"
           THEN (CHOOSE i \in DOMAIN T : T[i] = "RTYPE_LIGHT") - 1 ELSE -1
    BY DEF EnumFromJSON
  <2> HIDE DEF T
  <2>3. 6 \in DOMAIN T /\ T[6] = "RTYPE_LIGHT"
    BY <2>1
  <2>4. (CHOOSE i \in DOMAIN T : T[i] = "RTYPE_LIGHT") = 6
    BY <2>1, <2>3
  <2> QED
    BY <2>2, <2>3, <2>4
<1> QED
  BY <1>1 DEF LightOnly

LEMMA IdentifierIs ==
    ASSUME NEW r, r.rtype \in Int
    PROVE  /\ DOMAIN identifierFrom(r) = {"rid", "rtype"}
           /\ identifierFrom(r).rid = r.rid
           /\ identifierFrom(r).rtype = "RTYPE_LIGHT" <=> <<r.rtype>> = LightOnly
           /\ identifierFrom(r).rtype # Blank
<1> DEFINE name == EnumToJSON("ResourceIdentifier_Rtype", r.rtype)
<1>1. (name = "RTYPE_LIGHT" <=> r.rtype = 5) /\ name # Blank
  <2> DEFINE T == Enumerations["ResourceIdentifier_Rtype"]
             n == r.rtype
  <2>1. /\ DOMAIN T = 1..37
        /\ \A i \in 1..37 : (T[i] = "RTYPE_LIGHT" <=> i = 6) /\ T[i] # Blank
    BY RtypesAre
  <2>2. name = IF n + 1 \in DOMAIN T THEN T[n + 1] ELSE "UNRECOGNIZED"
    BY DEF EnumToJSON, Unrecognized
  <2>3. n \in Int /\ "UNRECOGNIZED" # Blank
    BY DEF Blank
  <2> HIDE DEF T, n, name
  <2>4. CASE n + 1 \in DOMAIN T
    BY <2>1, <2>2, <2>3, <2>4 DEF n
  <2>5. CASE n + 1 \notin DOMAIN T
    BY <2>1, <2>2, <2>3, <2>5 DEF n
  <2> QED
    BY <2>4, <2>5
<1>3. identifierFrom(r) =
         [rid |-> r.rid,
          rtype |-> IF name \in {Unrecognized, "RTYPE_UNSPECIFIED"} THEN "unspecified"
                    ELSE name]
  BY DEF identifierFrom
<1>4. <<r.rtype>> = LightOnly <=> r.rtype = 5
  BY LightOnlyIs
<1> HIDE DEF name
<1> QED
  <2>1. "unspecified" # Blank
    BY DEF Blank
  <2> QED
    BY <1>1, <1>3, <1>4, <2>1 DEF Unrecognized

(* What an Acknowledgement comes to, by what it is of. *)
LEMMA OutcomeIs ==
    ASSUME NEW m \in Mutations
    PROVE  acknowledgementFrom(m).outcome =
              CASE m.updated # <<>> /\ m.errors # <<>> -> "partial"
                [] m.updated # <<>> /\ m.errors = <<>> -> "success"
                [] m.updated = <<>> /\ m.errors # <<>> -> "rejected"
                [] m.updated = <<>> /\ m.errors = <<>> -> "unknown"
<1>1. IsList(m.updated) /\ IsList(m.errors)
  BY MessagesAssumption
<1>2. \A s : IsList(s) => Len(s) \in Nat /\ (Len(s) > 0 <=> s # <<>>)
  <2>1. ASSUME NEW s, IsList(s) PROVE Len(s) \in Nat /\ (Len(s) > 0 <=> s # <<>>)
    <3> DEFINE S == {s[i] : i \in DOMAIN s}
    <3>1. s \in Seq(S)
      BY <2>1 DEF IsList
    <3> HIDE DEF S
    <3> QED
      BY <3>1, EmptySeq
  <2> QED
    BY <2>1
<1>3. acknowledgementFrom(m).outcome = outcomeFrom(Len(m.updated), Len(m.errors))
  BY DEF acknowledgementFrom
<1> QED
  BY <1>1, <1>2, <1>3 DEF outcomeFrom

LEMMA AcknowledgementKeepsTheContract ==
    ASSUME NEW m \in Mutations PROVE IsAcknowledgement(acknowledgementFrom(m))
<1> DEFINE a == acknowledgementFrom(m)
<1>1. DOMAIN a = {"outcome", "updated", "errors"}
  BY DEF acknowledgementFrom
<1>2. a.outcome \in OUTCOMES
  BY OutcomeIs DEF OUTCOMES
<1>3. ASSUME NEW i \in DOMAIN a.updated PROVE IsResource(a.updated[i])
  <2>1. i \in DOMAIN m.updated /\ a.updated[i] = identifierFrom(m.updated[i])
    BY <1>3 DEF acknowledgementFrom
  <2>2. IsIdentifier(m.updated[i])
    BY <2>1, MessagesAssumption
  <2>3. /\ DOMAIN a.updated[i] = {"rid", "rtype"}
        /\ a.updated[i].rid = m.updated[i].rid
        /\ a.updated[i].rtype # Blank
    BY <2>1, <2>2, IdentifierIs DEF IsIdentifier
  <2>4. m.updated[i].rid # ""
    BY <2>2 DEF IsIdentifier
  <2> QED
    BY <2>3, <2>4, Zenon DEF IsResource, Blank
<1> QED
  BY <1>1, <1>2, <1>3 DEF IsAcknowledgement

LEMMA ChangeIs ==
    ASSUME NEW type \in Int
    PROVE  /\ changeFrom(type) = "added" <=> type = 1
           /\ changeFrom(type) = "removed" <=> type = 2
<1>1. DOMAIN Enumerations["Event_Type"] = 1..5
  BY DEF Enumerations, Event_Type
<1>2. \A i \in 1..5 : /\ Enumerations["Event_Type"][i] = "TYPE_ADD" <=> i = 2
                      /\ Enumerations["Event_Type"][i] = "TYPE_DELETE" <=> i = 3
  BY DEF Enumerations, Event_Type
<1>3. /\ EnumToJSON("Event_Type", type) = "TYPE_ADD" <=> type = 1
      /\ EnumToJSON("Event_Type", type) = "TYPE_DELETE" <=> type = 2
  BY <1>1, <1>2 DEF EnumToJSON, Unrecognized
<1> QED
  BY <1>3 DEF changeFrom

(* What an event comes to. *)
LEMMA NoticeIs ==
    ASSUME NEW m \in Happenings
    PROVE  LET notice == noticeFrom(m)
               named == Set(m, "change") /\ Set(m.change, "resource")
           IN  /\ named =>
                    /\ notice.kind = "invalidation"
                    /\ notice.change = changeFrom(m.change.type)
                    /\ notice.resource = identifierFrom(m.change.resource)
               /\ ~named => notice.kind = IF Set(m, "gap") THEN "gap" ELSE "nothing"
BY DEF noticeFrom, Nothing


-----------------------------------------------------------------------------
(* Commands *)

(* A body that is a Command. *)
LEMMA CommandOfABody ==
    ASSUME NEW body, readLightCommand(body).ok
    PROVE  /\ Expressible(body)
           /\ DOMAIN body.of # {} /\ \A k \in DOMAIN body.of : InRange(k, body.of[k])
           /\ readLightCommand(body).command = [k \in DOMAIN body.of |-> Plain(body.of[k])]
BY DEF readLightCommand, Refused, Expressible

(* And one that is not, although each key of it is well typed. *)
LEMMA NoCommandOfABody ==
    ASSUME NEW body, ~readLightCommand(body).ok, Expressible(body)
    PROVE  DOMAIN body.of = {} \/ \E k \in DOMAIN body.of : ~InRange(k, body.of[k])
BY DEF readLightCommand, Refused, Expressible

(* The LightPut of a Command, key by key. *)
LEMMA PutIs ==
    ASSUME NEW c, DOMAIN c \subseteq Keys,
           ~{"colorXy", "colorTemperatureMirek"} \subseteq DOMAIN c
    PROVE  LET put == commandFor(c)
           IN  /\ DOMAIN put =
                     (IF Set(c, "on") THEN {"on"} ELSE {})
                     \cup (IF Set(c, "brightness") THEN {"dimming"} ELSE {})
                     \cup (IF Set(c, "colorXy") THEN {"color"} ELSE {})
                     \cup (IF Set(c, "colorTemperatureMirek")
                   THEN {"colorTemperature"} ELSE {})
               /\ Set(c, "on") => put["on"]["on"] = c.on
               /\ Set(c, "brightness") => put["dimming"]["brightness"] = c.brightness
               /\ Set(c, "colorXy") => put["color"]["xy"] = c.colorXy
               /\ Set(c, "colorTemperatureMirek") =>
                     put["colorTemperature"]["mirek"] = c.colorTemperatureMirek
<1> DEFINE o == Given("on", Set(c, "on"), [on |-> c.on])
           d == Given("dimming", Set(c, "brightness"), [brightness |-> c.brightness])
           h == colourFor(c)
<1>1. /\ DOMAIN o = IF Set(c, "on") THEN {"on"} ELSE {}
      /\ Set(c, "on") => o["on"] = [on |-> c.on]
  BY DEF Given, EmptyRecord
<1>2. /\ DOMAIN d = IF Set(c, "brightness") THEN {"dimming"} ELSE {}
      /\ Set(c, "brightness") => d["dimming"] = [brightness |-> c.brightness]
  BY DEF Given, EmptyRecord
<1>3. /\ DOMAIN h = IF Set(c, "colorXy") THEN {"color"}
                    ELSE IF Set(c, "colorTemperatureMirek") THEN {"colorTemperature"} ELSE {}
      /\ Set(c, "colorXy") => h["color"] = [xy |-> c.colorXy]
      /\ ~Set(c, "colorXy") /\ Set(c, "colorTemperatureMirek") =>
            h["colorTemperature"] = [mirek |-> c.colorTemperatureMirek]
  BY DEF colourFor, Given, EmptyRecord
<1> DEFINE od == o ++ d
           put == od ++ h
<1>4. commandFor(c) = put
  BY DEF commandFor
<1> HIDE DEF o, d, h
<1>5. /\ DOMAIN od = DOMAIN o \cup DOMAIN d
      /\ \A k \in DOMAIN o : od[k] = o[k]
      /\ \A k \in DOMAIN d : k \notin DOMAIN o => od[k] = d[k]
  BY SpreadIs
<1> HIDE DEF od
<1>6. /\ DOMAIN put = DOMAIN od \cup DOMAIN h
      /\ \A k \in DOMAIN od : put[k] = od[k]
      /\ \A k \in DOMAIN h : k \notin DOMAIN od => put[k] = h[k]
  BY SpreadIs
<1> HIDE DEF put
<1>7. /\ \A k \in DOMAIN o : put[k] = o[k]
      /\ \A k \in DOMAIN d : put[k] = d[k]
      /\ \A k \in DOMAIN h : put[k] = h[k]
      /\ DOMAIN put = DOMAIN o \cup DOMAIN d \cup DOMAIN h
  BY <1>1, <1>2, <1>3, <1>5, <1>6
<1>8. ~(Set(c, "colorXy") /\ Set(c, "colorTemperatureMirek"))
  BY DEF Set
<1> QED
  BY <1>1, <1>2, <1>3, <1>4, <1>7, <1>8

(* Each key of it is found where PutPath says. *)
LEMMA PutAsAsked ==
    ASSUME NEW c, DOMAIN c \subseteq Keys,
           ~{"colorXy", "colorTemperatureMirek"} \subseteq DOMAIN c
    PROVE  LET put == commandFor(c)
           IN  /\ DOMAIN put = {PutPath[k][1] : k \in DOMAIN c}
               /\ \A k \in DOMAIN c : put[PutPath[k][1]][PutPath[k][2]] = c[k]
<1> DEFINE put == commandFor(c)
<1>1. /\ DOMAIN put =
            (IF Set(c, "on") THEN {"on"} ELSE {})
            \cup (IF Set(c, "brightness") THEN {"dimming"} ELSE {})
            \cup (IF Set(c, "colorXy") THEN {"color"} ELSE {})
            \cup (IF Set(c, "colorTemperatureMirek") THEN {"colorTemperature"} ELSE {})
      /\ Set(c, "on") => put["on"]["on"] = c.on
      /\ Set(c, "brightness") => put["dimming"]["brightness"] = c.brightness
      /\ Set(c, "colorXy") => put["color"]["xy"] = c.colorXy
      /\ Set(c, "colorTemperatureMirek") =>
            put["colorTemperature"]["mirek"] = c.colorTemperatureMirek
  BY PutIs
<1> HIDE DEF put
<1>2. /\ PutPath["on"] = <<"on", "on">>
      /\ PutPath["brightness"] = <<"dimming", "brightness">>
      /\ PutPath["colorTemperatureMirek"] = <<"colorTemperature", "mirek">>
      /\ PutPath["colorXy"] = <<"color", "xy">>
  BY DEF PutPath
<1>3. \A k \in DOMAIN c : put[PutPath[k][1]][PutPath[k][2]] = c[k]
  BY <1>1, <1>2 DEF Set, Keys
<1>4. DOMAIN put = {PutPath[k][1] : k \in DOMAIN c}
  BY <1>1, <1>2 DEF Set, Keys
<1> QED
  BY <1>3, <1>4 DEF put

(* A key in its range is a field Hue accepts, and one that is not is not. *)
LEMMA AcceptedIs ==
    ASSUME NEW body \in Bodies, Expressible(body)
    PROVE  LET c == [k \in DOMAIN body.of |-> Plain(body.of[k])]
           IN  HueAccepts(commandFor(c)) <=>
                  /\ DOMAIN body.of # {}
                  /\ \A k \in DOMAIN body.of : InRange(k, body.of[k])
<1> DEFINE c == [k \in DOMAIN body.of |-> Plain(body.of[k])]
           put == commandFor(c)
<1>1. /\ body.kind = "object" /\ DOMAIN body.of \subseteq Keys
      /\ \A k \in DOMAIN body.of : WellTyped(k, body.of[k])
      /\ ~{"colorXy", "colorTemperatureMirek"} \subseteq DOMAIN body.of
  BY DEF Expressible
<1>2. DOMAIN c = DOMAIN body.of /\ \A k \in DOMAIN c : c[k] = Plain(body.of[k])
  OBVIOUS
<1> HIDE DEF c
<1>3. /\ DOMAIN put =
            (IF Set(c, "on") THEN {"on"} ELSE {})
            \cup (IF Set(c, "brightness") THEN {"dimming"} ELSE {})
            \cup (IF Set(c, "colorXy") THEN {"color"} ELSE {})
            \cup (IF Set(c, "colorTemperatureMirek") THEN {"colorTemperature"} ELSE {})
      /\ Set(c, "brightness") => put["dimming"]["brightness"] = c.brightness
      /\ Set(c, "colorXy") => put["color"]["xy"] = c.colorXy
      /\ Set(c, "colorTemperatureMirek") =>
            put["colorTemperature"]["mirek"] = c.colorTemperatureMirek
  <2>1. DOMAIN c \subseteq Keys /\ ~{"colorXy", "colorTemperatureMirek"} \subseteq DOMAIN c
    BY <1>1, <1>2
  <2> QED
    BY <2>1, PutIs
<1> HIDE DEF put
<1>4. ASSUME "brightness" \in DOMAIN c
      PROVE  InRange("brightness", body.of["brightness"]) <=> Between(0, c.brightness, 100000)
  <2> DEFINE j == body.of["brightness"]
  <2>1. j.kind = "number" /\ c.brightness = j.n /\ j.n \in Int
    <3>1. IsValue(j)
      BY <1>2, <1>4, <1>1, BodiesAssumption
    <3>2. WellTyped("brightness", j) /\ c["brightness"] = Plain(j)
      BY <1>1, <1>2, <1>4
    <3> HIDE DEF j
    <3> QED
      BY <3>1, <3>2 DEF WellTyped, Plain, IsValue
  <2> QED
    BY <2>1 DEF InRange, Within, BRIGHTNESS, Thousand, Between
<1>5. ASSUME "colorTemperatureMirek" \in DOMAIN c
      PROVE  InRange("colorTemperatureMirek", body.of["colorTemperatureMirek"])
                <=> Between(153000, c.colorTemperatureMirek, 500000)
  <2> DEFINE j == body.of["colorTemperatureMirek"]
  <2>1. j.kind = "number" /\ c.colorTemperatureMirek = j.n /\ j.n \in Int
    BY <1>1, <1>2, <1>5, BodiesAssumption DEF WellTyped, Plain, IsValue
  <2> QED
    BY <2>1 DEF InRange, Within, MIREK, Thousand, Between
<1>6. ASSUME "colorXy" \in DOMAIN c
      PROVE  InRange("colorXy", body.of["colorXy"])
                <=> Between(0, c.colorXy.x, 1000) /\ Between(0, c.colorXy.y, 1000)
  <2> DEFINE j == body.of["colorXy"]
  <2>1. /\ j.kind = "object" /\ DOMAIN j.of = {"x", "y"}
        /\ \A e \in {"x", "y"} : j.of[e].kind = "number"
        /\ c.colorXy = [e \in DOMAIN j.of |-> j.of[e].n]
    BY <1>1, <1>2, <1>6 DEF WellTyped, Plain
  <2>2. \A e \in {"x", "y"} : IsValue(j.of[e])
    BY <1>1, <1>2, <1>6, <2>1, BodiesAssumption
  <2> HIDE DEF j
  <2>3. /\ c.colorXy.x = j.of["x"].n /\ c.colorXy.y = j.of["y"].n
        /\ j.of["x"].n \in Int /\ j.of["y"].n \in Int
    BY <2>1, <2>2 DEF IsValue
  <2>4. InRange("colorXy", j) <=>
           Within(GAMUT, j.of["x"].n) /\ Within(GAMUT, j.of["y"].n)
    BY DEF InRange
  <2>5. \A n \in Int : Within(GAMUT, n) <=> Between(0, n, 1000)
    BY DEF Within, GAMUT, Thousand, Between
  <2> QED
    BY <2>3, <2>4, <2>5 DEF j
<1>7. InRange("on", body.of["on"])
  BY DEF InRange
<1>8. DOMAIN c \subseteq {"on", "brightness", "colorTemperatureMirek", "colorXy"}
  BY <1>1, <1>2 DEF Keys
<1>9. DOMAIN put # {} <=> DOMAIN c # {}
  BY <1>3, <1>8 DEF Set
<1>10. /\ Set(put, "dimming") <=> "brightness" \in DOMAIN c
       /\ Set(put, "color") <=> "colorXy" \in DOMAIN c
       /\ Set(put, "colorTemperature") <=> "colorTemperatureMirek" \in DOMAIN c
  BY <1>3 DEF Set
<1>11. HueAccepts(put) <=>
          /\ DOMAIN c # {}
          /\ "brightness" \in DOMAIN c => Between(0, c.brightness, 100000)
          /\ "colorTemperatureMirek" \in DOMAIN c =>
                Between(153000, c.colorTemperatureMirek, 500000)
          /\ "colorXy" \in DOMAIN c =>
                Between(0, c.colorXy.x, 1000) /\ Between(0, c.colorXy.y, 1000)
  BY <1>3, <1>9, <1>10 DEF HueAccepts, Set
<1>12. (\A k \in DOMAIN c : InRange(k, body.of[k])) <=>
          /\ "brightness" \in DOMAIN c => Between(0, c.brightness, 100000)
          /\ "colorTemperatureMirek" \in DOMAIN c =>
                Between(153000, c.colorTemperatureMirek, 500000)
          /\ "colorXy" \in DOMAIN c =>
                Between(0, c.colorXy.x, 1000) /\ Between(0, c.colorXy.y, 1000)
  BY <1>4, <1>5, <1>6, <1>7, <1>8
<1>13. HueAccepts(put) <=>
          DOMAIN body.of # {} /\ \A k \in DOMAIN body.of : InRange(k, body.of[k])
  BY <1>2, <1>11, <1>12
<1> QED
  BY <1>13 DEF put, c


-----------------------------------------------------------------------------
(* Failures, and the words for them *)

LEMMA CodesAre ==
    DOMAIN ERRORS =
        {"BRIDGE_REJECTED_COMMAND", "LIGHT_NOT_FOUND", "GATEWAY_NOT_PAIRED",
         "BRIDGE_UNREACHABLE", "BRIDGE_TIMEOUT", "MUTATION_OUTCOME_UNKNOWN",
         "BRIDGE_BUSY", "BRIDGE_UNSUPPORTED", "GATEWAY_MISCONFIGURED",
         "GATEWAY_ERROR", "GATEWAY_UNREACHABLE", "NOT_AUTHENTICATED",
         "CSRF_REJECTED", "TOO_MANY_REQUESTS", "INVALID_REQUEST",
         "COLOR_AND_TEMPERATURE_BOTH_SET"}
BY DEF ERRORS

LEMMA NoCodeIsASuccess ==
    ASSUME NEW code \in DOMAIN ERRORS PROVE ERRORS[code].httpStatus # 200
BY CodesAre DEF ERRORS, Failing, Busy

LEMMA RefusedIs ==
    ASSUME NEW code \in DOMAIN ERRORS
    PROVE  ResultOf(refuse(code)) = ApiError(code)
<1>1. refuse(code).status # 200 /\ refuse(code).json = [k \in {"code"} |-> code]
  BY NoCodeIsASuccess DEF refuse
<1>2. refuse(code).json # None
  BY <1>1 DEF None
<1>3. refuse(code).json.code = code
  BY DEF refuse
<1> QED
  BY <1>1, <1>2, <1>3 DEF ResultOf, apiErrorFrom

LEMMA RelayedIs ==
    ASSUME NEW v
    PROVE  ResultOf(relay(v)) = [kind |-> "value", value |-> v]
BY DEF ResultOf, relay

(* What each way an RPC may fail is called. *)
CodeOf(e, call) ==
    CASE e.name = "UNAVAILABLE" ->
            IF e.trailers THEN "BRIDGE_UNREACHABLE" ELSE "GATEWAY_UNREACHABLE"
      [] e.name = "FAILED_PRECONDITION" -> "GATEWAY_NOT_PAIRED"
      [] e.name = "INVALID_ARGUMENT" -> "BRIDGE_REJECTED_COMMAND"
      [] e.name = "NOT_FOUND" -> "LIGHT_NOT_FOUND"
      [] e.name = "RESOURCE_EXHAUSTED" -> "BRIDGE_BUSY"
      [] e.name = "UNIMPLEMENTED" -> "BRIDGE_UNSUPPORTED"
      [] e.name = "UNAUTHENTICATED" -> "GATEWAY_MISCONFIGURED"
      [] e.name = "DEADLINE_EXCEEDED" ->
            IF call = "read" THEN "BRIDGE_TIMEOUT" ELSE "MUTATION_OUTCOME_UNKNOWN"
      [] e.name \in {"INTERNAL", "UNKNOWN"} -> "GATEWAY_ERROR"

LEMMA FailureIs ==
    ASSUME NEW call, NEW e, e.trailers \in BOOLEAN,
           e.name \in Refusals \cup GivingUp
    PROVE  failureFrom(e, call) = CodeOf(e, call)
BY DEF failureFrom, errorCodeForGatewayFailure, wasSentByTheGateway, BY_FAILURE,
       Refusals, GivingUp, BridgeSide, CodeOf

LEMMA FailureHasACode ==
    ASSUME NEW call, NEW e, e.name \in Refusals \cup GivingUp
    PROVE  CodeOf(e, call) \in DOMAIN ERRORS
BY CodesAre DEF Refusals, GivingUp, BridgeSide, CodeOf

(* A body that is not a Command is refused with a code that says so. *)
LEMMA RefusalOfABody ==
    ASSUME NEW body, ~readLightCommand(body).ok
    PROVE  readLightCommand(body).code \in
              {"INVALID_REQUEST", "COLOR_AND_TEMPERATURE_BOTH_SET"}
BY DEF readLightCommand, Refused

LEMMA WordsAre ==
    /\ MessageOf(TypeError) = NoMessage
    /\ \A code : MessageOf(ApiError(code)) = messageForError(code)
    /\ \A v : MessageOf([kind |-> "value", value |-> v]) = messageForOutcome(v.outcome)
BY DEF MessageOf, TypeError, ApiError


-----------------------------------------------------------------------------
(* The inductive invariant *)

(* Only what can be asked is asked, and only what can be sent is sent. *)
Asked ==
    /\ asked \in Requests
    /\ rpc # None =>
          /\ ~Unsendable(asked)
          /\ rpc = [kind |-> "wire",
                    of |-> encode(RequestType(asked), RequestMessage(asked))]

(* An answer is one of those the Gateway may give, as it meant it; a       *)
(* status says who made it up.                                             *)
Answered ==
    reply # None =>
        /\ rpc # None
        /\ \/ /\ reply.kind = "wire"
              /\ meant \in PossibleAnswers(asked)
              /\ decode(ReplyType(asked), reply.of) = meant
           \/ /\ reply.kind = "status"
              /\ \/ reply.trailers = TRUE /\ reply.name \in Refusals \cup GivingUp
                 \/ /\ reply.trailers = FALSE
                    /\ reply.name \in {"DEADLINE_EXCEEDED", "UNAVAILABLE"}

(* What was applied was asked for, the answer says so if it says anything, *)
(* and who refuses has done nothing.                                       *)
Applied ==
    /\ applied \in BOOLEAN
    /\ applied => asked.route = "patch" /\ reply # None
    /\ reply.kind = "wire" /\ asked.route = "patch" => Consistent(meant, applied)
    /\ applied /\ reply.kind = "status" /\ reply.trailers => reply.name \in GivingUp

(* The response to a request, which is all the API makes of its RPC. *)
TheResponse ==
    IF rpc = None THEN refuse(readLightCommand(asked.body).code)
    ELSE IF reply.kind = "wire" THEN relay(ValueOf(asked, meant))
    ELSE refuse(failureFrom(reply, Call(asked)))

Responded ==
    response # None =>
        /\ asked.route # "subscribe"
        /\ IF rpc = None THEN Unsendable(asked) ELSE reply # None
        /\ response = TheResponse

(* And what whoever asked is shown of it. *)
TheResult ==
    IF asked.route # "subscribe" THEN ResultOf(TheResponse)
    ELSE IF reply.kind = "wire" THEN [kind |-> "value", value |-> ValueOf(asked, meant)]
    ELSE ApiError(failureFrom(reply, "read"))

Shown ==
    shown # None =>
        \/ asked.route # "subscribe" /\ broke = "http" /\ shown = TypeError
        \/ asked.route # "subscribe" /\ broke = "proxy" /\ shown = ResultOf(ProxyPage)
        \/ /\ broke \notin {"http", "proxy"}
           /\ IF asked.route = "subscribe" THEN reply # None ELSE response # None
           /\ shown = TheResult

(* The tier an RPC that ended so broke at. *)
TierOf(r) ==
    IF r.kind # "status" THEN "nothing"
    ELSE IF r.trailers THEN IF r.name \in BridgeSide THEN "bridge" ELSE "nothing"
    ELSE IF r.name = "UNAVAILABLE" THEN "channel" ELSE "nothing"

Broke ==
    IF broke \in {"http", "proxy"} THEN shown # None ELSE broke = TierOf(reply)

ExchangeInv ==
    Asked /\ Answered /\ Applied /\ Responded /\ Shown /\ Broke

-----------------------------------------------------------------------------
(* One lemma for each action *)

LEMMA InitInv == Init => ExchangeInv
<1> SUFFICES ASSUME Init PROVE ExchangeInv
  OBVIOUS
<1> USE DEF Init
<1>1. Asked /\ Answered /\ Responded /\ Shown
  BY DEF Asked, Answered, Responded, Shown
<1>2. Applied /\ Broke
  BY DEF Applied, Broke, TierOf, None
<1> QED
  BY <1>1, <1>2 DEF ExchangeInv

LEMMA RefuseWithoutAskingInv ==
    ASSUME ExchangeInv, RefuseWithoutAsking PROVE ExchangeInv'
<1> USE DEF ExchangeInv, RefuseWithoutAsking
<1>1. Asked' /\ Answered' /\ Applied' /\ Broke'
  BY DEF Asked, Answered, Applied, Broke, TierOf
<1>2. Responded'
  BY DEF Responded, TheResponse, Unsendable
<1>3. Shown'
  <2>1. shown' = shown /\ broke' = broke /\ asked' = asked /\ reply' = reply
    OBVIOUS
  <2>2. TheResult' = TheResult
    BY DEF TheResult, TheResponse
  <2>3. response' # None
    BY DEF refuse, None
  <2> QED
    BY <2>1, <2>2, <2>3 DEF Shown
<1> QED
  BY <1>1, <1>2, <1>3

LEMMA AskInv ==
    ASSUME ExchangeInv, Ask PROVE ExchangeInv'
<1> USE DEF ExchangeInv, Ask
<1>0. reply = None
  BY DEF Answered
<1>1. Asked'
  BY DEF Asked, Unsendable
<1>2. Answered' /\ Applied' /\ Broke' /\ Responded'
  BY <1>0 DEF Answered, Applied, Broke, TierOf, Responded
<1>3. Shown'
  BY <1>0 DEF Shown, TheResult
<1> QED
  BY <1>1, <1>2, <1>3

(* Until the RPC has ended nobody has been told anything of it. *)
Unheard ==
    /\ response = None
    /\ shown # None <=> broke \in {"http", "proxy"}
    /\ shown = None => broke = "nothing"
    /\ ~applied

LEMMA NobodyHasHeard ==
    ASSUME ExchangeInv, Outstanding PROVE Unheard /\ asked \in Requests
<1> USE DEF ExchangeInv, Outstanding
<1>1. response = None /\ ~applied /\ asked \in Requests
  BY DEF Responded, Applied, Asked
<1>2. shown # None => broke \in {"http", "proxy"}
  BY <1>1 DEF Shown
<1>3. broke \in {"http", "proxy"} => shown # None
  BY DEF Broke
<1>4. broke \notin {"http", "proxy"} => broke = "nothing"
  BY DEF Broke, TierOf, None
<1> QED
  BY <1>1, <1>2, <1>3, <1>4 DEF Unheard

(* And an end of it that keeps what is known of ends keeps the rest. *)
LEMMA EndingInv ==
    ASSUME ExchangeInv, Outstanding,
           Answered', Applied', reply' # None,
           asked' = asked, rpc' = rpc, response' = response, shown' = shown,
           broke' = IF shown = None THEN TierOf(reply') ELSE broke
    PROVE  ExchangeInv'
<1>1. Unheard
  BY NobodyHasHeard
<1>2. Asked'
  BY DEF ExchangeInv, Asked
<1>3. Responded'
  BY <1>1 DEF Unheard, Responded
<1>4. Shown'
  BY <1>1 DEF Unheard, Shown, ExchangeInv
<1>5. Broke'
  <2>1. CASE shown = None
    <3>1. broke' = TierOf(reply')
      BY <2>1
    <3>2. TierOf(reply') \notin {"http", "proxy"}
      BY DEF TierOf
    <3> QED
      BY <3>1, <3>2 DEF Broke
  <2>2. CASE shown # None
    BY <1>1, <2>2 DEF Unheard, Broke
  <2> QED
    BY <2>1, <2>2
<1> QED
  BY <1>2, <1>3, <1>4, <1>5 DEF ExchangeInv

(* A status, of whoever. *)
LEMMA StatusInv ==
    ASSUME ExchangeInv, Outstanding,
           NEW name, NEW trailers \in BOOLEAN,
           IF trailers THEN name \in Refusals \cup GivingUp
           ELSE name \in {"DEADLINE_EXCEEDED", "UNAVAILABLE"},
           reply' = Status(name, trailers),
           applied' \in BOOLEAN,
           applied' => asked.route = "patch" /\ trailers /\ name \in GivingUp,
           asked' = asked, rpc' = rpc, response' = response, shown' = shown,
           broke' = IF shown = None THEN TierOf(reply') ELSE broke
    PROVE  ExchangeInv'
<1>1. /\ reply'.kind = "status" /\ reply'.name = name
      /\ reply'.trailers = trailers
  BY DEF Status
<1>2. reply' # None
  BY <1>1 DEF None
<1>3. Answered'
  BY <1>1, <1>2 DEF Answered, Outstanding
<1>4. Applied'
  BY <1>1, <1>2 DEF Applied
<1> QED
  BY <1>2, <1>3, <1>4, EndingInv

LEMMA AnswerInv ==
    ASSUME ExchangeInv, Answer PROVE ExchangeInv'
<1>1. Outstanding /\ UNCHANGED <<asked, rpc, response, shown, broke>>
  BY DEF Answer
<1>2. Unheard /\ asked \in Requests
  BY <1>1, NobodyHasHeard
<1>3. PICK m \in PossibleAnswers(asked), isNewer \in BOOLEAN, touched \in BOOLEAN :
         /\ IF asked.route = "patch" THEN Consistent(m, touched) ELSE ~touched
         /\ meant' = m /\ applied' = touched
         /\ LET w == encode(ReplyType(asked), m)
            IN  reply' = [kind |-> "wire",
                          of |-> IF isNewer THEN newer(ReplyType(asked), w) ELSE w]
  BY DEF Answer
<1>4. reply'.kind = "wire"
  BY <1>3
<1>5. decode(ReplyType(asked), reply'.of) = m
  <2> DEFINE w == encode(ReplyType(asked), m)
  <2>1. /\ decode(ReplyType(asked), w) = m
        /\ decode(ReplyType(asked), newer(ReplyType(asked), w)) = m
    BY <1>2, WireAssumption
  <2>2. reply'.of = IF isNewer THEN newer(ReplyType(asked), w) ELSE w
    BY <1>3
  <2> QED
    BY <2>1, <2>2
<1>6. reply' # None
  BY <1>4 DEF None
<1>7. Answered'
  BY <1>1, <1>3, <1>4, <1>5, <1>6 DEF Answered, Outstanding
<1>8. Applied'
  BY <1>1, <1>3, <1>4, <1>6 DEF Applied
<1>9. TierOf(reply') = "nothing"
  BY <1>4 DEF TierOf
<1>10. broke' = IF shown = None THEN TierOf(reply') ELSE broke
  BY <1>1, <1>2, <1>9 DEF Unheard
<1> QED
  BY <1>1, <1>6, <1>7, <1>8, <1>10, EndingInv

LEMMA GatewayRefusesInv ==
    ASSUME ExchangeInv, GatewayRefuses PROVE ExchangeInv'
<1>1. /\ Outstanding
      /\ UNCHANGED <<asked, rpc, meant, applied, response, shown>>
  BY DEF GatewayRefuses
<1>2. ~applied
  BY <1>1, NobodyHasHeard DEF Unheard
<1>3. PICK name \in Refusals :
         /\ reply' = Status(name, TRUE)
         /\ Breaks(IF name \in BridgeSide THEN "bridge" ELSE "nothing")
  BY DEF GatewayRefuses
<1>4. TierOf(reply') = IF name \in BridgeSide THEN "bridge" ELSE "nothing"
  BY <1>3 DEF TierOf, Status
<1>5. broke' = IF shown = None THEN TierOf(reply') ELSE broke
  BY <1>3, <1>4 DEF Breaks
<1>6. applied' \in BOOLEAN
  BY <1>1 DEF ExchangeInv, Applied
<1> QED
  BY <1>1, <1>2, <1>3, <1>5, <1>6, StatusInv

LEMMA GatewayGivesUpInv ==
    ASSUME ExchangeInv, GatewayGivesUp PROVE ExchangeInv'
<1>1. Outstanding /\ UNCHANGED <<asked, rpc, meant, response, shown>>
  BY DEF GatewayGivesUp
<1>2. PICK name \in GivingUp, touched \in BOOLEAN :
         /\ touched => asked.route = "patch"
         /\ reply' = Status(name, TRUE) /\ applied' = touched
         /\ Breaks(IF name \in BridgeSide THEN "bridge" ELSE "nothing")
  BY DEF GatewayGivesUp
<1>3. TierOf(reply') = IF name \in BridgeSide THEN "bridge" ELSE "nothing"
  BY <1>2 DEF TierOf, Status
<1>4. broke' = IF shown = None THEN TierOf(reply') ELSE broke
  BY <1>2, <1>3 DEF Breaks
<1> QED
  BY <1>1, <1>2, <1>4, StatusInv

LEMMA DeadlinePassesInv ==
    ASSUME ExchangeInv, DeadlinePasses PROVE ExchangeInv'
<1>1. /\ Outstanding /\ reply' = Status("DEADLINE_EXCEEDED", FALSE)
      /\ UNCHANGED <<asked, rpc, meant, applied, response, shown, broke>>
  BY DEF DeadlinePasses
<1>2. Unheard
  BY <1>1, NobodyHasHeard
<1>3. TierOf(reply') = "nothing"
  BY <1>1 DEF TierOf, Status
<1>4. broke' = IF shown = None THEN TierOf(reply') ELSE broke
  BY <1>1, <1>2, <1>3 DEF Unheard
<1>5. applied' \in BOOLEAN /\ ~applied'
  BY <1>1, <1>2 DEF Unheard, ExchangeInv, Applied
<1> QED
  BY <1>1, <1>4, <1>5, StatusInv

LEMMA ChannelBreaksInv ==
    ASSUME ExchangeInv, ChannelBreaks PROVE ExchangeInv'
<1>1. /\ Outstanding /\ reply' = Status("UNAVAILABLE", FALSE)
      /\ Breaks("channel")
      /\ UNCHANGED <<asked, rpc, meant, applied, response, shown>>
  BY DEF ChannelBreaks
<1>2. Unheard
  BY <1>1, NobodyHasHeard
<1>3. TierOf(reply') = "channel"
  BY <1>1 DEF TierOf, Status
<1>4. broke' = IF shown = None THEN TierOf(reply') ELSE broke
  BY <1>1, <1>3 DEF Breaks
<1>5. applied' \in BOOLEAN /\ ~applied'
  BY <1>1, <1>2 DEF Unheard, ExchangeInv, Applied
<1> QED
  BY <1>1, <1>4, <1>5, StatusInv

LEMMA BridgeActsLateInv ==
    ASSUME ExchangeInv, BridgeActsLate PROVE ExchangeInv'
<1> USE DEF ExchangeInv, BridgeActsLate
<1>1. reply # None
  BY DEF None
<1>2. Applied'
  BY <1>1 DEF Applied
<1>3. Asked' /\ Answered' /\ Broke'
  BY DEF Asked, Answered, Broke, TierOf
<1>4. TheResponse' = TheResponse /\ TheResult' = TheResult
  BY DEF TheResponse, TheResult
<1>5. Responded' /\ Shown'
  BY <1>4 DEF Responded, Shown
<1> QED
  BY <1>2, <1>3, <1>5

LEMMA RelayInv ==
    ASSUME ExchangeInv, Relay PROVE ExchangeInv'
<1> USE DEF ExchangeInv, Relay
<1>1. rpc # None /\ reply # None /\ reply.kind \in {"wire", "status"}
  BY DEF Answered
<1>2. reply.kind = "wire" => Read = ValueOf(asked, meant)
  BY <1>1 DEF Answered, Read
<1>3. TheResponse' = TheResponse /\ TheResult' = TheResult
  BY DEF TheResponse, TheResult
<1>4. response' = TheResponse
  BY <1>1, <1>2 DEF TheResponse
<1>5. response' # None
  <2>1. \A v : relay(v).kind = "response"
    BY DEF relay
  <2>2. \A code : refuse(code).kind = "response"
    BY DEF refuse
  <2> QED
    BY <2>1, <2>2 DEF None
<1>6. Asked' /\ Answered' /\ Applied' /\ Broke'
  BY DEF Asked, Answered, Applied, Broke, TierOf
<1>7. Responded'
  BY <1>1, <1>3, <1>4, <1>5 DEF Responded
<1>8. Shown'
  BY <1>3, <1>5 DEF Shown
<1> QED
  BY <1>6, <1>7, <1>8

LEMMA HearInv ==
    ASSUME ExchangeInv, Hear PROVE ExchangeInv'
<1> USE DEF ExchangeInv, Hear
<1>1. reply # None /\ reply.kind \in {"wire", "status"}
  BY DEF Answered
<1>2. reply.kind = "wire" => Read = ValueOf(asked, meant)
  BY <1>1 DEF Answered, Read
<1>3. TheResponse' = TheResponse /\ TheResult' = TheResult
  BY DEF TheResponse, TheResult
<1>4. shown' = TheResult
  BY <1>1, <1>2 DEF TheResult
<1>5. Asked' /\ Answered' /\ Applied' /\ Responded'
  BY <1>3 DEF Asked, Answered, Applied, Responded
<1>6. broke \notin {"http", "proxy"}
  BY DEF Broke
<1>7. Shown'
  BY <1>1, <1>3, <1>4, <1>6 DEF Shown
<1>8. Broke'
  BY <1>6 DEF Broke
<1> QED
  BY <1>5, <1>7, <1>8

LEMMA ArriveInv ==
    ASSUME ExchangeInv, Arrive PROVE ExchangeInv'
<1> USE DEF ExchangeInv, Arrive
<1>1. asked.route # "subscribe" /\ response = TheResponse
  BY DEF Responded
<1>2. TheResponse' = TheResponse /\ TheResult' = TheResult
  BY DEF TheResponse, TheResult
<1>3. shown' = TheResult
  BY <1>1 DEF TheResult
<1>4. Asked' /\ Answered' /\ Applied' /\ Responded'
  BY <1>2 DEF Asked, Answered, Applied, Responded
<1>5. broke \notin {"http", "proxy"}
  BY DEF Broke
<1>6. Shown'
  BY <1>1, <1>2, <1>3, <1>5 DEF Shown
<1>7. Broke'
  BY <1>5 DEF Broke
<1> QED
  BY <1>4, <1>6, <1>7

LEMMA FetchFailsInv ==
    ASSUME ExchangeInv, FetchFails PROVE ExchangeInv'
<1> USE DEF ExchangeInv, FetchFails
<1>1. TheResponse' = TheResponse
  BY DEF TheResponse
<1>2. Asked' /\ Answered' /\ Applied' /\ Responded'
  BY <1>1 DEF Asked, Answered, Applied, Responded
<1>3. shown' # None
  BY DEF TypeError, None
<1>4. Shown' /\ Broke'
  BY <1>3 DEF Shown, Broke
<1> QED
  BY <1>2, <1>4

LEMMA ProxyAnswersInv ==
    ASSUME ExchangeInv, ProxyAnswers PROVE ExchangeInv'
<1> USE DEF ExchangeInv, ProxyAnswers
<1>1. TheResponse' = TheResponse
  BY DEF TheResponse
<1>2. Asked' /\ Answered' /\ Applied' /\ Responded'
  BY <1>1 DEF Asked, Answered, Applied, Responded
<1>3. shown' # None
  BY DEF ResultOf, ProxyPage, apiErrorFrom, ApiError, None
<1>4. Shown' /\ Broke'
  BY <1>3 DEF Shown, Broke
<1> QED
  BY <1>2, <1>4

LEMMA UnchangedInv ==
    ASSUME ExchangeInv, UNCHANGED vars PROVE ExchangeInv'
<1> USE DEF ExchangeInv, vars
<1>1. TheResponse' = TheResponse /\ TheResult' = TheResult
  BY DEF TheResponse, TheResult
<1>2. Asked' /\ Answered' /\ Applied' /\ Responded' /\ Shown' /\ Broke'
  BY <1>1 DEF Asked, Answered, Applied, Responded, Shown, Broke
<1> QED
  BY <1>2

LEMMA NextInv ==
    ASSUME ExchangeInv, [Next]_vars PROVE ExchangeInv'
<1>1. CASE UNCHANGED vars
  BY <1>1, UnchangedInv
<1>2. CASE Next
  BY <1>2, RefuseWithoutAskingInv, AskInv, AnswerInv, GatewayRefusesInv,
     GatewayGivesUpInv, DeadlinePassesInv, ChannelBreaksInv, BridgeActsLateInv,
     RelayInv, HearInv, ArriveInv, FetchFailsInv, ProxyAnswersInv DEF Next
<1> QED
  BY <1>1, <1>2

-----------------------------------------------------------------------------
(* What the invariant says of what is asked, answered and shown *)

(* Every step of an exchange is made of what the step before it held, and  *)
(* the whole of it of the request and of the answer as the Gateway meant   *)
(* it, however it ended (http/lights.ts, gateway/adapter.ts ask, the       *)
(* Console's api/client.ts request).                                       *)
THEOREM ExchangeInvariant == Spec => []ExchangeInv
<1>1. Init => ExchangeInv
  BY InitInv
<1>2. ExchangeInv /\ [Next]_vars => ExchangeInv'
  BY NextInv
<1> QED
  BY <1>1, <1>2, PTL DEF Spec

LEMMA StatusIs ==
    ASSUME ExchangeInv, reply # None, reply.kind = "status"
    PROVE  /\ reply.trailers \in BOOLEAN /\ reply.name \in Refusals \cup GivingUp
           /\ ~reply.trailers => reply.name \in {"DEADLINE_EXCEEDED", "UNAVAILABLE"}
           /\ rpc # None
BY DEF ExchangeInv, Answered, GivingUp

LEMMA FailedIs ==
    ASSUME ExchangeInv, reply # None, reply.kind = "status"
    PROVE  /\ CodeOf(reply, Call(asked)) \in DOMAIN ERRORS
           /\ asked.route # "subscribe" => TheResponse = refuse(CodeOf(reply, Call(asked)))
           /\ TheResult = ApiError(CodeOf(reply, Call(asked)))
<1> DEFINE code == CodeOf(reply, Call(asked))
<1>1. /\ reply.trailers \in BOOLEAN /\ reply.name \in Refusals \cup GivingUp
      /\ rpc # None
  BY StatusIs
<1>2. failureFrom(reply, Call(asked)) = code /\ code \in DOMAIN ERRORS
  BY <1>1, FailureIs, FailureHasACode
<1>3. TheResponse = refuse(code)
  BY <1>1, <1>2 DEF TheResponse
<1>4. ResultOf(refuse(code)) = ApiError(code)
  BY <1>2, RefusedIs
<1>5. asked.route = "subscribe" => Call(asked) = "read"
  BY DEF Call
<1>6. TheResult = ApiError(code)
  BY <1>2, <1>3, <1>4, <1>5 DEF TheResult
<1> QED
  BY <1>2, <1>3, <1>6

LEMMA RefusedUnaskedIs ==
    ASSUME ExchangeInv, response # None, rpc = None
    PROVE  /\ asked.route = "patch"
           /\ \E code \in {"INVALID_REQUEST", "COLOR_AND_TEMPERATURE_BOTH_SET"} :
                 /\ code \in DOMAIN ERRORS
                 /\ TheResponse = refuse(code)
                 /\ TheResult = ApiError(code)
<1> DEFINE code == readLightCommand(asked.body).code
<1>1. asked.route = "patch" /\ ~readLightCommand(asked.body).ok
  BY DEF ExchangeInv, Responded, Unsendable
<1>2. code \in {"INVALID_REQUEST", "COLOR_AND_TEMPERATURE_BOTH_SET"}
  BY <1>1, RefusalOfABody
<1>3. code \in DOMAIN ERRORS
  BY <1>2, CodesAre
<1>4. TheResponse = refuse(code)
  BY DEF TheResponse
<1>5. TheResult = ApiError(code)
  BY <1>1, <1>3, <1>4, RefusedIs DEF TheResult
<1> QED
  BY <1>1, <1>2, <1>3, <1>4, <1>5

LEMMA AnsweredIs ==
    ASSUME ExchangeInv, reply # None, reply.kind = "wire"
    PROVE  /\ rpc # None /\ meant \in PossibleAnswers(asked)
           /\ TheResponse = relay(ValueOf(asked, meant))
           /\ TheResult = [kind |-> "value", value |-> ValueOf(asked, meant)]
<1>1. rpc # None /\ meant \in PossibleAnswers(asked)
  BY DEF ExchangeInv, Answered
<1>2. TheResponse = relay(ValueOf(asked, meant))
  BY <1>1 DEF TheResponse
<1>3. TheResult = [kind |-> "value", value |-> ValueOf(asked, meant)]
  BY <1>2, RelayedIs DEF TheResult
<1> QED
  BY <1>1, <1>2, <1>3

LEMMA ProxyPageIs == ResultOf(ProxyPage) = ApiError("GATEWAY_ERROR")
BY DEF ResultOf, ProxyPage, apiErrorFrom, ApiError

(* What anybody is shown, and how it came to it. *)
LEMMA ShownIs ==
    ASSUME ExchangeInv, shown # None
    PROVE  \/ shown = TypeError /\ broke = "http"
           \/ shown = ApiError("GATEWAY_ERROR") /\ broke = "proxy"
           \/ /\ broke \notin {"http", "proxy"}
              /\ asked.route = "patch" /\ rpc = None /\ reply = None
              /\ \E code \in {"INVALID_REQUEST", "COLOR_AND_TEMPERATURE_BOTH_SET"} :
                    shown = ApiError(code)
           \/ /\ broke \notin {"http", "proxy"}
              /\ reply # None /\ reply.kind = "status"
              /\ shown = ApiError(CodeOf(reply, Call(asked)))
           \/ /\ broke \notin {"http", "proxy"}
              /\ reply # None /\ reply.kind = "wire"
              /\ meant \in PossibleAnswers(asked)
              /\ shown = [kind |-> "value", value |-> ValueOf(asked, meant)]
<1>1. CASE broke = "http"
  BY <1>1, ProxyPageIs DEF ExchangeInv, Shown
<1>2. CASE broke = "proxy"
  BY <1>2, ProxyPageIs DEF ExchangeInv, Shown
<1>3. CASE broke \notin {"http", "proxy"}
  <2>1. /\ shown = TheResult
        /\ IF asked.route = "subscribe" THEN reply # None ELSE response # None
    BY <1>3 DEF ExchangeInv, Shown
  <2>2. CASE reply # None
    <3>1. reply.kind \in {"wire", "status"}
      BY <2>2 DEF ExchangeInv, Answered
    <3> QED
      BY <1>3, <2>1, <2>2, <3>1, FailedIs, AnsweredIs
  <2>3. CASE reply = None
    <3>1. response # None /\ rpc = None
      BY <2>1, <2>3 DEF ExchangeInv, Responded
    <3> QED
      BY <1>3, <2>1, <2>3, <3>1, RefusedUnaskedIs
  <2> QED
    BY <2>2, <2>3
<1> QED
  BY <1>1, <1>2, <1>3

-----------------------------------------------------------------------------
(* Each property, from the invariant *)

LEMMA ToldTrueHolds ==
    ASSUME ExchangeInv PROVE ToldTrue
<1> SUFFICES ASSUME shown # None, asked.route = "patch"
             PROVE  /\ MessageOf(shown) \in DenyingWords => ~applied
                    /\ Got /\ shown.value.outcome \in {"success", "partial"} => applied
                    /\ /\ reply.kind = "status" /\ reply.name = "DEADLINE_EXCEEDED"
                       /\ broke = "nothing"
                       => MessageOf(shown) = CouldNotConfirm
  BY DEF ToldTrue
<1>0. Call(asked) = "update"
  BY DEF Call
<1>1. CASE shown = TypeError /\ broke = "http"
  BY <1>1, WordsAre DEF Got, TypeError, NoMessage, DenyingWords
<1>2. CASE shown = ApiError("GATEWAY_ERROR") /\ broke = "proxy"
  BY <1>2, WordsAre DEF Got, ApiError, messageForError, DenyingWords
<1>3. CASE reply = None /\ \E code : shown = ApiError(code)
  <2>1. ~applied
    BY <1>3 DEF ExchangeInv, Applied
  <2> QED
    BY <1>3, <2>1 DEF Got, ApiError, None
<1>4. CASE /\ reply # None /\ reply.kind = "status"
           /\ shown = ApiError(CodeOf(reply, "update"))
  <2>1. /\ reply.trailers \in BOOLEAN /\ reply.name \in Refusals \cup GivingUp
        /\ ~reply.trailers => reply.name \in {"DEADLINE_EXCEEDED", "UNAVAILABLE"}
    BY <1>4, StatusIs
  <2>2. MessageOf(shown) = messageForError(CodeOf(reply, "update")) /\ ~Got
    BY <1>4, WordsAre DEF Got, ApiError
  <2>3. applied => reply.name \in GivingUp
    BY <1>4, <2>1 DEF ExchangeInv, Applied, GivingUp
  <2>4. reply.name \in GivingUp => MessageOf(shown) \notin DenyingWords
    BY <2>1, <2>2 DEF CodeOf, GivingUp, messageForError, DenyingWords, CouldNotConfirm
  <2>5. reply.name = "DEADLINE_EXCEEDED" => MessageOf(shown) = CouldNotConfirm
    BY <2>1, <2>2 DEF CodeOf, messageForError
  <2> QED
    BY <2>2, <2>3, <2>4, <2>5
<1>5. CASE /\ reply # None /\ reply.kind = "wire"
           /\ meant \in PossibleAnswers(asked)
           /\ shown = [kind |-> "value", value |-> ValueOf(asked, meant)]
  <2>1. meant \in Mutations
    BY <1>5 DEF PossibleAnswers
  <2>2. ValueOf(asked, meant) = acknowledgementFrom(meant)
    BY DEF ValueOf
  <2>3. Consistent(meant, applied) /\ applied \in BOOLEAN
    BY <1>5 DEF ExchangeInv, Applied
  <2> DEFINE outcome == acknowledgementFrom(meant).outcome
  <2>4. MessageOf(shown) = messageForOutcome(outcome)
    BY <1>5, <2>2, WordsAre
  <2>5. shown.value.outcome = outcome
    BY <1>5, <2>2
  <2>6. outcome = CASE meant.updated # <<>> /\ meant.errors # <<>> -> "partial"
                [] meant.updated # <<>> /\ meant.errors = <<>> -> "success"
                [] meant.updated = <<>> /\ meant.errors # <<>> -> "rejected"
                [] meant.updated = <<>> /\ meant.errors = <<>> -> "unknown"
    BY <2>1, OutcomeIs
  <2> HIDE DEF outcome
  <2>7. outcome \in {"success", "partial"} => applied
    BY <2>3, <2>6 DEF Consistent
  <2>8. outcome = "rejected" => ~applied
    BY <2>3, <2>6 DEF Consistent
  <2>9. MessageOf(shown) \in DenyingWords => outcome = "rejected"
    BY <2>4, <2>6 DEF messageForOutcome, DenyingWords, NoMessage, CouldNotConfirm
  <2> QED
    BY <1>5, <2>5, <2>7, <2>8, <2>9
<1> QED
  BY <1>0, <1>1, <1>2, <1>3, <1>4, <1>5, ShownIs

LEMMA OutageNamesTheTierHolds ==
    ASSUME ExchangeInv PROVE OutageNamesTheTier
<1> SUFFICES ASSUME shown.kind \in {"ApiError", "TypeError"}, Call(asked) = "read"
             PROVE  classifyOutage(shown) =
                        CASE broke = "http" -> "console_api_unreachable"
                          [] broke = "channel" -> "gateway_unreachable"
                          [] broke = "bridge" -> "bridge_unreachable"
                          [] broke \in {"proxy", "nothing"} -> "other"
  BY DEF OutageNamesTheTier
<1>1. shown # None
  BY DEF None
<1>2. CASE shown = TypeError /\ broke = "http"
  BY <1>2 DEF classifyOutage, TypeError
<1>3. CASE shown = ApiError("GATEWAY_ERROR") /\ broke = "proxy"
  BY <1>3 DEF classifyOutage, ApiError
<1>4. CASE /\ broke \notin {"http", "proxy"}
           /\ reply # None /\ reply.kind = "status"
           /\ shown = ApiError(CodeOf(reply, "read"))
  <2>1. /\ reply.trailers \in BOOLEAN /\ reply.name \in Refusals \cup GivingUp
        /\ ~reply.trailers => reply.name \in {"DEADLINE_EXCEEDED", "UNAVAILABLE"}
    BY <1>4, StatusIs
  <2>2. broke = TierOf(reply)
    BY <1>4 DEF ExchangeInv, Broke
  <2>3. classifyOutage(shown) =
           IF CodeOf(reply, "read") = "GATEWAY_UNREACHABLE" THEN "gateway_unreachable"
           ELSE IF CodeOf(reply, "read") \in {"BRIDGE_UNREACHABLE", "GATEWAY_NOT_PAIRED"}
                THEN "bridge_unreachable" ELSE "other"
    BY <1>4 DEF classifyOutage, ApiError
  <2> QED
    BY <1>4, <2>1, <2>2, <2>3 DEF TierOf, CodeOf, BridgeSide, Refusals, GivingUp
<1>5. asked.route # "patch"
  BY DEF Call
<1>6. ~\E v : shown = [kind |-> "value", value |-> v]
  OBVIOUS
<1> QED
  BY <1>1, <1>2, <1>3, <1>4, <1>5, <1>6, ShownIs

LEMMA ListsAreAnswered ==
    ASSUME NEW m, asked.route = "list", m \in PossibleAnswers(asked)
    PROVE  m.lights \in Lists
BY DEF PossibleAnswers

LEMMA KeepsTheContractHolds ==
    ASSUME ExchangeInv PROVE KeepsTheContract
<1> SUFFICES ASSUME response # None
             PROVE  IF response.status # 200 THEN
                        /\ IsEnvelope(response.json)
                        /\ response.status = ERRORS[response.json.code].httpStatus
                    ELSE CASE asked.route = "list" ->
                                \A i \in DOMAIN response.json : IsLight(response.json[i])
                           [] asked.route = "get" -> IsLight(response.json)
                           [] asked.route = "patch" -> IsAcknowledgement(response.json)
  BY DEF KeepsTheContract
<1>1. /\ response = TheResponse /\ asked.route # "subscribe"
      /\ rpc # None => reply # None
  BY DEF ExchangeInv, Responded
<1>2. ASSUME NEW code \in DOMAIN ERRORS, response = refuse(code)
      PROVE  /\ response.status # 200
             /\ IsEnvelope(response.json)
             /\ response.status = ERRORS[response.json.code].httpStatus
  <2>1. /\ response.status = ERRORS[code].httpStatus
        /\ response.json = [k \in {"code"} |-> code]
    BY <1>2 DEF refuse
  <2>2. ERRORS[code].httpStatus # 200
    BY NoCodeIsASuccess
  <2> QED
    BY <2>1, <2>2 DEF IsEnvelope
<1>3. CASE rpc = None
  BY <1>1, <1>2, <1>3, RefusedUnaskedIs
<1>4. CASE rpc # None /\ reply.kind = "status"
  BY <1>1, <1>2, <1>4, FailedIs
<1>5. CASE rpc # None /\ reply.kind = "wire"
  <2> DEFINE v == ValueOf(asked, meant)
  <2>1. meant \in PossibleAnswers(asked) /\ response = relay(v)
    BY <1>1, <1>5, AnsweredIs
  <2>2. response.status = 200 /\ response.json = v
    BY <2>1 DEF relay
  <2>3. asked.route \in {"list", "get", "patch"}
    BY <1>1 DEF ExchangeInv, Asked, Requests
  <2>4. CASE asked.route = "list"
    <3>1. v = [i \in DOMAIN meant.lights |-> lightFrom(meant.lights[i])]
      BY <2>4 DEF ValueOf
    <3>2. meant.lights \in Lists
      BY <2>1, <2>4, ListsAreAnswered
    <3>3. \A i \in DOMAIN v : v[i] = lightFrom(meant.lights[i]) /\ IsReport(meant.lights[i])
      BY <3>1, <3>2, ListIs
    <3>4. \A i \in DOMAIN v : IsLight(v[i])
      BY <3>3, LightKeepsTheContract
    <3> QED
      BY <2>2, <2>4, <3>4
  <2>5. CASE asked.route = "get"
    <3>1. v = lightFrom(meant) /\ IsReport(meant)
      BY <2>1, <2>5, MessagesAssumption DEF ValueOf, PossibleAnswers
    <3> QED
      BY <2>2, <2>5, <3>1, LightKeepsTheContract
  <2>6. CASE asked.route = "patch"
    <3>1. v = acknowledgementFrom(meant) /\ meant \in Mutations
      BY <2>1, <2>6 DEF ValueOf, PossibleAnswers
    <3> QED
      BY <2>2, <2>6, <3>1, AcknowledgementKeepsTheContract
  <2> QED
    BY <2>3, <2>4, <2>5, <2>6
<1>6. rpc # None => reply.kind \in {"status", "wire"}
  BY <1>1 DEF ExchangeInv, Answered
<1> QED
  BY <1>3, <1>4, <1>5, <1>6

LEMMA GotIs ==
    ASSUME ExchangeInv, Got
    PROVE  meant \in PossibleAnswers(asked) /\ shown.value = ValueOf(asked, meant)
<1>1. shown.kind = "value" /\ shown # None
  BY DEF Got, None
<1>2. shown # TypeError /\ \A code : shown # ApiError(code)
  BY <1>1 DEF TypeError, ApiError
<1> QED
  BY <1>1, <1>2, ShownIs

LEMMA ShownAsReportedHolds ==
    ASSUME ExchangeInv PROVE ShownAsReported
<1> SUFFICES ASSUME Got
             PROVE  /\ asked.route = "list" =>
                          /\ Len(shown.value) = Len(meant.lights)
                          /\ \A i \in DOMAIN shown.value :
                                TellsOf(shown.value[i], meant.lights[i])
                    /\ asked.route = "get" => TellsOf(shown.value, meant)
  BY DEF ShownAsReported
<1>1. meant \in PossibleAnswers(asked) /\ shown.value = ValueOf(asked, meant)
  BY GotIs
<1>2. ASSUME asked.route = "list"
      PROVE  /\ Len(shown.value) = Len(meant.lights)
             /\ \A i \in DOMAIN shown.value : TellsOf(shown.value[i], meant.lights[i])
  <2>1. shown.value = [i \in DOMAIN meant.lights |-> lightFrom(meant.lights[i])]
    BY <1>1, <1>2 DEF ValueOf
  <2>2. meant.lights \in Lists
    BY <1>1, <1>2, ListsAreAnswered
  <2>3. /\ Len(shown.value) = Len(meant.lights)
        /\ \A i \in DOMAIN shown.value : /\ shown.value[i] = lightFrom(meant.lights[i])
                                         /\ IsReport(meant.lights[i])
    BY <2>1, <2>2, ListIs
  <2> QED
    BY <2>3, LightTellsOfItsReport
<1>3. ASSUME asked.route = "get" PROVE TellsOf(shown.value, meant)
  <2>1. shown.value = lightFrom(meant) /\ IsReport(meant)
    BY <1>1, <1>3, MessagesAssumption DEF ValueOf, PossibleAnswers
  <2> QED
    BY <2>1, LightTellsOfItsReport
<1> QED
  BY <1>2, <1>3

LEMMA NoticeAsReportedHolds ==
    ASSUME ExchangeInv PROVE NoticeAsReported
<1> DEFINE named == Set(meant, "change") /\ Set(meant.change, "resource")
           notice == shown.value
<1> SUFFICES ASSUME Got, asked.route = "subscribe"
             PROVE  /\ (notice.kind = "invalidation") = named
                    /\ (notice.kind = "gap") = Set(meant, "gap")
                    /\ named =>
                          /\ notice.resource.rid = meant.change.resource.rid
                          /\ (notice.resource.rtype = "RTYPE_LIGHT")
                                = (<<meant.change.resource.rtype>> = LightOnly)
                          /\ (notice.change = "added") = (meant.change.type = 1)
                          /\ (notice.change = "removed") = (meant.change.type = 2)
  BY DEF NoticeAsReported
<1>1. meant \in Happenings /\ notice = noticeFrom(meant)
  BY GotIs DEF PossibleAnswers, ValueOf
<1>2. /\ Set(meant, "change") =>
            /\ meant.change.type \in Int /\ ~Set(meant, "gap")
            /\ Set(meant.change, "resource") => meant.change.resource.rtype \in Int
  BY <1>1, MessagesAssumption
<1>3. CASE named
  <2>1. /\ notice.kind = "invalidation"
        /\ notice.change = changeFrom(meant.change.type)
        /\ notice.resource = identifierFrom(meant.change.resource)
    BY <1>1, <1>3, NoticeIs
  <2>2. /\ notice.resource.rid = meant.change.resource.rid
        /\ (notice.resource.rtype = "RTYPE_LIGHT")
              = (<<meant.change.resource.rtype>> = LightOnly)
    BY <1>2, <1>3, <2>1, IdentifierIs
  <2>3. /\ (notice.change = "added") = (meant.change.type = 1)
        /\ (notice.change = "removed") = (meant.change.type = 2)
    BY <1>2, <1>3, <2>1, ChangeIs
  <2>4. (notice.kind = "invalidation") = named /\ (notice.kind = "gap") = Set(meant, "gap")
    BY <1>2, <1>3, <2>1 DEF Set
  <2> QED
    BY <2>2, <2>3, <2>4
<1>4. CASE ~named
  <2>1. notice.kind = IF Set(meant, "gap") THEN "gap" ELSE "nothing"
    BY <1>1, <1>4, NoticeIs
  <2> QED
    BY <1>4, <2>1 DEF Set
<1> QED
  BY <1>3, <1>4

LEMMA ReceivedIs ==
    ASSUME ExchangeInv, rpc # None
    PROVE  Received = RequestMessage(asked) /\ ~Unsendable(asked) /\ asked \in Requests
<1>1. /\ asked \in Requests /\ ~Unsendable(asked)
      /\ rpc.of = encode(RequestType(asked), RequestMessage(asked))
  BY DEF ExchangeInv, Asked
<1> QED
  BY <1>1, WireAssumption DEF Received

LEMMA PatchIs ==
    ASSUME ExchangeInv, rpc # None, asked.route = "patch"
    PROVE  LET c == [k \in DOMAIN asked.body.of |-> Plain(asked.body.of[k])]
           IN  /\ Received.lightId = LightId /\ Received.command = commandFor(c)
               /\ Expressible(asked.body) /\ asked.body \in Bodies
               /\ DOMAIN asked.body.of # {}
               /\ \A k \in DOMAIN asked.body.of : InRange(k, asked.body.of[k])
<1>1. Received = RequestMessage(asked) /\ readLightCommand(asked.body).ok
  BY ReceivedIs DEF Unsendable
<1>2. asked.body \in Bodies
  BY ReceivedIs DEF Requests
<1>3. /\ Received.lightId = LightId
      /\ Received.command = commandFor(readLightCommand(asked.body).command)
  BY <1>1 DEF RequestMessage
<1> QED
  BY <1>1, <1>2, <1>3, CommandOfABody

LEMMA AskedAsCommittedHolds ==
    ASSUME ExchangeInv PROVE AskedAsCommitted
<1> SUFFICES ASSUME rpc # None
             PROVE  /\ asked.route \in {"get", "patch"} => Received.lightId = LightId
                    /\ asked.route = "subscribe" => Received.resourceTypes = LightOnly
                    /\ asked.route = "patch" =>
                          LET put == Received.command
                              keys == DOMAIN asked.body.of
                          IN  /\ DOMAIN put = {PutPath[k][1] : k \in keys}
                              /\ \A k \in keys :
                                    put[PutPath[k][1]][PutPath[k][2]] = Plain(asked.body.of[k])
  BY DEF AskedAsCommitted
<1>1. asked.route = "get" => Received.lightId = LightId
  BY ReceivedIs DEF RequestMessage
<1>2. asked.route = "subscribe" => Received.resourceTypes = LightOnly
  BY ReceivedIs DEF RequestMessage
<1>3. ASSUME asked.route = "patch"
      PROVE  /\ Received.lightId = LightId
             /\ DOMAIN Received.command = {PutPath[k][1] : k \in DOMAIN asked.body.of}
             /\ \A k \in DOMAIN asked.body.of :
                   Received.command[PutPath[k][1]][PutPath[k][2]] = Plain(asked.body.of[k])
  <2> DEFINE c == [k \in DOMAIN asked.body.of |-> Plain(asked.body.of[k])]
  <2>1. /\ Received.lightId = LightId /\ Received.command = commandFor(c)
        /\ Expressible(asked.body)
    BY <1>3, PatchIs
  <2>2. /\ DOMAIN c = DOMAIN asked.body.of
        /\ \A k \in DOMAIN c : c[k] = Plain(asked.body.of[k])
    OBVIOUS
  <2>3. DOMAIN c \subseteq Keys /\ ~{"colorXy", "colorTemperatureMirek"} \subseteq DOMAIN c
    BY <2>1, <2>2 DEF Expressible
  <2> HIDE DEF c
  <2>4. /\ DOMAIN commandFor(c) = {PutPath[k][1] : k \in DOMAIN c}
        /\ \A k \in DOMAIN c : commandFor(c)[PutPath[k][1]][PutPath[k][2]] = c[k]
    BY <2>3, PutAsAsked
  <2> QED
    BY <2>1, <2>2, <2>4
<1> QED
  BY <1>1, <1>2, <1>3

LEMMA RefusesWhatHueRefusesHolds ==
    ASSUME ExchangeInv PROVE RefusesWhatHueRefuses
<1> DEFINE c == [k \in DOMAIN asked.body.of |-> Plain(asked.body.of[k])]
<1> SUFFICES ASSUME asked.route = "patch"
             PROVE  /\ rpc # None => HueAccepts(Received.command)
                    /\ Unsendable(asked) /\ Expressible(asked.body) =>
                          ~HueAccepts(commandFor(c))
  BY DEF RefusesWhatHueRefuses
<1>1. ASSUME rpc # None PROVE HueAccepts(Received.command)
  <2>1. /\ Received.command = commandFor(c)
        /\ Expressible(asked.body) /\ asked.body \in Bodies
        /\ DOMAIN asked.body.of # {}
        /\ \A k \in DOMAIN asked.body.of : InRange(k, asked.body.of[k])
    BY <1>1, PatchIs
  <2>2. HueAccepts(commandFor(c))
    BY <2>1, AcceptedIs
  <2> HIDE DEF c
  <2> QED
    BY <2>1, <2>2
<1>2. ASSUME Unsendable(asked), Expressible(asked.body)
      PROVE  ~HueAccepts(commandFor(c))
  <2>1. asked.body \in Bodies
    BY DEF ExchangeInv, Asked, Requests
  <2>2. \/ DOMAIN asked.body.of = {}
        \/ \E k \in DOMAIN asked.body.of : ~InRange(k, asked.body.of[k])
    BY <1>2, NoCommandOfABody DEF Unsendable
  <2>3. HueAccepts(commandFor(c)) <=>
           /\ DOMAIN asked.body.of # {}
           /\ \A k \in DOMAIN asked.body.of : InRange(k, asked.body.of[k])
    BY <1>2, <2>1, AcceptedIs
  <2> HIDE DEF c
  <2> QED
    BY <2>2, <2>3
<1> HIDE DEF c
<1> QED
  BY <1>1, <1>2

-----------------------------------------------------------------------------
(* The theorems *)

(* Whatever was reported, and however an RPC ended, the Console API        *)
(* answers in the shape its contract gives the route, and a failure with   *)
(* the status of its code (http/lights.ts, answer.ts).                     *)
THEOREM AlwaysKeepsTheContract == Spec => []KeepsTheContract
<1>1. ExchangeInv => KeepsTheContract
  BY KeepsTheContractHolds
<1> QED
  BY <1>1, ExchangeInvariant, PTL

(* The Gateway is asked for exactly what the body has, false and zero      *)
(* included (contract/command.ts, codec.ts commandFor).                    *)
THEOREM AlwaysAskedAsCommitted == Spec => []AskedAsCommitted
<1>1. ExchangeInv => AskedAsCommitted
  BY AskedAsCommittedHolds
<1> QED
  BY <1>1, ExchangeInvariant, PTL

(* A body is refused before it is sent if and only if Hue would refuse     *)
(* what would have been sent (contract/command.ts).                        *)
THEOREM AlwaysRefusesWhatHueRefuses == Spec => []RefusesWhatHueRefuses
<1>1. ExchangeInv => RefusesWhatHueRefuses
  BY RefusesWhatHueRefusesHolds
<1> QED
  BY <1>1, ExchangeInvariant, PTL

(* A person is shown each light with the values reported of it and no      *)
(* other (codec.ts lightFrom).                                             *)
THEOREM AlwaysShownAsReported == Spec => []ShownAsReported
<1>1. ExchangeInv => ShownAsReported
  BY ShownAsReportedHolds
<1> QED
  BY <1>1, ExchangeInvariant, PTL

(* A Notice says of a named Resource what the event said, whatever the     *)
(* number of its change (codec.ts noticeFrom).                             *)
THEOREM AlwaysNoticeAsReported == Spec => []NoticeAsReported
<1>1. ExchangeInv => NoticeAsReported
  BY NoticeAsReportedHolds
<1> QED
  BY <1>1, ExchangeInvariant, PTL

(* Who is told that a Command came to nothing is told the truth, and a     *)
(* success was one, in whatever order answers, deadlines, lost connections *)
(* and the Bridge come (gateway/status.ts, acknowledgementMessage.ts).     *)
THEOREM AlwaysToldTrue == Spec => []ToldTrue
<1>1. ExchangeInv => ToldTrue
  BY ToldTrueHolds
<1> QED
  BY <1>1, ExchangeInvariant, PTL

(* A read that failed is put down to the tier that was down                *)
(* (gateway/adapter.ts failureFrom, apiError.ts classifyOutage).           *)
THEOREM AlwaysOutageNamesTheTier == Spec => []OutageNamesTheTier
<1>1. ExchangeInv => OutageNamesTheTier
  BY OutageNamesTheTierHolds
<1> QED
  BY <1>1, ExchangeInvariant, PTL

-----------------------------------------------------------------------------
(* The colour temperature's slider *)

Million == 1000000

-----------------------------------------------------------------------------
(* Rounding *)

(* A quotient is known by the bounds of its product. *)
LEMMA RoundedIs ==
    ASSUME NEW v \in Nat \ {0}, NEW r \in Int,
           2 * (v * r) <= 2 * Million + v,
           2 * Million + v < 2 * (v * r) + 2 * v
    PROVE  reciprocalMillion(v) = r
BY SMT DEF reciprocalMillion, Million

LEMMA RoundingIs ==
    ASSUME NEW v \in Nat \ {0}
    PROVE  /\ reciprocalMillion(v) \in Nat
           /\ 2 * (v * reciprocalMillion(v)) <= 2 * Million + v
           /\ 2 * Million + v < 2 * (v * reciprocalMillion(v)) + 2 * v
BY SMT DEF reciprocalMillion, Million

(* Up to a thousand mirek there is never less than a kelvin to a mirek. *)
LEMMA MoreKelvinThanMirek ==
    ASSUME NEW m \in 1..1000
    PROVE  m <= kelvinFromMirek(m)
<1> DEFINE k == kelvinFromMirek(m)
<1>1. k \in Nat /\ 2 * Million + m < 2 * (m * k) + 2 * m
  BY RoundingIs DEF kelvinFromMirek
<1>2. m * m <= Million
  BY SMT DEF Million
<1>3. SUFFICES ASSUME k <= m - 1 PROVE FALSE
  BY <1>1
<1>4. m * k <= m * (m - 1) /\ m * (m - 1) = m * m - m
  BY <1>1, <1>3, SMT
<1> HIDE DEF k
<1>5. m * k <= Million - m
  BY <1>1, <1>2, <1>4, SMT DEF Million
<1>6. m * k \in Int
  BY <1>1
<1> QED
  BY <1>1, <1>5, <1>6 DEF Million

-----------------------------------------------------------------------------
(* The slider *)

(* A temperature shown in kelvin and let go of where it was is the same    *)
(* temperature (ColorTemperatureSlider, whose thumb stands where the       *)
(* Light's own mirek puts it), up to a thousand mirek and not only for the *)
(* bulbs there are.                                                        *)
THEOREM LetGoWhereItIsKept ==
    \A m \in 1..1000 : mirekFromKelvin(kelvinFromMirek(m)) = m
<1> SUFFICES ASSUME NEW m \in 1..1000
             PROVE  mirekFromKelvin(kelvinFromMirek(m)) = m
  OBVIOUS
<1> DEFINE k == kelvinFromMirek(m)
<1>1. /\ k \in Nat
      /\ 2 * (m * k) <= 2 * Million + m
      /\ 2 * Million + m < 2 * (m * k) + 2 * m
  BY RoundingIs DEF kelvinFromMirek
<1>2. m <= k
  BY MoreKelvinThanMirek
<1> HIDE DEF k
<1>3. m * k = k * m /\ k * m \in Int
  BY <1>1
<1>4. 2 * (k * m) <= 2 * Million + k /\ 2 * Million + k < 2 * (k * m) + 2 * k
  BY <1>1, <1>2, <1>3 DEF Million
<1>5. k \in Nat \ {0} /\ m \in Int
  BY <1>1, <1>2
<1>6. reciprocalMillion(k) = m
  BY ONLY <1>4, <1>5, RoundedIs
<1> QED
  BY <1>6 DEF k, mirekFromKelvin

(* Wherever the slider is let go of, what is sent is in the bulb's range;  *)
(* and each end of the slider sends that end of the range, although the    *)
(* ends were rounded to kelvins (ColorTemperatureSlider's commit).         *)
THEOREM CommitsWithinTheBulb ==
    ASSUME NEW range \in [mirekMinimum : 1..1000, mirekMaximum : 1..1000],
           range.mirekMinimum <= range.mirekMaximum
    PROVE  /\ \A kelvin \in Nat \ {0} :
                 commit(range, kelvin) \in range.mirekMinimum..range.mirekMaximum
           /\ commit(range, kelvinBoundsFor(range).min) = range.mirekMaximum
           /\ commit(range, kelvinBoundsFor(range).max) = range.mirekMinimum
<1> DEFINE low == range.mirekMinimum
           high == range.mirekMaximum
<1>1. low \in 1..1000 /\ high \in 1..1000 /\ low <= high
  OBVIOUS
<1>2. \A kelvin \in Nat \ {0} : mirekFromKelvin(kelvin) \in Nat
  BY RoundingIs DEF mirekFromKelvin
<1>3. \A kelvin : commit(range, kelvin) =
         LET mirek == mirekFromKelvin(kelvin)
             atLeast == IF mirek < low THEN low ELSE mirek
         IN  IF atLeast > high THEN high ELSE atLeast
  BY DEF commit
<1>4. mirekFromKelvin(kelvinBoundsFor(range).min) = high
  BY <1>1, LetGoWhereItIsKept DEF kelvinBoundsFor
<1>5. mirekFromKelvin(kelvinBoundsFor(range).max) = low
  BY <1>1, LetGoWhereItIsKept DEF kelvinBoundsFor
<1> HIDE DEF low, high
<1>6. \A kelvin \in Nat \ {0} : commit(range, kelvin) \in low..high
  BY <1>1, <1>2, <1>3
<1>7. /\ commit(range, kelvinBoundsFor(range).min) = high
      /\ commit(range, kelvinBoundsFor(range).max) = low
  BY <1>1, <1>3, <1>4, <1>5
<1> QED
  BY <1>6, <1>7 DEF low, high
=============================================================================
