----------------------------- MODULE MCExchange -----------------------------
(* Bodies with every key absent, at and past the ends of its range, null   *)
(* or of the wrong type, in every combination; and reports, events and     *)
(* Acknowledgements with everything set, nothing set, halves of things,    *)
(* zeros, and values newer than the bindings.                              *)
EXTENDS Exchange, Wire, Domain

-----------------------------------------------------------------------------
(* Bodies *)

Absent == [kind |-> "absent"]

Xy(x, y) == Object([x |-> Number(x), y |-> Number(y)])

Offered ==
    [on |-> {Absent, Boolean(TRUE), Boolean(FALSE), Null},
     brightness |-> {Absent, Number(0), Number(42500), Number(100000),
                     Number(100001), Text},
     colorTemperatureMirek |-> {Absent, Number(153000), Number(500000),
                                Number(152000), Number(250500)},
     colorXy |-> {Absent, Xy(0, 1000), Xy(1001, 0),
                  Object([x |-> Number(300)])},
     effect |-> {Absent, Null}]

Chosen(c) == Object([k \in {k \in DOMAIN c : c[k] # Absent} |-> c[k]])

SomeBodies ==
    {Null, Text} \cup
    {Chosen([on |-> o, brightness |-> b, colorTemperatureMirek |-> t,
             colorXy |-> xy, effect |-> e]) :
        o \in Offered.on, b \in Offered.brightness,
        t \in Offered.colorTemperatureMirek, xy \in Offered.colorXy,
        e \in Offered.effect}

-----------------------------------------------------------------------------
(* Messages of the Gateway's *)

RECURSIVE Full(_, _)

(* A message with all of its fields set, to zero or to something else; of  *)
(* a oneof, the member with the lowest number.                             *)
Full(type, zero) ==
    LET first(f) == f.rule = "case" =>
                       \A g \in Fields(type) :
                          g.group = f.group => f.number <= g.number
        one(f) == IF IsMessage(f.type) THEN Full(f.type, zero)
                  ELSE IF zero THEN Zero(f.type)
                  ELSE IF f.type = "string" THEN "text"
                  ELSE IF f.type = "bool" THEN TRUE ELSE 1
        listed(f) == IF zero THEN <<>> ELSE <<one(f), one(f)>>
    IN  Record(SelectSeq(Messages[type], first),
               LAMBDA f : IF Listed(f) THEN listed(f) ELSE one(f))

(* What is written is read back, whole or bare, from the wire and from     *)
(* JSON, for every message of the bindings.                                *)
ASSUME RoundTrip ==
    \A type \in DOMAIN Messages :
        \A m \in {Base(type), Full(type, TRUE), Full(type, FALSE)} :
            /\ Decode(type, Encode(type, m)) = m
            /\ FromJSON(type, ToJSON(type, m)) = m

(* Each wire number names one field. *)
ASSUME OneFieldPerNumber ==
    \A type \in DOMAIN Messages : \A f, g \in Fields(type) :
        f.number = g.number => f = g

(* Of the members of a oneof the last on the wire is kept, and of JSON the *)
(* first of the table: the contract's rule about colours is there because  *)
(* one of the two would be lost.                                           *)
ASSUME OneColourIsKept ==
    LET json == [k \in {"color", "colorTemperature"} |-> EmptyRecord]
        both == Encode("LightPut", ("color" :> Base("Color")) @@ Base("LightPut"))
                \o Encode("LightPut", ("colorTemperature" :> Base("ColorTemperature"))
                                      @@ Base("LightPut"))
    IN  /\ {"color", "colorTemperature"} \cap DOMAIN Decode("LightPut", both)
              = {"colorTemperature"}
        /\ {"color", "colorTemperature"} \cap DOMAIN FromJSON("LightPut", json)
              = {"color"}

light == "light1"
Named(m) == [m EXCEPT !.id = light]

Bare == Named(Base("LightGet"))
Whole == Named(Full("LightGet", FALSE))
Zeros == Named(Full("LightGet", TRUE))

(* Nobody named it in these bindings, and half of each range is missing.   *)
Halves ==
    ("metadata" :> [Base("LightGet_Metadata") EXCEPT !.name = "lamp", !.archetype = 70])
    @@ ("on" :> [on |-> TRUE])
    @@ ("dimming" :> ("minDimLevel" :> 2000))
    @@ ("colorTemperature" :> ("mirekSchema" :> ("mirekMinimum" :> 153000)))
    @@ ("color" :> ("gamut" :> ("red" :> [x |-> 700, y |-> 300])))
    @@ Bare

SomeReports == {Bare, Whole, Zeros, Halves}

SomeLists == {<<>>} \cup (SomeReports \X SomeReports)

Resource(rtype) == [rid |-> light, rtype |-> rtype]

Change(type, rtype) ==
    Base("HueEvent")
    @@ ("change" :> (("resource" :> Resource(rtype))
                     @@ ("type" :> type) @@ Base("ResourceChange")))

SomeHappenings ==
    {Base("HueEvent"), Full("HueEvent", FALSE), Full("HueEvent", TRUE),
     Base("HueEvent") @@ ("change" :> Base("ResourceChange"))}
    \cup {Change(type, rtype) : type \in 0..5, rtype \in {0, LightOnly[1], 90}}
    \cup {Base("HueEvent") @@ ("gap" :> [cause |-> c, missed |-> n]) :
             c \in 0..3, n \in {0, 7}}

SomeMutations ==
    {[updated |-> u, errors |-> e] :
        u \in {<<>>, <<Resource(LightOnly[1])>>,
               <<Resource(0), Resource(90)>>},
        e \in {<<>>, <<[description |-> ""]>>}}

-----------------------------------------------------------------------------
(* The Console's controls *)

Mireks == 153..500

(* A temperature shown in kelvin and let go of where it was is the same    *)
(* temperature, whatever the bulb's range around it.                       *)
ASSUME LetGoWhereItWas ==
    \A m \in Mireks : mirekFromKelvin(kelvinFromMirek(m)) = m

(* The Console's copy of what any bulb accepts is the contract's.          *)
ASSUME OneMirekRange ==
    /\ MIREK.minimum = DEFAULT_MIREK_RANGE.mirekMinimum * Thousand
    /\ MIREK.maximum = DEFAULT_MIREK_RANGE.mirekMaximum * Thousand

(* Wherever in its bounds the slider of a bulb is let go of, both ends     *)
(* included, the Command is inside the bulb's range, and both ends of that *)
(* range can be reached.                                                   *)
ASSUME EveryKelvinCommits ==
    \A range \in {DEFAULT_MIREK_RANGE, [mirekMinimum |-> 153, mirekMaximum |-> 454],
                  [mirekMinimum |-> 250, mirekMaximum |-> 454]} :
        LET bounds == kelvinBoundsFor(range)
        IN  /\ \A kelvin \in bounds.min..bounds.max :
                  commit(range, kelvin) \in range.mirekMinimum..range.mirekMaximum
            /\ commit(range, bounds.min) = range.mirekMaximum
            /\ commit(range, bounds.max) = range.mirekMinimum

(* The Bridge names its lights in any order; the list has one.             *)
ASSUME TheListHasOneOrder ==
    LET lights == {[name |-> n, id |-> i] : n \in 1..2, i \in 1..2}
        orders == {o \in [1..4 -> lights] : \A i, j \in 1..4 : o[i] = o[j] => i = j}
    IN  \A o, p \in orders : sortLightsByName(o) = sortLightsByName(p)
=============================================================================
