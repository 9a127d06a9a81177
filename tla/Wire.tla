-------------------------------- MODULE Wire --------------------------------
(***************************************************************************)
(* What the generated bindings do with their tables: messages written to   *)
(* the wire, read back from it, and their JSON.                            *)
(*                                                                         *)
(* A message is a record; a field that is undefined is not in its DOMAIN,  *)
(* and a member of a oneof is a field under its own name.  On the wire it  *)
(* is a sequence of entries, each a tag (a field's number and a wire type) *)
(* and a value; an embedded message is a sequence again.  An enumeration   *)
(* is a number, and open: any number is read.  How a number or a string is *)
(* laid out in bytes, a Date, the tags that end a group, and the limit on  *)
(* nesting are left out.                                                   *)
(***************************************************************************)
EXTENDS Bindings, FiniteSets, SequencesExt, TLC

IsMessage(type) == type \in DOMAIN Messages
IsEnum(type) == type \in DOMAIN Enumerations
Listed(f) == f.rule \in {"many", "packed"}

Fields(type) == {Messages[type][i] : i \in DOMAIN Messages[type]}

(* A record with one field for each of a sequence of fields. *)
Record(fields, Value(_)) ==
    [n \in {fields[i].name : i \in DOMAIN fields} |->
        Value(fields[CHOOSE i \in DOMAIN fields : fields[i].name = n])]

Varint == 0
Fixed64 == 1
Delimited == 2

WireType(type) ==
    IF type \in {"string"} \cup DOMAIN Messages THEN Delimited
    ELSE IF type = "double" THEN Fixed64
    ELSE Varint

Zero(type) ==
    CASE type = "string" -> ""
      [] type = "bool" -> FALSE
      [] OTHER -> 0

(* `createBase`: what a message is before anything of it is read. *)
Base(type) ==
    Record(SelectSeq(Messages[type], LAMBDA f : f.rule = "one" \/ Listed(f)),
           LAMBDA f : IF Listed(f) THEN <<>> ELSE Zero(f.type))

-----------------------------------------------------------------------------
(* Writing *)

RECURSIVE Encode(_, _)

Entry(f, wire, value) == [number |-> f.number, wire |-> wire, value |-> value]

(* What one value of a field is on the wire. *)
Payload(f, v) == IF IsMessage(f.type) THEN Encode(f.type, v) ELSE v

(* The entries one field of a message is written as. *)
Entries(f, m) ==
    LET single(v) == <<Entry(f, WireType(f.type), Payload(f, v))>>
    IN  CASE f.rule = "one" ->
                IF m[f.name] = Zero(f.type) THEN <<>> ELSE single(m[f.name])
          [] f.rule \in {"maybe", "case"} ->
                IF Set(m, f.name) THEN single(m[f.name]) ELSE <<>>
          [] f.rule = "many" ->
                [i \in DOMAIN m[f.name] |-> single(m[f.name][i])[1]]
          [] f.rule = "packed" -> <<Entry(f, Delimited, m[f.name])>>

(* `encode`. *)
Encode(type, m) ==
    FlattenSeq([i \in DOMAIN Messages[type] |-> Entries(Messages[type][i], m)])

-----------------------------------------------------------------------------
(* Reading *)

RECURSIVE Decode(_, _)

(* A tag is known when the number and the wire type are both the field's;  *)
(* a packed field may also arrive one value at a time.                     *)
Knows(f, e) ==
    /\ e.number = f.number
    /\ IF f.rule = "packed" THEN e.wire \in {Delimited, WireType(f.type)}
       ELSE e.wire = WireType(f.type)

(* The entries a field is read from; those nobody knows are skipped. *)
Known(f, w) == SelectSeq(w, LAMBDA e : Knows(f, e))

(* Of the members of a oneof, the one whose entry comes last is set. *)
HasLastWord(type, f, w) ==
    LET group == SelectSeq(w, LAMBDA e : \E g \in Fields(type) :
                                g.group = f.group /\ Knows(g, e))
    IN  Knows(f, Last(group))

(* Whether the message, once read, has the field. *)
IsRead(type, f, w) ==
    \/ f.rule = "one" \/ Listed(f)
    \/ /\ Known(f, w) # <<>>
       /\ f.rule = "case" => HasLastWord(type, f, w)

Value(f, e) == IF IsMessage(f.type) THEN Decode(f.type, e.value) ELSE e.value

(* What it holds: every entry of a repeated field, the last of any other. *)
Held(f, w) ==
    LET known == Known(f, w)
    IN  CASE f.rule = "many" -> [i \in DOMAIN known |-> Value(f, known[i])]
          [] f.rule = "packed" ->
                FlattenSeq([i \in DOMAIN known |->
                    IF known[i].wire = Delimited THEN known[i].value
                    ELSE <<known[i].value>>])
          [] f.rule = "one" /\ known = <<>> -> Zero(f.type)
          [] OTHER -> Value(f, Last(known))

(* `decode`. *)
Decode(type, w) ==
    Record(SelectSeq(Messages[type], LAMBDA f : IsRead(type, f, w)),
           LAMBDA f : Held(f, w))

-----------------------------------------------------------------------------
(* A newer writer *)

RECURSIVE Newer(_, _)

(* What a newer Gateway writes: everywhere a field of its own first, and   *)
(* one whose type it has changed.                                          *)
Newer(type, w) ==
    LET embedded(e) == {f \in Fields(type) : Knows(f, e) /\ IsMessage(f.type)}
        rewritten(e) ==
            IF embedded(e) = {} THEN e
            ELSE [e EXCEPT !.value = Newer((CHOOSE f \in embedded(e) : TRUE).type, @)]
    IN  <<[number |-> 60, wire |-> Delimited, value |-> <<>>],
          [number |-> 1, wire |-> 5, value |-> 0]>>
        \o [i \in DOMAIN w |-> rewritten(w[i])]

-----------------------------------------------------------------------------
(* JSON *)

RECURSIVE ToJSON(_, _)
RECURSIVE FromJSON(_, _)

ValueToJSON(f, v) ==
    IF IsMessage(f.type) THEN ToJSON(f.type, v)
    ELSE IF IsEnum(f.type) THEN EnumToJSON(f.type, v) ELSE v

ValueFromJSON(f, j) ==
    IF IsMessage(f.type) THEN FromJSON(f.type, j)
    ELSE IF IsEnum(f.type) THEN EnumFromJSON(f.type, j) ELSE j

(* Which fields of a message its JSON has. *)
InJSON(f, m) ==
    CASE f.rule = "one" -> m[f.name] # Zero(f.type)
      [] f.rule \in {"many", "packed"} -> m[f.name] # <<>>
      [] OTHER -> Set(m, f.name)

(* `toJSON`. *)
ToJSON(type, m) ==
    Record(SelectSeq(Messages[type], LAMBDA f : InJSON(f, m)),
           LAMBDA f : IF Listed(f)
                      THEN [i \in DOMAIN m[f.name] |-> ValueToJSON(f, m[f.name][i])]
                      ELSE ValueToJSON(f, m[f.name]))

(* Which fields it is read to have: of the members of a oneof, the first   *)
(* of the table that the JSON has.                                         *)
FromJSONHas(type, f, j) ==
    /\ Set(j, f.name)
    /\ f.rule = "case" =>
          LET among == SelectSeq(Messages[type], LAMBDA g :
                           g.group = f.group /\ Set(j, g.name))
          IN  f = Head(among)

(* `fromJSON`. *)
FromJSON(type, j) ==
    Record(SelectSeq(Messages[type], LAMBDA f : FromJSONHas(type, f, j)),
           LAMBDA f : IF Listed(f)
                      THEN [i \in DOMAIN j[f.name] |-> ValueFromJSON(f, j[f.name][i])]
                      ELSE ValueFromJSON(f, j[f.name]))
    @@ Base(type)
=============================================================================
