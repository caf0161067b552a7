---------------------------- MODULE JsonSchema -----------------------------
(***************************************************************************)
(* The schema subset of the robot's action specs: when a value fits a      *)
(* schema, as recovery_executor.py decides it, and which values a schema   *)
(* describes.  Values and schemas nest, and so do these definitions; they  *)
(* are the values that a configuration gives to Equal, Valid and Described *)
(* of ActionSpec.                                                          *)
(***************************************************************************)
EXTENDS JsonValue, Integers, Sequences

CONSTANTS
  Texts,  \* texts an argument may be
  Extras  \* names beyond the declared ones an open object may have

IsNumber(v) == v[1] \in {"integer", "float"}

-----------------------------------------------------------------------------
(* Values and schemas.                                                     *)

\* _json_values_equal: numbers by value, everything else by type and value.
RECURSIVE SameJson(_, _)
SameJson(l, r) ==
  \/ IsNumber(l) /\ IsNumber(r) /\ l[2] = r[2]
  \/ l[1] = r[1] /\ l[1] \in {"null", "boolean", "text"} /\ l = r
  \/ /\ l[1] = r[1] /\ l[1] \in {"array", "object"}
     /\ DOMAIN l[2] = DOMAIN r[2]
     /\ \A n \in DOMAIN l[2] : SameJson(l[2][n], r[2][n])

\* Minimum and maximum of a number, of a length, of a number of items.
Within(size, schema) == schema.low <= size /\ size <= schema.high

\* _validate_schema_value, _validate_object_schema.  Additional properties have
\* no schema, and are refused, one schema, or the one of any value.
RECURSIVE Conforms(_, _)
Conforms(v, schema) ==
  CASE schema.type \in {"int", "integer"} ->
         v[1] = "integer" /\ Within(v[2], schema)
    [] schema.type \in {"float", "number"} ->
         IsNumber(v) /\ Within(v[2], schema)
    [] schema.type = "boolean" -> v[1] = "boolean"
    [] schema.type = "string" -> v[1] = "text" /\ Within(Len(v[2]), schema)
    [] schema.type = "array" ->
         /\ v[1] = "array" /\ Within(Len(v[2]), schema)
         /\ \A k \in DOMAIN v[2] : Conforms(v[2][k], schema.items)
    [] schema.type = "object" ->
         /\ v[1] = "object" /\ schema.required \subseteq DOMAIN v[2]
         /\ \A n \in DOMAIN v[2] :
              IF n \in DOMAIN schema.properties
                THEN Conforms(v[2][n], schema.properties[n])
                ELSE \E extra \in schema.additional :
                       extra.type = "any" \/ Conforms(v[2][n], extra)
    [] OTHER -> FALSE

\* _validate_input_value
FitsInput(v, input) ==
  IF v = Null THEN ~ input.required
  ELSE /\ Conforms(v, input.schema)
       /\ input.enum = {} \/ v \in input.enum

-----------------------------------------------------------------------------
(* The arguments of a command.  An input's name is a path into them.       *)

Prefix(p, q) == Len(p) <= Len(q) /\ p = SubSeq(q, 1, Len(p))

\* Every input has a name of its own, and none lies inside another.
PathsAreUsable(inputs) ==
  \A i, j \in inputs : i.path # <<>> /\ (Prefix(i.path, j.path) => i = j)

\* The inputs at or below a name, seen from there.
Below(inputs, n) ==
  {[i EXCEPT !.path = Tail(@)] : i \in {j \in inputs : Head(j.path) = n}}

\* validate_object
RECURSIVE FitsInputs(_, _)
FitsInputs(f, inputs) ==
  \A n \in DOMAIN f :
    LET below == Below(inputs, n)
        here  == {i \in below : i.path = <<>>}
    IN  /\ below # {}
        /\ IF here # {}
             THEN \A i \in here : FitsInput(f[n], i)
             ELSE f[n][1] = "object" /\ FitsInputs(f[n][2], below)

\* _path_value
RECURSIVE ValueAt(_, _)
ValueAt(v, path) ==
  IF path = <<>> THEN v
  ELSE IF v[1] = "object" /\ Head(path) \in DOMAIN v[2]
         THEN ValueAt(v[2][Head(path)], Tail(path))
         ELSE Missing

\* Mutant: only inputs of the top level are required.
SuppliesTopLevel(arguments, inputs) ==
  \A i \in inputs :
    i.required /\ Len(i.path) = 1 =>
      ValueAt(Object(arguments), i.path) \notin {Missing, Null, <<"text", "">>}

SuppliesRequired(arguments, inputs) ==
  \A i \in inputs :
    i.required =>
      ValueAt(Object(arguments), i.path) \notin {Missing, Null, <<"text", "">>}

\* _validate_action_arguments
ValidArguments(arguments, inputs) ==
  /\ PathsAreUsable(inputs)
  /\ FitsInputs(arguments, inputs)
  /\ SuppliesRequired(arguments, inputs)

-----------------------------------------------------------------------------
(* What a schema describes, as a set: the reference for the judgement.     *)

Sequences(S, low, high) == UNION {[1 .. k -> S] : k \in low .. high}

\* Functions on some of the names, the required ones at least, with each
\* name's own values.
Choices(names, required, Of(_)) ==
  LET all(S) == {f \in [S -> UNION {Of(n) : n \in S}] : \A n \in S : f[n] \in Of(n)}
  IN  UNION {all(S) : S \in {T \in SUBSET names : required \subseteq T}}

\* The values a schema describes; of any value, some.
RECURSIVE Values(_)
Values(schema) ==
  LET numbers == schema.low .. schema.high
  IN  CASE schema.type \in {"int", "integer"} -> {<<"integer", n>> : n \in numbers}
        [] schema.type \in {"float", "number"} -> {"integer", "float"} \X numbers
        [] schema.type = "boolean" -> {<<"boolean", b>> : b \in BOOLEAN}
        [] schema.type = "string" ->
             {<<"text", t>> : t \in {u \in Texts : Len(u) \in numbers}}
        [] schema.type = "array" ->
             {<<"array", s>> : s \in Sequences(Values(schema.items), schema.low, schema.high)}
        [] schema.type = "object" ->
             LET declared == DOMAIN schema.properties
                 Of(n) == IF n \in declared THEN Values(schema.properties[n])
                                             ELSE UNION {Values(e) : e \in schema.additional}
             IN  {Object(f) : f \in
                    Choices(declared \cup (IF schema.additional = {} THEN {} ELSE Extras),
                            schema.required, Of)}
        [] schema.type = "any" ->
             {<<"text", t>> : t \in Texts} \cup {<<"boolean", b>> : b \in BOOLEAN} \cup {Null}

InputValues(input) ==
  LET allowed == IF input.enum = {} THEN Values(input.schema)
                                    ELSE Values(input.schema) \cap input.enum
  IN  IF input.required THEN allowed \ {<<"text", "">>} ELSE allowed \cup {Null}

\* The arguments that usable inputs describe: a tree along their paths.
RECURSIVE Documents(_)
Documents(inputs) ==
  LET Of(n) ==
        LET below == Below(inputs, n)
            here  == {i \in below : i.path = <<>>}
        IN  IF here # {} THEN UNION {InputValues(i) : i \in here}
                         ELSE {Object(f) : f \in Documents(below)}
  IN  Choices({Head(i.path) : i \in inputs},
              {Head(i.path) : i \in {j \in inputs : j.required}}, Of)
=============================================================================
