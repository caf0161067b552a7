---------------------------- MODULE MCActionSpec ----------------------------
(* Instance of ActionSpec: specs that differ in one respect or two.        *)
EXTENDS ActionSpec, JsonSchema, TLC

Number(type) == [type |-> type, low |-> 1, high |-> 2]
Boolean      == [type |-> "boolean", low |-> 0, high |-> 0]
Text         == [type |-> "string", low |-> 0, high |-> 1]
List         == [type |-> "array", low |-> 0, high |-> 1, items |-> Boolean]
Options(additional) ==
  [type |-> "object", low |-> 0, high |-> 0, additional |-> additional,
   properties |-> [retries |-> Number("integer")], required |-> {"retries"}]

At(name, path, required, schema) ==
  [name |-> name, path |-> path, required |-> required, schema |-> schema,
   enum |-> {}, placeholder |-> ""]
Optional(name, schema, placeholder) ==
  [At(name, <<name>>, FALSE, schema) EXCEPT !.placeholder = placeholder]

Mode      == [At("mode", <<"mode">>, TRUE, Text) EXCEPT !.enum = {<<"text", "a">>}]
AnyMode   == At("mode", <<"mode">>, TRUE, Text)
Whole     == At("options", <<"options">>, FALSE, Options({}))
Open      == At("options", <<"options">>, FALSE, Options({[type |-> "any"]}))
Flags     == At("options", <<"options">>, FALSE, Options({Boolean}))
Retries   == At("options.retries", <<"options", "retries">>, TRUE, Number("int"))
Note      == At("options.note", <<"options", "note">>, FALSE, Text)
Wait(default)        == Optional("wait", Boolean, default)
Speed(type, default) == Optional("speed", Number(type), default)
Steps(default)       == Optional("steps", List, default)
Allow(default)       == Optional("allow_download", Boolean, default)

Only(command, confirmed, inputs) ==
  command :> [confirmed |-> confirmed, inputs |-> inputs]
Fold(inputs) == Only("fold", FALSE, inputs)

MCSpecs ==
  {Fold({Mode, Wait("true")}), Fold({AnyMode, Wait("false")}),
   Fold({Mode, Wait("")}), Fold({AnyMode}), Only("fold", TRUE, {Mode}),
   Fold({Retries, Note}), Fold({Retries}), Fold({Whole}), Fold({Open}), Fold({Flags}),
   Fold({Whole, Retries}),
   Fold({Speed("float", "1")}), Fold({Speed("int", "1"), Steps("[]")}),
   Fold({Speed("float", "x"), Steps("x")}),
   Only("override_vla_model", FALSE, {Allow("true")}),
   Only("override_vla_model", FALSE, {Allow("")}),
   Only("download_vla_model", FALSE, {})}

MCSpelled(type, raw) ==
  CASE raw = "1" /\ type \in {"int", "float"} ->
         <<IF type = "int" THEN <<"integer", 1>> ELSE <<"float", 1>> >>
    [] raw = "[]" /\ type = "array" -> << <<"array", <<>> >> >>
    [] OTHER -> <<>>
=============================================================================
