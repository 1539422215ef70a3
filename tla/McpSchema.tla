------------------------------ MODULE McpSchema ------------------------------
(***************************************************************************)
(* The schema pre-flight of a tool call (src/src/mcp/schema.rs): how the   *)
(* validator walks a schema and fills in defaults, the schemas and the     *)
(* argument lists the macros write (gritshield_macros/src/mcp), and which  *)
(* arguments a prompt insists on (prompt.rs). A schema is a tree and the   *)
(* validator recursive.                                                    *)
(***************************************************************************)
EXTENDS Integers, Sequences, FiniteSets, SequencesExt, TLC

VARIABLE
  argument     (* One call's arguments on their way through a schema.      *)

-----------------------------------------------------------------------------
(* JSON values, tagged so that 3 and 3.0 differ as serde_json has them; a    *)
(* "float" counts halves.                                                    *)
Nil == <<"null", 0>>
Number(v) == v[1] \in {"int", "float"}
Halves(v) == IF v[1] = "int" THEN 2 * v[2] ELSE v[2]
Missing(v) == v = Nil \/ v = <<"str", << >>>>

(* type_name gives a float "number"; an integral one passes for an integer.  *)
MatchesType(type, v) ==
  CASE type = "integer" -> v[1] = "int" \/ (v[1] = "float" /\ v[2] % 2 = 0)
    [] type = "number" -> Number(v)
    [] OTHER -> v[1] = CASE type = "string" -> "str" [] type = "array" -> "arr" [] type = "object" -> "obj"
                         [] type = "boolean" -> "bool" [] OTHER -> "null"

(* A schema is the keywords it has, as a record: none for true, never for    *)
(* false. normalize_schema makes every tool's an object schema.              *)
Anything == [k \in {} |-> Nil]
Has(s, keyword) == keyword \in DOMAIN s
Normalized(s) == s @@ [type |-> {"object"}, properties |-> [k \in {} |-> Anything]]
IfAny(broken, keyword) == IF broken THEN <<keyword>> ELSE << >>

Scalars(s, v) ==
  IfAny(Has(s, "const") /\ v # s.const, "const")
  \o IfAny(Has(s, "enum") /\ v \notin s.enum, "enum")

(* A pattern is the set of strings it matches; one that is no regular        *)
(* expression is skipped, as if it were not there.                           *)
Strings(s, v) ==
  IF v[1] # "str" THEN << >>
  ELSE IfAny(Has(s, "minLength") /\ Len(v[2]) < s.minLength, "minLength")
    \o IfAny(Has(s, "maxLength") /\ Len(v[2]) > s.maxLength, "maxLength")
    \o IfAny(Has(s, "pattern") /\ v[2] \notin s.pattern, "pattern")

Numbers(s, v) ==
  IF ~Number(v) THEN << >>
  ELSE IfAny(Has(s, "minimum") /\ Halves(v) < 2 * s.minimum, "minimum")
    \o IfAny(Has(s, "maximum") /\ Halves(v) > 2 * s.maximum, "maximum")
    \o IfAny(Has(s, "exclusiveMinimum") /\ Halves(v) <= 2 * s.exclusiveMinimum, "exclusiveMinimum")
    \o IfAny(Has(s, "exclusiveMaximum") /\ Halves(v) >= 2 * s.exclusiveMaximum, "exclusiveMaximum")
    \o IfAny(Has(s, "multipleOf") /\ s.multipleOf > 0 /\ Halves(v) % (2 * s.multipleOf) # 0, "multipleOf")

Unique(items) == \A i, j \in DOMAIN items : i # j => items[i] # items[j]
Arrays(s, items) ==
  IfAny(Has(s, "minItems") /\ Len(items) < s.minItems, "minItems")
  \o IfAny(Has(s, "maxItems") /\ Len(items) > s.maxItems, "maxItems")
  \o IfAny(Has(s, "uniqueItems") /\ ~Unique(items), "uniqueItems")

(* check: the value with its defaults filled in, and the keywords it breaks. *)
Checked(v, out) == [value |-> v, out |-> out]
RECURSIVE Check(_, _)

(* The first branch of anyOf that takes v decides what v becomes.            *)
AnyOf(s, v) ==
  IF ~Has(s, "anyOf") THEN Checked(v, << >>)
  ELSE LET fits == {i \in DOMAIN s.anyOf : Check(s.anyOf[i], v).out = << >>}
       IN IF fits = {} THEN Checked(v, <<"anyOf">>)
          ELSE Check(s.anyOf[CHOOSE i \in fits : \A j \in fits : i <= j], v)

Items(s, items) ==
  LET checked == [i \in DOMAIN items |-> IF Has(s, "items") THEN Check(s.items, items[i]) ELSE Checked(items[i], << >>)]
  IN Checked(<<"arr", [i \in DOMAIN items |-> checked[i].value]>>,
             Arrays(s, items) \o FlattenSeq([i \in DOMAIN items |-> checked[i].out]))

(* required looks at what was sent, before any default is filled in; a       *)
(* property that is filled in is not checked.                                *)
Fields(s, map) ==
  LET declared == IF Has(s, "properties") THEN s.properties ELSE [k \in {} |-> Anything]
      filled == {k \in DOMAIN declared \ DOMAIN map : Has(declared[k], "default")}
      more == IF Has(s, "additionalProperties") THEN s.additionalProperties ELSE Anything
      checked == [k \in DOMAIN map |-> Check(IF k \in DOMAIN declared THEN declared[k] ELSE more, map[k])]
  IN Checked(<<"obj", [k \in DOMAIN map \cup filled |-> IF k \in filled THEN declared[k].default ELSE checked[k].value]>>,
             IfAny(Has(s, "required") /\ ~(s.required \subseteq DOMAIN map), "required")
             \o FlattenSeq(SetToSeq({checked[k].out : k \in DOMAIN map})))

(* Mutation of Check: defaults are filled in after the value is checked.     *)
CheckAsSent(s, given) ==
  LET inner == IF given[1] = "arr" THEN Items(s, given[2]) ELSE IF given[1] = "obj" THEN Fields(s, given[2])
               ELSE Checked(IF Has(s, "default") /\ Missing(given) THEN s.default ELSE given, << >>)
  IN IF Has(s, "type") /\ ~\E t \in s.type : MatchesType(t, given) THEN Checked(given, <<"type">>)
     ELSE Checked(inner.value, Scalars(s, given) \o Strings(s, given) \o Numbers(s, given) \o inner.out)
Check(s, given) ==
  LET v == IF Has(s, "default") /\ Missing(given) THEN s.default ELSE given
      some == AnyOf(s, v)
      w == some.value
      inner == IF w[1] = "arr" THEN Items(s, w[2]) ELSE IF w[1] = "obj" THEN Fields(s, w[2]) ELSE Checked(w, << >>)
  IN IF Has(s, "never") THEN Checked(given, <<"false">>)
     ELSE IF Has(s, "type") /\ ~\E t \in s.type : MatchesType(t, v) THEN Checked(v, <<"type">>)
     ELSE Checked(inner.value, Scalars(s, v) \o some.out \o Strings(s, w) \o Numbers(s, w) \o inner.out)

-----------------------------------------------------------------------------
(* Registration and call. A tool is written down with a schema or without    *)
(* one, a prompt with its arguments ("summary!,severity?") and descriptions  *)
(* for some of them; an argument is [name, required].                        *)
EmptyObjectSchema == [type |-> {"object"}, properties |-> [k \in {} |-> Anything]]
ToolSchema(attr) == Normalized(IF attr.schema = << >> THEN EmptyObjectSchema ELSE attr.schema[1])

(* expand_mcp_prompt: what does not compile, and what prompts/list shows.    *)
Declared(attr) == {a.name : a \in ToSet(attr.arguments)}
Compiles(attr) ==
  /\ "" \notin Declared(attr)
  /\ attr.described \subseteq Declared(attr)
Advertised(attr) == {a \in ToSet(attr.arguments) : a.required}
(* Mutation of MissingRequired: an argument sent as null counts as left out. *)
MissingRequiredOrNull(attr, supplied) ==
  {a.name : a \in Advertised(attr)}
  \ (IF supplied[1] = "obj" THEN {k \in DOMAIN supplied[2] : supplied[2][k] # Nil} ELSE {})
MissingRequired(attr, supplied) ==
  {a.name : a \in Advertised(attr)} \ (IF supplied[1] = "obj" THEN DOMAIN supplied[2] ELSE {})

ArgumentInit(attrs, values) ==
  \E attr \in attrs, v \in values : argument = [attr |-> attr, given |-> v, ends |-> "written", got |-> v]

Compile ==
  /\ argument.ends = "written"
  /\ argument' = [argument EXCEPT !.ends = IF argument.attr.kind = "prompt" /\ ~Compiles(argument.attr)
                                           THEN "rejected" ELSE "registered"]

(* call_tool's pre-flight, and get_prompt's.                                 *)
CallTool ==
  /\ argument.ends = "registered" /\ argument.attr.kind = "tool"
  /\ LET checked == Check(ToolSchema(argument.attr), argument.given)
     IN argument' = IF checked.out = << >> THEN [argument EXCEPT !.ends = "reached", !.got = checked.value]
                    ELSE [argument EXCEPT !.ends = "refused"]

GetPrompt ==
  /\ argument.ends = "registered" /\ argument.attr.kind = "prompt"
  /\ argument' = [argument EXCEPT !.ends = IF MissingRequired(argument.attr, argument.given) = {} THEN "reached" ELSE "refused"]

ArgumentNext == Compile \/ CallTool \/ GetPrompt

-----------------------------------------------------------------------------
(* What JSON Schema says a value must be to conform, keyword by keyword.     *)
(* Two numbers are the same if they have the same value: 3.0 is 3.           *)
RECURSIVE Canonical(_)
Canonical(v) ==
  CASE v[1] = "float" /\ v[2] % 2 = 0 -> <<"int", v[2] \div 2>>
    [] v[1] = "arr" -> <<"arr", [i \in DOMAIN v[2] |-> Canonical(v[2][i])]>>
    [] v[1] = "obj" -> <<"obj", [k \in DOMAIN v[2] |-> Canonical(v[2][k])]>>
    [] OTHER -> v
Same(v, w) == Canonical(v) = Canonical(w)

RECURSIVE Conforms(_, _)
Conforms(s, v) ==
  LET Is(type) == CASE type = "integer" -> Number(v) /\ Halves(v) % 2 = 0
                    [] OTHER -> MatchesType(type, v)
  IN /\ ~Has(s, "never")
     /\ Has(s, "type") => \E t \in s.type : Is(t)
     /\ Has(s, "const") => Same(v, s.const)
     /\ Has(s, "enum") => \E e \in s.enum : Same(v, e)
     /\ Has(s, "anyOf") => \E i \in DOMAIN s.anyOf : Conforms(s.anyOf[i], v)
     /\ v[1] = "str" => /\ Has(s, "minLength") => Len(v[2]) >= s.minLength
                        /\ Has(s, "maxLength") => Len(v[2]) <= s.maxLength
                        /\ Has(s, "pattern") => v[2] \in s.pattern
     /\ Number(v) => /\ Has(s, "minimum") => Halves(v) \div 2 >= s.minimum
                     /\ Has(s, "maximum") => Halves(v) <= 2 * s.maximum
                     /\ Has(s, "exclusiveMinimum") => Halves(v) > 2 * s.exclusiveMinimum
                     /\ Has(s, "exclusiveMaximum") => Halves(v) < 2 * s.exclusiveMaximum
                     /\ Has(s, "multipleOf") => \E n \in -9 .. 9 : Halves(v) = 2 * n * s.multipleOf
     /\ v[1] = "arr" => /\ Has(s, "minItems") => Len(v[2]) >= s.minItems
                        /\ Has(s, "maxItems") => Len(v[2]) <= s.maxItems
                        /\ Has(s, "uniqueItems") => \A i, j \in DOMAIN v[2] : i # j => ~Same(v[2][i], v[2][j])
                        /\ Has(s, "items") => \A i \in DOMAIN v[2] : Conforms(s.items, v[2][i])
     /\ v[1] = "obj" => /\ Has(s, "required") => s.required \subseteq DOMAIN v[2]
                        /\ \A k \in DOMAIN v[2] :
                             IF Has(s, "properties") /\ k \in DOMAIN s.properties THEN Conforms(s.properties[k], v[2][k])
                             ELSE Has(s, "additionalProperties") => Conforms(s.additionalProperties, v[2][k])

(* The schemas inside a schema, and whether it has a keyword at any depth.   *)
Parts(s) ==
  UNION {IF k \notin DOMAIN s THEN {} ELSE IF k \in {"properties", "anyOf"} THEN Range(s[k]) ELSE {s[k]} :
           k \in {"properties", "anyOf", "items", "additionalProperties"}}
RECURSIVE Uses(_, _)
Uses(s, keywords) == DOMAIN s \cap keywords # {} \/ \E t \in Parts(s) : Uses(t, keywords)

(* A schema whose defaults are sound: each conforms where it stands, since   *)
(* one filled in for a property is not checked; and no keyword that looks at *)
(* a whole value stands above one, since it has looked before the default is *)
(* filled in.                                                                *)
Comparisons == {"const", "enum", "uniqueItems"}
RECURSIVE DefaultsFit(_)
DefaultsFit(s) ==
  /\ Has(s, "default") => Conforms(s, s.default)
  /\ DOMAIN s \cap (Comparisons \cup {"anyOf"}) # {} => \A t \in Parts(s) : ~Uses(t, {"default"})
  /\ \A t \in Parts(s) : DefaultsFit(t)

(* The validator compares 3 and 3.0 as different.                            *)
Clear(s, v) == DefaultsFit(s) /\ (Uses(s, Comparisons) => Canonical(v) = v)

(* What was sent arrives: nothing but a null or an empty string gives way to *)
(* a default, and only what was left out is added.                           *)
RECURSIVE Arrives(_, _)
Arrives(sent, got) ==
  \/ Missing(sent)
  \/ sent = got
  \/ /\ sent[1] = "arr" /\ got[1] = "arr" /\ DOMAIN sent[2] = DOMAIN got[2]
     /\ \A i \in DOMAIN sent[2] : Arrives(sent[2][i], got[2][i])
  \/ /\ sent[1] = "obj" /\ got[1] = "obj" /\ DOMAIN sent[2] \subseteq DOMAIN got[2]
     /\ \A k \in DOMAIN sent[2] : Arrives(sent[2][k], got[2][k])

(* A tool whose schema has sound defaults is handed arguments that conform   *)
(* to it, and refuses none that conform as sent, where no comparison of 3    *)
(* with 3.0 is called for: the code has these two differ, JSON Schema has    *)
(* not. Whatever the schema, what was sent arrives, defaults apart. A prompt *)
(* runs exactly when what prompts/list calls required was supplied.          *)
ArgumentsAreSound ==
  LET schema == ToolSchema(argument.attr) IN
  IF argument.attr.kind = "tool"
  THEN /\ argument.ends = "reached" => Arrives(argument.given, argument.got)
       /\ argument.ends = "reached" /\ Clear(schema, argument.given) => Conforms(schema, argument.got)
       /\ argument.ends = "refused" /\ Clear(schema, argument.given) => ~Conforms(schema, argument.given)
  ELSE argument.ends \in {"reached", "refused"} =>
         (argument.ends = "reached" <=>
            \A a \in Advertised(argument.attr) : argument.given[1] = "obj" /\ a.name \in DOMAIN argument.given[2])
=============================================================================
