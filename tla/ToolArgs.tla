-------------------------------- MODULE ToolArgs --------------------------------
(***************************************************************************)
(* checkToolArgs, which every TypeScript server runs on the arguments of a *)
(* call before its handler reads them.  An arguments object is a function  *)
(* from its own keys to JSON values; a schema is a record of the types of  *)
(* its properties and the set of the required ones.                        *)
(***************************************************************************)
EXTENDS Naturals

\* A JSON value: its kind, and what it holds where that matters.
Json(kind, value) == [kind |-> kind, value |-> value]

\* Names every JavaScript object answers to without owning them.
Inherited == {"constructor", "toString"}

\* Mutant: any number is an integer.
matchesTypeof(v, type) ==
  CASE type \in {"string", "boolean", "object"} -> v.kind = type
    [] type \in {"integer", "number"} -> v.kind \in {"integer", "fraction"}
    [] OTHER -> TRUE

\* A type that is not modelled accepts everything.
matchesType(v, type) ==
  CASE type \in {"string", "integer", "boolean", "object"} -> v.kind = type
    [] type = "number" -> v.kind \in {"integer", "fraction"}
    [] OTHER -> TRUE

\* The first reason to refuse args, or "null".
checkToolArgs(schema, args) ==
  LET a     == IF args.kind \in {"absent", "null"} THEN Json("object", <<>>) ELSE args
      own   == DOMAIN a.value
      types == schema.properties
  IN  CASE ~matchesType(a, "object")          -> "not an object"
        [] ~(schema.required \subseteq own)   -> "required"
        [] ~(own \subseteq DOMAIN types)      -> "additional"
        [] \E key \in own : ~matchesType(a.value[key], types[key]) -> "type"
        [] OTHER                              -> "null"
================================================================================
