----------------------------- MODULE QueryEvents -----------------------------
(***************************************************************************)
(* What an event says of a query: build_event of proxy/connection.rs, with *)
(* the anonymiser of protocol/anonymize.rs and the parameters of a Bind as *)
(* protocol/bind.rs decodes them.                                          *)
(*                                                                         *)
(* A text is the sequence of its statements.  The parser is external: it   *)
(* knows a statement by its shape and the values in it, or not at all.  A  *)
(* value has a kind and stands for what is written there.                  *)
(***************************************************************************)
EXTENDS Naturals, SequencesExt

CONSTANTS
    Ast,        \* per statement, [shape, values], or Unparsable
    Unparsable,
    Unknown,    \* the text "[unknown: ...]"
    Redacted,   \* REDACTED_QUERY
    Nothing     \* None, and what is left of a value without its content

ASSUME EventAssumption == Unknown \in DOMAIN Ast /\ Ast[Unknown] = Unparsable

-----------------------------------------------------------------------------
(* QueryAnonymizer.                                                        *)
IsSensitiveLiteral(v) ==
    v.kind \in {"Number", "SingleQuotedString", "DoubleQuotedString", "Boolean", "Null"}

(* The salted hash of the literal, whatever its kind.                      *)
HashValue(v) == <<"blake3", v.of>>

ValueCollector(values) ==
    LET literals == SelectSeq(values, IsSensitiveLiteral)
    IN  [i \in DOMAIN literals |-> HashValue(literals[i])]

ValueReplacer(values) ==
    [i \in DOMAIN values |->
       IF IsSensitiveLiteral(values[i]) THEN [kind |-> "Placeholder", of |-> "?"]
       ELSE values[i]]

ResidualLiteral(values) == \E i \in DOMAIN values : IsSensitiveLiteral(values[i])

NormalizeStatement(s) == [Ast[s] EXCEPT !.values = ValueReplacer(@)]

(* One statement that does not parse, or keeps a literal, and there is no  *)
(* result.                                                                 *)
Anonymize(text) ==
    IF \/ \E i \in DOMAIN text : Ast[text[i]] = Unparsable
       \/ \E i \in DOMAIN text : ResidualLiteral(NormalizeStatement(text[i]).values)
    THEN Nothing
    ELSE [normalized_query |-> [i \in DOMAIN text |-> NormalizeStatement(text[i])],
          value_fingerprints |->
            FlattenSeq([i \in DOMAIN text |-> ValueCollector(Ast[text[i]].values)])]

-----------------------------------------------------------------------------
(* decode_params.  A raw parameter is Nothing for NULL, or says whether it *)
(* is UTF-8, whether it reads as a value of its type, and what it is.      *)
ParamKind ==
    [BOOL |-> "Bool", BYTEA |-> "Bytes", INT8 |-> "Int64", INT2 |-> "Int16", INT4 |-> "Int32",
     OID |-> "Int32", TEXT |-> "Text", VARCHAR |-> "Text", FLOAT4 |-> "Float32",
     FLOAT8 |-> "Float64", NUMERIC |-> "Numeric", UUID |-> "Uuid", JSON |-> "Json",
     JSONB |-> "Json"]

(* The types whose text is kept, and those without a fixed binary size.    *)
Textual == {"NUMERIC", "TEXT", "VARCHAR", "JSON", "JSONB"}

Varying == {"TEXT", "VARCHAR", "BYTEA", "JSON", "JSONB"}

DecodeTextParam(raw, oid) ==
    IF ~raw.utf8 THEN "Bytes"
    ELSE IF oid \in DOMAIN ParamKind /\ (oid \in Textual \/ raw.fits) THEN ParamKind[oid]
    ELSE "Text"

DecodeBinaryParam(raw, oid) ==
    CASE oid \in {"TEXT", "VARCHAR"} -> IF raw.utf8 THEN "Text" ELSE "Bytes"
      [] oid = "BYTEA" -> "Bytes"
      [] oid \in {"JSON", "JSONB"} -> IF raw.utf8 THEN "Json" ELSE "Unknown"
      [] oid \in DOMAIN ParamKind \ (Varying \cup {"NUMERIC"}) ->
           IF raw.fits THEN ParamKind[oid] ELSE "Unknown"
      [] OTHER -> "Unknown"

(* No code: all text; one: for all; more: one each, text where missing.    *)
GetFormatCode(codes, i) ==
    IF Len(codes) = 1 THEN codes[1] ELSE IF i \in DOMAIN codes THEN codes[i] ELSE 0

NullParam == [kind |-> "Null", of |-> Nothing]

DecodeParams(raws, codes, oids) ==
    [i \in DOMAIN raws |->
       LET oid == IF i \in DOMAIN oids THEN oids[i] ELSE "0" IN
       IF raws[i] = Nothing THEN NullParam
       ELSE [kind |-> IF GetFormatCode(codes, i) = 0 THEN DecodeTextParam(raws[i], oid)
                      ELSE DecodeBinaryParam(raws[i], oid),
             of |-> raws[i].of]]

(* Without the statement nothing is known of their types.                  *)
UnknownParams(raws) ==
    [i \in DOMAIN raws |->
       IF raws[i] = Nothing THEN NullParam ELSE [kind |-> "Unknown", of |-> raws[i].of]]

(* redact_param: the kind stays.                                           *)
RedactParams(params) == [i \in DOMAIN params |-> [params[i] EXCEPT !.of = Nothing]]

-----------------------------------------------------------------------------
(* AnonymizationSettings: whether it is enabled, and what becomes of texts *)
(* that do not parse.                                                      *)
Policies == [enabled : BOOLEAN, parse_failure : {"Drop", "Redact"}]

(* The fields of an ErrorResponse that the event may quote.                *)
ErrorField(policy) ==
    {"severity"} \cup IF policy.enabled THEN {"sqlstate"} ELSE {"message"}

(* build_event: one event, or none.                                        *)
BuildEvent(policy, text, params, incomplete, ok) ==
    LET anon == Anonymize(text)
        Event(query, kept, fingerprints) ==
          <<[query |-> query, params |-> kept, params_incomplete |-> incomplete,
             ok |-> ok, error |-> IF ok THEN {} ELSE ErrorField(policy),
             fingerprints |-> fingerprints]>>
    IN
    IF ~policy.enabled THEN Event(text, params, <<>>)
    ELSE IF anon # Nothing
    THEN Event(anon.normalized_query, RedactParams(params), anon.value_fingerprints)
    ELSE IF policy.parse_failure = "Drop" THEN <<>>
    ELSE Event(<<Redacted>>, RedactParams(params), <<>>)
=============================================================================
