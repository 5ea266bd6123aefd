------------------------------- MODULE Coercion -------------------------------
(***************************************************************************)
(* What query_registry.go makes of one input of a request: the text it     *)
(* reads (toString of a JSON value, a query argument, a header, ...) and   *)
(* the value coerce turns it into.  A text is abstracted to what strconv,  *)
(* time and regexp make of it: its form, its number and whether it fits    *)
(* the binding's own pattern.  A JSON object or array becomes JSON text,   *)
(* which is plain.                                                         *)
(*                                                                         *)
(* Numbers are in halves, so that a bound may lie between two integers.    *)
(* An optional number is a set of at most one: a bound that is not         *)
(* configured is {}, and so is NaN, which no comparison holds of.          *)
(***************************************************************************)
EXTENDS Integers, Sequences, SequencesExt

CONSTANTS
  IntLimit,     \* the ints are those from -IntLimit up to it, 2^63
  Significand   \* the largest significand of a float, 2^53

\* The powers of two up to IntLimit are its divisors, if it is one itself.
Powers == {s \in 1..IntLimit : \E k \in 1..IntLimit : k * s = IntLimit}

ASSUME CoercionAssumption ==
  /\ IntLimit \in Nat \ {0}
  /\ \A s \in Powers : s = 1 \/ \E h \in 1..s : s = 2 * h
  /\ Significand \in Nat \ {0, 1}

\* nil and the empty string, which resolveParams does not tell apart.
Absent == [form |-> "absent", num |-> {}, fits |-> FALSE]

Int64 == -IntLimit .. IntLimit - 1

Magnitude(n) == IF n < 0 THEN -n ELSE n

\* The exponents go as far as it takes for an int.
InRange(n) == \E s \in Powers : Magnitude(n) <= s * Significand

\* The distance between the floats around n, at least a half here.
Spacing(n) == Min({s \in Powers : Magnitude(n) <= s * Significand})

\* float64(n): the nearest float, of two the one with an even significand.
Round(n) ==
  LET s == Spacing(n)
      q == n \div s
      rest == n - q * s
  IN IF 2 * rest < s \/ (2 * rest = s /\ q % 2 = 0) THEN q * s
     ELSE (q + 1) * s

Truncate(n) == IF n < 0 THEN -((-n) \div 2) ELSE n \div 2

-----------------------------------------------------------------------------

\* Faulty variant: the cap comes first, so that nothing is above max.
CapFirst(x, b) ==
  LET y == IF \E n \in x, c \in b.cap : n > c THEN b.cap ELSE x
  IN IF \E n \in y : \/ \E lo \in b.min : n < lo
                     \/ \E hi \in b.max : n > hi
       THEN {} ELSE {y}

(***************************************************************************)
(* applyNumericBounds: the numbers it may return, none when it refuses.    *)
(***************************************************************************)
ApplyNumericBounds(x, b) ==
  IF \E n \in x : \/ \E lo \in b.min : n < lo
                  \/ \E hi \in b.max : n > hi
    THEN {}
    ELSE {IF \E n \in x, c \in b.cap : n > c THEN b.cap ELSE x}

\* strconv.ParseInt: the integers the text stands for, in range.
ParseInt(t) == {n \in Int64 : t.form = "int" /\ 2 * n \in t.num}

\* strconv.ParseFloat: the floats (as optional numbers), one or none.
ParseFloat(t) ==
  CASE t.form \in {"int", "real"} -> {{Round(n)} : n \in {m \in t.num : InRange(m)}}
    [] t.form = "nan"             -> {{}}
    [] OTHER                      -> {}

\* int64(x): what a float out of range becomes depends on the processor.
ToInt64(x) ==
  UNION {IF Truncate(n) \in Int64 THEN {Truncate(n)}
         ELSE {-IntLimit, IntLimit - 1} : n \in x}

\* "true", "yes", "on" and 1, or "false", "no", "off" and 0.
ParseBool(t) ==
  {n \in {0, 2} : t.form \in {"word", "int"} /\ n \in t.num}

\* An explicit pattern takes the place of the type's own.
Matches(t, b) ==
  /\ b.pattern => t.fits
  /\ ~b.pattern /\ b.type = "uuid"   => t.form = "uuid"
  /\ ~b.pattern /\ b.type = "record" => t.form = "link"

Number(type, x) == [type |-> type, num |-> x, text |-> Absent]
Text(type, t)   == [type |-> type, num |-> {}, text |-> t]
Nil == Text("nil", Absent)

(***************************************************************************)
(* coerce: the values it may return, none when it refuses the text.  Dates *)
(* and durations keep their text here.                                     *)
(***************************************************************************)
Coerce(t, b) ==
  CASE b.type = "int" ->
         {Number("int", {2 * m}) :
            m \in UNION {ToInt64(x) :
                    x \in UNION {ApplyNumericBounds({Round(2 * n)}, b) :
                                   n \in ParseInt(t)}}}
    [] b.type = "float" ->
         {Number("float", x) :
            x \in UNION {ApplyNumericBounds(y, b) : y \in ParseFloat(t)}}
    [] b.type = "bool" -> {Number("bool", {n}) : n \in ParseBool(t)}
    [] b.type = "datetime" -> IF t.form = "time" THEN {Text("datetime", t)} ELSE {}
    [] b.type = "duration" ->
         IF t.form = "span" \/ (t.form = "int" /\ t.num = {0})
           THEN {Text("duration", t)} ELSE {}
    [] OTHER -> IF Matches(t, b) THEN {Text("string", t)} ELSE {}

-----------------------------------------------------------------------------

\* extractPath: the node a dotted key leads to in the body.
ExtractPath(body, key) ==
  FoldLeft(LAMBDA node, part :
             IF node.form = "object" /\ part \in DOMAIN node.fields
               THEN node.fields[part] ELSE Absent,
           body, key)

(***************************************************************************)
(* The text a binding reads from a request.  The body is read only if some *)
(* binding names it; what is not a JSON object, or longer than 1 MiB, is   *)
(* no body.  A source of another name than these reads the body.           *)
(***************************************************************************)
Read(b, bindings, req) ==
  CASE b.source = "placeholder" -> b.default
    [] b.source \in {"query", "header", "path", "env"} ->
         IF b.key \in DOMAIN req[b.source] THEN req[b.source][b.key] ELSE Absent
    [] OTHER ->
         IF \E i \in DOMAIN bindings : bindings[i].source = "body"
           THEN ExtractPath(req.body, b.key) ELSE Absent

\* The text that is coerced, the default in place of nothing.
Given(b, bindings, req) ==
  LET raw == Read(b, bindings, req)
  IN IF raw.form = "absent" THEN b.default ELSE raw

\* The values of one variable, none when the request is refused.
Resolve(b, bindings, req) ==
  LET t == Given(b, bindings, req)
  IN IF t = Absent THEN {Nil} ELSE Coerce(t, b)
=============================================================================
