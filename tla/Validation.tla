------------------------------ MODULE Validation ------------------------------
(***************************************************************************)
(* validation.Validator: rules, and what Field and FieldWith make of the   *)
(* data of one request.  A rule is its code and the texts it accepts; the  *)
(* rules that see the whole Validator are operators of the data.           *)
(***************************************************************************)
EXTENDS Integers, Sequences

CONSTANTS
    FieldName,
    Text,       \* the texts a field may hold
    Empty,      \* the empty text, also the value of a field that is absent
    Blank,      \* texts of nothing but space
    Length,     \* Length[t]: the runes of t
    Number,     \* Number[t]: its value, of the texts that are numbers
    NaN,        \* the value of "NaN", which ParseFloat reads
    Day,        \* Day[t]: its time, of the texts that are dates
    Shape       \* Shape["email"], ...: the texts a regular expression matches

ASSUME ValidationOK ==
    /\ Empty \in Blank /\ Blank \subseteq Text
    /\ Length \in [Text -> Nat] /\ Length[Empty] = 0
    /\ DOMAIN Number \subseteq Text \ Blank /\ DOMAIN Day \subseteq Text \ Blank
    /\ \A s \in DOMAIN Shape : Shape[s] \subseteq Text \ {Empty}

\* The time of a date that cannot be parsed, before all others.
ZeroTime == -1

-----------------------------------------------------------------------------
(* Rules *)

Rule(code, ok) == [code |-> code, ok |-> ok]

\* Most rules let the empty text pass and leave it to Required.
Optional(code, ok) == Rule(code, ok \cup {Empty})

Required == Rule("required", Text \ Blank)
Min(n)   == Rule("min", {t \in Text : Length[t] >= n})
Max(n)   == Rule("max", {t \in Text : Length[t] <= n})

Email    == Optional("email", Shape["email"])
Alpha    == Optional("alpha", Shape["alpha"])
AlphaNum == Optional("alpha_num", Shape["alpha_num"])
URL      == Optional("url", Shape["url"])
UUID     == Optional("uuid", Shape["uuid"])
Boolean  == Optional("boolean", Shape["boolean"])
Regex(s) == Optional("regex", s)

In(list)        == Optional("in", list)
NotIn(list)     == Optional("in", Text \ list)
NotInList(list) == Optional("not_in", Text \ list)

Numeric       == Optional("numeric", DOMAIN Number)

\* A number is refused for being less or greater, and NaN is neither.
MinValue(n) == Optional("min", {t \in DOMAIN Number : Number[t] # NaN => Number[t] >= n})
MaxValue(n) == Optional("max", {t \in DOMAIN Number : Number[t] # NaN => Number[t] <= n})
Between(m, n) ==
    Optional("between", {t \in DOMAIN Number : Number[t] # NaN => Number[t] \in m..n})

Date == Optional("date", DOMAIN Day)

\* The reference date; one that cannot be parsed is not reported.
RefTime(ref) == IF ref \in DOMAIN Day THEN Day[ref] ELSE ZeroTime

Before(ref) == Optional("before", {t \in DOMAIN Day : Day[t] < RefTime(ref)})
After(ref)  == Optional("after", {t \in DOMAIN Day : Day[t] > RefTime(ref)})

Bail      == Rule("_bail_", {})
Sometimes == Rule("_skip_", {})

Markers == {"_bail_", "_skip_"}

\* What a field is given: only Bail and Sometimes answer a marker, to every text.
AnyRule == {r \in [code: STRING, ok: SUBSET Text] : r.code \in Markers => r.ok = {}}

-----------------------------------------------------------------------------
(* Rules that see the other fields, for FieldWith *)

Value(data, f) == IF f \in DOMAIN data THEN data[f] ELSE Empty

Confirmed(data, f) == Optional("confirmed", {Value(data, f)})
Same(data, f)      == Rule("confirmed", {Value(data, f)})
Different(data, f) == Rule("different", Text \ {Value(data, f)})

\* taken: what the column holds; a query that fails counts as taken.
Unique(taken, fails) == Optional("unique", IF fails THEN {} ELSE Text \ taken)

-----------------------------------------------------------------------------
(* The Validator *)

Untold == [errors |-> <<>>, bail |-> FALSE, stop |-> FALSE]

\* One turn of the loop over the rules for a value that is present or not.
Judge(markers, present, val, s, r) ==
    IF s.stop \/ val \in r.ok THEN s
    ELSE IF r.code \notin markers THEN [s EXCEPT !.errors = Append(@, r.code), !.stop = s.bail]
    ELSE IF r.code = "_bail_" THEN [s EXCEPT !.bail = TRUE]
    ELSE [s EXCEPT !.stop = ~present]

\* The codes the loop adds to the errors of a field.
Told(markers, present, val, rules) ==
    LET after[n \in 0..Len(rules)] ==
            IF n = 0 THEN Untold ELSE Judge(markers, present, val, after[n - 1], rules[n])
    IN  after[Len(rules)].errors

\* Mutant: a field that is empty is skipped like one that is absent.
FieldOrEmpty(data, f, rules) ==
    Told(Markers, Value(data, f) # Empty, Value(data, f), rules)

\* The codes Field adds to the errors of field f.
Field(data, f, rules) == Told(Markers, f \in DOMAIN data, Value(data, f), rules)

\* FieldWith knows neither Bail nor Sometimes.
FieldWith(data, f, rules) == Told({}, f \in DOMAIN data, Value(data, f), rules)

\* rules[f] are for Field, with[f] for FieldWith; the errors of every field.
Errors(data, rules, with) ==
    [f \in FieldName |-> Field(data, f, rules[f]) \o FieldWith(data, f, with[f])]

Fails(errors) == \E f \in FieldName : errors[f] # <<>>
=============================================================================
