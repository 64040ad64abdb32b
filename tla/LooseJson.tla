------------------------------ MODULE LooseJson ------------------------------
(***************************************************************************)
(* The gateway's JSON scalar (json.scalar.ts).  A corrected payload may    *)
(* arrive as a value, as a GraphQL literal or as a string, and a string is *)
(* read as JSON, then as a GraphQL literal, then by a lenient parser of    *)
(* its own (single quotes, bare keys, trailing commas), and is kept as it  *)
(* is when nothing reads all of it.                                        *)
(*                                                                         *)
(* A text is a sequence of tokens [t, v]: a punctuation mark, a "word", a  *)
(* "number", a "sign" that begins no number, a "variable" ($x), or a       *)
(* string in double or single quotes, whose v is again a text.             *)
(***************************************************************************)
EXTENDS Naturals, Sequences, SequencesExt, FiniteSetsExt, TLC

CONSTANT
    Texts        \* the texts that are sent

VARIABLES
    sent,        \* the string that arrived
    stored       \* what the scalar made of it, <<>> before

jsonVars == <<sent, stored>>

\* A parser yields the set of its readings from a place on: none, or one, which
\* says where the text goes on.
Failed == {}
Read(value, next) == {[value |-> value, next |-> next]}
The(S) == CHOOSE x \in S : TRUE

\* Values: scalars keep their text; an object is a function from keys to values.
Text(content) == <<"string", content>>
Word(w) == <<[t |-> "word", v |-> w]>>
Keywords == {"true", "false", "null"}
AnObject(f) == <<"object", f>>
AList(s) == <<"list", s>>

At(text, i, mark) == i \in DOMAIN text /\ text[i].t = mark

Quotes == {"double", "single"}

\* Only the lenient parser takes single quotes.
Quoted(dialect) == IF dialect = "lenient" THEN Quotes ELSE {"double"}

\* A key is a quoted string (JSON and lenient) or a name (GraphQL and lenient, `$` included).
IsKey(dialect, token) ==
    \/ dialect # "graphql" /\ token.t \in Quoted(dialect)
    \/ dialect = "graphql" /\ token.t = "word"
    \/ dialect = "lenient" /\ token.t \in {"word", "variable"}

KeyOf(token) == IF token.t \in Quotes THEN token.v ELSE <<token>>

RECURSIVE Value(_, _, _), Elements(_, _, _, _), Members(_, _, _, _), CoerceJsonString(_)

-----------------------------------------------------------------------------
\* parseLenientValue, parseLenientNumber and parseLenientIdentifier; what JSON.parse
\* and parseValue accept and reject.  A string inside a GraphQL literal is coerced too.
Scalar(dialect, token, i) ==
    CASE token.t = "number" -> Read(<<"number", token.v>>, i + 1)
      [] token.t = "word" /\ token.v \in Keywords -> Read(<<token.v>>, i + 1)
      [] token.t = "word" /\ dialect # "json" -> Read(Text(<<token>>), i + 1)
      [] token.t = "variable" /\ dialect = "lenient" -> Read(Text(<<token>>), i + 1)
      [] token.t \in Quoted(dialect) ->
            Read(IF dialect = "graphql" THEN CoerceJsonString(token.v) ELSE Text(token.v), i + 1)
      [] OTHER -> Failed

Value(dialect, text, i) ==
    IF i \notin DOMAIN text THEN Failed
    ELSE IF text[i].t = "[" THEN
        IF At(text, i + 1, "]") THEN Read(AList(<<>>), i + 2) ELSE Elements(dialect, text, i + 1, <<>>)
    ELSE IF text[i].t = "{" THEN
        IF At(text, i + 1, "}") THEN Read(AnObject(<<>>), i + 2) ELSE Members(dialect, text, i + 1, <<>>)
    ELSE Scalar(dialect, text[i], i)

\* Where a list or an object ends after an element, and where it goes on.  The comma is
\* required, but for GraphQL, whose texts come without; a lenient text may end with one.
Ends(dialect, text, i, close) ==
    {n \in {i + 1} : At(text, i, close)}
    \cup {n \in {i + 2} : dialect = "lenient" /\ At(text, i, ",") /\ At(text, i + 1, close)}

GoesOn(dialect, text, i, close) ==
    IF dialect = "graphql" THEN {n \in {i} : ~At(text, i, close)}
    ELSE {n \in {i + 1} : At(text, i, ",") /\ Ends(dialect, text, i, close) = {}}

\* parseLenientArray
Elements(dialect, text, i, values) ==
    UNION {LET list == Append(values, r.value)
           IN  UNION {Read(AList(list), n) : n \in Ends(dialect, text, r.next, "]")}
               \cup UNION {Elements(dialect, text, n, list) :
                              n \in GoesOn(dialect, text, r.next, "]")}
           : r \in Value(dialect, text, i)}

\* parseLenientObject: the last of several members with one key is kept.
Members(dialect, text, i, object) ==
    IF ~(i \in DOMAIN text /\ IsKey(dialect, text[i]) /\ At(text, i + 1, ":")) THEN Failed
    ELSE UNION {LET with == (KeyOf(text[i]) :> r.value) @@ object
                IN  UNION {Read(AnObject(with), n) : n \in Ends(dialect, text, r.next, "}")}
                    \cup UNION {Members(dialect, text, n, with) :
                                   n \in GoesOn(dialect, text, r.next, "}")}
                : r \in Value(dialect, text, i + 2)}

Input(dialect, text) ==
    IF dialect = "graphql" THEN SelectSeq(text, LAMBDA token : token.t # ",") ELSE text

\* A bug for comparison: what is left after a value is dropped.
ReadsAPrefix(dialect, text) == {r.value : r \in Value(dialect, Input(dialect, text), 1)}

\* tryParseJsonDocument, parseValue and tryParseLenientStructuredString read a whole text.
ReadAll(dialect, text) ==
    {r.value : r \in {r \in Value(dialect, Input(dialect, text), 1) :
                         r.next = Len(Input(dialect, text)) + 1}}

\* The first character is one of "\"'-0123456789[{fnt" (of "" it counts as one).
ShouldAttemptStringParse(text) ==
    \/ text = <<>>
    \/ Head(text).t \in Quotes \cup {"sign", "number", "[", "{"}
    \/ Head(text).t = "word" /\ Head(text).v \in Keywords \cup {"no"}

CoerceJsonString(text) ==
    IF ~ShouldAttemptStringParse(text) THEN Text(text)
    ELSE IF ReadAll("json", text) # {} THEN The(ReadAll("json", text))
    ELSE IF ReadAll("graphql", text) # {} THEN The(ReadAll("graphql", text))
    ELSE IF ReadAll("lenient", text) # {} THEN The(ReadAll("lenient", text))
    ELSE Text(text)

\* parseValue: the payload is the value of a GraphQL variable, and it is a string.
ParseValue ==
    /\ stored = <<>> /\ sent.route = "variable"
    /\ stored' = CoerceJsonString(sent.text)
    /\ UNCHANGED sent

\* parseLiteral: the payload is written into the query, which the engine has parsed.
ParseLiteral ==
    /\ stored = <<>> /\ sent.route = "query"
    /\ stored' = The(ReadAll("graphql", sent.text))
    /\ UNCHANGED sent

JsonInit == sent \in Texts /\ stored = <<>>
JsonNext == ParseValue \/ ParseLiteral
JsonSpec == JsonInit /\ [][JsonNext]_jsonVars

-----------------------------------------------------------------------------
(* How clients write a payload: as JSON, as a GraphQL literal, and the way *)
(* it is written by hand.                                                  *)

Mark(m) == <<[t |-> m, v |-> m]>>
Quote(kind, content) == <<[t |-> kind, v |-> content]>>

\* By hand, a list ends with a comma.
RECURSIVE Joined(_, _)
Joined(style, parts) ==
    IF parts = <<>> THEN <<>>
    ELSE IF Len(parts) = 1 THEN parts[1] \o (IF style = "hand" THEN Mark(",") ELSE <<>>)
    ELSE parts[1] \o Mark(",") \o Joined(style, Tail(parts))

RECURSIVE Written(_, _)
Written(style, value) ==
    CASE value[1] = "string" ->
            Quote(IF style = "hand" THEN "single" ELSE "double", value[2])
      [] value[1] = "number" -> <<[t |-> "number", v |-> value[2]]>>
      [] value[1] = "list" ->
            Mark("[") \o Joined(style, [i \in DOMAIN value[2] |-> Written(style, value[2][i])])
                \o Mark("]")
      [] value[1] = "object" ->
            LET keys == SetToSeq(DOMAIN value[2])
                key(k) == IF style = "json" THEN Quote("double", k) ELSE k
            IN  Mark("{") \o
                Joined(style, [i \in DOMAIN keys |->
                    key(keys[i]) \o Mark(":") \o Written(style, value[2][keys[i]])])
                \o Mark("}")
      [] OTHER -> Word(value[1])

\* The strings of a GraphQL literal are coerced, at every depth.
RECURSIVE Coerced(_)
Coerced(value) ==
    CASE value[1] = "string" -> CoerceJsonString(value[2])
      [] value[1] = "list" -> AList([i \in DOMAIN value[2] |-> Coerced(value[2][i])])
      [] value[1] = "object" -> AnObject([k \in DOMAIN value[2] |-> Coerced(value[2][k])])
      [] OTHER -> value

\* Without a bare key a GraphQL literal is JSON too, and JSON's strings stay strings.
RECURSIVE HasKeys(_)
HasKeys(value) ==
    CASE value[1] = "list" -> \E i \in DOMAIN value[2] : HasKeys(value[2][i])
      [] value[1] = "object" -> value[2] # <<>>
      [] OTHER -> FALSE

Expected(route, style, value) ==
    IF style = "graphql" /\ (route = "query" \/ HasKeys(value)) THEN Coerced(value) ELSE value

\* How often a word or a number occurs in a text, and in a value.
RECURSIVE InText(_, _), InValue(_, _)
InText(w, text) ==
    IF text = <<>> THEN 0
    ELSE InText(w, Tail(text)) +
         (IF Head(text).t \in Quotes THEN InText(w, Head(text).v)
          ELSE IF Head(text).v = w THEN 1 ELSE 0)

InValue(w, value) ==
    CASE value[1] = "string" -> InText(w, value[2])
      [] value[1] = "number" -> IF value[2] = w THEN 1 ELSE 0
      [] value[1] = "list" ->
            IF value[2] = <<>> THEN 0
            ELSE InValue(w, Head(value[2])) + InValue(w, AList(Tail(value[2])))
      [] value[1] = "object" ->
            MapThenSumSet(LAMBDA k : InText(w, k) + InValue(w, value[2][k]), DOMAIN value[2])
      [] OTHER -> IF value[1] = w THEN 1 ELSE 0

RECURSIVE WordsOf(_)
WordsOf(text) ==
    UNION {IF text[i].t \in Quotes THEN WordsOf(text[i].v)
           ELSE IF text[i].t \in {"word", "number", "variable"} THEN {text[i].v} ELSE {}
           : i \in DOMAIN text}

RepeatsAKey(text) ==
    \E i, j \in DOMAIN text :
        i < j /\ KeyOf(text[i]) = KeyOf(text[j]) /\ At(text, i + 1, ":") /\ At(text, j + 1, ":")

\* Nothing that was sent is lost in the reading: every word and number of the text is
\* in what is stored, as often, unless a member was written twice.
NothingIsLost ==
    stored # <<>> /\ ~RepeatsAKey(sent.text) =>
        \A w \in WordsOf(sent.text) : InValue(w, stored) = InText(w, sent.text)

\* A payload is stored as it was meant, whichever way it was written.
PayloadComesBack ==
    stored # <<>> /\ sent.style # "none" => stored = Expected(sent.route, sent.style, sent.payload)

\* Both: the scalar keeps what a correction says.
PayloadIsKept == NothingIsLost /\ PayloadComesBack
=============================================================================
