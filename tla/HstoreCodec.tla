----------------------------- MODULE HstoreCodec -----------------------------
(***************************************************************************)
(* The hstore text of the metadata in postgres_hstore.go, which the        *)
(* adapter writes and reads by hand.  A text is a sequence of tokens: a    *)
(* letter, the word true (or false), digits, the "e+" of a number with an  *)
(* exponent, the characters that mean something to the codec or in JSON,   *)
(* and the two separators, "comma" for the two characters ", " and "arrow" *)
(* for the two characters "=>".                                            *)
(*                                                                         *)
(* A value that is not a text has the text of its JSON.  Arrays have at    *)
(* most one element and objects at most one member, and neither is in      *)
(* another.  Keys are one letter: they are not escaped, and one with a     *)
(* quote makes the statement fail.                                         *)
(***************************************************************************)
EXTENDS Naturals, SequencesExt

Letters == {"k", "x", "true", "e+"}
Tokens  == Letters \cup {"7", "quote", "backslash", "comma", "arrow",
                         "[", "]", "{", "}", ":"}
Text    == Seq(Tokens)

Kinds == {"text", "number", "bool", "null", "array", "object"}

Value(kind, text) == [kind |-> kind, text |-> text]

\* What becomes of base when step is applied to it and each element of s, from
\* left to right.  A step is a function, so that it can be reasoned about.
Scan(step, base, s) ==
    LET after[i \in 0 .. Len(s)] ==
            IF i = 0 THEN base ELSE step[after[i - 1]][s[i]]
    IN  after[Len(s)]

-----------------------------------------------------------------------------
(* Writing.                                                                *)

escaped == {"quote", "backslash"}

escapeHstoreValue(s) ==
    Scan([text \in Text |-> [t \in Tokens |->
             text \o IF t \in escaped THEN <<"backslash", t>> ELSE <<t>>]],
         <<>>, s)

Quoted(s) == <<"quote">> \o s \o <<"quote">>

Pair(key, value) ==
    Quoted(<<key>>) \o <<"arrow">> \o Quoted(escapeHstoreValue(value.text))

\* pairs: keys and values in the order PostgreSQL keeps them in.
jsonToHstoreStr(pairs) ==
    Scan([text \in Text |->
             [pair \in Letters \X [kind : Kinds, text : Text] |->
                 (IF text = <<>> THEN <<>> ELSE text \o <<"comma">>)
                   \o Pair(pair[1], pair[2])]],
         <<>>, pairs)

-----------------------------------------------------------------------------
(* Reading.                                                                *)

Split(s, separator) ==
    Scan([parts \in Seq(Text) |-> [t \in Tokens |->
             IF t = separator
               THEN Append(parts, <<>>)
               ELSE [parts EXCEPT ![Len(parts)] = Append(@, t)]]],
         <<<<>>>>, s)

\* All quotes at both ends.
Trim(s) ==
    LET kept == {i \in DOMAIN s : s[i] # "quote"}
    IN  IF kept = {} THEN <<>> ELSE SubSeq(s, Min(kept), Max(kept))

isNumeric(s) ==
    /\ \E i \in DOMAIN s : s[i] = "7"
    /\ \A i \in DOMAIN s : s[i] \notin Letters

IsDigits(s) == s # <<>> /\ \A i \in DOMAIN s : s[i] = "7"

\* strconv.ParseFloat succeeds; json.Marshal writes an exponent for numbers that
\* are very large or very near to zero.
IsFloat(s) ==
    \/ IsDigits(s)
    \/ \E i \in DOMAIN s : /\ s[i] = "e+"
                          /\ IsDigits(SubSeq(s, 1, i - 1))
                          /\ IsDigits(SubSeq(s, i + 1, Len(s)))

\* strings.ReplaceAll of two tokens by one.
ReplaceBoth(s, first, second, by) ==
    Scan([acc \in [out : Text, open : BOOLEAN] |-> [t \in Tokens |->
             IF acc.open /\ t = second
               THEN [out |-> [acc.out EXCEPT ![Len(acc.out)] = by],
                     open |-> FALSE]
               ELSE [out |-> Append(acc.out, t), open |-> t = first]]],
         [out |-> <<>>, open |-> FALSE], s).out

\* Mutant: the quotes of a JSON array are left escaped.
LeftEscaped(s) ==
    ReplaceBoth(s, "backslash", "backslash", "backslash")

Unescape(s) ==
    ReplaceBoth(ReplaceBoth(s, "backslash", "backslash", "backslash"),
                "backslash", "quote", "quote")

\* A JSON string without escapes in it.
IsString(s) ==
    /\ Len(s) >= 2
    /\ s[1] = "quote" /\ Last(s) = "quote"
    /\ \A i \in 2 .. Len(s) - 1 : s[i] \notin {"quote", "backslash"}

IsWithin(s, first, last) == Len(s) >= 2 /\ s[1] = first /\ Last(s) = last

Inner(s) == SubSeq(s, 2, Len(s) - 1)

IsScalar(s) == s = <<"true">> \/ IsFloat(s) \/ IsString(s)

\* json.Unmarshal succeeds and yields an array, ...
IsArray(s) == IsWithin(s, "[", "]") /\ (Inner(s) = <<>> \/ IsScalar(Inner(s)))

IsMember(s) ==
    \E i \in DOMAIN s : /\ s[i] = ":"
                       /\ IsString(SubSeq(s, 1, i - 1))
                       /\ IsScalar(SubSeq(s, i + 1, Len(s)))

\* ... or an object.
IsObject(s) == IsWithin(s, "{", "}") /\ (Inner(s) = <<>> \/ IsMember(Inner(s)))

Parsed(s) ==
    LET json == Unescape(s)
    IN  CASE s = <<"true">>             -> Value("bool", s)
          [] isNumeric(s) /\ IsFloat(s) -> Value("number", s)
          [] ~isNumeric(s) /\ IsWithin(s, "{", "}") /\ IsObject(json) ->
                 Value("object", json)
          [] ~isNumeric(s) /\ IsWithin(s, "[", "]") /\ IsArray(json) ->
                 Value("array", json)
          [] OTHER                      -> Value("text", s)

\* A map from keys, as texts; the last pair with a key counts.
hstoreStrToMap(s) ==
    LET pairs   == Split(s, "comma")
        Part(i) == Split(pairs[i], "arrow")
        read    == {i \in DOMAIN pairs : Len(Part(i)) = 2}
        Key(i)  == Trim(Part(i)[1])
    IN  [key \in {Key(i) : i \in read} |->
            Parsed(Trim(Part(Max({i \in read : Key(i) = key}))[2]))]

\* Between the two, PostgreSQL keeps the text as it is.
ReadBack(pairs) == hstoreStrToMap(jsonToHstoreStr(pairs))

-----------------------------------------------------------------------------
(* Correctness.                                                            *)

Has(value, token) == \E i \in DOMAIN value.text : value.text[i] = token

\* The values of metadata, as JSON has them, up to the depth said above.  In the
\* JSON of an array or an object there is no "=>": json.Marshal escapes the ">",
\* and strings with an escape in them are left out.
JsonValues ==
    {v \in [kind : Kinds, text : Text] :
        CASE v.kind = "null"   -> v.text = <<>>
          [] v.kind = "bool"   -> v.text = <<"true">>
          [] v.kind = "number" -> IsFloat(v.text)
          [] v.kind = "array"  -> IsArray(v.text) /\ ~Has(v, "arrow")
          [] v.kind = "object" -> IsObject(v.text) /\ ~Has(v, "arrow")
          [] OTHER -> TRUE}

\* Those of the instances checked: texts of up to three tokens, and others.
Texts  == {Value("text", s) : s \in BoundedSeq(Tokens, 3)}

Scalars == {<<"true">>, <<"7">>, <<"7", "e+", "7">>, Quoted(<<"x">>),
            Quoted(<<"7">>), Quoted(<<"comma">>)}

Member(key, s) == Quoted(<<key>>) \o <<":">> \o s

Within(first, s, last) == <<first>> \o s \o <<last>>

Others ==
    {Value("null", <<>>), Value("bool", <<"true">>),
     Value("number", <<"7">>), Value("number", <<"7", "e+", "7">>)}
      \cup {Value("text", Within("[", s, "]")) : s \in Scalars}
      \cup {Value("array", Within("[", s, "]")) : s \in Scalars \cup {<<>>}}
      \cup {Value("object", Within("{", s, "}")) :
                s \in {Member(m[1], m[2]) : m \in {"k", "7"} \X Scalars} \cup {<<>>}}

Splits(value) == Has(value, "comma") \/ Has(value, "arrow")

\* What makes a value come back as another, and nothing else does: a separator;
\* in a text a quote or a backslash, or that it looks like another value; that a
\* number has an exponent, a letter; and that an array or an object has digits
\* and no letter.
Survives(value) ==
    /\ ~Splits(value)
    /\ CASE value.kind = "text" ->
                /\ ~Has(value, "quote")
                /\ ~Has(value, "backslash")
                /\ IF isNumeric(value.text)
                   THEN ~IsFloat(value.text)
                   ELSE /\ value.text # <<"true">>
                        /\ ~IsArray(value.text)
                        /\ ~IsObject(value.text)
         [] value.kind = "number" -> isNumeric(value.text)
         [] value.kind \in {"array", "object"} -> ~isNumeric(value.text)
         [] OTHER -> value.kind # "null"

\* Every value comes back as it was stored, but for those above; and only one
\* with ", " in it can harm another beside it.
Faithful(other, values) ==
    \A value \in values :
        /\ ReadBack(<<<<"k", value>>>>) = [key \in {<<"k">>} |-> value]
              <=> Survives(value)
        /\ Survives(other) /\ ~Has(value, "comma") =>
              /\ ReadBack(<<<<"k", value>>, <<"x", other>>>>)[<<"x">>] = other
              /\ ReadBack(<<<<"k", other>>, <<"x", value>>>>)[<<"k">>] = other
=============================================================================
