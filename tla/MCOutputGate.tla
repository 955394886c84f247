---------------------------- MODULE MCOutputGate ----------------------------
(* An instance of OutputGate for TLC.                                      *)
EXTENDS OutputGate

Json(document) == [json |-> TRUE, document |-> document]
Field(name, value) == JsonObject([key \in {<<name>>} |-> value])

A == Json(Field("a", JsonValue("A")))
B == Json(Field("a", JsonValue("B")))
Lone == Json(Field("a", JsonArray(<<JsonValue("A"), UNENCODABLE>>)))
LoneKey == Json(Field("a", JsonObject([key \in {<<LONE_SURROGATE>>} |-> JsonValue("A")])))
MCEmpty == [json |-> FALSE, text |-> "EMPTY"]
NotJson == [json |-> FALSE, text |-> "NOT JSON"]

\* Keys with escapes in every order, an object under a key, an array.
Nested == Json(JsonObject(
    [key \in {<<"~", "1">>, <<"/", "0">>, <<"~", "/">>, <<>>} |->
        CASE key = <<"~", "1">> -> JsonValue("A")
          [] key = <<"/", "0">> -> Field("a", JsonValue("A"))
          [] key = <<"~", "/">> -> JsonArray(<<JsonValue("A"), JsonValue("B")>>)
          [] key = <<>> -> JsonValue("B")]))

MCOutputs == {MCEmpty, A, B, Lone, LoneKey, NotJson, Nested}

Pointer(tokens) == [rooted |-> TRUE, tokens |-> tokens]
IsField == Pointer(<<<<"a">>>>)

SourceIs(version, source) ==
    [type |-> CHECK_TYPE, version |-> version, source_sha256 |-> Digest(source),
     expected |-> Digest(source)]
ValueIs(source, pointer, value) ==
    [type |-> JSON_CHECK_TYPE, version |-> 1, source_sha256 |-> Digest(source),
     expected |-> JsonValue(value), pointer |-> pointer]
By(author, matter) == Claim(matter, author, 1, {}, None)

Exact == By("policy", SourceIs(1, A))
Value == By("policy", ValueIs(A, IsField, "A"))
Wrong == By("policy", ValueIs(A, IsField, "B"))
EmptyText == By("policy", SourceIs(1, MCEmpty))
Escaped == By("policy", ValueIs(Lone, IsField, "A"))
EscapedKey == By("policy", ValueIs(LoneKey, IsField, "A"))
BesideIt == By("policy", ValueIs(Lone, Pointer(<<<<"a">>, <<"0">>>>), "A"))
Undeclared == By("policy", [SourceIs(1, A) EXCEPT !.source_sha256 = None])
Unrooted == By("policy", ValueIs(A, [rooted |-> FALSE, tokens |-> <<<<"a">>>>], "A"))
NoVersion == By("policy", SourceIs(0, A))
Version2 == By("policy", SourceIs(2, A))
Unknown == By("policy", [SourceIs(1, A) EXCEPT !.type = "caller_check"])
OwnGate == By("gate", SourceIs(1, A))
Altered == [Exact EXCEPT !.hash = Digest(B)]

\* Pointers into the nested output: every token in the first place, then every
\* one behind each of two that reach an object or an array.
Tokens == {<<>>, <<"a">>, <<"~", "0", "1">>, <<"~", "1", "0">>, <<"~", "0", "~", "1">>,
           <<"~", "2">>, <<"~">>, <<"0">>, <<"1">>, <<"2">>, <<"0", "1">>, <<"1", "0">>,
           <<"ARABIC-INDIC 1">>, <<"ARABIC-INDIC 0", "1">>, <<"SUPERSCRIPT 2">>,
           <<"4301 DIGITS">>}
Pointers ==
    {Pointer(<<>>)} \cup {Pointer(<<token>>) : token \in Tokens}
    \cup {Pointer(<<first, second>>) :
             first \in {<<"~", "1", "0">>, <<"~", "0", "~", "1">>}, second \in Tokens}
PointerClaims ==
    {By("policy", ValueIs(Nested, pointer, value)) :
        pointer \in Pointers, value \in {"A", "B"}}

\* No claim, every claim alone, every pair of different claims, and a repeated
\* claim.
MCArguments ==
    LET pool == {Exact, Value, Wrong, EmptyText, Escaped, Unrooted, NoVersion, Version2,
                 Unknown, OwnGate, Undeclared, Altered}
        alone == pool \cup {EscapedKey, BesideIt} \cup PointerClaims
    IN  {<<>>, <<Exact, Exact>>} \cup {<<claim>> : claim \in alone}
        \cup {pair \in pool \X pool : pair[1] # pair[2]}

\* The model leaves the caller's claims alone or puts another in their place.
MCRewrites == {<<Wrong>>}

Admits(type, version, procedure) ==
    [type |-> type, version |-> version, procedure |-> procedure]

\* The default index, two that admit the value check with another procedure, one
\* with a second version of the source check, and one without it.
MCIndexes ==
    LET source == Admits(CHECK_TYPE, 1, Procedure(CHECK_TYPE))
        value == Admits(JSON_CHECK_TYPE, 1, Procedure(JSON_CHECK_TYPE))
        other == [Procedure(JSON_CHECK_TYPE) EXCEPT !.sha256 = Digest("OTHER")]
        renamed == [Procedure(JSON_CHECK_TYPE) EXCEPT !.id = "another"]
    IN  {{source, value},
         {source, Admits(JSON_CHECK_TYPE, 1, other)},
         {source, Admits(JSON_CHECK_TYPE, 1, renamed)},
         {source, value, Admits(CHECK_TYPE, 2, other)},
         {value}}
=============================================================================
