---------------------------- MODULE JsonPointer ----------------------------
(***************************************************************************)
(* free_valid_ai/checks.py: how a JSON Pointer is read and resolved.       *)
(*                                                                         *)
(* A pointer is a record [rooted, tokens]: whether the text is empty or    *)
(* starts with "/", and the parts between its slashes.  A token is a       *)
(* sequence of characters; a longer string stands for text that has no     *)
(* digit and no "~".  A document is an object [members], an array [items]  *)
(* or a scalar [json_value].                                               *)
(***************************************************************************)
EXTENDS Naturals, Sequences

\* A Python list, or a string as its characters.
IsList(list) == list \in Seq({list[i] : i \in DOMAIN list})

JsonValue(name) == [json_value |-> name]
JsonObject(members) == [members |-> members]
JsonArray(items) == [items |-> items]

IsObject(document) == "members" \in DOMAIN document
IsArray(document) == "items" \in DOMAIN document

\* Bound: how deep a value is looked into.
DEPTH == 3

Children(node) ==
    IF IsObject(node) THEN {node.members[key] : key \in DOMAIN node.members}
    ELSE IF IsArray(node) THEN {node.items[i] : i \in DOMAIN node.items} ELSE {}

\* A value and what it contains.
Parts(value) ==
    LET within[n \in 0..DEPTH] ==
            IF n = 0 THEN {value}
            ELSE within[n - 1] \cup UNION {Children(node) : node \in within[n - 1]}
    IN  within[DEPTH]

\* What json.loads() reads and _canonical() cannot write: text with an escaped
\* lone surrogate, as a value or in a key, and a number too large for a float.
UNENCODABLE == JsonValue("UNENCODABLE")
LONE_SURROGATE == "LONE SURROGATE"

Encodable(value) ==
    \A part \in Parts(value) :
        /\ part # UNENCODABLE
        /\ IsObject(part) =>
              \A key \in DOMAIN part.members : \A i \in DOMAIN key : key[i] # LONE_SURROGATE

\* The value int() gives to a character that isdigit() accepts.  Superscripts
\* are digits to isdigit() and none to int(), which also refuses a number of
\* more than 4300 digits; such a run counts as one character.
ASCII_DIGITS == [char \in {"0", "1", "2"} |-> CASE char = "0" -> 0
                                                [] char = "1" -> 1
                                                [] char = "2" -> 2]
ARABIC_DIGITS == [char \in {"ARABIC-INDIC 0", "ARABIC-INDIC 1"} |->
                     IF char = "ARABIC-INDIC 0" THEN 0 ELSE 1]
UNREADABLE_DIGITS == {"SUPERSCRIPT 2", "4301 DIGITS"}

DigitValue(char) ==
    IF char \in DOMAIN ASCII_DIGITS THEN ASCII_DIGITS[char] ELSE ARABIC_DIGITS[char]

\* int(token)
IndexValue(token) ==
    LET read[i \in 0..Len(token)] ==
            IF i = 0 THEN 0 ELSE 10 * read[i - 1] + DigitValue(token[i])
    IN  read[Len(token)]

-----------------------------------------------------------------------------
(* _decode_pointer_token: one scan from left to right.                     *)

IsToken(token) == IsList(token) /\ \A i \in DOMAIN token : token[i] # "/"

MayDecode(token) ==
    \A i \in DOMAIN token :
        token[i] = "~" => i < Len(token) /\ token[i + 1] \in {"0", "1"}

\* Mutated form of Decoded: "~1" is replaced by "~".
DecodedTildes(token) ==
    LET from[i \in 1..(Len(token) + 1)] ==
            IF i > Len(token) THEN <<>>
            ELSE IF token[i] # "~" THEN <<token[i]>> \o from[i + 1]
            ELSE <<"~">> \o from[i + 2]
    IN  from[1]

Decoded(token) ==
    LET from[i \in 1..(Len(token) + 1)] ==
            IF i > Len(token) THEN <<>>
            ELSE IF token[i] # "~" THEN <<token[i]>> \o from[i + 1]
            ELSE <<IF token[i + 1] = "0" THEN "~" ELSE "/">> \o from[i + 2]
    IN  from[1]

\* What _json_check asks of a pointer.
IsPointer(pointer) ==
    /\ pointer.rooted
    /\ IsList(pointer.tokens)
    /\ \A i \in DOMAIN pointer.tokens :
          IsToken(pointer.tokens[i]) /\ MayDecode(pointer.tokens[i])

-----------------------------------------------------------------------------
(* _resolve_pointer.                                                       *)

IsDigits(token) ==
    /\ token # <<>>
    /\ \A i \in DOMAIN token :
          token[i] \in DOMAIN ASCII_DIGITS \cup DOMAIN ARABIC_DIGITS \cup UNREADABLE_DIGITS

\* token.isdigit() and not token.startswith("0"), or the token "0".
IsIndex(token) == token = <<"0">> \/ (IsDigits(token) /\ token[1] # "0")

\* int() refuses the token.
Unreadable(token) == IsIndex(token) /\ \E i \in DOMAIN token : token[i] \in UNREADABLE_DIGITS

\* The node a decoded token selects in another; a set of at most one node.
Selected(node, token) ==
    IF IsObject(node)
      THEN {node.members[key] : key \in {token} \cap DOMAIN node.members}
      ELSE {node.items[i] : i \in {i \in IF IsArray(node) THEN DOMAIN node.items ELSE {} :
                                      IsIndex(token) /\ i = IndexValue(token) + 1}}

\* The nodes reached with the first n tokens.
Reached(document, pointer) ==
    LET after[n \in 0..Len(pointer.tokens)] ==
            IF n = 0 THEN {document}
            ELSE UNION {Selected(node, Decoded(pointer.tokens[n])) : node \in after[n - 1]}
    IN  after

Resolve(document, pointer) == Reached(document, pointer)[Len(pointer.tokens)]

\* int() raises ValueError on the way.
ResolveRaises(document, pointer) ==
    \E n \in DOMAIN pointer.tokens : \E node \in Reached(document, pointer)[n - 1] :
        IsArray(node) /\ Unreadable(Decoded(pointer.tokens[n]))

-----------------------------------------------------------------------------
(* RFC 6901, as a reference.  Section 4: "~1" becomes "/" and then "~0"    *)
(* becomes "~"; an array index is "0" or ASCII digits of which the first   *)
(* is not "0".                                                             *)

Escape(char) ==
    IF char = "/" THEN <<"~", "1">> ELSE IF char = "~" THEN <<"~", "0">> ELSE <<char>>

\* How the text is written: its characters, each "/" as "~1" and each "~" as "~0".
Written(text) ==
    LET from[i \in 1..(Len(text) + 1)] ==
            IF i > Len(text) THEN <<>> ELSE Escape(text[i]) \o from[i + 1]
    IN  from[1]

\* The node a raw token references, found from the node's own keys.
Referenced(node, token) ==
    IF IsObject(node)
      THEN {node.members[key] : key \in {key \in DOMAIN node.members :
                                          IsList(key) /\ Written(key) = token}}
      ELSE {node.items[i] : i \in {i \in IF IsArray(node) THEN DOMAIN node.items ELSE {} :
              /\ token # <<>> /\ \A k \in DOMAIN token : token[k] \in DOMAIN ASCII_DIGITS
              /\ token[1] = "0" => Len(token) = 1
              /\ i = IndexValue(token) + 1}}

Rfc6901(document, pointer) ==
    LET after[n \in 0..Len(pointer.tokens)] ==
            IF n = 0 THEN {document}
            ELSE UNION {Referenced(node, pointer.tokens[n]) : node \in after[n - 1]}
    IN  after[Len(pointer.tokens)]

\* The pointer has no digits but those of ASCII, and no more than int() reads.
Ascii(pointer) ==
    \A n \in DOMAIN pointer.tokens : \A i \in DOMAIN pointer.tokens[n] :
        pointer.tokens[n][i] \notin DOMAIN ARABIC_DIGITS \cup UNREADABLE_DIGITS
=============================================================================
