------------------------- MODULE Foundation_proofs -------------------------
(***************************************************************************)
(* What the proofs of every component use.  Digests are injective, they    *)
(* are never the absent digest, and a sealed body is intact.  A set of     *)
(* natural numbers has a least member; the recursions of the model over    *)
(* sequences have a solution.  Decoding a token of a JSON pointer undoes   *)
(* writing one, no two texts are written alike, and a pointer in ASCII     *)
(* resolves to what RFC 6901 makes it reference.                           *)
(***************************************************************************)
EXTENDS HashBound, JsonPointer, TLAPS, SequenceTheorems, WellFoundedInduction

\* A digest has the shape of a digest and is never the absent digest.
LEMMA DigestIsDigest ==
    ASSUME NEW value
    PROVE  IsDigest(Digest(value)) /\ Digest(value) # None
BY DEF IsDigest, Digest, None

\* Equal digests have equal preimages.
LEMMA DigestInjective ==
    ASSUME NEW left, NEW right, Digest(left) = Digest(right)
    PROVE  left = right
<1>1. Digest(left).sha256 = Digest(right).sha256
    OBVIOUS
<1>2. QED
    BY <1>1 DEF Digest

\* A sealed body is intact, and its parts are the body and the digest.
LEMMA SealIntact ==
    ASSUME NEW body
    PROVE  /\ Intact(Seal(body))
           /\ Seal(body).body = body
           /\ Seal(body).hash = Digest(body)
           /\ IsDigest(Seal(body).hash)
BY DigestIsDigest DEF Intact, Seal

-----------------------------------------------------------------------------
\* A set of natural numbers that is not empty has a least member.
Smaller == {pair \in Nat \X Nat : pair[1] < pair[2]}

LEMMA LeastMember ==
    ASSUME NEW set, set \subseteq Nat, set # {}
    PROVE  \E least \in set : \A number \in set : least <= number
<1>1. IsWellFoundedOn(Smaller, Nat)
    BY NatLessThanWellFounded DEF OpToRel, Smaller
<1>2. PICK least \in set : \A number \in set : ~ (<<number, least>> \in Smaller)
    BY <1>1, WFMin
<1>3. \A number \in set : ~ (number < least)
    BY <1>2 DEF Smaller
<1>4. QED
    BY <1>2, <1>3

-----------------------------------------------------------------------------
(* Sequences.                                                              *)

\* What holds at the end of a range, and at a place if at all behind it, holds
\* everywhere.
LEMMA Downward ==
    ASSUME NEW n \in Nat \ {0}, NEW S,
           \A i \in 1..n : (\A j \in (i + 1)..n : j \in S) => i \in S
    PROVE  \A i \in 1..n : i \in S
<1> DEFINE T == {k \in Nat : k < n /\ n - k \notin S}
<1>1. T # {} => \E least \in T : \A k \in T : least <= k
    <2>1. T \subseteq Nat
        OBVIOUS
    <2> HIDE DEF T
    <2>2. QED
        BY <2>1, LeastMember
<1>2. ASSUME T # {} PROVE FALSE
    <2>1. PICK least \in T : \A k \in T : least <= k
        BY <1>1, <1>2
    <2>2. n - least \in 1..n /\ n - least \notin S /\ least \in Nat
        BY <2>1
    <2>3. ASSUME NEW j \in (n - least + 1)..n PROVE j \in S
        <3>1. n - j \in Nat /\ n - j < least /\ n - j < n
            BY <2>2, <2>3
        <3>2. n - j \notin T
            BY <2>1, <2>2, <3>1
        <3>3. n - (n - j) = j
            BY <2>2, <2>3
        <3>4. QED
            BY <3>1, <3>2, <3>3
    <2>4. QED
        BY <2>2, <2>3
<1>3. ASSUME NEW i \in 1..n PROVE i \in S
    <2>1. n - i \in Nat /\ n - i < n /\ n - (n - i) = i
        OBVIOUS
    <2>2. QED
        BY <1>2, <2>1
<1>4. QED
    BY <1>3

LEMMA ListIsSeq ==
    ASSUME NEW list, IsList(list), NEW S, {list[i] : i \in DOMAIN list} \subseteq S
    PROVE  list \in Seq(S)
<1> DEFINE T == {list[i] : i \in DOMAIN list}
<1>1. list \in Seq(T) /\ T \subseteq S
    BY DEF IsList
<1> HIDE DEF T
<1>2. QED
    BY <1>1

LEMMA SeqIsList ==
    ASSUME NEW S, NEW list \in Seq(S)
    PROVE  IsList(list)
<1> DEFINE T == {list[i] : i \in DOMAIN list}
<1>1. DOMAIN list = 1..Len(list) /\ Len(list) \in Nat
    OBVIOUS
<1>2. list \in [1..Len(list) -> T]
    BY <1>1
<1> HIDE DEF T
<1>3. list \in Seq(T)
    BY <1>1, <1>2
<1>4. QED
    BY <1>3 DEF IsList, T

\* A sequence with a member put in front of it, and with two.
Ahead(a, s) == <<a>> \o s

LEMMA InFront ==
    ASSUME NEW S, NEW s \in Seq(S), NEW a \in S
    PROVE  /\ Ahead(a, s) \in Seq(S)
           /\ Len(Ahead(a, s)) = Len(s) + 1
           /\ Ahead(a, s)[1] = a
BY DEF Ahead

LEMMA BehindFront ==
    ASSUME NEW S, NEW s \in Seq(S), NEW a \in S, NEW i \in 1..Len(s)
    PROVE  Ahead(a, s)[i + 1] = s[i]
BY DEF Ahead

LEMMA TwoInFront ==
    ASSUME NEW S, NEW s \in Seq(S), NEW a \in S, NEW b \in S
    PROVE  /\ <<a, b>> \o s = Ahead(a, Ahead(b, s))
           /\ <<a, b>> \o s \in Seq(S)
<1> DEFINE left == <<a, b>> \o s
           rest == Ahead(b, s)
           right == Ahead(a, rest)
<1>1. rest \in Seq(S) /\ Len(rest) = Len(s) + 1 /\ rest[1] = b
      /\ \A i \in 1..Len(s) : rest[i + 1] = s[i]
    BY InFront, BehindFront
<1>2. left \in Seq(S) /\ Len(left) = Len(s) + 2 /\ left[1] = a /\ left[2] = b
    <2>1. <<a, b>> \in Seq(S) /\ Len(<<a, b>>) = 2
        OBVIOUS
    <2>2. QED
        BY <2>1
<1>3. \A i \in 1..Len(s) : left[i + 2] = s[i]
    <2>1. <<a, b>> \in Seq(S) /\ Len(<<a, b>>) = 2
        OBVIOUS
    <2>2. QED
        BY <2>1
<1> HIDE DEF left, rest
<1>4. right \in Seq(S) /\ Len(right) = Len(rest) + 1 /\ right[1] = a
      /\ \A i \in 1..Len(rest) : right[i + 1] = rest[i]
    <2>1. right \in Seq(S)
        BY <1>1, InFront
    <2>2. Len(right) = Len(rest) + 1
        BY <1>1, InFront
    <2>3. right[1] = a
        BY <1>1, InFront
    <2>4. \A i \in 1..Len(rest) : right[i + 1] = rest[i]
        BY <1>1, BehindFront
    <2>5. QED
        BY <2>1, <2>2, <2>3, <2>4
<1> HIDE DEF right
<1>5. ASSUME NEW i \in 1..(Len(s) + 2) PROVE left[i] = right[i]
    <2>1. CASE i = 1
        BY <1>2, <1>4, <2>1
    <2>2. CASE i = 2
        BY <1>1, <1>2, <1>4, <2>2
    <2>3. CASE i > 2
        <3>1. i - 2 \in 1..Len(s) /\ i - 1 \in 1..Len(rest)
              /\ (i - 2) + 2 = i /\ (i - 1) + 1 = i /\ (i - 2) + 1 = i - 1
            BY <1>1, <2>3
        <3>2. left[i] = s[i - 2] /\ right[i] = rest[i - 1] /\ rest[i - 1] = s[i - 2]
            BY <1>1, <1>3, <1>4, <3>1
        <3>3. QED
            BY <3>2
    <2>4. QED
        BY <2>1, <2>2, <2>3
<1>6. left = right
    BY <1>1, <1>2, <1>4, <1>5
<1>7. QED
    BY <1>2, <1>6 DEF left, rest, right

\* Equal sequences have equal fronts and equal rests.
LEMMA FrontAndRest ==
    ASSUME NEW S, NEW s \in Seq(S), NEW t \in Seq(S), NEW a \in S, NEW b \in S,
           Ahead(a, s) = Ahead(b, t)
    PROVE  a = b /\ s = t
<1>1. Ahead(a, s)[1] = a /\ Ahead(b, t)[1] = b
    BY InFront
<1>2. Len(Ahead(a, s)) = Len(s) + 1 /\ Len(Ahead(b, t)) = Len(t) + 1
    BY InFront
<1>3. \A i \in 1..Len(s) : Ahead(a, s)[i + 1] = s[i]
    BY BehindFront
<1>4. \A i \in 1..Len(t) : Ahead(b, t)[i + 1] = t[i]
    BY BehindFront
<1>5. Len(s) = Len(t)
    BY <1>2
<1>6. \A i \in 1..Len(s) : s[i] = t[i]
    BY <1>3, <1>4, <1>5
<1>7. QED
    BY <1>1, <1>5, <1>6

\* A sequence that is not empty is its first member in front of the rest.
LEMMA TakenApart ==
    ASSUME NEW S, NEW s \in Seq(S), s # <<>>
    PROVE  \E a \in S, t \in Seq(S) : s = Ahead(a, t) /\ Len(t) = Len(s) - 1
<1>1. Head(s) \in S /\ Tail(s) \in Seq(S) /\ Len(Tail(s)) = Len(s) - 1
    OBVIOUS
<1>2. s = Ahead(Head(s), Tail(s))
    BY DEF Ahead
<1>3. QED
    BY <1>1, <1>2

-----------------------------------------------------------------------------
\* A function defined from the end of a range, each value by the value at some
\* place behind it, exists.
Stepping(m, V, base, step, next) ==
    /\ m \in Nat \ {0} /\ base \in V
    /\ step \in [1..(m - 1) -> [V -> V]]
    /\ next \in [1..(m - 1) -> 1..m]
    /\ \A i \in 1..(m - 1) : i < next[i]

Stepped(m, V, base, step, next, from) ==
    /\ from \in [1..m -> V]
    /\ from[m] = base
    /\ \A i \in 1..(m - 1) : from[i] = step[i][from[next[i]]]

LEMMA Recursion ==
    ASSUME NEW m, NEW V, NEW base, NEW step, NEW next, Stepping(m, V, base, step, next)
    PROVE  \E from : Stepped(m, V, base, step, next, from)
<1> DEFINE Solves(from, k) ==
               /\ from \in [1..m -> V]
               /\ from[m] = base
               /\ \A i \in 1..(m - 1) : k <= i => from[i] = step[i][from[next[i]]]
           solved == {k \in 1..m : \E from : Solves(from, k)}
<1> USE DEF Stepping
<1>1. ASSUME NEW k \in 1..m, \A j \in (k + 1)..m : j \in solved
      PROVE  k \in solved
    <2>1. CASE k = m
        <3>1. Solves([i \in 1..m |-> base], k)
            BY <2>1
        <3>2. QED
            BY <3>1
    <2>2. CASE k # m
        <3>1. k \in 1..(m - 1) /\ k + 1 \in (k + 1)..m
            BY <2>2
        <3>2. PICK rest : Solves(rest, k + 1)
            BY <1>1, <3>1
        <3> DEFINE new == step[k][rest[next[k]]]
                   from == [rest EXCEPT ![k] = new]
        <3>3. new \in V
            BY <3>1, <3>2
        <3>4. from \in [1..m -> V] /\ from[m] = base
            BY <3>1, <3>2, <3>3
        <3>5. ASSUME NEW i \in 1..(m - 1), k <= i PROVE from[i] = step[i][from[next[i]]]
            <4>1. next[i] \in 1..m /\ next[i] # k
                BY <3>1, <3>5
            <4>2. from[next[i]] = rest[next[i]]
                BY <3>2, <4>1
            <4>3. CASE i = k
                BY <3>1, <3>2, <4>2, <4>3
            <4>4. CASE i # k
                <5>1. k + 1 <= i
                    BY <3>1, <3>5, <4>4
                <5>2. from[i] = rest[i]
                    BY <3>2, <4>4
                <5>3. QED
                    BY <3>2, <4>2, <5>1, <5>2
            <4>5. QED
                BY <4>3, <4>4
        <3>6. Solves(from, k)
            BY <3>4, <3>5
        <3> HIDE DEF from, Solves
        <3>7. QED
            BY <3>6
    <2>3. QED
        BY <2>1, <2>2
<1>2. 1 \in solved
    <2> HIDE DEF solved
    <2>1. \A k \in 1..m : k \in solved
        BY <1>1, Downward DEF Stepping
    <2>2. QED
        BY <2>1
<1>3. PICK from : Solves(from, 1)
    BY <1>2
<1>4. QED
    BY <1>3 DEF Stepped

\* Every solution has the values of the recursion.
LEMMA RecursionTyped ==
    ASSUME NEW m, NEW V, NEW base, NEW step, NEW next, Stepping(m, V, base, step, next),
           NEW from, from = [i \in 1..m |-> from[i]], from[m] = base,
           \A i \in 1..(m - 1) : from[next[i]] \in V => from[i] = step[i][from[next[i]]]
    PROVE  Stepped(m, V, base, step, next, from)
<1> DEFINE typed == {i \in 1..m : from[i] \in V}
<1>1. ASSUME NEW i \in 1..m, \A j \in (i + 1)..m : j \in typed
      PROVE  i \in typed
    <2>1. CASE i = m
        BY <2>1 DEF Stepping
    <2>2. CASE i # m
        <3>1. i \in 1..(m - 1)
            BY <2>2 DEF Stepping
        <3>2. next[i] \in (i + 1)..m
            BY <3>1 DEF Stepping
        <3>3. from[next[i]] \in V
            BY <1>1, <3>2
        <3>4. step[i] \in [V -> V]
            BY <3>1 DEF Stepping
        <3>5. QED
            BY <3>1, <3>3, <3>4
    <2>3. QED
        BY <2>1, <2>2
<1>2. \A i \in 1..m : i \in typed
    <2> HIDE DEF typed
    <2>1. QED
        BY <1>1, Downward DEF Stepping
<1>3. from \in [1..m -> V]
    BY <1>2
<1>4. \A i \in 1..(m - 1) : next[i] \in 1..m
    BY DEF Stepping
<1>5. QED
    BY <1>2, <1>3, <1>4 DEF Stepped

-----------------------------------------------------------------------------
(* How a text is written as a token.                                       *)

ESCAPES == {"~", "/", "0", "1"}

\* What is written of a first character, and of the text behind it.
WrittenBefore(char, s) == Escape(char) \o s

LEMMA EscapeInFront ==
    ASSUME NEW S, ESCAPES \subseteq S, NEW char \in S, NEW s \in Seq(S)
    PROVE  /\ char = "/" => WrittenBefore(char, s) = Ahead("~", Ahead("1", s))
           /\ char = "~" => WrittenBefore(char, s) = Ahead("~", Ahead("0", s))
           /\ char \notin {"~", "/"} => WrittenBefore(char, s) = Ahead(char, s)
           /\ WrittenBefore(char, s) \in Seq(S)
<1>1. "~" \in S /\ "/" \in S /\ "0" \in S /\ "1" \in S
    BY DEF ESCAPES
<1>2. CASE char = "/"
    BY <1>1, <1>2, TwoInFront DEF Escape, WrittenBefore
<1>3. CASE char = "~"
    BY <1>1, <1>3, TwoInFront DEF Escape, WrittenBefore
<1>4. CASE char \notin {"~", "/"}
    <2>1. WrittenBefore(char, s) = Ahead(char, s)
        BY <1>4 DEF Escape, WrittenBefore, Ahead
    <2>2. QED
        BY <1>4, <2>1, InFront
<1>5. QED
    BY <1>2, <1>3, <1>4

\* The recursion of Written has a solution, and Written uses one.
WrittenFrom(text, from, S) ==
    /\ from \in [1..(Len(text) + 1) -> Seq(S)]
    /\ from[Len(text) + 1] = <<>>
    /\ \A i \in 1..Len(text) : from[i] = WrittenBefore(text[i], from[i + 1])

LEMMA WrittenScans ==
    ASSUME NEW S, ESCAPES \subseteq S, NEW text \in Seq(S)
    PROVE  \E from : WrittenFrom(text, from, S) /\ Written(text) = from[1]
<1> DEFINE m == Len(text) + 1
           V == Seq(S)
           step == [i \in 1..(m - 1) |-> [s \in V |-> WrittenBefore(text[i], s)]]
           next == [i \in 1..(m - 1) |-> i + 1]
           Rule(f) == [i \in 1..m |->
                          IF i > Len(text) THEN <<>> ELSE WrittenBefore(text[i], f[i + 1])]
<1>1. m \in Nat \ {0} /\ Len(text) = m - 1 /\ <<>> \in V
    OBVIOUS
<1>2. \A i \in 1..(m - 1) : \A s \in V : WrittenBefore(text[i], s) \in V
    <2>1. \A i \in 1..(m - 1) : text[i] \in S
        OBVIOUS
    <2>2. QED
        BY <2>1, EscapeInFront
<1>3. (\E f : f = Rule(f)) => \E f : f = Rule(f) /\ Written(text) = f[1]
    BY DEF Written, WrittenBefore
<1> HIDE DEF m, V
<1>4. step \in [1..(m - 1) -> [V -> V]]
    BY <1>2
<1>5. next \in [1..(m - 1) -> 1..m] /\ \A i \in 1..(m - 1) : i < next[i]
    BY <1>1
<1>6. Stepping(m, V, <<>>, step, next)
    BY <1>1, <1>4, <1>5 DEF Stepping
<1>7. \A i \in 1..(m - 1) : next[i] = i + 1
    OBVIOUS
<1>8. \A i \in 1..(m - 1) : \A s \in V : step[i][s] = WrittenBefore(text[i], s)
    OBVIOUS
<1> HIDE DEF step, next
<1>9. PICK from : Stepped(m, V, <<>>, step, next, from)
    BY <1>6, Recursion
<1>10. from = Rule(from)
    <2>1. from \in [1..m -> V] /\ from[m] = <<>>
        BY <1>9 DEF Stepped
    <2>2. ASSUME NEW i \in 1..m PROVE from[i] = Rule(from)[i]
        <3>1. CASE i > Len(text)
            <4>1. i = m
                BY <1>1, <3>1
            <4>2. QED
                BY <2>1, <3>1, <4>1
        <3>2. CASE ~(i > Len(text))
            <4>1. i \in 1..(m - 1) /\ i + 1 \in 1..m
                BY <1>1, <3>2
            <4>2. from[i] = step[i][from[i + 1]] /\ from[i + 1] \in V
                BY <1>7, <1>9, <2>1, <4>1 DEF Stepped
            <4>3. QED
                BY <1>8, <3>2, <4>1, <4>2
        <3>3. QED
            BY <3>1, <3>2
    <2>3. QED
        BY <2>1, <2>2
<1>11. PICK chosen : chosen = Rule(chosen) /\ Written(text) = chosen[1]
    BY <1>3, <1>10
<1>12. \A i \in 1..m : chosen[i] = IF i > Len(text) THEN <<>>
                                    ELSE WrittenBefore(text[i], chosen[i + 1])
    BY <1>11
<1>13. chosen[m] = <<>>
    BY <1>1, <1>12
<1>14. \A i \in 1..(m - 1) : chosen[i] = WrittenBefore(text[i], chosen[i + 1])
    <2>1. \A i \in 1..(m - 1) : i \in 1..m /\ ~(i > Len(text))
        BY <1>1
    <2> HIDE DEF Rule
    <2>2. QED
        BY <1>12, <2>1
<1>15. chosen = [i \in 1..m |-> chosen[i]]
    BY <1>11
<1> HIDE DEF Rule
<1>16. Stepped(m, V, <<>>, step, next, chosen)
    <2>1. \A i \in 1..(m - 1) :
              chosen[next[i]] \in V => chosen[i] = step[i][chosen[next[i]]]
        <3>1. ASSUME NEW i \in 1..(m - 1), chosen[next[i]] \in V
              PROVE  chosen[i] = step[i][chosen[next[i]]]
            <4>1. step[i][chosen[next[i]]] = WrittenBefore(text[i], chosen[next[i]])
                BY <1>8, <3>1
            <4>2. QED
                BY <1>7, <1>14, <4>1
        <3>2. QED
            BY <3>1
    <2>2. QED
        BY <1>6, <1>13, <1>15, <2>1, RecursionTyped
<1>17. chosen \in [1..m -> V]
    BY <1>16 DEF Stepped
<1>18. QED
    BY <1>1, <1>11, <1>13, <1>14, <1>17 DEF WrittenFrom, m, V

\* The recursion of Decoded has a solution, and Decoded uses one.
DecodedFrom(token, from, S) ==
    /\ from \in [1..(Len(token) + 1) -> Seq(S)]
    /\ from[Len(token) + 1] = <<>>
    /\ \A i \in 1..Len(token) :
          from[i] = IF token[i] # "~" THEN Ahead(token[i], from[i + 1])
                    ELSE Ahead(IF token[i + 1] = "0" THEN "~" ELSE "/", from[i + 2])

LEMMA DecodedScans ==
    ASSUME NEW S, ESCAPES \subseteq S, NEW token \in Seq(S), MayDecode(token)
    PROVE  \E from : DecodedFrom(token, from, S) /\ Decoded(token) = from[1]
<1> DEFINE m == Len(token) + 1
           V == Seq(S)
           Char(i) == IF token[i] # "~" THEN token[i]
                      ELSE IF token[i + 1] = "0" THEN "~" ELSE "/"
           step == [i \in 1..(m - 1) |-> [s \in V |-> Ahead(Char(i), s)]]
           next == [i \in 1..(m - 1) |-> IF token[i] # "~" THEN i + 1 ELSE i + 2]
           Rule(f) == [i \in 1..m |->
                          IF i > Len(token) THEN <<>>
                          ELSE IF token[i] # "~" THEN Ahead(token[i], f[i + 1])
                          ELSE Ahead(IF token[i + 1] = "0" THEN "~" ELSE "/", f[i + 2])]
<1>1. m \in Nat \ {0} /\ Len(token) = m - 1 /\ <<>> \in V
    OBVIOUS
<1>2. \A i \in 1..(m - 1) : \A s \in V : Ahead(Char(i), s) \in V
    <2>1. \A i \in 1..(m - 1) : Char(i) \in S
        BY DEF ESCAPES
    <2> HIDE DEF Char
    <2>2. QED
        BY <2>1, InFront
<1>3. (\E f : f = Rule(f)) => \E f : f = Rule(f) /\ Decoded(token) = f[1]
    BY DEF Decoded, Ahead
<1>4. \A i \in 1..(m - 1) : token[i] = "~" => i + 2 \in 1..m
    BY DEF MayDecode
<1> HIDE DEF m, V
<1>5. step \in [1..(m - 1) -> [V -> V]]
    BY <1>2
<1>6. next \in [1..(m - 1) -> 1..m] /\ \A i \in 1..(m - 1) : i < next[i]
    <2>1. \A i \in 1..(m - 1) : i + 1 \in 1..m
        BY <1>1
    <2>2. \A i \in 1..(m - 1) : next[i] \in 1..m /\ i < next[i]
        BY <1>1, <1>4, <2>1
    <2>3. QED
        BY <2>2
<1>7. Stepping(m, V, <<>>, step, next)
    BY <1>1, <1>5, <1>6 DEF Stepping
<1>8. \A i \in 1..(m - 1) : next[i] = IF token[i] # "~" THEN i + 1 ELSE i + 2
    OBVIOUS
<1>9. \A i \in 1..(m - 1) : \A s \in V : step[i][s] = Ahead(Char(i), s)
    OBVIOUS
<1> HIDE DEF step, next
<1>10. \A f : (\A i \in 1..(m - 1) : f[next[i]] \in V) =>
                 \A i \in 1..(m - 1) :
                     step[i][f[next[i]]] =
                         IF token[i] # "~" THEN Ahead(token[i], f[i + 1])
                         ELSE Ahead(IF token[i + 1] = "0" THEN "~" ELSE "/", f[i + 2])
    BY <1>8, <1>9
<1>11. PICK from : Stepped(m, V, <<>>, step, next, from)
    BY <1>7, Recursion
<1>12. from = Rule(from)
    <2>1. from \in [1..m -> V] /\ from[m] = <<>>
        BY <1>11 DEF Stepped
    <2>2. \A i \in 1..(m - 1) : from[next[i]] \in V
        BY <1>6, <2>1
    <2>3. \A i \in 1..(m - 1) :
              from[i] = IF token[i] # "~" THEN Ahead(token[i], from[i + 1])
                        ELSE Ahead(IF token[i + 1] = "0" THEN "~" ELSE "/", from[i + 2])
        <3>1. \A i \in 1..(m - 1) : from[i] = step[i][from[next[i]]]
            BY <1>11 DEF Stepped
        <3>2. QED
            BY <1>10, <2>2, <3>1
    <2>4. ASSUME NEW i \in 1..m PROVE from[i] = Rule(from)[i]
        <3>1. CASE i > Len(token)
            <4>1. i = m
                BY <1>1, <3>1
            <4>2. QED
                BY <2>1, <3>1, <4>1
        <3>2. CASE ~(i > Len(token))
            <4>1. i \in 1..(m - 1)
                BY <1>1, <3>2
            <4>2. QED
                BY <2>3, <3>2, <4>1
        <3>3. QED
            BY <3>1, <3>2
    <2>5. QED
        BY <2>1, <2>4
<1>13. PICK chosen : chosen = Rule(chosen) /\ Decoded(token) = chosen[1]
    BY <1>3, <1>12
<1>14. \A i \in 1..m : chosen[i] =
           IF i > Len(token) THEN <<>>
           ELSE IF token[i] # "~" THEN Ahead(token[i], chosen[i + 1])
           ELSE Ahead(IF token[i + 1] = "0" THEN "~" ELSE "/", chosen[i + 2])
    BY <1>13
<1>15. chosen[m] = <<>>
    <2>1. m \in 1..m /\ m > Len(token)
        BY <1>1
    <2> HIDE DEF Rule
    <2>2. QED
        BY <1>14, <2>1
<1>16. \A i \in 1..(m - 1) : chosen[i] =
           IF token[i] # "~" THEN Ahead(token[i], chosen[i + 1])
           ELSE Ahead(IF token[i + 1] = "0" THEN "~" ELSE "/", chosen[i + 2])
    <2>1. \A i \in 1..(m - 1) : i \in 1..m /\ ~(i > Len(token))
        BY <1>1
    <2> HIDE DEF Rule
    <2>2. QED
        BY <1>14, <2>1
<1>17. chosen = [i \in 1..m |-> chosen[i]]
    BY <1>13
<1> HIDE DEF Rule
<1>18. Stepped(m, V, <<>>, step, next, chosen)
    <2>1. \A i \in 1..(m - 1) :
              chosen[next[i]] \in V => chosen[i] = step[i][chosen[next[i]]]
        BY <1>8, <1>9, <1>16
    <2>2. QED
        BY <1>7, <1>15, <1>17, <2>1, RecursionTyped
<1>19. chosen \in [1..m -> V]
    BY <1>18 DEF Stepped
<1>20. QED
    BY <1>1, <1>13, <1>15, <1>16, <1>19 DEF DecodedFrom, m, V

-----------------------------------------------------------------------------
\* A text is written character by character.
LEMMA WrittenEmpty == Written(<<>>) = <<>>
<1>1. <<>> \in Seq(ESCAPES) /\ Len(<<>>) = 0
    OBVIOUS
<1>2. PICK w : WrittenFrom(<<>>, w, ESCAPES) /\ Written(<<>>) = w[1]
    BY <1>1, WrittenScans
<1>3. w[0 + 1] = <<>>
    BY <1>1, <1>2 DEF WrittenFrom
<1>4. QED
    BY <1>2, <1>3

LEMMA WrittenStep ==
    ASSUME NEW S, ESCAPES \subseteq S, NEW char \in S, NEW s \in Seq(S)
    PROVE  /\ Written(s) \in Seq(S)
           /\ Written(Ahead(char, s)) = WrittenBefore(char, Written(s))
<1> DEFINE t == Ahead(char, s)
           n == Len(s)
<1>1. /\ t \in Seq(S) /\ Len(t) = n + 1 /\ t[1] = char
      /\ \A i \in 1..n : t[i + 1] = s[i]
    BY InFront, BehindFront
<1>2. PICK v : WrittenFrom(s, v, S) /\ Written(s) = v[1]
    BY WrittenScans
<1>3. PICK w : WrittenFrom(t, w, S) /\ Written(t) = w[1]
    BY <1>1, WrittenScans
<1>4. n \in Nat
    OBVIOUS
<1>5. /\ v \in [1..(n + 1) -> Seq(S)]
      /\ v[n + 1] = <<>>
      /\ \A i \in 1..n : v[i] = WrittenBefore(s[i], v[i + 1])
    BY <1>2 DEF WrittenFrom
<1> HIDE DEF n
<1>6. /\ w[(n + 1) + 1] = <<>>
      /\ \A i \in 1..(n + 1) : w[i] = WrittenBefore(t[i], w[i + 1])
    BY <1>1, <1>3 DEF WrittenFrom
<1> HIDE DEF t
<1> DEFINE same == {i \in 1..(n + 1) : w[i + 1] = v[i]}
<1>7. ASSUME NEW i \in 1..(n + 1), \A j \in (i + 1)..(n + 1) : j \in same
      PROVE  i \in same
    <2>1. CASE i = n + 1
        BY <1>4, <1>5, <1>6, <2>1
    <2>2. CASE i # n + 1
        <3>1. i \in 1..n /\ i + 1 \in (i + 1)..(n + 1) /\ i + 1 \in 1..(n + 1)
            BY <1>4, <2>2
        <3>2. w[(i + 1) + 1] = v[i + 1]
            BY <1>7, <3>1
        <3>3. w[i + 1] = WrittenBefore(t[i + 1], w[(i + 1) + 1])
            BY <1>6, <3>1
        <3>4. v[i] = WrittenBefore(s[i], v[i + 1])
            BY <1>5, <3>1
        <3>5. t[i + 1] = s[i]
            BY <1>1, <3>1
        <3>6. w[i + 1] = v[i]
            BY <3>2, <3>3, <3>4, <3>5
        <3>7. QED
            BY <3>6
    <2>3. QED
        BY <2>1, <2>2
<1>8. n + 1 \in Nat \ {0} /\ 1 \in 1..(n + 1)
    BY <1>4
<1>9. w[1 + 1] = v[1]
    <2> HIDE DEF same
    <2>1. \A i \in 1..(n + 1) : i \in same
        BY <1>7, <1>8, Downward
    <2>2. 1 \in same
        BY <1>8, <2>1
    <2>3. QED
        BY <2>2 DEF same
<1>10. w[1] = WrittenBefore(char, w[1 + 1])
    BY <1>1, <1>6, <1>8
<1>11. v[1] \in Seq(S)
    BY <1>5, <1>8
<1>12. QED
    BY <1>2, <1>3, <1>9, <1>10, <1>11 DEF t

\* A text without "/" and "~" is written as it is.
LEMMA WrittenPlain ==
    ASSUME NEW S, ESCAPES \subseteq S, NEW s \in Seq(S),
           \A i \in 1..Len(s) : s[i] \notin {"~", "/"}
    PROVE  Written(s) = s
<1> DEFINE Plain(t) == \A i \in 1..Len(t) : t[i] \notin {"~", "/"}
           bad == {k \in Nat : \E t \in Seq(S) : Len(t) = k /\ Plain(t) /\ Written(t) # t}
<1>1. ASSUME NEW k \in bad, \A j \in bad : k <= j PROVE FALSE
    <2>1. PICK t \in Seq(S) : Len(t) = k /\ Plain(t) /\ Written(t) # t
        BY <1>1
    <2>2. t # <<>>
        BY <2>1, WrittenEmpty
    <2>3. PICK a \in S, r \in Seq(S) : t = Ahead(a, r) /\ Len(r) = Len(t) - 1
        BY <2>2, TakenApart
    <2>4. t[1] = a /\ \A i \in 1..Len(r) : t[i + 1] = r[i]
        <3>1. t[1] = a
            BY <2>3, InFront
        <3>2. \A i \in 1..Len(r) : t[i + 1] = r[i]
            BY <2>3, BehindFront
        <3>3. QED
            BY <3>1, <3>2
    <2>5. Len(r) \in Nat /\ Len(r) < k /\ Len(t) \in Nat \ {0}
        BY <2>1, <2>3
    <2>6. Plain(r) /\ a \notin {"~", "/"}
        <3>1. \A i \in 1..Len(r) : i + 1 \in 1..Len(t)
            BY <2>3, <2>5
        <3>2. QED
            BY <2>1, <2>4, <2>5, <3>1
    <2>7. Len(r) \notin bad
        BY <1>1, <2>5
    <2>8. Written(r) = r
        BY <2>5, <2>6, <2>7
    <2>9. Written(t) = WrittenBefore(a, Written(r))
        BY <2>3, WrittenStep
    <2>10. QED
        BY <2>1, <2>3, <2>6, <2>8, <2>9, EscapeInFront
<1>2. bad = {}
    <2>1. bad \subseteq Nat
        OBVIOUS
    <2> HIDE DEF bad
    <2>2. QED
        BY <1>1, <2>1, LeastMember
<1>3. Len(s) \in Nat
    OBVIOUS
<1>4. QED
    BY <1>2, <1>3

\* What is written of a first character is told apart.
LEMMA EscapeApart ==
    ASSUME NEW S, ESCAPES \subseteq S, NEW a \in S, NEW b \in S,
           NEW u \in Seq(S), NEW v \in Seq(S), WrittenBefore(a, u) = WrittenBefore(b, v)
    PROVE  a = b /\ u = v
<1> DEFINE V == Seq(S)
<1>1. \A c \in S, w \in V : Ahead(c, w) \in V
    BY InFront
<1>2. \A c, d \in S : \A w, x \in V : Ahead(c, w) = Ahead(d, x) => c = d /\ w = x
    BY FrontAndRest
<1>3. "~" \in S /\ "/" \in S /\ "0" \in S /\ "1" \in S
    BY DEF ESCAPES
<1> DEFINE Code(c) == IF c = "/" THEN "1" ELSE "0"
           Escaped == {"~", "/"}
<1>4. \A c \in Escaped, w \in V : /\ WrittenBefore(c, w) = Ahead("~", Ahead(Code(c), w))
                                 /\ Ahead(Code(c), w) \in V
    <2>1. ASSUME NEW c \in Escaped, NEW w \in V
          PROVE  WrittenBefore(c, w) = Ahead("~", Ahead(Code(c), w)) /\ Ahead(Code(c), w) \in V
        <3>1. CASE c = "/"
            BY <1>1, <1>3, <3>1, EscapeInFront
        <3>2. CASE c = "~"
            BY <1>1, <1>3, <3>2, EscapeInFront
        <3>3. QED
            BY <3>1, <3>2
    <2>2. QED
        BY <2>1
<1>5. \A c \in S, w \in V : c \notin Escaped => WrittenBefore(c, w) = Ahead(c, w)
    BY EscapeInFront
<1>6. WrittenBefore(a, u) = WrittenBefore(b, v) /\ u \in V /\ v \in V
    OBVIOUS
<1>7. /\ "~" \in Escaped
      /\ \A c \in Escaped : Code(c) \in S
      /\ \A c, d \in Escaped : Code(c) = Code(d) => c = d
    BY <1>3
<1> HIDE DEF V, Code, Escaped
<1>8. CASE a \in Escaped /\ b \in Escaped
    <2>1. Ahead("~", Ahead(Code(a), u)) = Ahead("~", Ahead(Code(b), v))
        BY <1>4, <1>6, <1>8
    <2>2. Ahead(Code(a), u) = Ahead(Code(b), v)
        BY <1>2, <1>3, <1>4, <1>6, <1>8, <2>1
    <2>3. QED
        BY <1>2, <1>6, <1>7, <1>8, <2>2
<1>9. CASE a \notin Escaped /\ b \in Escaped
    <2>1. Ahead(a, u) = Ahead("~", Ahead(Code(b), v))
        BY <1>4, <1>5, <1>6, <1>9
    <2>2. a = "~"
        BY <1>2, <1>3, <1>4, <1>6, <1>9, <2>1
    <2>3. QED
        BY <1>7, <1>9, <2>2
<1>10. CASE a \in Escaped /\ b \notin Escaped
    <2>1. Ahead("~", Ahead(Code(a), u)) = Ahead(b, v)
        BY <1>4, <1>5, <1>6, <1>10
    <2>2. b = "~"
        BY <1>2, <1>3, <1>4, <1>6, <1>10, <2>1
    <2>3. QED
        BY <1>7, <1>10, <2>2
<1>11. CASE a \notin Escaped /\ b \notin Escaped
    <2>1. Ahead(a, u) = Ahead(b, v)
        BY <1>5, <1>6, <1>11
    <2>2. QED
        BY <1>2, <1>6, <2>1
<1>12. QED
    BY <1>8, <1>9, <1>10, <1>11

\* What is written of a text that is not empty is not empty.
LEMMA WrittenNotEmpty ==
    ASSUME NEW S, ESCAPES \subseteq S, NEW a \in S, NEW u \in Seq(S)
    PROVE  WrittenBefore(a, u) # <<>>
<1>1. "~" \in S /\ "/" \in S /\ "0" \in S /\ "1" \in S
    BY DEF ESCAPES
<1>2. \A c \in S, x \in Seq(S) : Ahead(c, x) # <<>>
    BY DEF Ahead
<1>3. \A c \in S, x \in Seq(S) : Ahead(c, x) \in Seq(S)
    BY InFront
<1>4. CASE a = "/"
    <2>1. WrittenBefore(a, u) = Ahead("~", Ahead("1", u))
        BY <1>4, EscapeInFront
    <2>2. QED
        BY <1>1, <1>2, <1>3, <2>1
<1>5. CASE a = "~"
    <2>1. WrittenBefore(a, u) = Ahead("~", Ahead("0", u))
        BY <1>5, EscapeInFront
    <2>2. QED
        BY <1>1, <1>2, <1>3, <2>1
<1>6. CASE a \notin {"~", "/"}
    <2>1. WrittenBefore(a, u) = Ahead(a, u)
        BY <1>6, EscapeInFront
    <2>2. QED
        BY <1>2, <2>1
<1>7. QED
    BY <1>4, <1>5, <1>6

\* Two texts that are written alike are one.
LEMMA WrittenInjective ==
    ASSUME NEW S, ESCAPES \subseteq S, NEW s \in Seq(S), NEW t \in Seq(S),
           Written(s) = Written(t)
    PROVE  s = t
<1> DEFINE bad == {k \in Nat : \E p, q \in Seq(S) :
                                   Len(p) = k /\ Written(p) = Written(q) /\ p # q}
<1>1. \A p \in Seq(S) : p # <<>> => Written(p) # <<>>
    <2>1. ASSUME NEW p \in Seq(S), p # <<>> PROVE Written(p) # <<>>
        <3>1. PICK a \in S, r \in Seq(S) : p = Ahead(a, r)
            BY <2>1, TakenApart
        <3>2. Written(p) = WrittenBefore(a, Written(r)) /\ Written(r) \in Seq(S)
            BY <3>1, WrittenStep
        <3>3. QED
            BY <3>2, WrittenNotEmpty
    <2>2. QED
        BY <2>1
<1>2. ASSUME NEW k \in bad, \A j \in bad : k <= j PROVE FALSE
    <2>1. PICK p \in Seq(S), q \in Seq(S) :
              Len(p) = k /\ Written(p) = Written(q) /\ p # q
        BY <1>2
    <2>2. p # <<>> /\ q # <<>>
        BY <1>1, <2>1, WrittenEmpty
    <2>3. PICK a \in S, x \in Seq(S) : p = Ahead(a, x) /\ Len(x) = Len(p) - 1
        BY <2>2, TakenApart
    <2>4. PICK b \in S, y \in Seq(S) : q = Ahead(b, y)
        BY <2>2, TakenApart
    <2>5. /\ WrittenBefore(a, Written(x)) = WrittenBefore(b, Written(y))
          /\ Written(x) \in Seq(S) /\ Written(y) \in Seq(S)
        <3>1. Written(p) = WrittenBefore(a, Written(x)) /\ Written(x) \in Seq(S)
            BY <2>3, WrittenStep
        <3>2. Written(q) = WrittenBefore(b, Written(y)) /\ Written(y) \in Seq(S)
            BY <2>4, WrittenStep
        <3>3. QED
            BY <2>1, <3>1, <3>2
    <2>6. a = b /\ Written(x) = Written(y)
        <3> DEFINE u == Written(x)
                   v == Written(y)
        <3>1. WrittenBefore(a, u) = WrittenBefore(b, v) /\ u \in Seq(S) /\ v \in Seq(S)
            BY <2>5
        <3> HIDE DEF u, v
        <3>2. a = b /\ u = v
            BY <3>1, EscapeApart
        <3>3. QED
            BY <3>2 DEF u, v
    <2>7. x # y
        BY <2>1, <2>3, <2>4, <2>6
    <2>8. Len(x) \in Nat /\ Len(x) < k
        BY <2>1, <2>3
    <2>9. Len(x) \in bad
        BY <2>6, <2>7, <2>8
    <2>10. QED
        BY <1>2, <2>8, <2>9
<1>3. bad = {}
    <2>1. bad \subseteq Nat
        OBVIOUS
    <2> HIDE DEF bad
    <2>2. QED
        BY <1>2, <2>1, LeastMember
<1>4. Len(s) \in Nat
    OBVIOUS
<1>5. QED
    BY <1>3, <1>4

\* The rest of a sequence from a place on.
Rest(s, i) == SubSeq(s, i, Len(s))

LEMMA RestInFront ==
    ASSUME NEW S, NEW s \in Seq(S)
    PROVE  /\ Rest(s, 1) = s /\ Rest(s, Len(s) + 1) = <<>>
           /\ \A i \in 1..(Len(s) + 1) : Rest(s, i) \in Seq(S)
           /\ \A i \in 1..Len(s) : Rest(s, i) = Ahead(s[i], Rest(s, i + 1))
<1>1. Rest(s, 1) = s /\ Rest(s, Len(s) + 1) = <<>>
    BY DEF Rest
<1>2. ASSUME NEW i \in 1..(Len(s) + 1)
      PROVE  /\ Rest(s, i) \in Seq(S) /\ Len(Rest(s, i)) = Len(s) + 1 - i
             /\ \A k \in 1..(Len(s) + 1 - i) : Rest(s, i)[k] = s[i + k - 1]
    BY DEF Rest
<1>3. ASSUME NEW i \in 1..Len(s)
      PROVE  Rest(s, i) = Ahead(s[i], Rest(s, i + 1))
    <2> DEFINE left == Rest(s, i)
               rest == Rest(s, i + 1)
               right == Ahead(s[i], rest)
    <2>1. i \in 1..(Len(s) + 1) /\ i + 1 \in 1..(Len(s) + 1) /\ s[i] \in S
        OBVIOUS
    <2>2. /\ left \in Seq(S) /\ Len(left) = Len(s) + 1 - i
          /\ \A k \in 1..(Len(s) + 1 - i) : left[k] = s[i + k - 1]
        BY <1>2, <2>1
    <2>3. /\ rest \in Seq(S) /\ Len(rest) = Len(s) + 1 - (i + 1)
          /\ \A k \in 1..(Len(s) + 1 - (i + 1)) : rest[k] = s[(i + 1) + k - 1]
        BY <1>2, <2>1
    <2> HIDE DEF left, rest
    <2>4. right \in Seq(S) /\ Len(right) = Len(rest) + 1
        BY <2>1, <2>3, InFront
    <2>5. right[1] = s[i]
        BY <2>1, <2>3, InFront
    <2>6. \A k \in 1..Len(rest) : right[k + 1] = rest[k]
        BY <2>1, <2>3, BehindFront
    <2> HIDE DEF right
    <2>7. Len(left) = Len(right)
        BY <2>2, <2>3, <2>4
    <2>8. ASSUME NEW k \in 1..Len(left) PROVE left[k] = right[k]
        <3>1. CASE k = 1
            <4>1. left[1] = s[i + 1 - 1]
                BY <2>2, <2>8, <3>1
            <4>2. i + 1 - 1 = i
                OBVIOUS
            <4>3. QED
                BY <2>5, <3>1, <4>1, <4>2
        <3>2. CASE k # 1
            <4>1. k - 1 \in 1..Len(rest) /\ (k - 1) + 1 = k
                BY <2>2, <2>3, <2>8, <3>2
            <4>2. right[k] = rest[k - 1]
                BY <2>6, <4>1
            <4>3. rest[k - 1] = s[(i + 1) + (k - 1) - 1]
                BY <2>3, <4>1
            <4>4. (i + 1) + (k - 1) - 1 = i + k - 1
                BY <2>2
            <4>5. left[k] = s[i + k - 1]
                BY <2>2
            <4>6. QED
                BY <4>2, <4>3, <4>4, <4>5
        <3>3. QED
            BY <3>1, <3>2
    <2>9. left = right
        BY <2>2, <2>4, <2>7, <2>8
    <2>10. QED
        BY <2>9 DEF left, rest, right
<1>4. QED
    BY <1>1, <1>2, <1>3

\* A token is what is written of the text it is decoded to.
LEMMA WrittenDecoded ==
    ASSUME NEW S, ESCAPES \subseteq S, NEW token \in Seq(S), MayDecode(token),
           \A i \in DOMAIN token : token[i] # "/"
    PROVE  Decoded(token) \in Seq(S) /\ Written(Decoded(token)) = token
<1> DEFINE n == Len(token)
<1>1. PICK d : DecodedFrom(token, d, S) /\ Decoded(token) = d[1]
    BY DecodedScans
<1>2. n \in Nat /\ DOMAIN token = 1..n /\ \A i \in 1..n : token[i] \in S
    OBVIOUS
<1>3. "~" \in S /\ "/" \in S
    BY DEF ESCAPES
<1>4. /\ d \in [1..(n + 1) -> Seq(S)] /\ d[n + 1] = <<>>
      /\ \A i \in 1..n : token[i] # "~" => d[i] = Ahead(token[i], d[i + 1])
      /\ \A i \in 1..n : token[i] = "~" =>
             d[i] = Ahead(IF token[i + 1] = "0" THEN "~" ELSE "/", d[i + 2])
    BY <1>1 DEF DecodedFrom
<1>5. \A i \in 1..n : token[i] = "~" =>
          /\ i + 1 \in 1..n /\ i + 2 \in 1..(n + 1) /\ (i + 1) + 1 = i + 2
          /\ token[i + 1] \in {"0", "1"}
    BY <1>2 DEF MayDecode
<1>6. /\ Rest(token, 1) = token /\ Rest(token, n + 1) = <<>>
      /\ \A i \in 1..(n + 1) : Rest(token, i) \in Seq(S)
      /\ \A i \in 1..n : Rest(token, i) = Ahead(token[i], Rest(token, i + 1))
    BY RestInFront
<1> HIDE DEF n
<1> DEFINE good == {i \in 1..(n + 1) : Written(d[i]) = Rest(token, i)}
<1>7. ASSUME NEW i \in 1..(n + 1), \A j \in (i + 1)..(n + 1) : j \in good
      PROVE  i \in good
    <2>1. CASE i = n + 1
        BY <1>4, <1>6, <2>1, WrittenEmpty
    <2>2. CASE i # n + 1 /\ token[i] # "~"
        <3>1. i \in 1..n /\ i + 1 \in (i + 1)..(n + 1) /\ i + 1 \in 1..(n + 1)
            BY <1>2, <2>2
        <3>2. Written(d[i + 1]) = Rest(token, i + 1) /\ d[i + 1] \in Seq(S)
            BY <1>4, <1>7, <3>1
        <3>3. d[i] = Ahead(token[i], d[i + 1]) /\ token[i] \in S \ {"~", "/"}
            BY <1>2, <1>4, <2>2, <3>1
        <3>4. Written(d[i]) = WrittenBefore(token[i], Written(d[i + 1]))
            BY <3>2, <3>3, WrittenStep
        <3>5. Rest(token, i + 1) \in Seq(S)
            BY <1>6, <3>1
        <3>6. WrittenBefore(token[i], Rest(token, i + 1)) = Ahead(token[i], Rest(token, i + 1))
            BY <3>3, <3>5, EscapeInFront
        <3>7. Written(d[i]) = Rest(token, i)
            BY <1>6, <3>1, <3>2, <3>4, <3>6
        <3>8. QED
            BY <3>7
    <2>3. CASE i # n + 1 /\ token[i] = "~"
        <3> DEFINE char == IF token[i + 1] = "0" THEN "~" ELSE "/"
                   code == token[i + 1]
        <3>1. i \in 1..n
            BY <1>2, <2>3
        <3>2. /\ i + 1 \in 1..n /\ i + 2 \in (i + 1)..(n + 1) /\ i + 2 \in 1..(n + 1)
              /\ (i + 1) + 1 = i + 2 /\ code \in {"0", "1"}
            BY <1>5, <2>3, <3>1
        <3>3. Written(d[i + 2]) = Rest(token, i + 2) /\ d[i + 2] \in Seq(S)
            BY <1>4, <1>7, <3>2
        <3>4. d[i] = Ahead(char, d[i + 2])
            BY <1>4, <2>3, <3>1
        <3>5. char \in S /\ (char = "~" <=> code = "0") /\ (char = "/" <=> code = "1")
            BY <1>3, <3>2
        <3> HIDE DEF char, code
        <3>6. Written(d[i]) = WrittenBefore(char, Written(d[i + 2]))
            BY <3>3, <3>4, <3>5, WrittenStep
        <3>7. Rest(token, i + 2) \in Seq(S)
            BY <1>6, <3>2
        <3>8. WrittenBefore(char, Rest(token, i + 2)) = Ahead("~", Ahead(code, Rest(token, i + 2)))
            <4>1. CASE code = "0"
                BY <3>5, <3>7, <4>1, EscapeInFront
            <4>2. CASE code = "1"
                BY <3>5, <3>7, <4>2, EscapeInFront
            <4>3. QED
                BY <3>2, <4>1, <4>2
        <3>9. Rest(token, i + 1) = Ahead(code, Rest(token, i + 2))
            BY <1>6, <3>2 DEF code
        <3>10. Rest(token, i) = Ahead("~", Rest(token, i + 1))
            BY <1>6, <2>3, <3>1
        <3>11. Written(d[i]) = Rest(token, i)
            BY <3>3, <3>6, <3>8, <3>9, <3>10
        <3>12. QED
            BY <3>11
    <2>4. QED
        BY <2>1, <2>2, <2>3
<1>8. n + 1 \in Nat \ {0} /\ 1 \in 1..(n + 1)
    BY <1>2
<1>9. Written(d[1]) = Rest(token, 1)
    <2> HIDE DEF good
    <2>1. \A i \in 1..(n + 1) : i \in good
        BY <1>7, <1>8, Downward
    <2>2. 1 \in good
        BY <1>8, <2>1
    <2>3. QED
        BY <2>2 DEF good
<1>10. d[1] \in Seq(S)
    BY <1>4, <1>8
<1>11. QED
    BY <1>1, <1>6, <1>9, <1>10

-----------------------------------------------------------------------------
(* A token selects what RFC 6901 makes it reference.                       *)

\* A token is decoded to a key if and only if it is what is written of the key.
LEMMA DecodedIsKey ==
    ASSUME NEW token, IsToken(token), MayDecode(token)
    PROVE  /\ IsList(Decoded(token))
           /\ \A key : IsList(key) => (Decoded(token) = key <=> Written(key) = token)
<1>1. ASSUME NEW key, IsList(key)
      PROVE  IsList(Decoded(token)) /\ (Decoded(token) = key <=> Written(key) = token)
    <2> DEFINE S == ESCAPES \cup {token[i] : i \in DOMAIN token}
                            \cup {key[i] : i \in DOMAIN key}
    <2>1. ESCAPES \subseteq S
        OBVIOUS
    <2>2. {token[i] : i \in DOMAIN token} \subseteq S /\ {key[i] : i \in DOMAIN key} \subseteq S
        OBVIOUS
    <2> HIDE DEF S
    <2>3. token \in Seq(S) /\ key \in Seq(S)
        BY <1>1, <2>2, ListIsSeq DEF IsToken
    <2>4. \A i \in DOMAIN token : token[i] # "/"
        BY DEF IsToken
    <2>5. Decoded(token) \in Seq(S) /\ Written(Decoded(token)) = token
        BY <2>1, <2>3, <2>4, WrittenDecoded
    <2>6. IsList(Decoded(token))
        BY <2>5, SeqIsList
    <2>7. Written(key) = token => Decoded(token) = key
        BY <2>1, <2>3, <2>5, WrittenInjective
    <2>8. QED
        BY <2>5, <2>6, <2>7
<1>2. IsList(token)
    BY DEF IsToken
<1>3. QED
    BY <1>1, <1>2

AsciiToken(token) ==
    \A i \in DOMAIN token : token[i] \notin DOMAIN ARABIC_DIGITS \cup UNREADABLE_DIGITS

\* A text of digits, decoded or raw, is its own token.
LEMMA DigitsAreWritten ==
    ASSUME NEW token, IsToken(token), MayDecode(token), NEW text, IsList(text),
           text = token \/ text = Decoded(token),
           \A i \in DOMAIN text :
               text[i] \in DOMAIN ASCII_DIGITS \cup DOMAIN ARABIC_DIGITS \cup UNREADABLE_DIGITS
    PROVE  Decoded(token) = token
<1> DEFINE S == ESCAPES \cup {text[i] : i \in DOMAIN text}
<1>1. ESCAPES \subseteq S /\ {text[i] : i \in DOMAIN text} \subseteq S
    OBVIOUS
<1>2. text \in Seq(S)
    BY <1>1, ListIsSeq
<1> HIDE DEF S
<1>3. \A i \in 1..Len(text) : text[i] \notin {"~", "/"}
    <2>1. DOMAIN text = 1..Len(text)
        BY <1>2
    <2>2. QED
        BY <2>1 DEF ASCII_DIGITS, ARABIC_DIGITS, UNREADABLE_DIGITS
<1>4. Written(text) = text
    BY <1>1, <1>2, <1>3, WrittenPlain
<1>5. QED
    BY <1>4, DecodedIsKey

\* In ASCII, a token that is an index to the code is one to RFC 6901.
LEMMA IndexInAscii ==
    ASSUME NEW token, IsList(token), AsciiToken(token)
    PROVE  IsIndex(token) <=>
               /\ token # <<>> /\ \A k \in DOMAIN token : token[k] \in DOMAIN ASCII_DIGITS
               /\ token[1] = "0" => Len(token) = 1
<1> DEFINE S == {token[i] : i \in DOMAIN token}
<1>1. token \in Seq(S)
    BY DEF IsList
<1> HIDE DEF S
<1>2. token = <<"0">> <=> token # <<>> /\ token[1] = "0" /\ Len(token) = 1
    BY <1>1
<1>3. token # <<>> /\ Len(token) = 1 => DOMAIN token = {1}
    BY <1>1
<1>4. "0" \in DOMAIN ASCII_DIGITS
    BY DEF ASCII_DIGITS
<1>5. IsDigits(token) <=>
          token # <<>> /\ \A k \in DOMAIN token : token[k] \in DOMAIN ASCII_DIGITS
    BY DEF IsDigits, AsciiToken
<1>6. QED
    BY <1>2, <1>3, <1>4, <1>5 DEF IsIndex

\* In ASCII, a decoded token selects what RFC 6901 makes the raw one reference.
LEMMA SelectedIsReferenced ==
    ASSUME NEW token, IsToken(token), MayDecode(token), AsciiToken(token), NEW node
    PROVE  Selected(node, Decoded(token)) = Referenced(node, token)
<1> DEFINE d == Decoded(token)
<1>1. CASE IsObject(node)
    <2>1. \A key \in DOMAIN node.members :
              key \in {d} <=> IsList(key) /\ Written(key) = token
        BY DecodedIsKey
    <2>2. {d} \cap DOMAIN node.members =
              {key \in DOMAIN node.members : IsList(key) /\ Written(key) = token}
        BY <2>1
    <2> HIDE DEF d
    <2>3. QED
        BY <1>1, <2>2 DEF Selected, Referenced, d
<1>2. CASE ~IsObject(node)
    <2>1. IsList(token) /\ IsList(d)
        BY DecodedIsKey DEF IsToken
    <2> DEFINE InRfc == /\ token # <<>>
                        /\ \A k \in DOMAIN token : token[k] \in DOMAIN ASCII_DIGITS
                        /\ token[1] = "0" => Len(token) = 1
    <2>2. IsIndex(d) => d = token
        <3>1. d = <<"0">> => \A i \in DOMAIN d : d[i] = "0"
            OBVIOUS
        <3>2. IsIndex(d) => \A i \in DOMAIN d :
                  d[i] \in DOMAIN ASCII_DIGITS \cup DOMAIN ARABIC_DIGITS \cup UNREADABLE_DIGITS
            <4> HIDE DEF d
            <4>1. "0" \in DOMAIN ASCII_DIGITS
                BY DEF ASCII_DIGITS
            <4>2. QED
                BY <3>1, <4>1 DEF IsIndex, IsDigits
        <3>3. QED
            BY <2>1, <3>2, DigitsAreWritten
    <2>3. InRfc => d = token
        BY <2>1, DigitsAreWritten
    <2>4. IsIndex(token) <=> InRfc
        BY <2>1, IndexInAscii
    <2> HIDE DEF d, InRfc
    <2>5. IsIndex(d) <=> InRfc
        BY <2>2, <2>3, <2>4
    <2>6. \A i : (IsIndex(d) /\ i = IndexValue(d) + 1) <=> (InRfc /\ i = IndexValue(token) + 1)
        BY <2>2, <2>3, <2>5
    <2> DEFINE places == IF IsArray(node) THEN DOMAIN node.items ELSE {}
    <2>7. {i \in places : IsIndex(d) /\ i = IndexValue(d) + 1} =
              {i \in places : InRfc /\ i = IndexValue(token) + 1}
        BY <2>6
    <2>8. {i \in places : InRfc /\ i = IndexValue(token) + 1} =
              {i \in places : /\ token # <<>>
                              /\ \A k \in DOMAIN token : token[k] \in DOMAIN ASCII_DIGITS
                              /\ token[1] = "0" => Len(token) = 1
                              /\ i = IndexValue(token) + 1}
        BY DEF InRfc
    <2>9. Selected(node, d) =
              {node.items[i] : i \in {i \in places : IsIndex(d) /\ i = IndexValue(d) + 1}}
        BY <1>2 DEF Selected
    <2>10. Referenced(node, token) =
              {node.items[i] : i \in
                  {i \in places : /\ token # <<>>
                                  /\ \A k \in DOMAIN token : token[k] \in DOMAIN ASCII_DIGITS
                                  /\ token[1] = "0" => Len(token) = 1
                                  /\ i = IndexValue(token) + 1}}
        BY <1>2 DEF Referenced
    <2>11. QED
        BY <2>7, <2>8, <2>9, <2>10 DEF d
<1>3. QED
    BY <1>1, <1>2

-----------------------------------------------------------------------------
(* A pointer resolves to what RFC 6901 makes it reference.                 *)

\* The nodes behind the n-th token, from those before it.
Behind(pointer, n, nodes) ==
    UNION {Selected(node, Decoded(pointer.tokens[n])) : node \in nodes}

Follows(document, pointer, after, last) ==
    after = [n \in 0..last |-> IF n = 0 THEN {document}
                               ELSE Behind(pointer, n, after[n - 1])]

\* The recursion of Reached has a solution.
LEMMA FollowsExists ==
    ASSUME NEW document, NEW pointer, NEW last \in Nat
    PROVE  \E after : Follows(document, pointer, after, last)
<1> DEFINE unsolved == {k \in Nat : ~ \E after : Follows(document, pointer, after, k)}
<1>1. ASSUME NEW k \in unsolved, \A j \in unsolved : k <= j PROVE FALSE
    <2>1. CASE k = 0
        <3> DEFINE after == [n \in 0..0 |-> {document}]
        <3>1. \A n \in 0..0 : n = 0
            OBVIOUS
        <3>2. Follows(document, pointer, after, 0)
            BY <3>1 DEF Follows
        <3>3. QED
            BY <1>1, <2>1, <3>2
    <2>2. CASE k # 0
        <3>1. k \in Nat /\ k - 1 \in Nat /\ k - 1 \in 0..(k - 1) /\ k - 1 < k
            BY <1>1, <2>2
        <3>2. PICK before : Follows(document, pointer, before, k - 1)
            BY <1>1, <3>1
        <3>3. \A n \in 0..(k - 1) :
                  before[n] = IF n = 0 THEN {document} ELSE Behind(pointer, n, before[n - 1])
            BY <3>2 DEF Follows
        <3> DEFINE new == Behind(pointer, k, before[k - 1])
        <3> HIDE DEF new
        <3> DEFINE after == [n \in 0..k |-> IF n = k THEN new ELSE before[n]]
                   Rule(f) == [n \in 0..k |-> IF n = 0 THEN {document}
                                              ELSE Behind(pointer, n, f[n - 1])]
        <3>4. ASSUME NEW n \in 0..k PROVE after[n] = Rule(after)[n]
            <4>1. CASE n = 0
                <5>1. 0 \in 0..(k - 1)
                    BY <3>1
                <5>2. after[0] = before[0]
                    BY <2>2, <3>1
                <5>3. QED
                    BY <3>3, <4>1, <5>1, <5>2
            <4>2. CASE n # 0 /\ n # k
                <5>1. n \in 0..(k - 1) /\ n - 1 \in 0..k /\ n - 1 # k
                    BY <3>1, <4>2
                <5>2. after[n] = before[n] /\ after[n - 1] = before[n - 1]
                    BY <4>2, <5>1
                <5>3. QED
                    BY <3>3, <4>2, <5>1, <5>2
            <4>3. CASE n = k
                <5>1. k - 1 \in 0..k /\ k - 1 # k
                    BY <3>1
                <5>2. after[k] = new /\ after[k - 1] = before[k - 1]
                    BY <4>3, <5>1
                <5>3. QED
                    BY <2>2, <4>3, <5>2 DEF new
            <4>4. QED
                BY <4>1, <4>2, <4>3
        <3>5. after = Rule(after)
            BY <3>4
        <3>6. Follows(document, pointer, after, k)
            BY <3>5 DEF Follows
        <3>7. QED
            BY <1>1, <3>6
    <2>3. QED
        BY <2>1, <2>2
<1>2. unsolved = {}
    <2>1. unsolved \subseteq Nat
        OBVIOUS
    <2> HIDE DEF unsolved
    <2>2. QED
        BY <1>1, <2>1, LeastMember
<1>3. QED
    BY <1>2

\* What a pointer resolves to is a solution's last value.
LEMMA ResolveFollows ==
    ASSUME NEW document, NEW pointer, IsPointer(pointer)
    PROVE  /\ Len(pointer.tokens) \in Nat
           /\ DOMAIN pointer.tokens = 1..Len(pointer.tokens)
           /\ \E after : /\ Follows(document, pointer, after, Len(pointer.tokens))
                         /\ Resolve(document, pointer) = after[Len(pointer.tokens)]
<1> DEFINE last == Len(pointer.tokens)
<1>1. last \in Nat /\ DOMAIN pointer.tokens = 1..last
    <2> DEFINE S == {pointer.tokens[i] : i \in DOMAIN pointer.tokens}
    <2>1. pointer.tokens \in Seq(S)
        BY DEF IsPointer, IsList
    <2> HIDE DEF S
    <2>2. QED
        BY <2>1
<1>2. (\E f : Follows(document, pointer, f, last)) =>
          \E f : Follows(document, pointer, f, last) /\ Resolve(document, pointer) = f[last]
    BY DEF Follows, Behind, Resolve, Reached
<1>3. QED
    BY <1>1, <1>2, FollowsExists

\* A pointer resolves to one node at most.
LEMMA ResolvesToOne ==
    ASSUME NEW document, NEW pointer, IsPointer(pointer),
           NEW one \in Resolve(document, pointer), NEW other \in Resolve(document, pointer)
    PROVE  one = other
<1> DEFINE last == Len(pointer.tokens)
<1>1. PICK after : Follows(document, pointer, after, last)
                   /\ Resolve(document, pointer) = after[last]
    BY ResolveFollows
<1>2. last \in Nat
    BY ResolveFollows
<1> HIDE DEF last
<1>3. \A n \in 0..last : after[n] = IF n = 0 THEN {document}
                                    ELSE Behind(pointer, n, after[n - 1])
    BY <1>1 DEF Follows
<1>4. ASSUME NEW node, NEW token, NEW a \in Selected(node, token), NEW b \in Selected(node, token)
      PROVE  a = b
    BY DEF Selected
<1> DEFINE several == {n \in Nat : n \in 0..last /\ \E a, b \in after[n] : a # b}
<1>5. ASSUME NEW k \in several, \A j \in several : k <= j PROVE FALSE
    <2>1. PICK a \in after[k], b \in after[k] : a # b
        BY <1>5
    <2>2. k \in Nat /\ k \in 0..last
        BY <1>5
    <2>3. k # 0
        BY <1>3, <2>1, <2>2
    <2>4. k - 1 \in Nat /\ k - 1 \in 0..last /\ ~(k <= k - 1)
        BY <1>2, <2>2, <2>3
    <2>5. \A x, y \in after[k - 1] : x = y
        BY <1>5, <2>4
    <2>6. after[k] = Behind(pointer, k, after[k - 1])
        BY <1>3, <2>2, <2>3
    <2>7. PICK x \in after[k - 1] : a \in Selected(x, Decoded(pointer.tokens[k]))
        BY <2>1, <2>6 DEF Behind
    <2>8. PICK y \in after[k - 1] : b \in Selected(y, Decoded(pointer.tokens[k]))
        BY <2>1, <2>6 DEF Behind
    <2>9. x = y
        BY <2>5
    <2>10. QED
        BY <1>4, <2>1, <2>7, <2>8, <2>9
<1>6. several = {}
    <2>1. several \subseteq Nat
        OBVIOUS
    <2> HIDE DEF several
    <2>2. QED
        BY <1>5, <2>1, LeastMember
<1>7. last \in 0..last
    BY <1>2
<1>8. QED
    BY <1>1, <1>2, <1>6, <1>7

\* A pointer in ASCII resolves to what RFC 6901 makes it reference.
THEOREM ResolveIsRfc6901 ==
    ASSUME NEW document, NEW pointer, IsPointer(pointer), Ascii(pointer)
    PROVE  Resolve(document, pointer) = Rfc6901(document, pointer)
<1> DEFINE last == Len(pointer.tokens)
           ByRule(f) == [n \in 0..last |-> IF n = 0 THEN {document}
                             ELSE UNION {Referenced(node, pointer.tokens[n]) : node \in f[n - 1]}]
<1>1. last \in Nat /\ DOMAIN pointer.tokens = 1..last
    BY ResolveFollows
<1>2. ASSUME NEW n \in 1..last, NEW nodes
      PROVE  UNION {Referenced(node, pointer.tokens[n]) : node \in nodes} =
                 Behind(pointer, n, nodes)
    <2>1. n \in DOMAIN pointer.tokens
        BY <1>1
    <2>2. /\ IsToken(pointer.tokens[n]) /\ MayDecode(pointer.tokens[n])
          /\ AsciiToken(pointer.tokens[n])
        BY <2>1 DEF IsPointer, Ascii, AsciiToken
    <2>3. \A node : Selected(node, Decoded(pointer.tokens[n])) =
                        Referenced(node, pointer.tokens[n])
        BY <2>2, SelectedIsReferenced
    <2>4. QED
        BY <2>3 DEF Behind
<1>3. (\E f : f = ByRule(f)) => \E f : f = ByRule(f) /\ Rfc6901(document, pointer) = f[last]
    BY DEF Rfc6901
<1>4. PICK left : Follows(document, pointer, left, last) /\ Resolve(document, pointer) = left[last]
    BY ResolveFollows
<1> HIDE DEF last
<1>5. /\ DOMAIN left = 0..last
      /\ \A n \in 0..last : left[n] = IF n = 0 THEN {document}
                                      ELSE Behind(pointer, n, left[n - 1])
    BY <1>4 DEF Follows
<1>6. left = ByRule(left)
    <2>1. ASSUME NEW n \in 0..last PROVE left[n] = ByRule(left)[n]
        <3>1. CASE n = 0
            BY <1>5, <3>1
        <3>2. CASE n # 0
            <4>1. n \in 1..last
                BY <1>1, <3>2
            <4>2. QED
                BY <1>2, <1>5, <3>2, <4>1
        <3>3. QED
            BY <3>1, <3>2
    <2>2. left = [n \in 0..last |-> left[n]]
        BY <1>4 DEF Follows
    <2> DEFINE right == ByRule(left)
    <2>3. right = [n \in 0..last |-> right[n]]
        OBVIOUS
    <2> HIDE DEF right, ByRule
    <2>4. \A n \in 0..last : left[n] = right[n]
        BY <2>1 DEF right
    <2>5. left = right
        BY <2>2, <2>3, <2>4
    <2>6. QED
        BY <2>5 DEF right
<1>7. PICK right : right = ByRule(right) /\ Rfc6901(document, pointer) = right[last]
    BY <1>3, <1>6
<1>8. \A n \in 0..last : right[n] = IF n = 0 THEN {document}
          ELSE UNION {Referenced(node, pointer.tokens[n]) : node \in right[n - 1]}
    BY <1>7
<1> DEFINE apart == {n \in Nat : n \in 0..last /\ left[n] # right[n]}
<1>9. ASSUME NEW k \in apart, \A j \in apart : k <= j PROVE FALSE
    <2>1. k \in Nat /\ k \in 0..last /\ left[k] # right[k]
        BY <1>9
    <2>2. CASE k = 0
        BY <1>5, <1>8, <2>1, <2>2
    <2>3. CASE k # 0
        <3>1. k \in 1..last /\ k - 1 \in 0..last /\ k - 1 \in Nat /\ ~(k <= k - 1)
            BY <1>1, <2>1, <2>3
        <3>2. left[k - 1] = right[k - 1]
            BY <1>9, <3>1
        <3>3. left[k] = Behind(pointer, k, left[k - 1])
            BY <1>5, <2>1, <2>3
        <3>4. right[k] = UNION {Referenced(node, pointer.tokens[k]) : node \in right[k - 1]}
            BY <1>8, <2>1, <2>3
        <3>5. right[k] = Behind(pointer, k, right[k - 1])
            BY <1>2, <3>1, <3>4
        <3>6. QED
            BY <2>1, <3>2, <3>3, <3>5
    <2>4. QED
        BY <2>2, <2>3
<1>10. apart = {}
    <2>1. apart \subseteq Nat
        OBVIOUS
    <2> HIDE DEF apart
    <2>2. QED
        BY <1>9, <2>1, LeastMember
<1>11. last \in 0..last
    BY <1>1
<1>12. left[last] = right[last]
    BY <1>1, <1>10, <1>11
<1>13. QED
    BY <1>4, <1>7, <1>12
=============================================================================
