------------------------- MODULE FrozenIndex_proofs -------------------------
(***************************************************************************)
(* What holds of every index that is published, however often and from     *)
(* whichever versions it is extended: an index that names another as its   *)
(* predecessor has one entry more, no lookup loses by it, and what an      *)
(* entry rests on was admitted before it.                                  *)
(***************************************************************************)
EXTENDS FrozenIndex, Foundation_proofs

Indexes == {published[i] : i \in DOMAIN published}

EntriesTyped(entries) == \A entry \in entries : entry.body.reference \in References

\* The index was made from one that was published before it.
ExtendsSome(index) ==
    \E prior \in Indexes : \E entry :
        /\ MayExtend(prior, entry)
        /\ entry.body.reference \in References
        /\ index = Extended(prior, entry)

\* Every index is sealed and, unless it is a first one, extends a published one.
IInv ==
    /\ published \in Seq(Indexes)
    /\ \A index \in Indexes :
          /\ index = Seal(index.body)
          /\ EntriesTyped(index.body.entries)
          /\ index.body.previous_index_hash = None \/ ExtendsSome(index)

-----------------------------------------------------------------------------
LEMMA InitEstablishes == Init => IInv
BY DEF Init, IInv, Indexes

\* Publishing one more index keeps the invariant.
LEMMA PublishingKeeps ==
    ASSUME IInv, NEW index, published' = Append(published, index),
           index = Seal(index.body), EntriesTyped(index.body.entries),
           index.body.previous_index_hash = None \/ ExtendsSome(index)
    PROVE  IInv'
<1>1. published \in Seq(Indexes \cup {index})
    BY DEF IInv
<1>2. Indexes' = Indexes \cup {index}
    BY <1>1 DEF Indexes, IInv
<1>3. published' \in Seq(Indexes')
    BY <1>1, <1>2
<1>4. \A other \in Indexes' : other.body.previous_index_hash = None \/ ExtendsSome(other)'
    <2>1. \A other : ExtendsSome(other) => ExtendsSome(other)'
        BY <1>2 DEF ExtendsSome
    <2>2. QED
        BY <1>2, <2>1 DEF IInv
<1>5. QED
    BY <1>2, <1>3, <1>4 DEF IInv, EntriesTyped

LEMMA StepPreserves == IInv /\ [Next]_published => IInv'
<1> SUFFICES ASSUME IInv, [Next]_published PROVE IInv'
    OBVIOUS
<1>1. ASSUME NEW active_from, NEW entry \in Entries(active_from)
      PROVE  entry.body.reference \in References
    <2>1. PICK reference, procedure, dependencies, supersedes :
              /\ reference \in References
              /\ entry = AdmittedCheck(reference, procedure, dependencies, active_from, supersedes)
        BY DEF Entries
    <2>2. entry.body = [reference |-> reference, procedure |-> procedure,
                        dependencies |-> dependencies,
                        active_from_index_version |-> active_from,
                        supersedes |-> supersedes]
        BY <2>1, SealIntact DEF AdmittedCheck
    <2>3. QED
        BY <2>1, <2>2
<1>2. ASSUME NEW left \in Entries(1), NEW right \in Entries(1), Create({left, right})
      PROVE  IInv'
    <2> DEFINE index == Index({left, right}, 1, None)
    <2>1. /\ index.body.entries = {left, right} /\ index.body.previous_index_hash = None
          /\ index = Seal(index.body)
        BY SealIntact DEF Index
    <2>2. EntriesTyped(index.body.entries)
        BY <1>1, <2>1 DEF EntriesTyped
    <2>3. published' = Append(published, index)
        BY <1>2 DEF Create
    <2> HIDE DEF index
    <2>4. QED
        BY <2>1, <2>2, <2>3, PublishingKeeps
<1>3. ASSUME NEW i \in DOMAIN published, NEW active_from, NEW entry \in Entries(active_from),
             Extend(published[i], entry)
      PROVE  IInv'
    <2> DEFINE index == Extended(published[i], entry)
    <2>1. published[i] \in Indexes
        BY DEF Indexes
    <2>2. index.body.entries = published[i].body.entries \cup {entry}
          /\ index = Seal(index.body)
        BY SealIntact DEF Index, Extended
    <2>3. EntriesTyped(index.body.entries)
        BY <1>1, <2>1, <2>2 DEF EntriesTyped, IInv
    <2>4. ExtendsSome(index)
        BY <1>1, <1>3, <2>1 DEF ExtendsSome, Extend
    <2>5. published' = Append(published, index)
        BY <1>3 DEF Extend
    <2> HIDE DEF index
    <2>6. QED
        BY <2>2, <2>3, <2>4, <2>5, PublishingKeeps
<1>4. CASE UNCHANGED published
    <2>1. Indexes' = Indexes
        BY <1>4 DEF Indexes
    <2>2. \A index : ExtendsSome(index) => ExtendsSome(index)'
        BY <2>1 DEF ExtendsSome
    <2>3. QED
        BY <1>4, <2>1, <2>2 DEF IInv, EntriesTyped
<1>5. QED
    BY <1>2, <1>3, <1>4 DEF Next

LEMMA InvariantHolds == Spec => []IInv
<1>1. QED
    BY InitEstablishes, StepPreserves, PTL DEF Spec

-----------------------------------------------------------------------------
\* What names another index as its predecessor was made by extending it.
LEMMA MadeByExtending ==
    ASSUME IInv, NEW pair \in Extensions
    PROVE  /\ pair[1] \in Indexes
           /\ \E entry :
                /\ MayExtend(pair[1], entry)
                /\ entry.body.reference \in References
                /\ pair[2].body = [entries |-> pair[1].body.entries \cup {entry},
                                   index_version |-> pair[1].body.index_version + 1,
                                   previous_index_hash |-> pair[1].hash]
<1>1. /\ pair[1] \in Indexes /\ pair[2] \in Indexes
      /\ pair[2].body.previous_index_hash = pair[1].hash
    BY DEF Extensions, Indexes
<1>2. pair[1].hash = Digest(pair[1].body)
    BY <1>1, SealIntact DEF IInv, Intact
<1>3. pair[2].body.previous_index_hash # None
    BY <1>1, <1>2, DigestIsDigest DEF IsDigest
<1>4. PICK prior, entry :
          /\ prior \in Indexes
          /\ MayExtend(prior, entry)
          /\ entry.body.reference \in References
          /\ pair[2] = Extended(prior, entry)
    BY <1>1, <1>3 DEF IInv, ExtendsSome
<1>5. pair[2].body = [entries |-> prior.body.entries \cup {entry},
                      index_version |-> prior.body.index_version + 1,
                      previous_index_hash |-> prior.hash]
    BY <1>4, SealIntact DEF Extended, Index
<1>6. prior = pair[1]
    <2>1. prior.hash = pair[1].hash
        BY <1>1, <1>5
    <2>2. prior = Seal(prior.body) /\ pair[1] = Seal(pair[1].body)
        BY <1>1, <1>4 DEF IInv
    <2>3. prior.hash = Digest(prior.body)
        BY <2>2, SealIntact DEF Intact
    <2>4. prior.body = pair[1].body
        BY <1>2, <2>1, <2>3, DigestInjective
    <2>5. QED
        BY <2>2, <2>4
<1>7. QED
    BY <1>1, <1>4, <1>5, <1>6

\* Every extension adds one entry and dates it, whichever version it extends.
THEOREM ExtensionAppendsOneAlways == Spec => []ExtensionAppendsOne
<1>1. IInv => ExtensionAppendsOne
    <2> SUFFICES ASSUME IInv, NEW pair \in Extensions
                 PROVE  /\ pair[1].body.entries \subseteq pair[2].body.entries
                        /\ \E entry \in pair[2].body.entries \ pair[1].body.entries :
                              /\ pair[2].body.entries = pair[1].body.entries \cup {entry}
                              /\ entry.body.active_from_index_version
                                    = pair[2].body.index_version
        BY DEF ExtensionAppendsOne
    <2>1. PICK entry :
              /\ MayExtend(pair[1], entry)
              /\ pair[2].body = [entries |-> pair[1].body.entries \cup {entry},
                                 index_version |-> pair[1].body.index_version + 1,
                                 previous_index_hash |-> pair[1].hash]
        BY MadeByExtending
    <2>2. entry \notin pair[1].body.entries
        BY <2>1 DEF MayExtend
    <2>3. entry.body.active_from_index_version = pair[1].body.index_version + 1
        BY <2>1 DEF MayExtend
    <2>4. QED
        BY <2>1, <2>2, <2>3
<1>2. QED
    BY <1>1, InvariantHolds, PTL

-----------------------------------------------------------------------------
\* A reference is never the absent one.
LEMMA ReferenceIsNotNone ==
    ASSUME NEW reference \in References
    PROVE  reference # None
<1>1. "check_id" \in DOMAIN reference /\ "check_id" \notin DOMAIN None
    BY DEF References, None
<1>2. QED
    BY <1>1

\* What an index supersedes is in the index, and of a lower version.
LEMMA SupersededIsTaken ==
    ASSUME NEW entries, NEW version, NEW previous, MayIndex(entries, version, previous),
           NEW entry \in entries, entry.body.supersedes # None
    PROVE  /\ \E other \in entries : other.body.reference = entry.body.supersedes
           /\ entry.body.supersedes.check_id = entry.body.reference.check_id
           /\ entry.body.supersedes.check_version < entry.body.reference.check_version
BY DEF MayIndex, ValidEntries, MaySupersede, Known

\* A lookup by check or by version never loses ground by an extension.
THEOREM LookupNeverRegressesAlways == Spec => []LookupNeverRegresses
<1>1. IInv => LookupNeverRegresses
    <2> SUFFICES ASSUME IInv, NEW pair \in Extensions, NEW check_id \in CheckIds
                 PROVE  /\ \A old \in LatestAdmitted(pair[1], check_id) :
                              \E new \in LatestAdmitted(pair[2], check_id) :
                                 new.body.reference.check_version
                                    >= old.body.reference.check_version
                        /\ \A version \in Versions :
                              AdmittedVersion(pair[1], check_id, version)
                                 \subseteq AdmittedVersion(pair[2], check_id, version)
        BY DEF LookupNeverRegresses
    <2>1. PICK entry :
              /\ MayExtend(pair[1], entry)
              /\ entry.body.reference \in References
              /\ pair[2].body = [entries |-> pair[1].body.entries \cup {entry},
                                 index_version |-> pair[1].body.index_version + 1,
                                 previous_index_hash |-> pair[1].hash]
        BY MadeByExtending
    <2> DEFINE before == OfCheck(pair[1], check_id)
               after == OfCheck(pair[2], check_id)
    <2>2. after = IF entry.body.reference.check_id = check_id THEN before \cup {entry}
                                                              ELSE before
        BY <2>1 DEF OfCheck
    <2>3. \A version \in Versions :
              AdmittedVersion(pair[1], check_id, version)
                 \subseteq AdmittedVersion(pair[2], check_id, version)
        BY <2>2 DEF AdmittedVersion
    <2>4. ASSUME NEW old \in LatestAdmitted(pair[1], check_id)
          PROVE  \E new \in LatestAdmitted(pair[2], check_id) :
                     new.body.reference.check_version >= old.body.reference.check_version
        <3>1. /\ old \in before
              /\ \A other \in before : other.body.supersedes # old.body.reference
              /\ \A other \in before :
                    (\A third \in before : third.body.supersedes # other.body.reference)
                    => other.body.reference.check_version <= old.body.reference.check_version
            BY <2>4 DEF LatestAdmitted
        <3>2. /\ old.body.reference.check_version \in Nat
              /\ entry.body.reference.check_version \in Nat
            <4>1. old.body.reference \in References
                BY <3>1, MadeByExtending DEF OfCheck, IInv, EntriesTyped
            <4>2. QED
                BY <2>1, <4>1, IndexAssumption DEF References
        <3>3. \A other \in before : other.body.supersedes # entry.body.reference
            <4> SUFFICES ASSUME NEW other \in before,
                                other.body.supersedes = entry.body.reference
                         PROVE  FALSE
                OBVIOUS
            <4>1. /\ other \in pair[1].body.entries
                  /\ MayIndex(pair[1].body.entries, pair[1].body.index_version,
                              pair[1].body.previous_index_hash)
                BY <2>1 DEF OfCheck, MayExtend, VerifyIndex
            <4>2. entry.body.reference # None
                BY <2>1, ReferenceIsNotNone
            <4>3. \E third \in pair[1].body.entries :
                      third.body.reference = entry.body.reference
                BY <4>1, <4>2, SupersededIsTaken
            <4>4. QED
                BY <2>1, <4>3 DEF MayExtend
        <3>4. entry.body.supersedes # None =>
                  /\ entry.body.supersedes.check_version < entry.body.reference.check_version
                  /\ entry.body.supersedes # entry.body.reference
            <4>1. /\ entry \in Extended(pair[1], entry).body.entries
                  /\ MayIndex(Extended(pair[1], entry).body.entries,
                              pair[1].body.index_version + 1, pair[1].hash)
                BY <2>1, SealIntact DEF MayExtend, Extended, Index
            <4>2. QED
                BY <3>2, <4>1, SupersededIsTaken
        <3>5. entry.body.reference # None
            BY <2>1, ReferenceIsNotNone
        <3>6. CASE entry.body.reference.check_id # check_id
            <4>1. old \in LatestAdmitted(pair[2], check_id)
                BY <2>2, <2>4, <3>6 DEF LatestAdmitted
            <4>2. QED
                BY <3>2, <4>1
        <3>7. CASE /\ entry.body.reference.check_id = check_id
                   /\ entry.body.reference.check_version > old.body.reference.check_version
            <4>1. after = before \cup {entry}
                BY <2>2, <3>7
            <4>2. \A other \in after : other.body.supersedes # entry.body.reference
                BY <3>3, <3>4, <3>5, <4>1
            <4>3. ASSUME NEW other \in after,
                         \A third \in after : third.body.supersedes # other.body.reference
                  PROVE  other.body.reference.check_version
                            <= entry.body.reference.check_version
                <5>1. CASE other = entry
                    BY <3>2, <5>1
                <5>2. CASE other \in before
                    <6>1. other.body.reference.check_version
                              <= old.body.reference.check_version
                        BY <3>1, <4>1, <4>3, <5>2
                    <6>2. other.body.reference.check_version \in Nat
                        <7>1. other.body.reference \in References
                            BY <5>2, MadeByExtending DEF OfCheck, IInv, EntriesTyped
                        <7>2. QED
                            BY <7>1, IndexAssumption DEF References
                    <6>3. QED
                        BY <3>2, <3>7, <6>1, <6>2
                <5>3. QED
                    BY <4>1, <5>1, <5>2
            <4>4. entry \in LatestAdmitted(pair[2], check_id)
                BY <4>1, <4>2, <4>3 DEF LatestAdmitted
            <4>5. QED
                BY <3>2, <3>7, <4>4
        <3>8. CASE /\ entry.body.reference.check_id = check_id
                   /\ entry.body.reference.check_version <= old.body.reference.check_version
            <4>1. after = before \cup {entry}
                BY <2>2, <3>8
            <4>2. entry.body.supersedes # old.body.reference
                <5>1. entry.body.supersedes # None =>
                          entry.body.supersedes.check_version
                              < entry.body.reference.check_version
                    BY <3>4
                <5>2. old.body.reference # None
                    BY <3>1, MadeByExtending, ReferenceIsNotNone DEF OfCheck, IInv, EntriesTyped
                <5>3. QED
                    BY <3>2, <3>8, <5>1, <5>2
            <4>3. \A other \in after : other.body.supersedes # old.body.reference
                BY <3>1, <4>1, <4>2
            <4>4. \A other \in after :
                      (\A third \in after : third.body.supersedes # other.body.reference)
                      => other.body.reference.check_version
                            <= old.body.reference.check_version
                BY <3>1, <3>8, <4>1
            <4>5. old \in LatestAdmitted(pair[2], check_id)
                BY <3>1, <4>1, <4>3, <4>4 DEF LatestAdmitted
            <4>6. QED
                BY <3>2, <4>5
        <3>9. QED
            BY <3>2, <3>6, <3>7, <3>8
    <2>5. QED
        BY <2>3, <2>4
<1>2. QED
    BY <1>1, InvariantHolds, PTL
-----------------------------------------------------------------------------
(* References in text order.                                               *)

DigitsOf(digits, n) == IF n < 10 THEN <<n>> ELSE Append(digits[n \div 10], n % 10)

DigitsUpTo(digits, m) ==
    /\ digits \in [0..m -> Seq(Nat)]
    /\ \A n \in 0..m : digits[n] = DigitsOf(digits, n)

\* The recursion of Decimal has a solution on every initial part of Nat.
LEMMA DigitsExist ==
    ASSUME NEW m \in Nat
    PROVE  \E digits : DigitsUpTo(digits, m)
<1> DEFINE missing == {k \in Nat : ~ \E digits : DigitsUpTo(digits, k)}
<1> SUFFICES ASSUME missing # {} PROVE FALSE
    OBVIOUS
<1>1. PICK least \in missing : \A k \in missing : least <= k
    BY LeastMember
<1>2. CASE least = 0
    <2>1. DigitsUpTo([n \in 0..0 |-> <<n>>], 0)
        BY DEF DigitsUpTo, DigitsOf
    <2>2. QED
        BY <1>1, <1>2, <2>1
<1>3. CASE least > 0
    <2>1. least \in Nat /\ least - 1 \in Nat /\ least - 1 \notin missing
        BY <1>1, <1>3
    <2>2. PICK digits : DigitsUpTo(digits, least - 1)
        BY <2>1
    <2> DEFINE last == DigitsOf(digits, least)
               longer == [n \in 0..least |-> IF n = least THEN last ELSE digits[n]]
    <2>3. \A n \in 0..least : n >= 10 => n \div 10 \in 0..(least - 1)
        BY <2>1
    <2>4. last \in Seq(Nat)
        <3>1. least < 10 => last = <<least>>
            BY DEF DigitsOf
        <3>2. ~(least < 10) => last = Append(digits[least \div 10], least % 10)
            BY DEF DigitsOf
        <3>3. ~(least < 10) => digits[least \div 10] \in Seq(Nat) /\ least % 10 \in Nat
            BY <2>1, <2>2, <2>3 DEF DigitsUpTo
        <3>4. <<least>> \in Seq(Nat)
            BY <2>1
        <3> HIDE DEF last
        <3>5. CASE least < 10
            BY <3>1, <3>4, <3>5
        <3>6. CASE ~(least < 10)
            <4> DEFINE head == digits[least \div 10]
                       digit == least % 10
            <4>1. last = Append(head, digit) /\ head \in Seq(Nat) /\ digit \in Nat
                BY <3>2, <3>3, <3>6
            <4> HIDE DEF head, digit
            <4>2. QED
                BY <4>1
        <3>7. QED
            BY <3>5, <3>6
    <2> HIDE DEF last
    <2>5. longer \in [0..least -> Seq(Nat)]
        BY <2>1, <2>2, <2>4 DEF DigitsUpTo
    <2>6. ASSUME NEW n \in 0..least PROVE longer[n] = DigitsOf(longer, n)
        <3>1. n >= 10 => longer[n \div 10] = digits[n \div 10]
            BY <2>1, <2>3
        <3>2. DigitsOf(longer, n) = DigitsOf(digits, n)
            BY <2>1, <3>1 DEF DigitsOf
        <3>3. CASE n = least
            BY <3>2, <3>3 DEF last
        <3>4. CASE n # least
            BY <2>1, <2>2, <3>2, <3>4 DEF DigitsUpTo
        <3>5. QED
            BY <3>3, <3>4
    <2>7. DigitsUpTo(longer, least)
        BY <2>5, <2>6 DEF DigitsUpTo
    <2>8. QED
        BY <1>1, <2>7
<1>4. QED
    BY <1>1, <1>2, <1>3

\* Two solutions agree where both are defined.
LEMMA DigitsAgree ==
    ASSUME NEW left, NEW right, NEW l \in Nat, NEW r \in Nat,
           DigitsUpTo(left, l), DigitsUpTo(right, r),
           NEW m \in Nat, m <= l, m <= r
    PROVE  left[m] = right[m]
<1> DEFINE apart == {n \in 0..m : left[n] # right[n]}
<1> SUFFICES ASSUME apart # {} PROVE FALSE
    OBVIOUS
<1>1. PICK least \in apart : \A n \in apart : least <= n
    <2>1. apart \subseteq Nat
        OBVIOUS
    <2> HIDE DEF apart
    <2>2. QED
        BY <2>1, LeastMember
<1>2. least >= 10 => least \div 10 \in 0..m /\ least \div 10 < least
    BY <1>1
<1>3. least >= 10 => left[least \div 10] = right[least \div 10]
    BY <1>1, <1>2
<1>4. DigitsOf(left, least) = DigitsOf(right, least)
    BY <1>1, <1>3 DEF DigitsOf
<1>5. QED
    BY <1>1, <1>4 DEF DigitsUpTo

\* Every natural number has its decimal digits.
LEMMA DecimalIsDigits == \A n \in Nat : Decimal[n] \in Seq(Nat)
<1> DEFINE solution(n) == CHOOSE digits : DigitsUpTo(digits, n)
           all == [n \in Nat |-> solution(n)[n]]
<1>1. \A n \in Nat : DigitsUpTo(solution(n), n)
    BY DigitsExist
<1> HIDE DEF solution
<1>2. \A n \in Nat : all[n] \in Seq(Nat)
    BY <1>1 DEF DigitsUpTo
<1>3. ASSUME NEW n \in Nat
      PROVE  all[n] = IF n < 10 THEN <<n>> ELSE Append(all[n \div 10], n % 10)
    <2>1. solution(n)[n] = DigitsOf(solution(n), n)
        BY <1>1 DEF DigitsUpTo
    <2>2. n >= 10 => n \div 10 \in Nat /\ n \div 10 <= n
        OBVIOUS
    <2>3. n >= 10 => solution(n \div 10)[n \div 10] = solution(n)[n \div 10]
        BY <1>1, <2>2, DigitsAgree
    <2>4. n >= 10 => all[n \div 10] = solution(n)[n \div 10]
        BY <2>2, <2>3
    <2>5. QED
        BY <2>1, <2>4 DEF DigitsOf
<1>4. all = [n \in Nat |-> IF n < 10 THEN <<n>> ELSE Append(all[n \div 10], n % 10)]
    BY <1>3
<1> HIDE DEF all
<1>5. Decimal = [n \in Nat |-> IF n < 10 THEN <<n>> ELSE Append(Decimal[n \div 10], n % 10)]
    BY <1>4 DEF Decimal
<1>6. \A n \in Nat : Decimal[n] = IF n < 10 THEN <<n>> ELSE Append(Decimal[n \div 10], n % 10)
    BY <1>5
<1> DEFINE bad == {n \in Nat : Decimal[n] \notin Seq(Nat)}
<1> SUFFICES ASSUME bad # {} PROVE FALSE
    OBVIOUS
<1>7. PICK least \in bad : \A n \in bad : least <= n
    <2>1. bad \subseteq Nat
        OBVIOUS
    <2> HIDE DEF bad
    <2>2. QED
        BY <2>1, LeastMember
<1>8. least \in Nat /\ Decimal[least] \notin Seq(Nat)
    BY <1>7
<1>9. CASE least < 10
    <2>1. Decimal[least] = <<least>>
        BY <1>6, <1>8, <1>9
    <2>2. <<least>> \in Seq(Nat)
        BY <1>8
    <2>3. QED
        BY <1>8, <2>1, <2>2
<1>10. CASE ~(least < 10)
    <2>1. least \div 10 \in Nat /\ least \div 10 < least /\ least % 10 \in Nat
        BY <1>8, <1>10
    <2>2. Decimal[least \div 10] \in Seq(Nat)
        BY <1>7, <2>1
    <2>3. Decimal[least] = Append(Decimal[least \div 10], least % 10)
        BY <1>6, <1>8, <1>10
    <2>4. QED
        BY <1>8, <2>1, <2>2, <2>3
<1>11. QED
    BY <1>9, <1>10

\* The text order is strict: of two texts one comes first, or neither does.
LEMMA TextOrderIsStrict ==
    ASSUME NEW left \in Seq(Nat), NEW right \in Seq(Nat), TextBefore(left, right)
    PROVE  ~TextBefore(right, left)
<1> SUFFICES ASSUME TextBefore(right, left) PROVE FALSE
    OBVIOUS
<1>1. PICK k \in 0..Len(left) :
          /\ k < Len(right)
          /\ SubSeq(left, 1, k) = SubSeq(right, 1, k)
          /\ k = Len(left) \/ (k < Len(left) /\ left[k + 1] < right[k + 1])
    BY DEF TextBefore
<1>2. PICK n \in 0..Len(right) :
          /\ n < Len(left)
          /\ SubSeq(right, 1, n) = SubSeq(left, 1, n)
          /\ n = Len(right) \/ (n < Len(right) /\ right[n + 1] < left[n + 1])
    BY DEF TextBefore
<1>3. \A i \in 1..k : left[i] = right[i]
    <2> TAKE i \in 1..k
    <2>1. SubSeq(left, 1, k)[i] = left[i] /\ SubSeq(right, 1, k)[i] = right[i]
        BY <1>1
    <2>2. QED
        BY <1>1, <2>1
<1>4. \A i \in 1..n : left[i] = right[i]
    <2> TAKE i \in 1..n
    <2>1. SubSeq(left, 1, n)[i] = left[i] /\ SubSeq(right, 1, n)[i] = right[i]
        BY <1>2
    <2>2. QED
        BY <1>2, <2>1
<1>5. CASE k < n
    <2>1. k + 1 \in 1..n /\ k < Len(left)
        BY <1>1, <1>2, <1>5
    <2>2. left[k + 1] < right[k + 1] /\ left[k + 1] \in Nat
        BY <1>1, <2>1
    <2>3. QED
        BY <1>4, <2>1, <2>2
<1>6. CASE n < k
    <2>1. n + 1 \in 1..k /\ n < Len(right)
        BY <1>1, <1>2, <1>6
    <2>2. right[n + 1] < left[n + 1] /\ right[n + 1] \in Nat
        BY <1>2, <2>1
    <2>3. QED
        BY <1>3, <2>1, <2>2
<1>7. CASE n = k
    <2>1. left[k + 1] < right[k + 1] /\ right[k + 1] < left[k + 1]
        BY <1>1, <1>2, <1>7
    <2>2. left[k + 1] \in Nat /\ right[k + 1] \in Nat
        BY <1>1, <1>2, <1>7
    <2>3. QED
        BY <2>1, <2>2
<1>8. QED
    BY <1>5, <1>6, <1>7

\* So is the order of references.
LEMMA ReferenceOrderIsStrict ==
    ASSUME NEW left \in References, NEW right \in References, ReferenceBefore(left, right)
    PROVE  ~ReferenceBefore(right, left)
<1>1. /\ left.check_id \in Nat /\ right.check_id \in Nat
      /\ left.check_version \in Nat /\ right.check_version \in Nat
    BY IndexAssumption DEF References
<1>2. /\ Decimal[left.check_version] \in Seq(Nat)
      /\ Decimal[right.check_version] \in Seq(Nat)
    BY <1>1, DecimalIsDigits
<1>3. QED
    BY <1>1, <1>2, TextOrderIsStrict DEF ReferenceBefore

-----------------------------------------------------------------------------
(* What an entry rests on.                                                 *)

Basis(entry) == entry.body.dependencies \cup ({entry.body.supersedes} \ {None})

\* Every basis of an entry is another entry, one that does not depend on it and
\* was admitted no later.
Grounded(entries) ==
    \A entry \in entries : \A reference \in Basis(entry) :
        /\ reference # entry.body.reference
        /\ \E basis \in entries :
              /\ basis.body.reference = reference
              /\ entry.body.reference \notin basis.body.dependencies
              /\ basis.body.active_from_index_version <= entry.body.active_from_index_version

Dated(entries) == \A entry \in entries : entry.body.active_from_index_version \in Nat

BasisInv ==
    \A index \in Indexes :
        /\ index.body.index_version \in Nat
        /\ EntriesTyped(index.body.entries)
        /\ Dated(index.body.entries)
        /\ Grounded(index.body.entries)

\* The bases of a valid list's entries come before them, as text.
LEMMA BasisComesBefore ==
    ASSUME NEW entries, NEW version, NEW previous, MayIndex(entries, version, previous),
           EntriesTyped(entries),
           NEW entry \in entries, NEW reference \in Basis(entry)
    PROVE  /\ reference # entry.body.reference
           /\ \E basis \in entries : basis.body.reference = reference
           /\ \A basis \in entries : basis.body.reference = reference =>
                  entry.body.reference \notin basis.body.dependencies
<1>1. /\ entry.body.dependencies \subseteq Known(entries, entry)
      /\ entry.body.supersedes # None => entry.body.supersedes \in Known(entries, entry)
    BY DEF MayIndex, ValidEntries, MaySupersede
<1>2. reference \in Known(entries, entry)
    BY <1>1 DEF Basis
<1>3. PICK basis \in entries :
          basis.body.reference = reference
          /\ ReferenceBefore(basis.body.reference, entry.body.reference)
    BY <1>2 DEF Known
<1>4. reference \in References /\ entry.body.reference \in References
      /\ ReferenceBefore(reference, entry.body.reference)
    BY <1>3 DEF EntriesTyped
<1>5. ~ReferenceBefore(entry.body.reference, reference)
    BY <1>4, ReferenceOrderIsStrict
<1>6. ASSUME NEW other \in entries, other.body.reference = reference,
             entry.body.reference \in other.body.dependencies
      PROVE  FALSE
    <2>1. entry.body.reference \in Known(entries, other)
        BY <1>6 DEF MayIndex, ValidEntries
    <2>2. ReferenceBefore(entry.body.reference, reference)
        BY <1>6, <2>1 DEF Known
    <2>3. QED
        BY <1>5, <2>2
<1>7. QED
    BY <1>3, <1>4, <1>5, <1>6

\* Publishing an index with these entries keeps the invariant.
LEMMA PublishingKeepsBasis ==
    ASSUME IInv, BasisInv, NEW index, published' = Append(published, index),
           index.body.index_version \in Nat, EntriesTyped(index.body.entries),
           Dated(index.body.entries), Grounded(index.body.entries)
    PROVE  BasisInv'
<1>1. published \in Seq(Indexes \cup {index})
    BY DEF IInv
<1>2. Indexes' = Indexes \cup {index}
    BY <1>1 DEF Indexes, IInv
<1>3. QED
    BY <1>2 DEF BasisInv

\* The parts of an entry that is proposed.
LEMMA ProposedEntry ==
    ASSUME NEW active_from \in Nat, NEW entry \in Entries(active_from)
    PROVE  /\ entry.body.reference \in References
           /\ entry.body.active_from_index_version = active_from
<1>1. ASSUME NEW reference \in References, NEW procedure, NEW dependencies, NEW supersedes,
             entry = AdmittedCheck(reference, procedure, dependencies, active_from, supersedes)
      PROVE  /\ entry.body.reference = reference
             /\ entry.body.active_from_index_version = active_from
    <2>1. entry.body = [reference |-> reference, procedure |-> procedure,
                        dependencies |-> dependencies,
                        active_from_index_version |-> active_from,
                        supersedes |-> supersedes]
        BY <1>1, SealIntact DEF AdmittedCheck
    <2>2. QED
        BY <2>1
<1>2. QED
    BY <1>1 DEF Entries

LEMMA BasisStep == IInv /\ BasisInv /\ [Next]_published => BasisInv'
<1> SUFFICES ASSUME IInv, BasisInv, [Next]_published PROVE BasisInv'
    OBVIOUS
<1>1. ASSUME NEW left \in Entries(1), NEW right \in Entries(1), Create({left, right})
      PROVE  BasisInv'
    <2> DEFINE index == Index({left, right}, 1, None)
               entries == {left, right}
    <2>1. /\ index.body.entries = entries
          /\ index.body.index_version = 1
        BY SealIntact DEF Index
    <2>2. \A entry \in entries : /\ entry.body.reference \in References
                                 /\ entry.body.active_from_index_version = 1
        BY ProposedEntry
    <2>3. MayIndex(entries, 1, None)
        BY <1>1 DEF Create
    <2>4. published' = Append(published, index)
        BY <1>1 DEF Create
    <2> HIDE DEF index, entries
    <2>5. EntriesTyped(entries) /\ Dated(entries)
        BY <2>2 DEF EntriesTyped, Dated
    <2>6. Grounded(entries)
        BY <2>2, <2>3, <2>5, BasisComesBefore DEF Grounded
    <2>7. QED
        BY <2>1, <2>4, <2>5, <2>6, PublishingKeepsBasis
<1>2. ASSUME NEW i \in DOMAIN published, NEW active_from \in 1..(MaxIndexes + 1),
             NEW entry \in Entries(active_from), Extend(published[i], entry)
      PROVE  BasisInv'
    <2> DEFINE prior == published[i]
               index == Extended(prior, entry)
               entries == prior.body.entries \cup {entry}
    <2>1. prior \in Indexes
        BY DEF Indexes
    <2>2. /\ prior.body.index_version \in Nat
          /\ EntriesTyped(prior.body.entries)
          /\ Dated(prior.body.entries)
          /\ Grounded(prior.body.entries)
        BY <2>1 DEF BasisInv
    <2>3. MayExtend(prior, entry) /\ published' = Append(published, index)
        BY <1>2 DEF Extend
    <2>4. /\ index.body.entries = entries
          /\ index.body.index_version = prior.body.index_version + 1
        BY SealIntact DEF Index, Extended
    <2>5. /\ MayIndex(prior.body.entries, prior.body.index_version,
                      prior.body.previous_index_hash)
          /\ MayIndex(entries, prior.body.index_version + 1, prior.hash)
          /\ entry.body.active_from_index_version = prior.body.index_version + 1
        BY <2>3, <2>4 DEF MayExtend, VerifyIndex
    <2>6. active_from \in Nat
        BY IndexAssumption
    <2>7. /\ entry.body.reference \in References
          /\ entry.body.active_from_index_version \in Nat
        BY <2>6, ProposedEntry
    <2>8. EntriesTyped(entries) /\ Dated(entries)
        BY <2>2, <2>7 DEF EntriesTyped, Dated
    <2> HIDE DEF index, prior
    <2>9. ASSUME NEW one \in entries, NEW reference \in Basis(one)
          PROVE  /\ reference # one.body.reference
                 /\ \E basis \in entries :
                       /\ basis.body.reference = reference
                       /\ one.body.reference \notin basis.body.dependencies
                       /\ basis.body.active_from_index_version
                             <= one.body.active_from_index_version
        <3>1. CASE one \in prior.body.entries
            BY <2>2, <2>9, <3>1 DEF Grounded
        <3>2. CASE one = entry
            <4> HIDE DEF entries
            <4>1. /\ reference # one.body.reference
                  /\ \E basis \in entries : basis.body.reference = reference
                  /\ \A basis \in entries : basis.body.reference = reference =>
                        one.body.reference \notin basis.body.dependencies
                BY <2>5, <2>8, <2>9, BasisComesBefore
            <4>2. PICK basis \in entries : basis.body.reference = reference
                BY <4>1
            <4>3. basis \in prior.body.entries
                BY <3>2, <4>1, <4>2 DEF entries
            <4>4. basis.body.active_from_index_version <= prior.body.index_version
                BY <2>5, <4>3 DEF MayIndex, ValidEntries
            <4>5. basis.body.active_from_index_version \in Nat
                BY <2>2, <4>3 DEF Dated
            <4>6. basis.body.active_from_index_version <= one.body.active_from_index_version
                BY <2>2, <2>5, <3>2, <4>4, <4>5
            <4>7. QED
                BY <4>1, <4>2, <4>6
        <3>3. QED
            BY <2>9, <3>1, <3>2
    <2>10. Grounded(entries)
        BY <2>9 DEF Grounded
    <2> HIDE DEF entries
    <2>11. index.body.index_version \in Nat
        BY <2>2, <2>4
    <2>12. QED
        BY <2>3, <2>4, <2>8, <2>10, <2>11, PublishingKeepsBasis
<1>3. CASE UNCHANGED published
    BY <1>3 DEF BasisInv, Indexes
<1>4. QED
    BY <1>1, <1>2, <1>3 DEF Next

\* However an index was extended, the dependencies and the superseded entry of
\* each of its entries are other entries of the index, admitted no later.
THEOREM BasisAdmittedBeforeAlways == Spec => []BasisAdmittedBefore
<1>1. Init => BasisInv
    BY DEF Init, BasisInv, Indexes
<1>2. BasisInv => BasisAdmittedBefore
    BY DEF BasisInv, Grounded, Basis, BasisAdmittedBefore, Indexes
<1>3. QED
    BY <1>1, <1>2, BasisStep, InvariantHolds, PTL DEF Spec
=============================================================================
