------------------------- MODULE TurnRecords_proofs -------------------------
(***************************************************************************)
(* The properties of TurnRecords for every host: any contents, any lists   *)
(* of checks, any number of turns kept and of fields changed.  The only    *)
(* strengthening they need is that what is kept has the fields of a turn   *)
(* or of an interception, whatever is in them.                             *)
(***************************************************************************)
EXTENDS TurnRecords, TurnBoundary_proofs

TurnShape(turn) ==
    /\ turn = [body |-> turn.body, hash |-> turn.hash]
    /\ turn.body = [role |-> turn.body.role,
                    sequence |-> turn.body.sequence,
                    previous_received_turn_hash |-> turn.body.previous_received_turn_hash,
                    content |-> turn.body.content,
                    content_sha256 |-> turn.body.content_sha256,
                    semantic_contract_hash |-> turn.body.semantic_contract_hash]

Kept ==
    /\ \E turns : log \in Seq(turns) /\ \A turn \in turns : TurnShape(turn)
    /\ item # None => ItemShape(item)

LEMMA KeptTurns ==
    ASSUME Kept
    PROVE  \A i \in DOMAIN log : TurnShape(log[i])
BY DEF Kept

LEMMA KeptInit == Init => Kept
<1> SUFFICES ASSUME Init PROVE Kept
    OBVIOUS
<1>1. log \in Seq({}) /\ \A turn \in {} : TurnShape(turn)
    BY DEF Init
<1>2. QED
    BY <1>1 DEF Init, Kept

\* A turn that is read back still has its fields, and so has an interception.
LEMMA ReadBackTurn ==
    ASSUME NEW turn, TurnShape(turn),
           NEW record \in ReadBack(turn, EditedTurns(turn.body))
    PROVE  TurnShape(record)
<1>1. PICK body \in EditedTurns(turn.body) \cup {turn.body} :
         \E hash : record = [body |-> body, hash |-> hash]
    BY DEF ReadBack, Seal, TurnShape
<1>2. body = [role |-> body.role,
              sequence |-> body.sequence,
              previous_received_turn_hash |-> body.previous_received_turn_hash,
              content |-> body.content,
              content_sha256 |-> body.content_sha256,
              semantic_contract_hash |-> body.semantic_contract_hash]
    BY DEF EditedTurns, TurnShape
<1>3. QED
    BY <1>1, <1>2 DEF TurnShape

LEMMA ReadBackItem ==
    ASSUME NEW original, ItemShape(original),
           NEW record \in ReadBack(original, EditedBodies(original.body))
    PROVE  ItemShape(record)
<1>1. PICK body \in EditedBodies(original.body) \cup {original.body} :
         \E hash : record = [body |-> body, hash |-> hash]
    BY DEF ReadBack, Seal, ItemShape
<1>2. body = [received_turn_hash |-> body.received_turn_hash,
              draft |-> body.draft,
              checks |-> body.checks,
              decision |-> body.decision,
              released |-> body.released,
              correction_basis_sha256 |-> body.correction_basis_sha256]
    BY DEF EditedBodies, ItemShape
<1>3. QED
    BY <1>1, <1>2 DEF ItemShape

LEMMA KeptNext == Kept /\ [Next]_vars => Kept'
<1> SUFFICES ASSUME Kept, [Next]_vars PROVE Kept'
    OBVIOUS
<1>1. PICK turns : log \in Seq(turns) /\ \A turn \in turns : TurnShape(turn)
    BY DEF Kept
<1>2. ASSUME NEW content, NEW sequence, NEW previous, Receive(content, sequence, previous)
      PROVE  Kept'
    <2> DEFINE turn == ReceivedTurn(content, "USER", sequence, previous, CONTRACT)
    <2>1. TurnShape(turn)
        BY DEF TurnShape, ReceivedTurn, Seal
    <2>2. log' = Append(log, turn) /\ item' = item
        BY <1>2 DEF Receive
    <2> HIDE DEF turn
    <2>3. log' \in Seq(turns \cup {turn})
        <3>1. log \in Seq(turns \cup {turn})
            BY <1>1
        <3>2. QED
            BY <2>2, <3>1
    <2>4. \A t \in turns \cup {turn} : TurnShape(t)
        BY <1>1, <2>1
    <2>5. QED
        BY <2>2, <2>3, <2>4 DEF Kept
<1>3. ASSUME NEW turn, NEW draft, NEW checks, NEW released, NEW basis,
             Intercept(turn, draft, checks, released, basis)
      PROVE  Kept'
    <2>1. ItemShape(item') /\ log' = log
        BY <1>3, InterceptionShape DEF Intercept
    <2>2. QED
        BY <1>1, <2>1 DEF Kept
<1>4. ASSUME NEW i \in DOMAIN log, EditTurn(i) PROVE Kept'
    <2>1. PICK turn \in ReadBack(log[i], EditedTurns(log[i].body)) :
             log' = [log EXCEPT ![i] = turn]
        BY <1>4 DEF EditTurn
    <2>2. TurnShape(turn)
        <3>1. TurnShape(log[i])
            BY KeptTurns
        <3>2. QED
            BY <3>1, ReadBackTurn
    <2>3. log' \in Seq(turns \cup {turn})
        <3>1. log \in Seq(turns \cup {turn}) /\ i \in 1..Len(log)
            BY <1>1
        <3>2. QED
            BY <2>1, <3>1
    <2>4. \A t \in turns \cup {turn} : TurnShape(t)
        BY <1>1, <2>2
    <2>5. item' = item
        BY <1>4 DEF EditTurn
    <2>6. QED
        BY <2>3, <2>4, <2>5 DEF Kept
<1>5. CASE EditItem
    <2>1. item # None /\ item' \in ReadBack(item, EditedBodies(item.body)) /\ log' = log
        BY <1>5 DEF EditItem
    <2>2. ItemShape(item')
        BY <2>1, ReadBackItem DEF Kept
    <2>3. QED
        BY <1>1, <2>1, <2>2 DEF Kept
<1>6. CASE UNCHANGED vars
    BY <1>1, <1>6 DEF Kept, vars
<1>7. QED
    BY <1>2, <1>3, <1>4, <1>5, <1>6 DEF Next

LEMMA KeptAlways == Spec => []Kept
BY KeptInit, KeptNext, PTL DEF Spec

\* Whatever was changed in the records, verify_interception accepts an item
\* for a turn exactly when create_interception could have made it from the
\* item's own fields: the two statements of the contract never disagree.
THEOREM AcceptedIsCreatableAlways == Spec => []AcceptedIsCreatable
<1>1. Kept => AcceptedIsCreatable
    <2> SUFFICES ASSUME Kept, item # None, NEW i \in DOMAIN log
                 PROVE  VerifyInterception(item, log[i], CONTRACT) <=>
                          /\ MayIntercept(log[i], item.body.draft, item.body.checks,
                                          item.body.released,
                                          item.body.correction_basis_sha256, CONTRACT)
                          /\ item = Interception(log[i], item.body.draft, item.body.checks,
                                                 item.body.released,
                                                 item.body.correction_basis_sha256)
        BY DEF AcceptedIsCreatable
    <2>1. ItemShape(item)
        BY DEF Kept
    <2>2. QED
        BY <2>1, CreatedVerifies, VerifiedIsCreatable
<1>2. QED
    BY <1>1, KeptAlways, PTL

\* No interception, changed or not, is accepted for two different turns.
THEOREM AcceptedForOneTurnAlways == Spec => []AcceptedForOneTurn
<1>1. Kept => AcceptedForOneTurn
    <2> SUFFICES ASSUME Kept, item # None,
                        NEW i \in DOMAIN log, NEW j \in DOMAIN log,
                        VerifyInterception(item, log[i], CONTRACT),
                        VerifyInterception(item, log[j], CONTRACT)
                 PROVE  log[i] = log[j]
        BY DEF AcceptedForOneTurn
    <2>1. log[i].hash = log[j].hash
        BY DEF VerifyInterception
    <2>2. log[i].hash = Digest(log[i].body) /\ log[j].hash = Digest(log[j].body)
        BY DEF VerifyInterception, VerifyReceivedTurn, Intact
    <2>3. log[i].body = log[j].body
        BY <2>1, <2>2, DigestInjective
    <2>4. TurnShape(log[i]) /\ TurnShape(log[j])
        BY KeptTurns
    <2>5. QED
        BY <2>1, <2>3, <2>4 DEF TurnShape
<1>2. QED
    BY <1>1, KeptAlways, PTL
=============================================================================
