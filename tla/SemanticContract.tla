-------------------------- MODULE SemanticContract --------------------------
(***************************************************************************)
(* free_valid_ai/semantics.py: a closed list of terms, each with the terms *)
(* it is not to be confused with.  Terms and relations are lists sorted    *)
(* without duplicates, so they are sets.  A term is a record               *)
(*   [term_id, definition, interpretation_policy, not_equivalent_to]       *)
(***************************************************************************)
EXTENDS Naturals, Sequences, HashBound

INTERPRETATION_POLICIES == {"EXACT", "OPEN"}

IsTerm(term) ==
    /\ term.term_id # "" /\ term.definition # ""
    /\ term.interpretation_policy \in INTERPRETATION_POLICIES
    /\ term.term_id \notin term.not_equivalent_to

TermIds(terms) == {term.term_id : term \in terms}

\* create_semantic_contract: ids are unique, and a relation is declared by
\* both of its terms.
MayContract(terms) ==
    /\ terms # {}
    /\ \A term \in terms : IsTerm(term)
    /\ \A left, right \in terms : left.term_id = right.term_id => left = right
    /\ \A term \in terms : \A other \in term.not_equivalent_to :
          \E item \in terms :
              item.term_id = other /\ term.term_id \in item.not_equivalent_to

SemanticContract(terms) ==
    Seal([type |-> "semantic_contract", version |-> 1, terms |-> terms])

VerifySemanticContract(contract) ==
    /\ MayContract(contract.body.terms)
    /\ contract = SemanticContract(contract.body.terms)

\* relation()
MayRelate(contract, left, right) ==
    VerifySemanticContract(contract) /\ {left, right} \subseteq TermIds(contract.body.terms)

Relation(contract, left, right) ==
    IF left = right THEN "SAME_TERM"
    ELSE IF \E term \in contract.body.terms :
                term.term_id = left /\ right \in term.not_equivalent_to
      THEN "DISTINCT_TERMS"
    ELSE "UNSPECIFIED"

DISTINCT == {"HOLO", "HOLOGRAM", "MODEL_CARRIER", "PROJECTION", "SIMULATOR"}

DEFAULT_SEMANTIC_CONTRACT ==
    SemanticContract({[term_id |-> id, definition |-> "declared",
                       interpretation_policy |-> "EXACT",
                       not_equivalent_to |-> DISTINCT \ {id}] : id \in DISTINCT})
=============================================================================
