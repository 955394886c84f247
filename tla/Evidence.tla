------------------------------ MODULE Evidence ------------------------------
(***************************************************************************)
(* free_valid_ai/evidence.py: a receipt is evidence for a decision only if *)
(* the check it names, run again on the bytes that come with it, gives the *)
(* same receipt, by a procedure that the frozen index admits.              *)
(*                                                                         *)
(* An item of evidence is a record                                         *)
(*   [check_id, check_version, claim, observed, receipt]                   *)
(* where check_version 0 stands for None.  Callers supply a dictionary of  *)
(* items; here they supply a set of ids, and Items says what each stands   *)
(* for.  A reference list is a sequence of ids.                            *)
(***************************************************************************)
EXTENDS Checks, CheckIndex

CONSTANT Items  \* the items, by their evidence ids

FIELDS == {"check_id", "check_version", "claim", "observed", "receipt"}

\* The checks that have a runner, by the number of their check_id.
RUNNERS == <<JSON_CHECK_TYPE, CHECK_TYPE>>

\* Mutated form of Admitted: the version that was asked for is not looked at.
AdmittedNow(index, check_id, check_version) == LatestAdmitted(index, check_id)

\* admitted_check(frozen_index, check_id, check_version)
Admitted(index, check_id, check_version) ==
    IF check_version = 0 THEN LatestAdmitted(index, check_id)
    ELSE AdmittedVersion(index, check_id, check_version)

\* The check of the item, run again as the first receipt of its claim.
MayRebuild(item) ==
    /\ item.check_id \in DOMAIN RUNNERS
    /\ MayRun(RUNNERS[item.check_id], item.claim, item.receipt.body.verifier_id,
              item.receipt.body.observed_at, item.observed, None)

Rebuilt(item) ==
    Run(RUNNERS[item.check_id], item.claim, item.receipt.body.verifier_id,
        item.receipt.body.observed_at, item.observed, None)

\* Mutated form of Recomputed: the receipt is verified and not computed again.
Verified ==
    {id \in DOMAIN Items :
        DOMAIN Items[id] = FIELDS /\ VerifyReceipt(Items[id].receipt, Items[id].claim)}

\* The items whose check gives the receipt that comes with them.
Recomputed ==
    {id \in DOMAIN Items :
        LET item == Items[id]
        IN  /\ DOMAIN item = FIELDS
            /\ item.receipt.body.sequence = 1
            /\ item.receipt.body.previous_receipt_hash = None
            /\ MayRebuild(item)
            /\ Rebuilt(item) = item.receipt}

\* replay_evidence_item returns the receipt's result rather than None.
Replays(id, index) ==
    /\ id \in Recomputed
    /\ \E entry \in Admitted(index, Items[id].check_id, Items[id].check_version) :
          ByProcedure(Items[id].receipt.body.method, entry.body.procedure)

-----------------------------------------------------------------------------
(* replay_evidence_references: the list is replayed up to the first        *)
(* reference that fails.                                                   *)

Failing(references, evidence, index) ==
    {i \in DOMAIN references :
        references[i] \notin evidence \/ ~Replays(references[i], index)}

\* Mutated form of Results: a later result replaces an earlier one.
LastResult(references) == {Items[references[Len(references)]].receipt.body.result}

Results(references) == {Items[references[i]].receipt.body.result : i \in DOMAIN references}

\* The results, none if there is not one of each, and the ids that were replayed.
ReplayedUpTo(references, failing) ==
    [results |-> IF references # <<>> /\ failing = {} THEN Results(references) ELSE {},
     used |-> {references[i] : i \in {i \in DOMAIN references : \A j \in failing : i < j}}]

Replay(references, evidence, index) ==
    ReplayedUpTo(references, Failing(references, evidence, index))

\* The ids that were replayed in any of the lists.
AllUsed(replays) == UNION {replays[i].used : i \in DOMAIN replays}

\* How the possibility and the missing-observation assessments read them.
Undecided(results) == results = {} \/ results \cap {"UNKNOWN", "BLOCKED"} # {}
Contradicted(results) == ~Undecided(results) /\ "CONTRADICTED" \in results

\* How the comparator and the consequence gate read them.
AllHeld(results) == results = {"HELD"}

-----------------------------------------------------------------------------
(* Reasons a decision stays open.                                          *)

Reason(reason, identifier) == [reason |-> reason, identifier |-> identifier]
NOT_EXACT == Reason("evidence_set_not_exact", "")

\* Mutated form of Inexact: supplied evidence need not be cited.
InexactIfMissing(used, evidence) == IF used \subseteq evidence THEN {} ELSE {NOT_EXACT}

\* set(used) != set(evidence)
Inexact(used, evidence) == IF used = evidence THEN {} ELSE {NOT_EXACT}
=============================================================================
