----------------------------- MODULE CheckIndex -----------------------------
(***************************************************************************)
(* free_valid_ai/frozen_index.py: the index of admitted checks.  An entry  *)
(* admits one version of one check; an index is a closed list of entries   *)
(* in the order of their references `id@version`, and extending it adds    *)
(* one entry and binds the hash of the index before.  The list is sorted   *)
(* and without duplicates, so it is the set of its entries.                *)
(*                                                                         *)
(* References are sorted as text.  check_ids are numbered in their text    *)
(* order (none is the start of another); a version is compared by its      *)
(* decimal digits, first digit first.  A procedure is a record             *)
(* [id, sha256, mode, independent].                                        *)
(***************************************************************************)
EXTENDS Naturals, Sequences, FiniteSets, HashBound

-----------------------------------------------------------------------------
(* References.                                                             *)

Reference(check_id, check_version) ==
    [check_id |-> check_id, check_version |-> check_version]

\* f"{check_version}"
Decimal[n \in Nat] == IF n < 10 THEN <<n>> ELSE Append(Decimal[n \div 10], n % 10)

TextBefore(left, right) ==
    \E k \in 0..Len(left) :
        /\ k < Len(right)
        /\ SubSeq(left, 1, k) = SubSeq(right, 1, k)
        /\ k = Len(left) \/ (k < Len(left) /\ left[k + 1] < right[k + 1])

ReferenceBefore(left, right) ==
    \/ left.check_id < right.check_id
    \/ /\ left.check_id = right.check_id
       /\ TextBefore(Decimal[left.check_version], Decimal[right.check_version])

-----------------------------------------------------------------------------
(* Entries.                                                                *)

MayAdmit(check_version, procedure, active_from) ==
    /\ check_version >= 1
    /\ procedure.mode = "MIRRORED_EVIDENCE_ONLY" => ~procedure.independent
    /\ active_from >= 1

AdmittedCheck(reference, procedure, dependencies, active_from, supersedes) ==
    Seal([reference |-> reference,
          procedure |-> procedure,
          dependencies |-> dependencies,
          active_from_index_version |-> active_from,
          supersedes |-> supersedes])

VerifyAdmittedCheck(entry) ==
    /\ MayAdmit(entry.body.reference.check_version, entry.body.procedure,
                entry.body.active_from_index_version)
    /\ Intact(entry)

-----------------------------------------------------------------------------
(* Indexes.                                                                *)

\* Mutated form of Known: the order of the references does not count.
KnownAnywhere(entries, entry) == {item.body.reference : item \in entries}

\* _validate_entries: the references seen before an entry, in text order.
Known(entries, entry) ==
    {item.body.reference : item \in
        {item \in entries : ReferenceBefore(item.body.reference, entry.body.reference)}}

\* Mutated form of MaySupersede: any version of the check may be superseded.
MaySupersedeAnyVersion(entry, known) ==
    entry.body.supersedes # None =>
        /\ entry.body.supersedes \in known
        /\ entry.body.supersedes.check_id = entry.body.reference.check_id

MaySupersede(entry, known) ==
    entry.body.supersedes # None =>
        /\ entry.body.supersedes \in known
        /\ entry.body.supersedes.check_id = entry.body.reference.check_id
        /\ entry.body.supersedes.check_version < entry.body.reference.check_version

ValidEntries(entries, index_version) ==
    /\ \A left, right \in entries :
          left.body.reference = right.body.reference => left = right
    /\ \A entry \in entries :
          /\ entry.body.active_from_index_version <= index_version
          /\ entry.body.dependencies \subseteq Known(entries, entry)
          /\ MaySupersede(entry, Known(entries, entry))

MayIndex(entries, index_version, previous_index_hash) ==
    /\ index_version >= 1
    /\ index_version = 1 => previous_index_hash = None
    /\ index_version > 1 => IsDigest(previous_index_hash)
    /\ entries # {}
    /\ \A entry \in entries : VerifyAdmittedCheck(entry)
    /\ ValidEntries(entries, index_version)

Index(entries, index_version, previous_index_hash) ==
    Seal([entries |-> entries,
          index_version |-> index_version,
          previous_index_hash |-> previous_index_hash])

VerifyIndex(index) ==
    /\ MayIndex(index.body.entries, index.body.index_version, index.body.previous_index_hash)
    /\ Intact(index)

\* extend_frozen_check_index.
Extended(prior, entry) ==
    Index(prior.body.entries \cup {entry}, prior.body.index_version + 1, prior.hash)

\* Mutated form of MayExtend: the candidate's admission version is not compared.
MayExtendAtAnyVersion(prior, entry) ==
    /\ VerifyIndex(prior)
    /\ VerifyAdmittedCheck(entry)
    /\ entry.body.reference \notin {item.body.reference : item \in prior.body.entries}
    /\ MayIndex(Extended(prior, entry).body.entries, prior.body.index_version + 1, prior.hash)
    /\ prior.body.entries \subseteq Extended(prior, entry).body.entries

MayExtend(prior, entry) ==
    /\ VerifyIndex(prior)
    /\ VerifyAdmittedCheck(entry)
    /\ entry.body.active_from_index_version = prior.body.index_version + 1
    \* an entry whose reference is taken makes the list invalid
    /\ entry.body.reference \notin {item.body.reference : item \in prior.body.entries}
    /\ MayIndex(Extended(prior, entry).body.entries, prior.body.index_version + 1, prior.hash)
    /\ prior.body.entries \subseteq Extended(prior, entry).body.entries

-----------------------------------------------------------------------------
(* admitted_check: the entry of a version, or of the latest version that   *)
(* no entry of the check supersedes; a set of at most one entry.           *)

OfCheck(index, check_id) ==
    {entry \in index.body.entries : entry.body.reference.check_id = check_id}

AdmittedVersion(index, check_id, check_version) ==
    {entry \in OfCheck(index, check_id) :
        entry.body.reference.check_version = check_version}

LatestAdmitted(index, check_id) ==
    LET superseded == {entry.body.supersedes : entry \in OfCheck(index, check_id)}
        active == {entry \in OfCheck(index, check_id) :
                      entry.body.reference \notin superseded}
    IN  {entry \in active : \A other \in active :
            other.body.reference.check_version <= entry.body.reference.check_version}
=============================================================================
