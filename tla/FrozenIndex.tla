---------------------------- MODULE FrozenIndex ----------------------------
(***************************************************************************)
(* The indexes that are published with free_valid_ai/frozen_index.py: one  *)
(* is created and every later one extends one of those before.             *)
(***************************************************************************)
EXTENDS CheckIndex

CONSTANTS
    CheckIds,    \* numbers standing for check_ids, in text order
    Versions,    \* the check versions proposed
    Procedures,  \* [id, sha256, mode, independent]: what an entry says of its procedure
    MaxIndexes   \* bound: index versions published

ASSUME IndexAssumption ==
    /\ CheckIds \subseteq Nat
    /\ Versions \subseteq Nat \ {0}
    /\ MaxIndexes \in Nat

VARIABLE published  \* the indexes made, in the order they were made

References == [check_id : CheckIds, check_version : Versions]

-----------------------------------------------------------------------------
Init == published = <<>>

\* A first index.
Create(entries) ==
    /\ Len(published) < MaxIndexes
    /\ MayIndex(entries, 1, None)
    /\ published' = Append(published, Index(entries, 1, None))

\* Any published index may be extended, more than once as well.
Extend(prior, entry) ==
    /\ Len(published) < MaxIndexes
    /\ MayExtend(prior, entry)
    /\ published' = Append(published, Extended(prior, entry))

Entries(active_from) ==
    {AdmittedCheck(reference, procedure, dependencies, active_from, supersedes) :
        reference \in References, procedure \in Procedures,
        dependencies \in {{}} \cup {{needed} : needed \in References},
        supersedes \in References \cup {None}}

Next ==
    \/ published = <<>> /\ \E left, right \in Entries(1) : Create({left, right})
    \/ \E i \in DOMAIN published, active_from \in 1..(MaxIndexes + 1) :
          \E entry \in Entries(active_from) : Extend(published[i], entry)

Spec == Init /\ [][Next]_published

-----------------------------------------------------------------------------
(* Properties.                                                             *)

\* The pairs of an index and one that extends it.
Extensions ==
    {pair \in {published[i] : i \in DOMAIN published} \X
              {published[i] : i \in DOMAIN published} :
        pair[2].body.previous_index_hash = pair[1].hash}

\* Extending keeps every entry, adds exactly one, and dates it with the version
\* that admits it; two extensions of one index may differ in nothing else.
ExtensionAppendsOne ==
    \A pair \in Extensions :
        /\ pair[1].body.entries \subseteq pair[2].body.entries
        /\ \E entry \in pair[2].body.entries \ pair[1].body.entries :
              /\ pair[2].body.entries = pair[1].body.entries \cup {entry}
              /\ entry.body.active_from_index_version = pair[2].body.index_version

\* A lookup never loses ground as the index grows: the latest version admitted
\* for a check stays admitted or gives way to a higher one, and a lookup by
\* version returns what it returned before.
LookupNeverRegresses ==
    \A pair \in Extensions, check_id \in CheckIds :
        /\ \A old \in LatestAdmitted(pair[1], check_id) :
              \E new \in LatestAdmitted(pair[2], check_id) :
                 new.body.reference.check_version >= old.body.reference.check_version
        /\ \A version \in Versions :
              AdmittedVersion(pair[1], check_id, version)
                 \subseteq AdmittedVersion(pair[2], check_id, version)

\* What an entry depends on or supersedes is another entry of the same index,
\* admitted no later than itself, so no chain of them leads back.
BasisAdmittedBefore ==
    \A i \in DOMAIN published : \A entry \in published[i].body.entries :
        \A reference \in entry.body.dependencies \cup ({entry.body.supersedes} \ {None}) :
            /\ reference # entry.body.reference
            /\ \E basis \in published[i].body.entries :
                  /\ basis.body.reference = reference
                  /\ entry.body.reference \notin basis.body.dependencies
                  /\ basis.body.active_from_index_version
                        <= entry.body.active_from_index_version

\* frozen_index.py: extend_frozen_check_index appends one newly admitted entry.
\* A higher version of an admitted check that supersedes it, dated with the next
\* index version, extends the index.
SupersessionAdmitted ==
    \A i \in DOMAIN published :
        \A entry \in Entries(published[i].body.index_version + 1) :
            LET new == entry.body.reference
                taken == {item.body.reference : item \in published[i].body.entries}
            IN  /\ VerifyAdmittedCheck(entry)
                /\ entry.body.dependencies = {}
                /\ new \notin taken
                /\ entry.body.supersedes \in taken
                /\ entry.body.supersedes.check_id = new.check_id
                /\ entry.body.supersedes.check_version < new.check_version
                => MayExtend(published[i], entry)
=============================================================================
