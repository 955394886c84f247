----------------------------- MODULE HashBound -----------------------------
(***************************************************************************)
(* The records of this system (turns, interceptions, reviews, claims,      *)
(* receipts, index versions) all carry the SHA-256 of the canonical JSON   *)
(* of their other fields.  Canonical JSON is injective and SHA-256 is      *)
(* taken to be collision free, so a digest is a term that wraps what was   *)
(* hashed: equal digests have equal preimages and a digest is no other     *)
(* kind of value.  A record is the pair of its body (every field but the   *)
(* hash) and its hash.                                                     *)
(***************************************************************************)

\* Python's None: the absent digest, release, basis or receipt.
None == [none |-> TRUE]

\* hashlib.sha256(_canonical(value)).hexdigest()
Digest(value) == [sha256 |-> value]

\* A value of the shape _sha256() accepts: 64 lowercase hexadecimal digits.
IsDigest(value) == value # None /\ value = [sha256 |-> value.sha256]

\* {**body, "..._hash": _hash(body)}
Seal(body) == [body |-> body, hash |-> Digest(body)]

\* secrets.compare_digest(supplied hash, _hash(body))
Intact(record) == record.hash = Digest(record.body)
=============================================================================
