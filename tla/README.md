# Free__Valid_Ai in TLA+

A model of the program in `src/free_valid_ai`, the instances of it that TLC
checks, and theorems about it that TLAPS proves. The program is a library of
hash-bound records (received turns, interceptions, reviews, claims, receipts,
an index of admitted checks) and a terminal chat with a local model that is
built on some of them. Nothing is persisted and there are no threads: what is
hard is the order of fallible steps, records that are made by one party and
verified by another, and chains that nobody walks.

## 1. Inventory

| Component | Source | State | Operations |
| --- | --- | --- | --- |
| Turn boundary | `turn_boundary.py` | none; makes and verifies records | `create_received_turn`, `verify_received_turn`, `create_interception`, `verify_interception` |
| Mirrored review | `mirrored_review.py` | none | `parse_mirrored_review`, `verify_mirrored_review` |
| Chat session | `chat.py` `ChatSession` | history, last turn hash, sequence, last audit | `ask` (which calls `_review`) |
| Terminal loop | `chat.py` `run_chat` | the screen, the exit code | read a line, ask, print |
| Local model transport | `local_model.py` | none (HTTP to loopback) | `chat`, `chat_structured` |
| Claims and receipts | `claims.py` | none; chains are lists the caller holds | `create_claim`, `verify_claim`, `create_verification_receipt`, `verify_verification_receipt`, `assess_claim` |
| Deterministic checks | `checks.py` | none | `run_source_sha256_check`, `run_json_pointer_check` |
| Frozen check index | `frozen_index.py` | a chain of index versions the caller holds | `create_admitted_check`, `create_`/`verify_`/`extend_frozen_check_index`, `admitted_check` |
| Verified output gate | `output_gate.py` | the locals of one call | `run_verified_model_call` |
| Evidence replay | `evidence.py` | none | `replay_evidence_item`, `replay_evidence_references` |
| Possibility assessment | `possibility.py` | none | `assess_possibility`, `verify_possibility_assessment` |
| Missing-observation assessment | `missing_observation.py` | none | `assess_missing_observations`, `verify_missing_observation_assessment` |
| Directional comparator | `directional_comparator.py` | none | `compare_directional`, `verify_directional_comparison` |
| Consequence gate | `consequence_gate.py` | none | `assess_consequences`, `verify_consequence_gate` |
| Semantic contract | `semantics.py` | a constant table of terms | `create_`/`verify_semantic_contract`, `relation` |
| Runtime envelope | `runtime_envelope.py` | none | `build_`/`verify_runtime_envelope` |
| Command line | `cli.py` | the objects `main()` has made so far | transport, envelope, session, terminal loop |
| Package exports | `__init__.py` | none | none |

How they interact:

- `run_chat` calls `ChatSession.ask`; `ask` binds the text with
  `create_received_turn`, calls the transport up to three times (draft, review,
  correction), has the raw review parsed, and records the outcome with
  `create_interception` in `last_turn_audit`. Only then is the exchange added to
  the history, linked and counted, in three assignments.
- `checks.py` makes receipts with `claims.py`; the caller chains them by passing
  the receipt it holds, and `assess_claim` is given a list of them.
- `run_verified_model_call` copies and prepares claims against one verified
  index, calls a model through a function it is passed, runs the checks on the
  output and compares the procedures with the index. The function is the
  caller's and may change the claims and the index that the caller passed.
- Evidence replay runs the checks again for the possibility, observation,
  comparator and consequence assessments; the consequence gate verifies a
  possibility assessment for the same index.
- `main()` makes the transport and the runtime envelope one after the other
  from the same arguments; the session verifies the envelope, which carries the
  hash of the semantic contract, and `run_chat` gets the program.

What is hard: a call that fails or is interrupted in the middle of a commit;
exceptions that no handler names; an audit that outlives the turn it is about;
a decision stated twice, by the creator and by the verifier; stored records
read back altered; verifiers appending to the same receipt; receipts dated by
their makers; indexes extended along two branches; textual order where
numerical order is meant; claims checked before a call into foreign code and
used after it; lists that stop being replayed at the first item that fails;
branches whose order decides; two assessors written apart for the same
question; subtraction of integers and reals; an index that moves on between an
assessment and the gate that relies on it. `PROJECT.json` lists these as hazards, each at its line and with
the properties aimed at it.

What makes each component correct:

- turn boundary: the verifier accepts exactly what the creator makes, for one
  turn;
- session: the chain of turns is the history, an audit agrees with itself and
  with the answer it is shown for, and nothing is committed that was not
  released;
- terminal: the screen agrees with the history, and a session is used further
  only while it is whole;
- claims: an accepted chain is determined by its last receipt, an assessment
  depends on nothing observed later, HELD needs timely evidence of a second
  person, computed results never contradict each other;
- index: an extension appends one entry, a lookup never goes back, no entry
  rests on a later one;
- output gate: nothing leaves it that is not covered by replayed, admitted, HELD
  claims, and what is replayed is what was bound before the model was called;
- checks: a pointer finds what RFC 6901 says it references;
- decisions: an eligible action is established from the bytes of its evidence
  up, reversing lists decides nothing, worse or less evidence never permits more, a
  record verifies where it was made only, an extended index never reverses a
  decision, a classification is real and mirrors itself;
- program: it starts exactly for the arguments it should, and what the model is
  told of its transport is so.

## 2. Modules

Digests (`HashBound`). Every record carries the SHA-256 of the canonical JSON of
its other fields. A digest is a term wrapping its preimage, so it is collision
free by construction; a record is `[body, hash]`, and "the hash is intact" is a
predicate that an altered record may fail. `None` is Python's `None`.

| Module | Models | Remarks |
| --- | --- | --- |
| `HashBound` | hashing | collision freedom is the one cryptographic assumption |
| `TurnBoundary` | `turn_boundary.py` | operators; `May...` is "the function does not raise". Creator and verifier are translated separately, each from its own lines |
| `TurnRecords` | turn records kept by a host, altered and verified | the host and the alterations are the environment |
| `MirroredReview` | `mirrored_review.py` | a raw answer is what parsing can tell apart |
| `ChatSession` | `ChatSession.ask`, `_review` | `pc` is the statement about to run; one action per outcome of each statement that can fail |
| `HeldRelease` | nothing: what a reviewed conversation promises | abstract specification |
| `ChatRefinement` | `ChatSession` implements `HeldRelease` | the exchange is published when `messages` is extended |
| `TerminalChat` | `run_chat` around one session | extends `ChatSession` |
| `SemanticContract`, `RuntimeEnvelope` | `semantics.py`; `runtime_envelope.py` and the constructor of the transport | operators |
| `CommandLine` | `cli.py` `main` | extends `TerminalChat` and `RuntimeEnvelope`: the program from its arguments to its exit code |
| `Claims` | `claims.py` | operators; moments are natural numbers |
| `JsonPointer` | `_pointer_tokens`, `_resolve_pointer` of `checks.py` | a token is a sequence of characters, a document a tree; beside it stands `Rfc6901`, written from the RFC, which only properties use. What `_canonical` cannot write is `UNENCODABLE` as a value and `LONE_SURROGATE` in a key, looked for to a depth of 3 (`DEPTH`); a run of more than 4300 digits, which `int()` refuses, is one character |
| `Checks` | `checks.py` | operators on top of `Claims` and `JsonPointer`. A procedure is an id and a digest, and both must be those the index admits (`ByProcedure`) |
| `ClaimLedger` | several people making claims and receipts | the state is what has been made so far; assessments are evaluated over every list of receipts |
| `CheckIndex` | `frozen_index.py` | operators; versions are compared by their decimal digits, as the code's text order does |
| `FrozenIndex` | indexes that are published and extended | any published version may be extended, also twice |
| `OutputGate` | `run_verified_model_call` | composes the checks, the claims and an index. `arguments` and `frozen_index` are the caller's, `bound_claims`, `index` and `invocation` the gate's; calling the model may change the former (`CallModel`) |
| `Evidence` | `evidence.py` | an item is run again by the modelled checks; a list is replayed up to the first item that fails |
| `Possibility`, `MissingObservation`, `DirectionalComparator`, `ConsequenceGate` | the module of that name | operators: assess or compare, and verify |
| `DecisionRecords` | records of the four kinds made over an index that is extended between them | composes the five modules above; whoever decides uses any published version, and a possibility assessment made earlier may enter a gate record |
| `..._proofs` | theorems, section 4 | |
| `MC...` | constants for TLC | |

An exception is a predicate that does not hold (operators) or the value of
`raised` (state machines). Definitions named "Mutated form of ..." state a
plausible bug of the definition after them; no specification uses them. They
record what each property is sensitive to: replacing the definition by its
mutated form must violate the property listed with it in `PROJECT.json`.

State of `ChatSession` against the code: `messages`,
`previous_received_turn_hash`, `turn_sequence`, `last_turn_audit` and
`mirrored_review` are the attributes; `received`, `draft`, `review` and `answer`
the locals; `raised` is how the last call ended. A raw review or a text is
abstract; `Blank` are the texts that `strip()` to nothing and `Unencodable` those
with a lone surrogate, for which `encode()` raises. Such text is real: the
transport's `json.loads` turns an escape such as `"\ud800"` into it.

State of the others: `TerminalChat` has the screen and the exit code,
`CommandLine` what `main()` has made, `OutputGate` the locals of one call.
`ClaimLedger`, `FrozenIndex`, `TurnRecords` and `DecisionRecords` have no
counterpart in one function: the package keeps nothing, and their state is what
its callers hold, so that the properties can speak of records made at different
moments by different people.

Numbers of the comparator. Python subtracts integers exactly and rounds an
integer before it subtracts a real. `DirectionalComparator` has reals of three
bits (every integer up to 8, the even ones up to 16) in the place of 53, so that
the rounding, the tie to even and the overflow happen among small numbers.

## 3. Runs

`CHECK_DEADLOCK FALSE` everywhere: every specification has states where the
program is done (the bound of exchanges or records is reached, the terminal
ended, the gate returned) and a caller may always stop.

| Run | Question | Bounds, and why they are enough |
| --- | --- | --- |
| `chat` | Do failures leave a session whole, and does every `ask()` end? | 2 exchanges (`MaxTurns`), so that a second turn has a predecessor and a first audit can be stale; 4 texts and 4 replies with a blank and an unencodable one; 8 raw reviews, one for every way parsing and `_review` go |
| `chat_interrupted` | What survives `KeyboardInterrupt` at any statement, and does a session keep the promise of `HeldRelease`? | as above, `Interruptible` |
| `program` | Do screen, history and exit code agree, for which arguments does the program start, and is the model told the truth about its transport? | as `chat_interrupted`, with fairness; arguments off the default one at a time, a model and a port that cannot be encoded among them, and `num_gpu` -1, 0 and 1 |
| `turn_records` | Can altered records pass, or pass for another turn? | 2 turns, 1 interception, 2 alterations, each of any field or of the hash, with the hash kept, recomputed or another turn's: enough to alter a field and one that must agree with it; check lists for every decision, the empty, the unsorted and the repeated one |
| `claim_ledger` | What may an assessment depend on, and what does naming the last receipt fix? | 4 records, 2 of them claims at most; 2 people; moments 0..2, so that receipts are before, at and after the assessment and the end of validity, out of order, and chains fork |
| `frozen_index` | Is the index append-only and its lookup monotone? | 3 index versions (two extensions, in a line or in a fork), 2 checks, versions 1, 2 and 10, the last for textual order |
| `output_gate` | What can leave the gate, and what do pointers find? | no claim, 1 or 2 claims of 12 kinds, and single claims with 49 pointers of up to two tokens over a nested document; 5 indexes, two of which admit the value check by another digest or another id; 7 outputs, 2 verifiers, 2 moments; the model puts another claim in the place of the caller's, any index in the place of the caller's, or neither |
| `decisions` | What does a decision rest on, what may it depend on, where does it verify? | 3 index versions: a value check, then the source check, then a second version with another procedure; evidence of 9 qualities; reference lists of up to 2; 2 constraints, observations or measures; every impact |
| `malformed_review`, `discontinuous_turns`, `supersession`, `array_index` | disagreements, section 6 | as the runs above |

Symmetry is used in `claim_ledger` only, over the people, who differ in nothing.
Each property is stated with its meaning in the module it belongs to; the
hazards each is aimed at are in `PROJECT.json`. What the runs show, by component:

- session: `ChainMatchesHistory`, `Continuable` and `AuditBindsReview` for calls
  that fail anywhere, a draft that cannot be sent in an unreviewed session among
  them; `ChainBehindHistory` and `LastAnswerAudited` also after
  interruptions; `OnlyReleasedCommitted` and `ImplementsHeldRelease` for every
  step; `AskReturns`;
- program: `ShownMatchesHistory` (all answers but perhaps the last were shown),
  `PromptOnWholeSession`, `ErrorEndsConversation`, `ShownWasReleased`,
  `EnvelopeSpeaksOfTransport`, `QuestionSettled`, and `RefusedForItsArguments`:
  the three constructors, each with checks of its own, together refuse exactly
  the arguments that are not `Suitable`, which is stated apart from them;
- turn records: `AcceptedIsCreatable`, `AcceptedForOneTurn`;
- claims: `LaterEvidenceIgnored`, `HeldOnTimelyEvidence`, `ComputedResultsAgree`,
  `TipDeterminesChain`;
- index: `ExtensionAppendsOne`, `LookupNeverRegresses`, `BasisAdmittedBefore`;
- output gate and pointers: `ReleasedOnReplayedClaims`,
  `BlockedForAReason`; `ReplayedAsInvoked`, which compares the receipts made
  after the model was called with the invocation written before, while the model
  changes what the caller passed; and `AsciiPointersFollowRfc6901`, which compares the token scan and the walk with
  a definition of RFC 6901 that shares nothing with them;
- decisions (two of these are narrower than their names: the reverse order stands
  for every order, which it is for lists of two, and an assessment that was
  IMPOSSIBLE is only compared with itself, since without its evidence it would
  be UNKNOWN and the gate would block what it prohibits): `EligibleIsEstablished` reads the bytes of the evidence without the
  code of the checks; `AssessorsAgree` translates the arguments of one assessor
  into those of the other, for lists that both take; `OrderIrrelevant`, `WorseNeverMorePermissive`,
  `ExtensionNeverReverses`, `SwapMirrors` decide again with other arguments or
  another index and compare; `UncitedEvidenceReported` (of a gate, only where its
  proposal was assessed as possible), `VerifiedWhereMade` and `DirectionIsReal`
  relate the record to what it was made from.

### Fairness

`FairSpec` and `FairMainSpec` assume weak fairness of `Answered` (the transport
returns or fails), of `Commit` and of `Present` (straight-line code and
printing). The first rests on `timeout_seconds = 120.0`, passed to `urlopen`
(`local_model.py:78`). That timeout is per socket operation: a server that
sends a byte before each timeout could hold the call for longer than any bound,
and the assumption excludes it. Nothing is assumed about the caller, the user
or interrupts. With these, `AskReturns` and `QuestionSettled` depend on the code:
a correction that is rejected has to end the call.

## 4. Proofs

TLAPS proves the following for any constants that satisfy the modules'
assumptions, so for any number of turns, claims, receipts, versions and items.
The assumptions are on what callers pass: `None` is not a text or a document,
reviews are raw reviews, arguments of the program have their fields, moments and
versions are numbers, argument lists are finite, criteria have the fields the
code demands of them and numbers are those Python has (`IsNumber`), and the first
index is one that `create_frozen_check_index` makes.

- `Foundation_proofs`: digests are injective and never `None`. Everything else
  rests on these facts and not on what a digest is. `LeastMember` (a set of
  natural numbers has a least member, from the well-foundedness of `<`) takes
  the place of an induction wherever a position, a version or a step is the
  first where something fails.

  The rest is about pointers. `Recursion` and `RecursionTyped` show that a
  recursion that goes from the end of a sequence to its front, as `Decoded` and
  `Written` do, has a solution of the right type; without that a `CHOOSE`n
  function is nothing one can reason about. From there: no two texts are written
  alike (`WrittenInjective`), decoding and writing undo each other
  (`WrittenDecoded`, `DecodedIsKey`), the digits `isdigit()` accepts in ASCII
  are those of RFC 6901 (`IndexInAscii`), so a token selects what it references
  (`SelectedIsReferenced`), and so does the whole pointer: the theorem
  `ResolveIsRfc6901`.
- `TurnBoundary_proofs`: `CreatedVerifies` and `VerifiedIsCreatable`, the two
  directions of "the verifier accepts exactly what the creator makes", from
  `DecisionsAgree` (the two decision tables are one function).
- `TurnRecords_proofs`: `AcceptedIsCreatable` and `AcceptedForOneTurn`. The
  invariant is `Kept`: what is kept has the fields of a turn or of an
  interception, and a turn's hash is the digest of a body. Without it an
  altered record could be anything and equality of hashes would say nothing
  about turns; with it, equal hashes give equal bodies.
- `Chat_proofs`, the session: `TypeOK`, `AuditBindsReview` and
  `OnlyReleasedCommitted`, from the inductive invariant

  `IInv == TypeOK /\ InCall /\ Cleared /\ AuditBindsReview`.

  None of the three is inductive alone. `AuditBindsReview` needs to know, when a
  correction arrives, that the review held since the step before is bound to
  the turn and draft still held (`InCall`); `OnlyReleasedCommitted` needs to know,
  when the history is extended, that the audit written earlier is that of the
  turn in progress and released the answer (`Cleared`). Then `LastAnswerAudited`
  and `ChainBehindHistory`, which need what links the tail of `ask()` to the
  history it has just extended (`InCommit`); `Continuable`, assuming
  `~Interruptible`, which needs that texts on their way into a reviewed history
  can be encoded, and those before the last of any history (`Extensible`); and the refinement `ImplementsHeldRelease`,
  step by step: a call that ends with an exception is `Abandon` before the
  history is extended and a stutter after it, and extending the history by two
  messages appends one exchange, because its length is even (`Paired`).
  `ChainMatchesHistory`, also assuming `~Interruptible`, unrolls the chain from
  its last digest: `ChainInv` says that the unrolling is the history, up to the
  assignments of the commit that are still to come. All but these two cover interruptions anywhere.
- `Chat_proofs`, the program: the six safety properties of `TerminalChat` and
  `CommandLine`, interruptions included. A step of the program is one of the
  session, one of the terminal or one of `main()`, so the invariants of the
  session carry over (`MainIInvAlways`), and so does the refinement: the whole
  program keeps the abstract conversation (`ProgramImplementsHeldRelease`). `SetupInv` says what `main()` has made
  at each stage, and that making it from these arguments did not raise, from
  which both directions of `RefusedForItsArguments` follow;
  `ProgramInv` says how far the screen is behind the history at each statement
  of the loop, and that the session is whole unless the call under way was
  interrupted, in which case nothing but the end of the program follows. That
  is what `PromptOnWholeSession` needs: `ChainMatchesHistory` and `Continuable`
  are no invariants once a commit can be cut short, and hold at the prompt all
  the same.
- `OutputGate_proofs`: the four invariants of the gate. The invariant says what
  was bound before the model was called, verified and admitted claims and an
  invocation that names them and the index (`Bound`), which no later step changes
  whatever becomes of the caller's records (`BoundKept`), and how far the loop
  has come: the receipts are those of the claims that are no longer
  pending, and `all_held` sums them up (`Replayed`); what is released is decided
  once, after the loop (`DecidedAfter`). `AsciiPointersFollowRfc6901` follows
  from `ResolveIsRfc6901` and from which run gave a receipt its result
  (`ReceiptsAreRuns`).
- `ClaimLedger_proofs`: all four invariants of the ledger. `IInv` says that
  records are sealed and that every receipt not written by hand was computed for
  a claim of the ledger. Chains of any length are compared at the least
  position where two of them differ.
- `FrozenIndex_proofs`: `ExtensionAppendsOne` and `LookupNeverRegresses`, from
  "every index is sealed and, unless it is a first one, extends a published
  one": equal hashes make the named predecessor the index that was extended.
  `BasisAdmittedBefore`, with an invariant on the entries of each index
  (`BasisInv`): an entry's bases come before it in the code's text order of
  decimal digits, and that order is strict (`TextOrderIsStrict`), so no basis
  depends on the entry.
- `DecisionRecords_proofs`: all nine invariants of the decision records. The
  state invariants are small: indexes are sealed and the record made verifies
  under a published one (`IInv`), a higher version holds the entries of a lower
  one (`Growing`), criteria are lists of records with the fields of a criterion
  (`Shaped`). The work is in lemmas:
  - about replay, for `AssessorsAgree`, `UncitedEvidenceReported` and
    `ExtensionNeverReverses`: an item that replays under one index gives the
    same result under every index that replays it, and a list that stops early
    has used a subset of what it cites;
  - about order, for `OrderIrrelevant`: reversed criteria are the criteria at
    other places (`Moved`); each list is replayed to the same results, and
    where that is not so for the references used (`ReversedReplay`), the
    decision was `UNKNOWN` already, and stays so;
  - about numbers, for `DirectionIsReal` and `SwapMirrors`: rounding to the
    nearest real is monotone (`NearestIsMonotone`), so a rounded difference
    keeps the sign of the exact one or hides it, and changes its sign when the
    numbers are swapped, below zero and at ties too;
  - about the whole path, for `EligibleIsEstablished`: an eligible action means
    that every list was HELD (`EligibleIsHeld`, `PossibleIsHeld`), a HELD list
    that each item was computed again from its bytes (`HeldIsWitnessed`), and a
    computed HELD that the bytes show the value, at the pointer as RFC 6901 reads
    it (`HeldSupports`, `ResolveIsRfc6901`).

Two properties say what they mean only for pointers in ASCII: in
`AsciiPointersFollowRfc6901` and, for the pointers of a proposal's constraints, in
`EligibleIsEstablished`. For other pointers they are false, and section 6 says
why. The pointers of an impact are ASCII always.

Model-checked only: liveness (`AskReturns`, `QuestionSettled`), because the
prover does not treat fairness and ENABLED. Every safety property of the passing
runs is a theorem.

## 5. What is not modelled

- The HTTP exchange of the transport: request bodies, redirects, proxies of
  `urllib`, the shape of the answer. How it ends is modelled. This is why the
  transport is "partly" modelled.
- `argparse`, which is a library, and the package exports, which keep no state.
- The shapes of fields (non-empty strings, closed field sets, explicit usage
  decisions) where no property is about them: a record of the model has its
  fields. An argument of the wrong shape that raises another exception than the
  one promised (`missing_observation.py:89`) is outside for the same reason. The
  authority fields are constants that every verifier compares and are left out.
- JSON decoding: a document is whether it parses and the tree it parses to.
  Nesting so deep that `json.loads` raises `RecursionError` is outside.
- Base64 and byte counts, which are functions of the bytes.
- The contents of the default index; the runs use indexes of the same shape.
- Expiry of evidence: a decision record carries no moment, so an item is
  evidence after its claim's `valid_until` as well.

## 6. Where the code disagrees with what is written of it

1. `frozen_index.py:229` (run `supersession`): references are compared as text,
   so version 10 of a check cannot supersede version 2 or 9, though that version
   is in the index.
2. `mirrored_review.py:77` (run `malformed_review`): a list or an object as
   assessment raises `TypeError` and not `MirroredReviewError`; it passes every
   handler and no interception is recorded.
3. `turn_boundary.py:170` (run `discontinuous_turns`): discontinuous turns verify,
   where `frozen_index.py:400` says that the check rejects them.
4. `checks.py:124` (run `array_index`): an array token of digits that are not
   ASCII selects an element, where the procedure is declared as "resolve RFC
   6901 pointer". With ASCII pointers `AsciiPointersFollowRfc6901` holds.

Some limits are not disagreements but worth knowing, and the properties show
where they stop. An interrupt inside the commit of the first exchange, after
the link and before the count, leaves a session that refuses every question
(sequence 0 with a predecessor): `Continuable` is not a property of
`chat_interrupted` and its theorem assumes that no call is interrupted, and
`PromptOnWholeSession` shows that the terminal never goes on with such a
session. A reply that cannot be encoded makes an unreviewed session refuse every
later request: of such sessions `Continuable` only says that this reply is the
last the history gets. Of two extensions of one index version the package
chooses neither; `ExtensionAppendsOne` speaks of each branch for itself. An array
index that `int()` cannot read leaves the gate as a `ValueError` after the model was
called. `output_gate.py:118` and `135` raise `OutputGateError` after the
model was invoked, with whatever that cost; the model has these outcomes, while
line 23 of the file describes the exception as one raised before. An extension of the index
between a possibility assessment and the gate makes the gate refuse the
assessment; `ExtensionNeverReverses` says that making it again decides nothing
else.

## 7. Plan

Done, in this order: the turn boundary, the review, the session and its proofs;
the abstract conversation, the refinement and its proof; the terminal and the
program around it, with their proofs; stored records and their proofs; claims,
checks, pointers and the ledger with theirs; the index and the gate with theirs;
evidence, the four decisions and their records with theirs.

Left:

1. What `HeldRelease` promises, stated as theorems of the abstract conversation
   itself, so that the refinement carries them over.
2. The hazards that no property covers (`PROJECT.json`): most are limits of what
   a verifier can see (a chain cut after any receipt, evidence that expired),
   and would be properties of a host that keeps more than this package does.
