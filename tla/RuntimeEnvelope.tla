--------------------------- MODULE RuntimeEnvelope ---------------------------
(***************************************************************************)
(* free_valid_ai/runtime_envelope.py: the facts the program puts before    *)
(* every request to its model, and OllamaTransport of local_model.py,      *)
(* which they are about.                                                   *)
(*   model     [name, blank, encodable]                                    *)
(*   endpoint  [scheme, hostname, port_readable, credentials, path,        *)
(*              suffix, encodable]                                         *)
(* suffix stands for the query and the fragment, or is ""; hostname is ""  *)
(* in an endpoint urlsplit() refuses; port_readable says whether           *)
(* http.client can read the port.  encodable is false of a text with a     *)
(* lone surrogate, which is how Python hands on an argument that is not    *)
(* UTF-8; what urlsplit() does not compare may hold one: the port.         *)
(***************************************************************************)
EXTENDS Integers, SemanticContract

LOOPBACK == {"127.0.0.1", "localhost", "::1"}

\* Mutated form of MayTransport: credentials are let through.
MayTransportWithCredentials(endpoint, num_gpu) ==
    /\ endpoint.scheme = "http" /\ endpoint.hostname \in LOOPBACK
    /\ endpoint.path = "/api/chat" /\ endpoint.suffix = ""
    /\ num_gpu >= 0

\* OllamaTransport.__post_init__
MayTransport(endpoint, num_gpu) ==
    /\ endpoint.scheme = "http" /\ endpoint.hostname \in LOOPBACK
    /\ ~endpoint.credentials
    /\ endpoint.path = "/api/chat" /\ endpoint.suffix = ""
    /\ num_gpu >= 0

OllamaTransport(endpoint, num_gpu) == [endpoint |-> endpoint, num_gpu |-> num_gpu]

-----------------------------------------------------------------------------
\* "CPU_ONLY", or "GPU_LAYERS_" and the number of layers.
Execution(num_gpu) == [cpu_only |-> num_gpu = 0, gpu_layers |-> num_gpu]

\* The fields with a fixed value; the instructions and the remaining claims of
\* authority are as fixed as these.
Fixed ==
    [type |-> "runtime_envelope", version |-> 1,
     semantic_contract_hash |-> DEFAULT_SEMANTIC_CONTRACT.hash,
     assistant_identity |-> "Simulator", transport |-> "LOCAL_OLLAMA",
     transport_scope |-> "LOOPBACK_ONLY", assistant_execution_authority |-> "NONE"]

\* RuntimeEnvelopeError for a blank model, and for a model or an endpoint that
\* _canonical cannot encode.
MayBuild(model, endpoint, num_gpu) ==
    /\ ~model.blank
    /\ num_gpu >= 0
    /\ model.encodable /\ endpoint.encodable
    /\ VerifySemanticContract(DEFAULT_SEMANTIC_CONTRACT)

\* Mutated form of Built: num_gpu is not handed on and has its default.
BuiltByDefault(model, endpoint, num_gpu) ==
    Seal([fixed |-> Fixed, model_carrier |-> model, transport_endpoint |-> endpoint,
          execution_selection |-> Execution(0)])

Built(model, endpoint, num_gpu) ==
    Seal([fixed |-> Fixed, model_carrier |-> model, transport_endpoint |-> endpoint,
          execution_selection |-> Execution(num_gpu)])

\* verify_runtime_envelope
VerifyEnvelope(envelope, expected_model) ==
    /\ ~expected_model.blank
    /\ Intact(envelope)
    /\ VerifySemanticContract(DEFAULT_SEMANTIC_CONTRACT)
    /\ envelope.body.fixed = Fixed
    /\ envelope.body.model_carrier = expected_model
    /\ \/ envelope.body.execution_selection.cpu_only
       \/ envelope.body.execution_selection.gpu_layers > 0
=============================================================================
