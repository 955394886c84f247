----------------------------- MODULE CommandLine -----------------------------
(***************************************************************************)
(* free_valid_ai/cli.py, main(): from the command line to the terminal     *)
(* loop.  The transport and the runtime envelope are made one after the    *)
(* other, each from the arguments; the session verifies the envelope for   *)
(* its model; then run_chat has the program.  What any of them raises ends *)
(* the program with a traceback.                                           *)
(* Arguments are records [model, endpoint, num_gpu, mirror_review].        *)
(***************************************************************************)
EXTENDS TerminalChat, RuntimeEnvelope

CONSTANT Arguments  \* what argparse may return for the chat command

\* add_argument("--num-gpu", type=int, ...)
ASSUME ArgumentAssumption == \A passed \in Arguments : passed.num_gpu \in Int

VARIABLES
    arguments,
    stage,            \* "parsed", "connected", "described", "chat" or "refused"
    transport,
    runtime_envelope

main == <<arguments, stage, transport, runtime_envelope>>
programVars == <<allVars, main>>

-----------------------------------------------------------------------------
MainInit ==
    /\ TerminalInit
    /\ arguments \in Arguments
    /\ mirrored_review = arguments.mirror_review
    /\ stage = "parsed"
    /\ transport = None
    /\ runtime_envelope = None

\* Whether the next constructor returns; the last is ChatSession.__post_init__.
Returns ==
    CASE stage = "parsed" -> MayTransport(arguments.endpoint, arguments.num_gpu)
      [] stage = "connected" -> MayBuild(arguments.model, arguments.endpoint,
                                        arguments.num_gpu)
      [] stage = "described" -> VerifyEnvelope(runtime_envelope, arguments.model)

MakeTransport ==
    /\ stage = "parsed" /\ Returns
    /\ transport' = OllamaTransport(arguments.endpoint, arguments.num_gpu)
    /\ stage' = "connected"
    /\ UNCHANGED <<allVars, arguments, runtime_envelope>>

MakeEnvelope ==
    /\ stage = "connected" /\ Returns
    /\ runtime_envelope' = Built(arguments.model, arguments.endpoint, arguments.num_gpu)
    /\ stage' = "described"
    /\ UNCHANGED <<allVars, arguments, transport>>

StartSession ==
    /\ stage = "described" /\ Returns
    /\ stage' = "chat"
    /\ UNCHANGED <<allVars, arguments, transport, runtime_envelope>>

\* The exception leaves main().
Refused ==
    /\ stage \in {"parsed", "connected", "described"} /\ ~Returns
    /\ stage' = "refused"
    /\ End("TRACEBACK")
    /\ UNCHANGED <<vars, screen, arguments, transport, runtime_envelope>>

\* Nobody reads the port before the first request, which then raises
\* http.client.InvalidURL.
Converse ==
    /\ stage = "chat"
    /\ TerminalNext
    /\ (pc = "draft" /\ ~transport.endpoint.port_readable) => pc' = "idle"
    /\ UNCHANGED main

MainNext ==
    \/ MakeTransport \/ MakeEnvelope \/ StartSession \/ Refused
    \/ Converse

MainSpec == MainInit /\ [][MainNext]_programVars

\* The fairness of ChatSession's FairSpec, with the printing: the carrier
\* answers or times out and the program goes on; only the user may wait.
FairMainSpec ==
    /\ MainSpec
    /\ WF_programVars(Converse /\ loop = "asking" /\ Answered)
    /\ WF_programVars(Converse /\ loop = "asking" /\ Commit)
    /\ WF_programVars(Converse /\ Present)

-----------------------------------------------------------------------------
(* Properties.                                                             *)

\* What the model is told of its carrier, its endpoint and its execution is what
\* the session and the transport, made apart from the same arguments, really use.
EnvelopeSpeaksOfTransport ==
    stage = "chat" =>
        /\ runtime_envelope.body.model_carrier = arguments.model
        /\ runtime_envelope.body.transport_endpoint = transport.endpoint
        /\ transport.endpoint.hostname \in LOOPBACK
        /\ runtime_envelope.body.execution_selection.cpu_only <=> transport.num_gpu = 0
        /\ runtime_envelope.body.execution_selection.gpu_layers = transport.num_gpu

\* What a user may ask for: a model by its name, the chat of an Ollama on this
\* machine, and some layers or none on the GPU, in words that can be sent.
Suitable(passed) ==
    /\ ~passed.model.blank
    /\ passed.endpoint.scheme = "http" /\ passed.endpoint.hostname \in LOOPBACK
    /\ passed.endpoint.path = "/api/chat"
    /\ ~passed.endpoint.credentials /\ passed.endpoint.suffix = ""
    /\ passed.num_gpu \in Nat
    /\ passed.model.encodable /\ passed.endpoint.encodable

\* The program refuses its arguments exactly when they are not suitable, silently,
\* and converses exactly when they are.  The three constructors check them apart:
\* none lets through what another leaves to it, and the verifier of the envelope
\* refuses nothing that its builder made.
RefusedForItsArguments ==
    /\ stage = "refused" => ~Suitable(arguments)
    /\ stage = "chat" => Suitable(arguments)
    /\ stage # "chat" => screen = <<>> /\ messages = <<>> /\ code \in {"NONE", "TRACEBACK"}
=============================================================================
