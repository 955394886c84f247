--------------------------- MODULE MCCommandLine ---------------------------
(* CommandLine with the raw reviews of MCChatSession.  One argument is off *)
(* the default at a time.                                                  *)
EXTENDS CommandLine, MCChatSession

Llama == [name |-> "llama3.2", blank |-> FALSE, encodable |-> TRUE]
Local == [scheme |-> "http", hostname |-> "127.0.0.1", port_readable |-> TRUE,
          credentials |-> FALSE, path |-> "/api/chat", suffix |-> "", encodable |-> TRUE]
Parsed(model, endpoint, num_gpu, mirror_review) ==
    [model |-> model, endpoint |-> endpoint, num_gpu |-> num_gpu,
     mirror_review |-> mirror_review]

MCArguments ==
    {Parsed(Llama, Local, num_gpu, mirror_review) :
        num_gpu \in {-1, 0, 1}, mirror_review \in BOOLEAN}
    \cup {Parsed(model, Local, 0, TRUE) :
        model \in {[Llama EXCEPT !.blank = TRUE], [Llama EXCEPT !.encodable = FALSE]}}
    \cup {Parsed(Llama, endpoint, 0, TRUE) :
        endpoint \in {[Local EXCEPT !.scheme = "https"], [Local EXCEPT !.hostname = "example.org"],
                      [Local EXCEPT !.credentials = TRUE], [Local EXCEPT !.path = "/"],
                      [Local EXCEPT !.suffix = "?q"], [Local EXCEPT !.port_readable = FALSE],
                      [Local EXCEPT !.port_readable = FALSE, !.encodable = FALSE]}}
=============================================================================
