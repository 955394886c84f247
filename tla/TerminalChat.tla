---------------------------- MODULE TerminalChat ----------------------------
(***************************************************************************)
(* free_valid_ai/chat.py, run_chat(): the terminal loop around one         *)
(* ChatSession.  It reads a line, asks the session, and shows the answer   *)
(* or the error.  The first error ends the program; so does any exception  *)
(* the loop does not name, as a traceback.  A blank line only prompts      *)
(* again and is no step.                                                   *)
(***************************************************************************)
EXTENDS ChatSession

VARIABLES
    loop,    \* "prompt", "asking" or "ended"
    screen,  \* the AI> and ERROR: lines shown so far
    code     \* the exit code, "TRACEBACK", or "NONE" while the loop runs

terminal == <<loop, screen, code>>
allVars == <<vars, terminal>>

Line(kind, content) == [kind |-> kind, content |-> content]

\* What the loop's `except (LocalModelError, ValueError)` names.
Reported == {"LocalModelError", "ValueError"}

-----------------------------------------------------------------------------
TerminalInit ==
    /\ Init
    /\ loop = "prompt"
    /\ screen = <<>>
    /\ code = "NONE"

End(exitCode) == loop' = "ended" /\ code' = exitCode

\* A line that is neither blank nor a command reaches ask().
ReadLine(text) ==
    /\ loop = "prompt"
    /\ text \notin Blank
    /\ Ask(text) \/ AskRefused(text)
    /\ loop' = "asking"
    /\ UNCHANGED <<screen, code>>

\* /exit, /quit, end of input, or KeyboardInterrupt at the prompt.
Leave ==
    /\ loop = "prompt"
    /\ End("0")
    /\ UNCHANGED <<vars, screen>>

\* The session works on the question.
Work ==
    /\ loop = "asking"
    /\ Answered \/ Commit \/ Interrupt
    /\ UNCHANGED terminal

\* Mutated form of ShowAnswer: the held draft instead of the answer.
ShowDraft ==
    /\ loop = "asking" /\ pc = "idle" /\ raised = "NOTHING"
    /\ draft \notin Unencodable
    /\ screen' = Append(screen, Line("AI", draft))
    /\ loop' = "prompt"
    /\ UNCHANGED <<vars, code>>

ShowAnswer ==
    /\ loop = "asking" /\ pc = "idle" /\ raised = "NOTHING"
    /\ answer \notin Unencodable
    /\ screen' = Append(screen, Line("AI", answer))
    /\ loop' = "prompt"
    /\ UNCHANGED <<vars, code>>

ReportError(exception) ==
    /\ screen' = Append(screen, Line("ERROR", exception))
    /\ End("1")
    /\ UNCHANGED vars

\* print() cannot encode the answer; that ValueError is reported too.
AnswerUnprintable ==
    /\ loop = "asking" /\ pc = "idle" /\ raised = "NOTHING"
    /\ answer \in Unencodable
    /\ ReportError("ValueError")

\* Mutated form of ShowError: the user is prompted again after the error.
ShowErrorAndPrompt ==
    /\ loop = "asking" /\ pc = "idle"
    /\ raised \in Reported
    /\ screen' = Append(screen, Line("ERROR", raised))
    /\ loop' = "prompt"
    /\ UNCHANGED <<vars, code>>

\* Mutated form of ShowError: a transport error is answered by asking again.
ShowErrorOrAskAgain ==
    /\ loop = "asking" /\ pc = "idle"
    /\ \/ raised = "ValueError" /\ ReportError(raised)
       \/ /\ raised = "LocalModelError"
          /\ Ask(received.body.content)
          /\ UNCHANGED terminal

ShowError ==
    /\ loop = "asking" /\ pc = "idle"
    /\ raised \in Reported
    /\ ReportError(raised)

\* Mutated form of Crash: the loop also survives KeyboardInterrupt in ask().
CrashPromptsAgain ==
    /\ loop = "asking" /\ pc = "idle"
    /\ raised \notin Reported \cup {"NOTHING"} \/ Interruptible
    /\ loop' = "prompt"
    /\ UNCHANGED <<vars, screen, code>>

\* An exception run_chat does not name, or KeyboardInterrupt while printing.
Crash ==
    /\ loop = "asking" /\ pc = "idle"
    /\ raised \notin Reported \cup {"NOTHING"} \/ Interruptible
    /\ End("TRACEBACK")
    /\ UNCHANGED <<vars, screen>>

Present == ShowAnswer \/ AnswerUnprintable \/ ShowError \/ Crash

TerminalNext ==
    \/ \E text \in Texts : ReadLine(text)
    \/ Leave
    \/ Work
    \/ Present

-----------------------------------------------------------------------------
(* Properties.                                                             *)

\* The lines of the screen that show an answer.
AnswerLines == {i \in DOMAIN screen : screen[i].kind = "AI"}

\* A line that shows an answer shows the answer of the history with its number;
\* none is missing but the last one committed, and none at all when the user is
\* prompted again.
ShownMatchesHistory ==
    LET answers == 1..(Len(messages) \div 2)
    IN  /\ AnswerLines \subseteq answers
        /\ \A i \in AnswerLines : messages[2 * i] = Message("assistant", screen[i].content)
        /\ \A i \in answers \ AnswerLines : 2 * i = Len(messages) /\ loop # "prompt"

\* An interrupted commit never outlives the program: whenever the user is
\* prompted the history, the count and the chain agree, and the session takes
\* another question.
PromptOnWholeSession ==
    loop = "prompt" => pc = "idle" /\ ChainMatchesHistory /\ Continuable

\* A line shown as an answer in a reviewed conversation is what the audited
\* interception of the last received turn released.
ShownWasReleased ==
    [][LET line == screen'[Len(screen')]
       IN  mirrored_review /\ screen' # screen /\ line.kind = "AI" =>
             /\ last_turn_audit.received = received
             /\ received.hash = previous_received_turn_hash
             /\ line.content = last_turn_audit.interception.body.released]_allVars

\* The program ends with code 1 exactly when the last line it showed is an
\* error, and that error was the only one.
ErrorEndsConversation ==
    /\ code = "1" <=> screen # <<>> /\ screen[Len(screen)].kind = "ERROR"
    /\ \A i \in 1..(Len(screen) - 1) : screen[i].kind = "AI"

\* A question that was read is answered, reported or ends the program.
QuestionSettled == loop = "asking" ~> loop # "asking"
=============================================================================
