----------------------------- MODULE Isolation ------------------------------
(***************************************************************************)
(* security/sandbox.py: one call of run_isolated, which a page render is.  *)
(* The parent polls a pipe with a time limit, receives one message, and    *)
(* stops the child whatever happened. The child may compute for ever, and  *)
(* the kernel may kill it at any instruction, also between the two writes  *)
(* a long message takes.                                                   *)
(***************************************************************************)
EXTENDS Naturals

CONSTANT MaxCalls       \* bound on the calls made

VARIABLES
    parent,     \* where run_isolated is
    answer,     \* what it returned or raised
    child,      \* where the process is
    pipe,       \* what is in the pipe: "empty", "part" or "whole"
    message,    \* what the child sent or is sending: "ok" or "error"
    stopped,    \* the child was sent SIGTERM
    calls

isoVars == <<parent, answer, child, pipe, message, stopped, calls>>

IsoInit ==
    /\ parent = "idle" /\ answer = "none"
    /\ child = "none" /\ pipe = "empty" /\ message = "none"
    /\ stopped = FALSE /\ calls = 0

Alive == child \in {"running", "sending", "sent"}

\* The write end is closed when the child is gone: the parent closed its own.
EndOfFile == ~Alive

-----------------------------------------------------------------------------
Start ==
    /\ parent = "idle" /\ ~Alive
    /\ calls < MaxCalls
    /\ parent' = "polling" /\ answer' = "none"
    /\ child' = "running" /\ pipe' = "empty" /\ message' = "none"
    /\ stopped' = FALSE /\ calls' = calls + 1

\* Faulty: received from without a poll before it.
ReceiveAtOnce ==
    /\ parent = "polling"
    /\ parent' = "receiving"
    /\ UNCHANGED <<answer, child, pipe, message, stopped, calls>>

\* poll(timeout) returns when there is something to read, an end of file too.
Readable ==
    /\ parent = "polling"
    /\ pipe # "empty" \/ EndOfFile
    /\ parent' = "receiving"
    /\ UNCHANGED <<answer, child, pipe, message, stopped, calls>>

\* Or when the time is over.
TimeOut ==
    /\ parent = "polling"
    /\ pipe = "empty" /\ ~EndOfFile
    /\ parent' = "stopping" /\ answer' = "SandboxError"
    /\ UNCHANGED <<child, pipe, message, stopped, calls>>

\* recv: the whole message, or an end of file, which is an EOFError before the
\* first byte and an OSError after it.
Receive ==
    /\ parent = "receiving"
    /\ pipe = "whole" \/ EndOfFile
    /\ parent' = "stopping"
    /\ answer' = CASE pipe = "whole" /\ message = "ok" -> "value"
                   [] pipe = "whole" /\ message = "error" -> "SandboxError"
                   [] pipe = "empty" -> "SandboxError"
                   [] pipe = "part" -> "OSError"
    /\ UNCHANGED <<child, pipe, message, stopped, calls>>

\* Faulty: the pipe is closed and the child is left alone.
CloseOnly ==
    /\ parent = "stopping"
    /\ UNCHANGED stopped
    /\ parent' = "joining"
    /\ UNCHANGED <<answer, child, pipe, message, calls>>

\* The finally clause: close the pipe and terminate a child that is alive.
Stop ==
    /\ parent = "stopping"
    /\ stopped' = Alive
    /\ parent' = "joining"
    /\ UNCHANGED <<answer, child, pipe, message, calls>>

\* join(5) waits for the child, and not longer than that.
Join ==
    /\ parent = "joining"
    /\ parent' = "idle"
    /\ UNCHANGED <<answer, child, pipe, message, stopped, calls>>

ParentStep == Readable \/ TimeOut \/ Receive \/ Stop \/ Join

-----------------------------------------------------------------------------
\* The function returns or raises: the child sends one message about it. A
\* child the parent has hung up on dies of the broken pipe.
Finish ==
    /\ child = "running"
    /\ \E m \in {"ok", "error"} : message' = m
    /\ child' = "sending"
    /\ UNCHANGED <<parent, answer, pipe, stopped, calls>>

\* A short message is one write, a long one two.
Send ==
    /\ child = "sending"
    /\ IF parent \in {"polling", "receiving"}
       THEN \/ pipe' = "whole" /\ child' = "sent"
            \/ pipe = "empty" /\ pipe' = "part" /\ UNCHANGED child
       ELSE child' = "gone" /\ UNCHANGED pipe
    /\ UNCHANGED <<parent, answer, message, stopped, calls>>

Exit ==
    /\ child = "sent"
    /\ child' = "gone"
    /\ UNCHANGED <<parent, answer, pipe, message, stopped, calls>>

\* Out of memory, over its CPU time, or crashed.
Killed ==
    /\ Alive
    /\ child' = "gone"
    /\ UNCHANGED <<parent, answer, pipe, message, stopped, calls>>

\* SIGTERM takes effect.
Terminated ==
    /\ Alive /\ stopped
    /\ child' = "gone"
    /\ UNCHANGED <<parent, answer, pipe, message, stopped, calls>>

ChildStep == Finish \/ Send \/ Exit \/ Killed \/ Terminated

\* The parent is a thread of the server and its poll has a time limit; the
\* kernel lets a child that writes go on and delivers SIGTERM. Nothing makes
\* the function itself return.
IsoFairness == WF_isoVars(ParentStep) /\ WF_isoVars(Send) /\ WF_isoVars(Terminated) /\ WF_isoVars(Exit)

-----------------------------------------------------------------------------
\* Every call comes back, whatever the child does (security/sandbox.py: "loops
\* without end ... takes down the child and returns a refusal").
CallsAreAnswered == parent # "idle" ~> parent = "idle" /\ answer # "none"

\* No child stays behind a call that came back.
ChildrenEnd == parent = "idle" ~> ~Alive

\* A value is the one a child sent whole, and nothing else is taken for one.
ValuesWereSent == answer = "value" => pipe = "whole" /\ message = "ok"

\* "Run func in a child process, or raise SandboxError saying why not"
\* (security/sandbox.py:90), which the page render relies on.
OnlySandboxErrors == answer \in {"none", "value", "SandboxError"}

=============================================================================
