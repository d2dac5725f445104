----------------------------- MODULE CodexUsage -----------------------------
(***************************************************************************)
(* The Codex half of arch-bootc-waybar-ai-usage.py: fetch_codex_usage()    *)
(* asks `codex app-server', a child process that speaks JSON-RPC over its  *)
(* pipes, for the account and then, in a second child, for the rate limits.*)
(* Waybar runs the module again and again, and only when the last run has  *)
(* ended.  Names that the Claude half has too begin with Codex here.       *)
(***************************************************************************)
EXTENDS Naturals, Sequences

CONSTANTS
    MaxPipe     \* bound: lines in the server's output pipe

ASSUME CodexAssumption ==
    MaxPipe \in Nat \ {0}

\* The messages of an exchange, and their ids: initialize (0), initialized
\* (none), and account/read (1) or account/rateLimits/read (2).
LastMessage == 3

\* (mutant) the notification takes the next id
MutIdOf(message, call) == {message}

IdOf(message, request) == CASE message = 1 -> {0}
                            [] message = 2 -> {}
                            [] message = 3 -> {request}

\* Replies are useful or not: an account of type chatgpt, limits with a
\* bucket.  Other lines are notifications or not JSON, or not even text.
Reply == [id : 0 .. 2, useful : BOOLEAN]
Noise == [id : {3}, text : BOOLEAN]
IsReply(line) == line.id # 3

VARIABLES
    codexPc,    \* where fetch_codex_usage() is
    request,    \* 1: the account, 2: the rate limits
    server,     \* the child process of this exchange
    sent,       \* messages sent to it
    todo,       \* ids of requests it has not answered
    pipe,       \* lines it has written
    late,       \* the deadline has passed
    responses,  \* the replies taken
    bar         \* what the bar shows

serverVars == <<server, todo, pipe>>
codexVars == <<codexPc, request, serverVars, sent, late, responses, bar>>

CodexTypeOK ==
    /\ codexPc \in {"idle", "start", "send", "check", "readline", "end",
                    "raise", "done"}
    /\ request \in {1, 2}
    /\ server \in {"none", "up", "hung", "exited"}
    /\ sent \in 0 .. LastMessage
    /\ todo \subseteq 0 .. 2
    /\ pipe \in Seq(Reply \cup Noise)
    /\ Len(pipe) <= MaxPipe
    /\ late \in BOOLEAN
    /\ responses \subseteq Reply
    /\ bar \in {"nothing", "limits", "unavailable", "error"}

CodexInit ==
    /\ codexPc = "idle"
    /\ request = 1
    /\ server = "none"
    /\ sent = 0
    /\ todo = {}
    /\ pipe = <<>>
    /\ late = FALSE
    /\ responses = {}
    /\ bar = "nothing"

-----------------------------------------------------------------------------
\* Waybar runs the module.
PollCodex ==
    /\ codexPc = "idle"
    /\ codexPc' = "start"
    /\ request' = 1
    /\ UNCHANGED <<serverVars, sent, late, responses, bar>>

\* codex is not installed: both exchanges, and so the run, give None.
NoCodex ==
    /\ codexPc = "start"
    /\ codexPc' = "done"
    /\ bar' = "unavailable"
    /\ UNCHANGED <<request, serverVars, sent, late, responses>>

Popen ==
    /\ codexPc = "start"
    /\ server' = "up"
    /\ todo' = {}
    /\ pipe' = <<>>
    /\ sent' = 0
    /\ late' = FALSE
    /\ responses' = {}
    /\ codexPc' = "send"
    /\ UNCHANGED <<request, bar>>

Send ==
    /\ codexPc = "send"
    /\ server # "exited"
    /\ sent' = sent + 1
    /\ todo' = todo \cup IdOf(sent + 1, request)
    /\ codexPc' = IF sent + 1 = LastMessage THEN "check" ELSE "send"
    /\ UNCHANGED <<request, server, pipe, late, responses, bar>>

\* Nobody reads the pipe any more: BrokenPipeError.
SendRaises ==
    /\ codexPc = "send"
    /\ server = "exited"
    /\ codexPc' = "raise"
    /\ UNCHANGED <<request, serverVars, sent, late, responses, bar>>

\* (mutant) the deadline is not looked at
MutWantsMore == responses = {}

WantsMore == responses = {} /\ ~late

Check ==
    /\ codexPc = "check"
    /\ codexPc' = IF WantsMore THEN "readline" ELSE "end"
    /\ UNCHANGED <<request, serverVars, sent, late, responses, bar>>

\* (mutant) every reply is taken
MutIsPending(line) == IsReply(line)

IsPending(line) == IsReply(line) /\ line.id = request

\* readline() returns once there is a line.
ReadLine ==
    /\ codexPc = "readline"
    /\ pipe # <<>>
    /\ pipe' = Tail(pipe)
    /\ \/ /\ IsPending(Head(pipe))
          /\ responses' = {Head(pipe)}
          /\ codexPc' = "check"
       \/ /\ ~IsPending(Head(pipe))
          /\ codexPc' = IF IsReply(Head(pipe)) \/ Head(pipe).text
                        THEN "check" ELSE "raise"
          /\ UNCHANGED responses
    /\ UNCHANGED <<request, server, todo, sent, late, bar>>

ReadEof ==
    /\ codexPc = "readline"
    /\ pipe = <<>>
    /\ server = "exited"
    /\ codexPc' = "end"
    /\ UNCHANGED <<request, serverVars, sent, late, responses, bar>>

Deadline ==
    /\ codexPc \in {"send", "check", "readline"}
    /\ sent >= 2
    /\ ~late
    /\ late' = TRUE
    /\ UNCHANGED <<codexPc, request, serverVars, sent, responses, bar>>

\* The finally clause: the server is told to end on every way out.
\* (mutant) it stands at the end of the try block
MutTerminated == IF codexPc = "end" THEN "none" ELSE server

Terminated == "none"

Useful == \E r \in responses : r.useful

\* The exchange is over; a useful account leads to the second one.
EndExchange ==
    /\ codexPc = "end"
    /\ server' = Terminated
    /\ \/ /\ Useful /\ request = 1
          /\ request' = 2
          /\ codexPc' = "start"
          /\ UNCHANGED bar
       \/ /\ ~(Useful /\ request = 1)
          /\ codexPc' = "done"
          /\ bar' = IF Useful THEN "limits" ELSE "unavailable"
          /\ UNCHANGED request
    /\ UNCHANGED <<todo, pipe, sent, late, responses>>

\* An exception leaves main(); the module prints nothing.
Raise ==
    /\ codexPc = "raise"
    /\ server' = Terminated
    /\ codexPc' = "done"
    /\ bar' = "error"
    /\ UNCHANGED <<request, todo, pipe, sent, late, responses>>

Exit ==
    /\ codexPc = "done"
    /\ codexPc' = "idle"
    /\ UNCHANGED <<request, serverVars, sent, late, responses, bar>>

-----------------------------------------------------------------------------
(***************************************************************************)
(* The server: it answers in any order, writes other lines, exits, hangs.  *)
(***************************************************************************)
Write(line) ==
    /\ server = "up"
    /\ Len(pipe) < MaxPipe
    /\ pipe' = Append(pipe, line)

Answer ==
    /\ \E id \in todo, useful \in BOOLEAN :
           /\ Write([id |-> id, useful |-> useful])
           /\ todo' = todo \ {id}
    /\ UNCHANGED <<codexPc, request, server, sent, late, responses, bar>>

Chatter ==
    /\ \E text \in BOOLEAN : Write([id |-> 3, text |-> text])
    /\ UNCHANGED <<codexPc, request, server, todo, sent, late, responses, bar>>

Exits ==
    /\ server = "up"
    /\ server' = "exited"
    /\ UNCHANGED <<codexPc, request, todo, pipe, sent, late, responses, bar>>

Hangs ==
    /\ server = "up"
    /\ server' = "hung"
    /\ UNCHANGED <<codexPc, request, todo, pipe, sent, late, responses, bar>>

Fetch == Popen \/ NoCodex \/ Send \/ SendRaises \/ Check \/ ReadLine \/ ReadEof
         \/ EndExchange \/ Raise \/ Exit

CodexNext ==
    PollCodex \/ Fetch \/ Deadline \/ Answer \/ Chatter \/ Exits \/ Hangs

\* The module goes on unless it waits for a line, Waybar runs it again, time
\* passes, and a server that neither hangs nor exits writes again.
CodexSpec ==
    /\ CodexInit
    /\ [][CodexNext]_codexVars
    /\ WF_codexVars(PollCodex)
    /\ WF_codexVars(Fetch)
    /\ WF_codexVars(Deadline)
    /\ WF_codexVars(Answer \/ Chatter)

-----------------------------------------------------------------------------
\* What is made of an exchange is the server's reply to its own request, not
\* the one to initialize, which comes first (lines 190-201, 218).
ReplyIsOwn ==
    codexPc = "end" => \A r \in responses : r.id = request

\* No app-server is left behind, whichever way the exchange ends ("finally:",
\* lines 225-229): Waybar starts two of them every minute.
NoServerLeft == codexPc \in {"idle", "start", "done"} => server = "none"

\* Waybar can run the module again, unless a server hangs: neither late nor
\* unwanted replies, noise or an exit of the server hold it up (lines 205-224).
Refreshes == []<>(codexPc = "idle") \/ <>[](server = "hung")

\* A run lasts "timeout_s: float = 8.0" (line 169) per exchange, even if the
\* server never answers.
EndsInTime == late ~> codexPc = "idle"
=============================================================================
