------------------------------ MODULE PluginCall ------------------------------
(***************************************************************************)
(* The single-call primitive `run_plugin_call`, through                    *)
(* `run_plugin_request_line`, of crates/polyref-checker-spi/src/host.rs:   *)
(* one request, one plugin process, one answer, and a deadline.            *)
(*                                                                         *)
(* Host, reader thread and plugin meet at two pipes of bounded capacity.   *)
(* Bytes are counted in units; what they say is left out, as is stderr,    *)
(* whose reader thread works like stdout's.  A process the plugin starts   *)
(* inherits its stdout and may outlive it: the heir.                       *)
(***************************************************************************)
EXTENDS Naturals

CONSTANTS
  PipeCapacity,  \* units a pipe holds before its writer blocks
  RequestUnits,  \* length of the encoded request
  MaxPayload,    \* limits.max_payload_bytes
  MaxOutput,     \* bound: units the plugin writes
  Streams,       \* the plugin answers each unit before it reads the next
  Liberties      \* what else it may do: "close stdin", "close stdout", "fork"

ASSUME CallAssumption ==
  /\ PipeCapacity \in Nat \ {0}
  /\ RequestUnits \in Nat
  /\ MaxPayload \in Nat
  /\ MaxOutput \in Nat
  /\ Streams \in BOOLEAN

VARIABLES
  pc,        \* the host thread in run_plugin_request_line
  unsent,    \* units of the request not yet written
  stdin,     \* units in the stdin pipe
  listening, \* the plugin's end of stdin is open
  proc,      \* the child: "running", or how it ended
  consumed,  \* units the plugin has read (history)
  written,   \* units it and its heir have written
  speaking,  \* the plugin's end of stdout is open
  heir,      \* so is its heir's
  stdout,    \* units in the stdout pipe
  reader,    \* the stdout reader thread
  buffer,    \* units it has read
  result     \* what the call returned

host == <<pc, unsent, result>>
process == <<listening, proc, consumed, written, speaking, heir>>
readerVars == <<reader, buffer>>
vars == <<host, stdin, process, stdout, readerVars>>

Ended == {"ok", "failed", "killed"}
Outcomes == {"none", "answer", "CheckerTimeout", "PluginFailure"}

\* Seeded fault: the reader stops at the limit instead of one past it.
StdoutCapTight == MaxPayload

\* read_capped's cap, one past the limit so that an overrun can be told.
StdoutCap == MaxPayload + 1

-----------------------------------------------------------------------------
(* The host thread.                                                        *)

Finish(kind) == pc' = "done" /\ result' = kind

\* stdin.write_all: blocks while the pipe is full.  The readers are not
\* running yet and the clock has not started.
WriteUnit ==
  /\ pc = "write"
  /\ unsent > 0
  /\ proc = "running"
  /\ listening
  /\ stdin < PipeCapacity
  /\ unsent' = unsent - 1
  /\ stdin' = stdin + 1
  /\ UNCHANGED <<pc, result, process, stdout, readerVars>>

\* A broken pipe ends the call at once; the child is neither killed nor
\* waited for.
BrokenPipe ==
  /\ pc = "write"
  /\ unsent > 0
  /\ proc # "running" \/ ~listening
  /\ Finish("PluginFailure")
  /\ UNCHANGED <<unsent, stdin, process, stdout, readerVars>>

\* The request is written: stdin is dropped, the reader and the clock start.
StartReader ==
  /\ pc = "write"
  /\ unsent = 0
  /\ pc' = "poll"
  /\ reader' = "reading"
  /\ UNCHANGED <<unsent, result, stdin, process, stdout, buffer>>

\* try_wait reports the exit status.
SeeExit ==
  /\ pc = "poll"
  /\ proc \in Ended
  /\ pc' = "join"
  /\ UNCHANGED <<unsent, result, stdin, process, stdout, readerVars>>

\* try_wait reports nothing and the deadline has passed.
Expire ==
  /\ pc = "poll"
  /\ proc = "running"
  /\ pc' = "expired"
  /\ UNCHANGED <<unsent, result, stdin, process, stdout, readerVars>>

\* Seeded fault: the deadline is reported without killing the child.
ExpireUnkilled ==
  /\ pc = "expired"
  /\ pc' = "joinExpired"
  /\ UNCHANGED <<unsent, result, stdin, process, stdout, readerVars>>

\* kill and wait; the child may have ended by itself since try_wait.
KillExpired ==
  /\ pc = "expired"
  /\ proc' = IF proc = "running" THEN "killed" ELSE proc
  /\ speaking' = FALSE
  /\ pc' = "joinExpired"
  /\ UNCHANGED <<unsent, result, stdin, listening, consumed, written, heir, stdout,
                 readerVars>>

\* join_reader, then the verdict on exit status and length.
Join ==
  /\ pc \in {"join", "joinExpired"}
  /\ reader = "done"
  /\ Finish(IF pc = "joinExpired" THEN "CheckerTimeout"
            ELSE IF proc # "ok" \/ buffer > MaxPayload THEN "PluginFailure"
            ELSE "answer")
  /\ UNCHANGED <<unsent, stdin, process, stdout, readerVars>>

-----------------------------------------------------------------------------
(* The reader thread: read_capped on stdout.                               *)

ReadUnit ==
  /\ reader = "reading"
  /\ buffer < StdoutCap
  /\ stdout > 0
  /\ stdout' = stdout - 1
  /\ buffer' = buffer + 1
  /\ UNCHANGED <<host, stdin, process, reader>>

\* Seeded fault: a reader at its cap reads no bytes again and again.
StopReadingSpins ==
  /\ reader = "reading"
  /\ buffer >= StdoutCap \/ (stdout = 0 /\ ~speaking /\ ~heir)
  /\ reader' = IF buffer >= StdoutCap THEN "reading" ELSE "done"
  /\ UNCHANGED <<host, stdin, process, stdout, buffer>>

\* End of file, which is when nobody holds the other end any more, or the cap:
\* the thread returns and drops its end of the pipe.
StopReading ==
  /\ reader = "reading"
  /\ buffer >= StdoutCap \/ (stdout = 0 /\ ~speaking /\ ~heir)
  /\ reader' = "done"
  /\ UNCHANGED <<host, stdin, process, stdout, buffer>>

-----------------------------------------------------------------------------
(* The plugin process.                                                     *)

PluginReads ==
  /\ proc = "running"
  /\ listening
  /\ stdin > 0
  /\ Streams => written = consumed
  /\ stdin' = stdin - 1
  /\ consumed' = consumed + 1
  /\ UNCHANGED <<host, listening, proc, written, speaking, heir, stdout, readerVars>>

\* A unit of output, into a pipe that is read.
Output ==
  /\ reader # "done"
  /\ stdout < PipeCapacity
  /\ written < IF Streams THEN consumed ELSE MaxOutput
  /\ written' = written + 1
  /\ stdout' = stdout + 1
  /\ UNCHANGED <<host, stdin, listening, proc, consumed, speaking, heir, readerVars>>

PluginWrites == speaking /\ Output

\* The process ends, and with it its end of the pipe.
PluginEnds(status) ==
  /\ proc = "running"
  /\ proc' = status
  /\ speaking' = FALSE
  /\ UNCHANGED <<host, stdin, listening, consumed, written, heir, stdout, readerVars>>

\* Writing to a pipe nobody reads any more kills it.
PluginBreaks ==
  /\ reader = "done"
  /\ speaking
  /\ written < MaxOutput
  /\ PluginEnds("failed")

\* A streaming plugin ends when it has answered the whole request.
PluginExits ==
  /\ Streams => consumed = RequestUnits /\ written = consumed
  /\ \E status \in {"ok", "failed"} : PluginEnds(status)

PluginClosesStdin ==
  /\ "close stdin" \in Liberties
  /\ proc = "running"
  /\ listening
  /\ listening' = FALSE
  /\ UNCHANGED <<host, stdin, proc, consumed, written, speaking, heir, stdout, readerVars>>

PluginClosesStdout ==
  /\ "close stdout" \in Liberties
  /\ speaking
  /\ speaking' = FALSE
  /\ UNCHANGED <<host, stdin, listening, proc, consumed, written, heir, stdout, readerVars>>

PluginForks ==
  /\ "fork" \in Liberties
  /\ speaking /\ ~heir
  /\ heir' = TRUE
  /\ UNCHANGED <<host, stdin, listening, proc, consumed, written, speaking, stdout, readerVars>>

HeirWrites == heir /\ Output

HeirEnds ==
  /\ heir
  /\ heir' = FALSE
  /\ UNCHANGED <<host, stdin, listening, proc, consumed, written, speaking, stdout, readerVars>>

-----------------------------------------------------------------------------
Init ==
  /\ pc = "write"
  /\ unsent = RequestUnits
  /\ stdin = 0
  /\ listening = TRUE
  /\ proc = "running"
  /\ consumed = 0
  /\ written = 0
  /\ speaking = TRUE
  /\ heir = FALSE
  /\ stdout = 0
  /\ reader = "off"
  /\ buffer = 0
  /\ result = "none"

HostStep ==
  WriteUnit \/ BrokenPipe \/ StartReader \/ SeeExit \/ Expire \/ KillExpired
    \/ Join

ReaderStep == ReadUnit \/ StopReading

PluginStep ==
  PluginReads \/ PluginWrites \/ PluginBreaks \/ PluginExits
    \/ PluginClosesStdin \/ PluginClosesStdout \/ PluginForks

HeirStep == HeirWrites \/ HeirEnds

Returned == pc = "done" /\ UNCHANGED vars

Next == HostStep \/ ReaderStep \/ PluginStep \/ HeirStep \/ Returned

\* The OS runs the host's threads, and the deadline passes.  Nothing obliges
\* a plugin or its heir, except a plugin that streams its answer to read,
\* write and exit.
Fairness ==
  /\ WF_vars(HostStep)
  /\ WF_vars(ReaderStep)
  /\ Streams => WF_vars(PluginReads \/ PluginWrites \/ PluginExits)

Spec == Init /\ [][Next]_vars
FairSpec == Spec /\ Fairness

-----------------------------------------------------------------------------
TypeOK ==
  /\ pc \in {"write", "poll", "expired", "join", "joinExpired", "done"}
  /\ unsent \in 0 .. RequestUnits
  /\ stdin \in 0 .. PipeCapacity
  /\ listening \in BOOLEAN
  /\ proc \in {"running"} \cup Ended
  /\ consumed \in Nat
  /\ written \in Nat
  /\ speaking \in BOOLEAN
  /\ heir \in BOOLEAN
  /\ stdout \in 0 .. PipeCapacity
  /\ reader \in {"off", "reading", "done"}
  /\ buffer \in 0 .. StdoutCap
  /\ result \in Outcomes

\* An answer is everything that was written to the stdout of a plugin that
\* exited with status zero, its heir's part too: the cap on the reader, the
\* limit and the order of exit, end of file and join let no truncated output
\* pass.
AnswerWhole ==
  result = "answer" =>
    proc = "ok" /\ buffer = written /\ written <= MaxPayload

\* A deadline overrun leaves no plugin process behind, even when the process
\* ends by itself between try_wait and kill.
OverrunKilled == result = "CheckerTimeout" => proc \in Ended

\* The call returns, whatever the plugin does: so it is when the request fits
\* the stdin pipe, for the clock starts only once the request is written, and
\* unless an heir keeps stdout open for ever, for join_reader has no deadline.
CallReturns == <>[](~heir) => <>(pc = "done")
=============================================================================
