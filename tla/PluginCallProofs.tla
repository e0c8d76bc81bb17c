--------------------------- MODULE PluginCallProofs ---------------------------
(***************************************************************************)
(* Theorems about PluginCall, for every pipe capacity, request length,     *)
(* payload limit and plugin.                                               *)
(***************************************************************************)
EXTENDS PluginCall, TLAPS

\* Every unit the plugin wrote is in the pipe or in the reader's buffer.
Conserved == buffer + stdout = written

\* The reader ends at its cap, or when the pipe is empty and nobody can fill it.
ReaderEnds ==
  reader = "done" => buffer = StdoutCap \/ (stdout = 0 /\ ~speaking /\ ~heir)

\* The host gets past the poll loop only with a dead child, and has a verdict
\* only once it has joined the reader.
HostKnows ==
  /\ pc \in {"join", "joinExpired"} => proc \in Ended
  /\ pc # "done" => result = "none"
  /\ result = "CheckerTimeout" => proc \in Ended
  /\ result = "answer" =>
       proc = "ok" /\ reader = "done" /\ buffer <= MaxPayload

\* The inductive invariant.
CallInv == TypeOK /\ Conserved /\ ReaderEnds /\ HostKnows

-----------------------------------------------------------------------------
LEMMA CapType == StdoutCap \in Nat /\ StdoutCap = MaxPayload + 1
  BY CallAssumption DEF CallAssumption, StdoutCap

LEMMA CallInitial == Init => CallInv
<1> SUFFICES ASSUME Init
             PROVE  CallInv
  OBVIOUS
<1>1. TypeOK
  <2>1. listening \in BOOLEAN /\ speaking \in BOOLEAN /\ heir \in BOOLEAN
    BY Zenon DEF Init
  <2>2. /\ unsent \in 0 .. RequestUnits /\ stdin \in 0 .. PipeCapacity
        /\ consumed \in Nat /\ written \in Nat
        /\ stdout \in 0 .. PipeCapacity /\ buffer \in 0 .. StdoutCap
    BY CallAssumption, CapType DEF CallAssumption, Init
  <2> QED
    BY <2>1, <2>2 DEF Init, TypeOK, Ended, Outcomes
<1>2. Conserved /\ HostKnows
  BY DEF Init, Conserved, HostKnows, Ended
<1>3. ReaderEnds
  BY DEF Init, ReaderEnds
<1> QED
  BY <1>1, <1>2, <1>3 DEF CallInv

LEMMA CallStep == CallInv /\ [Next]_vars => CallInv'
<1> SUFFICES ASSUME CallInv, [Next]_vars
             PROVE  CallInv'
  OBVIOUS
<1> USE CallAssumption, CapType
    DEF CallAssumption, CallInv, TypeOK, Conserved, ReaderEnds, HostKnows,
        Ended, Outcomes, vars, host, process, readerVars
<1>1. CASE WriteUnit
  BY <1>1 DEF WriteUnit
<1>2. CASE BrokenPipe
  BY <1>2 DEF BrokenPipe, Finish
<1>3. CASE StartReader
  BY <1>3 DEF StartReader
<1>4. CASE SeeExit
  BY <1>4 DEF SeeExit
<1>5. CASE Expire
  BY <1>5 DEF Expire
<1>6. CASE KillExpired
  BY <1>6 DEF KillExpired
<1>7. CASE Join
  BY <1>7 DEF Join, Finish
<1>8. CASE ReadUnit
  BY <1>8 DEF ReadUnit
<1>9. CASE StopReading
  BY <1>9 DEF StopReading
<1>10. CASE PluginReads
  BY <1>10 DEF PluginReads
<1>11. CASE PluginWrites
  BY <1>11 DEF PluginWrites, Output
<1>12. CASE PluginBreaks
  BY <1>12 DEF PluginBreaks, PluginEnds
<1>13. CASE PluginExits
  <2>1. PICK status \in {"ok", "failed"} : PluginEnds(status)
    BY <1>13 DEF PluginExits
  <2> QED
    BY <2>1 DEF PluginEnds
<1>14. CASE PluginClosesStdin
  BY <1>14 DEF PluginClosesStdin
<1>15. CASE PluginClosesStdout
  BY <1>15 DEF PluginClosesStdout
<1>16. CASE PluginForks
  BY <1>16 DEF PluginForks
<1>17. CASE HeirWrites
  BY <1>17 DEF HeirWrites, Output
<1>18. CASE HeirEnds
  BY <1>18 DEF HeirEnds
<1>19. CASE UNCHANGED vars
  BY <1>19
<1> QED
  BY <1>1, <1>2, <1>3, <1>4, <1>5, <1>6, <1>7, <1>8, <1>9, <1>10, <1>11,
     <1>12, <1>13, <1>14, <1>15, <1>16, <1>17, <1>18, <1>19
  DEF Next, HostStep, ReaderStep, PluginStep, HeirStep, Returned

\* The inductive invariant holds in every reachable state.
THEOREM CallInvariant == Spec => []CallInv
  BY CallInitial, CallStep, PTL DEF Spec

\* run_plugin_request_line keeps its buffers within read_capped's cap and its
\* pipes within their capacity.
THEOREM CallTypeCorrect == Spec => []TypeOK
<1>1. CallInv => TypeOK
  BY DEF CallInv
<1> QED
  BY <1>1, CallInvariant, PTL

\* Every answer run_plugin_request_line returns is the whole output, within
\* the payload limit, of a plugin that exited with status zero and its heir.
THEOREM AnswersWhole == Spec => []AnswerWhole
<1>1. CallInv => AnswerWhole
  BY CallAssumption, CapType
  DEF CallAssumption, CallInv, TypeOK, Conserved, ReaderEnds, HostKnows,
      AnswerWhole, Ended
<1> QED
  BY <1>1, CallInvariant, PTL

\* A call that reports its deadline has left no plugin process running.
THEOREM OverrunsKilled == Spec => []OverrunKilled
<1>1. CallInv => OverrunKilled
  BY DEF CallInv, HostKnows, OverrunKilled
<1> QED
  BY <1>1, CallInvariant, PTL
=============================================================================
