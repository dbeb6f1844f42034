------------------------------- MODULE Kernel -------------------------------
(***************************************************************************)
(* The persistent kernel: one run of a reply's code blocks (BlockExecutor) *)
(* or of a single piece of code (PythonKernel.execute), the alarm that may *)
(* strike at any point of a Python block, the numbered copies of source    *)
(* and output, the answer in the namespace and its copy in the manager,    *)
(* and the reload of project modules edited on disk.                       *)
(*                                                                         *)
(* Program points of a Python block are steps, because the alarm and the   *)
(* outside world come between them.  Of sources and outputs only the       *)
(* numbers are kept; a file's modification time is its version.            *)
(***************************************************************************)
EXTENDS Integers, Sequences

CONSTANTS
  Modules,    \* modules under src/
  Blocked,    \* NEVER_RELOAD
  Blocks,     \* kinds of block a reply may hold
  MaxBlocks,  \* bound: blocks of a reply
  MaxRuns,    \* bound: runs
  MaxEdits    \* bound: edits of files

ASSUME KernelAssumption ==
  /\ Blocked \subseteq Modules /\ MaxBlocks \in Nat /\ MaxRuns \in Nat /\ MaxEdits \in Nat
  /\ Blocks \subseteq [language : {"python", "bash"}, code : {"empty", "bad magic", "runs"}]

VARIABLES
  pc,       \* where the executor is
  path,     \* "blocks", or "single" for PythonKernel.execute
  batch,    \* blocks still to run, the one being run first
  seq,      \* block_seq
  drawn,    \* number of the block being run, 0 for none
  lastSeq,  \* last_seq
  code,     \* numbers n with a _code<n> in the namespace
  output,   \* numbers n with an _output<n>
  answer,   \* namespace["answer"]
  manager,  \* AnswerManager
  ended,    \* how the block being run ended
  result,   \* what the last run returned
  timer,    \* ITIMER_REAL is armed
  stdout,   \* what sys.stdout is
  original, \* what the capture has saved of it
  disk,     \* version of each module's file
  loaded,   \* version in sys.modules, 0 if not imported
  mtimes,   \* _module_mtimes, 0 if absent
  missed,   \* modules edited before their time was recorded, or not reloaded
  torn,     \* an alarm has struck while the capture was set up or taken down
  runs

executor == <<pc, path, batch, seq, drawn, lastSeq, ended, result, torn, runs>>
stores   == <<code, output>>
answers  == <<answer, manager>>
process  == <<timer, stdout, original>>
files    == <<disk, loaded, mtimes, missed>>
vars     == <<executor, stores, answers, process, files>>

-----------------------------------------------------------------------------
(* The answer                                                              *)

\* The model's code may delete it or put anything in its place.
Empty == [form |-> "dict", ready |-> FALSE, content |-> FALSE, yields |-> FALSE]
Gone  == [Empty EXCEPT !.form = "gone"]
Other == [Empty EXCEPT !.form = "other"]

Written == {[Empty EXCEPT !.content = TRUE], [Empty EXCEPT !.ready = TRUE, !.content = TRUE],
            [Empty EXCEPT !.yields = TRUE]}

Injected(a) == IF a.form = "gone" THEN Empty ELSE a

NoResult == [success |-> FALSE, ready |-> FALSE, content |-> FALSE, seq |-> 0, how |-> ""]

RunResult(how, a, n) ==
  [success |-> how = "ok", ready |-> a.ready, content |-> a.content, seq |-> n, how |-> how]

Without(how, n) == RunResult(how, Empty, n)

\* REPLManager: what a run leaves in the manager, given the namespace then.
Synced(r, a) ==
  [ready   |-> manager.ready \/ r.ready,
   content |-> IF r.ready \/ r.content THEN r.content ELSE manager.content,
   yields  |-> manager.yields \/ a.yields]

Return(r, a) ==
  /\ pc' = "idle" /\ batch' = <<>> /\ result' = r
  /\ answer' = a /\ manager' = Synced(r, a)

-----------------------------------------------------------------------------
(* Modules                                                                 *)

\* Loaded modules under src/ that are not on the blocklist.
SrcModules == {m \in Modules \ Blocked : loaded[m] > 0}

Stale == {m \in SrcModules : mtimes[m] > 0 /\ disk[m] > mtimes[m]}

\* Mutant: all times are taken before the first reload.
TimesFirst(done, failing) ==
  /\ loaded' = [m \in Modules |-> IF m \in (Stale \cap done) \ failing THEN disk[m] ELSE loaded[m]]
  /\ mtimes' = [m \in Modules |-> IF m \in SrcModules THEN disk[m] ELSE mtimes[m]]
  /\ missed' = (missed \ ((Stale \cap done) \ failing)) \cup (Stale \cap done \cap failing)
  /\ UNCHANGED disk

\* Reload the modules of done; a reload that fails is swallowed.
ReloadStale(done, failing) ==
  /\ loaded' = [m \in Modules |-> IF m \in (Stale \cap done) \ failing THEN disk[m] ELSE loaded[m]]
  /\ mtimes' = [m \in Modules |-> IF m \in SrcModules \cap done THEN disk[m] ELSE mtimes[m]]
  /\ missed' = (missed \ ((Stale \cap done) \ failing)) \cup (Stale \cap done \cap failing)
  /\ UNCHANGED disk

RecordNew ==
  /\ mtimes' = [m \in Modules |-> IF m \in SrcModules /\ mtimes[m] = 0 THEN disk[m] ELSE mtimes[m]]
  /\ UNCHANGED <<disk, loaded, missed>>

Edited(m) ==
  /\ disk[m] <= MaxEdits
  /\ disk' = [disk EXCEPT ![m] = @ + 1]
  /\ missed' = IF loaded[m] > 0 /\ mtimes[m] = 0 THEN missed \cup {m} ELSE missed
  /\ UNCHANGED <<loaded, mtimes>>

Imported(m) ==
  /\ loaded[m] = 0
  /\ loaded' = [loaded EXCEPT ![m] = disk[m]]
  /\ UNCHANGED <<disk, mtimes, missed>>

-----------------------------------------------------------------------------

Init ==
  /\ pc = "idle" /\ path = "blocks" /\ batch = <<>>
  /\ seq = 0 /\ drawn = 0 /\ lastSeq = 0 /\ code = {} /\ output = {}
  /\ answer = Empty /\ manager = [ready |-> FALSE, content |-> FALSE, yields |-> FALSE]
  /\ ended = "" /\ result = NoResult /\ torn = FALSE /\ runs = 0
  /\ timer = FALSE /\ stdout = "terminal" /\ original = "terminal"
  /\ disk = [m \in Modules |-> 1]
  /\ loaded \in [Modules -> {0, 1}] /\ mtimes = [m \in Modules |-> 0] /\ missed = {}

Begin(how) ==
  /\ pc = "idle" /\ runs < MaxRuns
  /\ path' = how /\ runs' = runs + 1 /\ pc' = "next"
  /\ drawn' = 0 /\ lastSeq' = 0 /\ ended' = "" /\ result' = NoResult
  /\ UNCHANGED <<seq, torn, stores, answers, process, files>>

ExecuteBlocks(blocks) == Begin("blocks") /\ batch' = blocks
Execute(block) == block.language = "python" /\ Begin("single") /\ batch' = <<block>>

Running == Head(batch)

\* Draw the number of the block and store its source.
Draw == /\ seq' = seq + 1 /\ drawn' = seq + 1 /\ code' = code \cup {seq + 1}

Skip ==
  /\ pc = "next" /\ batch # <<>> /\ Running.code = "empty"
  /\ path = "blocks"
  /\ batch' = Tail(batch)
  /\ UNCHANGED <<pc, path, seq, drawn, lastSeq, ended, result, torn, runs,
                 stores, answers, process, files>>

\* A magic command that fails ends the run, the answer of earlier blocks is
\* not in the result.
BadMagic ==
  /\ pc = "next" /\ batch # <<>> /\ Running.code = "bad magic"
  /\ Draw /\ output' = output \cup {seq + 1}
  /\ Return(Without("magic", seq + 1), answer)
  /\ UNCHANGED <<path, lastSeq, ended, torn, runs, process, files>>

\* A shell command: a failure is a warning, only a timeout ends the run.
Bash(how) ==
  /\ pc = "next" /\ batch # <<>> /\ Running = [language |-> "bash", code |-> "runs"]
  /\ Draw /\ output' = output \cup {seq + 1}
  /\ IF how = "timeout"
     THEN Return(Without("bash timeout", seq + 1), answer) /\ UNCHANGED lastSeq
     ELSE batch' = Tail(batch) /\ lastSeq' = seq + 1 /\ UNCHANGED <<pc, result, answers>>
  /\ \/ UNCHANGED files
     \/ how = "ok" /\ \E m \in Modules : Edited(m)
  /\ UNCHANGED <<path, ended, torn, runs, process>>

\* The number is drawn, the source stored, the alarm set.
Arm ==
  /\ pc = "next" /\ batch # <<>> /\ Running.language = "python"
  /\ Running.code = "runs" \/ (Running.code = "empty" /\ path = "single")
  /\ Draw /\ timer' = TRUE /\ pc' = "enter" /\ ended' = ""
  /\ UNCHANGED <<path, batch, lastSeq, result, torn, runs, output, answers, stdout, original, files>>

Step(from, to) ==
  /\ pc = from /\ pc' = to
  /\ UNCHANGED <<path, batch, seq, drawn, lastSeq, result, torn, runs, code, manager>>

EnterCapture ==
  /\ Step("enter", "reload")
  /\ stdout' = "captured" /\ original' = stdout
  /\ UNCHANGED <<ended, output, answer, timer, files>>

Reload(failing) ==
  /\ Step("reload", "exec")
  /\ ReloadStale(Modules, failing)
  /\ UNCHANGED <<ended, output, answer, process>>

\* The code may do one thing that matters here, and end in three ways.
RunCode(how) ==
  /\ Step("exec", "leave")
  /\ ended' = how
  /\ \/ answer' \in Written \cup {Gone, Other, answer} /\ UNCHANGED files
     \/ UNCHANGED answer /\ \E m \in Modules : Imported(m) \/ Edited(m)
  /\ UNCHANGED <<output, process>>

\* Leaving the capture; sys.exit() is no Exception and goes straight out.
LeaveCapture ==
  /\ pc = "leave"
  /\ Step("leave", CASE ended = "ok" -> "record" [] ended = "raised" -> "except"
                     [] ended = "exit" -> "finally")
  /\ stdout' = original
  /\ UNCHANGED <<ended, output, answer, timer, original, files>>

Record ==
  /\ Step("record", "finally")
  /\ RecordNew
  /\ UNCHANGED <<ended, output, answer, process>>

Stored == output \cup {drawn}

\* The except clauses: the output is stored, a deleted answer put back.
HandleException ==
  /\ Step("except", "finally")
  /\ output' = Stored
  /\ answer' = IF ended = "raised" THEN Injected(answer) ELSE answer
  /\ UNCHANGED <<ended, process, files>>

\* Mutant: the result of a timeout has no answer.
ForgetsOnTimeout ==
  IF ended = "timeout" \/ path = "single" THEN Empty
  ELSE IF answer.form = "dict" THEN answer ELSE Empty

\* What a failed block's result says of the answer.
CarriedAnswer ==
  IF path = "single" THEN Empty
  ELSE IF answer.form = "dict" THEN answer ELSE Empty

\* Mutant: the timer of a block that raised is left to run out.
DisarmedIfOk == timer' = (timer /\ ended = "raised")

Disarmed == timer' = FALSE

\* The finally clause and what follows it.
Finally ==
  /\ pc = "finally"
  /\ Disarmed
  /\ CASE ended = "ok" ->
            /\ output' = Stored /\ lastSeq' = drawn
            /\ batch' = Tail(batch) /\ pc' = "next"
            /\ UNCHANGED <<result, answers>>
       [] ended \in {"raised", "timeout"} ->
            /\ Return(RunResult(ended, CarriedAnswer, drawn), answer)
            /\ UNCHANGED <<output, lastSeq>>
       [] ended \in {"exit", "escaped"} ->
            /\ pc' = "out" /\ batch' = <<>>
            /\ UNCHANGED <<output, lastSeq, result, answers>>
  /\ UNCHANGED <<path, seq, drawn, ended, torn, runs, code, stdout, original, files>>

\* All blocks have run.
FinishRun ==
  /\ pc = "next" /\ batch = <<>>
  /\ LET a == Injected(answer)
     IN  Return(RunResult("ok", a, lastSeq), a)
  /\ UNCHANGED <<path, seq, drawn, lastSeq, ended, torn, runs, stores, process, files>>

-----------------------------------------------------------------------------
(* The alarm: _REPLTimeout, no Exception, at whatever point the block is   *)

Strike == /\ timer /\ timer' = FALSE /\ torn' = (torn \/ pc \in {"enter", "leave"})

\* Inside the try it is caught; the capture is left unless it strikes in
\* the middle of entering or leaving it.
AlarmInBlock ==
  /\ pc \in {"enter", "reload", "exec", "leave", "record"} /\ Strike
  /\ pc' = "except" /\ ended' = "timeout"
  /\ CASE pc = "enter" -> stdout' \in {stdout, "captured"} /\ original' = stdout
       [] pc = "leave" -> stdout' \in {original, "captured"} /\ UNCHANGED original
       [] OTHER        -> stdout' = original /\ UNCHANGED original
  /\ IF pc = "reload" THEN \E done \in SUBSET Modules : ReloadStale(done, {}) ELSE UNCHANGED files
  /\ UNCHANGED <<path, batch, seq, drawn, lastSeq, result, runs, stores, answers>>

\* In an except clause nothing catches it; finally still runs.
AlarmInHandler ==
  /\ pc = "except" /\ Strike
  /\ pc' = "finally" /\ ended' = "escaped"
  /\ UNCHANGED <<path, batch, seq, drawn, lastSeq, result, runs, stores, answers, stdout, original, files>>

\* At the start of the finally clause its rest is skipped.
AlarmInFinally ==
  /\ pc = "finally" /\ Strike
  /\ pc' = "out" /\ ended' = "escaped" /\ batch' = <<>>
  /\ UNCHANGED <<path, seq, drawn, lastSeq, result, runs, stores, answers, stdout, original, files>>

\* What leaves the executor leaves the loop and ends the agent; the next
\* thing the kernel sees, if any, comes from a parent's code.
Abandoned ==
  /\ pc = "out" /\ pc' = "idle"
  /\ UNCHANGED <<path, batch, seq, drawn, lastSeq, ended, result, torn, runs,
                 stores, answers, process, files>>

-----------------------------------------------------------------------------
(* Between runs                                                            *)

ResetAnswer ==
  /\ pc = "idle"
  /\ answer' = Empty /\ manager' = [ready |-> FALSE, content |-> FALSE, yields |-> FALSE]
  /\ result' = NoResult
  /\ UNCHANGED <<pc, path, batch, seq, drawn, lastSeq, ended, torn, runs, stores, process, files>>

\* clear_state builds the namespace anew, close only empties it.
Clear(a, n) ==
  /\ pc = "idle" /\ result # NoResult
  /\ answer' = a /\ seq' = n /\ code' = {} /\ output' = {} /\ result' = NoResult
  /\ UNCHANGED <<pc, path, batch, drawn, lastSeq, ended, torn, runs, manager, process, files>>

ClearState == Clear(Empty, 0)
CloseKernel == Clear(Gone, seq)

\* Anybody may edit a file at any time.
EditFile ==
  /\ \E m \in Modules : Edited(m)
  /\ UNCHANGED <<executor, stores, answers, process>>

Next ==
  \/ \E n \in 1..MaxBlocks : \E blocks \in [1..n -> Blocks] : ExecuteBlocks(blocks)
  \/ \E block \in Blocks : Execute(block)
  \/ Skip \/ BadMagic
  \/ \E how \in {"ok", "warning", "timeout"} : Bash(how)
  \/ Arm \/ EnterCapture
  \/ \E failing \in SUBSET Modules : Reload(failing)
  \/ \E how \in {"ok", "raised", "exit"} : RunCode(how)
  \/ LeaveCapture \/ Record \/ HandleException \/ Finally \/ FinishRun
  \/ AlarmInBlock \/ AlarmInHandler \/ AlarmInFinally \/ Abandoned
  \/ ResetAnswer \/ ClearState \/ CloseKernel \/ EditFile

Spec == Init /\ [][Next]_vars

-----------------------------------------------------------------------------
(* Properties                                                              *)

\* When a run has returned, whatever failed in it, an answer the code has
\* marked ready is ready for the loop as well: only a bad magic line and a
\* shell timeout lose what earlier blocks said.
AnswerCarried ==
  pc = "idle" /\ path = "blocks" /\ result # NoResult
    /\ result.how \notin {"magic", "bash timeout"}
  => (answer.ready => manager.ready)

\* Between runs the timer is off, and output goes to the terminal unless an
\* alarm struck while the capture was being set up or taken down.
Released ==
  pc \in {"idle", "next"} =>
    /\ ~timer
    /\ stdout = "terminal" \/ torn

\* Code runs on stale source only when the file changed before its time was
\* first recorded, when the reload failed, or when it changed since.
FreshModules ==
  [][Len(batch) > 0 /\ pc = "reload" /\ pc' = "exec" =>
       \A m \in Modules \ Blocked :
         loaded'[m] > 0 => loaded'[m] = disk'[m] \/ m \in missed']_vars

\* "SIGALRM interrupts any blocking C call and raises _REPLTimeout, returning
\* control to the calling agent": no timeout leaves the executor.
TimeoutReturns == ended # "escaped"

=============================================================================
