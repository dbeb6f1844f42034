----------------------------- MODULE ReplProofs -----------------------------
(***************************************************************************)
(* Proofs about the way of a reply: the kernel that runs its blocks, for   *)
(* any set of project modules, any blocklist, any kinds of block and any   *)
(* number of blocks, runs and edits; and, before it, the repair of the     *)
(* reply, for any fence style, any alphabet of lines, any length, any      *)
(* answers of the segmenter and any number of retries.                     *)
(***************************************************************************)
EXTENDS Kernel, Reply, SequenceTheorems, WellFoundedInduction, TLAPS

-----------------------------------------------------------------------------
(* The kernel: type correctness                                            *)

Points == {"idle", "next", "enter", "reload", "exec", "leave", "record", "except",
           "finally", "out"}
Ends   == {"", "ok", "raised", "exit", "timeout", "escaped"}
Hows   == Ends \cup {"magic", "bash timeout"}
Kinds  == [language : {"python", "bash"}, code : {"empty", "bad magic", "runs"}]

AnswerForms == [form : {"dict", "gone", "other"}, ready : BOOLEAN, content : BOOLEAN,
                yields : BOOLEAN]
Managers == [ready : BOOLEAN, content : BOOLEAN, yields : BOOLEAN]
Results  == [success : BOOLEAN, ready : BOOLEAN, content : BOOLEAN, seq : Nat, how : Hows]

\* What the block being run has come to, where the executor asks; and there is one.
Concluded ==
  /\ pc = "leave" => ended \in {"ok", "raised", "exit"}
  /\ pc = "record" => ended = "ok"
  /\ pc = "except" => ended \in {"raised", "timeout"}
  /\ pc = "finally" => ended # ""
  /\ pc \notin {"idle", "next", "out"} => batch # <<>>

TypeOK ==
  /\ Concluded
  /\ pc \in Points /\ path \in {"blocks", "single"} /\ batch \in Seq(Kinds)
  /\ seq \in Nat /\ drawn \in Nat /\ lastSeq \in Nat
  /\ code \subseteq Nat /\ output \subseteq Nat
  /\ answer \in AnswerForms /\ manager \in Managers
  /\ ended \in Ends /\ result \in Results /\ torn \in BOOLEAN
  /\ timer \in BOOLEAN
  /\ stdout \in {"terminal", "captured"} /\ original \in {"terminal", "captured"}
  /\ disk \in [Modules -> Nat] /\ loaded \in [Modules -> Nat] /\ mtimes \in [Modules -> Nat]
  /\ missed \subseteq Modules

LEMMA Sizes == \A n \in 1..MaxBlocks : n \in Nat
<1>1. MaxBlocks \in Nat
  BY KernelAssumption
<1> QED BY <1>1

LEMMA NoBlocks == <<>> \in Seq(Kinds)
OBVIOUS

LEMMA Formed ==
  /\ Empty \in AnswerForms /\ Gone \in AnswerForms /\ Other \in AnswerForms
  /\ Written \subseteq AnswerForms
  /\ NoResult \in Results
  /\ \A a \in AnswerForms : Injected(a) \in AnswerForms
  /\ \A a \in AnswerForms, how \in Hows, n \in Nat : RunResult(how, a, n) \in Results
  /\ \A how \in Hows, n \in Nat : Without(how, n) \in Results
<1>1. Empty \in AnswerForms
  BY DEF Empty, AnswerForms
<1>2. Gone \in AnswerForms /\ Other \in AnswerForms /\ Written \subseteq AnswerForms
  BY <1>1 DEF Gone, Other, Written, AnswerForms
<1>3. \A a \in AnswerForms : Injected(a) \in AnswerForms
  BY <1>1 DEF Injected
<1>4. \A a \in AnswerForms, how \in Hows, n \in Nat : RunResult(how, a, n) \in Results
  BY DEF RunResult, AnswerForms, Results
<1>5. NoResult \in Results /\ \A how \in Hows, n \in Nat : Without(how, n) \in Results
  BY <1>1, <1>4 DEF NoResult, Without, Results, Hows, Ends
<1> QED BY <1>1, <1>2, <1>3, <1>4, <1>5

LEMMA SyncedTypes ==
  ASSUME NEW r \in Results, NEW a \in AnswerForms, manager \in Managers
  PROVE  Synced(r, a) \in Managers
BY DEF Synced, Results, AnswerForms, Managers

LEMMA ReturnTypes ==
  ASSUME NEW r \in Results, NEW a \in AnswerForms, TypeOK, Return(r, a)
  PROVE  /\ pc' = "idle" /\ pc' \in Points /\ batch' \in Seq(Kinds) /\ result' \in Results
         /\ answer' \in AnswerForms /\ manager' \in Managers
<1>1. /\ pc' = "idle" /\ batch' = <<>> /\ result' = r /\ answer' = a
      /\ manager' = Synced(r, a)
  BY DEF Return
<1>2. manager \in Managers
  BY DEF TypeOK
<1> QED BY <1>1, <1>2, SyncedTypes DEF Points

LEMMA BlockTypes ==
  ASSUME TypeOK, batch # <<>>
  PROVE  Running \in Kinds /\ Tail(batch) \in Seq(Kinds)
BY DEF TypeOK, Running

LEMMA DrawTypes ==
  ASSUME TypeOK, Draw
  PROVE  /\ seq + 1 \in Nat
         /\ seq' \in Nat /\ drawn' \in Nat /\ code' \subseteq Nat
         /\ output \cup {seq + 1} \subseteq Nat
BY DEF TypeOK, Draw

FilesOK ==
  /\ disk \in [Modules -> Nat] /\ loaded \in [Modules -> Nat] /\ mtimes \in [Modules -> Nat]
  /\ missed \subseteq Modules

LEMMA EditedTypes ==
  ASSUME FilesOK, NEW m \in Modules, Edited(m)
  PROVE  FilesOK'
BY DEF FilesOK, Edited

LEMMA ImportedTypes ==
  ASSUME FilesOK, NEW m \in Modules, Imported(m)
  PROVE  FilesOK'
BY DEF FilesOK, Imported

LEMMA ReloadTypes ==
  ASSUME FilesOK, NEW done, NEW failing, done \subseteq Modules, ReloadStale(done, failing)
  PROVE  FilesOK'
BY DEF FilesOK, ReloadStale, Stale, SrcModules

LEMMA RecordTypes ==
  ASSUME FilesOK, RecordNew
  PROVE  FilesOK'
BY DEF FilesOK, RecordNew

LEMMA CarriedAnswerTypes ==
  ASSUME TypeOK
  PROVE  CarriedAnswer \in AnswerForms
BY Formed DEF TypeOK, CarriedAnswer

\* What is not the files and not the answers keeps its types.
ExecutorOK ==
  /\ Concluded
  /\ pc \in Points /\ path \in {"blocks", "single"} /\ batch \in Seq(Kinds)
  /\ seq \in Nat /\ drawn \in Nat /\ lastSeq \in Nat
  /\ code \subseteq Nat /\ output \subseteq Nat
  /\ ended \in Ends /\ result \in Results /\ torn \in BOOLEAN

AnswersOK == answer \in AnswerForms /\ manager \in Managers

ProcessOK ==
  /\ timer \in BOOLEAN
  /\ stdout \in {"terminal", "captured"} /\ original \in {"terminal", "captured"}

LEMMA TypeParts == TypeOK <=> ExecutorOK /\ AnswersOK /\ ProcessOK /\ FilesOK
BY DEF TypeOK, ExecutorOK, AnswersOK, ProcessOK, FilesOK

LEMMA TypePartsNext == TypeOK' <=> ExecutorOK' /\ AnswersOK' /\ ProcessOK' /\ FilesOK'
BY DEF TypeOK, ExecutorOK, AnswersOK, ProcessOK, FilesOK

LEMMA PartsKept ==
  /\ AnswersOK /\ UNCHANGED answers => AnswersOK'
  /\ ProcessOK /\ UNCHANGED process => ProcessOK'
  /\ FilesOK /\ UNCHANGED files => FilesOK'
BY DEF AnswersOK, ProcessOK, FilesOK, answers, process, files

LEMMA TypesKept ==
  ASSUME TypeOK, [Next]_vars
  PROVE  TypeOK'
<1> USE TypeParts, TypePartsNext, PartsKept
<1>1. ASSUME NEW n \in 1..MaxBlocks, NEW blocks \in [1..n -> Blocks], ExecuteBlocks(blocks)
      PROVE  TypeOK'
  <2>1. blocks \in Seq(Kinds)
    <3>1. blocks \in [1..n -> Kinds]
      BY <1>1, KernelAssumption DEF Kinds
    <3>2. n \in Nat
      BY <1>1, Sizes
    <3> QED BY <3>1, <3>2
  <2>2. ExecutorOK'
    BY <1>1, <2>1, Formed DEF ExecuteBlocks, Begin, ExecutorOK, Concluded, stores, Points, Ends
  <2> QED BY <1>1, <2>2 DEF ExecuteBlocks, Begin
<1>2. ASSUME NEW block \in Blocks, Execute(block)
      PROVE  TypeOK'
  <2>1. <<block>> \in Seq(Kinds)
    <3>1. block \in Kinds
      BY <1>2, KernelAssumption DEF Kinds
    <3> QED BY <3>1
  <2>2. ExecutorOK'
    BY <1>2, <2>1, Formed DEF Execute, Begin, ExecutorOK, Concluded, stores, Points, Ends
  <2> QED BY <1>2, <2>2 DEF Execute, Begin
<1>3. CASE Skip
  <2>1. ExecutorOK'
    BY <1>3, BlockTypes DEF Skip, ExecutorOK, Concluded, stores
  <2> QED BY <1>3, <2>1 DEF Skip
<1>4. CASE BadMagic
  <2>1. Without("magic", seq + 1) \in Results
    BY <1>4, DrawTypes, Formed DEF BadMagic, Hows, Ends
  <2>2. ExecutorOK' /\ AnswersOK'
    BY <1>4, <2>1, DrawTypes, ReturnTypes DEF BadMagic, ExecutorOK, Concluded, AnswersOK
  <2> QED BY <1>4, <2>2 DEF BadMagic
<1>5. ASSUME NEW how \in {"ok", "warning", "timeout"}, Bash(how)
      PROVE  TypeOK'
  <2>1. FilesOK'
    BY <1>5, EditedTypes DEF Bash
  <2>2. ProcessOK'
    BY <1>5 DEF Bash
  <2>3. CASE how = "timeout"
    <3>1. Without("bash timeout", seq + 1) \in Results
      BY <1>5, DrawTypes, Formed DEF Bash, Hows, Ends
    <3>2. ExecutorOK' /\ AnswersOK'
      BY <1>5, <2>3, <3>1, DrawTypes, ReturnTypes DEF Bash, ExecutorOK, Concluded, AnswersOK
    <3> QED BY <2>1, <2>2, <3>2
  <2>4. CASE how # "timeout"
    <3>1. ExecutorOK' /\ UNCHANGED answers
      BY <1>5, <2>4, DrawTypes, BlockTypes DEF Bash, ExecutorOK, Concluded
    <3> QED BY <2>1, <2>2, <3>1
  <2> QED BY <2>3, <2>4
<1>6. CASE Arm
  <2>1. ExecutorOK'
    BY <1>6, DrawTypes DEF Arm, ExecutorOK, Concluded, Points, Ends
  <2> QED BY <1>6, <2>1 DEF Arm, ProcessOK
<1>7. CASE EnterCapture
  <2>1. ExecutorOK' /\ AnswersOK' /\ ProcessOK'
    BY <1>7 DEF EnterCapture, Step, ExecutorOK, Concluded, AnswersOK, ProcessOK, Points
  <2> QED BY <1>7, <2>1 DEF EnterCapture
<1>8. ASSUME NEW failing \in SUBSET Modules, Reload(failing)
      PROVE  TypeOK'
  <2>1. ExecutorOK' /\ AnswersOK'
    BY <1>8 DEF Reload, Step, ExecutorOK, Concluded, AnswersOK, Points
  <2> QED BY <1>8, <2>1, ReloadTypes DEF Reload
<1>9. ASSUME NEW how \in {"ok", "raised", "exit"}, RunCode(how)
      PROVE  TypeOK'
  <2>1. ExecutorOK'
    BY <1>9 DEF RunCode, Step, ExecutorOK, Concluded, Points, Ends
  <2>2. AnswersOK'
    BY <1>9, Formed DEF RunCode, Step, AnswersOK
  <2>3. FilesOK'
    BY <1>9, EditedTypes, ImportedTypes DEF RunCode
  <2> QED BY <1>9, <2>1, <2>2, <2>3 DEF RunCode
<1>10. CASE LeaveCapture
  <2>0. pc' \in Points /\ Concluded'
    BY <1>10 DEF LeaveCapture, Step, Points, ExecutorOK, Concluded
  <2>1. ExecutorOK' /\ AnswersOK' /\ ProcessOK'
    BY <1>10, <2>0 DEF LeaveCapture, Step, ExecutorOK, Concluded, AnswersOK, ProcessOK
  <2> QED BY <1>10, <2>1 DEF LeaveCapture
<1>11. CASE Record
  <2>1. ExecutorOK' /\ AnswersOK'
    BY <1>11 DEF Record, Step, ExecutorOK, Concluded, AnswersOK, Points
  <2> QED BY <1>11, <2>1, RecordTypes DEF Record
<1>12. CASE HandleException
  <2>1. ExecutorOK'
    BY <1>12 DEF HandleException, Step, ExecutorOK, Concluded, Points, Stored
  <2>2. AnswersOK'
    BY <1>12, Formed DEF HandleException, Step, AnswersOK
  <2> QED BY <1>12, <2>1, <2>2 DEF HandleException
<1>13. CASE Finally
  <2>1. ProcessOK'
    BY <1>13 DEF Finally, Disarmed, ProcessOK
  <2>2. CASE ended = "ok"
    <3>1. batch' = Tail(batch) /\ batch' \in Seq(Kinds)
      BY <1>13, <2>2 DEF Finally, ExecutorOK, Concluded
    <3>2. ExecutorOK' /\ UNCHANGED answers
      BY <1>13, <2>2, <3>1 DEF Finally, ExecutorOK, Concluded, Points, Stored
    <3> QED BY <1>13, <2>1, <3>2 DEF Finally
  <2>3. CASE ended \in {"raised", "timeout"}
    <3>1. Return(RunResult(ended, CarriedAnswer, drawn), answer)
      BY <1>13, <2>3 DEF Finally
    <3>2. RunResult(ended, CarriedAnswer, drawn) \in Results /\ answer \in AnswerForms
      BY <2>3, CarriedAnswerTypes, Formed DEF TypeOK, Hows, Ends
    <3>3. ExecutorOK' /\ AnswersOK'
      BY <1>13, <2>3, <3>1, <3>2, ReturnTypes DEF Finally, ExecutorOK, Concluded, AnswersOK
    <3> QED BY <1>13, <2>1, <3>3 DEF Finally
  <2>4. CASE ended \in {"exit", "escaped"}
    <3>1. ExecutorOK' /\ UNCHANGED answers
      BY <1>13, <2>4, NoBlocks DEF Finally, ExecutorOK, Concluded, Points
    <3> QED BY <1>13, <2>1, <3>1 DEF Finally
  <2> QED BY <1>13, <2>2, <2>3, <2>4 DEF Finally, ExecutorOK, Concluded, Ends
<1>14. CASE FinishRun
  <2>1. /\ Injected(answer) \in AnswerForms
        /\ RunResult("ok", Injected(answer), lastSeq) \in Results
    BY Formed DEF TypeOK, Hows, Ends
  <2>2. ExecutorOK' /\ AnswersOK'
    BY <1>14, <2>1, ReturnTypes DEF FinishRun, ExecutorOK, Concluded, AnswersOK, stores
  <2> QED BY <1>14, <2>2 DEF FinishRun
<1>15. CASE AlarmInBlock
  <2>1. ExecutorOK'
    BY <1>15 DEF AlarmInBlock, Strike, ExecutorOK, Concluded, stores, Points, Ends
  <2>2. ProcessOK'
    BY <1>15 DEF AlarmInBlock, Strike, ProcessOK
  <2>3. FilesOK'
    BY <1>15, ReloadTypes DEF AlarmInBlock
  <2> QED BY <1>15, <2>1, <2>2, <2>3 DEF AlarmInBlock
<1>16. CASE AlarmInHandler
  BY <1>16 DEF AlarmInHandler, Strike, ExecutorOK, Concluded, ProcessOK, stores, Points, Ends
<1>17. CASE AlarmInFinally
  BY <1>17, NoBlocks DEF AlarmInFinally, Strike, ExecutorOK, Concluded, ProcessOK, stores, Points, Ends
<1>18. CASE Abandoned
  BY <1>18 DEF Abandoned, ExecutorOK, Concluded, stores, Points
<1>19. CASE ResetAnswer
  <2>1. ExecutorOK' /\ AnswersOK'
    BY <1>19, Formed DEF ResetAnswer, ExecutorOK, Concluded, AnswersOK, stores, Managers
  <2> QED BY <1>19, <2>1 DEF ResetAnswer
<1>20. ASSUME NEW a \in {Empty, Gone}, NEW n \in Nat, Clear(a, n)
       PROVE  TypeOK'
  <2>1. ExecutorOK' /\ AnswersOK'
    BY <1>20, Formed DEF Clear, ExecutorOK, Concluded, AnswersOK
  <2> QED BY <1>20, <2>1 DEF Clear
<1>21. CASE ClearState
  BY <1>20, <1>21 DEF ClearState
<1>22. CASE CloseKernel
  BY <1>20, <1>22 DEF CloseKernel, ExecutorOK, Concluded
<1>23. CASE EditFile
  <2>1. ExecutorOK'
    BY <1>23 DEF EditFile, ExecutorOK, Concluded, executor, stores
  <2> QED BY <1>23, <2>1, EditedTypes DEF EditFile
<1>24. CASE UNCHANGED vars
  BY <1>24 DEF vars, executor, stores, ExecutorOK, Concluded
<1> QED
  BY <1>1, <1>2, <1>3, <1>4, <1>5, <1>6, <1>7, <1>8, <1>9, <1>10, <1>11, <1>12, <1>13,
     <1>14, <1>15, <1>16, <1>17, <1>18, <1>19, <1>21, <1>22, <1>23, <1>24 DEF Next

\* Every variable keeps its type, whatever raises, times out or is edited when.
THEOREM TypeCorrect == Spec => []TypeOK
<1>1. Init => TypeOK
  <2> SUFFICES ASSUME Init PROVE TypeOK
    OBVIOUS
  <2>1. ExecutorOK
    BY Formed, NoBlocks DEF Init, ExecutorOK, Concluded, Points, Ends
  <2>2. AnswersOK
    BY Formed DEF Init, AnswersOK, Managers
  <2>3. ProcessOK
    BY DEF Init, ProcessOK
  <2>4. FilesOK
    <3>1. {0, 1} \subseteq Nat
      OBVIOUS
    <3>2. loaded \in [Modules -> {0, 1}]
      BY DEF Init
    <3>3. loaded \in [Modules -> Nat]
      BY <3>1, <3>2
    <3> QED BY <3>3 DEF Init, FilesOK
  <2> QED BY <2>1, <2>2, <2>3, <2>4, TypeParts
<1>2. TypeOK /\ [Next]_vars => TypeOK'
  BY TypesKept
<1> QED BY <1>1, <1>2, PTL DEF Spec

-----------------------------------------------------------------------------
(* The kernel: what the theorems rest on                                   *)

\* The alarm is off wherever no Python block is running, and the terminal is
\* where it belongs, or will be put back there, unless an alarm tore the capture.
Guarded ==
  /\ pc \in {"idle", "next", "out"} => ~timer
  /\ torn \/ IF pc \in {"reload", "exec", "leave"}
             THEN original = "terminal"
             ELSE stdout = "terminal" /\ (pc = "record" => original = "terminal")

\* An answer that is not the dictionary of the kernel is not ready, no run in
\* progress has a result, and what the namespace calls ready the manager does.
Carried ==
  /\ answer.form # "dict" => ~answer.ready
  /\ pc # "idle" => result = NoResult
  /\ AnswerCarried

\* A loaded module is what the disk holds, or its edit is known to have been
\* missed, or the next reload will see it.
Tracked ==
  \A m \in Modules :
    /\ mtimes[m] <= disk[m]
    /\ loaded[m] > 0 /\ m \notin Blocked =>
         \/ loaded[m] = disk[m]
         \/ m \in missed
         \/ mtimes[m] > 0 /\ mtimes[m] < disk[m]

-----------------------------------------------------------------------------
(* The kernel: timer and terminal                                          *)

LEMMA GuardedKept ==
  ASSUME TypeOK, Guarded, [Next]_vars
  PROVE  Guarded'
<1> USE DEF Guarded, process
<1>1. ASSUME NEW n \in 1..MaxBlocks, NEW blocks \in [1..n -> Blocks], ExecuteBlocks(blocks)
      PROVE  Guarded'
  BY <1>1 DEF ExecuteBlocks, Begin
<1>2. ASSUME NEW block \in Blocks, Execute(block)
      PROVE  Guarded'
  BY <1>2 DEF Execute, Begin
<1>3. CASE Skip
  BY <1>3 DEF Skip
<1>4. CASE BadMagic
  BY <1>4 DEF BadMagic, Return
<1>5. ASSUME NEW how \in {"ok", "warning", "timeout"}, Bash(how)
      PROVE  Guarded'
  BY <1>5 DEF Bash, Return
<1>6. CASE Arm
  BY <1>6 DEF Arm
<1>7. CASE EnterCapture
  BY <1>7 DEF EnterCapture, Step
<1>8. ASSUME NEW failing \in SUBSET Modules, Reload(failing)
      PROVE  Guarded'
  BY <1>8 DEF Reload, Step
<1>9. ASSUME NEW how \in {"ok", "raised", "exit"}, RunCode(how)
      PROVE  Guarded'
  BY <1>9 DEF RunCode, Step
<1>10. CASE LeaveCapture
  BY <1>10 DEF LeaveCapture, Step, TypeOK, Concluded
<1>11. CASE Record
  BY <1>11 DEF Record, Step
<1>12. CASE HandleException
  BY <1>12 DEF HandleException, Step
<1>13. CASE Finally
  <2>1. timer' = FALSE /\ UNCHANGED <<torn, stdout, original>>
    BY <1>13 DEF Finally, Disarmed
  <2>2. pc' \in {"next", "idle", "out"}
    BY <1>13 DEF Finally, Return, TypeOK, Concluded, Ends
  <2> QED BY <1>13, <2>1, <2>2 DEF Finally
<1>14. CASE FinishRun
  BY <1>14 DEF FinishRun, Return
<1>15. CASE AlarmInBlock
  BY <1>15 DEF AlarmInBlock, Strike
<1>16. CASE AlarmInHandler
  BY <1>16 DEF AlarmInHandler, Strike
<1>17. CASE AlarmInFinally
  BY <1>17 DEF AlarmInFinally, Strike
<1>18. CASE Abandoned
  BY <1>18 DEF Abandoned
<1>19. CASE ResetAnswer
  BY <1>19 DEF ResetAnswer
<1>20. CASE ClearState \/ CloseKernel
  BY <1>20 DEF ClearState, CloseKernel, Clear
<1>21. CASE EditFile
  BY <1>21 DEF EditFile, executor
<1>22. CASE UNCHANGED vars
  BY <1>22 DEF vars, executor
<1> QED
  BY <1>1, <1>2, <1>3, <1>4, <1>5, <1>6, <1>7, <1>8, <1>9, <1>10, <1>11, <1>12, <1>13,
     <1>14, <1>15, <1>16, <1>17, <1>18, <1>19, <1>20, <1>21, <1>22 DEF Next

\* Between blocks and between runs no alarm is pending, and output goes to the
\* terminal, however the blocks before ended and wherever the alarm struck,
\* unless it struck while the capture was being set up or taken down
\* (PythonKernel._run_with_timeout, its finally clause).
THEOREM AlarmIsReleased == Spec => []Released
<1>1. Init => Guarded
  BY DEF Init, Guarded
<1>2. TypeOK /\ Guarded /\ [Next]_vars => Guarded'
  BY GuardedKept
<1>3. Guarded => Released
  BY DEF Guarded, Released
<1> QED BY <1>1, <1>2, <1>3, TypeCorrect, PTL DEF Spec

-----------------------------------------------------------------------------
(* The kernel: the answer                                                  *)

LEMMA NotDict ==
  /\ ~Empty.ready /\ ~Gone.ready /\ ~Other.ready
  /\ Empty.form = "dict" /\ ~NoResult.ready
  /\ \A a \in Written : a.form = "dict"
BY DEF Empty, Gone, Other, Written, NoResult

\* A result that says ready makes the manager ready.
LEMMA ReturnCarries ==
  ASSUME NEW r, NEW a \in AnswerForms, Return(r, a), TypeOK,
         a.form # "dict" => ~a.ready,
         path' = "blocks" /\ r.how \notin {"magic", "bash timeout"} => (a.ready => r.ready)
  PROVE  Carried'
<1>1. /\ pc' = "idle" /\ result' = r /\ answer' = a
      /\ manager'.ready = (manager.ready \/ r.ready)
  BY DEF Return, Synced
<1> QED BY <1>1 DEF Carried, AnswerCarried

LEMMA ResultFields ==
  ASSUME NEW how, NEW a, NEW n
  PROVE  RunResult(how, a, n).how = how /\ RunResult(how, a, n).ready = a.ready
BY DEF RunResult

LEMMA CarriedKept ==
  ASSUME TypeOK, Carried, [Next]_vars
  PROVE  Carried'
<1>1. ASSUME NEW n \in 1..MaxBlocks, NEW blocks \in [1..n -> Blocks], ExecuteBlocks(blocks)
      PROVE  Carried'
  BY <1>1 DEF ExecuteBlocks, Begin, answers, Carried, AnswerCarried
<1>2. ASSUME NEW block \in Blocks, Execute(block)
      PROVE  Carried'
  BY <1>2 DEF Execute, Begin, answers, Carried, AnswerCarried
<1>3. CASE Skip
  BY <1>3 DEF Skip, answers, Carried, AnswerCarried
<1>4. CASE BadMagic
  <2>1. Return(Without("magic", seq + 1), answer)
    BY <1>4 DEF BadMagic
  <2>2. Without("magic", seq + 1).how = "magic"
    BY ResultFields DEF Without
  <2> QED BY <2>1, <2>2, ReturnCarries DEF TypeOK, Carried
<1>5. ASSUME NEW how \in {"ok", "warning", "timeout"}, Bash(how)
      PROVE  Carried'
  <2>1. CASE how = "timeout"
    <3>1. Return(Without("bash timeout", seq + 1), answer)
      BY <1>5, <2>1 DEF Bash
    <3>2. Without("bash timeout", seq + 1).how = "bash timeout"
      BY ResultFields DEF Without
    <3> QED BY <3>1, <3>2, ReturnCarries DEF TypeOK, Carried
  <2>2. CASE how # "timeout"
    BY <1>5, <2>2 DEF Bash, answers, Carried, AnswerCarried
  <2> QED BY <2>1, <2>2
<1>6. CASE Arm
  BY <1>6 DEF Arm, answers, Carried, AnswerCarried
<1>7. CASE EnterCapture
  BY <1>7 DEF EnterCapture, Step, Carried, AnswerCarried
<1>8. ASSUME NEW failing \in SUBSET Modules, Reload(failing)
      PROVE  Carried'
  BY <1>8 DEF Reload, Step, Carried, AnswerCarried
<1>9. ASSUME NEW how \in {"ok", "raised", "exit"}, RunCode(how)
      PROVE  Carried'
  BY <1>9, NotDict DEF RunCode, Step, Carried, AnswerCarried
<1>10. CASE LeaveCapture
  BY <1>10 DEF LeaveCapture, Step, TypeOK, Concluded, Carried, AnswerCarried
<1>11. CASE Record
  BY <1>11 DEF Record, Step, Carried, AnswerCarried
<1>12. CASE HandleException
  BY <1>12, NotDict DEF HandleException, Step, Injected, Carried, AnswerCarried
<1>13. CASE Finally
  <2>1. CASE ended = "ok"
    BY <1>13, <2>1 DEF Finally, answers, Carried, AnswerCarried
  <2>2. CASE ended \in {"raised", "timeout"}
    <3>1. Return(RunResult(ended, CarriedAnswer, drawn), answer)
      BY <1>13, <2>2 DEF Finally
    <3>2. path' = path /\ answer \in AnswerForms
      BY <1>13 DEF Finally, TypeOK
    <3>3. path = "blocks" => (answer.ready => RunResult(ended, CarriedAnswer, drawn).ready)
      BY ResultFields DEF Carried, CarriedAnswer
    <3> QED BY <3>1, <3>2, <3>3, ReturnCarries DEF Carried
  <2>3. CASE ended \in {"exit", "escaped"}
    BY <1>13, <2>3 DEF Finally, answers, Carried, AnswerCarried
  <2> QED BY <1>13, <2>1, <2>2, <2>3 DEF Finally, TypeOK, Concluded, Ends
<1>14. CASE FinishRun
  <2>1. /\ Injected(answer) \in AnswerForms
        /\ Injected(answer).form # "dict" => ~Injected(answer).ready
    BY Formed, NotDict DEF TypeOK, Carried, Injected
  <2>2. Return(RunResult("ok", Injected(answer), lastSeq), Injected(answer))
    BY <1>14 DEF FinishRun
  <2> QED BY <2>1, <2>2, ResultFields, ReturnCarries
<1>15. CASE AlarmInBlock
  BY <1>15 DEF AlarmInBlock, answers, Carried, AnswerCarried
<1>16. CASE AlarmInHandler
  BY <1>16 DEF AlarmInHandler, answers, Carried, AnswerCarried
<1>17. CASE AlarmInFinally
  BY <1>17 DEF AlarmInFinally, answers, Carried, AnswerCarried
<1>18. CASE Abandoned
  BY <1>18 DEF Abandoned, answers, Carried, AnswerCarried
<1>19. CASE ResetAnswer
  BY <1>19, NotDict DEF ResetAnswer, Carried, AnswerCarried
<1>20. CASE ClearState \/ CloseKernel
  BY <1>20, NotDict DEF ClearState, CloseKernel, Clear, Carried, AnswerCarried
<1>21. CASE EditFile
  BY <1>21 DEF EditFile, executor, answers, Carried, AnswerCarried
<1>22. CASE UNCHANGED vars
  BY <1>22 DEF vars, executor, answers, Carried, AnswerCarried
<1> QED
  BY <1>1, <1>2, <1>3, <1>4, <1>5, <1>6, <1>7, <1>8, <1>9, <1>10, <1>11, <1>12, <1>13,
     <1>14, <1>15, <1>16, <1>17, <1>18, <1>19, <1>20, <1>21, <1>22 DEF Next

\* However a run of blocks ends, an answer the code has marked ready reaches
\* the loop: also when a later block raised or timed out, or deleted the answer
\* (BlockExecutor, the results of failed blocks; REPLManager.execute).
THEOREM AnswerReachesLoop == Spec => []AnswerCarried
<1>1. Init => Carried
  BY NotDict DEF Init, Carried, AnswerCarried
<1>2. TypeOK /\ Carried /\ [Next]_vars => Carried'
  BY CarriedKept
<1>3. Carried => AnswerCarried
  BY DEF Carried
<1> QED BY <1>1, <1>2, <1>3, TypeCorrect, PTL DEF Spec

-----------------------------------------------------------------------------
(* The kernel: the modules                                                 *)

LEMMA EditedTracked ==
  ASSUME FilesOK, Tracked, NEW m \in Modules, Edited(m)
  PROVE  Tracked'
<1> SUFFICES ASSUME NEW x \in Modules
             PROVE  /\ mtimes'[x] <= disk'[x]
                    /\ loaded'[x] > 0 /\ x \notin Blocked =>
                         \/ loaded'[x] = disk'[x]
                         \/ x \in missed'
                         \/ mtimes'[x] > 0 /\ mtimes'[x] < disk'[x]
  BY DEF Tracked
<1>1. /\ UNCHANGED <<loaded, mtimes>> /\ missed \subseteq missed'
      /\ disk'[x] = IF x = m THEN disk[x] + 1 ELSE disk[x]
      /\ loaded[m] > 0 /\ mtimes[m] = 0 => m \in missed'
  BY DEF Edited, FilesOK
<1>2. disk[x] \in Nat /\ loaded[x] \in Nat /\ mtimes[x] \in Nat
  BY DEF FilesOK
<1> QED BY <1>1, <1>2 DEF Tracked

LEMMA ImportedTracked ==
  ASSUME FilesOK, Tracked, NEW m \in Modules, Imported(m)
  PROVE  Tracked'
<1>1. \A x \in Modules : loaded'[x] = IF x = m THEN disk[x] ELSE loaded[x]
  BY DEF Imported, FilesOK
<1> QED BY <1>1 DEF Imported, Tracked

\* The reload of part of the modules, which an alarm may cut short.
LEMMA ReloadTracked ==
  ASSUME FilesOK, Tracked, NEW done, NEW failing, done \subseteq Modules,
         ReloadStale(done, failing)
  PROVE  /\ Tracked'
         /\ \A m \in done \ Blocked :
              loaded'[m] > 0 => loaded'[m] = disk'[m] \/ m \in missed'
<1>1. \A m \in Modules :
        /\ disk'[m] = disk[m]
        /\ loaded'[m] = IF m \in (Stale \cap done) \ failing THEN disk[m] ELSE loaded[m]
        /\ mtimes'[m] = IF m \in SrcModules \cap done THEN disk[m] ELSE mtimes[m]
  BY DEF ReloadStale
<1>2. missed' = (missed \ ((Stale \cap done) \ failing)) \cup (Stale \cap done \cap failing)
  BY DEF ReloadStale
<1>3. ASSUME NEW m \in Modules
      PROVE  /\ disk[m] \in Nat /\ loaded[m] \in Nat /\ mtimes[m] \in Nat
             /\ m \in SrcModules <=> m \notin Blocked /\ loaded[m] > 0
             /\ m \in Stale <=> m \in SrcModules /\ mtimes[m] > 0 /\ disk[m] > mtimes[m]
  BY DEF FilesOK, Stale, SrcModules
<1>4. ASSUME NEW m \in done \ Blocked, loaded'[m] > 0
      PROVE  loaded'[m] = disk'[m] \/ m \in missed'
  BY <1>1, <1>2, <1>3, <1>4 DEF Tracked
<1>5. ASSUME NEW m \in Modules
      PROVE  /\ mtimes'[m] <= disk'[m]
             /\ loaded'[m] > 0 /\ m \notin Blocked =>
                  \/ loaded'[m] = disk'[m]
                  \/ m \in missed'
                  \/ mtimes'[m] > 0 /\ mtimes'[m] < disk'[m]
  <2>1. CASE m \in done
    BY <1>1, <1>3, <1>4, <2>1 DEF Tracked
  <2>2. CASE m \notin done
    BY <1>1, <1>2, <1>3, <2>2 DEF Tracked
  <2> QED BY <2>1, <2>2
<1> QED BY <1>4, <1>5 DEF Tracked

LEMMA RecordTracked ==
  ASSUME FilesOK, Tracked, RecordNew
  PROVE  Tracked'
<1>1. \A m \in Modules :
        /\ disk'[m] = disk[m] /\ loaded'[m] = loaded[m]
        /\ mtimes'[m] = IF m \in SrcModules /\ mtimes[m] = 0 THEN disk[m] ELSE mtimes[m]
  BY DEF RecordNew
<1>2. missed' = missed
  BY DEF RecordNew
<1>3. \A m \in Modules : disk[m] \in Nat /\ loaded[m] \in Nat /\ mtimes[m] \in Nat
  BY DEF FilesOK
<1>4. ASSUME NEW m \in Modules
      PROVE  /\ mtimes'[m] <= disk'[m]
             /\ loaded'[m] > 0 /\ m \notin Blocked =>
                  \/ loaded'[m] = disk'[m]
                  \/ m \in missed'
                  \/ mtimes'[m] > 0 /\ mtimes'[m] < disk'[m]
  BY <1>1, <1>2, <1>3 DEF Tracked
<1> QED BY <1>4 DEF Tracked

LEMMA TrackedKept ==
  ASSUME TypeOK, Tracked, [Next]_vars
  PROVE  Tracked'
<1> USE TypeParts
<1>1. UNCHANGED files => Tracked'
  BY DEF files, Tracked
<1>2. ASSUME NEW failing \in SUBSET Modules, Reload(failing)
      PROVE  Tracked'
  BY <1>2, ReloadTracked DEF Reload
<1>3. ASSUME NEW how \in {"ok", "raised", "exit"}, RunCode(how)
      PROVE  Tracked'
  BY <1>1, <1>3, ImportedTracked, EditedTracked DEF RunCode
<1>4. ASSUME NEW how \in {"ok", "warning", "timeout"}, Bash(how)
      PROVE  Tracked'
  BY <1>1, <1>4, EditedTracked DEF Bash
<1>5. CASE AlarmInBlock
  BY <1>1, <1>5, ReloadTracked DEF AlarmInBlock
<1>6. CASE EditFile
  BY <1>6, EditedTracked DEF EditFile
<1>7. CASE Record
  BY <1>7, RecordTracked DEF Record
<1>8. ASSUME \/ \E n \in 1..MaxBlocks : \E blocks \in [1..n -> Blocks] : ExecuteBlocks(blocks)
             \/ \E block \in Blocks : Execute(block)
      PROVE  UNCHANGED files
  BY <1>8 DEF ExecuteBlocks, Execute, Begin
<1>9. ASSUME Skip \/ BadMagic \/ Arm \/ EnterCapture \/ LeaveCapture
      PROVE  UNCHANGED files
  BY <1>9 DEF Skip, BadMagic, Arm, EnterCapture, LeaveCapture
<1>10. ASSUME HandleException \/ Finally \/ FinishRun \/ AlarmInHandler \/ AlarmInFinally
       PROVE  UNCHANGED files
  BY <1>10 DEF HandleException, Finally, FinishRun, AlarmInHandler, AlarmInFinally
<1>11. ASSUME Abandoned \/ ResetAnswer \/ ClearState \/ CloseKernel \/ UNCHANGED vars
       PROVE  UNCHANGED files
  BY <1>11 DEF Abandoned, ResetAnswer, ClearState, CloseKernel, Clear, vars
<1> QED
  BY <1>1, <1>2, <1>3, <1>4, <1>5, <1>6, <1>7, <1>8, <1>9, <1>10, <1>11 DEF Next

\* What goes on from the reload to the code.
LEMMA OnlyReload ==
  ASSUME TypeOK, [Next]_vars, pc = "reload", pc' = "exec"
  PROVE  \E failing \in SUBSET Modules : Reload(failing)
<1>1. ASSUME \/ \E n \in 1..MaxBlocks : \E blocks \in [1..n -> Blocks] : ExecuteBlocks(blocks)
             \/ \E block \in Blocks : Execute(block)
             \/ \E how \in {"ok", "warning", "timeout"} : Bash(how)
      PROVE  FALSE
  BY <1>1 DEF ExecuteBlocks, Execute, Begin, Bash
<1>2. ASSUME Skip \/ BadMagic \/ Arm \/ EnterCapture \/ LeaveCapture \/ Record
      PROVE  FALSE
  BY <1>2 DEF Skip, BadMagic, Arm, EnterCapture, LeaveCapture, Record, Step
<1>3. ASSUME HandleException \/ Finally \/ FinishRun \/ AlarmInBlock \/ AlarmInHandler \/ AlarmInFinally
      PROVE  FALSE
  BY <1>3 DEF HandleException, Step, Finally, FinishRun, AlarmInBlock, AlarmInHandler, AlarmInFinally
<1>4. ASSUME Abandoned \/ ResetAnswer \/ ClearState \/ CloseKernel \/ EditFile \/ UNCHANGED vars
      PROVE  FALSE
  BY <1>4 DEF Abandoned, ResetAnswer, ClearState, CloseKernel, Clear, EditFile, vars, executor
<1>5. ASSUME \E how \in {"ok", "raised", "exit"} : RunCode(how)
      PROVE  FALSE
  BY <1>5 DEF RunCode, Step
<1> QED BY <1>1, <1>2, <1>3, <1>4, <1>5 DEF Next

\* When a block's code begins to run, every loaded project module is what the
\* disk holds, but for edits the kernel could not see and reloads that failed:
\* also after an alarm cut an earlier reload short (module_reloader.py).
THEOREM CodeIsFresh == Spec => FreshModules
<1> DEFINE Fresh ==
      Len(batch) > 0 /\ pc = "reload" /\ pc' = "exec" =>
        \A m \in Modules \ Blocked :
          loaded'[m] > 0 => loaded'[m] = disk'[m] \/ m \in missed'
<1>1. Init => Tracked
  <2> SUFFICES ASSUME Init, NEW m \in Modules
               PROVE  /\ mtimes[m] <= disk[m]
                      /\ loaded[m] > 0 => loaded[m] = disk[m]
    BY DEF Tracked
  <2>1. loaded[m] \in {0, 1} /\ disk[m] = 1 /\ mtimes[m] = 0
    BY DEF Init
  <2> QED BY <2>1
<1>2. TypeOK /\ Tracked /\ [Next]_vars => Tracked'
  BY TrackedKept
<1>3. TypeOK /\ Tracked /\ [Next]_vars => [Fresh]_vars
  <2> SUFFICES ASSUME TypeOK, Tracked, [Next]_vars, pc = "reload", pc' = "exec"
               PROVE  \A m \in Modules \ Blocked :
                        loaded'[m] > 0 => loaded'[m] = disk'[m] \/ m \in missed'
    BY DEF Fresh
  <2>1. \E failing \in SUBSET Modules : ReloadStale(Modules, failing)
    BY OnlyReload DEF Reload
  <2> QED BY <2>1, ReloadTracked, TypeParts
<1> QED BY <1>1, <1>2, <1>3, TypeCorrect, PTL DEF Spec, FreshModules, Fresh

-----------------------------------------------------------------------------
(* The repair: lists put together from pieces                              *)

LEMMA SmallestNumber ==
  ASSUME NEW S \in SUBSET Nat, S # {}
  PROVE  \E m \in S : \A k \in S : m <= k
<1> DEFINE Lt == {p \in Nat \X Nat : p[1] < p[2]}
<1>1. IsWellFoundedOn(Lt, Nat)
  BY NatLessThanWellFounded DEF OpToRel
<1>2. \A x, y \in Nat : <<y, x>> \in Lt <=> y < x
  OBVIOUS
<1> HIDE DEF Lt
<1>3. PICK x \in S : \A y \in S : ~ (<<y, x>> \in Lt)
  BY <1>1, WFMin
<1>4. x \in Nat /\ \A y \in S : y \in Nat /\ ~(y < x)
  BY <1>2, <1>3
<1> QED BY <1>3, <1>4

LEMMA EveryNumber ==
  ASSUME NEW S, 0 \in S, \A k \in Nat : k \in S => k + 1 \in S
  PROVE  \A k \in Nat : k \in S
<1> DEFINE Bad == {k \in Nat : k \notin S}
<1> SUFFICES ASSUME Bad # {} PROVE FALSE
  OBVIOUS
<1>1. Bad \in SUBSET Nat /\ \A k \in Nat : k \in Bad <=> k \notin S
  OBVIOUS
<1> HIDE DEF Bad
<1>2. PICK m \in Bad : \A k \in Bad : m <= k
  BY <1>1, SmallestNumber
<1>3. m \in Nat /\ m # 0
  BY <1>1
<1>4. m - 1 \in Nat /\ ~(m <= m - 1) /\ (m - 1) + 1 = m
  BY <1>3
<1>5. m - 1 \in S
  BY <1>1, <1>2, <1>4
<1> QED BY <1>1, <1>4, <1>5

\* What has come together after each piece.
Piled(pile, parts) ==
  /\ pile[0] = <<>>
  /\ \A k \in 1..Len(parts) : pile[k] = pile[k - 1] \o parts[k]

IsFlattening(f, parts, n) ==
  f = [k \in 1..n |-> IF k = 1 THEN parts[k] ELSE f[k - 1] \o parts[k]]

LEMMA FlatteningExists ==
  ASSUME NEW parts
  PROVE  \A n \in Nat : \E f : IsFlattening(f, parts, n)
<1> DEFINE S == {n \in Nat : \E f : IsFlattening(f, parts, n)}
<1>1. 0 \in S
  <2>1. IsFlattening([k \in 1..0 |-> <<>>], parts, 0)
    BY DEF IsFlattening
  <2> QED BY <2>1
<1>2. ASSUME NEW n \in Nat, n \in S PROVE n + 1 \in S
  <2>1. PICK f : IsFlattening(f, parts, n)
    BY <1>2
  <2> DEFINE g == [k \in 1..(n + 1) |->
                     IF k = n + 1 THEN IF n = 0 THEN parts[n + 1] ELSE f[n] \o parts[n + 1]
                     ELSE f[k]]
  <2>2. \A k \in 1..n : f[k] = IF k = 1 THEN parts[k] ELSE f[k - 1] \o parts[k]
    BY <2>1 DEF IsFlattening
  <2>3. \A k \in 1..(n + 1) : g[k] = IF k = 1 THEN parts[k] ELSE g[k - 1] \o parts[k]
    BY <2>2
  <2>4. g = [k \in 1..(n + 1) |-> g[k]]
    OBVIOUS
  <2>5. IsFlattening(g, parts, n + 1)
    <3> HIDE DEF g
    <3> QED BY <2>3, <2>4 DEF IsFlattening
  <2> QED BY <2>5
<1> HIDE DEF S
<1>3. \A n \in Nat : n \in S
  BY <1>1, <1>2, EveryNumber
<1> QED BY <1>3 DEF S

\* FlattenSeq by its piles.
LEMMA Flattened ==
  ASSUME NEW E, NEW parts \in Seq(Seq(E))
  PROVE  \E pile \in [0..Len(parts) -> Seq(E)] :
            Piled(pile, parts) /\ FlattenSeq(parts) = pile[Len(parts)]
<1>1. Len(parts) \in Nat /\ \A k \in 1..Len(parts) : parts[k] \in Seq(E)
  OBVIOUS
<1>2. CASE Len(parts) = 0
  <2> DEFINE pile == [k \in 0..0 |-> <<>>]
  <2>1. parts = <<>>
    BY <1>2
  <2>2. FlattenSeq(parts) = <<>>
    BY <1>2, <2>1 DEF FlattenSeq
  <2>3. <<>> \in Seq(E)
    OBVIOUS
  <2>4. pile \in [0..Len(parts) -> Seq(E)] /\ pile[0] = <<>>
    BY <1>2, <2>3
  <2> HIDE DEF pile
  <2> QED BY <1>2, <2>2, <2>4 DEF Piled
<1>3. CASE Len(parts) # 0
  <2>1. PICK f : IsFlattening(f, parts, Len(parts)) /\ FlattenSeq(parts) = f[Len(parts)]
    <3>1. \E f : IsFlattening(f, parts, Len(parts))
      BY <1>1, FlatteningExists
    <3>2. FlattenSeq(parts) = (CHOOSE f : IsFlattening(f, parts, Len(parts)))[Len(parts)]
      BY <1>3 DEF FlattenSeq, IsFlattening
    <3> QED BY <3>1, <3>2
  <2>2. \A k \in 1..Len(parts) : f[k] = IF k = 1 THEN parts[k] ELSE f[k - 1] \o parts[k]
    BY <2>1 DEF IsFlattening
  <2> DEFINE pile == [k \in 0..Len(parts) |-> IF k = 0 THEN <<>> ELSE f[k]]
  <2>3. ASSUME NEW k \in 1..Len(parts) PROVE pile[k] = pile[k - 1] \o parts[k]
    <3>1. CASE k = 1
      <4>1. parts[1] = <<>> \o parts[1]
        BY <1>1, <3>1, ConcatEmptySeq
      <4>2. pile[1] = f[1] /\ pile[0] = <<>> /\ f[1] = parts[1] /\ 1 - 1 = 0
        BY <1>1, <2>2, <3>1
      <4> HIDE DEF pile
      <4> QED BY <3>1, <4>1, <4>2
    <3>2. CASE k # 1
      <4>1. k \in Nat /\ k # 0 /\ k - 1 # 0 /\ k - 1 \in 0..Len(parts) /\ k \in 0..Len(parts)
        BY <1>1, <3>2
      <4>2. pile[k] = f[k] /\ pile[k - 1] = f[k - 1]
        BY <4>1
      <4>3. f[k] = f[k - 1] \o parts[k]
        BY <2>2, <3>2
      <4> HIDE DEF pile
      <4> QED BY <4>2, <4>3
    <3> QED BY <3>1, <3>2
  <2>4. pile[0] = <<>> /\ pile[Len(parts)] = FlattenSeq(parts)
    BY <1>1, <1>3, <2>1
  <2>5. DOMAIN pile = 0..Len(parts) /\ pile = [k \in 0..Len(parts) |-> pile[k]]
    OBVIOUS
  <2> HIDE DEF pile
  <2> DEFINE S == {k \in Nat : k <= Len(parts) => pile[k] \in Seq(E)}
  <2>6. 0 \in S
    <3>1. <<>> \in Seq(E)
      OBVIOUS
    <3> QED BY <2>4, <3>1
  <2>7. ASSUME NEW k \in Nat, k \in S PROVE k + 1 \in S
    <3> SUFFICES ASSUME k + 1 <= Len(parts) PROVE pile[k + 1] \in Seq(E)
      OBVIOUS
    <3>1. k + 1 \in 1..Len(parts) /\ (k + 1) - 1 = k /\ k <= Len(parts)
      BY <1>1
    <3>2. pile[k] \in Seq(E) /\ parts[k + 1] \in Seq(E) /\ pile[k + 1] = pile[k] \o parts[k + 1]
      BY <1>1, <2>3, <2>7, <3>1
    <3> QED BY <3>2, ConcatProperties
  <2> HIDE DEF S
  <2>8. \A k \in Nat : k \in S
    BY <2>6, <2>7, EveryNumber
  <2>9. \A k \in 0..Len(parts) : pile[k] \in Seq(E)
    BY <1>1, <2>8 DEF S
  <2>10. pile \in [0..Len(parts) -> Seq(E)]
    BY <2>5, <2>9
  <2> QED BY <2>3, <2>4, <2>10 DEF Piled
<1> QED BY <1>2, <1>3

AgreeUpTo(n, parts, more) ==
  /\ n \in Nat /\ Len(parts) \in Nat /\ Len(more) \in Nat
  /\ n <= Len(parts) /\ n <= Len(more)
  /\ \A k \in 1..n : parts[k] = more[k]

LEMMA PilesAgree ==
  ASSUME NEW parts, NEW more, NEW n, NEW pile, NEW other,
         AgreeUpTo(n, parts, more), Piled(pile, parts), Piled(other, more)
  PROVE  \A k \in 0..n : pile[k] = other[k]
<1> USE DEF AgreeUpTo
<1> DEFINE S == {k \in Nat : k <= n => pile[k] = other[k]}
<1>1. 0 \in S
  BY DEF Piled
<1>2. ASSUME NEW k \in Nat, k \in S PROVE k + 1 \in S
  <2> SUFFICES ASSUME k + 1 <= n PROVE pile[k + 1] = other[k + 1]
    OBVIOUS
  <2>1. /\ k + 1 \in 1..n /\ k + 1 \in 1..Len(parts) /\ k + 1 \in 1..Len(more)
        /\ (k + 1) - 1 = k /\ k <= n
    OBVIOUS
  <2>2. pile[k + 1] = pile[k] \o parts[k + 1] /\ other[k + 1] = other[k] \o more[k + 1]
    BY <2>1 DEF Piled
  <2> QED BY <1>2, <2>1, <2>2
<1> HIDE DEF S
<1>3. \A k \in Nat : k \in S
  BY <1>1, <1>2, EveryNumber
<1> QED BY <1>3 DEF S

LEMMA Regrouped ==
  ASSUME NEW E, NEW x \in Seq(E)
  PROVE  \A y, z \in Seq(E) : (x \o y) \o z = x \o (y \o z)
<1>1. \A S : \A s, t, u \in Seq(S) : (s \o t) \o u = s \o (t \o u)
  BY ConcatAssociative, Zenon
<1> QED BY <1>1

LEMMA FlattenConcat ==
  ASSUME NEW E, NEW s \in Seq(Seq(E)), NEW t \in Seq(Seq(E))
  PROVE  /\ FlattenSeq(s) \in Seq(E)
         /\ FlattenSeq(s \o t) = FlattenSeq(s) \o FlattenSeq(t)
<1> DEFINE all == s \o t
<1>1. /\ all \in Seq(Seq(E)) /\ Len(s) \in Nat /\ Len(t) \in Nat
      /\ Len(all) = Len(s) + Len(t)
      /\ \A i \in 1..(Len(s) + Len(t)) :
            all[i] = IF i <= Len(s) THEN s[i] ELSE t[i - Len(s)]
      /\ \A i \in 1..Len(t) : t[i] \in Seq(E)
  BY ConcatProperties
<1> HIDE DEF all
<1>2. PICK p \in [0..Len(s) -> Seq(E)] : Piled(p, s) /\ FlattenSeq(s) = p[Len(s)]
  BY Flattened
<1>3. PICK q \in [0..Len(t) -> Seq(E)] : Piled(q, t) /\ FlattenSeq(t) = q[Len(t)]
  BY Flattened
<1>4. PICK r \in [0..Len(all) -> Seq(E)] : Piled(r, all) /\ FlattenSeq(all) = r[Len(all)]
  BY <1>1, Flattened
<1>5. PICK x \in Seq(E) : x = p[Len(s)] /\ r[Len(s)] = x
  <2>1. \A k \in 1..Len(s) : s[k] = all[k]
    BY <1>1
  <2>2. Len(s) <= Len(s) /\ Len(s) <= Len(all) /\ Len(all) \in Nat /\ Len(s) \in 0..Len(s)
    BY <1>1
  <2>3. \A k \in 0..Len(s) : p[k] = r[k]
    <3>1. AgreeUpTo(Len(s), s, all)
      BY <1>1, <2>1, <2>2 DEF AgreeUpTo
    <3>2. Piled(p, s) /\ Piled(r, all)
      BY <1>2, <1>4
    <3>3. ASSUME NEW u, NEW v, Piled(u, s), Piled(v, all) PROVE \A k \in 0..Len(s) : u[k] = v[k]
      BY <3>1, <3>3, PilesAgree
    <3> QED BY <3>2, <3>3, Zenon
  <2> QED BY <1>2, <2>2, <2>3
<1>10. \A y, z \in Seq(E) : (x \o y) \o z = x \o (y \o z)
  BY Regrouped
<1> DEFINE S == {k \in Nat : k <= Len(t) => r[Len(s) + k] = x \o q[k]}
<1>6. 0 \in S
  <2>1. q[0] = <<>> /\ Len(s) + 0 = Len(s)
    BY <1>1, <1>3 DEF Piled
  <2>2. x \o <<>> = x
    BY ConcatEmptySeq
  <2> QED BY <1>5, <2>1, <2>2
<1>7. ASSUME NEW k \in Nat, k \in S PROVE k + 1 \in S
  <2>1. ASSUME k + 1 <= Len(t) PROVE r[Len(s) + (k + 1)] = x \o q[k + 1]
    <3>1. /\ k + 1 \in 1..Len(t) /\ (k + 1) - 1 = k /\ k \in 0..Len(t) /\ k <= Len(t)
          /\ Len(s) + (k + 1) \in 1..(Len(s) + Len(t))
          /\ (Len(s) + (k + 1)) - 1 = Len(s) + k
          /\ ~(Len(s) + (k + 1) <= Len(s)) /\ (Len(s) + (k + 1)) - Len(s) = k + 1
      BY <1>1, <2>1
    <3>2. r[Len(s) + (k + 1)] = r[Len(s) + k] \o all[Len(s) + (k + 1)]
      BY <1>1, <1>4, <3>1 DEF Piled
    <3>3. all[Len(s) + (k + 1)] = t[k + 1]
      BY <1>1, <3>1
    <3>4. r[Len(s) + k] = x \o q[k]
      BY <1>7, <3>1
    <3>5. q[k + 1] = q[k] \o t[k + 1]
      BY <1>3, <3>1 DEF Piled
    <3>6. x \in Seq(E) /\ q[k] \in Seq(E) /\ t[k + 1] \in Seq(E)
      BY <1>1, <1>3, <3>1
    <3>7. (x \o q[k]) \o t[k + 1] = x \o (q[k] \o t[k + 1])
      BY <1>10, <3>6, Zenon
    <3> QED BY <3>2, <3>3, <3>4, <3>5, <3>7, Zenon
  <2>2. k + 1 \in Nat
    OBVIOUS
  <2> QED BY <2>1, <2>2, Zenon
<1> HIDE DEF S
<1>8. \A k \in Nat : k \in S
  BY <1>6, <1>7, EveryNumber
<1>9. r[Len(s) + Len(t)] = x \o q[Len(t)]
  <2>1. Len(t) \in S /\ Len(t) <= Len(t)
    BY <1>1, <1>8
  <2> QED BY <2>1, Zenon DEF S
<1> QED BY <1>1, <1>2, <1>3, <1>4, <1>5, <1>9 DEF all

LEMMA FlattenOne ==
  ASSUME NEW E, NEW part \in Seq(E)
  PROVE  FlattenSeq(<<part>>) = part
<1>1. <<part>> \in Seq(Seq(E)) /\ Len(<<part>>) = 1 /\ <<part>>[1] = part
  OBVIOUS
<1>2. PICK pile \in [0..Len(<<part>>) -> Seq(E)] :
         Piled(pile, <<part>>) /\ FlattenSeq(<<part>>) = pile[Len(<<part>>)]
  BY <1>1, Flattened
<1>3. pile[0] = <<>> /\ pile[1] = pile[0] \o part
  <2>1. 1 \in 1..Len(<<part>>) /\ 1 - 1 = 0
    BY <1>1
  <2> QED BY <1>1, <1>2, <2>1 DEF Piled
<1>4. <<>> \o part = part
  BY ConcatEmptySeq
<1> QED BY <1>1, <1>2, <1>3, <1>4

LEMMA FlattenEmpty == FlattenSeq(<<>>) = <<>>
BY DEF FlattenSeq

\* Pieces that are all empty come to nothing.
LEMMA FlattenNothing ==
  ASSUME NEW E, NEW parts \in Seq(Seq(E)), \A k \in 1..Len(parts) : parts[k] = <<>>
  PROVE  FlattenSeq(parts) = <<>>
<1>1. Len(parts) \in Nat
  OBVIOUS
<1>2. PICK pile \in [0..Len(parts) -> Seq(E)] :
         Piled(pile, parts) /\ FlattenSeq(parts) = pile[Len(parts)]
  BY Flattened
<1> DEFINE S == {k \in Nat : k <= Len(parts) => pile[k] = <<>>}
<1>3. 0 \in S
  BY <1>2 DEF Piled
<1>4. ASSUME NEW k \in Nat, k \in S PROVE k + 1 \in S
  <2> SUFFICES ASSUME k + 1 <= Len(parts) PROVE pile[k + 1] = <<>>
    OBVIOUS
  <2>1. k + 1 \in 1..Len(parts) /\ (k + 1) - 1 = k /\ k <= Len(parts)
    BY <1>1
  <2>2. pile[k + 1] = pile[k] \o parts[k + 1] /\ parts[k + 1] = <<>> /\ pile[k] = <<>>
    BY <1>2, <1>4, <2>1 DEF Piled
  <2>3. <<>> \o <<>> = <<>>
    BY ConcatEmptySeq
  <2> QED BY <2>2, <2>3
<1> HIDE DEF S
<1>5. \A k \in Nat : k \in S
  BY <1>3, <1>4, EveryNumber
<1> QED BY <1>1, <1>2, <1>5 DEF S

-----------------------------------------------------------------------------
(* Lines, and what they say                                                *)

LEMMA TextLines == Texts \subseteq Line
BY DEF Line

LEMMA SaysType ==
  ASSUME NEW l \in Line
  PROVE  Says(l) \in Seq(Line)
<1>1. ASSUME l.kind = "bare" PROVE l.rest \in Line
  BY <1>1, TextLines DEF Line, Texts, Text
<1>2. Says(l) = <<>> \/ \E x \in Line : Says(l) = <<x>>
  BY <1>1 DEF Says
<1>3. <<>> \in Seq(Line) /\ \A x \in Line : <<x>> \in Seq(Line)
  OBVIOUS
<1> QED BY <1>2, <1>3, Zenon

LEMMA Fences ==
  ASSUME NEW lang \in Langs
  PROVE  /\ Open(ActiveStyle, lang) \in Line /\ Says(Open(ActiveStyle, lang)) = <<>>
         /\ Close(ActiveStyle, lang) \in Line /\ Says(Close(ActiveStyle, lang)) = <<>>
<1>1. Open(ActiveStyle, lang) \in [kind : {"open"}, style : Styles, lang : Langs]
  BY ActiveStyleAssumption DEF Open
<1>2. Close(ActiveStyle, lang)
        \in [kind : {"close"}, style : Styles, lang : Langs, tail : BOOLEAN]
  BY ActiveStyleAssumption DEF Close, Langs
<1>3. Says(Open(ActiveStyle, lang)) = <<>>
  BY DEF Says, Open
<1>4. Says(Close(ActiveStyle, lang)) = <<>>
  BY DEF Says, Close
<1> QED BY <1>1, <1>2, <1>3, <1>4 DEF Line

LEMMA Blanks == Blank \in Line /\ Says(Blank) = <<>> /\ Text("prose") \in Line
<1>1. Text("prose") \in Texts /\ Blank \in Texts
  BY DEF Texts, Blank
<1>2. Says(Blank) = <<>>
  BY DEF Says, IsBlank, Blank, Text
<1> QED BY <1>1, <1>2, TextLines

\* Fences and tags say nothing, and blank lines neither.
LEMMA Silent ==
  ASSUME NEW l \in Line, LineFenceLike(l) \/ IsBlank(l)
  PROVE  Says(l) = <<>>
<1>1. CASE IsBlank(l)
  BY <1>1, Blanks DEF IsBlank
<1>2. CASE LineFenceLike(l)
  BY <1>2 DEF LineFenceLike, Says
<1> QED BY <1>1, <1>2

LEMMA Openers ==
  ASSUME NEW l \in Line, NEW style, IsOpener(l, style)
  PROVE  l.lang \in Langs /\ LineFenceLike(l)
BY DEF IsOpener, LineFenceLike, Line, Texts, Text

LEMMA Closers ==
  ASSUME NEW l, NEW style, IsCloser(l, style)
  PROVE  LineFenceLike(l)
BY DEF IsCloser, LineFenceLike

LEMMA Tags ==
  ASSUME NEW l \in Line, l.kind = "tag"
  PROVE  l.lang \in Langs /\ LineFenceLike(l)
BY DEF LineFenceLike, Line, Texts, Text

LEMMA Glued ==
  ASSUME NEW l \in Line
  PROVE  /\ l.kind = "fused" => l.lang \in Langs /\ Says(l) = <<>>
         /\ l.kind = "bare" =>
               l.lang \in Langs /\ l.rest \in Line /\ Says(l.rest) = Says(l)
               /\ l.rest.kind = "text"
<1>1. ASSUME l.kind = "fused" PROVE l.lang \in Langs /\ Says(l) = <<>>
  <2>1. l.lang \in Langs
    BY <1>1 DEF Line, Texts, Text
  <2> QED BY <1>1, <2>1 DEF Says
<1>2. ASSUME l.kind = "bare"
      PROVE  /\ l.lang \in Langs /\ l.rest \in Line /\ Says(l.rest) = Says(l)
             /\ l.rest.kind = "text"
  <2>1. l.lang \in Langs /\ l.rest \in Texts
    BY <1>2 DEF Line, Texts, Text
  <2>2. l.rest.kind = "text"
    BY <2>1 DEF Texts, Text
  <2>3. Says(l.rest) = Says(l)
    BY <1>2, <2>2 DEF Says
  <2> QED BY <2>1, <2>2, <2>3, TextLines
<1> QED BY <1>1, <1>2

\* What every line of a list says.
Sayings(lines) == [i \in DOMAIN lines |-> Says(lines[i])]

LEMMA SayingsType ==
  ASSUME NEW lines \in Seq(Line)
  PROVE  /\ Sayings(lines) \in Seq(Seq(Line)) /\ Len(Sayings(lines)) = Len(lines)
         /\ \A i \in 1..Len(lines) : Sayings(lines)[i] = Says(lines[i])
         /\ Content(lines) = FlattenSeq(Sayings(lines))
<1>1. Len(lines) \in Nat /\ DOMAIN lines = 1..Len(lines)
  OBVIOUS
<1>2. \A i \in 1..Len(lines) : Says(lines[i]) \in Seq(Line)
  BY SaysType
<1>3. Sayings(lines) \in [1..Len(lines) -> Seq(Line)]
  BY <1>1, <1>2 DEF Sayings
<1>4. Sayings(lines) \in Seq(Seq(Line)) /\ Len(Sayings(lines)) = Len(lines)
  BY <1>1, <1>3
<1>5. \A i \in 1..Len(lines) : Sayings(lines)[i] = Says(lines[i])
  BY <1>1 DEF Sayings
<1>6. Content(lines) = FlattenSeq(Sayings(lines))
  BY DEF Content, Sayings
<1> QED BY <1>4, <1>5, <1>6

LEMMA ContentConcat ==
  ASSUME NEW s \in Seq(Line), NEW t \in Seq(Line)
  PROVE  /\ Content(s) \in Seq(Line)
         /\ Content(s \o t) = Content(s) \o Content(t)
<1>1. /\ s \o t \in Seq(Line) /\ Len(s \o t) = Len(s) + Len(t)
      /\ Len(s) \in Nat /\ Len(t) \in Nat
      /\ \A i \in 1..(Len(s) + Len(t)) :
            (s \o t)[i] = IF i <= Len(s) THEN s[i] ELSE t[i - Len(s)]
  BY ConcatProperties
<1> DEFINE all == s \o t
<1> DEFINE a == Sayings(s)
<1> DEFINE b == Sayings(t)
<1> DEFINE c == Sayings(all)
<1>2. /\ a \in Seq(Seq(Line)) /\ Len(a) = Len(s) /\ Content(s) = FlattenSeq(a)
      /\ \A i \in 1..Len(s) : a[i] = Says(s[i])
  BY SayingsType
<1>3. /\ b \in Seq(Seq(Line)) /\ Len(b) = Len(t) /\ Content(t) = FlattenSeq(b)
      /\ \A i \in 1..Len(t) : b[i] = Says(t[i])
  BY SayingsType
<1>4. /\ c \in Seq(Seq(Line)) /\ Len(c) = Len(all) /\ Content(all) = FlattenSeq(c)
      /\ \A i \in 1..Len(all) : c[i] = Says(all[i])
  BY <1>1, SayingsType
<1>5. /\ Len(all) = Len(s) + Len(t)
      /\ \A i \in 1..(Len(s) + Len(t)) :
            all[i] = IF i <= Len(s) THEN s[i] ELSE t[i - Len(s)]
  BY <1>1
<1> HIDE DEF all, a, b, c
<1>6. /\ a \o b \in Seq(Seq(Line)) /\ Len(a \o b) = Len(s) + Len(t)
      /\ \A i \in 1..(Len(s) + Len(t)) :
            (a \o b)[i] = IF i <= Len(s) THEN a[i] ELSE b[i - Len(s)]
  <2>1. /\ a \o b \in Seq(Seq(Line)) /\ Len(a \o b) = Len(a) + Len(b)
        /\ \A i \in 1..(Len(a) + Len(b)) :
            (a \o b)[i] = IF i <= Len(a) THEN a[i] ELSE b[i - Len(a)]
    <3>1. \A x, y \in Seq(Seq(Line)) :
             /\ x \o y \in Seq(Seq(Line)) /\ Len(x \o y) = Len(x) + Len(y)
             /\ \A i \in 1..(Len(x) + Len(y)) :
                   (x \o y)[i] = IF i <= Len(x) THEN x[i] ELSE y[i - Len(x)]
      BY ConcatProperties
    <3>2. a \in Seq(Seq(Line)) /\ b \in Seq(Seq(Line))
      BY <1>2, <1>3
    <3> QED BY <3>1, <3>2, Zenon
  <2> QED BY <1>2, <1>3, <2>1
<1>7. \A i \in 1..(Len(s) + Len(t)) : c[i] = (a \o b)[i]
  <2> SUFFICES ASSUME NEW i \in 1..(Len(s) + Len(t)) PROVE c[i] = (a \o b)[i]
    OBVIOUS
  <2>1. CASE i <= Len(s)
    <3>1. i \in 1..Len(s) /\ i \in 1..Len(all)
      BY <1>1, <1>5, <2>1
    <3>2. c[i] = Says(all[i]) /\ all[i] = s[i] /\ a[i] = Says(s[i]) /\ (a \o b)[i] = a[i]
      BY <1>2, <1>4, <1>5, <1>6, <2>1, <3>1
    <3> QED BY <3>2
  <2>2. CASE ~(i <= Len(s))
    <3>1. i - Len(s) \in 1..Len(t) /\ i \in 1..Len(all)
      BY <1>1, <1>5, <2>2
    <3>2. /\ c[i] = Says(all[i]) /\ all[i] = t[i - Len(s)]
          /\ b[i - Len(s)] = Says(t[i - Len(s)]) /\ (a \o b)[i] = b[i - Len(s)]
      BY <1>3, <1>4, <1>5, <1>6, <2>2, <3>1
    <3> QED BY <3>2
  <2> QED BY <2>1, <2>2
<1>8. c = a \o b
  <2>1. Len(c) = Len(a \o b) /\ \A i \in 1..Len(c) : c[i] = (a \o b)[i]
    BY <1>4, <1>5, <1>6, <1>7
  <2> QED BY <1>4, <1>6, <2>1, SeqEqual
<1>9. FlattenSeq(a) \in Seq(Line) /\ FlattenSeq(a \o b) = FlattenSeq(a) \o FlattenSeq(b)
  BY <1>2, <1>3, FlattenConcat
<1> QED BY <1>2, <1>3, <1>4, <1>8, <1>9 DEF all

LEMMA ContentOfOne ==
  ASSUME NEW l \in Line
  PROVE  Content(<<l>>) = Says(l)
<1> DEFINE one == <<l>>
<1>1. one \in Seq(Line) /\ Len(one) = 1 /\ one[1] = l /\ 1 \in 1..1
  OBVIOUS
<1> HIDE DEF one
<1> DEFINE said == Sayings(one)
<1>2. /\ said \in Seq(Seq(Line)) /\ Len(said) = Len(one) /\ Content(one) = FlattenSeq(said)
      /\ \A i \in 1..Len(one) : said[i] = Says(one[i])
  BY <1>1, SayingsType
<1> HIDE DEF said
<1>3. said = <<Says(l)>>
  BY <1>1, <1>2
<1>4. FlattenSeq(<<Says(l)>>) = Says(l)
  BY SaysType, FlattenOne
<1> QED BY <1>2, <1>3, <1>4 DEF one

LEMMA ContentOfNone == Content(<<>>) = <<>>
<1>1. [i \in DOMAIN <<>> |-> Says(<<>>[i])] = <<>>
  OBVIOUS
<1> QED BY <1>1, FlattenEmpty DEF Content

LEMMA ContentSilent ==
  ASSUME NEW lines \in Seq(Line), \A i \in 1..Len(lines) : Says(lines[i]) = <<>>
  PROVE  Content(lines) = <<>>
<1>1. \A i \in 1..Len(Sayings(lines)) : Sayings(lines)[i] = <<>>
  BY SayingsType
<1> QED BY <1>1, SayingsType, FlattenNothing

\* A stretch of a list, and the stretch that follows it.
LEMMA Stretch ==
  ASSUME NEW lines \in Seq(Line), NEW a \in Int, NEW b \in Int, 1 <= a, b <= Len(lines)
  PROVE  /\ SubSeq(lines, a, b) \in Seq(Line)
         /\ a <= b + 1 => Len(SubSeq(lines, a, b)) = b - a + 1
         /\ \A i \in 1..Len(SubSeq(lines, a, b)) :
               a + i - 1 \in a..b /\ SubSeq(lines, a, b)[i] = lines[a + i - 1]
         /\ Content(SubSeq(lines, a, b)) \in Seq(Line)
<1>1. Len(lines) \in Nat /\ \A i \in a..b : lines[i] \in Line
  OBVIOUS
<1> DEFINE part == SubSeq(lines, a, b)
<1>2. /\ part \in Seq(Line) /\ Len(part) = IF a <= b THEN b - a + 1 ELSE 0
      /\ \A i \in 1..(b - a + 1) : part[i] = lines[a + i - 1]
  BY <1>1, SubSeqProperties
<1> HIDE DEF part
<1>3. a <= b + 1 => Len(part) = b - a + 1
  BY <1>2
<1>4. \A i \in 1..Len(part) : a + i - 1 \in a..b /\ part[i] = lines[a + i - 1]
  <2> SUFFICES ASSUME NEW i \in 1..Len(part)
               PROVE  a + i - 1 \in a..b /\ part[i] = lines[a + i - 1]
    OBVIOUS
  <2>1. a <= b /\ i \in 1..(b - a + 1)
    BY <1>2
  <2> QED BY <1>2, <2>1
<1>5. Content(part) \in Seq(Line)
  BY <1>2, ContentConcat
<1> QED BY <1>2, <1>3, <1>4, <1>5 DEF part

LEMMA SilentStretch ==
  ASSUME NEW lines \in Seq(Line), NEW a \in Int, NEW b \in Int, 1 <= a, b <= Len(lines),
         \A i \in a..b : Says(lines[i]) = <<>>
  PROVE  Content(SubSeq(lines, a, b)) = <<>>
<1>1. /\ SubSeq(lines, a, b) \in Seq(Line)
      /\ \A i \in 1..Len(SubSeq(lines, a, b)) :
               a + i - 1 \in a..b /\ SubSeq(lines, a, b)[i] = lines[a + i - 1]
  BY Stretch
<1>2. \A i \in 1..Len(SubSeq(lines, a, b)) : Says(SubSeq(lines, a, b)[i]) = <<>>
  BY <1>1
<1> QED BY <1>1, <1>2, ContentSilent

LEMMA Stretches ==
  ASSUME NEW lines \in Seq(Line), NEW a \in Int, NEW b \in Int, NEW c \in Int,
         1 <= a, a <= b, b <= c + 1, c <= Len(lines)
  PROVE  /\ SubSeq(lines, a, b - 1) \o SubSeq(lines, b, c) = SubSeq(lines, a, c)
         /\ Content(SubSeq(lines, a, c)) =
               Content(SubSeq(lines, a, b - 1)) \o Content(SubSeq(lines, b, c))
<1>1. Len(lines) \in Nat
  OBVIOUS
<1>2. /\ a \in 1..Len(lines) + 1 /\ b - 1 \in a - 1..Len(lines) /\ c \in b - 1..Len(lines)
      /\ (b - 1) + 1 = b
  BY <1>1
<1>3. SubSeq(lines, a, b - 1) \o SubSeq(lines, (b - 1) + 1, c) = SubSeq(lines, a, c)
  BY <1>2, ConcatAdjacentSubSeq
<1>4. SubSeq(lines, a, b - 1) \in Seq(Line) /\ SubSeq(lines, b, c) \in Seq(Line)
  <2>1. 1 <= b /\ b - 1 <= Len(lines) /\ b - 1 \in Int
    BY <1>1
  <2> QED BY <2>1, Stretch
<1>5. SubSeq(lines, a, b - 1) \o SubSeq(lines, b, c) = SubSeq(lines, a, c)
  BY <1>2, <1>3
<1>6. Content(SubSeq(lines, a, b - 1) \o SubSeq(lines, b, c)) =
         Content(SubSeq(lines, a, b - 1)) \o Content(SubSeq(lines, b, c))
  BY <1>4, ContentConcat
<1> QED BY <1>5, <1>6, Zenon

-----------------------------------------------------------------------------
(* What a repair may not do: say something else, or ask for shell           *)

AsksShell(l) == l.kind \in {"open", "tag", "fused", "bare"} /\ l.lang = "bash"
Asks(lines) == \E i \in DOMAIN lines : AsksShell(lines[i])

Faithful(lines, now) ==
  /\ now \in Seq(Line)
  /\ Content(now) = Content(lines)
  /\ Asks(now) => Asks(lines)

LEMMA FaithfulTwice ==
  ASSUME NEW lines, NEW then, NEW now, Faithful(lines, then), Faithful(then, now)
  PROVE  Faithful(lines, now)
BY DEF Faithful

LEMMA FaithfulSame ==
  ASSUME NEW lines \in Seq(Line)
  PROVE  Faithful(lines, lines)
BY DEF Faithful

LEMMA NoShell ==
  /\ \A lang \in Langs : AsksShell(Open(ActiveStyle, lang)) => lang = "bash"
  /\ \A lang : ~AsksShell(Close(ActiveStyle, lang))
  /\ ~AsksShell(Blank) /\ ~AsksShell(Text("prose"))
  /\ \A l : l.kind = "text" => ~AsksShell(l)
<1>1. \A lang \in Langs : AsksShell(Open(ActiveStyle, lang)) => lang = "bash"
  BY DEF AsksShell, Open
<1>2. \A lang : ~AsksShell(Close(ActiveStyle, lang))
  BY DEF AsksShell, Close
<1>3. ~AsksShell(Blank) /\ ~AsksShell(Text("prose"))
  BY DEF AsksShell, Blank, Text
<1>4. \A l : l.kind = "text" => ~AsksShell(l)
  BY DEF AsksShell
<1> QED BY <1>1, <1>2, <1>3, <1>4

LEMMA AsksConcat ==
  ASSUME NEW s \in Seq(Line), NEW t \in Seq(Line)
  PROVE  Asks(s \o t) => Asks(s) \/ Asks(t)
<1>1. /\ s \o t \in Seq(Line) /\ Len(s \o t) = Len(s) + Len(t)
      /\ Len(s) \in Nat /\ Len(t) \in Nat
      /\ \A i \in 1..(Len(s) + Len(t)) :
            (s \o t)[i] = IF i <= Len(s) THEN s[i] ELSE t[i - Len(s)]
  BY ConcatProperties
<1>2. /\ DOMAIN (s \o t) = 1..(Len(s) + Len(t))
      /\ DOMAIN s = 1..Len(s) /\ DOMAIN t = 1..Len(t)
  BY <1>1
<1> SUFFICES ASSUME Asks(s \o t) PROVE Asks(s) \/ Asks(t)
  OBVIOUS
<1>3. PICK i \in 1..(Len(s) + Len(t)) : AsksShell((s \o t)[i])
  BY <1>2 DEF Asks
<1>4. CASE i <= Len(s)
  <2>1. i \in 1..Len(s) /\ (s \o t)[i] = s[i]
    BY <1>1, <1>4
  <2> QED BY <1>2, <1>3, <2>1 DEF Asks
<1>5. CASE ~(i <= Len(s))
  <2>1. i - Len(s) \in 1..Len(t) /\ (s \o t)[i] = t[i - Len(s)]
    BY <1>1, <1>5
  <2> QED BY <1>2, <1>3, <2>1 DEF Asks
<1> QED BY <1>4, <1>5

LEMMA AsksOfOne ==
  ASSUME NEW l
  PROVE  Asks(<<l>>) => AsksShell(l)
<1>1. DOMAIN <<l>> = 1..1 /\ <<l>>[1] = l
  OBVIOUS
<1> QED BY <1>1 DEF Asks

LEMMA AsksOfNone == ~Asks(<<>>)
BY DEF Asks

LEMMA AsksStretch ==
  ASSUME NEW lines \in Seq(Line), NEW a \in Int, NEW b \in Int, 1 <= a, b <= Len(lines),
         Asks(SubSeq(lines, a, b))
  PROVE  \E i \in a..b : AsksShell(lines[i])
<1>1. /\ SubSeq(lines, a, b) \in Seq(Line)
      /\ \A i \in 1..Len(SubSeq(lines, a, b)) :
               a + i - 1 \in a..b /\ SubSeq(lines, a, b)[i] = lines[a + i - 1]
  BY Stretch
<1>2. DOMAIN SubSeq(lines, a, b) = 1..Len(SubSeq(lines, a, b))
  BY <1>1
<1>3. PICK i \in 1..Len(SubSeq(lines, a, b)) : AsksShell(SubSeq(lines, a, b)[i])
  BY <1>2 DEF Asks
<1> QED BY <1>1, <1>3

\* A part of a list asks for nothing that the list does not ask for.
LEMMA AsksWhole ==
  ASSUME NEW lines \in Seq(Line), NEW a \in Int, NEW b \in Int, 1 <= a, b <= Len(lines),
         Asks(SubSeq(lines, a, b))
  PROVE  Asks(lines)
<1>1. PICK i \in a..b : AsksShell(lines[i])
  BY AsksStretch
<1>2. i \in DOMAIN lines
  BY <1>1
<1> QED BY <1>1, <1>2 DEF Asks

-----------------------------------------------------------------------------
(* A list rewritten line by line                                           *)

\* What becomes of a line says what the line says.
LineByLine(lines, parts) ==
  /\ parts \in Seq(Seq(Line)) /\ Len(parts) = Len(lines)
  /\ \A i \in 1..Len(lines) : /\ Content(parts[i]) = Says(lines[i])
                              /\ Asks(parts[i]) => AsksShell(lines[i])

LEMMA Rewritten ==
  ASSUME NEW lines \in Seq(Line), NEW parts, LineByLine(lines, parts)
  PROVE  Faithful(lines, FlattenSeq(parts))
<1>1. /\ parts \in Seq(Seq(Line)) /\ Len(parts) = Len(lines) /\ Len(lines) \in Nat
      /\ DOMAIN lines = 1..Len(lines)
      /\ \A i \in 1..Len(lines) : parts[i] \in Seq(Line) /\ lines[i] \in Line
  BY DEF LineByLine
<1>2. PICK pile \in [0..Len(parts) -> Seq(Line)] :
         Piled(pile, parts) /\ FlattenSeq(parts) = pile[Len(parts)]
  BY <1>1, Flattened
<1> DEFINE So(k) == /\ Content(pile[k]) = Content(SubSeq(lines, 1, k))
                    /\ Asks(pile[k]) => Asks(lines)
           S == {k \in Nat : k <= Len(lines) => So(k)}
<1>3. 0 \in S
  <2>1. pile[0] = <<>> /\ SubSeq(lines, 1, 0) = <<>>
    BY <1>2 DEF Piled
  <2> QED BY <2>1, AsksOfNone
<1>4. ASSUME NEW k \in Nat, k \in S, k + 1 <= Len(lines) PROVE So(k + 1)
  <2>1. /\ k + 1 \in 1..Len(lines) /\ k + 1 \in 1..Len(parts) /\ (k + 1) - 1 = k
        /\ k <= Len(lines) /\ k \in 0..Len(parts) /\ k + 1 \in 0..Len(parts)
    BY <1>1, <1>4
  <2>2. pile[k + 1] = pile[k] \o parts[k + 1] /\ pile[k] \in Seq(Line)
    BY <1>2, <2>1 DEF Piled
  <2>3. /\ parts[k + 1] \in Seq(Line) /\ Content(parts[k + 1]) = Says(lines[k + 1])
        /\ Asks(parts[k + 1]) => AsksShell(lines[k + 1])
    BY <1>1, <2>1 DEF LineByLine
  <2>4. So(k)
    BY <1>4, <2>1
  <2>5. Content(pile[k + 1]) = Content(pile[k]) \o Content(parts[k + 1])
    BY <2>2, <2>3, ContentConcat
  <2>6. SubSeq(lines, 1, k + 1) = SubSeq(lines, 1, k) \o <<lines[k + 1]>>
    BY <1>1, <2>1, SubSeqRecursiveSecond
  <2>7. SubSeq(lines, 1, k) \in Seq(Line) /\ lines[k + 1] \in Line
        /\ <<lines[k + 1]>> \in Seq(Line)
    <3>1. 1 \in Int /\ k \in Int /\ 1 <= 1 /\ k <= Len(lines)
      BY <2>1
    <3>2. SubSeq(lines, 1, k) \in Seq(Line)
      BY <3>1, Stretch
    <3> QED BY <1>1, <2>1, <3>2
  <2>8. Content(SubSeq(lines, 1, k + 1)) = Content(SubSeq(lines, 1, k)) \o Says(lines[k + 1])
    BY <2>6, <2>7, ContentConcat, ContentOfOne
  <2>9. Content(pile[k + 1]) = Content(SubSeq(lines, 1, k + 1))
    BY <2>3, <2>4, <2>5, <2>8
  <2>10. Asks(pile[k + 1]) => Asks(pile[k]) \/ Asks(parts[k + 1])
    BY <2>2, <2>3, AsksConcat
  <2>11. AsksShell(lines[k + 1]) => Asks(lines)
    BY <1>1, <2>1 DEF Asks
  <2> QED BY <2>3, <2>4, <2>9, <2>10, <2>11
<1> HIDE DEF So
<1>5. ASSUME NEW k \in Nat, k \in S PROVE k + 1 \in S
  BY <1>4, <1>5
<1> HIDE DEF S
<1>6. \A k \in Nat : k \in S
  BY <1>3, <1>5, EveryNumber
<1>7. So(Len(lines))
  <2>1. Len(lines) \in S /\ Len(lines) <= Len(lines)
    BY <1>1, <1>6
  <2> QED BY <2>1 DEF S
<1>8. SubSeq(lines, 1, Len(lines)) = lines
  BY SubSeqFull
<1>9. pile[Len(parts)] \in Seq(Line)
  BY <1>1, <1>2
<1> QED BY <1>1, <1>2, <1>7, <1>8, <1>9 DEF So, Faithful

LEMMA RemoveFaithful ==
  ASSUME NEW lines \in Seq(Line), NEW drop,
         \A i \in 1..Len(lines) : i \in drop => Says(lines[i]) = <<>>
  PROVE  Faithful(lines, RemoveAll(lines, drop))
<1> DEFINE parts == [i \in DOMAIN lines |->
                       IF i \in DOMAIN lines \ drop THEN <<lines[i]>> ELSE <<>>]
<1>1. Len(lines) \in Nat /\ DOMAIN lines = 1..Len(lines)
  OBVIOUS
<1>2. \A i \in 1..Len(lines) : lines[i] \in Line /\ <<lines[i]>> \in Seq(Line)
  OBVIOUS
<1>3. \A i \in 1..Len(lines) : parts[i] = IF i \in drop THEN <<>> ELSE <<lines[i]>>
  BY <1>1
<1>4. \A i \in 1..Len(lines) : parts[i] \in Seq(Line)
  <2>1. <<>> \in Seq(Line)
    OBVIOUS
  <2> HIDE DEF parts
  <2> QED BY <1>2, <1>3, <2>1, Zenon
<1>5. DOMAIN parts = 1..Len(lines) /\ parts \in [1..Len(lines) -> Seq(Line)]
  <2>1. parts = [i \in 1..Len(lines) |-> parts[i]]
    BY <1>1
  <2> HIDE DEF parts
  <2> QED BY <1>4, <2>1
<1>6. RemoveAll(lines, drop) = FlattenSeq(parts)
  BY DEF RemoveAll, Only
<1> HIDE DEF parts
<1>7. parts \in Seq(Seq(Line)) /\ Len(parts) = Len(lines)
  BY <1>1, <1>5
<1>8. ASSUME NEW i \in 1..Len(lines)
      PROVE  Content(parts[i]) = Says(lines[i]) /\ (Asks(parts[i]) => AsksShell(lines[i]))
  <2>1. CASE i \in drop
    <3>1. parts[i] = <<>> /\ Says(lines[i]) = <<>>
      BY <1>3, <2>1
    <3> QED BY <3>1, ContentOfNone, AsksOfNone
  <2>2. CASE i \notin drop
    <3>1. parts[i] = <<lines[i]>> /\ lines[i] \in Line
      BY <1>2, <1>3, <2>2
    <3> QED BY <3>1, ContentOfOne, AsksOfOne
  <2> QED BY <2>1, <2>2
<1>9. LineByLine(lines, parts)
  BY <1>7, <1>8 DEF LineByLine
<1> QED BY <1>6, <1>9, Rewritten

LEMMA GlueFaithful ==
  ASSUME NEW lines \in Seq(Line)
  PROVE  Faithful(lines, FixGlueOpeners(lines))
<1> DEFINE part(i) == IF ~Splits(lines, i) THEN <<lines[i]>>
                      ELSE IF lines[i].kind = "fused"
                      THEN <<Open(ActiveStyle, lines[i].lang)>>
                      ELSE <<Open(ActiveStyle, lines[i].lang), lines[i].rest>>
           parts == [i \in DOMAIN lines |-> part(i)]
<1>1. Len(lines) \in Nat /\ DOMAIN lines = 1..Len(lines)
  OBVIOUS
<1>2. FixGlueOpeners(lines) = FlattenSeq(parts)
  BY DEF FixGlueOpeners
<1>3. ASSUME NEW i \in 1..Len(lines)
      PROVE  /\ part(i) \in Seq(Line) /\ Content(part(i)) = Says(lines[i])
             /\ Asks(part(i)) => AsksShell(lines[i])
  <2>1. lines[i] \in Line /\ <<lines[i]>> \in Seq(Line)
    OBVIOUS
  <2>2. CASE ~Splits(lines, i)
    <3>1. part(i) = <<lines[i]>>
      BY <2>2
    <3> HIDE DEF part
    <3> QED BY <2>1, <3>1, ContentOfOne, AsksOfOne
  <2>3. CASE Splits(lines, i) /\ lines[i].kind = "fused"
    <3> DEFINE o == Open(ActiveStyle, lines[i].lang)
    <3>1. part(i) = <<o>>
      BY <2>3
    <3>2. lines[i].lang \in Langs /\ Says(lines[i]) = <<>>
      BY <2>1, <2>3, Glued
    <3>3. o \in Line /\ Says(o) = <<>> /\ (AsksShell(o) => lines[i].lang = "bash")
      BY <3>2, Fences, NoShell
    <3> HIDE DEF part, o
    <3>4. <<o>> \in Seq(Line) /\ Content(<<o>>) = <<>> /\ (Asks(<<o>>) => AsksShell(o))
      BY <3>3, ContentOfOne, AsksOfOne
    <3> QED BY <2>3, <3>1, <3>2, <3>3, <3>4 DEF AsksShell
  <2>4. CASE Splits(lines, i) /\ lines[i].kind # "fused"
    <3> DEFINE o == Open(ActiveStyle, lines[i].lang)
               r == lines[i].rest
    <3>1. part(i) = <<o, r>> /\ lines[i].kind = "bare"
      BY <2>4 DEF Splits
    <3>2. lines[i].lang \in Langs /\ r \in Line /\ Says(r) = Says(lines[i]) /\ r.kind = "text"
      BY <2>1, <3>1, Glued
    <3>3. o \in Line /\ Says(o) = <<>> /\ (AsksShell(o) => lines[i].lang = "bash")
      BY <3>2, Fences, NoShell
    <3>4. ~AsksShell(r)
      BY <3>2, NoShell
    <3> HIDE DEF part, o, r
    <3>5. <<o, r>> = <<o>> \o <<r>> /\ <<o>> \in Seq(Line) /\ <<r>> \in Seq(Line)
      <4>1. <<o>> \in Seq(Line) /\ <<r>> \in Seq(Line)
        BY <3>2, <3>3
      <4>2. Append(<<o>>, r) = <<o, r>>
        <5> DEFINE s == Append(<<o>>, r)
                   t == <<o, r>>
        <5>1. Len(<<o>>) = 1 /\ <<o>>[1] = o /\ 1 \in 1..1
          OBVIOUS
        <5>2. s \in Seq(Line) /\ Len(s) = Len(<<o>>) + 1
              /\ (\A k \in 1..Len(<<o>>) : s[k] = <<o>>[k]) /\ s[Len(<<o>>) + 1] = r
          BY <3>2, <4>1, AppendProperties
        <5>3. s \in Seq(Line) /\ Len(s) = 2 /\ s[1] = o /\ s[2] = r
          <6> HIDE DEF s
          <6> QED BY <5>1, <5>2
        <5>4. t \in Seq(Line) /\ Len(t) = 2 /\ t[1] = o /\ t[2] = r
          BY <3>2, <3>3
        <5> HIDE DEF s, t
        <5>5. \A k \in 1..Len(s) : k = 1 \/ k = 2
          BY <5>3
        <5>6. s = t
          BY <5>3, <5>4, <5>5, SeqEqual
        <5> QED BY <5>6 DEF s, t
      <4>3. Append(<<o>>, r) = <<o>> \o <<r>>
        BY <3>2, <4>1, AppendIsConcat
      <4> QED BY <4>1, <4>2, <4>3
    <3>6. /\ Content(<<o>>) = <<>> /\ (Asks(<<o>>) => AsksShell(o))
          /\ Content(<<r>>) = Says(r) /\ ~Asks(<<r>>)
      BY <3>2, <3>3, <3>4, ContentOfOne, AsksOfOne
    <3>7. /\ Content(<<o, r>>) = Content(<<o>>) \o Content(<<r>>)
          /\ Asks(<<o, r>>) => Asks(<<o>>) \/ Asks(<<r>>)
      BY <3>5, ContentConcat, AsksConcat
    <3>8. <<>> \o Says(r) = Says(r)
      BY <3>2, SaysType, ConcatEmptySeq
    <3>9. Content(<<o, r>>) = Says(lines[i])
      BY <3>2, <3>6, <3>7, <3>8
    <3>10. Asks(<<o, r>>) => AsksShell(lines[i])
      BY <3>1, <3>3, <3>6, <3>7 DEF AsksShell
    <3>11. <<o, r>> \in Seq(Line)
      BY <3>2, <3>3
    <3> QED BY <3>1, <3>9, <3>10, <3>11
  <2> QED BY <2>2, <2>3, <2>4
<1>4. \A i \in 1..Len(lines) : parts[i] = part(i)
  BY <1>1
<1>5. parts = [i \in 1..Len(lines) |-> part(i)]
  BY <1>1
<1> HIDE DEF part
<1>6. parts \in [1..Len(lines) -> Seq(Line)]
  BY <1>3, <1>5
<1> HIDE DEF parts
<1>7. parts \in Seq(Seq(Line)) /\ Len(parts) = Len(lines)
  BY <1>1, <1>6
<1>8. LineByLine(lines, parts)
  BY <1>3, <1>4, <1>7 DEF LineByLine
<1> QED BY <1>2, <1>8, Rewritten

-----------------------------------------------------------------------------
(* Blocks, where they stand                                                *)

BlockShape == [first : Nat, last : Nat, lang : Langs, body : Seq(Line),
               auto : BOOLEAN, consume : BOOLEAN]

\* A block stands for the lines from its first one to where the text goes on:
\* it says what they say, is shell only if the text asks for it, and the openers
\* of the active style behind its first line are in its body.
StandsFor(lines, b) ==
  /\ 1 <= b.first /\ b.first < After(b) /\ After(b) <= Len(lines) + 1
  /\ \A i \in b.first + 1..After(b) - 1 : IsOpener(lines[i], ActiveStyle) =>
        \E m \in 1..Len(b.body) : b.body[m] = lines[i]
  /\ Content(b.body) = Content(SubSeq(lines, b.first, After(b) - 1))
  /\ Asks(b.body) \/ b.lang = "bash" => Asks(lines)

BlocksOf(lines) == {b \in BlockShape : StandsFor(lines, b)}

InOrder(blocks) ==
  \A j, k \in 1..Len(blocks) : j < k => After(blocks[j]) <= blocks[k].first

Placed(lines, blocks) == blocks \in Seq(BlocksOf(lines)) /\ InOrder(blocks)

LEMMA AfterType == \A b \in BlockShape : After(b) \in Nat /\ b.first \in Nat
BY DEF BlockShape, After

LEMMA BlockFacts ==
  ASSUME NEW lines, NEW b \in BlocksOf(lines)
  PROVE  b \in BlockShape /\ StandsFor(lines, b)
BY DEF BlocksOf

LEMMA OnlyPlaced ==
  ASSUME NEW lines, NEW blocks, Placed(lines, blocks), NEW which
  PROVE  Placed(lines, Only(blocks, which))
<1> DEFINE B == BlocksOf(lines)
           parts == [k \in DOMAIN blocks |-> IF k \in which THEN <<blocks[k]>> ELSE <<>>]
<1>1. blocks \in Seq(B) /\ Len(blocks) \in Nat /\ DOMAIN blocks = 1..Len(blocks)
  BY DEF Placed
<1>2. Only(blocks, which) = FlattenSeq(parts)
  BY DEF Only
<1>3. \A k \in 1..Len(blocks) : blocks[k] \in B /\ <<blocks[k]>> \in Seq(B)
  <2> HIDE DEF B
  <2> QED BY <1>1
<1>4. \A k \in 1..Len(blocks) : parts[k] = IF k \in which THEN <<blocks[k]>> ELSE <<>>
  BY <1>1
<1>5. parts = [k \in 1..Len(blocks) |-> parts[k]]
  BY <1>1
<1> HIDE DEF parts, B
<1>6. \A k \in 1..Len(blocks) : parts[k] \in Seq(B)
  <2>1. <<>> \in Seq(B)
    OBVIOUS
  <2> QED BY <1>3, <1>4, <2>1, Zenon
<1>7. parts \in Seq(Seq(B)) /\ Len(parts) = Len(blocks)
  <2>1. parts \in [1..Len(blocks) -> Seq(B)]
    BY <1>5, <1>6
  <2> QED BY <1>1, <2>1
<1>8. PICK pile \in [0..Len(parts) -> Seq(B)] :
         Piled(pile, parts) /\ FlattenSeq(parts) = pile[Len(parts)]
  BY <1>7, Flattened
<1> DEFINE So(k) == /\ \A i \in 1..Len(pile[k]) : \E m \in 1..k : pile[k][i] = blocks[m]
                    /\ InOrder(pile[k])
           S == {k \in Nat : k <= Len(blocks) => So(k)}
<1>9. 0 \in S
  <2>1. pile[0] = <<>> /\ Len(<<>>) = 0
    BY <1>8 DEF Piled
  <2> QED BY <2>1 DEF InOrder
<1>10. ASSUME NEW k \in Nat, k \in S, k + 1 <= Len(blocks) PROVE So(k + 1)
  <2>1. /\ k + 1 \in 1..Len(blocks) /\ k + 1 \in 1..Len(parts) /\ (k + 1) - 1 = k
        /\ k <= Len(blocks) /\ k \in 0..Len(parts) /\ k + 1 \in 1..k + 1
    BY <1>1, <1>7, <1>10
  <2>2. pile[k + 1] = pile[k] \o parts[k + 1] /\ pile[k] \in Seq(B)
    BY <1>8, <2>1 DEF Piled
  <2>3. So(k)
    BY <1>10, <2>1
  <2>4. CASE k + 1 \notin which
    <3>1. parts[k + 1] = <<>> /\ pile[k] \o <<>> = pile[k]
      BY <1>4, <2>1, <2>2, <2>4, ConcatEmptySeq
    <3>2. pile[k + 1] = pile[k]
      BY <2>2, <3>1
    <3>3. \A m \in 1..k : m \in 1..k + 1
      OBVIOUS
    <3> QED BY <2>3, <3>2, <3>3
  <2>5. CASE k + 1 \in which
    <3> DEFINE old == pile[k]
               new == pile[k + 1]
               b == blocks[k + 1]
    <3>1. parts[k + 1] = <<b>> /\ b \in B /\ <<b>> \in Seq(B) /\ Len(<<b>>) = 1 /\ <<b>>[1] = b
      BY <1>3, <1>4, <2>1, <2>5
    <3>2. /\ Len(old) \in Nat /\ Len(new) = Len(old) + 1
          /\ \A i \in 1..Len(old) + 1 : new[i] = IF i <= Len(old) THEN old[i] ELSE b
      <4>1. new = old \o <<b>> /\ old \in Seq(B)
        BY <2>2, <3>1
      <4>2. old \o <<b>> = Append(old, b)
        BY <3>1, <4>1, AppendIsConcat
      <4> HIDE DEF old, new, b
      <4>3. /\ Len(Append(old, b)) = Len(old) + 1 /\ Append(old, b)[Len(old) + 1] = b
            /\ \A i \in 1..Len(old) : Append(old, b)[i] = old[i]
        BY <3>1, <4>1, AppendProperties
      <4>4. Len(old) \in Nat /\ \A i \in 1..Len(old) + 1 : i <= Len(old) => i \in 1..Len(old)
        BY <4>1
      <4>5. \A i \in 1..Len(old) + 1 : ~(i <= Len(old)) => i = Len(old) + 1
        BY <4>4
      <4> QED BY <4>1, <4>2, <4>3, <4>4, <4>5
    <3>3. \A i \in 1..Len(new) : \E m \in 1..k + 1 : new[i] = blocks[m]
      <4> SUFFICES ASSUME NEW i \in 1..Len(new) PROVE \E m \in 1..k + 1 : new[i] = blocks[m]
        OBVIOUS
      <4>1. CASE i <= Len(old)
        <5>1. i \in 1..Len(old) /\ new[i] = old[i]
          <6> HIDE DEF old, new, b
          <6> QED BY <3>2, <4>1
        <5>2. PICK m \in 1..k : old[i] = blocks[m]
          BY <2>3, <5>1
        <5>3. m \in 1..k + 1
          OBVIOUS
        <5> QED BY <5>1, <5>2, <5>3
      <4>2. CASE ~(i <= Len(old))
        <5>1. new[i] = b
          <6> HIDE DEF old, new, b
          <6> QED BY <3>2, <4>2
        <5> QED BY <2>1, <5>1
      <4> QED BY <4>1, <4>2
    <3>4. InOrder(new)
      <4> SUFFICES ASSUME NEW i \in 1..Len(new), NEW j \in 1..Len(new), i < j
                   PROVE  After(new[i]) <= new[j].first
        BY DEF InOrder
      <4>1. i \in 1..Len(old) /\ new[i] = old[i]
        <5> HIDE DEF old, new, b
        <5>1. i <= Len(old)
          BY <3>2
        <5> QED BY <3>2, <5>1
      <4>2. CASE j <= Len(old)
        <5>1. j \in 1..Len(old) /\ new[j] = old[j]
          <6> HIDE DEF old, new, b
          <6> QED BY <3>2, <4>2
        <5> QED BY <2>3, <4>1, <5>1 DEF InOrder
      <4>3. CASE ~(j <= Len(old))
        <5>1. new[j] = b
          <6> HIDE DEF old, new, b
          <6> QED BY <3>2, <4>3
        <5>2. PICK m \in 1..k : old[i] = blocks[m]
          BY <2>3, <4>1
        <5>3. m \in 1..Len(blocks) /\ k + 1 \in 1..Len(blocks) /\ m < k + 1
          BY <2>1
        <5>4. After(blocks[m]) <= blocks[k + 1].first
          BY <5>3 DEF Placed, InOrder
        <5> QED BY <4>1, <5>1, <5>2, <5>4
      <4> QED BY <4>2, <4>3
    <3> QED BY <3>3, <3>4
  <2> QED BY <2>4, <2>5
<1> HIDE DEF So
<1>11. ASSUME NEW k \in Nat, k \in S PROVE k + 1 \in S
  BY <1>10, <1>11
<1> HIDE DEF S
<1>12. \A k \in Nat : k \in S
  BY <1>9, <1>11, EveryNumber
<1>13. So(Len(blocks))
  <2>1. Len(blocks) \in S /\ Len(blocks) <= Len(blocks)
    BY <1>1, <1>12
  <2> QED BY <2>1 DEF S
<1>14. pile[Len(parts)] \in Seq(B)
  BY <1>1, <1>7, <1>8
<1> QED BY <1>2, <1>7, <1>8, <1>13, <1>14 DEF So, Placed, B

LEMMA Fenced ==
  ASSUME NEW before \in Seq(Line), NEW body \in Seq(Line), NEW lang \in Langs
  PROVE  LET piece == before \o <<Open(ActiveStyle, lang)>> \o body
                      \o <<Close(ActiveStyle, lang)>>
         IN  /\ piece \in Seq(Line)
             /\ Content(piece) = Content(before) \o Content(body)
             /\ Asks(piece) => Asks(before) \/ Asks(body) \/ lang = "bash"
<1> DEFINE o == Open(ActiveStyle, lang)
           c == Close(ActiveStyle, lang)
<1>1. /\ o \in Line /\ Says(o) = <<>> /\ (AsksShell(o) => lang = "bash")
      /\ c \in Line /\ Says(c) = <<>> /\ ~AsksShell(c)
  BY Fences, NoShell
<1> HIDE DEF o, c
<1>2. /\ <<o>> \in Seq(Line) /\ Content(<<o>>) = <<>> /\ (Asks(<<o>>) => lang = "bash")
      /\ <<c>> \in Seq(Line) /\ Content(<<c>>) = <<>> /\ ~Asks(<<c>>)
  BY <1>1, ContentOfOne, AsksOfOne
<1> DEFINE s1 == before \o <<o>>
           s2 == s1 \o body
           s3 == s2 \o <<c>>
<1>3. /\ s1 \in Seq(Line) /\ Content(s1) = Content(before) \o <<>>
      /\ Asks(s1) => Asks(before) \/ Asks(<<o>>)
  <2>1. <<o>> \in Seq(Line) /\ Content(<<o>>) = <<>>
    BY <1>2
  <2>2. s1 \in Seq(Line)
    BY <2>1, ConcatProperties
  <2>3. Content(s1) = Content(before) \o Content(<<o>>)
    BY <2>1, ContentConcat
  <2>4. Asks(s1) => Asks(before) \/ Asks(<<o>>)
    BY <2>1, AsksConcat
  <2> HIDE DEF s1
  <2> QED BY <2>1, <2>2, <2>3, <2>4, Zenon
<1>4. Content(s1) = Content(before)
  BY <1>3, ContentConcat, ConcatEmptySeq
<1> HIDE DEF s1
<1>5. /\ s2 \in Seq(Line) /\ Content(s2) = Content(s1) \o Content(body)
      /\ Asks(s2) => Asks(s1) \/ Asks(body)
  BY <1>3, ConcatProperties, ContentConcat, AsksConcat
<1> HIDE DEF s2
<1>6. /\ s3 \in Seq(Line) /\ Content(s3) = Content(s2) \o <<>>
      /\ Asks(s3) => Asks(s2) \/ Asks(<<c>>)
  <2>1. <<c>> \in Seq(Line) /\ Content(<<c>>) = <<>> /\ s2 \in Seq(Line)
    BY <1>2, <1>5
  <2>2. s3 \in Seq(Line)
    BY <2>1, ConcatProperties
  <2>3. Content(s3) = Content(s2) \o Content(<<c>>)
    BY <2>1, ContentConcat
  <2>4. Asks(s3) => Asks(s2) \/ Asks(<<c>>)
    BY <2>1, AsksConcat
  <2> HIDE DEF s3
  <2> QED BY <2>1, <2>2, <2>3, <2>4, Zenon
<1>7. Content(s3) = Content(s2)
  BY <1>5, <1>6, ContentConcat, ConcatEmptySeq
<1> HIDE DEF s3
<1>8. /\ s3 \in Seq(Line) /\ Content(s3) = Content(before) \o Content(body)
      /\ Asks(s3) => Asks(before) \/ Asks(body) \/ lang = "bash"
  BY <1>2, <1>3, <1>4, <1>5, <1>6, <1>7
<1> QED BY <1>8 DEF s1, s2, s3, o, c

\* The lines from one place to the end of a block, and the block in its fences.
LEMMA PieceFaithful ==
  ASSUME NEW lines \in Seq(Line), NEW b \in BlocksOf(lines), NEW from \in Int,
         1 <= from, from <= b.first
  PROVE  LET piece == SubSeq(lines, from, b.first - 1)
                      \o <<Open(ActiveStyle, b.lang)>> \o b.body
                      \o <<Close(ActiveStyle, b.lang)>>
         IN  /\ piece \in Seq(Line)
             /\ Content(piece) = Content(SubSeq(lines, from, After(b) - 1))
             /\ Asks(piece) => Asks(lines)
<1>1. b \in BlockShape /\ StandsFor(lines, b) /\ Len(lines) \in Nat
  BY BlockFacts
<1>2. /\ b.first \in Nat /\ After(b) \in Nat /\ b.lang \in Langs /\ b.body \in Seq(Line)
      /\ b.first < After(b) /\ After(b) <= Len(lines) + 1
  BY <1>1, AfterType DEF BlockShape, StandsFor
<1> DEFINE before == SubSeq(lines, from, b.first - 1)
<1>3. b.first - 1 \in Int /\ b.first - 1 <= Len(lines)
  BY <1>1, <1>2
<1>4. before \in Seq(Line) /\ (Asks(before) => Asks(lines))
  BY <1>3, Stretch, AsksWhole
<1>5. Content(SubSeq(lines, from, After(b) - 1)) =
         Content(before) \o Content(SubSeq(lines, b.first, After(b) - 1))
  <2>1. /\ b.first \in Int /\ After(b) - 1 \in Int /\ b.first <= (After(b) - 1) + 1
        /\ After(b) - 1 <= Len(lines)
    BY <1>1, <1>2
  <2> QED BY <2>1, Stretches
<1>6. Content(SubSeq(lines, b.first, After(b) - 1)) = Content(b.body)
      /\ (Asks(b.body) \/ b.lang = "bash" => Asks(lines))
  BY <1>1 DEF StandsFor
<1> DEFINE piece == before \o <<Open(ActiveStyle, b.lang)>> \o b.body
                    \o <<Close(ActiveStyle, b.lang)>>
<1> HIDE DEF before
<1>7. /\ piece \in Seq(Line)
      /\ Content(piece) = Content(before) \o Content(b.body)
      /\ Asks(piece) => Asks(before) \/ Asks(b.body) \/ b.lang = "bash"
  BY <1>2, <1>4, Fenced
<1> HIDE DEF piece
<1>8. /\ piece \in Seq(Line) /\ Content(piece) = Content(SubSeq(lines, from, After(b) - 1))
      /\ Asks(piece) => Asks(lines)
  BY <1>4, <1>5, <1>6, <1>7
<1> QED BY <1>8 DEF piece, before

LEMMA RenderFaithful ==
  ASSUME NEW lines \in Seq(Line), NEW blocks, Placed(lines, blocks)
  PROVE  Faithful(lines, Render(lines, blocks))
<1> DEFINE from(k) == IF k = 1 THEN 1 ELSE After(blocks[k - 1])
           piece(k) == SubSeq(lines, from(k), blocks[k].first - 1)
                       \o <<Open(ActiveStyle, blocks[k].lang)>> \o blocks[k].body
                       \o <<Close(ActiveStyle, blocks[k].lang)>>
           parts == [k \in DOMAIN blocks |-> piece(k)]
           rest == SubSeq(lines, from(Len(blocks) + 1), Len(lines))
<1>1. /\ blocks \in Seq(BlocksOf(lines)) /\ Len(blocks) \in Nat /\ Len(lines) \in Nat
      /\ DOMAIN blocks = 1..Len(blocks)
  BY DEF Placed
<1>2. Render(lines, blocks) = FlattenSeq(parts) \o rest
  BY DEF Render
<1>3. ASSUME NEW k \in 1..Len(blocks)
      PROVE  /\ blocks[k] \in BlocksOf(lines)
             /\ blocks[k].first \in Nat /\ After(blocks[k]) \in Nat
             /\ 1 <= blocks[k].first /\ blocks[k].first < After(blocks[k])
             /\ After(blocks[k]) <= Len(lines) + 1
  <2>1. blocks[k] \in BlocksOf(lines)
    BY <1>1
  <2> QED BY <2>1, BlockFacts, AfterType DEF StandsFor
<1>4. ASSUME NEW k \in 1..Len(blocks) + 1
      PROVE  /\ from(k) \in Nat /\ 1 <= from(k) /\ from(k) <= Len(lines) + 1
             /\ k <= Len(blocks) => from(k) <= blocks[k].first
  <2>1. CASE k = 1
    <3>1. from(k) = 1
      BY <2>1
    <3> HIDE DEF from
    <3> QED BY <1>1, <1>3, <3>1
  <2>2. CASE k # 1
    <3>1. k - 1 \in 1..Len(blocks) /\ k - 1 < k /\ from(k) = After(blocks[k - 1])
      BY <1>1, <2>2
    <3>2. k <= Len(blocks) => from(k) <= blocks[k].first
      <4> SUFFICES ASSUME k <= Len(blocks) PROVE After(blocks[k - 1]) <= blocks[k].first
        BY <3>1
      <4>1. k \in 1..Len(blocks)
        BY <1>1
      <4> QED BY <3>1, <4>1 DEF Placed, InOrder
    <3> HIDE DEF from
    <3>3. After(blocks[k - 1]) \in Nat /\ 1 <= After(blocks[k - 1])
          /\ After(blocks[k - 1]) <= Len(lines) + 1
      BY <1>3, <3>1
    <3> QED BY <3>1, <3>2, <3>3
  <2> QED BY <2>1, <2>2
<1>5. ASSUME NEW k \in 1..Len(blocks)
      PROVE  /\ piece(k) \in Seq(Line)
             /\ Content(piece(k)) = Content(SubSeq(lines, from(k), from(k + 1) - 1))
             /\ Asks(piece(k)) => Asks(lines)
  <2>1. blocks[k] \in BlocksOf(lines)
    BY <1>3
  <2>2. from(k) \in Int /\ 1 <= from(k) /\ from(k) <= blocks[k].first
    <3>1. k \in 1..Len(blocks) + 1 /\ k <= Len(blocks)
      BY <1>1
    <3> HIDE DEF from
    <3> QED BY <1>4, <3>1
  <2>3. from(k + 1) = After(blocks[k])
    <3>1. k + 1 # 1 /\ (k + 1) - 1 = k
      OBVIOUS
    <3> QED BY <3>1
  <2> HIDE DEF from
  <2> QED BY <2>1, <2>2, <2>3, PieceFaithful
<1>6. \A k \in 1..Len(blocks) : parts[k] = piece(k)
  BY <1>1
<1>7. parts = [k \in 1..Len(blocks) |-> piece(k)]
  BY <1>1
<1>8. from(1) = 1
  OBVIOUS
<1> HIDE DEF piece, from
<1>9. parts \in [1..Len(blocks) -> Seq(Line)]
  BY <1>5, <1>7
<1> HIDE DEF parts
<1>10. parts \in Seq(Seq(Line)) /\ Len(parts) = Len(blocks)
  BY <1>1, <1>9
<1>11. PICK pile \in [0..Len(parts) -> Seq(Line)] :
         Piled(pile, parts) /\ FlattenSeq(parts) = pile[Len(parts)]
  BY <1>10, Flattened
<1> DEFINE So(k) == /\ Content(pile[k]) = Content(SubSeq(lines, 1, from(k + 1) - 1))
                    /\ Asks(pile[k]) => Asks(lines)
           S == {k \in Nat : k <= Len(blocks) => So(k)}
<1>12. 0 \in S
  <2>1. pile[0] = <<>> /\ from(0 + 1) = 1
    BY <1>8, <1>11 DEF Piled
  <2>2. SubSeq(lines, 1, from(0 + 1) - 1) = <<>>
    BY <2>1
  <2> QED BY <2>1, <2>2, AsksOfNone
<1>13. ASSUME NEW k \in Nat, k \in S, k + 1 <= Len(blocks) PROVE So(k + 1)
  <2>1. /\ k + 1 \in 1..Len(blocks) /\ k + 1 \in 1..Len(parts) /\ (k + 1) - 1 = k
        /\ k <= Len(blocks) /\ k \in 0..Len(parts) /\ k + 1 \in 1..Len(blocks) + 1
        /\ (k + 1) + 1 \in 1..Len(blocks) + 1
    BY <1>1, <1>10, <1>13
  <2>2. pile[k + 1] = pile[k] \o parts[k + 1] /\ pile[k] \in Seq(Line)
    BY <1>11, <2>1 DEF Piled
  <2>3. /\ parts[k + 1] \in Seq(Line)
        /\ Content(parts[k + 1]) = Content(SubSeq(lines, from(k + 1), from((k + 1) + 1) - 1))
        /\ Asks(parts[k + 1]) => Asks(lines)
    BY <1>5, <1>6, <2>1
  <2>4. So(k)
    BY <1>13, <2>1
  <2>5. /\ Content(pile[k + 1]) = Content(pile[k]) \o Content(parts[k + 1])
        /\ Asks(pile[k + 1]) => Asks(pile[k]) \/ Asks(parts[k + 1])
    BY <2>2, <2>3, ContentConcat, AsksConcat
  <2>6. Content(SubSeq(lines, 1, from((k + 1) + 1) - 1)) =
           Content(SubSeq(lines, 1, from(k + 1) - 1))
           \o Content(SubSeq(lines, from(k + 1), from((k + 1) + 1) - 1))
    <3>1. /\ from(k + 1) \in Int /\ 1 <= from(k + 1) /\ from(k + 1) <= blocks[k + 1].first
          /\ from((k + 1) + 1) \in Int /\ from((k + 1) + 1) <= Len(lines) + 1
      BY <1>4, <2>1
    <3>2. from((k + 1) + 1) = After(blocks[k + 1])
      BY <2>1 DEF from
    <3>3. blocks[k + 1].first < After(blocks[k + 1]) /\ blocks[k + 1].first \in Nat
      BY <1>3, <2>1
    <3>4. /\ from((k + 1) + 1) - 1 \in Int /\ from(k + 1) <= (from((k + 1) + 1) - 1) + 1
          /\ from((k + 1) + 1) - 1 <= Len(lines)
      BY <1>1, <3>1, <3>2, <3>3
    <3> DEFINE m == from(k + 1)
               e == from((k + 1) + 1) - 1
    <3>5. m \in Int /\ e \in Int /\ 1 <= m /\ m <= e + 1 /\ e <= Len(lines)
      BY <3>1, <3>4
    <3> HIDE DEF m, e
    <3>6. Content(SubSeq(lines, 1, e)) = Content(SubSeq(lines, 1, m - 1)) \o Content(SubSeq(lines, m, e))
      <4>1. 1 \in Int /\ 1 <= 1
        OBVIOUS
      <4> QED BY <3>5, <4>1, Stretches
    <3> QED BY <3>6, Zenon DEF m, e
  <2> QED BY <2>3, <2>4, <2>5, <2>6
<1> HIDE DEF So
<1>14. ASSUME NEW k \in Nat, k \in S PROVE k + 1 \in S
  BY <1>13, <1>14
<1> HIDE DEF S
<1>15. \A k \in Nat : k \in S
  BY <1>12, <1>14, EveryNumber
<1>16. So(Len(blocks))
  <2>1. Len(blocks) \in S /\ Len(blocks) <= Len(blocks)
    BY <1>1, <1>15
  <2> QED BY <2>1 DEF S
<1> DEFINE done == pile[Len(parts)]
           at == from(Len(blocks) + 1)
<1>17. /\ done \in Seq(Line) /\ Content(done) = Content(SubSeq(lines, 1, at - 1))
       /\ Asks(done) => Asks(lines)
  BY <1>1, <1>10, <1>11, <1>16 DEF So
<1>18. at \in Int /\ 1 <= at /\ at <= Len(lines) + 1
  <2>1. Len(blocks) + 1 \in 1..Len(blocks) + 1
    BY <1>1
  <2> QED BY <1>4, <2>1
<1>19. rest \in Seq(Line) /\ (Asks(rest) => Asks(lines)) /\ rest = SubSeq(lines, at, Len(lines))
  BY <1>1, <1>18, Stretch, AsksWhole
<1>20. Content(SubSeq(lines, 1, Len(lines))) = Content(SubSeq(lines, 1, at - 1)) \o Content(rest)
  <2>1. /\ 1 \in Int /\ at \in Int /\ Len(lines) \in Int /\ 1 <= 1 /\ 1 <= at
        /\ at <= Len(lines) + 1 /\ Len(lines) <= Len(lines)
    BY <1>1, <1>18
  <2> HIDE DEF at
  <2>2. Content(SubSeq(lines, 1, Len(lines))) =
           Content(SubSeq(lines, 1, at - 1)) \o Content(SubSeq(lines, at, Len(lines)))
    BY <2>1, Stretches
  <2> QED BY <1>19, <2>2
<1>21. SubSeq(lines, 1, Len(lines)) = lines
  BY SubSeqFull
<1> HIDE DEF done, rest
<1>22. /\ done \o rest \in Seq(Line) /\ Content(done \o rest) = Content(done) \o Content(rest)
       /\ Asks(done \o rest) => Asks(done) \/ Asks(rest)
  BY <1>17, <1>19, ConcatProperties, ContentConcat, AsksConcat
<1>23. Faithful(lines, done \o rest)
  BY <1>17, <1>19, <1>20, <1>21, <1>22 DEF Faithful
<1>24. FlattenSeq(parts) = done
  BY <1>11 DEF done
<1> QED BY <1>2, <1>23, <1>24

\* Of the lines from first to next - 1, those from p to q may say something.
Encloses(lines, first, p, q, next) ==
  /\ first \in Nat /\ p \in Int /\ q \in Int /\ next \in Nat
  /\ 1 <= first /\ first <= p /\ p <= q + 1 /\ q < next /\ first < next
  /\ next <= Len(lines) + 1
  /\ \A i \in first..p - 1 : Says(lines[i]) = <<>>
  /\ \A i \in q + 1..next - 1 : Says(lines[i]) = <<>>
  /\ \A i \in first + 1..p - 1 : ~IsOpener(lines[i], ActiveStyle)
  /\ \A i \in q + 1..next - 1 : ~IsOpener(lines[i], ActiveStyle)

\* The lines of a stretch, and where they come from.
LEMMA InStretch ==
  ASSUME NEW lines \in Seq(Line), NEW a \in Nat, NEW b \in Nat, 1 <= a, b <= Len(lines),
         NEW j \in Nat, a <= j, j <= b
  PROVE  \E m \in 1..Len(SubSeq(lines, a, b)) : SubSeq(lines, a, b)[m] = lines[j]
<1> DEFINE part == SubSeq(lines, a, b)
<1>1. /\ Len(part) = b - a + 1
      /\ \A m \in 1..Len(part) : part[m] = lines[a + m - 1]
  <2>1. a <= b + 1 /\ a \in Int /\ b \in Int
    OBVIOUS
  <2> QED BY <2>1, Stretch
<1> HIDE DEF part
<1> DEFINE m == j - a + 1
<1>2. m \in 1..Len(part) /\ a + m - 1 = j
  BY <1>1
<1> HIDE DEF m
<1>3. part[m] = lines[j]
  BY <1>1, <1>2
<1> QED BY <1>2, <1>3 DEF part

LEMMA BlockStands ==
  ASSUME NEW lines \in Seq(Line), NEW b \in BlockShape, NEW first, NEW p, NEW q, NEW next,
         Encloses(lines, first, p, q, next),
         b.first = first, After(b) = next, b.body = SubSeq(lines, p, q),
         b.lang = "bash" => Asks(lines)
  PROVE  b \in BlocksOf(lines)
<1> DEFINE body == SubSeq(lines, p, q)
<1>0. /\ first \in Nat /\ p \in Int /\ q \in Int /\ next \in Nat
      /\ 1 <= first /\ first <= p /\ p <= q + 1 /\ q < next /\ first < next
      /\ next <= Len(lines) + 1
  BY DEF Encloses
<1>1. Len(lines) \in Nat /\ q <= Len(lines) /\ 1 <= p /\ next - 1 <= Len(lines) /\ next - 1 \in Int
      /\ q + 1 \in Int /\ p - 1 \in Int /\ p - 1 <= Len(lines) /\ 1 <= q + 1
  BY <1>0
<1>2. body \in Seq(Line) /\ Content(body) \in Seq(Line) /\ (Asks(body) => Asks(lines))
  BY <1>0, <1>1, Stretch, AsksWhole
<1>3. Content(SubSeq(lines, first, p - 1)) = <<>>
  <2>1. \A i \in first..p - 1 : Says(lines[i]) = <<>>
    BY Zenon DEF Encloses
  <2> QED BY <1>0, <1>1, <2>1, SilentStretch
<1>4. Content(SubSeq(lines, q + 1, next - 1)) = <<>>
  <2>1. \A i \in q + 1..next - 1 : Says(lines[i]) = <<>>
    BY Zenon DEF Encloses
  <2> QED BY <1>0, <1>1, <2>1, SilentStretch
<1>5. Content(SubSeq(lines, first, next - 1)) =
         Content(SubSeq(lines, first, p - 1)) \o Content(SubSeq(lines, p, next - 1))
  <2> DEFINE e == next - 1
  <2>1. e \in Int /\ p <= e + 1 /\ e <= Len(lines) /\ first \in Int
        /\ 1 <= first /\ first <= p /\ p \in Int
    BY <1>0, <1>1
  <2> HIDE DEF e
  <2>2. Content(SubSeq(lines, first, e)) =
           Content(SubSeq(lines, first, p - 1)) \o Content(SubSeq(lines, p, e))
    BY <2>1, Stretches
  <2> QED BY <2>2, Zenon DEF e
<1>6. Content(SubSeq(lines, p, next - 1)) =
         Content(SubSeq(lines, p, q)) \o Content(SubSeq(lines, q + 1, next - 1))
  <2> DEFINE m == q + 1
             e == next - 1
  <2>1. m \in Int /\ p <= m /\ m <= e + 1 /\ m - 1 = q /\ e \in Int /\ e <= Len(lines)
        /\ 1 <= p /\ p \in Int
    BY <1>0, <1>1
  <2> HIDE DEF m, e
  <2>2. Content(SubSeq(lines, p, e)) =
           Content(SubSeq(lines, p, m - 1)) \o Content(SubSeq(lines, m, e))
    BY <2>1, Stretches
  <2>3. Content(SubSeq(lines, p, e)) =
           Content(SubSeq(lines, p, q)) \o Content(SubSeq(lines, m, e))
    BY <2>1, <2>2
  <2> QED BY <2>3, Zenon DEF m, e
<1>7. Content(SubSeq(lines, first, next - 1)) = Content(body)
  <2>1. Content(body) \o <<>> = Content(body) /\ <<>> \o Content(body) = Content(body)
    BY <1>2, ConcatEmptySeq
  <2>2. Content(SubSeq(lines, p, next - 1)) = Content(body)
    BY <1>4, <1>6, <2>1
  <2> HIDE DEF body
  <2> QED BY <1>3, <1>5, <2>1, <2>2
<1> HIDE DEF body
<1>8. ASSUME NEW i \in first + 1..next - 1, IsOpener(lines[i], ActiveStyle)
      PROVE  \E m \in 1..Len(body) : body[m] = lines[i]
  <2>1. i \notin first + 1..p - 1 /\ i \notin q + 1..next - 1
    BY <1>8 DEF Encloses
  <2>2. i \in Nat /\ p <= i /\ i <= q
    BY <1>0, <2>1
  <2>3. p \in Nat /\ q \in Nat
    BY <1>0, <2>2
  <2> QED BY <1>1, <2>2, <2>3, InStretch DEF body
<1>9. StandsFor(lines, b)
  BY <1>0, <1>2, <1>7, <1>8 DEF StandsFor, body
<1> QED BY <1>9 DEF BlocksOf

\* All blocks end at or before a line.
Before(blocks, at) == \A k \in 1..Len(blocks) : After(blocks[k]) <= at

LEMMA AppendPlaced ==
  ASSUME NEW lines, NEW blocks, Placed(lines, blocks), NEW b \in BlocksOf(lines),
         Before(blocks, b.first)
  PROVE  Placed(lines, Append(blocks, b)) /\ Before(Append(blocks, b), After(b))
<1> DEFINE new == Append(blocks, b)
<1>1. blocks \in Seq(BlocksOf(lines)) /\ Len(blocks) \in Nat
  BY DEF Placed
<1>2. /\ new \in Seq(BlocksOf(lines)) /\ Len(new) = Len(blocks) + 1
      /\ \A k \in 1..Len(blocks) : new[k] = blocks[k]
      /\ new[Len(blocks) + 1] = b
  BY <1>1, AppendProperties
<1> HIDE DEF new
<1>3. \A k \in 1..Len(new) : k = Len(blocks) + 1 \/ k \in 1..Len(blocks)
  BY <1>1, <1>2
<1>4. b.first \in Nat /\ After(b) \in Nat /\ b.first < After(b)
  BY BlockFacts, AfterType DEF StandsFor
<1>5. InOrder(new)
  <2> SUFFICES ASSUME NEW j \in 1..Len(new), NEW k \in 1..Len(new), j < k
               PROVE  After(new[j]) <= new[k].first
    BY DEF InOrder
  <2>1. j \in 1..Len(blocks) /\ new[j] = blocks[j]
    BY <1>1, <1>2, <1>3
  <2>2. CASE k \in 1..Len(blocks)
    <3>1. new[k] = blocks[k]
      BY <1>2, <2>2
    <3> QED BY <2>1, <2>2, <3>1 DEF Placed, InOrder
  <2>3. CASE k = Len(blocks) + 1
    BY <1>2, <2>1, <2>3 DEF Before
  <2> QED BY <1>3, <2>2, <2>3
<1>6. Before(new, After(b))
  <2> SUFFICES ASSUME NEW k \in 1..Len(new) PROVE After(new[k]) <= After(b)
    BY DEF Before
  <2>1. CASE k \in 1..Len(blocks)
    <3>1. new[k] = blocks[k] /\ After(blocks[k]) <= b.first /\ blocks[k] \in BlocksOf(lines)
      BY <1>1, <1>2, <2>1 DEF Before
    <3>2. After(blocks[k]) \in Nat
      BY <3>1, BlockFacts, AfterType
    <3> QED BY <1>4, <3>1, <3>2
  <2>2. CASE k = Len(blocks) + 1
    BY <1>2, <1>4, <2>2
  <2> QED BY <1>3, <2>1, <2>2
<1> QED BY <1>2, <1>5, <1>6 DEF Placed, new

LEMMA BeforeLater ==
  ASSUME NEW lines, NEW blocks, Placed(lines, blocks), NEW a \in Int, NEW b \in Int,
         Before(blocks, a), a <= b
  PROVE  Before(blocks, b)
<1> SUFFICES ASSUME NEW k \in 1..Len(blocks) PROVE After(blocks[k]) <= b
  BY DEF Before
<1>1. After(blocks[k]) <= a /\ blocks[k] \in BlocksOf(lines)
  BY DEF Before, Placed
<1>2. After(blocks[k]) \in Nat
  BY <1>1, BlockFacts, AfterType
<1> QED BY <1>1, <1>2

\* All blocks begin with one of these lines.
Begins(lines, blocks, starts) == \A k \in 1..Len(blocks) : lines[blocks[k].first] \in starts

Opening(style) == {l \in Line : IsOpener(l, style)}
TagOpening == {l \in Line : OpensTag(l)}

LEMMA AppendBegins ==
  ASSUME NEW E, NEW blocks \in Seq(E), NEW b \in E, NEW lines, NEW starts,
         Begins(lines, blocks, starts), lines[b.first] \in starts
  PROVE  Begins(lines, Append(blocks, b), starts)
<1> DEFINE new == Append(blocks, b)
<1>1. /\ Len(blocks) \in Nat /\ Len(new) = Len(blocks) + 1 /\ new[Len(blocks) + 1] = b
      /\ \A k \in 1..Len(blocks) : new[k] = blocks[k]
  BY AppendProperties
<1> HIDE DEF new
<1>2. \A k \in 1..Len(new) : k = Len(blocks) + 1 \/ k \in 1..Len(blocks)
  BY <1>1
<1>3. Begins(lines, new, starts)
  BY <1>1, <1>2 DEF Begins
<1> QED BY <1>3 DEF new

-----------------------------------------------------------------------------
(* The depth counter                                                       *)

IsCounting(f, lines, style, which, n) ==
  f = [i \in 0..n |-> IF i = 0 THEN NothingRead
                      ELSE Counted(lines, style, f[i - 1], which[i])]

LEMMA CountingExists ==
  ASSUME NEW lines, NEW style, NEW which
  PROVE  \A n \in Nat : \E f : IsCounting(f, lines, style, which, n)
<1> DEFINE S == {n \in Nat : \E f : IsCounting(f, lines, style, which, n)}
<1>1. 0 \in S
  <2>1. IsCounting([i \in 0..0 |-> NothingRead], lines, style, which, 0)
    BY DEF IsCounting
  <2> QED BY <2>1
<1>2. ASSUME NEW n \in Nat, n \in S PROVE n + 1 \in S
  <2>1. PICK f : IsCounting(f, lines, style, which, n)
    BY <1>2
  <2> DEFINE g == [i \in 0..(n + 1) |->
                     IF i = n + 1 THEN Counted(lines, style, f[n], which[n + 1]) ELSE f[i]]
  <2>2. \A i \in 0..n : f[i] = IF i = 0 THEN NothingRead
                               ELSE Counted(lines, style, f[i - 1], which[i])
    BY <2>1 DEF IsCounting
  <2>3. \A i \in 0..(n + 1) : g[i] = IF i = 0 THEN NothingRead
                                     ELSE Counted(lines, style, g[i - 1], which[i])
    BY <2>2
  <2>4. g = [i \in 0..(n + 1) |-> g[i]]
    OBVIOUS
  <2>5. IsCounting(g, lines, style, which, n + 1)
    <3> HIDE DEF g
    <3> QED BY <2>3, <2>4 DEF IsCounting
  <2> QED BY <2>5
<1> HIDE DEF S
<1>3. \A n \in Nat : n \in S
  BY <1>1, <1>2, EveryNumber
<1> QED BY <1>3 DEF S

\* The state of the counter after each line.
Counting(f, lines, style) ==
  /\ f[0] = NothingRead
  /\ \A i \in 1..Len(lines) : f[i] = Counted(lines, style, f[i - 1], i)
  /\ ScanStyle(lines, style) = ScanEnd(lines, f[Len(lines)])

LEMMA PositionsOf ==
  ASSUME NEW lines \in Seq(Line)
  PROVE  Len(Positions(lines)) = Len(lines) /\ \A i \in 1..Len(lines) : Positions(lines)[i] = i
<1>1. DOMAIN lines = 1..Len(lines) /\ Len(lines) \in Nat
  OBVIOUS
<1>2. Positions(lines) = [i \in 1..Len(lines) |-> i]
  BY <1>1 DEF Positions
<1> QED BY <1>1, <1>2

LEMMA Counts ==
  ASSUME NEW lines \in Seq(Line), NEW style
  PROVE  \E f : Counting(f, lines, style)
<1> DEFINE which == Positions(lines)
<1>1. Len(lines) \in Nat /\ Len(which) = Len(lines) /\ \A i \in 1..Len(lines) : which[i] = i
  BY PositionsOf
<1>2. ScanStyle(lines, style) =
        ScanEnd(lines, (CHOOSE f : IsCounting(f, lines, style, which, Len(which)))[Len(which)])
  BY DEF ScanStyle, Along, IsCounting
<1> HIDE DEF which
<1>3. \E f : IsCounting(f, lines, style, which, Len(which))
  BY <1>1, CountingExists
<1>4. PICK f : /\ IsCounting(f, lines, style, which, Len(which))
               /\ ScanStyle(lines, style) = ScanEnd(lines, f[Len(which)])
  BY <1>2, <1>3
<1>5. \A i \in 0..Len(lines) : f[i] = IF i = 0 THEN NothingRead
                                      ELSE Counted(lines, style, f[i - 1], which[i])
  BY <1>1, <1>4 DEF IsCounting
<1>6. f[0] = NothingRead
  BY <1>1, <1>5
<1>7. ASSUME NEW i \in 1..Len(lines) PROVE f[i] = Counted(lines, style, f[i - 1], i)
  <2>1. i \in 0..Len(lines) /\ i # 0 /\ which[i] = i
    BY <1>1
  <2> QED BY <1>5, <2>1
<1> QED BY <1>1, <1>4, <1>6, <1>7 DEF Counting

\* What the counter has read of the first lines.
Readings(lines) ==
  [depth : Nat, start : Nat, blocks : Seq(BlocksOf(lines)), orphans : SUBSET Nat]

Read(lines, style, i, s) ==
  /\ s \in Readings(lines)
  /\ Placed(lines, s.blocks) /\ Before(s.blocks, i + 1)
  /\ Begins(lines, s.blocks, Opening(style))
  /\ s.depth > 0 => /\ s.start \in 1..i
                    /\ IsOpener(lines[s.start], style)
                    /\ Before(s.blocks, s.start)
  /\ \A j \in s.orphans : j \in 1..Len(lines) => Says(lines[j]) = <<>>

LEMMA OpenerSilent ==
  ASSUME NEW lines \in Seq(Line), NEW style, NEW i \in 1..Len(lines), IsOpener(lines[i], style)
  PROVE  /\ lines[i].lang \in Langs /\ Says(lines[i]) = <<>>
         /\ lines[i].lang = "bash" => Asks(lines)
<1>1. lines[i] \in Line /\ i \in DOMAIN lines
  OBVIOUS
<1>2. lines[i].lang \in Langs /\ Says(lines[i]) = <<>>
  BY <1>1, Openers, Silent
<1>3. lines[i].lang = "bash" => AsksShell(lines[i])
  BY DEF AsksShell, IsOpener
<1> QED BY <1>1, <1>2, <1>3 DEF Asks

LEMMA CloserOpensNot == \A l, style : IsCloser(l, style) => ~IsOpener(l, ActiveStyle)
BY DEF IsOpener, IsCloser

LEMMA ReadOn ==
  ASSUME NEW lines \in Seq(Line), NEW style, NEW i \in 1..Len(lines), NEW s,
         Read(lines, style, i - 1, s)
  PROVE  Read(lines, style, i, Counted(lines, style, s, i))
<1> DEFINE now == Counted(lines, style, s, i)
<1>1. /\ s \in Readings(lines) /\ s.depth \in Nat /\ s.start \in Nat
      /\ s.blocks \in Seq(BlocksOf(lines)) /\ s.orphans \in SUBSET Nat
      /\ Placed(lines, s.blocks) /\ Before(s.blocks, i)
      /\ Begins(lines, s.blocks, Opening(style))
      /\ i \in Nat /\ lines[i] \in Line /\ Len(lines) \in Nat
      /\ \A j \in s.orphans : j \in 1..Len(lines) => Says(lines[j]) = <<>>
  <2>1. (i - 1) + 1 = i
    OBVIOUS
  <2> QED BY <2>1 DEF Read, Readings
<1>2. Before(s.blocks, i + 1)
  <2>1. i \in Int /\ i + 1 \in Int /\ i <= i + 1
    BY <1>1
  <2> QED BY <1>1, <2>1, BeforeLater
<1>3. s.depth > 0 => /\ s.start \in 1..i - 1 /\ s.start \in 1..i /\ s.start \in 1..Len(lines)
                     /\ IsOpener(lines[s.start], style) /\ Before(s.blocks, s.start)
  BY <1>1 DEF Read
<1>4. CASE IsOpener(lines[i], style)
  <2> DEFINE start == IF s.depth = 0 THEN i ELSE s.start
  <2>1. now = [s EXCEPT !.depth = @ + 1, !.start = IF s.depth = 0 THEN i ELSE @]
    <3>1. ~IsCloser(lines[i], style)
      BY <1>4 DEF IsOpener, IsCloser
    <3> QED BY <1>4, <3>1 DEF Counted
  <2>2. /\ now \in Readings(lines) /\ now.blocks = s.blocks /\ now.orphans = s.orphans
        /\ now.start = IF s.depth = 0 THEN i ELSE s.start
    <3>1. now = [s EXCEPT !.depth = s.depth + 1, !.start = start]
      BY <1>1, <2>1 DEF Readings
    <3>2. start \in Nat /\ s.depth + 1 \in Nat
      BY <1>1
    <3> HIDE DEF start, now
    <3>3. /\ now \in Readings(lines) /\ now.blocks = s.blocks /\ now.orphans = s.orphans
          /\ now.start = start
      BY <1>1, <3>1, <3>2 DEF Readings
    <3> QED BY <3>3 DEF start
  <2> HIDE DEF now
  <2>3. /\ now.start \in 1..i /\ IsOpener(lines[now.start], style)
        /\ Before(now.blocks, now.start)
    <3>1. CASE s.depth = 0
      BY <1>1, <1>4, <2>2, <3>1
    <3>2. CASE s.depth # 0
      <4>1. s.depth > 0 /\ now.start = s.start
        BY <1>1, <2>2, <3>2
      <4> QED BY <1>3, <2>2, <4>1
    <3> QED BY <3>1, <3>2
  <2>4. Read(lines, style, i, now)
    BY <1>1, <1>2, <2>2, <2>3 DEF Read
  <2> QED BY <2>4 DEF now
<1>5. CASE IsCloser(lines[i], style) /\ s.depth > 1
  <2>1. ~IsOpener(lines[i], style)
    BY <1>5 DEF IsOpener, IsCloser
  <2>2. now = [s EXCEPT !.depth = s.depth - 1]
    BY <1>5, <2>1 DEF Counted
  <2>3. /\ now \in Readings(lines) /\ now.blocks = s.blocks /\ now.orphans = s.orphans
        /\ now.start = s.start
    BY <1>1, <1>5, <2>2 DEF Readings
  <2>4. s.depth > 0
    BY <1>1, <1>5
  <2> HIDE DEF now
  <2>5. Read(lines, style, i, now)
    BY <1>1, <1>2, <1>3, <2>3, <2>4 DEF Read
  <2> QED BY <2>5 DEF now
<1>6. CASE IsCloser(lines[i], style) /\ s.depth = 1
  <2> DEFINE b == Block(s.start, i, lines[s.start].lang,
                        SubSeq(lines, s.start + 1, i - 1), FALSE, TRUE)
  <2>1. ~IsOpener(lines[i], style) /\ ~(s.depth > 1)
    BY <1>6 DEF IsOpener, IsCloser
  <2>2. now = [s EXCEPT !.depth = 0, !.blocks = Append(s.blocks, b)]
    BY <1>6, <2>1 DEF Counted
  <2>3. /\ s.start \in 1..i - 1 /\ s.start \in 1..Len(lines)
        /\ IsOpener(lines[s.start], style) /\ Before(s.blocks, s.start)
    BY <1>3, <1>6
  <2>4. b \in BlocksOf(lines) /\ b.first = s.start /\ After(b) = i + 1
    <3>1. /\ lines[s.start].lang \in Langs /\ Says(lines[s.start]) = <<>>
          /\ lines[s.start].lang = "bash" => Asks(lines)
      BY <2>3, OpenerSilent
    <3>2. Says(lines[i]) = <<>>
      BY <1>1, <1>6, Closers, Silent
    <3>3. Encloses(lines, s.start, s.start + 1, i - 1, i + 1)
      <4>1. \A k \in s.start..(s.start + 1) - 1 : k = s.start
        BY <1>1
      <4>2. \A k \in (i - 1) + 1..(i + 1) - 1 : k = i
        BY <1>1
      <4>3. \A k \in s.start + 1..(s.start + 1) - 1 : FALSE
        BY <1>1
      <4> QED BY <1>1, <2>1, <2>3, <3>1, <3>2, <4>1, <4>2, <4>3, CloserOpensNot, <1>6
                 DEF Encloses
    <3>4. SubSeq(lines, s.start + 1, i - 1) \in Seq(Line)
      <4>1. s.start + 1 \in Int /\ i - 1 \in Int /\ 1 <= s.start + 1 /\ i - 1 <= Len(lines)
        BY <1>1, <2>3
      <4> QED BY <4>1, Stretch
    <3>5. /\ b \in BlockShape /\ b.first = s.start /\ After(b) = i + 1
          /\ b.body = SubSeq(lines, s.start + 1, i - 1) /\ b.lang = lines[s.start].lang
      BY <1>1, <3>1, <3>4 DEF Block, BlockShape, After
    <3> HIDE DEF b
    <3>6. b \in BlocksOf(lines)
      BY <3>1, <3>3, <3>5, BlockStands
    <3> QED BY <3>5, <3>6
  <2> HIDE DEF b
  <2>5. Before(s.blocks, b.first)
    BY <2>3, <2>4
  <2>6. Placed(lines, Append(s.blocks, b)) /\ Before(Append(s.blocks, b), i + 1)
    BY <1>1, <2>4, <2>5, AppendPlaced
  <2>7. Append(s.blocks, b) \in Seq(BlocksOf(lines))
    BY <2>6 DEF Placed
  <2>10. Begins(lines, Append(s.blocks, b), Opening(style))
    <3>1. lines[b.first] \in Opening(style)
      BY <2>3, <2>4 DEF Opening
    <3> QED BY <1>1, <2>4, <3>1, AppendBegins
  <2>8. /\ now \in Readings(lines) /\ now.blocks = Append(s.blocks, b)
        /\ now.orphans = s.orphans /\ now.depth = 0
    <3>1. 0 \in Nat
      OBVIOUS
    <3> DEFINE more == Append(s.blocks, b)
    <3>2. now = [s EXCEPT !.depth = 0, !.blocks = more] /\ more \in Seq(BlocksOf(lines))
      BY <2>2, <2>7
    <3> HIDE DEF more, now
    <3>3. /\ now \in Readings(lines) /\ now.blocks = more /\ now.orphans = s.orphans /\ now.depth = 0
      BY <1>1, <3>1, <3>2 DEF Readings
    <3> QED BY <3>3 DEF more
  <2> HIDE DEF now
  <2>9. Read(lines, style, i, now)
    BY <1>1, <2>6, <2>8, <2>10 DEF Read
  <2> QED BY <2>9 DEF now
<1>7. CASE IsCloser(lines[i], style) /\ s.depth = 0
  <2>1. ~IsOpener(lines[i], style) /\ ~(s.depth > 1) /\ s.depth # 1
    BY <1>7 DEF IsOpener, IsCloser
  <2>2. now = [s EXCEPT !.orphans = s.orphans \cup {i}]
    BY <1>7, <2>1 DEF Counted
  <2>3. /\ now \in Readings(lines) /\ now.blocks = s.blocks /\ now.orphans = s.orphans \cup {i}
        /\ now.depth = 0
    BY <1>1, <1>7, <2>2 DEF Readings
  <2>4. Says(lines[i]) = <<>>
    BY <1>1, <1>7, Closers, Silent
  <2> HIDE DEF now
  <2>5. Read(lines, style, i, now)
    BY <1>1, <1>2, <2>3, <2>4 DEF Read
  <2> QED BY <2>5 DEF now
<1>8. CASE ~IsOpener(lines[i], style) /\ ~IsCloser(lines[i], style)
  <2>1. now = s
    BY <1>8 DEF Counted
  <2> HIDE DEF now
  <2>2. Read(lines, style, i, now)
    BY <1>1, <1>2, <1>3, <2>1 DEF Read
  <2> QED BY <2>2 DEF now
<1>9. s.depth > 1 \/ s.depth = 1 \/ s.depth = 0
  BY <1>1
<1> QED BY <1>4, <1>5, <1>6, <1>7, <1>8, <1>9

LEMMA ScanPlaced ==
  ASSUME NEW lines \in Seq(Line), NEW style
  PROVE  /\ Placed(lines, ScanStyle(lines, style).blocks)
         /\ Begins(lines, ScanStyle(lines, style).blocks, Opening(style))
         /\ \A i \in 1..Len(lines) :
               i \in ScanStyle(lines, style).orphans => Says(lines[i]) = <<>>
<1>1. Len(lines) \in Nat
  OBVIOUS
<1>2. PICK f : Counting(f, lines, style)
  BY Counts
<1> DEFINE S == {i \in Nat : i <= Len(lines) => Read(lines, style, i, f[i])}
<1>3. 0 \in S
  <2>1. f[0] = NothingRead
    BY <1>2 DEF Counting
  <2>2. <<>> \in Seq(BlocksOf(lines)) /\ Len(<<>>) = 0
    OBVIOUS
  <2>3. Placed(lines, <<>>) /\ Before(<<>>, 0 + 1) /\ Begins(lines, <<>>, Opening(style))
    BY <2>2 DEF Placed, InOrder, Before, Begins
  <2>4. /\ NothingRead \in Readings(lines) /\ NothingRead.blocks = <<>>
        /\ NothingRead.depth = 0 /\ NothingRead.orphans = {}
    BY <2>2 DEF NothingRead, Readings
  <2>5. Read(lines, style, 0, NothingRead)
    BY <2>3, <2>4 DEF Read
  <2> QED BY <2>1, <2>5
<1>4. ASSUME NEW i \in Nat, i \in S PROVE i + 1 \in S
  <2> SUFFICES ASSUME i + 1 <= Len(lines) PROVE Read(lines, style, i + 1, f[i + 1])
    OBVIOUS
  <2>1. i + 1 \in 1..Len(lines) /\ (i + 1) - 1 = i /\ i <= Len(lines)
    BY <1>1
  <2>2. f[i + 1] = Counted(lines, style, f[i], i + 1)
    BY <1>2, <2>1 DEF Counting
  <2>3. Read(lines, style, (i + 1) - 1, f[i])
    BY <1>4, <2>1
  <2>4. Read(lines, style, i + 1, Counted(lines, style, f[i], i + 1))
    BY <2>1, <2>3, ReadOn
  <2> QED BY <2>2, <2>4
<1> HIDE DEF S
<1>5. \A i \in Nat : i \in S
  BY <1>3, <1>4, EveryNumber
<1> DEFINE s == f[Len(lines)]
<1>6. Read(lines, style, Len(lines), s) /\ ScanStyle(lines, style) = ScanEnd(lines, s)
  <2>1. Len(lines) \in S /\ Len(lines) <= Len(lines)
    BY <1>1, <1>5
  <2> QED BY <1>2, <2>1 DEF S, Counting
<1> HIDE DEF s
<1>7. /\ s.depth \in Nat /\ Placed(lines, s.blocks)
      /\ Begins(lines, s.blocks, Opening(style)) /\ s.blocks \in Seq(BlocksOf(lines))
      /\ \A j \in s.orphans : j \in 1..Len(lines) => Says(lines[j]) = <<>>
  BY <1>6 DEF Read, Readings
<1>8. CASE s.depth = 0
  <2>1. ScanStyle(lines, style).blocks = s.blocks /\ ScanStyle(lines, style).orphans = s.orphans
    BY <1>6, <1>8 DEF ScanEnd
  <2> QED BY <1>7, <2>1
<1>9. CASE s.depth # 0
  <2> DEFINE n == Len(lines)
             b == Block(s.start, n + 1, lines[s.start].lang,
                        SubSeq(lines, s.start + 1, n), TRUE, FALSE)
  <2>1. ScanStyle(lines, style).blocks = Append(s.blocks, b)
        /\ ScanStyle(lines, style).orphans = s.orphans
    <3>1. ScanEnd(lines, s) =
             [blocks |-> Append(s.blocks, b), orphans |-> s.orphans, unclosed |-> TRUE]
      BY <1>9 DEF ScanEnd
    <3> HIDE DEF b
    <3> QED BY <1>6, <3>1
  <2>2. /\ s.start \in 1..n /\ IsOpener(lines[s.start], style) /\ Before(s.blocks, s.start)
    BY <1>6, <1>7, <1>9 DEF Read
  <2>3. b \in BlocksOf(lines) /\ b.first = s.start
    <3>1. /\ lines[s.start].lang \in Langs /\ Says(lines[s.start]) = <<>>
          /\ lines[s.start].lang = "bash" => Asks(lines)
      BY <2>2, OpenerSilent
    <3>2. Encloses(lines, s.start, s.start + 1, n, n + 1)
      <4>1. \A k \in s.start..(s.start + 1) - 1 : k = s.start
        BY <2>2
      <4>2. \A k \in n + 1..(n + 1) - 1 : FALSE
        BY <1>1
      <4>3. \A k \in s.start + 1..(s.start + 1) - 1 : FALSE
        BY <2>2
      <4> QED BY <1>1, <2>2, <3>1, <4>1, <4>2, <4>3 DEF Encloses
    <3>3. SubSeq(lines, s.start + 1, n) \in Seq(Line)
      <4>1. s.start + 1 \in Int /\ n \in Int /\ 1 <= s.start + 1 /\ n <= Len(lines)
        BY <1>1, <2>2
      <4> QED BY <4>1, Stretch
    <3>4. /\ b \in BlockShape /\ b.first = s.start /\ After(b) = n + 1
          /\ b.body = SubSeq(lines, s.start + 1, n) /\ b.lang = lines[s.start].lang
      <4> DEFINE body == SubSeq(lines, s.start + 1, n)
                 lang == lines[s.start].lang
                 m == n + 1
      <4>1. s.start \in Nat /\ m \in Nat /\ lang \in Langs /\ body \in Seq(Line)
        BY <1>1, <2>2, <3>1, <3>3
      <4>2. b = Block(s.start, m, lang, body, TRUE, FALSE)
        OBVIOUS
      <4> HIDE DEF body, lang, m, b, n
      <4>3. /\ b \in BlockShape /\ b.first = s.start /\ After(b) = m
            /\ b.body = body /\ b.lang = lang
        BY <4>1, <4>2 DEF Block, BlockShape, After
      <4> QED BY <4>3 DEF body, lang, m
    <3> HIDE DEF b
    <3>5. b \in BlocksOf(lines)
      BY <3>1, <3>2, <3>4, BlockStands
    <3> QED BY <3>4, <3>5
  <2> HIDE DEF b
  <2>4. Placed(lines, Append(s.blocks, b))
    BY <1>7, <2>2, <2>3, AppendPlaced
  <2>5. Begins(lines, Append(s.blocks, b), Opening(style))
    <3>1. lines[b.first] \in Opening(style)
      BY <2>2, <2>3 DEF Opening
    <3> QED BY <1>7, <2>3, <3>1, AppendBegins
  <2> QED BY <1>7, <2>1, <2>4, <2>5
<1> QED BY <1>8, <1>9

-----------------------------------------------------------------------------
(* The protocol tags                                                       *)

IsGrouping(f, lines, which, n) ==
  f = [i \in 0..n |-> IF i = 0 THEN [at |-> 1, lastLang |-> "none", blocks |-> <<>>]
                      ELSE Grouped(lines, f[i - 1], which[i])]

LEMMA GroupingExists ==
  ASSUME NEW lines, NEW which
  PROVE  \A n \in Nat : \E f : IsGrouping(f, lines, which, n)
<1> DEFINE S == {n \in Nat : \E f : IsGrouping(f, lines, which, n)}
           base == [at |-> 1, lastLang |-> "none", blocks |-> <<>>]
<1>1. 0 \in S
  <2>1. IsGrouping([i \in 0..0 |-> base], lines, which, 0)
    BY DEF IsGrouping
  <2> QED BY <2>1
<1>2. ASSUME NEW n \in Nat, n \in S PROVE n + 1 \in S
  <2>1. PICK f : IsGrouping(f, lines, which, n)
    BY <1>2
  <2> DEFINE g == [i \in 0..(n + 1) |->
                     IF i = n + 1 THEN Grouped(lines, f[n], which[n + 1]) ELSE f[i]]
  <2> HIDE DEF base
  <2>2. \A i \in 0..n : f[i] = IF i = 0 THEN base ELSE Grouped(lines, f[i - 1], which[i])
    BY <2>1 DEF IsGrouping, base
  <2>3. \A i \in 0..(n + 1) : g[i] = IF i = 0 THEN base
                                     ELSE Grouped(lines, g[i - 1], which[i])
    BY <2>2
  <2>4. g = [i \in 0..(n + 1) |-> g[i]]
    OBVIOUS
  <2>5. IsGrouping(g, lines, which, n + 1)
    <3> HIDE DEF g
    <3> QED BY <2>3, <2>4 DEF IsGrouping, base
  <2> QED BY <2>5
<1> HIDE DEF S
<1>3. \A n \in Nat : n \in S
  BY <1>1, <1>2, EveryNumber
<1> QED BY <1>3 DEF S

\* The state of the tag scan after each line.
Grouping(f, lines) ==
  /\ f[0] = [at |-> 1, lastLang |-> "none", blocks |-> <<>>]
  /\ \A i \in 1..Len(lines) : f[i] = Grouped(lines, f[i - 1], i)
  /\ ScanProto(lines) = f[Len(lines)].blocks

LEMMA Groups ==
  ASSUME NEW lines \in Seq(Line)
  PROVE  \E f : Grouping(f, lines)
<1> DEFINE which == Positions(lines)
<1>1. Len(lines) \in Nat /\ Len(which) = Len(lines) /\ \A i \in 1..Len(lines) : which[i] = i
  BY PositionsOf
<1>2. ScanProto(lines) =
        (CHOOSE f : IsGrouping(f, lines, which, Len(which)))[Len(which)].blocks
  BY DEF ScanProto, Along, IsGrouping
<1> HIDE DEF which
<1>3. \E f : IsGrouping(f, lines, which, Len(which))
  BY <1>1, GroupingExists
<1>4. PICK f : /\ IsGrouping(f, lines, which, Len(which))
               /\ ScanProto(lines) = f[Len(which)].blocks
  BY <1>2, <1>3
<1> DEFINE base == [at |-> 1, lastLang |-> "none", blocks |-> <<>>]
<1>5. \A i \in 0..Len(lines) : f[i] = IF i = 0 THEN base
                                      ELSE Grouped(lines, f[i - 1], which[i])
  BY <1>1, <1>4 DEF IsGrouping
<1>6. f[0] = base
  BY <1>1, <1>5
<1>7. ASSUME NEW i \in 1..Len(lines) PROVE f[i] = Grouped(lines, f[i - 1], i)
  <2>1. i \in 0..Len(lines) /\ i # 0 /\ which[i] = i
    BY <1>1
  <2> QED BY <1>5, <2>1
<1> QED BY <1>1, <1>4, <1>6, <1>7 DEF Grouping

\* A run of lines from one on: all of them are so, and the run is as long as can be.
RunEnds(lines, from, to) ==
  /\ to \in from..Len(lines)
  /\ \A j \in from..to : OpensTag(lines[j])

LEMMA GroupEnds ==
  ASSUME NEW lines \in Seq(Line), NEW i \in 1..Len(lines), OpensTag(lines[i])
  PROVE  RunEnds(lines, i, GroupEnd(lines, i))
<1> DEFINE n == Len(lines)
           P(g) == /\ \A j \in i..g : OpensTag(lines[j])
                   /\ g = n \/ ~OpensTag(lines[g + 1])
<1>1. n \in Nat
  OBVIOUS
<1>2. \E g \in i..n : P(g)
  <2> DEFINE S == {g \in i..n : g = n \/ ~OpensTag(lines[g + 1])}
  <2>1. S \in SUBSET Nat /\ n \in S
    BY <1>1
  <2>2. PICK m \in S : \A k \in S : m <= k
    BY <2>1, SmallestNumber
  <2>3. m \in i..n /\ m \in Nat
    OBVIOUS
  <2>4. ASSUME NEW j \in i..m PROVE OpensTag(lines[j])
    <3>1. CASE j # i
      <4>1. j - 1 \in i..n /\ ~(m <= j - 1) /\ (j - 1) + 1 = j
        BY <1>1, <2>3, <3>1
      <4>2. j - 1 \notin S
        BY <2>2, <4>1
      <4> QED BY <4>1, <4>2
    <3> QED BY <3>1
  <2> QED BY <2>3, <2>4
<1>3. GroupEnd(lines, i) = CHOOSE g \in i..n : P(g)
  BY DEF GroupEnd
<1>4. GroupEnd(lines, i) \in i..n /\ P(GroupEnd(lines, i))
  <2> HIDE DEF P, n
  <2> QED BY <1>2, <1>3
<1> QED BY <1>4 DEF RunEnds

\* The closers behind the one that ends a body.
LEMMA ClosersBehind ==
  ASSUME NEW lines \in Seq(Line), NEW end \in 1..Len(lines), NEW last,
         last = CHOOSE k \in end..Len(lines) :
                  /\ \A j \in end + 1..k : ClosesTag(lines[j])
                  /\ k = Len(lines) \/ ~ClosesTag(lines[k + 1])
  PROVE  last \in end..Len(lines) /\ \A j \in end + 1..last : ClosesTag(lines[j])
<1> DEFINE n == Len(lines)
           P(g) == /\ \A j \in end + 1..g : ClosesTag(lines[j])
                   /\ g = n \/ ~ClosesTag(lines[g + 1])
<1>1. n \in Nat
  OBVIOUS
<1>2. \E g \in end..n : P(g)
  <2> DEFINE S == {g \in end..n : g = n \/ ~ClosesTag(lines[g + 1])}
  <2>1. S \in SUBSET Nat /\ n \in S
    BY <1>1
  <2>2. PICK m \in S : \A k \in S : m <= k
    BY <2>1, SmallestNumber
  <2>3. m \in end..n /\ m \in Nat
    OBVIOUS
  <2>4. ASSUME NEW j \in end + 1..m PROVE ClosesTag(lines[j])
    <3>1. j - 1 \in end..n /\ ~(m <= j - 1) /\ (j - 1) + 1 = j
      BY <1>1, <2>3
    <3>2. j - 1 \notin S
      BY <2>2, <3>1
    <3> QED BY <3>1, <3>2
  <2> QED BY <2>3, <2>4
<1>3. last = CHOOSE g \in end..n : P(g)
  OBVIOUS
<1>4. last \in end..n /\ P(last)
  <2> HIDE DEF P, n
  <2> QED BY <1>2, <1>3
<1> QED BY <1>4

LEMMA TagSilent ==
  ASSUME NEW lines \in Seq(Line), NEW i \in 1..Len(lines),
         lines[i].kind = "tag" \/ IsCloser(lines[i], ActiveStyle)
  PROVE  Says(lines[i]) = <<>>
<1>1. lines[i] \in Line
  OBVIOUS
<1>2. LineFenceLike(lines[i])
  BY <1>1, Tags, Closers
<1> QED BY <1>1, <1>2, Silent

LEMMA TagAsks ==
  ASSUME NEW lines \in Seq(Line), NEW i \in 1..Len(lines),
         OpensTag(lines[i]), lines[i].lang = "bash"
  PROVE  Asks(lines)
<1>1. AsksShell(lines[i]) /\ i \in DOMAIN lines
  BY DEF AsksShell, OpensTag
<1> QED BY <1>1 DEF Asks

\* What the tag scan has made of the first lines.
Groupings(lines) ==
  [at : Nat, lastLang : Langs \cup {"none"}, blocks : Seq(BlocksOf(lines))]

InGroups(lines, s) ==
  /\ s \in Groupings(lines)
  /\ Placed(lines, s.blocks) /\ Before(s.blocks, s.at)
  /\ Begins(lines, s.blocks, TagOpening)
  /\ s.lastLang = "bash" => Asks(lines)

\* A group of tags and what it encloses, from the line i on.
GroupAt(lines, i, g, end, last, closes, next) ==
  /\ RunEnds(lines, i, g)
  /\ end \in g + 1..Len(lines) + 1
  /\ end <= Len(lines) => EndsBody(lines[end])
  /\ closes => /\ end <= Len(lines) /\ last \in end..Len(lines)
               /\ \A j \in end + 1..last : ClosesTag(lines[j])
  /\ ~closes => last = end
  /\ next = IF closes THEN last + 1 ELSE last

\* The block it makes, from its first line to where the text goes on.
Stands(lines, b, i, next) ==
  /\ b \in BlocksOf(lines) /\ b.first = i
  /\ After(b) = next /\ next \in Nat /\ i < next

LEMMA GroupStands ==
  ASSUME NEW lines \in Seq(Line), NEW i \in 1..Len(lines), NEW g, NEW end, NEW last,
         NEW lang \in Langs, NEW auto \in BOOLEAN, NEW closes \in BOOLEAN,
         NEW next, GroupAt(lines, i, g, end, last, closes, next),
         lang = "bash" => Asks(lines),
         NEW b, b = Block(i, last, lang, SubSeq(lines, g + 1, end - 1), auto, closes)
  PROVE  Stands(lines, b, i, next)
<1> DEFINE body == SubSeq(lines, g + 1, end - 1)
<1>0. /\ RunEnds(lines, i, g) /\ end \in g + 1..Len(lines) + 1
      /\ end <= Len(lines) => EndsBody(lines[end])
      /\ closes => end <= Len(lines) /\ last \in end..Len(lines)
      /\ closes => \A j \in end + 1..last : ClosesTag(lines[j])
      /\ ~closes => last = end
  BY Zenon DEF GroupAt
<1>00. (closes => next = last + 1) /\ (~closes => next = last)
  BY Zenon DEF GroupAt
<1>1. /\ Len(lines) \in Nat /\ i \in Nat /\ g \in Nat /\ end \in Nat /\ last \in Nat
      /\ i <= g /\ g < end /\ g <= Len(lines) /\ end <= Len(lines) + 1 /\ end <= last
      /\ next \in Nat /\ last <= next /\ next <= Len(lines) + 1 /\ i < next
      /\ closes => last <= Len(lines)
  <2>1. /\ Len(lines) \in Nat /\ i \in Nat /\ g \in Nat /\ end \in Nat
        /\ i <= g /\ g < end /\ g <= Len(lines) /\ end <= Len(lines) + 1
    BY <1>0 DEF RunEnds
  <2>2. CASE closes
    <3>1. last \in end..Len(lines) /\ next = last + 1
      BY <1>0, <1>00, <2>2
    <3> QED BY <2>1, <3>1
  <2>3. CASE ~closes
    <3>1. last = end /\ next = last
      BY <1>0, <1>00, <2>3
    <3> QED BY <2>1, <2>3, <3>1
  <2> QED BY <2>1, <2>2, <2>3
<1>2. body \in Seq(Line)
  <2>1. g + 1 \in Int /\ end - 1 \in Int /\ 1 <= g + 1 /\ end - 1 <= Len(lines)
    BY <1>1
  <2> QED BY <2>1, Stretch
<1>3. ASSUME NEW j \in i..(g + 1) - 1 PROVE Says(lines[j]) = <<>>
  <2>1. j \in i..g /\ j \in 1..Len(lines)
    BY <1>1
  <2>2. lines[j].kind = "tag"
    BY <1>0, <2>1 DEF RunEnds, OpensTag
  <2> QED BY <2>1, <2>2, TagSilent
<1>4. ASSUME NEW j \in (end - 1) + 1..next - 1 PROVE Says(lines[j]) = <<>>
  <2>1. CASE closes
    <3>1. j \in end..last /\ j \in 1..Len(lines)
      BY <1>00, <1>1, <2>1
    <3>2. lines[j].kind = "tag" \/ IsCloser(lines[j], ActiveStyle)
      <4>1. CASE j = end
        <5>1. EndsBody(lines[j])
          BY <1>0, <2>1, <4>1
        <5> QED BY <5>1 DEF EndsBody
      <4>2. CASE j # end
        <5>1. j \in end + 1..last
          BY <1>1, <3>1, <4>2
        <5> QED BY <1>0, <2>1, <5>1 DEF ClosesTag
      <4> QED BY <4>1, <4>2
    <3> QED BY <3>1, <3>2, TagSilent
  <2>2. CASE ~closes
    BY <1>0, <1>00, <1>1, <2>2
  <2> QED BY <2>1, <2>2
<1>8. ASSUME NEW j \in i + 1..(g + 1) - 1 PROVE ~IsOpener(lines[j], ActiveStyle)
  <2>1. j \in i..g
    BY <1>1
  <2> QED BY <1>0, <2>1 DEF RunEnds, OpensTag, IsOpener
<1>9. ASSUME NEW j \in (end - 1) + 1..next - 1 PROVE ~IsOpener(lines[j], ActiveStyle)
  <2>1. CASE closes
    <3>1. j = end \/ j \in end + 1..last
      BY <1>00, <1>1, <2>1
    <3> QED BY <1>0, <2>1, <3>1, CloserOpensNot DEF EndsBody, ClosesTag, IsOpener
  <2>2. CASE ~closes
    BY <1>0, <1>00, <1>1, <2>2
  <2> QED BY <2>1, <2>2
<1>5. Encloses(lines, i, g + 1, end - 1, next)
  <2>1. /\ i \in Nat /\ g + 1 \in Int /\ end - 1 \in Int /\ next \in Nat
        /\ 1 <= i /\ i <= g + 1 /\ g + 1 <= (end - 1) + 1 /\ end - 1 < next /\ i < next
        /\ next <= Len(lines) + 1
    BY <1>1
  <2> QED BY <1>3, <1>4, <1>8, <1>9, <2>1 DEF Encloses
<1>6. b \in BlockShape /\ b.first = i /\ After(b) = next /\ b.body = body /\ b.lang = lang
  <2> HIDE DEF body
  <2>1. b \in BlockShape /\ b.first = i /\ b.body = body /\ b.lang = lang
        /\ b.last = last /\ b.consume = closes
    <3> DEFINE x == Block(i, last, lang, body, auto, closes)
    <3>1. x \in BlockShape /\ x.first = i /\ x.body = body /\ x.lang = lang
          /\ x.last = last /\ x.consume = closes
      BY <1>1, <1>2 DEF Block, BlockShape
    <3>2. x = b
      BY DEF body
    <3> HIDE DEF x
    <3> QED BY <3>1, <3>2
  <2>2. After(b) = IF closes THEN last + 1 ELSE last
    BY <2>1 DEF After
  <2> QED BY <1>00, <2>1, <2>2
<1>7. b \in BlocksOf(lines)
  BY <1>5, <1>6, BlockStands
<1> QED BY <1>1, <1>6, <1>7 DEF Stands

LEMMA GroupOn ==
  ASSUME NEW lines \in Seq(Line), NEW s, NEW i \in 1..Len(lines),
         InGroups(lines, s), s.at <= i, OpensTag(lines[i])
  PROVE  InGroups(lines, TagGroup(lines, s, i))
<1> DEFINE n == Len(lines)
           g == GroupEnd(lines, i)
           function == \E j \in i .. g : lines[j].name = "function"
           shell == \E j \in i .. g : lines[j].lang = "bash"
           own == IF shell THEN "bash" ELSE "python"
           lang == IF ~function /\ s.lastLang # "none" THEN s.lastLang ELSE own
           ends == {b \in g + 1 .. n : EndsBody(lines[b])}
           end == IF ends = {} THEN n + 1 ELSE Min(ends)
           closes == ends # {} /\ ~OpensTag(lines[end])
           last == IF ~closes THEN end
                   ELSE CHOOSE k \in end .. n :
                           /\ \A j \in end + 1 .. k : ClosesTag(lines[j])
                           /\ k = n \/ ~ClosesTag(lines[k + 1])
           next == IF closes /\ ClosesTag(lines[last])
                             /\ lines[last].name \in {"function", "tool_call"}
                   THEN "none" ELSE IF function THEN lang ELSE s.lastLang
           body == SubSeq(lines, g + 1, end - 1)
           one == Block(i, last, lang, body, FALSE, closes)
           other == Block(i, n + 1, lang, body, TRUE, FALSE)
           here == IF ends # {} THEN <<one>>
                   ELSE IF g = i /\ lines[i].name = "tool_call" /\ Accepted(body)
                   THEN <<other>>
                   ELSE <<>>
           at == IF closes THEN last + 1 ELSE last
<1>1. TagGroup(lines, s, i) = [at |-> at, lastLang |-> next, blocks |-> s.blocks \o here]
  BY DEF TagGroup
<1>2. n \in Nat /\ RunEnds(lines, i, g)
  BY GroupEnds
<1> HIDE DEF g
<1>3. g \in i..n /\ g \in Nat /\ i \in Nat /\ \A j \in i..g : OpensTag(lines[j])
  BY <1>2 DEF RunEnds
<1>4. shell => Asks(lines)
  <2> SUFFICES ASSUME NEW j \in i..g, lines[j].lang = "bash" PROVE Asks(lines)
    OBVIOUS
  <2>1. j \in 1..Len(lines) /\ OpensTag(lines[j])
    BY <1>2, <1>3
  <2> QED BY <2>1, TagAsks
<1>5. s \in Groupings(lines) /\ s.lastLang \in Langs \cup {"none"} /\ s.at \in Nat
      /\ s.blocks \in Seq(BlocksOf(lines))
      /\ Placed(lines, s.blocks) /\ Before(s.blocks, s.at)
      /\ Begins(lines, s.blocks, TagOpening)
      /\ (s.lastLang = "bash" => Asks(lines))
  BY DEF InGroups, Groupings
<1> HIDE DEF function, shell
<1>6. lang \in Langs /\ (lang = "bash" => Asks(lines))
  BY <1>4, <1>5 DEF Langs
<1> HIDE DEF lang
<1>7. next \in Langs \cup {"none"} /\ (next = "bash" => Asks(lines))
  <2>1. next = "none" \/ next = lang \/ next = s.lastLang
    BY Zenon
  <2> HIDE DEF next
  <2> QED BY <1>5, <1>6, <2>1
<1> HIDE DEF next
<1>8. ends # {} => end \in ends
  <2> SUFFICES ASSUME ends # {} PROVE Min(ends) \in ends
    OBVIOUS
  <2>1. ends \in SUBSET Nat
    BY <1>3
  <2> HIDE DEF ends
  <2>2. \E x \in ends : \A y \in ends : x <= y
    BY <2>1, SmallestNumber
  <2> QED BY <2>2 DEF Min
<1>9. /\ end \in g + 1..n + 1 /\ (end <= n => EndsBody(lines[end]))
      /\ ends # {} => end <= n
      /\ ends = {} => end = n + 1
  <2>1. CASE ends = {}
    BY <1>2, <1>3, <2>1
  <2>2. CASE ends # {}
    <3>1. end \in g + 1..n /\ EndsBody(lines[end])
      BY <1>8, <2>2
    <3> HIDE DEF end, ends
    <3> QED BY <1>2, <1>3, <2>2, <3>1
  <2> QED BY <2>1, <2>2
<1> DEFINE found == ends # {}
<1>10. (closes => found) /\ closes \in BOOLEAN /\ (found <=> ends # {})
       /\ (ends = {} => ~closes)
  OBVIOUS
<1> HIDE DEF end, ends
<1>11. closes => last = CHOOSE k \in end .. n :
                           /\ \A j \in end + 1 .. k : ClosesTag(lines[j])
                           /\ k = n \/ ~ClosesTag(lines[k + 1])
  OBVIOUS
<1>12. ~closes => last = end
  OBVIOUS
<1> HIDE DEF closes, last
<1>13. /\ closes => /\ end <= n /\ last \in end..n
                    /\ \A j \in end + 1..last : ClosesTag(lines[j])
       /\ last \in Nat
  <2>1. CASE closes
    <3>1. end \in 1..n
      BY <1>2, <1>3, <1>9, <1>10, <2>1
    <3>2. last \in end..n /\ \A j \in end + 1..last : ClosesTag(lines[j])
      BY <1>11, <2>1, <3>1, ClosersBehind
    <3> QED BY <2>1, <3>1, <3>2
  <2>2. CASE ~closes
    BY <1>2, <1>3, <1>9, <1>12, <2>2
  <2> QED BY <2>1, <2>2
<1> DEFINE block(auto) == Block(i, last, lang, body, auto, closes)
<1>21. ASSUME NEW auto \in BOOLEAN PROVE Stands(lines, block(auto), i, at)
  <2>1. GroupAt(lines, i, g, end, last, closes, at)
    BY <1>2, <1>9, <1>12, <1>13 DEF GroupAt
  <2> DEFINE b == block(auto)
  <2>2. b = Block(i, last, lang, SubSeq(lines, g + 1, end - 1), auto, closes)
    OBVIOUS
  <2> HIDE DEF b, at
  <2>3. Stands(lines, b, i, at)
    BY <1>6, <1>10, <2>1, <2>2, GroupStands
  <2> QED BY <2>3 DEF b
<1>14. one \in BlocksOf(lines) /\ one.first = i /\ After(one) \in Nat /\ i < After(one)
       /\ After(one) = at
  <2>1. FALSE \in BOOLEAN /\ one = block(FALSE)
    OBVIOUS
  <2> HIDE DEF one, block, at
  <2>2. Stands(lines, block(FALSE), i, at)
    BY <1>21, <2>1
  <2> QED BY <2>1, <2>2 DEF Stands
<1>15. ASSUME ends = {}
       PROVE  other \in BlocksOf(lines) /\ other.first = i /\ After(other) = at
  <2>1. ~closes /\ end = n + 1 /\ last = n + 1 /\ TRUE \in BOOLEAN /\ FALSE \in BOOLEAN
    BY <1>9, <1>10, <1>12, <1>15
  <2>2. closes = FALSE
    BY <1>10, <2>1
  <2> DEFINE x == block(TRUE)
  <2> HIDE DEF block
  <2>3. Stands(lines, x, i, at)
    BY <1>21, <2>1
  <2>4. x = other
    BY <2>1, <2>2 DEF block
  <2> HIDE DEF x, other, at
  <2> QED BY <2>3, <2>4 DEF Stands
<1>16. at \in Nat /\ i < at
  BY <1>14
<1> HIDE DEF one, other, at
<1>17. Before(s.blocks, i) /\ Before(s.blocks, at)
  <2>1. i \in Int /\ at \in Int /\ s.at \in Int /\ s.at <= i /\ s.at <= at
    BY <1>3, <1>5, <1>16
  <2> QED BY <1>5, <2>1, BeforeLater
<1>18. /\ Placed(lines, s.blocks \o here) /\ Before(s.blocks \o here, at)
       /\ Begins(lines, s.blocks \o here, TagOpening)
  <2>1. ASSUME NEW b \in BlocksOf(lines), b.first = i, After(b) = at
        PROVE  /\ Placed(lines, s.blocks \o <<b>>) /\ Before(s.blocks \o <<b>>, at)
               /\ Begins(lines, s.blocks \o <<b>>, TagOpening)
    <3>1. s.blocks \o <<b>> = Append(s.blocks, b)
      BY <1>5, AppendIsConcat
    <3>2. Placed(lines, Append(s.blocks, b)) /\ Before(Append(s.blocks, b), After(b))
      BY <1>5, <1>17, <2>1, AppendPlaced
    <3>3. Begins(lines, Append(s.blocks, b), TagOpening)
      <4>1. lines[i] \in Line /\ OpensTag(lines[i])
        OBVIOUS
      <4>2. lines[b.first] \in TagOpening
        BY <2>1, <4>1 DEF TagOpening
      <4> QED BY <1>5, <4>2, AppendBegins
    <3> QED BY <2>1, <3>1, <3>2, <3>3
  <2>2. s.blocks \o <<>> = s.blocks
    BY <1>5, ConcatEmptySeq
  <2>3. CASE ends # {}
    <3>1. here = <<one>>
      BY <2>3
    <3> HIDE DEF here
    <3> QED BY <1>14, <2>1, <3>1
  <2>4. CASE ends = {}
    <3>1. here = <<other>> \/ here = <<>>
      BY <2>4
    <3>2. other \in BlocksOf(lines) /\ other.first = i /\ After(other) = at
      BY <1>15, <2>4
    <3> HIDE DEF here
    <3>3. /\ Placed(lines, s.blocks \o <<other>>) /\ Before(s.blocks \o <<other>>, at)
          /\ Begins(lines, s.blocks \o <<other>>, TagOpening)
      BY <2>1, <3>2
    <3> QED BY <1>5, <1>17, <2>2, <3>1, <3>3
  <2> QED BY <2>3, <2>4
<1> DEFINE all == s.blocks \o here
<1>19. /\ Placed(lines, all) /\ Before(all, at) /\ all \in Seq(BlocksOf(lines))
       /\ Begins(lines, all, TagOpening)
  BY <1>18 DEF Placed
<1>20. TagGroup(lines, s, i) = [at |-> at, lastLang |-> next, blocks |-> all]
  BY <1>1
<1> HIDE DEF all, here
<1> QED BY <1>7, <1>16, <1>19, <1>20 DEF InGroups, Groupings

LEMMA ProtoPlaced ==
  ASSUME NEW lines \in Seq(Line)
  PROVE  Placed(lines, ScanProto(lines)) /\ Begins(lines, ScanProto(lines), TagOpening)
<1>1. Len(lines) \in Nat
  OBVIOUS
<1>2. PICK f : Grouping(f, lines)
  BY Groups
<1> DEFINE S == {i \in Nat : i <= Len(lines) => InGroups(lines, f[i])}
<1>3. 0 \in S
  <2> DEFINE base == [at |-> 1, lastLang |-> "none", blocks |-> <<>>]
  <2>1. f[0] = base
    BY <1>2 DEF Grouping
  <2>2. <<>> \in Seq(BlocksOf(lines)) /\ Len(<<>>) = 0
    OBVIOUS
  <2>3. Placed(lines, <<>>) /\ Before(<<>>, 1) /\ Begins(lines, <<>>, TagOpening)
    BY <2>2 DEF Placed, InOrder, Before, Begins
  <2>4. /\ base \in Groupings(lines) /\ base.blocks = <<>> /\ base.at = 1
        /\ base.lastLang # "bash"
    BY <2>2 DEF Groupings
  <2> HIDE DEF base
  <2>5. InGroups(lines, base)
    BY <2>3, <2>4 DEF InGroups
  <2> QED BY <2>1, <2>5
<1>4. ASSUME NEW i \in Nat, i \in S PROVE i + 1 \in S
  <2> SUFFICES ASSUME i + 1 <= Len(lines) PROVE InGroups(lines, f[i + 1])
    OBVIOUS
  <2>1. i + 1 \in 1..Len(lines) /\ (i + 1) - 1 = i /\ i <= Len(lines)
    BY <1>1
  <2>2. f[i + 1] = Grouped(lines, f[i], i + 1)
    BY <1>2, <2>1 DEF Grouping
  <2>3. InGroups(lines, f[i])
    BY <1>4, <2>1
  <2>4. CASE i + 1 < f[i].at \/ ~OpensTag(lines[i + 1])
    BY <2>2, <2>3, <2>4 DEF Grouped
  <2>5. CASE ~(i + 1 < f[i].at) /\ OpensTag(lines[i + 1])
    <3>1. f[i].at \in Nat
      BY <2>3 DEF InGroups, Groupings
    <3>2. f[i].at <= i + 1
      BY <2>5, <3>1
    <3>3. InGroups(lines, TagGroup(lines, f[i], i + 1))
      BY <2>1, <2>3, <2>5, <3>2, GroupOn
    <3> QED BY <2>2, <2>5, <3>3 DEF Grouped
  <2> QED BY <2>4, <2>5
<1> HIDE DEF S
<1>5. \A i \in Nat : i \in S
  BY <1>3, <1>4, EveryNumber
<1>6. InGroups(lines, f[Len(lines)])
  <2>1. Len(lines) \in S /\ Len(lines) <= Len(lines)
    BY <1>1, <1>5
  <2> QED BY <2>1 DEF S
<1> QED BY <1>2, <1>6 DEF Grouping, InGroups

-----------------------------------------------------------------------------
(* The ladder                                                              *)

LEMMA GoodPlaced ==
  ASSUME NEW lines \in Seq(Line)
  PROVE  /\ \A style : Placed(lines, Good(ScanStyle(lines, style).blocks))
         /\ Placed(lines, Good(ScanProto(lines)))
BY ScanPlaced, ProtoPlaced, OnlyPlaced DEF Good

LEMMA FinalizeFaithful ==
  ASSUME NEW lines \in Seq(Line)
  PROVE  Faithful(lines, Finalize(lines))
<1> DEFINE drop == ScanStyle(lines, ActiveStyle).orphans
<1>1. \A i \in 1..Len(lines) : i \in drop => Says(lines[i]) = <<>>
  BY ScanPlaced
<1>2. Finalize(lines) = RemoveAll(lines, drop)
  BY DEF Finalize
<1> HIDE DEF drop
<1> QED BY <1>1, <1>2, RemoveFaithful

LEMMA RenderedFaithful ==
  ASSUME NEW lines \in Seq(Line), NEW blocks, Placed(lines, blocks)
  PROVE  Faithful(lines, Finalize(Render(lines, blocks)))
<1> DEFINE rendered == Render(lines, blocks)
<1>1. Faithful(lines, rendered)
  BY RenderFaithful
<1> HIDE DEF rendered
<1>2. Faithful(rendered, Finalize(rendered))
  BY <1>1, FinalizeFaithful DEF Faithful
<1>3. Faithful(lines, Finalize(rendered))
  BY <1>1, <1>2, FaithfulTwice
<1> QED BY <1>3 DEF rendered

\* A result with a faithful text.
Repairs(lines, done) ==
  \E t, v, w : done = Result(t, v, w) /\ Faithful(lines, t)

LEMMA RepairsText ==
  ASSUME NEW lines, NEW done, Repairs(lines, done)
  PROVE  Faithful(lines, done.text)
<1>1. PICK t, v, w : done = Result(t, v, w) /\ Faithful(lines, t)
  BY DEF Repairs
<1>2. done.text = t
  BY <1>1 DEF Result
<1> QED BY <1>1, <1>2

LEMMA CommitFaithful ==
  ASSUME NEW lines \in Seq(Line), NEW style
  PROVE  Repairs(lines, Commit(lines, style))
<1> DEFINE scan == ScanStyle(lines, style)
           good == Good(scan.blocks)
           final == Finalize(Render(lines, good))
<1>1. \/ \E v, w : Commit(lines, style) = Result(lines, v, w)
      \/ \E v, w : Commit(lines, style) = Result(final, v, w)
  <2>1. CASE Untouched(scan, good, style)
    BY <2>1, Zenon DEF Commit
  <2>2. CASE ~Untouched(scan, good, style)
    BY <2>2, Zenon DEF Commit
  <2> QED BY <2>1, <2>2
<1>2. Faithful(lines, lines) /\ Faithful(lines, final)
  BY FaithfulSame, GoodPlaced, RenderedFaithful
<1> HIDE DEF final
<1> QED BY <1>1, <1>2, Zenon DEF Repairs

LEMMA CoreFaithful ==
  ASSUME NEW lines \in Seq(Line)
  PROVE  Repairs(lines, RepairCore(lines))
<1> DEFINE proto == Good(ScanProto(lines))
           final == Finalize(Render(lines, proto))
<1>1. Faithful(lines, lines) /\ Faithful(lines, final)
  BY FaithfulSame, GoodPlaced, RenderedFaithful
<1>2. \A v, w : Repairs(lines, Result(lines, v, w)) /\ Repairs(lines, Result(final, v, w))
  <2> HIDE DEF final
  <2> QED BY <1>1, Zenon DEF Repairs
<1>3. Repairs(lines, CommitProto(lines, proto, final))
  <2> HIDE DEF proto, final
  <2>1. CASE RendersExtractable(final, proto)
    BY <1>2, <2>1, Zenon DEF CommitProto
  <2>2. CASE ~RendersExtractable(final, proto)
    BY <1>2, <2>2, Zenon DEF CommitProto
  <2> QED BY <2>1, <2>2
<1>4. Repairs(lines, NoStageWins(lines, proto))
  <2> HIDE DEF proto
  <2>1. \/ NoStageWins(lines, proto) = CommitProto(lines, proto, final)
        \/ \E v, w : NoStageWins(lines, proto) = Result(lines, v, w)
    BY Zenon DEF NoStageWins
  <2> HIDE DEF final
  <2> QED BY <1>2, <1>3, <2>1, Zenon
<1>5. \/ \E style : RepairCore(lines) = Commit(lines, style)
      \/ RepairCore(lines) = NoStageWins(lines, proto)
  BY Zenon DEF RepairCore
<1> HIDE DEF proto, final
<1>6. \A style : Repairs(lines, Commit(lines, style))
  BY CommitFaithful
<1> QED BY <1>4, <1>5, <1>6, Zenon

LEMMA EnvelopeSilent ==
  ASSUME NEW lines \in Seq(Line), NEW blocks, NEW i \in 1..Len(lines),
         i \in EnvelopeLines(lines, blocks)
  PROVE  Says(lines[i]) = <<>>
<1>1. IsEnvelope(lines[i], "open") \/ IsEnvelope(lines[i], "close")
  BY Zenon DEF EnvelopeLines
<1>2. LineFenceLike(lines[i])
  BY <1>1 DEF IsEnvelope, LineFenceLike
<1>3. lines[i] \in Line
  OBVIOUS
<1> QED BY <1>2, <1>3, Silent

LEMMA StripFaithful ==
  ASSUME NEW lines \in Seq(Line)
  PROVE  Faithful(lines, StripEnvelopes(lines))
<1> DEFINE blocks == Good(ScanStyle(lines, ActiveStyle).blocks)
           drop == EnvelopeLines(lines, blocks)
<1>1. StripEnvelopes(lines) \in {lines, RemoveAll(lines, drop)}
  BY Zenon DEF StripEnvelopes
<1>2. \A i \in 1..Len(lines) : i \in drop => Says(lines[i]) = <<>>
  BY EnvelopeSilent
<1> HIDE DEF drop
<1>3. Faithful(lines, RemoveAll(lines, drop)) /\ Faithful(lines, lines)
  BY <1>2, RemoveFaithful, FaithfulSame
<1> QED BY <1>1, <1>3

LEMMA FinishFaithful ==
  ASSUME NEW lines, NEW core, Repairs(lines, core)
  PROVE  Repairs(lines, Finish(core))
<1> DEFINE stripped == StripEnvelopes(core.text)
<1>1. Faithful(lines, core.text)
  BY RepairsText
<1>2. Faithful(core.text, stripped)
  BY <1>1, StripFaithful DEF Faithful
<1>3. Finish(core) = core \/ \E v, w : Finish(core) = Result(stripped, v, w)
  BY Zenon DEF Finish
<1> HIDE DEF stripped
<1>4. Faithful(lines, stripped)
  BY <1>1, <1>2, FaithfulTwice
<1>5. \A v, w : Repairs(lines, Result(stripped, v, w))
  BY <1>4, Zenon DEF Repairs
<1> QED BY <1>3, <1>5, Zenon

LEMMA ReportFaithful ==
  ASSUME NEW lines, NEW old, NEW glued, NEW done, Repairs(lines, done)
  PROVE  Repairs(lines, ReportSplit(old, glued, done))
<1>1. PICK t, v, w : done = Result(t, v, w) /\ Faithful(lines, t)
  BY DEF Repairs
<1>2. \A x : [done EXCEPT !.steps = x] = Result(t, v, x)
  BY <1>1 DEF Result
<1>3. ReportSplit(old, glued, done) = done
      \/ \E x : ReportSplit(old, glued, done) = [done EXCEPT !.steps = x]
  BY Zenon DEF ReportSplit
<1>4. \A x : Repairs(lines, Result(t, v, x))
  BY <1>1, Zenon DEF Repairs
<1>5. CASE ReportSplit(old, glued, done) = done
  BY <1>5
<1>6. CASE \E x : ReportSplit(old, glued, done) = [done EXCEPT !.steps = x]
  <2>1. PICK x : ReportSplit(old, glued, done) = [done EXCEPT !.steps = x]
    BY <1>6
  <2>2. ReportSplit(old, glued, done) = Result(t, v, x)
    BY <1>2, <2>1
  <2> QED BY <1>4, <2>2
<1> QED BY <1>3, <1>5, <1>6

LEMMA RepairsOnward ==
  ASSUME NEW lines, NEW then, NEW done, Faithful(lines, then), Repairs(then, done)
  PROVE  Repairs(lines, done)
BY FaithfulTwice, Zenon DEF Repairs

LEMMA PassFaithful ==
  ASSUME NEW lines \in Seq(Line)
  PROVE  Repairs(lines, OnePass(lines))
<1> DEFINE glued == FixGlueOpeners(lines)
           done == Finish(RepairCore(glued))
<1>1. Faithful(lines, glued)
  BY GlueFaithful
<1>2. OnePass(lines) = ReportSplit(lines, glued, done)
  BY DEF OnePass
<1>3. Repairs(glued, done)
  <2>1. glued \in Seq(Line)
    BY <1>1 DEF Faithful
  <2> HIDE DEF glued
  <2> QED BY <2>1, CoreFaithful, FinishFaithful
<1> HIDE DEF glued, done
<1>4. Repairs(lines, done)
  BY <1>1, <1>3, RepairsOnward
<1> QED BY <1>2, <1>4, ReportFaithful

-----------------------------------------------------------------------------
(* The passes                                                              *)

FirstPass(lines) ==
  [text |-> lines, verdict |-> "clean", steps |-> {}, settled |-> FALSE]

IsChain(f, lines, n) ==
  f = [i \in 0..n |-> IF i = 0 THEN FirstPass(lines) ELSE OnceMore(f[i - 1])]

LEMMA ChainExists ==
  ASSUME NEW lines
  PROVE  \A n \in Nat : \E f : IsChain(f, lines, n)
<1> DEFINE S == {n \in Nat : \E f : IsChain(f, lines, n)}
<1>1. 0 \in S
  <2>1. IsChain([i \in 0..0 |-> FirstPass(lines)], lines, 0)
    BY DEF IsChain
  <2> QED BY <2>1
<1>2. ASSUME NEW n \in Nat, n \in S PROVE n + 1 \in S
  <2>1. PICK f : IsChain(f, lines, n)
    BY <1>2
  <2> DEFINE g == [i \in 0..(n + 1) |-> IF i = n + 1 THEN OnceMore(f[n]) ELSE f[i]]
  <2>2. \A i \in 0..n : f[i] = IF i = 0 THEN FirstPass(lines) ELSE OnceMore(f[i - 1])
    BY <2>1 DEF IsChain
  <2>3. \A i \in 0..(n + 1) : g[i] = IF i = 0 THEN FirstPass(lines) ELSE OnceMore(g[i - 1])
    BY <2>2
  <2>4. g = [i \in 0..(n + 1) |-> g[i]]
    OBVIOUS
  <2>5. IsChain(g, lines, n + 1)
    <3> HIDE DEF g
    <3> QED BY <2>3, <2>4 DEF IsChain
  <2> QED BY <2>5
<1> HIDE DEF S
<1>3. \A n \in Nat : n \in S
  BY <1>1, <1>2, EveryNumber
<1> QED BY <1>3 DEF S

LEMMA PassesFaithful ==
  ASSUME NEW lines \in Seq(Line)
  PROVE  Faithful(lines, Passes(lines).text)
<1> DEFINE turns == [pass \in 1 .. MaxPasses |-> pass]
<1>1. Len(turns) = MaxPasses /\ MaxPasses \in Nat
  BY DEF MaxPasses
<1>2. Passes(lines) = (CHOOSE f : IsChain(f, lines, Len(turns)))[Len(turns)]
  BY DEF Passes, Along, IsChain, FirstPass
<1> HIDE DEF turns
<1>3. \E f : IsChain(f, lines, Len(turns))
  BY <1>1, ChainExists
<1>4. PICK f : IsChain(f, lines, MaxPasses) /\ Passes(lines) = f[MaxPasses]
  BY <1>1, <1>2, <1>3
<1>5. \A i \in 0..MaxPasses : f[i] = IF i = 0 THEN FirstPass(lines) ELSE OnceMore(f[i - 1])
  BY <1>4 DEF IsChain
<1> DEFINE S == {i \in Nat : i <= MaxPasses => Faithful(lines, f[i].text)}
<1>6. 0 \in S
  <2>1. f[0] = FirstPass(lines)
    BY <1>1, <1>5
  <2>2. f[0].text = lines
    BY <2>1 DEF FirstPass
  <2> QED BY <2>2, FaithfulSame
<1>7. ASSUME NEW i \in Nat, i \in S PROVE i + 1 \in S
  <2> SUFFICES ASSUME i + 1 <= MaxPasses PROVE Faithful(lines, f[i + 1].text)
    OBVIOUS
  <2>1. i + 1 \in 0..MaxPasses /\ i + 1 # 0 /\ (i + 1) - 1 = i /\ i <= MaxPasses
    BY <1>1
  <2>2. f[i + 1] = OnceMore(f[i]) /\ Faithful(lines, f[i].text)
    BY <1>5, <1>7, <2>1
  <2>3. CASE f[i].settled
    BY <2>2, <2>3 DEF OnceMore
  <2>4. CASE ~f[i].settled
    <3> DEFINE now == OnePass(f[i].text)
    <3>1. f[i + 1] = Chained(f[i], now)
      BY <2>2, <2>4 DEF OnceMore
    <3>2. f[i].text \in Seq(Line)
      BY <2>2 DEF Faithful
    <3>3. Repairs(f[i].text, now)
      BY <3>2, PassFaithful
    <3> HIDE DEF now
    <3>4. Faithful(f[i].text, now.text)
      BY <3>3, RepairsText
    <3>5. Chained(f[i], now).text = now.text
      BY DEF Chained
    <3>6. Faithful(lines, now.text)
      BY <2>2, <3>4, FaithfulTwice
    <3> QED BY <3>1, <3>5, <3>6
  <2> QED BY <2>3, <2>4
<1> HIDE DEF S
<1>8. \A i \in Nat : i \in S
  BY <1>6, <1>7, EveryNumber
<1>9. Faithful(lines, f[MaxPasses].text)
  <2>1. MaxPasses \in S /\ MaxPasses <= MaxPasses
    BY <1>1, <1>8
  <2> QED BY <2>1 DEF S
<1> QED BY <1>4, <1>9

\* The ladder says what the reply says, and asks for shell only if it does.
LEMMA RepairFaithful ==
  ASSUME NEW lines \in Seq(Line)
  PROVE  Faithful(lines, RepairResponse(lines).text)
<1> DEFINE last == Passes(lines)
<1>1. Faithful(lines, last.text) /\ Faithful(lines, lines)
  BY PassesFaithful, FaithfulSame
<1>2. RepairResponse(lines) = Conclude(lines, last)
  BY DEF RepairResponse
<1> HIDE DEF last
<1>3. \E t \in {lines, last.text} : \E v, w : Conclude(lines, last) = Result(t, v, w)
  BY Zenon DEF Conclude
<1>4. \A t, v, w : Result(t, v, w).text = t
  BY DEF Result
<1> QED BY <1>1, <1>2, <1>3, <1>4

-----------------------------------------------------------------------------
(* The answers of the segmenter                                            *)

SegmentShape ==
  [type : {"code"}, from : Int, to : Int, lang : Langs]
  \cup [type : {"prose", "drop"}, from : Int, to : Int, lang : {"none"}]

LEMMA SegmentFacts ==
  ASSUME NEW s \in SegmentShape
  PROVE  /\ s.type \in {"code", "prose", "drop"} /\ s.from \in Int /\ s.to \in Int
         /\ s.type = "code" => s.lang \in Langs
BY DEF SegmentShape

LEMMA SegmentsMade ==
  /\ \A from, to \in Int : Drop(from, to) \in SegmentShape
  /\ \A from, to \in Int : \A lang \in Langs : Segment("code", from, to, lang) \in SegmentShape
  /\ \A from, to \in Int : Segment("prose", from, to, "none") \in SegmentShape
BY DEF Drop, Segment, SegmentShape

LEMMA FlattenType ==
  ASSUME NEW E, NEW n \in Nat, NEW parts \in [1..n -> Seq(E)]
  PROVE  FlattenSeq(parts) \in Seq(E)
<1>1. parts \in Seq(Seq(E)) /\ Len(parts) = n
  OBVIOUS
<1>2. PICK pile \in [0..Len(parts) -> Seq(E)] : FlattenSeq(parts) = pile[Len(parts)]
  BY <1>1, Flattened
<1> QED BY <1>1, <1>2

LEMMA SmallestOf ==
  ASSUME NEW S, S \in SUBSET Int, NEW a \in Int, NEW b \in S, \A x \in S : a <= x
  PROVE  Min(S) \in S
<1> DEFINE T == {x - a : x \in S}
<1>1. T \in SUBSET Nat /\ T # {}
  OBVIOUS
<1>2. PICK m \in T : \A k \in T : m <= k
  BY <1>1, SmallestNumber
<1>3. PICK x \in S : m = x - a
  BY <1>2
<1>4. \A y \in S : x <= y
  <2> SUFFICES ASSUME NEW y \in S PROVE x <= y
    OBVIOUS
  <2>1. y - a \in T /\ x \in Int /\ y \in Int
    OBVIOUS
  <2>2. x - a <= y - a
    BY <1>2, <1>3, <2>1
  <2> QED BY <2>1, <2>2
<1> QED BY <1>4 DEF Min

LEMMA RangesType ==
  ASSUME NEW n \in Nat, NEW label \in [1..n -> Labels]
  PROVE  Ranges(label) \in Seq(SegmentShape)
<1> DEFINE Stops(i) == i = Len(label) \/ label[i + 1] # label[i]
           from(i) == Min({j \in 1 .. i : \A m \in j .. i : label[m] = label[i]})
           piece(i) == IF label[i] \in {"python", "bash"}
                       THEN Segment("code", from(i), i + 1, label[i])
                       ELSE Segment(label[i], from(i), i + 1, "none")
           part(i) == IF Stops(i) /\ label[i] # "gap" THEN <<piece(i)>> ELSE <<>>
           parts == [i \in DOMAIN label |-> part(i)]
<1>1. Ranges(label) = FlattenSeq(parts)
  BY DEF Ranges
<1>2. ASSUME NEW i \in 1..n PROVE part(i) \in Seq(SegmentShape)
  <2>1. from(i) \in Int /\ i + 1 \in Int /\ label[i] \in Labels
    <3> DEFINE S == {j \in 1 .. i : \A m \in j .. i : label[m] = label[i]}
    <3>1. S \in SUBSET Int /\ i \in S /\ \A x \in S : 1 <= x
      OBVIOUS
    <3>2. 1 \in Int
      OBVIOUS
    <3> HIDE DEF S
    <3>3. Min(S) \in S
      BY <3>1, <3>2, SmallestOf
    <3>4. Min(S) \in Int
      BY <3>1, <3>3
    <3> QED BY <3>4 DEF S
  <2> DEFINE a == from(i)
             b == i + 1
  <2>2. a \in Int /\ b \in Int
    BY <2>1
  <2>3. piece(i) = IF label[i] \in {"python", "bash"}
                   THEN Segment("code", a, b, label[i]) ELSE Segment(label[i], a, b, "none")
    OBVIOUS
  <2> HIDE DEF a, b
  <2>4. label[i] # "gap" => piece(i) \in SegmentShape
    <3> HIDE DEF piece
    <3>1. CASE label[i] \in {"python", "bash"}
      <4>1. label[i] \in Langs /\ piece(i) = Segment("code", a, b, label[i])
        BY <2>3, <3>1 DEF Langs
      <4>2. \A lang \in Langs : Segment("code", a, b, lang) \in SegmentShape
        BY <2>2, SegmentsMade
      <4> QED BY <4>1, <4>2
    <3>2. CASE label[i] = "prose"
      <4>1. piece(i) = Segment("prose", a, b, "none")
        BY <2>3, <3>2
      <4> QED BY <2>2, <4>1, SegmentsMade
    <3>3. CASE label[i] = "drop"
      <4>1. piece(i) = Drop(a, b)
        BY <2>3, <3>3 DEF Drop
      <4> QED BY <2>2, <4>1, SegmentsMade
    <3> QED BY <2>1, <3>1, <3>2, <3>3 DEF Labels
  <2>5. part(i) = <<>> \/ (label[i] # "gap" /\ part(i) = <<piece(i)>>)
    OBVIOUS
  <2> DEFINE x == piece(i)
  <2>6. part(i) = <<>> \/ (x \in SegmentShape /\ part(i) = <<x>>)
    BY <2>4, <2>5
  <2>7. <<>> \in Seq(SegmentShape) /\ \A y \in SegmentShape : <<y>> \in Seq(SegmentShape)
    OBVIOUS
  <2> HIDE DEF x, part
  <2> QED BY <2>6, <2>7, Zenon
<1>3. parts \in [1..n -> Seq(SegmentShape)]
  <2>1. parts = [i \in 1..n |-> part(i)]
    OBVIOUS
  <2> HIDE DEF part
  <2> QED BY <1>2, <2>1
<1> HIDE DEF parts
<1> QED BY <1>1, <1>3, FlattenType

LEMMA CutType ==
  ASSUME NEW s \in SegmentShape, s.type = "code", s.from < s.to, NEW lines
  PROVE  CutAtFences(s, lines) \in Seq(SegmentShape)
<1> DEFINE at(k) == s.from + k - 1
           piece(i, from) == Segment("code", from, i + 1, s.lang)
           starts(i) == {j \in s.from .. i : \A m \in j .. i : ~LineFenceLike(lines[m])}
           part(k) == IF LineFenceLike(lines[at(k)]) THEN <<Drop(at(k), at(k) + 1)>>
                      ELSE IF at(k) + 1 = s.to \/ LineFenceLike(lines[at(k) + 1])
                      THEN <<piece(at(k), Min(starts(at(k))))>> ELSE <<>>
           n == s.to - s.from
           parts == [k \in 1 .. n |-> part(k)]
<1>1. s.from \in Int /\ s.to \in Int /\ s.lang \in Langs /\ n \in Nat
  BY SegmentFacts
<1>2. CutAtFences(s, lines) = FlattenSeq(parts)
  BY DEF CutAtFences
<1>3. ASSUME NEW k \in 1..n PROVE part(k) \in Seq(SegmentShape)
  <2> DEFINE i == at(k)
             next == i + 1
             first == Min(starts(i))
  <2>1. i \in Int /\ next \in Int /\ s.from <= i
    BY <1>1
  <2>2. ~LineFenceLike(lines[i]) => first \in Int
    <3> SUFFICES ASSUME ~LineFenceLike(lines[i]) PROVE first \in Int
      OBVIOUS
    <3> DEFINE S == starts(i)
    <3> HIDE DEF i
    <3>1. S \in SUBSET Int /\ \A x \in S : s.from <= x
      BY <1>1
    <3>2. i \in S
      BY <1>1, <2>1
    <3> HIDE DEF S
    <3>3. Min(S) \in S
      BY <1>1, <3>1, <3>2, SmallestOf
    <3>4. Min(S) \in Int
      BY <3>1, <3>3
    <3> QED BY <3>4 DEF S
  <2> DEFINE d == Drop(i, next)
             c == Segment("code", first, next, s.lang)
  <2>3. part(k) = IF LineFenceLike(lines[i]) THEN <<d>>
                  ELSE IF next = s.to \/ LineFenceLike(lines[next]) THEN <<c>> ELSE <<>>
    OBVIOUS
  <2> HIDE DEF i, next, first, part, n
  <2>4. d \in SegmentShape
    BY <2>1, SegmentsMade
  <2>5. ~LineFenceLike(lines[i]) => c \in SegmentShape
    BY <1>1, <2>1, <2>2, SegmentsMade
  <2> HIDE DEF d, c
  <2> QED BY <2>3, <2>4, <2>5
<1>4. parts \in [1..n -> Seq(SegmentShape)]
  <2> HIDE DEF part, n
  <2> QED BY <1>3
<1> HIDE DEF parts, n
<1> QED BY <1>1, <1>2, <1>4, FlattenType

\* The repair of a partition, so far.
Repairing == [out : Seq(SegmentShape), cursor : Int]

LEMMA NormalizedType ==
  ASSUME NEW lines, NEW acc \in Repairing, NEW s \in SegmentShape
  PROVE  Normalized(lines, acc, s) \in Repairing
<1> DEFINE gap == Noise(lines, acc.cursor, s.from)
           coded == s.type = "code" /\ 1 <= s.from /\ s.to <= Len(lines) + 1
           cut == /\ coded /\ ~Parses(Lines(s, lines))
                  /\ \E i \in s.from .. s.to - 1 : LineFenceLike(lines[i])
           before == IF gap THEN <<Drop(acc.cursor, s.from)>> ELSE <<>>
           now == IF cut THEN CutAtFences(s, lines) ELSE <<s>>
           ends == {acc.cursor, s.to} \cup IF gap THEN {s.from} ELSE {}
<1>1. /\ acc.out \in Seq(SegmentShape) /\ acc.cursor \in Int
      /\ s.from \in Int /\ s.to \in Int
  BY SegmentFacts DEF Repairing
<1>2. Normalized(lines, acc, s) = [out |-> acc.out \o before \o now, cursor |-> Max(ends)]
  BY DEF Normalized
<1>3. before \in Seq(SegmentShape)
  <2> DEFINE d == Drop(acc.cursor, s.from)
  <2>1. d \in SegmentShape
    BY <1>1, SegmentsMade
  <2>2. before = <<d>> \/ before = <<>>
    OBVIOUS
  <2>3. <<>> \in Seq(SegmentShape) /\ \A y \in SegmentShape : <<y>> \in Seq(SegmentShape)
    OBVIOUS
  <2> HIDE DEF d, before
  <2> QED BY <2>1, <2>2, <2>3, Zenon
<1>4. now \in Seq(SegmentShape)
  <2>1. CASE cut
    <3>1. s.type = "code" /\ s.from < s.to
      BY <1>1, <2>1
    <3>2. CutAtFences(s, lines) \in Seq(SegmentShape)
      BY <3>1, CutType
    <3> QED BY <2>1, <3>2
  <2>2. CASE ~cut
    <3>1. now = <<s>>
      BY <2>2
    <3> HIDE DEF now
    <3> QED BY <3>1
  <2> QED BY <2>1, <2>2
<1>5. Max(ends) \in Int
  <2>1. ends = {acc.cursor, s.to} \/ ends = {acc.cursor, s.to, s.from}
    OBVIOUS
  <2> HIDE DEF ends
  <2>2. \E x \in ends : \A y \in ends : x >= y
    <3>1. \A a, b \in Int : \E x \in {a, b} : \A y \in {a, b} : x >= y
      <4> TAKE a, b \in Int
      <4>1. CASE a >= b
        BY <4>1
      <4>2. CASE b >= a
        BY <4>2
      <4> QED BY <4>1, <4>2
    <3>2. \A a, b, c \in Int : \E x \in {a, b, c} : \A y \in {a, b, c} : x >= y
      <4> TAKE a, b, c \in Int
      <4>1. CASE a >= b /\ a >= c
        BY <4>1
      <4>2. CASE b >= a /\ b >= c
        BY <4>2
      <4>3. CASE c >= a /\ c >= b
        BY <4>3
      <4> QED BY <4>1, <4>2, <4>3
    <3>3. CASE ends = {acc.cursor, s.to}
      BY <1>1, <3>1, <3>3
    <3>4. CASE ends = {acc.cursor, s.to, s.from}
      BY <1>1, <3>2, <3>4
    <3> QED BY <2>1, <3>3, <3>4
  <2>3. Max(ends) \in ends
    BY <2>2 DEF Max
  <2> QED BY <1>1, <2>1, <2>3
<1> HIDE DEF before, now, ends
<1>6. acc.out \o before \o now \in Seq(SegmentShape)
  BY <1>1, <1>3, <1>4, ConcatProperties
<1> QED BY <1>2, <1>5, <1>6 DEF Repairing

NothingRepaired == [out |-> <<>>, cursor |-> 1]

IsNormalizing(f, lines, segments, n) ==
  f = [i \in 0..n |-> IF i = 0 THEN NothingRepaired
                      ELSE Normalized(lines, f[i - 1], segments[i])]

LEMMA NormalizingExists ==
  ASSUME NEW lines, NEW segments
  PROVE  \A n \in Nat : \E f : IsNormalizing(f, lines, segments, n)
<1> DEFINE S == {n \in Nat : \E f : IsNormalizing(f, lines, segments, n)}
<1>1. 0 \in S
  <2>1. IsNormalizing([i \in 0..0 |-> NothingRepaired], lines, segments, 0)
    BY DEF IsNormalizing
  <2> QED BY <2>1
<1>2. ASSUME NEW n \in Nat, n \in S PROVE n + 1 \in S
  <2>1. PICK f : IsNormalizing(f, lines, segments, n)
    BY <1>2
  <2> DEFINE g == [i \in 0..(n + 1) |->
                     IF i = n + 1 THEN Normalized(lines, f[n], segments[n + 1]) ELSE f[i]]
  <2>2. \A i \in 0..n : f[i] = IF i = 0 THEN NothingRepaired
                               ELSE Normalized(lines, f[i - 1], segments[i])
    BY <2>1 DEF IsNormalizing
  <2>3. \A i \in 0..(n + 1) : g[i] = IF i = 0 THEN NothingRepaired
                                     ELSE Normalized(lines, g[i - 1], segments[i])
    BY <2>2
  <2>4. g = [i \in 0..(n + 1) |-> g[i]]
    OBVIOUS
  <2>5. IsNormalizing(g, lines, segments, n + 1)
    <3> HIDE DEF g
    <3> QED BY <2>3, <2>4 DEF IsNormalizing
  <2> QED BY <2>5
<1> HIDE DEF S
<1>3. \A n \in Nat : n \in S
  BY <1>1, <1>2, EveryNumber
<1> QED BY <1>3 DEF S

LEMMA NormalizeType ==
  ASSUME NEW lines \in Seq(Line), NEW segments \in Seq(SegmentShape)
  PROVE  NormalizeSegments(segments, lines) \in Seq(SegmentShape)
<1> DEFINE end == Along(LAMBDA acc, s : Normalized(lines, acc, s),
                        [out |-> <<>>, cursor |-> 1], segments)
<1>1. Len(segments) \in Nat /\ Len(lines) \in Nat
  OBVIOUS
<1>2. end = (CHOOSE f : IsNormalizing(f, lines, segments, Len(segments)))[Len(segments)]
  BY DEF Along, IsNormalizing, NothingRepaired
<1>3. \E f : IsNormalizing(f, lines, segments, Len(segments))
  BY <1>1, NormalizingExists
<1>4. NormalizeSegments(segments, lines) \in {Append(end.out, Drop(end.cursor, Len(lines) + 1)), end.out}
  BY DEF NormalizeSegments
<1> HIDE DEF end
<1>5. PICK f : IsNormalizing(f, lines, segments, Len(segments)) /\ end = f[Len(segments)]
  BY <1>2, <1>3
<1>6. \A i \in 0..Len(segments) : f[i] = IF i = 0 THEN NothingRepaired
                                         ELSE Normalized(lines, f[i - 1], segments[i])
  BY <1>5 DEF IsNormalizing
<1> DEFINE S == {i \in Nat : i <= Len(segments) => f[i] \in Repairing}
<1>7. 0 \in S
  <2>1. f[0] = NothingRepaired
    BY <1>1, <1>6
  <2>2. NothingRepaired \in Repairing
    BY DEF NothingRepaired, Repairing
  <2> QED BY <2>1, <2>2
<1>8. ASSUME NEW i \in Nat, i \in S PROVE i + 1 \in S
  <2> SUFFICES ASSUME i + 1 <= Len(segments) PROVE f[i + 1] \in Repairing
    OBVIOUS
  <2>1. /\ i + 1 \in 0..Len(segments) /\ i + 1 # 0 /\ (i + 1) - 1 = i /\ i <= Len(segments)
        /\ i + 1 \in 1..Len(segments)
    BY <1>1
  <2>2. f[i + 1] = Normalized(lines, f[i], segments[i + 1]) /\ f[i] \in Repairing
    BY <1>6, <1>8, <2>1
  <2>3. segments[i + 1] \in SegmentShape
    BY <2>1
  <2> QED BY <2>2, <2>3, NormalizedType
<1> HIDE DEF S
<1>9. \A i \in Nat : i \in S
  BY <1>7, <1>8, EveryNumber
<1>10. end \in Repairing
  <2>1. Len(segments) \in S /\ Len(segments) <= Len(segments)
    BY <1>1, <1>9
  <2> QED BY <1>5, <2>1 DEF S
<1>11. end.out \in Seq(SegmentShape) /\ end.cursor \in Int
  BY <1>10 DEF Repairing
<1>12. Drop(end.cursor, Len(lines) + 1) \in SegmentShape
  <2>1. Len(lines) + 1 \in Int
    BY <1>1
  <2> QED BY <1>11, <2>1, SegmentsMade
<1>13. Append(end.out, Drop(end.cursor, Len(lines) + 1)) \in Seq(SegmentShape)
  BY <1>11, <1>12, AppendProperties
<1> QED BY <1>4, <1>11, <1>13

-----------------------------------------------------------------------------
(* The reply, rebuilt from its own lines                                   *)

LEMMA SepFaithful ==
  ASSUME NEW out \in Seq(Line)
  PROVE  Sep(out) \in Seq(Line) /\ Content(Sep(out)) = Content(out) /\ (Asks(Sep(out)) => Asks(out))
<1>1. Sep(out) = out \/ Sep(out) = Append(out, Blank)
  BY Zenon DEF Sep
<1>2. /\ Blank \in Line /\ <<Blank>> \in Seq(Line)
      /\ Content(<<Blank>>) = <<>> /\ ~Asks(<<Blank>>)
  <2>1. Blank \in Line /\ Says(Blank) = <<>> /\ ~AsksShell(Blank)
    BY Blanks, NoShell
  <2> QED BY <2>1, ContentOfOne, AsksOfOne
<1>3. Append(out, Blank) = out \o <<Blank>>
  BY <1>2, AppendIsConcat
<1>4. /\ Content(out \o <<Blank>>) = Content(out) \o Content(<<Blank>>)
      /\ Asks(out \o <<Blank>>) => Asks(out) \/ Asks(<<Blank>>)
      /\ Content(out) \in Seq(Line) /\ out \o <<Blank>> \in Seq(Line)
  BY <1>2, ContentConcat, AsksConcat, ConcatProperties
<1>5. Content(out) \o <<>> = Content(out)
  BY <1>4, ConcatEmptySeq
<1>6. Content(Append(out, Blank)) = Content(out) /\ (Asks(Append(out, Blank)) => Asks(out))
      /\ Append(out, Blank) \in Seq(Line)
  BY <1>2, <1>3, <1>4, <1>5, Zenon
<1> QED BY <1>1, <1>6, Zenon

\* Where the first segments end.
Reached(segments, k) == IF k = 0 THEN 1 ELSE segments[k].to

LEMMA Tiles ==
  ASSUME NEW n \in Nat, NEW segments \in Seq(SegmentShape), GatePartition(segments, n)
  PROVE  /\ Reached(segments, 0) = 1 /\ Reached(segments, Len(segments)) = n + 1
         /\ \A k \in 1..Len(segments) :
               /\ segments[k].from = Reached(segments, k - 1)
               /\ segments[k].to = Reached(segments, k)
               /\ segments[k].from < segments[k].to
               /\ 1 <= segments[k].from /\ segments[k].to <= n + 1
<1> DEFINE r(k) == Reached(segments, k)
<1>1. Len(segments) \in Nat /\ DOMAIN segments = 1..Len(segments)
      /\ \A k \in 1..Len(segments) : segments[k].from \in Int /\ segments[k].to \in Int
  <2>1. \A k \in 1..Len(segments) : segments[k] \in SegmentShape
    OBVIOUS
  <2> QED BY <2>1, SegmentFacts
<1>2. r(0) = 1
  BY DEF Reached
<1>3. ASSUME NEW k \in 1..Len(segments)
      PROVE  /\ segments[k].from = r(k - 1) /\ segments[k].to = r(k)
             /\ segments[k].from < segments[k].to
             /\ r(k - 1) \in Int /\ r(k) \in Int
  <2>1. segments[k].from < segments[k].to
        /\ segments[k].from = IF k = 1 THEN 1 ELSE segments[k - 1].to
    BY <1>1 DEF GatePartition
  <2>2. segments[k].to = r(k)
    BY DEF Reached
  <2>3. segments[k].from = r(k - 1)
    BY <2>1 DEF Reached
  <2> QED BY <1>1, <2>1, <2>2, <2>3
<1>4. r(Len(segments)) = n + 1
  <2>1. CASE Len(segments) = 0
    <3>1. segments = <<>>
      BY <2>1
    <3> QED BY <1>2, <2>1, <3>1 DEF GatePartition
  <2>2. CASE Len(segments) # 0
    <3>1. segments # <<>>
      BY <2>2
    <3> QED BY <2>2, <3>1 DEF GatePartition, Last, Reached
  <2> QED BY <2>1, <2>2
<1> HIDE DEF r
<1> DEFINE Up == {k \in Nat : k <= Len(segments) => r(k) \in Int /\ 1 <= r(k)}
           Down == {d \in Nat : d <= Len(segments) =>
                                   /\ r(Len(segments) - d) \in Int
                                   /\ r(Len(segments) - d) <= n + 1}
<1>5. \A k \in Nat : k \in Up
  <2>1. 0 \in Up
    BY <1>2
  <2>2. ASSUME NEW k \in Nat, k \in Up PROVE k + 1 \in Up
    <3> SUFFICES ASSUME k + 1 <= Len(segments) PROVE r(k + 1) \in Int /\ 1 <= r(k + 1)
      OBVIOUS
    <3>1. k + 1 \in 1..Len(segments) /\ (k + 1) - 1 = k /\ k <= Len(segments)
      BY <1>1
    <3>2. r(k) < r(k + 1) /\ r(k + 1) \in Int
      BY <1>3, <3>1
    <3> QED BY <2>2, <3>1, <3>2
  <2> HIDE DEF Up
  <2> QED BY <2>1, <2>2, EveryNumber
<1>6. \A d \in Nat : d \in Down
  <2>1. 0 \in Down
    BY <1>1, <1>4
  <2>2. ASSUME NEW d \in Nat, d \in Down PROVE d + 1 \in Down
    <3> DEFINE k == Len(segments) - d
    <3> SUFFICES ASSUME d + 1 <= Len(segments)
                 PROVE  r(Len(segments) - (d + 1)) \in Int /\ r(Len(segments) - (d + 1)) <= n + 1
      OBVIOUS
    <3>1. k \in 1..Len(segments) /\ Len(segments) - (d + 1) = k - 1 /\ d <= Len(segments)
      BY <1>1
    <3>2. r(k) \in Int /\ r(k) <= n + 1
      BY <2>2, <3>1
    <3> HIDE DEF k
    <3>3. r(k - 1) < r(k) /\ r(k - 1) \in Int
      BY <1>3, <3>1
    <3> DEFINE x == r(k - 1)
               y == r(k)
    <3>4. x \in Int /\ y \in Int /\ x < y /\ y <= n + 1
      BY <3>2, <3>3
    <3>5. r(Len(segments) - (d + 1)) = x
      BY <3>1
    <3> HIDE DEF x, y
    <3>6. x <= n + 1
      BY <3>4
    <3> QED BY <3>4, <3>5, <3>6
  <2> HIDE DEF Down
  <2> QED BY <2>1, <2>2, EveryNumber
<1>7. ASSUME NEW k \in 1..Len(segments) PROVE 1 <= r(k - 1) /\ r(k) <= n + 1
  <2>1. k - 1 \in Nat /\ k - 1 <= Len(segments)
    BY <1>1
  <2>2. Len(segments) - k \in Nat /\ Len(segments) - k <= Len(segments)
        /\ Len(segments) - (Len(segments) - k) = k
    BY <1>1
  <2>3. k - 1 \in Up
    BY <1>5, <2>1
  <2>4. Len(segments) - k \in Down
    BY <1>6, <2>2
  <2>5. 1 <= r(k - 1)
    BY <2>1, <2>3
  <2>6. r(Len(segments) - (Len(segments) - k)) <= n + 1
    BY <2>2, <2>4
  <2> QED BY <2>2, <2>5, <2>6
<1> HIDE DEF Up, Down
<1>8. \A k \in 1..Len(segments) :
               /\ segments[k].from = r(k - 1)
               /\ segments[k].to = r(k)
               /\ segments[k].from < segments[k].to
               /\ 1 <= segments[k].from /\ segments[k].to <= n + 1
  BY <1>3, <1>7
<1> QED BY <1>2, <1>4, <1>8 DEF r

LEMMA Witnessed ==
  ASSUME NEW lines, ShWitness(lines)
  PROVE  Asks(lines)
<1>1. PICK i \in DOMAIN lines : lines[i] = Open(ActiveStyle, "bash")
  BY Zenon DEF ShWitness
<1>2. AsksShell(lines[i])
  BY <1>1 DEF AsksShell, Open
<1> QED BY <1>2 DEF Asks

\* What has been assembled of the lines before next.
Assembly(lines, next, acc) ==
  /\ acc.out \in Seq(Line)
  /\ Content(acc.out) = Content(SubSeq(lines, 1, next - 1))
  /\ Asks(acc.out) => Asks(lines)

\* A segment that passed the gates.
Fit(lines, s) ==
  /\ s \in SegmentShape
  /\ 1 <= s.from /\ s.from < s.to /\ s.to <= Len(lines) + 1
  /\ s.type = "drop" =>
        \A i \in s.from .. s.to - 1 : IsBlank(lines[i]) \/ LineFenceLike(lines[i])
  /\ s.lang = "bash" => Asks(lines)

LEMMA AssembledOn ==
  ASSUME NEW lines \in Seq(Line), NEW acc, NEW s, Fit(lines, s), Assembly(lines, s.from, acc)
  PROVE  Assembly(lines, s.to, Assembled(lines, acc, s))
<1> DEFINE from == s.from
           to == s.to
           e == to - 1
           new == Lines(s, lines)
           now == Assembled(lines, acc, s)
<1>1. /\ from \in Int /\ to \in Int /\ 1 <= from /\ from < to /\ e <= Len(lines) /\ e \in Int
      /\ from <= e + 1 /\ Len(lines) \in Nat /\ from - 1 \in Int /\ from - 1 <= Len(lines)
      /\ s.type \in {"code", "prose", "drop"}
      /\ s.type = "code" => s.lang \in Langs
  BY SegmentFacts DEF Fit
<1>2. new = SubSeq(lines, from, e)
  BY DEF Lines
<1> HIDE DEF new, e, from, to
<1>3. 1 \in Int /\ 1 <= 1
  OBVIOUS
<1>4. /\ new \in Seq(Line) /\ Content(new) \in Seq(Line) /\ (Asks(new) => Asks(lines))
  BY <1>1, <1>2, Stretch, AsksWhole
<1>5. Content(SubSeq(lines, 1, e)) = Content(SubSeq(lines, 1, from - 1)) \o Content(new)
  BY <1>1, <1>2, <1>3, Stretches
<1>6. /\ acc.out \in Seq(Line) /\ Content(acc.out) = Content(SubSeq(lines, 1, from - 1))
      /\ Asks(acc.out) => Asks(lines)
      /\ Content(acc.out) \in Seq(Line)
  <2>1. /\ acc.out \in Seq(Line) /\ Content(acc.out) = Content(SubSeq(lines, 1, from - 1))
        /\ Asks(acc.out) => Asks(lines)
    BY DEF Assembly, from
  <2> QED BY <2>1, ContentConcat
<1>7. /\ Sep(acc.out) \in Seq(Line) /\ Content(Sep(acc.out)) = Content(acc.out)
      /\ Asks(Sep(acc.out)) => Asks(lines)
  BY <1>6, SepFaithful
<1> SUFFICES /\ now.out \in Seq(Line)
             /\ Content(now.out) = Content(acc.out) \o Content(new)
             /\ Asks(now.out) => Asks(lines)
  <2>1. Content(acc.out) \o Content(new) = Content(SubSeq(lines, 1, s.to - 1))
    BY <1>5, <1>6 DEF e, to
  <2> HIDE DEF now
  <2> QED BY <2>1 DEF now, Assembly
<1>8. CASE s.type = "drop"
  <2>1. now = acc
    BY <1>8 DEF Assembled
  <2>2. \A i \in from..e : Says(lines[i]) = <<>>
    <3> SUFFICES ASSUME NEW i \in from..e PROVE Says(lines[i]) = <<>>
      OBVIOUS
    <3>1. lines[i] \in Line
      BY <1>1
    <3>2. IsBlank(lines[i]) \/ LineFenceLike(lines[i])
      BY <1>8 DEF Fit, from, e, to
    <3> QED BY <3>1, <3>2, Silent
  <2>3. Content(new) = <<>>
    BY <1>1, <1>2, <2>2, SilentStretch
  <2>4. Content(acc.out) \o <<>> = Content(acc.out)
    BY <1>6, ConcatEmptySeq
  <2> HIDE DEF now
  <2> QED BY <1>6, <2>1, <2>3, <2>4
<1>9. CASE s.type = "prose"
  <2> DEFINE old == IF acc.prev = "code" THEN Sep(acc.out) ELSE acc.out
  <2>1. now.out = old \o new
    BY <1>9 DEF Assembled, new
  <2>2. old \in Seq(Line) /\ Content(old) = Content(acc.out) /\ (Asks(old) => Asks(lines))
    BY <1>6, <1>7, Zenon
  <2> HIDE DEF old, now
  <2>3. old \o new \in Seq(Line) /\ Content(old \o new) = Content(old) \o Content(new)
        /\ (Asks(old \o new) => Asks(old) \/ Asks(new))
    BY <1>4, <2>2, ContentConcat, AsksConcat, ConcatProperties
  <2> QED BY <1>4, <2>1, <2>2, <2>3
<1>10. CASE s.type = "code"
  <2> DEFINE old == Sep(acc.out)
             piece == old \o <<Open(ActiveStyle, s.lang)>> \o new
                      \o <<Close(ActiveStyle, s.lang)>>
  <2>1. now.out = piece
    BY <1>10 DEF Assembled, new
  <2>2. old \in Seq(Line) /\ Content(old) = Content(acc.out) /\ (Asks(old) => Asks(lines))
    BY <1>7
  <2>3. s.lang \in Langs /\ (s.lang = "bash" => Asks(lines))
    BY <1>1, <1>10 DEF Fit
  <2> HIDE DEF old
  <2>4. /\ piece \in Seq(Line)
        /\ Content(piece) = Content(old) \o Content(new)
        /\ Asks(piece) => Asks(old) \/ Asks(new) \/ s.lang = "bash"
    BY <1>4, <2>2, <2>3, Fenced
  <2> HIDE DEF piece, now
  <2> QED BY <1>4, <2>1, <2>2, <2>3, <2>4
<1> QED BY <1>1, <1>8, <1>9, <1>10

NothingAssembled == [out |-> <<>>, prev |-> "none"]

IsAssembling(f, lines, segments, n) ==
  f = [i \in 0..n |-> IF i = 0 THEN NothingAssembled
                      ELSE Assembled(lines, f[i - 1], segments[i])]

LEMMA AssemblingExists ==
  ASSUME NEW lines, NEW segments
  PROVE  \A n \in Nat : \E f : IsAssembling(f, lines, segments, n)
<1> DEFINE S == {n \in Nat : \E f : IsAssembling(f, lines, segments, n)}
<1>1. 0 \in S
  <2>1. IsAssembling([i \in 0..0 |-> NothingAssembled], lines, segments, 0)
    BY DEF IsAssembling
  <2> QED BY <2>1
<1>2. ASSUME NEW n \in Nat, n \in S PROVE n + 1 \in S
  <2>1. PICK f : IsAssembling(f, lines, segments, n)
    BY <1>2
  <2> DEFINE g == [i \in 0..(n + 1) |->
                     IF i = n + 1 THEN Assembled(lines, f[n], segments[n + 1]) ELSE f[i]]
  <2>2. \A i \in 0..n : f[i] = IF i = 0 THEN NothingAssembled
                               ELSE Assembled(lines, f[i - 1], segments[i])
    BY <2>1 DEF IsAssembling
  <2>3. \A i \in 0..(n + 1) : g[i] = IF i = 0 THEN NothingAssembled
                                     ELSE Assembled(lines, g[i - 1], segments[i])
    BY <2>2
  <2>4. g = [i \in 0..(n + 1) |-> g[i]]
    OBVIOUS
  <2>5. IsAssembling(g, lines, segments, n + 1)
    <3> HIDE DEF g
    <3> QED BY <2>3, <2>4 DEF IsAssembling
  <2> QED BY <2>5
<1> HIDE DEF S
<1>3. \A n \in Nat : n \in S
  BY <1>1, <1>2, EveryNumber
<1> QED BY <1>3 DEF S

LEMMA AssembleFaithful ==
  ASSUME NEW lines \in Seq(Line), NEW segments \in Seq(SegmentShape), Gates(segments, lines)
  PROVE  Faithful(lines, Assemble(segments, lines))
<1> DEFINE m == Len(segments)
<1>1. m \in Nat /\ Len(lines) \in Nat /\ DOMAIN segments = 1..m
      /\ \A k \in 1..m : segments[k] \in SegmentShape
  OBVIOUS
<1>2. Assemble(segments, lines) =
        (CHOOSE f : IsAssembling(f, lines, segments, m))[m].out
  BY DEF Assemble, Along, IsAssembling, NothingAssembled
<1>3. \E f : IsAssembling(f, lines, segments, m)
  BY <1>1, AssemblingExists
<1>4. PICK f : IsAssembling(f, lines, segments, m) /\ Assemble(segments, lines) = f[m].out
  BY <1>2, <1>3
<1>5. \A i \in 0..m : f[i] = IF i = 0 THEN NothingAssembled
                             ELSE Assembled(lines, f[i - 1], segments[i])
  BY <1>4 DEF IsAssembling
<1> DEFINE r(k) == Reached(segments, k)
<1>6. /\ r(0) = 1 /\ r(m) = Len(lines) + 1
      /\ \A k \in 1..m : /\ segments[k].from = r(k - 1) /\ segments[k].to = r(k)
                         /\ segments[k].from < segments[k].to
                         /\ 1 <= segments[k].from /\ segments[k].to <= Len(lines) + 1
  BY <1>1, Tiles DEF Gates
<1> HIDE DEF r
<1>7. ASSUME NEW k \in 1..m PROVE Fit(lines, segments[k])
  <2>1. segments[k].type = "drop" =>
          \A i \in segments[k].from .. segments[k].to - 1 :
             IsBlank(lines[i]) \/ LineFenceLike(lines[i])
    BY <1>1 DEF Gates, GateDropLegality
  <2>2. segments[k].lang = "bash" => Asks(lines)
    BY <1>1, Witnessed DEF Gates, GateBashWitness
  <2> QED BY <1>1, <1>6, <2>1, <2>2 DEF Fit
<1> HIDE DEF m
<1> DEFINE S == {k \in Nat : k <= m => Assembly(lines, r(k), f[k])}
<1>8. 0 \in S
  <2>1. f[0] = NothingAssembled
    BY <1>1, <1>5
  <2>2. f[0].out = <<>> /\ <<>> \in Seq(Line)
    BY <2>1 DEF NothingAssembled
  <2>3. SubSeq(lines, 1, 1 - 1) = <<>>
    OBVIOUS
  <2> QED BY <1>6, <2>2, <2>3, AsksOfNone DEF Assembly
<1>9. ASSUME NEW k \in Nat, k \in S PROVE k + 1 \in S
  <2> SUFFICES ASSUME k + 1 <= m PROVE Assembly(lines, r(k + 1), f[k + 1])
    OBVIOUS
  <2>1. k + 1 \in 0..m /\ k + 1 \in 1..m /\ k + 1 # 0 /\ (k + 1) - 1 = k /\ k <= m
    BY <1>1
  <2> DEFINE s == segments[k + 1]
  <2>2. f[k + 1] = Assembled(lines, f[k], s) /\ Assembly(lines, r(k), f[k])
    BY <1>5, <1>9, <2>1
  <2>3. Fit(lines, s) /\ s.from = r(k) /\ s.to = r(k + 1)
    BY <1>6, <1>7, <2>1
  <2> HIDE DEF s
  <2>4. Assembly(lines, s.from, f[k])
    BY <2>2, <2>3
  <2>5. Assembly(lines, s.to, Assembled(lines, f[k], s))
    BY <2>3, <2>4, AssembledOn
  <2> QED BY <2>2, <2>3, <2>5
<1> HIDE DEF S
<1>10. \A k \in Nat : k \in S
  BY <1>8, <1>9, EveryNumber
<1>11. Assembly(lines, r(m), f[m])
  <2>1. m \in S /\ m <= m
    BY <1>1, <1>10
  <2> QED BY <2>1 DEF S
<1>12. SubSeq(lines, 1, (Len(lines) + 1) - 1) = lines
  <2>1. (Len(lines) + 1) - 1 = Len(lines)
    BY <1>1
  <2>2. SubSeq(lines, 1, Len(lines)) = lines
    BY SubSeqFull
  <2> QED BY <2>1, <2>2
<1> QED BY <1>4, <1>6, <1>11, <1>12 DEF Assembly, Faithful

\* What the segmenter applies is made of the text it was asked about.
LEMMA AnswerFaithful ==
  ASSUME NEW lines \in Seq(Line), NEW label \in [1..Len(lines) -> Labels],
         Answered(Ranges(label), lines).outcome = "applied"
  PROVE  Faithful(lines, Answered(Ranges(label), lines).text)
<1> DEFINE segments == NormalizeSegments(Ranges(label), lines)
           assembled == Assemble(segments, lines)
<1>1. segments \in Seq(SegmentShape)
  <2>1. Len(lines) \in Nat
    OBVIOUS
  <2>2. Ranges(label) \in Seq(SegmentShape)
    BY <2>1, RangesType
  <2> QED BY <2>2, NormalizeType
<1>2. Answered(Ranges(label), lines) = Judged(segments, assembled, lines)
  BY DEF Answered
<1> HIDE DEF segments
<1>3. Gates(segments, lines) /\ Judged(segments, assembled, lines).text = StripEnvelopes(assembled)
  <2>1. Judged(segments, assembled, lines).outcome = "applied"
    BY <1>2
  <2> HIDE DEF assembled
  <2>2. Gates(segments, lines) /\ ~AllProse(segments)
        /\ GateAssemblyProof(assembled, segments, lines)
    BY <2>1 DEF Judged
  <2> QED BY <2>2 DEF Judged
<1>4. Faithful(lines, assembled)
  BY <1>1, <1>3, AssembleFaithful
<1> HIDE DEF assembled
<1>5. Faithful(assembled, StripEnvelopes(assembled))
  BY <1>4, StripFaithful DEF Faithful
<1>6. Faithful(lines, StripEnvelopes(assembled))
  BY <1>4, <1>5, FaithfulTwice
<1> QED BY <1>2, <1>3, <1>6

-----------------------------------------------------------------------------
(* Lists, an element at a time                                             *)

\* What holds of the empty list and of every list one longer holds of all.
LEMMA EveryList ==
  ASSUME NEW E, NEW S, <<>> \in S,
         \A t \in Seq(E) : \A x \in E : t \in S => Append(t, x) \in S
  PROVE  \A t \in Seq(E) : t \in S
<1> SUFFICES ASSUME NEW t \in Seq(E) PROVE t \in S
  OBVIOUS
<1>1. Len(t) \in Nat
  OBVIOUS
<1> DEFINE N == {k \in Nat : k <= Len(t) => SubSeq(t, 1, k) \in S}
<1>2. 0 \in N
  <2>1. SubSeq(t, 1, 0) = <<>>
    OBVIOUS
  <2> QED BY <2>1
<1>3. ASSUME NEW k \in Nat, k \in N PROVE k + 1 \in N
  <2> SUFFICES ASSUME k + 1 <= Len(t) PROVE SubSeq(t, 1, k + 1) \in S
    OBVIOUS
  <2>1. 1 \in 1..Len(t) /\ k + 1 \in 1..Len(t) /\ (k + 1) - 1 = k /\ k <= Len(t)
        /\ t[k + 1] \in E
    BY <1>1
  <2>2. SubSeq(t, 1, k + 1) = SubSeq(t, 1, k) \o <<t[k + 1]>>
    BY <2>1, SubSeqRecursiveSecond
  <2>3. SubSeq(t, 1, k) \in Seq(E)
    <3>1. \A i \in 1..k : t[i] \in E
      BY <1>1, <2>1
    <3> QED BY <3>1, SubSeqProperties
  <2>4. SubSeq(t, 1, k + 1) = Append(SubSeq(t, 1, k), t[k + 1])
    BY <2>1, <2>2, <2>3, AppendIsConcat
  <2> QED BY <1>3, <2>1, <2>3, <2>4
<1> HIDE DEF N
<1>4. \A k \in Nat : k \in N
  BY <1>2, <1>3, EveryNumber
<1>5. SubSeq(t, 1, Len(t)) \in S
  BY <1>1, <1>4 DEF N
<1> QED BY <1>5, SubSeqFull

\* The first lines of a text, and one more.
LEMMA Longer ==
  ASSUME NEW E, NEW t \in Seq(E), NEW k \in Nat, k + 1 <= Len(t)
  PROVE  /\ SubSeq(t, 1, k) \in Seq(E) /\ t[k + 1] \in E
         /\ SubSeq(t, 1, k + 1) = Append(SubSeq(t, 1, k), t[k + 1])
<1>1. 1 \in 1..Len(t) /\ k + 1 \in 1..Len(t) /\ (k + 1) - 1 = k /\ t[k + 1] \in E
  OBVIOUS
<1>2. SubSeq(t, 1, k + 1) = SubSeq(t, 1, k) \o <<t[k + 1]>>
  BY <1>1, SubSeqRecursiveSecond
<1>3. SubSeq(t, 1, k) \in Seq(E)
  <2>1. \A i \in 1..k : t[i] \in E
    BY <1>1
  <2> QED BY <2>1, SubSeqProperties
<1> QED BY <1>1, <1>2, <1>3, AppendIsConcat

\* A list by what it has in common with a shorter one.
LEMMA OneLonger ==
  ASSUME NEW E, NEW old \in Seq(E), NEW x \in E, NEW new, NEW f \in [1..Len(old) + 1 -> E],
         new = f,
         \A i \in 1..Len(old) : f[i] = old[i], f[Len(old) + 1] = x
  PROVE  new = Append(old, x)
<1>1. /\ Append(old, x) \in Seq(E) /\ Len(Append(old, x)) = Len(old) + 1 /\ Len(old) \in Nat
      /\ \A i \in 1..Len(old) : Append(old, x)[i] = old[i]
      /\ Append(old, x)[Len(old) + 1] = x
  BY AppendProperties
<1> DEFINE other == Append(old, x)
<1>6. /\ other \in Seq(E) /\ Len(other) = Len(old) + 1 /\ Len(old) \in Nat
      /\ \A i \in 1..Len(old) : other[i] = old[i]
      /\ other[Len(old) + 1] = x
  BY <1>1
<1> HIDE DEF other
<1>2. other = [i \in 1..Len(old) + 1 |-> other[i]]
  BY <1>6
<1>3. \A i \in 1..Len(old) + 1 : other[i] = f[i]
  <2>1. \A i \in 1..Len(old) + 1 : i \in 1..Len(old) \/ i = Len(old) + 1
    BY <1>6
  <2> QED BY <1>6, <2>1
<1>4. f = [i \in 1..Len(old) + 1 |-> f[i]]
  OBVIOUS
<1>5. f = other
  BY <1>2, <1>3, <1>4
<1> QED BY <1>5 DEF other

\* Pieces of one element each come to the list.
LEMMA Singles ==
  ASSUME NEW E, NEW list \in Seq(E)
  PROVE  FlattenSeq([i \in DOMAIN list |-> <<list[i]>>]) = list
<1> DEFINE parts == [i \in DOMAIN list |-> <<list[i]>>]
<1>1. /\ Len(list) \in Nat /\ parts \in Seq(Seq(E)) /\ Len(parts) = Len(list)
      /\ \A i \in 1..Len(list) : parts[i] = <<list[i]>>
  <2>1. Len(list) \in Nat /\ DOMAIN list = 1..Len(list) /\ \A i \in 1..Len(list) : list[i] \in E
    OBVIOUS
  <2>2. \A i \in 1..Len(list) : parts[i] = <<list[i]>> /\ <<list[i]>> \in Seq(E)
    BY <2>1
  <2>3. parts = [i \in 1..Len(list) |-> parts[i]]
    BY <2>1
  <2> HIDE DEF parts
  <2>4. parts \in [1..Len(list) -> Seq(E)]
    BY <2>2, <2>3
  <2> QED BY <2>1, <2>2, <2>4
<1> HIDE DEF parts
<1>2. PICK pile \in [0..Len(parts) -> Seq(E)] :
         Piled(pile, parts) /\ FlattenSeq(parts) = pile[Len(parts)]
  BY <1>1, Flattened
<1> DEFINE S == {k \in Nat : k <= Len(list) => pile[k] = SubSeq(list, 1, k)}
<1>3. 0 \in S
  <2>1. SubSeq(list, 1, 0) = <<>>
    OBVIOUS
  <2> QED BY <1>2, <2>1 DEF Piled
<1>4. ASSUME NEW k \in Nat, k \in S PROVE k + 1 \in S
  <2> SUFFICES ASSUME k + 1 <= Len(list) PROVE pile[k + 1] = SubSeq(list, 1, k + 1)
    OBVIOUS
  <2>1. k + 1 \in 1..Len(parts) /\ k + 1 \in 1..Len(list) /\ (k + 1) - 1 = k /\ k <= Len(list)
    BY <1>1
  <2>2. pile[k + 1] = pile[k] \o <<list[k + 1]>>
    BY <1>1, <1>2, <2>1 DEF Piled
  <2>3. /\ SubSeq(list, 1, k) \in Seq(E) /\ list[k + 1] \in E
        /\ SubSeq(list, 1, k + 1) = Append(SubSeq(list, 1, k), list[k + 1])
    BY Longer
  <2> QED BY <1>4, <2>1, <2>2, <2>3, AppendIsConcat
<1> HIDE DEF S
<1>5. \A k \in Nat : k \in S
  BY <1>3, <1>4, EveryNumber
<1>6. pile[Len(list)] = SubSeq(list, 1, Len(list))
  <2>1. Len(list) \in S /\ Len(list) <= Len(list)
    BY <1>1, <1>5
  <2> QED BY <2>1 DEF S
<1> QED BY <1>1, <1>2, <1>6, SubSeqFull DEF parts

\* Only keeps the type of a list, and takes elements one by one.
LEMMA OnlyAppend ==
  ASSUME NEW E, NEW list \in Seq(E), NEW x \in E, NEW which, NEW more,
         \A k \in 1..Len(list) : k \in which <=> k \in more
  PROVE  /\ Only(list, which) \in Seq(E)
         /\ Only(Append(list, x), more) =
               IF Len(list) + 1 \in more THEN Append(Only(list, which), x)
               ELSE Only(list, which)
<1> DEFINE part(l, w, i) == IF i \in w THEN <<l[i]>> ELSE <<>>
           old == [i \in DOMAIN list |-> part(list, which, i)]
           new == [i \in DOMAIN Append(list, x) |-> part(Append(list, x), more, i)]
           piece == IF Len(list) + 1 \in more THEN <<x>> ELSE <<>>
<1>1. /\ Len(list) \in Nat /\ DOMAIN list = 1..Len(list)
      /\ Append(list, x) \in Seq(E) /\ Len(Append(list, x)) = Len(list) + 1
      /\ DOMAIN Append(list, x) = 1..Len(list) + 1
      /\ \A i \in 1..Len(list) : Append(list, x)[i] = list[i] /\ list[i] \in E
      /\ Append(list, x)[Len(list) + 1] = x
  BY AppendProperties
<1>2. Only(list, which) = FlattenSeq(old) /\ Only(Append(list, x), more) = FlattenSeq(new)
  BY DEF Only
<1>3. <<>> \in Seq(E) /\ \A y \in E : <<y>> \in Seq(E)
  OBVIOUS
<1>4. piece \in Seq(E)
  BY <1>3
<1>5. \A i \in 1..Len(list) : old[i] \in Seq(E) /\ old[i] = part(list, which, i)
  BY <1>1, <1>3
<1>6. old \in Seq(Seq(E)) /\ Len(old) = Len(list)
  <2>1. old = [i \in 1..Len(list) |-> old[i]]
    BY <1>1
  <2> HIDE DEF old
  <2>2. old \in [1..Len(list) -> Seq(E)]
    BY <1>5, <2>1
  <2> QED BY <1>1, <2>2
<1>7. \A i \in 1..Len(list) : new[i] = old[i]
  BY <1>1, <1>5
<1>8. new[Len(list) + 1] = piece /\ DOMAIN new = 1..Len(list) + 1
  BY <1>1
<1>9. new = old \o <<piece>>
  <2>0. new = [i \in 1..Len(list) + 1 |-> new[i]]
    BY <1>1
  <2> HIDE DEF old, new, piece
  <2>1. \A i \in 1..Len(list) + 1 : i \in 1..Len(list) \/ i = Len(list) + 1
    BY <1>1
  <2>2. \A i \in 1..Len(list) + 1 : new[i] \in Seq(E)
    BY <1>4, <1>5, <1>7, <1>8, <2>1
  <2>3. new \in [1..Len(list) + 1 -> Seq(E)]
    BY <2>0, <2>2
  <2>4. new = Append(old, piece)
    BY <1>4, <1>6, <1>7, <1>8, <2>3, OneLonger
  <2> QED BY <1>4, <1>6, <2>4, AppendIsConcat
<1> HIDE DEF old, new
<1>10. /\ FlattenSeq(old) \in Seq(E)
       /\ FlattenSeq(old \o <<piece>>) = FlattenSeq(old) \o FlattenSeq(<<piece>>)
  <2>1. <<piece>> \in Seq(Seq(E))
    BY <1>4
  <2> HIDE DEF piece
  <2> QED BY <1>6, <2>1, FlattenConcat
<1>11. FlattenSeq(<<piece>>) = piece
  <2> HIDE DEF piece
  <2> QED BY <1>4, FlattenOne
<1>12. FlattenSeq(new) = FlattenSeq(old) \o piece
  BY <1>9, <1>10, <1>11
<1>13. CASE Len(list) + 1 \in more
  <2>1. piece = <<x>>
    BY <1>13
  <2>2. Append(FlattenSeq(old), x) = FlattenSeq(old) \o <<x>>
    BY <1>10, AppendIsConcat
  <2> QED BY <1>2, <1>10, <1>12, <1>13, <2>1, <2>2
<1>14. CASE Len(list) + 1 \notin more
  <2>1. piece = <<>>
    BY <1>14
  <2>2. FlattenSeq(old) \o <<>> = FlattenSeq(old)
    BY <1>10, ConcatEmptySeq
  <2> QED BY <1>2, <1>10, <1>12, <1>14, <2>1, <2>2
<1> QED BY <1>13, <1>14

LEMMA OnlyOfNone == \A which : Only(<<>>, which) = <<>>
<1> SUFFICES ASSUME NEW which PROVE Only(<<>>, which) = <<>>
  OBVIOUS
<1>1. [i \in DOMAIN <<>> |-> IF i \in which THEN <<(<<>>)[i]>> ELSE <<>>] = <<>>
  OBVIOUS
<1> QED BY <1>1, FlattenEmpty, Zenon DEF Only

\* Its elements are the list's at the positions asked for, and all of them.
LEMMA OnlyElements ==
  ASSUME NEW E, NEW list \in Seq(E), NEW which
  PROVE  /\ Only(list, which) \in Seq(E)
         /\ \A j \in 1..Len(Only(list, which)) :
               \E k \in 1..Len(list) : k \in which /\ list[k] = Only(list, which)[j]
         /\ \A k \in 1..Len(list) : k \in which =>
               \E j \in 1..Len(Only(list, which)) : list[k] = Only(list, which)[j]
<1> DEFINE From(l) == \A j \in 1..Len(Only(l, which)) :
                         \E k \in 1..Len(l) : k \in which /\ l[k] = Only(l, which)[j]
           Into(l) == \A k \in 1..Len(l) : k \in which =>
                         \E j \in 1..Len(Only(l, which)) : l[k] = Only(l, which)[j]
           S == {l \in Seq(E) : Only(l, which) \in Seq(E) /\ From(l) /\ Into(l)}
<1>1. <<>> \in S
  <2>1. Only(<<>>, which) = <<>> /\ <<>> \in Seq(E) /\ Len(<<>>) = 0
    BY OnlyOfNone
  <2>2. From(<<>>) /\ Into(<<>>)
    <3>1. \A j \in 1..Len(<<>>) : FALSE
      OBVIOUS
    <3> QED BY <2>1, <3>1, Zenon
  <2> HIDE DEF From, Into
  <2> QED BY <2>1, <2>2
<1>2. ASSUME NEW l \in Seq(E), NEW x \in E, l \in S PROVE Append(l, x) \in S
  <2> DEFINE more == Append(l, x)
             kept == Only(l, which)
             now == Only(more, which)
  <2>1. /\ Len(l) \in Nat /\ more \in Seq(E) /\ Len(more) = Len(l) + 1
        /\ \A k \in 1..Len(l) : more[k] = l[k]
        /\ more[Len(l) + 1] = x
    BY AppendProperties
  <2>2. kept \in Seq(E) /\ From(l) /\ Into(l)
    BY <1>2
  <2>3. now = IF Len(l) + 1 \in which THEN Append(kept, x) ELSE kept
    BY OnlyAppend
  <2>4. /\ Len(kept) \in Nat /\ Append(kept, x) \in Seq(E)
        /\ Len(Append(kept, x)) = Len(kept) + 1
        /\ \A k \in 1..Len(kept) : Append(kept, x)[k] = kept[k]
        /\ Append(kept, x)[Len(kept) + 1] = x
    BY <2>2, AppendProperties
  <2>5. \A j \in 1..Len(kept) : \E k \in 1..Len(l) : k \in which /\ l[k] = kept[j]
    BY <2>2
  <2>6. \A k \in 1..Len(l) : k \in which => \E j \in 1..Len(kept) : l[k] = kept[j]
    BY <2>2
  <2> HIDE DEF more, kept, now
  <2>7. now \in Seq(E)
    BY <2>2, <2>3, <2>4
  <2>8. ASSUME NEW j \in 1..Len(now)
        PROVE  \E k \in 1..Len(more) : k \in which /\ more[k] = now[j]
    <3>1. CASE j \in 1..Len(kept)
      <4>1. now[j] = kept[j]
        BY <2>3, <2>4, <3>1
      <4>2. PICK k \in 1..Len(l) : k \in which /\ l[k] = kept[j]
        BY <2>5, <3>1
      <4>3. k \in 1..Len(more) /\ more[k] = l[k]
        BY <2>1
      <4> QED BY <4>1, <4>2, <4>3
    <3>2. CASE j \notin 1..Len(kept)
      <4>1. Len(l) + 1 \in which /\ now = Append(kept, x) /\ j = Len(kept) + 1
        BY <2>3, <2>4, <3>2
      <4>2. Len(l) + 1 \in 1..Len(more) /\ now[j] = x
        BY <2>1, <2>4, <4>1
      <4> QED BY <2>1, <4>1, <4>2
    <3> QED BY <3>1, <3>2
  <2>9. ASSUME NEW k \in 1..Len(more), k \in which
        PROVE  \E j \in 1..Len(now) : more[k] = now[j]
    <3>1. CASE k \in 1..Len(l)
      <4>1. PICK j \in 1..Len(kept) : l[k] = kept[j]
        BY <2>6, <2>9, <3>1
      <4>2. j \in 1..Len(now) /\ now[j] = kept[j]
        BY <2>3, <2>4
      <4> QED BY <2>1, <3>1, <4>1, <4>2
    <3>2. CASE k \notin 1..Len(l)
      <4>1. k = Len(l) + 1
        BY <2>1, <3>2
      <4>2. now = Append(kept, x)
        BY <2>3, <2>9, <4>1
      <4>3. Len(kept) + 1 \in 1..Len(now) /\ now[Len(kept) + 1] = x
        BY <2>4, <4>2
      <4> QED BY <2>1, <4>1, <4>3
    <3> QED BY <3>1, <3>2
  <2> QED BY <2>1, <2>7, <2>8, <2>9 DEF more, now
<1> HIDE DEF S
<1>3. \A l \in Seq(E) : l \in S
  BY <1>1, <1>2, EveryList
<1> QED BY <1>3 DEF S

\* The first elements, by themselves.
LEMMA OnlyFirst ==
  ASSUME NEW E, NEW list \in Seq(E), NEW rest \in Seq(E), NEW which,
         \A k \in 1..Len(list) : k \in which,
         \A k \in 1..Len(rest) : Len(list) + k \notin which
  PROVE  Only(list \o rest, which) = list
<1> DEFINE all == list \o rest
           singles == [i \in DOMAIN list |-> <<list[i]>>]
           nothing == [i \in DOMAIN rest |-> <<>>]
           parts == [i \in DOMAIN all |-> IF i \in which THEN <<all[i]>> ELSE <<>>]
<1>1. /\ all \in Seq(E) /\ Len(list) \in Nat /\ Len(rest) \in Nat
      /\ Len(all) = Len(list) + Len(rest) /\ DOMAIN all = 1..Len(list) + Len(rest)
      /\ \A i \in 1..Len(list) + Len(rest) :
            all[i] = IF i <= Len(list) THEN list[i] ELSE rest[i - Len(list)]
  BY ConcatProperties
<1>2. Only(all, which) = FlattenSeq(parts)
  BY DEF Only
<1>9. /\ \A i \in 1..Len(list) : <<list[i]>> \in Seq(E)
      /\ <<>> \in Seq(E) /\ DOMAIN list = 1..Len(list) /\ DOMAIN rest = 1..Len(rest)
  OBVIOUS
<1>3. /\ singles \in Seq(Seq(E)) /\ Len(singles) = Len(list)
      /\ \A i \in 1..Len(list) : singles[i] = <<list[i]>>
      /\ nothing \in Seq(Seq(E)) /\ Len(nothing) = Len(rest)
      /\ \A i \in 1..Len(rest) : nothing[i] = <<>>
  <2>1. singles = [i \in 1..Len(list) |-> <<list[i]>>] /\ nothing = [i \in 1..Len(rest) |-> <<>>]
    BY <1>9
  <2> HIDE DEF singles, nothing
  <2>2. singles \in [1..Len(list) -> Seq(E)] /\ nothing \in [1..Len(rest) -> Seq(E)]
    BY <1>9, <2>1
  <2> QED BY <1>1, <2>1, <2>2
<1>4. /\ parts = [i \in 1..Len(list) + Len(rest) |-> parts[i]]
      /\ \A i \in 1..Len(list) + Len(rest) :
            parts[i] = IF i \in which THEN <<all[i]>> ELSE <<>>
  BY <1>1
<1>10. FlattenSeq(singles) = list
  BY Singles
<1> HIDE DEF all, singles, nothing, parts
<1>5. parts = singles \o nothing
  <2> DEFINE both == singles \o nothing
  <2>1. /\ both \in Seq(Seq(E)) /\ Len(both) = Len(list) + Len(rest)
        /\ \A i \in 1..Len(list) + Len(rest) :
              both[i] = IF i <= Len(list) THEN singles[i] ELSE nothing[i - Len(list)]
    <3>1. \A s, t \in Seq(Seq(E)) :
            /\ s \o t \in Seq(Seq(E)) /\ Len(s \o t) = Len(s) + Len(t)
            /\ \A i \in 1..Len(s) + Len(t) :
                  (s \o t)[i] = IF i <= Len(s) THEN s[i] ELSE t[i - Len(s)]
      BY ConcatProperties
    <3>2. /\ both \in Seq(Seq(E)) /\ Len(both) = Len(singles) + Len(nothing)
          /\ \A i \in 1..Len(singles) + Len(nothing) :
                both[i] = IF i <= Len(singles) THEN singles[i] ELSE nothing[i - Len(singles)]
      BY <1>3, <3>1
    <3> QED BY <1>3, <3>2
  <2> HIDE DEF both
  <2>2. ASSUME NEW i \in 1..Len(list) + Len(rest) PROVE both[i] = parts[i]
    <3>1. CASE i <= Len(list)
      <4>1. i \in 1..Len(list)
        BY <1>1, <3>1
      <4> QED BY <1>1, <1>3, <1>4, <2>1, <3>1, <4>1
    <3>2. CASE ~(i <= Len(list))
      <4>1. i - Len(list) \in 1..Len(rest) /\ Len(list) + (i - Len(list)) = i
        BY <1>1, <3>2
      <4>2. i \notin which
        BY <4>1
      <4> QED BY <1>3, <1>4, <2>1, <3>2, <4>1, <4>2
    <3> QED BY <3>1, <3>2
  <2>3. both = [i \in 1..Len(list) + Len(rest) |-> both[i]]
    BY <2>1
  <2>4. both = parts
    BY <1>4, <2>2, <2>3
  <2> QED BY <2>4 DEF both
<1>6. FlattenSeq(parts) = FlattenSeq(singles) \o FlattenSeq(nothing)
  BY <1>3, <1>5, FlattenConcat
<1>7. FlattenSeq(nothing) = <<>>
  BY <1>3, FlattenNothing
<1>8. list \o <<>> = list
  BY ConcatEmptySeq
<1> QED BY <1>2, <1>6, <1>7, <1>8, <1>10 DEF all

-----------------------------------------------------------------------------
(* A text read line by line, wherever it stands                            *)

\* What has been read: the depth, the body of the block that is open, the
\* accepted bodies, and whether a glued opener stood outside every block.
Sight(depth, body, out, loose) ==
  [depth |-> depth, body |-> body, out |-> out, loose |-> loose]

Sights ==
  {s \in [depth : Nat, body : Seq(Line), out : Seq(Seq(Line)), loose : BOOLEAN] :
      s.depth = 0 => s.body = <<>>}

Unread == Sight(0, <<>>, <<>>, FALSE)

Glues(l) == l.kind \in {"fused", "bare"}

Take(s, l) ==
  IF IsOpener(l, ActiveStyle)
  THEN Sight(s.depth + 1, IF s.depth = 0 THEN <<>> ELSE Append(s.body, l), s.out, s.loose)
  ELSE IF ~IsCloser(l, ActiveStyle)
  THEN IF s.depth = 0 THEN Sight(0, <<>>, s.out, s.loose \/ Glues(l))
       ELSE Sight(s.depth, Append(s.body, l), s.out, s.loose)
  ELSE IF s.depth = 0 THEN s
  ELSE IF s.depth = 1
  THEN Sight(0, <<>>, IF Accepted(s.body) THEN Append(s.out, s.body) ELSE s.out, s.loose)
  ELSE Sight(s.depth - 1, Append(s.body, l), s.out, s.loose)

IsSeeing(f, s, lines, n) ==
  f = [i \in 0..n |-> IF i = 0 THEN s ELSE Take(f[i - 1], lines[i])]

\* What has been read when the lines have been, from s on.
Seen(s, lines) == (CHOOSE f : IsSeeing(f, s, lines, Len(lines)))[Len(lines)]

LEMMA SeeingExists ==
  ASSUME NEW s, NEW lines
  PROVE  \A n \in Nat : \E f : IsSeeing(f, s, lines, n)
<1> DEFINE S == {n \in Nat : \E f : IsSeeing(f, s, lines, n)}
<1>1. 0 \in S
  <2>1. IsSeeing([i \in 0..0 |-> s], s, lines, 0)
    BY DEF IsSeeing
  <2> QED BY <2>1
<1>2. ASSUME NEW n \in Nat, n \in S PROVE n + 1 \in S
  <2>1. PICK f : IsSeeing(f, s, lines, n)
    BY <1>2
  <2> DEFINE g == [i \in 0..(n + 1) |-> IF i = n + 1 THEN Take(f[n], lines[n + 1]) ELSE f[i]]
  <2>2. \A i \in 0..n : f[i] = IF i = 0 THEN s ELSE Take(f[i - 1], lines[i])
    BY <2>1 DEF IsSeeing
  <2>3. \A i \in 0..(n + 1) : g[i] = IF i = 0 THEN s ELSE Take(g[i - 1], lines[i])
    BY <2>2
  <2>4. g = [i \in 0..(n + 1) |-> g[i]]
    OBVIOUS
  <2>5. IsSeeing(g, s, lines, n + 1)
    <3> HIDE DEF g
    <3> QED BY <2>3, <2>4 DEF IsSeeing
  <2> QED BY <2>5
<1> HIDE DEF S
<1>3. \A n \in Nat : n \in S
  BY <1>1, <1>2, EveryNumber
<1> QED BY <1>3 DEF S

LEMMA SeenNone == \A s : Seen(s, <<>>) = s
<1> SUFFICES ASSUME NEW s PROVE Seen(s, <<>>) = s
  OBVIOUS
<1>1. Len(<<>>) = 0 /\ 0 \in Nat
  OBVIOUS
<1>2. \E f : IsSeeing(f, s, <<>>, 0)
  BY <1>1, SeeingExists
<1>3. PICK f : IsSeeing(f, s, <<>>, 0) /\ Seen(s, <<>>) = f[0]
  BY <1>1, <1>2 DEF Seen
<1> QED BY <1>3 DEF IsSeeing

LEMMA SeenAppend ==
  ASSUME NEW s, NEW lines \in Seq(Line), NEW l \in Line
  PROVE  Seen(s, Append(lines, l)) = Take(Seen(s, lines), l)
<1> DEFINE n == Len(lines)
           more == Append(lines, l)
<1>1. /\ n \in Nat /\ Len(more) = n + 1 /\ more[n + 1] = l
      /\ \A i \in 1..n : more[i] = lines[i]
  BY AppendProperties
<1> HIDE DEF more
<1>2. PICK f : IsSeeing(f, s, lines, n) /\ Seen(s, lines) = f[n]
  BY <1>1, SeeingExists DEF Seen
<1>3. PICK g : IsSeeing(g, s, more, n + 1) /\ Seen(s, more) = g[n + 1]
  <2>1. n + 1 \in Nat
    BY <1>1
  <2>2. \E g : IsSeeing(g, s, more, n + 1)
    BY <2>1, SeeingExists
  <2> QED BY <1>1, <2>2 DEF Seen
<1>4. /\ \A i \in 0..n : f[i] = IF i = 0 THEN s ELSE Take(f[i - 1], lines[i])
      /\ \A i \in 0..n + 1 : g[i] = IF i = 0 THEN s ELSE Take(g[i - 1], more[i])
  BY <1>2, <1>3 DEF IsSeeing
<1> HIDE DEF n
<1> DEFINE S == {k \in Nat : k <= n => g[k] = f[k]}
<1>5. 0 \in S
  <2>1. 0 \in 0..n /\ 0 \in 0..n + 1
    BY <1>1
  <2>2. g[0] = s /\ f[0] = s
    BY <1>4, <2>1
  <2> QED BY <2>2
<1>6. ASSUME NEW k \in Nat, k \in S PROVE k + 1 \in S
  <2> SUFFICES ASSUME k + 1 <= n PROVE g[k + 1] = f[k + 1]
    OBVIOUS
  <2>1. /\ k + 1 \in 0..n /\ k + 1 \in 0..n + 1 /\ k + 1 # 0 /\ (k + 1) - 1 = k /\ k <= n
        /\ k + 1 \in 1..n
    BY <1>1
  <2>2. g[k + 1] = Take(g[k], more[k + 1]) /\ f[k + 1] = Take(f[k], lines[k + 1])
    BY <1>4, <2>1
  <2> QED BY <1>1, <1>6, <2>1, <2>2
<1> HIDE DEF S
<1>7. \A k \in Nat : k \in S
  BY <1>5, <1>6, EveryNumber
<1>8. g[n] = f[n]
  BY <1>1, <1>7 DEF S
<1>9. g[n + 1] = Take(g[n], l)
  <2>1. n + 1 \in 0..n + 1 /\ n + 1 # 0 /\ (n + 1) - 1 = n
    BY <1>1
  <2> QED BY <1>1, <1>4, <2>1
<1> QED BY <1>2, <1>3, <1>8, <1>9 DEF more

LEMMA SightFields ==
  ASSUME NEW d, NEW b, NEW o, NEW g
  PROVE  LET s == Sight(d, b, o, g)
         IN  s.depth = d /\ s.body = b /\ s.out = o /\ s.loose = g
BY DEF Sight

LEMMA SightType ==
  ASSUME NEW d \in Nat, NEW b \in Seq(Line), NEW o \in Seq(Seq(Line)), NEW g \in BOOLEAN,
         d = 0 => b = <<>>
  PROVE  Sight(d, b, o, g) \in Sights
BY DEF Sight, Sights

LEMMA SightFacts ==
  ASSUME NEW s \in Sights
  PROVE  /\ s.depth \in Nat /\ s.body \in Seq(Line) /\ s.out \in Seq(Seq(Line))
         /\ s.loose \in BOOLEAN /\ (s.depth = 0 => s.body = <<>>)
         /\ s = Sight(s.depth, s.body, s.out, s.loose)
BY DEF Sight, Sights

LEMMA UnreadType == Unread \in Sights
<1>1. 0 \in Nat /\ <<>> \in Seq(Line) /\ <<>> \in Seq(Seq(Line)) /\ FALSE \in BOOLEAN
  OBVIOUS
<1> QED BY <1>1, SightType DEF Unread

LEMMA TakeType ==
  ASSUME NEW s \in Sights, NEW l \in Line
  PROVE  Take(s, l) \in Sights
<1>1. /\ s.depth \in Nat /\ s.body \in Seq(Line) /\ s.out \in Seq(Seq(Line))
      /\ s.loose \in BOOLEAN /\ (s.depth = 0 => s.body = <<>>)
  BY SightFacts
<1>2. Append(s.body, l) \in Seq(Line) /\ Append(s.out, s.body) \in Seq(Seq(Line))
      /\ <<>> \in Seq(Line) /\ (s.loose \/ Glues(l)) \in BOOLEAN /\ 0 \in Nat
  BY <1>1, AppendProperties
<1>3. CASE IsOpener(l, ActiveStyle)
  <2> DEFINE b == IF s.depth = 0 THEN <<>> ELSE Append(s.body, l)
  <2>1. Take(s, l) = Sight(s.depth + 1, b, s.out, s.loose)
    BY <1>3 DEF Take
  <2>2. b \in Seq(Line) /\ s.depth + 1 \in Nat /\ s.depth + 1 # 0
    BY <1>1, <1>2
  <2> HIDE DEF b
  <2> QED BY <1>1, <2>1, <2>2, SightType
<1>4. CASE ~IsOpener(l, ActiveStyle) /\ ~IsCloser(l, ActiveStyle)
  <2>1. CASE s.depth = 0
    <3>1. Take(s, l) = Sight(0, <<>>, s.out, s.loose \/ Glues(l))
      BY <1>4, <2>1 DEF Take
    <3> QED BY <1>1, <1>2, <3>1, SightType
  <2>2. CASE s.depth # 0
    <3>1. Take(s, l) = Sight(s.depth, Append(s.body, l), s.out, s.loose)
      BY <1>4, <2>2 DEF Take
    <3> QED BY <1>1, <1>2, <2>2, <3>1, SightType
  <2> QED BY <2>1, <2>2
<1>5. CASE ~IsOpener(l, ActiveStyle) /\ IsCloser(l, ActiveStyle)
  <2>1. CASE s.depth = 0
    BY <1>5, <2>1 DEF Take
  <2>2. CASE s.depth = 1
    <3> DEFINE o == IF Accepted(s.body) THEN Append(s.out, s.body) ELSE s.out
    <3>1. Take(s, l) = Sight(0, <<>>, o, s.loose)
      BY <1>5, <2>2 DEF Take
    <3>2. o \in Seq(Seq(Line))
      BY <1>1, <1>2
    <3> HIDE DEF o
    <3> QED BY <1>1, <1>2, <3>1, <3>2, SightType
  <2>3. CASE s.depth # 0 /\ s.depth # 1
    <3>1. Take(s, l) = Sight(s.depth - 1, Append(s.body, l), s.out, s.loose)
      BY <1>5, <2>3 DEF Take
    <3>2. s.depth - 1 \in Nat /\ s.depth - 1 # 0
      BY <1>1, <2>3
    <3> QED BY <1>1, <1>2, <3>1, <3>2, SightType
  <2> QED BY <2>1, <2>2, <2>3
<1> QED BY <1>3, <1>4, <1>5

LEMMA SeenType ==
  ASSUME NEW s \in Sights, NEW lines \in Seq(Line)
  PROVE  Seen(s, lines) \in Sights
<1> DEFINE S == {t \in Seq(Line) : Seen(s, t) \in Sights}
<1>1. <<>> \in S
  BY SeenNone
<1>2. ASSUME NEW t \in Seq(Line), NEW l \in Line, t \in S PROVE Append(t, l) \in S
  BY <1>2, SeenAppend, TakeType, AppendProperties
<1> HIDE DEF S
<1>3. \A t \in Seq(Line) : t \in S
  BY <1>1, <1>2, EveryList
<1> QED BY <1>3 DEF S

\* One text after another is read as the two put together.
LEMMA SeenConcat ==
  ASSUME NEW s, NEW a \in Seq(Line), NEW b \in Seq(Line)
  PROVE  Seen(s, a \o b) = Seen(Seen(s, a), b)
<1> DEFINE S == {t \in Seq(Line) : Seen(s, a \o t) = Seen(Seen(s, a), t)}
<1>1. <<>> \in S
  <2>1. a \o <<>> = a
    BY ConcatEmptySeq
  <2> QED BY <2>1, SeenNone
<1>2. ASSUME NEW t \in Seq(Line), NEW l \in Line, t \in S PROVE Append(t, l) \in S
  <2>1. /\ Append(t, l) = t \o <<l>> /\ <<l>> \in Seq(Line) /\ a \o t \in Seq(Line)
        /\ Append(t, l) \in Seq(Line)
    BY AppendIsConcat, AppendProperties
  <2>2. a \o (t \o <<l>>) = (a \o t) \o <<l>>
    BY <2>1, Regrouped
  <2>3. (a \o t) \o <<l>> = Append(a \o t, l)
    BY <2>1, AppendIsConcat
  <2>4. Seen(s, Append(a \o t, l)) = Take(Seen(s, a \o t), l)
    BY <2>1, SeenAppend
  <2>5. Seen(Seen(s, a), Append(t, l)) = Take(Seen(Seen(s, a), t), l)
    BY SeenAppend
  <2>6. a \o Append(t, l) = Append(a \o t, l)
    BY <2>1, <2>2, <2>3
  <2> QED BY <1>2, <2>1, <2>4, <2>5, <2>6
<1> HIDE DEF S
<1>3. \A t \in Seq(Line) : t \in S
  BY <1>1, <1>2, EveryList
<1> QED BY <1>3 DEF S

LEMMA SeenOne ==
  ASSUME NEW s, NEW l \in Line
  PROVE  Seen(s, <<l>>) = Take(s, l)
<1>1. <<>> \in Seq(Line) /\ Append(<<>>, l) = <<l>>
  OBVIOUS
<1>2. Seen(s, Append(<<>>, l)) = Take(Seen(s, <<>>), l)
  BY <1>1, SeenAppend
<1> QED BY <1>1, <1>2, SeenNone

\* Outside every block, only openers of the active style begin one.
LEMMA NoneOpened ==
  ASSUME NEW s \in Sights, s.depth = 0, NEW lines \in Seq(Line),
         \A i \in 1..Len(lines) : ~IsOpener(lines[i], ActiveStyle)
  PROVE  Seen(s, lines).depth = 0 /\ Seen(s, lines).out = s.out
<1> DEFINE Plain(t) == \A i \in 1..Len(t) : ~IsOpener(t[i], ActiveStyle)
           S == {t \in Seq(Line) : Plain(t) => Seen(s, t).depth = 0 /\ Seen(s, t).out = s.out}
<1>1. <<>> \in S
  BY SeenNone
<1>2. ASSUME NEW t \in Seq(Line), NEW l \in Line, t \in S PROVE Append(t, l) \in S
  <2>1. /\ Append(t, l) \in Seq(Line) /\ Len(Append(t, l)) = Len(t) + 1 /\ Len(t) \in Nat
        /\ Append(t, l)[Len(t) + 1] = l
        /\ \A i \in 1..Len(t) : Append(t, l)[i] = t[i]
    BY AppendProperties
  <2> SUFFICES ASSUME Plain(Append(t, l))
               PROVE  /\ Seen(s, Append(t, l)).depth = 0
                      /\ Seen(s, Append(t, l)).out = s.out
    BY <2>1
  <2>2. Plain(t) /\ ~IsOpener(l, ActiveStyle)
    <3>1. Len(t) + 1 \in 1..Len(t) + 1 /\ \A i \in 1..Len(t) : i \in 1..Len(t) + 1
      BY <2>1
    <3> QED BY <2>1, <3>1
  <2>3. Seen(s, t).depth = 0 /\ Seen(s, t).out = s.out
    BY <1>2, <2>2
  <2>4. Seen(s, Append(t, l)) = Take(Seen(s, t), l)
    BY SeenAppend
  <2>5. Take(Seen(s, t), l).depth = 0 /\ Take(Seen(s, t), l).out = Seen(s, t).out
    BY <2>2, <2>3, SightFields DEF Take
  <2> QED BY <2>3, <2>4, <2>5
<1> HIDE DEF S
<1>3. \A t \in Seq(Line) : t \in S
  BY <1>1, <1>2, EveryList
<1> QED BY <1>3 DEF S

\* A text without glued openers leaves none outside.
LEMMA NoneLoose ==
  ASSUME NEW s \in Sights, NEW lines \in Seq(Line),
         \A i \in 1..Len(lines) : ~Glues(lines[i])
  PROVE  Seen(s, lines).loose = s.loose
<1> DEFINE Plain(t) == \A i \in 1..Len(t) : ~Glues(t[i])
           S == {t \in Seq(Line) : Plain(t) => Seen(s, t).loose = s.loose}
<1>1. <<>> \in S
  BY SeenNone
<1>2. ASSUME NEW t \in Seq(Line), NEW l \in Line, t \in S PROVE Append(t, l) \in S
  <2>1. /\ Append(t, l) \in Seq(Line) /\ Len(Append(t, l)) = Len(t) + 1 /\ Len(t) \in Nat
        /\ Append(t, l)[Len(t) + 1] = l
        /\ \A i \in 1..Len(t) : Append(t, l)[i] = t[i]
    BY AppendProperties
  <2> SUFFICES ASSUME Plain(Append(t, l)) PROVE Seen(s, Append(t, l)).loose = s.loose
    BY <2>1
  <2>2. Plain(t) /\ ~Glues(l)
    <3>1. Len(t) + 1 \in 1..Len(t) + 1 /\ \A i \in 1..Len(t) : i \in 1..Len(t) + 1
      BY <2>1
    <3> QED BY <2>1, <3>1
  <2>3. Seen(s, t).loose = s.loose
    BY <1>2, <2>2
  <2>4. Seen(s, Append(t, l)) = Take(Seen(s, t), l)
    BY SeenAppend
  <2>5. Seen(s, t).loose \in BOOLEAN
    BY SeenType, SightFacts
  <2>6. Take(Seen(s, t), l).loose = Seen(s, t).loose
    BY <2>2, <2>5, SightFields DEF Take
  <2> QED BY <2>3, <2>4, <2>6
<1> HIDE DEF S
<1>3. \A t \in Seq(Line) : t \in S
  BY <1>1, <1>2, EveryList
<1> QED BY <1>3 DEF S

\* Two readings at the same point of a block go on alike.
Alike(s, r) == s.depth = r.depth /\ s.body = r.body

LEMMA ReadAlike ==
  ASSUME NEW s \in Sights, NEW r \in Sights, Alike(s, r), NEW lines \in Seq(Line)
  PROVE  /\ Alike(Seen(s, lines), Seen(r, lines))
         /\ Len(Seen(s, lines).out) + Len(r.out) = Len(Seen(r, lines).out) + Len(s.out)
<1> DEFINE S == {t \in Seq(Line) :
                   /\ Alike(Seen(s, t), Seen(r, t))
                   /\ Len(Seen(s, t).out) + Len(r.out) = Len(Seen(r, t).out) + Len(s.out)}
<1>0. Len(s.out) \in Nat /\ Len(r.out) \in Nat
  BY SightFacts
<1>1. <<>> \in S
  <2>1. \A a, b \in Nat : a + b = b + a
    OBVIOUS
  <2>2. Len(s.out) + Len(r.out) = Len(r.out) + Len(s.out)
    BY <1>0, <2>1, Zenon
  <2>3. Seen(s, <<>>) = s /\ Seen(r, <<>>) = r /\ <<>> \in Seq(Line)
    BY SeenNone
  <2> QED BY <2>2, <2>3, Zenon
<1>2. ASSUME NEW t \in Seq(Line), NEW l \in Line, t \in S PROVE Append(t, l) \in S
  <2> DEFINE x == Seen(s, t)
             y == Seen(r, t)
  <2>1. Append(t, l) \in Seq(Line) /\ Seen(s, Append(t, l)) = Take(x, l)
        /\ Seen(r, Append(t, l)) = Take(y, l)
    BY SeenAppend, AppendProperties
  <2>2. x \in Sights /\ y \in Sights /\ Alike(x, y)
        /\ Len(x.out) + Len(r.out) = Len(y.out) + Len(s.out)
    BY <1>2, SeenType
  <2> HIDE DEF x, y
  <2>3. /\ x.out \in Seq(Seq(Line)) /\ y.out \in Seq(Seq(Line)) /\ x.body \in Seq(Line)
        /\ x.depth = y.depth /\ x.body = y.body
    BY <2>2, SightFacts DEF Alike
  <2>4. /\ Len(Append(x.out, x.body)) = Len(x.out) + 1
        /\ Len(Append(y.out, x.body)) = Len(y.out) + 1
        /\ Len(x.out) \in Nat /\ Len(y.out) \in Nat
    BY <2>3, AppendProperties
  <2>5. Alike(Take(x, l), Take(y, l))
    BY <2>3, SightFields DEF Alike, Take
  <2>6. \/ Take(x, l).out = x.out /\ Take(y, l).out = y.out
        \/ /\ Take(x, l).out = Append(x.out, x.body)
           /\ Take(y, l).out = Append(y.out, x.body)
    BY <2>3 DEF Take, Sight
  <2>7. Len(Take(x, l).out) + Len(r.out) = Len(Take(y, l).out) + Len(s.out)
    <3>2. CASE Take(x, l).out = x.out /\ Take(y, l).out = y.out
      BY <2>2, <3>2
    <3>3. CASE Take(x, l).out = Append(x.out, x.body) /\ Take(y, l).out = Append(y.out, x.body)
      <4>1. /\ Len(Take(x, l).out) = Len(x.out) + 1 /\ Len(x.out) \in Nat
            /\ Len(Take(y, l).out) = Len(y.out) + 1 /\ Len(y.out) \in Nat
        BY <2>4, <3>3
      <4>2. (Len(x.out) + 1) + Len(r.out) = (Len(y.out) + 1) + Len(s.out)
        <5> DEFINE a == Len(x.out)
                   b == Len(r.out)
                   c == Len(y.out)
                   d == Len(s.out)
        <5>1. a \in Nat /\ b \in Nat /\ c \in Nat /\ d \in Nat /\ a + b = c + d
          BY <1>0, <2>2, <4>1, Zenon
        <5> HIDE DEF a, b, c, d
        <5>2. (a + 1) + b = (c + 1) + d
          BY <5>1
        <5> QED BY <5>2 DEF a, b, c, d
      <4> QED BY <4>1, <4>2, Zenon
    <3> QED BY <2>6, <3>2, <3>3
  <2> QED BY <2>1, <2>5, <2>7
<1> HIDE DEF S
<1>3. \A t \in Seq(Line) : t \in S
  BY <1>1, <1>2, EveryList
<1> QED BY <1>3 DEF S

\* A block around a fence is never read as one without.
Nests(s) == \/ s.depth > 0 /\ InnerFences(s.body)
            \/ \E j \in 1..Len(s.out) : InnerFences(s.out[j])

LEMMA FenceKept ==
  ASSUME NEW body \in Seq(Line), NEW l \in Line,
         InnerFences(body) \/ IsFence(l, ActiveStyle)
  PROVE  InnerFences(Append(body, l))
<1>1. /\ Append(body, l) \in Seq(Line) /\ Len(Append(body, l)) = Len(body) + 1
      /\ Append(body, l)[Len(body) + 1] = l /\ Len(body) \in Nat
      /\ \A i \in 1..Len(body) : Append(body, l)[i] = body[i]
      /\ DOMAIN body = 1..Len(body) /\ DOMAIN Append(body, l) = 1..Len(body) + 1
  BY AppendProperties
<1> QED BY <1>1 DEF InnerFences

LEMMA FenceAccepted ==
  ASSUME NEW body, InnerFences(body)
  PROVE  Accepted(body)
BY DEF InnerFences, Accepted, IsFence, IsOpener, IsCloser, IsBlank, Blank, Text

LEMMA NestsOn ==
  ASSUME NEW s \in Sights, Nests(s), NEW l \in Line
  PROVE  Nests(Take(s, l))
<1>1. /\ s.depth \in Nat /\ s.body \in Seq(Line) /\ s.out \in Seq(Seq(Line))
      /\ (s.depth = 0 => s.body = <<>>)
  BY SightFacts
<1>2. /\ Len(Append(s.out, s.body)) = Len(s.out) + 1 /\ Len(s.out) \in Nat
      /\ Append(s.out, s.body)[Len(s.out) + 1] = s.body
      /\ \A j \in 1..Len(s.out) : Append(s.out, s.body)[j] = s.out[j]
  BY <1>1, AppendProperties
<1>3. CASE \E j \in 1..Len(s.out) : InnerFences(s.out[j])
  <2>1. PICK j \in 1..Len(s.out) : InnerFences(s.out[j])
    BY <1>3
  <2>2. Take(s, l).out = s.out \/ Take(s, l).out = Append(s.out, s.body)
    BY DEF Take, Sight
  <2>3. j \in 1..Len(s.out) + 1
    BY <1>2
  <2>4. j \in 1..Len(Take(s, l).out) /\ Take(s, l).out[j] = s.out[j]
    BY <1>2, <2>2, <2>3
  <2> QED BY <2>1, <2>4 DEF Nests
<1>4. CASE s.depth > 0 /\ InnerFences(s.body)
  <2>1. CASE IsCloser(l, ActiveStyle) /\ s.depth = 1
    <3>1. ~IsOpener(l, ActiveStyle)
      BY <2>1 DEF IsOpener, IsCloser
    <3>2. Accepted(s.body)
      BY <1>4, FenceAccepted
    <3>3. Take(s, l).out = Append(s.out, s.body)
      BY <2>1, <3>1, <3>2 DEF Take, Sight
    <3>4. Len(s.out) + 1 \in 1..Len(Take(s, l).out)
      BY <1>2, <3>3
    <3> QED BY <1>2, <1>4, <3>3, <3>4 DEF Nests
  <2>2. CASE ~(IsCloser(l, ActiveStyle) /\ s.depth = 1)
    <3>1. Take(s, l).body = Append(s.body, l) /\ Take(s, l).depth > 0
      BY <1>1, <1>4, <2>2 DEF Take, Sight
    <3>2. InnerFences(Append(s.body, l))
      BY <1>1, <1>4, FenceKept
    <3> QED BY <3>1, <3>2 DEF Nests
  <2> QED BY <2>1, <2>2
<1> QED BY <1>3, <1>4 DEF Nests

LEMMA NestsEver ==
  ASSUME NEW s \in Sights, Nests(s), NEW lines \in Seq(Line)
  PROVE  Nests(Seen(s, lines))
<1> DEFINE S == {t \in Seq(Line) : Nests(Seen(s, t))}
<1>1. <<>> \in S
  BY SeenNone
<1>2. ASSUME NEW t \in Seq(Line), NEW l \in Line, t \in S PROVE Append(t, l) \in S
  BY <1>2, SeenAppend, SeenType, NestsOn, AppendProperties
<1> HIDE DEF S
<1>3. \A t \in Seq(Line) : t \in S
  BY <1>1, <1>2, EveryList
<1> QED BY <1>3 DEF S

\* The body of a block that is opened outside every other.
LEMMA BodyRead ==
  ASSUME NEW s \in Sights, NEW lines \in Seq(Line),
         s.depth = 1, s.body = <<>>, ~InnerFences(lines)
  PROVE  Seen(s, lines) = Sight(1, lines, s.out, s.loose)
<1> DEFINE S == {t \in Seq(Line) : ~InnerFences(t) =>
                                      Seen(s, t) = Sight(1, t, s.out, s.loose)}
<1>1. <<>> \in S
  BY SeenNone, SightFacts
<1>2. ASSUME NEW t \in Seq(Line), NEW l \in Line, t \in S PROVE Append(t, l) \in S
  <2>1. Append(t, l) \in Seq(Line)
    BY AppendProperties
  <2> SUFFICES ASSUME ~InnerFences(Append(t, l))
               PROVE  Seen(s, Append(t, l)) = Sight(1, Append(t, l), s.out, s.loose)
    BY <2>1
  <2>2. ~InnerFences(t) /\ ~IsOpener(l, ActiveStyle) /\ ~IsCloser(l, ActiveStyle)
    BY FenceKept DEF IsFence
  <2>3. Seen(s, t) = Sight(1, t, s.out, s.loose)
    BY <1>2, <2>2
  <2>4. Seen(s, Append(t, l)) = Take(Sight(1, t, s.out, s.loose), l)
    BY <2>3, SeenAppend
  <2>5. Take(Sight(1, t, s.out, s.loose), l) = Sight(1, Append(t, l), s.out, s.loose)
    BY <2>2, SightFields DEF Take
  <2> QED BY <2>4, <2>5
<1> HIDE DEF S
<1>3. \A t \in Seq(Line) : t \in S
  BY <1>1, <1>2, EveryList
<1> QED BY <1>3 DEF S

\* A block between its fences, outside every other.
LEMMA BlockRead ==
  ASSUME NEW s \in Sights, s.depth = 0, NEW body \in Seq(Line), NEW lang \in Langs,
         ~InnerFences(body), Accepted(body)
  PROVE  Seen(s, <<Open(ActiveStyle, lang)>> \o body \o <<Close(ActiveStyle, lang)>>)
           = Sight(0, <<>>, Append(s.out, body), s.loose)
<1> DEFINE o == Open(ActiveStyle, lang)
           c == Close(ActiveStyle, lang)
           opened == Sight(1, <<>>, s.out, s.loose)
<1>1. /\ o \in Line /\ IsOpener(o, ActiveStyle)
      /\ c \in Line /\ IsCloser(c, ActiveStyle) /\ ~IsOpener(c, ActiveStyle)
  BY Fences DEF Open, Close, IsOpener, IsCloser
<1>2. s.out \in Seq(Seq(Line)) /\ s.loose \in BOOLEAN
  BY SightFacts
<1>3. opened \in Sights /\ opened.depth = 1 /\ opened.body = <<>>
      /\ opened.out = s.out /\ opened.loose = s.loose
  <2>1. 1 \in Nat /\ 1 # 0 /\ <<>> \in Seq(Line)
    OBVIOUS
  <2>2. opened \in Sights
    BY <1>2, <2>1, SightType
  <2> QED BY <2>2 DEF Sight
<1> HIDE DEF o, c
<1>4. <<o>> \in Seq(Line) /\ <<c>> \in Seq(Line) /\ <<o>> \o body \in Seq(Line)
  BY <1>1, ConcatProperties
<1>5. Seen(s, <<o>>) = opened
  <2>1. Take(s, o) = Sight(0 + 1, <<>>, s.out, s.loose)
    BY <1>1 DEF Take
  <2> QED BY <1>1, <2>1, SeenOne
<1>6. Seen(s, <<o>> \o body) = Sight(1, body, s.out, s.loose)
  <2>1. Seen(s, <<o>> \o body) = Seen(Seen(s, <<o>>), body)
    BY <1>4, SeenConcat
  <2>2. Seen(opened, body) = Sight(1, body, s.out, s.loose)
    <3> HIDE DEF opened
    <3>1. Seen(opened, body) = Sight(1, body, opened.out, opened.loose)
      BY <1>3, BodyRead
    <3> QED BY <1>3, <3>1
  <2> QED BY <1>5, <2>1, <2>2
<1>7. Seen(s, <<o>> \o body \o <<c>>) = Take(Sight(1, body, s.out, s.loose), c)
  <2>1. Seen(s, (<<o>> \o body) \o <<c>>) = Seen(Seen(s, <<o>> \o body), <<c>>)
    BY <1>4, SeenConcat
  <2> QED BY <1>1, <1>6, <2>1, SeenOne
<1>8. Take(Sight(1, body, s.out, s.loose), c) = Sight(0, <<>>, Append(s.out, body), s.loose)
  BY <1>1, SightFields DEF Take
<1> QED BY <1>7, <1>8 DEF o, c

-----------------------------------------------------------------------------
(* The depth counter reads as the reading does                             *)

\* What has been read of a text behind its first lines.
Upto(lines, i) == Seen(Unread, SubSeq(lines, 1, i))

LEMMA UptoOn ==
  ASSUME NEW lines \in Seq(Line), NEW i \in 1..Len(lines)
  PROVE  /\ Upto(lines, i - 1) \in Sights /\ Upto(lines, i) \in Sights
         /\ Upto(lines, i) = Take(Upto(lines, i - 1), lines[i])
<1>1. i - 1 \in Nat /\ (i - 1) + 1 = i /\ (i - 1) + 1 <= Len(lines)
  OBVIOUS
<1>2. /\ SubSeq(lines, 1, i - 1) \in Seq(Line) /\ lines[(i - 1) + 1] \in Line
      /\ SubSeq(lines, 1, (i - 1) + 1) = Append(SubSeq(lines, 1, i - 1), lines[(i - 1) + 1])
  BY <1>1, Longer
<1>3. Seen(Unread, Append(SubSeq(lines, 1, i - 1), lines[i])) = Take(Upto(lines, i - 1), lines[i])
  BY <1>1, <1>2, SeenAppend DEF Upto
<1>4. SubSeq(lines, 1, i) = Append(SubSeq(lines, 1, i - 1), lines[i]) /\ lines[i] \in Line
  BY <1>1, <1>2
<1>5. Upto(lines, i) = Take(Upto(lines, i - 1), lines[i])
  BY <1>3, <1>4 DEF Upto
<1>6. Upto(lines, i - 1) \in Sights
  BY <1>2, UnreadType, SeenType DEF Upto
<1> QED BY <1>4, <1>5, <1>6, TakeType

\* A closed block, and what lies around it.
Whole(lines, i, b) ==
  /\ b \in BlockShape /\ ~b.auto
  /\ b.first \in 1..i /\ b.last \in b.first..i
  /\ IsOpener(lines[b.first], ActiveStyle) /\ IsCloser(lines[b.last], ActiveStyle)
  /\ b.body = SubSeq(lines, b.first + 1, b.last - 1)
  /\ Upto(lines, b.first - 1).depth = 0 /\ Upto(lines, b.last).depth = 0

Around(b, j) == b.first <= j /\ j <= b.last

\* A glued opener outside the blocks of the counter.
Strays(lines, i, s) ==
  \E j \in 1..i : /\ Glues(lines[j]) /\ (s.depth > 0 => j < s.start)
                  /\ \A k \in 1..Len(s.blocks) : ~Around(s.blocks[k], j)

CounterShape == [depth : Nat, start : Nat, blocks : Seq(BlockShape), orphans : SUBSET Nat]

Underway(lines, i, s, r) ==
  s.depth > 0 => /\ s.start \in 1..i /\ IsOpener(lines[s.start], ActiveStyle)
                 /\ r.body = SubSeq(lines, s.start + 1, i)
                 /\ Upto(lines, s.start - 1).depth = 0
                 /\ \A k \in 1..Len(s.blocks) : s.blocks[k].last < s.start

Matched(lines, i, s, r) ==
  /\ s \in CounterShape /\ s.depth = r.depth
  /\ Underway(lines, i, s, r)
  /\ Bodies(Good(s.blocks)) = r.out
  /\ \A k \in 1..Len(s.blocks) : Whole(lines, i, s.blocks[k])
  /\ \A j \in s.orphans : /\ j \in 1..i /\ IsCloser(lines[j], ActiveStyle)
                          /\ Upto(lines, j - 1).depth = 0
  /\ r.loose <=> Strays(lines, i, s)

LEMMA GoodAppend ==
  ASSUME NEW blocks \in Seq(BlockShape), NEW b \in BlockShape
  PROVE  /\ Good(blocks) \in Seq(BlockShape)
         /\ Bodies(Good(Append(blocks, b))) =
               IF Accepted(b.body) THEN Append(Bodies(Good(blocks)), b.body)
               ELSE Bodies(Good(blocks))
<1> DEFINE more == Append(blocks, b)
           old == {k \in DOMAIN blocks : Accepted(blocks[k].body)}
           new == {k \in DOMAIN more : Accepted(more[k].body)}
<1>1. /\ Len(blocks) \in Nat /\ DOMAIN blocks = 1..Len(blocks)
      /\ more \in Seq(BlockShape) /\ DOMAIN more = 1..Len(blocks) + 1
      /\ \A k \in 1..Len(blocks) : more[k] = blocks[k]
      /\ more[Len(blocks) + 1] = b
  BY AppendProperties
<1>2. \A k \in 1..Len(blocks) : k \in old <=> k \in new
  <2> HIDE DEF more
  <2> QED BY <1>1
<1>3. Len(blocks) + 1 \in new <=> Accepted(b.body)
  <2> HIDE DEF more
  <2>1. Len(blocks) + 1 \in 1..Len(blocks) + 1
    BY <1>1
  <2> QED BY <1>1, <2>1
<1>4. Good(blocks) = Only(blocks, old) /\ Good(more) = Only(more, new)
  BY DEF Good
<1> HIDE DEF old, new
<1>5. /\ Only(blocks, old) \in Seq(BlockShape)
      /\ Only(more, new) = IF Len(blocks) + 1 \in new THEN Append(Only(blocks, old), b)
                           ELSE Only(blocks, old)
  BY <1>2, OnlyAppend
<1> DEFINE good == Good(blocks)
<1>6. good \in Seq(BlockShape)
  BY <1>4, <1>5
<1>7. Good(more) = IF Accepted(b.body) THEN Append(good, b) ELSE good
  BY <1>3, <1>4, <1>5
<1> HIDE DEF good, more
<1>8. Bodies(Append(good, b)) = Append(Bodies(good), b.body)
  <2> DEFINE longer == Append(good, b)
             f == [k \in 1..Len(good) + 1 |-> longer[k].body]
             was == Bodies(good)
  <2>1. /\ longer \in Seq(BlockShape) /\ DOMAIN longer = 1..Len(good) + 1 /\ Len(good) \in Nat
        /\ \A k \in 1..Len(good) : longer[k] = good[k]
        /\ longer[Len(good) + 1] = b /\ DOMAIN good = 1..Len(good)
        /\ \A k \in 1..Len(good) : good[k] \in BlockShape
    BY <1>6, AppendProperties
  <2> HIDE DEF longer
  <2>2. \A x \in BlockShape : x.body \in Seq(Line)
    BY DEF BlockShape
  <2>3. was = [k \in 1..Len(good) |-> good[k].body]
    BY <2>1 DEF Bodies
  <2>4. was \in Seq(Seq(Line)) /\ Len(was) = Len(good)
        /\ \A k \in 1..Len(good) : was[k] = good[k].body
    <3>1. was \in [1..Len(good) -> Seq(Line)]
      BY <2>1, <2>2, <2>3
    <3> HIDE DEF was
    <3> QED BY <2>1, <2>3, <3>1
  <2>5. \A k \in 1..Len(good) + 1 : k \in 1..Len(good) \/ k = Len(good) + 1
    BY <2>1
  <2>6. \A k \in 1..Len(good) + 1 : longer[k].body \in Seq(Line)
    BY <2>1, <2>2, <2>5
  <2>7. f \in [1..Len(good) + 1 -> Seq(Line)]
    BY <2>6
  <2>8. Bodies(longer) = f
    BY <2>1 DEF Bodies
  <2>9. (\A k \in 1..Len(good) : f[k] = was[k]) /\ f[Len(good) + 1] = b.body
    <3>1. Len(good) + 1 \in 1..Len(good) + 1 /\ \A k \in 1..Len(good) : k \in 1..Len(good) + 1
      BY <2>1
    <3> QED BY <2>1, <2>4, <3>1
  <2>10. b.body \in Seq(Line)
    BY <2>2
  <2> HIDE DEF f, was
  <2>11. f = Append(was, b.body)
    BY <2>4, <2>7, <2>9, <2>10, OneLonger
  <2> QED BY <2>8, <2>11 DEF was, longer
<1> QED BY <1>6, <1>7, <1>8 DEF good, more

LEMMA WholeLater ==
  ASSUME NEW lines, NEW i \in Nat, NEW b, Whole(lines, i - 1, b)
  PROVE  Whole(lines, i, b)
<1>1. b.first \in 1..i /\ b.last \in b.first..i
  BY DEF Whole
<1> QED BY <1>1 DEF Whole

\* A fence is no glued opener, and the lines of a block are what they are.
LEMMA FenceKinds ==
  ASSUME NEW l
  PROVE  /\ IsOpener(l, ActiveStyle) => ~IsCloser(l, ActiveStyle) /\ ~Glues(l)
         /\ IsCloser(l, ActiveStyle) => ~IsOpener(l, ActiveStyle) /\ ~Glues(l)
BY DEF IsOpener, IsCloser, Glues

LEMMA BodyLonger ==
  ASSUME NEW lines \in Seq(Line), NEW start \in Nat, NEW i \in 1..Len(lines), start < i
  PROVE  SubSeq(lines, start + 1, i) = Append(SubSeq(lines, start + 1, i - 1), lines[i])
<1>1. /\ start + 1 \in 1..Len(lines) /\ i \in start + 1..Len(lines) /\ lines[i] \in Line
      /\ start + 1 \in Int /\ i - 1 \in Int /\ 1 <= start + 1 /\ i - 1 <= Len(lines)
  OBVIOUS
<1>2. SubSeq(lines, start + 1, i) = SubSeq(lines, start + 1, i - 1) \o <<lines[i]>>
  BY <1>1, SubSeqRecursiveSecond
<1>3. SubSeq(lines, start + 1, i - 1) \in Seq(Line)
  BY <1>1, Stretch
<1> QED BY <1>1, <1>2, <1>3, AppendIsConcat

LEMMA MatchOn ==
  ASSUME NEW lines \in Seq(Line), NEW i \in 1..Len(lines), NEW s,
         Matched(lines, i - 1, s, Upto(lines, i - 1))
  PROVE  Matched(lines, i, Counted(lines, ActiveStyle, s, i), Upto(lines, i))
<1> DEFINE r == Upto(lines, i - 1)
           new == Upto(lines, i)
           l == lines[i]
           now == Counted(lines, ActiveStyle, s, i)
<1>1. /\ r \in Sights /\ new \in Sights /\ new = Take(r, l) /\ l \in Line
      /\ i \in Nat /\ i - 1 \in Nat /\ Len(lines) \in Nat /\ i <= Len(lines) /\ 1 <= i
  BY UptoOn
<1>2. /\ s \in CounterShape /\ s.depth = r.depth /\ Underway(lines, i - 1, s, r)
      /\ Bodies(Good(s.blocks)) = r.out
      /\ \A k \in 1..Len(s.blocks) : Whole(lines, i - 1, s.blocks[k])
      /\ \A j \in s.orphans : /\ j \in 1..i - 1 /\ IsCloser(lines[j], ActiveStyle)
                              /\ Upto(lines, j - 1).depth = 0
      /\ r.loose <=> Strays(lines, i - 1, s)
  BY DEF Matched
<1>3. /\ s.depth \in Nat /\ s.start \in Nat /\ s.blocks \in Seq(BlockShape)
      /\ s.orphans \in SUBSET Nat /\ Len(s.blocks) \in Nat
  BY <1>2 DEF CounterShape
<1>4. /\ \A k \in 1..Len(s.blocks) : /\ Whole(lines, i, s.blocks[k])
                                     /\ s.blocks[k].last < i /\ s.blocks[k].last \in Nat
                                     /\ s.blocks[k].first \in Nat
      /\ \A j \in s.orphans : /\ j \in 1..i /\ IsCloser(lines[j], ActiveStyle)
                              /\ Upto(lines, j - 1).depth = 0
  <2>1. \A k \in 1..Len(s.blocks) : /\ s.blocks[k].last < i /\ s.blocks[k].last \in Nat
                                    /\ s.blocks[k].first \in Nat
    BY <1>1, <1>2 DEF Whole
  <2> QED BY <1>1, <1>2, <2>1, WholeLater
<1>5. s.depth > 0 => /\ s.start \in 1..i - 1 /\ s.start \in 1..i /\ s.start < i
                     /\ IsOpener(lines[s.start], ActiveStyle)
                     /\ r.body = SubSeq(lines, s.start + 1, i - 1)
                     /\ Append(r.body, l) = SubSeq(lines, s.start + 1, i)
                     /\ Upto(lines, s.start - 1).depth = 0
                     /\ \A k \in 1..Len(s.blocks) : s.blocks[k].last < s.start
  <2> SUFFICES ASSUME s.depth > 0
               PROVE  /\ s.start \in 1..i - 1 /\ s.start \in 1..i /\ s.start < i
                      /\ IsOpener(lines[s.start], ActiveStyle)
                      /\ r.body = SubSeq(lines, s.start + 1, i - 1)
                      /\ Append(r.body, l) = SubSeq(lines, s.start + 1, i)
                      /\ Upto(lines, s.start - 1).depth = 0
                      /\ \A k \in 1..Len(s.blocks) : s.blocks[k].last < s.start
    OBVIOUS
  <2>1. /\ s.start \in 1..i - 1 /\ IsOpener(lines[s.start], ActiveStyle)
        /\ r.body = SubSeq(lines, s.start + 1, i - 1)
        /\ Upto(lines, s.start - 1).depth = 0
        /\ \A k \in 1..Len(s.blocks) : s.blocks[k].last < s.start
    BY <1>2 DEF Underway
  <2>2. s.start \in 1..i /\ s.start < i
    BY <1>1, <2>1
  <2>3. SubSeq(lines, s.start + 1, i) = Append(SubSeq(lines, s.start + 1, i - 1), lines[i])
    BY <1>3, <2>2, BodyLonger
  <2> QED BY <2>1, <2>2, <2>3
<1>6. \A j \in 1..i : j \in 1..i - 1 \/ j = i
  BY <1>1
<1>7. \A j \in 1..i - 1 : j \in 1..i
  BY <1>1
<1>8. r.depth = s.depth /\ r.loose \in BOOLEAN
  BY <1>1, <1>2, SightFacts
<1>13. r = Upto(lines, i - 1) /\ new = Upto(lines, i) /\ l = lines[i]
  OBVIOUS
<1> HIDE DEF r, new, l
<1>9. CASE IsOpener(l, ActiveStyle)
  <2>1. ~IsCloser(l, ActiveStyle) /\ ~Glues(l)
    BY <1>9, FenceKinds
  <2> DEFINE start == IF s.depth = 0 THEN i ELSE s.start
             deeper == s.depth + 1
  <2>2. now = [s EXCEPT !.depth = deeper, !.start = start]
    BY <1>2, <1>9, <1>13, <2>1 DEF Counted, CounterShape
  <2>3. /\ start \in Nat /\ (s.depth = 0 => start = i) /\ (s.depth > 0 => start = s.start)
        /\ deeper \in Nat /\ deeper > 0 /\ deeper = s.depth + 1
    BY <1>1, <1>3
  <2> HIDE DEF start, now, deeper
  <2>4. /\ now \in CounterShape /\ now.depth = s.depth + 1 /\ now.start = start
        /\ now.blocks = s.blocks /\ now.orphans = s.orphans /\ now.depth > 0
    <3>1. /\ now \in CounterShape /\ now.depth = deeper /\ now.start = start
          /\ now.blocks = s.blocks /\ now.orphans = s.orphans
      BY <1>2, <2>2, <2>3 DEF CounterShape
    <3> QED BY <2>3, <3>1
  <2>5. /\ new.depth = r.depth + 1 /\ new.out = r.out /\ new.loose = r.loose
        /\ s.depth = 0 => new.body = <<>>
        /\ s.depth > 0 => new.body = Append(r.body, l)
    BY <1>1, <1>3, <1>8, <1>9 DEF Take, Sight
  <2>6. Underway(lines, i, now, new)
    <3>1. CASE s.depth = 0
      <4>1. start = i /\ new.body = <<>> /\ r.depth = 0
        BY <1>8, <2>3, <2>5, <3>1
      <4>2. SubSeq(lines, i + 1, i) = <<>>
        BY <1>1, SubSeqEmpty
      <4>3. /\ now.start = i /\ i \in 1..i /\ IsOpener(lines[i], ActiveStyle)
            /\ Upto(lines, i - 1).depth = 0
        BY <1>1, <1>9, <1>13, <2>4, <4>1
      <4>4. \A k \in 1..Len(now.blocks) : now.blocks[k].last < i
        BY <1>4, <2>4
      <4> QED BY <4>1, <4>2, <4>3, <4>4 DEF Underway
    <3>2. CASE s.depth > 0
      BY <1>5, <2>3, <2>4, <2>5, <3>2 DEF Underway
    <3> QED BY <1>3, <3>1, <3>2
  <2>7. Strays(lines, i, now) <=> Strays(lines, i - 1, s)
    <3>1. ASSUME NEW j \in 1..i, Glues(lines[j])
          PROVE  j \in 1..i - 1 /\ ((now.depth > 0 => j < now.start) <=>
                                      (s.depth > 0 => j < s.start))
      <4>1. j \in 1..i - 1
        BY <1>6, <1>13, <2>1, <3>1
      <4>2. CASE s.depth = 0
        <5>1. j < i
          BY <1>1, <4>1
        <5> QED BY <2>3, <2>4, <4>1, <4>2, <5>1
      <4>3. CASE s.depth > 0
        BY <2>3, <2>4, <4>1, <4>3
      <4> QED BY <1>3, <4>1, <4>2, <4>3
    <3> QED BY <1>7, <2>4, <3>1 DEF Strays
  <2>8. Matched(lines, i, now, new)
    BY <1>2, <1>4, <1>8, <2>4, <2>5, <2>6, <2>7 DEF Matched
  <2> QED BY <1>13, <2>8 DEF now
<1>10. CASE ~IsOpener(l, ActiveStyle) /\ ~IsCloser(l, ActiveStyle)
  <2>1. now = s
    BY <1>10, <1>13 DEF Counted
  <2> HIDE DEF now
  <2>2. /\ new.depth = s.depth /\ new.out = r.out
        /\ s.depth = 0 => (new.loose <=> r.loose \/ Glues(l))
        /\ s.depth > 0 => new.body = Append(r.body, l) /\ new.loose = r.loose
    <3>1. CASE s.depth = 0
      <4> DEFINE g == r.loose \/ Glues(l)
      <4>1. new = Sight(0, <<>>, r.out, g)
        BY <1>1, <1>8, <1>10, <3>1 DEF Take
      <4>2. new.depth = 0 /\ new.out = r.out /\ new.loose = g
        <5> HIDE DEF g
        <5> QED BY <4>1 DEF Sight
      <4>3. ~(s.depth > 0) /\ new.depth = s.depth
        BY <3>1, <4>2
      <4> QED BY <4>2, <4>3, Zenon
    <3>2. CASE s.depth > 0
      BY <1>1, <1>3, <1>8, <1>10, <3>2 DEF Take, Sight
    <3> QED BY <1>3, <3>1, <3>2
  <2>3. Underway(lines, i, now, new)
    BY <1>5, <2>1, <2>2 DEF Underway
  <2>4. CASE s.depth = 0
    <3>1. Strays(lines, i, s) <=> Strays(lines, i - 1, s) \/ Glues(l)
      <4>1. \A k \in 1..Len(s.blocks) : ~Around(s.blocks[k], i)
        BY <1>1, <1>4 DEF Around
      <4>2. i \in 1..i
        BY <1>1
      <4> QED BY <1>6, <1>7, <1>13, <2>4, <4>1, <4>2 DEF Strays
    <3>2. new.loose <=> Strays(lines, i, now)
      BY <1>2, <2>1, <2>2, <2>4, <3>1
    <3>3. Matched(lines, i, now, new)
      BY <1>2, <1>4, <2>1, <2>2, <2>3, <3>2 DEF Matched
    <3> QED BY <1>13, <3>3 DEF now
  <2>5. CASE s.depth > 0
    <3>1. Strays(lines, i, s) <=> Strays(lines, i - 1, s)
      <4>1. ~(i < s.start)
        BY <1>1, <1>3, <1>5, <2>5
      <4> QED BY <1>6, <1>7, <2>5, <4>1 DEF Strays
    <3>2. new.loose <=> Strays(lines, i, now)
      BY <1>2, <2>1, <2>2, <2>5, <3>1
    <3>3. Matched(lines, i, now, new)
      BY <1>2, <1>4, <2>1, <2>2, <2>3, <3>2 DEF Matched
    <3> QED BY <1>13, <3>3 DEF now
  <2> QED BY <1>3, <2>4, <2>5
<1>11. CASE IsCloser(l, ActiveStyle) /\ s.depth # 1
  <2>1. ~IsOpener(l, ActiveStyle) /\ ~Glues(l)
    BY <1>11, FenceKinds
  <2>2. CASE s.depth = 0
    <3>1. now = [s EXCEPT !.orphans = s.orphans \cup {i}]
      BY <1>2, <1>11, <1>13, <2>1, <2>2 DEF Counted, CounterShape
    <3> HIDE DEF now
    <3>2. /\ now \in CounterShape /\ now.depth = s.depth /\ now.start = s.start
          /\ now.blocks = s.blocks /\ now.orphans = s.orphans \cup {i}
      BY <1>1, <1>2, <1>3, <3>1 DEF CounterShape
    <3>3. new = r
      BY <1>1, <1>8, <1>11, <2>1, <2>2 DEF Take
    <3>4. Strays(lines, i, now) <=> Strays(lines, i - 1, s)
      BY <1>6, <1>7, <1>13, <2>1, <3>2 DEF Strays
    <3>5. \A j \in now.orphans : /\ j \in 1..i /\ IsCloser(lines[j], ActiveStyle)
                                 /\ Upto(lines, j - 1).depth = 0
      <4>1. i \in 1..i /\ IsCloser(lines[i], ActiveStyle) /\ Upto(lines, i - 1).depth = 0
        BY <1>1, <1>8, <1>11, <1>13, <2>2
      <4> QED BY <1>4, <3>2, <4>1
    <3>6. Underway(lines, i, now, new)
      BY <2>2, <3>2 DEF Underway
    <3>7. Matched(lines, i, now, new)
      BY <1>2, <1>4, <3>2, <3>3, <3>4, <3>5, <3>6 DEF Matched
    <3> QED BY <1>13, <3>7 DEF now
  <2>3. CASE s.depth > 1
    <3> DEFINE outer == s.depth - 1
    <3>1. now = [s EXCEPT !.depth = outer]
      BY <1>2, <1>11, <1>13, <2>1, <2>3 DEF Counted, CounterShape
    <3>0. outer \in Nat /\ outer > 0 /\ outer = s.depth - 1
      BY <1>3, <2>3
    <3> HIDE DEF now, outer
    <3>2. /\ now \in CounterShape /\ now.depth = s.depth - 1 /\ now.start = s.start
          /\ now.blocks = s.blocks /\ now.orphans = s.orphans /\ now.depth > 0 /\ s.depth > 0
      <4>1. /\ now \in CounterShape /\ now.depth = outer /\ now.start = s.start
            /\ now.blocks = s.blocks /\ now.orphans = s.orphans
        BY <1>2, <3>0, <3>1 DEF CounterShape
      <4> QED BY <1>3, <2>3, <3>0, <4>1
    <3>3. /\ new.depth = s.depth - 1 /\ new.out = r.out /\ new.loose = r.loose
          /\ new.body = Append(r.body, l)
      BY <1>1, <1>3, <1>8, <1>11, <2>1, <2>3 DEF Take, Sight
    <3>4. Strays(lines, i, now) <=> Strays(lines, i - 1, s)
      BY <1>6, <1>7, <1>13, <2>1, <3>2 DEF Strays
    <3>5. Underway(lines, i, now, new)
      BY <1>5, <3>2, <3>3 DEF Underway
    <3>6. Matched(lines, i, now, new)
      BY <1>2, <1>4, <3>2, <3>3, <3>4, <3>5 DEF Matched
    <3> QED BY <1>13, <3>6 DEF now
  <2> QED BY <1>3, <1>11, <2>2, <2>3
<1>12. CASE IsCloser(l, ActiveStyle) /\ s.depth = 1
  <2>1. ~IsOpener(l, ActiveStyle) /\ ~Glues(l) /\ s.depth > 0
    BY <1>12, FenceKinds
  <2> DEFINE b == Block(s.start, i, lines[s.start].lang,
                        SubSeq(lines, s.start + 1, i - 1), FALSE, TRUE)
             more == Append(s.blocks, b)
  <2>2. now = [s EXCEPT !.depth = 0, !.blocks = more]
    BY <1>2, <1>12, <1>13, <2>1 DEF Counted, CounterShape
  <2>3. /\ b \in BlockShape /\ b.first = s.start /\ b.last = i /\ ~b.auto /\ b.body = r.body
    <3> DEFINE body == SubSeq(lines, s.start + 1, i - 1)
               lang == lines[s.start].lang
    <3>1. body = r.body /\ body \in Seq(Line)
      BY <1>1, <1>5, <2>1, SightFacts
    <3>2. s.start \in 1..Len(lines)
      BY <1>1, <1>3, <1>5, <2>1
    <3>3. lang \in Langs
      BY <1>5, <2>1, <3>2, Openers
    <3>4. b = Block(s.start, i, lang, body, FALSE, TRUE)
      OBVIOUS
    <3> HIDE DEF body, lang, b, more, now
    <3> QED BY <1>1, <1>3, <3>1, <3>3, <3>4 DEF Block, BlockShape
  <2> HIDE DEF b
  <2>4. /\ more \in Seq(BlockShape) /\ Len(more) = Len(s.blocks) + 1
        /\ \A k \in 1..Len(s.blocks) : more[k] = s.blocks[k]
        /\ more[Len(s.blocks) + 1] = b
        /\ Bodies(Good(more)) = IF Accepted(b.body) THEN Append(r.out, b.body) ELSE r.out
    <3>1. Bodies(Good(more)) = IF Accepted(b.body) THEN Append(Bodies(Good(s.blocks)), b.body)
                               ELSE Bodies(Good(s.blocks))
      BY <1>3, <2>3, GoodAppend
    <3> QED BY <1>2, <1>3, <2>3, <3>1, AppendProperties
  <2> HIDE DEF more, now
  <2>5. /\ now \in CounterShape /\ now.depth = 0 /\ now.blocks = more /\ now.orphans = s.orphans
    BY <1>2, <1>3, <2>2, <2>4 DEF CounterShape
  <2>6. /\ new.depth = 0 /\ new.loose = r.loose
        /\ new.out = IF Accepted(r.body) THEN Append(r.out, r.body) ELSE r.out
    BY <1>1, <1>8, <1>12, <2>1 DEF Take, Sight
  <2>7. \A k \in 1..Len(more) : k \in 1..Len(s.blocks) \/ k = Len(s.blocks) + 1
    BY <1>3, <2>4
  <2>8. Whole(lines, i, b)
    <3>1. Upto(lines, b.last).depth = 0 /\ IsCloser(lines[b.last], ActiveStyle)
      BY <1>12, <1>13, <2>3, <2>6
    <3>2. b.first \in 1..i /\ b.last \in b.first..i /\ IsOpener(lines[b.first], ActiveStyle)
          /\ Upto(lines, b.first - 1).depth = 0
          /\ b.body = SubSeq(lines, b.first + 1, b.last - 1)
      BY <1>1, <1>5, <2>1, <2>3
    <3> QED BY <2>3, <3>1, <3>2 DEF Whole
  <2>9. \A k \in 1..Len(more) : Whole(lines, i, more[k])
    BY <1>4, <2>4, <2>7, <2>8
  <2>10. Strays(lines, i, now) <=> Strays(lines, i - 1, s)
    <3>1. ASSUME NEW j \in 1..i, Glues(lines[j])
          PROVE  /\ j \in 1..i - 1
                 /\ (\A k \in 1..Len(more) : ~Around(more[k], j)) <=>
                      (j < s.start /\ \A k \in 1..Len(s.blocks) : ~Around(s.blocks[k], j))
      <4>1. j \in 1..i - 1
        BY <1>6, <1>13, <2>1, <3>1
      <4>2. ~Around(b, j) <=> j < s.start
        BY <1>1, <1>3, <2>3, <4>1 DEF Around
      <4>3. /\ Len(s.blocks) + 1 \in 1..Len(more)
            /\ \A k \in 1..Len(s.blocks) : k \in 1..Len(more)
        BY <1>3, <2>4
      <4>4. (\A k \in 1..Len(more) : ~Around(more[k], j)) <=>
              (~Around(b, j) /\ \A k \in 1..Len(s.blocks) : ~Around(s.blocks[k], j))
        BY <2>4, <2>7, <4>3
      <4> QED BY <4>1, <4>2, <4>4
    <3> QED BY <1>7, <2>1, <2>5, <3>1 DEF Strays
  <2>11. Underway(lines, i, now, new)
    BY <2>5 DEF Underway
  <2>12. Matched(lines, i, now, new)
    BY <1>2, <1>4, <2>3, <2>4, <2>5, <2>6, <2>9, <2>10, <2>11 DEF Matched
  <2> QED BY <1>13, <2>12 DEF now
<1> QED BY <1>9, <1>10, <1>11, <1>12

LEMMA CountingMatched ==
  ASSUME NEW lines \in Seq(Line), NEW f, Counting(f, lines, ActiveStyle)
  PROVE  Matched(lines, Len(lines), f[Len(lines)], Seen(Unread, lines))
<1>1. Len(lines) \in Nat /\ f[0] = NothingRead
      /\ \A i \in 1..Len(lines) : f[i] = Counted(lines, ActiveStyle, f[i - 1], i)
  BY DEF Counting
<1> DEFINE S == {i \in Nat : i <= Len(lines) => Matched(lines, i, f[i], Upto(lines, i))}
<1>2. 0 \in S
  <2>1. SubSeq(lines, 1, 0) = <<>>
    OBVIOUS
  <2>2. Upto(lines, 0) = Unread
    BY <2>1, SeenNone DEF Upto
  <2>3. /\ Unread.depth = 0 /\ Unread.out = <<>> /\ Unread.loose = FALSE
    BY DEF Unread, Sight
  <2>4. <<>> \in Seq(BlockShape) /\ Len(<<>>) = 0 /\ {} \in SUBSET Nat /\ 0 \in Nat
    OBVIOUS
  <2>5. /\ NothingRead \in CounterShape /\ NothingRead.depth = 0 /\ NothingRead.blocks = <<>>
        /\ NothingRead.orphans = {}
    BY <2>4 DEF NothingRead, CounterShape
  <2>6. Bodies(Good(<<>>)) = <<>>
    <3>1. Good(<<>>) = <<>>
      BY OnlyOfNone DEF Good
    <3>2. [i \in DOMAIN <<>> |-> (<<>>)[i].body] = <<>>
      OBVIOUS
    <3> QED BY <3>1, <3>2, Zenon DEF Bodies
  <2>7. ~Strays(lines, 0, NothingRead) /\ Underway(lines, 0, NothingRead, Unread)
    BY <2>5 DEF Strays, Underway
  <2>8. \A k \in 1..Len(<<>>) : FALSE
    OBVIOUS
  <2>9. Matched(lines, 0, NothingRead, Unread)
    BY <2>3, <2>5, <2>6, <2>7, <2>8 DEF Matched
  <2> QED BY <1>1, <2>2, <2>9
<1>3. ASSUME NEW i \in Nat, i \in S PROVE i + 1 \in S
  <2> SUFFICES ASSUME i + 1 <= Len(lines)
               PROVE  Matched(lines, i + 1, f[i + 1], Upto(lines, i + 1))
    OBVIOUS
  <2>1. i + 1 \in 1..Len(lines) /\ (i + 1) - 1 = i /\ i <= Len(lines)
    BY <1>1
  <2>2. f[i + 1] = Counted(lines, ActiveStyle, f[i], i + 1)
    BY <1>1, <2>1
  <2>3. Matched(lines, (i + 1) - 1, f[i], Upto(lines, (i + 1) - 1))
    BY <1>3, <2>1
  <2>4. Matched(lines, i + 1, Counted(lines, ActiveStyle, f[i], i + 1), Upto(lines, i + 1))
    BY <2>1, <2>3, MatchOn
  <2> QED BY <2>2, <2>4
<1> HIDE DEF S
<1>4. \A i \in Nat : i \in S
  BY <1>2, <1>3, EveryNumber
<1>5. Matched(lines, Len(lines), f[Len(lines)], Upto(lines, Len(lines)))
  BY <1>1, <1>4 DEF S
<1>6. SubSeq(lines, 1, Len(lines)) = lines
  BY SubSeqFull
<1> QED BY <1>5, <1>6 DEF Upto

-----------------------------------------------------------------------------
(* What the depth counter finds, and what the extractor runs               *)

\* The block that is open at the end.
Left(lines, s) ==
  Block(s.start, Len(lines) + 1, lines[s.start].lang,
        SubSeq(lines, s.start + 1, Len(lines)), TRUE, FALSE)

\* The scan, from the counter at the end of the text.
Scanned(lines, scan, s, r) ==
  /\ Matched(lines, Len(lines), s, r)
  /\ scan.orphans = s.orphans /\ (scan.unclosed <=> r.depth > 0)
  /\ r.depth = 0 => scan.blocks = s.blocks
  /\ r.depth > 0 => /\ scan.blocks = Append(s.blocks, Left(lines, s))
                    /\ Left(lines, s) \in BlockShape /\ Left(lines, s).auto
                    /\ Left(lines, s).body = r.body
                    /\ Left(lines, s).first = s.start
                    /\ Left(lines, s).last = Len(lines) + 1

LEMMA ScanRead ==
  ASSUME NEW lines \in Seq(Line)
  PROVE  \E s : Scanned(lines, ScanStyle(lines, ActiveStyle), s, Seen(Unread, lines))
<1> DEFINE scan == ScanStyle(lines, ActiveStyle)
           r == Seen(Unread, lines)
           n == Len(lines)
<1>1. PICK f : Counting(f, lines, ActiveStyle)
  BY Counts
<1> DEFINE s == f[Len(lines)]
           b == Left(lines, s)
<1>2. Matched(lines, n, s, r) /\ scan = ScanEnd(lines, s)
  BY <1>1, CountingMatched DEF Counting
<1> HIDE DEF s, scan, r
<1>3. s \in CounterShape /\ s.depth = r.depth /\ s.depth \in Nat /\ s.start \in Nat /\ n \in Nat
  BY <1>2 DEF Matched, CounterShape
<1>4. CASE s.depth = 0
  <2>1. /\ scan.blocks = s.blocks /\ scan.orphans = s.orphans /\ scan.unclosed = FALSE
    BY <1>2, <1>4 DEF ScanEnd
  <2>2. ~(r.depth > 0)
    BY <1>3, <1>4
  <2> QED BY <1>2, <2>1, <2>2 DEF Scanned, r, scan
<1>5. CASE s.depth # 0
  <2>1. r.depth > 0 /\ s.depth > 0 /\ r.depth # 0
    BY <1>3, <1>5
  <2>2. /\ scan.blocks = Append(s.blocks, b) /\ scan.orphans = s.orphans
        /\ scan.unclosed = TRUE
    <3>1. scan = [blocks |-> Append(s.blocks, b), orphans |-> s.orphans, unclosed |-> TRUE]
      BY <1>2, <1>5 DEF ScanEnd, Left
    <3> HIDE DEF b
    <3> QED BY <3>1
  <2>3. /\ s.start \in 1..n /\ IsOpener(lines[s.start], ActiveStyle)
        /\ r.body = SubSeq(lines, s.start + 1, n)
    BY <1>2, <2>1 DEF Matched, Underway
  <2>4. lines[s.start].lang \in Langs
    BY <2>3, Openers
  <2>5. SubSeq(lines, s.start + 1, n) \in Seq(Line)
    <3>1. s.start + 1 \in Int /\ n \in Int /\ 1 <= s.start + 1 /\ n <= Len(lines)
      BY <1>3, <2>3
    <3> QED BY <3>1, Stretch
  <2>6. /\ b \in BlockShape /\ b.auto /\ b.body = r.body /\ b.first = s.start /\ b.last = n + 1
    <3> DEFINE body == SubSeq(lines, s.start + 1, n)
               lang == lines[s.start].lang
               m == n + 1
    <3>1. s.start \in Nat /\ m \in Nat /\ lang \in Langs /\ body \in Seq(Line) /\ body = r.body
      BY <1>3, <2>3, <2>4, <2>5
    <3>2. b = Block(s.start, m, lang, body, TRUE, FALSE)
      BY DEF Left
    <3> HIDE DEF body, lang, m, b, n
    <3>3. /\ b \in BlockShape /\ b.auto /\ b.first = s.start /\ b.last = m /\ b.body = body
      BY <3>1, <3>2 DEF Block, BlockShape
    <3> QED BY <3>1, <3>3 DEF m
  <2> HIDE DEF b
  <2>7. Scanned(lines, scan, s, r)
    BY <1>2, <2>1, <2>2, <2>6 DEF Scanned, b, n
  <2> QED BY <2>7 DEF scan, r
<1> QED BY <1>4, <1>5

\* Bodies, of blocks that are blocks.
LEMMA BodiesType ==
  ASSUME NEW blocks \in Seq(BlockShape)
  PROVE  /\ Bodies(blocks) \in Seq(Seq(Line)) /\ Len(Bodies(blocks)) = Len(blocks)
         /\ \A k \in 1..Len(blocks) : Bodies(blocks)[k] = blocks[k].body
<1>1. /\ DOMAIN blocks = 1..Len(blocks) /\ Len(blocks) \in Nat
      /\ \A k \in 1..Len(blocks) : blocks[k] \in BlockShape
  OBVIOUS
<1>2. \A x \in BlockShape : x.body \in Seq(Line)
  BY DEF BlockShape
<1> DEFINE was == Bodies(blocks)
<1>3. was = [k \in 1..Len(blocks) |-> blocks[k].body]
  BY <1>1 DEF Bodies
<1>4. was \in [1..Len(blocks) -> Seq(Line)]
  BY <1>1, <1>2, <1>3
<1>5. \A k \in 1..Len(blocks) : was[k] = blocks[k].body
  BY <1>3
<1> HIDE DEF was
<1>6. was \in Seq(Seq(Line)) /\ Len(was) = Len(blocks)
  BY <1>1, <1>4
<1> QED BY <1>5, <1>6 DEF was

\* The extractor runs what the reading has accepted.
LEMMA ExtractRead ==
  ASSUME NEW lines \in Seq(Line)
  PROVE  /\ ExtractCodeBlocks(lines) \in Seq(BlockShape)
         /\ Bodies(ExtractCodeBlocks(lines)) = Seen(Unread, lines).out
<1> DEFINE scan == ScanStyle(lines, ActiveStyle)
           r == Seen(Unread, lines)
           blocks == scan.blocks
           which == {k \in DOMAIN blocks : ~blocks[k].auto /\ Accepted(blocks[k].body)}
<1>1. PICK s : Scanned(lines, scan, s, r)
  BY ScanRead
<1> DEFINE good == {k \in DOMAIN s.blocks : Accepted(s.blocks[k].body)}
<1>2. ExtractCodeBlocks(lines) = Only(blocks, which)
  BY DEF ExtractCodeBlocks
<1>3. Good(s.blocks) = Only(s.blocks, good)
  BY DEF Good
<1> HIDE DEF scan, r
<1>4. /\ s.blocks \in Seq(BlockShape) /\ Len(s.blocks) \in Nat /\ DOMAIN s.blocks = 1..Len(s.blocks)
      /\ Bodies(Good(s.blocks)) = r.out /\ r.depth \in Nat
      /\ \A k \in 1..Len(s.blocks) : ~s.blocks[k].auto
  BY <1>1 DEF Scanned, Matched, CounterShape, Whole
<1>5. CASE r.depth = 0
  <2>1. blocks = s.blocks
    BY <1>1, <1>5 DEF Scanned
  <2>2. which = good
    BY <1>4, <2>1
  <2>3. Only(s.blocks, good) \in Seq(BlockShape)
    <3> HIDE DEF good
    <3> QED BY <1>4, OnlyElements
  <2> QED BY <1>2, <1>3, <1>4, <2>1, <2>2, <2>3 DEF r
<1>6. CASE r.depth > 0
  <2> DEFINE b == Left(lines, s)
  <2>1. blocks = Append(s.blocks, b) /\ b \in BlockShape /\ b.auto
    BY <1>1, <1>6 DEF Scanned
  <2> HIDE DEF b, blocks
  <2>2. /\ DOMAIN blocks = 1..Len(s.blocks) + 1 /\ blocks[Len(s.blocks) + 1] = b
        /\ \A k \in 1..Len(s.blocks) : blocks[k] = s.blocks[k]
    BY <1>4, <2>1, AppendProperties
  <2>3. \A k \in 1..Len(s.blocks) : k \in good <=> k \in which
    BY <1>4, <2>2
  <2>4. Len(s.blocks) + 1 \notin which
    BY <2>1, <2>2
  <2> HIDE DEF good, which
  <2>5. Only(blocks, which) = Only(s.blocks, good) /\ Only(s.blocks, good) \in Seq(BlockShape)
    <3>1. /\ Only(s.blocks, good) \in Seq(BlockShape)
          /\ Only(Append(s.blocks, b), which) =
                IF Len(s.blocks) + 1 \in which THEN Append(Only(s.blocks, good), b)
                ELSE Only(s.blocks, good)
      <4> DEFINE old == s.blocks
      <4>1. old \in Seq(BlockShape) /\ b \in BlockShape
            /\ \A k \in 1..Len(old) : k \in good <=> k \in which
        BY <1>4, <2>1, <2>3
      <4> HIDE DEF old
      <4>2. /\ Only(old, good) \in Seq(BlockShape)
            /\ Only(Append(old, b), which) =
                  IF Len(old) + 1 \in which THEN Append(Only(old, good), b)
                  ELSE Only(old, good)
        BY <4>1, OnlyAppend
      <4> QED BY <4>2 DEF old
    <3> QED BY <2>1, <2>4, <3>1
  <2> QED BY <1>2, <1>3, <1>4, <2>5 DEF r
<1> QED BY <1>4, <1>5, <1>6

\* The accepted blocks: what is run, and the open one if it is accepted.
LEMMA GoodRead ==
  ASSUME NEW lines \in Seq(Line)
  PROVE  LET blocks == ScanStyle(lines, ActiveStyle).blocks
             r == Seen(Unread, lines)
         IN  /\ blocks \in Seq(BlockShape)
             /\ r.depth = 0 => Bodies(Good(blocks)) = r.out
             /\ \/ Bodies(Good(blocks)) = r.out
                \/ Bodies(Good(blocks)) = Append(r.out, r.body)
             /\ ScanStyle(lines, ActiveStyle).unclosed <=> r.depth > 0
<1> DEFINE scan == ScanStyle(lines, ActiveStyle)
           r == Seen(Unread, lines)
           b(s) == Left(lines, s)
<1>1. PICK s : Scanned(lines, scan, s, r)
  BY ScanRead
<1> HIDE DEF scan, r
<1>2. s.blocks \in Seq(BlockShape) /\ Bodies(Good(s.blocks)) = r.out /\ r.depth \in Nat
      /\ (scan.unclosed <=> r.depth > 0)
  BY <1>1 DEF Scanned, Matched, CounterShape
<1>3. CASE r.depth = 0
  BY <1>1, <1>2, <1>3 DEF Scanned, scan, r
<1>4. CASE r.depth > 0
  <2>1. scan.blocks = Append(s.blocks, b(s)) /\ b(s) \in BlockShape /\ b(s).body = r.body
    BY <1>1, <1>4 DEF Scanned
  <2> HIDE DEF b
  <2>2. Bodies(Good(Append(s.blocks, b(s)))) =
           IF Accepted(b(s).body) THEN Append(Bodies(Good(s.blocks)), b(s).body)
           ELSE Bodies(Good(s.blocks))
    BY <1>2, <2>1, GoodAppend
  <2>3. Append(s.blocks, b(s)) \in Seq(BlockShape) /\ r.depth # 0
    BY <1>2, <1>4, <2>1, AppendProperties
  <2> QED BY <1>2, <2>1, <2>2, <2>3 DEF scan, r
<1> QED BY <1>2, <1>3, <1>4

\* An orphan is a closer outside every block: it is read over.
LEMMA OrphanRead ==
  ASSUME NEW lines \in Seq(Line), NEW j \in ScanStyle(lines, ActiveStyle).orphans
  PROVE  /\ j \in 1..Len(lines) /\ IsCloser(lines[j], ActiveStyle)
         /\ Upto(lines, j - 1).depth = 0
<1>1. PICK s : Scanned(lines, ScanStyle(lines, ActiveStyle), s, Seen(Unread, lines))
  BY ScanRead
<1> QED BY <1>1 DEF Scanned, Matched

\* Around an accepted block, nothing is open.
LEMMA GoodPlaces ==
  ASSUME NEW lines \in Seq(Line), NEW blocks, blocks = ScanStyle(lines, ActiveStyle).blocks,
         NEW k \in 1..Len(blocks)
  PROVE  /\ blocks[k].first \in 1..Len(lines) /\ blocks[k].last \in Nat
         /\ Upto(lines, blocks[k].first - 1).depth = 0
         /\ blocks[k].last <= Len(lines) => Upto(lines, blocks[k].last).depth = 0
<1> DEFINE r == Seen(Unread, lines)
<1>1. PICK s : Scanned(lines, ScanStyle(lines, ActiveStyle), s, r)
  BY ScanRead
<1> HIDE DEF r
<1>2. /\ s.blocks \in Seq(BlockShape) /\ Len(s.blocks) \in Nat /\ Len(lines) \in Nat
      /\ \A i \in 1..Len(s.blocks) : Whole(lines, Len(lines), s.blocks[i])
      /\ r.depth \in Nat /\ s.depth = r.depth
  BY <1>1 DEF Scanned, Matched, CounterShape
<1>3. ASSUME NEW i \in 1..Len(s.blocks), blocks[k] = s.blocks[i]
      PROVE  /\ blocks[k].first \in 1..Len(lines) /\ blocks[k].last \in Nat
             /\ Upto(lines, blocks[k].first - 1).depth = 0
             /\ Upto(lines, blocks[k].last).depth = 0
  BY <1>2, <1>3 DEF Whole
<1>4. CASE r.depth = 0
  <2>1. blocks = s.blocks
    BY <1>1, <1>4 DEF Scanned
  <2> QED BY <1>3, <2>1
<1>5. CASE r.depth > 0
  <2> DEFINE b == Left(lines, s)
  <2>1. /\ blocks = Append(s.blocks, b) /\ b \in BlockShape
        /\ b.first = s.start /\ b.last = Len(lines) + 1
    BY <1>1, <1>5 DEF Scanned
  <2>2. s.start \in 1..Len(lines) /\ Upto(lines, s.start - 1).depth = 0
    BY <1>1, <1>2, <1>5 DEF Scanned, Matched, Underway
  <2> HIDE DEF b
  <2>3. /\ Len(blocks) = Len(s.blocks) + 1 /\ blocks[Len(s.blocks) + 1] = b
        /\ \A i \in 1..Len(s.blocks) : blocks[i] = s.blocks[i]
    BY <1>2, <2>1, AppendProperties
  <2>4. k \in 1..Len(s.blocks) \/ k = Len(s.blocks) + 1
    BY <1>2, <2>3
  <2>5. CASE k = Len(s.blocks) + 1
    <3>1. blocks[k].first = s.start /\ blocks[k].last = Len(lines) + 1
      BY <2>1, <2>3, <2>5
    <3>2. Len(lines) + 1 \in Nat /\ ~(Len(lines) + 1 <= Len(lines))
      BY <1>2
    <3> QED BY <2>2, <3>1, <3>2
  <2> QED BY <1>3, <2>3, <2>4, <2>5
<1> QED BY <1>2, <1>4, <1>5

-----------------------------------------------------------------------------
(* Texts whose glued openers stand in their blocks                         *)

\* No glued opener outside the complete blocks.
Snug(lines) ==
  LET r == Seen(Unread, lines)
  IN  ~r.loose /\ (r.depth > 0 => \A m \in 1..Len(r.body) : ~Glues(r.body[m]))

\* Every glued opener stands between the fences of a block.
Sheltered(lines, blocks) ==
  \A j \in 1..Len(lines) : Glues(lines[j]) =>
      \E k \in 1..Len(blocks) : /\ blocks[k].first <= j /\ j <= blocks[k].last
                                /\ j < After(blocks[k])

\* Where the lines of a stretch come from.
LEMMA FromStretch ==
  ASSUME NEW lines \in Seq(Line), NEW a \in Nat, NEW b \in Nat, 1 <= a, b <= Len(lines),
         NEW m \in 1..Len(SubSeq(lines, a, b))
  PROVE  \E j \in 1..Len(lines) : a <= j /\ j <= b /\ SubSeq(lines, a, b)[m] = lines[j]
<1> DEFINE part == SubSeq(lines, a, b)
           j == a + m - 1
<1>1. m \in 1..Len(part) /\ a \in Int /\ b \in Int
  OBVIOUS
<1>2. j \in a..b /\ part[m] = lines[j]
  BY <1>1, Stretch
<1> HIDE DEF part, j
<1>3. j \in 1..Len(lines) /\ a <= j /\ j <= b
  BY <1>2
<1> QED BY <1>2, <1>3 DEF part

LEMMA GlueNotBlank == \A l : Glues(l) => ~IsBlank(l)
BY DEF Glues, IsBlank, Blank, Text

\* In a snug text, the glued openers stand in closed blocks of the counter.
LEMMA SnugWhole ==
  ASSUME NEW lines \in Seq(Line), Snug(lines), NEW s,
         Matched(lines, Len(lines), s, Seen(Unread, lines)),
         NEW j \in 1..Len(lines), Glues(lines[j])
  PROVE  \E k \in 1..Len(s.blocks) : /\ Around(s.blocks[k], j) /\ j < s.blocks[k].last
                                     /\ Accepted(s.blocks[k].body)
<1> DEFINE r == Seen(Unread, lines)
           n == Len(lines)
<1>1. /\ s.blocks \in Seq(BlockShape) /\ s.depth = r.depth /\ s.depth \in Nat /\ s.start \in Nat
      /\ Underway(lines, n, s, r) /\ n \in Nat
      /\ \A k \in 1..Len(s.blocks) : Whole(lines, n, s.blocks[k])
      /\ ~Strays(lines, n, s)
      /\ r.depth > 0 => \A m \in 1..Len(r.body) : ~Glues(r.body[m])
  BY DEF Matched, CounterShape, Snug
<1> HIDE DEF r, n
<1>2. s.depth > 0 => j < s.start
  <2> SUFFICES ASSUME s.depth > 0, ~(j < s.start) PROVE FALSE
    OBVIOUS
  <2>1. /\ s.start \in 1..n /\ IsOpener(lines[s.start], ActiveStyle)
        /\ r.body = SubSeq(lines, s.start + 1, n)
    BY <1>1 DEF Underway
  <2>2. j # s.start
    BY <2>1, FenceKinds
  <2>3. j >= s.start + 1
    BY <1>1, <2>2
  <2> DEFINE a == s.start + 1
  <2>4. a \in Nat /\ n \in Nat /\ 1 <= a /\ n <= Len(lines) /\ a <= j /\ j <= n /\ j \in Nat
        /\ r.body = SubSeq(lines, a, n)
    BY <1>1, <2>1, <2>3 DEF n
  <2> HIDE DEF a
  <2>5. PICK m \in 1..Len(r.body) : r.body[m] = lines[j]
    <3>1. \E m \in 1..Len(SubSeq(lines, a, n)) : SubSeq(lines, a, n)[m] = lines[j]
      BY <2>4, InStretch
    <3> QED BY <2>4, <3>1
  <2> QED BY <1>1, <2>5
<1>3. PICK k \in 1..Len(s.blocks) : Around(s.blocks[k], j)
  BY <1>1, <1>2 DEF Strays, n
<1> DEFINE b == s.blocks[k]
<1>4. /\ b \in BlockShape /\ b.first \in 1..n /\ b.last \in b.first..n
      /\ IsOpener(lines[b.first], ActiveStyle) /\ IsCloser(lines[b.last], ActiveStyle)
      /\ b.body = SubSeq(lines, b.first + 1, b.last - 1)
      /\ b.first <= j /\ j <= b.last
  BY <1>1, <1>3 DEF Whole, Around
<1> HIDE DEF b
<1>5. j # b.first /\ j # b.last
  BY <1>4, FenceKinds
<1>6. j >= b.first + 1 /\ j <= b.last - 1 /\ b.first \in Nat /\ b.last \in Nat /\ j < b.last
  BY <1>1, <1>4, <1>5
<1>7. Accepted(b.body)
  <2> DEFINE p == b.first + 1
             q == b.last - 1
  <2>1. p \in Nat /\ q \in Nat /\ 1 <= p /\ q <= Len(lines) /\ p <= j /\ j <= q /\ j \in Nat
    <3>1. b.last <= n /\ n = Len(lines) /\ j \in Nat /\ 1 <= j
      BY <1>1, <1>4 DEF n
    <3> QED BY <1>1, <1>6, <3>1
  <2>2. b.body = SubSeq(lines, p, q)
    BY <1>4
  <2> HIDE DEF p, q
  <2>3. PICK m \in 1..Len(b.body) : b.body[m] = lines[j]
    <3>1. \E m \in 1..Len(SubSeq(lines, p, q)) : SubSeq(lines, p, q)[m] = lines[j]
      BY <2>1, InStretch
    <3> QED BY <2>2, <3>1
  <2>4. m \in DOMAIN b.body
    BY <1>4 DEF BlockShape
  <2>5. ~IsBlank(b.body[m])
    BY <2>3, GlueNotBlank
  <2> QED BY <2>4, <2>5 DEF Accepted
<1> QED BY <1>3, <1>6, <1>7 DEF b

\* The accepted blocks of a list, found among them.
LEMMA GoodElements ==
  ASSUME NEW blocks \in Seq(BlockShape)
  PROVE  /\ Good(blocks) \in Seq(BlockShape)
         /\ \A m \in 1..Len(Good(blocks)) :
               \E k \in 1..Len(blocks) : blocks[k] = Good(blocks)[m] /\ Accepted(blocks[k].body)
         /\ \A k \in 1..Len(blocks) : Accepted(blocks[k].body) =>
               \E m \in 1..Len(Good(blocks)) : blocks[k] = Good(blocks)[m]
<1> DEFINE which == {k \in DOMAIN blocks : Accepted(blocks[k].body)}
<1>1. Good(blocks) = Only(blocks, which) /\ DOMAIN blocks = 1..Len(blocks)
  BY DEF Good
<1>2. \A k \in 1..Len(blocks) : k \in which <=> Accepted(blocks[k].body)
  BY <1>1
<1> HIDE DEF which
<1> DEFINE E == BlockShape
<1>3. blocks \in Seq(E)
  OBVIOUS
<1> HIDE DEF E
<1>4. Only(blocks, which) \in Seq(E)
  BY <1>3, OnlyElements
<1>5. \A j \in 1..Len(Only(blocks, which)) :
         \E k \in 1..Len(blocks) : k \in which /\ blocks[k] = Only(blocks, which)[j]
  BY <1>3, OnlyElements
<1>6. \A k \in 1..Len(blocks) : k \in which =>
         \E j \in 1..Len(Only(blocks, which)) : blocks[k] = Only(blocks, which)[j]
  BY <1>3, OnlyElements
<1>7. Only(blocks, which) \in Seq(BlockShape)
  BY <1>4 DEF E
<1> QED BY <1>1, <1>2, <1>5, <1>6, <1>7

LEMMA SnugSheltered ==
  ASSUME NEW lines \in Seq(Line), Snug(lines)
  PROVE  Sheltered(lines, Good(ScanStyle(lines, ActiveStyle).blocks))
<1> DEFINE blocks == ScanStyle(lines, ActiveStyle).blocks
           r == Seen(Unread, lines)
<1>1. PICK s : Scanned(lines, ScanStyle(lines, ActiveStyle), s, r)
  BY ScanRead
<1>2. blocks \in Seq(BlockShape)
  BY GoodRead
<1> HIDE DEF blocks, r
<1>3. s.blocks \in Seq(BlockShape) /\ Len(s.blocks) \in Nat /\ r.depth \in Nat
      /\ Matched(lines, Len(lines), s, r)
  BY <1>1 DEF Scanned, Matched, CounterShape
<1>4. \A k \in 1..Len(s.blocks) : k \in 1..Len(blocks) /\ blocks[k] = s.blocks[k]
  <2>1. CASE r.depth = 0
    <3>1. blocks = s.blocks
      BY <1>1, <2>1 DEF Scanned, blocks
    <3> QED BY <3>1
  <2>2. CASE r.depth > 0
    <3> DEFINE b == Left(lines, s)
    <3>1. blocks = Append(s.blocks, b) /\ b \in BlockShape
      BY <1>1, <2>2 DEF Scanned, blocks
    <3> HIDE DEF b
    <3>2. /\ Len(blocks) = Len(s.blocks) + 1
          /\ \A i \in 1..Len(s.blocks) : blocks[i] = s.blocks[i]
      BY <1>3, <3>1, AppendProperties
    <3> QED BY <1>3, <3>2
  <2> QED BY <1>3, <2>1, <2>2
<1> SUFFICES ASSUME NEW j \in 1..Len(lines), Glues(lines[j])
             PROVE  \E m \in 1..Len(Good(blocks)) :
                       /\ Good(blocks)[m].first <= j /\ j <= Good(blocks)[m].last
                       /\ j < After(Good(blocks)[m])
  BY DEF Sheltered, blocks
<1>5. PICK k \in 1..Len(s.blocks) : /\ Around(s.blocks[k], j) /\ j < s.blocks[k].last
                                    /\ Accepted(s.blocks[k].body)
  BY <1>3, SnugWhole DEF r
<1>6. PICK m \in 1..Len(Good(blocks)) : blocks[k] = Good(blocks)[m]
  BY <1>2, <1>4, <1>5, GoodElements
<1> DEFINE b == s.blocks[k]
<1>7. b.last \in Nat /\ Good(blocks)[m] = b
  <2>1. b \in BlockShape
    BY <1>3
  <2> QED BY <1>4, <1>6, <2>1 DEF BlockShape
<1> HIDE DEF b
<1>8. b.first <= j /\ j <= b.last /\ j < b.last
  BY <1>5 DEF Around, b
<1>9. j < After(b)
  BY <1>7, <1>8 DEF After
<1> QED BY <1>7, <1>8, <1>9

\* Where every glued opener stands in a block that runs, the text is snug.
LEMMA RunsSnug ==
  ASSUME NEW lines \in Seq(Line),
         \A i \in DOMAIN lines : Glues(lines[i]) =>
            \E k \in DOMAIN ExtractCodeBlocks(lines) :
               LET b == ExtractCodeBlocks(lines)[k] IN i \in b.first..b.last
  PROVE  Snug(lines)
<1> DEFINE scan == ScanStyle(lines, ActiveStyle)
           r == Seen(Unread, lines)
           blocks == scan.blocks
           which == {k \in DOMAIN blocks : ~blocks[k].auto /\ Accepted(blocks[k].body)}
           n == Len(lines)
<1>1. PICK s : Scanned(lines, scan, s, r)
  BY ScanRead
<1>2. blocks \in Seq(BlockShape)
  BY GoodRead
<1>3. ExtractCodeBlocks(lines) = Only(blocks, which)
  BY DEF ExtractCodeBlocks
<1> HIDE DEF scan, r
<1>4. /\ s.blocks \in Seq(BlockShape) /\ Len(s.blocks) \in Nat /\ r.depth \in Nat /\ n \in Nat
      /\ Matched(lines, n, s, r) /\ Underway(lines, n, s, r) /\ s.depth = r.depth
      /\ (r.loose <=> Strays(lines, n, s))
      /\ \A k \in 1..Len(s.blocks) : Whole(lines, n, s.blocks[k])
  BY <1>1 DEF Scanned, Matched, CounterShape
\* A closed block of the counter stands around each glued opener.
<1>5. ASSUME NEW j \in 1..n, Glues(lines[j])
      PROVE  \E k \in 1..Len(s.blocks) : Around(s.blocks[k], j)
  <2>1. j \in DOMAIN lines
    BY <1>4
  <2>2. PICK k \in DOMAIN ExtractCodeBlocks(lines) :
           j \in ExtractCodeBlocks(lines)[k].first..ExtractCodeBlocks(lines)[k].last
    BY <1>5, <2>1
  <2>3. k \in 1..Len(Only(blocks, which))
    <3> HIDE DEF which, blocks
    <3>1. Only(blocks, which) \in Seq(BlockShape)
      BY <1>2, OnlyElements
    <3> QED BY <1>3, <2>2, <3>1
  <2>4. PICK m \in 1..Len(blocks) : m \in which /\ blocks[m] = Only(blocks, which)[k]
    <3> HIDE DEF which, blocks
    <3> QED BY <1>2, <2>3, OnlyElements
  <2>5. ~blocks[m].auto
    BY <2>4
  <2>6. m \in 1..Len(s.blocks) /\ s.blocks[m] = blocks[m]
    <3>1. CASE r.depth = 0
      BY <1>1, <2>4, <3>1 DEF Scanned
    <3>2. CASE r.depth > 0
      <4> DEFINE b == Left(lines, s)
      <4>1. blocks = Append(s.blocks, b) /\ b \in BlockShape /\ b.auto
        BY <1>1, <3>2 DEF Scanned
      <4> HIDE DEF b, blocks
      <4>2. /\ Len(blocks) = Len(s.blocks) + 1 /\ blocks[Len(s.blocks) + 1] = b
            /\ \A i \in 1..Len(s.blocks) : blocks[i] = s.blocks[i]
        BY <1>4, <4>1, AppendProperties
      <4>3. m # Len(s.blocks) + 1
        BY <2>5, <4>1, <4>2
      <4>4. m \in 1..Len(s.blocks)
        BY <1>4, <2>4, <4>2, <4>3
      <4> QED BY <4>2, <4>4
    <3> QED BY <1>4, <3>1, <3>2
  <2>7. j \in s.blocks[m].first..s.blocks[m].last
    BY <1>3, <2>2, <2>4, <2>6
  <2>8. Around(s.blocks[m], j)
    BY <1>4, <2>6, <2>7 DEF Around, Whole
  <2> QED BY <2>6, <2>8
<1>6. ~r.loose
  BY <1>4, <1>5 DEF Strays
<1>7. ASSUME r.depth > 0, NEW m \in 1..Len(r.body), Glues(r.body[m])
      PROVE  FALSE
  <2>1. /\ s.start \in 1..n /\ r.body = SubSeq(lines, s.start + 1, n)
        /\ \A k \in 1..Len(s.blocks) : s.blocks[k].last < s.start
    BY <1>4, <1>7 DEF Underway
  <2> DEFINE a == s.start + 1
  <2>2. a \in Nat /\ n \in Nat /\ 1 <= a /\ n <= Len(lines) /\ s.start \in Nat /\ s.start < a
        /\ r.body = SubSeq(lines, a, n)
    BY <1>4, <2>1
  <2> HIDE DEF a
  <2>3. PICK j \in 1..n : a <= j /\ r.body[m] = lines[j]
    <3>1. m \in 1..Len(SubSeq(lines, a, n))
      BY <1>7, <2>2
    <3>2. \E j \in 1..Len(lines) : a <= j /\ j <= n /\ SubSeq(lines, a, n)[m] = lines[j]
      BY <2>2, <3>1, FromStretch
    <3> QED BY <2>2, <3>2
  <2>4. Glues(lines[j]) /\ s.start < j /\ j \in Nat
    BY <1>7, <2>2, <2>3
  <2>5. PICK k \in 1..Len(s.blocks) : Around(s.blocks[k], j)
    BY <1>5, <2>4
  <2>6. s.blocks[k].last \in Nat /\ s.blocks[k].last < s.start
    <3>1. s.blocks[k] \in BlockShape
      BY <1>4
    <3> QED BY <2>1, <3>1 DEF BlockShape
  <2> QED BY <2>1, <2>4, <2>5, <2>6 DEF Around
<1> QED BY <1>6, <1>7 DEF Snug, r

\* A snug text has nothing to split.
LEMMA SnugUnsplit ==
  ASSUME NEW lines \in Seq(Line), Snug(lines)
  PROVE  FixGlueOpeners(lines) = lines
<1> DEFINE blocks == Good(ScanStyle(lines, ActiveStyle).blocks)
<1>1. Sheltered(lines, blocks) /\ blocks \in Seq(BlockShape)
  BY SnugSheltered, GoodRead, GoodElements
<1>2. Protected(lines) = UNION {blocks[i].first..blocks[i].last : i \in DOMAIN blocks}
  BY DEF Protected
<1> HIDE DEF blocks
<1>3. ASSUME NEW i \in DOMAIN lines PROVE ~Splits(lines, i)
  <2> SUFFICES ASSUME Glues(lines[i]) PROVE i \in Protected(lines)
    BY DEF Splits, Glues
  <2>1. i \in 1..Len(lines)
    OBVIOUS
  <2>2. PICK k \in 1..Len(blocks) : blocks[k].first <= i /\ i <= blocks[k].last
    BY <1>1, <2>1 DEF Sheltered
  <2>3. k \in DOMAIN blocks /\ blocks[k].first \in Nat /\ blocks[k].last \in Nat
    <3>1. k \in DOMAIN blocks /\ blocks[k] \in BlockShape
      BY <1>1
    <3> QED BY <3>1 DEF BlockShape
  <2>4. i \in blocks[k].first..blocks[k].last
    BY <2>1, <2>2, <2>3
  <2> QED BY <1>2, <2>3, <2>4
<1>4. FixGlueOpeners(lines) = FlattenSeq([i \in DOMAIN lines |-> <<lines[i]>>])
  BY <1>3 DEF FixGlueOpeners
<1> QED BY <1>4, Singles

-----------------------------------------------------------------------------
(* Lines that can go without being missed                                  *)

LEMMA UptoType ==
  ASSUME NEW lines \in Seq(Line), NEW i \in 0..Len(lines)
  PROVE  Upto(lines, i) \in Sights
<1>1. i = 0 \/ i \in 1..Len(lines)
  OBVIOUS
<1>2. CASE i = 0
  <2>1. SubSeq(lines, 1, 0) = <<>>
    OBVIOUS
  <2> QED BY <1>2, <2>1, SeenNone, UnreadType DEF Upto
<1> QED BY <1>1, <1>2, UptoOn

\* Outside every block, a line that neither opens one nor is glued is read over.
LEMMA ReadOver ==
  ASSUME NEW s \in Sights, s.depth = 0, NEW l, ~IsOpener(l, ActiveStyle), ~Glues(l)
  PROVE  Take(s, l) = s
<1>1. s = Sight(s.depth, s.body, s.out, s.loose) /\ s.body = <<>> /\ s.loose \in BOOLEAN
  BY SightFacts
<1>2. CASE IsCloser(l, ActiveStyle)
  BY <1>2 DEF Take
<1>3. CASE ~IsCloser(l, ActiveStyle)
  <2>1. Take(s, l) = Sight(0, <<>>, s.out, s.loose \/ Glues(l))
    BY <1>3 DEF Take
  <2>2. (s.loose \/ Glues(l)) = s.loose
    BY <1>1, Zenon
  <2>3. Take(s, l) = Sight(0, <<>>, s.out, s.loose)
    BY <2>1, <2>2, Zenon
  <2>4. s = Sight(0, <<>>, s.out, s.loose)
    BY <1>1, Zenon
  <2> QED BY <2>3, <2>4, Zenon
<1> QED BY <1>2, <1>3

\* What is read over can go.
LEMMA Skipped ==
  ASSUME NEW lines \in Seq(Line), NEW keep,
         \A j \in 1..Len(lines) : j \notin keep =>
            Take(Upto(lines, j - 1), lines[j]) = Upto(lines, j - 1)
  PROVE  Seen(Unread, Only(lines, keep)) = Seen(Unread, lines)
<1> DEFINE kept(k) == Only(SubSeq(lines, 1, k), keep)
           S == {k \in Nat : k <= Len(lines) => Seen(Unread, kept(k)) = Upto(lines, k)}
<1>1. 0 \in S
  <2>1. SubSeq(lines, 1, 0) = <<>> /\ 0 \in Nat
    OBVIOUS
  <2>2. kept(0) = <<>>
    BY <2>1, OnlyOfNone
  <2>3. Upto(lines, 0) = Unread /\ Seen(Unread, <<>>) = Unread
    BY <2>1, SeenNone DEF Upto
  <2> HIDE DEF kept
  <2> QED BY <2>1, <2>2, <2>3
<1>2. ASSUME NEW k \in Nat, k \in S PROVE k + 1 \in S
  <2> SUFFICES ASSUME k + 1 <= Len(lines)
               PROVE  Seen(Unread, kept(k + 1)) = Upto(lines, k + 1)
    OBVIOUS
  <2> DEFINE old == SubSeq(lines, 1, k)
             l == lines[k + 1]
  <2>1. old \in Seq(Line) /\ l \in Line /\ SubSeq(lines, 1, k + 1) = Append(old, l)
    BY Longer
  <2>2. k + 1 \in 1..Len(lines) /\ (k + 1) - 1 = k /\ k <= Len(lines)
    OBVIOUS
  <2>3. Seen(Unread, Only(old, keep)) = Upto(lines, k)
    BY <1>2, <2>2
  <2>4. Upto(lines, k + 1) = Take(Upto(lines, k), l)
    BY <2>2, UptoOn
  <2>5. Len(old) = k
    <3>1. 1 <= k + 1 /\ 1 \in Int /\ k \in Int /\ 1 <= 1
      OBVIOUS
    <3>2. Len(old) = k - 1 + 1
      BY <2>2, <3>1, Stretch
    <3> QED BY <3>2
  <2> HIDE DEF old, l
  <2>6. /\ Only(old, keep) \in Seq(Line)
        /\ Only(Append(old, l), keep) =
              IF Len(old) + 1 \in keep THEN Append(Only(old, keep), l) ELSE Only(old, keep)
    BY <2>1, OnlyAppend
  <2>7. CASE k + 1 \in keep
    <3>1. Only(Append(old, l), keep) = Append(Only(old, keep), l)
      BY <2>5, <2>6, <2>7
    <3>2. Seen(Unread, Append(Only(old, keep), l)) = Take(Seen(Unread, Only(old, keep)), l)
      BY <2>1, <2>6, SeenAppend
    <3> QED BY <2>1, <2>3, <2>4, <3>1, <3>2
  <2>8. CASE k + 1 \notin keep
    <3>1. Only(Append(old, l), keep) = Only(old, keep)
      BY <2>5, <2>6, <2>8
    <3>2. Take(Upto(lines, k), l) = Upto(lines, k)
      BY <2>2, <2>8 DEF l
    <3> QED BY <2>1, <2>3, <2>4, <3>1, <3>2
  <2> QED BY <2>7, <2>8
<1> HIDE DEF S
<1>3. \A k \in Nat : k \in S
  BY <1>1, <1>2, EveryNumber
<1>4. Len(lines) \in Nat /\ SubSeq(lines, 1, Len(lines)) = lines
  BY SubSeqFull
<1>5. Seen(Unread, kept(Len(lines))) = Upto(lines, Len(lines))
  BY <1>3, <1>4 DEF S
<1> QED BY <1>4, <1>5 DEF Upto

LEMMA RemovedRead ==
  ASSUME NEW lines \in Seq(Line), NEW drop,
         \A j \in 1..Len(lines) : j \in drop =>
            /\ Upto(lines, j - 1).depth = 0
            /\ ~IsOpener(lines[j], ActiveStyle) /\ ~Glues(lines[j])
  PROVE  /\ RemoveAll(lines, drop) \in Seq(Line)
         /\ Seen(Unread, RemoveAll(lines, drop)) = Seen(Unread, lines)
<1> DEFINE keep == DOMAIN lines \ drop
<1>1. RemoveAll(lines, drop) = Only(lines, keep)
  BY DEF RemoveAll
<1>2. ASSUME NEW j \in 1..Len(lines), j \notin keep
      PROVE  Take(Upto(lines, j - 1), lines[j]) = Upto(lines, j - 1)
  <2>1. j \in drop
    BY <1>2
  <2>2. Upto(lines, j - 1) \in Sights
    BY UptoOn
  <2> QED BY <2>1, <2>2, ReadOver
<1> HIDE DEF keep
<1> QED BY <1>1, <1>2, Skipped, OnlyElements

\* The orphan closers go.
LEMMA FinalizeRead ==
  ASSUME NEW lines \in Seq(Line)
  PROVE  /\ Finalize(lines) \in Seq(Line)
         /\ Seen(Unread, Finalize(lines)) = Seen(Unread, lines)
<1> DEFINE drop == ScanStyle(lines, ActiveStyle).orphans
<1>1. \A j \in 1..Len(lines) : j \in drop =>
         /\ Upto(lines, j - 1).depth = 0
         /\ ~IsOpener(lines[j], ActiveStyle) /\ ~Glues(lines[j])
  BY OrphanRead, FenceKinds
<1>2. Finalize(lines) = RemoveAll(lines, drop)
  BY DEF Finalize
<1> HIDE DEF drop
<1> QED BY <1>1, <1>2, RemovedRead

\* Between fences, the depth is the same at both ends.
LEMMA StaysOutside ==
  ASSUME NEW lines \in Seq(Line), NEW a \in Nat, NEW i \in a..Len(lines),
         Upto(lines, a).depth = 0,
         \A m \in a + 1..i : ~IsOpener(lines[m], ActiveStyle)
  PROVE  Upto(lines, i).depth = 0
<1> DEFINE S == {k \in Nat : a <= k /\ k <= i => Upto(lines, k).depth = 0}
<1>1. 0 \in S
  <2>1. CASE a = 0
    BY <2>1
  <2>2. CASE a # 0
    BY <2>2
  <2> QED BY <2>1, <2>2
<1>2. ASSUME NEW k \in Nat, k \in S PROVE k + 1 \in S
  <2> SUFFICES ASSUME a <= k + 1, k + 1 <= i PROVE Upto(lines, k + 1).depth = 0
    OBVIOUS
  <2>1. CASE a = k + 1
    BY <2>1
  <2>2. CASE a <= k
    <3>1. k + 1 \in 1..Len(lines) /\ (k + 1) - 1 = k /\ k + 1 \in a + 1..i /\ k <= i
      BY <2>2
    <3>2. Upto(lines, k).depth = 0
      BY <1>2, <2>2, <3>1
    <3>3. Upto(lines, k + 1) = Take(Upto(lines, k), lines[k + 1]) /\ Upto(lines, k) \in Sights
      BY <3>1, UptoOn
    <3>4. ~IsOpener(lines[k + 1], ActiveStyle)
      BY <3>1
    <3> QED BY <3>2, <3>3, <3>4 DEF Take, Sight
  <2> QED BY <2>1, <2>2
<1> HIDE DEF S
<1>3. \A k \in Nat : k \in S
  BY <1>1, <1>2, EveryNumber
<1> QED BY <1>3 DEF S

LEMMA CameOutside ==
  ASSUME NEW lines \in Seq(Line), NEW a \in Nat, NEW i \in a..Len(lines),
         Upto(lines, i).depth = 0,
         \A m \in a + 1..i : ~IsFence(lines[m], ActiveStyle)
  PROVE  Upto(lines, a).depth = 0
<1> DEFINE S == {d \in Nat : d <= i - a => Upto(lines, i - d).depth = 0}
<1>1. 0 \in S
  <2>1. i - 0 = i
    OBVIOUS
  <2> QED BY <2>1
<1>2. ASSUME NEW d \in Nat, d \in S PROVE d + 1 \in S
  <2> SUFFICES ASSUME d + 1 <= i - a PROVE Upto(lines, i - (d + 1)).depth = 0
    OBVIOUS
  <2> DEFINE j == i - d
  <2>1. j \in 1..Len(lines) /\ j - 1 = i - (d + 1) /\ j \in a + 1..i /\ d <= i - a
    OBVIOUS
  <2>2. Upto(lines, j).depth = 0
    BY <1>2, <2>1
  <2> HIDE DEF j
  <2>3. Upto(lines, j) = Take(Upto(lines, j - 1), lines[j]) /\ Upto(lines, j - 1) \in Sights
    BY <2>1, UptoOn
  <2>4. ~IsOpener(lines[j], ActiveStyle) /\ ~IsCloser(lines[j], ActiveStyle)
    BY <2>1 DEF IsFence
  <2>5. Upto(lines, j - 1).depth = 0
    BY <2>2, <2>3, <2>4 DEF Take, Sight
  <2> QED BY <2>1, <2>5
<1> HIDE DEF S
<1>3. \A d \in Nat : d \in S
  BY <1>1, <1>2, EveryNumber
<1> DEFINE d == i - a
<1>4. d \in Nat /\ d <= i - a /\ i - d = a
  OBVIOUS
<1> HIDE DEF d
<1>5. Upto(lines, i - d).depth = 0
  BY <1>3, <1>4 DEF S
<1> QED BY <1>4, <1>5

LEMMA EnvelopeKinds ==
  ASSUME NEW l, IsBlank(l) \/ IsEnvelope(l, "open") \/ IsEnvelope(l, "close")
  PROVE  ~IsFence(l, ActiveStyle) /\ ~IsOpener(l, ActiveStyle) /\ ~Glues(l)
BY DEF IsBlank, Blank, Text, IsEnvelope, IsFence, IsOpener, IsCloser, Glues

\* The envelopes next to an accepted block stand outside every block.
LEMMA StripRead ==
  ASSUME NEW lines \in Seq(Line)
  PROVE  /\ StripEnvelopes(lines) \in Seq(Line)
         /\ Seen(Unread, StripEnvelopes(lines)) = Seen(Unread, lines)
<1> DEFINE all == ScanStyle(lines, ActiveStyle).blocks
           blocks == Good(all)
           drop == EnvelopeLines(lines, blocks)
           n == Len(lines)
<1>1. /\ n \in Nat /\ DOMAIN lines = 1..n /\ all \in Seq(BlockShape) /\ blocks \in Seq(BlockShape)
      /\ DOMAIN blocks = 1..Len(blocks)
  BY GoodRead, GoodElements
<1>2. ASSUME NEW k \in 1..Len(blocks)
      PROVE  /\ blocks[k].first \in 1..n /\ blocks[k].last \in Nat
             /\ Upto(lines, blocks[k].first - 1).depth = 0
             /\ blocks[k].last <= n => Upto(lines, blocks[k].last).depth = 0
  <2>1. PICK i \in 1..Len(all) : all[i] = blocks[k]
    BY <1>1, GoodElements
  <2>2. /\ all[i].first \in 1..n /\ all[i].last \in Nat
        /\ Upto(lines, all[i].first - 1).depth = 0
        /\ all[i].last <= n => Upto(lines, all[i].last).depth = 0
    BY GoodPlaces
  <2> QED BY <2>1, <2>2
<1> HIDE DEF blocks, all
<1>3. ASSUME NEW j \in 1..n, j \in drop
      PROVE  /\ Upto(lines, j - 1).depth = 0
             /\ ~IsOpener(lines[j], ActiveStyle) /\ ~Glues(lines[j])
  <2>1. PICK k \in 1..Len(blocks) :
           \/ /\ j < blocks[k].first
              /\ IsEnvelope(lines[j], "open")
              /\ \A m \in j + 1 .. blocks[k].first - 1 :
                    IsBlank(lines[m]) \/ IsEnvelope(lines[m], "open")
           \/ /\ j > blocks[k].last
              /\ IsEnvelope(lines[j], "close")
              /\ \A m \in blocks[k].last + 1 .. j - 1 :
                    IsBlank(lines[m]) \/ IsEnvelope(lines[m], "close")
    BY <1>1, <1>3 DEF EnvelopeLines
  <2>2. ~IsOpener(lines[j], ActiveStyle) /\ ~IsFence(lines[j], ActiveStyle) /\ ~Glues(lines[j])
    BY <2>1, EnvelopeKinds
  <2>3. CASE /\ j < blocks[k].first
             /\ \A m \in j + 1 .. blocks[k].first - 1 :
                   IsBlank(lines[m]) \/ IsEnvelope(lines[m], "open")
    <3> DEFINE a == j - 1
               i == blocks[k].first - 1
    <3>1. a \in Nat /\ i \in a..n /\ Upto(lines, i).depth = 0 /\ n = Len(lines)
      BY <1>1, <1>2, <2>3
    <3>2. \A m \in a + 1..i : m = j \/ m \in j + 1..blocks[k].first - 1
      BY <1>2
    <3>3. \A m \in a + 1..i : ~IsFence(lines[m], ActiveStyle)
      BY <2>2, <2>3, <3>2, EnvelopeKinds
    <3> HIDE DEF a, i, n
    <3>4. Upto(lines, a).depth = 0
      BY <3>1, <3>3, CameOutside
    <3> QED BY <2>2, <3>4 DEF a
  <2>4. CASE /\ j > blocks[k].last
             /\ \A m \in blocks[k].last + 1 .. j - 1 :
                   IsBlank(lines[m]) \/ IsEnvelope(lines[m], "close")
    <3> DEFINE a == blocks[k].last
               i == j - 1
    <3>1. a \in Nat /\ i \in a..n /\ Upto(lines, a).depth = 0 /\ n = Len(lines)
      BY <1>1, <1>2, <2>4
    <3>2. \A m \in a + 1..i : ~IsOpener(lines[m], ActiveStyle)
      BY <2>4, EnvelopeKinds
    <3> HIDE DEF a, i, n
    <3>3. Upto(lines, i).depth = 0
      BY <3>1, <3>2, StaysOutside
    <3> QED BY <2>2, <3>3 DEF i
  <2> QED BY <2>1, <2>3, <2>4
<1> DEFINE stripped == RemoveAll(lines, drop)
<1>4. stripped \in Seq(Line) /\ Seen(Unread, stripped) = Seen(Unread, lines)
  <2> HIDE DEF drop
  <2> QED BY <1>3, RemovedRead
<1>5. StripEnvelopes(lines) = stripped \/ StripEnvelopes(lines) = lines
  <2> DEFINE same == Bodies(Good(ScanStyle(stripped, ActiveStyle).blocks)) = Bodies(blocks)
  <2>1. StripEnvelopes(lines) = IF same THEN stripped ELSE lines
    BY DEF StripEnvelopes, blocks, all
  <2> HIDE DEF same, stripped
  <2> QED BY <2>1
<1> HIDE DEF stripped
<1> QED BY <1>4, <1>5

-----------------------------------------------------------------------------
(* A rendered text, read                                                   *)

\* Where the text goes on before the block k, and the lines up to that block.
Onward(blocks, k) == IF k = 1 THEN 1 ELSE After(blocks[k - 1])

FencedBody(b) == <<Open(ActiveStyle, b.lang)>> \o b.body \o <<Close(ActiveStyle, b.lang)>>

\* No block has an opener of the active style among its lines.
Unopened(lines, blocks) ==
  \A k \in 1..Len(blocks) : \A i \in blocks[k].first..After(blocks[k]) - 1 :
      ~IsOpener(lines[i], ActiveStyle)

Simple(blocks) ==
  \A k \in 1..Len(blocks) : Accepted(blocks[k].body) /\ ~InnerFences(blocks[k].body)

LEMMA UptoSplit ==
  ASSUME NEW lines \in Seq(Line), NEW b \in Nat, NEW c \in Nat,
         1 <= b, b <= c + 1, c <= Len(lines)
  PROVE  /\ SubSeq(lines, b, c) \in Seq(Line)
         /\ Upto(lines, c) = Seen(Upto(lines, b - 1), SubSeq(lines, b, c))
<1>1. SubSeq(lines, b, c) \in Seq(Line)
  <2>1. b \in Int /\ c \in Int
    OBVIOUS
  <2> QED BY <2>1, Stretch
<1>2. SubSeq(lines, 1, b - 1) \in Seq(Line)
  <2>1. b - 1 \in Int /\ 1 \in Int /\ 1 <= 1 /\ b - 1 <= Len(lines)
    OBVIOUS
  <2> QED BY <2>1, Stretch
<1>3. SubSeq(lines, 1, b - 1) \o SubSeq(lines, b, c) = SubSeq(lines, 1, c)
  <2>1. b \in Int /\ c \in Int /\ 1 \in Int /\ 1 <= 1 /\ 1 <= b
    OBVIOUS
  <2> QED BY <2>1, Stretches
<1> DEFINE x == SubSeq(lines, 1, b - 1)
           y == SubSeq(lines, b, c)
<1>4. x \in Seq(Line) /\ y \in Seq(Line)
  BY <1>1, <1>2
<1>5. Seen(Unread, x \o y) = Seen(Seen(Unread, x), y)
  <2> HIDE DEF x, y
  <2> QED BY <1>4, SeenConcat
<1> QED BY <1>1, <1>3, <1>5 DEF Upto

\* The lines between two blocks hold no glued opener.
LEMMA GapPlain ==
  ASSUME NEW lines \in Seq(Line), NEW blocks, Placed(lines, blocks), Sheltered(lines, blocks),
         NEW k \in 1..Len(blocks) + 1, NEW j \in 1..Len(lines),
         Onward(blocks, k) <= j, k <= Len(blocks) => j < blocks[k].first
  PROVE  ~Glues(lines[j])
<1> SUFFICES ASSUME Glues(lines[j]) PROVE FALSE
  OBVIOUS
<1>1. blocks \in Seq(BlocksOf(lines)) /\ Len(blocks) \in Nat
  BY DEF Placed
<1>2. PICK m \in 1..Len(blocks) : blocks[m].first <= j /\ j < After(blocks[m])
  BY DEF Sheltered
<1>3. ASSUME NEW i \in 1..Len(blocks)
      PROVE  /\ blocks[i].first \in Nat /\ After(blocks[i]) \in Nat
             /\ blocks[i].first < After(blocks[i])
  <2>1. blocks[i] \in BlocksOf(lines)
    BY <1>1
  <2> QED BY <2>1, BlockFacts, AfterType DEF StandsFor
<1>4. CASE m < k
  <2>1. k - 1 \in 1..Len(blocks) /\ k # 1 /\ m <= k - 1
    BY <1>1, <1>4
  <2>2. Onward(blocks, k) = After(blocks[k - 1])
    BY <2>1 DEF Onward
  <2>3. After(blocks[m]) <= After(blocks[k - 1])
    <3>1. CASE m = k - 1
      BY <1>3, <3>1
    <3>2. CASE m < k - 1
      <4>1. After(blocks[m]) <= blocks[k - 1].first
        BY <2>1, <3>2 DEF Placed, InOrder
      <4>2. /\ blocks[k - 1].first \in Nat /\ After(blocks[k - 1]) \in Nat
            /\ blocks[k - 1].first < After(blocks[k - 1]) /\ After(blocks[m]) \in Nat
        BY <1>3, <2>1
      <4> QED BY <4>1, <4>2
    <3> QED BY <2>1, <3>1, <3>2
  <2>4. After(blocks[m]) \in Nat /\ After(blocks[k - 1]) \in Nat
    BY <1>3, <2>1
  <2> QED BY <1>2, <2>2, <2>3, <2>4
<1>5. CASE ~(m < k)
  <2>1. k \in 1..Len(blocks) /\ k <= Len(blocks)
    BY <1>1, <1>5
  <2>2. blocks[k].first <= blocks[m].first
    <3>1. CASE m = k
      BY <1>3, <3>1
    <3>2. CASE k < m
      <4>1. After(blocks[k]) <= blocks[m].first
        BY <2>1, <3>2 DEF Placed, InOrder
      <4>2. /\ blocks[k].first \in Nat /\ After(blocks[k]) \in Nat
            /\ blocks[k].first < After(blocks[k]) /\ blocks[m].first \in Nat
        BY <1>3, <2>1
      <4> QED BY <4>1, <4>2
    <3> QED BY <1>5, <2>1, <3>1, <3>2
  <2>3. blocks[k].first \in Nat /\ blocks[m].first \in Nat
    BY <1>3, <2>1
  <2> QED BY <1>2, <2>1, <2>2, <2>3
<1> QED BY <1>4, <1>5

LEMMA FencedType ==
  ASSUME NEW b \in BlockShape
  PROVE  /\ FencedBody(b) \in Seq(Line)
         /\ \A gap \in Seq(Line) :
               gap \o <<Open(ActiveStyle, b.lang)>> \o b.body \o <<Close(ActiveStyle, b.lang)>>
                  = gap \o FencedBody(b)
<1> DEFINE o == Open(ActiveStyle, b.lang)
           c == Close(ActiveStyle, b.lang)
           body == b.body
<1>1. o \in Line /\ c \in Line /\ body \in Seq(Line)
  BY Fences DEF BlockShape
<1> HIDE DEF o, c, body
<1>2. <<o>> \in Seq(Line) /\ <<c>> \in Seq(Line)
  BY <1>1
<1>3. <<o>> \o body \in Seq(Line) /\ (<<o>> \o body) \o <<c>> \in Seq(Line)
  BY <1>1, <1>2, ConcatProperties
<1>4. ASSUME NEW gap \in Seq(Line)
      PROVE  gap \o <<o>> \o body \o <<c>> = gap \o ((<<o>> \o body) \o <<c>>)
  <2>1. (gap \o <<o>>) \o body = gap \o (<<o>> \o body)
    BY <1>1, <1>2, Regrouped
  <2>2. (gap \o (<<o>> \o body)) \o <<c>> = gap \o ((<<o>> \o body) \o <<c>>)
    BY <1>2, <1>3, Regrouped
  <2> QED BY <2>1, <2>2
<1> QED BY <1>3, <1>4 DEF FencedBody, o, c, body

\* Inside an open block, a rendered block nests.
LEMMA FencedNests ==
  ASSUME NEW s \in Sights, s.depth > 0, NEW b \in BlockShape
  PROVE  Nests(Seen(s, FencedBody(b)))
<1> DEFINE o == Open(ActiveStyle, b.lang)
           c == Close(ActiveStyle, b.lang)
           body == b.body
           x == Take(s, o)
<1>1. o \in Line /\ c \in Line /\ body \in Seq(Line) /\ IsOpener(o, ActiveStyle)
  BY Fences DEF BlockShape, Open, IsOpener
<1>2. s.depth \in Nat /\ s.body \in Seq(Line)
  BY SightFacts
<1> HIDE DEF o, c, body
<1>3. x \in Sights /\ Nests(x)
  <2>1. x = Sight(s.depth + 1, Append(s.body, o), s.out, s.loose)
    BY <1>1, <1>2 DEF Take
  <2>2. x.depth = s.depth + 1 /\ x.body = Append(s.body, o)
    BY <2>1 DEF Sight
  <2>3. InnerFences(Append(s.body, o))
    BY <1>1, <1>2, FenceKept DEF IsFence
  <2>4. x.depth > 0
    BY <1>2, <2>2
  <2> QED BY <1>1, <2>2, <2>3, <2>4, TakeType DEF Nests
<1> HIDE DEF x
<1>4. <<o>> \in Seq(Line) /\ <<c>> \in Seq(Line) /\ <<o>> \o body \in Seq(Line)
  BY <1>1, ConcatProperties
<1>5. Seen(s, (<<o>> \o body) \o <<c>>) = Seen(Seen(x, body), <<c>>)
  <2>1. Seen(s, <<o>>) = x
    BY <1>1, SeenOne DEF x
  <2>2. Seen(s, <<o>> \o body) = Seen(x, body)
    BY <1>1, <1>4, <2>1, SeenConcat
  <2>3. Seen(s, (<<o>> \o body) \o <<c>>) = Seen(Seen(s, <<o>> \o body), <<c>>)
    BY <1>4, SeenConcat
  <2> QED BY <2>2, <2>3
<1>6. Seen(x, body) \in Sights /\ Nests(Seen(x, body))
  BY <1>1, <1>3, SeenType, NestsEver
<1>7. Nests(Seen(Seen(x, body), <<c>>))
  BY <1>4, <1>6, NestsEver
<1> QED BY <1>5, <1>7 DEF FencedBody, o, c, body

\* What a reading of the rendered blocks and one of the text have in common.
Abreast(lines, blocks, p, at, k) ==
  /\ p \in Sights /\ p.depth = 0
  /\ Sheltered(lines, blocks) => ~p.loose
  /\ Unopened(lines, blocks) =>
        /\ Upto(lines, at - 1).depth = 0
        /\ Len(p.out) = Len(Upto(lines, at - 1).out) + k

\* One block more, and the lines before it.
LEMMA AbreastOn ==
  ASSUME NEW lines \in Seq(Line), NEW blocks, Placed(lines, blocks),
         Simple(blocks), NEW k \in 1..Len(blocks), NEW at, at = Onward(blocks, k),
         NEW gap, gap = SubSeq(lines, at, blocks[k].first - 1),
         at \in Nat, 1 <= at, at <= blocks[k].first,
         NEW p, Abreast(lines, blocks, p, at, k - 1)
  PROVE  /\ gap \in Seq(Line)
         /\ \/ Nests(Seen(p, gap \o FencedBody(blocks[k])))
            \/ Abreast(lines, blocks, Seen(p, gap \o FencedBody(blocks[k])),
                       After(blocks[k]), k)
<1> DEFINE b == blocks[k]
           first == b.first
           next == After(b)
           x == Seen(p, gap)
           done == Seen(p, gap \o FencedBody(b))
           q == Upto(lines, at - 1)
           q1 == Upto(lines, first - 1)
           q2 == Upto(lines, next - 1)
<1>1. /\ b \in BlockShape /\ b.body \in Seq(Line) /\ b.lang \in Langs
      /\ first \in Nat /\ next \in Nat /\ first < next /\ next <= Len(lines) + 1
      /\ Len(lines) \in Nat
  <2>1. b \in BlocksOf(lines)
    BY DEF Placed
  <2> QED BY <2>1, BlockFacts, AfterType DEF StandsFor, BlockShape
<1>2. Accepted(b.body) /\ ~InnerFences(b.body)
  BY DEF Simple
<1>3. gap = SubSeq(lines, at, first - 1) /\ at <= first
  OBVIOUS
<1> HIDE DEF b, first, next
<1>4. gap \in Seq(Line) /\ q1 = Seen(q, gap)
  <2> DEFINE e == first - 1
  <2>1. e \in Nat /\ at <= e + 1 /\ e <= Len(lines)
    BY <1>1, <1>3
  <2> HIDE DEF e
  <2>2. /\ SubSeq(lines, at, e) \in Seq(Line)
        /\ Upto(lines, e) = Seen(Upto(lines, at - 1), SubSeq(lines, at, e))
    BY <2>1, UptoSplit
  <2> QED BY <1>3, <2>2 DEF e
<1>5. FencedBody(b) \in Seq(Line)
  BY <1>1, FencedType
<1>6. p \in Sights /\ x \in Sights /\ done = Seen(x, FencedBody(b))
  <2>1. p \in Sights
    BY DEF Abreast
  <2>2. done = Seen(x, FencedBody(b))
    BY <1>4, <1>5, SeenConcat
  <2> QED BY <1>4, <2>1, <2>2, SeenType
<1>7. p.depth = 0 /\ (Sheltered(lines, blocks) => ~p.loose)
  BY DEF Abreast
<1>8. ASSUME Sheltered(lines, blocks) PROVE ~x.loose
  <2>1. \A i \in 1..Len(gap) : ~Glues(gap[i])
    <3> SUFFICES ASSUME NEW i \in 1..Len(gap) PROVE ~Glues(gap[i])
      OBVIOUS
    <3> DEFINE e == first - 1
    <3>1. e \in Nat /\ e <= Len(lines) /\ gap = SubSeq(lines, at, e)
      <4>1. first - 1 \in Nat /\ first - 1 <= Len(lines)
        BY <1>1, <1>3
      <4> QED BY <1>3, <4>1
    <3>2. \A j \in Nat : j <= e => j < first
      BY <1>1
    <3> HIDE DEF e
    <3>3. PICK j \in 1..Len(lines) : at <= j /\ j <= e /\ gap[i] = lines[j]
      <4>1. i \in 1..Len(SubSeq(lines, at, e))
        BY <3>1
      <4>2. \E j \in 1..Len(lines) : at <= j /\ j <= e /\ SubSeq(lines, at, e)[i] = lines[j]
        BY <3>1, <4>1, FromStretch
      <4> QED BY <3>1, <4>2
    <3>4. j < blocks[k].first /\ k \in 1..Len(blocks) + 1
      <4>1. Len(blocks) \in Nat
        BY DEF Placed
      <4> QED BY <3>2, <3>3, <4>1 DEF first, b
    <3>5. ~Glues(lines[j])
      BY <1>8, <3>3, <3>4, GapPlain
    <3> QED BY <3>3, <3>5
  <2>2. x.loose = p.loose
    BY <1>4, <1>6, <2>1, NoneLoose
  <2> QED BY <1>7, <1>8, <2>2
<1>9. CASE x.depth > 0
  <2>1. Nests(done)
    BY <1>1, <1>6, <1>9, FencedNests
  <2> QED BY <1>4, <2>1 DEF done, b
<1>10. CASE x.depth = 0
  <2> HIDE DEF done, x, q, q1, q2
  <2>1. done = Sight(0, <<>>, Append(x.out, b.body), x.loose)
    BY <1>1, <1>2, <1>6, <1>10, BlockRead DEF FencedBody
  <2>2. x.out \in Seq(Seq(Line)) /\ x.loose \in BOOLEAN
    BY <1>6, SightFacts
  <2>3. done.depth = 0 /\ done.loose = x.loose /\ done.out = Append(x.out, b.body)
    BY <2>1 DEF Sight
  <2>4. done \in Sights
    BY <1>5, <1>6, SeenType
  <2>5. Len(Append(x.out, b.body)) = Len(x.out) + 1 /\ Len(x.out) \in Nat
    BY <1>1, <2>2, AppendProperties
  <2>6. ASSUME Unopened(lines, blocks)
        PROVE  q2.depth = 0 /\ Len(done.out) = Len(q2.out) + k
    <3>1. q.depth = 0 /\ Len(p.out) = Len(q.out) + (k - 1)
      BY <2>6 DEF Abreast, q
    <3>2. q \in Sights
      <4>1. at - 1 \in 0..Len(lines)
        BY <1>1, <1>3
      <4> QED BY <4>1, UptoType DEF q
    <3>3. Alike(p, q)
      BY <1>6, <1>7, <3>1, <3>2, SightFacts DEF Alike
    <3>4. /\ Alike(x, q1)
          /\ Len(x.out) + Len(q.out) = Len(q1.out) + Len(p.out)
      BY <1>4, <1>6, <3>2, <3>3, ReadAlike DEF x
    <3>5. q1.depth = 0 /\ q1 \in Sights
      BY <1>4, <1>10, <3>2, <3>4, SeenType DEF Alike
    <3>6. q2.depth = 0 /\ q2.out = q1.out
      <4> DEFINE e == next - 1
                 body == SubSeq(lines, first, e)
      <4>1. e \in Nat /\ 1 <= first /\ first <= e + 1 /\ e <= Len(lines) /\ first \in Nat
        BY <1>1, <1>3
      <4>2. body \in Seq(Line) /\ Upto(lines, e) = Seen(q1, body)
        <5> HIDE DEF e
        <5> QED BY <4>1, UptoSplit DEF q1
      <4>3. \A i \in 1..Len(body) : ~IsOpener(body[i], ActiveStyle)
        <5> SUFFICES ASSUME NEW i \in 1..Len(body) PROVE ~IsOpener(body[i], ActiveStyle)
          OBVIOUS
        <5>1. \A j \in Nat : first <= j /\ j <= e => j \in first..next - 1
          BY <1>1
        <5> HIDE DEF e
        <5>2. PICK j \in 1..Len(lines) : first <= j /\ j <= e /\ body[i] = lines[j]
          BY <4>1, FromStretch
        <5>3. j \in first..next - 1
          BY <5>1, <5>2
        <5> QED BY <2>6, <5>2, <5>3 DEF Unopened, first, next, b
      <4> HIDE DEF body
      <4>4. Seen(q1, body).depth = 0 /\ Seen(q1, body).out = q1.out
        BY <3>5, <4>2, <4>3, NoneOpened
      <4> QED BY <4>2, <4>4 DEF q2
    <3>7. Len(q.out) \in Nat /\ Len(q1.out) \in Nat /\ Len(p.out) \in Nat
      BY <1>6, <3>2, <3>5, SightFacts
    <3> DEFINE A == Len(x.out)
               B == Len(q.out)
               C == Len(q1.out)
               D == Len(p.out)
    <3>8. A \in Nat /\ B \in Nat /\ C \in Nat /\ D \in Nat /\ A + B = C + D /\ D = B + (k - 1)
      BY <2>5, <3>1, <3>4, <3>7, Zenon
    <3> HIDE DEF A, B, C, D
    <3>9. A + 1 = C + k
      BY <3>8
    <3>10. Len(done.out) = A + 1 /\ Len(q2.out) = C
      BY <2>3, <2>5, <3>6 DEF A, C
    <3> QED BY <3>6, <3>9, <3>10
  <2>7. Abreast(lines, blocks, done, next, k)
    BY <1>8, <2>3, <2>4, <2>6 DEF Abreast, q2
  <2> QED BY <1>4, <2>7 DEF done, next, b
<1>11. x.depth \in Nat
  BY <1>6, SightFacts
<1> QED BY <1>9, <1>10, <1>11

LEMMA OnwardFacts ==
  ASSUME NEW lines \in Seq(Line), NEW blocks, Placed(lines, blocks),
         NEW k \in 1..Len(blocks) + 1
  PROVE  /\ Onward(blocks, k) \in Nat
         /\ 1 <= Onward(blocks, k) /\ Onward(blocks, k) <= Len(lines) + 1
         /\ k <= Len(blocks) => Onward(blocks, k) <= blocks[k].first
<1>1. blocks \in Seq(BlocksOf(lines)) /\ Len(blocks) \in Nat /\ Len(lines) \in Nat
  BY DEF Placed
<1>2. ASSUME NEW i \in 1..Len(blocks)
      PROVE  /\ blocks[i].first \in Nat /\ After(blocks[i]) \in Nat
             /\ 1 <= blocks[i].first /\ blocks[i].first < After(blocks[i])
             /\ After(blocks[i]) <= Len(lines) + 1
  <2>1. blocks[i] \in BlocksOf(lines)
    BY <1>1
  <2> QED BY <2>1, BlockFacts, AfterType DEF StandsFor
<1>3. CASE k = 1
  <2>1. Onward(blocks, k) = 1
    BY <1>3 DEF Onward
  <2> QED BY <1>1, <1>2, <2>1
<1>4. CASE k # 1
  <2>1. k - 1 \in 1..Len(blocks) /\ k - 1 < k /\ Onward(blocks, k) = After(blocks[k - 1])
    BY <1>1, <1>4 DEF Onward
  <2>2. k <= Len(blocks) => After(blocks[k - 1]) <= blocks[k].first
    <3> SUFFICES ASSUME k <= Len(blocks) PROVE After(blocks[k - 1]) <= blocks[k].first
      OBVIOUS
    <3>1. k \in 1..Len(blocks)
      BY <1>1
    <3> QED BY <2>1, <3>1 DEF Placed, InOrder
  <2>3. After(blocks[k - 1]) \in Nat /\ 1 <= After(blocks[k - 1])
        /\ After(blocks[k - 1]) <= Len(lines) + 1
    BY <1>2, <2>1
  <2> QED BY <2>1, <2>2, <2>3
<1> QED BY <1>3, <1>4

\* The lines before a block, and the block in the fences of the active style.
Piece(lines, blocks, k) ==
  SubSeq(lines, Onward(blocks, k), blocks[k].first - 1) \o FencedBody(blocks[k])

LEMMA Rendered ==
  ASSUME NEW lines \in Seq(Line), NEW blocks, Placed(lines, blocks)
  PROVE  /\ \A k \in 1..Len(blocks) : Piece(lines, blocks, k) \in Seq(Line)
         /\ Render(lines, blocks) =
               FlattenSeq([k \in 1..Len(blocks) |-> Piece(lines, blocks, k)])
               \o SubSeq(lines, Onward(blocks, Len(blocks) + 1), Len(lines))
<1> DEFINE full(k) == SubSeq(lines, Onward(blocks, k), blocks[k].first - 1)
                      \o <<Open(ActiveStyle, blocks[k].lang)>> \o blocks[k].body
                      \o <<Close(ActiveStyle, blocks[k].lang)>>
<1>1. /\ blocks \in Seq(BlocksOf(lines)) /\ Len(blocks) \in Nat /\ Len(lines) \in Nat
      /\ DOMAIN blocks = 1..Len(blocks)
  BY DEF Placed
<1>2. Render(lines, blocks) = FlattenSeq([k \in DOMAIN blocks |-> full(k)])
                              \o SubSeq(lines, Onward(blocks, Len(blocks) + 1), Len(lines))
  BY Zenon DEF Render, Onward
<1>3. ASSUME NEW k \in 1..Len(blocks)
      PROVE  full(k) = Piece(lines, blocks, k) /\ Piece(lines, blocks, k) \in Seq(Line)
  <2> DEFINE at == Onward(blocks, k)
             e == blocks[k].first - 1
             gap == SubSeq(lines, at, e)
  <2>1. blocks[k] \in BlockShape /\ blocks[k].first \in Nat /\ 1 <= blocks[k].first
        /\ blocks[k].first <= Len(lines) + 1
    <3>1. blocks[k] \in BlocksOf(lines)
      BY <1>1
    <3>2. /\ blocks[k] \in BlockShape /\ blocks[k].first \in Nat /\ After(blocks[k]) \in Nat
          /\ 1 <= blocks[k].first /\ blocks[k].first < After(blocks[k])
          /\ After(blocks[k]) <= Len(lines) + 1
      BY <3>1, BlockFacts, AfterType DEF StandsFor
    <3> QED BY <1>1, <3>2
  <2>2. at \in Nat /\ 1 <= at /\ at <= blocks[k].first
    <3>1. k \in 1..Len(blocks) + 1 /\ k <= Len(blocks)
      BY <1>1
    <3> QED BY <3>1, OnwardFacts
  <2>3. gap \in Seq(Line)
    <3>1. at \in Int /\ e \in Int /\ 1 <= at /\ at <= e + 1 /\ e <= Len(lines)
      BY <1>1, <2>1, <2>2
    <3> HIDE DEF at, e
    <3> QED BY <3>1, Stretch
  <2> HIDE DEF gap
  <2>4. /\ FencedBody(blocks[k]) \in Seq(Line)
        /\ gap \o <<Open(ActiveStyle, blocks[k].lang)>> \o blocks[k].body
           \o <<Close(ActiveStyle, blocks[k].lang)>> = gap \o FencedBody(blocks[k])
    BY <2>1, <2>3, FencedType
  <2>5. gap \o FencedBody(blocks[k]) \in Seq(Line)
    BY <2>3, <2>4, ConcatProperties
  <2> QED BY <2>4, <2>5 DEF gap, Piece
<1> HIDE DEF full
<1>4. [k \in DOMAIN blocks |-> full(k)] = [k \in 1..Len(blocks) |-> Piece(lines, blocks, k)]
  BY <1>1, <1>3
<1> QED BY <1>2, <1>3, <1>4

LEMMA NothingAbreast ==
  ASSUME NEW lines \in Seq(Line), NEW blocks
  PROVE  Abreast(lines, blocks, Unread, 1, 0)
<1>1. Unread \in Sights /\ Unread.depth = 0 /\ ~Unread.loose /\ Unread.out = <<>>
  BY UnreadType DEF Unread, Sight
<1>2. Upto(lines, 1 - 1) = Unread
  <2>1. SubSeq(lines, 1, 1 - 1) = <<>>
    BY Stretch
  <2> QED BY <2>1, SeenNone DEF Upto
<1>3. Len(Unread.out) = Len(Upto(lines, 1 - 1).out) + 0
  <2>1. Len(Unread.out) = 0
    BY <1>1
  <2> QED BY <1>2, <2>1
<1> QED BY <1>1, <1>2, <1>3 DEF Abreast

\* The rendered blocks, read.
LEMMA PilesRead ==
  ASSUME NEW lines \in Seq(Line), NEW blocks, Placed(lines, blocks), Simple(blocks),
         NEW parts, parts = [k \in 1..Len(blocks) |-> Piece(lines, blocks, k)]
  PROVE  LET done == Seen(Unread, FlattenSeq(parts))
         IN  /\ FlattenSeq(parts) \in Seq(Line)
             /\ \/ Nests(done)
                \/ Abreast(lines, blocks, done, Onward(blocks, Len(blocks) + 1), Len(blocks))
<1> DEFINE N == Len(blocks)
<1>1. blocks \in Seq(BlocksOf(lines)) /\ N \in Nat /\ Len(lines) \in Nat
  BY DEF Placed
<1>2. \A k \in 1..N : parts[k] = Piece(lines, blocks, k) /\ parts[k] \in Seq(Line)
  BY Rendered
<1>3. parts \in Seq(Seq(Line)) /\ Len(parts) = N
  <2>1. parts = [k \in 1..N |-> parts[k]]
    OBVIOUS
  <2>2. parts \in [1..N -> Seq(Line)]
    BY <1>2, <2>1
  <2>3. \A E : \A n \in Nat : \A x \in [1..n -> E] : x \in Seq(E) /\ Len(x) = n
    OBVIOUS
  <2> HIDE DEF N
  <2> QED BY <1>1, <2>2, <2>3
<1>4. PICK pile \in [0..Len(parts) -> Seq(Line)] :
         Piled(pile, parts) /\ FlattenSeq(parts) = pile[Len(parts)]
  BY <1>3, Flattened
<1> DEFINE p(k) == Seen(Unread, pile[k])
           So(k) == Nests(p(k)) \/ Abreast(lines, blocks, p(k), Onward(blocks, k + 1), k)
           S == {k \in Nat : k <= N => So(k)}
<1> HIDE DEF N
<1>5. 0 \in S
  <2>1. pile[0] = <<>> /\ Onward(blocks, 0 + 1) = 1
    BY <1>4 DEF Piled, Onward
  <2>2. p(0) = Unread
    BY <2>1, SeenNone
  <2>3. So(0)
    BY <2>1, <2>2, NothingAbreast
  <2> QED BY <2>3
<1>6. ASSUME NEW k \in Nat, k \in S, k + 1 <= N PROVE So(k + 1)
  <2> DEFINE m == k + 1
             gap == SubSeq(lines, Onward(blocks, m), blocks[m].first - 1)
             more == FencedBody(blocks[m])
  <2>1. /\ m \in 1..N /\ m \in 1..Len(parts) /\ m - 1 = k /\ k <= N /\ k \in 0..Len(parts)
        /\ m \in 1..N + 1 /\ m <= N /\ m + 1 # 1 /\ (m + 1) - 1 = m
    BY <1>1, <1>3, <1>6
  <2>2. So(k)
    BY <1>6, <2>1
  <2> HIDE DEF m
  <2>3. pile[m] = pile[k] \o parts[m] /\ pile[k] \in Seq(Line) /\ parts[m] \in Seq(Line)
    BY <1>2, <1>4, <2>1 DEF Piled
  <2>4. parts[m] = gap \o more
    BY <1>2, <2>1 DEF Piece
  <2>5. p(m) = Seen(p(k), parts[m]) /\ p(k) \in Sights
    <3>1. Seen(Unread, pile[k] \o parts[m]) = Seen(Seen(Unread, pile[k]), parts[m])
      BY <2>3, SeenConcat
    <3> QED BY <2>3, <3>1, SeenType, UnreadType
  <2> HIDE DEF p
  <2>6. CASE Nests(p(k))
    <3>1. Nests(p(m))
      BY <2>3, <2>5, <2>6, NestsEver
    <3> QED BY <3>1 DEF m
  <2>7. CASE Abreast(lines, blocks, p(k), Onward(blocks, m), k)
    <3>1. /\ Onward(blocks, m) \in Nat /\ 1 <= Onward(blocks, m)
          /\ Onward(blocks, m) <= blocks[m].first
      BY <2>1, OnwardFacts DEF N
    <3>2. Abreast(lines, blocks, p(k), Onward(blocks, m), m - 1)
      BY <2>1, <2>7
    <3>3. m \in 1..Len(blocks)
      BY <2>1 DEF N
    <3>4. \/ Nests(Seen(p(k), gap \o more))
          \/ Abreast(lines, blocks, Seen(p(k), gap \o more), After(blocks[m]), m)
      <4> HIDE DEF Abreast
      <4> QED BY <3>1, <3>2, <3>3, AbreastOn
    <3>5. After(blocks[m]) = Onward(blocks, m + 1)
      BY <2>1 DEF Onward
    <3>6. Nests(p(m)) \/ Abreast(lines, blocks, p(m), Onward(blocks, m + 1), m)
      BY <2>4, <2>5, <3>4, <3>5
    <3> QED BY <3>6 DEF m
  <2>8. Nests(p(k)) \/ Abreast(lines, blocks, p(k), Onward(blocks, m), k)
    BY <2>2 DEF m
  <2> QED BY <2>6, <2>7, <2>8
<1> HIDE DEF So
<1>7. ASSUME NEW k \in Nat, k \in S PROVE k + 1 \in S
  BY <1>6, <1>7
<1> HIDE DEF S
<1>8. \A k \in Nat : k \in S
  BY <1>5, <1>7, EveryNumber
<1>9. So(N)
  <2>1. N \in S /\ N <= N
    BY <1>1, <1>8
  <2> QED BY <2>1 DEF S
<1>10. FlattenSeq(parts) = pile[N] /\ pile[N] \in Seq(Line)
  BY <1>1, <1>3, <1>4
<1> QED BY <1>9, <1>10 DEF So, N

LEMMA RenderRead ==
  ASSUME NEW lines \in Seq(Line), NEW blocks, Placed(lines, blocks), Simple(blocks),
         NEW r, r = Seen(Unread, Render(lines, blocks)), ~Nests(r)
  PROVE  /\ Sheltered(lines, blocks) => ~r.loose
         /\ Unopened(lines, blocks) => Len(r.out) = Len(Seen(Unread, lines).out) + Len(blocks)
<1> DEFINE N == Len(blocks)
           at == Onward(blocks, N + 1)
           rest == SubSeq(lines, at, Len(lines))
           parts == [k \in 1..N |-> Piece(lines, blocks, k)]
           front == FlattenSeq(parts)
           done == Seen(Unread, front)
           q == Upto(lines, at - 1)
<1>1. blocks \in Seq(BlocksOf(lines)) /\ N \in Nat /\ Len(lines) \in Nat
  BY DEF Placed
<1>2. at \in Nat /\ 1 <= at /\ at <= Len(lines) + 1
  <2>1. N + 1 \in 1..Len(blocks) + 1
    BY <1>1
  <2> QED BY <2>1, OnwardFacts
<1>3. front \in Seq(Line) /\ (Nests(done) \/ Abreast(lines, blocks, done, at, N))
  <2> HIDE DEF Abreast, Nests
  <2> QED BY PilesRead
<1>4. Render(lines, blocks) = front \o rest
  BY Rendered
<1> HIDE DEF N, at, parts
<1>5. rest \in Seq(Line) /\ Upto(lines, Len(lines)) = Seen(q, rest)
  BY <1>1, <1>2, UptoSplit
<1>6. Upto(lines, Len(lines)) = Seen(Unread, lines)
  <2>1. SubSeq(lines, 1, Len(lines)) = lines
    BY SubSeqFull
  <2> QED BY <2>1 DEF Upto
<1> HIDE DEF front, rest
<1>7. r = Seen(done, rest) /\ done \in Sights
  <2>1. Seen(Unread, front \o rest) = Seen(Seen(Unread, front), rest)
    BY <1>3, <1>5, SeenConcat
  <2> QED BY <1>3, <1>4, <2>1, SeenType, UnreadType
<1> HIDE DEF done, q
<1>8. Abreast(lines, blocks, done, at, N)
  <2>1. CASE Nests(done)
    BY <1>5, <1>7, <2>1, NestsEver
  <2> QED BY <1>3, <2>1
<1>9. ASSUME Sheltered(lines, blocks) PROVE ~r.loose
  <2>1. ~done.loose
    BY <1>8, <1>9 DEF Abreast
  <2>2. \A i \in 1..Len(rest) : ~Glues(rest[i])
    <3> SUFFICES ASSUME NEW i \in 1..Len(rest) PROVE ~Glues(rest[i])
      OBVIOUS
    <3>1. PICK j \in 1..Len(lines) : at <= j /\ j <= Len(lines) /\ rest[i] = lines[j]
      <4>1. i \in 1..Len(SubSeq(lines, at, Len(lines)))
        BY DEF rest
      <4>2. \E j \in 1..Len(lines) :
               at <= j /\ j <= Len(lines) /\ SubSeq(lines, at, Len(lines))[i] = lines[j]
        BY <1>1, <1>2, <4>1, FromStretch
      <4> QED BY <4>2 DEF rest
    <3>2. /\ N + 1 \in 1..Len(blocks) + 1 /\ ~(N + 1 <= Len(blocks))
          /\ Onward(blocks, N + 1) <= j
      BY <1>1, <3>1 DEF N, at
    <3>3. ~Glues(lines[j])
      BY <1>9, <3>1, <3>2, GapPlain
    <3> QED BY <3>1, <3>3
  <2>3. Seen(done, rest).loose = done.loose
    BY <1>5, <1>7, <2>2, NoneLoose
  <2> QED BY <1>7, <2>1, <2>3
<1>10. ASSUME Unopened(lines, blocks)
       PROVE  Len(r.out) = Len(Seen(Unread, lines).out) + N
  <2>1. q.depth = 0 /\ Len(done.out) = Len(q.out) + N /\ done.depth = 0
    BY <1>8, <1>10 DEF Abreast, q
  <2>2. q \in Sights
    <3>1. at - 1 \in 0..Len(lines)
      BY <1>1, <1>2
    <3> QED BY <3>1, UptoType DEF q
  <2>3. Alike(done, q)
    BY <1>7, <2>1, <2>2, SightFacts DEF Alike
  <2>4. Len(Seen(done, rest).out) + Len(q.out) = Len(Seen(q, rest).out) + Len(done.out)
    BY <1>5, <1>7, <2>2, <2>3, ReadAlike
  <2>5. Seen(q, rest) = Seen(Unread, lines)
    BY <1>5, <1>6
  <2>6. Len(r.out) \in Nat /\ Len(q.out) \in Nat /\ Len(Seen(Unread, lines).out) \in Nat
    <3>1. Seen(Unread, lines) \in Sights /\ r \in Sights
      BY <1>5, <1>7, SeenType, UnreadType
    <3> QED BY <2>2, <3>1, SightFacts
  <2> DEFINE A == Len(r.out)
             B == Len(q.out)
             C == Len(Seen(Unread, lines).out)
             D == Len(done.out)
  <2>7. A + B = C + D /\ D = B + N /\ A \in Nat /\ B \in Nat /\ C \in Nat
    BY <1>7, <2>1, <2>4, <2>5, <2>6
  <2> HIDE DEF A, B, C, D
  <2>8. A = C + N
    BY <1>1, <2>7
  <2> QED BY <2>8 DEF A, C
<1> QED BY <1>9, <1>10 DEF N

-----------------------------------------------------------------------------
(* A rewrite keeps what runs                                               *)

LEMMA NoGlue ==
  ASSUME NEW lines \in Seq(Line), Snug(lines), Seen(Unread, lines).out = <<>>
  PROVE  \A j \in 1..Len(lines) : ~Glues(lines[j])
<1> SUFFICES ASSUME NEW j \in 1..Len(lines), Glues(lines[j]) PROVE FALSE
  OBVIOUS
<1>1. PICK s : Scanned(lines, ScanStyle(lines, ActiveStyle), s, Seen(Unread, lines))
  BY ScanRead
<1>2. Matched(lines, Len(lines), s, Seen(Unread, lines))
  BY <1>1 DEF Scanned
<1>3. s.blocks \in Seq(BlockShape) /\ Bodies(Good(s.blocks)) = <<>>
  BY <1>2 DEF Matched, CounterShape
<1>4. PICK k \in 1..Len(s.blocks) : Accepted(s.blocks[k].body)
  BY <1>2, SnugWhole
<1>5. Good(s.blocks) \in Seq(BlockShape) /\ \E m \in 1..Len(Good(s.blocks)) : TRUE
  BY <1>3, <1>4, GoodElements
<1>6. Len(Bodies(Good(s.blocks))) = Len(Good(s.blocks))
  BY <1>5, BodiesType
<1>7. Len(<<>>) = 0 /\ Len(Good(s.blocks)) = 0
  BY <1>3, <1>6
<1> QED BY <1>5, <1>7

LEMMA PlacedShapes ==
  ASSUME NEW lines, NEW blocks, Placed(lines, blocks)
  PROVE  blocks \in Seq(BlockShape) /\ Len(blocks) \in Nat
<1>1. blocks \in Seq(BlocksOf(lines)) /\ BlocksOf(lines) \subseteq BlockShape
  BY DEF Placed, BlocksOf
<1>2. \A S, T : S \subseteq T => \A x \in Seq(S) : x \in Seq(T)
  OBVIOUS
<1>3. blocks \in Seq(BlockShape)
  BY <1>1, <1>2
<1> QED BY <1>3

\* Blocks that begin with no opener of the active style, and hold none.
LEMMA UnopenedBlocks ==
  ASSUME NEW lines \in Seq(Line), NEW blocks, Placed(lines, blocks), Simple(blocks),
         NEW starts, Begins(lines, blocks, starts),
         \A l \in starts : ~IsOpener(l, ActiveStyle)
  PROVE  Unopened(lines, blocks)
<1> SUFFICES ASSUME NEW k \in 1..Len(blocks), NEW i \in blocks[k].first..After(blocks[k]) - 1,
                    IsOpener(lines[i], ActiveStyle)
             PROVE  FALSE
  BY DEF Unopened
<1>1. /\ blocks[k] \in BlockShape /\ StandsFor(lines, blocks[k])
      /\ blocks[k].first \in Nat /\ After(blocks[k]) \in Nat
  <2>1. blocks[k] \in BlocksOf(lines)
    BY DEF Placed
  <2> QED BY <2>1, BlockFacts, AfterType
<1>2. i # blocks[k].first
  BY DEF Begins
<1>3. i \in blocks[k].first + 1..After(blocks[k]) - 1
  BY <1>1, <1>2
<1>4. PICK m \in 1..Len(blocks[k].body) : blocks[k].body[m] = lines[i]
  BY <1>1, <1>3 DEF StandsFor
<1>5. DOMAIN blocks[k].body = 1..Len(blocks[k].body)
  BY <1>1 DEF BlockShape
<1>6. InnerFences(blocks[k].body)
  BY <1>4, <1>5 DEF InnerFences, IsFence
<1> QED BY <1>6 DEF Simple

LEMMA GoodSimple ==
  ASSUME NEW lines \in Seq(Line), NEW blocks, Placed(lines, blocks),
         NEW starts, Begins(lines, blocks, starts)
  PROVE  /\ Placed(lines, Good(blocks)) /\ Begins(lines, Good(blocks), starts)
         /\ ~Refused(Good(blocks)) => Simple(Good(blocks))
<1> DEFINE good == Good(blocks)
<1>1. blocks \in Seq(BlockShape)
  BY PlacedShapes
<1>2. /\ good \in Seq(BlockShape)
      /\ \A m \in 1..Len(good) :
            \E k \in 1..Len(blocks) : blocks[k] = good[m] /\ Accepted(blocks[k].body)
  BY <1>1, GoodElements
<1>3. Placed(lines, good)
  BY OnlyPlaced DEF Good
<1> HIDE DEF good
<1>4. Begins(lines, good, starts)
  <2> SUFFICES ASSUME NEW m \in 1..Len(good) PROVE lines[good[m].first] \in starts
    BY DEF Begins
  <2>1. PICK k \in 1..Len(blocks) : blocks[k] = good[m]
    BY <1>2
  <2> QED BY <2>1 DEF Begins
<1>5. ASSUME ~Refused(good) PROVE Simple(good)
  <2> SUFFICES ASSUME NEW m \in 1..Len(good)
               PROVE  Accepted(good[m].body) /\ ~InnerFences(good[m].body)
    BY DEF Simple
  <2>1. m \in DOMAIN good
    BY <1>2
  <2>2. Accepted(good[m].body)
    BY <1>2
  <2> QED BY <1>5, <2>1, <2>2 DEF Refused
<1> QED BY <1>3, <1>4, <1>5 DEF good

Grows(a, b) == \E rest \in Seq(Seq(Line)) : b = a \o rest

\* The text now runs what it ran, and perhaps more behind it.
Held(lines, now) ==
  /\ now \in Seq(Line) /\ Snug(now)
  /\ Grows(Seen(Unread, lines).out, Seen(Unread, now).out)

LEMMA GrowsSame ==
  ASSUME NEW a \in Seq(Seq(Line))
  PROVE  Grows(a, a)
<1>1. <<>> \in Seq(Seq(Line)) /\ a = a \o <<>>
  BY ConcatEmptySeq
<1> QED BY <1>1 DEF Grows

LEMMA GrowsOne ==
  ASSUME NEW a \in Seq(Seq(Line)), NEW x \in Seq(Line)
  PROVE  Grows(a, Append(a, x))
<1>1. <<x>> \in Seq(Seq(Line)) /\ Append(a, x) = a \o <<x>>
  OBVIOUS
<1> QED BY <1>1 DEF Grows

LEMMA GrowsNone ==
  ASSUME NEW b \in Seq(Seq(Line))
  PROVE  Grows(<<>>, b)
<1>1. b = <<>> \o b
  BY ConcatEmptySeq
<1> QED BY <1>1 DEF Grows

LEMMA GrowsTwice ==
  ASSUME NEW a \in Seq(Seq(Line)), NEW b, NEW c, Grows(a, b), Grows(b, c)
  PROVE  Grows(a, c)
<1>1. PICK x \in Seq(Seq(Line)) : b = a \o x
  BY DEF Grows
<1>2. PICK y \in Seq(Seq(Line)) : c = b \o y
  BY DEF Grows
<1>3. (a \o x) \o y = a \o (x \o y) /\ x \o y \in Seq(Seq(Line))
  BY Regrouped, ConcatProperties
<1>4. c = a \o (x \o y)
  BY <1>1, <1>2, <1>3
<1> QED BY <1>3, <1>4 DEF Grows

LEMMA OutType ==
  ASSUME NEW lines \in Seq(Line)
  PROVE  Seen(Unread, lines).out \in Seq(Seq(Line))
BY SeenType, UnreadType, SightFacts

LEMMA HeldSame ==
  ASSUME NEW lines \in Seq(Line), Snug(lines)
  PROVE  Held(lines, lines)
BY OutType, GrowsSame DEF Held

LEMMA HeldTwice ==
  ASSUME NEW lines \in Seq(Line), NEW then, NEW now, Held(lines, then), Held(then, now)
  PROVE  Held(lines, now)
BY OutType, GrowsTwice DEF Held

LEMMA HeldRead ==
  ASSUME NEW lines \in Seq(Line), Snug(lines), NEW now \in Seq(Line),
         Seen(Unread, now) = Seen(Unread, lines)
  PROVE  Held(lines, now)
<1>1. Snug(now)
  BY DEF Snug
<1> QED BY <1>1, OutType, GrowsSame DEF Held

LEMMA RewriteHeld ==
  ASSUME NEW lines \in Seq(Line), Snug(lines), NEW blocks, Placed(lines, blocks), Simple(blocks),
         RendersExtractable(Finalize(Render(lines, blocks)), blocks),
         \/ blocks = Good(ScanStyle(lines, ActiveStyle).blocks)
         \/ Unopened(lines, blocks)
  PROVE  Held(lines, Finalize(Render(lines, blocks)))
<1> DEFINE rendered == Render(lines, blocks)
           final == Finalize(rendered)
           r == Seen(Unread, rendered)
           was == Seen(Unread, lines).out
<1>1. rendered \in Seq(Line)
  BY RenderFaithful DEF Faithful
<1>2. final \in Seq(Line) /\ Seen(Unread, final) = r
  <2> HIDE DEF rendered
  <2> QED BY <1>1, FinalizeRead
<1>3. blocks \in Seq(BlockShape) /\ Len(blocks) \in Nat
  BY PlacedShapes
<1>4. /\ ~ScanStyle(final, ActiveStyle).unclosed
      /\ Bodies(Good(ScanStyle(final, ActiveStyle).blocks)) = Bodies(blocks)
  BY DEF RendersExtractable
<1>5. was \in Seq(Seq(Line))
  BY OutType
<1> HIDE DEF final, was
<1>6. r \in Sights
  <2> HIDE DEF rendered
  <2> QED BY <1>1, SeenType, UnreadType
<1>7. r.depth = 0 /\ r.out = Bodies(blocks)
  <2> HIDE DEF r
  <2>1. r.depth \in Nat
    BY <1>6, SightFacts
  <2>2. ~(r.depth > 0)
    BY <1>2, <1>4, GoodRead
  <2>3. r.depth = 0
    BY <2>1, <2>2
  <2> QED BY <1>2, <1>4, <2>3, GoodRead
<1>8. /\ r.out \in Seq(Seq(Line)) /\ Len(r.out) = Len(blocks)
      /\ \A k \in 1..Len(blocks) : r.out[k] = blocks[k].body
  BY <1>3, <1>7, BodiesType
<1>9. ~Nests(r)
  <2> HIDE DEF r
  <2>1. \A j \in 1..Len(r.out) : ~InnerFences(r.out[j])
    BY <1>8 DEF Simple
  <2> QED BY <1>7, <2>1 DEF Nests
<1>10. /\ Sheltered(lines, blocks) => ~r.loose
       /\ Unopened(lines, blocks) => Len(r.out) = Len(was) + Len(blocks)
  <2> DEFINE x == r
  <2>1. x = Seen(Unread, Render(lines, blocks)) /\ ~Nests(x)
    BY <1>9
  <2> HIDE DEF x, Nests
  <2>2. /\ Sheltered(lines, blocks) => ~x.loose
        /\ Unopened(lines, blocks) => Len(x.out) = Len(Seen(Unread, lines).out) + Len(blocks)
    BY <2>1, RenderRead
  <2> QED BY <2>2 DEF x, was
<1> HIDE DEF r, rendered
<1>11. CASE blocks = Good(ScanStyle(lines, ActiveStyle).blocks)
  <2>1. ~r.loose
    BY <1>10, <1>11, SnugSheltered
  <2>2. Grows(was, r.out)
    <3>1. \/ Bodies(blocks) = was
          \/ Bodies(blocks) = Append(was, Seen(Unread, lines).body)
      BY <1>11, GoodRead DEF was
    <3>2. Seen(Unread, lines).body \in Seq(Line)
      <4>1. Seen(Unread, lines) \in Sights
        BY SeenType, UnreadType
      <4> QED BY <4>1, SightFacts
    <3> QED BY <1>5, <1>7, <3>1, <3>2, GrowsSame, GrowsOne
  <2>3. Snug(final)
    BY <1>2, <1>7, <2>1 DEF Snug
  <2> QED BY <1>2, <2>2, <2>3 DEF Held, was, final, rendered
<1>12. CASE Unopened(lines, blocks)
  <2>1. was = <<>>
    <3>1. Len(was) \in Nat /\ Len(was) = 0
      BY <1>3, <1>5, <1>8, <1>10, <1>12
    <3> QED BY <1>5, <3>1
  <2>2. Sheltered(lines, blocks)
    <3>1. Seen(Unread, lines).out = <<>>
      BY <2>1 DEF was
    <3> QED BY <3>1, NoGlue DEF Sheltered
  <2>3. ~r.loose
    BY <1>10, <2>2
  <2>4. Grows(was, r.out)
    BY <1>8, <2>1, GrowsNone
  <2>5. Snug(final)
    BY <1>2, <1>7, <2>3 DEF Snug
  <2> QED BY <1>2, <2>4, <2>5 DEF Held, was, final, rendered
<1> QED BY <1>11, <1>12

-----------------------------------------------------------------------------
(* The ladder and the passes keep what runs                                *)

LEMMA LadderType == Ladder \in Seq(Styles)
<1> DEFINE which == {k \in DOMAIN OtherOrder : OtherOrder[k] # ActiveStyle}
<1>1. OtherOrder \in Seq(Styles)
  BY DEF OtherOrder, Styles
<1>2. <<ActiveStyle>> \in Seq(Styles)
  BY ActiveStyleAssumption
<1> HIDE DEF which
<1>3. Only(OtherOrder, which) \in Seq(Styles)
  BY <1>1, OnlyElements
<1>4. <<ActiveStyle>> \o Only(OtherOrder, which) \in Seq(Styles)
  BY <1>2, <1>3, ConcatProperties
<1> QED BY <1>4 DEF Ladder, which

\* A result whose text is held.
Keeps(lines, done) == \E t, v, w : done = Result(t, v, w) /\ Held(lines, t)

LEMMA KeepsText ==
  ASSUME NEW lines, NEW done, Keeps(lines, done)
  PROVE  Held(lines, done.text)
<1>1. PICK t, v, w : done = Result(t, v, w) /\ Held(lines, t)
  BY DEF Keeps
<1>2. done.text = t
  BY <1>1 DEF Result
<1> QED BY <1>1, <1>2

LEMMA CommitHeld ==
  ASSUME NEW lines \in Seq(Line), Snug(lines), NEW style, Wins(lines, style)
  PROVE  Keeps(lines, Commit(lines, style))
<1> DEFINE scan == ScanStyle(lines, style)
           good == Good(scan.blocks)
           final == Finalize(Render(lines, good))
<1>1. /\ ~Refused(good)
      /\ Untouched(scan, good, style) \/ RendersExtractable(final, good)
  BY Zenon DEF Wins
<1>2. Held(lines, lines)
  BY HeldSame
<1>3. CASE Untouched(scan, good, style)
  <2>1. \E v, w : Commit(lines, style) = Result(lines, v, w)
    BY <1>3, Zenon DEF Commit
  <2> QED BY <1>2, <2>1, Zenon DEF Keeps
<1>4. CASE ~Untouched(scan, good, style)
  <2>1. \E v, w : Commit(lines, style) = Result(final, v, w)
    BY <1>4, Zenon DEF Commit
  <2>2. Placed(lines, scan.blocks) /\ Begins(lines, scan.blocks, Opening(style))
    BY ScanPlaced
  <2>3. Placed(lines, good) /\ Simple(good) /\ Begins(lines, good, Opening(style))
    <3> HIDE DEF scan
    <3> QED BY <1>1, <2>2, GoodSimple
  <2>4. \/ good = Good(ScanStyle(lines, ActiveStyle).blocks)
        \/ Unopened(lines, good)
    <3>1. CASE style = ActiveStyle
      BY <3>1
    <3>2. CASE style # ActiveStyle
      <4>1. \A l \in Opening(style) : ~IsOpener(l, ActiveStyle)
        BY <3>2 DEF Opening, IsOpener
      <4> HIDE DEF good
      <4>2. Unopened(lines, good)
        BY <2>3, <4>1, UnopenedBlocks
      <4> QED BY <4>2
    <3> QED BY <3>1, <3>2
  <2>5. RendersExtractable(Finalize(Render(lines, good)), good)
    BY <1>1, <1>4
  <2>6. Held(lines, final)
    <3> HIDE DEF good
    <3> QED BY <2>3, <2>4, <2>5, RewriteHeld
  <2> HIDE DEF final
  <2> QED BY <2>1, <2>6, Zenon DEF Keeps
<1> QED BY <1>3, <1>4

LEMMA ProtoHeld ==
  ASSUME NEW lines \in Seq(Line), Snug(lines), NEW proto, proto = Good(ScanProto(lines)),
         ~Refused(proto), NEW final, final = Finalize(Render(lines, proto))
  PROVE  Keeps(lines, CommitProto(lines, proto, final))
<1>1. CASE RendersExtractable(final, proto)
  <2>1. \E v, w : CommitProto(lines, proto, final) = Result(final, v, w)
    BY <1>1, Zenon DEF CommitProto
  <2>2. Placed(lines, proto) /\ Simple(proto) /\ Begins(lines, proto, TagOpening)
    BY ProtoPlaced, GoodSimple
  <2>3. \A l \in TagOpening : ~IsOpener(l, ActiveStyle)
    BY DEF TagOpening, OpensTag, IsOpener
  <2>4. Unopened(lines, proto)
    BY <2>2, <2>3, UnopenedBlocks
  <2>5. Held(lines, final)
    BY <1>1, <2>2, <2>4, RewriteHeld
  <2> QED BY <2>1, <2>5, Zenon DEF Keeps
<1>2. CASE ~RendersExtractable(final, proto)
  <2>1. \E v, w : CommitProto(lines, proto, final) = Result(lines, v, w)
    BY <1>2, Zenon DEF CommitProto
  <2>2. Held(lines, lines)
    BY HeldSame
  <2> QED BY <2>1, <2>2, Zenon DEF Keeps
<1> QED BY <1>1, <1>2

LEMMA CoreHeld ==
  ASSUME NEW lines \in Seq(Line), Snug(lines)
  PROVE  Keeps(lines, RepairCore(lines))
<1> DEFINE proto == Good(ScanProto(lines))
           final == Finalize(Render(lines, proto))
           winners == {k \in DOMAIN Ladder : Wins(lines, Ladder[k])}
<1>1. CASE winners # {}
  <2>1. winners \in SUBSET Nat /\ \A k \in winners : Wins(lines, Ladder[k])
    BY LadderType
  <2>2. RepairCore(lines) = Commit(lines, Ladder[Min(winners)])
    BY <1>1 DEF RepairCore
  <2> HIDE DEF winners
  <2>3. Min(winners) \in winners
    <3>1. PICK b \in winners : TRUE
      BY <1>1
    <3>2. winners \in SUBSET Int /\ 0 \in Int /\ \A x \in winners : 0 <= x
      BY <2>1
    <3> QED BY <3>1, <3>2, SmallestOf
  <2>4. Wins(lines, Ladder[Min(winners)])
    BY <2>1, <2>3
  <2> QED BY <2>2, <2>4, CommitHeld
<1>2. CASE winners = {}
  <2>1. RepairCore(lines) = NoStageWins(lines, proto)
    BY <1>2, Zenon DEF RepairCore
  <2> HIDE DEF proto
  <2>2. \/ ~Refused(proto) /\ NoStageWins(lines, proto) = CommitProto(lines, proto, final)
        \/ \E v, w : NoStageWins(lines, proto) = Result(lines, v, w)
    BY Zenon DEF NoStageWins
  <2>3. ~Refused(proto) => Keeps(lines, CommitProto(lines, proto, final))
    BY ProtoHeld DEF proto
  <2>4. Held(lines, lines)
    BY HeldSame
  <2> HIDE DEF final
  <2> QED BY <2>1, <2>2, <2>3, <2>4, Zenon DEF Keeps
<1> QED BY <1>1, <1>2

LEMMA FinishHeld ==
  ASSUME NEW lines \in Seq(Line), NEW core, Keeps(lines, core)
  PROVE  Keeps(lines, Finish(core))
<1> DEFINE stripped == StripEnvelopes(core.text)
<1>1. Held(lines, core.text)
  BY KeepsText
<1>2. core.text \in Seq(Line) /\ Snug(core.text)
  BY <1>1 DEF Held
<1>3. stripped \in Seq(Line) /\ Seen(Unread, stripped) = Seen(Unread, core.text)
  BY <1>2, StripRead
<1>4. Finish(core) = core \/ \E v, w : Finish(core) = Result(stripped, v, w)
  BY Zenon DEF Finish
<1> HIDE DEF stripped
<1>5. Held(core.text, stripped)
  BY <1>2, <1>3, HeldRead
<1>6. Held(lines, stripped)
  BY <1>1, <1>5, HeldTwice
<1>7. \A v, w : Keeps(lines, Result(stripped, v, w))
  BY <1>6, Zenon DEF Keeps
<1> QED BY <1>4, <1>7, Zenon

LEMMA ReportHeld ==
  ASSUME NEW lines, NEW old, NEW glued, NEW done, Keeps(lines, done)
  PROVE  Keeps(lines, ReportSplit(old, glued, done))
<1>1. PICK t, v, w : done = Result(t, v, w) /\ Held(lines, t)
  BY DEF Keeps
<1>2. \A x : [done EXCEPT !.steps = x] = Result(t, v, x)
  BY <1>1 DEF Result
<1>3. ReportSplit(old, glued, done) = done
      \/ \E x : ReportSplit(old, glued, done) = [done EXCEPT !.steps = x]
  BY Zenon DEF ReportSplit
<1>4. \A x : Keeps(lines, Result(t, v, x))
  BY <1>1, Zenon DEF Keeps
<1>5. CASE ReportSplit(old, glued, done) = done
  BY <1>5
<1>6. CASE \E x : ReportSplit(old, glued, done) = [done EXCEPT !.steps = x]
  <2>1. PICK x : ReportSplit(old, glued, done) = [done EXCEPT !.steps = x]
    BY <1>6
  <2>2. ReportSplit(old, glued, done) = Result(t, v, x)
    BY <1>2, <2>1
  <2> QED BY <1>4, <2>2
<1> QED BY <1>3, <1>5, <1>6

LEMMA PassHeld ==
  ASSUME NEW lines \in Seq(Line), Snug(lines)
  PROVE  Keeps(lines, OnePass(lines))
<1> DEFINE done == Finish(RepairCore(lines))
<1>1. FixGlueOpeners(lines) = lines
  BY SnugUnsplit
<1>2. OnePass(lines) = ReportSplit(lines, lines, done)
  BY <1>1 DEF OnePass
<1>3. Keeps(lines, done)
  BY CoreHeld, FinishHeld
<1> HIDE DEF done
<1> QED BY <1>2, <1>3, ReportHeld

LEMMA PassesHeld ==
  ASSUME NEW lines \in Seq(Line), Snug(lines)
  PROVE  Held(lines, Passes(lines).text)
<1> DEFINE turns == [pass \in 1 .. MaxPasses |-> pass]
<1>1. Len(turns) = MaxPasses /\ MaxPasses \in Nat
  BY DEF MaxPasses
<1>2. Passes(lines) = (CHOOSE f : IsChain(f, lines, Len(turns)))[Len(turns)]
  BY DEF Passes, Along, IsChain, FirstPass
<1> HIDE DEF turns
<1>3. \E f : IsChain(f, lines, Len(turns))
  BY <1>1, ChainExists
<1>4. PICK f : IsChain(f, lines, MaxPasses) /\ Passes(lines) = f[MaxPasses]
  BY <1>1, <1>2, <1>3
<1>5. \A i \in 0..MaxPasses : f[i] = IF i = 0 THEN FirstPass(lines) ELSE OnceMore(f[i - 1])
  BY <1>4 DEF IsChain
<1> DEFINE S == {i \in Nat : i <= MaxPasses => Held(lines, f[i].text)}
<1>6. 0 \in S
  <2>1. f[0] = FirstPass(lines)
    BY <1>1, <1>5
  <2>2. f[0].text = lines
    BY <2>1 DEF FirstPass
  <2> QED BY <2>2, HeldSame
<1>7. ASSUME NEW i \in Nat, i \in S PROVE i + 1 \in S
  <2> SUFFICES ASSUME i + 1 <= MaxPasses PROVE Held(lines, f[i + 1].text)
    OBVIOUS
  <2>1. i + 1 \in 0..MaxPasses /\ i + 1 # 0 /\ (i + 1) - 1 = i /\ i <= MaxPasses
    BY <1>1
  <2>2. f[i + 1] = OnceMore(f[i]) /\ Held(lines, f[i].text)
    BY <1>5, <1>7, <2>1
  <2>3. CASE f[i].settled
    BY <2>2, <2>3 DEF OnceMore
  <2>4. CASE ~f[i].settled
    <3> DEFINE now == OnePass(f[i].text)
    <3>1. f[i + 1] = Chained(f[i], now)
      BY <2>2, <2>4 DEF OnceMore
    <3>2. f[i].text \in Seq(Line) /\ Snug(f[i].text)
      BY <2>2 DEF Held
    <3>3. Keeps(f[i].text, now)
      BY <3>2, PassHeld
    <3> HIDE DEF now
    <3>4. Held(f[i].text, now.text)
      BY <3>3, KeepsText
    <3>5. Chained(f[i], now).text = now.text
      BY DEF Chained
    <3>6. Held(lines, now.text)
      BY <2>2, <3>4, HeldTwice
    <3> QED BY <3>1, <3>5, <3>6
  <2> QED BY <2>3, <2>4
<1> HIDE DEF S
<1>8. \A i \in Nat : i \in S
  BY <1>6, <1>7, EveryNumber
<1>9. Held(lines, f[MaxPasses].text)
  <2>1. MaxPasses \in S /\ MaxPasses <= MaxPasses
    BY <1>1, <1>8
  <2> QED BY <2>1 DEF S
<1> QED BY <1>4, <1>9

\* The ladder runs what the reply runs.
LEMMA RepairHeld ==
  ASSUME NEW lines \in Seq(Line), Snug(lines)
  PROVE  Held(lines, RepairResponse(lines).text)
<1> DEFINE last == Passes(lines)
<1>1. Held(lines, last.text) /\ Held(lines, lines)
  BY PassesHeld, HeldSame
<1>2. RepairResponse(lines) = Conclude(lines, last)
  BY DEF RepairResponse
<1> HIDE DEF last
<1>3. \E t \in {lines, last.text} : \E v, w : Conclude(lines, last) = Result(t, v, w)
  BY Zenon DEF Conclude
<1>4. \A t, v, w : Result(t, v, w).text = t
  BY DEF Result
<1> QED BY <1>1, <1>2, <1>3, <1>4

-----------------------------------------------------------------------------
(* The way of a reply                                                      *)

\* Whatever phase a reply is in, its text is faithful to it; and what ran of it
\* asks for no shell that it does not ask for.
ReplyInv ==
  /\ reply \in Seq(Line)
  /\ phase \in {"writing", "doubtful", "decided", "stored"}
  /\ phase # "writing" => Faithful(reply, text)
  /\ phase # "stored" => ran = <<>>
  /\ ShellWasAsked

LEMMA NothingRan == ran = <<>> => ShellWasAsked
BY DEF ShellWasAsked

LEMMA RanAsked ==
  ASSUME NEW lines \in Seq(Line), NEW k \in DOMAIN ExtractCodeBlocks(lines),
         ExtractCodeBlocks(lines)[k].lang = "bash"
  PROVE  Asks(lines)
<1> DEFINE blocks == ExtractCodeBlocks(lines)
<1>1. Placed(lines, blocks)
  BY ScanPlaced, OnlyPlaced DEF ExtractCodeBlocks
<1> HIDE DEF blocks
<1>2. blocks \in Seq(BlocksOf(lines))
  BY <1>1 DEF Placed
<1>3. blocks[k] \in BlocksOf(lines) /\ blocks[k].lang = "bash"
  BY <1>2 DEF blocks
<1> QED BY <1>3, BlockFacts DEF StandsFor

LEMMA ReplyStart ==
  ASSUME ReplyInit
  PROVE  ReplyInv
<1>1. reply \in Seq(Line) /\ phase = "writing" /\ ran = <<>>
  BY DEF ReplyInit
<1> QED BY <1>1, NothingRan DEF ReplyInv

LEMMA ReplyStep ==
  ASSUME ReplyInv, ReplyNext
  PROVE  ReplyInv'
<1> USE DEF ReplyInv
<1>1. ASSUME NEW line \in Alphabet, Write(line) PROVE ReplyInv'
  <2>1. line \in Line
    BY ReplyAssumption
  <2>2. reply' \in Seq(Line) /\ phase' = "writing" /\ ran' = <<>>
    BY <1>1, <2>1, AppendProperties DEF Write
  <2> QED BY <2>2 DEF ShellWasAsked
<1>2. CASE Ladders
  <2>1. /\ reply' = reply /\ text' = RepairResponse(reply).text
        /\ phase' \in {"doubtful", "decided"} /\ ran' = <<>>
    BY <1>2 DEF Ladders, Repaired
  <2>2. Faithful(reply, RepairResponse(reply).text)
    BY RepairFaithful
  <2>3. Faithful(reply', text')
    BY <2>1, <2>2
  <2> QED BY <2>1, <2>3 DEF ShellWasAsked
<1>3. CASE Aborts
  <2> DEFINE marked == reply \o <<Blank, Text("prose")>>
  <2>1. marked \in Seq(Line)
    BY Blanks
  <2>2. reply' = marked /\ text' = RepairResponse(marked).text
        /\ phase' = "stored" /\ ran' = <<>>
    BY <1>3 DEF Aborts, Repaired
  <2> HIDE DEF marked
  <2>3. Faithful(marked, RepairResponse(marked).text)
    BY <2>1, RepairFaithful
  <2> QED BY <2>1, <2>2, <2>3 DEF ShellWasAsked
<1>4. ASSUME phase # "writing", phase # "stored", phase' \in {"doubtful", "decided"},
             UNCHANGED <<reply, text, ran>>
      PROVE  ReplyInv'
  BY <1>4 DEF ShellWasAsked
<1>5. CASE TooLarge \/ TransportFails
  BY <1>4, <1>5 DEF TooLarge, TransportFails, Asking, GivesUp
<1>6. ASSUME Asking, Retry PROVE ReplyInv'
  <2>1. phase = "doubtful" /\ UNCHANGED <<reply, text, ran>>
        /\ phase' \in {"doubtful", "decided"}
    BY <1>6 DEF Asking, Retry
  <2> QED BY <1>4, <2>1
<1>7. CASE Malformed
  BY <1>6, <1>7 DEF Malformed
<1>8. CASE SomeAnswer
  <2>1. PICK label \in [1 .. Len(text) -> Labels] : Answers(Ranges(label))
    BY <1>8 DEF SomeAnswer
  <2> DEFINE came == Answered(Ranges(label), text)
  <2>2. Asking /\ Outcome(came) /\ phase = "doubtful"
    BY <2>1 DEF Answers, Asking
  <2>3. Faithful(reply, text) /\ text \in Seq(Line)
    BY <2>2 DEF Faithful
  <2>4. came.outcome = "applied" => Faithful(text, came.text)
    BY <2>1, <2>3, AnswerFaithful
  <2> HIDE DEF came
  <2>5. CASE came.outcome = "retry" /\ Retry
    BY <1>6, <2>2, <2>5
  <2>6. CASE /\ came.outcome = "prose" /\ phase' = "decided"
             /\ UNCHANGED <<reply, text, verdict, steps, tries, ran>>
    BY <1>4, <2>2, <2>6
  <2>7. CASE /\ came.outcome = "applied" /\ phase' = "decided" /\ text' = came.text
             /\ UNCHANGED <<reply, tries, ran>>
    <3>1. Faithful(reply, came.text)
      BY <2>3, <2>4, <2>7, FaithfulTwice
    <3> QED BY <2>2, <2>7, <3>1 DEF ShellWasAsked
  <2> QED BY <2>2, <2>5, <2>6, <2>7 DEF Outcome
<1>9. CASE Store
  <2>1. /\ UNCHANGED <<reply, text>> /\ phase = "decided" /\ phase' = "stored"
        /\ ran' = ExtractCodeBlocks(text)
    BY <1>9 DEF Store
  <2>2. text \in Seq(Line) /\ (Asks(text) => Asks(reply))
    BY <2>1 DEF Faithful
  <2>3. (\E k \in DOMAIN ran' : ran'[k].lang = "bash") => Asks(reply')
    BY <2>1, <2>2, RanAsked
  <2>4. ShellWasAsked'
    BY <2>3 DEF ShellWasAsked, Asks, AsksShell
  <2> QED BY <2>1, <2>4
<1>10. CASE NextTurn
  <2>1. reply' = <<>> /\ phase' = "writing" /\ ran' = <<>>
    BY <1>10 DEF NextTurn
  <2> QED BY <2>1 DEF ShellWasAsked
<1> QED BY <1>1, <1>2, <1>3, <1>5, <1>7, <1>8, <1>9, <1>10 DEF ReplyNext

LEMMA ReplyStutter ==
  ASSUME ReplyInv, UNCHANGED replyVars
  PROVE  ReplyInv'
BY DEF ReplyInv, replyVars, ShellWasAsked

(* Every reply, however long and over whatever lines, and whatever the      *)
(* segmenter answers, is stored saying what the model wrote, line for line  *)
(* (_render, assemble, gate_drop_legality), and asking for shell only if    *)
(* the model did.                                                           *)
THEOREM ReplyInvariant == ReplySpec => []ReplyInv
<1>1. ReplyInit => ReplyInv
  BY ReplyStart
<1>2. ReplyInv /\ [ReplyNext]_replyVars => ReplyInv'
  BY ReplyStep, ReplyStutter
<1> QED BY <1>1, <1>2, PTL DEF ReplySpec

(* No repair loses, invents or reorders a line of text.                    *)
THEOREM TextIsKept == ReplySpec => []ContentKept
<1>1. ReplyInv => ContentKept
  BY DEF ReplyInv, ContentKept, Faithful
<1> QED BY <1>1, ReplyInvariant, PTL

(* Neither the ladder nor the segmenter turns prose or Python into shell   *)
(* (gate_bash_witness): shell runs only if the reply opened shell.         *)
THEOREM ShellOnlyIfAsked == ReplySpec => []ShellWasAsked
<1>1. ReplyInv => ShellWasAsked
  BY DEF ReplyInv
<1> QED BY <1>1, ReplyInvariant, PTL

-----------------------------------------------------------------------------
(* The blocks of a reply keep running                                      *)

\* Until the segmenter rewrites it, the text is what the ladder made of the reply.
Laddered ==
  phase \in {"doubtful", "decided"} /\ "llm-repair-applied" \notin steps =>
      text = RepairResponse(reply).text

LEMMA LadderedStep ==
  ASSUME Laddered, ReplyNext
  PROVE  Laddered'
<1> USE DEF Laddered
<1>1. ASSUME NEW line \in Alphabet, Write(line) PROVE Laddered'
  BY <1>1 DEF Write
<1>2. CASE Ladders
  BY <1>2 DEF Ladders, Repaired
<1>3. CASE Aborts
  BY <1>3 DEF Aborts
<1>4. ASSUME phase = "doubtful", UNCHANGED <<reply, text>>, steps \subseteq steps'
      PROVE  Laddered'
  BY <1>4
<1>5. CASE TooLarge \/ TransportFails
  BY <1>4, <1>5 DEF TooLarge, TransportFails, Asking, GivesUp
<1>6. ASSUME Asking, Retry PROVE Laddered'
  BY <1>4, <1>6 DEF Asking, Retry
<1>7. CASE Malformed
  BY <1>6, <1>7 DEF Malformed
<1>8. CASE SomeAnswer
  <2>1. PICK label \in [1 .. Len(text) -> Labels] : Answers(Ranges(label))
    BY <1>8 DEF SomeAnswer
  <2> DEFINE came == Answered(Ranges(label), text)
  <2>2. Asking /\ Outcome(came) /\ phase = "doubtful"
    BY <2>1 DEF Answers, Asking
  <2> HIDE DEF came
  <2>3. CASE Retry
    BY <1>6, <2>2, <2>3
  <2>4. CASE UNCHANGED <<reply, text, verdict, steps, tries, ran>>
    BY <1>4, <2>2, <2>4
  <2>5. CASE steps' = {"llm-repair-applied"} \cup (steps \cap Kept)
    BY <2>5
  <2> QED BY <2>2, <2>3, <2>4, <2>5 DEF Outcome
<1>9. CASE Store
  BY <1>9 DEF Store
<1>10. CASE NextTurn
  BY <1>10 DEF NextTurn
<1> QED BY <1>1, <1>2, <1>3, <1>5, <1>7, <1>8, <1>9, <1>10 DEF ReplyNext

LEMMA LadderedAlways == ReplySpec => []Laddered
<1>1. ReplyInit => Laddered
  BY DEF ReplyInit, Laddered
<1>2. Laddered /\ [ReplyNext]_replyVars => Laddered'
  <2>1. Laddered /\ UNCHANGED replyVars => Laddered'
    BY DEF Laddered, replyVars
  <2> QED BY <2>1, LadderedStep
<1> QED BY <1>1, <1>2, PTL DEF ReplySpec

\* What a held text runs, without what came to it.
LEMMA HeldRuns ==
  ASSUME NEW lines \in Seq(Line), NEW now, Held(lines, now)
  PROVE  LET was == Bodies(ExtractCodeBlocks(lines))
             is == Bodies(ExtractCodeBlocks(now))
         IN  \E drop \in SUBSET DOMAIN is : was = RemoveAll(is, drop)
<1> DEFINE was == Bodies(ExtractCodeBlocks(lines))
           is == Bodies(ExtractCodeBlocks(now))
           drop == {k \in DOMAIN is : k > Len(was)}
           which == DOMAIN is \ drop
<1>1. was = Seen(Unread, lines).out /\ was \in Seq(Seq(Line))
  BY ExtractRead, OutType
<1>2. is = Seen(Unread, now).out
  BY ExtractRead DEF Held
<1> HIDE DEF was, is
<1>3. PICK rest \in Seq(Seq(Line)) : is = was \o rest
  BY <1>1, <1>2 DEF Held, Grows
<1>4. /\ Len(was) \in Nat /\ Len(rest) \in Nat
      /\ DOMAIN is = 1..Len(was) + Len(rest)
  BY <1>1, <1>3, ConcatProperties
<1>5. \A k \in 1..Len(was) : k \in which
  BY <1>4
<1>6. \A k \in 1..Len(rest) : Len(was) + k \notin which
  BY <1>4
<1>7. drop \in SUBSET DOMAIN is /\ RemoveAll(is, drop) = Only(is, which)
  BY DEF RemoveAll
<1> HIDE DEF which, drop
<1>8. Only(was \o rest, which) = was
  BY <1>1, <1>5, <1>6, OnlyFirst
<1>9. was = RemoveAll(is, drop)
  BY <1>3, <1>7, <1>8
<1> QED BY <1>7, <1>9 DEF was, is

(* The ladder never stops a complete block from running, in a reply of any *)
(* length and over whatever lines: in repair_response every rewrite reads  *)
(* back (_renders_extractable), no envelope is stripped that changes what  *)
(* runs (strip_envelopes), and what is split stands in no accepted block.  *)
THEOREM BlocksKeepRunning == ReplySpec => []RunsWhatRan
<1>1. ReplyInv /\ Laddered => RunsWhatRan
  <2> SUFFICES ASSUME ReplyInv, Laddered, phase \in {"doubtful", "decided"},
                      "llm-repair-applied" \notin steps,
                      \A i \in DOMAIN reply : Glues(reply[i]) =>
                          \E k \in DOMAIN ExtractCodeBlocks(reply) :
                             LET b == ExtractCodeBlocks(reply)[k] IN i \in b.first .. b.last
               PROVE  LET was == Bodies(ExtractCodeBlocks(reply))
                          is == Bodies(ExtractCodeBlocks(text))
                      IN  \E drop \in SUBSET DOMAIN is : was = RemoveAll(is, drop)
    BY Zenon DEF RunsWhatRan, Glues
  <2>1. reply \in Seq(Line) /\ text = RepairResponse(reply).text
    BY DEF ReplyInv, Laddered
  <2>2. Held(reply, text)
    BY <2>1, RunsSnug, RepairHeld
  <2> QED BY <2>1, <2>2, HeldRuns
<1> QED BY <1>1, ReplyInvariant, LadderedAlways, PTL
=============================================================================
