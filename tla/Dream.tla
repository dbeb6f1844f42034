------------------------------- MODULE Dream -------------------------------
(***************************************************************************)
(* The self-improvement loop (dream.py, dream_steps.py): a launch takes the*)
(* instance lock, checks that the working tree is clean and runs cycles of *)
(* steps.  A step runs an agent in its own session, tests what the agent   *)
(* has done to the tree and commits or reverts it; a task's file moves with*)
(* the outcome.  Launches may be signalled, crash or be killed; the agent  *)
(* of a killed launch lives on.                                            *)
(*                                                                         *)
(* The tree is kept relative to HEAD: index and work are the changes that  *)
(* are staged and that are there.  A change carries the step that made it  *)
(* and whether it is a new file.  Log rotation is modelled in Sessions,    *)
(* and the health check changes nothing.                                   *)
(***************************************************************************)
EXTENDS Integers, Sequences, FiniteSets, FiniteSetsExt

CONSTANTS Launches,      \* a number of processes, one after the other or not
          Tasks,         \* task files, numbered in the order of their names
          Priority,      \* a number for every task, 0 being "high"
          SkipSanity,    \* the tasks that carry skip_sanity
          Cycles,        \* --n
          Retries,       \* TAU_RETRY_COUNT
          RearchRuns,    \* runs of the re-architecture in a cycle: 3
          ConvergedAt,   \* runs in one area that count as convergence: 3
          Window,        \* the cycles looked back over: 5
          Areas,         \* what the files of a commit may amount to
          Singles,       \* the steps that are one run of an agent
          MaxFaults      \* bound on kills and failures of git together

ASSUME DreamAssumption ==
    /\ Launches \in Nat \ {0} /\ Tasks \subseteq Nat \ {0} /\ SkipSanity \subseteq Tasks
    /\ Priority \in [Tasks -> Nat]
    /\ Cycles \in Nat \ {0} /\ Retries \in Nat
    /\ MaxFaults \in Nat
    /\ RearchRuns \in Nat \ {0} /\ ConvergedAt \in Nat \ {0} /\ Window \in Nat
    /\ Singles \in Seq(STRING)

Instances == 1 .. Launches
None == 0

VARIABLES pc, fh, cur, queue, cycle, mem, agent, asked, tested,  \* of a launch
          pidFile, holder,                  \* the lock file's inode; who locks
          index, work, head,                \* the tree; tasks that are in HEAD
          where,                            \* the directory of every task
          fate,                             \* what a launch made of a task
          stateFile,                        \* dream_state.json
          faults                            \* kills and failures of git so far

lockVars == <<fh, pidFile, holder>>
treeVars == <<index, work, head>>
taskVars == <<where, fate>>
loopVars == <<queue, cycle, mem, stateFile>>
vars == <<pc, cur, agent, asked, tested, faults, lockVars, treeVars, taskVars, loopVars>>

NoStep == [kind |-> "none", task |-> None, n |-> 0, attempt |-> 0, ok |-> FALSE,
           clean |-> TRUE]

Init == /\ pc = [i \in Instances |-> "new"]
        /\ fh = [i \in Instances |-> None]
        /\ cur = [i \in Instances |-> NoStep]
        /\ queue = [i \in Instances |-> {}]
        /\ cycle = [i \in Instances |-> 0]
        /\ mem = [i \in Instances |-> [total |-> 0, history |-> <<>>]]
        /\ agent = [i \in Instances |-> {}]
        /\ asked = [i \in Instances |-> FALSE]
        /\ tested = [i \in Instances |-> {}]
        /\ pidFile = None
        /\ holder = [f \in Instances |-> None]
        /\ index = {} /\ work = {} /\ head = {}
        /\ where = [t \in Tasks |-> "todo"]
        /\ fate = [t \in Tasks |-> "none"]
        /\ faults = 0
        /\ stateFile = [total |-> 0, history |-> <<>>]

Fault == faults < MaxFaults /\ faults' = faults + 1

\* git fails, by its exit code or by an exception.
GitFails == Fault

Go(i, to) == pc' = [pc EXCEPT ![i] = to]

\* The end of a process; what it had in memory is gone.
Ends(i, how) ==
    /\ Go(i, how)
    /\ holder' = [f \in Instances |-> IF holder[f] = i THEN None ELSE holder[f]]
    /\ fh' = [fh EXCEPT ![i] = None]
    /\ cur' = [cur EXCEPT ![i] = NoStep]
    /\ queue' = [queue EXCEPT ![i] = {}]
    /\ cycle' = [cycle EXCEPT ![i] = 0]
    /\ mem' = [mem EXCEPT ![i] = [total |-> 0, history |-> <<>>]]
    /\ asked' = [asked EXCEPT ![i] = FALSE]
    /\ tested' = [tested EXCEPT ![i] = {}]
    /\ UNCHANGED <<agent, treeVars, where, stateFile>>

Ended == {"new", "exited", "killed"}
Alive(i) == pc[i] \notin Ended
-----------------------------------------------------------------------------
(***************************************************************************)
(* The lock.                                                               *)
(***************************************************************************)
\* open(PID_FILE, "a+"): the file that is there, or a new one.  Launches are
\* numbered in the order of this step.
OpenLock(i) ==
    /\ pc[i] = "new" /\ \A j \in 1 .. i - 1 : pc[j] # "new"
    /\ LET inode == IF pidFile # None THEN pidFile
                    ELSE Min(Instances \ {fh[j] : j \in Instances})
       IN  /\ fh' = [fh EXCEPT ![i] = inode]
           /\ pidFile' = inode
    /\ Go(i, "opened")
    /\ UNCHANGED <<cur, agent, asked, tested, faults, holder, treeVars, taskVars, loopVars>>

\* flock(LOCK_EX | LOCK_NB): at once or not at all.
TakeLock(i) ==
    /\ pc[i] = "opened"
    /\ IF holder[fh[i]] = None
       THEN /\ holder' = [holder EXCEPT ![fh[i]] = i]
            /\ Go(i, "preflight")
            /\ UNCHANGED <<cur, agent, asked, tested, faults, fh, treeVars, where, loopVars>>
       ELSE Ends(i, "exited") /\ UNCHANGED faults
    /\ UNCHANGED <<pidFile, fate>>

\* release_lock: the lock first ...
Unlock(i) ==
    /\ pc[i] = "unlock"
    /\ holder' = [holder EXCEPT ![fh[i]] = None]
    /\ Go(i, "unlink")
    /\ UNCHANGED <<cur, agent, asked, tested, faults, fh, pidFile, treeVars, taskVars, loopVars>>

\* ... and then the name, whatever file it leads to by now.
Unlink(i) ==
    /\ pc[i] = "unlink"
    /\ pidFile' = None
    /\ Ends(i, "exited")
    /\ UNCHANGED <<fate, faults>>
-----------------------------------------------------------------------------
(***************************************************************************)
(* Start, cycles, and what ends them.                                      *)
(***************************************************************************)
\* git status: its output is read and its exit code is not; an exception counts
\* as a dirty tree.
Preflight(i) ==
    /\ pc[i] = "preflight"
    /\ \/ /\ (work = {} /\ UNCHANGED faults) \/ GitFails
          /\ mem' = [mem EXCEPT ![i] = stateFile]
          /\ Go(i, "top")
       \/ /\ (work # {} /\ UNCHANGED faults) \/ GitFails
          /\ Go(i, "unlock")
          /\ UNCHANGED mem
    /\ UNCHANGED <<cur, agent, asked, tested, lockVars, treeVars, taskVars,
                   queue, cycle, stateFile>>

\* get_todo_files, and the order it sorts them in.
TodoFiles == {t \in Tasks : where[t] = "todo"}

Before(s, t) == Priority[s] < Priority[t] \/ (Priority[s] = Priority[t] /\ s < t)

\* The stop file is there or it is not.
Top(i) ==
    /\ pc[i] = "top"
    /\ \/ Go(i, "unlock") /\ UNCHANGED <<cycle, queue>>
       \/ /\ cycle' = [cycle EXCEPT ![i] = @ + 1]
          /\ queue' = [queue EXCEPT ![i] = TodoFiles]
          /\ Go(i, "tasks")
    /\ UNCHANGED <<cur, agent, asked, tested, faults, lockVars, treeVars, taskVars,
                   mem, stateFile>>

\* record_cycle and save, then the limits of the loop.
CycleEnd(i) ==
    /\ pc[i] = "cycleEnd"
    /\ mem' = [mem EXCEPT ![i].total = cycle[i]]
    /\ stateFile' = mem'[i]
    /\ cur' = [cur EXCEPT ![i] = NoStep]
    /\ Go(i, IF cycle[i] >= Cycles \/ asked[i] THEN "unlock" ELSE "top")
    /\ UNCHANGED <<agent, asked, tested, faults, lockVars, treeVars, taskVars, queue, cycle>>

\* SIGINT, SIGHUP, SIGTERM and SIGQUIT set flags that one check reads.
Signal(i) ==
    /\ Alive(i) /\ ~asked[i]
    /\ asked' = [asked EXCEPT ![i] = TRUE]
    /\ UNCHANGED <<pc, cur, agent, tested, faults, lockVars, treeVars, taskVars, loopVars>>

\* What a launch leaves behind when it dies within a step of a task.
Leaves(i) == fate' = IF cur[i].task # None /\ fate[cur[i].task] \in {"none", "unreverted"}
                     THEN [fate EXCEPT ![cur[i].task] = "left"] ELSE fate

\* SIGKILL: the system frees the lock, the agent's session is its own.
Kill(i) ==
    /\ Alive(i) /\ Fault
    /\ Leaves(i)
    /\ Ends(i, "killed")
    /\ UNCHANGED pidFile

\* An exception that nothing handles below main; run_tau kills its agent.
Raises(i) ==
    /\ IF pc[i] = "tau" THEN UNCHANGED faults
       ELSE pc[i] \in {"add", "commit", "checkout", "clean"} /\ GitFails
    /\ agent' = [agent EXCEPT ![i] = {}]
    /\ Leaves(i)
    /\ Go(i, "unlock")
    /\ UNCHANGED <<cur, asked, tested, lockVars, treeVars, where, loopVars>>
-----------------------------------------------------------------------------
(***************************************************************************)
(* The steps of a cycle.                                                   *)
(***************************************************************************)
Begin(i, kind, task, n) ==
    /\ cur' = [cur EXCEPT ![i] = [kind |-> kind, task |-> task, n |-> n,
                                  attempt |-> 0, ok |-> FALSE,
                                  clean |-> /\ work = {}
                                            /\ \A j \in Instances : agent[j] = {}]]
    /\ agent' = [agent EXCEPT ![i] = {<<i, cycle[i], kind, task, n>>}]
    /\ Go(i, "tau")
    /\ UNCHANGED tested

Turn(i, to, n) == /\ cur' = [cur EXCEPT ![i] = [NoStep EXCEPT !.n = n]]
                  /\ tested' = [tested EXCEPT ![i] = {}]
                  /\ Go(i, to)
                  /\ UNCHANGED agent

\* step_process_tasks; the return of run_cycle after it.
NextTask(i) ==
    /\ pc[i] = "tasks"
    /\ \/ /\ asked[i] \/ queue[i] = {}
          /\ Turn(i, IF asked[i] THEN "cycleEnd" ELSE "rearch", 0)
          /\ UNCHANGED <<queue, where>>
       \/ /\ ~asked[i]
          /\ \E t \in queue[i] :
                /\ \A s \in queue[i] : ~Before(s, t)
                /\ queue' = [queue EXCEPT ![i] = @ \ {t}]
                /\ IF where[t] = "todo"
                   THEN /\ where' = [where EXCEPT ![t] = "inprogress"]
                        /\ Begin(i, "task", t, 0)
                   ELSE UNCHANGED <<pc, cur, agent, tested, where>>
    /\ UNCHANGED <<asked, faults, lockVars, treeVars, fate, cycle, mem, stateFile>>

\* should_skip_rearch.
Converged(memory) ==
    \E area \in Areas :
        Len(SelectSeq(memory.history,
                      LAMBDA h : h.area = area /\ h.cycle >= memory.total - Window))
        >= ConvergedAt

\* step_rearch, whose first run is put off when the last ones converged.
Rearch(i) ==
    /\ pc[i] = "rearch"
    /\ IF asked[i] THEN Turn(i, "cycleEnd", 0)
       ELSE IF cur[i].n = RearchRuns \/ (cur[i].n = 0 /\ Converged(mem[i]))
       THEN Turn(i, "single", 1)
       ELSE Begin(i, "rearch", None, cur[i].n + 1)
    /\ UNCHANGED <<asked, faults, lockVars, treeVars, taskVars, loopVars>>

\* step_single; the budget can only cut the steps of low priority.
Single(i) ==
    /\ pc[i] = "single"
    /\ IF asked[i] \/ cur[i].n > Len(Singles) THEN Turn(i, "cycleEnd", 0)
       ELSE \/ Begin(i, Singles[cur[i].n], None, cur[i].n)
            \/ /\ Singles[cur[i].n] # "test_sanity"
               /\ Turn(i, "single", cur[i].n + 1)
    /\ UNCHANGED <<asked, faults, lockVars, treeVars, taskVars, loopVars>>

\* After a step: back to where the next one is chosen.
NextStep(i) == CASE cur[i].kind = "task" -> Turn(i, "tasks", 0)
                 [] cur[i].kind = "rearch" -> Turn(i, "rearch", cur[i].n)
                 [] OTHER -> Turn(i, "single", cur[i].n + 1)
-----------------------------------------------------------------------------
(***************************************************************************)
(* The agent, which may be an orphan, and the launch that waits for it.    *)
(***************************************************************************)
Edit(i) ==
    /\ \E by \in agent[i], new \in BOOLEAN :
          /\ \A c \in work : c.by # by         \* a bound: one change a step
          /\ work' = work \cup {[by |-> by, new |-> new]}
    /\ UNCHANGED <<pc, cur, agent, asked, tested, faults, lockVars, index, head,
                   taskVars, loopVars>>

\* The agent of a task may move its file ("tau handled it"), and anyone a file
\* that is still to do ("already handled").
MovesTask ==
    /\ \E t \in Tasks, to \in {"done", "failed"} :
          /\ \/ where[t] = "todo"
             \/ /\ where[t] = "inprogress"
                /\ \E i \in Instances : \E by \in agent[i] : by[4] = t
          /\ where' = [where EXCEPT ![t] = to]
    /\ UNCHANGED <<pc, cur, agent, asked, tested, faults, lockVars, treeVars, fate, loopVars>>

Exits(i) ==
    /\ agent[i] # {}
    /\ agent' = [agent EXCEPT ![i] = {}]
    /\ IF pc[i] # "tau" THEN UNCHANGED <<pc, cur>>
       ELSE \E ok \in BOOLEAN :
              /\ Go(i, IF ok \/ cur[i].attempt = Retries THEN "pytest" ELSE "retry")
              /\ cur' = [cur EXCEPT ![i].ok = ok]
    /\ UNCHANGED <<asked, tested, faults, lockVars, treeVars, taskVars, loopVars>>

\* No retry asks for a shutdown first: the new agent's first poll does.
Retry(i) ==
    /\ pc[i] = "retry"
    /\ agent' = [agent EXCEPT
                   ![i] = {<<i, cycle[i], cur[i].kind, cur[i].task, cur[i].n>>}]
    /\ cur' = [cur EXCEPT ![i].attempt = @ + 1]
    /\ Go(i, "tau")
    /\ UNCHANGED <<asked, tested, faults, lockVars, treeVars, taskVars, loopVars>>

\* A bug for the checks: the agent is given up and not terminated.
LetsItRun(i) ==
    /\ pc[i] = "tau"
    /\ cur' = [cur EXCEPT ![i].ok = FALSE]
    /\ Go(i, "checkout")
    /\ UNCHANGED <<agent, asked, tested, faults, lockVars, treeVars, taskVars, loopVars>>

\* A poll that finds a shutdown asked for or the deadline passed: the agent is
\* terminated with its group, and nothing is tested.
Terminate(i) ==
    /\ pc[i] = "tau"
    /\ agent' = [agent EXCEPT ![i] = {}]
    /\ cur' = [cur EXCEPT ![i].ok = FALSE]
    /\ Go(i, "checkout")
    /\ UNCHANGED <<asked, tested, faults, lockVars, treeVars, taskVars, loopVars>>
-----------------------------------------------------------------------------
(***************************************************************************)
(* Tests, commit and revert.                                               *)
(***************************************************************************)
\* has_modified_files; git's exit code is not read here either.
Modified == \E c \in work : ~c.new

Tests(i, ok) ==
    /\ cur' = [cur EXCEPT ![i].ok = @ /\ ok]
    /\ UNCHANGED <<agent, asked, lockVars, treeVars, taskVars, loopVars>>

Settle(i, ok) == Go(i, IF cur[i].ok /\ ok THEN "add" ELSE "checkout")

Pytest(i) ==
    /\ pc[i] = "pytest"
    /\ tested' = [tested EXCEPT ![i] = work]
    /\ \E ok \in BOOLEAN :
          /\ Tests(i, ok)
          /\ \/ /\ cur[i].task \in SkipSanity \/ ~Modified
                /\ Settle(i, ok) /\ UNCHANGED faults
             \/ GitFails /\ Settle(i, ok)
             \/ /\ cur[i].task \notin SkipSanity /\ Modified
                /\ Go(i, "sanity") /\ UNCHANGED faults

Sanity(i) ==
    /\ pc[i] = "sanity"
    /\ UNCHANGED <<tested, faults>>
    /\ \E ok \in BOOLEAN : Tests(i, ok) /\ Settle(i, ok)

\* A failed commit ends the step without a revert: the task stays where it is.
CommitFails(i) == NextStep(i) /\ Leaves(i)

Add(i) ==
    /\ pc[i] = "add"
    /\ \/ /\ index' = work
          /\ Go(i, "commit")
          /\ UNCHANGED <<cur, agent, tested, fate, faults>>
       \/ GitFails /\ CommitFails(i) /\ UNCHANGED index
    /\ UNCHANGED <<asked, lockVars, work, head, where, loopVars>>

\* git refuses a commit of nothing, and may refuse any other.
Commit(i) ==
    /\ pc[i] = "commit"
    /\ \/ /\ index # {}
          /\ work' = work \ index /\ index' = {}
          /\ head' = head \cup {c.by[4] : c \in index}
          /\ Go(i, "onDone")
          /\ UNCHANGED <<cur, agent, tested, fate, faults>>
       \/ /\ (index = {} /\ UNCHANGED faults) \/ GitFails
          /\ CommitFails(i) /\ UNCHANGED treeVars
    /\ UNCHANGED <<asked, lockVars, where, loopVars>>

\* on_done and on_fail move the task unless somebody has.
Moves(i, to) ==
    LET t == cur[i].task
    IN  IF t = None THEN UNCHANGED taskVars
        ELSE IF where[t] # "inprogress"
        THEN fate' = [fate EXCEPT ![t] = "moved"] /\ UNCHANGED where
        ELSE /\ where' = [where EXCEPT ![t] = to]
             /\ fate' = [fate EXCEPT ![t] = IF @ = "unreverted" THEN @
                                            ELSE IF cur[i].clean THEN to ELSE "unclear"]

\* record_rearch_area, when the commit's files have a common stem.
Records(i) ==
    \/ UNCHANGED mem
    \/ /\ cur[i].kind = "rearch"
       /\ \E area \in Areas :
             mem' = [mem EXCEPT ![i].history =
                       Append(@, [area |-> area, cycle |-> cycle[i]])]

OnDone(i) ==
    /\ pc[i] = "onDone"
    /\ Moves(i, "done") /\ Records(i) /\ NextStep(i)
    /\ UNCHANGED <<asked, faults, lockVars, treeVars, queue, cycle, stateFile>>

\* git checkout -- . takes tracked files back to the index, not to HEAD.
Checkout(i) ==
    /\ pc[i] = "checkout"
    /\ \/ /\ work' = index \cup {c \in work : c.new}
          /\ Go(i, "clean") /\ UNCHANGED <<fate, faults>>
       \/ /\ GitFails /\ Go(i, "onFail") /\ UNCHANGED work
          /\ fate' = IF cur[i].task = None THEN fate
                     ELSE [fate EXCEPT ![cur[i].task] = "unreverted"]
    /\ UNCHANGED <<cur, agent, asked, tested, lockVars, index, head, where, loopVars>>

\* git clean -fd . takes the untracked files away.
Clean(i) ==
    /\ pc[i] = "clean"
    /\ \/ work' = index /\ UNCHANGED <<fate, faults>>
       \/ /\ GitFails /\ UNCHANGED work
          /\ fate' = IF cur[i].task = None THEN fate
                     ELSE [fate EXCEPT ![cur[i].task] = "unreverted"]
    /\ Go(i, "onFail")
    /\ UNCHANGED <<cur, agent, asked, tested, lockVars, index, head, where, loopVars>>

\* A bug for the checks: a failed task is left where it is.
ForgetsTask(i) ==
    /\ pc[i] = "onFail"
    /\ NextStep(i)
    /\ UNCHANGED <<asked, faults, lockVars, treeVars, taskVars, loopVars>>

OnFail(i) ==
    /\ pc[i] = "onFail"
    /\ Moves(i, "failed") /\ NextStep(i)
    /\ UNCHANGED <<asked, faults, lockVars, treeVars, loopVars>>
-----------------------------------------------------------------------------
Loop(i) == \/ OpenLock(i) \/ TakeLock(i) \/ Preflight(i) \/ Top(i) \/ CycleEnd(i)
           \/ NextTask(i) \/ Rearch(i) \/ Single(i) \/ Retry(i) \/ Terminate(i)
           \/ Pytest(i) \/ Sanity(i) \/ Add(i) \/ Commit(i) \/ OnDone(i)
           \/ Checkout(i) \/ Clean(i) \/ OnFail(i) \/ Unlock(i) \/ Unlink(i)

Agent(i) == Edit(i) \/ Exits(i)

Next == \/ \E i \in Instances : Loop(i) \/ Agent(i) \/ Signal(i) \/ Kill(i) \/ Raises(i)
        \/ MovesTask

Spec == Init /\ [][Next]_vars

-----------------------------------------------------------------------------
Holding == {i \in Instances : pc[i] \notin Ended \cup {"opened", "unlink"}}

(* What acquire_lock says of itself: a single instance is past the lock.   *)
(* Of two launches that is so; of three it is not, because release_lock    *)
(* unlocks the file before it removes the name (dream.py).                 *)
Exclusive == Cardinality(Holding) <= 1

(* What is committed is what the tests of the same step have passed on:    *)
(* nobody changes the tree between the tests and the commit, except the    *)
(* agent of a launch that was killed (dream_steps.py, run_tau,             *)
(* _run_tau_and_test, _commit_or_revert).                                  *)
CommitsTested ==
    [][\A i \in Instances : pc[i] = "add" /\ pc'[i] = "commit" =>
          /\ cur[i].ok /\ tested[i] \subseteq index'
          /\ \A c \in index' \ tested[i] : pc[c.by[1]] = "killed"]_vars

(* A task's directory tells what became of its work.  It is in progress    *)
(* only while a launch works on it or when a launch died over it or could  *)
(* not commit it.  If its step began on a clean tree, and no agent lived   *)
(* on from a killed launch, then a task a launch has put to done is in     *)
(* HEAD, and one it has put to failed is neither in HEAD nor in the tree,  *)
(* unless the revert failed.  And a step begins on a clean tree as long as *)
(* no launch was killed and git has not failed (dream_steps.py,            *)
(* step_process_tasks, _commit_or_revert).                                 *)
TasksSettled ==
    /\ \A t \in Tasks :
          /\ where[t] = "inprogress" =>
                \/ fate[t] = "left"
                \/ \E i \in Instances : cur[i].task = t /\ Alive(i)
          /\ fate[t] = "done" => t \in head
          /\ fate[t] = "failed" => t \notin head /\ \A c \in work : c.by[4] # t
    /\ \A i \in Instances : cur[i].clean \/ faults > 0

=============================================================================
