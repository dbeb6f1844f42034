---------------------------- MODULE DreamProofs ----------------------------
(***************************************************************************)
(* What TLAPS proves about the self-improvement loop (Dream): its types,   *)
(* which step alone keeps launches from excluding each other, and that     *)
(* launches which do exclude each other commit only what they have tested  *)
(* and put every task where it belongs.                                    *)
(***************************************************************************)
EXTENDS Dream, FiniteSetTheorems, WellFoundedInduction, TLAPS

Places == {"new", "opened", "preflight", "top", "tasks", "rearch", "single", "cycleEnd",
           "tau", "retry", "pytest", "sanity", "add", "commit", "onDone", "checkout",
           "clean", "onFail", "unlock", "unlink", "exited", "killed"}

Kinds == {"none", "task", "rearch"} \cup {Singles[k] : k \in 1 .. Len(Singles)}
Activity == [kind : Kinds, task : Tasks \cup {None}, n : Nat, attempt : Nat,
             ok : BOOLEAN, clean : BOOLEAN]
Runs == Instances \X Nat \X Kinds \X (Tasks \cup {None}) \X Nat
Changes == [by : Runs, new : BOOLEAN]
Memory == [total : Nat, history : Seq([area : Areas, cycle : Nat])]

LockOK ==
  /\ fh \in [Instances -> Instances \cup {None}]
  /\ pidFile \in Instances \cup {None}
  /\ holder \in [Instances -> Instances \cup {None}]
  /\ \A i \in Instances : fh[i] = None <=> pc[i] \in Ended

LaunchOK ==
  /\ pc \in [Instances -> Places]
  /\ cur \in [Instances -> Activity]
  /\ \A i \in Instances : pc[i] = "single" => cur[i].n >= 1
  /\ agent \in [Instances -> SUBSET Runs]
  /\ asked \in [Instances -> BOOLEAN]
  /\ tested \in [Instances -> SUBSET Changes]

LoopOK ==
  /\ queue \in [Instances -> SUBSET Tasks]
  /\ cycle \in [Instances -> Nat]
  /\ mem \in [Instances -> Memory]
  /\ stateFile \in Memory

DiskOK ==
  /\ index \subseteq work /\ work \in SUBSET Changes
  /\ head \in SUBSET (Tasks \cup {None})
  /\ where \in [Tasks -> {"todo", "inprogress", "done", "failed"}]
  /\ fate \in [Tasks -> {"none", "left", "unreverted", "moved", "done", "failed", "unclear"}]
  /\ faults \in Nat

TypeOK == LockOK /\ LaunchOK /\ LoopOK /\ DiskOK

-----------------------------------------------------------------------------
(* Types                                                                   *)

LEMMA Constants ==
  /\ Launches \in Nat \ {0} /\ None = 0 /\ None \notin Instances
  /\ Instances \subseteq Nat /\ Tasks \subseteq Nat /\ None \notin Tasks
  /\ Singles \in Seq(STRING)
BY DreamAssumption DEF Instances, None

LEMMA LeastMember ==
  ASSUME NEW S \in SUBSET Nat, S # {}
  PROVE  Min(S) \in S
<1> DEFINE Lt == {p \in Nat \X Nat : p[1] < p[2]}
<1>1. IsWellFoundedOn(Lt, Nat)
  BY NatLessThanWellFounded DEF OpToRel
<1>2. \A x, y \in Nat : <<y, x>> \in Lt <=> y < x
  OBVIOUS
<1> HIDE DEF Lt
<1>3. PICK x \in S : \A y \in S : ~ (<<y, x>> \in Lt)
  BY <1>1, WFMin
<1>4. x \in Nat /\ \A y \in S : y \in Nat /\ ~(y < x)
  BY <1>2, <1>3
<1>5. \A y \in S : x <= y
  BY <1>4
<1> QED BY <1>3, <1>5 DEF Min

\* There are more inodes than open files, so a launch that creates the lock
\* file finds one.
LEMMA FreeInode ==
  ASSUME TypeOK, NEW i \in Instances, fh[i] = None
  PROVE  Min(Instances \ {fh[j] : j \in Instances}) \in Instances
<1> DEFINE Others == Instances \ {i}
           Open   == {fh[j] : j \in Others}
           Map    == [j \in Others |-> fh[j]]
<1>1. IsFiniteSet(Instances) /\ Cardinality(Instances) = Launches
  <2>1. 1 \in Int /\ Launches \in Int /\ ~(1 > Launches) /\ Launches - 1 + 1 = Launches
    BY Constants
  <2> QED BY <2>1, FS_Interval DEF Instances
<1>2. IsFiniteSet(Others) /\ Cardinality(Others) = Launches - 1
  BY <1>1, FS_RemoveElement
<1>3. Map \in Surjection(Others, Open)
  BY DEF Surjection
<1>4. IsFiniteSet(Open) /\ Cardinality(Open) <= Cardinality(Others)
  <2> HIDE DEF Others, Open, Map
  <2> QED BY <1>2, <1>3, FS_Surjection
<1>5. ~(Instances \subseteq Open)
  <2>1. ASSUME Instances \subseteq Open PROVE Cardinality(Instances) <= Cardinality(Open)
    <3> HIDE DEF Open
    <3> QED BY <1>4, <2>1, FS_Subset
  <2>2. Cardinality(Open) \in Nat
    <3> HIDE DEF Open
    <3> QED BY <1>4, FS_CardinalityType
  <2> QED BY <1>1, <1>2, <1>4, <2>1, <2>2, Constants
<1>6. Instances \ {fh[j] : j \in Instances} # {}
  BY <1>5, Constants
<1>7. Instances \ {fh[j] : j \in Instances} \in SUBSET Nat
  BY Constants
<1> QED BY <1>6, <1>7, LeastMember

LEMMA EmptyMemory == [total |-> 0, history |-> <<>>] \in Memory
<1>1. <<>> \in Seq([area : Areas, cycle : Nat])
  OBVIOUS
<1> QED BY <1>1 DEF Memory

LEMMA EmptyStep == NoStep \in Activity /\ NoStep.task = None /\ NoStep.n = 0 /\ NoStep.clean
<1>1. "none" \in Kinds
  BY DEF Kinds
<1> QED BY <1>1 DEF NoStep, Activity

-----------------------------------------------------------------------------
(* What a step does, action by action                                      *)

Steps   == {"tau", "retry", "pytest", "sanity", "add", "commit", "onDone", "checkout",
            "clean", "onFail"}
Between == {"top", "tasks", "rearch", "single", "cycleEnd"}
Leaving == {"unlock", "unlink"}

\* Launch i steps, and the others stay where they are.
Alone(i) ==
  /\ LaunchOK'
  /\ \A j \in Instances \ {i} :
        pc'[j] = pc[j] /\ cur'[j] = cur[j] /\ agent'[j] = agent[j] /\ tested'[j] = tested[j]

\* Outside the steps of a cycle.
Waits(i) ==
  /\ UNCHANGED <<treeVars, taskVars>> /\ faults' >= faults
  /\ {pc[i], pc'[i]} \cap (Steps \cup {"killed"}) = {}
  /\ agent'[i] = agent[i]
  /\ cur'[i].task # None =>
        cur'[i].task = cur[i].task /\ (pc[i] \in Leaving => pc'[i] \in Leaving)
  /\ cur[i].clean => cur'[i].clean
  /\ pc'[i] \in Between /\ faults' = 0 => pc[i] \in Between \/ work = {}

\* A step begins, of task t or of none.
Starts(i, t) ==
  /\ UNCHANGED <<treeVars, fate, faults>>
  /\ pc[i] \in Between /\ pc'[i] = "tau"
  /\ cur'[i].task = t
  /\ cur'[i].clean <=> (work = {} /\ \A j \in Instances : agent[j] = {})
  /\ \A a \in agent'[i] : a[1] = i /\ a[4] = t
  /\ \/ t = None /\ where' = where
     \/ t \in Tasks /\ where[t] = "todo" /\ where' = [where EXCEPT ![t] = "inprogress"]

\* From the agent's start to the verdict.
GoesOn(i) ==
  /\ UNCHANGED <<treeVars, taskVars>> /\ faults' >= faults
  /\ pc[i] \in {"tau", "retry", "pytest", "sanity"}
  /\ pc'[i] \in {"tau", "retry", "pytest", "sanity", "add", "checkout"}
  /\ cur'[i].task = cur[i].task /\ cur'[i].clean = cur[i].clean
  /\ pc'[i] = "tau" => \A a \in agent'[i] : a[1] = i /\ a[4] = cur[i].task
  /\ pc'[i] # "tau" => agent'[i] = IF pc[i] = "tau" THEN {} ELSE agent[i]
  /\ pc'[i] \in {"sanity", "add"} =>
        tested'[i] = work \/ (pc[i] = "sanity" /\ tested'[i] = tested[i])
  /\ pc'[i] = "add" => cur'[i].ok

\* A step that says nothing to anybody: a signal, or the end of an orphan.
Silent(i) ==
  /\ UNCHANGED <<treeVars, taskVars, faults>>
  /\ pc'[i] = pc[i] /\ cur'[i] = cur[i] /\ tested'[i] = tested[i]
  /\ agent'[i] = agent[i] \/ agent'[i] = {}

\* Back to where the next step is chosen.
Returns(i) ==
  pc'[i] \in Between /\ cur'[i].task = None /\ cur'[i].clean /\ agent'[i] = agent[i]

\* The step goes on with its task.
Keeps(i) ==
  cur'[i].task = cur[i].task /\ cur'[i].clean = cur[i].clean /\ agent'[i] = agent[i]

\* A commit fails, the launch is killed, or an exception ends it: the task stays.
GivesUp(i) ==
  /\ UNCHANGED <<treeVars, where>> /\ Leaves(i) /\ faults' >= faults
  /\ \/ /\ pc[i] \in {"add", "commit"} /\ Returns(i)
        /\ faults' = 0 => pc[i] = "commit" /\ index = {}
     \/ /\ pc[i] \notin Ended /\ pc'[i] = "killed" /\ faults' > 0
        /\ cur'[i].task = None /\ cur'[i].clean /\ agent'[i] = agent[i]
     \/ /\ pc[i] \in Steps /\ pc'[i] = "unlock" /\ agent'[i] = {}
        /\ cur'[i].task = cur[i].task /\ cur'[i].clean = cur[i].clean

Stages(i) ==
  /\ UNCHANGED <<work, head, taskVars, faults>> /\ index' = work
  /\ pc[i] = "add" /\ pc'[i] = "commit" /\ Keeps(i)

Commits(i) ==
  /\ UNCHANGED <<taskVars, faults>>
  /\ index # {} /\ work' = work \ index /\ index' = {}
  /\ head' = head \cup {c.by[4] : c \in index}
  /\ pc[i] = "commit" /\ pc'[i] = "onDone" /\ Keeps(i)

Reverts(i) ==
  /\ UNCHANGED <<index, head, where>> /\ faults' >= faults /\ Keeps(i)
  /\ \/ /\ pc[i] = "checkout" /\ pc'[i] = "clean"
        /\ work' = index \cup {c \in work : c.new} /\ fate' = fate
     \/ pc[i] = "clean" /\ pc'[i] = "onFail" /\ work' = index /\ fate' = fate
     \/ /\ pc[i] \in {"checkout", "clean"} /\ pc'[i] = "onFail" /\ work' = work /\ faults' > 0
        /\ fate' = IF cur[i].task = None THEN fate
                   ELSE [fate EXCEPT ![cur[i].task] = "unreverted"]

\* The outcome is known, and the task is moved to where it says.
Settles(i) ==
  /\ UNCHANGED <<treeVars, faults>> /\ Returns(i)
  /\ \/ pc[i] = "onDone" /\ Moves(i, "done")
     \/ pc[i] = "onFail" /\ Moves(i, "failed")

\* Only the outcome or the attempt of a step changes.
Revised(i) ==
  /\ cur' \in [Instances -> Activity]
  /\ cur'[i].task = cur[i].task /\ cur'[i].clean = cur[i].clean
  /\ \A j \in Instances \ {i} : cur'[j] = cur[j]

LEMMA Revisions ==
  ASSUME TypeOK, NEW i \in Instances, NEW ok \in BOOLEAN
  PROVE  /\ cur' = [cur EXCEPT ![i].ok = ok] => Revised(i)
         /\ cur' = [cur EXCEPT ![i].ok = @ /\ ok] => Revised(i)
         /\ cur' = [cur EXCEPT ![i].attempt = @ + 1] => Revised(i)
<1>1. ASSUME cur' = [cur EXCEPT ![i].ok = ok] PROVE Revised(i)
  BY <1>1 DEF TypeOK, LaunchOK, Activity, Revised
<1>2. ASSUME cur' = [cur EXCEPT ![i].ok = @ /\ ok] PROVE Revised(i)
  BY <1>2 DEF TypeOK, LaunchOK, Activity, Revised
<1>3. ASSUME cur' = [cur EXCEPT ![i].attempt = @ + 1] PROVE Revised(i)
  BY <1>3 DEF TypeOK, LaunchOK, Activity, Revised
<1> QED BY <1>1, <1>2, <1>3


LEMMA TakeLockStep ==
  ASSUME TypeOK, NEW i \in Instances, TakeLock(i)
  PROVE  TypeOK' /\ Alone(i) /\ Waits(i)
<1>1. CASE holder[fh[i]] = None
  <2>1. LockOK'
    BY <1>1, Constants DEF TakeLock, TypeOK, LockOK, LaunchOK, Go, Ended
  <2>3. LoopOK' /\ DiskOK'
    BY <1>1 DEF TakeLock, TypeOK, LoopOK, DiskOK, treeVars, loopVars
  <2>2. Alone(i) /\ Waits(i)
    BY <1>1 DEF TakeLock, TypeOK, LaunchOK, DiskOK, Places, Go, Alone, Waits, Steps, Between,
                Leaving, treeVars, taskVars
  <2> QED BY <2>1, <2>2, <2>3 DEF TypeOK, Alone
<1>2. CASE holder[fh[i]] # None
  <2>0. Ends(i, "exited") /\ UNCHANGED <<pidFile, fate, faults>>
    BY <1>2 DEF TakeLock
  <2>1. LockOK'
    BY <1>2, Constants DEF TakeLock, Ends, TypeOK, LockOK, LaunchOK, Go, Ended
  <2>3. LoopOK' /\ DiskOK'
    <3>1. LoopOK'
      BY <2>0, EmptyMemory DEF Ends, Go, TypeOK, LoopOK, treeVars
    <3>2. DiskOK'
      BY <1>2 DEF TakeLock, Ends, TypeOK, DiskOK, treeVars
    <3> QED BY <3>1, <3>2
  <2>4. Alone(i)
    BY <1>2, EmptyStep DEF TakeLock, Ends, TypeOK, LaunchOK, Places, Go, Alone
  <2>2. Alone(i) /\ Waits(i)
    BY <1>2, <2>4, EmptyStep DEF TakeLock, Ends, TypeOK, LaunchOK, DiskOK, Go, Waits, Steps,
                Between, Leaving, treeVars, taskVars
  <2> QED BY <2>1, <2>2, <2>3 DEF TypeOK, Alone
<1> QED BY <1>1, <1>2

LEMMA ExitsStep ==
  ASSUME TypeOK, NEW i \in Instances, Exits(i)
  PROVE  TypeOK' /\ Alone(i) /\ (GoesOn(i) \/ Silent(i))
<1>1. LoopOK' /\ DiskOK'
  BY DEF Exits, TypeOK, LoopOK, DiskOK, treeVars, taskVars, loopVars
<1>2. CASE pc[i] # "tau"
  <2>1. LockOK'
    BY <1>2 DEF Exits, TypeOK, LockOK, Ended, lockVars
  <2>2. Alone(i) /\ Silent(i)
    BY <1>2 DEF Exits, TypeOK, LaunchOK, Alone, Silent
  <2> QED BY <1>1, <2>1, <2>2 DEF TypeOK, Alone
<1>3. CASE pc[i] = "tau"
  <2>1. PICK ok \in BOOLEAN :
           /\ Go(i, IF ok \/ cur[i].attempt = Retries THEN "pytest" ELSE "retry")
           /\ cur' = [cur EXCEPT ![i].ok = ok]
    BY <1>3 DEF Exits
  <2>2. Revised(i)
    BY <2>1, Revisions
  <2>3. LockOK'
    BY <1>3, <2>1 DEF Exits, TypeOK, LockOK, LaunchOK, Go, Ended, lockVars
  <2>4. pc'[i] \in {"pytest", "retry"} /\ pc' \in [Instances -> Places]
        /\ \A j \in Instances \ {i} : pc'[j] = pc[j]
    BY <2>1 DEF Go, TypeOK, LaunchOK, Places
  <2>6. Alone(i)
    BY <2>2, <2>4 DEF Exits, TypeOK, LaunchOK, Revised, Alone
  <2>7. agent'[i] = {} /\ UNCHANGED <<treeVars, taskVars, faults>>
    BY DEF Exits, TypeOK, LaunchOK
  <2>8. GoesOn(i)
    BY <1>3, <2>2, <2>4, <2>7 DEF TypeOK, DiskOK, Revised, GoesOn, treeVars, taskVars
  <2>5. Alone(i) /\ GoesOn(i)
    BY <2>6, <2>8
  <2> QED BY <1>1, <2>3, <2>5 DEF TypeOK, Alone
<1> QED BY <1>2, <1>3

LEMMA RetryStep ==
  ASSUME TypeOK, NEW i \in Instances, Retry(i)
  PROVE  TypeOK' /\ Alone(i) /\ GoesOn(i)
<1>1. LockOK' /\ LoopOK' /\ DiskOK'
  BY DEF Retry, TypeOK, LockOK, LaunchOK, LoopOK, DiskOK, Go, Ended, lockVars, treeVars, taskVars, loopVars
<1>2. Revised(i)
  BY Revisions DEF Retry
<1> DEFINE run == <<i, cycle[i], cur[i].kind, cur[i].task, cur[i].n>>
<1>3. run \in Runs /\ run[1] = i /\ run[4] = cur[i].task
  BY DEF TypeOK, LaunchOK, LoopOK, Activity, Runs
<1>4. agent' = [agent EXCEPT ![i] = {run}]
  BY DEF Retry
<1> HIDE DEF run
<1>5. Alone(i) /\ GoesOn(i)
  BY <1>2, <1>3, <1>4 DEF Retry, TypeOK, LaunchOK, DiskOK, Places, Revised, Alone, GoesOn, Go, treeVars, taskVars
<1> QED BY <1>1, <1>5 DEF TypeOK, Alone

LEMMA TerminateStep ==
  ASSUME TypeOK, NEW i \in Instances, Terminate(i)
  PROVE  TypeOK' /\ Alone(i) /\ GoesOn(i)
<1>1. LockOK' /\ LoopOK' /\ DiskOK'
  BY DEF Terminate, TypeOK, LockOK, LaunchOK, LoopOK, DiskOK, Go, Ended, lockVars, treeVars, taskVars, loopVars
<1>2. Revised(i)
  BY Revisions DEF Terminate
<1>4. Alone(i)
  BY <1>2 DEF Terminate, TypeOK, LaunchOK, Places, Revised, Alone, Go
<1>5. /\ agent'[i] = {} /\ UNCHANGED <<treeVars, taskVars, faults>>
      /\ pc[i] = "tau" /\ pc'[i] = "checkout"
  BY DEF Terminate, TypeOK, LaunchOK, Go
<1>3. Alone(i) /\ GoesOn(i)
  BY <1>2, <1>4, <1>5 DEF TypeOK, DiskOK, Revised, GoesOn, treeVars, taskVars
<1> QED BY <1>1, <1>3 DEF TypeOK, Alone

\* The tests: what they found is and-ed to the outcome before the verdict.
LEMMA Judged ==
  ASSUME TypeOK, NEW i \in Instances, NEW ok \in BOOLEAN, Tests(i, ok), Settle(i, ok)
  PROVE  /\ pc'[i] \in {"add", "checkout"} /\ (pc'[i] = "add" => cur'[i].ok)
         /\ pc' = [pc EXCEPT ![i] = pc'[i]]
<1>1. cur'[i].ok = (cur[i].ok /\ ok)
  BY DEF Tests, TypeOK, LaunchOK, Activity
<1>2. pc' = [pc EXCEPT ![i] = IF cur[i].ok /\ ok THEN "add" ELSE "checkout"]
  BY DEF Settle, Go
<1>3. pc'[i] = IF cur[i].ok /\ ok THEN "add" ELSE "checkout"
  BY <1>2 DEF TypeOK, LaunchOK
<1>4. pc' = [pc EXCEPT ![i] = pc'[i]]
  BY <1>2, <1>3
<1>5. CASE cur[i].ok /\ ok
  BY <1>1, <1>3, <1>4, <1>5
<1>6. CASE ~(cur[i].ok /\ ok)
  BY <1>3, <1>4, <1>6
<1> QED BY <1>5, <1>6

LEMMA PytestStep ==
  ASSUME TypeOK, NEW i \in Instances, Pytest(i)
  PROVE  TypeOK' /\ Alone(i) /\ GoesOn(i)
<1>1. PICK ok \in BOOLEAN :
         /\ Tests(i, ok) /\ faults' \in {faults, faults + 1}
         /\ Settle(i, ok) \/ Go(i, "sanity")
  BY DEF Pytest, GitFails, Fault
<1>2. Revised(i)
  BY <1>1, Revisions DEF Tests
<1>3. /\ pc' = [pc EXCEPT ![i] = pc'[i]] /\ pc'[i] \in {"add", "checkout", "sanity"}
      /\ pc'[i] = "add" => cur'[i].ok
  BY <1>1, Judged DEF Go, TypeOK, LaunchOK
<1>4. pc[i] = "pytest" /\ tested' = [tested EXCEPT ![i] = work]
  BY DEF Pytest
<1>5. LockOK' /\ LoopOK' /\ DiskOK'
  BY <1>1, <1>3, <1>4 DEF Tests, TypeOK, LockOK, LaunchOK, LoopOK, DiskOK, Ended, lockVars,
                          treeVars, taskVars, loopVars
<1>6. Alone(i)
  BY <1>1, <1>2, <1>3, <1>4 DEF Tests, TypeOK, LaunchOK, DiskOK, Places, Revised, Alone
<1>7. agent' = agent /\ UNCHANGED <<treeVars, taskVars>> /\ faults' >= faults
  BY <1>1, <1>4 DEF Tests, TypeOK, DiskOK
<1>8. tested'[i] = work
  BY <1>4 DEF TypeOK, LaunchOK
<1>9. GoesOn(i)
  <2>1. cur'[i].task = cur[i].task /\ cur'[i].clean = cur[i].clean
    BY <1>2 DEF Revised
  <2>2. pc'[i] # "tau" /\ pc[i] = "pytest" /\ agent'[i] = agent[i]
    BY <1>3, <1>4, <1>7
  <2>3. pc[i] \in {"tau", "retry", "pytest", "sanity"}
     /\ pc'[i] \in {"tau", "retry", "pytest", "sanity", "add", "checkout"}
    BY <1>3, <2>2
  <2> QED BY <1>3, <1>7, <1>8, <2>1, <2>2, <2>3 DEF GoesOn
<1> QED BY <1>5, <1>6, <1>9 DEF TypeOK, Alone

LEMMA SanityStep ==
  ASSUME TypeOK, NEW i \in Instances, Sanity(i)
  PROVE  TypeOK' /\ Alone(i) /\ GoesOn(i)
<1>1. PICK ok \in BOOLEAN : Tests(i, ok) /\ Settle(i, ok)
  BY DEF Sanity
<1>2. Revised(i)
  BY <1>1, Revisions DEF Tests
<1>3. /\ pc' = [pc EXCEPT ![i] = pc'[i]] /\ pc'[i] \in {"add", "checkout"}
      /\ pc'[i] = "add" => cur'[i].ok
  BY <1>1, Judged
<1>4. pc[i] = "sanity" /\ UNCHANGED <<tested, faults>>
  BY DEF Sanity
<1>5. LockOK' /\ LoopOK' /\ DiskOK'
  BY <1>1, <1>3, <1>4 DEF Tests, TypeOK, LockOK, LaunchOK, LoopOK, DiskOK, Ended, lockVars,
                          treeVars, taskVars, loopVars
<1>6. Alone(i)
  BY <1>1, <1>2, <1>3, <1>4 DEF Tests, TypeOK, LaunchOK, DiskOK, Places, Revised, Alone
<1>7. agent' = agent /\ UNCHANGED <<treeVars, taskVars>> /\ faults' >= faults
  BY <1>1, <1>4 DEF Tests, TypeOK, DiskOK
<1>8. tested'[i] = tested[i]
  BY <1>4 DEF TypeOK, LaunchOK
<1>9. GoesOn(i)
  BY <1>2, <1>3, <1>4, <1>7, <1>8 DEF Revised, GoesOn, treeVars, taskVars
<1> QED BY <1>5, <1>6, <1>9 DEF TypeOK, Alone

LEMMA OpenLockStep ==
  ASSUME TypeOK, NEW i \in Instances, OpenLock(i)
  PROVE  TypeOK' /\ Alone(i) /\ Waits(i)
<1>1. LockOK'
  BY Constants, FreeInode DEF OpenLock, Go, TypeOK, LockOK, LaunchOK, Ended
<1>2. LoopOK'
  BY DEF OpenLock, loopVars, TypeOK, LoopOK
<1>3. DiskOK'
  BY DEF OpenLock, treeVars, taskVars, TypeOK, DiskOK
<1>4. Alone(i)
  BY DEF OpenLock, Go, TypeOK, LaunchOK, Places, Alone
<1>5. Waits(i)
  BY DEF OpenLock, Go, Ended, Between, Leaving, treeVars, taskVars, TypeOK, LaunchOK,
         DiskOK, Steps, Waits
<1> QED BY <1>1, <1>2, <1>3, <1>4, <1>5 DEF TypeOK, Alone

LEMMA UnlockStep ==
  ASSUME TypeOK, NEW i \in Instances, Unlock(i)
  PROVE  TypeOK' /\ Alone(i) /\ Waits(i)
<1>1. LockOK'
  BY Constants DEF Unlock, Go, TypeOK, LockOK, LaunchOK, Ended
<1>2. LoopOK'
  BY DEF Unlock, loopVars, TypeOK, LoopOK
<1>3. DiskOK'
  BY DEF Unlock, treeVars, taskVars, TypeOK, DiskOK
<1>4. Alone(i)
  BY DEF Unlock, Go, TypeOK, LaunchOK, Places, Alone
<1>5. Waits(i)
  BY DEF Unlock, Go, Between, Leaving, treeVars, taskVars, TypeOK, LaunchOK, DiskOK, Steps,
         Waits
<1> QED BY <1>1, <1>2, <1>3, <1>4, <1>5 DEF TypeOK, Alone

LEMMA UnlinkStep ==
  ASSUME TypeOK, NEW i \in Instances, Unlink(i)
  PROVE  TypeOK' /\ Alone(i) /\ Waits(i)
<1>1. LockOK'
  BY Constants DEF Unlink, Go, Ends, TypeOK, LockOK, LaunchOK, Ended
<1>2. LoopOK'
  BY EmptyMemory DEF Unlink, Ends, TypeOK, LoopOK
<1>3. DiskOK'
  BY DEF Unlink, Ends, treeVars, TypeOK, DiskOK
<1>4. Alone(i)
  BY EmptyStep DEF Unlink, Go, Ends, TypeOK, LaunchOK, Places, Alone
<1>5. Waits(i)
  BY EmptyStep DEF Unlink, Go, Ends, Between, Leaving, treeVars, taskVars, TypeOK,
                   LaunchOK, DiskOK, Steps, Waits
<1> QED BY <1>1, <1>2, <1>3, <1>4, <1>5 DEF TypeOK, Alone

LEMMA PreflightStep ==
  ASSUME TypeOK, NEW i \in Instances, Preflight(i)
  PROVE  TypeOK' /\ Alone(i) /\ Waits(i)
<1>1. LockOK'
  BY DEF Preflight, Go, lockVars, TypeOK, LockOK, LaunchOK, Ended
<1>2. LoopOK'
  BY DEF Preflight, TypeOK, LoopOK
<1>3. DiskOK'
  BY DEF Preflight, GitFails, Fault, treeVars, taskVars, TypeOK, DiskOK
<1>4. Alone(i)
  BY DEF Preflight, Go, TypeOK, LaunchOK, Places, Alone
<1>5. Waits(i)
  BY DEF Preflight, Go, GitFails, Fault, Between, Leaving, treeVars, taskVars, TypeOK,
         LaunchOK, DiskOK, Steps, Waits
<1> QED BY <1>1, <1>2, <1>3, <1>4, <1>5 DEF TypeOK, Alone

LEMMA TopStep ==
  ASSUME TypeOK, NEW i \in Instances, Top(i)
  PROVE  TypeOK' /\ Alone(i) /\ Waits(i)
<1>1. LockOK'
  BY DEF Top, Go, lockVars, TypeOK, LockOK, LaunchOK, Ended
<1>2. LoopOK'
  BY DEF Top, TodoFiles, TypeOK, LoopOK
<1>3. DiskOK'
  BY DEF Top, treeVars, taskVars, TypeOK, DiskOK
<1>4. Alone(i)
  BY DEF Top, Go, TypeOK, LaunchOK, Places, Alone
<1>5. Waits(i)
  BY DEF Top, Go, Between, Leaving, treeVars, taskVars, TypeOK, LaunchOK, DiskOK, Steps,
         Waits
<1> QED BY <1>1, <1>2, <1>3, <1>4, <1>5 DEF TypeOK, Alone

LEMMA CycleEndStep ==
  ASSUME TypeOK, NEW i \in Instances, CycleEnd(i)
  PROVE  TypeOK' /\ Alone(i) /\ Waits(i)
<1>1. LockOK'
  BY DEF CycleEnd, Go, lockVars, TypeOK, LockOK, LaunchOK, Ended
<1>2. LoopOK'
  BY DEF CycleEnd, Memory, TypeOK, LoopOK
<1>3. DiskOK'
  BY DEF CycleEnd, treeVars, taskVars, TypeOK, DiskOK
<1>4. Alone(i)
  BY EmptyStep DEF CycleEnd, Go, TypeOK, LaunchOK, Places, Alone
<1>5. Waits(i)
  BY EmptyStep DEF CycleEnd, Go, Between, Leaving, treeVars, taskVars, TypeOK, LaunchOK,
                   DiskOK, Steps, Waits
<1> QED BY <1>1, <1>2, <1>3, <1>4, <1>5 DEF TypeOK, Alone

LEMMA SignalStep ==
  ASSUME TypeOK, NEW i \in Instances, Signal(i)
  PROVE  TypeOK' /\ Alone(i) /\ Silent(i)
<1>1. LockOK'
  BY DEF Signal, lockVars, TypeOK, LockOK, LaunchOK, Ended
<1>2. LoopOK'
  BY DEF Signal, loopVars, TypeOK, LoopOK
<1>3. DiskOK'
  BY DEF Signal, treeVars, taskVars, TypeOK, DiskOK
<1>4. Alone(i)
  BY DEF Signal, TypeOK, LaunchOK, Places, Alone
<1>5. Silent(i)
  BY DEF Signal, taskVars, TypeOK, LaunchOK, DiskOK, Steps, Silent
<1> QED BY <1>1, <1>2, <1>3, <1>4, <1>5 DEF TypeOK, Alone

LEMMA LockKept ==
  ASSUME TypeOK, NEW i \in Instances, UNCHANGED lockVars, Alone(i),
         pc[i] \notin Ended, pc'[i] \notin Ended
  PROVE  LockOK'
BY DEF TypeOK, LockOK, lockVars, Alone, Ended

LEMMA Begins ==
  ASSUME TypeOK, NEW i \in Instances, NEW kind \in Kinds, NEW t \in Tasks \cup {None},
         NEW n \in Nat, Begin(i, kind, t, n), asked' = asked
  PROVE  /\ Alone(i) /\ pc'[i] = "tau" /\ cur'[i].task = t
         /\ cur'[i].clean <=> (work = {} /\ \A j \in Instances : agent[j] = {})
         /\ \A a \in agent'[i] : a[1] = i /\ a[4] = t
<1> DEFINE run == <<i, cycle[i], kind, t, n>>
           new == [kind |-> kind, task |-> t, n |-> n, attempt |-> 0, ok |-> FALSE,
                   clean |-> work = {} /\ \A j \in Instances : agent[j] = {}]
<1>1. run \in Runs /\ run[1] = i /\ run[4] = t
  BY DEF TypeOK, LoopOK, Runs
<1>2. /\ new \in Activity /\ new.task = t
      /\ new.clean <=> (work = {} /\ \A j \in Instances : agent[j] = {})
  BY DEF Activity
<1>3. /\ cur' = [cur EXCEPT ![i] = new] /\ agent' = [agent EXCEPT ![i] = {run}]
      /\ pc' = [pc EXCEPT ![i] = "tau"] /\ tested' = tested
  BY DEF Begin, Go
<1> HIDE DEF run, new
<1>4. cur'[i] = new /\ agent'[i] = {run} /\ pc'[i] = "tau"
  BY <1>3 DEF TypeOK, LaunchOK
<1>5. Alone(i)
  BY <1>1, <1>2, <1>3, <1>4 DEF Alone, TypeOK, LaunchOK, Places
<1> QED BY <1>1, <1>2, <1>4, <1>5

LEMMA Turns ==
  ASSUME TypeOK, NEW i \in Instances, NEW to \in Between, NEW n \in Nat,
         to = "single" => n >= 1, Turn(i, to, n), asked' = asked
  PROVE  Alone(i) /\ Returns(i)
<1> DEFINE new == [NoStep EXCEPT !.n = n]
<1>1. new \in Activity /\ new.task = None /\ new.clean /\ new.n = n
  BY EmptyStep DEF Activity
<1>2. /\ cur' = [cur EXCEPT ![i] = new] /\ agent' = agent
      /\ pc' = [pc EXCEPT ![i] = to] /\ tested' = [tested EXCEPT ![i] = {}]
  BY DEF Turn, Go
<1> HIDE DEF new
<1>3. cur'[i] = new /\ pc'[i] = to
  BY <1>2 DEF TypeOK, LaunchOK
<1>4. Alone(i)
  BY <1>1, <1>2, <1>3 DEF Alone, TypeOK, LaunchOK, Places, Between
<1> QED BY <1>1, <1>2, <1>3, <1>4 DEF Returns

LEMMA NextStepReturns ==
  ASSUME TypeOK, NEW i \in Instances, NextStep(i), asked' = asked
  PROVE  Alone(i) /\ Returns(i)
<1>1. cur[i].n \in Nat /\ cur[i].n + 1 \in Nat /\ cur[i].n + 1 >= 1
  BY DEF TypeOK, LaunchOK, Activity
<1>2. CASE cur[i].kind = "task"
  BY <1>2, Turns DEF NextStep, Between
<1>3. CASE cur[i].kind = "rearch"
  BY <1>1, <1>3, Turns DEF NextStep, Between
<1>4. CASE cur[i].kind \notin {"task", "rearch"}
  BY <1>1, <1>4, Turns DEF NextStep, Between
<1> QED BY <1>2, <1>3, <1>4

LEMMA NextTaskStep ==
  ASSUME TypeOK, NEW i \in Instances, NextTask(i)
  PROVE  TypeOK' /\ Alone(i) /\ (Waits(i) \/ \E t \in Tasks \cup {None} : Starts(i, t))
<1>1. pc[i] = "tasks" /\ UNCHANGED <<asked, faults, lockVars, treeVars, fate, cycle, mem, stateFile>>
  BY DEF NextTask
<1>2. pc[i] \notin Ended \cup Steps \cup Leaving
  BY <1>1 DEF Ended, Steps, Leaving
<1>3. ASSUME Turn(i, IF asked[i] THEN "cycleEnd" ELSE "rearch", 0), UNCHANGED <<queue, where>>
      PROVE  TypeOK' /\ Alone(i) /\ Waits(i)
  <2>1. Alone(i) /\ Returns(i)
    BY <1>1, <1>3, Turns DEF Between
  <2>2. LockOK'
    BY <1>1, <1>2, <2>1, LockKept DEF Returns, Between, Ended
  <2>3. LoopOK' /\ DiskOK'
    BY <1>1, <1>3 DEF TypeOK, LoopOK, DiskOK, treeVars, loopVars
  <2>4. Waits(i)
    BY <1>1, <1>3, <2>1 DEF Waits, Returns, Between, Steps, Leaving, treeVars, taskVars, TypeOK, DiskOK
  <2> QED BY <2>1, <2>2, <2>3, <2>4 DEF TypeOK, Alone
<1>4. ASSUME NEW t \in queue[i], queue' = [queue EXCEPT ![i] = @ \ {t}],
             IF where[t] = "todo"
             THEN where' = [where EXCEPT ![t] = "inprogress"] /\ Begin(i, "task", t, 0)
             ELSE UNCHANGED <<pc, cur, agent, tested, where>>
      PROVE  TypeOK' /\ Alone(i) /\ (Waits(i) \/ \E u \in Tasks \cup {None} : Starts(i, u))
  <2>1. t \in Tasks /\ LoopOK'
    BY <1>1, <1>4 DEF TypeOK, LoopOK
  <2>2. DiskOK'
    BY <1>1, <1>4, <2>1 DEF TypeOK, DiskOK, treeVars, Begin
  <2>3. CASE where[t] = "todo"
    <3>1. "task" \in Kinds /\ 0 \in Nat
      BY DEF Kinds
    <3>2. /\ Alone(i) /\ pc'[i] = "tau" /\ cur'[i].task = t
          /\ cur'[i].clean <=> (work = {} /\ \A j \in Instances : agent[j] = {})
          /\ \A a \in agent'[i] : a[1] = i /\ a[4] = t
      BY <1>1, <1>4, <2>1, <2>3, <3>1, Begins
    <3>3. LockOK'
      BY <1>1, <1>2, <3>2, LockKept DEF Ended
    <3>4. Starts(i, t)
      BY <1>1, <1>4, <2>1, <2>3, <3>2 DEF Starts, Between, treeVars
    <3> QED BY <2>1, <2>2, <3>2, <3>3, <3>4 DEF TypeOK, Alone
  <2>4. CASE where[t] # "todo"
    <3>1. UNCHANGED <<pc, cur, agent, tested, where>>
      BY <1>4, <2>4
    <3>2. Alone(i)
      BY <1>1, <3>1 DEF TypeOK, Alone, LaunchOK
    <3>3. LockOK'
      BY <1>1, <1>2, <3>1, <3>2, LockKept
    <3>4. Waits(i)
      BY <1>1, <3>1 DEF Waits, Steps, Leaving, Between, treeVars, taskVars, TypeOK, DiskOK
    <3> QED BY <2>1, <2>2, <3>2, <3>3, <3>4 DEF TypeOK, Alone
  <2> QED BY <2>3, <2>4
<1> QED BY <1>3, <1>4 DEF NextTask

LEMMA RearchStep ==
  ASSUME TypeOK, NEW i \in Instances, Rearch(i)
  PROVE  TypeOK' /\ Alone(i) /\ (Waits(i) \/ \E t \in Tasks \cup {None} : Starts(i, t))
<1>1. /\ pc[i] = "rearch" /\ UNCHANGED <<asked, faults, lockVars, treeVars, taskVars, loopVars>>
      /\ \/ Turn(i, "cycleEnd", 0) \/ Turn(i, "single", 1)
         \/ Begin(i, "rearch", None, cur[i].n + 1)
  BY DEF Rearch
<1>2. pc[i] \notin Ended \cup Steps \cup Leaving
  BY <1>1 DEF Ended, Steps, Leaving
<1>3. LoopOK' /\ DiskOK'
  BY <1>1 DEF TypeOK, LoopOK, DiskOK, treeVars, taskVars, loopVars
<1>4. CASE Turn(i, "cycleEnd", 0) \/ Turn(i, "single", 1)
  <2>1. Alone(i) /\ Returns(i)
    BY <1>1, <1>4, Turns DEF Between
  <2>2. LockOK'
    BY <1>1, <1>2, <2>1, LockKept DEF Returns, Between, Ended
  <2>3. Waits(i)
    BY <1>1, <2>1 DEF Waits, Returns, Between, Steps, Leaving, treeVars, taskVars, TypeOK, DiskOK
  <2> QED BY <1>3, <2>1, <2>2, <2>3 DEF TypeOK, Alone
<1>5. CASE Begin(i, "rearch", None, cur[i].n + 1)
  <2>1. "rearch" \in Kinds /\ cur[i].n + 1 \in Nat /\ None \in Tasks \cup {None}
    BY DEF Kinds, TypeOK, LaunchOK, Activity
  <2>2. /\ Alone(i) /\ pc'[i] = "tau" /\ cur'[i].task = None
        /\ cur'[i].clean <=> (work = {} /\ \A j \in Instances : agent[j] = {})
        /\ \A a \in agent'[i] : a[1] = i /\ a[4] = None
    BY <1>1, <1>5, <2>1, Begins
  <2>3. LockOK'
    BY <1>1, <1>2, <2>2, LockKept DEF Ended
  <2>4. Starts(i, None)
    BY <1>1, <2>2 DEF Starts, Between, treeVars, taskVars
  <2> QED BY <1>3, <2>1, <2>2, <2>3, <2>4 DEF TypeOK, Alone
<1> QED BY <1>1, <1>4, <1>5

LEMMA SingleStep ==
  ASSUME TypeOK, NEW i \in Instances, Single(i)
  PROVE  TypeOK' /\ Alone(i) /\ (Waits(i) \/ \E t \in Tasks \cup {None} : Starts(i, t))
<1>1. /\ pc[i] = "single" /\ UNCHANGED <<asked, faults, lockVars, treeVars, taskVars, loopVars>>
      /\ \/ Turn(i, "cycleEnd", 0) \/ Turn(i, "single", cur[i].n + 1)
         \/ ~(cur[i].n > Len(Singles)) /\ Begin(i, Singles[cur[i].n], None, cur[i].n)
  BY DEF Single
<1>2. pc[i] \notin Ended \cup Steps \cup Leaving
  BY <1>1 DEF Ended, Steps, Leaving
<1>3. LoopOK' /\ DiskOK'
  BY <1>1 DEF TypeOK, LoopOK, DiskOK, treeVars, taskVars, loopVars
<1>4. cur[i].n \in Nat /\ cur[i].n >= 1
  BY <1>1 DEF TypeOK, LaunchOK, Activity
<1>5. CASE Turn(i, "cycleEnd", 0) \/ Turn(i, "single", cur[i].n + 1)
  <2>1. Alone(i) /\ Returns(i)
    BY <1>1, <1>4, <1>5, Turns DEF Between
  <2>2. LockOK'
    BY <1>1, <1>2, <2>1, LockKept DEF Returns, Between, Ended
  <2>3. Waits(i)
    BY <1>1, <2>1 DEF Waits, Returns, Between, Steps, Leaving, treeVars, taskVars, TypeOK, DiskOK
  <2> QED BY <1>3, <2>1, <2>2, <2>3 DEF TypeOK, Alone
<1>6. CASE ~(cur[i].n > Len(Singles)) /\ Begin(i, Singles[cur[i].n], None, cur[i].n)
  <2>1. Len(Singles) \in Nat
    BY Constants
  <2>2. cur[i].n \in 1 .. Len(Singles)
    BY <1>4, <1>6, <2>1
  <2>3. Singles[cur[i].n] \in Kinds /\ None \in Tasks \cup {None}
    BY <2>2 DEF Kinds
  <2>4. /\ Alone(i) /\ pc'[i] = "tau" /\ cur'[i].task = None
        /\ cur'[i].clean <=> (work = {} /\ \A j \in Instances : agent[j] = {})
        /\ \A a \in agent'[i] : a[1] = i /\ a[4] = None
    <3>1. Begin(i, Singles[cur[i].n], None, cur[i].n) /\ asked' = asked /\ cur[i].n \in Nat
      BY <1>1, <1>4, <1>6
    <3> QED BY <2>3, <3>1, Begins
  <2>5. LockOK'
    BY <1>1, <1>2, <2>4, LockKept DEF Ended
  <2>6. Starts(i, None)
    BY <1>1, <2>4 DEF Starts, Between, treeVars, taskVars
  <2> QED BY <1>3, <2>3, <2>4, <2>5, <2>6 DEF TypeOK, Alone
<1> QED BY <1>1, <1>5, <1>6

\* A step that leaves launch i where it is, but for its place.
LEMMA Moved ==
  ASSUME TypeOK, NEW i \in Instances, NEW p \in Places \ (Ended \cup {"single"}),
         pc[i] \notin Ended, Go(i, p), UNCHANGED <<cur, agent, asked, tested>>
  PROVE  Alone(i) /\ pc'[i] = p /\ Keeps(i)
BY DEF TypeOK, LaunchOK, Alone, Keeps, Go, Places

LEMMA Left ==
  ASSUME TypeOK, NEW i \in Instances, Leaves(i)
  PROVE  fate' \in [Tasks -> {"none", "left", "unreverted", "moved", "done", "failed", "unclear"}]
BY DEF TypeOK, DiskOK, LaunchOK, Activity, Leaves

LEMMA CommitFailure ==
  ASSUME TypeOK, NEW i \in Instances, pc[i] \in {"add", "commit"}, CommitFails(i),
         UNCHANGED <<asked, lockVars, treeVars, where, loopVars>>,
         faults' \in {faults, faults + 1}, faults' = 0 => pc[i] = "commit" /\ index = {}
  PROVE  TypeOK' /\ Alone(i) /\ GivesUp(i)
<1>1. Alone(i) /\ Returns(i) /\ Leaves(i)
  BY NextStepReturns DEF CommitFails
<1>2. LockOK'
  BY <1>1, LockKept DEF Returns, Between, Ended
<1>3. LoopOK' /\ DiskOK'
  BY <1>1, Left DEF TypeOK, LoopOK, DiskOK, treeVars, loopVars
<1>4. GivesUp(i)
  BY <1>1 DEF GivesUp, TypeOK, DiskOK, treeVars
<1> QED BY <1>1, <1>2, <1>3, <1>4 DEF TypeOK, Alone

LEMMA AddStep ==
  ASSUME TypeOK, NEW i \in Instances, Add(i)
  PROVE  TypeOK' /\ Alone(i) /\ (Stages(i) \/ GivesUp(i))
<1>1. pc[i] = "add" /\ UNCHANGED <<asked, lockVars, work, head, where, loopVars>>
  BY DEF Add
<1>2. CASE index' = work /\ Go(i, "commit") /\ UNCHANGED <<cur, agent, tested, fate, faults>>
  <2>1. Alone(i) /\ pc'[i] = "commit" /\ Keeps(i)
    BY <1>1, <1>2, Moved DEF Places, Ended
  <2>2. LockOK'
    BY <1>1, <2>1, LockKept DEF Ended
  <2>3. LoopOK' /\ DiskOK'
    BY <1>1, <1>2 DEF TypeOK, LoopOK, DiskOK, loopVars
  <2>4. Stages(i)
    BY <1>1, <1>2, <2>1 DEF Stages, taskVars
  <2> QED BY <2>1, <2>2, <2>3, <2>4 DEF TypeOK, Alone
<1>3. CASE GitFails /\ CommitFails(i) /\ UNCHANGED index
  <2>1. faults' = faults + 1 /\ faults \in Nat
    BY <1>3 DEF GitFails, Fault, TypeOK, DiskOK
  <2> QED BY <1>1, <1>3, <2>1, CommitFailure DEF treeVars
<1> QED BY <1>2, <1>3 DEF Add

LEMMA CommitStep ==
  ASSUME TypeOK, NEW i \in Instances, Commit(i)
  PROVE  TypeOK' /\ Alone(i) /\ (Commits(i) \/ GivesUp(i))
<1>1. pc[i] = "commit" /\ UNCHANGED <<asked, lockVars, where, loopVars>>
  BY DEF Commit
<1>2. CASE /\ index # {} /\ work' = work \ index /\ index' = {}
           /\ head' = head \cup {c.by[4] : c \in index}
           /\ Go(i, "onDone") /\ UNCHANGED <<cur, agent, tested, fate, faults>>
  <2>1. Alone(i) /\ pc'[i] = "onDone" /\ Keeps(i)
    BY <1>1, <1>2, Moved DEF Places, Ended
  <2>2. LockOK'
    BY <1>1, <2>1, LockKept DEF Ended
  <2>3. \A c \in index : c.by[4] \in Tasks \cup {None}
    BY DEF TypeOK, DiskOK, Changes, Runs
  <2>4. LoopOK' /\ DiskOK'
    BY <1>1, <1>2, <2>3 DEF TypeOK, LoopOK, DiskOK, loopVars
  <2>5. Commits(i)
    BY <1>1, <1>2, <2>1 DEF Commits, taskVars
  <2> QED BY <2>1, <2>2, <2>4, <2>5 DEF TypeOK, Alone
<1>3. CASE /\ (index = {} /\ UNCHANGED faults) \/ GitFails
           /\ CommitFails(i) /\ UNCHANGED treeVars
  <2>1. faults' \in {faults, faults + 1} /\ (faults' = 0 => index = {})
    BY <1>3 DEF GitFails, Fault, TypeOK, DiskOK
  <2> QED BY <1>1, <1>3, <2>1, CommitFailure
<1> QED BY <1>2, <1>3 DEF Commit

\* A revert that may fail: what it does to the tree, and where it leads.
LEMMA CheckoutStep ==
  ASSUME TypeOK, NEW i \in Instances, Checkout(i)
  PROVE  TypeOK' /\ Alone(i) /\ Reverts(i)
<1>1. /\ pc[i] = "checkout"
      /\ UNCHANGED <<cur, agent, asked, tested, lockVars, index, head, where, loopVars>>
  BY DEF Checkout
<1>2. PICK p \in {"clean", "onFail"} : Go(i, p)
  BY DEF Checkout
<1>3. Alone(i) /\ pc'[i] = p /\ Keeps(i)
  BY <1>1, <1>2, Moved DEF Places, Ended
<1>4. LockOK'
  BY <1>1, <1>2, <1>3, LockKept DEF Ended
<1>5. LoopOK'
  BY <1>1 DEF TypeOK, LoopOK, loopVars
<1>6. \/ /\ work' = index \cup {c \in work : c.new} /\ UNCHANGED <<fate, faults>> /\ pc'[i] = "clean"
      \/ /\ work' = work /\ faults' = faults + 1 /\ pc'[i] = "onFail"
         /\ fate' = IF cur[i].task = None THEN fate
                    ELSE [fate EXCEPT ![cur[i].task] = "unreverted"]
  BY DEF Checkout, GitFails, Fault, Go, TypeOK, LaunchOK
<1>7. DiskOK'
  BY <1>1, <1>6 DEF TypeOK, DiskOK
<1>8. Reverts(i)
  BY <1>1, <1>3, <1>6 DEF Reverts, TypeOK, DiskOK
<1> QED BY <1>3, <1>4, <1>5, <1>7, <1>8 DEF TypeOK, Alone

LEMMA CleanStep ==
  ASSUME TypeOK, NEW i \in Instances, Clean(i)
  PROVE  TypeOK' /\ Alone(i) /\ Reverts(i)
<1>1. /\ pc[i] = "clean" /\ Go(i, "onFail")
      /\ UNCHANGED <<cur, agent, asked, tested, lockVars, index, head, where, loopVars>>
  BY DEF Clean
<1>2. Alone(i) /\ pc'[i] = "onFail" /\ Keeps(i)
  BY <1>1, Moved DEF Places, Ended
<1>3. LockOK'
  BY <1>1, <1>2, LockKept DEF Ended
<1>4. LoopOK'
  BY <1>1 DEF TypeOK, LoopOK, loopVars
<1>5. \/ work' = index /\ UNCHANGED <<fate, faults>>
      \/ /\ work' = work /\ faults' = faults + 1
         /\ fate' = IF cur[i].task = None THEN fate
                    ELSE [fate EXCEPT ![cur[i].task] = "unreverted"]
  BY DEF Clean, GitFails, Fault
<1>6. DiskOK'
  BY <1>1, <1>5 DEF TypeOK, DiskOK
<1>7. Reverts(i)
  BY <1>1, <1>2, <1>5 DEF Reverts, TypeOK, DiskOK
<1> QED BY <1>2, <1>3, <1>4, <1>6, <1>7 DEF TypeOK, Alone

LEMMA MovesTypes ==
  ASSUME TypeOK, NEW i \in Instances, NEW to \in {"done", "failed"}, Moves(i, to)
  PROVE  /\ where' \in [Tasks -> {"todo", "inprogress", "done", "failed"}]
         /\ fate' \in [Tasks -> {"none", "left", "unreverted", "moved", "done", "failed", "unclear"}]
<1>1. cur[i].task \in Tasks \cup {None}
  BY DEF TypeOK, LaunchOK, Activity
<1>2. CASE cur[i].task = None
  BY <1>2 DEF Moves, taskVars, TypeOK, DiskOK
<1>3. CASE cur[i].task # None
  <2>1. fate[cur[i].task] \in {"none", "left", "unreverted", "moved", "done", "failed", "unclear"}
    BY <1>1, <1>3 DEF TypeOK, DiskOK
  <2> QED BY <1>1, <1>3, <2>1 DEF Moves, taskVars, TypeOK, DiskOK
<1> QED BY <1>2, <1>3

LEMMA OnDoneStep ==
  ASSUME TypeOK, NEW i \in Instances, OnDone(i)
  PROVE  TypeOK' /\ Alone(i) /\ Settles(i)
<1>1. /\ pc[i] = "onDone" /\ Moves(i, "done") /\ Records(i) /\ NextStep(i)
      /\ UNCHANGED <<asked, faults, lockVars, treeVars, queue, cycle, stateFile>>
  BY DEF OnDone
<1>2. Alone(i) /\ Returns(i)
  BY <1>1, NextStepReturns
<1>3. LockOK'
  BY <1>1, <1>2, LockKept DEF Returns, Between, Ended
<1>4. mem' \in [Instances -> Memory]
  <2>1. CASE mem' = mem
    BY <2>1 DEF TypeOK, LoopOK
  <2>2. ASSUME NEW area \in Areas,
               mem' = [mem EXCEPT ![i].history = Append(@, [area |-> area, cycle |-> cycle[i]])]
        PROVE  mem' \in [Instances -> Memory]
    <3> DEFINE entry == [area |-> area, cycle |-> cycle[i]]
               new   == [mem[i] EXCEPT !.history = Append(@, entry)]
    <3>1. entry \in [area : Areas, cycle : Nat] /\ mem[i] \in Memory
      BY DEF TypeOK, LoopOK
    <3>2. mem' = [mem EXCEPT ![i] = new]
      BY <2>2, <3>1 DEF TypeOK, LoopOK, Memory
    <3>3. new \in Memory
      <4> HIDE DEF entry
      <4>1. Append(mem[i].history, entry) \in Seq([area : Areas, cycle : Nat])
        BY <3>1 DEF Memory
      <4> QED BY <3>1, <4>1 DEF Memory
    <3> HIDE DEF new
    <3> QED BY <3>2, <3>3 DEF TypeOK, LoopOK
  <2> QED BY <1>1, <2>1, <2>2 DEF Records
<1>5. LoopOK' /\ DiskOK'
  BY <1>1, <1>4, MovesTypes DEF TypeOK, LoopOK, DiskOK, treeVars
<1>6. Settles(i)
  BY <1>1, <1>2 DEF Settles
<1> QED BY <1>2, <1>3, <1>5, <1>6 DEF TypeOK, Alone

LEMMA OnFailStep ==
  ASSUME TypeOK, NEW i \in Instances, OnFail(i)
  PROVE  TypeOK' /\ Alone(i) /\ Settles(i)
<1>1. /\ pc[i] = "onFail" /\ Moves(i, "failed") /\ NextStep(i)
      /\ UNCHANGED <<asked, faults, lockVars, treeVars, loopVars>>
  BY DEF OnFail
<1>2. Alone(i) /\ Returns(i)
  BY <1>1, NextStepReturns
<1>3. LockOK'
  BY <1>1, <1>2, LockKept DEF Returns, Between, Ended
<1>4. LoopOK' /\ DiskOK'
  BY <1>1, MovesTypes DEF TypeOK, LoopOK, DiskOK, treeVars, loopVars
<1>5. Settles(i)
  BY <1>1, <1>2 DEF Settles
<1> QED BY <1>2, <1>3, <1>4, <1>5 DEF TypeOK, Alone

LEMMA KillStep ==
  ASSUME TypeOK, NEW i \in Instances, Kill(i)
  PROVE  TypeOK' /\ Alone(i) /\ GivesUp(i)
<1>1. /\ pc[i] \notin Ended /\ faults' = faults + 1 /\ Leaves(i) /\ Ends(i, "killed")
      /\ UNCHANGED pidFile
  BY DEF Kill, Alive, Fault
<1>2. LockOK'
  BY <1>1, Constants DEF Ends, TypeOK, LockOK, LaunchOK, Go, Ended
<1>3. LoopOK'
  BY <1>1, EmptyMemory DEF Ends, TypeOK, LoopOK
<1>4. DiskOK'
  BY <1>1, Left DEF Ends, TypeOK, DiskOK, treeVars
<1>5. Alone(i)
  BY <1>1, EmptyStep DEF Ends, TypeOK, LaunchOK, Places, Go, Alone
<1>6. pc'[i] = "killed" /\ cur'[i] = NoStep /\ agent' = agent
  BY <1>1 DEF Ends, Go, TypeOK, LaunchOK
<1>7. GivesUp(i)
  BY <1>1, <1>6, EmptyStep DEF Ends, TypeOK, DiskOK, GivesUp, treeVars
<1> QED BY <1>2, <1>3, <1>4, <1>5, <1>7 DEF TypeOK, Alone

LEMMA RaisesStep ==
  ASSUME TypeOK, NEW i \in Instances, Raises(i)
  PROVE  TypeOK' /\ Alone(i) /\ GivesUp(i)
<1>1. /\ pc[i] \in {"tau", "add", "commit", "checkout", "clean"}
      /\ faults' \in {faults, faults + 1}
      /\ agent' = [agent EXCEPT ![i] = {}]
      /\ Leaves(i) /\ Go(i, "unlock")
      /\ UNCHANGED <<cur, asked, tested, lockVars, treeVars, where, loopVars>>
  BY DEF Raises, GitFails, Fault
<1>2. LockOK'
  BY <1>1 DEF TypeOK, LockOK, LaunchOK, Go, Ended, lockVars
<1>3. LoopOK'
  BY <1>1 DEF TypeOK, LoopOK, loopVars
<1>4. DiskOK'
  BY <1>1, Left DEF TypeOK, DiskOK, treeVars
<1>5. Alone(i)
  BY <1>1 DEF TypeOK, LaunchOK, Places, Go, Alone
<1>6. pc[i] \in Steps /\ pc'[i] = "unlock" /\ agent'[i] = {}
  BY <1>1 DEF Go, TypeOK, LaunchOK, Steps
<1>7. GivesUp(i)
  BY <1>1, <1>6 DEF TypeOK, DiskOK, GivesUp, treeVars
<1> QED BY <1>2, <1>3, <1>4, <1>5, <1>7 DEF TypeOK, Alone

\* An agent adds a change of its own.
Edits(i) ==
  /\ UNCHANGED <<pc, cur, agent, tested, index, head, taskVars, faults>>
  /\ \E by \in agent[i], new \in BOOLEAN : work' = work \cup {[by |-> by, new |-> new]}

LEMMA EditStep ==
  ASSUME TypeOK, NEW i \in Instances, Edit(i)
  PROVE  TypeOK' /\ Edits(i)
<1>1. /\ UNCHANGED <<pc, cur, agent, asked, tested, faults, lockVars, index, head,
                     taskVars, loopVars>>
      /\ Edits(i)
  BY DEF Edit, Edits
<1>2. LockOK' /\ LaunchOK' /\ LoopOK'
  BY <1>1 DEF TypeOK, LockOK, LaunchOK, LoopOK, lockVars, loopVars
<1>3. \A by \in agent[i], new \in BOOLEAN : [by |-> by, new |-> new] \in Changes
  BY DEF TypeOK, LaunchOK, Changes
<1>4. DiskOK'
  BY <1>1, <1>3 DEF Edits, TypeOK, DiskOK, taskVars
<1> QED BY <1>1, <1>2, <1>4 DEF TypeOK

\* Somebody other than a launch puts a task away.
PutsAway ==
  /\ UNCHANGED <<pc, cur, agent, tested, treeVars, fate, faults>>
  /\ \E t \in Tasks, to \in {"done", "failed"} : where' = [where EXCEPT ![t] = to]

LEMMA MovesTaskStep ==
  ASSUME TypeOK, MovesTask
  PROVE  TypeOK' /\ PutsAway
<1>1. /\ UNCHANGED <<pc, cur, agent, asked, tested, faults, lockVars, treeVars, fate, loopVars>>
      /\ PutsAway
  BY DEF MovesTask, PutsAway
<1>2. LockOK' /\ LaunchOK' /\ LoopOK'
  BY <1>1 DEF TypeOK, LockOK, LaunchOK, LoopOK, lockVars, loopVars
<1>3. DiskOK'
  BY <1>1 DEF PutsAway, TypeOK, DiskOK, treeVars
<1> QED BY <1>1, <1>2, <1>3 DEF TypeOK

-----------------------------------------------------------------------------
(* Types, and what the steps come to                                       *)

\* A step of launch i that is none of its agent's edits.
Does(i) ==
  /\ Alone(i)
  /\ \/ Waits(i) \/ (\E t \in Tasks \cup {None} : Starts(i, t)) \/ GoesOn(i) \/ Silent(i)
     \/ Stages(i) \/ Commits(i) \/ Reverts(i) \/ Settles(i) \/ GivesUp(i)

LEMMA Classes ==
  ASSUME TypeOK, Next
  PROVE  TypeOK' /\ (PutsAway \/ \E i \in Instances : Does(i) \/ Edits(i))
<1>1. ASSUME NEW i \in Instances, Loop(i)
      PROVE  TypeOK' /\ Does(i)
  <2>1. CASE OpenLock(i) \/ TakeLock(i) \/ Preflight(i) \/ Top(i) \/ CycleEnd(i)
             \/ Unlock(i) \/ Unlink(i)
    BY <2>1, OpenLockStep, TakeLockStep, PreflightStep, TopStep, CycleEndStep, UnlockStep,
       UnlinkStep DEF Does
  <2>2. CASE NextTask(i) \/ Rearch(i) \/ Single(i)
    BY <2>2, NextTaskStep, RearchStep, SingleStep DEF Does
  <2>3. CASE Retry(i) \/ Terminate(i) \/ Pytest(i) \/ Sanity(i)
    BY <2>3, RetryStep, TerminateStep, PytestStep, SanityStep DEF Does
  <2>4. CASE Add(i) \/ Commit(i) \/ OnDone(i)
    BY <2>4, AddStep, CommitStep, OnDoneStep DEF Does
  <2>5. CASE Checkout(i) \/ Clean(i) \/ OnFail(i)
    BY <2>5, CheckoutStep, CleanStep, OnFailStep DEF Does
  <2> QED BY <1>1, <2>1, <2>2, <2>3, <2>4, <2>5 DEF Loop
<1>2. ASSUME NEW i \in Instances, Agent(i) \/ Signal(i) \/ Kill(i) \/ Raises(i)
      PROVE  TypeOK' /\ (Does(i) \/ Edits(i))
  BY <1>2, EditStep, ExitsStep, SignalStep, KillStep, RaisesStep DEF Agent, Does
<1> QED BY <1>1, <1>2, MovesTaskStep DEF Next

LEMMA InitTypes == Init => TypeOK
<1> SUFFICES ASSUME Init PROVE TypeOK
  OBVIOUS
<1>1. LockOK
  BY DEF Init, LockOK, Ended
<1>2. LaunchOK
  BY EmptyStep DEF Init, LaunchOK, Places
<1>3. LoopOK
  BY EmptyMemory DEF Init, LoopOK
<1>4. DiskOK
  BY DEF Init, DiskOK
<1> QED BY <1>1, <1>2, <1>3, <1>4 DEF TypeOK

LEMMA StutterTypes == TypeOK /\ UNCHANGED vars => TypeOK'
<1> SUFFICES ASSUME TypeOK, UNCHANGED vars PROVE TypeOK'
  OBVIOUS
<1> USE DEF vars, lockVars, treeVars, taskVars, loopVars
<1>1. LockOK'
  BY DEF TypeOK, LockOK
<1>2. LaunchOK'
  BY DEF TypeOK, LaunchOK
<1>3. LoopOK' /\ DiskOK'
  BY DEF TypeOK, LoopOK, DiskOK
<1> QED BY <1>1, <1>2, <1>3 DEF TypeOK

(* Every variable keeps its type; an open lock file belongs to a launch    *)
(* that runs, and what is staged is in the tree.                           *)
THEOREM TypeCorrect == Spec => []TypeOK
<1>1. TypeOK /\ [Next]_vars => TypeOK'
  BY Classes, StutterTypes
<1> QED BY <1>1, InitTypes, PTL DEF Spec

-----------------------------------------------------------------------------
(* The lock: why two launches exclude each other                           *)

AtMostOne == \A j, k \in Holding : j = k

LEMMA Excluded == Exclusive <=> AtMostOne
<1>1. IsFiniteSet(Holding)
  <2>1. 1 \in Int /\ Launches \in Int
    BY Constants
  <2>2. IsFiniteSet(Instances)
    BY <2>1, FS_Interval DEF Instances
  <2> QED BY <2>2, FS_Subset DEF Holding
<1>2. ASSUME AtMostOne PROVE Cardinality(Holding) <= 1
  <2>1. CASE Holding = {}
    BY <2>1, FS_EmptySet
  <2>2. ASSUME NEW j \in Holding PROVE Cardinality(Holding) <= 1
    <3>1. Holding = {j}
      BY <1>2, <2>2 DEF AtMostOne
    <3>2. Cardinality({j}) = 1
      BY FS_Singleton
    <3> QED BY <3>1, <3>2
  <2> QED BY <2>1, <2>2
<1>3. ASSUME Cardinality(Holding) <= 1, NEW j \in Holding, NEW k \in Holding, j # k
      PROVE  FALSE
  <2>1. IsFiniteSet({j}) /\ Cardinality({j}) = 1
    BY FS_Singleton
  <2>2. IsFiniteSet({j} \cup {k}) /\ Cardinality({j} \cup {k}) = 2
    BY <1>3, <2>1, FS_AddElement
  <2>3. Cardinality({j} \cup {k}) <= Cardinality(Holding)
    <3>1. {j} \cup {k} \in SUBSET Holding
      OBVIOUS
    <3> QED BY <1>1, <3>1, FS_Subset
  <2> QED BY <1>1, <1>3, <2>2, <2>3, FS_CardinalityType
<1> QED BY <1>2, <1>3 DEF Exclusive, AtMostOne

\* A launch past the lock is the one that locks the file it has open.
LockHeld == \A i \in Instances : i \in Holding => holder[fh[i]] = i

\* Every open file is the one that has the name.
SameFile == \A i \in Instances : fh[i] # None => fh[i] = pidFile

\* Nobody removes the name of a file that somebody else has open.
NameStays ==
  \A i \in Instances : Unlink(i) => \A j \in Instances \ {i} : fh[j] = None

\* A step that leaves the lock alone.
LeavesLock ==
  /\ UNCHANGED lockVars
  /\ \A j \in Instances : j \in Holding' => j \in Holding
  /\ \A j \in Instances : pc[j] \in {"exited", "killed"} => pc'[j] = pc[j]

LEMMA LockLeft ==
  ASSUME TypeOK, NEW i \in Instances, Alone(i), UNCHANGED lockVars,
         i \in Holding \/ pc'[i] = pc[i]
  PROVE  LeavesLock
BY DEF LeavesLock, Alone, Holding, Ended

LEMMA LockSteps ==
  ASSUME TypeOK, Next
  PROVE  LeavesLock \/ \E i \in Instances : OpenLock(i) \/ TakeLock(i) \/ Unlock(i) \/ Unlink(i) \/ Kill(i)
<1>1. ASSUME MovesTask \/ \E i \in Instances : Edit(i) PROVE LeavesLock
  BY <1>1 DEF MovesTask, Edit, LeavesLock, Holding
<1>2. ASSUME NEW i \in Instances,
             Preflight(i) \/ Top(i) \/ CycleEnd(i) \/ NextTask(i) \/ Rearch(i) \/ Single(i)
      PROVE  LeavesLock
  <2>1. pc[i] \in Between \cup {"preflight"} /\ UNCHANGED lockVars
    BY <1>2 DEF Preflight, Top, CycleEnd, NextTask, Rearch, Single, Between
  <2>2. Alone(i)
    BY <1>2, PreflightStep, TopStep, CycleEndStep, NextTaskStep, RearchStep, SingleStep
  <2> QED BY <2>1, <2>2, LockLeft DEF Holding, Ended, Between
<1>3. ASSUME NEW i \in Instances,
             Retry(i) \/ Terminate(i) \/ Pytest(i) \/ Sanity(i) \/ Add(i) \/ Commit(i)
             \/ OnDone(i) \/ Checkout(i) \/ Clean(i) \/ OnFail(i) \/ Raises(i)
      PROVE  LeavesLock
  <2>1. pc[i] \in Steps
    BY <1>3 DEF Retry, Terminate, Pytest, Sanity, Add, Commit, OnDone, Checkout, Clean, OnFail,
                Raises, Steps
  <2>2. UNCHANGED lockVars
    BY <1>3 DEF Retry, Terminate, Pytest, Sanity, Tests, Add, Commit, OnDone, Checkout, Clean,
                OnFail, Raises
  <2>3. Alone(i)
    BY <1>3, RetryStep, TerminateStep, PytestStep, SanityStep, AddStep, CommitStep, OnDoneStep,
       CheckoutStep, CleanStep, OnFailStep, RaisesStep
  <2> QED BY <2>1, <2>2, <2>3, LockLeft DEF Holding, Ended, Steps
<1>4. ASSUME NEW i \in Instances, Exits(i) \/ Signal(i)
      PROVE  LeavesLock
  <2>1. (pc[i] = "tau" \/ pc'[i] = pc[i]) /\ UNCHANGED lockVars
    BY <1>4 DEF Exits, Signal
  <2>2. Alone(i)
    BY <1>4, ExitsStep, SignalStep
  <2> QED BY <2>1, <2>2, LockLeft DEF Holding, Ended
<1> QED BY <1>1, <1>2, <1>3, <1>4 DEF Next, Loop, Agent

\* The lock passes from nobody to the one that asks, and back to nobody.
LEMMA LockStaysHeld ==
  ASSUME TypeOK, LockHeld, Next
  PROVE  LockHeld'
<1>1. CASE LeavesLock
  BY <1>1 DEF LeavesLock, LockHeld, lockVars
<1>2. ASSUME NEW i \in Instances, OpenLock(i) PROVE LockHeld'
  <2>1. /\ holder' = holder /\ pc' = [pc EXCEPT ![i] = "opened"]
        /\ \A j \in Instances \ {i} : fh'[j] = fh[j]
    BY <1>2 DEF OpenLock, Go, TypeOK, LockOK
  <2> QED BY <2>1 DEF LockHeld, Holding, TypeOK, LaunchOK, Ended
<1>3. ASSUME NEW i \in Instances, TakeLock(i), holder[fh[i]] = None PROVE LockHeld'
  <2>1. /\ fh' = fh /\ holder' = [holder EXCEPT ![fh[i]] = i]
        /\ pc' = [pc EXCEPT ![i] = "preflight"] /\ fh[i] \in Instances
    BY <1>3 DEF TakeLock, Go, TypeOK, LockOK, LaunchOK, Ended
  <2> QED BY <1>3, <2>1, Constants DEF LockHeld, Holding, TypeOK, LockOK, LaunchOK, Ended
<1>4. ASSUME NEW i \in Instances, Ends(i, "exited") \/ Ends(i, "killed") PROVE LockHeld'
  <2>1. /\ fh' = [fh EXCEPT ![i] = None] /\ pc'[i] \in Ended
        /\ holder' = [f \in Instances |-> IF holder[f] = i THEN None ELSE holder[f]]
        /\ \A j \in Instances \ {i} : pc'[j] = pc[j]
    BY <1>4 DEF Ends, Go, TypeOK, LaunchOK, Ended
  <2>2. ASSUME NEW j \in Instances, j \in Holding' PROVE holder'[fh'[j]] = j
    <3>1. j # i /\ j \in Holding
      BY <2>1, <2>2 DEF Holding, Ended
    <3>2. fh[j] \in Instances /\ fh'[j] = fh[j]
      BY <2>1, <3>1 DEF Holding, TypeOK, LockOK
    <3> QED BY <2>1, <3>1, <3>2 DEF LockHeld
  <2> QED BY <2>2 DEF LockHeld
<1>5. ASSUME NEW i \in Instances, Unlock(i) PROVE LockHeld'
  <2>1. /\ fh' = fh /\ holder' = [holder EXCEPT ![fh[i]] = None]
        /\ pc' = [pc EXCEPT ![i] = "unlink"] /\ i \in Holding
    BY <1>5 DEF Unlock, Go, Holding, Ended
  <2>2. ASSUME NEW j \in Instances, j \in Holding' PROVE holder'[fh'[j]] = j
    <3>1. j # i /\ j \in Holding
      BY <2>1, <2>2 DEF Holding, TypeOK, LaunchOK
    <3>2. fh[j] \in Instances /\ fh[j] # fh[i]
      BY <2>1, <3>1 DEF Holding, TypeOK, LockOK, LockHeld
    <3> QED BY <2>1, <3>1, <3>2 DEF LockHeld, TypeOK, LockOK
  <2> QED BY <2>2 DEF LockHeld
<1> QED BY <1>1, <1>2, <1>3, <1>4, <1>5, LockSteps DEF TakeLock, Unlink, Kill

LEMMA FileStaysSame ==
  ASSUME TypeOK, SameFile, Next, NameStays
  PROVE  SameFile'
<1>1. CASE LeavesLock
  BY <1>1 DEF LeavesLock, SameFile, lockVars
<1>2. ASSUME NEW i \in Instances, OpenLock(i) PROVE SameFile'
  <2>1. /\ pidFile' = IF pidFile # None THEN pidFile
                      ELSE Min(Instances \ {fh[j] : j \in Instances})
        /\ fh' = [fh EXCEPT ![i] = pidFile']
    BY <1>2 DEF OpenLock
  <2>2. fh'[i] = pidFile' /\ \A j \in Instances \ {i} : fh'[j] = fh[j]
    BY <2>1 DEF TypeOK, LockOK
  <2>3. ASSUME NEW j \in Instances \ {i}, fh[j] # None PROVE fh[j] = pidFile'
    BY <2>1, <2>3 DEF SameFile
  <2> QED BY <2>2, <2>3 DEF SameFile
<1>3. ASSUME NEW i \in Instances, TakeLock(i), holder[fh[i]] = None PROVE SameFile'
  BY <1>3 DEF TakeLock, SameFile
<1>4. ASSUME NEW i \in Instances, Ends(i, "exited") \/ Ends(i, "killed"), pidFile' = pidFile
      PROVE  SameFile'
  BY <1>4 DEF Ends, SameFile, TypeOK, LockOK
<1>5. ASSUME NEW i \in Instances, Unlink(i) PROVE SameFile'
  <2>1. fh' = [fh EXCEPT ![i] = None] /\ \A j \in Instances \ {i} : fh[j] = None
    BY <1>5 DEF Unlink, Ends, NameStays
  <2> QED BY <2>1 DEF SameFile, TypeOK, LockOK
<1>6. ASSUME NEW i \in Instances, Unlock(i) PROVE SameFile'
  BY <1>6 DEF Unlock, SameFile
<1> QED BY <1>1, <1>2, <1>3, <1>4, <1>5, <1>6, LockSteps DEF TakeLock, Kill

(* One step alone keeps launches from excluding each other: in any         *)
(* behaviour in which no launch that releases the lock removes the name of *)
(* a file that another has open, at most one is past the lock, for any     *)
(* number of launches, wherever they are stopped, killed or started again  *)
(* (dream.py, acquire_lock).  The code does remove it (release_lock, which *)
(* unlocks first), and three launches are enough for two to be in.         *)
THEOREM OnlyUnlinkLetsIn == Spec /\ [][NameStays]_vars => []Exclusive
<1>1. Init => TypeOK /\ LockHeld /\ SameFile
  BY InitTypes DEF Init, LockHeld, SameFile, Holding, Ended
<1>2. TypeOK /\ LockHeld /\ SameFile /\ [Next]_vars /\ [NameStays]_vars
        => (TypeOK /\ LockHeld /\ SameFile)'
  <2>1. ASSUME TypeOK, LockHeld, SameFile, UNCHANGED vars PROVE (LockHeld /\ SameFile)'
    BY <2>1 DEF vars, lockVars, LockHeld, SameFile, Holding
  <2>2. ASSUME TypeOK, LockHeld, SameFile, Next, NameStays
        PROVE  (TypeOK /\ LockHeld /\ SameFile)'
    BY <2>2, Classes, LockStaysHeld, FileStaysSame
  <2> QED BY <2>1, <2>2, StutterTypes
<1>3. TypeOK /\ LockHeld /\ SameFile => Exclusive
  <2> SUFFICES ASSUME TypeOK, LockHeld, SameFile, NEW j \in Holding, NEW k \in Holding, j # k
               PROVE  FALSE
    BY Excluded DEF AtMostOne
  <2>1. fh[j] # None /\ fh[k] # None
    BY DEF TypeOK, LockOK, Holding
  <2>2. fh[j] = pidFile /\ fh[k] = pidFile
    BY <2>1 DEF SameFile, Holding
  <2> QED BY <2>2 DEF LockHeld, Holding
<1> QED BY <1>1, <1>2, <1>3, PTL DEF Spec

-----------------------------------------------------------------------------
(* What launches that exclude each other maintain                          *)

\* A task that nothing has been done about.
NoTrace(t) ==
  /\ t \notin head /\ \A c \in work : c.by[4] # t
  /\ \A j \in Instances : \A a \in agent[j] : a[4] # t

\* An agent runs for the step of its launch, or after the launch was killed.
Agents ==
  \A i \in Instances :
    /\ agent[i] # {} => pc[i] \in {"tau", "killed"}
    /\ \A a \in agent[i] : a[1] = i /\ (pc[i] = "tau" => a[4] = cur[i].task)

\* A launch's task is its own, and open until the step ends or is left.
Own ==
  /\ \A i \in Instances : cur[i].task # None =>
       /\ pc[i] \in Steps \cup Leaving
       /\ pc[i] \in Steps =>
            /\ fate[cur[i].task] \in {"none", "unreverted"}
            /\ pc[i] # "onDone" => cur[i].task \notin head
       /\ pc[i] \in Leaving => fate[cur[i].task] = "left"
  /\ \A i, j \in Instances : cur[i].task # None /\ cur[i].task = cur[j].task => i = j

Fresh ==
  \A t \in Tasks : where[t] = "todo" =>
    fate[t] = "none" /\ NoTrace(t) /\ \A i \in Instances : cur[i].task # t

\* In a step that began on a clean tree, all that is in the tree is the step's.
Clear ==
  \A i \in Instances : pc[i] \in Steps /\ cur[i].clean =>
    /\ \A j \in Instances \ {i} : agent[j] = {}
    /\ \A c \in work : c.by[4] = cur[i].task
    /\ pc[i] \notin {"commit", "onDone"} => index = {}
    /\ pc[i] = "commit" => index = work
    /\ pc[i] = "onDone" => work = {} /\ (cur[i].task # None => cur[i].task \in head)
    /\ pc[i] = "onFail" =>
         (faults = 0 \/ (cur[i].task # None /\ fate[cur[i].task] # "unreverted") => work = {})

\* Without kills and failures of git, steps begin and end on a clean tree.
Faultless ==
  faults = 0 => \A i \in Instances :
    pc[i] # "killed" /\ cur[i].clean /\ (pc[i] \in Between => work = {})

Settled ==
  \A t \in Tasks :
    /\ where[t] = "inprogress" =>
         fate[t] = "left" \/ \E i \in Instances : cur[i].task = t /\ Alive(i)
    /\ fate[t] = "done" => t \in head
    /\ fate[t] = "failed" => NoTrace(t)

\* What was tested is still there, and what was not is an orphan's.
Tested ==
  \A i \in Instances : pc[i] \in {"sanity", "add"} =>
    /\ tested[i] \subseteq work
    /\ \A c \in work \ tested[i] : pc[c.by[1]] = "killed"
    /\ pc[i] = "add" => cur[i].ok

IInv == Agents /\ Own /\ Fresh /\ Clear /\ Faultless /\ Settled /\ Tested

\* While launch j is in a step, the others wait, say nothing or die.
LEMMA Bystander ==
  ASSUME TypeOK, AtMostOne, NEW i \in Instances, Does(i),
         NEW j \in Instances \ {i}, pc[j] \in Steps
  PROVE  /\ Waits(i) \/ Silent(i)
            \/ (GivesUp(i) /\ pc[i] \notin Steps /\ pc'[i] = "killed" /\ agent'[i] = agent[i])
         /\ pc'[j] = pc[j] /\ cur'[j] = cur[j] /\ agent'[j] = agent[j] /\ tested'[j] = tested[j]
<1>1. pc[i] \notin Steps \cup Between
  BY DEF AtMostOne, Holding, Steps, Between, Ended
<1>2. /\ ~GoesOn(i) /\ ~Stages(i) /\ ~Commits(i) /\ ~Reverts(i) /\ ~Settles(i)
      /\ \A t \in Tasks \cup {None} : ~Starts(i, t)
  BY <1>1 DEF GoesOn, Stages, Commits, Reverts, Settles, Starts, Steps
<1>3. GivesUp(i) => pc'[i] = "killed" /\ agent'[i] = agent[i]
  BY <1>1 DEF GivesUp, Steps
<1> QED BY <1>1, <1>2, <1>3 DEF Does, Alone

LEMMA OthersSteps ==
  ASSUME AtMostOne, NEW i \in Instances, pc[i] \in Steps \cup Between,
         NEW j \in Instances \ {i}
  PROVE  pc[j] \notin Steps \cup Between
BY DEF AtMostOne, Holding, Steps, Between, Ended

LEMMA AgentsKept ==
  ASSUME TypeOK, Agents, NEW i \in Instances, Does(i)
  PROVE  Agents'
<1>1. \A j \in Instances \ {i} :
        pc'[j] = pc[j] /\ cur'[j] = cur[j] /\ agent'[j] = agent[j]
  BY DEF Does, Alone
<1>2. SUFFICES /\ agent'[i] # {} => pc'[i] \in {"tau", "killed"}
               /\ \A a \in agent'[i] : a[1] = i /\ (pc'[i] = "tau" => a[4] = cur'[i].task)
  BY <1>1 DEF Agents
<1>3. CASE Waits(i)
  BY <1>3 DEF Waits, Agents, Steps
<1>4. ASSUME NEW t \in Tasks \cup {None}, Starts(i, t)
      PROVE  /\ agent'[i] # {} => pc'[i] \in {"tau", "killed"}
             /\ \A a \in agent'[i] : a[1] = i /\ (pc'[i] = "tau" => a[4] = cur'[i].task)
  BY <1>4 DEF Starts
<1>5. CASE GoesOn(i)
  <2>1. CASE pc'[i] = "tau"
    BY <1>5, <2>1 DEF GoesOn
  <2>2. CASE pc'[i] # "tau"
    BY <1>5, <2>2 DEF GoesOn, Agents
  <2> QED BY <2>1, <2>2
<1>6. CASE Silent(i)
  BY <1>6 DEF Silent, Agents
<1>7. CASE Stages(i) \/ Commits(i) \/ Reverts(i) \/ Settles(i)
  BY <1>7 DEF Stages, Commits, Reverts, Settles, Returns, Keeps, Agents
<1>8. CASE GivesUp(i)
  BY <1>8 DEF GivesUp, Returns, Agents
<1> QED BY <1>3, <1>4, <1>5, <1>6, <1>7, <1>8 DEF Does

\* Only the fate of the task of the launch that steps changes.
LEMMA FateOfOthers ==
  ASSUME TypeOK, NEW i \in Instances, Does(i), NEW t \in Tasks, t # cur[i].task
  PROVE  fate'[t] = fate[t] /\ (where'[t] = where[t] \/ cur'[i].task = t)
<1>1. fate \in [Tasks -> {"none", "left", "unreverted", "moved", "done", "failed", "unclear"}]
      /\ where \in [Tasks -> {"todo", "inprogress", "done", "failed"}]
  BY DEF TypeOK, DiskOK
<1>2. CASE Waits(i) \/ GoesOn(i) \/ Silent(i) \/ Stages(i) \/ Commits(i)
  BY <1>2 DEF Waits, GoesOn, Silent, Stages, Commits, taskVars
<1>3. ASSUME NEW u \in Tasks \cup {None}, Starts(i, u)
      PROVE  fate'[t] = fate[t] /\ (where'[t] = where[t] \/ cur'[i].task = t)
  BY <1>1, <1>3 DEF Starts
<1>4. CASE Reverts(i)
  BY <1>1, <1>4 DEF Reverts
<1>5. CASE Settles(i)
  BY <1>1, <1>5 DEF Settles, Moves, taskVars
<1>6. CASE GivesUp(i)
  BY <1>1, <1>6 DEF GivesUp, Leaves
<1> QED BY <1>2, <1>3, <1>4, <1>5, <1>6 DEF Does

LEMMA OwnKept ==
  ASSUME TypeOK, AtMostOne, Own, Fresh, NEW i \in Instances, Does(i)
  PROVE  Own'
<1> DEFINE Good(j) == cur'[j].task # None =>
             /\ pc'[j] \in Steps \cup Leaving
             /\ pc'[j] \in Steps =>
                  /\ fate'[cur'[j].task] \in {"none", "unreverted"}
                  /\ pc'[j] # "onDone" => cur'[j].task \notin head'
             /\ pc'[j] \in Leaving => fate'[cur'[j].task] = "left"
<1>0. /\ \A j \in Instances \ {i} : pc'[j] = pc[j] /\ cur'[j] = cur[j]
      /\ \A j \in Instances : cur[j].task \in Tasks \cup {None}
  BY DEF Does, Alone, TypeOK, LaunchOK, Activity
<1>1. \/ cur'[i].task = None \/ cur'[i].task = cur[i].task
      \/ cur'[i].task \in Tasks /\ \A j \in Instances : cur[j].task # cur'[i].task
  <2>1. ASSUME NEW t \in Tasks \cup {None}, Starts(i, t)
        PROVE  \/ cur'[i].task = None
               \/ cur'[i].task \in Tasks /\ \A j \in Instances : cur[j].task # cur'[i].task
    BY <2>1 DEF Starts, Fresh
  <2> QED BY <2>1 DEF Does, Waits, GoesOn, Silent, Stages, Commits, Reverts, Settles, GivesUp,
                      Returns, Keeps
<1>2. \A j, k \in Instances : cur'[j].task # None /\ cur'[j].task = cur'[k].task => j = k
  BY <1>0, <1>1 DEF Own
<1>3. ASSUME NEW j \in Instances \ {i} PROVE Good(j)
  <2>1. CASE cur[j].task = None
    BY <1>0, <2>1
  <2>2. CASE cur[j].task # None
    <3>1. cur[j].task \in Tasks /\ cur[j].task # cur[i].task
      BY <1>0, <2>2 DEF Own
    <3>2. fate'[cur[j].task] = fate[cur[j].task]
      BY <3>1, FateOfOthers
    <3>3. CASE pc[j] \in Steps
      <4>1. head' = head
        BY <3>3, Bystander DEF Waits, Silent, GivesUp, treeVars
      <4> QED BY <1>0, <3>2, <3>3, <4>1 DEF Own
    <3>4. CASE pc[j] \notin Steps
      BY <1>0, <3>2, <3>4 DEF Own
    <3> QED BY <3>3, <3>4
  <2> QED BY <2>1, <2>2
<1>4. Good(i)
  <2>0. Steps \cap Leaving = {}
    BY DEF Steps, Leaving
  <2>1. CASE Waits(i)
    BY <2>0, <2>1 DEF Waits, Own, taskVars, treeVars
  <2>2. ASSUME NEW t \in Tasks \cup {None}, Starts(i, t) PROVE Good(i)
    <3>1. CASE t = None
      BY <2>2, <3>1 DEF Starts
    <3>2. CASE t # None
      BY <2>2, <3>2 DEF Starts, Fresh, NoTrace, treeVars, Steps, Leaving
    <3> QED BY <3>1, <3>2
  <2>3. CASE GoesOn(i)
    <3>1. /\ pc[i] \in Steps \ {"onDone"} /\ pc'[i] \in Steps \ {"onDone"}
          /\ cur'[i].task = cur[i].task /\ fate' = fate /\ head' = head
      BY <2>3 DEF GoesOn, Steps, taskVars, treeVars
    <3> QED BY <2>0, <3>1 DEF Own
  <2>4. CASE Silent(i)
    BY <2>4 DEF Silent, Own, taskVars, treeVars
  <2>5. CASE Stages(i) \/ Commits(i)
    <3>1. /\ pc[i] \in Steps \ {"onDone"} /\ pc'[i] \in Steps
          /\ cur'[i].task = cur[i].task /\ fate' = fate /\ (pc'[i] # "onDone" => head' = head)
      BY <2>5 DEF Stages, Commits, Keeps, Steps, taskVars
    <3> QED BY <2>0, <3>1 DEF Own
  <2>6. CASE Reverts(i)
    <3>1. /\ pc[i] \in Steps \ {"onDone"} /\ pc'[i] \in Steps \ {"onDone"}
          /\ cur'[i].task = cur[i].task /\ head' = head
          /\ cur[i].task # None => fate'[cur[i].task] \in {fate[cur[i].task], "unreverted"}
      BY <1>0, <2>6 DEF Reverts, Keeps, Steps, TypeOK, DiskOK
    <3> QED BY <2>0, <3>1 DEF Own
  <2>7. CASE Settles(i)
    BY <2>7 DEF Settles, Returns
  <2>8. CASE GivesUp(i)
    <3>1. CASE cur'[i].task = None
      BY <3>1
    <3>2. CASE cur'[i].task # None
      <4>1. pc[i] \in Steps /\ pc'[i] = "unlock" /\ cur'[i].task = cur[i].task /\ Leaves(i)
        BY <2>8, <3>2 DEF GivesUp, Returns
      <4>2. fate[cur[i].task] \in {"none", "unreverted"} /\ cur[i].task \in Tasks
        BY <1>0, <3>2, <4>1 DEF Own
      <4>3. fate'[cur[i].task] = "left"
        BY <3>2, <4>1, <4>2 DEF Leaves, TypeOK, DiskOK
      <4> QED BY <4>1, <4>3 DEF Steps, Leaving
    <3> QED BY <3>1, <3>2
  <2> QED BY <2>1, <2>2, <2>3, <2>4, <2>5, <2>6, <2>7, <2>8 DEF Does
<1> QED BY <1>2, <1>3, <1>4 DEF Own

\* Nothing but an edit brings a trace, and a run only one of its own task.
LEMMA Traces ==
  ASSUME TypeOK, NEW i \in Instances, Does(i), NEW t \in Tasks, NoTrace(t),
         t # cur[i].task, t # cur'[i].task
  PROVE  NoTrace(t)'
<1>1. /\ \A j \in Instances \ {i} : agent'[j] = agent[j]
      /\ index \subseteq work
  BY DEF Does, Alone, TypeOK, DiskOK
<1>2. work' \subseteq work /\ t \notin head'
  BY <1>1, Constants DEF Does, Waits, Starts, GoesOn, Silent, Stages, Commits, Reverts, Settles, GivesUp,
                treeVars, NoTrace
<1>3. \A a \in agent'[i] : a[4] # t
  <2>1. ASSUME NEW u \in Tasks \cup {None}, Starts(i, u) PROVE \A a \in agent'[i] : a[4] # t
    BY <2>1 DEF Starts
  <2>2. CASE GoesOn(i)
    <3>1. CASE pc'[i] = "tau"
      BY <2>2, <3>1 DEF GoesOn
    <3>2. CASE pc'[i] # "tau"
      BY <2>2, <3>2 DEF GoesOn, NoTrace
    <3> QED BY <3>1, <3>2
  <2>3. CASE agent'[i] \in {agent[i], {}}
    BY <2>3 DEF NoTrace
  <2> QED BY <2>1, <2>2, <2>3 DEF Does, Waits, Silent, Stages, Commits, Reverts, Settles, GivesUp,
                                  Returns, Keeps
<1> QED BY <1>1, <1>2, <1>3 DEF NoTrace

LEMMA FreshKept ==
  ASSUME TypeOK, Own, Fresh, NEW i \in Instances, Does(i)
  PROVE  Fresh'
<1> SUFFICES ASSUME NEW t \in Tasks, where'[t] = "todo"
             PROVE  fate'[t] = "none" /\ NoTrace(t)' /\ \A j \in Instances : cur'[j].task # t
  BY DEF Fresh
<1>0. None \notin Tasks /\ where \in [Tasks -> {"todo", "inprogress", "done", "failed"}]
  BY Constants DEF TypeOK, DiskOK
<1>1. where[t] = "todo" /\ cur'[i].task # t
  <2>1. ASSUME NEW u \in Tasks \cup {None}, Starts(i, u) PROVE where[t] = "todo" /\ u # t /\ cur'[i].task = u
    BY <1>0, <2>1 DEF Starts
  <2>2. CASE Settles(i)
    BY <1>0, <2>2 DEF Settles, Returns, Moves, taskVars
  <2>3. CASE where' = where /\ (cur'[i].task \in {None, cur[i].task})
    BY <1>0, <2>3 DEF Fresh
  <2> QED BY <2>1, <2>2, <2>3 DEF Does, Waits, GoesOn, Silent, Stages, Commits, Reverts, GivesUp,
                                  Returns, Keeps, taskVars
<1>2. fate[t] = "none" /\ NoTrace(t) /\ \A j \in Instances : cur[j].task # t
  BY <1>1 DEF Fresh
<1>3. fate'[t] = fate[t] /\ NoTrace(t)'
  BY <1>1, <1>2, FateOfOthers, Traces
<1> QED BY <1>1, <1>2, <1>3 DEF Does, Alone

LEMMA ClearKept ==
  ASSUME TypeOK, AtMostOne, Agents, Own, Clear, NEW i \in Instances, Does(i)
  PROVE  Clear'
<1> DEFINE Good(j) == pc'[j] \in Steps /\ cur'[j].clean =>
             /\ \A k \in Instances \ {j} : agent'[k] = {}
             /\ \A c \in work' : c.by[4] = cur'[j].task
             /\ pc'[j] \notin {"commit", "onDone"} => index' = {}
             /\ pc'[j] = "commit" => index' = work'
             /\ pc'[j] = "onDone" =>
                  work' = {} /\ (cur'[j].task # None => cur'[j].task \in head')
             /\ pc'[j] = "onFail" =>
                  (faults' = 0 \/ (cur'[j].task # None /\ fate'[cur'[j].task] # "unreverted")
                   => work' = {})
<1>0. /\ index \subseteq work /\ faults \in Nat
      /\ \A j \in Instances \ {i} : agent'[j] = agent[j]
      /\ \A j \in Instances : cur[j].task \in Tasks \cup {None}
  BY DEF Does, Alone, TypeOK, LaunchOK, Activity, DiskOK
<1>1. ASSUME NEW j \in Instances \ {i} PROVE Good(j)
  <2>1. CASE pc[j] \in Steps
    <3>1. /\ pc'[j] = pc[j] /\ cur'[j] = cur[j]
          /\ UNCHANGED treeVars /\ faults' >= faults
          /\ agent'[i] = agent[i] \/ agent'[i] = {}
      BY <1>0, <2>1, Bystander DEF Waits, Silent, GivesUp
    <3>2. cur[j].task # None => fate'[cur[j].task] = fate[cur[j].task]
      BY <1>0, FateOfOthers DEF Own
    <3>3. faults' = 0 => faults = 0
      BY <1>0, <3>1
    <3>4. ASSUME cur[j].clean PROVE \A k \in Instances \ {j} : agent'[k] = {}
      BY <1>0, <2>1, <3>1, <3>4 DEF Clear
    <3>5. UNCHANGED <<index, work, head>>
      BY <3>1 DEF treeVars
    <3> QED BY <2>1, <3>1, <3>2, <3>3, <3>4, <3>5 DEF Clear
  <2>2. CASE pc[j] \notin Steps
    BY <2>2 DEF Does, Alone
  <2> QED BY <2>1, <2>2
<1>2. Good(i)
  <2>1. CASE pc'[i] \notin Steps
    BY <2>1
  <2>2. ASSUME NEW t \in Tasks \cup {None}, Starts(i, t) PROVE Good(i)
    BY <1>0, <2>2 DEF Starts, treeVars
  <2>3. CASE GoesOn(i)
    <3>1. /\ pc[i] \in Steps \ {"commit", "onDone"}
          /\ pc'[i] \notin {"commit", "onDone", "onFail"}
          /\ cur'[i].task = cur[i].task /\ cur'[i].clean = cur[i].clean
          /\ UNCHANGED <<index, work>>
      BY <2>3 DEF GoesOn, Steps, treeVars
    <3> QED BY <1>0, <3>1 DEF Clear
  <2>4. CASE Silent(i)
    BY <1>0, <2>4 DEF Silent, Clear, treeVars, taskVars
  <2>5. CASE Stages(i)
    <3>1. pc[i] \in Steps
      BY <2>5 DEF Stages, Steps
    <3> QED BY <1>0, <2>5, <3>1 DEF Stages, Keeps, Clear
  <2>6. CASE Commits(i)
    <3> SUFFICES ASSUME cur'[i].clean PROVE Good(i)
      OBVIOUS
    <3>1. /\ pc[i] \in Steps /\ cur[i].clean /\ cur'[i].task = cur[i].task
          /\ pc[i] = "commit" /\ pc'[i] = "onDone"
      BY <2>6 DEF Commits, Keeps, Steps
    <3>2. /\ index = work /\ \A c \in work : c.by[4] = cur[i].task
          /\ \A j \in Instances \ {i} : agent[j] = {}
      BY <3>1 DEF Clear
    <3>3. work' = {} /\ cur[i].task \in head'
      BY <2>6, <3>2 DEF Commits
    <3> QED BY <1>0, <3>1, <3>2, <3>3
  <2>7. CASE Reverts(i)
    <3> SUFFICES ASSUME cur'[i].clean PROVE Good(i)
      OBVIOUS
    <3>1. /\ pc[i] \in Steps \ {"commit", "onDone"} /\ cur[i].clean
          /\ cur'[i].task = cur[i].task /\ index' = index
      BY <2>7 DEF Reverts, Keeps, Steps
    <3>2. /\ index = {} /\ \A c \in work : c.by[4] = cur[i].task
          /\ \A j \in Instances \ {i} : agent[j] = {}
      BY <3>1 DEF Clear
    <3>3. work' \subseteq work /\ pc'[i] \in {"clean", "onFail"}
      BY <1>0, <2>7 DEF Reverts
    <3>4. pc'[i] = "onFail" =>
            \/ work' = {}
            \/ faults' > 0 /\ (cur[i].task # None => fate'[cur[i].task] = "unreverted")
      BY <1>0, <2>7, <3>2 DEF Reverts, TypeOK, DiskOK
    <3> QED BY <1>0, <3>1, <3>2, <3>3, <3>4
  <2>8. CASE Waits(i) \/ Settles(i) \/ GivesUp(i)
    BY <2>1, <2>8 DEF Waits, Settles, GivesUp, Returns, Steps, Between
  <2> QED BY <2>2, <2>3, <2>4, <2>5, <2>6, <2>7, <2>8 DEF Does
<1> QED BY <1>1, <1>2 DEF Clear

LEMMA FaultlessKept ==
  ASSUME TypeOK, AtMostOne, Agents, Clear, Faultless, NEW i \in Instances, Does(i)
  PROVE  Faultless'
<1> SUFFICES ASSUME faults' = 0
             PROVE  \A j \in Instances :
                      pc'[j] # "killed" /\ cur'[j].clean /\ (pc'[j] \in Between => work' = {})
  BY DEF Faultless
<1>0. /\ index \subseteq work /\ faults \in Nat
      /\ \A j \in Instances \ {i} : pc'[j] = pc[j] /\ cur'[j] = cur[j]
  BY DEF Does, Alone, TypeOK, DiskOK
<1>1. faults = 0
  BY <1>0 DEF Does, Waits, Starts, GoesOn, Silent, Stages, Commits, Reverts, Settles, GivesUp
<1>2. \A j \in Instances :
        pc[j] # "killed" /\ cur[j].clean /\ (pc[j] \in Between => work = {})
  BY <1>1 DEF Faultless
<1>3. work' \subseteq work
  BY <1>0 DEF Does, Waits, Starts, GoesOn, Silent, Stages, Commits, Reverts, Settles, GivesUp,
              treeVars
<1>4. pc'[i] # "killed" /\ cur'[i].clean /\ (pc'[i] \in Between => work' = {})
  <2>1. CASE Waits(i)
    BY <1>2, <1>3, <2>1 DEF Waits
  <2>2. ASSUME NEW t \in Tasks \cup {None}, Starts(i, t)
        PROVE  pc'[i] # "killed" /\ cur'[i].clean /\ pc'[i] \notin Between
    <3>1. pc[i] \in Between /\ pc'[i] = "tau"
      BY <2>2 DEF Starts
    <3>2. \A j \in Instances : agent[j] = {}
      BY <1>2, <3>1, OthersSteps DEF Agents, Steps, Between
    <3> QED BY <1>2, <2>2, <3>1, <3>2 DEF Starts, Between
  <2>3. CASE GoesOn(i)
    BY <1>2, <2>3 DEF GoesOn, Between
  <2>4. CASE Silent(i)
    BY <1>2, <1>3, <2>4 DEF Silent
  <2>5. CASE Stages(i) \/ Commits(i) \/ Reverts(i)
    BY <1>2, <2>5 DEF Stages, Commits, Reverts, Keeps, Between
  <2>6. CASE Settles(i)
    <3>1. pc[i] \in {"onDone", "onFail"} /\ pc[i] \in Steps
      BY <2>6 DEF Settles, Steps
    <3>2. work = {}
      BY <1>1, <1>2, <3>1 DEF Clear
    <3> QED BY <1>3, <2>6, <3>2 DEF Settles, Returns, Between
  <2>7. CASE GivesUp(i)
    <3>1. CASE pc[i] \in {"add", "commit"} /\ Returns(i) /\ pc[i] = "commit" /\ index = {}
      <4>1. pc[i] \in Steps
        BY <3>1 DEF Steps
      <4>2. work = {}
        BY <1>2, <3>1, <4>1 DEF Clear
      <4> QED BY <1>3, <3>1, <4>2 DEF Returns, Between
    <3>2. CASE pc'[i] = "unlock" /\ cur'[i].clean = cur[i].clean
      BY <1>2, <3>2 DEF Between
    <3> QED BY <2>7, <3>1, <3>2 DEF GivesUp
  <2> QED BY <2>1, <2>2, <2>3, <2>4, <2>5, <2>6, <2>7 DEF Does
<1>5. ASSUME NEW j \in Instances \ {i}
      PROVE  pc'[j] # "killed" /\ cur'[j].clean /\ (pc'[j] \in Between => work' = {})
  BY <1>0, <1>2, <1>3
<1> QED BY <1>4, <1>5

LEMMA SettledKept ==
  ASSUME TypeOK, Agents, Own, Fresh, Clear, Settled, NEW i \in Instances, Does(i)
  PROVE  Settled'
<1> SUFFICES ASSUME NEW t \in Tasks
             PROVE  /\ where'[t] = "inprogress" =>
                         \/ fate'[t] = "left"
                         \/ \E j \in Instances : cur'[j].task = t /\ pc'[j] \notin Ended
                    /\ fate'[t] = "done" => t \in head'
                    /\ fate'[t] = "failed" => NoTrace(t)'
  BY DEF Settled, Alive
<1>0. /\ \A j \in Instances \ {i} : pc'[j] = pc[j] /\ cur'[j] = cur[j] /\ agent'[j] = agent[j]
      /\ t # None
      /\ where \in [Tasks -> {"todo", "inprogress", "done", "failed"}]
      /\ fate \in [Tasks -> {"none", "left", "unreverted", "moved", "done", "failed", "unclear"}]
      /\ (Steps \cup Leaving) \cap Ended = {}
  BY Constants DEF Does, Alone, TypeOK, DiskOK, Steps, Leaving, Ended
<1>1. where[t] = "inprogress" =>
         fate[t] = "left" \/ \E j \in Instances : cur[j].task = t /\ pc[j] \notin Ended
  BY DEF Settled, Alive
<1>2. head \subseteq head'
  BY DEF Does, Waits, Starts, GoesOn, Silent, Stages, Commits, Reverts, Settles, GivesUp, treeVars
<1>3. CASE t # cur[i].task
  <2>1. fate'[t] = fate[t] /\ (where'[t] = where[t] \/ cur'[i].task = t)
    BY <1>3, FateOfOthers
  <2>2. where'[t] = "inprogress" =>
          fate'[t] = "left" \/ \E j \in Instances : cur'[j].task = t /\ pc'[j] \notin Ended
    <3>1. CASE cur'[i].task = t
      <4>1. pc'[i] = "tau"
        BY <1>0, <1>3, <3>1 DEF Does, Waits, Starts, GoesOn, Silent, Stages, Commits, Reverts,
                                Settles, GivesUp, Returns, Keeps
      <4> QED BY <3>1, <4>1 DEF Ended
    <3>2. CASE cur'[i].task # t
      BY <1>0, <1>1, <1>3, <2>1, <3>2
    <3> QED BY <3>1, <3>2
  <2>3. fate'[t] = "failed" => NoTrace(t)'
    <3> SUFFICES ASSUME fate[t] = "failed" PROVE NoTrace(t)'
      BY <2>1
    <3>1. cur'[i].task # t
      <4>1. ASSUME NEW u \in Tasks \cup {None}, Starts(i, u) PROVE cur'[i].task # t
        BY <1>0, <4>1 DEF Starts, Fresh
      <4> QED BY <1>0, <1>3, <4>1 DEF Does, Waits, GoesOn, Silent, Stages, Commits, Reverts,
                                      Settles, GivesUp, Returns, Keeps
    <3> QED BY <1>3, <3>1, Traces DEF Settled
  <2> QED BY <1>2, <2>1, <2>2, <2>3 DEF Settled
<1>4. CASE t = cur[i].task
  <2>0. /\ pc[i] \in Steps \cup Leaving
        /\ pc[i] \in Steps => fate[t] \in {"none", "unreverted"} /\ (pc[i] # "onDone" => t \notin head)
        /\ pc[i] \in Leaving => fate[t] = "left"
    BY <1>0, <1>4 DEF Own
  <2>1. CASE fate' = fate /\ cur'[i].task = t /\ pc'[i] \in Steps \cup Leaving
    BY <1>0, <2>0, <2>1 DEF Ended
  <2>2. CASE Waits(i)
    BY <2>0, <2>2 DEF Waits, taskVars, Steps
  <2>3. ASSUME NEW u \in Tasks \cup {None}, Starts(i, u) PROVE FALSE
    BY <2>0, <2>3 DEF Starts, Steps, Between, Leaving
  <2>4. CASE GoesOn(i) \/ Silent(i) \/ Stages(i) \/ Commits(i)
    BY <1>4, <2>0, <2>1, <2>4 DEF GoesOn, Silent, Stages, Commits, Keeps, Steps, taskVars
  <2>5. CASE Reverts(i)
    <3>1. /\ cur'[i].task = t /\ pc'[i] \notin Ended
          /\ fate'[t] \in {fate[t], "unreverted"} /\ pc[i] \in Steps
      BY <1>0, <1>4, <2>5 DEF Reverts, Keeps, Ended, Steps
    <3> QED BY <1>0, <2>0, <3>1
  <2>6. CASE Settles(i)
    <3>1. pc[i] \in Steps /\ pc[i] \in {"onDone", "onFail"} /\ UNCHANGED <<index, work, head>>
          /\ agent'[i] = agent[i]
      BY <2>6 DEF Settles, Returns, Steps, treeVars
    <3>2. CASE where[t] # "inprogress"
      BY <1>0, <1>4, <2>6, <3>2 DEF Settles, Moves
    <3>3. CASE where[t] = "inprogress"
      <4>1. where'[t] # "inprogress"
        BY <1>0, <1>4, <2>6, <3>3 DEF Settles, Moves
      <4>2. \/ fate'[t] \in {"unreverted", "unclear"}
            \/ fate'[t] = "done" /\ pc[i] = "onDone" /\ cur[i].clean
            \/ /\ fate'[t] = "failed" /\ pc[i] = "onFail" /\ cur[i].clean
               /\ fate[t] # "unreverted"
        BY <1>0, <1>4, <2>0, <2>6, <3>1, <3>3 DEF Settles, Moves
      <4>3. CASE fate'[t] = "done" /\ pc[i] = "onDone" /\ cur[i].clean
        BY <1>0, <1>4, <3>1, <4>1, <4>3 DEF Clear
      <4>4. CASE /\ fate'[t] = "failed" /\ pc[i] = "onFail" /\ cur[i].clean
                 /\ fate[t] # "unreverted"
        <5>1. work = {} /\ \A j \in Instances \ {i} : agent[j] = {}
          BY <1>0, <1>4, <3>1, <4>4 DEF Clear
        <5>2. agent[i] = {}
          BY <4>4 DEF Agents
        <5> QED BY <1>0, <2>0, <3>1, <4>1, <4>4, <5>1, <5>2 DEF NoTrace
      <4> QED BY <4>1, <4>2, <4>3, <4>4
    <3> QED BY <3>2, <3>3
  <2>7. CASE GivesUp(i)
    <3>1. fate'[t] = "left"
      BY <1>0, <1>4, <2>0, <2>7 DEF GivesUp, Leaves
    <3> QED BY <3>1
  <2> QED BY <2>2, <2>3, <2>4, <2>5, <2>6, <2>7 DEF Does
<1> QED BY <1>3, <1>4

LEMMA TestedKept ==
  ASSUME TypeOK, AtMostOne, Tested, NEW i \in Instances, Does(i)
  PROVE  Tested'
<1> SUFFICES ASSUME NEW j \in Instances, pc'[j] \in {"sanity", "add"}
             PROVE  /\ tested'[j] \subseteq work'
                    /\ \A c \in work' \ tested'[j] : pc'[c.by[1]] = "killed"
                    /\ pc'[j] = "add" => cur'[j].ok
  BY DEF Tested
<1>0. \A k \in Instances \ {i} : pc'[k] = pc[k] /\ cur'[k] = cur[k] /\ tested'[k] = tested[k]
  BY DEF Does, Alone
<1>1. \A c \in work : c.by[1] \in Instances
  BY DEF TypeOK, DiskOK, Changes, Runs
<1>2. CASE j # i
  <2>1. pc[j] \in Steps /\ pc[j] = pc'[j]
    BY <1>0, <1>2 DEF Steps
  <2>2. UNCHANGED treeVars /\ (pc[i] # "killed" \/ pc'[i] = pc[i])
    BY <1>2, <2>1, Bystander DEF Waits, Silent, GivesUp, Ended
  <2> QED BY <1>0, <1>1, <1>2, <2>1, <2>2 DEF Tested, treeVars
<1>3. CASE j = i
  <2>1. GoesOn(i) \/ Silent(i)
    BY <1>3 DEF Does, Waits, Starts, Stages, Commits, Reverts, Settles, GivesUp, Returns, Steps,
                Between
  <2>2. CASE Silent(i)
    BY <1>0, <1>1, <1>3, <2>2 DEF Silent, Tested, treeVars
  <2>3. CASE GoesOn(i)
    <3>1. work' = work /\ (pc'[i] = "add" => cur'[i].ok) /\ pc[i] # "killed"
      BY <2>3 DEF GoesOn, treeVars
    <3>2. CASE tested'[i] = work
      BY <1>3, <3>1, <3>2
    <3>3. CASE pc[i] = "sanity" /\ tested'[i] = tested[i]
      BY <1>0, <1>1, <1>3, <3>1, <3>3 DEF Tested
    <3> QED BY <1>3, <2>3, <3>2, <3>3 DEF GoesOn
  <2> QED BY <2>1, <2>2, <2>3
<1> QED BY <1>2, <1>3

LEMMA EditsKeep ==
  ASSUME TypeOK, AtMostOne, IInv, NEW i \in Instances, Edits(i)
  PROVE  IInv'
<1>1. /\ UNCHANGED <<pc, cur, agent, tested, index, head, where, fate, faults>>
      /\ \A j \in Instances : Alive(j)' <=> Alive(j)
  BY DEF Edits, taskVars, Alive
<1>2. PICK by \in agent[i], new \in BOOLEAN : work' = work \cup {[by |-> by, new |-> new]}
  BY DEF Edits
<1>3. by[1] = i /\ pc[i] \in {"tau", "killed"} /\ (pc[i] = "tau" => by[4] = cur[i].task)
  BY DEF IInv, Agents
<1>4. \A c \in work' : c \in work \/ c.by = by
  BY <1>2
<1>5. ASSUME NEW t \in Tasks, NoTrace(t) PROVE NoTrace(t)'
  BY <1>1, <1>4, <1>5 DEF NoTrace
<1>6. Agents' /\ Own'
  BY <1>1 DEF IInv, Agents, Own
<1>7. Fresh' /\ Settled'
  BY <1>1, <1>5 DEF IInv, Fresh, Settled
<1>8. Clear'
  <2> SUFFICES ASSUME NEW j \in Instances, pc[j] \in Steps, cur[j].clean
               PROVE  /\ \A c \in work' : c.by[4] = cur[j].task
                      /\ pc[j] = "tau"
    BY <1>1 DEF IInv, Clear
  <2>1. j = i
    BY DEF IInv, Clear
  <2>2. pc[i] = "tau"
    BY <1>3, <2>1 DEF Steps
  <2>3. \A c \in work : c.by[4] = cur[i].task
    BY <2>1 DEF IInv, Clear
  <2> QED BY <1>3, <1>4, <2>1, <2>2, <2>3
<1>9. Faultless'
  <2> SUFFICES ASSUME faults = 0, NEW j \in Instances, pc[j] \in Between PROVE FALSE
    BY <1>1 DEF IInv, Faultless
  <2>1. pc[i] = "tau"
    BY <1>3 DEF IInv, Faultless
  <2> QED BY <2>1, OthersSteps DEF Steps, Between
<1>10. Tested'
  <2> SUFFICES ASSUME NEW j \in Instances, pc[j] \in {"sanity", "add"}
               PROVE  pc[i] = "killed"
    BY <1>1, <1>2, <1>3, <1>4 DEF IInv, Tested
  <2> QED BY <1>3, OthersSteps DEF Steps
<1> QED BY <1>6, <1>7, <1>8, <1>9, <1>10 DEF IInv

LEMMA PutsAwayKeeps ==
  ASSUME TypeOK, IInv, PutsAway
  PROVE  IInv'
<1>1. /\ UNCHANGED <<pc, cur, agent, tested, index, work, head, fate, faults>>
      /\ \A j \in Instances : Alive(j)' <=> Alive(j)
      /\ \A t \in Tasks : NoTrace(t)' <=> NoTrace(t)
  BY DEF PutsAway, treeVars, Alive, NoTrace
<1>2. \A t \in Tasks : where'[t] \in {where[t], "done", "failed"}
  BY DEF PutsAway, TypeOK, DiskOK
<1>3. Agents' /\ Own' /\ Clear' /\ Faultless' /\ Tested'
  BY <1>1 DEF IInv, Agents, Own, Clear, Faultless, Tested
<1>4. Fresh' /\ Settled'
  BY <1>1, <1>2 DEF IInv, Fresh, Settled
<1> QED BY <1>3, <1>4 DEF IInv

LEMMA Begun == Init => IInv
<1> SUFFICES ASSUME Init PROVE IInv
  OBVIOUS
<1> USE DEF Init, Steps, Between, Leaving
<1>1. Agents /\ Own
  BY EmptyStep DEF Agents, Own
<1>2. Fresh /\ Settled
  BY EmptyStep, Constants DEF Fresh, Settled, NoTrace
<1>3. Clear /\ Faultless /\ Tested
  BY EmptyStep DEF Clear, Faultless, Tested
<1> QED BY <1>1, <1>2, <1>3 DEF IInv

\* The invariant holds as long as launches exclude each other.
LEMMA Inductive ==
  TypeOK /\ Exclusive /\ IInv /\ [Next]_vars => IInv'
<1> SUFFICES ASSUME TypeOK, AtMostOne, IInv, [Next]_vars PROVE IInv'
  BY Excluded
<1>1. ASSUME NEW i \in Instances, Does(i) PROVE IInv'
  BY <1>1, AgentsKept, OwnKept, FreshKept, ClearKept, FaultlessKept, SettledKept, TestedKept
     DEF IInv
<1>2. CASE UNCHANGED vars
  <2>1. UNCHANGED <<pc, cur, agent, tested, index, work, head, where, fate, faults>>
    BY <1>2 DEF vars, treeVars, taskVars
  <2>2. Agents' /\ Own' /\ Clear' /\ Faultless' /\ Tested'
    BY <2>1 DEF IInv, Agents, Own, Clear, Faultless, Tested
  <2>3. Fresh' /\ Settled'
    BY <2>1 DEF IInv, Fresh, Settled, NoTrace, Alive
  <2> QED BY <2>2, <2>3 DEF IInv
<1> QED BY <1>1, <1>2, EditsKeep, PutsAwayKeeps, Classes

-----------------------------------------------------------------------------
(* What it makes of the launches                                           *)

(* Where launches exclude each other, whatever their number, every task is *)
(* where its outcome says: what is done is in HEAD, what has failed has    *)
(* left no trace, and nothing is forgotten in progress, unless a kill, a   *)
(* failure of git or a dirty start comes in between (dream_steps.py,       *)
(* step_process_tasks, _commit_or_revert).                                 *)
THEOREM TasksAreSettled == Spec /\ []Exclusive => []TasksSettled
<1>1. TypeOK /\ IInv => TasksSettled
  <2> SUFFICES ASSUME TypeOK, IInv PROVE TasksSettled
    OBVIOUS
  <2>1. \A t \in Tasks :
          /\ where[t] = "inprogress" =>
                \/ fate[t] = "left"
                \/ \E i \in Instances : cur[i].task = t /\ Alive(i)
          /\ fate[t] = "done" => t \in head
          /\ fate[t] = "failed" => t \notin head /\ \A c \in work : c.by[4] # t
    BY DEF IInv, Settled, NoTrace
  <2>2. \A i \in Instances : cur[i].clean \/ faults > 0
    BY DEF IInv, Faultless, TypeOK, DiskOK
  <2> QED BY <2>1, <2>2 DEF TasksSettled
<1> QED BY <1>1, Begun, Inductive, TypeCorrect, PTL DEF Spec

(* Where launches exclude each other, whatever their number, what goes to  *)
(* the commit is what the step's own tests passed on, and otherwise only   *)
(* what an agent changed whose launch was killed (dream_steps.py, run_tau, *)
(* _run_tau_and_test).                                                     *)
THEOREM CommitsAreTested == Spec /\ []Exclusive => CommitsTested
<1> DEFINE Sound == \A i \in Instances : pc[i] = "add" /\ pc'[i] = "commit" =>
             /\ cur[i].ok /\ tested[i] \subseteq index'
             /\ \A c \in index' \ tested[i] : pc[c.by[1]] = "killed"
<1>1. TypeOK /\ IInv /\ [Next]_vars => [Sound]_vars
  <2> SUFFICES ASSUME TypeOK, IInv, Next, NEW i \in Instances, pc[i] = "add", pc'[i] = "commit"
               PROVE  /\ cur[i].ok /\ tested[i] \subseteq index'
                      /\ \A c \in index' \ tested[i] : pc[c.by[1]] = "killed"
    OBVIOUS
  <2>1. Does(i)
    BY Classes DEF PutsAway, Edits, Does, Alone
  <2>2. index' = work
    <3>1. ~Waits(i) /\ ~GoesOn(i) /\ ~Silent(i) /\ ~Commits(i) /\ ~Reverts(i) /\ ~Settles(i)
      BY DEF Waits, GoesOn, Silent, Commits, Reverts, Settles, Steps
    <3>2. ~GivesUp(i) /\ \A t \in Tasks \cup {None} : ~Starts(i, t)
      BY DEF GivesUp, Returns, Starts, Between
    <3> QED BY <2>1, <3>1, <3>2 DEF Does, Stages
  <2> QED BY <2>2 DEF IInv, Tested
<1> QED BY <1>1, Begun, Inductive, TypeCorrect, PTL DEF Spec, CommitsTested

=============================================================================
