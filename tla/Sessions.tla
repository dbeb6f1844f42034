------------------------------ MODULE Sessions ------------------------------
(***************************************************************************)
(* The files of sessions: the contexts that agents save in the log         *)
(* directory (agent_session.py, agent_context_store.py), the registry of   *)
(* them, which every process reads once and writes whole                   *)
(* (agent_session_registry.py), the rotation of old ones into the archive  *)
(* behind symbolic links (dream_steps.py, step_log_rotate), and the lists  *)
(* from which /continue and --continue choose (agent_context_utils.py,     *)
(* commands/continue.py).                                                  *)
(*                                                                         *)
(* A session s has two places, "log" and "arch"; the link that rotation    *)
(* makes at "log" leads to "arch".  A context is the set of the turns it   *)
(* records, a turn being the agent that took it and its number.            *)
(***************************************************************************)
EXTENDS Integers, Sequences, FiniteSets, SequencesExt

CONSTANTS Agents,        \* processes, each with a session of its name
          Old,           \* sessions that ended before
          Browsing,      \* the agents that look for other contexts
          Parent,        \* the parent process a session's name carries
          MaxTurns,      \* bound on the turns of an agent
          MaxRotations,  \* bound on rotations
          MaxBatch,      \* bound on what a rotation takes on
          MaxFaults      \* bound on kills of the rotation and failing links

ASSUME SessionsAssumption ==
    /\ Agents \cap Old = {} /\ Browsing \subseteq Agents /\ "dream" \notin Agents
    /\ IsFiniteSet(Agents) /\ IsFiniteSet(Old)
    /\ MaxTurns \in Nat /\ MaxRotations \in Nat /\ MaxBatch \in Nat /\ MaxFaults \in Nat

Sessions == Agents \cup Old
Dream == "dream"
Procs == Agents \cup {Dream}
Files == {"log", "arch"} \X Sessions

VARIABLES pc, ctx, mem, taken,            \* of an agent
          snap, found,                    \* its snapshot, and one in the making
          disk, cache,                    \* the registry, and copies of it
          at, order,                      \* the files
          rot, rotations, faults,         \* the rotation
          saved, writers, undone, misled, missed  \* history, for the properties

agentVars == <<pc, ctx, mem, taken>>
listVars == <<snap, found>>
fileVars == <<at, order>>
rotVars == <<rot, rotations, faults>>
saveVars == <<saved, writers>>
vars == <<agentVars, listVars, disk, cache, fileVars, rotVars, saveVars, undone, misled, missed>>

Unread == [s \in Sessions |-> "unread"]
NoSnap == [made |-> FALSE, paths |-> <<>>, newer |-> {}, own |-> <<>>]
Idle == [step |-> "idle", s |-> "", todo |-> {}, ok |-> FALSE]

Absent == [kind |-> "none", turns |-> {}]
Link == [kind |-> "link", turns |-> {}]
Placeholder == [kind |-> "empty", turns |-> {}]
Context(turns) == [kind |-> "file", turns |-> turns]

Init == /\ pc = [p \in Agents |-> "new"]
        /\ ctx = [p \in Agents |-> <<"log", p>>]
        /\ mem = [p \in Agents |-> {}]
        /\ taken = [p \in Agents |-> 0]
        /\ snap = [p \in Agents |-> NoSnap]
        /\ found = [p \in Agents |-> <<>>]
        /\ disk = [s \in Sessions |-> IF s \in Old THEN "active" ELSE "none"]
        /\ cache = [q \in Procs |-> Unread]
        /\ at = [f \in Files |-> IF f[1] = "log" /\ f[2] \in Old
                                 THEN Context({<<f[2], 1>>}) ELSE Absent]
        /\ order \in SetToSeqs({"log"} \X Old)
        /\ rot = Idle /\ rotations = 0 /\ faults = 0
        /\ saved = [s \in Sessions |-> IF s \in Old THEN {<<s, 1>>} ELSE {}]
        /\ writers = [s \in Sessions |-> {}]
        /\ undone = {} /\ misled = {}
        /\ missed = [p \in Agents |-> {}]
-----------------------------------------------------------------------------
(***************************************************************************)
(* Files.                                                                  *)
(***************************************************************************)
\* The elements of a list that are in a set.
Only(files, list) ==
    LET kept[n \in 0 .. Len(list)] ==
            IF n = 0 THEN <<>>
            ELSE IF list[n] \in files THEN Append(kept[n - 1], list[n]) ELSE kept[n - 1]
    IN  kept[Len(list)]

\* A link that was moved into the archive leads to itself.
Resolve(f) == IF at[f].kind = "link" THEN <<"arch", f[2]>> ELSE f
Exists(f) == at[Resolve(f)].kind \in {"file", "empty"}
Readable(f) == at[Resolve(f)].kind = "file"

\* The files that are newer than a snapshot's stamp; a rename keeps the time.
Dated(f) == [p \in Agents |-> IF snap[p].made THEN [snap[p] EXCEPT !.newer = @ \cup {f}]
                              ELSE snap[p]]

Redated(f, g) ==
    [p \in Agents |-> [snap[p] EXCEPT !.newer = IF f \in @ THEN (@ \ {f}) \cup {g} ELSE @ \ {g}]]

\* os.replace puts a file where a link was; it is the newest one.
Write(f, what) ==
    /\ at' = [at EXCEPT ![f] = what]
    /\ order' = <<f>> \o Only(Files \ {f}, order)

Rename(f, g) ==
    LET kept == Only(Files \ {g}, order)
    IN  /\ at' = [at EXCEPT ![g] = at[f], ![f] = Absent]
        /\ order' = [k \in DOMAIN kept |-> IF kept[k] = f THEN g ELSE kept[k]]
        /\ snap' = Redated(f, g)
-----------------------------------------------------------------------------
(***************************************************************************)
(* The registry.                                                           *)
(***************************************************************************)
\* get_registry: the file as it is now; an empty one is rebuilt from the
\* directory.
Registry(files) == IF \E s \in Sessions : disk[s] # "none" THEN disk
            ELSE [s \in Sessions |-> IF files[<<"log", s>>].kind # "none" THEN "active" ELSE "none"]

\* Every change is made to the copy, and the whole copy is saved.
Saves(q, entries) ==
    /\ cache' = [cache EXCEPT ![q] = entries]
    /\ disk' = entries
    /\ undone' = undone \cup {s \in Sessions : disk[s] = "archived" /\ entries[s] # "archived"}

\* The path of an entry.  "kept" is archived but for its context, which a
\* failed link left in the log directory.
Entry(q, s) == IF cache[q][s] = "archived" THEN <<"arch", s>> ELSE <<"log", s>>
-----------------------------------------------------------------------------
(***************************************************************************)
(* Lists of contexts.                                                      *)
(***************************************************************************)
\* A bug for the checks: the directory is not looked at when the registry has
\* contexts.
OfferedByRegistry(p) ==
    LET known == {f \in {Entry(p, s) : s \in {t \in Sessions : cache[p][t] # "none"}} :
                    Readable(f)}
    IN  IF known # {} THEN {Resolve(f) : f \in known}
        ELSE {Resolve(f) : f \in {g \in {"log"} \X Sessions : Readable(g)}}

\* get_all_context_files: the union of the registry and the directory, every
\* file once.
Offered(p) ==
    {Resolve(f) : f \in {g \in {Entry(p, s) : s \in {t \in Sessions : cache[p][t] # "none"}}
                               \cup ({"log"} \X Sessions) : Readable(g)}}

\* The path under which a file is offered: the registry's comes first.
PathOf(p, f) == IF cache[p][f[2]] # "none" /\ Resolve(Entry(p, f[2])) = f
                THEN Entry(p, f[2]) ELSE <<"log", f[2]>>

NewestFirst(files) == Only(files, order)

\* The context file at the first use of /continue is left out of every list.
Own(p) == IF snap[p].own = <<>> THEN ctx[p] ELSE snap[p].own

Valid(p) == NewestFirst(Offered(p) \ {Resolve(Own(p))})

Paths(p, files) == [n \in DOMAIN files |-> PathOf(p, files[n])]

\* A rotation has moved the context of s and not linked it, or was killed then.
Between(s) == at[<<"log", s>>].kind = "none" /\ at[<<"arch", s>>].kind # "none"


Probed(p) == ToSet(snap[p].paths) \cup ({"log"} \X Sessions)

\* _continue_cache_is_stale: a file of the snapshot or of the log directory is
\* newer, and is not the one the agent started with.
Stale(p) == \E f \in Probed(p) : /\ Exists(f) /\ Resolve(f) # Resolve(snap[p].own)
                                /\ Resolve(f) \in snap[p].newer

\* What changes between the scan and the stamp is older than the stamp.
Missing(s) == [p \in Agents |-> IF pc[p] \in {"check", "stamp"} THEN missed[p] \cup {s}
                               ELSE missed[p]]
-----------------------------------------------------------------------------
(***************************************************************************)
(* Agents.                                                                 *)
(***************************************************************************)
\* The name is claimed by a file without bytes; get_registry comes next.
Start(p) ==
    /\ pc[p] = "new"
    /\ pc' = [pc EXCEPT ![p] = "read"]
    /\ Write(<<"log", p>>, Placeholder)
    /\ snap' = Dated(<<"log", p>>) /\ missed' = Missing(p)
    /\ cache' = [cache EXCEPT ![p] = Registry(at')]
    /\ disk' = Registry(at')
    /\ UNCHANGED <<ctx, mem, taken, found, rotVars, saveVars, undone, misled>>

\* At the start, and again for every child: they share the name.
Register(p) ==
    /\ pc[p] \in {"read", "running"}
    /\ pc' = [pc EXCEPT ![p] = "running"]
    /\ Saves(p, [cache[p] EXCEPT ![p] = "active"])
    /\ UNCHANGED <<ctx, mem, taken, listVars, fileVars, rotVars, saveVars, misled, missed>>

\* What fails to load leaves the messages as they are; the file to save to is
\* another one all the same.
Load(p, path) ==
    /\ ctx' = [ctx EXCEPT ![p] = path]
    /\ mem' = [mem EXCEPT ![p] = IF Readable(path) THEN at[Resolve(path)].turns ELSE @]
    /\ UNCHANGED <<taken, snap, disk, cache, fileVars, rotVars, saveVars, undone, misled, missed>>

\* --continue: the newest of the same parent, or the newest of all.
StartFrom(p) ==
    /\ p \in Browsing /\ pc[p] = "running" /\ taken[p] = 0 /\ ctx[p] = <<"log", p>> /\ ~snap[p].made
    /\ LET all == NewestFirst(Offered(p) \ {Resolve(ctx[p])})
           mine == Only({f \in Files : Parent[f[2]] = Parent[p]}, all)
       IN  /\ all # <<>>
           /\ Load(p, PathOf(p, Head(IF mine # <<>> THEN mine ELSE all)))
    /\ UNCHANGED <<pc, found>>

\* A new snapshot is due; the old one serves nobody from here on.  The file the
\* agent has at its first list stays out of all of them.
Rebuild(p) ==
    /\ pc' = [pc EXCEPT ![p] = "scan"]
    /\ snap' = [snap EXCEPT ![p] = [NoSnap EXCEPT !.own = Own(p)]]
    /\ missed' = [missed EXCEPT ![p] = {}]

\* /continue list.
List(p) ==
    /\ p \in Browsing /\ pc[p] = "running"
    /\ Rebuild(p)
    /\ UNCHANGED <<ctx, mem, taken, found, disk, cache, fileVars, rotVars, saveVars, undone,
                   misled>>

\* /continue n; without a number, n is 1.
Continue(p) ==
    /\ p \in Browsing /\ pc[p] = "running"
    /\ IF snap[p].made /\ ~Stale(p)
       THEN pc' = [pc EXCEPT ![p] = "load"] /\ UNCHANGED <<snap, missed>>
       ELSE Rebuild(p)
    /\ UNCHANGED <<ctx, mem, taken, found, disk, cache, fileVars, rotVars, saveVars, undone,
                   misled>>

\* get_all_context_files: the files that are there, and their order, ...
Scan(p) ==
    /\ pc[p] = "scan"
    /\ pc' = [pc EXCEPT ![p] = "check"]
    /\ found' = [found EXCEPT ![p] = Paths(p, NewestFirst(Offered(p)))]
    /\ missed' = [missed EXCEPT ![p] = {s \in Sessions : Between(s)}]
    /\ UNCHANGED <<ctx, mem, taken, snap, disk, cache, fileVars, rotVars, saveVars, undone, misled>>

\* ... then those of them that can be read and are not the agent's own, ...
Check(p) ==
    /\ pc[p] = "check"
    /\ pc' = [pc EXCEPT ![p] = "stamp"]
    /\ found' = [found EXCEPT ![p] =
                    Only({f \in Files : Readable(f) /\ Resolve(f) # Resolve(Own(p))}, @)]
    /\ UNCHANGED <<ctx, mem, taken, snap, disk, cache, fileVars, rotVars, saveVars, undone,
                   misled, missed>>

\* ... and the time, which is that of the end.  The list is shown, or a number of
\* it is loaded.
TakeStamp(p) ==
    /\ pc[p] = "stamp"
    /\ \E to \in {"running", "load"} : pc' = [pc EXCEPT ![p] = to]
    /\ snap' = [snap EXCEPT ![p] = [made |-> TRUE, paths |-> found[p], newer |-> {}, own |-> @.own]]
    /\ found' = [found EXCEPT ![p] = <<>>]
    /\ UNCHANGED <<ctx, mem, taken, disk, cache, fileVars, rotVars, saveVars, undone, misled,
                   missed>>

\* A number of the snapshot, or one that is too large.
LoadNumber(p) ==
    /\ pc[p] = "load"
    /\ pc' = [pc EXCEPT ![p] = "running"]
    /\ UNCHANGED found
    /\ \/ \E n \in DOMAIN snap[p].paths : Load(p, snap[p].paths[n])
       \/ UNCHANGED <<ctx, mem, taken, snap, disk, cache, fileVars, rotVars, saveVars, undone,
                      misled, missed>>

\* save_to_file.
Save(p, turns) ==
    /\ Write(ctx[p], Context(turns))
    /\ saved' = [saved EXCEPT ![ctx[p][2]] = turns]
    /\ writers' = [writers EXCEPT ![ctx[p][2]] = @ \cup {p}]

\* A turn, and the save that follows it.
Turn(p) ==
    /\ pc[p] = "running" /\ taken[p] < MaxTurns
    /\ taken' = [taken EXCEPT ![p] = @ + 1]
    /\ mem' = [mem EXCEPT ![p] = @ \cup {<<p, taken'[p]>>}]
    /\ Save(p, mem'[p])
    /\ snap' = Dated(ctx[p]) /\ missed' = Missing(ctx[p][2])
    /\ UNCHANGED <<pc, ctx, found, disk, cache, rotVars, undone, misled>>

\* An exit saves, whatever there is, and what was in memory is gone.  A kill
\* does not: an agent that is killed is one that takes no more steps.
Exit(p) ==
    /\ pc[p] = "running"
    /\ pc' = [pc EXCEPT ![p] = "ended"]
    /\ Save(p, mem[p])
    /\ ctx' = [ctx EXCEPT ![p] = <<"log", p>>]
    /\ mem' = [mem EXCEPT ![p] = {}]
    /\ cache' = [cache EXCEPT ![p] = Unread]
    /\ snap' = [Dated(ctx[p]) EXCEPT ![p] = NoSnap]
    /\ missed' = [Missing(ctx[p][2]) EXCEPT ![p] = {}]
    /\ UNCHANGED <<taken, found, disk, rotVars, undone, misled>>
-----------------------------------------------------------------------------
(***************************************************************************)
(* The rotation.                                                           *)
(***************************************************************************)
Fault == faults < MaxFaults /\ faults' = faults + 1

\* Active entries whose file is there and was not changed in five minutes: the
\* ones past their age, or else the oldest when the directory is too large.
\* Time may have passed: these are any of them.
Select ==
    /\ rot = Idle /\ rotations < MaxRotations
    /\ LET entries == IF cache[Dream] = Unread THEN Registry(at) ELSE cache[Dream]
       IN  /\ cache' = [cache EXCEPT ![Dream] = entries]
           /\ disk' = IF cache[Dream] = Unread THEN entries ELSE disk
           /\ \E todo \in SUBSET {s \in Sessions : entries[s] = "active" /\ Exists(<<"log", s>>)} :
                 /\ Cardinality(todo) <= MaxBatch
                 /\ rot' = IF todo = {} THEN Idle ELSE [Idle EXCEPT !.step = "pick", !.todo = todo]
    /\ rotations' = rotations + 1
    /\ UNCHANGED <<agentVars, listVars, fileVars, faults, saveVars, undone, misled, missed>>

\* Nothing else takes a context away: the file is there.
Move(s) ==
    /\ rot.step = "pick" /\ s \in rot.todo /\ Exists(<<"log", s>>)
    /\ rot' = [rot EXCEPT !.step = "moved", !.s = s, !.todo = @ \ {s}, !.ok = FALSE]
    /\ Rename(<<"log", s>>, <<"arch", s>>)
    /\ misled' = IF at[<<"log", s>>].kind = "link" THEN misled \cup {s} ELSE misled
    /\ missed' = Missing(s)
    /\ UNCHANGED <<agentVars, found, disk, cache, rotations, faults, saveVars, undone>>

\* A name that was taken in the meantime makes the link fail; when the link
\* fails otherwise the file is moved back.
MakeLink ==
    /\ rot.step = "moved"
    /\ LET log == <<"log", rot.s>>
       IN  \/ /\ at[log].kind = "none"
              /\ at' = [at EXCEPT ![log] = Link]
              /\ rot' = [rot EXCEPT !.step = "record", !.ok = TRUE]
              /\ UNCHANGED <<order, snap, faults>>
           \/ /\ at[log].kind # "none"
              /\ rot' = [rot EXCEPT !.step = "record"]
              /\ UNCHANGED <<fileVars, snap, faults>>
           \/ /\ at[log].kind = "none" /\ Fault
              /\ IF Exists(<<"arch", rot.s>>) THEN Rename(<<"arch", rot.s>>, log)
                 ELSE UNCHANGED <<fileVars, snap>>
              /\ rot' = [rot EXCEPT !.step = "record"]
    /\ UNCHANGED <<agentVars, found, disk, cache, rotations, saveVars, undone, misled, missed>>

\* A bug for the checks: the registry is not told.
ForgetsArchive ==
    /\ rot.step = "record"
    /\ rot' = [rot EXCEPT !.step = "pick"]
    /\ UNCHANGED <<agentVars, listVars, disk, cache, fileVars, rotations, faults, saveVars,
                   undone, misled, missed>>

\* archive_session, when anything was moved: the context, or only the audit or
\* the plan.
Record ==
    /\ rot.step = "record"
    /\ rot' = [rot EXCEPT !.step = "pick"]
    /\ \/ /\ rot.ok
          /\ Saves(Dream, [cache[Dream] EXCEPT ![rot.s] = "archived"])
       \/ /\ ~rot.ok
          /\ \/ Saves(Dream, [cache[Dream] EXCEPT ![rot.s] = "kept"])
             \/ UNCHANGED <<disk, cache, undone>>
    /\ UNCHANGED <<agentVars, listVars, fileVars, rotations, faults, saveVars, misled, missed>>

\* cleanup_orphans: entries without any file go.
CleanUp ==
    /\ rot.step = "pick" /\ rot.todo = {}
    /\ rot' = Idle
    /\ \E orphans \in SUBSET {s \in Sessions : /\ cache[Dream][s] # "none"
                                               /\ ~Exists(Entry(Dream, s))} :
          IF orphans = {} THEN UNCHANGED <<disk, cache, undone>>
          ELSE Saves(Dream, [s \in Sessions |-> IF s \in orphans THEN "none"
                                                ELSE cache[Dream][s]])
    /\ UNCHANGED <<agentVars, listVars, fileVars, rotations, faults, saveVars, misled, missed>>

\* The loop ends between two rotations, or is killed within one.
DreamEnds ==
    /\ cache[Dream] # Unread
    /\ IF rot = Idle THEN UNCHANGED faults ELSE Fault
    /\ cache' = [cache EXCEPT ![Dream] = Unread]
    /\ rot' = Idle
    /\ undone' = IF rot.step = "moved" \/ (rot.step = "record" /\ rot.ok)
                 THEN undone \cup {rot.s} ELSE undone
    /\ UNCHANGED <<agentVars, listVars, disk, fileVars, rotations, saveVars, misled, missed>>

Rotation == Select \/ MakeLink \/ Record \/ CleanUp \/ DreamEnds
            \/ \E s \in Sessions : Move(s)

Next == \/ \E p \in Agents :
              \/ Start(p) \/ Register(p) \/ StartFrom(p) \/ Turn(p) \/ Exit(p)
              \/ List(p) \/ Continue(p) \/ Scan(p) \/ Check(p) \/ TakeStamp(p) \/ LoadNumber(p)
        \/ Rotation

Spec == Init /\ [][Next]_vars
-----------------------------------------------------------------------------
(* What was last saved under a session's name is offered to every agent,   *)
(* however many rotations have moved it and however old the copies of the  *)
(* registry are, also when the record of a rotation was overwritten or     *)
(* never made.  Not so between the move and the link of a rotation, nor    *)
(* once a rotation has moved the link like a context, nor when two agents  *)
(* have saved under that name (agent_context_utils.py,                     *)
(* get_all_context_files; agent_session_registry.py, _save).               *)
LastSaveOffered ==
    \A p \in Agents, s \in Sessions :
        /\ pc[p] = "running"
        /\ Cardinality(writers[s]) <= 1 /\ (s \in Old \/ writers[s] # {})
        /\ ~Between(s) /\ s \notin misled
        => \E f \in Offered(p) : f[2] = s /\ at[f].turns = saved[s]


(* The name of a session leads to what was last saved under it, whatever   *)
(* rotations and saves have done to the files, unless the record of its    *)
(* rotation was undone, by a kill or by a process that saves an older copy *)
(* of the registry, or two agents have saved under that name               *)
(* (dream_steps.py, step_log_rotate).                                      *)
KeptAtName ==
    \A s \in Sessions :
        /\ s \notin undone /\ Cardinality(writers[s]) <= 1
        /\ s \in Old \/ writers[s] # {}
        /\ ~(rot.step = "moved" /\ rot.s = s)
        => /\ Readable(<<"log", s>>)
           /\ at[Resolve(<<"log", s>>)].turns = saved[s]

(* What the rotation says of itself: --continue works on, since every      *)
(* link leads to a file (dream_steps.py, step_log_rotate).                 *)
LinksLead == \A s \in Sessions : at[<<"log", s>>].kind = "link" => Exists(<<"log", s>>)

(* What the list says of itself: a number stands for the same file as long *)
(* as no new list is shown (commands/continue.py, _get_valid_context_files)*)
NumbersStand ==
    [][\A p \in Agents : pc[p] = "running" /\ snap[p].made /\ pc'[p] # "running" =>
          snap'[p].paths = snap[p].paths]_vars
=============================================================================
