---------------------------- MODULE TaskManager -----------------------------
(* wiki-storage/src/task_manager.rs: the map of in-flight tasks that makes   *)
(* concurrent requests for one id share one run.                             *)
(*                                                                           *)
(* A member of Callers is one call of run_or_join; the task that a call      *)
(* spawns is named after it.  A critical section of the mutex is one action, *)
(* so calls interleave between the two sections of run_or_join.              *)
CONSTANTS
    Callers,    \* calls of run_or_join
    Keys,       \* ids
    Droppable,  \* the calls whose future may be dropped while it waits: those
                \* made by a request handler, not those of a detached task
    None

ASSUME CallersAssumption == None \notin Callers /\ None \notin Keys
ASSUME DroppableAssumption == Droppable \subseteq Callers

VARIABLES
    tasks,      \* tasks[k]: the entry of the map under k, or None
    run,        \* run[c]: the task spawned by c (tokio::spawn, so detached)
    pc,         \* pc[c]: where call c stands
    key,        \* key[c]: the id given to call c
    joined      \* joined[c]: the task whose Shared future c awaits

vars == <<tasks, run, pc, key, joined>>

Outcomes == {"ok", "error"}          \* a panic of the task is an error

TypeOK == /\ tasks \in [Keys -> Callers \cup {None}]
          /\ run \in [Callers -> {"none", "running"} \cup Outcomes]
          /\ pc \in [Callers -> {"idle", "waiting", "resolved", "returned", "dropped"}]
          /\ key \in [Callers -> Keys \cup {None}]
          /\ joined \in [Callers -> Callers \cup {None}]

Init == /\ tasks = [k \in Keys |-> None]
        /\ run = [c \in Callers |-> "none"]
        /\ pc = [c \in Callers |-> "idle"]
        /\ key = [c \in Callers |-> None]
        /\ joined = [c \in Callers |-> None]

HasPending(k) == tasks[k] # None

(* Somebody polled the Shared future of t to completion: entry.peek() is Some. *)
Polled(t) == \E c \in Callers : joined[c] = t /\ pc[c] \in {"resolved", "returned"}

Wait(c, k, t) == /\ pc' = [pc EXCEPT ![c] = "waiting"]
                 /\ key' = [key EXCEPT ![c] = k]
                 /\ joined' = [joined EXCEPT ![c] = t]

(* First critical section, the id is in the map.                             *)
Join(c, k) == /\ pc[c] = "idle"
              /\ HasPending(k)
              /\ Wait(c, k, tasks[k])
              /\ UNCHANGED <<tasks, run>>

(* A mutated form: the insert does not look for an entry first.              *)
SpawnUnchecked(c, k) == /\ pc[c] = "idle"
                        /\ tasks' = [tasks EXCEPT ![k] = c]
                        /\ run' = [run EXCEPT ![c] = "running"]
                        /\ Wait(c, k, c)

(* First critical section, the id is not in the map.                         *)
Spawn(c, k) == /\ pc[c] = "idle"
               /\ ~HasPending(k)
               /\ tasks' = [tasks EXCEPT ![k] = c]
               /\ run' = [run EXCEPT ![c] = "running"]
               /\ Wait(c, k, c)

(* A mutated form: the task is part of its caller's future, not spawned.     *)
FinishAttached(c) == /\ run[c] = "running"
                     /\ pc[c] = "waiting"
                     /\ run' \in {[run EXCEPT ![c] = o] : o \in Outcomes}
                     /\ UNCHANGED <<tasks, pc, key, joined>>

(* The spawned task ends by itself, whether or not anybody waits for it.     *)
Finish(c) == /\ run[c] = "running"
             /\ run' \in {[run EXCEPT ![c] = o] : o \in Outcomes}
             /\ UNCHANGED <<tasks, pc, key, joined>>

(* shared.await yields the result of the joined task.                        *)
Resolve(c) == /\ pc[c] = "waiting"
              /\ run[joined[c]] \in Outcomes
              /\ pc' = [pc EXCEPT ![c] = "resolved"]
              /\ UNCHANGED <<tasks, run, key, joined>>

Remove(k) == tasks' = [tasks EXCEPT ![k] = None]

(* Mutated forms of Evict: one that drops the id with its entry, without the *)
(* peek, and with a removal that is left to the call that spawned the task.  *)
EvictMistyped(c) == /\ pc[c] = "resolved"
                    /\ tasks' = [k \in Keys \ {key[c]} |-> tasks[k]]
                    /\ pc' = [pc EXCEPT ![c] = "returned"]
                    /\ UNCHANGED <<run, key, joined>>
EvictUnpolled(c) == /\ pc[c] = "resolved"
                    /\ pc' = [pc EXCEPT ![c] = "returned"]
                    /\ Remove(key[c])
                    /\ UNCHANGED <<run, key, joined>>
EvictOwn(c) == /\ pc[c] = "resolved"
               /\ pc' = [pc EXCEPT ![c] = "returned"]
               /\ IF tasks[key[c]] = c THEN Remove(key[c]) ELSE UNCHANGED tasks
               /\ UNCHANGED <<run, key, joined>>

(* Second critical section: remove the entry of the id if it has been polled *)
(* to completion; the entry may by now be that of a later run.               *)
Evict(c) == /\ pc[c] = "resolved"
            /\ pc' = [pc EXCEPT ![c] = "returned"]
            /\ LET k == key[c] IN
                 \/ /\ HasPending(k) /\ Polled(tasks[k])
                    /\ Remove(k)
                 \/ /\ ~(HasPending(k) /\ Polled(tasks[k]))
                    /\ UNCHANGED tasks
            /\ UNCHANGED <<run, key, joined>>

(* The handler's future is dropped at its only await; the task goes on.      *)
Drop(c) == /\ c \in Droppable
           /\ pc[c] = "waiting"
           /\ pc' = [pc EXCEPT ![c] = "dropped"]
           /\ UNCHANGED <<tasks, run, key, joined>>

Step(c) == \/ \E k \in Keys : Join(c, k) \/ Spawn(c, k)
           \/ Finish(c)
           \/ Resolve(c)
           \/ Evict(c)
           \/ Drop(c)

(* No call is left to make: the instance, not the program, has ended.        *)
Quiescent == \A c \in Callers : pc[c] \in {"returned", "dropped"} /\ run[c] # "running"
Done == Quiescent /\ UNCHANGED vars

Next == (\E c \in Callers : Step(c)) \/ Done

Spec == Init /\ [][Next]_vars

(* The runtime polls a ready future and the tasks given to the manager end.  *)
Fairness == \A c \in Callers : WF_vars(Finish(c)) /\ WF_vars(Resolve(c)) /\ WF_vars(Evict(c))
FairSpec == Spec /\ Fairness
-----------------------------------------------------------------------------
(* At most one task runs under an id, whatever the interleaving of the two   *)
(* critical sections of run_or_join (l.38-61 and l.65-72).                   *)
SingleFlight == \A c, d \in Callers :
    run[c] = "running" /\ run[d] = "running" /\ key[c] = key[d] => c = d

(* has_pending never denies a running task: an entry is only removed when    *)
(* its own task is over, though the remover may hold an older task (l.68).   *)
RunningIsPending == \A c \in Callers : run[c] = "running" => tasks[key[c]] = c

(* A call only ever awaits a task that was spawned for its own id, so the    *)
(* downcast of l.74 sees the type it asks for.                               *)
OwnIdAwaited == \A c \in Callers :
    pc[c] # "idle" => joined[c] # None /\ key[joined[c]] = key[c] /\ run[joined[c]] # "none"

(* Once one call has returned with a result, that result is never handed to  *)
(* a later call: the next request for the id starts anew.                    *)
ReturnedIsForgotten == \A c \in Callers :
    pc[c] = "returned" => tasks[key[c]] # joined[c]

(* A finished task stays in the map only while a call that shares it has     *)
(* yet to pass l.65, or because every call that could was dropped.           *)
LeftoverHasOwner == \A k \in Keys :
    HasPending(k) /\ run[tasks[k]] \in Outcomes =>
        \E c \in Callers : joined[c] = tasks[k] /\ pc[c] \in {"waiting", "resolved", "dropped"}

(* A call that keeps waiting is answered, also when the call that spawned    *)
(* its task was dropped.                                                     *)
EveryCallAnswered == \A c \in Callers :
    pc[c] = "waiting" ~> pc[c] \in {"returned", "dropped"}
-----------------------------------------------------------------------------
Runs == INSTANCE SharedRuns WITH
    active   <- [k \in Keys |->
                    IF HasPending(k) /\ run[tasks[k]] = "running" THEN tasks[k] ELSE None],
    finished <- {c \in Callers : run[c] \in Outcomes},
    answer   <- [c \in Callers |-> IF pc[c] = "returned" THEN joined[c] ELSE None]

(* TaskManager implements SharedRuns.                                        *)
ImplementsSharedRuns == Runs!Spec
=============================================================================
