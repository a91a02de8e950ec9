----------------------------- MODULE SharedRuns -----------------------------
(* What wiki-storage's TaskManager promises to its users, whatever its map   *)
(* of futures does: under one key the runs follow one another, never two at  *)
(* a time, and a call is answered once, with the result of a finished run.   *)
CONSTANTS Callers, Keys, None

VARIABLES
    active,     \* active[k]: the call whose run executes under key k, or None
    finished,   \* the calls whose run has ended
    answer      \* answer[c]: the run whose result call c returned, or None

vars == <<active, finished, answer>>

Init == /\ active = [k \in Keys |-> None]
        /\ finished = {}
        /\ answer = [c \in Callers |-> None]

Start(c, k) == /\ active[k] = None
               /\ \A j \in Keys : active[j] # c
               /\ c \notin finished
               /\ active' = [active EXCEPT ![k] = c]
               /\ UNCHANGED <<finished, answer>>

End(k) == /\ active[k] # None
          /\ finished' = finished \cup {active[k]}
          /\ active' = [active EXCEPT ![k] = None]
          /\ UNCHANGED answer

Answer(c, t) == /\ answer[c] = None
                /\ t \in finished
                /\ answer' = [answer EXCEPT ![c] = t]
                /\ UNCHANGED <<active, finished>>

Next == \/ \E c \in Callers, k \in Keys : Start(c, k)
        \/ \E k \in Keys : End(k)
        \/ \E c, t \in Callers : Answer(c, t)

Spec == Init /\ [][Next]_vars
=============================================================================
