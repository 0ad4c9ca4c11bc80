----------------------------- MODULE WorkQueue -----------------------------
(***************************************************************************)
(* An at-most-once work queue: entries 1, 2, 3... are handed to workers in *)
(* order, each to one worker and never again, and some may be lost on the  *)
(* way.  This is what the consumer groups of StreamBroker really give.     *)
(***************************************************************************)
EXTENDS Naturals

CONSTANT Worker

VARIABLES size,    \* entries appended so far
          next,    \* entries 1..next left the queue
          held,    \* entries a worker took and has not shown yet
          shown,   \* entries a worker showed to its caller
          done     \* entries reported done

queue == <<size, next, held, shown, done>>

Init ==
    /\ size = 0
    /\ next = 0
    /\ held = [w \in Worker |-> {}]
    /\ shown = [w \in Worker |-> {}]
    /\ done = {}

Append ==
    /\ size' = size + 1
    /\ UNCHANGED <<next, held, shown, done>>

\* A worker that holds nothing takes the next entries, up to k.
Take(w, k) ==
    /\ held[w] = {}
    /\ k \in next+1..size
    /\ next' = k
    /\ held' = [held EXCEPT ![w] = next+1..k]
    /\ UNCHANGED <<size, shown, done>>

\* Entries leave the queue and reach nobody.
Lose(k) ==
    /\ k \in next+1..size
    /\ next' = k
    /\ UNCHANGED <<size, held, shown, done>>

\* The first entry a worker holds is shown, to nobody else and only once.
Show(w, e) ==
    /\ e \in held[w]
    /\ \A f \in held[w] : e <= f
    /\ \A x \in Worker : e \notin shown[x]
    /\ held' = [held EXCEPT ![w] = @ \ {e}]
    /\ shown' = [shown EXCEPT ![w] = @ \cup {e}]
    /\ UNCHANGED <<size, next, done>>

\* A worker forgets what it holds.
Drop(w) ==
    /\ held' = [held EXCEPT ![w] = {}]
    /\ UNCHANGED <<size, next, shown, done>>

\* A shown entry is reported done, once.
Finish(w, e) ==
    /\ e \in shown[w] \ done
    /\ done' = done \cup {e}
    /\ UNCHANGED <<size, next, held, shown>>

\* A worker reports an entry done and forgets the others at once.
FinishAndDrop(w, e) ==
    /\ e \in shown[w] \ done
    /\ done' = done \cup {e}
    /\ held' = [held EXCEPT ![w] = {}]
    /\ UNCHANGED <<size, next, shown>>

Next ==
    \/ Append
    \/ \E k \in 1..size : Lose(k)
    \/ \E w \in Worker, k \in 1..size : Take(w, k)
    \/ \E w \in Worker, e \in 1..size :
          Show(w, e) \/ Finish(w, e) \/ FinishAndDrop(w, e)
    \/ \E w \in Worker : Drop(w)

Spec == Init /\ [][Next]_queue
============================================================================
