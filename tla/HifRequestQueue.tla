--------------------------- MODULE HifRequestQueue ---------------------------
(***************************************************************************)
(* What the SDIO HIF request path promises its callers, with no threads,  *)
(* semaphores or lists: a bus request taken from the pool is served once, *)
(* in the order the requests were submitted.  Serving an asynchronous     *)
(* request returns it to the pool at once; a served synchronous request   *)
(* is handed to its caller, who returns it later, or never when the       *)
(* caller gave up waiting.  HifAsync implements this specification.       *)
(***************************************************************************)
EXTENDS Sequences

CONSTANTS Reqs

VARIABLES
  free,    \* requests in the pool
  queue,   \* submitted requests not yet served, oldest first
  served   \* served synchronous requests not yet given back

vars == <<free, queue, served>>

Init ==
  /\ free = Reqs
  /\ queue = <<>>
  /\ served = {}

(* A caller takes a request from the pool and submits it.                  *)
Submit(r) ==
  /\ r \in free
  /\ free' = free \ {r}
  /\ queue' = Append(queue, r)
  /\ UNCHANGED served

(* The oldest submitted request is served.                                 *)
Serve ==
  /\ queue # <<>>
  /\ queue' = Tail(queue)
  /\ \/ /\ free' = free \cup {Head(queue)}
        /\ UNCHANGED served
     \/ /\ served' = served \cup {Head(queue)}
        /\ UNCHANGED free

(* The caller of a served synchronous request gives it back.               *)
Reclaim(r) ==
  /\ r \in served
  /\ served' = served \ {r}
  /\ free' = free \cup {r}
  /\ UNCHANGED queue

Next == \E r \in Reqs : Submit(r) \/ Serve \/ Reclaim(r)

Spec == Init /\ [][Next]_vars
=============================================================================
