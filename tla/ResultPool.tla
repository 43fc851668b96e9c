----------------------------- MODULE ResultPool -----------------------------
(***************************************************************************)
(* What the operations table of a server promises its clients, whatever    *)
(* happens to names, replies and processes: a pool of finished results.    *)
(* A task publishes its result once; a result in the pool is handed to at  *)
(* most one request, and only to a request about the same bitcode file.    *)
(* The pool may lose results (an overwritten entry, an insertion that came *)
(* second, a dead process); it never invents or repeats one.               *)
(***************************************************************************)
CONSTANTS
  Requests,     \* the requests sent to one server
  IdOf          \* the bitcode file each request is about

VARIABLES
  published,    \* the requests whose task has published its result
  pool,         \* published results that are still held
  delivered     \* pairs <<request, the request whose result it was given>>

vars == <<published, pool, delivered>>

Init ==
  /\ published = {}
  /\ pool = {}
  /\ delivered = {}

Publish(r) ==
  /\ r \notin published
  /\ published' = published \union {r}
  /\ pool' \subseteq pool \union {r}
  /\ UNCHANGED delivered

Take(r, s) ==
  /\ s \in pool
  /\ IdOf[r] = IdOf[s]
  /\ pool' = pool \ {s}
  /\ delivered' = delivered \union {<<r, s>>}
  /\ UNCHANGED published

Crash ==
  /\ pool' = {}
  /\ UNCHANGED <<published, delivered>>

Next ==
  \/ \E r \in Requests : Publish(r)
  \/ \E r, s \in Requests : Take(r, s)
  \/ Crash

Spec == Init /\ [][Next]_vars
=============================================================================
