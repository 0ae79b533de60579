------------------------------ MODULE MCGateway -----------------------------
(***************************************************************************)
(* The connection pools and the HTTP server, each on its own: part names    *)
(* the one that runs in a behaviour, the other keeps its initial state.     *)
(***************************************************************************)
EXTENDS ConnectionPool, HttpServer

VARIABLE part

vars == <<part, poolVars, httpVars>>

Init ==
  /\ part \in {"pool", "http"}
  /\ PoolInit /\ HttpInit
  /\ part = "http" => pool = "mysql"

Next ==
  /\ \/ part = "pool" /\ PoolNext /\ UNCHANGED httpVars
     \/ part = "http" /\ HttpNext /\ UNCHANGED poolVars
  /\ UNCHANGED part

\* A borrower's command ends and its lease is given back; close is woken when it
\* may go on.  The loop, the main thread and the workers run on, and a client
\* reads the answers it gets.
Fairness ==
  /\ WF_poolVars(part = "pool" /\ endClose)
  /\ \A t \in Borrowers : WF_poolVars(part = "pool" /\ borrowerStep(t))
  /\ WF_httpVars(part = "http" /\ functorStep)
  /\ WF_httpVars(part = "http" /\ mainStep)
  /\ \A w \in Workers : WF_httpVars(part = "http" /\ workerStep(w))
  /\ \A f \in Fds : WF_httpVars(part = "http" /\ onWrite(f))

Spec == Init /\ [][Next]_vars /\ Fairness
=============================================================================
