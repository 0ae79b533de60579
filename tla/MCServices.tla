----------------------------- MODULE MCServices -----------------------------
(***************************************************************************)
(* The user service and the product catalog with its cache, each on its     *)
(* own: part names the one that runs in a behaviour, the other keeps its    *)
(* initial state.                                                           *)
(***************************************************************************)
EXTENDS UserService, ProductCatalog

VARIABLE part

vars == <<part, userVars, catalogVars>>

Init ==
  /\ part \in {"users", "catalog"}
  /\ UserInit /\ CatalogInit
  /\ part = "catalog" => shared
  /\ part = "users" => ~withStore

Next ==
  /\ \/ part = "users" /\ UserNext /\ UNCHANGED catalogVars
     \/ part = "catalog" /\ CatalogNext /\ UNCHANGED userVars
  /\ UNCHANGED part

\* Threads that read or change a product run on, and the calls they make to the
\* store and to the engine return, with or without success.
Fairness ==
  /\ WF_catalogVars(part = "catalog" /\ writerStep)
  /\ \A r \in Readers : WF_catalogVars(part = "catalog" /\ readerStep(r))

Spec == Init /\ [][Next]_vars /\ Fairness
=============================================================================
