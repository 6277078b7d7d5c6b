------------------------------ MODULE MC_Bridge ------------------------------
(* A small instance of Bridge: two taps through two client objects. *)
EXTENDS Bridge, TLC

\* Taps are interchangeable, and so are client objects.
Symmetry == Permutations(Taps) \cup Permutations(Clients)

\* Every call has an object of its own, as the threads of two processes have;
\* calls that share one are the matter of MC_Processes.
Apart ==
  /\ Init
  /\ \A c, d \in Calls : owner[c] = owner[d] => c = d

\* No idle client besides, and one close() at most; BridgeDispatcher and
\* BridgeClient are checked without these bounds.
Bound == ~idle' /\ Cardinality({o \in Clients : closing'[o] # "no"}) <= 1

BoundedSpec == Apart /\ [][Next /\ Bound]_vars

==============================================================================
