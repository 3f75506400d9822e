----------------------------- MODULE HeaderCover -----------------------------
(* What CalculateMinimalIncludes promises, whatever order it works in: a   *)
(* use that has no header is given one of those that provide its symbol,   *)
(* and keeps it.                                                           *)
CONSTANTS Headers, NoHeader
VARIABLES
  provides,  \* for each use, the headers it may be given
  given      \* for each use, its header, or NoHeader

vars == <<provides, given>>

Waiting == {u \in DOMAIN given : given[u] = NoHeader /\ provides[u] # {}}

Init == given \in [DOMAIN provides -> Headers \cup {NoHeader}]

(* A header is given to uses that it provides for. *)
Give(header, served) ==
  /\ \A u \in served : header \in provides[u]
  /\ given' = [u \in DOMAIN given |-> IF u \in served THEN header ELSE given[u]]
  /\ UNCHANGED provides

Next == \E header \in Headers, served \in SUBSET Waiting : Give(header, served)

Spec == Init /\ [][Next]_vars
=============================================================================
