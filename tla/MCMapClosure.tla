---------------------------- MODULE MCMapClosure ----------------------------
(* MapClosure for TLC: at most MaxMappings mappings over a few keys, given *)
(* one at a time.                                                          *)
EXTENDS MapClosure, FiniteSets

CONSTANT MaxMappings   \* bound: how many mappings are declared

NumMappings == Cardinality({e \in Keys \X Keys : e[2] \in declared[e[1]]})

AddMapping(from, to) ==
  /\ NumMappings < MaxMappings
  /\ to \notin declared[from]
  /\ declared' = [declared EXCEPT ![from] = @ \cup {to}]
  /\ AddMappings

MCNext ==
  \/ \E from, to \in Keys : AddMapping(from, to)
  \/ Close

MCSpec == Init /\ [][MCNext]_vars

MCFairSpec == MCSpec /\ WF_vars(Close)

=============================================================================
