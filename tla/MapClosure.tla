----------------------------- MODULE MapClosure -----------------------------
(***************************************************************************)
(* The transitive closure of IWYU's include mappings:                      *)
(* MakeMapTransitive and MakeNodeTransitive of iwyu_include_picker.cc, as  *)
(* a depth-first search over a map from a quoted include to the includes   *)
(* that re-export it.  The search mutates the map it walks, so what a node *)
(* ends up with depends on which nodes are still being calculated.         *)
(*                                                                         *)
(* The vectors of the code are sets here; the order in which the search    *)
(* meets the keys of the map and the children of a node is left open.      *)
(* IncludePicker.tla has the vectors and refines this module.              *)
(***************************************************************************)
EXTENDS Naturals, Sequences

CONSTANT Keys   \* quoted includes and @-regexes: the strings a mapping names

VARIABLES
  phase,         \* "adding", then "closing", then "closed"
  declared,      \* ghost: the mappings as they were when the search began
  filename_map,  \* the map the search updates in place
  seen_nodes,    \* TransitiveStatus of each key
  node_stack,    \* the keys whose loop over their children is under way
  unvisited,     \* the children the loop of a key has not got past yet
  cycle_found    \* ghost: some call returned because of kCalculating

vars == <<phase, declared, filename_map, seen_nodes, node_stack, unvisited,
          cycle_found>>

search == <<seen_nodes, node_stack, unvisited, cycle_found>>

Status == {"unused", "calculating", "done"}

TypeOK ==
  /\ phase \in {"adding", "closing", "closed"}
  /\ declared \in [Keys -> SUBSET Keys]
  /\ filename_map \in [Keys -> SUBSET Keys]
  /\ seen_nodes \in [Keys -> Status]
  /\ node_stack \in Seq(Keys)
  /\ unvisited \in [Keys -> SUBSET Keys]
  /\ cycle_found \in BOOLEAN

-----------------------------------------------------------------------------
(* Faulty variants of the definitions that follow them, here and below:    *)
(* each breaks the property that PROJECT.json names with it.               *)
ExpandOnceReplacing(m, nodes) == UNION {m[n] : n \in nodes}

(* nodes + m[nodes]: every node together with the children m has for it.   *)
ExpandOnce(m, nodes) == nodes \cup UNION {m[n] : n \in nodes}

Init ==
  /\ phase = "adding"
  /\ declared = [k \in Keys |-> {}]
  /\ filename_map = declared
  /\ seen_nodes = [k \in Keys |-> "unused"]
  /\ node_stack = <<>>
  /\ unvisited = [k \in Keys |-> {}]
  /\ cycle_found = FALSE

(* AddMapping, and the expansion of a regex key for one header: mappings   *)
(* are only ever added.                                                    *)
AddMappings ==
  /\ phase = "adding"
  /\ declared' \in [Keys -> SUBSET Keys]
  /\ \A k \in Keys : declared[k] \subseteq declared'[k]
  /\ filename_map' = declared'
  /\ UNCHANGED <<phase, search>>

StartClosing ==
  /\ phase = "adding"
  /\ phase' = "closing"
  /\ UNCHANGED <<declared, filename_map, search>>

Searching == phase = "closing" /\ node_stack # <<>>

Active == node_stack[Len(node_stack)]   \* the key of the innermost call

(* The call MakeNodeTransitive(k) runs up to its loop over k's children.   *)
(* A key with no mapping is done at once.                                  *)
Enter(k) ==
  /\ seen_nodes[k] = "unused"
  /\ IF filename_map[k] = {}
     THEN /\ seen_nodes' = [seen_nodes EXCEPT ![k] = "done"]
          /\ UNCHANGED <<node_stack, unvisited>>
     ELSE /\ seen_nodes' = [seen_nodes EXCEPT ![k] = "calculating"]
          /\ unvisited' = [unvisited EXCEPT ![k] = filename_map[k]]
          /\ node_stack' = Append(node_stack, k)
  /\ UNCHANGED <<phase, declared, filename_map, cycle_found>>

(* The loop of MakeMapTransitive calls MakeNodeTransitive for a key. *)
EnterRoot(k) ==
  /\ phase = "closing"
  /\ node_stack = <<>>
  /\ Enter(k)

(* The loop of the active key calls MakeNodeTransitive for a child. *)
EnterChild(c) ==
  /\ Searching
  /\ c \in unvisited[Active]
  /\ Enter(c)

PassChildAnySeen(c) ==
  /\ Searching
  /\ c \in unvisited[Active]
  /\ seen_nodes[c] # "unused"
  /\ unvisited' = [unvisited EXCEPT ![Active] = @ \ {c}]
  /\ cycle_found' = TRUE
  /\ UNCHANGED <<phase, declared, filename_map, seen_nodes, node_stack>>

PassChildNoCycleCheck(c) ==
  /\ Searching
  /\ c \in unvisited[Active]
  /\ seen_nodes[c] = "done"
  /\ unvisited' = [unvisited EXCEPT ![Active] = @ \ {c}]
  /\ UNCHANGED <<phase, declared, filename_map, seen_nodes, node_stack,
                 cycle_found>>

(* The call for child c returns at once because c is done, or because it   *)
(* is being calculated further down the stack (a cycle); the loop goes on. *)
PassChild(c) ==
  /\ Searching
  /\ c \in unvisited[Active]
  /\ seen_nodes[c] # "unused"
  /\ unvisited' = [unvisited EXCEPT ![Active] = @ \ {c}]
  /\ cycle_found' = (cycle_found \/ seen_nodes[c] = "calculating")
  /\ UNCHANGED <<phase, declared, filename_map, seen_nodes, node_stack>>

LeaveUnexpanded ==
  /\ Searching
  /\ unvisited[Active] = {}
  /\ seen_nodes' = [seen_nodes EXCEPT ![Active] = "done"]
  /\ node_stack' = SubSeq(node_stack, 1, Len(node_stack) - 1)
  /\ UNCHANGED <<phase, declared, filename_map, unvisited, cycle_found>>

(* The loop of the active key is over: expand its values, and return. *)
Leave ==
  /\ Searching
  /\ unvisited[Active] = {}
  /\ seen_nodes' = [seen_nodes EXCEPT ![Active] = "done"]
  /\ filename_map' = [filename_map EXCEPT
                        ![Active] = ExpandOnce(filename_map, @)]
  /\ node_stack' = SubSeq(node_stack, 1, Len(node_stack) - 1)
  /\ UNCHANGED <<phase, declared, unvisited, cycle_found>>

(* MakeMapTransitive's loop has been through every key. *)
FinishClosing ==
  /\ phase = "closing"
  /\ node_stack = <<>>
  /\ \A k \in Keys : filename_map[k] # {} => seen_nodes[k] = "done"
  /\ phase' = "closed"
  /\ UNCHANGED <<declared, filename_map, search>>

Close ==
  \/ StartClosing
  \/ \E k \in Keys : EnterRoot(k)
  \/ \E c \in Keys : EnterChild(c)
  \/ \E c \in Keys : PassChild(c)
  \/ Leave
  \/ FinishClosing

Next == AddMappings \/ Close

Spec == Init /\ [][Next]_vars

(* The search is a plain recursive function: once begun, it runs on. *)
FairSpec == Spec /\ WF_vars(Close)

-----------------------------------------------------------------------------
(* The reference: b is reachable from a over the declared mappings when    *)
(* every set that holds a's children and is closed under the mappings      *)
(* holds b.                                                                *)
ClosedUnder(S) == \A x \in S : declared[x] \subseteq S

Reaches(a, b) ==
  \A S \in SUBSET Keys :
     declared[a] \subseteq S /\ ClosedUnder(S) => b \in S

Reachable(a) == {b \in Keys : Reaches(a, b)}

OnCycle(k) == Reaches(k, k)

(* No include is ever offered for another one that the mappings, followed  *)
(* step by step, would not lead to; and none of the given mappings is lost *)
(* by the in-place updates of MakeNodeTransitive.                          *)
Sound ==
  \A k \in Keys : /\ declared[k] \subseteq filename_map[k]
                  /\ filename_map[k] \subseteq Reachable(k)

(* The search reports a cycle exactly when the mappings have one: the      *)
(* three-valued TransitiveStatus never takes a shared child for a cycle.   *)
CycleFoundExactly ==
  phase = "closed" => (cycle_found <=> \E k \in Keys : OnCycle(k))

(* A key from which no cycle can be reached gets exactly its transitive    *)
(* closure, whatever the order of the search and whatever cycles the rest  *)
(* of the mappings has.                                                    *)
CompleteAwayFromCycles ==
  \A k \in Keys :
     /\ phase = "closed"
     /\ \A c \in Reachable(k) : ~OnCycle(c)
     => filename_map[k] = Reachable(k)

(* Once the search starts it comes to an end, cycles or not: a node is     *)
(* entered only while it is unused.                                        *)
ClosingTerminates == (phase = "closing") ~> (phase = "closed")
=============================================================================
