-------------------------- MODULE MapClosureProofs --------------------------
(* What MakeMapTransitive computes, for every set of keys, every mapping   *)
(* and every order of the search.                                          *)
EXTENDS MapClosure, SequenceTheorems, TLAPS

Done(k) == seen_nodes[k] = "done"

OnStack(k) == \E i \in 1..Len(node_stack) : node_stack[i] = k

(* Before the search, the map is what was declared and no key is seen. *)
AddingInv ==
  phase = "adding" => /\ filename_map = declared
                      /\ \A k \in Keys : seen_nodes[k] = "unused"
                      /\ ~cycle_found

(* The call stack: exactly the keys being calculated, each of which leads  *)
(* to every key above it.                                                  *)
StackInv ==
  /\ phase # "closing" => node_stack = <<>>
  /\ \A k \in Keys : seen_nodes[k] = "calculating" <=> OnStack(k)
  /\ \A i, j \in 1..Len(node_stack) :
        i < j => /\ Reaches(node_stack[i], node_stack[j])
                 /\ node_stack[i] # node_stack[j]

(* A key keeps its declared mappings until it is done; its loop runs over  *)
(* them.                                                                   *)
UntouchedInv ==
  \A k \in Keys :
     /\ ~Done(k) => filename_map[k] = declared[k]
     /\ seen_nodes[k] = "calculating" => unvisited[k] \subseteq declared[k]

(* A child the search is past is done, unless it was met on the stack. *)
PassedInv ==
  \A k \in Keys : \A c \in declared[k] :
     /\ Done(k) => Done(c) \/ Reaches(c, k)
     /\ seen_nodes[k] = "calculating" /\ c \notin unvisited[k]
           => Done(c) \/ Reaches(c, k)

Acyclic(k) == \A c \in Reachable(k) : ~OnCycle(c)

(* Without cycles in its reach, what a done key holds is closed. *)
ClosedInv ==
  \A k \in Keys : Done(k) /\ Acyclic(k) =>
     \A x \in filename_map[k] : declared[x] \subseteq filename_map[k]

(* As long as no cycle was met, a done key holds done keys, not itself,    *)
(* and all their mappings; and a met cycle is a cycle of the mappings.     *)
CycleInv ==
  /\ cycle_found => \E k \in Keys : OnCycle(k)
  /\ ~cycle_found => \A k \in Keys :
        /\ Done(k) => /\ \A x \in filename_map[k] : Done(x)
                      /\ k \notin filename_map[k]
                      /\ \A x \in filename_map[k] :
                            declared[x] \subseteq filename_map[k]
        /\ seen_nodes[k] = "calculating" =>
              \A c \in declared[k] \ unvisited[k] : Done(c)

(* When the search is over, every key that has mappings is done. *)
FinishedInv ==
  phase = "closed" => \A k \in Keys : filename_map[k] # {} => Done(k)

IInv == /\ TypeOK
        /\ AddingInv
        /\ StackInv
        /\ UntouchedInv
        /\ Sound
        /\ PassedInv
        /\ ClosedInv
        /\ CycleInv
        /\ FinishedInv

-----------------------------------------------------------------------------
LEMMA ReachesChild ==
  ASSUME NEW a \in Keys, NEW b \in declared[a]
  PROVE  Reaches(a, b)
BY DEF Reaches

LEMMA ReachesTransitive ==
  ASSUME NEW a \in Keys, NEW b \in Keys, NEW c \in Keys,
         Reaches(a, b), Reaches(b, c)
  PROVE  Reaches(a, c)
BY DEF Reaches, ClosedUnder

(* A set that holds a's children and their mappings holds all a reaches. *)
LEMMA ReachesInside ==
  ASSUME NEW a \in Keys, NEW S \in SUBSET Keys,
         declared[a] \subseteq S, ClosedUnder(S)
  PROVE  Reachable(a) \subseteq S
BY DEF Reaches, Reachable

(* While the declared mappings stay, so does what they reach. *)
LEMMA ReachesStable ==
  ASSUME UNCHANGED declared
  PROVE  /\ \A a, b : Reaches(a, b)' <=> Reaches(a, b)
         /\ \A a : Reachable(a)' = Reachable(a)
         /\ \A a : OnCycle(a)' <=> OnCycle(a)
         /\ \A a : Acyclic(a)' <=> Acyclic(a)
BY DEF Reaches, Reachable, ClosedUnder, OnCycle, Acyclic

-----------------------------------------------------------------------------
(* The map and the search keep their types: keys map to keys, and a key's  *)
(* status is one of the three of TransitiveStatus.                         *)
THEOREM TypeCorrect == Spec => []TypeOK
<1>1. Init => TypeOK
  <2> SUFFICES ASSUME Init
               PROVE  TypeOK
    OBVIOUS
  <2>1. node_stack \in Seq(Keys)
    BY EmptySeq DEF Init
  <2>2. declared \in [Keys -> SUBSET Keys]
    BY DEF Init
  <2> QED
    BY <2>1, <2>2 DEF Init, TypeOK, Status
<1>2. TypeOK /\ [Next]_vars => TypeOK'
  <2> SUFFICES ASSUME TypeOK, [Next]_vars
               PROVE  TypeOK'
    OBVIOUS
  <2> USE DEF TypeOK, Status, search
  <2>1. CASE AddMappings
    BY <2>1 DEF AddMappings
  <2>2. CASE StartClosing
    BY <2>2 DEF StartClosing
  <2>3. ASSUME NEW k \in Keys, Enter(k)
        PROVE  TypeOK'
    <3>1. node_stack' \in Seq(Keys)
      BY <2>3, AppendProperties DEF Enter
    <3>2. unvisited' \in [Keys -> SUBSET Keys]
      BY <2>3 DEF Enter
    <3>3. seen_nodes' \in [Keys -> Status]
      BY <2>3 DEF Enter
    <3> QED
      BY <2>3, <3>1, <3>2, <3>3 DEF Enter
  <2>4. \A k \in Keys : EnterRoot(k) \/ EnterChild(k) => TypeOK'
    BY <2>3 DEF EnterRoot, EnterChild
  <2>5. ASSUME NEW c \in Keys, PassChild(c)
        PROVE  TypeOK'
    BY <2>5 DEF PassChild
  <2>6. CASE Leave
    <3>1. Active \in Keys
      BY <2>6 DEF Leave, Searching, Active
    <3>2. filename_map' \in [Keys -> SUBSET Keys]
      BY <2>6, <3>1 DEF Leave, ExpandOnce
    <3>3. node_stack' \in Seq(Keys)
      BY <2>6 DEF Leave, Searching
    <3> QED
      BY <2>6, <3>2, <3>3 DEF Leave
  <2>7. CASE FinishClosing
    BY <2>7 DEF FinishClosing
  <2>8. CASE UNCHANGED vars
    BY <2>8 DEF vars
  <2> QED
    BY <2>1, <2>2, <2>3, <2>4, <2>5, <2>6, <2>7, <2>8 DEF Next, Close
<1> QED
  BY <1>1, <1>2, PTL DEF Spec

-----------------------------------------------------------------------------
(* Entering a key that every key on the stack leads to keeps IInv. *)
LEMMA EnterKeepsIInv ==
  ASSUME IInv, NEW k \in Keys, Enter(k), phase = "closing",
         \A i \in 1..Len(node_stack) : Reaches(node_stack[i], k)
  PROVE  IInv'
<1> USE DEF IInv
<1> DEFINE n == Len(node_stack)
<1>1. TypeOK /\ TypeOK'
  <2>1. node_stack' \in Seq(Keys)
    BY AppendProperties DEF Enter, TypeOK
  <2>2. unvisited' \in [Keys -> SUBSET Keys]
    BY DEF Enter, TypeOK
  <2>3. seen_nodes' \in [Keys -> Status]
    BY DEF Enter, TypeOK, Status
  <2> QED
    BY <2>1, <2>2, <2>3 DEF Enter, TypeOK
<1>2. UNCHANGED <<phase, declared, filename_map, cycle_found>>
  BY DEF Enter
<1>3. /\ \A a, b : Reaches(a, b)' <=> Reaches(a, b)
      /\ \A a : Reachable(a)' = Reachable(a)
      /\ \A a : OnCycle(a)' <=> OnCycle(a)
      /\ \A a : Acyclic(a)' <=> Acyclic(a)
  BY <1>2, ReachesStable
<1>4. seen_nodes[k] = "unused"
  BY DEF Enter
<1>5. CASE filename_map[k] = {}
  <2>1. /\ seen_nodes' = [seen_nodes EXCEPT ![k] = "done"]
        /\ UNCHANGED <<node_stack, unvisited>>
    BY <1>5 DEF Enter
  <2>2. declared[k] = {}
    BY <1>1, <1>4, <1>5 DEF UntouchedInv, Done
  <2>3. \A x \in Keys :
           /\ Done(x)' <=> Done(x) \/ x = k
           /\ (seen_nodes[x] = "calculating")' <=>
                 seen_nodes[x] = "calculating"
    BY <2>1, <1>1, <1>4 DEF TypeOK, Done
  <2>4. AddingInv' /\ FinishedInv'
    BY <1>2 DEF AddingInv, FinishedInv
  <2>5. StackInv'
    BY <2>1, <2>3, <1>2, <1>3 DEF StackInv, OnStack
  <2>6. UntouchedInv'
    BY <2>1, <2>3, <1>2 DEF UntouchedInv
  <2>7. Sound'
    BY <1>2, <1>3 DEF Sound
  <2>8. PassedInv'
    BY <2>1, <2>2, <2>3, <1>1, <1>2, <1>3 DEF PassedInv, TypeOK
  <2>9. ClosedInv'
    BY <2>3, <1>2, <1>3, <1>5 DEF ClosedInv
  <2>10. CycleInv'
    BY <2>1, <2>3, <1>1, <1>2, <1>3, <1>5 DEF CycleInv, TypeOK
  <2> QED
    BY <1>1, <2>4, <2>5, <2>6, <2>7, <2>8, <2>9, <2>10
<1>6. CASE filename_map[k] # {}
  <2>1. /\ seen_nodes' = [seen_nodes EXCEPT ![k] = "calculating"]
        /\ unvisited' = [unvisited EXCEPT ![k] = filename_map[k]]
        /\ node_stack' = Append(node_stack, k)
    BY <1>6 DEF Enter
  <2>2. filename_map[k] = declared[k]
    BY <1>4 DEF UntouchedInv, Done
  <2>3. \A x \in Keys :
           /\ Done(x)' <=> Done(x)
           /\ (seen_nodes[x] = "calculating")' <=>
                 seen_nodes[x] = "calculating" \/ x = k
           /\ unvisited'[x] = IF x = k THEN declared[k] ELSE unvisited[x]
    BY <2>1, <2>2, <1>1, <1>4 DEF TypeOK, Done
  <2>4. AddingInv' /\ FinishedInv'
    BY <1>2, <2>3 DEF AddingInv, FinishedInv
  <2>5. /\ n \in Nat
        /\ Len(node_stack') = n + 1
        /\ \A i \in 1..n : node_stack'[i] = node_stack[i]
        /\ node_stack'[n + 1] = k
        /\ \A i \in 1..n : node_stack[i] \in Keys
    BY <2>1, <1>1, AppendProperties, ElementOfSeq, LenProperties DEF TypeOK
  <2>6. \A i \in 1..n : node_stack[i] # k
    BY <2>5, <1>4 DEF StackInv, OnStack
  <2>7. StackInv'
    <3>1. \A x \in Keys : OnStack(x)' <=> OnStack(x) \/ x = k
      BY <2>5 DEF OnStack
    <3>2. \A i, j \in 1..(n + 1) :
             i < j => /\ Reaches(node_stack'[i], node_stack'[j])
                      /\ node_stack'[i] # node_stack'[j]
      <4> SUFFICES ASSUME NEW i \in 1..(n + 1), NEW j \in 1..(n + 1), i < j
                   PROVE  /\ Reaches(node_stack'[i], node_stack'[j])
                          /\ node_stack'[i] # node_stack'[j]
        OBVIOUS
      <4>1. i \in 1..n
        BY <2>5
      <4>2. CASE j = n + 1
        BY <4>1, <4>2, <2>5, <2>6
      <4>3. CASE j \in 1..n
        BY <4>1, <4>3, <2>5 DEF StackInv
      <4> QED
        BY <4>2, <4>3, <2>5
    <3> QED
      BY <3>1, <3>2, <2>3, <2>5, <1>2, <1>3 DEF StackInv
  <2>8. UntouchedInv'
    BY <2>3, <1>2 DEF UntouchedInv
  <2>9. Sound'
    BY <1>2, <1>3 DEF Sound
  <2>10. PassedInv'
    BY <2>3, <1>1, <1>2, <1>3 DEF PassedInv, TypeOK
  <2>11. ClosedInv'
    BY <2>3, <1>2, <1>3 DEF ClosedInv
  <2>12. CycleInv'
    BY <2>3, <1>1, <1>2, <1>3 DEF CycleInv, TypeOK
  <2> QED
    BY <1>1, <2>4, <2>7, <2>8, <2>9, <2>10, <2>11, <2>12
<1> QED
  BY <1>5, <1>6

(* The innermost call: its key is on top of the stack, being calculated,   *)
(* and every key on the stack leads to it or is it.                        *)
LEMMA ActiveFacts ==
  ASSUME TypeOK, StackInv, Searching
  PROVE  /\ Len(node_stack) \in Nat \ {0}
         /\ \A i \in 1..Len(node_stack) : node_stack[i] \in Keys
         /\ Active \in Keys
         /\ seen_nodes[Active] = "calculating"
         /\ \A i \in 1..Len(node_stack) :
               node_stack[i] = Active \/ Reaches(node_stack[i], Active)
<1> DEFINE n == Len(node_stack)
<1>1. n \in Nat \ {0}
  BY EmptySeq DEF TypeOK, Searching
<1>2. \A i \in 1..n : node_stack[i] \in Keys
  BY ElementOfSeq DEF TypeOK
<1>3. n \in 1..n /\ Active = node_stack[n]
  BY <1>1 DEF Active
<1>4. seen_nodes[Active] = "calculating"
  BY <1>2, <1>3 DEF StackInv, OnStack
<1>5. \A i \in 1..n : i = n \/ Reaches(node_stack[i], Active)
  BY <1>1, <1>3 DEF StackInv
<1> QED
  BY <1>1, <1>2, <1>3, <1>4, <1>5

(* Getting past a child that is done or on the stack keeps IInv. *)
LEMMA PassChildKeepsIInv ==
  ASSUME IInv, NEW c \in Keys, PassChild(c)
  PROVE  IInv'
<1> USE DEF IInv
<1> DEFINE k == Active
<1>1. /\ phase = "closing"
      /\ Searching
      /\ c \in unvisited[k]
      /\ seen_nodes[c] # "unused"
      /\ unvisited' = [unvisited EXCEPT ![k] = @ \ {c}]
      /\ cycle_found' = (cycle_found \/ seen_nodes[c] = "calculating")
  BY DEF PassChild, Searching
<1>2. UNCHANGED <<phase, declared, filename_map, seen_nodes, node_stack>>
  BY DEF PassChild
<1>3. /\ \A a, b : Reaches(a, b)' <=> Reaches(a, b)
      /\ \A a : Reachable(a)' = Reachable(a)
      /\ \A a : OnCycle(a)' <=> OnCycle(a)
      /\ \A a : Acyclic(a)' <=> Acyclic(a)
  BY <1>2, ReachesStable
<1>4. /\ k \in Keys
      /\ seen_nodes[k] = "calculating"
      /\ \A i \in 1..Len(node_stack) :
            node_stack[i] = k \/ Reaches(node_stack[i], k)
  BY <1>1, ActiveFacts
<1>5. c \in declared[k]
  BY <1>1, <1>4 DEF UntouchedInv
<1>6. Reaches(k, c)
  BY <1>4, <1>5, ReachesChild
<1>7. Done(c) \/ (seen_nodes[c] = "calculating" /\ Reaches(c, k))
  <2>1. Done(c) \/ seen_nodes[c] = "calculating"
    BY <1>1 DEF TypeOK, Status, Done
  <2>2. ASSUME seen_nodes[c] = "calculating"
        PROVE  Reaches(c, k)
    BY <2>2, <1>4, <1>6 DEF StackInv, OnStack
  <2> QED
    BY <2>1, <2>2
<1>8. /\ unvisited'[k] = unvisited[k] \ {c}
      /\ \A x \in Keys : x # k => unvisited'[x] = unvisited[x]
      /\ \A x : Done(x)' <=> Done(x)
  BY <1>1, <1>2, <1>4 DEF TypeOK, Done
<1>9. TypeOK'
  BY <1>1, <1>2, <1>4 DEF TypeOK
<1>10. AddingInv' /\ StackInv' /\ FinishedInv'
  BY <1>1, <1>2, <1>3, <1>8 DEF AddingInv, StackInv, OnStack, FinishedInv
<1>11. UntouchedInv'
  BY <1>2, <1>8, <1>4 DEF UntouchedInv
<1>12. Sound' /\ ClosedInv'
  BY <1>2, <1>3, <1>8 DEF Sound, ClosedInv
<1>13. PassedInv'
  <2> SUFFICES ASSUME NEW x \in Keys, NEW d \in declared[x]
               PROVE  /\ Done(x) => Done(d) \/ Reaches(d, x)
                      /\ seen_nodes[x] = "calculating"
                            /\ d \notin unvisited'[x]
                         => Done(d) \/ Reaches(d, x)
    BY <1>2, <1>3, <1>8 DEF PassedInv
  <2>1. CASE x = k
    BY <2>1, <1>7, <1>8 DEF PassedInv
  <2>2. CASE x # k
    BY <2>2, <1>8 DEF PassedInv
  <2> QED
    BY <2>1, <2>2
<1>14. CycleInv'
  <2>1. ASSUME cycle_found'
        PROVE  \E x \in Keys : OnCycle(x)
    <3>1. CASE cycle_found
      BY <3>1 DEF CycleInv
    <3>2. CASE seen_nodes[c] = "calculating"
      <4>1. Reaches(c, k)
        BY <3>2, <1>7 DEF Done
      <4>2. OnCycle(k)
        BY <4>1, <1>4, <1>6, ReachesTransitive DEF OnCycle
      <4> QED
        BY <4>2, <1>4
    <3> QED
      BY <2>1, <3>1, <3>2, <1>1
  <2>2. ASSUME ~cycle_found', NEW x \in Keys
        PROVE  /\ Done(x) => /\ \A y \in filename_map[x] : Done(y)
                             /\ x \notin filename_map[x]
                             /\ \A y \in filename_map[x] :
                                   declared[y] \subseteq filename_map[x]
               /\ seen_nodes[x] = "calculating" =>
                     \A d \in declared[x] \ unvisited'[x] : Done(d)
    <3>1. ~cycle_found /\ Done(c)
      BY <2>2, <1>1, <1>7
    <3>2. unvisited'[x] = unvisited[x] \/ unvisited'[x] = unvisited[x] \ {c}
      BY <1>8
    <3> QED
      BY <3>1, <3>2 DEF CycleInv
  <2> QED
    BY <2>1, <2>2, <1>2, <1>3, <1>8 DEF CycleInv
<1> QED
  BY <1>9, <1>10, <1>11, <1>12, <1>13, <1>14

(* A finished key takes on what its children hold, and IInv stays. *)
LEMMA LeaveKeepsIInv ==
  ASSUME IInv, Leave
  PROVE  IInv'
<1> USE DEF IInv
<1> DEFINE k == Active
           n == Len(node_stack)
           kids == declared[k]
<1>1. /\ phase = "closing"
      /\ Searching
      /\ unvisited[k] = {}
      /\ seen_nodes' = [seen_nodes EXCEPT ![k] = "done"]
      /\ filename_map' = [filename_map EXCEPT ![k] = ExpandOnce(filename_map, @)]
      /\ node_stack' = SubSeq(node_stack, 1, n - 1)
  BY DEF Leave, Searching
<1>2. UNCHANGED <<phase, declared, unvisited, cycle_found>>
  BY DEF Leave
<1>3. /\ \A a, b : Reaches(a, b)' <=> Reaches(a, b)
      /\ \A a : Reachable(a)' = Reachable(a)
      /\ \A a : OnCycle(a)' <=> OnCycle(a)
      /\ \A a : Acyclic(a)' <=> Acyclic(a)
  BY <1>2, ReachesStable
<1>4. /\ n \in Nat \ {0}
      /\ \A i \in 1..n : node_stack[i] \in Keys
      /\ k \in Keys
      /\ seen_nodes[k] = "calculating"
  BY <1>1, ActiveFacts
<1>5. /\ kids \subseteq Keys
      /\ filename_map[k] = kids
      /\ filename_map'[k] = kids \cup UNION {filename_map[c] : c \in kids}
      /\ \A x \in Keys : x # k => filename_map'[x] = filename_map[x]
  BY <1>1, <1>4 DEF UntouchedInv, Done, TypeOK, ExpandOnce
<1>6. \A c \in kids : Done(c) \/ Reaches(c, k)
  BY <1>1, <1>4 DEF PassedInv
<1>7. \A x \in Keys :
         /\ Done(x)' <=> Done(x) \/ x = k
         /\ (seen_nodes[x] = "calculating")' <=>
               seen_nodes[x] = "calculating" /\ x # k
  BY <1>1, <1>4 DEF TypeOK, Done
<1>8. ~Done(k)
  BY <1>4 DEF Done
<1>9. TypeOK'
  <2>1. filename_map' \in [Keys -> SUBSET Keys]
    BY <1>1, <1>4 DEF TypeOK, ExpandOnce
  <2>2. node_stack' \in Seq(Keys)
    BY <1>1, <1>4 DEF TypeOK
  <2> QED
    BY <1>1, <1>2, <1>4, <2>1, <2>2 DEF TypeOK, Status
<1>10. AddingInv' /\ FinishedInv'
  BY <1>1, <1>2 DEF AddingInv, FinishedInv
<1>11. StackInv'
  <2>1. /\ Len(node_stack') = n - 1
        /\ \A i \in 1..(n - 1) : node_stack'[i] = node_stack[i]
    <3>1. /\ 1 \in Int /\ n - 1 \in Int
          /\ \A i \in 1..(n - 1) : node_stack[i] \in Keys
      BY <1>4
    <3> DEFINE m == n - 1
               rest == SubSeq(node_stack, 1, m)
    <3> HIDE DEF m
    <3>2. /\ Len(rest) = IF 1 <= m THEN m - 1 + 1 ELSE 0
          /\ \A i \in 1..(m - 1 + 1) : rest[i] = node_stack[1 + i - 1]
      BY <3>1, SubSeqProperties DEF m
    <3>3. node_stack' = rest
      BY <1>1 DEF m
    <3>4. m \in Nat
      BY <1>4 DEF m
    <3>5. Len(rest) = m /\ \A i \in 1..m : rest[i] = node_stack[i]
      BY <3>2, <3>4
    <3> QED
      BY <3>3, <3>5 DEF m
  <2>2. k = node_stack[n]
    BY DEF Active
  <2>3. \A x \in Keys : OnStack(x)' <=> OnStack(x) /\ x # k
    BY <1>4, <2>1, <2>2 DEF OnStack, StackInv
  <2>4. \A i, j \in 1..(n - 1) :
           i < j => /\ Reaches(node_stack'[i], node_stack'[j])
                    /\ node_stack'[i] # node_stack'[j]
    BY <1>4, <2>1 DEF StackInv
  <2> QED
    BY <1>1, <1>2, <1>3, <1>7, <2>1, <2>3, <2>4 DEF StackInv
<1>12. UntouchedInv'
  BY <1>2, <1>5, <1>7 DEF UntouchedInv
<1>13. Sound'
  <2>1. filename_map'[k] \subseteq Reachable(k)
    <3>1. kids \subseteq Reachable(k)
      BY <1>4, <1>5, ReachesChild DEF Reachable
    <3>2. ASSUME NEW c \in kids, NEW x \in filename_map[c]
          PROVE  x \in Reachable(k)
      <4>1. c \in Keys /\ Reaches(k, c)
        BY <1>4, <1>5, ReachesChild
      <4>2. x \in Keys /\ Reaches(c, x)
        BY <4>1 DEF Sound, Reachable
      <4> QED
        BY <1>4, <4>1, <4>2, ReachesTransitive DEF Reachable
    <3> QED
      BY <1>5, <3>1, <3>2
  <2> QED
    BY <1>2, <1>3, <1>5, <2>1 DEF Sound
<1>14. PassedInv'
  <2> SUFFICES ASSUME NEW x \in Keys, NEW c \in declared[x]
               PROVE  /\ Done(x)' => Done(c)' \/ Reaches(c, x)
                      /\ seen_nodes'[x] = "calculating"
                            /\ c \notin unvisited[x]
                         => Done(c)' \/ Reaches(c, x)
    BY <1>2, <1>3 DEF PassedInv
  <2>1. c \in Keys
    BY <1>9, <1>2 DEF TypeOK
  <2>2. CASE x = k
    BY <2>1, <2>2, <1>6, <1>7
  <2>3. CASE x # k
    BY <2>1, <2>3, <1>7 DEF PassedInv
  <2> QED
    BY <2>2, <2>3
<1>15. ASSUME \A c \in kids : /\ Done(c)
                               /\ \A x \in filename_map[c] :
                                     declared[x] \subseteq filename_map[c]
       PROVE  \A x \in filename_map'[k] : declared[x] \subseteq filename_map'[k]
  BY <1>5, <1>15 DEF Sound
<1>16. ClosedInv'
  <2> SUFFICES ASSUME NEW y \in Keys, Done(y)', Acyclic(y)
               PROVE  \A x \in filename_map'[y] :
                         declared[x] \subseteq filename_map'[y]
    BY <1>2, <1>3 DEF ClosedInv
  <2>1. CASE y # k
    BY <2>1, <1>5, <1>7 DEF ClosedInv
  <2>2. CASE y = k
    <3>1. ASSUME NEW c \in kids
          PROVE  /\ Done(c)
                 /\ \A x \in filename_map[c] :
                       declared[x] \subseteq filename_map[c]
      <4>1. c \in Keys /\ Reaches(k, c)
        BY <1>4, <1>5, ReachesChild
      <4>2. ~OnCycle(c)
        BY <4>1, <2>2 DEF Acyclic, Reachable
      <4>3. ~Reaches(c, k)
        BY <4>1, <4>2, <1>4, ReachesTransitive DEF OnCycle
      <4>4. Done(c)
        BY <4>3, <1>6
      <4>5. Acyclic(c)
        BY <4>1, <2>2, <1>4, ReachesTransitive DEF Acyclic, Reachable
      <4> QED
        BY <4>1, <4>4, <4>5 DEF ClosedInv
    <3> QED
      BY <3>1, <2>2, <1>15
  <2> QED
    BY <2>1, <2>2
<1>17. CycleInv'
  <2>1. cycle_found' => \E x \in Keys : OnCycle(x)
    BY <1>2 DEF CycleInv
  <2>2. ASSUME ~cycle_found', NEW y \in Keys
        PROVE  /\ Done(y)' => /\ \A x \in filename_map'[y] : Done(x)'
                              /\ y \notin filename_map'[y]
                              /\ \A x \in filename_map'[y] :
                                    declared[x] \subseteq filename_map'[y]
               /\ seen_nodes'[y] = "calculating" =>
                     \A d \in declared[y] \ unvisited[y] : Done(d)'
    <3>1. ~cycle_found
      BY <2>2, <1>2
    <3>2. \A x, c \in Keys : x \in filename_map[c] \/ x \in declared[c]
                                => x \in Keys /\ (Done(x) => Done(x)')
      BY <1>7
    <3>3. CASE y # k
      BY <3>1, <3>2, <3>3, <1>5, <1>7, <1>9, <1>2 DEF CycleInv, TypeOK
    <3>4. CASE y = k
      <4>1. \A c \in kids : /\ Done(c)
                            /\ \A x \in filename_map[c] :
                                  Done(x) /\ declared[x] \subseteq filename_map[c]
        BY <3>1, <1>1, <1>4, <1>5 DEF CycleInv
      <4>2. \A x \in filename_map'[k] : Done(x)
        BY <4>1, <1>5
      <4>3. \A x \in filename_map'[k] : Done(x)' /\ x # k
        BY <4>2, <1>4, <1>7, <1>8, <1>9 DEF TypeOK
      <4> QED
        BY <4>1, <4>3, <3>4, <1>7, <1>15
    <3> QED
      BY <3>3, <3>4
  <2> QED
    BY <2>1, <2>2, <1>2, <1>3 DEF CycleInv
<1> QED
  BY <1>9, <1>10, <1>11, <1>12, <1>13, <1>14, <1>16, <1>17

(* Declaring mappings keeps IInv: nothing has been searched yet. *)
LEMMA AddMappingsKeepsIInv ==
  ASSUME IInv, AddMappings
  PROVE  IInv'
<1> USE DEF IInv
<1>1. /\ phase = "adding" /\ phase' = "adding"
      /\ filename_map' = declared'
      /\ UNCHANGED <<seen_nodes, node_stack, unvisited, cycle_found>>
  BY DEF AddMappings, search
<1>2. TypeOK'
  BY DEF AddMappings, TypeOK, search
<1>3. node_stack = <<>>
  BY <1>1 DEF StackInv
<1>4. \A k \in Keys : seen_nodes'[k] = "unused"
  BY <1>1 DEF AddingInv
<1>5. AddingInv' /\ FinishedInv'
  BY <1>1, <1>4 DEF AddingInv, FinishedInv
<1>6. StackInv'
  <2>1. node_stack' = <<>> /\ Len(node_stack') = 0
    BY <1>1, <1>3, EmptySeq
  <2>2. \A k \in Keys : ~OnStack(k)'
    BY <2>1 DEF OnStack
  <2>3. \A i, j \in 1..Len(node_stack') :
           i < j => /\ Reaches(node_stack[i], node_stack[j])'
                    /\ node_stack'[i] # node_stack'[j]
    BY <2>1
  <2> QED
    BY <2>1, <2>2, <2>3, <1>4 DEF StackInv
<1>7. UntouchedInv' /\ PassedInv' /\ ClosedInv' /\ CycleInv'
  BY <1>1, <1>4, <1>5 DEF UntouchedInv, PassedInv, ClosedInv, CycleInv, Done,
                          AddingInv
<1>8. Sound'
  <2> SUFFICES ASSUME NEW k \in Keys
               PROVE  declared'[k] \subseteq Reachable(k)'
    BY <1>1 DEF Sound
  <2> QED
    BY <1>2 DEF Reachable, Reaches, TypeOK
<1> QED
  BY <1>2, <1>5, <1>6, <1>7, <1>8

(* Beginning and ending the search changes only the phase. *)
LEMMA PhaseStepKeepsIInv ==
  ASSUME IInv, StartClosing \/ FinishClosing
  PROVE  IInv'
<1> USE DEF IInv
<1>1. /\ UNCHANGED <<declared, filename_map, seen_nodes, node_stack, unvisited,
                      cycle_found>>
      /\ node_stack = <<>>
      /\ \/ phase' = "closing"
         \/ /\ phase' = "closed"
            /\ \A k \in Keys : filename_map[k] # {} => seen_nodes[k] = "done"
  BY DEF StartClosing, FinishClosing, search, StackInv
<1>2. /\ \A a, b : Reaches(a, b)' <=> Reaches(a, b)
      /\ \A a : Reachable(a)' = Reachable(a)
      /\ \A a : OnCycle(a)' <=> OnCycle(a)
      /\ \A a : Acyclic(a)' <=> Acyclic(a)
  BY <1>1, ReachesStable
<1>3. \A x : Done(x)' <=> Done(x)
  BY <1>1 DEF Done
<1>4. TypeOK' /\ AddingInv' /\ FinishedInv'
  BY <1>1, <1>3 DEF TypeOK, AddingInv, FinishedInv, Done
<1>5. StackInv'
  BY <1>1, <1>2 DEF StackInv, OnStack
<1>6. UntouchedInv' /\ Sound' /\ PassedInv' /\ ClosedInv' /\ CycleInv'
  BY <1>1, <1>2, <1>3 DEF UntouchedInv, Sound, PassedInv, ClosedInv, CycleInv
<1> QED
  BY <1>4, <1>5, <1>6

-----------------------------------------------------------------------------
(* Every step keeps IInv: whatever is declared and in whatever order the   *)
(* search meets keys and children.                                         *)
LEMMA NextKeepsIInv ==
  ASSUME IInv, [Next]_vars
  PROVE  IInv'
<1>1. CASE AddMappings
  BY <1>1, AddMappingsKeepsIInv
<1>2. CASE StartClosing \/ FinishClosing
  BY <1>2, PhaseStepKeepsIInv
<1>3. ASSUME NEW k \in Keys, EnterRoot(k)
      PROVE  IInv'
  <2>1. /\ Enter(k) /\ phase = "closing"
        /\ \A i \in 1..Len(node_stack) : Reaches(node_stack[i], k)
    BY <1>3, EmptySeq DEF EnterRoot
  <2> QED
    BY <2>1, EnterKeepsIInv
<1>4. ASSUME NEW c \in Keys, EnterChild(c)
      PROVE  IInv'
  <2>1. Enter(c) /\ Searching /\ phase = "closing" /\ c \in unvisited[Active]
    BY <1>4 DEF EnterChild, Searching
  <2>2. /\ Active \in Keys
        /\ seen_nodes[Active] = "calculating"
        /\ \A i \in 1..Len(node_stack) : node_stack[i] \in Keys
        /\ \A i \in 1..Len(node_stack) :
              node_stack[i] = Active \/ Reaches(node_stack[i], Active)
    BY <2>1, ActiveFacts DEF IInv
  <2>3. Reaches(Active, c)
    BY <2>1, <2>2, ReachesChild DEF IInv, UntouchedInv
  <2>4. \A i \in 1..Len(node_stack) : Reaches(node_stack[i], c)
    BY <2>2, <2>3, ReachesTransitive
  <2> QED
    BY <2>1, <2>4, EnterKeepsIInv
<1>5. ASSUME NEW c \in Keys, PassChild(c)
      PROVE  IInv'
  BY <1>5, PassChildKeepsIInv
<1>6. CASE Leave
  BY <1>6, LeaveKeepsIInv
<1>7. CASE UNCHANGED vars
  <2>1. /\ UNCHANGED <<phase, declared, filename_map, seen_nodes, node_stack,
                        unvisited, cycle_found>>
    BY <1>7 DEF vars
  <2>2. /\ \A a, b : Reaches(a, b)' <=> Reaches(a, b)
        /\ \A a : Reachable(a)' = Reachable(a)
        /\ \A a : OnCycle(a)' <=> OnCycle(a)
        /\ \A a : Acyclic(a)' <=> Acyclic(a)
    BY <2>1, ReachesStable
  <2> QED
    BY <2>1, <2>2 DEF IInv, TypeOK, AddingInv, StackInv, OnStack, Done,
       UntouchedInv, Sound, PassedInv, ClosedInv, CycleInv, FinishedInv
<1> QED
  BY <1>1, <1>2, <1>3, <1>4, <1>5, <1>6, <1>7 DEF Next, Close

(* It holds wherever mappings are known and nothing has been searched yet. *)
LEMMA NothingSearched ==
  ASSUME phase = "adding",
         declared \in [Keys -> SUBSET Keys], filename_map = declared,
         seen_nodes = [k \in Keys |-> "unused"], node_stack = <<>>,
         unvisited = [k \in Keys |-> {}], cycle_found = FALSE
  PROVE  IInv
<1>1. /\ node_stack \in Seq(Keys)
      /\ Len(node_stack) = 0
      /\ \A k \in Keys : seen_nodes[k] = "unused"
  BY EmptySeq
<1>2. TypeOK
  BY <1>1 DEF TypeOK, Status
<1>3. StackInv
  BY <1>1 DEF StackInv, OnStack
<1>4. Sound
  BY DEF Sound, Reachable, Reaches
<1>5. UntouchedInv /\ AddingInv /\ FinishedInv
  BY <1>1 DEF UntouchedInv, AddingInv, FinishedInv
<1>6. PassedInv /\ ClosedInv /\ CycleInv
  BY <1>1 DEF PassedInv, ClosedInv, CycleInv, Done
<1> QED
  BY <1>2, <1>3, <1>4, <1>5, <1>6 DEF IInv

(* So it is inductive.                                                     *)
THEOREM InductiveInvariant == Spec => []IInv
<1>1. Init => IInv
  BY NothingSearched DEF Init
<1>2. IInv /\ [Next]_vars => IInv'
  BY NextKeepsIInv
<1> QED
  BY <1>1, <1>2, PTL DEF Spec

(* No include is offered that the mappings do not lead to, and no given    *)
(* mapping is lost, at any point of the in-place search.                   *)
THEOREM SoundAlways == Spec => []Sound
<1>1. IInv => Sound
  BY DEF IInv
<1> QED
  BY <1>1, InductiveInvariant, PTL

LEMMA IInvCompletes == IInv => CompleteAwayFromCycles
<1> SUFFICES ASSUME IInv, NEW k \in Keys, phase = "closed",
                    \A c \in Reachable(k) : ~OnCycle(c)
             PROVE  filename_map[k] = Reachable(k)
  BY DEF CompleteAwayFromCycles
<1>1. filename_map[k] \in SUBSET Keys
  BY DEF IInv, TypeOK
<1>2. /\ declared[k] \subseteq filename_map[k]
      /\ filename_map[k] \subseteq Reachable(k)
  BY DEF IInv, Sound
<1>3. ClosedUnder(filename_map[k])
  <2>1. CASE filename_map[k] = {}
    BY <2>1 DEF ClosedUnder
  <2>2. CASE filename_map[k] # {}
    <3>1. Done(k) /\ Acyclic(k)
      BY <2>2 DEF IInv, FinishedInv, Acyclic
    <3> QED
      BY <3>1 DEF IInv, ClosedInv, ClosedUnder
  <2> QED
    BY <2>1, <2>2
<1>4. Reachable(k) \subseteq filename_map[k]
  BY <1>1, <1>2, <1>3, ReachesInside
<1> QED
  BY <1>2, <1>4

(* Where no cycle can be reached the closure is complete, although the     *)
(* search updates the map it walks and gives up on cycles elsewhere.       *)
THEOREM CompleteWithoutCycles == Spec => []CompleteAwayFromCycles
BY IInvCompletes, InductiveInvariant, PTL

(* The three-valued status tells a shared child from a cycle: a cycle is   *)
(* met exactly when the mappings have one.                                 *)
THEOREM CyclesFoundExactly == Spec => []CycleFoundExactly
<1>1. IInv => CycleFoundExactly
  <2> SUFFICES ASSUME IInv, phase = "closed", ~cycle_found, NEW k \in Keys
               PROVE  ~OnCycle(k)
    BY DEF CycleFoundExactly, IInv, CycleInv
  <2>1. filename_map[k] \in SUBSET Keys
    BY DEF IInv, TypeOK
  <2>2. declared[k] \subseteq filename_map[k]
    BY DEF IInv, Sound
  <2>3. /\ k \notin filename_map[k]
        /\ ClosedUnder(filename_map[k])
    <3>1. CASE filename_map[k] = {}
      BY <3>1 DEF ClosedUnder
    <3>2. CASE filename_map[k] # {}
      BY <3>2 DEF IInv, FinishedInv, CycleInv, ClosedUnder
    <3> QED
      BY <3>1, <3>2
  <2>4. Reachable(k) \subseteq filename_map[k]
    BY <2>1, <2>2, <2>3, ReachesInside
  <2> QED
    BY <2>3, <2>4 DEF OnCycle, Reachable
<1> QED
  BY <1>1, InductiveInvariant, PTL
=============================================================================
