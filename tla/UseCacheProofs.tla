---------------------------- MODULE UseCacheProofs ----------------------------
(* Theorems about UseCache, for any nodes, types and sites.                *)
EXTENDS UseCache, RecursionLemmas

ResugarMaps == {s.resugar_map : s \in Sites}

-----------------------------------------------------------------------------
(* What is below an item is the least set with it that After does not lead *)
(* out of.                                                                 *)
LEMMA ItemCases ==
  ASSUME NEW i \in Items
  PROVE  /\ i = AnItem(i.kind, i.x)
         /\ \/ i.kind = "decl" /\ i.x \in DOMAIN DeclFile
            \/ i.kind \in {"type", "parm", "instantiations"} /\ i.x \in Types
            \/ i.kind \in {"call", "function"} /\ i.x \in NodesOf("function")
            \/ i.kind = "variable" /\ i.x \in NodesOf("variable")
            \/ i.kind \in {"class", "members"} /\ i.x \in NodesOf("class")
BY DEF Items, AnItem

LEMMA AnItemType ==
  /\ \A d \in DOMAIN DeclFile : AnItem("decl", d) \in Items
  /\ \A t \in Types : /\ AnItem("type", t) \in Items
                      /\ AnItem("instantiations", t) \in Items
  /\ \A n \in NodesOf("function") : AnItem("function", n) \in Items
  /\ \A n \in NodesOf("class") : AnItem("class", n) \in Items /\ AnItem("members", n) \in Items
BY DEF Items

LEMMA AnItemFields == \A kind, x : AnItem(kind, x).kind = kind /\ AnItem(kind, x).x = x
BY DEF AnItem

LEMMA RangeOfSequence ==
  ASSUME NEW S, NEW s \in Seq(S)
  PROVE  Range(s) \subseteq S
BY DEF Range

LEMMA BodyType ==
  ASSUME NEW n \in Nodes
  PROVE  NodeInfo[n].body \in Seq(Items) /\ Range(NodeInfo[n].body) \subseteq ItemsWithin
<1>1. NodeInfo[n].body \in Seq(ItemsWithin)
  BY NodesAssumption
<1>2. ItemsWithin \subseteq Items
  BY DEF ItemsWithin
<1> QED BY <1>1, <1>2, RangeOfSequence

LEMMA ComponentsType ==
  ASSUME NEW t \in Types
  PROVE  Components(t) \in Seq(Items) /\ Range(Components(t)) \subseteq ItemsWithin
<1> DEFINE class == TypeInfo[TypeInfo[t].canonical].class
<1>1. class \in NodesOf("class") \cup {NoNode}
  BY TypesAssumption
<1>2. CASE class = NoNode
  BY <1>2 DEF Components, Range
<1>3. CASE class # NoNode
  <2>1. Components(t) = <<AnItem("class", class)>>
    BY <1>3 DEF Components
  <2>2. AnItem("class", class) \in ItemsWithin
    BY <1>1, <1>3, AnItemType, AnItemFields DEF ItemsWithin
  <2>3. Components(t) \in Seq(ItemsWithin)
    BY <2>1, <2>2
  <2>4. ItemsWithin \subseteq Items
    BY DEF ItemsWithin
  <2> QED BY <2>3, <2>4, RangeOfSequence
<1> QED BY <1>2, <1>3

LEMMA PrecomputedItemsType ==
  ASSUME NEW n \in Nodes, NEW r \in ResugarMaps
  PROVE  /\ PrecomputedItems(n, r) \in Seq(Items)
         /\ Range(PrecomputedItems(n, r)) \subseteq ItemsWithin
<1> DEFINE args == NodeInfo[n].precomputed
           due == {i \in PrecomputedUses(n, r) :
                     args[i].default => TypeInfo[args[i].type].file \notin Provides[NodeInfo[n].file]}
           items(i) == <<AnItem("type", args[i].type)>> \o Components(args[i].type)
           seqs == [i \in DOMAIN args |-> IF i \in due THEN items(i) ELSE <<>>]
<1>1. args \in Seq([type : Types, default : BOOLEAN])
  BY NodesAssumption
<1>2. ASSUME NEW i \in DOMAIN args PROVE seqs[i] \in Seq(ItemsWithin)
  <2>1. args[i].type \in Types
    <3> DEFINE T == [type : Types, default : BOOLEAN]
    <3>1. args[i] \in T
      <4>1. args \in Seq(T) /\ i \in DOMAIN args
        BY <1>1, <1>2
      <4> HIDE DEF args, T
      <4> QED BY <4>1
    <3> QED BY <3>1
  <2>2. AnItem("type", args[i].type) \in ItemsWithin
    BY <2>1, AnItemType, AnItemFields DEF ItemsWithin
  <2>3. Components(args[i].type) \in Seq(ItemsWithin)
    BY <2>1, ComponentsType DEF Range
  <2>4. items(i) \in Seq(ItemsWithin)
    BY <2>2, <2>3
  <2> HIDE DEF items, due
  <2> QED BY <2>4
<1>3. seqs \in Seq(Seq(ItemsWithin))
  <2>1. DOMAIN args = 1..Len(args) /\ Len(args) \in Nat
    BY <1>1
  <2>2. DOMAIN seqs = 1..Len(args)
    BY <2>1
  <2> HIDE DEF seqs, args
  <2> QED BY <1>2, <2>1, <2>2 DEF seqs
<1>4. FlattenSeq(seqs) \in Seq(ItemsWithin)
  <2> HIDE DEF seqs
  <2> QED BY <1>3, FlattenSeqType
<1>5. PrecomputedItems(n, r) = FlattenSeq(seqs)
  BY DEF PrecomputedItems
<1>6. ItemsWithin \subseteq Items
  BY DEF ItemsWithin
<1> DEFINE flat == FlattenSeq(seqs)
<1>7. flat \in Seq(Items) /\ Range(flat) \subseteq ItemsWithin
  <2>1. flat \in Seq(ItemsWithin)
    BY <1>4
  <2> HIDE DEF flat
  <2> QED BY <1>6, <2>1, RangeOfSequence
<1> QED BY <1>5, <1>7

LEMMA AfterType ==
  ASSUME NEW i \in Items, NEW r \in ResugarMaps
  PROVE  After(i, r) \subseteq Items
<1>1. ItemsWithin \subseteq Items
  BY DEF ItemsWithin
<1>2. CASE i.kind = "decl" \/ i.kind = "instantiations"
  BY <1>2 DEF After
<1>3. CASE i.kind = "call"
  BY <1>3, ItemCases, AnItemType DEF After
<1>4. CASE i.kind \in {"function", "variable"}
  BY <1>1, <1>4, ItemCases, BodyType DEF After, NodesOf
<1>5. CASE i.kind \in {"class", "members"}
  <2>1. i.x \in Nodes
    BY <1>5, ItemCases DEF NodesOf
  <2> QED BY <1>1, <1>5, <2>1, BodyType, PrecomputedItemsType DEF After
<1>6. CASE i.kind = "parm"
  <2>1. i.x \in Types
    BY <1>6, ItemCases
  <2>2. TypeInfo[i.x].class \in NodesOf("class") \cup {NoNode}
    BY <2>1, TypesAssumption
  <2> QED BY <1>6, <2>1, <2>2, AnItemType DEF After
<1>7. CASE i.kind = "type"
  <2>1. i.x \in Types
    BY <1>7, ItemCases
  <2> QED BY <1>1, <1>7, <2>1, ComponentsType DEF After
<1> QED BY <1>2, <1>3, <1>4, <1>5, <1>6, <1>7, ItemCases

LEMMA ItemsFinite == IsFiniteSet(Items)
<1> DEFINE kinds == {"decl", "type", "parm", "instantiations", "call", "function",
                     "variable", "class", "members"}
           things == DOMAIN DeclFile \cup Types \cup Nodes
           pairs == kinds \X things
           ItemOf == [p \in pairs |-> AnItem(p[1], p[2])]
<1>1. IsFiniteSet(things)
  BY FinitenessAssumption, FS_Union
<1>2. IsFiniteSet(kinds)
  <2> DEFINE list == <<"decl", "type", "parm", "instantiations", "call", "function",
                       "variable", "class", "members">>
  <2>1. list \in Seq(kinds) /\ \A k \in kinds : \E i \in 1..Len(list) : list[i] = k
    OBVIOUS
  <2> QED BY <2>1 DEF IsFiniteSet
<1>3. IsFiniteSet(pairs)
  <2> HIDE DEF kinds, things
  <2> QED BY <1>1, <1>2, FS_Product
<1>4. IsFiniteSet({ItemOf[p] : p \in pairs})
  <2> DEFINE image == {ItemOf[p] : p \in pairs}
  <2>1. ItemOf \in Surjection(pairs, image)
    BY DEF Surjection
  <2> HIDE DEF ItemOf, pairs, image
  <2>2. IsFiniteSet(image)
    BY <1>3, <2>1, FS_Surjection
  <2> QED BY <2>2 DEF image
<1>5. Items \subseteq {ItemOf[p] : p \in pairs}
  <2>1. ASSUME NEW i \in Items PROVE \E p \in pairs : i = ItemOf[p]
    <3>1. <<i.kind, i.x>> \in pairs
      BY <2>1, ItemCases DEF NodesOf
    <3>2. i = ItemOf[<<i.kind, i.x>>]
      <4> HIDE DEF pairs
      <4> QED BY <2>1, <3>1, ItemCases
    <3> QED BY <3>1, <3>2
  <2> HIDE DEF ItemOf, pairs
  <2> QED BY <2>1
<1> HIDE DEF ItemOf, pairs
<1> QED BY <1>4, <1>5, FS_Subset

Grown(S, r) == S \cup UNION {After(i, r) : i \in S}

LEMMA BelowByStages ==
  ASSUME NEW r \in ResugarMaps, NEW S \in SUBSET Items
  PROVE  \E within \in [Nat -> SUBSET Items] :
           /\ within[0] = S
           /\ \A n \in Nat : within[n + 1] = Grown(within[n], r)
           /\ Below(S, r) = within[Cardinality(Items)]
<1> DEFINE Step == [p \in Nat \X SUBSET Items |-> Grown(p[2], r)]
           T == SUBSET Items
           Stages(f) ==
             [n \in Nat |->
                IF n = 0 THEN S
                ELSE LET nearer == f[n - 1]
                     IN  nearer \cup UNION {After(i, r) : i \in nearer}]
           within == CHOOSE f : f = Stages(f)
<1>1. ASSUME NEW n \in Nat, NEW X \in T PROVE Step[<<n, X>>] = Grown(X, r)
  OBVIOUS
<1>2. IsRecursion(S, Step, T)
  <2>1. ASSUME NEW X \in T PROVE Grown(X, r) \in T
    BY <2>1, AfterType DEF Grown
  <2> HIDE DEF Step, T
  <2>2. \A n \in Nat, X \in T : Step[<<n, X>>] \in T
    BY <1>1, <2>1
  <2>3. S \in T
    BY DEF T
  <2> QED BY <2>2, <2>3 DEF IsRecursion
<1>3. PICK f \in [Nat -> T] : f[0] = S /\ \A n \in Nat : f[n + 1] = Step[<<n, f[n]>>]
  <2> HIDE DEF Step, T
  <2> QED BY <1>2, Recursion
<1>4. \A n \in Nat : f[n + 1] = Grown(f[n], r)
  <2> HIDE DEF Step, T
  <2> QED BY <1>1, <1>3
<1>5. f = Stages(f)
  <2>1. ASSUME NEW n \in Nat
        PROVE  f[n] = IF n = 0 THEN S
                      ELSE LET nearer == f[n - 1]
                           IN  nearer \cup UNION {After(i, r) : i \in nearer}
    <3>1. CASE n = 0
      BY <1>3, <3>1
    <3>2. CASE n # 0
      <4>1. n - 1 \in Nat /\ n = (n - 1) + 1
        BY <3>2
      <4>2. f[n] = Grown(f[n - 1], r)
        BY <1>4, <4>1
      <4> QED BY <3>2, <4>2 DEF Grown
    <3> QED BY <3>1, <3>2
  <2>2. f = [n \in Nat |-> f[n]]
    BY <1>3
  <2> HIDE DEF Step, T
  <2> QED BY <2>1, <2>2
<1>6. within = Stages(within)
  <2> HIDE DEF Stages
  <2> QED BY <1>5
<1>7. Below(S, r) = within[Cardinality(Items)]
  BY DEF Below
<1> DEFINE agree == {n \in Nat : within[n] = f[n]}
<1>8. agree = Nat
  <2>1. 0 \in agree
    <3> HIDE DEF within
    <3> QED BY <1>3, <1>6
  <2>2. ASSUME NEW n \in agree PROVE n + 1 \in agree
    <3>1. (n + 1) - 1 = n /\ n + 1 # 0 /\ n + 1 \in Nat
      BY <2>2
    <3>2. within[n + 1] = Grown(within[n], r)
      <4> HIDE DEF within
      <4> QED BY <1>6, <2>2, <3>1 DEF Grown
    <3>3. within[n] = f[n]
      BY <2>2
    <3> HIDE DEF within
    <3> QED BY <1>4, <2>2, <3>1, <3>2, <3>3
  <2>3. agree \in SUBSET Nat
    OBVIOUS
  <2> HIDE DEF agree
  <2> QED BY <2>1, <2>2, <2>3, Induction
<1>9. Cardinality(Items) \in Nat
  BY ItemsFinite, FS_CardinalityType
<1>10. Below(S, r) = f[Cardinality(Items)]
  BY <1>7, <1>8, <1>9
<1> QED BY <1>3, <1>4, <1>10

Closed(S, r) == \A i \in S : After(i, r) \subseteq S

LEMMA BelowIsLeastClosed ==
  ASSUME NEW r \in ResugarMaps, NEW S \in SUBSET Items
  PROVE  /\ S \subseteq Below(S, r) /\ Below(S, r) \subseteq Items
         /\ Closed(Below(S, r), r)
         /\ \A T : S \subseteq T /\ Closed(T, r) => Below(S, r) \subseteq T
<1>1. PICK within \in [Nat -> SUBSET Items] :
           /\ within[0] = S
           /\ \A n \in Nat : within[n + 1] = Grown(within[n], r)
           /\ Below(S, r) = within[Cardinality(Items)]
  BY BelowByStages
<1> DEFINE N == Cardinality(Items)
<1>2. N \in Nat
  BY ItemsFinite, FS_CardinalityType
<1>3. within[N + 1] = within[N]
  <2>1. \A n \in Nat : within[n] \subseteq within[n + 1]
    BY <1>1 DEF Grown
  <2>2. \A n \in Nat : within[n + 1] = within[n] => within[n + 1 + 1] = within[n + 1]
    BY <1>1
  <2> QED BY <2>1, <2>2, ItemsFinite, GrowthStops
<1>4. Closed(within[N], r)
  BY <1>1, <1>2, <1>3 DEF Closed, Grown
<1>5. S \subseteq within[N]
  <2> DEFINE holds == {n \in Nat : S \subseteq within[n]}
  <2>1. 0 \in holds
    BY <1>1
  <2>2. ASSUME NEW n \in holds PROVE n + 1 \in holds
    BY <1>1, <2>2 DEF Grown
  <2>3. holds \in SUBSET Nat
    OBVIOUS
  <2>4. holds = Nat
    <3> HIDE DEF holds
    <3> QED BY <2>1, <2>2, <2>3, Induction
  <2> QED BY <1>2, <2>4
<1>6. ASSUME NEW T, S \subseteq T, Closed(T, r) PROVE within[N] \subseteq T
  <2> DEFINE holds == {n \in Nat : within[n] \subseteq T}
  <2>1. 0 \in holds
    BY <1>1, <1>6
  <2>2. ASSUME NEW n \in holds PROVE n + 1 \in holds
    BY <1>1, <1>6, <2>2 DEF Grown, Closed
  <2>3. holds \in SUBSET Nat
    OBVIOUS
  <2>4. holds = Nat
    <3> HIDE DEF holds
    <3> QED BY <2>1, <2>2, <2>3, Induction
  <2> QED BY <1>2, <2>4
<1>7. within[N] \subseteq Items
  BY <1>2
<1> QED BY <1>1, <1>4, <1>5, <1>6, <1>7

-----------------------------------------------------------------------------
(* What the items below some items use: types and declarations as items of *)
(* their own, in the form in which an entry of the cache replays them.     *)
DirectUses(i, r) ==
  CASE i.kind = "type" -> IF IsKnownTemplateParam(i.x, r)
                          THEN {AnItem("type", ResugarType(i.x, r))} ELSE {}
    [] i.kind \in {"decl", "instantiations"} -> {i}
    [] i.kind = "call" -> {AnItem("decl", NodeInfo[i.x].decl)}
    [] i.kind \in {"parm", "function", "variable", "class", "members"} -> {}

Uses(S, r) == UNION {DirectUses(i, r) : i \in Below(S, r)}

LEMMA ResugarTypeSame ==
  ASSUME NEW r \in ResugarMaps, NEW t \in Types
  PROVE  /\ ResugarType(t, r) \in Types
         /\ TypeInfo[ResugarType(t, r)].canonical = TypeInfo[t].canonical
         /\ ResugarType(ResugarType(t, r), r) = ResugarType(t, r)
         /\ IsKnownTemplateParam(ResugarType(t, r), r) <=> IsKnownTemplateParam(t, r)
         /\ Components(ResugarType(t, r)) = Components(t)
BY TypesAssumption, SitesAssumption
   DEF ResugarMaps, ResugarType, IsKnownTemplateParam, Components

LEMMA DirectUsesType ==
  ASSUME NEW r \in ResugarMaps, NEW i \in Items
  PROVE  DirectUses(i, r) \subseteq Items
<1>1. CASE i.kind = "type"
  BY <1>1, ItemCases, ResugarTypeSame, AnItemType DEF DirectUses
<1>2. CASE i.kind = "call"
  BY <1>2, ItemCases, NodesAssumption, AnItemType DEF DirectUses, NodesOf
<1>3. CASE i.kind \notin {"type", "call"}
  BY <1>3, ItemCases DEF DirectUses
<1> QED BY <1>1, <1>2, <1>3

LEMMA UsesType ==
  ASSUME NEW r \in ResugarMaps, NEW S \in SUBSET Items
  PROVE  Uses(S, r) \subseteq Items
BY BelowIsLeastClosed, DirectUsesType DEF Uses

(* Items are searched independently of each other, ... *)
LEMMA UsesOfEach ==
  ASSUME NEW r \in ResugarMaps, NEW S \in SUBSET Items
  PROVE  Uses(S, r) = UNION {Uses({i}, r) : i \in S}
<1> DEFINE each == UNION {Below({i}, r) : i \in S}
<1>1. Below(S, r) \subseteq each
  <2>1. \A i \in S : i \in Below({i}, r) /\ Closed(Below({i}, r), r)
    BY BelowIsLeastClosed
  <2>2. S \subseteq each /\ Closed(each, r)
    BY <2>1 DEF Closed
  <2> HIDE DEF each
  <2> QED BY <2>2, BelowIsLeastClosed
<1>2. each \subseteq Below(S, r)
  <2>1. ASSUME NEW i \in S PROVE Below({i}, r) \subseteq Below(S, r)
    <3>1. {i} \subseteq Below(S, r) /\ Closed(Below(S, r), r) /\ {i} \in SUBSET Items
      BY BelowIsLeastClosed
    <3> QED BY <3>1, BelowIsLeastClosed
  <2> QED BY <2>1
<1>3. Below(S, r) = each
  BY <1>1, <1>2
<1>4. ASSUME NEW u
      PROVE  u \in Uses(S, r) <=> \E i \in S : u \in Uses({i}, r)
  <2>1. u \in Uses(S, r) <=> \E j \in each : u \in DirectUses(j, r)
    BY <1>3 DEF Uses
  <2>2. (\E j \in each : u \in DirectUses(j, r))
          <=> \E i \in S : \E j \in Below({i}, r) : u \in DirectUses(j, r)
    OBVIOUS
  <2>3. \A i \in S :
          u \in Uses({i}, r) <=> \E j \in Below({i}, r) : u \in DirectUses(j, r)
    BY DEF Uses
  <2> HIDE DEF each
  <2> QED BY <2>1, <2>2, <2>3, Zenon
<1> QED BY <1>4

LEMMA UsedBySome ==
  ASSUME NEW r \in ResugarMaps, NEW S \in SUBSET Items, NEW u
  PROVE  u \in Uses(S, r) <=> \E i \in S : u \in Uses({i}, r)
<1>1. Uses(S, r) = UNION {Uses({i}, r) : i \in S}
  BY UsesOfEach
<1> QED BY <1>1

(* ... and an item leads to what comes after it. *)
LEMMA UsesOfItem ==
  ASSUME NEW r \in ResugarMaps, NEW i \in Items
  PROVE  Uses({i}, r) = DirectUses(i, r) \cup Uses(After(i, r), r)
<1> DEFINE after == Below(After(i, r), r)
<1>1. /\ After(i, r) \in SUBSET Items /\ {i} \in SUBSET Items
      /\ After(i, r) \subseteq after /\ Closed(after, r)
  BY AfterType, BelowIsLeastClosed
<1>2. Below({i}, r) \subseteq {i} \cup after
  <2>1. Closed({i} \cup after, r)
    BY <1>1 DEF Closed
  <2>2. {i} \subseteq {i} \cup after
    OBVIOUS
  <2> HIDE DEF after
  <2> QED BY <1>1, <2>1, <2>2, BelowIsLeastClosed
<1>3. {i} \cup after \subseteq Below({i}, r)
  <2>1. i \in Below({i}, r) /\ Closed(Below({i}, r), r)
    BY <1>1, BelowIsLeastClosed
  <2>2. After(i, r) \subseteq Below({i}, r)
    BY <2>1 DEF Closed
  <2>3. after \subseteq Below({i}, r)
    BY <1>1, <2>1, <2>2, BelowIsLeastClosed
  <2> QED BY <2>1, <2>3
<1>4. Below({i}, r) = {i} \cup after
  BY <1>2, <1>3
<1> QED BY <1>4 DEF Uses

LEMMA UsesMonotonic ==
  ASSUME NEW r \in ResugarMaps, NEW T \in SUBSET Items, NEW S \in SUBSET T
  PROVE  Uses(S, r) \subseteq Uses(T, r)
<1>1. S \in SUBSET Items
  OBVIOUS
<1>2. \A u : u \in Uses(S, r) => u \in Uses(T, r)
  BY <1>1, UsedBySome
<1> QED BY <1>2

LEMMA UsesOfUnion ==
  ASSUME NEW r \in ResugarMaps, NEW S \in SUBSET Items, NEW T \in SUBSET Items
  PROVE  Uses(S \cup T, r) = Uses(S, r) \cup Uses(T, r)
<1> DEFINE both == S \cup T
<1>1. both \in SUBSET Items /\ \A i : i \in both <=> i \in S \/ i \in T
  OBVIOUS
<1> HIDE DEF both
<1>2. \A u : u \in Uses(both, r) <=> u \in Uses(S, r) \/ u \in Uses(T, r)
  BY <1>1, UsedBySome
<1>3. Uses(both, r) = Uses(S, r) \cup Uses(T, r)
  BY <1>2
<1> QED BY <1>3 DEF both

LEMMA UsesOfNothing ==
  ASSUME NEW r \in ResugarMaps
  PROVE  Uses({}, r) = {}
<1> DEFINE none == {}
<1>1. none \in SUBSET Items /\ \A i : i \notin none
  OBVIOUS
<1> HIDE DEF none
<1>2. \A u : u \notin Uses(none, r)
  BY <1>1, UsedBySome
<1> QED BY <1>2 DEF none

(* A type that is replayed uses what the one in the template did.          *)
LEMMA UsesOfResugared ==
  ASSUME NEW r \in ResugarMaps, NEW t \in Types
  PROVE  Uses({AnItem("type", ResugarType(t, r))}, r) = Uses({AnItem("type", t)}, r)
<1> DEFINE i == AnItem("type", t)
           j == AnItem("type", ResugarType(t, r))
<1>1. i \in Items /\ j \in Items
  BY ResugarTypeSame, AnItemType
<1> DEFINE t2 == ResugarType(t, r)
<1>2. /\ t2 \in Types /\ ResugarType(t2, r) = t2 /\ Components(t2) = Components(t)
      /\ IsKnownTemplateParam(t2, r) <=> IsKnownTemplateParam(t, r)
  BY ResugarTypeSame
<1>3. i.kind = "type" /\ i.x = t /\ j.kind = "type" /\ j.x = t2
  BY AnItemFields
<1> HIDE DEF i, j, t2
<1>4. After(j, r) = After(i, r)
  BY <1>2, <1>3 DEF After
<1>5. DirectUses(j, r) = DirectUses(i, r)
  BY <1>2, <1>3 DEF DirectUses, t2
<1>6. Uses({i}, r) = Uses({j}, r)
  BY <1>1, <1>4, <1>5, UsesOfItem
<1> QED BY <1>6 DEF i, j

(* The relation to the terms of the properties.                            *)
LEMMA UsedTypes ==
  ASSUME NEW r \in ResugarMaps, NEW S \in SUBSET Items, NEW t
  PROVE  t \in TypesUsed(Below(S, r), r) <=> AnItem("type", t) \in Uses(S, r)
<1> DEFINE B == Below(S, r)
<1>1. B \subseteq Items
  BY BelowIsLeastClosed
<1>2. ASSUME NEW i \in B
      PROVE  AnItem("type", t) \in DirectUses(i, r) <=>
               i.kind = "type" /\ IsKnownTemplateParam(i.x, r) /\ t = ResugarType(i.x, r)
  <2>1. CASE i.kind = "type"
    BY <2>1, AnItemFields DEF DirectUses
  <2>2. CASE i.kind = "call"
    BY <2>2, AnItemFields DEF DirectUses
  <2>3. CASE i.kind \notin {"type", "call"}
    BY <1>1, <2>3, ItemCases, AnItemFields DEF DirectUses
  <2> QED BY <2>1, <2>2, <2>3
<1>3. AnItem("type", t) \in Uses(S, r) <=> \E i \in B : AnItem("type", t) \in DirectUses(i, r)
  BY DEF Uses
<1>4. t \in TypesUsed(B, r) <=>
        \E i \in B : i.kind = "type" /\ IsKnownTemplateParam(i.x, r) /\ t = ResugarType(i.x, r)
  BY DEF TypesUsed
<1> HIDE DEF B
<1>5. t \in TypesUsed(B, r) <=> AnItem("type", t) \in Uses(S, r)
  BY <1>2, <1>3, <1>4
<1> QED BY <1>5 DEF B

LEMMA UsedDecls ==
  ASSUME NEW r \in ResugarMaps, NEW S \in SUBSET Items, NEW d
  PROVE  d \in DeclsUsed(Below(S, r)) <=> AnItem("decl", d) \in Uses(S, r)
<1> DEFINE B == Below(S, r)
<1>1. B \subseteq Items
  BY BelowIsLeastClosed
<1>2. ASSUME NEW i \in B
      PROVE  AnItem("decl", d) \in DirectUses(i, r) <=>
               (i.kind = "decl" /\ d = i.x) \/ (i.kind = "call" /\ d = NodeInfo[i.x].decl)
  <2>1. CASE i.kind = "type"
    BY <2>1, AnItemFields DEF DirectUses
  <2>2. CASE i.kind = "call"
    BY <2>2, AnItemFields DEF DirectUses
  <2>3. CASE i.kind \in {"decl", "instantiations"}
    BY <1>1, <2>3, ItemCases, AnItemFields DEF DirectUses
  <2>4. CASE i.kind \notin {"type", "call", "decl", "instantiations"}
    BY <1>1, <2>4, ItemCases, AnItemFields DEF DirectUses
  <2> QED BY <2>1, <2>2, <2>3, <2>4
<1>3. AnItem("decl", d) \in Uses(S, r) <=> \E i \in B : AnItem("decl", d) \in DirectUses(i, r)
  BY DEF Uses
<1>4. d \in DeclsUsed(B) <=> \E i \in B :
          (i.kind = "decl" /\ d = i.x) \/ (i.kind = "call" /\ d = NodeInfo[i.x].decl)
  BY DEF DeclsUsed
<1> HIDE DEF B
<1>5. d \in DeclsUsed(B) <=> AnItem("decl", d) \in Uses(S, r)
  BY <1>2, <1>3, <1>4
<1> QED BY <1>5 DEF B

LEMMA UsedInstantiations ==
  ASSUME NEW r \in ResugarMaps, NEW S \in SUBSET Items, NEW t \in Types,
         AnItem("instantiations", t) \in Uses(S, r)
  PROVE  {i.decl : i \in Range(TypeInfo[TypeInfo[t].canonical].instantiations)}
           \subseteq Instantiations(Below(S, r))
<1> DEFINE item == AnItem("instantiations", t)
<1>1. PICK i \in Below(S, r) : item \in DirectUses(i, r)
  BY DEF Uses
<1>2. i \in Items
  BY BelowIsLeastClosed
<1>3. i.kind \in {"decl", "instantiations"}
  <2>1. i.kind # "type" /\ i.kind # "call"
    BY <1>1, AnItemFields DEF DirectUses
  <2> QED BY <1>1, <1>2, <2>1, ItemCases DEF DirectUses
<1>4. item = i
  BY <1>1, <1>3 DEF DirectUses
<1>5. item \in Below(S, r) /\ item.kind = "instantiations" /\ item.x = t
  BY <1>1, <1>4, AnItemFields
<1> QED BY <1>5 DEF Instantiations

-----------------------------------------------------------------------------
(* The invariant.                                                          *)
Frames ==
  [node : Nodes \cup {NoNode}, items : Seq(Items), storing : BOOLEAN,
   types : SUBSET Types, decls : SUBSET DOMAIN DeclFile]

Entries == [types : SUBSET Types, decls : SUBSET DOMAIN DeclFile]

CacheType ==
  /\ DOMAIN cache \subseteq Nodes \X ResugarMaps
  /\ \A key \in DOMAIN cache : cache[key] \in Entries
  /\ tainted \subseteq DOMAIN cache

ScanType ==
  /\ frames \in Seq(Frames)
  /\ Scanning => site \in Sites
  /\ \A i \in DOMAIN frames :
        IF i = 1 THEN frames[i].node = NoNode /\ ~frames[i].storing
        ELSE frames[i].node \in Nodes /\ Range(frames[i].items) \subseteq ItemsWithin
  /\ seen \in Seq(SUBSET Nodes) /\ Len(seen) = Len(frames)
  /\ traversed_decls \subseteq Nodes
  /\ affected \subseteq DOMAIN frames

(* The types and declarations in their places, of as many frames as there  *)
(* are nodes seen, and entries for nodes and resugar maps that there are.  *)
TypeOK ==
  /\ CacheType /\ ScanType
  /\ num_scans \in 0..MaxScans
  /\ \A result \in results : result.site \in Sites

(* The members of a class are the first that a scan searches, or never.    *)
MembersFirst ==
  Scanning /\ ~(Range(frames[1].items) \subseteq ItemsWithin) =>
    /\ Len(frames) = 1 /\ frames[1].items = site.items
    /\ \E n \in NodesOf("class") : site.items = <<AnItem("members", n)>>

StartsAt(n) == site.items[1] = AnItem("members", n)

NodesOnce ==
  /\ \A i \in DOMAIN frames \ {1} :
        frames[i].node \in traversed_decls \/ (i = 2 /\ StartsAt(frames[i].node))
  /\ NoNodeWithinItself

(* What is being searched, and what is yet to be searched for it.          *)
Entry(i) == IF i = 1 THEN Range(site.items) ELSE {EntryItem(frames[i].node)}
RemainingOf(fs, i) == UNION {Range(fs[j].items) : j \in i..Len(fs)}
Remaining(i) == RemainingOf(frames, i)

UsesOfEntry(entry) ==
  {AnItem("type", t) : t \in entry.types} \cup {AnItem("decl", d) : d \in entry.decls}

Reportable(uses) ==
  {TypeInfo[t].canonical : t \in {u \in Types : AnItem("type", u) \in uses}}
  \cup {d \in DOMAIN DeclFile : AnItem("decl", d) \in uses}
  \cup UNION {{i.decl : i \in Range(TypeInfo[TypeInfo[t].canonical].instantiations)} :
              t \in {u \in Types : AnItem("instantiations", u) \in uses}}

CacheSound ==
  \A key \in DOMAIN cache : UsesOfEntry(cache[key]) \subseteq Uses({EntryItem(key[1])}, key[2])

ScanSound ==
  /\ \A i \in DOMAIN frames :
        /\ \A item \in Remaining(i) : Uses({item}, Resugar) \subseteq Uses(Entry(i), Resugar)
        /\ UsesOfEntry(frames[i]) \subseteq Uses(Entry(i), Resugar)
  /\ Scanning => reported \subseteq Reportable(Uses(Entry(1), Resugar))

(* What has to be found: the rest is subject to the templates on the way.  *)
Kept ==
  {AnItem("type", t) : t \in Types}
  \cup {AnItem("decl", d) : d \in {c \in DOMAIN DeclFile : ProvidedByNone(c)}}

(* What a frame has done about it.                                         *)
Recorded(i) ==
  IF i = 1
  THEN {AnItem("type", t) : t \in
          {u \in Types : TypeInfo[u].canonical \in reported \cup site.blocked_types \cup TypeInfo[u].provided}}
       \cup {AnItem("decl", d) : d \in reported}
  ELSE UsesOfEntry(frames[i])

(* A set of items that have been searched, but for what remains.           *)
Searched(done, remaining, recorded, r) ==
  /\ done \subseteq Items
  /\ \A item \in done :
        /\ After(item, r) \subseteq done \cup remaining
        /\ DirectUses(item, r) \cap Kept \subseteq
             recorded \cup UNION {DirectUses(i, r) : i \in remaining}

Explored(done, entry, nodes, remaining, recorded, r) ==
  /\ Searched(done, remaining, recorded, r)
  /\ entry \subseteq done \cup remaining
  /\ \A n \in nodes : NodeInfo[n].precomputed = <<>> => EntryItem(n) \in done

CacheComplete ==
  \A key \in DOMAIN cache \ tainted :
    Uses({EntryItem(key[1])}, key[2]) \cap Kept \subseteq UsesOfEntry(cache[key])

ScanComplete ==
  \A i \in DOMAIN frames \ affected :
    i = 1 \/ frames[i].storing =>
      \E done : Explored(done, Entry(i), traversed_decls \ seen[i], Remaining(i), Recorded(i), Resugar)

ResultsComplete ==
  \A result \in results : result.affected \/ Due(result) \subseteq result.reported

IInv ==
  /\ TypeOK /\ MembersFirst /\ NodesOnce
  /\ CacheSound /\ ScanSound
  /\ CacheComplete /\ ScanComplete /\ ResultsComplete

-----------------------------------------------------------------------------
(* A use leads to no other than itself, and a type to those of its class.  *)
LEMMA UseIsDirect ==
  ASSUME NEW r \in ResugarMaps, NEW S \in SUBSET Items, NEW u \in Uses(S, r)
  PROVE  u \in Items /\ DirectUses(u, r) = {u} /\ Uses({u}, r) \subseteq Uses(S, r)
<1>1. u \in Items
  BY UsesType
<1>2. PICK i \in Below(S, r) : u \in DirectUses(i, r)
  BY DEF Uses
<1>3. i \in Items
  BY BelowIsLeastClosed
<1>4. Uses({i}, r) \subseteq Uses(S, r)
  <2>1. Below({i}, r) \subseteq Below(S, r)
    <3> DEFINE B == Below(S, r)
               one == {i}
    <3>1. one \in SUBSET Items /\ one \subseteq B /\ Closed(B, r)
      BY <1>2, <1>3, BelowIsLeastClosed
    <3> HIDE DEF one, B
    <3>2. Below(one, r) \subseteq B
      BY <3>1, BelowIsLeastClosed
    <3> QED BY <3>2 DEF one, B
  <2> QED BY <2>1 DEF Uses
<1>5. CASE i.kind = "type"
  <2>1. /\ i.x \in Types /\ i = AnItem("type", i.x) /\ IsKnownTemplateParam(i.x, r)
        /\ u = AnItem("type", ResugarType(i.x, r))
    BY <1>2, <1>3, <1>5, ItemCases DEF DirectUses
  <2>2. Uses({u}, r) = Uses({i}, r)
    BY <2>1, UsesOfResugared
  <2>3. DirectUses(u, r) = {u}
    BY <2>1, ResugarTypeSame, AnItemFields DEF DirectUses
  <2> QED BY <1>1, <1>4, <2>2, <2>3
<1>6. CASE i.kind \in {"decl", "instantiations"}
  BY <1>1, <1>2, <1>4, <1>6 DEF DirectUses
<1>7. CASE i.kind = "call"
  <2>1. u = AnItem("decl", NodeInfo[i.x].decl)
    BY <1>2, <1>7 DEF DirectUses
  <2>2. u.kind = "decl"
    BY <2>1, AnItemFields
  <2>3. DirectUses(u, r) = {u} /\ After(u, r) = {}
    BY <2>2 DEF DirectUses, After
  <2>4. Uses({u}, r) = {u}
    BY <1>1, <2>3, UsesOfItem, UsesOfNothing
  <2>5. u \in Uses(S, r)
    OBVIOUS
  <2> QED BY <1>1, <2>3, <2>4, <2>5
<1>8. CASE i.kind \in {"parm", "function", "variable", "class", "members"}
  BY <1>2, <1>8 DEF DirectUses
<1> QED BY <1>3, <1>5, <1>6, <1>7, <1>8, ItemCases

LEMMA UsesOfNext ==
  ASSUME NEW r \in ResugarMaps, NEW i \in Items, NEW j \in After(i, r)
  PROVE  Uses({j}, r) \subseteq Uses({i}, r)
<1> DEFINE S == After(i, r)
<1>1. S \in SUBSET Items /\ j \in S
  BY AfterType
<1>2. Uses({i}, r) = DirectUses(i, r) \cup Uses(S, r)
  BY UsesOfItem
<1> HIDE DEF S
<1>3. \A u : u \in Uses({j}, r) => u \in Uses(S, r)
  BY <1>1, UsedBySome
<1> QED BY <1>2, <1>3

(* How the search of a node begins.                                        *)
Enters(i, n, r) ==
  /\ i \in Items /\ n \in Nodes
  /\ DirectUses(i, r) = {}
  /\ After(i, r) = After(EntryItem(n), r) \/ After(i, r) = {EntryItem(n)}

LEMMA EntryItemType ==
  ASSUME NEW r \in ResugarMaps, NEW n \in Nodes
  PROVE  EntryItem(n) \in Items /\ DirectUses(EntryItem(n), r) = {}
<1>1. CASE NodeInfo[n].kind = "function"
  BY <1>1, AnItemFields DEF EntryItem, DirectUses, Items, NodesOf
<1>2. CASE NodeInfo[n].kind = "class"
  BY <1>2, AnItemFields DEF EntryItem, DirectUses, Items, NodesOf
<1>3. CASE NodeInfo[n].kind = "variable"
  BY <1>3, AnItemFields DEF EntryItem, DirectUses, Items, NodesOf
<1> QED BY <1>1, <1>2, <1>3, NodesAssumption

LEMMA EntersSame ==
  ASSUME NEW r \in ResugarMaps, NEW i, NEW n, Enters(i, n, r)
  PROVE  Uses({i}, r) = Uses({EntryItem(n)}, r)
<1> DEFINE e == EntryItem(n)
<1>1. e \in Items /\ i \in Items /\ DirectUses(e, r) = {} /\ DirectUses(i, r) = {}
  BY EntryItemType DEF Enters
<1>2. After(i, r) = After(e, r) \/ After(i, r) = {e}
  BY DEF Enters
<1> HIDE DEF e
<1>3. Uses({i}, r) = Uses(After(i, r), r) /\ Uses({e}, r) = Uses(After(e, r), r)
  BY <1>1, UsesOfItem
<1>4. Uses({i}, r) = Uses({e}, r)
  BY <1>2, <1>3
<1> QED BY <1>4 DEF e

(* Nothing is missed when nothing remains, ... *)
LEMMA ExploredAll ==
  ASSUME NEW r \in ResugarMaps, NEW done, NEW entry \in SUBSET Items, NEW nodes, NEW recorded,
         Explored(done, entry, nodes, {}, recorded, r)
  PROVE  Uses(entry, r) \cap Kept \subseteq recorded
<1>1. Closed(done, r) /\ entry \subseteq done
  BY DEF Explored, Searched, Closed
<1>2. Below(entry, r) \subseteq done
  BY <1>1, BelowIsLeastClosed
<1>3. \A i \in done : DirectUses(i, r) \cap Kept \subseteq recorded
  BY DEF Explored, Searched
<1> QED BY <1>2, <1>3 DEF Uses

(* ... and one item after the other may be replaced by others. *)
LEMMA ExploredMore ==
  ASSUME NEW r, NEW done, NEW entry, NEW nodes, NEW nodes2, NEW recorded, NEW recorded2,
         NEW item, NEW rest, NEW news, NEW more \in SUBSET Items,
         Explored(done, entry, nodes, {item} \cup rest, recorded, r),
         recorded \subseteq recorded2, item \in more,
         \A i \in more :
            /\ After(i, r) \subseteq (done \cup more) \cup (news \cup rest)
            /\ DirectUses(i, r) \cap Kept \subseteq
                 recorded2 \cup UNION {DirectUses(j, r) : j \in news \cup rest},
         \A n \in nodes2 \ nodes : NodeInfo[n].precomputed = <<>> => EntryItem(n) \in more
  PROVE  Explored(done \cup more, entry, nodes2, news \cup rest, recorded2, r)
<1> DEFINE remaining == news \cup rest
           all == done \cup more
<1>1. ASSUME NEW i \in all PROVE After(i, r) \subseteq all \cup remaining
  BY DEF Explored, Searched
<1>2. ASSUME NEW i \in all
      PROVE  DirectUses(i, r) \cap Kept \subseteq
               recorded2 \cup UNION {DirectUses(j, r) : j \in remaining}
  <2>1. CASE i \in more
    BY <2>1
  <2>2. CASE i \in done
    <3>1. DirectUses(i, r) \cap Kept \subseteq
            recorded \cup UNION {DirectUses(j, r) : j \in {item} \cup rest}
      BY <2>2 DEF Explored, Searched
    <3>2. DirectUses(item, r) \cap Kept \subseteq
            recorded2 \cup UNION {DirectUses(j, r) : j \in remaining}
      OBVIOUS
    <3> QED BY <3>1, <3>2
  <2> QED BY <2>1, <2>2
<1>3. all \subseteq Items /\ entry \subseteq all \cup remaining
  BY DEF Explored, Searched
<1>4. \A n \in nodes2 : NodeInfo[n].precomputed = <<>> => EntryItem(n) \in all
  BY DEF Explored
<1> QED BY <1>1, <1>2, <1>3, <1>4 DEF Explored, Searched

-----------------------------------------------------------------------------
(* What an action does to the frames: the next item has led to others, and *)
(* the storers have been told of what it uses.                             *)
Handled(fs, news, types, decls) ==
  [i \in DOMAIN fs |->
     [node |-> fs[i].node, storing |-> fs[i].storing,
      items |-> IF i = Len(fs) THEN news \o Tail(fs[i].items) ELSE fs[i].items,
      types |-> IF fs[i].storing THEN fs[i].types \cup types ELSE fs[i].types,
      decls |-> IF fs[i].storing THEN fs[i].decls \cup decls ELSE fs[i].decls]]

Rest(fs, i) ==
  Range(Tail(fs[Len(fs)].items)) \cup UNION {Range(fs[j].items) : j \in i..Len(fs) - 1}

LEMMA FrameFields ==
  ASSUME NEW f \in Frames
  PROVE  /\ f = [node |-> f.node, items |-> f.items, storing |-> f.storing,
                 types |-> f.types, decls |-> f.decls]
         /\ f.node \in Nodes \cup {NoNode} /\ f.items \in Seq(Items) /\ f.storing \in BOOLEAN
         /\ f.types \in SUBSET Types /\ f.decls \in SUBSET DOMAIN DeclFile
BY DEF Frames

LEMMA SequenceFields ==
  ASSUME NEW T, NEW s \in Seq(T)
  PROVE  /\ Len(s) \in Nat /\ DOMAIN s = 1..Len(s)
         /\ \A i \in DOMAIN s : s[i] \in T
         /\ s # <<>> => /\ Len(s) \in DOMAIN s /\ Head(s) \in T /\ Tail(s) \in Seq(T)
                       /\ Range(s) = {Head(s)} \cup Range(Tail(s))
<1>1. CASE s = <<>>
  BY <1>1
<1>2. CASE s # <<>>
  <2>1. /\ Len(s) \in Nat \ {0} /\ DOMAIN s = 1..Len(s) /\ \A i \in DOMAIN s : s[i] \in T
        /\ Head(s) = s[1] /\ Tail(s) \in Seq(T) /\ Len(Tail(s)) = Len(s) - 1
        /\ \A i \in 1..Len(s) - 1 : Tail(s)[i] = s[i + 1]
    BY <1>2
  <2>2. Range(s) \subseteq {Head(s)} \cup Range(Tail(s))
    <3>1. ASSUME NEW i \in DOMAIN s, i # 1 PROVE s[i] \in Range(Tail(s))
      <4>1. i - 1 \in 1..Len(s) - 1 /\ (i - 1) + 1 = i /\ DOMAIN Tail(s) = 1..Len(s) - 1
        BY <2>1, <3>1
      <4>2. s[i] = Tail(s)[i - 1]
        BY <2>1, <4>1
      <4> QED BY <4>1, <4>2 DEF Range
    <3> QED BY <2>1, <3>1 DEF Range
  <2>3. {Head(s)} \cup Range(Tail(s)) \subseteq Range(s)
    <3>1. ASSUME NEW i \in 1..Len(s) - 1 PROVE Tail(s)[i] \in Range(s)
      <4>1. i + 1 \in DOMAIN s
        BY <2>1
      <4> QED BY <2>1, <4>1 DEF Range
    <3>2. DOMAIN Tail(s) = 1..Len(s) - 1 /\ 1 \in DOMAIN s
      BY <2>1
    <3> QED BY <2>1, <3>1, <3>2 DEF Range
  <2> QED BY <2>1, <2>2, <2>3
<1> QED BY <1>1, <1>2

LEMMA ConcatenationFields ==
  ASSUME NEW T, NEW s \in Seq(T), NEW t \in Seq(T)
  PROVE  s \o t \in Seq(T) /\ Range(s \o t) = Range(s) \cup Range(t)
<1> DEFINE both == s \o t
<1>1. /\ both \in Seq(T) /\ Len(both) = Len(s) + Len(t) /\ DOMAIN both = 1..Len(both)
      /\ Len(s) \in Nat /\ Len(t) \in Nat /\ DOMAIN s = 1..Len(s) /\ DOMAIN t = 1..Len(t)
      /\ \A i \in 1..Len(s) : both[i] = s[i]
      /\ \A i \in 1..Len(t) : both[Len(s) + i] = t[i]
  OBVIOUS
<1>2. ASSUME NEW i \in DOMAIN both PROVE both[i] \in Range(s) \cup Range(t)
  <2>1. CASE i <= Len(s)
    BY <1>1, <2>1 DEF Range
  <2>2. CASE i > Len(s)
    <3>1. i - Len(s) \in 1..Len(t) /\ Len(s) + (i - Len(s)) = i
      BY <1>1, <2>2
    <3>2. both[i] = t[i - Len(s)]
      BY <1>1, <3>1
    <3> HIDE DEF both
    <3> QED BY <1>1, <3>1, <3>2 DEF Range
  <2> QED BY <1>1, <2>1, <2>2
<1>3. ASSUME NEW i \in DOMAIN s PROVE s[i] \in Range(both)
  BY <1>1 DEF Range
<1>4. ASSUME NEW i \in DOMAIN t PROVE t[i] \in Range(both)
  <2>1. Len(s) + i \in DOMAIN both
    BY <1>1
  <2> HIDE DEF both
  <2> QED BY <1>1, <2>1 DEF Range
<1> HIDE DEF both
<1>5. Range(both) = Range(s) \cup Range(t)
  BY <1>2, <1>3, <1>4 DEF Range
<1> QED BY <1>1, <1>5 DEF both

LEMMA HandledType ==
  ASSUME NEW fs \in Seq(Frames), fs # <<>>, fs[Len(fs)].items # <<>>,
         NEW news \in Seq(Items), NEW types \in SUBSET Types, NEW decls \in SUBSET DOMAIN DeclFile
  PROVE  /\ Handled(fs, news, types, decls) \in Seq(Frames)
         /\ Len(Handled(fs, news, types, decls)) = Len(fs)
         /\ Tail(fs[Len(fs)].items) \in Seq(Items)
<1>1. Len(fs) \in Nat /\ DOMAIN fs = 1..Len(fs) /\ Len(fs) \in DOMAIN fs
  BY SequenceFields
<1>2. \A i \in DOMAIN fs : fs[i] \in Frames
  BY SequenceFields
<1>3. fs[Len(fs)].items \in Seq(Items)
  BY <1>1, <1>2, FrameFields
<1>4. Tail(fs[Len(fs)].items) \in Seq(Items)
  BY <1>3, SequenceFields
<1>5. news \o Tail(fs[Len(fs)].items) \in Seq(Items)
  BY <1>4, ConcatenationFields
<1>6. ASSUME NEW i \in DOMAIN fs PROVE Handled(fs, news, types, decls)[i] \in Frames
  <2>1. /\ fs[i].node \in Nodes \cup {NoNode} /\ fs[i].items \in Seq(Items)
        /\ fs[i].storing \in BOOLEAN
        /\ fs[i].types \in SUBSET Types /\ fs[i].decls \in SUBSET DOMAIN DeclFile
    BY <1>2, FrameFields
  <2> DEFINE items == IF i = Len(fs) THEN news \o Tail(fs[i].items) ELSE fs[i].items
             types2 == IF fs[i].storing THEN fs[i].types \cup types ELSE fs[i].types
             decls2 == IF fs[i].storing THEN fs[i].decls \cup decls ELSE fs[i].decls
  <2>2. items \in Seq(Items) /\ types2 \in SUBSET Types /\ decls2 \in SUBSET DOMAIN DeclFile
    BY <1>5, <2>1
  <2>3. Handled(fs, news, types, decls)[i] =
          [node |-> fs[i].node, storing |-> fs[i].storing, items |-> items,
           types |-> types2, decls |-> decls2]
    BY DEF Handled
  <2> HIDE DEF items, types2, decls2
  <2> QED BY <2>1, <2>2, <2>3 DEF Frames
<1> DEFINE g == Handled(fs, news, types, decls)
<1>7. DOMAIN g = 1..Len(fs) /\ g = [i \in 1..Len(fs) |-> g[i]]
  BY <1>1 DEF Handled
<1>8. \A i \in 1..Len(fs) : g[i] \in Frames
  BY <1>1, <1>6
<1> HIDE DEF g
<1>9. g \in Seq(Frames) /\ Len(g) = Len(fs)
  BY <1>1, <1>7, <1>8
<1> QED BY <1>4, <1>9 DEF g

LEMMA HandledFields ==
  ASSUME NEW fs, NEW news, NEW types, NEW decls, NEW i \in DOMAIN fs
  PROVE  LET g == Handled(fs, news, types, decls)
         IN  /\ g[i].node = fs[i].node /\ g[i].storing = fs[i].storing
             /\ g[i].items = IF i = Len(fs) THEN news \o Tail(fs[i].items) ELSE fs[i].items
             /\ g[i].types = IF fs[i].storing THEN fs[i].types \cup types ELSE fs[i].types
             /\ g[i].decls = IF fs[i].storing THEN fs[i].decls \cup decls ELSE fs[i].decls
BY DEF Handled

LEMMA RemainingBefore ==
  ASSUME NEW fs \in Seq(Frames), fs # <<>>, fs[Len(fs)].items # <<>>, NEW i \in DOMAIN fs
  PROVE  /\ RemainingOf(fs, i) = {Head(fs[Len(fs)].items)} \cup Rest(fs, i)
         /\ RemainingOf(fs, i) \subseteq Items
<1>1. /\ Len(fs) \in Nat /\ DOMAIN fs = 1..Len(fs) /\ Len(fs) \in DOMAIN fs
      /\ \A j \in DOMAIN fs : fs[j] \in Frames
  BY SequenceFields
<1>2. \A j \in DOMAIN fs : fs[j].items \in Seq(Items)
  BY <1>1, FrameFields
<1> DEFINE top == fs[Len(fs)].items
<1>3. Range(top) = {Head(top)} \cup Range(Tail(top))
  BY <1>1, <1>2, SequenceFields
<1>4. i..Len(fs) = (i..Len(fs) - 1) \cup {Len(fs)}
  BY <1>1
<1>5. \A j \in i..Len(fs) : Range(fs[j].items) \subseteq Items
  BY <1>1, <1>2, RangeOfSequence
<1> QED BY <1>3, <1>4, <1>5 DEF RemainingOf, Rest

LEMMA RemainingAfter ==
  ASSUME NEW fs \in Seq(Frames), fs # <<>>, fs[Len(fs)].items # <<>>, NEW i \in DOMAIN fs,
         NEW news \in Seq(Items), NEW types \in SUBSET Types, NEW decls \in SUBSET DOMAIN DeclFile
  PROVE  RemainingOf(Handled(fs, news, types, decls), i) = Range(news) \cup Rest(fs, i)
<1> DEFINE g == Handled(fs, news, types, decls)
<1>1. /\ g \in Seq(Frames) /\ Len(g) = Len(fs) /\ Tail(fs[Len(fs)].items) \in Seq(Items)
      /\ Len(fs) \in Nat /\ DOMAIN fs = 1..Len(fs) /\ Len(fs) \in DOMAIN fs
  BY HandledType, SequenceFields
<1>2. g[Len(fs)].items = news \o Tail(fs[Len(fs)].items)
  BY <1>1 DEF Handled
<1>3. Range(g[Len(fs)].items) = Range(news) \cup Range(Tail(fs[Len(fs)].items))
  BY <1>1, <1>2, ConcatenationFields
<1>4. \A j \in i..Len(fs) - 1 : g[j].items = fs[j].items
  <2>1. \A j \in i..Len(fs) - 1 : j \in DOMAIN fs /\ j # Len(fs)
    BY <1>1
  <2> QED BY <2>1 DEF Handled
<1>5. i..Len(fs) = (i..Len(fs) - 1) \cup {Len(fs)}
  BY <1>1
<1> HIDE DEF g
<1>6. RemainingOf(g, i) =
        Range(g[Len(fs)].items) \cup UNION {Range(g[j].items) : j \in i..Len(fs) - 1}
  BY <1>1, <1>5 DEF RemainingOf
<1>7. RemainingOf(g, i) = Range(news) \cup Rest(fs, i)
  BY <1>3, <1>4, <1>6 DEF Rest
<1> QED BY <1>7 DEF g

LEMMA RemainingOfMore ==
  ASSUME NEW fs \in Seq(Frames), NEW f \in Frames
  PROVE  LET g == Append(fs, f)
         IN  /\ g \in Seq(Frames) /\ Len(g) = Len(fs) + 1 /\ DOMAIN g = DOMAIN fs \cup {Len(g)}
             /\ g[Len(g)] = f /\ \A i \in DOMAIN fs : g[i] = fs[i]
             /\ RemainingOf(g, Len(g)) = Range(f.items)
             /\ \A i \in DOMAIN fs : RemainingOf(g, i) = RemainingOf(fs, i) \cup Range(f.items)
<1> DEFINE g == Append(fs, f)
<1>1. /\ g \in Seq(Frames) /\ Len(g) = Len(fs) + 1 /\ DOMAIN g = 1..Len(g)
      /\ Len(fs) \in Nat /\ DOMAIN fs = 1..Len(fs)
      /\ g[Len(g)] = f /\ \A i \in DOMAIN fs : g[i] = fs[i]
  OBVIOUS
<1> HIDE DEF g
<1>2. DOMAIN g = DOMAIN fs \cup {Len(g)} /\ Len(g)..Len(g) = {Len(g)}
  BY <1>1
<1>3. RemainingOf(g, Len(g)) = Range(f.items)
  BY <1>1, <1>2 DEF RemainingOf
<1>4. ASSUME NEW i \in DOMAIN fs
      PROVE  RemainingOf(g, i) = RemainingOf(fs, i) \cup Range(f.items)
  <2>1. i..Len(g) = (i..Len(fs)) \cup {Len(g)} /\ \A j \in i..Len(fs) : g[j] = fs[j]
    BY <1>1
  <2> QED BY <1>1, <2>1 DEF RemainingOf
<1>5. /\ g \in Seq(Frames) /\ Len(g) = Len(fs) + 1 /\ DOMAIN g = DOMAIN fs \cup {Len(g)}
      /\ g[Len(g)] = f /\ \A i \in DOMAIN fs : g[i] = fs[i]
      /\ RemainingOf(g, Len(g)) = Range(f.items)
      /\ \A i \in DOMAIN fs : RemainingOf(g, i) = RemainingOf(fs, i) \cup Range(f.items)
  BY <1>1, <1>2, <1>3, <1>4
<1> QED BY <1>5 DEF g

-----------------------------------------------------------------------------
(* The next item has been handled: the invariant.                          *)
Handles(news, types, decls) ==
  /\ Scanning /\ Top.items # <<>>
  /\ news \in Seq(Items) /\ Range(news) \subseteq ItemsWithin
  /\ types \in SUBSET Types /\ decls \in SUBSET DOMAIN DeclFile
  /\ frames' = Handled(frames, news, types, decls)
  /\ affected \subseteq affected' /\ affected' \subseteq DOMAIN frames
  /\ traversed_decls \subseteq traversed_decls' /\ traversed_decls' \subseteq Nodes
  /\ reported \subseteq reported'
  /\ UNCHANGED <<cache, site, num_scans, seen, tainted, results>>

Justified(news, types, decls) ==
  /\ \A item \in Range(news) : Uses({item}, Resugar) \subseteq Uses({NextItem}, Resugar)
  /\ {AnItem("type", t) : t \in types} \cup {AnItem("decl", d) : d \in decls}
       \subseteq Uses({NextItem}, Resugar)
  /\ reported' \subseteq reported \cup Reportable(Uses({NextItem}, Resugar))

LEMMA TopType ==
  ASSUME ScanType, Scanning
  PROVE  /\ Len(frames) \in Nat \ {0} /\ DOMAIN frames = 1..Len(frames) /\ Len(frames) \in DOMAIN frames
         /\ \A i \in DOMAIN frames : /\ frames[i] \in Frames /\ frames[i].items \in Seq(Items)
                                     /\ i # 1 => frames[i].node \in Nodes
         /\ Top \in Frames
         /\ site \in Sites /\ Resugar \in ResugarMaps
         /\ Top.items # <<>> => NextItem \in Items /\ Tail(Top.items) \in Seq(Items)
<1>1. frames \in Seq(Frames) /\ frames # <<>> /\ site \in Sites
  BY DEF ScanType, Scanning
<1>2. /\ Len(frames) \in Nat /\ DOMAIN frames = 1..Len(frames) /\ Len(frames) \in DOMAIN frames
      /\ \A i \in DOMAIN frames : frames[i] \in Frames
  BY <1>1, SequenceFields
<1>3. \A i \in DOMAIN frames : frames[i].items \in Seq(Items)
  BY <1>2, FrameFields
<1>4. Top.items # <<>> => NextItem \in Items /\ Tail(Top.items) \in Seq(Items)
  BY <1>2, <1>3, SequenceFields DEF Top, NextItem
<1>5. \A i \in DOMAIN frames : i # 1 => frames[i].node \in Nodes
  BY DEF ScanType
<1> QED BY <1>1, <1>2, <1>3, <1>4, <1>5 DEF Top, Resugar, ResugarMaps

LEMMA TailWithin ==
  ASSUME ScanType, MembersFirst, Scanning, Top.items # <<>>
  PROVE  /\ Range(Tail(Top.items)) \subseteq ItemsWithin
         /\ Len(frames) # 1 => Range(frames[1].items) \subseteq ItemsWithin
<1>1. /\ Len(frames) \in Nat \ {0} /\ DOMAIN frames = 1..Len(frames) /\ Len(frames) \in DOMAIN frames
      /\ Top.items \in Seq(Items)
  BY TopType, FrameFields DEF Top
<1>2. Range(Tail(Top.items)) \subseteq Range(Top.items)
  BY <1>1, SequenceFields
<1>3. CASE Range(Top.items) \subseteq ItemsWithin
  BY <1>1, <1>2, <1>3 DEF MembersFirst
<1>4. CASE ~(Range(Top.items) \subseteq ItemsWithin)
  <2>1. Len(frames) = 1
    BY <1>1, <1>4 DEF ScanType, Top
  <2>2. PICK n \in NodesOf("class") : Top.items = <<AnItem("members", n)>>
    BY <1>4, <2>1 DEF MembersFirst, Top
  <2>3. Tail(Top.items) = <<>>
    BY <2>2
  <2> QED BY <2>1, <2>3 DEF Range
<1> QED BY <1>3, <1>4

LEMMA HandledWithin ==
  ASSUME ScanType, MembersFirst, Scanning, Top.items # <<>>,
         NEW news \in Seq(Items), Range(news) \subseteq ItemsWithin, NEW types, NEW decls
  PROVE  \A i \in DOMAIN frames :
           Range(Handled(frames, news, types, decls)[i].items) \subseteq ItemsWithin
<1>1. /\ Len(frames) \in Nat \ {0} /\ DOMAIN frames = 1..Len(frames)
      /\ Tail(Top.items) \in Seq(Items)
  BY TopType
<1>2. /\ Range(Tail(Top.items)) \subseteq ItemsWithin
      /\ Len(frames) # 1 => Range(frames[1].items) \subseteq ItemsWithin
  BY TailWithin
<1>3. Range(news \o Tail(Top.items)) \subseteq ItemsWithin
  <2>1. Range(news \o Tail(Top.items)) = Range(news) \cup Range(Tail(Top.items))
    BY <1>1, ConcatenationFields
  <2> QED BY <1>2, <2>1
<1> TAKE i \in DOMAIN frames
<1> DEFINE items == Handled(frames, news, types, decls)[i].items
<1>4. CASE i = Len(frames)
  <2>1. items = news \o Tail(Top.items)
    BY <1>4 DEF Handled, Top
  <2> QED BY <1>3, <2>1
<1>5. CASE i # Len(frames)
  <2>1. items = frames[i].items
    BY <1>5 DEF Handled
  <2>2. Range(frames[i].items) \subseteq ItemsWithin
    BY <1>1, <1>2, <1>5 DEF ScanType
  <2> QED BY <2>1, <2>2
<1> QED BY <1>4, <1>5

LEMMA HandlingType ==
  ASSUME TypeOK, MembersFirst, NodesOnce,
         NEW news, NEW types, NEW decls, Handles(news, types, decls)
  PROVE  TypeOK' /\ MembersFirst' /\ NodesOnce'
<1>1. /\ frames \in Seq(Frames) /\ Scanning /\ frames # <<>> /\ frames[Len(frames)].items # <<>>
      /\ news \in Seq(Items) /\ types \in SUBSET Types /\ decls \in SUBSET DOMAIN DeclFile
      /\ ScanType
  BY DEF Handles, TypeOK, ScanType, Top, Scanning
<1>2. /\ Len(frames) \in Nat \ {0} /\ DOMAIN frames = 1..Len(frames) /\ site \in Sites
      /\ Tail(Top.items) \in Seq(Items)
  BY <1>1, TopType DEF Top
<1>3. frames' \in Seq(Frames) /\ Len(frames') = Len(frames) /\ DOMAIN frames' = DOMAIN frames
  BY <1>1, <1>2, HandledType DEF Handles
<1>4. \A i \in DOMAIN frames :
        frames'[i].node = frames[i].node /\ frames'[i].storing = frames[i].storing
  BY <1>1 DEF Handles, Handled
<1>5. \A i \in DOMAIN frames : Range(frames'[i].items) \subseteq ItemsWithin
  BY <1>1, HandledWithin DEF Handles, Top
<1>6. ScanType'
  <2>1. /\ seen' \in Seq(SUBSET Nodes) /\ Len(seen') = Len(frames')
        /\ traversed_decls' \subseteq Nodes /\ affected' \subseteq DOMAIN frames'
        /\ site' \in Sites
    BY <1>1, <1>2, <1>3 DEF Handles, ScanType
  <2>2. \A i \in DOMAIN frames' :
          IF i = 1 THEN frames'[i].node = NoNode /\ ~frames'[i].storing
          ELSE frames'[i].node \in Nodes /\ Range(frames'[i].items) \subseteq ItemsWithin
    BY <1>1, <1>3, <1>4, <1>5 DEF ScanType
  <2> QED BY <1>3, <2>1, <2>2 DEF ScanType
<1>7. TypeOK'
  BY <1>6 DEF Handles, TypeOK, CacheType
<1>8. MembersFirst'
  BY <1>2, <1>5 DEF MembersFirst
<1>9. NodesOnce'
  BY <1>3, <1>4 DEF NodesOnce, NoNodeWithinItself, Handles, StartsAt
<1> QED BY <1>7, <1>8, <1>9

LEMMA HandlingSound ==
  ASSUME TypeOK, ScanSound,
         NEW news, NEW types, NEW decls, Handles(news, types, decls), Justified(news, types, decls)
  PROVE  ScanSound'
<1> DEFINE r == Resugar
           uses == Uses({NextItem}, r)
<1>1. /\ frames \in Seq(Frames) /\ Scanning /\ frames # <<>> /\ frames[Len(frames)].items # <<>>
      /\ news \in Seq(Items) /\ types \in SUBSET Types /\ decls \in SUBSET DOMAIN DeclFile
      /\ ScanType
  BY DEF Handles, TypeOK, ScanType, Top, Scanning
<1>2. DOMAIN frames = 1..Len(frames) /\ Len(frames) \in Nat \ {0}
  BY <1>1, TopType
<1>3. Resugar' = r /\ DOMAIN frames' = DOMAIN frames
  BY DEF Handles, Resugar, Handled
<1>4. \A i \in DOMAIN frames : Entry(i)' = Entry(i)
  BY DEF Handles, Entry, Handled
<1>5. ASSUME NEW i \in DOMAIN frames
      PROVE  /\ Remaining(i) = {NextItem} \cup Rest(frames, i)
             /\ Remaining(i)' = Range(news) \cup Rest(frames, i)
  <2>1. Remaining(i) = {NextItem} \cup Rest(frames, i)
    BY <1>1, RemainingBefore DEF Remaining, NextItem, Top
  <2>2. RemainingOf(Handled(frames, news, types, decls), i) = Range(news) \cup Rest(frames, i)
    BY <1>1, RemainingAfter
  <2> QED BY <2>1, <2>2 DEF Remaining, Handles
<1>6. ASSUME NEW i \in DOMAIN frames PROVE uses \subseteq Uses(Entry(i), r)
  BY <1>5 DEF ScanSound
<1>7. ASSUME NEW i \in DOMAIN frames, NEW item \in Remaining(i)'
      PROVE  Uses({item}, r) \subseteq Uses(Entry(i), r)
  <2>1. CASE item \in Range(news)
    BY <1>6, <2>1 DEF Justified
  <2>2. CASE item \in Rest(frames, i)
    BY <1>5, <2>2 DEF ScanSound
  <2> QED BY <1>5, <1>7, <2>1, <2>2
<1>8. ASSUME NEW i \in DOMAIN frames
      PROVE  UsesOfEntry(frames'[i]) \subseteq Uses(Entry(i), r)
  <2>1. /\ frames'[i].types \subseteq frames[i].types \cup types
        /\ frames'[i].decls \subseteq frames[i].decls \cup decls
    BY DEF Handles, Handled
  <2>2. UsesOfEntry(frames[i]) \subseteq Uses(Entry(i), r)
    BY DEF ScanSound
  <2>3. {AnItem("type", t) : t \in types} \cup {AnItem("decl", d) : d \in decls} \subseteq uses
    BY DEF Justified
  <2> HIDE DEF uses, r
  <2> QED BY <1>6, <2>1, <2>2, <2>3 DEF UsesOfEntry
<1>9. reported' \subseteq Reportable(Uses(Entry(1), r))
  <2>1. reported' \subseteq reported \cup Reportable(uses)
    BY DEF Justified
  <2>2. reported \subseteq Reportable(Uses(Entry(1), r))
    BY <1>1 DEF ScanSound
  <2>3. uses \subseteq Uses(Entry(1), r)
    <3>1. 1 \in DOMAIN frames
      BY <1>2
    <3> HIDE DEF uses, r
    <3> QED BY <1>6, <3>1
  <2> HIDE DEF uses, r
  <2>4. Reportable(uses) \subseteq Reportable(Uses(Entry(1), r))
    BY <2>3 DEF Reportable
  <2> QED BY <2>1, <2>2, <2>4
<1>10. 1 \in DOMAIN frames
  BY <1>2
<1> QED BY <1>3, <1>4, <1>7, <1>8, <1>9, <1>10 DEF ScanSound

(* What completeness asks of the handling of the next item.                *)
Finds(news) ==
  \A i \in DOMAIN frames \ affected' : \A done :
    /\ i = 1 \/ frames[i].storing
    /\ Explored(done, Entry(i), traversed_decls \ seen[i], Remaining(i), Recorded(i), Resugar)
    => \E more : Explored(more, Entry(i), traversed_decls' \ seen[i],
                          Range(news) \cup Rest(frames, i), Recorded(i)', Resugar)

LEMMA HandlingComplete ==
  ASSUME TypeOK, ScanComplete,
         NEW news, NEW types, NEW decls, Handles(news, types, decls), Finds(news)
  PROVE  ScanComplete'
<1>1. /\ frames \in Seq(Frames) /\ Scanning /\ frames # <<>> /\ frames[Len(frames)].items # <<>>
      /\ news \in Seq(Items) /\ types \in SUBSET Types /\ decls \in SUBSET DOMAIN DeclFile
      /\ ScanType
  BY DEF Handles, TypeOK, ScanType, Top, Scanning
<1>2. /\ Resugar' = Resugar /\ DOMAIN frames' = DOMAIN frames /\ seen' = seen
      /\ affected \subseteq affected'
  BY DEF Handles, Resugar, Handled
<1>3. ASSUME NEW i \in DOMAIN frames \ affected', i = 1 \/ frames'[i].storing
      PROVE  \E done : Explored(done, Entry(i)', traversed_decls' \ seen'[i], Remaining(i)',
                                Recorded(i)', Resugar')
  <2>1. i \in DOMAIN frames \ affected /\ (i = 1 \/ frames[i].storing)
    BY <1>2, <1>3 DEF Handles, Handled
  <2>2. Entry(i)' = Entry(i)
    BY DEF Handles, Entry, Handled
  <2>3. Remaining(i)' = Range(news) \cup Rest(frames, i)
    <3>1. RemainingOf(Handled(frames, news, types, decls), i) = Range(news) \cup Rest(frames, i)
      BY <1>1, RemainingAfter
    <3> QED BY <3>1 DEF Remaining, Handles
  <2>4. PICK done : Explored(done, Entry(i), traversed_decls \ seen[i], Remaining(i), Recorded(i), Resugar)
    BY <2>1 DEF ScanComplete
  <2>5. PICK more : Explored(more, Entry(i), traversed_decls' \ seen[i],
                             Range(news) \cup Rest(frames, i), Recorded(i)', Resugar)
    BY <2>1, <2>4 DEF Finds
  <2> QED BY <1>2, <2>2, <2>3, <2>5
<1> QED BY <1>2, <1>3, Zenon DEF ScanComplete

(* All parts of the invariant together: an action shows that it handles    *)
(* the next item, and that nothing is invented or missed.                  *)
LEMMA HandlingPreserves ==
  ASSUME IInv, NEW news, NEW types, NEW decls,
         Handles(news, types, decls), Justified(news, types, decls), Finds(news)
  PROVE  IInv'
<1>1. TypeOK' /\ MembersFirst' /\ NodesOnce'
  BY HandlingType DEF IInv
<1>2. ScanSound'
  BY HandlingSound DEF IInv
<1>3. ScanComplete'
  BY HandlingComplete DEF IInv
<1>4. CacheSound' /\ CacheComplete'
  BY DEF IInv, Handles, CacheSound, CacheComplete
<1>5. ResultsComplete'
  BY DEF IInv, Handles, ResultsComplete
<1> QED BY <1>1, <1>2, <1>3, <1>4, <1>5 DEF IInv

-----------------------------------------------------------------------------
(* The search of a node begins in a frame of its own.                      *)
NewFrame(n, storing) ==
  [node |-> n, items |-> NodeInfo[n].body, storing |-> storing, types |-> {}, decls |-> {}]

Marks(n) ==
  \/ n \notin traversed_decls /\ traversed_decls' = traversed_decls \cup {n}
  \/ Len(frames) = 1 /\ StartsAt(n) /\ traversed_decls' = traversed_decls

Begins(n, storing) ==
  /\ Scanning /\ Top.items # <<>>
  /\ Enters(NextItem, n, Resugar) /\ storing \in BOOLEAN
  /\ After(EntryItem(n), Resugar) = Range(NodeInfo[n].body)
  /\ frames' = Append(Handled(frames, <<>>, {}, {}), NewFrame(n, storing))
  /\ seen' = Append(seen, traversed_decls)
  /\ Marks(n)
  /\ UNCHANGED <<cache, site, reported, num_scans, affected, tainted, results>>

LEMMA BeginningFrames ==
  ASSUME TypeOK, NEW n, NEW storing, Begins(n, storing), NEW k, k = Len(frames) + 1
  PROVE  /\ ScanType /\ Scanning /\ Top.items # <<>> /\ frames \in Seq(Frames) /\ n \in Nodes
         /\ frames' \in Seq(Frames) /\ Len(frames') = k
         /\ DOMAIN frames' = DOMAIN frames \cup {k} /\ k \notin DOMAIN frames
         /\ frames'[k] = NewFrame(n, storing)
         /\ Remaining(k)' = Range(NodeInfo[n].body)
         /\ Entry(k)' = {EntryItem(n)}
         /\ \A i \in DOMAIN frames :
              /\ frames'[i] = Handled(frames, <<>>, {}, {})[i]
              /\ Remaining(i) = {NextItem} \cup Rest(frames, i)
              /\ Remaining(i)' = Range(NodeInfo[n].body) \cup Rest(frames, i)
              /\ Entry(i)' = Entry(i) /\ seen'[i] = seen[i]
         /\ seen' \in Seq(SUBSET Nodes) /\ Len(seen') = Len(frames')
         /\ seen'[k] = traversed_decls
         /\ Resugar' = Resugar /\ Resugar \in ResugarMaps
<1> DEFINE g == Handled(frames, <<>>, {}, {})
           f == NewFrame(n, storing)
<1>1. /\ ScanType /\ Scanning /\ frames \in Seq(Frames) /\ frames # <<>>
      /\ Top.items # <<>> /\ frames[Len(frames)].items # <<>> /\ n \in Nodes
      /\ NextItem = Head(frames[Len(frames)].items)
  BY DEF Begins, Marks, TypeOK, ScanType, Top, Scanning, NextItem, Enters
<1>2. /\ Len(frames) \in Nat \ {0} /\ DOMAIN frames = 1..Len(frames) /\ Resugar \in ResugarMaps
  BY <1>1, TopType
<1>3. <<>> \in Seq(Items) /\ {} \in SUBSET Types /\ {} \in SUBSET DOMAIN DeclFile
      /\ Range(<<>>) = {}
  BY DEF Range
<1>4. g \in Seq(Frames) /\ Len(g) = Len(frames) /\ DOMAIN g = DOMAIN frames
  <2> DEFINE news == <<>>
             none == {}
  <2>1. news \in Seq(Items) /\ none \in SUBSET Types /\ none \in SUBSET DOMAIN DeclFile
    BY <1>3
  <2> HIDE DEF news, none
  <2>2. /\ Handled(frames, news, none, none) \in Seq(Frames)
        /\ Len(Handled(frames, news, none, none)) = Len(frames)
    BY <1>1, <2>1, HandledType
  <2>3. DOMAIN Handled(frames, news, none, none) = DOMAIN frames
    BY DEF Handled
  <2> QED BY <2>2, <2>3 DEF news, none
<1>5. f \in Frames
  BY <1>1, BodyType DEF NewFrame, Frames, Begins, Marks
<1>6. \A i \in DOMAIN frames : RemainingOf(g, i) = Rest(frames, i)
  <2>1. \A i \in DOMAIN frames : RemainingOf(g, i) = Range(<<>>) \cup Rest(frames, i)
    BY <1>1, <1>3, RemainingAfter
  <2> QED BY <1>3, <2>1
<1>7. \A i \in DOMAIN frames : Remaining(i) = {NextItem} \cup Rest(frames, i)
  BY <1>1, RemainingBefore DEF Remaining
<1>8. f.items = NodeInfo[n].body /\ f.node = n
  BY DEF NewFrame
<1>9. frames' = Append(g, f)
  BY DEF Begins, Marks
<1> HIDE DEF g, f
<1>10. /\ frames' \in Seq(Frames) /\ Len(frames') = k
       /\ DOMAIN frames' = DOMAIN frames \cup {k}
       /\ frames'[k] = f /\ \A i \in DOMAIN frames : frames'[i] = g[i]
       /\ RemainingOf(frames', k) = Range(NodeInfo[n].body)
       /\ \A i \in DOMAIN frames :
            RemainingOf(frames', i) = Range(NodeInfo[n].body) \cup Rest(frames, i)
  BY <1>4, <1>5, <1>6, <1>8, <1>9, RemainingOfMore
<1>11. k \notin DOMAIN frames /\ k # 1
  BY <1>2, <1>10
<1>12. Entry(k)' = {EntryItem(n)}
  BY <1>8, <1>10, <1>11 DEF Entry
<1>13. \A i \in DOMAIN frames : Entry(i)' = Entry(i)
  <2>1. site' = site /\ \A i \in DOMAIN frames : g[i].node = frames[i].node
    BY DEF Begins, Marks, g, Handled
  <2> QED BY <1>10, <2>1 DEF Entry
<1>14. /\ seen' \in Seq(SUBSET Nodes) /\ Len(seen') = Len(frames')
       /\ seen'[k] = traversed_decls
       /\ \A i \in DOMAIN frames : seen'[i] = seen[i]
  <2>1. /\ seen \in Seq(SUBSET Nodes) /\ Len(seen) = Len(frames)
        /\ traversed_decls \in SUBSET Nodes /\ seen' = Append(seen, traversed_decls)
    BY <1>1 DEF ScanType, Begins, Marks
  <2> DEFINE T == SUBSET Nodes
  <2> HIDE DEF T
  <2> QED BY <1>2, <1>10, <2>1 DEF T
<1>15. Resugar' = Resugar
  BY DEF Begins, Marks, Resugar
<1>16. \A i \in DOMAIN frames : Remaining(i)' = Range(NodeInfo[n].body) \cup Rest(frames, i)
  BY <1>10 DEF Remaining
<1>17. Remaining(k)' = Range(NodeInfo[n].body)
  BY <1>10 DEF Remaining
<1> QED BY <1>1, <1>2, <1>7, <1>10, <1>11, <1>12, <1>13, <1>14, <1>15, <1>16, <1>17 DEF g, f

LEMMA BeginningType ==
  ASSUME TypeOK, MembersFirst, NodesOnce, NEW n, NEW storing, Begins(n, storing)
  PROVE  TypeOK' /\ MembersFirst' /\ NodesOnce'
<1>1. PICK k : k = Len(frames) + 1
  OBVIOUS
<1>2. /\ ScanType /\ Scanning /\ Top.items # <<>> /\ n \in Nodes
      /\ frames' \in Seq(Frames) /\ Len(frames') = k
      /\ DOMAIN frames' = DOMAIN frames \cup {k} /\ k \notin DOMAIN frames
      /\ frames'[k] = NewFrame(n, storing)
      /\ \A i \in DOMAIN frames : frames'[i] = Handled(frames, <<>>, {}, {})[i]
      /\ seen' \in Seq(SUBSET Nodes) /\ Len(seen') = Len(frames')
  BY <1>1, BeginningFrames
<1>3. /\ Len(frames) \in Nat \ {0} /\ DOMAIN frames = 1..Len(frames) /\ site \in Sites
      /\ 1 \in DOMAIN frames /\ k # 1
  BY <1>1, <1>2, TopType
<1>4. frames'[k].node = n /\ Range(frames'[k].items) \subseteq ItemsWithin
  BY <1>2, BodyType DEF NewFrame
<1>5. \A i \in DOMAIN frames :
        /\ frames'[i].node = frames[i].node /\ frames'[i].storing = frames[i].storing
        /\ Range(frames'[i].items) \subseteq ItemsWithin
  <2> DEFINE news == <<>>
             none == {}
  <2>1. news \in Seq(Items) /\ Range(news) \subseteq ItemsWithin
    BY DEF Range
  <2>2. \A i \in DOMAIN frames : frames'[i] = Handled(frames, news, none, none)[i]
    BY <1>2
  <2> HIDE DEF news, none
  <2>3. \A i \in DOMAIN frames : Range(Handled(frames, news, none, none)[i].items) \subseteq ItemsWithin
    BY <1>2, <2>1, HandledWithin DEF IInv
  <2>4. \A i \in DOMAIN frames :
          /\ Handled(frames, news, none, none)[i].node = frames[i].node
          /\ Handled(frames, news, none, none)[i].storing = frames[i].storing
    BY DEF Handled
  <2> QED BY <2>2, <2>3, <2>4
<1>6. traversed_decls' \subseteq traversed_decls \cup {n} /\ traversed_decls \subseteq traversed_decls'
  BY DEF Begins, Marks
<1>7. ScanType'
  <2>1. traversed_decls' \subseteq Nodes /\ affected' \subseteq DOMAIN frames' /\ site' \in Sites
    BY <1>2, <1>3, <1>6 DEF Begins, Marks, ScanType
  <2>2. \A i \in DOMAIN frames' :
          IF i = 1 THEN frames'[i].node = NoNode /\ ~frames'[i].storing
          ELSE frames'[i].node \in Nodes /\ Range(frames'[i].items) \subseteq ItemsWithin
    BY <1>2, <1>3, <1>4, <1>5 DEF ScanType
  <2> QED BY <1>2, <2>1, <2>2 DEF ScanType
<1>8. TypeOK'
  BY <1>7 DEF Begins, Marks, TypeOK, CacheType
<1>9. MembersFirst'
  BY <1>3, <1>5 DEF MembersFirst
<1>10. n \in traversed_decls' \/ (k = 2 /\ StartsAt(n))
  <2>1. \/ traversed_decls' = traversed_decls \cup {n}
        \/ Len(frames) = 1 /\ StartsAt(n)
    BY DEF Begins, Marks
  <2>2. Len(frames) = 1 => k = 2
    BY <1>1
  <2>3. n \in traversed_decls \cup {n}
    OBVIOUS
  <2> QED BY <2>1, <2>2, <2>3, Zenon
<1>11. ASSUME NEW i \in DOMAIN frames, frames[i].node = n
       PROVE  i = 2 /\ StartsAt(n)
  <2>1. i # 1
    BY <1>2, <1>3, <1>11, FinitenessAssumption DEF ScanType
  <2>2. Len(frames) # 1
    BY <1>3, <1>11, <2>1
  <2>3. n \notin traversed_decls
    BY <2>2 DEF Begins, Marks
  <2> QED BY <1>11, <2>1, <2>3 DEF NodesOnce
<1>12. site' = site
  BY DEF Begins, Marks
<1>13. \A i \in DOMAIN frames' \ {1} :
         \/ frames'[i].node \in traversed_decls'
         \/ i = 2 /\ StartsAt(frames'[i].node)
  <2>1. \A i \in DOMAIN frames \ {1} :
          frames[i].node \in traversed_decls \/ (i = 2 /\ StartsAt(frames[i].node))
    BY DEF NodesOnce
  <2> QED BY <1>2, <1>4, <1>5, <1>6, <1>10, <2>1
<1>14. NoNodeWithinItself'
  <2>1. ASSUME NEW i \in DOMAIN frames', NEW j \in DOMAIN frames', i # j,
               frames'[i].node = frames'[j].node
        PROVE  2 \in {i, j} /\ site.items[1] = AnItem("members", frames'[i].node)
    <3>1. CASE i \in DOMAIN frames /\ j \in DOMAIN frames
      BY <1>5, <2>1, <3>1 DEF NodesOnce, NoNodeWithinItself
    <3>2. CASE i = k
      <4>1. j \in DOMAIN frames /\ frames[j].node = n
        BY <1>2, <1>4, <1>5, <2>1, <3>2
      <4> QED BY <1>4, <1>11, <3>2, <4>1 DEF StartsAt
    <3>3. CASE j = k
      <4>1. i \in DOMAIN frames /\ frames[i].node = n
        BY <1>2, <1>4, <1>5, <2>1, <3>3
      <4> QED BY <1>4, <1>11, <2>1, <3>3, <4>1 DEF StartsAt
    <3> QED BY <1>2, <3>1, <3>2, <3>3
  <2> QED BY <1>12, <2>1 DEF NoNodeWithinItself
<1>15. NodesOnce'
  BY <1>12, <1>13, <1>14 DEF NodesOnce, StartsAt
<1> QED BY <1>8, <1>9, <1>15

LEMMA BeginningSound ==
  ASSUME TypeOK, ScanSound, NEW n, NEW storing, Begins(n, storing)
  PROVE  ScanSound'
<1> DEFINE r == Resugar
           uses == Uses({NextItem}, r)
           body == Range(NodeInfo[n].body)
<1>1. PICK k : k = Len(frames) + 1
  OBVIOUS
<1>2. /\ n \in Nodes /\ DOMAIN frames' = DOMAIN frames \cup {k} /\ k \notin DOMAIN frames
      /\ frames'[k] = NewFrame(n, storing)
      /\ Remaining(k)' = body /\ Entry(k)' = {EntryItem(n)}
      /\ \A i \in DOMAIN frames :
           /\ frames'[i] = Handled(frames, <<>>, {}, {})[i]
           /\ Remaining(i) = {NextItem} \cup Rest(frames, i)
           /\ Remaining(i)' = body \cup Rest(frames, i)
           /\ Entry(i)' = Entry(i)
      /\ Resugar' = r /\ r \in ResugarMaps
  BY <1>1, BeginningFrames
<1>3. 1 \in DOMAIN frames /\ Scanning
  <2>1. ScanType /\ Scanning
    BY DEF Begins, Marks, TypeOK
  <2> QED BY <2>1, TopType
<1>4. uses = Uses({EntryItem(n)}, r)
  BY <1>2, EntersSame DEF Begins, Marks
<1>5. \A item \in body : Uses({item}, r) \subseteq uses
  <2>1. body = After(EntryItem(n), r)
    BY DEF Begins, Marks
  <2>2. EntryItem(n) \in Items
    BY <1>2, EntryItemType
  <2> HIDE DEF body, uses
  <2> QED BY <1>2, <1>4, <2>1, <2>2, UsesOfNext
<1>6. \A i \in DOMAIN frames : uses \subseteq Uses(Entry(i), r)
  BY <1>2 DEF ScanSound
<1> HIDE DEF uses, body, r
<1>7. ASSUME NEW i \in DOMAIN frames
      PROVE  /\ \A item \in Remaining(i)' : Uses({item}, r) \subseteq Uses(Entry(i), r)
             /\ UsesOfEntry(frames'[i]) \subseteq Uses(Entry(i), r)
  <2>1. \A item \in Rest(frames, i) : Uses({item}, r) \subseteq Uses(Entry(i), r)
    BY <1>2 DEF ScanSound, r
  <2>2. UsesOfEntry(frames'[i]) = UsesOfEntry(frames[i])
    BY <1>2 DEF Handled, UsesOfEntry
  <2>3. UsesOfEntry(frames[i]) \subseteq Uses(Entry(i), r)
    BY DEF ScanSound, r
  <2> QED BY <1>2, <1>5, <1>6, <2>1, <2>2, <2>3
<1>8. /\ \A item \in Remaining(k)' : Uses({item}, r) \subseteq Uses({EntryItem(n)}, r)
      /\ UsesOfEntry(frames'[k]) \subseteq Uses({EntryItem(n)}, r)
  <2>1. UsesOfEntry(frames'[k]) = {}
    BY <1>2 DEF NewFrame, UsesOfEntry
  <2> QED BY <1>2, <1>4, <1>5, <2>1
<1>9. reported' \subseteq Reportable(Uses(Entry(1), r))
  BY <1>3 DEF ScanSound, Begins, Marks, r
<1>10. \A i \in DOMAIN frames' :
         /\ \A item \in Remaining(i)' : Uses({item}, r) \subseteq Uses(Entry(i)', r)
         /\ UsesOfEntry(frames'[i]) \subseteq Uses(Entry(i)', r)
  BY <1>2, <1>7, <1>8
<1>11. Entry(1)' = Entry(1)
  BY <1>2, <1>3
<1> QED BY <1>2, <1>9, <1>10, <1>11 DEF ScanSound

LEMMA BeginningComplete ==
  ASSUME TypeOK, ScanComplete, NEW n, NEW storing, Begins(n, storing)
  PROVE  ScanComplete'
<1> DEFINE r == Resugar
           body == Range(NodeInfo[n].body)
           e == EntryItem(n)
           item == NextItem
<1>1. PICK k : k = Len(frames) + 1
  OBVIOUS
<1>2. /\ n \in Nodes /\ DOMAIN frames' = DOMAIN frames \cup {k} /\ k \notin DOMAIN frames
      /\ frames'[k] = NewFrame(n, storing)
      /\ Remaining(k)' = body /\ Entry(k)' = {e}
      /\ \A i \in DOMAIN frames :
           /\ frames'[i] = Handled(frames, <<>>, {}, {})[i]
           /\ Remaining(i) = {item} \cup Rest(frames, i)
           /\ Remaining(i)' = body \cup Rest(frames, i)
           /\ Entry(i)' = Entry(i) /\ seen'[i] = seen[i]
      /\ seen'[k] = traversed_decls
      /\ Resugar' = r /\ r \in ResugarMaps
  BY <1>1, BeginningFrames
<1>3. k # 1
  <2>1. ScanType /\ Scanning
    BY DEF Begins, Marks, TypeOK
  <2>2. Len(frames) \in Nat \ {0}
    BY <2>1, TopType
  <2> QED BY <1>1, <2>2
<1>4. /\ e \in Items /\ DirectUses(e, r) = {} /\ After(e, r) = body
      /\ item \in Items /\ DirectUses(item, r) = {}
      /\ After(item, r) = body \/ After(item, r) = {e}
  BY <1>2, EntryItemType DEF Begins, Marks, Enters
<1>5. /\ affected' = affected /\ traversed_decls' \subseteq traversed_decls \cup {n}
      /\ site' = site /\ reported' = reported
  BY DEF Begins, Marks
<1> HIDE DEF r, body, e, item
<1>6. ASSUME NEW i \in DOMAIN frames \ affected, i = 1 \/ frames'[i].storing
      PROVE  \E done : Explored(done, Entry(i), traversed_decls' \ seen[i],
                                body \cup Rest(frames, i), Recorded(i)', r)
  <2>1. frames'[i].storing = frames[i].storing
    BY <1>2 DEF Handled
  <2>2. Recorded(i)' = Recorded(i)
    <3>1. UsesOfEntry(frames'[i]) = UsesOfEntry(frames[i])
      BY <1>2 DEF Handled, UsesOfEntry
    <3> QED BY <1>5, <3>1 DEF Recorded
  <2>3. PICK done : Explored(done, Entry(i), traversed_decls \ seen[i],
                             {item} \cup Rest(frames, i), Recorded(i), r)
    BY <1>2, <1>6, <2>1 DEF ScanComplete, r
  <2> DEFINE entry == Entry(i)
             nodes == traversed_decls \ seen[i]
             nodes2 == traversed_decls' \ seen[i]
             recorded == Recorded(i)
             rest == Rest(frames, i)
             more == {item, e}
  <2>4. /\ more \in SUBSET Items /\ item \in more
        /\ \A j \in more :
             /\ After(j, r) \subseteq (done \cup more) \cup (body \cup rest)
             /\ DirectUses(j, r) \cap Kept \subseteq
                  recorded \cup UNION {DirectUses(x, r) : x \in body \cup rest}
    BY <1>4
  <2>5. \A x \in nodes2 \ nodes : NodeInfo[x].precomputed = <<>> => EntryItem(x) \in more
    BY <1>5 DEF e
  <2>6. Explored(done, entry, nodes, {item} \cup rest, recorded, r) /\ recorded \subseteq recorded
    BY <2>3
  <2> HIDE DEF entry, nodes, nodes2, recorded, rest, more
  <2>7. Explored(done \cup more, entry, nodes2, body \cup rest, recorded, r)
    BY <2>4, <2>5, <2>6, ExploredMore
  <2> QED BY <2>2, <2>7 DEF entry, nodes2, recorded, rest
<1>7. Explored({e}, {e}, traversed_decls' \ traversed_decls, body, Recorded(k)', r)
  BY <1>4, <1>5 DEF Explored, Searched, e
<1>8. ASSUME NEW i \in DOMAIN frames' \ affected', i = 1 \/ frames'[i].storing
      PROVE  \E done : Explored(done, Entry(i)', traversed_decls' \ seen'[i],
                                Remaining(i)', Recorded(i)', Resugar')
  <2>1. CASE i \in DOMAIN frames
    BY <1>2, <1>5, <1>6, <1>8, <2>1
  <2>2. CASE i = k
    BY <1>2, <1>7, <2>2
  <2> QED BY <1>2, <2>1, <2>2
<1> QED BY <1>8, Zenon DEF ScanComplete

LEMMA BeginningPreserves ==
  ASSUME IInv, NEW n, NEW storing, Begins(n, storing)
  PROVE  IInv'
<1>1. TypeOK' /\ MembersFirst' /\ NodesOnce'
  BY BeginningType DEF IInv
<1>2. ScanSound'
  BY BeginningSound DEF IInv
<1>3. ScanComplete'
  BY BeginningComplete DEF IInv
<1>4. CacheSound' /\ CacheComplete'
  BY DEF IInv, Begins, Marks, CacheSound, CacheComplete
<1>5. ResultsComplete'
  BY DEF IInv, Begins, Marks, ResultsComplete
<1> QED BY <1>1, <1>2, <1>3, <1>4, <1>5 DEF IInv

-----------------------------------------------------------------------------
(* A scan starts and ends, and a frame is left.                            *)
LEMMA InitiallyHolds == Init => IInv
<1> SUFFICES ASSUME Init PROVE IInv
  OBVIOUS
<1>1. /\ DOMAIN cache = {} /\ frames = <<>> /\ seen = <<>> /\ DOMAIN frames = {}
      /\ tainted = {} /\ results = {} /\ affected = {} /\ traversed_decls = {}
      /\ num_scans = 0 /\ ~Scanning
  BY DEF Init, Scanning
<1>2. TypeOK
  BY <1>1, FinitenessAssumption DEF TypeOK, CacheType, ScanType
<1>3. MembersFirst /\ NodesOnce
  BY <1>1 DEF MembersFirst, NodesOnce, NoNodeWithinItself
<1>4. CacheSound /\ ScanSound
  BY <1>1 DEF CacheSound, ScanSound
<1>5. CacheComplete /\ ScanComplete /\ ResultsComplete
  BY <1>1 DEF CacheComplete, ScanComplete, ResultsComplete
<1> QED BY <1>2, <1>3, <1>4, <1>5 DEF IInv

LEMMA SiteItems ==
  ASSUME NEW s \in Sites
  PROVE  s.items \in Seq(Items) /\ Range(s.items) \subseteq Items /\ s.resugar_map \in ResugarMaps
<1>1. CASE s.items \in Seq(ItemsWithin)
  <2>1. ItemsWithin \subseteq Items
    BY DEF ItemsWithin
  <2> QED BY <1>1, <2>1, RangeOfSequence DEF ResugarMaps
<1>2. CASE \E n \in NodesOf("class") : s.items = <<AnItem("members", n)>>
  <2>1. s.items \in Seq(Items)
    BY <1>2, AnItemType
  <2> QED BY <2>1, RangeOfSequence DEF ResugarMaps
<1> QED BY <1>1, <1>2, SitesAssumption

LEMMA StartScanPreserves ==
  ASSUME IInv, NEW s \in Sites, StartScan(s)
  PROVE  IInv'
<1> DEFINE r == s.resugar_map
           items == Range(s.items)
           first == [node |-> NoNode, items |-> s.items, storing |-> FALSE,
                     types |-> {}, decls |-> {}]
<1>1. /\ frames' = <<first>> /\ seen' = <<{}>> /\ traversed_decls' = {} /\ reported' = {}
      /\ affected' = {} /\ site' = s /\ num_scans' = num_scans + 1 /\ num_scans < MaxScans
      /\ UNCHANGED <<cache, tainted, results>>
  BY DEF StartScan
<1>2. s.items \in Seq(Items) /\ items \subseteq Items
  BY SiteItems
<1>3. first \in Frames
  BY <1>2 DEF Frames
<1>4. /\ frames' \in Seq(Frames) /\ Len(frames') = 1 /\ DOMAIN frames' = {1} /\ frames'[1] = first
      /\ seen' \in Seq(SUBSET Nodes) /\ Len(seen') = 1 /\ seen'[1] = {}
  BY <1>1, <1>3
<1>5. first.items = s.items /\ first.node = NoNode /\ ~first.storing
      /\ first.types = {} /\ first.decls = {}
  OBVIOUS
<1>6. /\ Resugar' = r /\ r \in ResugarMaps /\ Scanning'
      /\ Entry(1)' = items
  BY <1>1 DEF Resugar, ResugarMaps, Scanning, Entry
<1> HIDE DEF first
<1>7. TypeOK'
  <2>1. ScanType'
    BY <1>1, <1>4, <1>5 DEF ScanType
  <2>2. CacheType'
    BY <1>1 DEF CacheType, IInv, TypeOK
  <2>3. num_scans' \in 0..MaxScans
    BY <1>1, FinitenessAssumption DEF IInv, TypeOK
  <2>4. \A result \in results' : result.site \in Sites
    BY <1>1 DEF IInv, TypeOK
  <2> QED BY <2>1, <2>2, <2>3, <2>4 DEF TypeOK
<1>8. MembersFirst'
  <2>1. \/ Range(s.items) \subseteq ItemsWithin
        \/ \E n \in NodesOf("class") : s.items = <<AnItem("members", n)>>
    BY SitesAssumption, RangeOfSequence
  <2> QED BY <1>1, <1>4, <1>5, <2>1 DEF MembersFirst
<1>9. NodesOnce'
  BY <1>4 DEF NodesOnce, NoNodeWithinItself
<1>10. CacheSound' /\ CacheComplete' /\ ResultsComplete'
  BY <1>1 DEF IInv, CacheSound, CacheComplete, ResultsComplete
<1>11. Remaining(1)' = items
  <2>1. 1..Len(frames') = {1}
    BY <1>4
  <2> QED BY <1>4, <1>5, <2>1 DEF Remaining, RemainingOf
<1>12. ScanSound'
  <2> DEFINE entry == items
  <2>1. entry \in SUBSET Items
    BY <1>2
  <2> HIDE DEF entry
  <2>2. \A item \in entry : Uses({item}, r) \subseteq Uses(entry, r)
    BY <1>6, <2>1, UsedBySome
  <2>3. UsesOfEntry(first) = {}
    BY <1>5 DEF UsesOfEntry
  <2> QED BY <1>1, <1>4, <1>6, <1>11, <2>2, <2>3 DEF ScanSound, entry
<1>13. ScanComplete'
  <2>1. Explored({}, items, {} \ {}, items, Recorded(1)', r)
    BY DEF Explored, Searched
  <2> QED BY <1>1, <1>4, <1>6, <1>11, <2>1 DEF ScanComplete
<1> QED BY <1>7, <1>8, <1>9, <1>10, <1>12, <1>13 DEF IInv

LEMMA DueIsUsed ==
  ASSUME NEW s \in Sites, NEW result, result.site = s, NEW x \in Due(result)
  PROVE  LET uses == Uses(Range(s.items), s.resugar_map)
         IN  \/ \E t \in Types :
                  /\ AnItem("type", t) \in uses /\ x = TypeInfo[t].canonical
                  /\ x \notin s.blocked_types \cup TypeInfo[t].provided
             \/ x \in DOMAIN DeclFile /\ AnItem("decl", x) \in uses /\ ProvidedByNone(x)
<1> DEFINE r == s.resugar_map
           items == Range(s.items)
           used == TypesUsed(Below(items, r), r)
           uses == Uses(items, r)
<1>1. items \in SUBSET Items /\ r \in ResugarMaps
  BY SiteItems
<1>2. BelowSite[s] = Below(items, r)
  BY DEF BelowSite
<1> HIDE DEF items, r
<1>3. ASSUME NEW t \in used PROVE t \in Types /\ AnItem("type", t) \in uses
  <2>1. AnItem("type", t) \in uses
    BY <1>1, <1>3, UsedTypes
  <2>2. AnItem("type", t) \in Items
    BY <1>1, <2>1, UsesType
  <2> QED BY <2>1, <2>2, ItemCases, AnItemFields
<1>4. ASSUME NEW d \in DeclsUsed(Below(items, r))
      PROVE  d \in DOMAIN DeclFile /\ AnItem("decl", d) \in uses
  <2>1. AnItem("decl", d) \in uses
    BY <1>1, <1>4, UsedDecls
  <2>2. AnItem("decl", d) \in Items
    BY <1>1, <2>1, UsesType
  <2> QED BY <2>1, <2>2, ItemCases, AnItemFields
<1>5. \/ \E t \in used : /\ TypeInfo[t].canonical \notin s.blocked_types \cup TypeInfo[t].provided
                         /\ x = TypeInfo[t].canonical
      \/ x \in DeclsUsed(Below(items, r)) /\ ProvidedByNone(x)
  BY <1>2 DEF Due, r
<1> HIDE DEF used, uses
<1>6. \/ \E t \in Types :
           /\ AnItem("type", t) \in uses /\ x = TypeInfo[t].canonical
           /\ x \notin s.blocked_types \cup TypeInfo[t].provided
      \/ x \in DOMAIN DeclFile /\ AnItem("decl", x) \in uses /\ ProvidedByNone(x)
  BY <1>3, <1>4, <1>5, Zenon
<1> QED BY <1>6 DEF uses, items, r

LEMMA EndScanPreserves ==
  ASSUME IInv, EndScan
  PROVE  IInv'
<1> DEFINE result == [site |-> site, reported |-> reported, affected |-> 1 \in affected]
           items == Range(site.items)
           r == Resugar
<1>1. /\ Len(frames) = 1 /\ Top.items = <<>> /\ Top = frames[1]
      /\ frames' = <<>> /\ seen' = <<>> /\ site' = <<>> /\ reported' = {}
      /\ traversed_decls' = {} /\ affected' = {} /\ results' = results \cup {result}
      /\ UNCHANGED <<cache, num_scans, tainted>>
  BY DEF EndScan, Top
<1>2. ScanType /\ Scanning
  BY <1>1 DEF IInv, TypeOK, Scanning
<1>3. 1 \in DOMAIN frames /\ site \in Sites
  BY <1>2, TopType
<1>4. r \in ResugarMaps /\ items \in SUBSET Items /\ r = site.resugar_map
  BY <1>3, SiteItems DEF Resugar
<1>5. Remaining(1) = {}
  <2>1. 1..Len(frames) = {1} /\ frames[1].items = <<>>
    BY <1>1
  <2> QED BY <2>1 DEF Remaining, RemainingOf, Range
<1>6. ASSUME 1 \notin affected PROVE Due(result) \subseteq reported
  <2>1. PICK done : Explored(done, items, traversed_decls \ seen[1], {}, Recorded(1), r)
    BY <1>3, <1>5, <1>6 DEF IInv, ScanComplete, Entry
  <2> DEFINE nodes == traversed_decls \ seen[1]
             recorded == Recorded(1)
             entry == items
  <2>2. /\ Explored(done, entry, nodes, {}, recorded, r)
        /\ entry \in SUBSET Items
    BY <1>4, <2>1
  <2>3. Uses(entry, r) \cap Kept \subseteq recorded
    <3> HIDE DEF nodes, recorded, entry, r
    <3> QED BY <1>4, <2>2, ExploredAll
  <2>4. ASSUME NEW x \in Due(result) PROVE x \in reported
    <3> DEFINE uses == Uses(items, r)
    <3>1. \/ \E t \in Types :
               /\ AnItem("type", t) \in uses /\ x = TypeInfo[t].canonical
               /\ x \notin site.blocked_types \cup TypeInfo[t].provided
          \/ x \in DOMAIN DeclFile /\ AnItem("decl", x) \in uses /\ ProvidedByNone(x)
      BY <1>3, <1>4, <2>4, DueIsUsed
    <3>2. CASE \E t \in Types :
                 /\ AnItem("type", t) \in uses /\ x = TypeInfo[t].canonical
                 /\ x \notin site.blocked_types \cup TypeInfo[t].provided
      <4>1. PICK t \in Types :
                 /\ AnItem("type", t) \in uses /\ x = TypeInfo[t].canonical
                 /\ x \notin site.blocked_types \cup TypeInfo[t].provided
        BY <3>2
      <4>2. AnItem("type", t) \in Recorded(1)
        BY <2>3, <4>1 DEF Kept
      <4>3. PICK u \in Types :
              /\ AnItem("type", t) = AnItem("type", u)
              /\ TypeInfo[u].canonical \in reported \cup site.blocked_types \cup TypeInfo[u].provided
        BY <4>2, AnItemFields DEF Recorded
      <4>4. u = t
        BY <4>3, AnItemFields
      <4> QED BY <4>1, <4>3, <4>4
    <3>3. CASE x \in DOMAIN DeclFile /\ AnItem("decl", x) \in uses /\ ProvidedByNone(x)
      <4>1. AnItem("decl", x) \in Recorded(1)
        BY <2>3, <3>3 DEF Kept
      <4>2. \E d \in reported : AnItem("decl", x) = AnItem("decl", d)
        BY <4>1, AnItemFields DEF Recorded
      <4> QED BY <4>2, AnItemFields
    <3> QED BY <3>1, <3>2, <3>3
  <2> QED BY <2>4
<1>7. ResultsComplete'
  <2>1. result.affected = (1 \in affected) /\ result.reported = reported
    OBVIOUS
  <2>2. result.affected \/ Due(result) \subseteq result.reported
    BY <1>6, <2>1
  <2>3. \A x \in results : x.affected \/ Due(x) \subseteq x.reported
    BY DEF IInv, ResultsComplete
  <2> HIDE DEF result
  <2> QED BY <1>1, <2>2, <2>3 DEF ResultsComplete
<1>8. DOMAIN frames' = {} /\ Len(frames') = 0 /\ ~Scanning'
  BY <1>1 DEF Scanning
<1>9. TypeOK'
  <2>1. ScanType'
    BY <1>1, <1>8 DEF ScanType
  <2>2. CacheType' /\ num_scans' \in 0..MaxScans
    BY <1>1 DEF CacheType, IInv, TypeOK
  <2>3. \A x \in results' : x.site \in Sites
    BY <1>1, <1>3 DEF IInv, TypeOK
  <2> QED BY <2>1, <2>2, <2>3 DEF TypeOK
<1>10. MembersFirst' /\ NodesOnce' /\ ScanSound' /\ ScanComplete'
  BY <1>8 DEF MembersFirst, NodesOnce, NoNodeWithinItself, ScanSound, ScanComplete
<1>11. CacheSound' /\ CacheComplete'
  BY <1>1 DEF IInv, CacheSound, CacheComplete
<1> QED BY <1>7, <1>9, <1>10, <1>11 DEF IInv

LEMMA LeavingFrames ==
  ASSUME TypeOK, Leave, NEW k, k = Len(frames)
  PROVE  /\ ScanType /\ Scanning /\ k \in Nat /\ k > 1 /\ k \in DOMAIN frames
         /\ Top = frames[k] /\ Top \in Frames /\ Top.node \in Nodes
         /\ Remaining(k) = {} /\ Entry(k) = {EntryItem(Top.node)}
         /\ DOMAIN frames = 1..k /\ DOMAIN frames' = 1..k - 1 /\ Len(frames') = k - 1
         /\ frames' \in Seq(Frames)
         /\ \A i \in DOMAIN frames' :
              /\ i \in DOMAIN frames /\ i # k /\ frames'[i] = frames[i]
              /\ Remaining(i)' = Remaining(i) /\ Entry(i)' = Entry(i)
              /\ seen'[i] = seen[i]
         /\ seen' \in Seq(SUBSET Nodes) /\ Len(seen') = k - 1
         /\ Resugar' = Resugar /\ Resugar \in ResugarMaps /\ site \in Sites
<1>1. /\ k > 1 /\ Top.items = <<>> /\ frames' = Front(frames) /\ seen' = Front(seen)
      /\ site' = site
  BY DEF Leave
<1>2. ScanType /\ frames \in Seq(Frames) /\ seen \in Seq(SUBSET Nodes) /\ Len(seen) = k
  BY DEF TypeOK, ScanType
<1>3. Scanning
  BY <1>1, <1>2 DEF Scanning
<1>4. /\ k \in Nat /\ k \in DOMAIN frames /\ DOMAIN frames = 1..k /\ Top = frames[k]
      /\ \A i \in DOMAIN frames : frames[i] \in Frames /\ (i # 1 => frames[i].node \in Nodes)
      /\ Resugar \in ResugarMaps /\ site \in Sites
  BY <1>2, <1>3, TopType DEF Top
<1>5. /\ Front(frames) \in Seq(Frames) /\ Len(Front(frames)) = k - 1
      /\ \A i \in 1..k - 1 : Front(frames)[i] = frames[i]
  BY <1>1, <1>2, <1>4 DEF Front
<1>6. /\ Front(seen) \in Seq(SUBSET Nodes) /\ Len(Front(seen)) = k - 1
      /\ \A i \in 1..k - 1 : Front(seen)[i] = seen[i]
  <2> DEFINE T == SUBSET Nodes
  <2>1. seen \in Seq(T)
    BY <1>2
  <2> HIDE DEF T
  <2>2. /\ Front(seen) \in Seq(T) /\ Len(Front(seen)) = k - 1
        /\ \A i \in 1..k - 1 : Front(seen)[i] = seen[i]
    BY <1>1, <1>2, <1>4, <2>1 DEF Front
  <2> QED BY <2>2 DEF T
<1>7. DOMAIN frames' = 1..k - 1
  BY <1>1, <1>5
<1>8. \A i \in 1..k - 1 : i \in DOMAIN frames /\ i # k
  BY <1>4
<1>9. Range(frames[k].items) = {}
  BY <1>1, <1>4 DEF Range
<1>10. ASSUME NEW i \in 1..k - 1
       PROVE  Remaining(i)' = Remaining(i) /\ Entry(i)' = Entry(i)
  <2>1. Entry(i)' = Entry(i)
    BY <1>1, <1>5 DEF Entry
  <2>2. Remaining(i)' = UNION {Range(frames[j].items) : j \in i..k - 1}
    <3>1. \A j \in i..k - 1 : frames'[j] = frames[j]
      BY <1>1, <1>5
    <3>2. Len(frames') = k - 1
      BY <1>1, <1>5
    <3> QED BY <3>1, <3>2 DEF Remaining, RemainingOf
  <2>3. i..k = (i..k - 1) \cup {k}
    BY <1>4
  <2>4. Remaining(i) = UNION {Range(frames[j].items) : j \in i..k}
    BY DEF Remaining, RemainingOf
  <2>5. UNION {Range(frames[j].items) : j \in i..k}
          = Range(frames[k].items) \cup UNION {Range(frames[j].items) : j \in i..k - 1}
    BY <2>3
  <2> QED BY <1>9, <2>1, <2>2, <2>4, <2>5
<1>11. Remaining(k) = {}
  <2>1. k..k = {k}
    BY <1>4
  <2> QED BY <1>9, <2>1 DEF Remaining, RemainingOf
<1>12. k # 1 /\ Entry(k) = {EntryItem(Top.node)}
  BY <1>1, <1>4 DEF Entry
<1>13. Resugar' = Resugar
  BY <1>1 DEF Resugar
<1> QED BY <1>1, <1>2, <1>3, <1>4, <1>5, <1>6, <1>7, <1>8, <1>10, <1>11, <1>12, <1>13

LEMMA LeavingCache ==
  ASSUME Leave
  PROVE  LET key == Key(Top.node)
         IN  /\ DOMAIN cache \subseteq DOMAIN cache'
             /\ \A x \in DOMAIN cache : cache'[x] = cache[x]
             /\ \A x \in DOMAIN cache' \ DOMAIN cache :
                  /\ x = key /\ Top.storing
                  /\ cache'[x] = [types |-> Top.types, decls |-> Top.decls]
                  /\ Len(frames) \in affected => x \in tainted'
             /\ tainted \subseteq tainted'
             /\ tainted' \subseteq tainted \cup (DOMAIN cache' \ DOMAIN cache)
<1> DEFINE key == Key(Top.node)
           entry == [types |-> Top.types, decls |-> Top.decls]
<1>1. /\ cache' = IF Top.storing THEN Insert(Top.node, entry) ELSE cache
      /\ tainted' = IF Top.storing /\ Len(frames) \in affected /\ key \notin DOMAIN cache
                    THEN tainted \cup {key} ELSE tainted
  BY DEF Leave
<1>2. CASE Top.storing
  <2>1. cache' = [x \in DOMAIN cache \cup {key} |-> IF x \in DOMAIN cache THEN cache[x] ELSE entry]
    BY <1>1, <1>2 DEF Insert
  <2> HIDE DEF key, entry
  <2> QED BY <1>1, <1>2, <2>1 DEF key, entry
<1>3. CASE ~Top.storing
  BY <1>1, <1>3
<1> QED BY <1>2, <1>3

LEMMA LeavePreserves ==
  ASSUME IInv, Leave
  PROVE  IInv'
<1> DEFINE n == Top.node
           r == Resugar
           key == Key(n)
           entry == [types |-> Top.types, decls |-> Top.decls]
<1>1. PICK k : k = Len(frames)
  OBVIOUS
<1>2. TypeOK
  BY DEF IInv
<1>3. /\ ScanType /\ k > 1 /\ k \in DOMAIN frames /\ k # 1
      /\ Top = frames[k] /\ Top \in Frames /\ n \in Nodes
      /\ Remaining(k) = {} /\ Entry(k) = {EntryItem(n)}
      /\ frames' \in Seq(Frames) /\ DOMAIN frames' = 1..k - 1 /\ Len(frames') = k - 1
      /\ \A i \in DOMAIN frames' :
           /\ i \in DOMAIN frames /\ i # k /\ frames'[i] = frames[i]
           /\ Remaining(i)' = Remaining(i) /\ Entry(i)' = Entry(i)
           /\ seen'[i] = seen[i]
      /\ seen' \in Seq(SUBSET Nodes) /\ Len(seen') = k - 1
      /\ Resugar' = r /\ r \in ResugarMaps /\ site \in Sites
      /\ DOMAIN frames = 1..k /\ k \in Nat /\ Scanning
  BY <1>1, <1>2, LeavingFrames
<1>4. /\ DOMAIN cache \subseteq DOMAIN cache'
      /\ \A x \in DOMAIN cache : cache'[x] = cache[x]
      /\ \A x \in DOMAIN cache' \ DOMAIN cache :
           /\ x = key /\ Top.storing /\ cache'[x] = entry
           /\ k \in affected => x \in tainted'
      /\ tainted \subseteq tainted'
      /\ tainted' \subseteq tainted \cup (DOMAIN cache' \ DOMAIN cache)
  BY <1>1, LeavingCache
<1>5. /\ site' = site /\ traversed_decls' = traversed_decls /\ reported' = reported
      /\ num_scans' = num_scans /\ results' = results /\ affected' = affected \ {k}
  BY <1>1 DEF Leave
<1>6. entry \in Entries /\ UsesOfEntry(entry) = UsesOfEntry(Top)
  BY <1>3, FrameFields DEF Entries, UsesOfEntry
<1>7. key = <<n, r>> /\ key \in Nodes \X ResugarMaps /\ key[1] = n /\ key[2] = r
  BY <1>3 DEF Key
<1> HIDE DEF n, r, key, entry
<1>8. CacheType'
  <2>1. DOMAIN cache' \subseteq Nodes \X ResugarMaps
    BY <1>2, <1>4, <1>7 DEF TypeOK, CacheType
  <2>2. \A x \in DOMAIN cache' : cache'[x] \in Entries
    BY <1>2, <1>4, <1>6 DEF TypeOK, CacheType
  <2>3. tainted' \subseteq DOMAIN cache'
    BY <1>2, <1>4 DEF TypeOK, CacheType
  <2> QED BY <2>1, <2>2, <2>3 DEF CacheType
<1>9. ScanType'
  <2>1. Len(seen') = Len(frames') /\ affected' \subseteq DOMAIN frames' /\ traversed_decls' \subseteq Nodes
    <3>1. affected \subseteq 1..k
      BY <1>3 DEF ScanType
    <3>2. (1..k) \ {k} = 1..k - 1
      BY <1>3
    <3> QED BY <1>3, <1>5, <3>1, <3>2 DEF ScanType
  <2>2. \A i \in DOMAIN frames' :
          IF i = 1 THEN frames'[i].node = NoNode /\ ~frames'[i].storing
          ELSE frames'[i].node \in Nodes /\ Range(frames'[i].items) \subseteq ItemsWithin
    BY <1>3 DEF ScanType
  <2> QED BY <1>3, <1>5, <2>1, <2>2 DEF ScanType
<1>10. TypeOK'
  BY <1>2, <1>5, <1>8, <1>9 DEF TypeOK
<1>11. 1 \in DOMAIN frames' /\ Scanning'
  <2>1. frames' # <<>>
    BY <1>3
  <2> QED BY <1>3, <2>1 DEF Scanning
<1>12. MembersFirst'
  <2>1. Range(frames'[1].items) \subseteq ItemsWithin
    <3>1. Range(frames[1].items) \subseteq ItemsWithin
      BY <1>1, <1>3 DEF IInv, MembersFirst
    <3> QED BY <1>3, <1>11, <3>1
  <2> QED BY <2>1 DEF MembersFirst
<1>13. NodesOnce'
  BY <1>3, <1>5 DEF IInv, NodesOnce, NoNodeWithinItself, StartsAt
<1>14. CacheSound'
  <2>1. UsesOfEntry(entry) \subseteq Uses({EntryItem(n)}, r)
    BY <1>3, <1>6 DEF IInv, ScanSound, r
  <2>2. \A x \in DOMAIN cache' \ DOMAIN cache :
          UsesOfEntry(cache'[x]) \subseteq Uses({EntryItem(x[1])}, x[2])
    BY <1>4, <1>7, <2>1
  <2>3. \A x \in DOMAIN cache :
          UsesOfEntry(cache'[x]) \subseteq Uses({EntryItem(x[1])}, x[2])
    BY <1>4 DEF IInv, CacheSound
  <2> QED BY <2>2, <2>3 DEF CacheSound
<1>15. ScanSound'
  <2>1. reported' \subseteq Reportable(Uses(Entry(1)', r))
    BY <1>3, <1>5, <1>11 DEF IInv, ScanSound, r
  <2>2. \A i \in DOMAIN frames' :
          /\ \A item \in Remaining(i)' : Uses({item}, r) \subseteq Uses(Entry(i)', r)
          /\ UsesOfEntry(frames'[i]) \subseteq Uses(Entry(i)', r)
    BY <1>3 DEF IInv, ScanSound, r
  <2> QED BY <1>3, <2>1, <2>2 DEF ScanSound
<1>16. CacheComplete'
  <2>1. ASSUME NEW x \in DOMAIN cache' \ DOMAIN cache, x \notin tainted'
        PROVE  Uses({EntryItem(n)}, r) \cap Kept \subseteq UsesOfEntry(cache'[x])
    <3>1. k \in DOMAIN frames \ affected /\ frames[k].storing /\ cache'[x] = entry
      BY <1>3, <1>4, <2>1
    <3> DEFINE nodes == traversed_decls \ seen[k]
               recorded == Recorded(k)
               entry_items == {EntryItem(n)}
    <3>2. PICK done : Explored(done, Entry(k), nodes, Remaining(k), recorded, r)
      BY <3>1 DEF IInv, ScanComplete, r
    <3>3. recorded = UsesOfEntry(entry)
      BY <1>3, <1>6 DEF Recorded
    <3>4. Explored(done, entry_items, nodes, {}, recorded, r) /\ entry_items \in SUBSET Items
      BY <1>3, <3>2, EntryItemType
    <3>5. Uses(entry_items, r) \cap Kept \subseteq recorded
      <4> HIDE DEF nodes, recorded, entry_items
      <4> QED BY <1>3, <3>4, ExploredAll
    <3> QED BY <3>1, <3>3, <3>5
  <2>2. \A x \in DOMAIN cache' \ DOMAIN cache : x[1] = n /\ x[2] = r
    BY <1>4, <1>7
  <2>3. \A x \in DOMAIN cache \ tainted' :
          Uses({EntryItem(x[1])}, x[2]) \cap Kept \subseteq UsesOfEntry(cache'[x])
    BY <1>4 DEF IInv, CacheComplete
  <2> QED BY <2>1, <2>2, <2>3 DEF CacheComplete
<1>17. ScanComplete'
  <2>1. ASSUME NEW i \in DOMAIN frames' \ affected', i = 1 \/ frames'[i].storing
        PROVE  \E done : Explored(done, Entry(i)', traversed_decls' \ seen'[i],
                                  Remaining(i)', Recorded(i)', Resugar')
    <3>1. i \in DOMAIN frames \ affected /\ (i = 1 \/ frames[i].storing)
      BY <1>3, <1>5, <2>1
    <3>2. PICK done : Explored(done, Entry(i), traversed_decls \ seen[i], Remaining(i), Recorded(i), r)
      BY <3>1 DEF IInv, ScanComplete, r
    <3>3. Recorded(i)' = Recorded(i)
      <4>1. frames'[i] = frames[i]
        BY <1>3, <2>1
      <4> QED BY <1>5, <4>1 DEF Recorded
    <3> QED BY <1>3, <1>5, <2>1, <3>2, <3>3
  <2> QED BY <2>1, Zenon DEF ScanComplete
<1>18. ResultsComplete'
  BY <1>5 DEF IInv, ResultsComplete
<1> QED BY <1>10, <1>12, <1>13, <1>14, <1>15, <1>16, <1>17, <1>18 DEF IInv

-----------------------------------------------------------------------------
(* What the actions do in these terms.                                     *)
LEMMA NotingHandled ==
  ASSUME ScanType, Scanning, NEW news
  PROVE  /\ Continue(news) = Handled(frames, news, {}, {})
         /\ \A t : NoteReportedType(t, Continue(news)) = Handled(frames, news, {t}, {})
         /\ \A d : NoteReportedDecl(d, Continue(news)) = Handled(frames, news, {}, {d})
<1> DEFINE fs == Continue(news)
<1>1. /\ DOMAIN frames = 1..Len(frames) /\ Len(frames) \in DOMAIN frames
      /\ \A i \in DOMAIN frames : frames[i] \in Frames
  BY TopType
<1>2. \A i \in DOMAIN frames :
        frames[i] = [node |-> frames[i].node, items |-> frames[i].items,
                     storing |-> frames[i].storing, types |-> frames[i].types, decls |-> frames[i].decls]
  BY <1>1, FrameFields
<1>3. DOMAIN fs = DOMAIN frames /\ fs = [i \in DOMAIN frames |-> fs[i]]
  BY <1>1 DEF Continue
<1>4. ASSUME NEW i \in DOMAIN frames
      PROVE  fs[i] = [node |-> frames[i].node, storing |-> frames[i].storing,
                      items |-> IF i = Len(frames) THEN news \o Tail(frames[i].items) ELSE frames[i].items,
                      types |-> frames[i].types, decls |-> frames[i].decls]
  <2>1. CASE i = Len(frames)
    <3> DEFINE f == frames[i]
               items == news \o Tail(f.items)
    <3>1. fs[i] = [f EXCEPT !.items = items]
      BY <1>1, <2>1 DEF Continue
    <3>2. f = [node |-> f.node, items |-> f.items, storing |-> f.storing,
               types |-> f.types, decls |-> f.decls]
      BY <1>2
    <3> HIDE DEF f, items, fs
    <3>3. fs[i] = [node |-> f.node, storing |-> f.storing, items |-> items,
                   types |-> f.types, decls |-> f.decls]
      BY <3>1, <3>2
    <3> QED BY <2>1, <3>3 DEF f, items
  <2>2. CASE i # Len(frames)
    <3>1. fs[i] = frames[i]
      BY <1>1, <2>2 DEF Continue
    <3> HIDE DEF fs
    <3> QED BY <1>2, <2>2, <3>1
  <2> QED BY <2>1, <2>2
<1> HIDE DEF fs
<1>5. fs = Handled(frames, news, {}, {})
  BY <1>3, <1>4 DEF Handled
<1>6. ASSUME NEW t PROVE NoteReportedType(t, fs) = Handled(frames, news, {t}, {})
  <2> DEFINE noted(i) == IF fs[i].storing THEN [fs[i] EXCEPT !.types = @ \cup {t}] ELSE fs[i]
  <2>1. NoteReportedType(t, fs) = [i \in DOMAIN frames |-> noted(i)]
    BY <1>3 DEF NoteReportedType
  <2>2. ASSUME NEW i \in DOMAIN frames PROVE noted(i) = Handled(frames, news, {t}, {})[i]
    <3> DEFINE f == frames[i]
               items == IF i = Len(frames) THEN news \o Tail(f.items) ELSE f.items
               handled == Handled(frames, news, {t}, {})[i]
    <3>1. fs[i] = [node |-> f.node, storing |-> f.storing, items |-> items,
                   types |-> f.types, decls |-> f.decls]
      BY <1>4
    <3>2. handled = [node |-> f.node, storing |-> f.storing, items |-> items,
                     types |-> IF f.storing THEN f.types \cup {t} ELSE f.types,
                     decls |-> IF f.storing THEN f.decls \cup {} ELSE f.decls]
      BY DEF Handled
    <3> HIDE DEF f, items, handled
    <3>3. CASE f.storing
      <4> DEFINE g == fs[i]
      <4>1. noted(i) = IF g.storing THEN [g EXCEPT !.types = g.types \cup {t}] ELSE g
        OBVIOUS
      <4>2. g = [node |-> f.node, storing |-> f.storing, items |-> items,
                 types |-> f.types, decls |-> f.decls]
        BY <3>1
      <4> HIDE DEF g, noted
      <4>3. g.storing /\ g.types = f.types
        BY <3>3, <4>2
      <4>4. [g EXCEPT !.types = g.types \cup {t}]
              = [node |-> f.node, storing |-> f.storing, items |-> items,
                        types |-> f.types \cup {t}, decls |-> f.decls]
        BY <4>2, <4>3
      <4>5. noted(i) = [node |-> f.node, storing |-> f.storing, items |-> items,
                        types |-> f.types \cup {t}, decls |-> f.decls]
        BY <4>1, <4>3, <4>4
      <4> QED BY <3>2, <3>3, <4>5 DEF handled
    <3>4. CASE ~f.storing
      <4>1. noted(i) = fs[i]
        BY <3>1, <3>4
      <4> HIDE DEF noted
      <4> QED BY <3>1, <3>2, <3>4, <4>1 DEF handled
    <3> QED BY <3>3, <3>4
  <2> HIDE DEF noted
  <2>3. Handled(frames, news, {t}, {}) = [i \in DOMAIN frames |-> Handled(frames, news, {t}, {})[i]]
    BY DEF Handled
  <2> QED BY <2>1, <2>2, <2>3
<1>7. ASSUME NEW d PROVE NoteReportedDecl(d, fs) = Handled(frames, news, {}, {d})
  <2> DEFINE noted(i) == IF fs[i].storing THEN [fs[i] EXCEPT !.decls = @ \cup {d}] ELSE fs[i]
  <2>1. NoteReportedDecl(d, fs) = [i \in DOMAIN frames |-> noted(i)]
    BY <1>3 DEF NoteReportedDecl
  <2>2. ASSUME NEW i \in DOMAIN frames PROVE noted(i) = Handled(frames, news, {}, {d})[i]
    <3> DEFINE f == frames[i]
               items == IF i = Len(frames) THEN news \o Tail(f.items) ELSE f.items
               handled == Handled(frames, news, {}, {d})[i]
    <3>1. fs[i] = [node |-> f.node, storing |-> f.storing, items |-> items,
                   types |-> f.types, decls |-> f.decls]
      BY <1>4
    <3>2. handled = [node |-> f.node, storing |-> f.storing, items |-> items,
                     types |-> IF f.storing THEN f.types \cup {} ELSE f.types,
                     decls |-> IF f.storing THEN f.decls \cup {d} ELSE f.decls]
      BY DEF Handled
    <3> HIDE DEF f, items, handled
    <3>3. CASE f.storing
      <4> DEFINE g == fs[i]
      <4>1. noted(i) = IF g.storing THEN [g EXCEPT !.decls = g.decls \cup {d}] ELSE g
        OBVIOUS
      <4>2. g = [node |-> f.node, storing |-> f.storing, items |-> items,
                 types |-> f.types, decls |-> f.decls]
        BY <3>1
      <4> HIDE DEF g, noted
      <4>3. g.storing /\ g.decls = f.decls
        BY <3>3, <4>2
      <4>4. [g EXCEPT !.decls = g.decls \cup {d}]
              = [node |-> f.node, storing |-> f.storing, items |-> items,
                        types |-> f.types, decls |-> f.decls \cup {d}]
        BY <4>2, <4>3
      <4>5. noted(i) = [node |-> f.node, storing |-> f.storing, items |-> items,
                        types |-> f.types, decls |-> f.decls \cup {d}]
        BY <4>1, <4>3, <4>4
      <4> QED BY <3>2, <3>3, <4>5 DEF handled
    <3>4. CASE ~f.storing
      <4>1. noted(i) = fs[i]
        BY <3>1, <3>4
      <4> HIDE DEF noted
      <4> QED BY <3>1, <3>2, <3>4, <4>1 DEF handled
    <3> QED BY <3>3, <3>4
  <2> HIDE DEF noted
  <2>3. Handled(frames, news, {}, {d}) = [i \in DOMAIN frames |-> Handled(frames, news, {}, {d})[i]]
    BY DEF Handled
  <2> QED BY <2>1, <2>2, <2>3
<1> QED BY <1>5, <1>6, <1>7 DEF fs

(* Nothing is missed if what comes after the item, and after others that   *)
(* are searched with it, is among what remains or what has been searched.  *)
Visited(i) ==
  {EntryItem(n) : n \in {m \in traversed_decls \ seen[i] : NodeInfo[m].precomputed = <<>>}}

Covers(more, news) ==
  /\ more \in SUBSET Items /\ NextItem \in more
  /\ \A i \in DOMAIN frames \ affected' :
       i = 1 \/ frames[i].storing =>
         \A item \in more :
           /\ After(item, Resugar) \subseteq
                more \cup Range(news) \cup Visited(i) \cup UNION {After(e, Resugar) : e \in Visited(i)}
           /\ DirectUses(item, Resugar) \cap Kept \subseteq
                Recorded(i)' \cup UNION {DirectUses(j, Resugar) : j \in Range(news)}
  /\ \A n \in traversed_decls' \ traversed_decls :
       NodeInfo[n].precomputed = <<>> => EntryItem(n) \in more

LEMMA RecordedGrows ==
  ASSUME NEW news, NEW types, NEW decls, Handles(news, types, decls), NEW i \in DOMAIN frames
  PROVE  Recorded(i) \subseteq Recorded(i)'
<1>1. UsesOfEntry(frames[i]) \subseteq UsesOfEntry(frames'[i])
  <2>1. frames[i].types \subseteq frames'[i].types /\ frames[i].decls \subseteq frames'[i].decls
    BY DEF Handles, Handled
  <2> QED BY <2>1 DEF UsesOfEntry
<1>2. site' = site /\ reported \subseteq reported'
  BY DEF Handles
<1>3. CASE i = 1
  <2>1. \A u \in Types :
          TypeInfo[u].canonical \in reported \cup site.blocked_types \cup TypeInfo[u].provided
          => TypeInfo[u].canonical \in reported' \cup site'.blocked_types \cup TypeInfo[u].provided
    BY <1>2
  <2> QED BY <1>2, <1>3, <2>1 DEF Recorded
<1>4. CASE i # 1
  BY <1>1, <1>4 DEF Recorded
<1> QED BY <1>3, <1>4

LEMMA CoveringFinds ==
  ASSUME TypeOK, NEW news, NEW types, NEW decls, Handles(news, types, decls),
         NEW more, Covers(more, news)
  PROVE  Finds(news)
<1> SUFFICES ASSUME NEW i \in DOMAIN frames \ affected', NEW done, i = 1 \/ frames[i].storing,
                    Explored(done, Entry(i), traversed_decls \ seen[i], Remaining(i), Recorded(i), Resugar)
             PROVE  \E all : Explored(all, Entry(i), traversed_decls' \ seen[i],
                                      Range(news) \cup Rest(frames, i), Recorded(i)', Resugar)
  BY DEF Finds
<1> DEFINE entry == Entry(i)
           nodes == traversed_decls \ seen[i]
           nodes2 == traversed_decls' \ seen[i]
           recorded == Recorded(i)
           rest == Rest(frames, i)
           item == NextItem
           r == Resugar
           new == Range(news)
<1>1. PICK recorded2 : recorded2 = Recorded(i)'
  OBVIOUS
<1>2. Remaining(i) = {item} \cup rest
  BY RemainingBefore DEF Remaining, Handles, TypeOK, ScanType, Scanning, Top, NextItem
<1>3. Explored(done, entry, nodes, {item} \cup rest, recorded, r)
  BY <1>2
<1>4. recorded \subseteq recorded2
  BY <1>1, RecordedGrows
<1>5. item \in more /\ more \in SUBSET Items
  BY DEF Covers
<1>6. \A j \in more :
        /\ After(j, r) \subseteq
             more \cup new \cup Visited(i) \cup UNION {After(e, r) : e \in Visited(i)}
        /\ DirectUses(j, r) \cap Kept \subseteq
             recorded2 \cup UNION {DirectUses(x, r) : x \in new}
  BY <1>1 DEF Covers
<1>7. \A e \in Visited(i) : e \in done
  BY <1>3 DEF Visited, Explored
<1>8. \A e \in Visited(i) : After(e, r) \subseteq done \cup ({item} \cup rest)
  BY <1>3, <1>7 DEF Explored, Searched
<1>9. \A n \in nodes2 \ nodes : NodeInfo[n].precomputed = <<>> => EntryItem(n) \in more
  BY DEF Covers
<1> HIDE DEF entry, nodes, nodes2, recorded, rest, item, r, new
<1>10. \A j \in more :
         /\ After(j, r) \subseteq (done \cup more) \cup (new \cup rest)
         /\ DirectUses(j, r) \cap Kept \subseteq
              recorded2 \cup UNION {DirectUses(x, r) : x \in new \cup rest}
  <2> SUFFICES ASSUME NEW j \in more
               PROVE  /\ After(j, r) \subseteq (done \cup more) \cup (new \cup rest)
                      /\ DirectUses(j, r) \cap Kept \subseteq
                           recorded2 \cup UNION {DirectUses(x, r) : x \in new \cup rest}
    OBVIOUS
  <2>1. UNION {After(e, r) : e \in Visited(i)} \subseteq done \cup ({item} \cup rest)
    BY <1>8
  <2>2. Visited(i) \subseteq done
    BY <1>7
  <2>3. UNION {DirectUses(x, r) : x \in new} \subseteq UNION {DirectUses(x, r) : x \in new \cup rest}
    OBVIOUS
  <2> QED BY <1>5, <1>6, <2>1, <2>2, <2>3
<1>11. Explored(done \cup more, entry, nodes2, new \cup rest, recorded2, r)
  BY <1>3, <1>4, <1>5, <1>9, <1>10, ExploredMore
<1> QED BY <1>1, <1>11 DEF entry, nodes2, rest, r, new

LEMMA CoveringPreserves ==
  ASSUME IInv, NEW news, NEW types, NEW decls,
         Handles(news, types, decls), Justified(news, types, decls), NEW more, Covers(more, news)
  PROVE  IInv'
<1>1. TypeOK
  BY DEF IInv
<1>2. Finds(news)
  BY <1>1, CoveringFinds
<1> QED BY <1>2, HandlingPreserves

LEMMA PlainPreserves ==
  ASSUME IInv, Scanning, Top.items # <<>>,
         NEW news \in Seq(Items), Range(news) \subseteq ItemsWithin,
         frames' = Continue(news),
         affected \subseteq affected', affected' \subseteq DOMAIN frames,
         traversed_decls \subseteq traversed_decls', traversed_decls' \subseteq Nodes,
         reported \subseteq reported', reported' \subseteq reported \cup Reportable(Uses({NextItem}, Resugar)),
         UNCHANGED <<cache, site, num_scans, seen, tainted, results>>,
         \A item \in Range(news) : Uses({item}, Resugar) \subseteq Uses({NextItem}, Resugar),
         NEW more, Covers(more, news)
  PROVE  IInv'
<1> DEFINE none == {}
<1>1. ScanType
  BY DEF IInv, TypeOK
<1>2. frames' = Handled(frames, news, none, none)
  BY <1>1, NotingHandled
<1>3. none \in SUBSET Types /\ none \in SUBSET DOMAIN DeclFile
  OBVIOUS
<1>4. {AnItem("type", t) : t \in none} \cup {AnItem("decl", d) : d \in none} = {}
  OBVIOUS
<1> HIDE DEF none
<1>5. Handles(news, none, none)
  BY <1>2, <1>3 DEF Handles
<1>6. Justified(news, none, none)
  BY <1>4 DEF Justified
<1> QED BY <1>5, <1>6, CoveringPreserves

LEMMA SkipPreserves ==
  ASSUME IInv, Scanning, Top.items # <<>>, NEW n \in Nodes, Skip(n),
         NodeInfo[n].precomputed = <<>> => Enters(NextItem, n, Resugar)
  PROVE  IInv'
<1> DEFINE news == <<>>
           more == {NextItem}
           r == Resugar
           e == EntryItem(n)
<1>1. /\ n \in traversed_decls /\ frames' = Continue(news)
      /\ affected' = affected \cup {i \in DOMAIN frames : n \in seen[i] \/ NodeInfo[n].precomputed # <<>>}
      /\ UNCHANGED <<cache, site, traversed_decls, reported, num_scans, seen, tainted, results>>
  BY DEF Skip
<1>2. /\ affected \subseteq DOMAIN frames /\ traversed_decls \subseteq Nodes /\ ScanType
  BY DEF IInv, TypeOK, ScanType
<1>3. news \in Seq(Items) /\ Range(news) = {}
  BY DEF Range
<1>4. more \in SUBSET Items
  BY <1>2, TopType
<1>5. ASSUME NEW i \in DOMAIN frames \ affected'
      PROVE  /\ DirectUses(NextItem, r) = {}
             /\ After(NextItem, r) \subseteq Visited(i) \cup UNION {After(x, r) : x \in Visited(i)}
  <2>1. n \in traversed_decls \ seen[i] /\ NodeInfo[n].precomputed = <<>>
    BY <1>1
  <2>2. e \in Visited(i)
    BY <2>1 DEF Visited
  <2>3. DirectUses(NextItem, r) = {} /\ (After(NextItem, r) = After(e, r) \/ After(NextItem, r) = {e})
    BY <2>1 DEF Enters
  <2> HIDE DEF e, r
  <2> QED BY <2>2, <2>3
<1> HIDE DEF news, r, e
<1>6. \A i \in DOMAIN frames \ affected' : \A item \in more :
        /\ After(item, r) \subseteq
             more \cup Range(news) \cup Visited(i) \cup UNION {After(x, r) : x \in Visited(i)}
        /\ DirectUses(item, r) \cap Kept \subseteq
             Recorded(i)' \cup UNION {DirectUses(j, r) : j \in Range(news)}
  BY <1>5
<1>7. Covers(more, news)
  <2>1. traversed_decls' \ traversed_decls = {}
    BY <1>1
  <2> QED BY <1>4, <1>6, <2>1 DEF Covers, r
<1>8. affected \subseteq affected' /\ affected' \subseteq DOMAIN frames
  BY <1>1, <1>2
<1> QED BY <1>1, <1>2, <1>3, <1>7, <1>8, PlainPreserves

(* An entry is replayed as its uses.                                       *)
LEMMA AsSequence ==
  ASSUME NEW S, IsFiniteSet(S), NEW s \in SetToSeqs(S), NEW kind
  PROVE  LET items == [i \in DOMAIN s |-> AnItem(kind, s[i])]
         IN  items \in Seq({AnItem(kind, x) : x \in S}) /\ Range(items) = {AnItem(kind, x) : x \in S}
<1> DEFINE D == 1..Cardinality(S)
           all == {AnItem(kind, x) : x \in S}
           items == [i \in DOMAIN s |-> AnItem(kind, s[i])]
<1>1. Cardinality(S) \in Nat
  BY FS_CardinalityType
<1>2. s \in [D -> S] /\ \A i, j \in D : i # j => s[i] # s[j]
  BY DEF SetToSeqs
<1>3. s \in Injection(D, S)
  <2>1. \A i, j \in D : s[i] = s[j] => i = j
    BY <1>2
  <2> HIDE DEF D
  <2> QED BY <1>2, <2>1 DEF Injection, IsInjective
<1>4. Cardinality(D) = Cardinality(S)
  <2>1. 1 \in Int /\ Cardinality(S) \in Int /\ Cardinality(S) - 1 + 1 = Cardinality(S)
    BY <1>1
  <2> QED BY <1>1, <2>1, FS_Interval
<1>5. s \in Surjection(D, S)
  <2> HIDE DEF D
  <2> QED BY <1>3, <1>4, FS_Injection
<1>6. \A x \in S : \E i \in D : s[i] = x
  BY <1>5 DEF Surjection
<1>7. items = [i \in D |-> AnItem(kind, s[i])] /\ \A i \in D : AnItem(kind, s[i]) \in all
  BY <1>2
<1>8. items \in [1..Cardinality(S) -> all]
  <2> HIDE DEF all, items
  <2> QED BY <1>7
<1>9. items \in Seq(all)
  <2> HIDE DEF all, items
  <2> QED BY <1>1, <1>8
<1>10. Range(items) = all
  BY <1>2, <1>6, <1>7 DEF Range
<1> QED BY <1>9, <1>10

LEMMA EntryItems ==
  ASSUME TypeOK, NEW key \in DOMAIN cache,
         NEW types \in SetToSeqs(cache[key].types), NEW decls \in SetToSeqs(cache[key].decls)
  PROVE  LET items == [i \in DOMAIN types |-> AnItem("type", types[i])]
                      \o [i \in DOMAIN decls |-> AnItem("decl", decls[i])]
         IN  /\ items \in Seq(Items) /\ Range(items) \subseteq ItemsWithin
             /\ Range(items) = UsesOfEntry(cache[key])
<1> DEFINE T == cache[key].types
           D == cache[key].decls
           t_items == [i \in DOMAIN types |-> AnItem("type", types[i])]
           d_items == [i \in DOMAIN decls |-> AnItem("decl", decls[i])]
<1>1. T \subseteq Types /\ D \subseteq DOMAIN DeclFile
  BY DEF TypeOK, CacheType, Entries
<1>2. IsFiniteSet(T) /\ IsFiniteSet(D)
  BY <1>1, FinitenessAssumption, FS_Subset
<1>3. /\ t_items \in Seq({AnItem("type", x) : x \in T}) /\ Range(t_items) = {AnItem("type", x) : x \in T}
      /\ d_items \in Seq({AnItem("decl", x) : x \in D}) /\ Range(d_items) = {AnItem("decl", x) : x \in D}
  <2>1. types \in SetToSeqs(T) /\ decls \in SetToSeqs(D)
    OBVIOUS
  <2> HIDE DEF T, D
  <2>2. t_items \in Seq({AnItem("type", x) : x \in T}) /\ Range(t_items) = {AnItem("type", x) : x \in T}
    BY <1>2, <2>1, AsSequence
  <2>3. d_items \in Seq({AnItem("decl", x) : x \in D}) /\ Range(d_items) = {AnItem("decl", x) : x \in D}
    BY <1>2, <2>1, AsSequence
  <2> QED BY <2>2, <2>3
<1>4. /\ {AnItem("type", x) : x \in T} \subseteq ItemsWithin
      /\ {AnItem("decl", x) : x \in D} \subseteq ItemsWithin
  BY <1>1, AnItemType, AnItemFields DEF ItemsWithin
<1>5. t_items \in Seq(ItemsWithin) /\ d_items \in Seq(ItemsWithin)
  <2> HIDE DEF t_items, d_items, T, D
  <2> QED BY <1>3, <1>4
<1>6. /\ t_items \o d_items \in Seq(ItemsWithin)
      /\ Range(t_items \o d_items) = Range(t_items) \cup Range(d_items)
  <2> HIDE DEF t_items, d_items
  <2> QED BY <1>5, ConcatenationFields
<1>7. ItemsWithin \subseteq Items
  BY DEF ItemsWithin
<1> DEFINE items == t_items \o d_items
<1>8. Range(items) = UsesOfEntry(cache[key])
  BY <1>3, <1>6 DEF UsesOfEntry
<1>9. items \in Seq(ItemsWithin)
  BY <1>6
<1> HIDE DEF items
<1>10. items \in Seq(Items) /\ Range(items) \subseteq ItemsWithin
  BY <1>7, <1>9, RangeOfSequence
<1> QED BY <1>8, <1>10 DEF items

LEMMA ReplayPreserves ==
  ASSUME IInv, Scanning, Top.items # <<>>, NEW n \in Nodes, Enters(NextItem, n, Resugar),
         ReplayUsesFromCache(n), Marks(n), UNCHANGED <<site, num_scans, results>>
  PROVE  IInv'
<1> DEFINE key == Key(n)
           r == Resugar
           e == EntryItem(n)
           item == NextItem
           entry == cache[key]
<1>1. TypeOK /\ ScanType
  BY DEF IInv, TypeOK
<1>2. key \in DOMAIN cache /\ key[1] = n /\ key[2] = r /\ r \in ResugarMaps
  <2>1. r \in ResugarMaps
    BY <1>1, TopType
  <2> QED BY <2>1 DEF ReplayUsesFromCache, Key
<1>3. PICK types \in SetToSeqs(entry.types), decls \in SetToSeqs(entry.decls) :
        frames' = Continue([i \in DOMAIN types |-> AnItem("type", types[i])]
                           \o [i \in DOMAIN decls |-> AnItem("decl", decls[i])])
  BY DEF ReplayUsesFromCache
<1> DEFINE news == [i \in DOMAIN types |-> AnItem("type", types[i])]
                   \o [i \in DOMAIN decls |-> AnItem("decl", decls[i])]
<1>4. news \in Seq(Items) /\ Range(news) \subseteq ItemsWithin /\ Range(news) = UsesOfEntry(entry)
  BY <1>1, <1>2, EntryItems
<1>5. /\ affected' = IF key \in tainted THEN DOMAIN frames ELSE affected
      /\ affected \subseteq DOMAIN frames
      /\ UNCHANGED <<cache, site, reported, num_scans, seen, tainted, results>>
  BY <1>1 DEF ReplayUsesFromCache, ScanType
<1>6. /\ traversed_decls \subseteq traversed_decls' /\ traversed_decls' \subseteq Nodes
      /\ traversed_decls' \ traversed_decls \subseteq {n}
  BY <1>1 DEF Marks, ScanType
<1>7. /\ item \in Items /\ e \in Items /\ DirectUses(item, r) = {}
      /\ After(item, r) = After(e, r) \/ After(item, r) = {e}
      /\ Uses({item}, r) = Uses({e}, r)
  BY <1>2, EntryItemType, EntersSame DEF Enters
<1>8. UsesOfEntry(entry) \subseteq Uses({e}, r)
  BY <1>2 DEF IInv, CacheSound
<1>9. key \notin tainted => Uses({e}, r) \cap Kept \subseteq UsesOfEntry(entry)
  BY <1>2 DEF IInv, CacheComplete
<1>10. frames' = Continue(news)
  BY <1>3
<1> HIDE DEF news, key, e, item, r, entry
<1>11. {e} \in SUBSET Items
  BY <1>7
<1>12. \A u \in Uses({e}, r) : DirectUses(u, r) = {u} /\ Uses({u}, r) \subseteq Uses({e}, r)
  BY <1>2, <1>11, UseIsDirect
<1>13. \A u \in Range(news) : Uses({u}, r) \subseteq Uses({item}, r)
  BY <1>4, <1>7, <1>8, <1>12
<1> DEFINE below == Below({e}, r)
           more == {item} \cup below
<1>14. e \in below /\ below \subseteq Items /\ Closed(below, r)
  BY <1>2, <1>11, BelowIsLeastClosed
<1>15. \A i \in below : DirectUses(i, r) \subseteq Uses({e}, r)
  BY DEF Uses
<1> HIDE DEF below
<1>16. \A i \in more : After(i, r) \subseteq more
  BY <1>7, <1>14 DEF Closed
<1>17. ASSUME key \notin tainted, NEW i \in more
       PROVE  DirectUses(i, r) \cap Kept \subseteq UNION {DirectUses(j, r) : j \in Range(news)}
  <2>1. DirectUses(i, r) \cap Kept \subseteq Range(news)
    BY <1>4, <1>7, <1>9, <1>15, <1>17
  <2>2. \A u \in Range(news) : DirectUses(u, r) = {u}
    BY <1>4, <1>8, <1>12
  <2> QED BY <2>1, <2>2
<1>18. Covers(more, news)
  <2>1. more \in SUBSET Items /\ item \in more
    BY <1>7, <1>14
  <2>2. \A m \in traversed_decls' \ traversed_decls : EntryItem(m) \in more
    BY <1>6, <1>14 DEF e
  <2>3. \A i \in DOMAIN frames \ affected' : key \notin tainted
    BY <1>5
  <2> HIDE DEF more
  <2> QED BY <1>16, <1>17, <2>1, <2>2, <2>3 DEF Covers, item, r
<1>19. affected \subseteq affected' /\ affected' \subseteq DOMAIN frames
  BY <1>5
<1>20. /\ reported \subseteq reported'
       /\ reported' \subseteq reported \cup Reportable(Uses({item}, r))
  BY <1>5
<1> HIDE DEF more
<1> QED BY <1>4, <1>5, <1>6, <1>10, <1>13, <1>18, <1>19, <1>20, PlainPreserves DEF item, r

LEMMA NothingWithinPreserves ==
  ASSUME IInv, Scanning, Top.items # <<>>, NEW n \in Nodes, Enters(NextItem, n, Resugar),
         After(EntryItem(n), Resugar) = {}, frames' = Continue(<<>>), Marks(n),
         UNCHANGED <<cache, site, reported, num_scans, affected, seen, tainted, results>>
  PROVE  IInv'
<1> DEFINE r == Resugar
           e == EntryItem(n)
           item == NextItem
           news == <<>>
           more == {item, e}
<1>1. TypeOK /\ ScanType /\ affected \subseteq DOMAIN frames
  BY DEF IInv, TypeOK, ScanType
<1>2. r \in ResugarMaps
  BY <1>1, TopType
<1>3. /\ traversed_decls \subseteq traversed_decls' /\ traversed_decls' \subseteq Nodes
      /\ traversed_decls' \ traversed_decls \subseteq {n}
  BY <1>1 DEF Marks, ScanType
<1>4. /\ item \in Items /\ e \in Items /\ DirectUses(item, r) = {} /\ DirectUses(e, r) = {}
      /\ After(e, r) = {} /\ After(item, r) \subseteq {e}
  BY <1>2, EntryItemType DEF Enters
<1>5. news \in Seq(Items) /\ Range(news) = {} /\ frames' = Continue(news)
  BY DEF Range
<1> HIDE DEF news, e, item, r
<1>6. Covers(more, news)
  <2>1. \A m \in traversed_decls' \ traversed_decls : EntryItem(m) \in more
    BY <1>3 DEF e
  <2>2. \A i \in more : After(i, r) \subseteq more /\ DirectUses(i, r) = {}
    BY <1>4
  <2> QED BY <1>4, <2>1, <2>2 DEF Covers, item, r
<1> HIDE DEF more
<1> QED BY <1>1, <1>3, <1>5, <1>6, PlainPreserves

LEMMA TraverseMembersPreserves ==
  ASSUME IInv, Scanning, Top.items # <<>>, NEW n \in NodesOf("class"), Enters(NextItem, n, Resugar),
         TraverseMembers(n), Marks(n), UNCHANGED <<site, num_scans, results>>
  PROVE  IInv'
<1>1. n \in Nodes /\ NodeInfo[n].kind = "class"
  BY DEF NodesOf
<1>2. EntryItem(n).kind = "members" /\ EntryItem(n).x = n
  BY <1>1, AnItemFields DEF EntryItem
<1>3. After(EntryItem(n), Resugar) = IF NodeInfo[n].defined THEN Range(NodeInfo[n].body) ELSE {}
  BY <1>2 DEF After
<1>4. CASE ReplayUsesFromCache(n)
  BY <1>1, <1>4, ReplayPreserves
<1>5. CASE Key(n) \notin DOMAIN cache /\ NodeInfo[n].defined /\ Begin(n, TRUE)
  <2>1. ScanType
    BY DEF IInv, TypeOK
  <2>2. Begins(n, TRUE)
    BY <1>3, <1>5, <2>1, NotingHandled DEF Begins, Begin, NewFrame
  <2> QED BY <2>2, BeginningPreserves
<1>6. CASE /\ ~NodeInfo[n].defined /\ frames' = Continue(<<>>)
           /\ UNCHANGED <<cache, reported, affected, seen, tainted>>
  BY <1>1, <1>3, <1>6, NothingWithinPreserves
<1> QED BY <1>4, <1>5, <1>6 DEF TraverseMembers

-----------------------------------------------------------------------------
(* Each action preserves the invariant.                                    *)
LEMMA NextItemType ==
  ASSUME IInv, NEW kind, IsNext(kind)
  PROVE  /\ Scanning /\ Top.items # <<>> /\ NextItem \in Items /\ NextItem.kind = kind
         /\ Resugar \in ResugarMaps /\ ScanType /\ TypeOK /\ site \in Sites
         /\ NextItem = AnItem(kind, NextItem.x)
<1>1. ScanType /\ TypeOK /\ Scanning /\ Top.items # <<>> /\ NextItem.kind = kind
  BY DEF IInv, TypeOK, IsNext
<1> QED BY <1>1, TopType, ItemCases

LEMMA TraverseFunctionPreserves ==
  ASSUME IInv, TraverseExpandedTemplateFunction
  PROVE  IInv'
<1> DEFINE n == NextItem.x
<1>1. IsNext("function")
  BY DEF TraverseExpandedTemplateFunction
<1>2. /\ Scanning /\ Top.items # <<>> /\ NextItem \in Items /\ NextItem.kind = "function"
      /\ NextItem = AnItem("function", n) /\ ScanType
  BY <1>1, NextItemType
<1>3. n \in NodesOf("function")
  BY <1>2, ItemCases
<1>4. n \in Nodes /\ NextItem = EntryItem(n)
  BY <1>2, <1>3 DEF NodesOf, EntryItem
<1>5. Enters(NextItem, n, Resugar) /\ After(EntryItem(n), Resugar) = Range(NodeInfo[n].body)
  BY <1>2, <1>4 DEF Enters, DirectUses, After
<1>6. CASE Skip(n)
  BY <1>2, <1>4, <1>5, <1>6, SkipPreserves
<1>7. CASE /\ Mark(n) /\ ReplayUsesFromCache(n) /\ UNCHANGED <<site, num_scans, results>>
  <2>1. Marks(n)
    BY <1>7 DEF Mark, Marks
  <2> QED BY <1>2, <1>4, <1>5, <1>7, <2>1, ReplayPreserves
<1>8. CASE /\ Mark(n) /\ Begin(n, TRUE) /\ UNCHANGED <<site, num_scans, results>>
  <2>1. Begins(n, TRUE)
    BY <1>2, <1>5, <1>8, NotingHandled DEF Begins, Begin, NewFrame, Mark, Marks
  <2> QED BY <2>1, BeginningPreserves
<1> QED BY <1>6, <1>7, <1>8 DEF TraverseExpandedTemplateFunction

LEMMA TraverseVariablePreserves ==
  ASSUME IInv, TraverseExpandedTemplateVariable
  PROVE  IInv'
<1> DEFINE n == NextItem.x
<1>1. IsNext("variable")
  BY DEF TraverseExpandedTemplateVariable
<1>2. /\ Scanning /\ Top.items # <<>> /\ NextItem \in Items /\ NextItem.kind = "variable"
      /\ NextItem = AnItem("variable", n) /\ ScanType
  BY <1>1, NextItemType
<1>3. n \in NodesOf("variable")
  BY <1>2, ItemCases
<1>4. n \in Nodes /\ NextItem = EntryItem(n)
  BY <1>2, <1>3 DEF NodesOf, EntryItem
<1>5. Enters(NextItem, n, Resugar) /\ After(EntryItem(n), Resugar) = Range(NodeInfo[n].body)
  BY <1>2, <1>4 DEF Enters, DirectUses, After
<1>6. CASE Skip(n)
  BY <1>2, <1>4, <1>5, <1>6, SkipPreserves
<1>7. CASE Mark(n) /\ Begin(n, FALSE) /\ UNCHANGED <<site, num_scans, results>>
  <2>1. Begins(n, FALSE)
    BY <1>2, <1>5, <1>7, NotingHandled DEF Begins, Begin, NewFrame, Mark, Marks
  <2> QED BY <2>1, BeginningPreserves
<1> QED BY <1>6, <1>7 DEF TraverseExpandedTemplateVariable

LEMMA ScanClassPreserves ==
  ASSUME IInv, ScanClass
  PROVE  IInv'
<1> DEFINE n == NextItem.x
<1>1. IsNext("members")
  BY DEF ScanClass
<1>2. /\ Scanning /\ Top.items # <<>> /\ NextItem \in Items /\ NextItem.kind = "members"
      /\ NextItem = AnItem("members", n) /\ ScanType
  BY <1>1, NextItemType
<1>3. n \in NodesOf("class")
  BY <1>2, ItemCases
<1>4. NextItem = EntryItem(n)
  BY <1>2, <1>3 DEF NodesOf, EntryItem
<1>5. Enters(NextItem, n, Resugar)
  BY <1>2, <1>3, <1>4 DEF Enters, DirectUses, NodesOf
<1>6. Len(frames) = 1 /\ StartsAt(n)
  <2>1. /\ Len(frames) \in DOMAIN frames /\ Top = frames[Len(frames)]
        /\ Top.items \in Seq(Items) /\ NextItem = Head(Top.items)
    BY <1>2, TopType, FrameFields DEF Top, NextItem
  <2>2. NextItem \in Range(Top.items) /\ NextItem \notin ItemsWithin
    BY <1>2, <2>1, SequenceFields DEF ItemsWithin
  <2>3. ~(Range(Top.items) \subseteq ItemsWithin)
    BY <2>2
  <2>4. Len(frames) = 1
    BY <1>2, <2>1, <2>3 DEF ScanType
  <2>5. /\ Top.items = site.items
        /\ \E m \in NodesOf("class") : site.items = <<AnItem("members", m)>>
    BY <1>2, <2>1, <2>3, <2>4 DEF IInv, MembersFirst
  <2>6. site.items[1] = NextItem
    BY <2>1, <2>5
  <2> QED BY <1>2, <2>4, <2>6 DEF StartsAt
<1>7. Marks(n)
  BY <1>6 DEF ScanClass, Marks
<1> QED BY <1>2, <1>3, <1>5, <1>7, TraverseMembersPreserves DEF ScanClass

LEMMA TraverseClassPreserves ==
  ASSUME IInv, TraverseDataAndTypeMembersOfClass
  PROVE  IInv'
<1> DEFINE n == NextItem.x
           r == Resugar
<1>1. IsNext("class")
  BY DEF TraverseDataAndTypeMembersOfClass
<1>2. /\ Scanning /\ Top.items # <<>> /\ NextItem \in Items /\ NextItem.kind = "class"
      /\ NextItem = AnItem("class", n) /\ ScanType /\ r \in ResugarMaps
  BY <1>1, NextItemType
<1>3. n \in NodesOf("class")
  BY <1>2, ItemCases
<1>4. n \in Nodes /\ EntryItem(n) = AnItem("members", n)
  BY <1>3 DEF NodesOf, EntryItem
<1>5. DirectUses(NextItem, r) = {}
  BY <1>2 DEF DirectUses
<1>6. PrecomputedUses(n, r) = {} => Enters(NextItem, n, r)
  <2>1. PrecomputedUses(n, r) = {} => After(NextItem, r) = After(EntryItem(n), r)
    BY <1>2, <1>4, AnItemFields DEF After
  <2> QED BY <1>2, <1>4, <1>5, <2>1 DEF Enters
<1>7. NodeInfo[n].precomputed = <<>> => PrecomputedUses(n, r) = {}
  BY DEF PrecomputedUses
<1>8. CASE Skip(n)
  BY <1>2, <1>4, <1>6, <1>7, <1>8, SkipPreserves
<1>9. CASE /\ Mark(n) /\ ReplayClassMemberUsesFromPrecomputedList(n)
           /\ UNCHANGED <<site, num_scans, results>>
  <2> DEFINE news == PrecomputedItems(n, r)
             more == {NextItem}
  <2>1. /\ PrecomputedUses(n, r) # {} /\ frames' = Continue(news)
        /\ n \notin traversed_decls /\ traversed_decls' = traversed_decls \cup {n}
        /\ UNCHANGED <<cache, reported, affected, seen, tainted, site, num_scans, results>>
    BY <1>9 DEF ReplayClassMemberUsesFromPrecomputedList, Mark
  <2>2. news \in Seq(Items) /\ Range(news) \subseteq ItemsWithin
    BY <1>2, <1>4, PrecomputedItemsType
  <2>3. After(NextItem, r) = Range(news)
    BY <1>2, <2>1 DEF After
  <2> HIDE DEF news
  <2>4. \A item \in Range(news) : Uses({item}, r) \subseteq Uses({NextItem}, r)
    BY <1>2, <2>3, UsesOfNext
  <2>5. NodeInfo[n].precomputed # <<>>
    BY <1>7, <2>1
  <2>6. Covers(more, news)
    BY <1>2, <1>5, <2>1, <2>3, <2>5 DEF Covers
  <2>7. /\ affected \subseteq DOMAIN frames
        /\ traversed_decls \subseteq traversed_decls' /\ traversed_decls' \subseteq Nodes
    BY <1>2, <1>4, <2>1 DEF ScanType
  <2> HIDE DEF more, n
  <2> QED BY <1>2, <2>1, <2>2, <2>4, <2>6, <2>7, PlainPreserves
<1>10. CASE /\ Mark(n) /\ PrecomputedUses(n, r) = {} /\ TraverseMembers(n)
            /\ UNCHANGED <<site, num_scans, results>>
  <2>1. Marks(n)
    BY <1>10 DEF Mark, Marks
  <2> QED BY <1>2, <1>3, <1>6, <1>10, <2>1, TraverseMembersPreserves
<1> QED BY <1>8, <1>9, <1>10 DEF TraverseDataAndTypeMembersOfClass

LEMMA UseClassOfParmPreserves ==
  ASSUME IInv, UseClassOfParm
  PROVE  IInv'
<1> DEFINE t == NextItem.x
           n == TypeInfo[t].class
           r == Resugar
<1>1. IsNext("parm") /\ ~IsKnownTemplateParam(t, r)
  BY DEF UseClassOfParm
<1>2. /\ Scanning /\ Top.items # <<>> /\ NextItem \in Items /\ NextItem.kind = "parm"
      /\ NextItem = AnItem("parm", t) /\ ScanType /\ r \in ResugarMaps
  BY <1>1, NextItemType
<1>3. t \in Types
  BY <1>2, ItemCases
<1>4. n \in NodesOf("class") \cup {NoNode}
  BY <1>3, TypesAssumption
<1>5. DirectUses(NextItem, r) = {}
  BY <1>2 DEF DirectUses
<1>6. After(NextItem, r) = IF InvolvesKnownTemplateParam(t, r) /\ n # NoNode
                           THEN {AnItem("members", n)} ELSE {}
  BY <1>1, <1>2 DEF After
<1>7. CASE /\ ~InvolvesKnownTemplateParam(t, r) \/ n = NoNode
           /\ frames' = Continue(<<>>)
           /\ UNCHANGED <<cache, site, traversed_decls, reported, num_scans, ghosts>>
  <2> DEFINE news == <<>>
             more == {NextItem}
  <2>1. /\ frames' = Continue(news) /\ news \in Seq(Items) /\ Range(news) = {}
        /\ UNCHANGED <<cache, site, traversed_decls, reported, num_scans, affected, seen, tainted, results>>
    BY <1>7 DEF ghosts, Range
  <2>2. After(NextItem, r) = {}
    BY <1>6, <1>7
  <2> HIDE DEF news
  <2>3. Covers(more, news)
    BY <1>2, <1>5, <2>1, <2>2 DEF Covers
  <2>4. affected \subseteq DOMAIN frames /\ traversed_decls \subseteq Nodes
    BY <1>2 DEF ScanType
  <2> HIDE DEF more
  <2> QED BY <1>2, <2>1, <2>3, <2>4, PlainPreserves
<1>8. CASE /\ InvolvesKnownTemplateParam(t, r) /\ n # NoNode
           /\ Skip(n) \/ (Mark(n) /\ TraverseMembers(n) /\ UNCHANGED <<site, num_scans, results>>)
  <2>1. n \in NodesOf("class") /\ n \in Nodes /\ EntryItem(n) = AnItem("members", n)
    BY <1>4, <1>8 DEF NodesOf, EntryItem
  <2>2. After(NextItem, r) = {EntryItem(n)}
    BY <1>6, <1>8, <2>1
  <2>3. Enters(NextItem, n, r)
    BY <1>2, <1>5, <2>1, <2>2 DEF Enters
  <2>4. CASE Skip(n)
    BY <1>2, <2>1, <2>3, <2>4, SkipPreserves
  <2>5. CASE Mark(n) /\ TraverseMembers(n) /\ UNCHANGED <<site, num_scans, results>>
    <3>1. Marks(n)
      BY <2>5 DEF Mark, Marks
    <3> QED BY <1>2, <2>1, <2>3, <2>5, <3>1, TraverseMembersPreserves
  <2> QED BY <1>8, <2>4, <2>5
<1> QED BY <1>7, <1>8 DEF UseClassOfParm

LEMMA UseTemplateParmPreserves ==
  ASSUME IInv, UseTemplateParm
  PROVE  IInv'
<1> DEFINE t == NextItem.x
           r == Resugar
           news == <<AnItem("type", t), AnItem("instantiations", t)>>
           more == {NextItem}
<1>1. /\ IsNext("parm") /\ IsKnownTemplateParam(t, r) /\ frames' = Continue(news)
      /\ UNCHANGED <<cache, site, traversed_decls, reported, num_scans, affected, seen, tainted, results>>
  BY DEF UseTemplateParm, ghosts
<1>2. /\ Scanning /\ Top.items # <<>> /\ NextItem \in Items /\ NextItem.kind = "parm"
      /\ NextItem = AnItem("parm", t) /\ ScanType /\ r \in ResugarMaps
  BY <1>1, NextItemType
<1>3. t \in Types
  BY <1>2, ItemCases
<1>4. /\ AnItem("type", t) \in ItemsWithin /\ AnItem("instantiations", t) \in ItemsWithin
      /\ AnItem("type", t) \in Items /\ AnItem("instantiations", t) \in Items
  BY <1>3, AnItemType, AnItemFields DEF ItemsWithin
<1>5. /\ news \in Seq(Items) /\ Range(news) \subseteq ItemsWithin
      /\ Range(news) = {AnItem("type", t), AnItem("instantiations", t)}
  BY <1>4 DEF Range
<1>6. DirectUses(NextItem, r) = {} /\ After(NextItem, r) = Range(news)
  BY <1>1, <1>2, <1>5 DEF DirectUses, After
<1> HIDE DEF news
<1>7. \A item \in Range(news) : Uses({item}, r) \subseteq Uses({NextItem}, r)
  BY <1>2, <1>6, UsesOfNext
<1>8. Covers(more, news)
  BY <1>1, <1>2, <1>6 DEF Covers
<1>9. affected \subseteq DOMAIN frames /\ traversed_decls \subseteq Nodes
  BY <1>2 DEF ScanType
<1> HIDE DEF more
<1> QED BY <1>1, <1>2, <1>5, <1>7, <1>8, <1>9, PlainPreserves

(* A declaration is used: what is stored and reported is justified, and if *)
(* a template on the way provides it then it is not one that has to be.    *)
LEMMA ReportDeclUsePreserves ==
  ASSUME IInv, Scanning, Top.items # <<>>, NEW d \in DOMAIN DeclFile,
         NEW news \in Seq(Items), Range(news) \subseteq ItemsWithin,
         DirectUses(NextItem, Resugar) = {AnItem("decl", d)},
         After(NextItem, Resugar) = Range(news),
         ReportDeclUse(d, Continue(news)),
         UNCHANGED <<cache, site, traversed_decls, num_scans, affected, seen, tainted, results>>
  PROVE  IInv'
<1> DEFINE r == Resugar
           item == NextItem
           use == AnItem("decl", d)
           none == {}
           one == {d}
           more == {item}
<1>1. ScanType /\ TypeOK
  BY DEF IInv, TypeOK
<1>2. r \in ResugarMaps /\ item \in Items /\ affected \subseteq DOMAIN frames /\ traversed_decls \subseteq Nodes
  BY <1>1, TopType DEF ScanType
<1>3. \A i \in Range(news) : Uses({i}, r) \subseteq Uses({item}, r)
  BY <1>2, UsesOfNext
<1>4. use \in Uses({item}, r)
  BY <1>2, UsesOfItem
<1>5. CASE ProvidedByTemplate(d)
  <2>1. frames' = Continue(news) /\ reported' = reported
    BY <1>5 DEF ReportDeclUse
  <2>2. ~ProvidedByNone(d)
    <3>1. PICK i \in Providers(d) : TRUE
      BY <1>5 DEF ProvidedByTemplate
    <3>2. i \in DOMAIN frames /\ i # 1 /\ DeclFile[d] \in Provides[NodeInfo[frames[i].node].file]
      BY <1>1, <3>1, TopType DEF Providers
    <3>3. frames[i].node \in Nodes
      BY <1>1, <3>2, TopType
    <3> QED BY <3>2, <3>3 DEF ProvidedByNone
  <2>3. use \notin Kept
    BY <2>2, AnItemFields DEF Kept
  <2>4. DirectUses(item, r) \cap Kept = {}
    BY <2>3
  <2> HIDE DEF use
  <2>5. Covers(more, news)
    BY <1>2, <2>4 DEF Covers
  <2> HIDE DEF more
  <2> QED BY <1>1, <1>2, <1>3, <2>1, <2>5, PlainPreserves
<1>6. CASE ~ProvidedByTemplate(d)
  <2>1. frames' = Handled(frames, news, none, one) /\ reported' = reported \cup one
    <3>1. frames' = NoteReportedDecl(d, Continue(news)) /\ reported' = reported \cup {d}
      BY <1>6 DEF ReportDeclUse, UsesDecl
    <3> QED BY <1>1, <3>1, NotingHandled
  <2>2. none \in SUBSET Types /\ one \in SUBSET DOMAIN DeclFile
    OBVIOUS
  <2>3. {AnItem("type", t) : t \in none} \cup {AnItem("decl", c) : c \in one} = {use}
    OBVIOUS
  <2>4. d \in Reportable(Uses({item}, r))
    BY <1>4 DEF Reportable
  <2>5. one \subseteq Reportable(Uses({item}, r))
    BY <2>4
  <2>6. d \in one
    OBVIOUS
  <2> HIDE DEF none, one
  <2>7. Handles(news, none, one)
    BY <1>2, <2>1, <2>2 DEF Handles
  <2>8. Justified(news, none, one)
    BY <1>3, <1>4, <2>1, <2>3, <2>5 DEF Justified
  <2>9. ASSUME NEW i \in DOMAIN frames, i = 1 \/ frames[i].storing
        PROVE  use \in Recorded(i)'
    <3>1. CASE i = 1
      BY <2>1, <2>6, <3>1 DEF Recorded
    <3>2. CASE i # 1
      <4>1. frames'[i].decls = frames[i].decls \cup one
        BY <2>1, <2>9, <3>2 DEF Handled
      <4> QED BY <2>6, <3>2, <4>1 DEF Recorded, UsesOfEntry
    <3> QED BY <3>1, <3>2
  <2>10. Covers(more, news)
    <3>1. /\ more \in SUBSET Items /\ item \in more /\ traversed_decls' \ traversed_decls = {}
          /\ \A i \in more : i = item
      BY <1>2
    <3>2. ASSUME NEW i \in DOMAIN frames \ affected', i = 1 \/ frames[i].storing, NEW j \in more
          PROVE  /\ After(j, r) \subseteq more \cup Range(news)
                 /\ DirectUses(j, r) \cap Kept \subseteq Recorded(i)'
      <4>1. use \in Recorded(i)'
        BY <2>9, <3>2
      <4>2. j = item /\ DirectUses(item, r) = {use} /\ After(item, r) = Range(news)
        BY <3>1, <3>2
      <4> HIDE DEF use, item, more
      <4> QED BY <4>1, <4>2
    <3> HIDE DEF use, more
    <3> QED BY <3>1, <3>2 DEF Covers
  <2> HIDE DEF more
  <2> QED BY <2>7, <2>8, <2>10, CoveringPreserves
<1> QED BY <1>5, <1>6

LEMMA UseDeclPreserves ==
  ASSUME IInv, UseDecl
  PROVE  IInv'
<1> DEFINE d == NextItem.x
           news == <<>>
<1>1. /\ IsNext("decl") /\ ReportDeclUse(d, Continue(news))
      /\ UNCHANGED <<cache, site, traversed_decls, num_scans, affected, seen, tainted, results>>
  BY DEF UseDecl, ghosts
<1>2. /\ Scanning /\ Top.items # <<>> /\ NextItem \in Items /\ NextItem.kind = "decl"
      /\ NextItem = AnItem("decl", d)
  BY <1>1, NextItemType
<1>3. d \in DOMAIN DeclFile
  BY <1>2, ItemCases
<1>4. DirectUses(NextItem, Resugar) = {AnItem("decl", d)} /\ After(NextItem, Resugar) = {}
  BY <1>2 DEF DirectUses, After
<1>5. news \in Seq(Items) /\ Range(news) = {}
  BY DEF Range
<1> HIDE DEF news, d
<1> QED BY <1>1, <1>2, <1>3, <1>4, <1>5, ReportDeclUsePreserves

LEMMA CallFunctionPreserves ==
  ASSUME IInv, CallFunction
  PROVE  IInv'
<1> DEFINE n == NextItem.x
           d == NodeInfo[n].decl
           news == <<AnItem("function", n)>>
<1>1. /\ IsNext("call") /\ ReportDeclUse(d, Continue(news))
      /\ UNCHANGED <<cache, site, traversed_decls, num_scans, affected, seen, tainted, results>>
  BY DEF CallFunction, ghosts
<1>2. /\ Scanning /\ Top.items # <<>> /\ NextItem \in Items /\ NextItem.kind = "call"
      /\ NextItem = AnItem("call", n)
  BY <1>1, NextItemType
<1>3. n \in NodesOf("function") /\ n \in Nodes
  BY <1>2, ItemCases DEF NodesOf
<1>4. d \in DOMAIN DeclFile
  BY <1>3, NodesAssumption
<1>5. AnItem("function", n) \in Items /\ AnItem("function", n) \in ItemsWithin
  BY <1>3, AnItemType, AnItemFields DEF ItemsWithin
<1>6. news \in Seq(Items) /\ Range(news) = {AnItem("function", n)} /\ Range(news) \subseteq ItemsWithin
  BY <1>5 DEF Range
<1>7. DirectUses(NextItem, Resugar) = {AnItem("decl", d)} /\ After(NextItem, Resugar) = Range(news)
  BY <1>2, <1>6 DEF DirectUses, After
<1> HIDE DEF news, d
<1> QED BY <1>1, <1>2, <1>4, <1>6, <1>7, ReportDeclUsePreserves

LEMMA UseTypePreserves ==
  ASSUME IInv, UseType
  PROVE  IInv'
<1> DEFINE x == NextItem.x
           r == Resugar
           item == NextItem
           t == ResugarType(x, r)
           canonical == TypeInfo[t].canonical
           use == AnItem("type", t)
           news == Components(t)
           more == {item}
<1>1. /\ IsNext("type")
      /\ IF ~IsKnownTemplateParam(t, r)
         THEN frames' = Continue(<<>>) /\ UNCHANGED reported
         ELSE /\ frames' = IF IsBlocked(t) THEN Continue(news) ELSE NoteReportedType(t, Continue(news))
              /\ reported' = IF IsReported(t) THEN reported \cup {canonical} ELSE reported
      /\ affected' = IF IsKnownTemplateParam(t, r) /\ IsBlocked(t)
                     THEN affected \cup (2..Len(frames)) ELSE affected
      /\ UNCHANGED <<cache, site, traversed_decls, num_scans, seen, tainted, results>>
  BY DEF UseType
<1>2. /\ Scanning /\ Top.items # <<>> /\ item \in Items /\ item.kind = "type"
      /\ item = AnItem("type", x) /\ r \in ResugarMaps /\ ScanType /\ site \in Sites
  BY <1>1, NextItemType
<1>3. x \in Types
  BY <1>2, ItemCases
<1>4. /\ t \in Types /\ Components(t) = Components(x)
      /\ IsKnownTemplateParam(t, r) <=> IsKnownTemplateParam(x, r)
  BY <1>2, <1>3, ResugarTypeSame
<1>5. /\ DirectUses(item, r) = IF IsKnownTemplateParam(t, r) THEN {use} ELSE {}
      /\ After(item, r) = IF IsKnownTemplateParam(t, r) THEN Range(news) ELSE {}
  BY <1>2, <1>4 DEF DirectUses, After
<1>6. /\ affected \subseteq DOMAIN frames /\ traversed_decls \subseteq Nodes
      /\ Len(frames) \in Nat \ {0} /\ DOMAIN frames = 1..Len(frames)
  BY <1>2, TopType DEF ScanType
<1>7. news \in Seq(Items) /\ Range(news) \subseteq ItemsWithin
  BY <1>4, ComponentsType
<1>8. more \in SUBSET Items /\ item \in more /\ \A i \in more : i = item
  BY <1>2
<1> HIDE DEF more, news, use
<1>9. CASE ~IsKnownTemplateParam(t, r)
  <2> DEFINE nothing == <<>>
  <2>1. /\ frames' = Continue(nothing) /\ nothing \in Seq(Items) /\ Range(nothing) = {}
        /\ reported' = reported /\ affected' = affected
    BY <1>1, <1>9 DEF Range
  <2> HIDE DEF nothing
  <2>2. DirectUses(item, r) = {} /\ After(item, r) = {}
    BY <1>5, <1>9
  <2>3. Covers(more, nothing)
    BY <1>1, <1>8, <2>1, <2>2 DEF Covers
  <2> QED BY <1>1, <1>2, <1>6, <2>1, <2>3, PlainPreserves
<1>10. CASE IsKnownTemplateParam(t, r)
  <2>1. DirectUses(item, r) = {use} /\ After(item, r) = Range(news)
    BY <1>5, <1>10
  <2>2. \A i \in Range(news) : Uses({i}, r) \subseteq Uses({item}, r)
    BY <1>2, <2>1, UsesOfNext
  <2>3. use \in Uses({item}, r)
    BY <1>2, <2>1, UsesOfItem
  <2>4. canonical \in Reportable(Uses({item}, r))
    BY <1>4, <2>3 DEF Reportable, use
  <2>5. /\ reported \subseteq reported' /\ reported' \subseteq reported \cup Reportable(Uses({item}, r))
        /\ canonical \in reported' \cup site'.blocked_types \cup TypeInfo[t].provided
    BY <1>1, <1>10, <2>4 DEF IsReported
  <2>6. 1 \in DOMAIN frames => use \in Recorded(1)'
    BY <1>4, <2>5 DEF Recorded, use
  <2>7. CASE IsBlocked(t)
    <3>1. frames' = Continue(news) /\ affected' = affected \cup (2..Len(frames))
      BY <1>1, <1>10, <2>7
    <3>2. affected \subseteq affected' /\ affected' \subseteq DOMAIN frames
      BY <1>6, <3>1
    <3>3. \A i \in DOMAIN frames \ affected' : i = 1
      BY <1>6, <3>1
    <3>4. Covers(more, news)
      <4>1. \A i \in DOMAIN frames \ affected' : use \in Recorded(i)'
        BY <2>6, <3>3
      <4>2. traversed_decls' \ traversed_decls = {}
        BY <1>1
      <4> HIDE DEF item, r
      <4> QED BY <1>8, <2>1, <4>1, <4>2 DEF Covers, item, r
    <3> QED BY <1>1, <1>2, <1>6, <1>7, <2>2, <2>5, <3>1, <3>2, <3>4, PlainPreserves
  <2>8. CASE ~IsBlocked(t)
    <3> DEFINE none == {}
               one == {t}
    <3>1. frames' = Handled(frames, news, one, none) /\ affected' = affected
      <4>1. frames' = NoteReportedType(t, Continue(news)) /\ affected' = affected
        BY <1>1, <1>10, <2>8
      <4> QED BY <1>2, <4>1, NotingHandled
    <3>2. none \in SUBSET DOMAIN DeclFile /\ one \in SUBSET Types /\ t \in one
      BY <1>4
    <3>3. {AnItem("type", u) : u \in one} \cup {AnItem("decl", d) : d \in none} = {use}
      BY DEF use
    <3> HIDE DEF none, one
    <3>4. Handles(news, one, none)
      BY <1>1, <1>2, <1>6, <1>7, <2>5, <3>1, <3>2 DEF Handles
    <3>5. Justified(news, one, none)
      BY <2>2, <2>3, <2>5, <3>3 DEF Justified
    <3>6. ASSUME NEW i \in DOMAIN frames, i = 1 \/ frames[i].storing
          PROVE  use \in Recorded(i)'
      <4>1. CASE i = 1
        BY <2>6, <4>1
      <4>2. CASE i # 1
        <5>1. frames'[i].types = frames[i].types \cup one
          BY <3>1, <3>6, <4>2 DEF Handled
        <5> HIDE DEF t
        <5> QED BY <3>2, <4>2, <5>1 DEF Recorded, UsesOfEntry, use
      <4> QED BY <4>1, <4>2
    <3>7. Covers(more, news)
      <4>1. traversed_decls' \ traversed_decls = {}
        BY <1>1
      <4> HIDE DEF item, r
      <4> QED BY <1>8, <2>1, <3>6, <4>1 DEF Covers, item, r
    <3> QED BY <3>4, <3>5, <3>7, CoveringPreserves
  <2> QED BY <2>7, <2>8
<1> QED BY <1>9, <1>10

LEMMA BestInstantiationType ==
  ASSUME NEW T, NEW insts \in Seq(T), BestInstantiation(insts) # <<>>
  PROVE  \E i \in Range(insts) : BestInstantiation(insts)[1] = i.decl
<1> DEFINE before == {i \in DOMAIN insts : insts[i].position < site.position}
           here == {i \in before : DeclFile[insts[i].decl] = site.file}
           declarations == {i \in before : ~insts[i].definition}
           best == IF here # {} THEN here ELSE IF declarations # {} THEN declarations ELSE before
<1>1. BestInstantiation(insts) = IF best = {} THEN <<>> ELSE <<insts[Min(best)].decl>>
  BY DEF BestInstantiation
<1>2. best \subseteq DOMAIN insts /\ DOMAIN insts \subseteq Nat
  BY SequenceFields
<1> HIDE DEF best
<1>3. best # {} /\ best \subseteq Nat
  BY <1>1, <1>2
<1>4. PICK least \in best : \A n \in best : least <= n
  BY <1>3, LeastNumber
<1>5. Min(best) \in best
  BY <1>4 DEF Min
<1>6. insts[Min(best)] \in Range(insts)
  BY <1>2, <1>5 DEF Range
<1> QED BY <1>1, <1>3, <1>6

LEMMA ReportExplicitInstantiationsPreserves ==
  ASSUME IInv, ReportExplicitInstantiations
  PROVE  IInv'
<1> DEFINE t == NextItem.x
           r == Resugar
           item == NextItem
           insts == TypeInfo[TypeInfo[t].canonical].instantiations
           best == BestInstantiation(insts)
           news == <<>>
           more == {item}
<1>1. /\ IsNext("instantiations") /\ frames' = Continue(news)
      /\ reported' = reported \/ (best # <<>> /\ reported' = reported \cup {best[1]})
      /\ UNCHANGED <<cache, site, traversed_decls, num_scans, affected, seen, tainted, results>>
  BY DEF ReportExplicitInstantiations, ghosts, UsesDecl
<1>2. /\ Scanning /\ Top.items # <<>> /\ item \in Items /\ item.kind = "instantiations"
      /\ item = AnItem("instantiations", t) /\ r \in ResugarMaps /\ ScanType
  BY <1>1, NextItemType
<1>3. t \in Types
  BY <1>2, ItemCases
<1>4. DirectUses(item, r) = {item} /\ After(item, r) = {}
  BY <1>2 DEF DirectUses, After
<1>5. item \in Uses({item}, r)
  BY <1>2, <1>4, UsesOfItem
<1>6. best # <<>> => best[1] \in Reportable(Uses({item}, r))
  <2> SUFFICES ASSUME best # <<>> PROVE best[1] \in Reportable(Uses({item}, r))
    OBVIOUS
  <2>1. insts \in Seq([decl : DOMAIN DeclFile, position : Nat, definition : BOOLEAN])
    BY <1>3, TypesAssumption
  <2>2. \E i \in Range(insts) : best[1] = i.decl
    <3> DEFINE T == [decl : DOMAIN DeclFile, position : Nat, definition : BOOLEAN]
    <3>1. insts \in Seq(T)
      BY <2>1
    <3> HIDE DEF T, insts
    <3> QED BY <3>1, BestInstantiationType
  <2>3. best[1] \in {i.decl : i \in Range(insts)}
    BY <2>2
  <2>4. t \in {u \in Types : AnItem("instantiations", u) \in Uses({item}, r)}
    BY <1>2, <1>3, <1>5
  <2> HIDE DEF best
  <2> QED BY <2>3, <2>4 DEF Reportable
<1>7. news \in Seq(Items) /\ Range(news) = {}
  BY DEF Range
<1> HIDE DEF best, news
<1>8. DirectUses(item, r) \cap Kept = {}
  BY <1>2, <1>4, AnItemFields DEF Kept
<1>9. Covers(more, news)
  BY <1>1, <1>2, <1>4, <1>8 DEF Covers
<1>10. affected \subseteq DOMAIN frames /\ traversed_decls \subseteq Nodes
  BY <1>2 DEF ScanType
<1> HIDE DEF more
<1> QED BY <1>1, <1>2, <1>6, <1>7, <1>9, <1>10, PlainPreserves

-----------------------------------------------------------------------------
(* Every step preserves the invariant.                                     *)
LEMMA StutteringPreserves ==
  ASSUME IInv, UNCHANGED vars
  PROVE  IInv'
<1>1. UNCHANGED <<cache, site, traversed_decls, frames, reported, num_scans,
                  affected, seen, tainted, results>>
  BY DEF vars
<1>2. TypeOK' /\ MembersFirst'
  BY <1>1 DEF IInv, TypeOK, CacheType, ScanType, MembersFirst, Scanning
<1>3. NodesOnce'
  BY <1>1 DEF IInv, NodesOnce, NoNodeWithinItself, StartsAt
<1>4. CacheSound' /\ CacheComplete' /\ ResultsComplete'
  BY <1>1 DEF IInv, CacheSound, CacheComplete, ResultsComplete
<1>5. /\ Resugar' = Resugar /\ (Scanning <=> Scanning')
      /\ \A i : Entry(i)' = Entry(i)
      /\ \A i : Remaining(i)' = Remaining(i)
      /\ \A i : Recorded(i)' = Recorded(i)
  BY <1>1 DEF Resugar, Scanning, Entry, Remaining, Recorded
<1>6. ScanSound'
  BY <1>1, <1>5 DEF IInv, ScanSound
<1>7. ScanComplete'
  BY <1>1, <1>5 DEF IInv, ScanComplete
<1> QED BY <1>2, <1>3, <1>4, <1>6, <1>7 DEF IInv

LEMMA NextPreserves == IInv /\ [Next]_vars => IInv'
<1> SUFFICES ASSUME IInv, [Next]_vars PROVE IInv'
  OBVIOUS
<1>1. ASSUME NEW s \in Sites, StartScan(s) PROVE IInv'
  BY <1>1, StartScanPreserves
<1>2. CASE UseDecl
  BY <1>2, UseDeclPreserves
<1>3. CASE CallFunction
  BY <1>3, CallFunctionPreserves
<1>4. CASE UseType
  BY <1>4, UseTypePreserves
<1>5. CASE UseTemplateParm
  BY <1>5, UseTemplateParmPreserves
<1>6. CASE UseClassOfParm
  BY <1>6, UseClassOfParmPreserves
<1>7. CASE ReportExplicitInstantiations
  BY <1>7, ReportExplicitInstantiationsPreserves
<1>8. CASE TraverseExpandedTemplateFunction
  BY <1>8, TraverseFunctionPreserves
<1>9. CASE TraverseExpandedTemplateVariable
  BY <1>9, TraverseVariablePreserves
<1>10. CASE TraverseDataAndTypeMembersOfClass
  BY <1>10, TraverseClassPreserves
<1>11. CASE ScanClass
  BY <1>11, ScanClassPreserves
<1>12. CASE Leave
  BY <1>12, LeavePreserves
<1>13. CASE EndScan
  BY <1>13, EndScanPreserves
<1>14. CASE UNCHANGED vars
  BY <1>14, StutteringPreserves
<1> QED BY <1>1, <1>2, <1>3, <1>4, <1>5, <1>6, <1>7, <1>8, <1>9, <1>10, <1>11, <1>12,
           <1>13, <1>14 DEF Next

(* What is kept is sound and, unless affected, complete, and so is what    *)
(* every scan has done about what it has searched.                         *)
THEOREM InductiveInvariant == Spec => []IInv
<1>1. Init => IInv
  BY InitiallyHolds
<1>2. IInv /\ [Next]_vars => IInv'
  BY NextPreserves
<1> QED BY <1>1, <1>2, PTL DEF Spec

-----------------------------------------------------------------------------
(* What the invariant means for the properties.                            *)
LEMMA KeyOfCache ==
  ASSUME TypeOK, NEW key \in DOMAIN cache
  PROVE  LET n == key[1]
             r == key[2]
         IN  /\ n \in Nodes /\ r \in ResugarMaps
             /\ {EntryItem(n)} \in SUBSET Items
             /\ BelowNode[n][r] = Below({EntryItem(n)}, r)
<1> DEFINE n == key[1]
           r == key[2]
<1>1. key \in Nodes \X ResugarMaps
  BY DEF TypeOK, CacheType
<1>2. n \in Nodes /\ r \in ResugarMaps
  BY <1>1
<1>3. EntryItem(n) \in Items
  BY <1>2, EntryItemType
<1>4. BelowNode[n][r] = Below({EntryItem(n)}, r)
  BY <1>2 DEF BelowNode, ResugarMaps
<1> QED BY <1>2, <1>3, <1>4

LEMMA NothingInventedHolds == IInv => NothingInvented
<1> SUFFICES ASSUME IInv PROVE NothingInvented
  OBVIOUS
<1>1. ASSUME NEW key \in DOMAIN cache
      PROVE  /\ cache[key].types \subseteq TypesUsed(BelowNode[key[1]][key[2]], key[2])
             /\ cache[key].decls \subseteq DeclsUsed(BelowNode[key[1]][key[2]])
  <2> DEFINE r == key[2]
             start == {EntryItem(key[1])}
             below == BelowNode[key[1]][r]
  <2>1. r \in ResugarMaps /\ start \in SUBSET Items /\ below = Below(start, r)
    BY KeyOfCache DEF IInv
  <2>2. UsesOfEntry(cache[key]) \subseteq Uses(start, r)
    BY DEF IInv, CacheSound
  <2>3. \A t \in cache[key].types : AnItem("type", t) \in Uses(start, r)
    BY <2>2 DEF UsesOfEntry
  <2>4. \A d \in cache[key].decls : AnItem("decl", d) \in Uses(start, r)
    BY <2>2 DEF UsesOfEntry
  <2> HIDE DEF r, start, below
  <2>5. \A t \in cache[key].types : t \in TypesUsed(below, r)
    BY <2>1, <2>3, UsedTypes
  <2>6. \A d \in cache[key].decls : d \in DeclsUsed(below)
    BY <2>1, <2>4, UsedDecls
  <2> QED BY <2>5, <2>6 DEF below, r
<1>2. ASSUME Scanning, NEW x \in reported
      PROVE  \/ \E t \in TypesUsed(BelowSite[site], Resugar) : x = TypeInfo[t].canonical
             \/ x \in DeclsUsed(BelowSite[site]) \cup Instantiations(BelowSite[site])
  <2> DEFINE r == Resugar
             start == Range(site.items)
             below == BelowSite[site]
             uses == Uses(start, r)
  <2>1. site \in Sites
    BY <1>2 DEF IInv, TypeOK, ScanType
  <2>2. start \in SUBSET Items /\ r \in ResugarMaps /\ below = Below(start, r)
    BY <2>1, SiteItems DEF BelowSite, Resugar
  <2>3. x \in Reportable(uses)
    BY <1>2 DEF IInv, ScanSound, Entry
  <2> HIDE DEF r, start, below
  <2>4. CASE \E t \in Types : AnItem("type", t) \in uses /\ x = TypeInfo[t].canonical
    BY <2>2, <2>4, UsedTypes DEF below, r
  <2>5. CASE x \in DOMAIN DeclFile /\ AnItem("decl", x) \in uses
    <3>1. x \in DeclsUsed(below)
      BY <2>2, <2>5, UsedDecls
    <3> QED BY <3>1 DEF below
  <2>6. ASSUME NEW t \in Types, AnItem("instantiations", t) \in uses,
               x \in {i.decl : i \in Range(TypeInfo[TypeInfo[t].canonical].instantiations)}
        PROVE  x \in Instantiations(BelowSite[site])
    <3>1. {i.decl : i \in Range(TypeInfo[TypeInfo[t].canonical].instantiations)}
             \subseteq Instantiations(below)
      BY <2>2, <2>6, UsedInstantiations
    <3> QED BY <2>6, <3>1 DEF below
  <2> QED BY <2>3, <2>4, <2>5, <2>6 DEF Reportable
<1> QED BY <1>1, <1>2 DEF NothingInvented

LEMMA CompleteUnlessAffectedHolds == IInv => CompleteUnlessAffected
<1> SUFFICES ASSUME IInv PROVE CompleteUnlessAffected
  OBVIOUS
<1>1. ASSUME NEW key \in DOMAIN cache \ tainted
      PROVE  /\ TypesUsed(BelowNode[key[1]][key[2]], key[2]) \subseteq cache[key].types
             /\ {d \in DeclsUsed(BelowNode[key[1]][key[2]]) : ProvidedByNone(d)}
                  \subseteq cache[key].decls
  <2> DEFINE r == key[2]
             start == {EntryItem(key[1])}
             below == BelowNode[key[1]][r]
             uses == Uses(start, r)
  <2>1. r \in ResugarMaps /\ start \in SUBSET Items /\ below = Below(start, r)
    BY KeyOfCache DEF IInv
  <2>2. uses \cap Kept \subseteq UsesOfEntry(cache[key])
    BY DEF IInv, CacheComplete
  <2> HIDE DEF r, start, below
  <2>3. uses \subseteq Items
    BY <2>1, UsesType
  <2>4. \A t \in TypesUsed(below, r) : AnItem("type", t) \in uses
    BY <2>1, UsedTypes
  <2>5. \A d \in DeclsUsed(below) : AnItem("decl", d) \in uses
    BY <2>1, UsedDecls
  <2> HIDE DEF uses
  <2>6. ASSUME NEW t \in TypesUsed(below, r) PROVE t \in cache[key].types
    <3>1. AnItem("type", t) \in uses /\ t \in Types
      BY <2>3, <2>4, ItemCases, AnItemFields
    <3>2. AnItem("type", t) \in UsesOfEntry(cache[key])
      BY <2>2, <3>1 DEF Kept
    <3> QED BY <3>2, AnItemFields DEF UsesOfEntry
  <2>7. ASSUME NEW d \in DeclsUsed(below), ProvidedByNone(d) PROVE d \in cache[key].decls
    <3>1. AnItem("decl", d) \in uses /\ d \in DOMAIN DeclFile
      BY <2>3, <2>5, ItemCases, AnItemFields
    <3>2. AnItem("decl", d) \in UsesOfEntry(cache[key])
      BY <2>2, <2>7, <3>1 DEF Kept
    <3> QED BY <3>2, AnItemFields DEF UsesOfEntry
  <2> QED BY <2>6, <2>7 DEF below, r
<1>2. ResultsComplete
  BY DEF IInv
<1> QED BY <1>1, <1>2 DEF CompleteUnlessAffected, ResultsComplete

(* The state of the scan and of the cache is what the code keeps: frames   *)
(* of nodes with what is below them, and entries for nodes.                *)
THEOREM TypeCorrect == Spec => []TypeOK
<1>1. IInv => TypeOK
  BY DEF IInv
<1> QED BY <1>1, InductiveInvariant, PTL

(* FullUseCache: no entry holds, and no scan reports, what the node or the *)
(* site does not use, however scans and replays follow each other.         *)
THEOREM NothingInventedAlways == Spec => []NothingInvented
<1> QED BY NothingInventedHolds, InductiveInvariant, PTL

(* FullUseCache: an entry or a scan is without a use that is due only if   *)
(* its search met a node it had passed, or a blocked type, or an entry for *)
(* which that is so.                                                       *)
THEOREM CompleteUnlessAffectedAlways == Spec => []CompleteUnlessAffected
<1> QED BY CompleteUnlessAffectedHolds, InductiveInvariant, PTL

(* traversed_decls_: the search of a node never starts again within it,    *)
(* but for the class that the scan starts from.                            *)
THEOREM NoNodeWithinItselfAlways == Spec => []NoNodeWithinItself
<1>1. IInv => NoNodeWithinItself
  BY DEF IInv, NodesOnce
<1> QED BY <1>1, InductiveInvariant, PTL
=============================================================================
