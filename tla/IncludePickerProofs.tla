------------------------ MODULE IncludePickerProofs ------------------------
(* Theorems about the IncludePicker, for any calls.                        *)
EXTENDS IncludePicker, RecursionLemmas

-----------------------------------------------------------------------------
(* ExpandOnce. *)
NamesIn(values) == {v.quoted_include : v \in Range(values)}

LEMMA NamesOfAppended ==
  ASSUME NEW S, NEW values \in Seq(S), NEW value \in S
  PROVE  /\ Append(values, value) \in Seq(S)
         /\ NamesIn(Append(values, value)) = NamesIn(values) \cup {value.quoted_include}
         /\ Len(Append(values, value)) # 0
         /\ Len(values) # 0 => Append(values, value)[1] = values[1]
         /\ Len(values) = 0 => Append(values, value)[1] = value
<1>1. Append(values, value) = values \o <<value>> /\ <<value>> \in Seq(S)
  OBVIOUS
<1>2. Range(<<value>>) = {value}
  BY DEF Range
<1>3. Range(values \o <<value>>) = Range(values) \cup Range(<<value>>)
  BY <1>1, RangeJoined
<1>4. NamesIn(Append(values, value)) = NamesIn(values) \cup {value.quoted_include}
  BY <1>1, <1>2, <1>3 DEF NamesIn
<1> QED BY <1>4

LEMMA FirstOfEachKeepsNames ==
  ASSUME NEW S, NEW values \in Seq(S)
  PROVE  /\ FirstOfEach(values) \in Seq(S)
         /\ NamesIn(FirstOfEach(values)) = NamesIn(values)
         /\ Len(values) # 0 => /\ Len(FirstOfEach(values)) # 0
                               /\ FirstOfEach(values)[1] = values[1]
<1> DEFINE IsFirst(i) == \A j \in 1 .. i - 1 :
                            values[j].quoted_include # values[i].quoted_include
           U == S \cup {values[n] : n \in Nat}
           T == Seq(U)
           Step == [a \in Nat \X T |-> IF IsFirst(a[1] + 1)
                                       THEN Append(a[2], values[a[1] + 1]) ELSE a[2]]
           Stages(f) == [n \in Nat |-> IF n = 0 THEN <<>>
                                       ELSE IF IsFirst(n) THEN Append(f[n - 1], values[n])
                                       ELSE f[n - 1]]
           kept == CHOOSE f : f = Stages(f)
           len == Len(values)
<1>1. len \in Nat /\ DOMAIN values = 1..len /\ \A i \in 1..len : values[i] \in S
  OBVIOUS
<1>2. PICK f \in [Nat -> T] : f[0] = <<>> /\ \A n \in Nat : f[n + 1] = Step[<<n, f[n]>>]
  <2> DEFINE start == <<>>
  <2>1. ASSUME NEW n \in Nat, NEW s \in T PROVE Step[<<n, s>>] \in T
    <3>1. Step[<<n, s>>] = IF IsFirst(n + 1) THEN Append(s, values[n + 1]) ELSE s
      OBVIOUS
    <3>2. values[n + 1] \in U
      OBVIOUS
    <3>3. s \in Seq(U)
      OBVIOUS
    <3> HIDE DEF Step, IsFirst, U
    <3>4. Append(s, values[n + 1]) \in Seq(U)
      BY <3>2, <3>3
    <3> QED BY <3>1, <3>3, <3>4
  <2>2. start \in T
    OBVIOUS
  <2> HIDE DEF Step, T, start
  <2>3. IsRecursion(start, Step, T)
    BY <2>1, <2>2 DEF IsRecursion
  <2>4. \E f \in [Nat -> T] : f[0] = start /\ \A n \in Nat : f[n + 1] = Step[<<n, f[n]>>]
    BY <2>3, Recursion
  <2> QED BY <2>4 DEF start
<1>3. f = Stages(f)
  <2>1. ASSUME NEW n \in Nat, n # 0
        PROVE  f[n] = IF IsFirst(n) THEN Append(f[n - 1], values[n]) ELSE f[n - 1]
    <3>1. n - 1 \in Nat /\ n = (n - 1) + 1
      BY <2>1
    <3>2. f[n - 1] \in T
      BY <1>2, <3>1
    <3>3. Step[<<n - 1, f[n - 1]>>]
            = IF IsFirst((n - 1) + 1) THEN Append(f[n - 1], values[(n - 1) + 1])
              ELSE f[n - 1]
      BY <3>1, <3>2
    <3>4. f[(n - 1) + 1] = Step[<<n - 1, f[n - 1]>>]
      BY <1>2, <3>1
    <3> HIDE DEF Step, IsFirst, T
    <3> QED BY <3>1, <3>3, <3>4
  <2>2. f = [n \in Nat |-> f[n]]
    BY <1>2
  <2> HIDE DEF Step, IsFirst, T
  <2> QED BY <1>2, <2>1, <2>2
<1>4. kept = Stages(kept)
  <2> HIDE DEF Stages
  <2> QED BY <1>3
<1>5. FirstOfEach(values) = kept[len]
  BY DEF FirstOfEach
<1> HIDE DEF kept
<1>6. kept[0] = <<>>
  BY <1>4
<1>7. ASSUME NEW n \in Nat
      PROVE  kept[n + 1] = IF IsFirst(n + 1) THEN Append(kept[n], values[n + 1])
                           ELSE kept[n]
  <2>1. n + 1 \in Nat /\ n + 1 # 0 /\ (n + 1) - 1 = n
    OBVIOUS
  <2> HIDE DEF IsFirst
  <2> QED BY <1>4, <2>1
<1> DEFINE Before(n) == {values[j].quoted_include : j \in 1..n}
           Good(n) == /\ kept[n] \in Seq(S)
                      /\ NamesIn(kept[n]) = Before(n)
                      /\ n # 0 => Len(kept[n]) # 0 /\ kept[n][1] = values[1]
           holds == {n \in Nat : n <= len => Good(n)}
<1>8. 0 \in holds
  <2>1. NamesIn(<<>>) = {} /\ Before(0) = {}
    BY DEF NamesIn, Range
  <2>2. Good(0)
    <3> DEFINE none == kept[0]
    <3>1. none \in Seq(S) /\ NamesIn(none) = Before(0)
      BY <1>6, <2>1
    <3> QED BY <3>1
  <2> QED BY <2>2
<1>9. ASSUME NEW n \in holds PROVE n + 1 \in holds
  <2> SUFFICES ASSUME n + 1 <= len PROVE Good(n + 1)
    OBVIOUS
  <2>1. n \in Nat /\ n <= len /\ n + 1 \in 1..len /\ values[n + 1] \in S
    BY <1>1
  <2>2. Good(n)
    BY <2>1
  <2>3. Before(n + 1) = Before(n) \cup {values[n + 1].quoted_include}
    <3>1. 1 .. n + 1 = (1..n) \cup {n + 1}
      BY <2>1
    <3> QED BY <3>1
  <2>4. n = 0 => IsFirst(n + 1) /\ Len(kept[n]) = 0
    BY <1>6, <2>1
  <2>5. CASE IsFirst(n + 1)
    <3>1. kept[n + 1] = Append(kept[n], values[n + 1])
      BY <1>7, <2>1, <2>5
    <3> DEFINE s == kept[n]
               v == values[n + 1]
    <3>2. s \in Seq(S) /\ v \in S
      BY <2>1, <2>2
    <3> HIDE DEF s, v
    <3>3. /\ Append(s, v) \in Seq(S)
          /\ NamesIn(Append(s, v)) = NamesIn(s) \cup {v.quoted_include}
          /\ Len(Append(s, v)) # 0
          /\ Len(s) # 0 => Append(s, v)[1] = s[1]
          /\ Len(s) = 0 => Append(s, v)[1] = v
      BY <3>2, NamesOfAppended
    <3> HIDE DEF Before, IsFirst
    <3> QED BY <2>1, <2>2, <2>3, <2>4, <3>1, <3>3 DEF s, v
  <2>6. CASE ~IsFirst(n + 1)
    <3>1. kept[n + 1] = kept[n] /\ n # 0
      BY <1>7, <2>1, <2>4, <2>6
    <3>2. values[n + 1].quoted_include \in Before(n)
      BY <2>1, <2>6
    <3> HIDE DEF Before, IsFirst
    <3> QED BY <2>2, <2>3, <3>1, <3>2
  <2> QED BY <2>5, <2>6
<1>10. holds = Nat
  <2>1. holds \in SUBSET Nat
    OBVIOUS
  <2> HIDE DEF holds
  <2> QED BY <1>8, <1>9, <2>1, Induction
<1>11. Good(len)
  <2>1. len \in holds /\ len <= len
    <3> HIDE DEF holds, len
    <3> QED BY <1>1, <1>10
  <2> HIDE DEF Good
  <2> QED BY <2>1
<1>12. Before(len) = NamesIn(values)
  BY <1>1 DEF NamesIn, Range
<1> QED BY <1>5, <1>11, <1>12

(* What a mapping may map to. *)
Paths == {NoPath} \cup {i.includer : i \in DirectIncludes}
Mapped == [quoted_include : Keys, path : Paths]

MapOK(m) ==
  /\ DOMAIN m \subseteq Keys
  /\ \A k \in DOMAIN m : m[k] \in Seq(Mapped) /\ Len(m[k]) # 0

LEMMA TargetsAre ==
  ASSUME NEW m, NEW k
  PROVE  Targets(m, k) = IF k \in DOMAIN m THEN NamesIn(m[k]) ELSE {}
<1>1. Range(<<>>) = {}
  BY DEF Range
<1> QED BY <1>1 DEF Targets, ValuesOf, FindInMap, NamesIn

LEMMA ValuesAreMapped ==
  ASSUME NEW m, MapOK(m), NEW k
  PROVE  ValuesOf(m, k) \in Seq(Mapped)
BY DEF MapOK, ValuesOf, FindInMap

LEMMA NamesOfRange ==
  ASSUME NEW S, NEW values \in Seq(S)
  PROVE  /\ NamesIn(values) = {values[i].quoted_include : i \in DOMAIN values}
         /\ DOMAIN values = 1 .. Len(values) /\ Len(values) \in Nat
BY DEF NamesIn, Range

LEMMA NamesOfSeq ==
  ASSUME NEW values \in Seq(Mapped)
  PROVE  NamesIn(values) \subseteq Keys
<1>1. Range(values) \subseteq Mapped
  BY DEF Range
<1> QED BY <1>1 DEF NamesIn, Mapped

LEMMA ExpandOnceAddsChildren ==
  ASSUME NEW m, MapOK(m), NEW nodes \in Seq(Mapped)
  PROVE  /\ ExpandOnce(m, nodes) \in Seq(Mapped)
         /\ NamesIn(ExpandOnce(m, nodes))
              = NamesIn(nodes) \cup UNION {Targets(m, k) : k \in NamesIn(nodes)}
         /\ Len(nodes) # 0 => /\ Len(ExpandOnce(m, nodes)) # 0
                              /\ ExpandOnce(m, nodes)[1] = nodes[1]
<1> DEFINE Group(i) == <<nodes[i]>> \o ValuesOf(m, nodes[i].quoted_include)
           groups == [i \in DOMAIN nodes |-> Group(i)]
           flat == FlattenSeq(groups)
<1>1. /\ Len(nodes) \in Nat /\ DOMAIN nodes = 1 .. Len(nodes)
      /\ \A i \in DOMAIN nodes : nodes[i] \in Mapped
  OBVIOUS
<1>2. ASSUME NEW i \in DOMAIN nodes
      PROVE  /\ Group(i) \in Seq(Mapped) /\ Len(Group(i)) # 0 /\ Group(i)[1] = nodes[i]
             /\ Range(Group(i)) = {nodes[i]} \cup Range(ValuesOf(m, nodes[i].quoted_include))
  <2> DEFINE node == nodes[i]
             children == ValuesOf(m, node.quoted_include)
  <2>1. children \in Seq(Mapped) /\ node \in Mapped
    BY <1>1, ValuesAreMapped
  <2> HIDE DEF children, node
  <2>2. <<node>> \in Seq(Mapped)
    BY <2>1
  <2>3. Range(<<node>> \o children) = Range(<<node>>) \cup Range(children)
    BY <2>1, <2>2, RangeJoined
  <2>4. Range(<<node>>) = {node}
    BY DEF Range
  <2>5. /\ <<node>> \o children \in Seq(Mapped)
        /\ Len(<<node>> \o children) # 0
        /\ (<<node>> \o children)[1] = node
    BY <2>1
  <2> QED BY <2>3, <2>4, <2>5 DEF node, children
<1>3. groups \in Seq(Seq(Mapped)) /\ Len(groups) = Len(nodes) /\ DOMAIN groups = DOMAIN nodes
  <2> DEFINE T == Seq(Mapped)
  <2>1. groups \in [1 .. Len(nodes) -> T]
    <3> HIDE DEF Group
    <3> QED BY <1>1, <1>2
  <2> HIDE DEF T, Group, groups
  <2>2. groups \in Seq(T) /\ Len(groups) = Len(nodes) /\ DOMAIN groups = 1 .. Len(nodes)
    BY <1>1, <2>1
  <2> QED BY <1>1, <2>2 DEF T
<1>4. \A i \in DOMAIN nodes : groups[i] = Group(i)
  OBVIOUS
<1> HIDE DEF groups
<1>5. flat \in Seq(Mapped) /\ Range(flat) = UNION {Range(groups[i]) : i \in DOMAIN nodes}
  BY <1>3, FlattenSeqType, FlattenSeqRange
<1>6. Len(nodes) # 0 => Len(flat) # 0 /\ flat[1] = nodes[1]
  <2> SUFFICES ASSUME Len(nodes) # 0 PROVE Len(flat) # 0 /\ flat[1] = nodes[1]
    OBVIOUS
  <2>1. 1 \in DOMAIN nodes
    BY <1>1
  <2>2. Len(groups[1]) # 0 /\ groups[1][1] = nodes[1]
    <3> HIDE DEF Group
    <3> QED BY <1>2, <1>4, <2>1
  <2> QED BY <1>3, <2>2, FlattenSeqFirst
<1>7. ExpandOnce(m, nodes) = FirstOfEach(flat)
  BY DEF ExpandOnce, groups
<1> HIDE DEF flat
<1>8. /\ FirstOfEach(flat) \in Seq(Mapped)
      /\ NamesIn(FirstOfEach(flat)) = NamesIn(flat)
      /\ Len(flat) # 0 => Len(FirstOfEach(flat)) # 0 /\ FirstOfEach(flat)[1] = flat[1]
  BY <1>5, FirstOfEachKeepsNames
<1>9. NamesIn(flat) = NamesIn(nodes) \cup UNION {Targets(m, k) : k \in NamesIn(nodes)}
  <2>1. \A i \in DOMAIN nodes : {v.quoted_include : v \in Range(groups[i])}
           = {nodes[i].quoted_include} \cup Targets(m, nodes[i].quoted_include)
    <3> HIDE DEF Group
    <3>1. \A i \in DOMAIN nodes : Range(groups[i])
             = {nodes[i]} \cup Range(ValuesOf(m, nodes[i].quoted_include))
      BY <1>2, <1>4
    <3> QED BY <3>1 DEF Targets
  <2>2. NamesIn(nodes) = {nodes[i].quoted_include : i \in DOMAIN nodes}
    BY DEF NamesIn, Range
  <2> HIDE DEF Group
  <2>3. \A x : x \in NamesIn(flat) <=>
            \E i \in DOMAIN nodes : x \in {v.quoted_include : v \in Range(groups[i])}
    BY <1>5 DEF NamesIn
  <2>4. \A x : x \in NamesIn(flat) <=>
            \E i \in DOMAIN nodes : x = nodes[i].quoted_include
                                   \/ x \in Targets(m, nodes[i].quoted_include)
    BY <2>1, <2>3
  <2> DEFINE Both == NamesIn(nodes) \cup UNION {Targets(m, k) : k \in NamesIn(nodes)}
  <2>5. \A x : x \in Both <=>
            \E i \in DOMAIN nodes : x = nodes[i].quoted_include
                                   \/ x \in Targets(m, nodes[i].quoted_include)
    BY <2>2
  <2> HIDE DEF Both
  <2>6. NamesIn(flat) = Both
    BY <2>4, <2>5
  <2> QED BY <2>6 DEF Both
<1> QED BY <1>6, <1>7, <1>8, <1>9
-----------------------------------------------------------------------------
(* What the methods do to the maps of includes and symbols, and what they  *)
(* leave alone.                                                            *)
PickerFields ==
  {"filepath_include_map", "symbol_maps", "include_visibility_map",
   "path_visibility_map", "quoted_includes", "include_as_written",
   "friend_to_headers_map", "aborted"}

MapFields == {"filepath_include_map", "symbol_maps", "quoted_includes"}

SeenNames == {NameOf(i.includee) : i \in DirectIncludes}

PickerOK(p) ==
  /\ DOMAIN p = PickerFields
  /\ MapOK(p.filepath_include_map)
  /\ \A s \in DOMAIN p.symbol_maps : p.symbol_maps[s] \in Seq(Mapped)
  /\ p.quoted_includes \subseteq SeenNames

MapGrows(m, more) ==
  /\ DOMAIN m \subseteq DOMAIN more
  /\ \A k \in Keys : Targets(m, k) \subseteq Targets(more, k)

Grows(p, more) ==
  /\ PickerOK(more)
  /\ MapGrows(p.filepath_include_map, more.filepath_include_map)

SameOutside(p, more, fields) ==
  /\ DOMAIN more = DOMAIN p
  /\ \A f \in PickerFields \ fields : more[f] = p[f]

LEMMA GrowsTwice ==
  ASSUME NEW p, NEW more, NEW most, Grows(p, more), Grows(more, most)
  PROVE  Grows(p, most)
BY DEF Grows, MapGrows

LEMMA SameMapsGrow ==
  ASSUME NEW p, PickerOK(p), NEW more, SameOutside(p, more, PickerFields \ MapFields)
  PROVE  Grows(p, more)
<1>1. /\ more.filepath_include_map = p.filepath_include_map
      /\ more.symbol_maps = p.symbol_maps
      /\ more.quoted_includes = p.quoted_includes
      /\ DOMAIN more = DOMAIN p
  BY DEF SameOutside, PickerFields, MapFields
<1> QED BY <1>1 DEF PickerOK, Grows, MapGrows

LEMMA MarkVisibilitySame ==
  ASSUME NEW p, DOMAIN p = PickerFields, NEW key, NEW visibility
  PROVE  SameOutside(p, MarkVisibility(p, key, visibility),
                     {"include_visibility_map", "aborted"})
BY DEF SameOutside, MarkVisibility, PickerFields

LEMMA MarkVisibilityGrows ==
  ASSUME NEW p, PickerOK(p), NEW key, NEW visibility
  PROVE  Grows(p, MarkVisibility(p, key, visibility))
<1>1. SameOutside(p, MarkVisibility(p, key, visibility), PickerFields \ MapFields)
  BY MarkVisibilitySame DEF PickerOK, SameOutside, PickerFields, MapFields
<1> QED BY <1>1, SameMapsGrow

LEMMA WithValuesGrows ==
  ASSUME NEW m, MapOK(m), NEW key \in Keys, NEW values \in Seq(Mapped),
         Len(values) # 0
  PROVE  MapOK(WithValues(m, key, values)) /\ MapGrows(m, WithValues(m, key, values))
<1> DEFINE old == ValuesOf(m, key)
           new == old \o values
           more == WithValues(m, key, values)
<1>1. old \in Seq(Mapped)
  BY ValuesAreMapped
<1>2. /\ new \in Seq(Mapped) /\ Len(new) # 0
      /\ Range(new) = Range(old) \cup Range(values)
  <2> HIDE DEF old
  <2> QED BY <1>1, RangeJoined
<1>3. NamesIn(old) \subseteq NamesIn(new)
  BY <1>2 DEF NamesIn
<1>4. /\ DOMAIN more = DOMAIN m \cup {key} /\ more[key] = new
      /\ \A k \in DOMAIN m : k # key => more[k] = m[k]
  BY DEF WithValues, Assign
<1>5. key \in DOMAIN m => old = m[key]
  BY DEF ValuesOf, FindInMap
<1> HIDE DEF more, new, old
<1>6. MapOK(more)
  BY <1>2, <1>4 DEF MapOK
<1>7. MapGrows(m, more)
  <2> SUFFICES ASSUME NEW k \in Keys PROVE Targets(m, k) \subseteq Targets(more, k)
    BY <1>4 DEF MapGrows
  <2>1. CASE k \notin DOMAIN m
    BY <2>1, TargetsAre
  <2>2. CASE k \in DOMAIN m /\ k # key
    <3>1. Targets(m, k) = NamesIn(m[k]) /\ Targets(more, k) = NamesIn(more[k])
      BY <1>4, <2>2, TargetsAre
    <3> QED BY <1>4, <2>2, <3>1
  <2>3. CASE k \in DOMAIN m /\ k = key
    <3>1. Targets(m, k) = NamesIn(m[k]) /\ Targets(more, k) = NamesIn(more[k])
      BY <1>4, <2>3, TargetsAre
    <3> QED BY <1>3, <1>4, <1>5, <2>3, <3>1
  <2> QED BY <2>1, <2>2, <2>3
<1> QED BY <1>6, <1>7 DEF more

LEMMA MappedIncludeOK ==
  ASSUME NEW name \in Keys, NEW path \in Paths
  PROVE  MappedInclude(name, path) \in Mapped
BY DEF MappedInclude, Mapped

LEMMA MapChangeGrows ==
  ASSUME NEW p, PickerOK(p), NEW key \in Keys, NEW values \in Seq(Mapped),
         Len(values) # 0, NEW more,
         more = [p EXCEPT !.filepath_include_map = WithValues(@, key, values)]
  PROVE  Grows(p, more)
<1> DEFINE m == WithValues(p.filepath_include_map, key, values)
<1>1. /\ DOMAIN more = PickerFields
      /\ more.filepath_include_map = m
      /\ more.symbol_maps = p.symbol_maps
      /\ more.quoted_includes = p.quoted_includes
  BY DEF PickerOK, PickerFields
<1>2. MapOK(m) /\ MapGrows(p.filepath_include_map, m)
  BY WithValuesGrows DEF PickerOK
<1> HIDE DEF m
<1> QED BY <1>1, <1>2 DEF PickerOK, Grows

LEMMA GrowsNot ==
  ASSUME NEW p, PickerOK(p)
  PROVE  Grows(p, p)
BY DEF Grows, MapGrows

LEMMA AddMappingGrows ==
  ASSUME NEW p, PickerOK(p), NEW map_from \in Keys, NEW map_to \in Mapped
  PROVE  Grows(p, AddMapping(p, map_from, map_to))
<1>1. <<map_to>> \in Seq(Mapped) /\ Len(<<map_to>>) # 0
  OBVIOUS
<1> QED BY <1>1, MapChangeGrows, GrowsNot DEF AddMapping

LEMMA AddIncludeMappingGrows ==
  ASSUME NEW p, PickerOK(p), NEW m, m.from \in Keys, m.to \in Keys
  PROVE  Grows(p, AddIncludeMapping(p, m))
<1> DEFINE mapped == AddMapping(p, m.from, MappedInclude(m.to, NoPath))
           from_marked == MarkVisibility(mapped, m.from, m.from_visibility)
<1>1. MappedInclude(m.to, NoPath) \in Mapped
  BY MappedIncludeOK DEF Paths
<1>2. Grows(p, mapped)
  BY <1>1, AddMappingGrows
<1>3. Grows(mapped, from_marked)
  BY <1>2, MarkVisibilityGrows DEF Grows
<1>4. Grows(from_marked, MarkVisibility(from_marked, m.to, m.to_visibility))
  BY <1>3, MarkVisibilityGrows DEF Grows
<1> HIDE DEF mapped, from_marked
<1> QED BY <1>2, <1>3, <1>4, GrowsTwice DEF AddIncludeMapping, from_marked, mapped

LEMMA AddSymbolMappingGrows ==
  ASSUME NEW p, PickerOK(p), NEW m, m.to \in Keys
  PROVE  Grows(p, AddSymbolMapping(p, m))
<1>1. CASE p.aborted
  BY <1>1, GrowsNot DEF AddSymbolMapping
<1>2. CASE ~p.aborted
  <2> DEFINE key == <<m.use_kind, m.symbol>>
             value == MappedInclude(m.to, NoPath)
             symbols == WithValues(p.symbol_maps, key, <<value>>)
             more == [p EXCEPT !.symbol_maps = WithValues(@, key, <<value>>)]
  <2>1. /\ DOMAIN more = PickerFields
        /\ more.symbol_maps = symbols
        /\ more.filepath_include_map = p.filepath_include_map
        /\ more.quoted_includes = p.quoted_includes
    BY DEF PickerOK, PickerFields
  <2>2. \A s \in DOMAIN symbols : symbols[s] \in Seq(Mapped)
    <3> DEFINE old == ValuesOf(p.symbol_maps, key)
    <3>1. value \in Mapped
      BY MappedIncludeOK DEF Paths
    <3>2. old \in Seq(Mapped)
      BY DEF PickerOK, ValuesOf, FindInMap
    <3>3. symbols[key] = old \o <<value>>
      BY DEF WithValues, Assign
    <3>4. /\ DOMAIN symbols = DOMAIN p.symbol_maps \cup {key}
          /\ \A s \in DOMAIN p.symbol_maps : s # key => symbols[s] = p.symbol_maps[s]
      BY DEF WithValues, Assign
    <3> HIDE DEF old, value, key, symbols
    <3>5. old \o <<value>> \in Seq(Mapped)
      BY <3>1, <3>2
    <3> QED BY <3>3, <3>4, <3>5 DEF PickerOK
  <2> HIDE DEF more, symbols
  <2>3. Grows(p, more)
    BY <2>1, <2>2 DEF PickerOK, Grows, MapGrows
  <2>4. Grows(more, MarkVisibility(more, m.to, m.to_visibility))
    BY <2>3, MarkVisibilityGrows DEF Grows
  <2>5. AddSymbolMapping(p, m) = MarkVisibility(more, m.to, m.to_visibility)
    BY <1>2 DEF AddSymbolMapping, more
  <2> QED BY <2>3, <2>4, <2>5, GrowsTwice
<1> QED BY <1>1, <1>2

LEMMA ForcePrivateGrows ==
  ASSUME NEW p, PickerOK(p), NEW keys
  PROVE  Grows(p, ForcePrivate(p, keys))
<1>1. SameOutside(p, ForcePrivate(p, keys), PickerFields \ MapFields)
  BY DEF PickerOK, SameOutside, ForcePrivate, PickerFields, MapFields
<1> QED BY <1>1, SameMapsGrow

LEMMA MarkPathAsPrivateGrows ==
  ASSUME NEW p, PickerOK(p), NEW path
  PROVE  Grows(p, MarkPathAsPrivate(p, path))
<1>1. SameOutside(p, MarkPathAsPrivate(p, path), PickerFields \ MapFields)
  BY DEF PickerOK, SameOutside, MarkPathAsPrivate, PickerFields, MapFields
<1> QED BY <1>1, SameMapsGrow

LEMMA AddFriendRegexGrows ==
  ASSUME NEW p, PickerOK(p), NEW includee, NEW pattern
  PROVE  Grows(p, AddFriendRegex(p, includee, pattern))
<1>1. SameOutside(p, AddFriendRegex(p, includee, pattern), PickerFields \ MapFields)
  BY DEF PickerOK, SameOutside, AddFriendRegex, PickerFields, MapFields
<1> QED BY <1>1, SameMapsGrow

LEMMA ExpandFriendRegexGrows ==
  ASSUME NEW p, PickerOK(p), NEW hdr, NEW pattern
  PROVE  Grows(p, ExpandFriendRegex(p, hdr, pattern))
<1>1. SameOutside(p, ExpandFriendRegex(p, hdr, pattern), PickerFields \ MapFields)
  BY DEF PickerOK, SameOutside, ExpandFriendRegex, PickerFields, MapFields
<1> QED BY <1>1, SameMapsGrow
LEMMA AddInternalHeaderGrows ==
  ASSUME NEW p, PickerOK(p), NEW includee, NEW quoted_includee \in Keys,
         NEW mapped_includer \in Mapped
  PROVE  Grows(p, AddInternalHeader(p, includee, quoted_includee, mapped_includer))
<1>1. ASSUME NEW project
      PROVE  LET private == MarkIncludeAsPrivate(p, quoted_includee)
             IN  Grows(p, AddMapping(AddFriendRegex(private, includee, project),
                                     quoted_includee, mapped_includer))
  <2> DEFINE private == MarkIncludeAsPrivate(p, quoted_includee)
             friend == AddFriendRegex(private, includee, project)
  <2>1. Grows(p, private)
    BY MarkVisibilityGrows DEF MarkIncludeAsPrivate
  <2>2. Grows(private, friend)
    BY <2>1, AddFriendRegexGrows DEF Grows
  <2>3. Grows(friend, AddMapping(friend, quoted_includee, mapped_includer))
    BY <2>2, AddMappingGrows DEF Grows
  <2> HIDE DEF private, friend
  <2>4. Grows(p, AddMapping(friend, quoted_includee, mapped_includer))
    BY <2>1, <2>2, <2>3, GrowsTwice
  <2> QED BY <2>4 DEF private, friend
<1> QED BY <1>1, GrowsNot DEF AddInternalHeader

LEMMA AddAsmHeaderGrows ==
  ASSUME NEW p, PickerOK(p), NEW quoted_includee \in Keys,
         IsAsmHeader(quoted_includee) => AsmName(quoted_includee) \in Keys
  PROVE  Grows(p, AddAsmHeader(p, quoted_includee))
<1>1. CASE ~IsAsmHeader(quoted_includee)
  BY <1>1, GrowsNot DEF AddAsmHeader
<1>2. CASE IsAsmHeader(quoted_includee)
  <2> DEFINE private == MarkIncludeAsPrivate(p, quoted_includee)
             map_to == MappedInclude(AsmName(quoted_includee), NoPath)
  <2>1. Grows(p, private)
    BY MarkVisibilityGrows DEF MarkIncludeAsPrivate
  <2>2. map_to \in Mapped
    BY <1>2, MappedIncludeOK DEF Paths
  <2>3. Grows(private, AddMapping(private, quoted_includee, map_to))
    BY <2>1, <2>2, AddMappingGrows DEF Grows
  <2>4. AddAsmHeader(p, quoted_includee) = AddMapping(private, quoted_includee, map_to)
    BY <1>2 DEF AddAsmHeader
  <2> HIDE DEF private, map_to
  <2> QED BY <2>1, <2>3, <2>4, GrowsTwice
<1> QED BY <1>1, <1>2

LEMMA AddDirectIncludeGrows ==
  ASSUME NEW p, PickerOK(p), NEW i \in DirectIncludes
  PROVE  Grows(p, AddDirectInclude(p, i.includer, i.includee, i.as_written))
<1> DEFINE quoted_includer == NameOf(i.includer)
           quoted_includee == NameOf(i.includee)
           seen == [p EXCEPT
                      !.quoted_includes = @ \cup {quoted_includee},
                      !.include_as_written =
                         Assign(@, <<i.includer, i.includee>>, i.as_written)]
           marked == IF IsSpecialFilename(i.includer)
                     THEN MarkIncludeAsPrivate(seen, QuotedBuiltIn) ELSE seen
           mapped == MappedInclude(quoted_includer, i.includer)
           internal == AddInternalHeader(marked, i.includee, quoted_includee, mapped)
<1>1. Grows(p, seen)
  <2>1. /\ DOMAIN seen = PickerFields
        /\ seen.filepath_include_map = p.filepath_include_map
        /\ seen.symbol_maps = p.symbol_maps
        /\ seen.quoted_includes = p.quoted_includes \cup {quoted_includee}
    BY DEF PickerOK, PickerFields
  <2>2. quoted_includee \in SeenNames
    BY DEF SeenNames
  <2> HIDE DEF seen, quoted_includee
  <2> QED BY <2>1, <2>2 DEF PickerOK, Grows, MapGrows
<1>2. /\ quoted_includer \in Keys /\ quoted_includee \in Keys
      /\ IsAsmHeader(quoted_includee) => AsmName(quoted_includee) \in Keys
  BY KeysAssumption
<1>3. Grows(seen, marked)
  <2> HIDE DEF seen
  <2>1. PickerOK(seen)
    BY <1>1 DEF Grows
  <2> QED BY <2>1, GrowsNot, MarkVisibilityGrows DEF MarkIncludeAsPrivate
<1>4. mapped \in Mapped
  BY <1>2, MappedIncludeOK DEF Paths
<1>5. AddDirectInclude(p, i.includer, i.includee, i.as_written)
        = IF p.aborted THEN p ELSE AddAsmHeader(internal, quoted_includee)
  BY DEF AddDirectInclude, NameOf
<1> HIDE DEF seen, marked, mapped, quoted_includee
<1>6. Grows(marked, internal)
  <2>1. PickerOK(marked)
    BY <1>3 DEF Grows
  <2> QED BY <1>2, <1>4, <2>1, AddInternalHeaderGrows
<1> HIDE DEF internal
<1>7. Grows(internal, AddAsmHeader(internal, quoted_includee))
  <2>1. PickerOK(internal)
    BY <1>6 DEF Grows
  <2> QED BY <1>2, <2>1, AddAsmHeaderGrows
<1>8. Grows(p, AddAsmHeader(internal, quoted_includee))
  BY <1>1, <1>3, <1>6, <1>7, GrowsTwice
<1> QED BY <1>5, <1>8, GrowsNot

LEMMA ExportIncludeGrows ==
  ASSUME NEW p, PickerOK(p), NEW i \in DirectIncludes, i.export
  PROVE  Grows(p, ExportInclude(p, i.includer, i.includee, i.as_written))
<1> DEFINE map_to == MappedInclude(NameOf(i.includer), i.includer)
           map_from == NameOf(i.includee)
           written == AddMapping(p, i.as_written, map_to)
<1>1. map_to \in Mapped /\ map_from \in Keys /\ i.as_written \in Keys
  BY KeysAssumption, MappedIncludeOK DEF Paths
<1>2. ExportInclude(p, i.includer, i.includee, i.as_written)
        = IF map_from = i.as_written THEN written ELSE AddMapping(written, map_from, map_to)
  BY DEF ExportInclude, NameOf
<1> HIDE DEF map_to, map_from
<1>3. Grows(p, written)
  BY <1>1, AddMappingGrows
<1> HIDE DEF written
<1>4. Grows(written, AddMapping(written, map_from, map_to))
  <2>1. PickerOK(written)
    BY <1>3 DEF Grows
  <2> QED BY <1>1, <2>1, AddMappingGrows
<1> QED BY <1>2, <1>3, <1>4, GrowsTwice

LEMMA PrivateIncludeGrows ==
  ASSUME NEW p, PickerOK(p), NEW i \in PrivateIncludes
  PROVE  Grows(p, PrivateInclude(p, i.path, i.suggested))
<1> DEFINE name == NameOf(i.path)
           value == MappedInclude(i.suggested, NoPath)
           mapped == AddMapping(p, name, value)
<1>1. name \in Keys /\ value \in Mapped
  BY KeysAssumption, MappedIncludeOK DEF Paths
<1>2. PrivateInclude(p, i.path, i.suggested) = MarkVisibility(mapped, name, "private")
  BY DEF PrivateInclude, MarkIncludeAsPrivate, NameOf
<1> HIDE DEF name, value
<1>3. Grows(p, mapped)
  BY <1>1, AddMappingGrows
<1> HIDE DEF mapped
<1>4. Grows(mapped, MarkVisibility(mapped, name, "private"))
  <2>1. PickerOK(mapped)
    BY <1>3 DEF Grows
  <2> QED BY <2>1, MarkVisibilityGrows
<1> QED BY <1>2, <1>3, <1>4, GrowsTwice

LEMMA ExpandIncludeRegexGrows ==
  ASSUME NEW p, PickerOK(p), NEW hdr \in SeenNames,
         NEW pattern \in DOMAIN p.filepath_include_map, IsPattern(pattern)
  PROVE  Grows(p, ExpandIncludeRegex(p, hdr, pattern))
<1> DEFINE map_to == p.filepath_include_map[pattern]
           Target(i) == MappedInclude(RegexReplace(hdr, pattern, map_to[i].quoted_include),
                                      NoPath)
           targets == [i \in DOMAIN map_to |-> Target(i)]
           expanded == [p EXCEPT !.filepath_include_map = WithValues(@, hdr, targets)]
           visibility == p.include_visibility_map[pattern]
<1>1. CASE ~(RegexMatch(hdr, pattern) /\ ~ContainsQuotedInclude(map_to, hdr))
  BY <1>1, GrowsNot DEF ExpandIncludeRegex
<1>2. CASE RegexMatch(hdr, pattern) /\ ~ContainsQuotedInclude(map_to, hdr)
  <2>1. hdr \in Keys /\ pattern \in Keys
    BY KeysAssumption DEF SeenNames, PickerOK, MapOK
  <2>2. map_to \in Seq(Mapped) /\ Len(map_to) # 0
    BY DEF PickerOK, MapOK
  <2>3. /\ DOMAIN map_to = 1 .. Len(map_to) /\ Len(map_to) \in Nat
        /\ \A i \in DOMAIN map_to : map_to[i].quoted_include \in Keys
    <3> HIDE DEF map_to
    <3>1. \A i \in DOMAIN map_to : map_to[i] \in Mapped
      BY <2>2
    <3> QED BY <2>2, <3>1 DEF Mapped
  <2>4. ASSUME NEW i \in DOMAIN map_to PROVE Target(i) \in Mapped
    <3> DEFINE target == map_to[i].quoted_include
               replaced == RegexReplace(hdr, pattern, target)
    <3>1. target \in Keys
      BY <2>3
    <3> HIDE DEF map_to, target
    <3>2. replaced \in Keys
      BY <1>2, <2>1, <3>1, KeysAssumption DEF SeenNames
    <3> HIDE DEF replaced
    <3>3. MappedInclude(replaced, NoPath) \in Mapped
      BY <3>2, MappedIncludeOK DEF Paths
    <3> QED BY <3>3 DEF replaced, target
  <2>5. targets \in Seq(Mapped) /\ Len(targets) # 0
    <3>1. targets \in [1 .. Len(map_to) -> Mapped]
      <4> HIDE DEF Target, map_to
      <4> QED BY <2>3, <2>4
    <3> DEFINE n == Len(map_to)
    <3>2. n \in Nat /\ n # 0 /\ targets \in [1..n -> Mapped]
      BY <2>2, <2>3, <3>1
    <3> HIDE DEF n, targets
    <3> QED BY <3>2
  <2> HIDE DEF targets
  <2>6. Grows(p, expanded)
    BY <2>1, <2>5, MapChangeGrows
  <2>7. ExpandIncludeRegex(p, hdr, pattern) = MarkVisibility(expanded, hdr, visibility)
    BY <1>2 DEF ExpandIncludeRegex, targets
  <2> HIDE DEF expanded, visibility
  <2>8. Grows(expanded, MarkVisibility(expanded, hdr, visibility))
    <3>1. PickerOK(expanded)
      BY <2>6 DEF Grows
    <3> QED BY <3>1, MarkVisibilityGrows
  <2> QED BY <2>6, <2>7, <2>8, GrowsTwice
<1> QED BY <1>1, <1>2
-----------------------------------------------------------------------------
(* The invariant. *)
Adding == phase \in {"constructing", "loading", "preprocessing", "expanding"}

(* The include patterns that are still to be tried are keys of the map. *)
ToExpandOK ==
  \A e \in to_expand : e[2][1] = "include" =>
     e[1] \in SeenNames /\ e[2][2] \in DOMAIN include_map /\ IsPattern(e[2][2])

StateOK ==
  /\ Adding \/ phase \in {"closing", "final"}
  /\ PickerOK(picker)
  /\ num_calls \in Nat
  /\ cycle_found \in BOOLEAN
  /\ ToExpandOK
  /\ Adding => /\ declared = include_map
               /\ loops = <<>> /\ seen_nodes = <<>> /\ ~cycle_found
  /\ phase = "final" => loops = <<>>

(* The calls under way are for different keys, which are being calculated. *)
Loops == [key : Keys, next : Nat \ {0}]

LoopsOK ==
  /\ loops \in Seq(Loops)
  /\ \A n \in DOMAIN loops :
        /\ loops[n].key \in DOMAIN include_map
        /\ loops[n].next <= Len(include_map[loops[n].key]) + 1
        /\ StatusOf(loops[n].key) = "calculating"
  /\ \A m, n \in DOMAIN loops : m # n => loops[m].key # loops[n].key

SeenOK ==
  /\ DOMAIN seen_nodes \subseteq Keys
  /\ \A k \in DOMAIN seen_nodes : seen_nodes[k] \in {"calculating", "done"}

(* A child that a loop is past is done, or was met on a cycle. *)
PassedOK ==
  \A n \in DOMAIN loops : \A j \in 1 .. loops[n].next - 1 :
     LET status == StatusOf(include_map[loops[n].key][j].quoted_include)
     IN  status = "done" \/ (status = "calculating" /\ cycle_found)

(* Closing the map leaves its keys, and the best of each. *)
BestOK ==
  /\ MapOK(declared)
  /\ DOMAIN declared = DOMAIN include_map
  /\ \A k \in DOMAIN declared :
        include_map[k][1].quoted_include = declared[k][1].quoted_include

IInv == StateOK /\ LoopsOK /\ SeenOK /\ PassedOK /\ BestOK

LEMMA InitIInv == Init => IInv
<1> SUFFICES ASSUME Init PROVE IInv
  OBVIOUS
<1> USE DEF Init
<1>1. PickerOK(picker) /\ include_map = <<>> /\ MapOK(<<>>)
  BY DEF EmptyPicker, PickerOK, PickerFields, MapOK, include_map
<1>2. StateOK
  BY <1>1 DEF StateOK, Adding, ToExpandOK
<1>3. LoopsOK /\ SeenOK /\ PassedOK
  BY DEF LoopsOK, SeenOK, PassedOK
<1>4. BestOK
  BY <1>1 DEF BestOK
<1> QED BY <1>2, <1>3, <1>4 DEF IInv

LEMMA TargetsOfType ==
  ASSUME NEW m, MapOK(m)
  PROVE  /\ TargetsOf(m) \in [Keys -> SUBSET Keys]
         /\ \A k \in Keys : TargetsOf(m)[k] = {} <=> k \notin DOMAIN m
<1>1. ASSUME NEW k \in Keys
      PROVE  Targets(m, k) \subseteq Keys /\ (Targets(m, k) = {} <=> k \notin DOMAIN m)
  <2>1. CASE k \notin DOMAIN m
    BY <2>1, TargetsAre
  <2>2. CASE k \in DOMAIN m
    <3> DEFINE values == m[k]
    <3>1. values \in Seq(Mapped) /\ Len(values) # 0 /\ Targets(m, k) = NamesIn(values)
      BY <2>2, TargetsAre DEF MapOK
    <3> HIDE DEF values
    <3>2. 1 \in DOMAIN values
      BY <3>1
    <3>3. values[1].quoted_include \in NamesIn(values)
      BY <3>2 DEF NamesIn, Range
    <3> QED BY <2>2, <3>1, <3>3, NamesOfSeq
  <2> QED BY <2>1, <2>2
<1> QED BY <1>1 DEF TargetsOf

(* While mappings are added, there is no search. *)
LEMMA MappingsAdded ==
  ASSUME IInv, Adding, Adding', PickerOK(picker'),
         MapGrows(include_map, include_map'),
         num_calls' \in Nat, UNCHANGED closing_vars, declared' = include_map',
         \/ to_expand' \subseteq to_expand
         \/ to_expand' = picker.quoted_includes \X
              ( {<<"include", k>> : k \in {x \in DOMAIN include_map : IsPattern(x)}}
                \cup {<<"friend", k>> : k \in DOMAIN picker.friend_to_headers_map} )
  PROVE  IInv' /\ Closure!AddMappings
<1> USE DEF IInv
<1>1. loops' = <<>> /\ seen_nodes' = <<>> /\ ~cycle_found' /\ cycle_found' \in BOOLEAN
  BY DEF closing_vars, StateOK
<1>2. ToExpandOK'
  <2>1. DOMAIN include_map \subseteq DOMAIN include_map'
    BY DEF MapGrows
  <2>2. CASE to_expand' \subseteq to_expand
    BY <2>1, <2>2 DEF StateOK, ToExpandOK
  <2>3. CASE ~(to_expand' \subseteq to_expand)
    <3>1. picker.quoted_includes \subseteq SeenNames
      BY DEF StateOK, PickerOK
    <3> DEFINE patterns == {x \in DOMAIN include_map : IsPattern(x)}
               kinds == {<<"include", k>> : k \in patterns}
                          \cup {<<"friend", k>> : k \in DOMAIN picker.friend_to_headers_map}
    <3>2. to_expand' = picker.quoted_includes \X kinds
      BY <2>3
    <3>3. \A t \in kinds : t[1] = "include" => t[2] \in patterns
      OBVIOUS
    <3> HIDE DEF kinds
    <3>4. \A e \in to_expand' : e[1] \in picker.quoted_includes /\ e[2] \in kinds
      BY <3>2
    <3> QED BY <2>1, <3>1, <3>3, <3>4 DEF ToExpandOK
  <2> QED BY <2>2, <2>3
<1>3. StateOK'
  BY <1>1, <1>2 DEF StateOK, Adding
<1>4. LoopsOK' /\ SeenOK' /\ PassedOK'
  BY <1>1 DEF LoopsOK, SeenOK, PassedOK
<1>5. BestOK'
  BY DEF BestOK, PickerOK, include_map
<1>6. Closure!AddMappings
  <2>1. ClosurePhase = "adding" /\ ClosurePhase' = "adding"
    BY DEF ClosurePhase, Adding
  <2>2. TargetsOf(declared)' \in [Keys -> SUBSET Keys]
    <3>1. MapOK(declared') /\ TargetsOf(declared)' = TargetsOf(declared')
      BY <1>5 DEF BestOK, TargetsOf, Targets, ValuesOf, FindInMap
    <3> QED BY <3>1, TargetsOfType
  <2>3. \A k \in Keys : TargetsOf(declared)[k] \subseteq TargetsOf(declared)'[k]
    BY DEF StateOK, TargetsOf, MapGrows
  <2>4. TargetsOf(include_map)' = TargetsOf(declared)'
    BY DEF TargetsOf
  <2>5. ClosureStatus' = ClosureStatus
    BY DEF closing_vars, ClosureStatus, StatusOf
  <2>6. ClosureStack' = ClosureStack
    BY DEF closing_vars, ClosureStack
  <2>7. ClosureUnvisited' = ClosureUnvisited
    <3>1. loops = <<>>
      BY DEF StateOK
    <3> QED BY <1>1, <3>1 DEF ClosureUnvisited, Range
  <2>8. cycle_found' = cycle_found
    BY DEF closing_vars
  <2> QED BY <2>1, <2>2, <2>3, <2>4, <2>5, <2>6, <2>7, <2>8
          DEF Closure!AddMappings, Closure!search
<1> QED BY <1>3, <1>4, <1>5, <1>6

LEMMA CallAdds ==
  ASSUME IInv, Adding, Grows(picker, picker'), num_calls' \in Nat,
         declared' = picker'.filepath_include_map,
         UNCHANGED <<to_expand, closing_vars>>, Adding'
  PROVE  IInv' /\ Closure!AddMappings
<1>1. PickerOK(picker') /\ MapGrows(include_map, include_map')
  BY DEF Grows, include_map
<1>2. declared' = include_map'
  BY DEF include_map
<1> QED BY <1>1, <1>2, MappingsAdded

LEMMA PickerHolds ==
  ASSUME IInv
  PROVE  PickerOK(picker) /\ num_calls \in Nat
BY DEF IInv, StateOK

LEMMA AddInternalMappingAdds ==
  ASSUME IInv, AddInternalMapping
  PROVE  IInv' /\ Closure!AddMappings
<1> DEFINE n == num_calls + 1
           m == InternalMappings[n]
<1>1. PickerOK(picker) /\ n \in Nat
  BY PickerHolds
<1>2. m \in Range(InternalMappings)
  <2> DEFINE T == Range(InternalMappings)
  <2>1. InternalMappings \in Seq(T)
    BY KeysAssumption
  <2>2. num_calls \in Nat /\ num_calls < Len(InternalMappings)
    BY PickerHolds DEF AddInternalMapping
  <2> HIDE DEF T
  <2>3. Len(InternalMappings) \in Nat /\ DOMAIN InternalMappings = 1 .. Len(InternalMappings)
    BY <2>1
  <2>4. n \in DOMAIN InternalMappings
    BY <2>2, <2>3
  <2> QED BY <2>4 DEF Range
<1>3. m.from \in Keys /\ m.to \in Keys
  BY <1>2, KeysAssumption
<1>4. picker' = AddIncludeMapping(picker, m)
  BY DEF AddInternalMapping
<1> HIDE DEF m
<1>5. Grows(picker, AddIncludeMapping(picker, m))
  BY <1>1, <1>3, AddIncludeMappingGrows
<1> QED BY <1>1, <1>4, <1>5, CallAdds DEF AddInternalMapping, Adding

LEMMA EndConstructorAdds ==
  ASSUME IInv, EndConstructor
  PROVE  IInv' /\ Closure!AddMappings
<1>1. PickerOK(picker) /\ Adding /\ Adding'
  BY PickerHolds DEF EndConstructor, Adding
<1>2. Grows(picker, picker')
  BY <1>1, ForcePrivateGrows DEF EndConstructor
<1>3. picker'.filepath_include_map = picker.filepath_include_map
  BY DEF EndConstructor, ForcePrivate
<1>4. declared' = picker'.filepath_include_map
  BY <1>1, <1>3 DEF EndConstructor, IInv, StateOK, include_map
<1> QED BY <1>1, <1>2, <1>4, CallAdds DEF EndConstructor

LEMMA LoadMappingAdds ==
  ASSUME IInv, LoadMapping
  PROVE  IInv' /\ Closure!AddMappings
<1>1. PickerOK(picker) /\ num_calls + 1 \in Nat
  BY PickerHolds
<1>2. ASSUME NEW m \in IncludeMappings, Call("loading", AddIncludeMapping(picker, m))
      PROVE  IInv' /\ Closure!AddMappings
  <2>1. Grows(picker, AddIncludeMapping(picker, m))
    BY <1>1, KeysAssumption, AddIncludeMappingGrows
  <2> QED BY <1>1, <1>2, <2>1, CallAdds DEF Call, Adding
<1>3. ASSUME NEW m \in SymbolMappings, Call("loading", AddSymbolMapping(picker, m))
      PROVE  IInv' /\ Closure!AddMappings
  <2>1. Grows(picker, AddSymbolMapping(picker, m))
    BY <1>1, KeysAssumption, AddSymbolMappingGrows
  <2> QED BY <1>1, <1>3, <2>1, CallAdds DEF Call, Adding
<1> QED BY <1>2, <1>3 DEF LoadMapping

LEMMA SeeIncludeAdds ==
  ASSUME IInv, SeeInclude
  PROVE  IInv' /\ Closure!AddMappings
<1>1. PickerOK(picker) /\ num_calls + 1 \in Nat
  BY PickerHolds
<1>2. PICK i \in DirectIncludes :
        LET added == AddDirectInclude(picker, i.includer, i.includee, i.as_written)
        IN  Call("preprocessing",
                 IF i.export
                 THEN ExportInclude(added, i.includer, i.includee, i.as_written)
                 ELSE added)
  BY DEF SeeInclude
<1> DEFINE added == AddDirectInclude(picker, i.includer, i.includee, i.as_written)
           exported == ExportInclude(added, i.includer, i.includee, i.as_written)
<1>3. picker' = IF i.export THEN exported ELSE added
  BY <1>2 DEF Call
<1>4. Grows(picker, added)
  BY <1>1, AddDirectIncludeGrows
<1> HIDE DEF added
<1>5. i.export => Grows(added, exported)
  BY <1>4, ExportIncludeGrows DEF Grows
<1> HIDE DEF exported
<1>6. Grows(picker, picker')
  BY <1>3, <1>4, <1>5, GrowsTwice
<1> QED BY <1>1, <1>2, <1>6, CallAdds DEF Call, Adding

LEMMA SeePragmaAdds ==
  ASSUME IInv, SeePragma
  PROVE  IInv' /\ Closure!AddMappings
<1>1. PickerOK(picker) /\ num_calls + 1 \in Nat
  BY PickerHolds
<1>2. ASSUME NEW i \in PrivateIncludes,
             Call("preprocessing", PrivateInclude(picker, i.path, i.suggested))
      PROVE  IInv' /\ Closure!AddMappings
  <2>1. Grows(picker, PrivateInclude(picker, i.path, i.suggested))
    BY <1>1, PrivateIncludeGrows
  <2> QED BY <1>1, <1>2, <2>1, CallAdds DEF Call, Adding
<1>3. ASSUME NEW path \in PrivatePaths,
             Call("preprocessing", MarkPathAsPrivate(picker, path))
      PROVE  IInv' /\ Closure!AddMappings
  <2>1. Grows(picker, MarkPathAsPrivate(picker, path))
    BY <1>1, MarkPathAsPrivateGrows
  <2> QED BY <1>1, <1>3, <2>1, CallAdds DEF Call, Adding
<1>4. ASSUME NEW f \in Friends,
             Call("preprocessing", AddFriendRegex(picker, f.path, f.pattern))
      PROVE  IInv' /\ Closure!AddMappings
  <2>1. Grows(picker, AddFriendRegex(picker, f.path, f.pattern))
    BY <1>1, AddFriendRegexGrows
  <2> QED BY <1>1, <1>4, <2>1, CallAdds DEF Call, Adding
<1> QED BY <1>2, <1>3, <1>4 DEF SeePragma

LEMMA StartAdds ==
  ASSUME IInv, StartPreprocessing \/ StartExpanding
  PROVE  IInv' /\ Closure!AddMappings
<1>1. PickerOK(picker) /\ num_calls \in Nat /\ picker' = picker /\ num_calls' = num_calls
  BY PickerHolds DEF StartPreprocessing, StartExpanding
<1>2. Adding /\ Adding' /\ UNCHANGED closing_vars /\ declared' = declared
  BY DEF StartPreprocessing, StartExpanding, Adding
<1>3. declared' = include_map'
  BY <1>1, <1>2 DEF IInv, StateOK, include_map
<1>4. MapGrows(include_map, include_map')
  BY <1>1 DEF MapGrows, include_map
<1>5. PickerOK(picker')
  BY <1>1
<1>6. \/ to_expand' \subseteq to_expand
      \/ to_expand' = picker.quoted_includes \X
           ( {<<"include", k>> : k \in {x \in DOMAIN include_map : IsPattern(x)}}
             \cup {<<"friend", k>> : k \in DOMAIN picker.friend_to_headers_map} )
  BY DEF StartPreprocessing, StartExpanding
<1> QED BY <1>1, <1>2, <1>3, <1>4, <1>5, <1>6, MappingsAdded

LEMMA ExpandRegexAdds ==
  ASSUME IInv, NEW e \in to_expand, ExpandRegex(e[1], e[2][1], e[2][2])
  PROVE  IInv' /\ Closure!AddMappings
<1> DEFINE hdr == e[1]
           kind == e[2][1]
           pattern == e[2][2]
<1>1. /\ phase = "expanding" /\ phase' = phase
      /\ <<hdr, <<kind, pattern>>>> \in to_expand
      /\ picker' = IF kind = "include" THEN ExpandIncludeRegex(picker, hdr, pattern)
                                       ELSE ExpandFriendRegex(picker, hdr, pattern)
      /\ to_expand' \subseteq to_expand
      /\ declared' = picker'.filepath_include_map
      /\ UNCHANGED <<num_calls, closing_vars>>
  BY DEF ExpandRegex
<1> HIDE DEF hdr, kind, pattern
<1>2. PickerOK(picker) /\ num_calls \in Nat
  BY PickerHolds
<1>3. Grows(picker, picker')
  <2>1. CASE kind = "include"
    <3>1. hdr \in SeenNames /\ pattern \in DOMAIN picker.filepath_include_map
          /\ IsPattern(pattern)
      BY <1>1, <2>1 DEF IInv, StateOK, ToExpandOK, include_map
    <3> QED BY <1>1, <1>2, <2>1, <3>1, ExpandIncludeRegexGrows
  <2>2. CASE kind # "include"
    BY <1>1, <1>2, <2>2, ExpandFriendRegexGrows
  <2> QED BY <2>1, <2>2
<1>4. PickerOK(picker') /\ MapGrows(include_map, include_map')
  BY <1>3 DEF Grows, include_map
<1>5. declared' = include_map'
  BY <1>1 DEF include_map
<1>6. Adding /\ Adding' /\ num_calls' \in Nat /\ UNCHANGED closing_vars
  BY <1>1, <1>2 DEF Adding
<1> QED BY <1>1, <1>4, <1>5, <1>6, MappingsAdded

LEMMA StartClosingPreserves ==
  ASSUME IInv, StartClosing
  PROVE  IInv'
<1> USE DEF IInv
<1>1. /\ phase' = "closing" /\ phase = "expanding"
      /\ UNCHANGED <<picker, num_calls, to_expand, seen_nodes, loops, cycle_found,
                     declared>>
  BY DEF StartClosing, closing_vars
<1>2. include_map' = include_map
  BY <1>1 DEF include_map
<1>3. StateOK'
  BY <1>1, <1>2 DEF StateOK, Adding, ToExpandOK
<1>4. LoopsOK' /\ SeenOK' /\ PassedOK'
  BY <1>1, <1>2 DEF LoopsOK, SeenOK, PassedOK, StatusOf
<1>5. BestOK'
  BY <1>1, <1>2 DEF BestOK
<1> QED BY <1>3, <1>4, <1>5

-----------------------------------------------------------------------------
(* The search. *)
LEMMA LoopFacts ==
  ASSUME IInv
  PROVE  /\ Len(loops) \in Nat /\ DOMAIN loops = 1 .. Len(loops)
         /\ \A n \in DOMAIN loops :
               /\ loops[n].key \in Keys /\ loops[n].next \in Nat \ {0}
               /\ loops[n] = [key |-> loops[n].key, next |-> loops[n].next]
               /\ loops[n].key \in DOMAIN include_map
               /\ loops[n].next <= Len(include_map[loops[n].key]) + 1
               /\ StatusOf(loops[n].key) = "calculating"
         /\ \A m, n \in DOMAIN loops : m # n => loops[m].key # loops[n].key
<1>1. /\ loops \in Seq(Loops)
      /\ \A n \in DOMAIN loops :
            /\ loops[n].key \in DOMAIN include_map
            /\ loops[n].next <= Len(include_map[loops[n].key]) + 1
            /\ StatusOf(loops[n].key) = "calculating"
      /\ \A m, n \in DOMAIN loops : m # n => loops[m].key # loops[n].key
  BY DEF IInv, LoopsOK
<1>2. /\ Len(loops) \in Nat /\ DOMAIN loops = 1 .. Len(loops)
      /\ \A n \in DOMAIN loops : loops[n] \in Loops
  BY <1>1
<1>3. \A l \in Loops : /\ l.key \in Keys /\ l.next \in Nat \ {0}
                       /\ l = [key |-> l.key, next |-> l.next]
  BY DEF Loops
<1> QED BY <1>1, <1>2, <1>3

LEMMA MapFacts ==
  ASSUME IInv
  PROVE  \A k \in DOMAIN include_map :
            /\ k \in Keys
            /\ include_map[k] \in Seq(Mapped)
            /\ Len(include_map[k]) \in Nat \ {0}
            /\ DOMAIN include_map[k] = 1 .. Len(include_map[k])
            /\ \A j \in 1 .. Len(include_map[k]) :
                  /\ include_map[k][j] \in Mapped
                  /\ include_map[k][j].quoted_include \in Keys
<1>1. MapOK(include_map)
  BY DEF IInv, StateOK, PickerOK, include_map
<1>2. ASSUME NEW values \in Seq(Mapped)
      PROVE  /\ Len(values) \in Nat /\ DOMAIN values = 1 .. Len(values)
             /\ \A j \in 1 .. Len(values) :
                   values[j] \in Mapped /\ values[j].quoted_include \in Keys
  <2>1. \A j \in 1 .. Len(values) : values[j] \in Mapped
    OBVIOUS
  <2>2. \A v \in Mapped : v.quoted_include \in Keys
    BY DEF Mapped
  <2> QED BY <2>1, <2>2
<1> QED BY <1>1, <1>2 DEF MapOK

LEMMA ActiveFacts ==
  ASSUME IInv, Looping
  PROVE  /\ Len(loops) \in DOMAIN loops /\ Len(loops) \in Nat \ {0}
         /\ Active = loops[Len(loops)]
         /\ Active.key \in Keys /\ Active.key \in DOMAIN include_map
         /\ Active.next \in Nat \ {0}
         /\ Active.next <= Len(ActiveValues) + 1
         /\ Active = [key |-> Active.key, next |-> Active.next]
         /\ ActiveValues = include_map[Active.key]
         /\ ActiveValues \in Seq(Mapped) /\ Len(ActiveValues) \in Nat \ {0}
         /\ \A j \in 1 .. Len(ActiveValues) : ActiveValues[j].quoted_include \in Keys
         /\ StatusOf(Active.key) = "calculating"
<1>1. loops # <<>> /\ loops \in Seq(Loops)
  BY DEF Looping, IInv, LoopsOK
<1>2. Len(loops) \in DOMAIN loops /\ Len(loops) \in Nat \ {0}
  BY <1>1
<1>3. Active = loops[Len(loops)]
  BY DEF Active, Last
<1>4. Active.key \in DOMAIN include_map
  BY <1>2, <1>3, LoopFacts
<1> QED BY <1>2, <1>3, <1>4, LoopFacts, MapFacts DEF ActiveValues

LEMMA StatusAfter ==
  ASSUME NEW key, NEW status, seen_nodes' = Assign(seen_nodes, key, status)
  PROVE  \A k : StatusOf(k)' = IF k = key THEN status ELSE StatusOf(k)
BY DEF StatusOf, FindInMap, Assign

LEMMA StatusInMap ==
  ASSUME IInv, NEW k
  PROVE  /\ StatusOf(k) \in {"unused", "calculating", "done"}
         /\ StatusOf(k) = "unused" <=> k \notin DOMAIN seen_nodes
BY DEF IInv, SeenOK, StatusOf, FindInMap

LEMMA EnterPreserves ==
  ASSUME IInv, phase = "closing", NEW key \in Keys, Enter(key)
  PROVE  IInv'
<1> DEFINE m == include_map
<1>1. /\ StatusOf(key) = "unused"
      /\ UNCHANGED <<phase, picker, num_calls, to_expand, declared, cycle_found>>
  BY DEF Enter
<1>2. m' = m
  BY <1>1 DEF include_map
<1>3. StateOK'
  BY <1>1, <1>2 DEF IInv, StateOK, Adding, ToExpandOK
<1>4. BestOK'
  BY <1>1, <1>2 DEF IInv, BestOK
<1> DEFINE status == IF key \notin DOMAIN m THEN "done" ELSE "calculating"
<1>5. seen_nodes' = Assign(seen_nodes, key, status)
  BY DEF Enter
<1>6. \A k : StatusOf(k)' = IF k = key THEN status ELSE StatusOf(k)
  <2> HIDE DEF status
  <2> QED BY <1>5, StatusAfter
<1>7. SeenOK'
  <2>1. DOMAIN seen_nodes' = DOMAIN seen_nodes \cup {key}
        /\ \A k \in DOMAIN seen_nodes' :
              seen_nodes'[k] = IF k = key THEN status ELSE seen_nodes[k]
    BY <1>5 DEF Assign
  <2> QED BY <2>1 DEF IInv, SeenOK
<1>8. \A n \in DOMAIN loops : \A k : k = loops[n].key =>
         k # key /\ StatusOf(k)' = "calculating"
  BY <1>1, <1>6, LoopFacts
<1>9. \A n \in DOMAIN loops : \A j \in 1 .. loops[n].next - 1 : \A k :
         k = m[loops[n].key][j].quoted_include =>
            StatusOf(k)' = "done" \/ (StatusOf(k)' = "calculating" /\ cycle_found)
  <2> SUFFICES ASSUME NEW n \in DOMAIN loops, NEW j \in 1 .. loops[n].next - 1, NEW k,
                      k = m[loops[n].key][j].quoted_include
               PROVE  StatusOf(k)' = "done" \/ (StatusOf(k)' = "calculating" /\ cycle_found)
    OBVIOUS
  <2>1. StatusOf(k) = "done" \/ (StatusOf(k) = "calculating" /\ cycle_found)
    BY DEF IInv, PassedOK
  <2> QED BY <1>1, <1>6, <2>1
<1>10. CASE key \notin DOMAIN m
  <2>1. loops' = loops
    BY <1>10 DEF Enter
  <2>2. LoopsOK'
    BY <1>2, <1>8, <2>1 DEF IInv, LoopsOK
  <2>3. PassedOK'
    BY <1>1, <1>2, <1>9, <2>1 DEF PassedOK
  <2> QED BY <1>3, <1>4, <1>7, <2>2, <2>3 DEF IInv
<1>11. CASE key \in DOMAIN m
  <2> DEFINE entry == [key |-> key, next |-> 1]
             n == Len(loops)
  <2>1. loops' = Append(loops, entry)
    BY <1>11 DEF Enter
  <2>2. /\ n \in Nat /\ DOMAIN loops = 1..n /\ DOMAIN loops' = 1 .. n + 1
        /\ loops'[n + 1] = entry /\ \A i \in 1..n : loops'[i] = loops[i]
        /\ loops' \in Seq(Loops)
    <3>1. entry \in Loops
      BY DEF Loops
    <3>2. loops \in Seq(Loops)
      BY DEF IInv, LoopsOK
    <3> HIDE DEF entry
    <3> QED BY <2>1, <3>1, <3>2
  <2>3. \A i \in DOMAIN loops' : \/ i \in DOMAIN loops /\ loops'[i] = loops[i]
                                 \/ i = n + 1 /\ loops'[i].key = key /\ loops'[i].next = 1
    BY <2>2
  <2>4. StatusOf(key)' = "calculating" /\ 1 <= Len(m[key]) + 1
    BY <1>6, <1>11, MapFacts
  <2> HIDE DEF n, entry
  <2>5. LoopsOK'
    <3>1. \A i \in DOMAIN loops' : \A k : k = loops'[i].key =>
             /\ k \in DOMAIN m /\ loops'[i].next <= Len(m[k]) + 1
             /\ StatusOf(k)' = "calculating"
      BY <1>8, <1>11, <2>3, <2>4, LoopFacts
    <3>2. \A i, j \in DOMAIN loops' : i # j => loops'[i].key # loops'[j].key
      BY <1>8, <2>3, LoopFacts
    <3> QED BY <1>2, <2>2, <3>1, <3>2 DEF LoopsOK
  <2>6. PassedOK'
    <3>1. \A i \in DOMAIN loops' : \A j \in 1 .. loops'[i].next - 1 :
             i \in DOMAIN loops /\ loops'[i] = loops[i]
      BY <2>3
    <3> QED BY <1>1, <1>2, <1>9, <3>1 DEF PassedOK
  <2>7. StateOK'
    BY <1>3
  <2> QED BY <1>4, <1>7, <2>5, <2>6, <2>7 DEF IInv
<1> QED BY <1>10, <1>11

LEMMA PassChildLoops ==
  ASSUME IInv, PassChild
  PROVE  /\ DOMAIN loops' = DOMAIN loops
         /\ loops'[Len(loops)] = [key |-> Active.key, next |-> Active.next + 1]
         /\ \A i \in DOMAIN loops : i # Len(loops) => loops'[i] = loops[i]
         /\ loops' \in Seq(Loops)
<1> DEFINE n == Len(loops)
           a == Active
           passed == [key |-> a.key, next |-> a.next + 1]
<1>1. Looping /\ loops' = [loops EXCEPT ![Len(loops)].next = @ + 1]
  BY DEF PassChild
<1>2. /\ n \in DOMAIN loops /\ DOMAIN loops = 1 .. n /\ n \in Nat
      /\ loops[n] = [key |-> a.key, next |-> a.next]
      /\ passed \in Loops
  BY <1>1, ActiveFacts, LoopFacts DEF Loops
<1>3. loops' = [i \in DOMAIN loops |-> IF i = n THEN passed ELSE loops[i]]
  <2>1. [loops[n] EXCEPT !.next = @ + 1] = passed
    BY <1>2
  <2>2. loops' = [i \in DOMAIN loops |-> IF i = n THEN [loops[n] EXCEPT !.next = @ + 1]
                                         ELSE loops[i]]
    BY <1>1, <1>2
  <2> QED BY <2>1, <2>2
<1>4. loops \in Seq(Loops)
  BY DEF IInv, LoopsOK
<1> HIDE DEF passed, n
<1>5. \A i \in 1..n : loops'[i] \in Loops
  BY <1>2, <1>3, <1>4
<1>6. /\ DOMAIN loops' = DOMAIN loops /\ loops'[n] = passed
      /\ \A i \in DOMAIN loops : i # n => loops'[i] = loops[i]
      /\ loops' \in Seq(Loops)
  BY <1>2, <1>3, <1>5
<1> QED BY <1>6 DEF passed, n

LEMMA PassChildPreserves ==
  ASSUME IInv, PassChild
  PROVE  IInv'
<1> DEFINE m == include_map
           n == Len(loops)
           a == Active
           passed == [key |-> a.key, next |-> a.next + 1]
<1>1. /\ Looping
      /\ a.next <= Len(ActiveValues)
      /\ StatusOf(NextChild) # "unused"
      /\ cycle_found' = (cycle_found \/ StatusOf(NextChild) = "calculating")
      /\ loops' = [loops EXCEPT ![Len(loops)].next = @ + 1]
      /\ UNCHANGED <<phase, picker, num_calls, to_expand, seen_nodes, declared>>
  BY DEF PassChild
<1>2. m' = m
  BY <1>1 DEF include_map
<1>3. phase = "closing" /\ cycle_found' \in BOOLEAN
  BY <1>1 DEF Looping, IInv, StateOK
<1>4. StateOK' /\ BestOK' /\ SeenOK'
  BY <1>1, <1>2, <1>3 DEF IInv, StateOK, Adding, ToExpandOK, BestOK, SeenOK
<1>5. \A k : StatusOf(k)' = StatusOf(k)
  BY <1>1 DEF StatusOf
<1>6. /\ DOMAIN loops' = DOMAIN loops /\ loops'[n] = passed
      /\ \A i \in DOMAIN loops : i # n => loops'[i] = loops[i]
      /\ loops' \in Seq(Loops)
  BY PassChildLoops
<1>7. \A i \in DOMAIN loops : loops'[i].key = loops[i].key
  BY <1>1, <1>6, ActiveFacts
<1>8. LoopsOK'
  <2>1. \A i \in DOMAIN loops' : \A k : k = loops'[i].key =>
           /\ k \in DOMAIN m /\ loops'[i].next <= Len(m[k]) + 1
           /\ StatusOf(k)' = "calculating"
    <3> SUFFICES ASSUME NEW i \in DOMAIN loops, NEW k, k = loops'[i].key
                 PROVE  /\ k \in DOMAIN m /\ loops'[i].next <= Len(m[k]) + 1
                        /\ StatusOf(k)' = "calculating"
      BY <1>6
    <3>1. CASE i # n
      BY <1>5, <1>6, <3>1, LoopFacts
    <3>2. CASE i = n
      BY <1>1, <1>5, <1>6, <3>2, ActiveFacts
    <3> QED BY <3>1, <3>2
  <2>2. \A i, j \in DOMAIN loops' : i # j => loops'[i].key # loops'[j].key
    BY <1>6, <1>7, LoopFacts
  <2> QED BY <1>2, <1>6, <2>1, <2>2 DEF LoopsOK
<1>9. PassedOK'
  <2> SUFFICES ASSUME NEW i \in DOMAIN loops, NEW j \in 1 .. loops'[i].next - 1, NEW k,
                      k = m[loops[i].key][j].quoted_include
               PROVE  StatusOf(k) = "done" \/ (StatusOf(k) = "calculating" /\ cycle_found')
    BY <1>2, <1>5, <1>6, <1>7 DEF PassedOK
  <2>1. CASE j \in 1 .. loops[i].next - 1
    BY <1>1, <2>1 DEF IInv, PassedOK
  <2>2. CASE j \notin 1 .. loops[i].next - 1
    <3>1. i = n /\ j = a.next
      BY <1>1, <1>6, <2>2, ActiveFacts
    <3>2. k = NextChild
      BY <1>1, <3>1, ActiveFacts DEF NextChild
    <3>3. StatusOf(k) \in {"unused", "calculating", "done"}
      BY StatusInMap
    <3> QED BY <1>1, <3>2, <3>3
  <2> QED BY <2>1, <2>2
<1> QED BY <1>4, <1>8, <1>9 DEF IInv

LEMMA LeaveFacts ==
  ASSUME IInv, Leave
  PROVE  /\ phase = "closing" /\ UNCHANGED <<phase, num_calls, to_expand, declared, cycle_found>>
         /\ PickerOK(picker')
         /\ DOMAIN include_map' = DOMAIN include_map
         /\ \A k \in DOMAIN include_map : include_map'[k] =
               IF k = Active.key THEN ExpandOnce(include_map, include_map[k])
               ELSE include_map[k]
         /\ seen_nodes' = Assign(seen_nodes, Active.key, "done")
         /\ DOMAIN loops' = 1 .. Len(loops) - 1 /\ loops' \in Seq(Loops)
         /\ \A n \in DOMAIN loops' : /\ loops'[n] = loops[n] /\ n \in DOMAIN loops
                                     /\ loops[n].key # Active.key
<1> DEFINE m == include_map
           a == Active.key
           closed == ExpandOnce(m, m[a])
           more == [m EXCEPT ![a] = closed]
<1>1. /\ Looping
      /\ seen_nodes' = [seen_nodes EXCEPT ![a] = "done"]
      /\ picker' = [picker EXCEPT !.filepath_include_map[a] = ExpandOnce(m, @)]
      /\ loops' = Front(loops)
      /\ UNCHANGED <<phase, num_calls, to_expand, declared, cycle_found>>
  BY DEF Leave
<1>2. phase = "closing"
  BY <1>1 DEF Looping
<1>3. /\ a \in DOMAIN m /\ a \in DOMAIN seen_nodes /\ a \in Keys
      /\ PickerOK(picker) /\ MapOK(m)
  BY <1>1, ActiveFacts, StatusInMap, PickerHolds DEF PickerOK, include_map
<1>4. closed \in Seq(Mapped) /\ Len(closed) # 0
  BY <1>3, ExpandOnceAddsChildren DEF MapOK
<1>5. /\ picker'.filepath_include_map = more
      /\ DOMAIN picker' = PickerFields
      /\ picker'.symbol_maps = picker.symbol_maps
      /\ picker'.quoted_includes = picker.quoted_includes
  <2>1. picker' = [picker EXCEPT !.filepath_include_map =
                     [picker.filepath_include_map EXCEPT
                        ![a] = ExpandOnce(m, picker.filepath_include_map[a])]]
    BY <1>1
  <2>2. [picker.filepath_include_map EXCEPT
           ![a] = ExpandOnce(m, picker.filepath_include_map[a])] = more
    BY DEF include_map
  <2>3. picker' = [picker EXCEPT !.filepath_include_map = more]
    BY <2>1, <2>2
  <2> HIDE DEF more
  <2> QED BY <1>3, <2>3 DEF PickerOK, PickerFields
<1> HIDE DEF closed
<1>6. /\ DOMAIN more = DOMAIN m
      /\ \A k \in DOMAIN m : more[k] = IF k = a THEN closed ELSE m[k]
  OBVIOUS
<1> HIDE DEF more
<1>7. MapOK(more)
  BY <1>3, <1>4, <1>6 DEF MapOK
<1>8. PickerOK(picker')
  BY <1>3, <1>5, <1>7 DEF PickerOK
<1>9. include_map' = more
  BY <1>5 DEF include_map
<1>10. seen_nodes' = Assign(seen_nodes, a, "done")
  BY <1>1, <1>3 DEF Assign
<1>11. /\ DOMAIN loops' = 1 .. Len(loops) - 1 /\ loops' \in Seq(Loops)
       /\ \A n \in DOMAIN loops' : /\ loops'[n] = loops[n] /\ n \in DOMAIN loops
                                   /\ n # Len(loops)
  <2> DEFINE n == Len(loops)
  <2>1. n \in Nat \ {0} /\ DOMAIN loops = 1..n /\ loops \in Seq(Loops)
    BY <1>1, ActiveFacts, LoopFacts DEF IInv, LoopsOK
  <2>2. loops' = SubSeq(loops, 1, n - 1)
    BY <1>1 DEF Front
  <2>3. \A i \in 1 .. n - 1 : loops[i] \in Loops
    BY <2>1
  <2>4. loops' = [i \in 1 .. n - 1 |-> loops[i]]
    BY <2>1, <2>2
  <2>5. loops' \in Seq(Loops)
    BY <2>1, <2>2, <2>3
  <2>6. /\ DOMAIN loops' = 1 .. n - 1
        /\ \A i \in 1 .. n - 1 : loops'[i] = loops[i] /\ i \in 1..n /\ i # n
    <3>1. DOMAIN loops' = 1 .. n - 1 /\ \A i \in 1 .. n - 1 : loops'[i] = loops[i]
      BY <2>4
    <3>2. \A i \in 1 .. n - 1 : i \in 1..n /\ i # n
      <4> HIDE DEF n
      <4> QED BY <2>1
    <3> QED BY <3>1, <3>2
  <2> QED BY <2>1, <2>5, <2>6
<1>12. \A n \in DOMAIN loops' : loops[n].key # a
  BY <1>1, <1>11, ActiveFacts, LoopFacts
<1>13. \A k \in DOMAIN m : more[k] = IF k = a THEN ExpandOnce(m, m[k]) ELSE m[k]
  BY <1>6 DEF closed
<1> QED BY <1>1, <1>2, <1>6, <1>8, <1>9, <1>10, <1>11, <1>12, <1>13

LEMMA LeavePreserves ==
  ASSUME IInv, Leave
  PROVE  IInv'
<1> DEFINE m == include_map
           a == Active.key
<1>1. /\ phase = "closing" /\ UNCHANGED <<phase, num_calls, to_expand, declared, cycle_found>>
      /\ PickerOK(picker')
      /\ DOMAIN m' = DOMAIN m
      /\ \A k \in DOMAIN m : m'[k] = IF k = a THEN ExpandOnce(m, m[k]) ELSE m[k]
      /\ seen_nodes' = Assign(seen_nodes, a, "done")
      /\ DOMAIN loops' = 1 .. Len(loops) - 1 /\ loops' \in Seq(Loops)
      /\ \A n \in DOMAIN loops' : /\ loops'[n] = loops[n] /\ n \in DOMAIN loops
                                  /\ loops[n].key # a
  BY LeaveFacts
<1>2. \A k : StatusOf(k)' = IF k = a THEN "done" ELSE StatusOf(k)
  <2> DEFINE key == a
  <2>1. seen_nodes' = Assign(seen_nodes, key, "done")
    BY <1>1
  <2> HIDE DEF key
  <2>2. \A k : StatusOf(k)' = IF k = key THEN "done" ELSE StatusOf(k)
    BY <2>1, StatusAfter
  <2> QED BY <2>2 DEF key
<1>3. a \in Keys /\ a \in DOMAIN m
  BY ActiveFacts DEF Leave
<1>4. StateOK'
  BY <1>1 DEF IInv, StateOK, Adding, ToExpandOK
<1>5. SeenOK'
  BY <1>1, <1>3 DEF IInv, SeenOK, Assign
<1>6. LoopsOK'
  <2>1. \A i \in DOMAIN loops' : \A k : k = loops'[i].key =>
           /\ k \in DOMAIN m' /\ loops'[i].next <= Len(m'[k]) + 1
           /\ StatusOf(k)' = "calculating"
    BY <1>1, <1>2, LoopFacts
  <2>2. \A i, j \in DOMAIN loops' : i # j => loops'[i].key # loops'[j].key
    BY <1>1, LoopFacts
  <2> QED BY <1>1, <2>1, <2>2 DEF LoopsOK
<1>7. PassedOK'
  <2> SUFFICES ASSUME NEW i \in DOMAIN loops', NEW j \in 1 .. loops'[i].next - 1, NEW k,
                      k = m[loops[i].key][j].quoted_include
               PROVE  StatusOf(k)' = "done" \/ (StatusOf(k)' = "calculating" /\ cycle_found)
    BY <1>1, LoopFacts DEF PassedOK
  <2>1. StatusOf(k) = "done" \/ (StatusOf(k) = "calculating" /\ cycle_found)
    BY <1>1 DEF IInv, PassedOK
  <2> QED BY <1>2, <2>1
<1>8. BestOK'
  <2>1. /\ MapOK(declared) /\ MapOK(m) /\ DOMAIN declared = DOMAIN m
        /\ \A k \in DOMAIN declared : m[k][1].quoted_include = declared[k][1].quoted_include
    BY PickerHolds DEF IInv, BestOK, PickerOK, include_map
  <2>2. \A k \in DOMAIN m : ExpandOnce(m, m[k])[1] = m[k][1]
    BY <2>1, ExpandOnceAddsChildren DEF MapOK
  <2>3. \A k \in DOMAIN m : m'[k][1] = m[k][1]
    BY <1>1, <2>2
  <2> QED BY <1>1, <2>1, <2>3 DEF BestOK
<1> QED BY <1>4, <1>5, <1>6, <1>7, <1>8 DEF IInv

LEMMA FinishPreserves ==
  ASSUME IInv, Finish
  PROVE  IInv'
<1>1. /\ loops = <<>>
      /\ picker' = [picker EXCEPT !.symbol_maps =
                       [s \in DOMAIN @ |-> ExpandOnce(include_map, @[s])]]
      /\ phase' = "final"
      /\ UNCHANGED <<num_calls, to_expand, seen_nodes, loops, cycle_found, declared>>
  BY DEF Finish, closing_vars
<1>2. PickerOK(picker) /\ MapOK(include_map)
  BY PickerHolds DEF PickerOK, include_map
<1> DEFINE symbols == [s \in DOMAIN picker.symbol_maps |->
                         ExpandOnce(include_map, picker.symbol_maps[s])]
<1>3. \A s \in DOMAIN symbols : symbols[s] \in Seq(Mapped)
  BY <1>2, ExpandOnceAddsChildren DEF PickerOK
<1>4. /\ DOMAIN picker' = PickerFields
      /\ picker'.filepath_include_map = picker.filepath_include_map
      /\ picker'.symbol_maps = symbols
      /\ picker'.quoted_includes = picker.quoted_includes
  BY <1>1, <1>2 DEF PickerOK, PickerFields
<1> HIDE DEF symbols
<1>5. PickerOK(picker')
  BY <1>2, <1>3, <1>4 DEF PickerOK
<1>6. include_map' = include_map
  BY <1>4 DEF include_map
<1>7. StateOK'
  BY <1>1, <1>5, <1>6 DEF IInv, StateOK, Adding, ToExpandOK
<1>8. LoopsOK' /\ SeenOK' /\ PassedOK' /\ BestOK'
  BY <1>1, <1>6 DEF IInv, LoopsOK, SeenOK, PassedOK, BestOK, StatusOf
<1> QED BY <1>7, <1>8 DEF IInv

-----------------------------------------------------------------------------
(* The search, as MapClosure sees it. *)
AheadIn(m, key, next) ==
  {m[key][j].quoted_include : j \in next .. Len(m[key])}
    \ {m[key][j].quoted_include : j \in 1 .. next - 1}

UnvisitedOK ==
  \A k \in Keys :
    /\ \A n \in DOMAIN loops : loops[n].key = k =>
          ClosureUnvisited[k] = AheadIn(include_map, k, loops[n].next)
    /\ (\A n \in DOMAIN loops : loops[n].key # k) => ClosureUnvisited[k] = {}

LEMMA UnvisitedIs == IInv => UnvisitedOK
<1> SUFFICES ASSUME IInv, NEW k \in Keys
             PROVE  /\ \A n \in DOMAIN loops : loops[n].key = k =>
                         ClosureUnvisited[k] = AheadIn(include_map, k, loops[n].next)
                    /\ (\A n \in DOMAIN loops : loops[n].key # k) =>
                         ClosureUnvisited[k] = {}
  BY DEF UnvisitedOK
<1> DEFINE mine == {l \in Range(loops) : l.key = k}
<1>1. ClosureUnvisited[k] = UNION {Ahead(l) : l \in mine}
  BY DEF ClosureUnvisited
<1>2. ASSUME NEW n \in DOMAIN loops, loops[n].key = k
      PROVE  ClosureUnvisited[k] = AheadIn(include_map, k, loops[n].next)
  <2>1. mine = {loops[n]}
    BY <1>2, LoopFacts DEF Range
  <2>2. Ahead(loops[n]) = AheadIn(include_map, k, loops[n].next)
    BY <1>2 DEF Ahead, AheadIn
  <2> HIDE DEF mine
  <2> QED BY <1>1, <2>1, <2>2
<1>3. ASSUME \A n \in DOMAIN loops : loops[n].key # k
      PROVE  ClosureUnvisited[k] = {}
  <2>1. mine = {}
    BY <1>3 DEF Range
  <2> HIDE DEF mine
  <2> QED BY <1>1, <2>1
<1> QED BY <1>2, <1>3

LEMMA UnvisitedIsThen == IInv' => UnvisitedOK'
BY UnvisitedIs, PTL

LEMMA StackIs ==
  ASSUME IInv
  PROVE  /\ ClosureStack \in Seq(Keys) /\ Len(ClosureStack) = Len(loops)
         /\ ClosureStack = <<>> <=> loops = <<>>
         /\ DOMAIN ClosureStack = DOMAIN loops
         /\ Looping => ClosureStack[Len(loops)] = Active.key
<1> DEFINE n == Len(loops)
<1>1. n \in Nat /\ DOMAIN loops = 1..n /\ \A i \in 1..n : loops[i].key \in Keys
  BY LoopFacts
<1>2. /\ ClosureStack = [i \in 1..n |-> loops[i].key]
      /\ \A i \in 1..n : ClosureStack[i] = loops[i].key
  BY <1>1 DEF ClosureStack
<1>3. ClosureStack \in [1..n -> Keys]
  BY <1>1, <1>2
<1>4. n = 0 <=> loops = <<>>
  BY DEF IInv, LoopsOK
<1> HIDE DEF n
<1>5. ClosureStack \in Seq(Keys) /\ Len(ClosureStack) = n /\ DOMAIN ClosureStack = 1..n
      /\ (ClosureStack = <<>> <=> n = 0)
  BY <1>1, <1>3
<1>6. Looping => ClosureStack[n] = Active.key
  BY <1>1, <1>2, ActiveFacts DEF n
<1> QED BY <1>1, <1>4, <1>5, <1>6 DEF n

LEMMA MapTargetsType ==
  ASSUME IInv
  PROVE  /\ TargetsOf(include_map) \in [Keys -> SUBSET Keys]
         /\ \A k \in Keys : TargetsOf(include_map)[k] = {} <=> k \notin DOMAIN include_map
         /\ \A k \in Keys : k \in DOMAIN include_map =>
               TargetsOf(include_map)[k] =
                  {include_map[k][j].quoted_include : j \in 1 .. Len(include_map[k])}
<1>1. MapOK(include_map)
  BY DEF IInv, StateOK, PickerOK, include_map
<1>2. ASSUME NEW k \in Keys, k \in DOMAIN include_map
      PROVE  TargetsOf(include_map)[k] =
                {include_map[k][j].quoted_include : j \in 1 .. Len(include_map[k])}
  <2> DEFINE values == include_map[k]
  <2>1. TargetsOf(include_map)[k] = NamesIn(values)
    BY <1>2, TargetsAre DEF TargetsOf
  <2>2. values \in Seq(Mapped)
    BY <1>2, MapFacts
  <2> HIDE DEF values
  <2>3. NamesIn(values) = {values[j].quoted_include : j \in 1 .. Len(values)}
    BY <2>2, NamesOfRange
  <2> QED BY <2>1, <2>3 DEF values
<1> QED BY <1>1, <1>2, TargetsOfType

LEMMA EnterImplements ==
  ASSUME IInv, IInv', phase = "closing", NEW key \in Keys, Enter(key)
  PROVE  Closure!Enter(key)
<1> DEFINE m == include_map
           status == IF key \notin DOMAIN m THEN "done" ELSE "calculating"
<1>1. /\ StatusOf(key) = "unused"
      /\ UNCHANGED <<phase, picker, num_calls, to_expand, declared, cycle_found>>
  BY DEF Enter
<1>2. m' = m
  BY <1>1 DEF include_map
<1>3. seen_nodes' = Assign(seen_nodes, key, status)
  BY DEF Enter
<1>4. \A k : StatusOf(k)' = IF k = key THEN status ELSE StatusOf(k)
  <2> HIDE DEF status
  <2> QED BY <1>3, StatusAfter
<1>5. ClosureStatus' = [ClosureStatus EXCEPT ![key] = status]
  <2> HIDE DEF status
  <2> QED BY <1>4 DEF ClosureStatus
<1>6. ClosureStatus[key] = "unused"
  BY <1>1 DEF ClosureStatus
<1>7. /\ ClosurePhase' = ClosurePhase /\ TargetsOf(declared)' = TargetsOf(declared)
      /\ TargetsOf(include_map)' = TargetsOf(include_map)
  BY <1>1, <1>2 DEF ClosurePhase, TargetsOf
<1>8. UnvisitedOK /\ UnvisitedOK'
  BY UnvisitedIs, UnvisitedIsThen
<1>9. CASE key \notin DOMAIN m
  <2>1. loops' = loops
    BY <1>9 DEF Enter
  <2>2. ClosureStack' = ClosureStack
    BY <2>1 DEF ClosureStack
  <2>3. ClosureUnvisited' = ClosureUnvisited
    BY <1>2, <2>1 DEF ClosureUnvisited, Ahead
  <2>4. TargetsOf(include_map)[key] = {}
    BY <1>9, MapTargetsType
  <2> QED BY <1>1, <1>5, <1>6, <1>7, <1>9, <2>2, <2>3, <2>4 DEF Closure!Enter
<1>10. CASE key \in DOMAIN m
  <2> DEFINE entry == [key |-> key, next |-> 1]
             n == Len(loops)
  <2>1. loops' = Append(loops, entry) /\ entry.key = key /\ entry.next = 1
    BY <1>10 DEF Enter
  <2> HIDE DEF entry
  <2>2. /\ n \in Nat /\ DOMAIN loops = 1..n /\ DOMAIN loops' = 1 .. n + 1
        /\ loops'[n + 1] = entry /\ \A i \in 1..n : loops'[i] = loops[i]
    <3>1. loops \in Seq(Loops)
      BY DEF IInv, LoopsOK
    <3> QED BY <2>1, <3>1
  <2> HIDE DEF n
  <2>3. ClosureStack' = Append(ClosureStack, key)
    <3> DEFINE stack == ClosureStack
    <3>1. stack \in Seq(Keys) /\ Len(stack) = n
      BY StackIs DEF n
    <3>2. ClosureStack' = [i \in 1 .. n + 1 |-> loops'[i].key]
      BY <2>2 DEF ClosureStack
    <3>3. \A i \in 1..n : stack[i] = loops[i].key
      BY <2>2 DEF ClosureStack
    <3> HIDE DEF stack
    <3>4. Append(stack, key) = [i \in 1 .. n + 1 |-> IF i = n + 1 THEN key ELSE stack[i]]
      <4> DEFINE more == Append(stack, key)
      <4>1. /\ more \in Seq(Keys) /\ DOMAIN more = 1 .. n + 1
            /\ \A i \in 1 .. n + 1 : more[i] = IF i = n + 1 THEN key ELSE stack[i]
        BY <2>2, <3>1
      <4> HIDE DEF more
      <4>2. more = [i \in 1 .. n + 1 |-> more[i]]
        BY <4>1
      <4> QED BY <4>1, <4>2 DEF more
    <3>5. \A i \in 1 .. n + 1 : loops'[i].key = IF i = n + 1 THEN key ELSE stack[i]
      BY <2>1, <2>2, <3>3
    <3> QED BY <3>2, <3>4, <3>5 DEF stack
  <2>4. ClosureUnvisited' = [ClosureUnvisited EXCEPT ![key] = TargetsOf(include_map)[key]]
    <3> SUFFICES ASSUME NEW k \in Keys
                 PROVE  ClosureUnvisited'[k] = IF k = key THEN TargetsOf(include_map)[key]
                                               ELSE ClosureUnvisited[k]
      BY DEF ClosureUnvisited
    <3>1. CASE k = key
      <4>1. ClosureUnvisited'[k] = AheadIn(m', k, 1)
        BY <1>8, <2>1, <2>2, <3>1 DEF UnvisitedOK
      <4>2. AheadIn(m, k, 1) = TargetsOf(include_map)[k]
        BY <1>10, <3>1, MapTargetsType DEF AheadIn
      <4> QED BY <1>2, <3>1, <4>1, <4>2
    <3>2. CASE k # key
      <4>1. CASE \E i \in DOMAIN loops : loops[i].key = k
        <5>1. PICK i \in DOMAIN loops : loops[i].key = k
          BY <4>1
        <5>2. i \in DOMAIN loops' /\ loops'[i] = loops[i]
          BY <2>2, <5>1
        <5> QED BY <1>2, <1>8, <3>2, <5>1, <5>2 DEF UnvisitedOK
      <4>2. CASE ~ \E i \in DOMAIN loops : loops[i].key = k
        <5>1. \A i \in DOMAIN loops' : loops'[i].key # k
          BY <2>1, <2>2, <3>2, <4>2
        <5> QED BY <1>8, <3>2, <4>2, <5>1 DEF UnvisitedOK
      <4> QED BY <4>1, <4>2
    <3> QED BY <3>1, <3>2
  <2>5. TargetsOf(include_map)[key] # {}
    BY <1>10, MapTargetsType
  <2> QED BY <1>1, <1>5, <1>6, <1>7, <1>10, <2>3, <2>4, <2>5 DEF Closure!Enter
<1> QED BY <1>9, <1>10

LEMMA StatusIs ==
  ASSUME NEW k \in Keys
  PROVE  ClosureStatus[k] = StatusOf(k)
BY DEF ClosureStatus

LEMMA SearchingIs ==
  ASSUME IInv, Looping
  PROVE  Closure!Searching /\ Closure!Active = Active.key
<1>1. ClosurePhase = "closing"
  BY DEF Looping, ClosurePhase
<1>2. ClosureStack # <<>> /\ ClosureStack[Len(ClosureStack)] = Active.key
  BY StackIs DEF Looping
<1> QED BY <1>1, <1>2 DEF Closure!Searching, Closure!Active

(* A child that occurred before in the vector is behind the loop already.  *)
LEMMA PassChildImplements ==
  ASSUME IInv, IInv', PassChild
  PROVE  Closure!PassChild(NextChild) \/ UNCHANGED Closure!vars
<1> DEFINE m == include_map
           n == Len(loops)
           a == Active.key
           child == NextChild
           next == Active.next
<1>1. /\ Looping
      /\ next <= Len(ActiveValues)
      /\ StatusOf(child) # "unused"
      /\ cycle_found' = (cycle_found \/ StatusOf(child) = "calculating")
      /\ UNCHANGED <<phase, picker, num_calls, to_expand, seen_nodes, declared>>
  BY DEF PassChild
<1>2. m' = m
  BY <1>1 DEF include_map
<1>3. /\ n \in DOMAIN loops /\ loops[n].key = a /\ loops[n].next = next
      /\ a \in Keys /\ a \in DOMAIN m /\ next \in Nat \ {0}
      /\ ActiveValues = m[a] /\ Len(m[a]) \in Nat
      /\ child = m[a][next].quoted_include /\ child \in Keys
  BY <1>1, ActiveFacts DEF NextChild
<1>4. /\ DOMAIN loops' = DOMAIN loops /\ loops'[n].key = a /\ loops'[n].next = next + 1
      /\ \A i \in DOMAIN loops : i # n => loops'[i] = loops[i]
      /\ \A i \in DOMAIN loops : loops'[i].key = loops[i].key
  BY <1>3, PassChildLoops
<1>5. ClosureStack' = ClosureStack
  BY <1>4 DEF ClosureStack
<1>6. /\ ClosurePhase' = ClosurePhase /\ TargetsOf(declared)' = TargetsOf(declared)
      /\ TargetsOf(m)' = TargetsOf(m) /\ ClosureStatus' = ClosureStatus
  BY <1>1, <1>2 DEF ClosurePhase, TargetsOf, ClosureStatus, StatusOf
<1>7. UnvisitedOK /\ UnvisitedOK'
  BY UnvisitedIs, UnvisitedIsThen
<1>8. AheadIn(m, a, next + 1) = AheadIn(m, a, next) \ {child}
  <2>1. /\ next .. Len(m[a]) = {next} \cup (next + 1 .. Len(m[a]))
        /\ 1 .. (next + 1) - 1 = {next} \cup (1 .. next - 1)
    BY <1>1, <1>3
  <2> DEFINE target(j) == m[a][j].quoted_include
             later == {target(j) : j \in next + 1 .. Len(m[a])}
             before == {target(j) : j \in 1 .. next - 1}
  <2>2. {target(j) : j \in next .. Len(m[a])} = {child} \cup later
    BY <1>3, <2>1
  <2>3. {target(j) : j \in 1 .. (next + 1) - 1} = {child} \cup before
    BY <1>3, <2>1
  <2>4. AheadIn(m, a, next + 1) = later \ ({child} \cup before)
    BY <2>3 DEF AheadIn
  <2>5. AheadIn(m, a, next) = ({child} \cup later) \ before
    BY <2>2 DEF AheadIn
  <2> HIDE DEF later, before
  <2> QED BY <2>4, <2>5
<1>9. ClosureUnvisited' = [ClosureUnvisited EXCEPT ![a] = @ \ {child}]
  <2> HIDE DEF m, child
  <2> SUFFICES ASSUME NEW k \in Keys
               PROVE  ClosureUnvisited'[k] = IF k = a THEN ClosureUnvisited[k] \ {child}
                                             ELSE ClosureUnvisited[k]
    BY <1>3 DEF ClosureUnvisited
  <2>1. CASE k = a
    <3>1. ClosureUnvisited'[k] = AheadIn(m', k, next + 1)
      BY <1>3, <1>4, <1>7, <2>1 DEF UnvisitedOK, m
    <3>2. ClosureUnvisited[k] = AheadIn(m, k, next)
      BY <1>3, <1>7, <2>1 DEF UnvisitedOK, m
    <3> QED BY <1>2, <1>8, <2>1, <3>1, <3>2
  <2>2. CASE k # a /\ \E i \in DOMAIN loops : loops[i].key = k
    <3>1. PICK i \in DOMAIN loops : loops[i].key = k
      BY <2>2
    <3>2. loops'[i] = loops[i]
      BY <1>3, <1>4, <2>2, <3>1
    <3>3. ClosureUnvisited'[k] = AheadIn(m', k, loops[i].next)
      BY <1>4, <1>7, <3>1, <3>2 DEF UnvisitedOK, m
    <3>4. ClosureUnvisited[k] = AheadIn(m, k, loops[i].next)
      BY <1>7, <3>1 DEF UnvisitedOK, m
    <3> QED BY <1>2, <2>2, <3>3, <3>4
  <2>3. CASE k # a /\ ~ \E i \in DOMAIN loops : loops[i].key = k
    BY <1>4, <1>7, <2>3 DEF UnvisitedOK
  <2> QED BY <2>1, <2>2, <2>3
<1>10. ClosureUnvisited[a] = AheadIn(m, a, next)
  BY <1>3, <1>7 DEF UnvisitedOK
<1>11. CASE child \in AheadIn(m, a, next)
  <2>1. Closure!Searching /\ Closure!Active = a
    BY <1>1, SearchingIs
  <2>2. ClosureStatus[child] # "unused"
        /\ cycle_found' = (cycle_found \/ ClosureStatus[child] = "calculating")
    BY <1>1, <1>3, StatusIs
  <2> HIDE DEF a, child, m
  <2> QED BY <1>5, <1>6, <1>9, <1>10, <1>11, <2>1, <2>2 DEF Closure!PassChild, m, child
<1>12. CASE child \notin AheadIn(m, a, next)
  <2>1. PICK j \in 1 .. next - 1 : child = m[a][j].quoted_include
    <3>1. next \in next .. Len(m[a])
      BY <1>1, <1>3
    <3> QED BY <1>3, <1>12, <3>1 DEF AheadIn
  <2>2. StatusOf(child) = "done" \/ (StatusOf(child) = "calculating" /\ cycle_found)
    BY <1>3, <2>1 DEF IInv, PassedOK
  <2>3. cycle_found' = cycle_found
    BY <1>1, <2>2 DEF IInv, StateOK
  <2>4. ClosureUnvisited' = ClosureUnvisited
    <3>1. ClosureUnvisited[a] \ {child} = ClosureUnvisited[a]
      BY <1>10, <1>12
    <3> QED BY <1>3, <1>9, <3>1 DEF ClosureUnvisited
  <2> QED BY <1>5, <1>6, <2>3, <2>4 DEF Closure!vars
<1> QED BY <1>11, <1>12

LEMMA LeaveImplements ==
  ASSUME IInv, IInv', Leave
  PROVE  Closure!Leave
<1> DEFINE m == include_map
           n == Len(loops)
           a == Active.key
<1>1. /\ phase = "closing" /\ UNCHANGED <<phase, num_calls, to_expand, declared, cycle_found>>
      /\ DOMAIN m' = DOMAIN m
      /\ \A k \in DOMAIN m : m'[k] = IF k = a THEN ExpandOnce(m, m[k]) ELSE m[k]
      /\ seen_nodes' = Assign(seen_nodes, a, "done")
      /\ DOMAIN loops' = 1 .. n - 1
      /\ \A i \in DOMAIN loops' : /\ loops'[i] = loops[i] /\ i \in DOMAIN loops
                                  /\ loops[i].key # a
  BY LeaveFacts
<1>2. /\ Looping /\ Active.next > Len(m[a])
      /\ a \in Keys /\ a \in DOMAIN m /\ n \in DOMAIN loops /\ n \in Nat \ {0}
      /\ loops[n].key = a /\ loops[n].next = Active.next
      /\ Active.next \in Nat /\ Len(m[a]) \in Nat
  BY ActiveFacts DEF Leave
<1>3. Closure!Searching /\ Closure!Active = a
  BY <1>2, SearchingIs
<1>4. ClosureStatus' = [ClosureStatus EXCEPT ![a] = "done"]
  <2> DEFINE key == a
  <2>1. seen_nodes' = Assign(seen_nodes, key, "done")
    BY <1>1
  <2> HIDE DEF key
  <2>2. \A k : StatusOf(k)' = IF k = key THEN "done" ELSE StatusOf(k)
    BY <2>1, StatusAfter
  <2>3. ClosureStatus' = [ClosureStatus EXCEPT ![key] = "done"]
    BY <2>2 DEF ClosureStatus
  <2> QED BY <2>3 DEF key
<1>5. UnvisitedOK /\ UnvisitedOK'
  BY UnvisitedIs, UnvisitedIsThen
<1>6. ClosureUnvisited[a] = {}
  <2>1. ClosureUnvisited[a] = AheadIn(m, a, Active.next)
    BY <1>2, <1>5 DEF UnvisitedOK
  <2>2. Active.next .. Len(m[a]) = {}
    BY <1>2
  <2> QED BY <2>1, <2>2 DEF AheadIn
<1>7. ClosureUnvisited' = ClosureUnvisited
  <2> HIDE DEF m, a
  <2> SUFFICES ASSUME NEW k \in Keys PROVE ClosureUnvisited'[k] = ClosureUnvisited[k]
    BY DEF ClosureUnvisited
  <2>1. CASE k = a
    <3>1. \A i \in DOMAIN loops' : loops'[i].key # k
      BY <1>1, <2>1
    <3> QED BY <1>5, <1>6, <2>1, <3>1 DEF UnvisitedOK
  <2>2. CASE k # a /\ \E i \in DOMAIN loops' : loops'[i].key = k
    <3>1. PICK i \in DOMAIN loops' : loops'[i].key = k
      BY <2>2
    <3>2. loops[i] = loops'[i] /\ i \in DOMAIN loops
      BY <1>1, <3>1
    <3>3. ClosureUnvisited'[k] = AheadIn(m', k, loops[i].next)
      BY <1>5, <3>1, <3>2 DEF UnvisitedOK, m
    <3>4. ClosureUnvisited[k] = AheadIn(m, k, loops[i].next)
      BY <1>5, <3>1, <3>2 DEF UnvisitedOK, m
    <3>5. k \in DOMAIN m
      BY <3>1, <3>2, LoopFacts DEF m
    <3>6. m'[k] = m[k]
      BY <1>1, <2>2, <3>5
    <3> QED BY <3>3, <3>4, <3>6 DEF AheadIn
  <2>3. CASE k # a /\ ~ \E i \in DOMAIN loops' : loops'[i].key = k
    <3>1. \A i \in DOMAIN loops : loops[i].key # k
      <4> SUFFICES ASSUME NEW i \in DOMAIN loops, loops[i].key = k PROVE FALSE
        OBVIOUS
      <4>1. i # n
        BY <1>2, <2>3
      <4>2. i \in 1 .. n - 1
        BY <1>2, <4>1, LoopFacts
      <4> QED BY <1>1, <2>3, <4>2
    <3> QED BY <1>5, <2>3, <3>1 DEF UnvisitedOK
  <2> QED BY <2>1, <2>2, <2>3
<1>8. TargetsOf(m)' = [TargetsOf(m) EXCEPT ![a] = Closure!ExpandOnce(TargetsOf(m), @)]
  <2>1. MapOK(m) /\ MapOK(m')
    BY DEF IInv, StateOK, PickerOK, include_map
  <2>2. ASSUME NEW k \in Keys, k # a PROVE Targets(m', k) = Targets(m, k)
    <3>1. CASE k \in DOMAIN m
      <4>1. m'[k] = m[k] /\ k \in DOMAIN m'
        BY <1>1, <2>2, <3>1
      <4>2. Targets(m', k) = NamesIn(m'[k])
        BY <4>1, TargetsAre
      <4>3. Targets(m, k) = NamesIn(m[k])
        BY <3>1, TargetsAre
      <4> QED BY <4>1, <4>2, <4>3
    <3>2. CASE k \notin DOMAIN m
      <4>1. Targets(m', k) = {}
        BY <1>1, <3>2, TargetsAre
      <4>2. Targets(m, k) = {}
        BY <3>2, TargetsAre
      <4> QED BY <4>1, <4>2
    <3> QED BY <3>1, <3>2
  <2>3. Targets(m', a) = Closure!ExpandOnce(TargetsOf(m), Targets(m, a))
    <3>1. m[a] \in Seq(Mapped) /\ m'[a] = ExpandOnce(m, m[a])
      BY <1>1, <1>2, <2>1 DEF MapOK
    <3>2. NamesIn(m'[a]) = NamesIn(m[a]) \cup UNION {Targets(m, k) : k \in NamesIn(m[a])}
      BY <2>1, <3>1, ExpandOnceAddsChildren
    <3>3. Targets(m', a) = NamesIn(m'[a])
      BY <1>1, <1>2, TargetsAre
    <3>4. Targets(m, a) = NamesIn(m[a]) /\ NamesIn(m[a]) \subseteq Keys
      BY <1>2, <3>1, TargetsAre, NamesOfSeq
    <3>5. \A k \in NamesIn(m[a]) : TargetsOf(m)[k] = Targets(m, k)
      BY <3>4 DEF TargetsOf
    <3> HIDE DEF a, m
    <3> QED BY <3>2, <3>3, <3>4, <3>5 DEF Closure!ExpandOnce
  <2>4. TargetsOf(m)' = TargetsOf(m')
    BY DEF TargetsOf
  <2> HIDE DEF a, m
  <2>5. TargetsOf(m)[a] = Targets(m, a)
    BY <1>2 DEF TargetsOf
  <2>6. TargetsOf(m') = [TargetsOf(m) EXCEPT ![a] = Targets(m', a)]
    BY <2>2 DEF TargetsOf
  <2> QED BY <2>3, <2>4, <2>5, <2>6 DEF m
<1>9. ClosureStack' = SubSeq(ClosureStack, 1, Len(ClosureStack) - 1)
  <2> DEFINE stack == ClosureStack
  <2>1. stack \in Seq(Keys) /\ Len(stack) = n
    BY StackIs
  <2>2. ClosureStack' = [i \in 1 .. n - 1 |-> loops'[i].key]
    BY <1>1 DEF ClosureStack
  <2>3. \A i \in 1 .. n - 1 : loops'[i].key = stack[i]
    BY <1>1 DEF ClosureStack
  <2> HIDE DEF stack, n
  <2>4. SubSeq(stack, 1, n - 1) = [i \in 1 .. n - 1 |-> stack[i]]
    BY <1>2, <2>1
  <2> QED BY <2>1, <2>2, <2>3, <2>4 DEF stack
<1>10. ClosurePhase' = ClosurePhase /\ TargetsOf(declared)' = TargetsOf(declared)
  BY <1>1 DEF ClosurePhase, TargetsOf
<1> HIDE DEF a, m
<1> QED BY <1>1, <1>3, <1>4, <1>6, <1>7, <1>8, <1>9, <1>10 DEF Closure!Leave, m

LEMMA StartAndFinishImplement ==
  ASSUME IInv, StartClosing \/ Finish
  PROVE  Closure!StartClosing \/ Closure!FinishClosing
<1>1. UNCHANGED <<seen_nodes, loops, cycle_found, declared>>
  BY DEF StartClosing, Finish, closing_vars
<1>2. include_map' = include_map
  <2>1. DOMAIN picker = PickerFields
    BY DEF IInv, StateOK, PickerOK
  <2> QED BY <2>1 DEF StartClosing, Finish, include_map, PickerFields
<1>3. /\ TargetsOf(declared)' = TargetsOf(declared)
      /\ TargetsOf(include_map)' = TargetsOf(include_map)
      /\ ClosureStatus' = ClosureStatus /\ ClosureStack' = ClosureStack
      /\ ClosureUnvisited' = ClosureUnvisited
  BY <1>1, <1>2 DEF TargetsOf, ClosureStatus, StatusOf, ClosureStack, ClosureUnvisited, Ahead
<1>4. CASE StartClosing
  <2>1. ClosurePhase = "adding" /\ ClosurePhase' = "closing"
    BY <1>4 DEF StartClosing, ClosurePhase
  <2> QED BY <1>1, <1>3, <2>1 DEF Closure!StartClosing, Closure!search
<1>5. CASE Finish
  <2>1. ClosurePhase = "closing" /\ ClosurePhase' = "closed"
    BY <1>5 DEF Finish, ClosurePhase
  <2>2. ClosureStack = <<>>
    BY <1>5, StackIs DEF Finish
  <2>3. \A k \in Keys : TargetsOf(include_map)[k] # {} => ClosureStatus[k] = "done"
    BY <1>5, MapTargetsType DEF Finish, ClosureStatus
  <2> QED BY <1>1, <1>3, <2>1, <2>2, <2>3 DEF Closure!FinishClosing, Closure!search
<1> QED BY <1>4, <1>5

-----------------------------------------------------------------------------
(* Every step keeps the invariant, for any tables and calls.               *)
LEMMA NextPreserves ==
  ASSUME IInv, [Next]_vars
  PROVE  IInv'
<1>1. CASE AddInternalMapping
  BY <1>1, AddInternalMappingAdds
<1>2. CASE EndConstructor
  BY <1>2, EndConstructorAdds
<1>3. CASE LoadMapping
  BY <1>3, LoadMappingAdds
<1>4. CASE StartPreprocessing
  BY <1>4, StartAdds
<1>5. CASE SeeInclude
  BY <1>5, SeeIncludeAdds
<1>6. CASE SeePragma
  BY <1>6, SeePragmaAdds
<1>7. CASE StartExpanding
  BY <1>7, StartAdds
<1>8. ASSUME NEW e \in to_expand, ExpandRegex(e[1], e[2][1], e[2][2]) PROVE IInv'
  BY <1>8, ExpandRegexAdds
<1>9. CASE StartClosing
  BY <1>9, StartClosingPreserves
<1>10. CASE EnterRoot
  <2>1. PICK key \in DOMAIN include_map : Enter(key)
    BY <1>10 DEF EnterRoot
  <2>2. key \in Keys
    BY MapFacts
  <2> QED BY <1>10, <2>1, <2>2, EnterPreserves DEF EnterRoot
<1>11. CASE EnterChild
  <2>1. \E key \in Keys : Enter(key)
    <3>1. Enter(NextChild)
      BY <1>11 DEF EnterChild
    <3>2. NextChild \in Keys
      BY <1>11, ActiveFacts DEF EnterChild, NextChild
    <3> QED BY <3>1, <3>2
  <2>2. phase = "closing"
    BY <1>11 DEF EnterChild, Looping
  <2> QED BY <2>1, <2>2, EnterPreserves
<1>12. CASE PassChild
  BY <1>12, PassChildPreserves
<1>13. CASE Leave
  BY <1>13, LeavePreserves
<1>14. CASE Finish
  BY <1>14, FinishPreserves
<1>15. CASE UNCHANGED vars
  <2>1. /\ UNCHANGED <<phase, picker, num_calls, to_expand, seen_nodes, loops,
                       declared, cycle_found>>
    BY <1>15 DEF vars
  <2>2. include_map' = include_map
    BY <2>1 DEF include_map
  <2>3. StateOK' /\ SeenOK'
    BY <2>1, <2>2 DEF IInv, StateOK, SeenOK, Adding, ToExpandOK
  <2>4. LoopsOK' /\ PassedOK' /\ BestOK'
    BY <2>1, <2>2 DEF IInv, LoopsOK, PassedOK, BestOK, StatusOf
  <2> QED BY <2>3, <2>4 DEF IInv
<1> QED BY <1>1, <1>2, <1>3, <1>4, <1>5, <1>6, <1>7, <1>8, <1>9, <1>10, <1>11, <1>12,
           <1>13, <1>14, <1>15 DEF Next, FinalizeAddedIncludes

(* So it holds in every state. *)
THEOREM InductiveInvariant == Spec => []IInv
BY InitIInv, NextPreserves, PTL DEF Spec

(* However the closing goes, the best header of a key stays in front. *)
THEOREM BestAlwaysFirst == Spec => []BestStaysFirst
<1>1. IInv => BestStaysFirst
  BY DEF IInv, BestOK, BestStaysFirst
<1> QED BY <1>1, InductiveInvariant, PTL

-----------------------------------------------------------------------------
(* The vectors and in-place loops of the picker implement the search over  *)
(* sets of MapClosure, duplicates, loop positions and all.                 *)
LEMMA InitImplements ==
  ASSUME Init
  PROVE  Closure!Init
<1> USE DEF Init
<1>1. include_map = <<>> /\ declared = <<>>
  BY DEF include_map, EmptyPicker
<1>2. TargetsOf(include_map) = [k \in Keys |-> {}] /\ TargetsOf(declared) = [k \in Keys |-> {}]
  <2>1. \A k : Targets(<<>>, k) = {}
    BY TargetsAre
  <2> QED BY <1>1, <2>1 DEF TargetsOf
<1>3. ClosurePhase = "adding"
  BY DEF ClosurePhase
<1>4. ClosureStatus = [k \in Keys |-> "unused"]
  BY DEF ClosureStatus, StatusOf, FindInMap
<1>5. ClosureStack = <<>>
  BY DEF ClosureStack
<1>6. ClosureUnvisited = [k \in Keys |-> {}]
  BY DEF ClosureUnvisited, Range
<1> QED BY <1>2, <1>3, <1>4, <1>5, <1>6 DEF Closure!Init

LEMMA NextImplements ==
  ASSUME IInv, IInv', [Next]_vars
  PROVE  [Closure!Next]_(Closure!vars)
<1> USE DEF Closure!Next, Closure!Close
<1>1. CASE AddInternalMapping
  BY <1>1, AddInternalMappingAdds
<1>2. CASE EndConstructor
  BY <1>2, EndConstructorAdds
<1>3. CASE LoadMapping
  BY <1>3, LoadMappingAdds
<1>4. CASE StartPreprocessing
  BY <1>4, StartAdds
<1>5. CASE SeeInclude
  BY <1>5, SeeIncludeAdds
<1>6. CASE SeePragma
  BY <1>6, SeePragmaAdds
<1>7. CASE StartExpanding
  BY <1>7, StartAdds
<1>8. ASSUME NEW e \in to_expand, ExpandRegex(e[1], e[2][1], e[2][2])
      PROVE  Closure!AddMappings
  BY <1>8, ExpandRegexAdds
<1>9. CASE StartClosing \/ Finish
  BY <1>9, StartAndFinishImplement
<1>10. CASE EnterRoot
  <2>1. PICK key \in DOMAIN include_map : Enter(key)
    BY <1>10 DEF EnterRoot
  <2>2. key \in Keys
    BY MapFacts
  <2>3. Closure!Enter(key)
    BY <1>10, <2>1, <2>2, EnterImplements DEF EnterRoot
  <2>4. ClosurePhase = "closing" /\ ClosureStack = <<>>
    BY <1>10, StackIs DEF EnterRoot, ClosurePhase
  <2>5. Closure!EnterRoot(key)
    BY <2>3, <2>4 DEF Closure!EnterRoot
  <2> QED BY <2>2, <2>5
<1>11. CASE EnterChild
  <2>1. /\ Looping /\ Enter(NextChild) /\ phase = "closing"
        /\ Active.next <= Len(ActiveValues)
    BY <1>11 DEF EnterChild, Looping
  <2>2. PICK child \in Keys : child = NextChild
    BY <2>1, ActiveFacts DEF NextChild
  <2>3. Closure!Enter(child)
    BY <2>1, <2>2, EnterImplements
  <2>4. Closure!Searching /\ Closure!Active = Active.key
    BY <2>1, SearchingIs
  <2>5. child \in ClosureUnvisited[Active.key]
    <3> DEFINE a == Active.key
               next == Active.next
    <3>1. /\ a \in Keys /\ a \in DOMAIN include_map /\ next \in Nat \ {0}
          /\ Len(loops) \in DOMAIN loops /\ loops[Len(loops)].key = a
          /\ loops[Len(loops)].next = next
          /\ ActiveValues = include_map[a] /\ Len(include_map[a]) \in Nat
          /\ child = include_map[a][next].quoted_include
      BY <2>1, <2>2, ActiveFacts DEF NextChild
    <3>2. ClosureUnvisited[a] = AheadIn(include_map, a, next)
      BY <3>1, UnvisitedIs DEF UnvisitedOK
    <3>3. \A j \in 1 .. next - 1 : child # include_map[a][j].quoted_include
      <4> SUFFICES ASSUME NEW j \in 1 .. next - 1,
                          child = include_map[a][j].quoted_include
                   PROVE  FALSE
        OBVIOUS
      <4>1. StatusOf(child) # "unused"
        BY <3>1 DEF IInv, PassedOK
      <4> QED BY <2>1, <2>2, <4>1 DEF Enter
    <3>4. next \in next .. Len(include_map[a])
      BY <2>1, <3>1
    <3> HIDE DEF a, next
    <3>5. child \in AheadIn(include_map, a, next)
      BY <3>1, <3>3, <3>4 DEF AheadIn
    <3> QED BY <3>2, <3>5 DEF a, next
  <2>6. Closure!EnterChild(child)
    BY <2>3, <2>4, <2>5 DEF Closure!EnterChild
  <2> QED BY <2>2, <2>6
<1>12. CASE PassChild
  <2>1. NextChild \in Keys
    BY <1>12, ActiveFacts DEF PassChild, NextChild
  <2> QED BY <1>12, <2>1, PassChildImplements
<1>13. CASE Leave
  BY <1>13, LeaveImplements
<1>14. CASE UNCHANGED vars
  <2>1. /\ UNCHANGED <<phase, picker, seen_nodes, loops, declared, cycle_found>>
        /\ include_map' = include_map
    BY <1>14 DEF vars, include_map
  <2>2. /\ ClosurePhase' = ClosurePhase /\ TargetsOf(declared)' = TargetsOf(declared)
        /\ TargetsOf(include_map)' = TargetsOf(include_map)
        /\ ClosureStatus' = ClosureStatus /\ ClosureStack' = ClosureStack
        /\ ClosureUnvisited' = ClosureUnvisited
    BY <2>1 DEF ClosurePhase, TargetsOf, ClosureStatus, StatusOf, ClosureStack,
                ClosureUnvisited, Ahead
  <2> QED BY <2>1, <2>2 DEF Closure!vars
<1> QED BY <1>1, <1>2, <1>3, <1>4, <1>5, <1>6, <1>7, <1>8, <1>9, <1>10, <1>11, <1>12,
           <1>13, <1>14 DEF Next, FinalizeAddedIncludes

THEOREM Refinement == Spec => ImplementsMapClosure
<1>1. Init => Closure!Init
  BY InitImplements
<1>2. IInv /\ IInv' /\ [Next]_vars => [Closure!Next]_(Closure!vars)
  BY NextImplements
<1> QED BY <1>1, <1>2, InductiveInvariant, PTL DEF Spec, ImplementsMapClosure, Closure!Spec

-----------------------------------------------------------------------------
(* What is proved of MapClosure holds of the picker. *)
ClosureProofs == INSTANCE MapClosureProofs WITH
  phase <- ClosurePhase,
  declared <- TargetsOf(declared),
  filename_map <- TargetsOf(include_map),
  seen_nodes <- ClosureStatus,
  node_stack <- ClosureStack,
  unvisited <- ClosureUnvisited

LEMMA SameNext ==
  /\ Closure!Init => ClosureProofs!Init
  /\ [Closure!Next]_(Closure!vars) => [ClosureProofs!Next]_(ClosureProofs!vars)
BY DEF Closure!Init, ClosureProofs!Init,
       Closure!Next, ClosureProofs!Next, Closure!vars, ClosureProofs!vars,
       Closure!Close, ClosureProofs!Close,
       Closure!AddMappings, ClosureProofs!AddMappings,
       Closure!StartClosing, ClosureProofs!StartClosing,
       Closure!EnterRoot, ClosureProofs!EnterRoot,
       Closure!EnterChild, ClosureProofs!EnterChild,
       Closure!PassChild, ClosureProofs!PassChild,
       Closure!Leave, ClosureProofs!Leave,
       Closure!FinishClosing, ClosureProofs!FinishClosing,
       Closure!Enter, ClosureProofs!Enter, Closure!search, ClosureProofs!search,
       Closure!Searching, ClosureProofs!Searching, Closure!Active, ClosureProofs!Active,
       Closure!ExpandOnce, ClosureProofs!ExpandOnce

LEMMA SameSpec == Closure!Spec => ClosureProofs!Spec
BY SameNext, PTL DEF Closure!Spec, ClosureProofs!Spec

THEOREM ClosedCompletely == Spec => []ClosureProofs!CompleteAwayFromCycles
BY Refinement, SameSpec, ClosureProofs!CompleteWithoutCycles, PTL DEF ImplementsMapClosure

THEOREM NothingInventedNorLost == Spec => []ClosureProofs!Sound
BY Refinement, SameSpec, ClosureProofs!SoundAlways, PTL DEF ImplementsMapClosure

(* The keys that are met step by step are all that can be reached. *)
LEMMA LeadsToReachable ==
  ASSUME MapOK(declared), NEW key \in Keys
  PROVE  LeadsTo(key) = ClosureProofs!Reachable(key)
<1> DEFINE T(k) == Targets(declared, k)
           first == T(key)
           StepOf(s) == first \cup s \cup UNION {T(k) : k \in s}
           P == SUBSET Keys
           Step == [a \in Nat \X P |-> StepOf(a[2])]
           N == Cardinality(Keys)
           Stages(f) == [n \in 1..N |-> IF n = 1 THEN first
                           ELSE LET nearer == f[n - 1]
                                IN  nearer \cup UNION {T(k) : k \in nearer}]
           within == CHOOSE f : f = Stages(f)
<1>1. N \in Nat \ {0}
  <2>1. IsFiniteSet(Keys) /\ Keys # {}
    BY KeysAssumption
  <2> QED BY <2>1, FS_CardinalityType, FS_EmptySet
<1>2. \A k \in Keys : T(k) \subseteq Keys
  BY TargetsOfType DEF TargetsOf
<1>3. PICK g \in [Nat -> P] : g[0] = {} /\ \A n \in Nat : g[n + 1] = Step[<<n, g[n]>>]
  <2> DEFINE start == {}
  <2>1. ASSUME NEW n \in Nat, NEW s \in P PROVE Step[<<n, s>>] \in P
    <3>1. StepOf(s) \in P
      BY <1>2
    <3>2. Step[<<n, s>>] = StepOf(s)
      <4> HIDE DEF StepOf
      <4> QED OBVIOUS
    <3> QED BY <3>1, <3>2
  <2>2. start \in P
    OBVIOUS
  <2> HIDE DEF Step, P, start
  <2>3. IsRecursion(start, Step, P)
    BY <2>1, <2>2 DEF IsRecursion
  <2>4. \E g \in [Nat -> P] : g[0] = start /\ \A n \in Nat : g[n + 1] = Step[<<n, g[n]>>]
    BY <2>3, Recursion
  <2> QED BY <2>4 DEF start
<1>4. \A n \in Nat : g[n + 1] = StepOf(g[n])
  <2> SUFFICES ASSUME NEW n \in Nat PROVE g[n + 1] = StepOf(g[n])
    OBVIOUS
  <2>1. g[n] \in P
    BY <1>3
  <2>2. Step[<<n, g[n]>>] = StepOf(g[n])
    <3> HIDE DEF StepOf, P
    <3> QED BY <2>1
  <2> HIDE DEF Step, StepOf
  <2> QED BY <1>3, <2>2
<1> HIDE DEF Step, T, P
<1>5. g[1] = first /\ \A n \in Nat \ {0} : first \subseteq g[n]
  <2>1. g[0 + 1] = StepOf(g[0])
    BY <1>4
  <2>2. g[1] = first
    <3>1. UNION {T(k) : k \in {}} = {}
      OBVIOUS
    <3>2. StepOf({}) = first
      BY <3>1
    <3>3. g[0] = {} /\ 0 + 1 = 1
      BY <1>3
    <3> HIDE DEF StepOf, first
    <3> QED BY <2>1, <3>2, <3>3
  <2>3. \A n \in Nat \ {0} : n - 1 \in Nat /\ n = (n - 1) + 1
    OBVIOUS
  <2> QED BY <1>4, <2>2, <2>3
<1>6. ASSUME NEW n \in Nat \ {0, 1}
      PROVE  g[n] = g[n - 1] \cup UNION {T(k) : k \in g[n - 1]}
  <2>1. n - 1 \in Nat \ {0} /\ n = (n - 1) + 1
    OBVIOUS
  <2>2. g[(n - 1) + 1] = StepOf(g[n - 1])
    BY <1>4, <2>1
  <2>3. first \subseteq g[n - 1]
    BY <1>5, <2>1
  <2> QED BY <2>1, <2>2, <2>3
<1> HIDE DEF first
<1> DEFINE h == [n \in 1..N |-> g[n]]
<1>7. h = Stages(h)
  <2> SUFFICES ASSUME NEW n \in 1..N
               PROVE  g[n] = IF n = 1 THEN first
                             ELSE LET nearer == h[n - 1]
                                  IN  nearer \cup UNION {T(k) : k \in nearer}
    OBVIOUS
  <2>1. CASE n = 1
    BY <1>5, <2>1
  <2>2. CASE n # 1
    <3>1. n \in Nat \ {0, 1} /\ n - 1 \in 1..N
      BY <1>1, <2>2
    <3>2. h[n - 1] = g[n - 1]
      BY <3>1
    <3> HIDE DEF h, N
    <3> QED BY <1>6, <2>2, <3>1, <3>2
  <2> QED BY <2>1, <2>2
<1>8. within = Stages(within)
  <2> HIDE DEF Stages, h
  <2> QED BY <1>7
<1>9. LeadsTo(key) = within[N]
  BY DEF LeadsTo, T, first
<1> HIDE DEF within, N, h
<1>10. within[N] = g[N]
  <2> DEFINE holds == {i \in Nat : i + 1 <= N => within[i + 1] = g[i + 1]}
  <2>1. 0 \in holds
    <3>1. 1 \in 1..N
      BY <1>1
    <3>2. within[1] = first
      BY <1>8, <3>1
    <3> QED BY <1>5, <3>2
  <2>2. ASSUME NEW i \in holds PROVE i + 1 \in holds
    <3> SUFFICES ASSUME (i + 1) + 1 <= N PROVE within[(i + 1) + 1] = g[(i + 1) + 1]
      OBVIOUS
    <3> DEFINE n == (i + 1) + 1
    <3>1. n \in 1..N /\ n # 1 /\ n - 1 = i + 1 /\ i + 1 <= N /\ n \in Nat \ {0, 1}
      BY <1>1
    <3>2. within[i + 1] = g[i + 1]
      BY <3>1
    <3> HIDE DEF n
    <3>3. within[n] = LET nearer == within[n - 1]
                      IN  nearer \cup UNION {T(k) : k \in nearer}
      BY <1>8, <3>1
    <3>4. g[n] = g[n - 1] \cup UNION {T(k) : k \in g[n - 1]}
      BY <1>6, <3>1
    <3>5. within[n] = g[n]
      BY <3>1, <3>2, <3>3, <3>4
    <3> QED BY <3>5 DEF n
  <2>3. holds = Nat
    <3>1. holds \in SUBSET Nat
      OBVIOUS
    <3> HIDE DEF holds
    <3> QED BY <2>1, <2>2, <3>1, Induction
  <2>4. N - 1 \in Nat /\ (N - 1) + 1 = N /\ N <= N
    BY <1>1
  <2>5. N - 1 \in holds
    <3> HIDE DEF holds
    <3> QED BY <2>3, <2>4
  <2>6. (N - 1) + 1 <= N => within[(N - 1) + 1] = g[(N - 1) + 1]
    BY <2>5
  <2> QED BY <2>4, <2>6
<1> DEFINE R == g[N]
<1>11. g[N + 1] = R
  <2>1. ASSUME NEW n \in Nat PROVE g[n] \subseteq g[n + 1]
    BY <1>4
  <2>2. ASSUME NEW n \in Nat, g[n + 1] = g[n] PROVE g[n + 1 + 1] = g[n + 1]
    <3>1. g[n + 1] = StepOf(g[n])
      BY <1>4
    <3>2. g[(n + 1) + 1] = StepOf(g[n + 1])
      BY <1>4
    <3> HIDE DEF StepOf
    <3> QED BY <2>2, <3>1, <3>2
  <2>3. IsFiniteSet(Keys) /\ g \in [Nat -> SUBSET Keys]
    BY <1>3, KeysAssumption DEF P
  <2>4. g[Cardinality(Keys) + 1] = g[Cardinality(Keys)]
    <3> HIDE DEF StepOf
    <3> QED BY <2>1, <2>2, <2>3, GrowthStops
  <2> QED BY <2>4 DEF N
<1>12. R \in SUBSET Keys /\ first \subseteq R /\ \A k \in R : T(k) \subseteq R
  <2>1. R \in P
    BY <1>1, <1>3
  <2>2. g[N + 1] = StepOf(R)
    BY <1>1, <1>4
  <2> HIDE DEF R
  <2> QED BY <1>11, <2>1, <2>2 DEF P
<1>13. \A k \in Keys : TargetsOf(declared)[k] = T(k)
  BY DEF TargetsOf, T
<1>14. ClosureProofs!Reachable(key) \subseteq R
  <2> HIDE DEF R
  <2>1. TargetsOf(declared)[key] \subseteq R /\ ClosureProofs!ClosedUnder(R)
    BY <1>12, <1>13 DEF ClosureProofs!ClosedUnder, first
  <2> QED BY <1>12, <2>1 DEF ClosureProofs!Reachable, ClosureProofs!Reaches
<1>15. ASSUME NEW S \in SUBSET Keys, TargetsOf(declared)[key] \subseteq S,
              ClosureProofs!ClosedUnder(S)
       PROVE  R \subseteq S
  <2> DEFINE holds == {n \in Nat : g[n] \subseteq S}
  <2>1. first \subseteq S /\ \A k \in S : T(k) \subseteq S
    BY <1>13, <1>15 DEF ClosureProofs!ClosedUnder, first
  <2>2. 0 \in holds
    BY <1>3
  <2>3. ASSUME NEW n \in holds PROVE n + 1 \in holds
    <3>1. g[n] \subseteq S /\ n \in Nat
      OBVIOUS
    <3>2. g[n + 1] = StepOf(g[n])
      BY <1>4, <3>1
    <3>3. g[n + 1] \subseteq S
      BY <2>1, <3>1, <3>2
    <3> HIDE DEF StepOf
    <3> QED BY <3>1, <3>3
  <2>4. holds = Nat
    <3>1. holds \in SUBSET Nat
      OBVIOUS
    <3> HIDE DEF holds
    <3> QED BY <2>2, <2>3, <3>1, Induction
  <2>5. N \in holds
    <3> HIDE DEF holds
    <3> QED BY <1>1, <2>4
  <2> QED BY <2>5
<1>16. R \subseteq ClosureProofs!Reachable(key)
  <2> HIDE DEF R
  <2> QED BY <1>12, <1>15 DEF ClosureProofs!Reachable, ClosureProofs!Reaches
<1> QED BY <1>9, <1>10, <1>14, <1>16

LEMMA LeadsToFacts ==
  ASSUME MapOK(declared), NEW a \in Keys
  PROVE  /\ LeadsTo(a) \subseteq Keys
         /\ \A b \in LeadsTo(a) : /\ LeadsTo(b) \subseteq LeadsTo(a)
                                  /\ AwayFromCycles(a) => AwayFromCycles(b)
<1>1. \A k \in Keys : LeadsTo(k) = ClosureProofs!Reachable(k)
  BY LeadsToReachable
<1>2. LeadsTo(a) \subseteq Keys
  BY <1>1 DEF ClosureProofs!Reachable
<1>3. ASSUME NEW b \in LeadsTo(a) PROVE LeadsTo(b) \subseteq LeadsTo(a)
  <2>1. b \in Keys /\ ClosureProofs!Reaches(a, b)
    BY <1>1, <1>2 DEF ClosureProofs!Reachable
  <2>2. ASSUME NEW c \in Keys, ClosureProofs!Reaches(b, c)
        PROVE  ClosureProofs!Reaches(a, c)
    BY <2>1, <2>2 DEF ClosureProofs!Reaches, ClosureProofs!ClosedUnder
  <2>3. ClosureProofs!Reachable(b) \subseteq ClosureProofs!Reachable(a)
    BY <2>2 DEF ClosureProofs!Reachable
  <2> QED BY <1>1, <2>1, <2>3
<1>4. ASSUME NEW b \in LeadsTo(a), AwayFromCycles(a) PROVE AwayFromCycles(b)
  BY <1>3, <1>4 DEF AwayFromCycles
<1> QED BY <1>2, <1>3, <1>4

(* Closing gives a key nothing it does not lead to, and all it leads to    *)
(* when it is away from cycles.                                            *)
Closed ==
  phase = "final" =>
    \A k \in Keys :
      /\ Targets(include_map, k) \subseteq LeadsTo(k)
      /\ AwayFromCycles(k) => Targets(include_map, k) = LeadsTo(k)

LEMMA ClosedBySearch ==
  IInv /\ ClosureProofs!Sound /\ ClosureProofs!CompleteAwayFromCycles => Closed
<1> SUFFICES ASSUME IInv, ClosureProofs!Sound, ClosureProofs!CompleteAwayFromCycles,
                    phase = "final", NEW k \in Keys
             PROVE  /\ Targets(include_map, k) \subseteq LeadsTo(k)
                    /\ AwayFromCycles(k) => Targets(include_map, k) = LeadsTo(k)
  BY DEF Closed
<1>1. MapOK(declared)
  BY DEF IInv, BestOK
<1>2. \A c \in Keys : LeadsTo(c) = ClosureProofs!Reachable(c)
  BY <1>1, LeadsToReachable
<1>3. TargetsOf(include_map)[k] = Targets(include_map, k)
  BY DEF TargetsOf
<1>4. Targets(include_map, k) \subseteq LeadsTo(k)
  BY <1>2, <1>3 DEF ClosureProofs!Sound
<1>5. ASSUME AwayFromCycles(k) PROVE Targets(include_map, k) = LeadsTo(k)
  <2>1. ClosurePhase = "closed"
    BY DEF ClosurePhase
  <2>2. \A c \in ClosureProofs!Reachable(k) : ~ClosureProofs!OnCycle(c)
    <3> SUFFICES ASSUME NEW c \in ClosureProofs!Reachable(k), ClosureProofs!OnCycle(c)
                 PROVE  FALSE
      OBVIOUS
    <3>1. c \in Keys /\ c \in ClosureProofs!Reachable(c)
      BY DEF ClosureProofs!Reachable, ClosureProofs!OnCycle
    <3>2. c \in LeadsTo(k) /\ c \in LeadsTo(c)
      BY <1>2, <3>1
    <3> QED BY <1>5, <3>2 DEF AwayFromCycles
  <2> QED BY <1>2, <1>3, <2>1, <2>2 DEF ClosureProofs!CompleteAwayFromCycles
<1> QED BY <1>4, <1>5

THEOREM ClosedInTheEnd == Spec => []Closed
BY ClosedBySearch, InductiveInvariant, NothingInventedNorLost, ClosedCompletely, PTL

(* Re-exports compose, away from cycles. *)
THEOREM HasMappingComposes == Spec => []HasMappingTransitive
<1>1. IInv /\ Closed => HasMappingTransitive
  <2> SUFFICES ASSUME IInv, Closed, phase = "final", NEW a \in Headers,
                      AwayFromCycles(NameOf(a)), NEW b \in Headers, NEW c \in Headers,
                      HasMapping(picker, a, b), HasMapping(picker, b, c)
               PROVE  HasMapping(picker, a, c)
    BY DEF HasMappingTransitive, NameOf
  <2>1. NameOf(a) \in Keys /\ NameOf(b) \in Keys /\ NameOf(c) \in Keys
    BY KeysAssumption DEF Headers
  <2>2. MapOK(include_map) /\ MapOK(declared)
    BY DEF IInv, StateOK, PickerOK, BestOK, include_map
  <2>3. \A x, y : HasMapping(picker, x, y) <=>
           \/ NameOf(y) \in Targets(include_map, NameOf(x))
           \/ NameOf(y) = NameOf(x)
    <3> SUFFICES ASSUME NEW x, NEW y
                 PROVE  HasMapping(picker, x, y) <=>
                           \/ NameOf(y) \in Targets(include_map, NameOf(x))
                           \/ NameOf(y) = NameOf(x)
      OBVIOUS
    <3> DEFINE values == ValuesOf(include_map, NameOf(x))
    <3>1. values \in Seq(Mapped)
      BY <2>2, ValuesAreMapped
    <3>2. Targets(include_map, NameOf(x)) = NamesIn(values)
      BY DEF Targets, NamesIn
    <3>3. HasMapping(picker, x, y) <=>
            ContainsQuotedInclude(values, NameOf(y)) \/ NameOf(y) = NameOf(x)
      BY DEF HasMapping, NameOf, include_map
    <3> HIDE DEF values
    <3>4. NamesIn(values) = {values[i].quoted_include : i \in DOMAIN values}
      BY <3>1, NamesOfRange
    <3> QED BY <3>2, <3>3, <3>4 DEF ContainsQuotedInclude
  <2>4. CASE NameOf(b) = NameOf(a)
    BY <2>3, <2>4
  <2>5. CASE NameOf(c) = NameOf(b)
    BY <2>3, <2>5
  <2>6. CASE /\ NameOf(b) \in Targets(include_map, NameOf(a))
             /\ NameOf(c) \in Targets(include_map, NameOf(b))
    <3>1. /\ NameOf(b) \in LeadsTo(NameOf(a)) /\ NameOf(c) \in LeadsTo(NameOf(b))
          /\ Targets(include_map, NameOf(a)) = LeadsTo(NameOf(a))
      BY <2>1, <2>6 DEF Closed
    <3>2. LeadsTo(NameOf(b)) \subseteq LeadsTo(NameOf(a))
      BY <2>1, <2>2, <3>1, LeadsToFacts
    <3> QED BY <2>3, <3>1, <3>2
  <2> QED BY <2>3, <2>4, <2>5, <2>6
<1> QED BY <1>1, InductiveInvariant, ClosedInTheEnd, PTL

-----------------------------------------------------------------------------
(* A symbol's headers are some headers and what the closed map has for     *)
(* them: ExpandOnce is called once.                                        *)
SymbolsExpanded ==
  phase = "final" =>
    \A s \in DOMAIN picker.symbol_maps : \E given \in SUBSET Keys :
      Targets(picker.symbol_maps, s) =
         given \cup UNION {Targets(include_map, k) : k \in given}

LEMMA FinishExpands ==
  ASSUME IInv, Finish
  PROVE  SymbolsExpanded'
<1> DEFINE m == include_map
           symbols == [s \in DOMAIN picker.symbol_maps |->
                         ExpandOnce(m, picker.symbol_maps[s])]
<1>1. PickerOK(picker) /\ MapOK(m)
  BY PickerHolds DEF PickerOK, include_map
<1>2. picker' = [picker EXCEPT !.symbol_maps =
                    [s \in DOMAIN @ |-> ExpandOnce(include_map, @[s])]]
  BY DEF Finish
<1>3. picker'.symbol_maps = symbols /\ picker'.filepath_include_map = m
  BY <1>1, <1>2 DEF PickerOK, PickerFields, include_map
<1>4. include_map' = m
  BY <1>3 DEF include_map
<1>5. ASSUME NEW s \in DOMAIN symbols
      PROVE  \E given \in SUBSET Keys :
               Targets(symbols, s) = given \cup UNION {Targets(m, k) : k \in given}
  <2> DEFINE values == picker.symbol_maps[s]
  <2>1. values \in Seq(Mapped) /\ symbols[s] = ExpandOnce(m, values)
    BY <1>1, <1>5 DEF PickerOK
  <2>2. Targets(symbols, s) = NamesIn(symbols[s])
    BY <1>5, TargetsAre
  <2> HIDE DEF values, m, symbols
  <2>3. NamesIn(ExpandOnce(m, values))
           = NamesIn(values) \cup UNION {Targets(m, k) : k \in NamesIn(values)}
    BY <1>1, <2>1, ExpandOnceAddsChildren
  <2>4. NamesIn(values) \in SUBSET Keys
    BY <2>1, NamesOfSeq
  <2> QED BY <2>1, <2>2, <2>3, <2>4
<1> HIDE DEF m, symbols
<1>6. \A s \in DOMAIN picker'.symbol_maps : \E given \in SUBSET Keys :
         Targets(picker'.symbol_maps, s) = given \cup UNION {Targets(m, k) : k \in given}
  BY <1>3, <1>5
<1> QED BY <1>4, <1>6 DEF SymbolsExpanded

LEMMA FinalStays ==
  ASSUME [Next]_vars, phase' = "final", ~Finish
  PROVE  UNCHANGED vars
BY DEF Next, FinalizeAddedIncludes, AddInternalMapping, EndConstructor, LoadMapping, Call,
       StartPreprocessing, SeeInclude, SeePragma, StartExpanding, ExpandRegex,
       StartClosing, EnterRoot, Enter, EnterChild, Looping, PassChild, Leave

THEOREM SymbolsExpandedAlways == Spec => []SymbolsExpanded
<1>1. Init => SymbolsExpanded
  BY DEF Init, SymbolsExpanded
<1>2. IInv /\ SymbolsExpanded /\ [Next]_vars => SymbolsExpanded'
  <2> SUFFICES ASSUME IInv, SymbolsExpanded, [Next]_vars PROVE SymbolsExpanded'
    OBVIOUS
  <2>1. CASE Finish
    BY <2>1, FinishExpands
  <2>2. CASE phase' # "final"
    BY <2>2 DEF SymbolsExpanded
  <2>3. CASE UNCHANGED vars
    BY <2>3 DEF SymbolsExpanded, vars, include_map
  <2> QED BY <2>1, <2>2, <2>3, FinalStays
<1> QED BY <1>1, <1>2, InductiveInvariant, PTL DEF Spec

(* Whoever is offered a header for a symbol is offered all that re-export  *)
(* it, away from cycles.                                                   *)
THEOREM SymbolsClosed == Spec => []SymbolMapsClosed
<1>1. IInv /\ Closed /\ SymbolsExpanded => SymbolMapsClosed
  <2> SUFFICES ASSUME IInv, Closed, SymbolsExpanded, phase = "final",
                      NEW s \in DOMAIN picker.symbol_maps,
                      NEW k \in Targets(picker.symbol_maps, s),
                      AwayFromCycles(k),
                      \A o \in Targets(picker.symbol_maps, s) :
                         k \in LeadsTo(o) => AwayFromCycles(o)
               PROVE  LeadsTo(k) \subseteq Targets(picker.symbol_maps, s)
    BY DEF SymbolMapsClosed
  <2> DEFINE offered == Targets(picker.symbol_maps, s)
  <2>1. PICK given \in SUBSET Keys :
          offered = given \cup UNION {Targets(include_map, o) : o \in given}
    BY DEF SymbolsExpanded
  <2>2. MapOK(declared)
    BY DEF IInv, BestOK
  <2>3. CASE k \in given
    BY <2>1, <2>3 DEF Closed
  <2>4. CASE k \notin given
    <3>1. PICK o \in given : k \in Targets(include_map, o)
      BY <2>1, <2>4
    <3>2. k \in LeadsTo(o) /\ o \in offered /\ o \in Keys
      BY <2>1, <3>1 DEF Closed
    <3>3. Targets(include_map, o) = LeadsTo(o)
      BY <3>2 DEF Closed
    <3>4. LeadsTo(k) \subseteq LeadsTo(o)
      BY <2>2, <3>2, LeadsToFacts
    <3> QED BY <2>1, <3>1, <3>3, <3>4
  <2> QED BY <2>3, <2>4
<1> QED BY <1>1, InductiveInvariant, ClosedInTheEnd, SymbolsExpandedAlways, PTL

-----------------------------------------------------------------------------
(* The queries. *)
LEMMA PublicValuesAre ==
  ASSUME NEW p, NEW m, MapOK(m), NEW key
  PROVE  /\ GetPublicValues(p, m, key) \in Seq(Mapped)
         /\ Range(GetPublicValues(p, m, key)) =
              {v \in Range(ValuesOf(m, key)) : GetVisibility(p, v, "public") = "public"}
<1> DEFINE values == ValuesOf(m, key)
           IsPub(v) == GetVisibility(p, v, "public") = "public"
           Group(i) == IF IsPub(values[i]) THEN <<values[i]>> ELSE <<>>
           groups == [i \in DOMAIN values |-> Group(i)]
           n == Len(values)
<1>1. values \in Seq(Mapped)
  BY ValuesAreMapped
<1>2. GetPublicValues(p, m, key) = FlattenSeq(groups)
  BY DEF GetPublicValues
<1> HIDE DEF values
<1>3. n \in Nat /\ DOMAIN values = 1..n /\ \A i \in 1..n : values[i] \in Mapped
  BY <1>1
<1>4. ASSUME NEW i \in 1..n
      PROVE  /\ Group(i) \in Seq(Mapped)
             /\ Range(Group(i)) = {v \in {values[i]} : IsPub(v)}
  <2> DEFINE v == values[i]
  <2>1. v \in Mapped
    BY <1>3
  <2> HIDE DEF v, IsPub
  <2>2. CASE IsPub(v)
    <3>1. Group(i) = <<v>>
      BY <2>2 DEF v
    <3>2. <<v>> \in Seq(Mapped) /\ Range(<<v>>) = {v}
      BY <2>1 DEF Range
    <3> HIDE DEF Group
    <3> QED BY <2>2, <3>1, <3>2 DEF v
  <2>3. CASE ~IsPub(v)
    <3>1. Group(i) = <<>>
      BY <2>3 DEF v
    <3>2. <<>> \in Seq(Mapped) /\ Range(<<>>) = {}
      BY DEF Range
    <3> HIDE DEF Group
    <3> QED BY <2>3, <3>1, <3>2 DEF v
  <2> QED BY <2>2, <2>3
<1>5. groups \in Seq(Seq(Mapped)) /\ DOMAIN groups = 1..n
      /\ \A i \in 1..n : groups[i] = Group(i)
  <2> DEFINE T == Seq(Mapped)
  <2>1. groups \in [1..n -> T]
    <3> HIDE DEF Group
    <3> QED BY <1>3, <1>4
  <2>2. DOMAIN groups = 1..n /\ \A i \in 1..n : groups[i] = Group(i)
    <3> HIDE DEF Group
    <3> QED BY <1>3
  <2> HIDE DEF T, Group, groups, n
  <2>3. groups \in Seq(T)
    BY <1>3, <2>1
  <2> QED BY <2>2, <2>3 DEF T
<1> HIDE DEF groups
<1>6. FlattenSeq(groups) \in Seq(Mapped)
      /\ Range(FlattenSeq(groups)) = UNION {Range(groups[i]) : i \in 1..n}
  BY <1>5, FlattenSeqType, FlattenSeqRange
<1>7. UNION {Range(groups[i]) : i \in 1..n} = {v \in Range(values) : IsPub(v)}
  <2>1. \A i \in 1..n : Range(groups[i]) = {v \in {values[i]} : IsPub(v)}
    <3> HIDE DEF Group, IsPub
    <3> QED BY <1>4, <1>5
  <2>2. Range(values) = {values[i] : i \in 1..n}
    BY <1>3 DEF Range
  <2> HIDE DEF IsPub
  <2> QED BY <2>1, <2>2
<1> QED BY <1>2, <1>6, <1>7 DEF values

(* Public headers are offered under all their names, and no private one.   *)
THEOREM PublicOffered == Spec => []PublicReplacementsOffered
<1>1. IInv /\ Closed => PublicReplacementsOffered
  <2> SUFFICES ASSUME IInv, Closed, phase = "final", NEW h \in Headers, NEW q \in Sources,
                      AwayFromCycles(NameOf(h)), picker.path_visibility_map = {},
                      {k \in LeadsTo(NameOf(h)) :
                         FindInMap(picker.include_visibility_map, k, "public") = "public"}
                        # {}
               PROVE  LET offered == Range(GetCandidateHeadersForFilepath(picker, h, q))
                      IN  /\ {k \in LeadsTo(NameOf(h)) :
                                FindInMap(picker.include_visibility_map, k, "public")
                                   = "public"}
                                \subseteq {v.quoted_include : v \in offered}
                          /\ \A v \in offered : GetVisibility(picker, v, "public") = "public"
    BY DEF PublicReplacementsOffered, NameOf
  <2> DEFINE key == NameOf(h)
             IsPub(k) == FindInMap(picker.include_visibility_map, k, "public") = "public"
             public == {k \in LeadsTo(key) : IsPub(k)}
             values == GetPublicValues(picker, include_map, key)
             itself == MappedInclude(QuotedFrom(h, q), h)
             candidates == GetCandidateHeadersForFilepath(picker, h, q)
             S == Mapped \cup {itself}
  <2>1. key \in Keys /\ MapOK(include_map)
    BY KeysAssumption DEF Headers, IInv, StateOK, PickerOK, include_map
  <2>2. \A v : GetVisibility(picker, v, "public") = "public" <=> IsPub(v.quoted_include)
    BY DEF GetVisibility
  <2>3. values \in Seq(Mapped)
        /\ Range(values) = {v \in Range(ValuesOf(include_map, key)) : IsPub(v.quoted_include)}
    <3> HIDE DEF IsPub, key
    <3> QED BY <2>1, <2>2, PublicValuesAre
  <2>4. {v.quoted_include : v \in Range(ValuesOf(include_map, key))} = LeadsTo(key)
    <3>1. Targets(include_map, key) = LeadsTo(key)
      BY <2>1 DEF Closed
    <3> QED BY <3>1 DEF Targets
  <2>5. {v.quoted_include : v \in Range(values)} = public
    <3> HIDE DEF IsPub, key, values
    <3> QED BY <2>3, <2>4
  <2>6. values # <<>>
    <3>1. Range(<<>>) = {}
      BY DEF Range
    <3>2. public # {}
      OBVIOUS
    <3> HIDE DEF values, public
    <3> QED BY <2>5, <3>1, <3>2
  <2>7. candidates = IF values = <<>> \/ GetVisibility(picker, itself, "public") = "public"
                     THEN <<itself>> \o values ELSE values
    BY DEF GetCandidateHeadersForFilepath, NameOf, include_map
  <2> HIDE DEF values, itself, candidates, key, public
  <2>8. Range(<<itself>> \o values) = {itself} \cup Range(values)
    <3> DEFINE one == <<itself>>
    <3>1. one \in Seq(S) /\ Range(one) = {itself}
      BY DEF Range
    <3>2. values \in Seq(S)
      BY <2>3
    <3> HIDE DEF S, one
    <3>3. Range(one \o values) = Range(one) \cup Range(values)
      BY <3>1, <3>2, RangeJoined
    <3> QED BY <3>1, <3>3 DEF one
  <2>9. \A v \in Range(values) : GetVisibility(picker, v, "public") = "public"
    BY <2>2, <2>3
  <2>10. public \subseteq {v.quoted_include : v \in Range(candidates)}
         /\ \A v \in Range(candidates) : GetVisibility(picker, v, "public") = "public"
    BY <2>5, <2>6, <2>7, <2>8, <2>9
  <2> QED BY <2>10 DEF public, key, candidates
<1> QED BY <1>1, InductiveInvariant, ClosedInTheEnd, PTL

-----------------------------------------------------------------------------
(* Friends: every friend pattern is tried on every include that was seen,  *)
(* and no include is itself a pattern, so what a pattern gives is fixed    *)
(* before the first of them is expanded.                                   *)
friend_map == picker.friend_to_headers_map

FriendsOK ==
  /\ \A e \in to_expand : e[1] \in SeenNames
  /\ phase \in {"closing", "final"} => to_expand = {}
  /\ phase \in {"expanding", "closing", "final"} =>
       \A hdr \in picker.quoted_includes, pattern \in DOMAIN friend_map :
         IsPattern(pattern) /\ RegexMatch(hdr, pattern) =>
            \/ <<hdr, <<"friend", pattern>>>> \in to_expand
            \/ hdr \in DOMAIN friend_map /\ friend_map[pattern] \subseteq friend_map[hdr]

LEMMA SeenIsNoPattern ==
  ASSUME NEW hdr \in SeenNames
  PROVE  ~IsPattern(hdr)
<1>1. PICK i \in DirectIncludes : hdr = NameOf(i.includee)
  BY DEF SeenNames
<1> DEFINE path == i.includee
           entries == {e \in SearchPaths : IsInside(path, e.prefix)}
           longest == CHOOSE e \in entries :
                        \A f \in entries : Len(e.prefix) >= Len(f.prefix)
           name == StripPathPrefix(path, longest.prefix)
<1>2. NameOf(path) \in {[form |-> "special", parts |-> path], Angled(name), Quoted(name),
                        [form |-> "absolute", parts |-> path]}
  BY DEF NameOf, ConvertToQuotedInclude
<1> HIDE DEF name
<1>3. hdr.form \in {"special", "quoted", "angled", "absolute"}
  <2>1. Angled(name).form = "angled" /\ Quoted(name).form = "quoted"
    BY DEF Angled, Quoted
  <2> QED BY <1>1, <1>2, <2>1
<1> QED BY <1>3 DEF IsPattern, PatternForms

LEMMA FriendsUntouched ==
  ASSUME FriendsOK, UNCHANGED <<to_expand, friend_map>>,
         picker'.quoted_includes = picker.quoted_includes,
         \/ UNCHANGED phase
         \/ phase' \notin {"expanding", "closing", "final"}
         \/ phase' \in {"closing", "final"} /\ phase \in {"expanding", "closing"}
            /\ to_expand = {}
  PROVE  FriendsOK'
BY DEF FriendsOK

LEMMA EarlyKeepsFriends ==
  ASSUME FriendsOK, UNCHANGED to_expand, phase' \notin {"expanding", "closing", "final"}
  PROVE  FriendsOK'
BY DEF FriendsOK

LEMMA StartExpandingFriends ==
  ASSUME IInv, FriendsOK, StartExpanding
  PROVE  FriendsOK'
<1> DEFINE patterns == {<<"include", k>> : k \in {x \in DOMAIN include_map : IsPattern(x)}}
                         \cup {<<"friend", k>> : k \in DOMAIN friend_map}
           seen == picker.quoted_includes
<1>1. phase' = "expanding" /\ picker' = picker /\ to_expand' = seen \X patterns
  BY DEF StartExpanding, friend_map
<1>2. seen \subseteq SeenNames
  BY PickerHolds DEF PickerOK
<1>3. friend_map' = friend_map
  BY <1>1 DEF friend_map
<1>4. \A pattern \in DOMAIN friend_map : <<"friend", pattern>> \in patterns
  OBVIOUS
<1> HIDE DEF patterns
<1>5. \A e \in to_expand' : e[1] \in SeenNames
  BY <1>1, <1>2
<1>6. \A hdr \in seen, pattern \in DOMAIN friend_map :
         <<hdr, <<"friend", pattern>>>> \in to_expand'
  BY <1>1, <1>4
<1> QED BY <1>1, <1>3, <1>5, <1>6 DEF FriendsOK

LEMMA ExpandRegexFriends ==
  ASSUME IInv, FriendsOK, NEW e \in to_expand, ExpandRegex(e[1], e[2][1], e[2][2])
  PROVE  FriendsOK'
<1> DEFINE hdr == e[1]
           kind == e[2][1]
           pattern == e[2][2]
<1>1. /\ phase = "expanding" /\ phase' = phase
      /\ <<hdr, <<kind, pattern>>>> \in to_expand
      /\ picker' = IF kind = "include" THEN ExpandIncludeRegex(picker, hdr, pattern)
                                       ELSE ExpandFriendRegex(picker, hdr, pattern)
      /\ to_expand' = to_expand \ {<<hdr, <<kind, pattern>>>>}
  BY DEF ExpandRegex
<1> HIDE DEF hdr, kind, pattern
<1>2. hdr \in SeenNames /\ ~IsPattern(hdr)
  BY <1>1, SeenIsNoPattern DEF FriendsOK
<1>3. DOMAIN picker = PickerFields
  BY PickerHolds DEF PickerOK
<1>4. \A x \in to_expand' : x[1] \in SeenNames
  BY <1>1 DEF FriendsOK
<1>5. CASE kind = "include"
  <2>1. picker'.quoted_includes = picker.quoted_includes /\ friend_map' = friend_map
    BY <1>1, <1>3, <1>5 DEF ExpandIncludeRegex, MarkVisibility, friend_map, PickerFields
  <2>2. \A h, p : <<h, <<"friend", p>>>> # <<hdr, <<kind, pattern>>>>
    BY <1>5
  <2> QED BY <1>1, <1>4, <2>1, <2>2 DEF FriendsOK
<1>6. CASE kind # "include" /\ ~RegexMatch(hdr, pattern)
  <2>1. picker' = picker
    BY <1>1, <1>6 DEF ExpandFriendRegex
  <2>2. friend_map' = friend_map
    BY <2>1 DEF friend_map
  <2>3. \A h, p : RegexMatch(h, p) =>
           <<h, <<"friend", p>>>> # <<hdr, <<kind, pattern>>>>
    BY <1>6
  <2> QED BY <1>1, <1>4, <2>1, <2>2, <2>3 DEF FriendsOK
<1>7. CASE kind # "include" /\ RegexMatch(hdr, pattern)
  <2> DEFINE files == FindInMap(friend_map, hdr, {}) \cup friend_map[pattern]
  <2>1. picker' = [picker EXCEPT !.friend_to_headers_map = Assign(friend_map, hdr, files)]
    BY <1>1, <1>7 DEF ExpandFriendRegex, friend_map
  <2> HIDE DEF files
  <2>2. picker'.quoted_includes = picker.quoted_includes
        /\ friend_map' = Assign(friend_map, hdr, files)
    BY <1>3, <2>1 DEF friend_map, PickerFields
  <2>3. /\ DOMAIN friend_map' = DOMAIN friend_map \cup {hdr}
        /\ friend_map'[hdr] = files
        /\ \A k \in DOMAIN friend_map : k # hdr => friend_map'[k] = friend_map[k]
    BY <2>2 DEF Assign
  <2>4. /\ friend_map[pattern] \subseteq files
        /\ hdr \in DOMAIN friend_map => friend_map[hdr] \subseteq files
    BY DEF files, FindInMap
  <2>5. ASSUME NEW h \in picker.quoted_includes, NEW p \in DOMAIN friend_map',
               IsPattern(p), RegexMatch(h, p), <<h, <<"friend", p>>>> \notin to_expand'
        PROVE  h \in DOMAIN friend_map' /\ friend_map'[p] \subseteq friend_map'[h]
    <3>1. p \in DOMAIN friend_map /\ p # hdr /\ friend_map'[p] = friend_map[p]
      BY <1>2, <2>3, <2>5
    <3>2. CASE <<h, <<"friend", p>>>> \in to_expand
      <4>1. h = hdr /\ p = pattern
        BY <1>1, <2>5, <3>2
      <4> QED BY <2>3, <2>4, <3>1, <4>1
    <3>3. CASE <<h, <<"friend", p>>>> \notin to_expand
      <4>1. h \in DOMAIN friend_map /\ friend_map[p] \subseteq friend_map[h]
        BY <1>1, <2>5, <3>1, <3>3 DEF FriendsOK
      <4> QED BY <2>3, <2>4, <3>1, <4>1
    <3> QED BY <3>2, <3>3
  <2> QED BY <1>1, <1>4, <2>2, <2>5 DEF FriendsOK
<1> QED BY <1>5, <1>6, <1>7

LEMMA NextKeepsFriends ==
  ASSUME IInv, FriendsOK, [Next]_vars
  PROVE  FriendsOK'
<1>1. CASE AddInternalMapping \/ EndConstructor \/ LoadMapping \/ StartPreprocessing
           \/ SeeInclude \/ SeePragma
  <2>1. UNCHANGED to_expand /\ phase' \notin {"expanding", "closing", "final"}
    BY <1>1 DEF AddInternalMapping, EndConstructor, LoadMapping, StartPreprocessing,
                SeeInclude, SeePragma, Call
  <2> QED BY <2>1, EarlyKeepsFriends
<1>2. CASE StartExpanding
  BY <1>2, StartExpandingFriends
<1>3. ASSUME NEW e \in to_expand, ExpandRegex(e[1], e[2][1], e[2][2]) PROVE FriendsOK'
  BY <1>3, ExpandRegexFriends
<1>4. CASE StartClosing
  BY <1>4, FriendsUntouched DEF StartClosing, friend_map
<1>5. CASE EnterRoot \/ EnterChild \/ PassChild \/ UNCHANGED vars
  <2>1. UNCHANGED <<picker, to_expand, phase>>
    BY <1>5 DEF EnterRoot, EnterChild, Enter, PassChild, vars
  <2> QED BY <2>1, FriendsUntouched DEF friend_map
<1>6. CASE Leave \/ Finish
  <2>1. DOMAIN picker = PickerFields
    BY PickerHolds DEF PickerOK
  <2>2. picker'.quoted_includes = picker.quoted_includes /\ friend_map' = friend_map
    BY <1>6, <2>1 DEF Leave, Finish, friend_map, PickerFields
  <2>3. UNCHANGED to_expand /\ (phase' = phase \/ (phase = "closing" /\ phase' = "final"))
    BY <1>6 DEF Leave, Finish
  <2>4. phase = "closing" => to_expand = {}
    BY DEF FriendsOK
  <2> QED BY <2>2, <2>3, <2>4, FriendsUntouched
<1> QED BY <1>1, <1>2, <1>3, <1>4, <1>5, <1>6 DEF Next, FinalizeAddedIncludes

LEMMA FriendsAlways == Spec => []FriendsOK
<1>1. Init => FriendsOK
  BY DEF Init, FriendsOK
<1>2. IInv /\ FriendsOK /\ [Next]_vars => FriendsOK'
  BY NextKeepsFriends
<1> QED BY <1>1, <1>2, InductiveInvariant, PTL DEF Spec

LEMMA NameOnSearchPath ==
  ASSUME NEW path, NEW dir, OnSearchPath(path)
  PROVE  /\ ConvertToQuotedInclude(path, dir) = NameOf(path)
         /\ ~HasAbsoluteQuotedInclude(NameOf(path))
<1> DEFINE entries == {e \in SearchPaths : IsInside(path, e.prefix)}
           longest == CHOOSE e \in entries :
                        \A f \in entries : Len(e.prefix) >= Len(f.prefix)
           name == StripPathPrefix(path, longest.prefix)
<1>1. entries # {}
  BY DEF OnSearchPath
<1>2. \A d : ConvertToQuotedInclude(path, d) =
         IF IsSpecialFilename(path) THEN [form |-> "special", parts |-> path]
         ELSE IF longest.angled THEN Angled(name) ELSE Quoted(name)
  BY <1>1 DEF ConvertToQuotedInclude
<1> HIDE DEF longest, name
<1> QED BY <1>2 DEF NameOf, HasAbsoluteQuotedInclude, Angled, Quoted

(* A friend on the search path is offered the header itself. *)
THEOREM FriendGetsHeader == Spec => []FriendOnSearchPathGetsHeader
<1>1. FriendsOK => FriendOnSearchPathGetsHeader
  <2> SUFFICES ASSUME FriendsOK, phase = "final", NEW f \in Friends,
                      NEW q \in Headers \cap Sources,
                      Befriended(f.path, f.pattern),
                      NameOf(q) \in picker.quoted_includes,
                      OnSearchPath(q), OnSearchPath(f.path),
                      <<q, q>> \notin DOMAIN picker.include_as_written,
                      RegexMatch(QuotedFrom(q, q), f.pattern)
               PROVE  GetCandidateHeadersForFilepathIncludedFrom(picker, f.path, q)
                        = <<QuotedFrom(f.path, q)>>
    BY DEF FriendOnSearchPathGetsHeader, NameOf
  <2> DEFINE hdr == NameOf(q)
             itself == MappedInclude(QuotedFrom(f.path, q), q)
  <2>1. QuotedFrom(q, q) = hdr /\ ~HasAbsoluteQuotedInclude(QuotedFrom(f.path, q))
    BY NameOnSearchPath DEF QuotedFrom
  <2>2. f.pattern \in DOMAIN friend_map /\ f.path \in friend_map[f.pattern]
    BY DEF Befriended, FindInMap, friend_map
  <2>3. IsPattern(f.pattern) /\ RegexMatch(hdr, f.pattern)
    BY <2>1, FriendsAssumption
  <2>4. hdr \in DOMAIN friend_map /\ friend_map[f.pattern] \subseteq friend_map[hdr]
    BY <2>2, <2>3 DEF FriendsOK
  <2>5. IsFriend(picker, f.path, q)
    BY <2>1, <2>2, <2>4 DEF IsFriend, FindInMap, friend_map
  <2>6. itself.path = q /\ itself.quoted_include = QuotedFrom(f.path, q)
    BY DEF MappedInclude
  <2> HIDE DEF itself
  <2>7. BestQuotedInclude(picker, itself, q) = QuotedFrom(f.path, q)
    BY <2>1, <2>6 DEF BestQuotedInclude, FindInMap
  <2> DEFINE one == <<itself>>
  <2>8. GetCandidateHeadersForFilepathIncludedFrom(picker, f.path, q)
          = BestQuotedIncludesForIncluder(picker, one, q)
    BY <2>5 DEF GetCandidateHeadersForFilepathIncludedFrom, itself
  <2>9. BestQuotedIncludesForIncluder(picker, one, q) = <<QuotedFrom(f.path, q)>>
    <3>1. DOMAIN one = 1..1 /\ one[1] = itself
      OBVIOUS
    <3> HIDE DEF one
    <3>2. BestQuotedIncludesForIncluder(picker, one, q) =
            [i \in 1..1 |-> BestQuotedInclude(picker, one[i], q)]
      BY <3>1 DEF BestQuotedIncludesForIncluder
    <3>3. [i \in 1..1 |-> BestQuotedInclude(picker, one[i], q)]
            = <<QuotedFrom(f.path, q)>>
      BY <2>7, <3>1
    <3> QED BY <3>2, <3>3
  <2> QED BY <2>8, <2>9
<1> QED BY <1>1, FriendsAlways, PTL

-----------------------------------------------------------------------------
(* The picker as a part of a larger program, which calls its methods in    *)
(* steps of its own: what such steps have to keep, and what follows.       *)
PickerInv == IInv /\ ClosureProofs!IInv

(* A picker that has been given mappings, and been asked for nothing yet.  *)
LEMMA GivenMappings ==
  ASSUME phase = "preprocessing", PickerOK(picker), declared = include_map,
         num_calls \in Nat, to_expand = {}, seen_nodes = <<>>, loops = <<>>,
         cycle_found = FALSE
  PROVE  PickerInv
<1>1. MapOK(include_map)
  BY DEF PickerOK, include_map
<1>2. IInv
  <2>1. StateOK
    BY DEF StateOK, Adding, ToExpandOK
  <2>2. LoopsOK /\ SeenOK /\ PassedOK
    BY DEF LoopsOK, SeenOK, PassedOK
  <2>3. BestOK
    BY <1>1 DEF BestOK
  <2> QED BY <2>1, <2>2, <2>3 DEF IInv
<1>3. ClosureProofs!IInv
  <2>1. ClosurePhase = "adding"
    BY DEF ClosurePhase
  <2>2. TargetsOf(declared) \in [Keys -> SUBSET Keys] /\ TargetsOf(include_map) = TargetsOf(declared)
    BY <1>1, TargetsOfType
  <2>3. ClosureStatus = [k \in Keys |-> "unused"]
    BY DEF ClosureStatus, StatusOf, FindInMap
  <2>4. ClosureStack = <<>>
    BY DEF ClosureStack
  <2>5. ClosureUnvisited = [k \in Keys |-> {}]
    BY DEF ClosureUnvisited, Range
  <2> QED BY <2>1, <2>2, <2>3, <2>4, <2>5, ClosureProofs!NothingSearched
<1> QED BY <1>2, <1>3 DEF PickerInv

(* Whatever is called while mappings are added, if only mappings grow.     *)
LEMMA CallKeeps ==
  ASSUME PickerInv, Adding, Grows(picker, picker'), num_calls' \in Nat,
         declared' = picker'.filepath_include_map,
         UNCHANGED <<to_expand, closing_vars>>, Adding'
  PROVE  PickerInv'
<1>1. IInv' /\ Closure!AddMappings
  BY CallAdds DEF PickerInv
<1>2. [Closure!Next]_(Closure!vars)
  BY <1>1 DEF Closure!Next
<1>3. [ClosureProofs!Next]_(ClosureProofs!vars)
  BY <1>2, SameNext
<1> QED BY <1>1, <1>3, ClosureProofs!NextKeepsIInv DEF PickerInv

LEMMA StepKeeps ==
  ASSUME PickerInv, [Next]_vars
  PROVE  PickerInv'
<1>1. IInv'
  BY NextPreserves DEF PickerInv
<1>2. [Closure!Next]_(Closure!vars)
  BY <1>1, NextImplements DEF PickerInv
<1>3. [ClosureProofs!Next]_(ClosureProofs!vars)
  BY <1>2, SameNext
<1> QED BY <1>1, <1>3, ClosureProofs!NextKeepsIInv DEF PickerInv

(* Mappings once given are there until the end, and in the end with all    *)
(* they lead to.                                                           *)
LEMMA KeptAndClosed ==
  ASSUME PickerInv
  PROVE  /\ \A k \in Keys : Targets(declared, k) \subseteq Targets(include_map, k)
         /\ Closed
<1>1. ClosureProofs!Sound /\ ClosureProofs!CompleteAwayFromCycles
  BY ClosureProofs!IInvCompletes DEF PickerInv, ClosureProofs!IInv
<1>2. Closed
  BY <1>1, ClosedBySearch DEF PickerInv
<1>3. \A k \in Keys : Targets(declared, k) \subseteq Targets(include_map, k)
  BY <1>1 DEF ClosureProofs!Sound, TargetsOf
<1> QED BY <1>2, <1>3

(* The finalization takes nothing back.                                    *)
LEMMA FinalizationKeeps ==
  ASSUME PickerInv, FinalizeAddedIncludes
  PROVE  /\ \A k \in Keys : Targets(declared, k) \subseteq Targets(declared', k)
         /\ picker.aborted => picker'.aborted
<1>1. PickerOK(picker) /\ Next
  BY PickerHolds DEF PickerInv, Next
<1>2. \A k \in Keys : Targets(declared, k) \subseteq Targets(declared', k)
  <2>1. [Closure!Next]_(Closure!vars)
    BY <1>1, NextImplements, NextPreserves DEF PickerInv
  <2>2. \A k \in Keys : TargetsOf(declared)[k] \subseteq TargetsOf(declared)'[k]
    BY <2>1 DEF Closure!Next, Closure!AddMappings, Closure!Close, Closure!StartClosing,
       Closure!EnterRoot, Closure!EnterChild, Closure!Enter, Closure!PassChild,
       Closure!Leave, Closure!FinishClosing, Closure!vars
  <2> QED BY <2>2 DEF TargetsOf
<1>3. picker.aborted => picker'.aborted
  BY <1>1 DEF FinalizeAddedIncludes, StartExpanding, ExpandRegex, StartClosing,
     EnterRoot, EnterChild, Enter, PassChild, Leave, Finish, PickerOK, PickerFields
<1> QED BY <1>2, <1>3
=============================================================================
