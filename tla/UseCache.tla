------------------------------ MODULE UseCache ------------------------------
(* InstantiatedTemplateVisitor with its FullUseCache: what a file uses by  *)
(* using an instantiation of a template.  A scan searches what the         *)
(* instantiation instantiates in turn; what is found below a function or a *)
(* class is kept, and replayed when a later scan comes across it.          *)
(*                                                                         *)
(* The body of a node is what the traversal of its AST would come across   *)
(* that is not in the template as written (nodes_to_ignore_), in order and *)
(* without what is in a context where a forward declaration will do.       *)
EXTENDS Naturals, Sequences, FiniteSets, SequencesExt

CONSTANTS
  Nodes, NoNode,  \* instantiated functions, classes and variables
  Types, NoType,
  NodeInfo,   \* node -> [kind, file, decl, defined, body, precomputed]
  TypeInfo,   \* type -> [canonical, components, file, provided, class, instantiations]
  DeclFile,   \* file of a declaration
  Provides,   \* PublicHeaderIntendsToProvide: file -> set of files
  Sites,      \* what is scanned: [file, position, items, resugar_map, blocked_types]
  MaxScans

AnItem(kind, x) == [kind |-> kind, x |-> x]

(* What a traversal comes across: uses of declarations and types, and      *)
(* nodes, each of which it traverses in one of several ways.               *)
NodesOf(kind) == {n \in Nodes : NodeInfo[n].kind = kind}
Items ==
  UNION { {AnItem("decl", d) : d \in DOMAIN DeclFile},
          {AnItem(kind, t) : kind \in {"type", "parm", "instantiations"}, t \in Types},
          {AnItem(kind, n) : kind \in {"call", "function"}, n \in NodesOf("function")},
          {AnItem("variable", n) : n \in NodesOf("variable")},
          {AnItem(kind, n) : kind \in {"class", "members"}, n \in NodesOf("class")} }

(* ScanInstantiatedType is the only one that begins at the members.        *)
ItemsWithin == {i \in Items : i.kind # "members"}

ASSUME FinitenessAssumption ==
  /\ IsFiniteSet(Nodes) /\ IsFiniteSet(Types) /\ IsFiniteSet(DOMAIN DeclFile)
  /\ NoNode \notin Nodes /\ NoType \notin Types
  /\ MaxScans \in Nat

ASSUME NodesAssumption ==
  \A n \in Nodes :
    /\ NodeInfo[n].kind \in {"function", "class", "variable"}
    /\ NodeInfo[n].decl \in DOMAIN DeclFile
    /\ NodeInfo[n].body \in Seq(ItemsWithin)
    /\ NodeInfo[n].precomputed \in Seq([type : Types, default : BOOLEAN])

ASSUME TypesAssumption ==
  \A t \in Types :
    /\ TypeInfo[t].canonical \in Types
    /\ TypeInfo[TypeInfo[t].canonical].canonical = TypeInfo[t].canonical
    /\ TypeInfo[t].class \in NodesOf("class") \cup {NoNode}
    /\ TypeInfo[t].instantiations \in
         Seq([decl : DOMAIN DeclFile, position : Nat, definition : BOOLEAN])

(* The types of a resugar map are spelled another way, but the same types. *)
ASSUME SitesAssumption ==
  \A s \in Sites :
    /\ \/ s.items \in Seq(ItemsWithin)
       \/ \E n \in NodesOf("class") : s.items = <<AnItem("members", n)>>
    /\ DOMAIN s.resugar_map \subseteq Types
    /\ \A t \in DOMAIN s.resugar_map :
          s.resugar_map[t] # NoType =>
            /\ s.resugar_map[t] \in Types
            /\ TypeInfo[s.resugar_map[t]].canonical = t

VARIABLES
  cache,            \* [node, resugar_map] -> [types, decls], of both caches
  site,             \* the current scan's; <<>> between scans
  traversed_decls,
  frames,           \* what is being traversed, the innermost last:
                    \*   [node, items, storing, types, decls]
  reported,         \* what the scan has reported on its site's file
  num_scans,
  affected,         \* ghost: the frames that met a node which was traversed
                    \*   before them, or an entry that such a frame has left
  seen,             \* ghost: the nodes traversed before each frame
  tainted,          \* ghost: the keys of such entries
  results           \* ghost: what every scan has reported

vars == <<cache, site, traversed_decls, frames, reported, num_scans,
          affected, seen, tainted, results>>

Resugar == site.resugar_map
Key(n) == <<n, Resugar>>

Top == frames[Len(frames)]
Scanning == frames # <<>>
NextItem == Head(Top.items)
IsNext(kind) == Scanning /\ Top.items # <<>> /\ NextItem.kind = kind

(* The item has been dealt with, and led to others that come first. *)
Continue(items) ==
  [frames EXCEPT ![Len(frames)].items = items \o Tail(@)]

-----------------------------------------------------------------------------
(* Types. *)
IsKnownTemplateParam(t, resugar_map) == TypeInfo[t].canonical \in DOMAIN resugar_map

InvolvesKnownTemplateParam(t, resugar_map) ==
  IsKnownTemplateParam(t, resugar_map) \/ TypeInfo[t].components \cap DOMAIN resugar_map # {}

(* A default argument is in the map without a type as written. *)
ResugarType(t, resugar_map) ==
  LET canonical == TypeInfo[t].canonical
  IN  IF \/ canonical \notin DOMAIN resugar_map
         \/ resugar_map[canonical] = NoType
      THEN canonical ELSE resugar_map[canonical]

IsBlocked(t) == TypeInfo[t].canonical \in site.blocked_types

(* Whether a type that is reported is so on the caller's file: its alias   *)
(* may provide it.                                                         *)
IsReported(t) == TypeInfo[t].canonical \notin site.blocked_types \cup TypeInfo[t].provided

-----------------------------------------------------------------------------
(* The file of the innermost template on the AST stack that intends to     *)
(* provide the declaration: GetLocOfTemplateThatProvides.                  *)
Providers(d) ==
  {i \in 2..Len(frames) : DeclFile[d] \in Provides[NodeInfo[frames[i].node].file]}

ProvidedByTemplate(d) ==
  /\ Providers(d) # {}
  /\ LET innermost == CHOOSE i \in Providers(d) : \A j \in Providers(d) : j <= i
     IN  NodeInfo[frames[innermost].node].file # site.file

(* Let all storers know. *)
NoteReportedTypeInnermost(t, fs) ==
  [i \in DOMAIN fs |-> IF fs[i].storing /\ i = Len(fs)
                       THEN [fs[i] EXCEPT !.types = @ \cup {t}] ELSE fs[i]]

NoteReportedType(t, fs) ==
  [i \in DOMAIN fs |-> IF fs[i].storing THEN [fs[i] EXCEPT !.types = @ \cup {t}] ELSE fs[i]]

NoteReportedDecl(d, fs) ==
  [i \in DOMAIN fs |-> IF fs[i].storing THEN [fs[i] EXCEPT !.decls = @ \cup {d}] ELSE fs[i]]

UsesDecl(d) == reported' = reported \cup {d}

ReportDeclUse(d, fs) ==
  IF ProvidedByTemplate(d)
  THEN frames' = fs /\ UNCHANGED reported
  ELSE frames' = NoteReportedDecl(d, fs) /\ UsesDecl(d)

ghosts == <<affected, seen, tainted, results>>

UseDecl ==
  /\ IsNext("decl")
  /\ ReportDeclUse(NextItem.x, Continue(<<>>))
  /\ UNCHANGED <<cache, site, traversed_decls, num_scans, ghosts>>

(* A function is used, and searched if it is of a template. *)
CallFunction ==
  /\ IsNext("call")
  /\ ReportDeclUse(NodeInfo[NextItem.x].decl,
                   Continue(<<AnItem("function", NextItem.x)>>))
  /\ UNCHANGED <<cache, site, traversed_decls, num_scans, ghosts>>

(* ReportTypeUse, which searches the class that the type names. *)
Components(t) ==
  LET class == TypeInfo[TypeInfo[t].canonical].class
  IN  IF class = NoNode THEN <<>> ELSE <<AnItem("class", class)>>

UseType ==
  /\ IsNext("type")
  /\ LET t == ResugarType(NextItem.x, Resugar)
     IN  /\ IF ~IsKnownTemplateParam(t, Resugar)
            THEN frames' = Continue(<<>>) /\ UNCHANGED reported
            ELSE
              /\ frames' = IF IsBlocked(t) THEN Continue(Components(t))
                           ELSE NoteReportedType(t, Continue(Components(t)))
              /\ reported' = IF IsReported(t) THEN reported \cup {TypeInfo[t].canonical}
                             ELSE reported
         /\ affected' = IF IsKnownTemplateParam(t, Resugar) /\ IsBlocked(t)
                        THEN affected \cup (2..Len(frames)) ELSE affected
  /\ UNCHANGED <<cache, site, traversed_decls, num_scans, seen, tainted, results>>

(* AnalyzeTemplateTypeParmUse: a parameter of the template that is scanned, *)
(* or a class made from one.                                                *)
UseTemplateParm ==
  /\ IsNext("parm") /\ IsKnownTemplateParam(NextItem.x, Resugar)
  /\ frames' = Continue(<<AnItem("type", NextItem.x), AnItem("instantiations", NextItem.x)>>)
  /\ UNCHANGED <<cache, site, traversed_decls, reported, num_scans, ghosts>>

(* Previous explicit instantiations of the class: one in the same file, or *)
(* a declaration, or the first.  The storers are not told.                 *)
BestInstantiation(insts) ==
  LET before == {i \in DOMAIN insts : insts[i].position < site.position}
      here == {i \in before : DeclFile[insts[i].decl] = site.file}
      declarations == {i \in before : ~insts[i].definition}
      best == IF here # {} THEN here ELSE IF declarations # {} THEN declarations ELSE before
  IN  IF best = {} THEN <<>> ELSE <<insts[Min(best)].decl>>

ReportExplicitInstantiations ==
  /\ IsNext("instantiations")
  /\ frames' = Continue(<<>>)
  /\ LET class == TypeInfo[TypeInfo[NextItem.x].canonical].class
         best == BestInstantiation(TypeInfo[TypeInfo[NextItem.x].canonical].instantiations)
     IN  IF class = NoNode \/ best = <<>> \/ Providers(NodeInfo[class].decl) # {}
         THEN UNCHANGED reported
         ELSE UsesDecl(best[1])
  /\ UNCHANGED <<cache, site, traversed_decls, num_scans, ghosts>>

-----------------------------------------------------------------------------
(* Nodes.  Those frames are affected that began after n was traversed, and *)
(* all if it may have been traversed in another way, see below.            *)
Skip(n) ==
  /\ n \in traversed_decls
  /\ frames' = Continue(<<>>)
  /\ affected' = affected \cup {i \in DOMAIN frames : n \in seen[i] \/ NodeInfo[n].precomputed # <<>>}
  /\ UNCHANGED <<cache, site, traversed_decls, reported, num_scans, seen, tainted, results>>

MarkNothing(n) == n \notin traversed_decls /\ UNCHANGED traversed_decls

Mark(n) ==
  /\ n \notin traversed_decls
  /\ traversed_decls' = traversed_decls \cup {n}

(* The types and declarations of an entry are reported again, in some order. *)
ReplayUsesFromCache(n) ==
  /\ Key(n) \in DOMAIN cache
  /\ \E types \in SetToSeqs(cache[Key(n)].types), decls \in SetToSeqs(cache[Key(n)].decls) :
        frames' = Continue([i \in DOMAIN types |-> AnItem("type", types[i])]
                           \o [i \in DOMAIN decls |-> AnItem("decl", decls[i])])
  /\ affected' = IF Key(n) \in tainted THEN DOMAIN frames ELSE affected
  /\ UNCHANGED <<cache, reported, seen, tainted>>

BeginInheriting(n, storing) ==
  /\ frames' = Append(Continue(<<>>),
                      [node |-> n, items |-> NodeInfo[n].body, storing |-> storing,
                       types |-> Top.types, decls |-> Top.decls])
  /\ seen' = Append(seen, traversed_decls)
  /\ UNCHANGED <<cache, reported, affected, tainted>>

(* A scope that stores what is reported until it is left. *)
Begin(n, storing) ==
  /\ frames' = Append(Continue(<<>>),
                      [node |-> n, items |-> NodeInfo[n].body, storing |-> storing,
                       types |-> {}, decls |-> {}])
  /\ seen' = Append(seen, traversed_decls)
  /\ UNCHANGED <<cache, reported, affected, tainted>>

TraverseExpandedTemplateFunction ==
  /\ IsNext("function")
  /\ LET n == NextItem.x
     IN  \/ Skip(n)
         \/ /\ Mark(n)
            /\ \/ ReplayUsesFromCache(n)
               \/ Key(n) \notin DOMAIN cache /\ Begin(n, TRUE)
            /\ UNCHANGED <<site, num_scans, results>>

TraverseExpandedTemplateVariable ==
  /\ IsNext("variable")
  /\ LET n == NextItem.x
     IN  \/ Skip(n)
         \/ Mark(n) /\ Begin(n, FALSE) /\ UNCHANGED <<site, num_scans, results>>

TraverseMembers(n) ==
  \/ ReplayUsesFromCache(n)
  \/ /\ Key(n) \notin DOMAIN cache
     /\ IF NodeInfo[n].defined THEN Begin(n, TRUE)
        ELSE frames' = Continue(<<>>) /\ UNCHANGED <<cache, reported, affected, seen, tainted>>

(* "Hard-coded" types use their arguments, and their default arguments if  *)
(* their header does not provide them.                                     *)
PrecomputedUses(n, resugar_map) ==
  {i \in DOMAIN NodeInfo[n].precomputed :
     TypeInfo[NodeInfo[n].precomputed[i].type].components \cap DOMAIN resugar_map # {}}

PrecomputedItems(n, resugar_map) ==
  LET args == NodeInfo[n].precomputed
      reported_args == {i \in PrecomputedUses(n, resugar_map) :
        args[i].default => TypeInfo[args[i].type].file \notin Provides[NodeInfo[n].file]}
  IN  FlattenSeq([i \in DOMAIN args |->
        IF i \in reported_args
        THEN <<AnItem("type", args[i].type)>> \o Components(args[i].type) ELSE <<>>])

ReplayClassMemberUsesFromPrecomputedList(n) ==
  /\ PrecomputedUses(n, Resugar) # {}
  /\ frames' = Continue(PrecomputedItems(n, Resugar))
  /\ UNCHANGED <<cache, reported, affected, seen, tainted>>

TraverseDataAndTypeMembersOfClass ==
  /\ IsNext("class")
  /\ LET n == NextItem.x
     IN  \/ Skip(n)
         \/ /\ Mark(n)
            /\ \/ ReplayClassMemberUsesFromPrecomputedList(n)
               \/ PrecomputedUses(n, Resugar) = {} /\ TraverseMembers(n)
            /\ UNCHANGED <<site, num_scans, results>>

(* A class that is made from a parameter. *)
UseClassOfParm ==
  /\ IsNext("parm") /\ ~IsKnownTemplateParam(NextItem.x, Resugar)
  /\ LET n == TypeInfo[NextItem.x].class
     IN  \/ /\ ~InvolvesKnownTemplateParam(NextItem.x, Resugar) \/ n = NoNode
            /\ frames' = Continue(<<>>)
            /\ UNCHANGED <<cache, site, traversed_decls, reported, num_scans, ghosts>>
         \/ /\ InvolvesKnownTemplateParam(NextItem.x, Resugar) /\ n # NoNode
            /\ \/ Skip(n)
               \/ Mark(n) /\ TraverseMembers(n) /\ UNCHANGED <<site, num_scans, results>>

(* ScanInstantiatedClass does not mark the class. *)
ScanClass ==
  /\ IsNext("members")
  /\ TraverseMembers(NextItem.x)
  /\ UNCHANGED <<traversed_decls, site, num_scans, results>>

(* cache_.insert(): an entry that is there already stays. *)
Insert(n, entry) ==
  [key \in DOMAIN cache \cup {Key(n)} |-> IF key \in DOMAIN cache THEN cache[key] ELSE entry]

(* ~CacheStoringScope *)
Leave ==
  /\ Len(frames) > 1 /\ Top.items = <<>>
  /\ LET n == Top.node
     IN  /\ cache' = IF Top.storing
                     THEN Insert(n, [types |-> Top.types, decls |-> Top.decls]) ELSE cache
         /\ tainted' = IF Top.storing /\ Len(frames) \in affected /\ Key(n) \notin DOMAIN cache
                       THEN tainted \cup {Key(n)} ELSE tainted
  /\ frames' = Front(frames) /\ seen' = Front(seen)
  /\ affected' = affected \ {Len(frames)}
  /\ UNCHANGED <<site, traversed_decls, reported, num_scans, results>>
-----------------------------------------------------------------------------
(* The visitor is cleared; the first frame is that of the caller. *)
StartScan(s) ==
  /\ ~Scanning /\ num_scans < MaxScans
  /\ num_scans' = num_scans + 1
  /\ site' = s /\ traversed_decls' = {} /\ reported' = {}
  /\ frames' = <<[node |-> NoNode, items |-> s.items, storing |-> FALSE,
                  types |-> {}, decls |-> {}]>>
  /\ seen' = <<{}>> /\ affected' = {}
  /\ UNCHANGED <<cache, tainted, results>>

EndScan ==
  /\ Len(frames) = 1 /\ Top.items = <<>>
  /\ frames' = <<>> /\ seen' = <<>>
  /\ results' = results \cup {[site |-> site, reported |-> reported, affected |-> 1 \in affected]}
  /\ site' = <<>> /\ reported' = {} /\ traversed_decls' = {} /\ affected' = {}
  /\ UNCHANGED <<cache, num_scans, tainted>>

Init ==
  /\ cache = [key \in {} |-> <<>>]
  /\ site = <<>> /\ traversed_decls = {} /\ frames = <<>> /\ reported = {}
  /\ num_scans = 0
  /\ affected = {} /\ seen = <<>> /\ tainted = {} /\ results = {}

Next ==
  \/ \E s \in Sites : StartScan(s)
  \/ UseDecl \/ CallFunction \/ UseType \/ UseTemplateParm \/ UseClassOfParm
  \/ ReportExplicitInstantiations
  \/ TraverseExpandedTemplateFunction \/ TraverseExpandedTemplateVariable
  \/ TraverseDataAndTypeMembersOfClass \/ ScanClass
  \/ Leave \/ EndScan

Spec == Init /\ [][Next]_vars

-----------------------------------------------------------------------------
(* What a scan should find: the items below those of the site, whatever    *)
(* has been traversed or scanned before.                                   *)
After(item, resugar_map) ==
  LET x == item.x
      members == IF NodeInfo[x].defined THEN Range(NodeInfo[x].body) ELSE {}
  IN  CASE item.kind = "call" -> {AnItem("function", x)}
        [] item.kind \in {"function", "variable"} -> Range(NodeInfo[x].body)
        [] item.kind = "class" -> IF PrecomputedUses(x, resugar_map) # {}
                                  THEN Range(PrecomputedItems(x, resugar_map)) ELSE members
        [] item.kind = "members" -> members
        [] item.kind = "parm" ->
             IF IsKnownTemplateParam(x, resugar_map)
             THEN {AnItem("type", x), AnItem("instantiations", x)}
             ELSE IF InvolvesKnownTemplateParam(x, resugar_map) /\ TypeInfo[x].class # NoNode
             THEN {AnItem("members", TypeInfo[x].class)} ELSE {}
        [] item.kind = "type" -> IF IsKnownTemplateParam(x, resugar_map)
                                 THEN Range(Components(x)) ELSE {}
        [] OTHER -> {}

Below(items, resugar_map) ==
  LET within[n \in Nat] ==
        IF n = 0 THEN items
        ELSE LET nearer == within[n - 1]
             IN  nearer \cup UNION {After(i, resugar_map) : i \in nearer}
  IN  within[Cardinality(Items)]

TypesUsed(items, resugar_map) ==
  {ResugarType(i.x, resugar_map) :
     i \in {j \in items : j.kind = "type" /\ IsKnownTemplateParam(j.x, resugar_map)}}

DeclsUsed(items) ==
  {i.x : i \in {j \in items : j.kind = "decl"}}
  \cup {NodeInfo[i.x].decl : i \in {j \in items : j.kind = "call"}}

EntryItem(n) ==
  AnItem(CASE NodeInfo[n].kind = "function" -> "function"
           [] NodeInfo[n].kind = "class" -> "members"
           [] NodeInfo[n].kind = "variable" -> "variable", n)

BelowNode ==
  [n \in Nodes |-> [r \in {s.resugar_map : s \in Sites} |-> Below({EntryItem(n)}, r)]]
BelowSite == [s \in Sites |-> Below(Range(s.items), s.resugar_map)]

Instantiations(items) ==
  UNION {{i.decl : i \in Range(TypeInfo[TypeInfo[j.x].canonical].instantiations)} :
         j \in {k \in items : k.kind = "instantiations"}}

(* Nothing is invented: what is kept for a node, or reported for a site,   *)
(* is used somewhere below it.                                             *)
NothingInvented ==
  /\ \A key \in DOMAIN cache :
        /\ cache[key].types \subseteq TypesUsed(BelowNode[key[1]][key[2]], key[2])
        /\ cache[key].decls \subseteq DeclsUsed(BelowNode[key[1]][key[2]])
  /\ Scanning =>
       reported \subseteq
         {TypeInfo[t].canonical : t \in TypesUsed(BelowSite[site], Resugar)}
         \cup DeclsUsed(BelowSite[site]) \cup Instantiations(BelowSite[site])

(* A declaration that no template on the way can provide.                  *)
ProvidedByNone(d) == \A n \in Nodes : DeclFile[d] \notin Provides[NodeInfo[n].file]

Due(result) ==
  LET s == result.site
  IN  {TypeInfo[t].canonical : t \in
         {u \in TypesUsed(BelowSite[s], s.resugar_map) :
            TypeInfo[u].canonical \notin s.blocked_types \cup TypeInfo[u].provided}}
      \cup {d \in DeclsUsed(BelowSite[s]) : ProvidedByNone(d)}

(* What is kept for a node is all that there is below it, unless the search *)
(* of the node met one that it had passed before, or a blocked type, or an  *)
(* entry for which that is so; and so is what is reported for a site.  (A   *)
(* class with hard-coded uses that is made from a parameter is searched     *)
(* nevertheless, and one way excludes the other.)                           *)
CompleteUnlessAffected ==
  /\ \A key \in DOMAIN cache \ tainted :
        /\ TypesUsed(BelowNode[key[1]][key[2]], key[2]) \subseteq cache[key].types
        /\ {d \in DeclsUsed(BelowNode[key[1]][key[2]]) : ProvidedByNone(d)} \subseteq cache[key].decls
  /\ \A result \in results : result.affected \/ Due(result) \subseteq result.reported

(* The search of a node does not start again within itself, except for a   *)
(* class that a scan starts from: it ends.                                 *)
NoNodeWithinItself ==
  \A i, j \in DOMAIN frames :
    i # j /\ frames[i].node = frames[j].node =>
      2 \in {i, j} /\ site.items[1] = AnItem("members", frames[i].node)

(* "For each of these, the answer is always the same for the given Decl    *)
(* (function call or class instantiation) with the same template args":    *)
(* what is due is reported whatever has been scanned before.               *)
AnswerAlwaysSame ==
  \A result \in results : Due(result) \subseteq result.reported
=============================================================================
