----------------------------- MODULE MCUseCache -----------------------------
(* Two templates that call a third one and each other, and classes with    *)
(* members, used from a source, its header and a template's own header.    *)
EXTENDS UseCache

MCNodes == {"A", "B", "C", "K", "U", "V", "W", "virt"}
MCFunctions == {"A", "B", "C", "virt"}

Node(kind, file, body) ==
  [kind |-> kind, file |-> file, decl |-> "decl", defined |-> TRUE, body |-> body,
   precomputed |-> <<>>]

MCNodeInfo ==
  [ A |-> [Node("function", "tpl.h", <<AnItem("call", "C"), AnItem("call", "B")>>)
             EXCEPT !.decl = "A_decl"],
    B |-> [Node("function", "tpl.h",
                <<AnItem("call", "C"), AnItem("decl", "help"), AnItem("decl", "own")>>)
             EXCEPT !.decl = "B_decl"],
    C |-> [Node("function", "inner.h", <<AnItem("parm", "Foo"), AnItem("call", "B")>>)
             EXCEPT !.decl = "C_decl"],
    K |-> [Node("class", "inner.h",
                <<AnItem("parm", "VFoo"), AnItem("variable", "W"), AnItem("function", "virt")>>)
             EXCEPT !.decl = "K_decl"],
    U |-> [Node("class", "inner.h", <<AnItem("parm", "Bar")>>) EXCEPT !.defined = FALSE],
    V |-> [Node("class", "vec.h", <<AnItem("parm", "Foo")>>) EXCEPT
             !.precomputed = <<[type |-> "Foo", default |-> FALSE],
                               [type |-> "AllocFoo", default |-> TRUE]>>],
    W |-> Node("variable", "inner.h", <<AnItem("parm", "KFoo"), AnItem("class", "U")>>),
    virt |-> Node("function", "inner.h",
                  <<AnItem("parm", "KFoo"), AnItem("parm", "Foo"), AnItem("parm", "Bar"),
                    AnItem("class", "V"), AnItem("variable", "W"), AnItem("parm", "UBar")>>) ]

Type(canonical, file) ==
  [canonical |-> canonical, components |-> {canonical}, file |-> file, provided |-> {},
   class |-> "none", instantiations |-> <<>>]

MCTypeInfo ==
  [ Foo |-> Type("Foo", "foo_type.h"),
    Alias |-> [Type("Foo", "foo_type.h") EXCEPT !.provided = {"Foo"}],
    Bar |-> Type("Bar", "foo_type.h"),
    AllocFoo |-> [Type("AllocFoo", "foo_type.h") EXCEPT !.components = {"AllocFoo", "Foo"}],
    VFoo |-> [Type("VFoo", "vec.h") EXCEPT !.components = {"VFoo", "Foo"}, !.class = "V"],
    UBar |-> [Type("UBar", "inner.h") EXCEPT !.components = {"UBar", "Bar"}, !.class = "U"],
    KFoo |-> [Type("KFoo", "inner.h") EXCEPT !.components = {"KFoo", "Foo"}, !.class = "K",
                !.instantiations = <<[decl |-> "K_def", position |-> 1, definition |-> TRUE],
                                     [decl |-> "K_extern", position |-> 2, definition |-> FALSE],
                                     [decl |-> "K_here", position |-> 3, definition |-> TRUE]>>] ]

MCTypes == DOMAIN MCTypeInfo

MCDeclFile ==
  [d \in {"A_decl", "B_decl", "C_decl", "K_decl", "decl", "help", "own", "K_def", "K_extern", "K_here"} |->
     CASE d \in {"A_decl", "B_decl"} -> "tpl.h" [] d = "C_decl" -> "inner.h"
       [] d = "own" -> "tpl.h" [] d = "K_here" -> "foo.cc" [] d = "K_decl" -> "k.h"
       [] OTHER -> "help.h"]

MCProvides ==
  [f \in {"foo.cc", "foo.h", "tpl.h", "inner.h", "vec.h", "help.h", "foo_type.h"} |->
     IF f = "tpl.h" THEN {"tpl.h"} ELSE {f}]

Site(file, position, items, resugar_map, blocked) ==
  [file |-> file, position |-> position, items |-> items, resugar_map |-> resugar_map,
   blocked_types |-> blocked]

WithFoo == [t \in {"Foo"} |-> t]
WithAlias == [t \in {"Foo"} |-> "Alias"]
WithK == [t \in {"KFoo", "Foo", "AllocFoo"} |-> IF t = "AllocFoo" THEN "none" ELSE t]

Functions ==
  {Site("foo.cc", 9, <<AnItem("call", "A")>>, WithFoo, {}),
   Site("foo.h", 5, <<AnItem("call", "B")>>, WithFoo, {}),
   Site("tpl.h", 4, <<AnItem("call", "B")>>, WithFoo, {}),
   Site("foo.cc", 9, <<AnItem("function", "C")>>, WithAlias, {})}

Classes ==
  {Site("foo.cc", 9, <<AnItem("class", "K"), AnItem("instantiations", "KFoo")>>, WithK, {}),
   Site("foo.h", 2, <<AnItem("class", "K"), AnItem("instantiations", "KFoo")>>, WithK, {}),
   Site("foo.h", 3, <<AnItem("function", "virt")>>, WithK, {"Foo"}),
   Site("foo.cc", 9, <<AnItem("members", "K")>>, WithFoo, {}),
   Site("foo.cc", 9, <<AnItem("class", "V"), AnItem("class", "U")>>, WithFoo, {}),
   Site("foo.cc", 9, <<AnItem("variable", "W")>>, [t \in {"Bar"} |-> t], {})}

MCSites == Functions \cup Classes
=============================================================================
