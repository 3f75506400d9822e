-------------------------- MODULE MCResponsibility --------------------------
(* Two headers with typedefs and functions around a class and a template   *)
(* defined elsewhere, their sources, a macro and a user of it all.         *)
(* The tables are labelled so that TLC reports its coverage of each as one *)
(* expression, not at every place that looks something up in it.           *)
EXTENDS Responsibility

MCMains == <<"a.cc", "b.cc", "u.cc">>
MCUnits == ("a.cc" :> {"a.cc", "a.h"}) @@ ("b.cc" :> {"b.cc", "b.h"}) @@ ("u.cc" :> {"u.cc", "m.h", "traits.h"})
MCHeaderFiles == {"a.h", "b.h", "m.h", "foo.h", "tpl.h", "fwd.h", "traits.h"}

AClass(file, line) ==
  [tag |-> "class", file |-> file, line |-> line, bases |-> {}, from |-> {}, to |-> {}]

MCClassInfo == table::
  [ Foo |-> [AClass("foo.h", 5) EXCEPT !.from = {"int"}],
    Tpl |-> [AClass("tpl.h", 5) EXCEPT !.from = {"int"}],
    Own |-> AClass("b.h", 10),
    Base |-> AClass("foo.h", 6),
    Derived |-> [AClass("foo.h", 7) EXCEPT !.bases = {"Base"}],
    FromBase |-> [AClass("foo.h", 8) EXCEPT !.from = {"base_ptr", "base_cref"}],
    ToInt |-> [AClass("foo.h", 9) EXCEPT !.to = {"int"}],
    ToIntToo |-> [AClass("foo.h", 10) EXCEPT !.bases = {"ToInt"}],
    Either |-> [AClass("foo.h", 11) EXCEPT !.tag = "union", !.from = {"int"}, !.to = {"int"}] ]

AType(kind, of) ==
  [kind |-> kind, of |-> of, class |-> NoClass, args |-> {}, needs |-> {},
   size |-> 0, qualifier |-> NoType, file |-> NoFile, line |-> 0, std |-> FALSE]
Alias(of, file, line) == [AType("typedef", of) EXCEPT !.file = file, !.line = line]

Record(c) == [AType("record", NoType) EXCEPT !.class = c]
Member(c) == [AType("member_pointer", "int") EXCEPT !.qualifier = c]
Array(of, size) == [AType("array", of) EXCEPT !.size = size]

MCTypeInfo == table::
  [ int |-> AType("builtin", NoType),
    foo |-> [AType("record", NoType) EXCEPT !.class = "Foo"],
    own |-> [AType("record", NoType) EXCEPT !.class = "Own"],
    foo_ptr |-> AType("pointer", "foo"),
    foo_ref |-> AType("reference", "foo"),
    foo_cref |-> AType("const_reference", "foo"),
    foos |-> AType("array", "foo"),
    tpl |-> [AType("specialization", NoType) EXCEPT
               !.class = "Tpl", !.args = {"foo"}, !.needs = {"foo"}],
    tpl_of_param |-> [AType("specialization", NoType) EXCEPT !.class = "Tpl", !.needs = {"foo"}],
    tpl_cref |-> AType("const_reference", "tpl"),
    alias |-> Alias("foo", "a.h", 3),
    alias_ptr |-> AType("pointer", "alias"),
    alias2 |-> Alias("alias", "b.h", 3),
    tpl_alias |-> Alias("tpl", "a.h", 4),
    tpl_alias2 |-> [Alias("tpl_of_param", "b.h", 4) EXCEPT !.kind = "alias_template", !.args = {"foo"}],
    foos_alias |-> Alias("foos", "b.h", 2),
    std_alias |-> [Alias("foo", "fwd.h", 4) EXCEPT !.std = TRUE],
    own_alias |-> Alias("own", "b.h", 11),
    void |-> AType("void", NoType), void_ptr |-> AType("pointer", "void"),
    fn |-> AType("function", "int"), fn_cref |-> AType("const_reference", "fn"),
    base |-> Record("Base"), base_ptr |-> AType("pointer", "base"),
    base_ref |-> AType("reference", "base"), base_cref |-> AType("const_reference", "base"),
    base_ptr_ref |-> AType("reference", "base_ptr"), base_ptr_cref |-> AType("const_reference", "base_ptr"),
    base_ptrs |-> Array("base_ptr", 2), bases |-> Array("base", 0), base_table |-> Array("bases", 2),
    base_member |-> Member("base"), base_members |-> Array("base_member", 1),
    derived |-> Record("Derived"), derived_ptr |-> AType("pointer", "derived"),
    derived_ref |-> AType("reference", "derived"), derived_rref |-> AType("rvalue_reference", "derived"),
    derived_alias |-> Alias("derived", "b.h", 15), derived_ptr_alias |-> Alias("derived_ptr", "b.h", 16),
    derived_ref_alias |-> Alias("derived_ref", "b.h", 17),
    derived_member |-> Member("derived"), derived_member_ref |-> AType("reference", "derived_member"),
    derived_members |-> Array("derived_member", 1),
    from_base |-> Record("FromBase"), from_base_cref |-> AType("const_reference", "from_base"),
    to_int_too |-> Record("ToIntToo"), to_int_alias |-> Alias("to_int_too", "a.h", 12),
    either |-> Record("Either"), either_ptr |-> AType("pointer", "either"),
    either_ref |-> AType("reference", "either"), eithers |-> Array("either", 0),
    int_ref |-> AType("reference", "int"), int_cref |-> AType("const_reference", "int"),
    ints |-> Array("int", 2), bases_ref |-> AType("reference", "bases") ]

Decl(file, line) == [file |-> file, line |-> line, definition |-> FALSE, friend |-> FALSE]
Fn(return, params, redecls) ==
  [return |-> return, params |-> params, redecls |-> redecls, overrides |-> NoFunction,
   method |-> FALSE, template |-> FALSE, operator |-> FALSE, variadic |-> FALSE]

MCFnInfo == table::
  [ make |-> Fn("foo", <<>>, <<Decl("a.h", 5), [Decl("b.h", 5) EXCEPT !.friend = TRUE],
                               [Decl("b.cc", 5) EXCEPT !.definition = TRUE]>>),
    make_alias |-> Fn("alias2", <<>>, <<Decl("b.h", 6)>>),
    make_tpl |-> Fn("tpl", <<"foo_ptr">>, <<Decl("a.h", 6)>>),
    make_ptr |-> Fn("foo_ptr", <<"foo_ref">>, <<Decl("a.h", 7)>>),
    make_here |-> Fn("foo", <<>>, <<Decl("u.cc", 2)>>),
    take |-> Fn("int", <<"foo_cref", "int">>, <<Decl("a.h", 8), Decl("b.h", 7),
                               [Decl("b.cc", 6) EXCEPT !.definition = TRUE]>>),
    take_here |-> Fn("int", <<"foo_cref">>, <<Decl("u.cc", 3)>>),
    counter |-> Fn("foo", <<>>, <<Decl("b.h", 14), Decl("b.cc", 14)>>),
    take_tpl |-> [Fn("int", <<"tpl_cref">>, <<Decl("b.h", 8), Decl("m.h", 6)>>) EXCEPT
                    !.template = TRUE],
    take_inline |-> Fn("alias", <<"foo_cref">>,
                       <<[Decl("b.h", 9) EXCEPT !.definition = TRUE]>>),
    covariant |-> [Fn("derived_ptr", <<>>, <<Decl("b.h", 18)>>) EXCEPT
                     !.method = TRUE, !.overrides = "made"],
    made |-> [Fn("base_ptr", <<>>, <<Decl("a.h", 13)>>) EXCEPT !.method = TRUE],
    print |-> [Fn("int", <<"int">>, <<Decl("b.h", 19)>>) EXCEPT !.variadic = TRUE],
    print2 |-> Fn("int", <<"int">>, <<Decl("a.h", 14)>>),
    shift |-> [Fn("int", <<"int", "foo_cref">>, <<Decl("b.h", 20)>>) EXCEPT !.operator = TRUE],
    plus |-> [Fn("int", <<"int">>, <<Decl("foo.h", 12)>>) EXCEPT !.operator = TRUE, !.method = TRUE],
    compare |-> Fn("int", <<"int", "int">>, <<Decl("b.h", 21)>>),
    method |-> [Fn("foo", <<"foo_cref">>, <<Decl("a.h", 11)>>) EXCEPT !.method = TRUE],
    override |-> [Fn("foo", <<"foo_cref">>, <<Decl("b.h", 12)>>) EXCEPT
                    !.method = TRUE, !.overrides = "method"] ]

ANode(kind, file, line) ==
  [kind |-> kind, file |-> file, line |-> line, type |-> NoType, fn |-> NoFunction,
   definition |-> FALSE, friend |-> FALSE, source |-> NoType, macro |-> NoFile, scratch |-> FALSE,
   op |-> "none", args |-> <<>>, lvalues |-> {}, in_call |-> FALSE, overloads |-> <<>>, adl |-> FALSE]
Typed(kind, file, line, t) == [ANode(kind, file, line) EXCEPT !.type = t]
Variable(file, line, t) == [Typed("variable", file, line, t) EXCEPT !.definition = TRUE]
Calling(kind, line, f, t) == [ANode(kind, "u.cc", line) EXCEPT !.fn = f, !.type = t]
InMacro(node) == [node EXCEPT !.macro = "m.h"]

InSomeOrder(S) == FoldSet(LAMBDA x, seq : Append(seq, x), <<>>, S)
TypedefNodes ==
  InSomeOrder({Typed("typedef", TypeInfo[t].file, TypeInfo[t].line, t) : t \in {a \in Types : IsAlias(a)}})
FunctionNodes ==
  InSomeOrder(UNION {{[ANode("function", r.file, r.line) EXCEPT
                      !.fn = f, !.definition = r.definition, !.friend = r.friend] :
                     r \in Range(FnInfo[f].redecls)} : f \in DOMAIN FnInfo \ {"counter"}})
UserNodes ==
  << Variable("u.cc", 20, "alias2"), Variable("u.cc", 21, "tpl"),
     Variable("u.cc", 22, "foos_alias"), Variable("u.cc", 23, "std_alias"),
     InMacro(Typed("member", "u.cc", 24, "foo_ptr")),
     Typed("member", "u.cc", 25, "alias_ptr"), Typed("subscript", "u.cc", 26, "foos_alias"),
     Typed("for_range", "u.cc", 26, "tpl_alias"), Typed("for_range", "u.cc", 27, "tpl_alias2"),
     Typed("delete", "u.cc", 27, "alias_ptr"), Typed("catch", "u.cc", 27, "foo_ref"),
     Typed("typeid", "u.cc", 27, "alias"), Typed("init_list", "u.cc", 27, "alias"), Variable("b.h", 13, "own"),
     [Typed("variable", "b.h", 14, "foo") EXCEPT !.fn = "counter"],
     [Variable("b.cc", 14, "alias") EXCEPT !.fn = "counter"],
     [InMacro(Typed("construct", "u.cc", 28, "foo")) EXCEPT !.scratch = TRUE],
     [Typed("construct", "u.cc", 29, "foo") EXCEPT !.source = "alias"],
     Calling("call", 30, "make", NoType), Calling("call", 31, "make_alias", NoType),
     Calling("call", 32, "make_tpl", NoType), Calling("call", 33, "make_ptr", NoType),
     Calling("call", 34, "make_here", NoType), Calling("call", 35, "override", NoType),
     InMacro(Calling("call", 36, "take_tpl", NoType)),
     Calling("autocast", 37, "take", "foo"), Calling("autocast", 38, "take_tpl", "tpl"),
     Calling("autocast", 39, "take_inline", "foo"), Calling("autocast", 40, "override", "foo"),
     Calling("autocast", 41, "take_here", "foo") >>

Expr(kind, op, line, args) == [ANode(kind, "u.cc", line) EXCEPT !.op = op, !.args = args]
Called(f, node) == [node EXCEPT !.fn = f]
Looked(line, overloads) == [ANode("lookup", "u.cc", line) EXCEPT !.overloads = overloads]
Candidate(f) == [fn |-> f, file |-> FnInfo[f].redecls[1].file]
ExprNodes ==
  << Expr("arithmetic", "none", 42, <<"alias_ptr", "int">>),
     Called("shift", Expr("operator", "none", 43, <<"int", "alias">>)),
     Called("plus", Expr("operator", "none", 43, <<"alias", "int">>)),
     Called("compare", Expr("operator", "none", 43, <<"int", "int">>)),
     [Called("print", Expr("arguments", "none", 44, <<"foo", "alias", "tpl_alias">>)) EXCEPT !.lvalues = {1, 2}],
     Called("print2", Expr("arguments", "none", 44, <<"foo">>)),
     Expr("cast", "constructor_conversion", 45, <<"int", "alias">>),
     [Expr("cast", "constructor_conversion", 45, <<"int", "foo">>) EXCEPT !.in_call = TRUE],
     Expr("cast", "user_defined_conversion", 46, <<"to_int_alias", "int">>),
     Expr("cast", "base_to_derived", 47, <<"base_ptr", "derived_ptr_alias">>),
     Expr("cast", "derived_to_base", 48, <<"foo", "base_ref", "derived_ref">>),
     Expr("cast", "dynamic", 49, <<"base_ref", "derived_ref_alias">>),
     Expr("cast", "bit", 49, <<"foo_ptr", "derived_ptr">>),
     [Expr("sizeof", "type", 50, <<>>) EXCEPT !.type = "alias"],
     [Expr("sizeof", "type", 50, <<>>) EXCEPT !.type = "foo_cref"],
     [Expr("sizeof", "expression", 50, <<>>) EXCEPT !.type = "tpl_alias"],
     Looked(51, <<>>), Looked(51, <<Candidate("print2")>>), Looked(51, <<Candidate("shift")>>),
     Looked(52, <<Candidate("print"), Candidate("print2")>>),
     [Looked(53, <<Candidate("plus"), Candidate("print2")>>) EXCEPT !.adl = TRUE],
     [Looked(54, <<Candidate("print2"), Candidate("make_here")>>) EXCEPT !.adl = TRUE],
     Looked(54, <<Candidate("print2"), Candidate("make_here")>>) >>

(* Pairs of related types, and what is asked of every one of them.         *)
Related ==
  {<<"base_ptr", "derived_ptr_alias">>, <<"base_ptr_cref", "derived_ptr">>, <<"base_ptr_ref", "derived_ptr">>,
   <<"base_cref", "derived_alias">>, <<"base_ref", "derived_ref_alias">>, <<"base_cref", "derived_rref">>,
   <<"derived_member_ref", "base_member">>, <<"derived_members", "base_member">>,
   <<"from_base", "derived_ptr_alias">>, <<"from_base_cref", "derived_ref_alias">>, <<"from_base", "either_ptr">>,
   <<"int_ref", "to_int_alias">>, <<"int_cref", "to_int_alias">>, <<"either_ref", "either">>,
   <<"base_ptrs", "derived_ptr">>, <<"bases", "derived_alias">>, <<"void_ptr", "derived_ptr">>,
   <<"int", "either">>, <<"base", "derived_alias">>}
Trait(trait, args) == [Expr("trait", trait, 1, args) EXCEPT !.file = "traits.h"]
TraitNodes ==
  InSomeOrder({Trait(trait, IF trait = "is_convertible" THEN <<p[2], p[1]>> ELSE p) :
                 trait \in RelationTraits, p \in Related})
OtherTraitNodes ==
  << Trait("is_complete_type", <<"foo">>), Trait("structured_binding_size", <<"foos">>),
     Trait("is_empty", <<"alias">>), Trait("is_empty", <<"either">>),
     Trait("is_final", <<"either">>), Trait("is_trivial", <<"foos_alias">>),
     Trait("has_trivial_assign", <<"bases_ref">>), Trait("has_trivial_assign", <<"foo_ref">>),
     Trait("has_trivial_assign", <<"alias">>),
     Trait("is_destructible", <<"bases">>), Trait("is_destructible", <<"foos_alias">>),
     Trait("is_layout_compatible", <<"foo", "tpl">>),
     Trait("is_constructible", <<"foo">>),
     Trait("is_constructible", <<"from_base", "derived_ptr", "either_ptr">>),
     Trait("is_constructible", <<"from_base", "void", "int">>),
     Trait("is_constructible", <<"base_ptrs", "derived_ptr", "void_ptr", "int">>),
     Trait("is_constructible", <<"base_table", "derived">>),
     Trait("is_trivially_constructible", <<"base", "derived", "either">>),
     Trait("is_trivially_constructible", <<"either", "int", "int">>),
     Trait("is_trivially_constructible", <<"eithers", "either">>),
     Trait("is_trivially_constructible", <<"bases", "int">>),
     Trait("is_trivially_constructible", <<"derived_members", "base_member">>),
     Trait("reference_binds_to_temporary", <<"fn_cref", "int">>),
     Called("compare", Trait("lt_synthesizes_from_spaceship", <<"foo_cref", "either_ptr">>)),
     Trait("lt_synthesizes_from_spaceship", <<"derived_ptr", "foo">>),
     Trait("lt_synthesizes_from_spaceship", <<"void", "foo">>) >>
MCNodes == table:: TypedefNodes \o FunctionNodes \o UserNodes \o ExprNodes \o TraitNodes \o OtherTraitNodes

Forward(c, file, line) == [class |-> c, file |-> file, line |-> line]
AlwaysIncluded ==
  {<<"a.h", "fwd.h">>, <<"b.h", "a.h">>, <<"a.cc", "a.h">>, <<"b.cc", "foo.h">>, <<"b.cc", "tpl.h">>,
   <<"b.cc", "b.h">>, <<"u.cc", "foo.h">>, <<"u.cc", "tpl.h">>, <<"u.cc", "b.h">>, <<"u.cc", "m.h">>}
AlwaysForward == {Forward("Foo", "fwd.h", 1), Forward("Tpl", "fwd.h", 2), Forward("Own", "b.h", 1)}

Optional == {<<"a.h", "foo.h">>, <<"a.cc", "foo.h">>, <<"b.h", "foo.h">>}
WithTraits == {Optional \cup {<<"u.cc", "traits.h">>}, {<<"u.cc", "traits.h">>}}

MCTexts == table::
  {[includes |-> AlwaysIncluded \cup i, forwards |-> AlwaysForward] : i \in WithTraits} \cup
  {[includes |-> AlwaysIncluded \cup i, forwards |-> AlwaysForward \cup f] :
     i \in SUBSET Optional,
     f \in SUBSET {Forward("Foo", "a.h", 1), Forward("Foo", "a.h", 10), Forward("Tpl", "a.h", 2),
                   Forward("Foo", "b.h", 1), Forward("Foo", "m.h", 1)}}
=============================================================================
