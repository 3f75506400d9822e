---------------------------- MODULE MCIwyuOutput ----------------------------
(* foo.cc and foo.h, with headers they need, some of them in each of six   *)
(* programs.                                                               *)
EXTENDS IwyuOutput

MCFiles == {"fwd.h", "bar.h", "priv.h", "pub.h", "pch.h", "impl.cc", "foo.h", "foo.cc"}

MCFileOrder ==
  [f \in MCFiles |->
     CASE f = "pch.h" -> 1 [] f = "fwd.h" -> 2 [] f = "bar.h" -> 3 [] f = "priv.h" -> 4
       [] f = "pub.h" -> 5 [] f = "impl.cc" -> 6 [] f = "foo.h" -> 7 [] f = "foo.cc" -> 8]

MCQuotedInclude ==
  [f \in MCFiles |->
     CASE f = "pch.h" -> "'pch.h'" [] f = "fwd.h" -> "<fwd.h>" [] f = "bar.h" -> "'bar.h'"
       [] f = "priv.h" -> "<priv.h>" [] f = "pub.h" -> "<pub.h>"
       [] f = "impl.cc" -> "'impl.cc'" [] f = "foo.h" -> "'foo.h'" [] f = "foo.cc" -> "'foo.cc'"]

MCHeaders == Range(MCQuotedInclude)
MCHeaderFilenames == MCHeaders \ {"'impl.cc'", "'foo.cc'"}

MCFileHeaders ==
  [f \in MCFiles |-> IF f = "priv.h" THEN <<"<pub.h>">> ELSE <<MCQuotedInclude[f]>>]

MCSymbolHeaders == [x \in {"Mapped"} |-> <<"<pub.h>", "'bar.h'">>]
MCFwdHeaders == [x \in {"Stream"} |-> <<"<fwd.h>">>]
MCHeaderHeaders == [x \in {} |-> <<>>]

-----------------------------------------------------------------------------
E(kind, context) == [kind |-> kind, of |-> "none", context |-> context, traits |-> {}]

MCEntityInfo ==
  [ Bar |-> E("tag", "none"), Late |-> E("tag", "none"), Later |-> E("tag", "none"),
    call |-> E("function", "none"), Mapped |-> E("tag", "none"),
    Alias |-> E("typedef", "none"),
    Nested |-> E("tag", "Bar"), member |-> E("function", "Bar"),
    local |-> E("tag", "call"), ns |-> E("namespace", "none"),
    inner |-> [E("namespace", "none") EXCEPT !.traits = {"inline"}],
    Versioned |-> E("tag", "inner"), InNs |-> E("var", "ns"),
    using |-> [E("using", "none") EXCEPT !.of = "call"],
    builtin |-> [E("function", "none") EXCEPT !.traits = {"builtin"}],
    Stream |-> [E("tag", "none") EXCEPT !.traits = {"std"}],
    arg |-> E("function", "none"), Exp |-> E("tag", "none"), Owned |-> E("tag", "none"),
    InPch |-> E("tag", "none"),
    Tpl |-> E("template", "none"), Plain |-> E("template", "none"),
    TplInt |-> [E("specialization", "none") EXCEPT !.of = "Tpl"],
    PlainInt |-> [E("specialization", "none") EXCEPT !.of = "Plain"] ]

D(entity, file, line) ==
  [entity |-> entity, file |-> file, line |-> line, definition |-> FALSE,
   default_arg |-> FALSE, traits |-> {}]
Def(entity, file, line) == [D(entity, file, line) EXCEPT !.definition = TRUE]

MCDeclInfo ==
  [ bar_fwd |-> D("Bar", "fwd.h", 1), bar_def |-> Def("Bar", "bar.h", 2),
    bar_foo_h |-> D("Bar", "foo.h", 4), bar_foo_cc |-> D("Bar", "foo.cc", 5),
    late_foo_h |-> D("Late", "foo.h", 5), late_def |-> Def("Late", "foo.cc", 30),
    later_fwd |-> D("Later", "fwd.h", 2), later_def |-> Def("Later", "foo.cc", 33),
    call_decl |-> Def("call", "priv.h", 1),
    mapped_def |-> Def("Mapped", "priv.h", 2),
    nested_def |-> Def("Nested", "bar.h", 3), member_decl |-> D("member", "bar.h", 4),
    member_def |-> [Def("member", "impl.cc", 1) EXCEPT !.traits = {"out_of_line"}],
    local_def |-> Def("local", "priv.h", 3), ns_decl |-> D("ns", "bar.h", 10),
    inns_decl |-> D("InNs", "bar.h", 11),
    versioned_fwd |-> D("Versioned", "fwd.h", 4), versioned_def |-> Def("Versioned", "bar.h", 12),
    using_call |-> D("using", "foo.h", 6), builtin_decl |-> D("builtin", "bar.h", 20),
    arg_decl |-> D("arg", "fwd.h", 8),
    arg_default |-> [D("arg", "bar.h", 21) EXCEPT !.default_arg = TRUE],
    arg_foo_cc |-> D("arg", "foo.cc", 6),
    stream_fwd |-> D("Stream", "fwd.h", 5), stream_def |-> Def("Stream", "pub.h", 6),
    tpl_fwd |-> [D("Tpl", "fwd.h", 7) EXCEPT !.default_arg = TRUE],
    tpl_def |-> Def("Tpl", "bar.h", 30), tplint_def |-> Def("TplInt", "pub.h", 30),
    plain_fwd |-> D("Plain", "foo.cc", 7), plain_def |-> Def("Plain", "bar.h", 40),
    plainint_def |-> Def("PlainInt", "pub.h", 40),
    macro_fwd |-> [D("Bar", "foo.cc", 8) EXCEPT !.traits = {"in_macro"}],
    exported_fwd |-> [D("Exp", "fwd.h", 9) EXCEPT !.traits = {"exported"}],
    exp_def |-> Def("Exp", "bar.h", 50),
    kept_fwd |-> [D("Exp", "foo.h", 7) EXCEPT !.traits = {"keep"}],
    friend_decl |-> [D("Exp", "foo.h", 8) EXCEPT !.traits = {"friend"}],
    qualified_def |-> [Def("Late", "foo.cc", 30) EXCEPT !.traits = {"qualified"}],
    owned |-> [D("Owned", "foo.cc", 9) EXCEPT !.traits = {"embedded", "owned_tag"}],
    owned_def |-> Def("Owned", "foo.cc", 50),
    pch_def |-> Def("InPch", "pch.h", 1), pch_fwd |-> D("InPch", "foo.cc", 3) ]

MCDecls == DOMAIN MCDeclInfo

I(includer, line, includee) ==
  [includer |-> includer, line |-> line, includee |-> includee,
   quoted |-> MCQuotedInclude[includee]]

R(kind, file, line, decl) ==
  [kind |-> kind, file |-> file, line |-> line, decl |-> decl, symbol |-> "none",
   dfn_file |-> "none", flags |-> {}]

Program(includes, decls, program_uses) ==
  [main |-> "foo.cc", files_to_report |-> {"foo.cc", "foo.h"},
   associated |-> [f \in MCFiles |-> IF f = "foo.cc" THEN {"foo.h"} ELSE {}],
   includes |-> includes, decls |-> decls, uses |-> program_uses,
   kept_includes |-> {}, no_includes |-> {}, no_forward_declares |-> {},
   prefix_headers |-> {}, pch_in_code |-> {}]

Pointers ==
  Program(<<I("foo.cc", 1, "foo.h"), I("foo.h", 1, "bar.h"), I("bar.h", 1, "fwd.h"),
            I("foo.cc", 2, "pub.h"), I("pub.h", 1, "priv.h")>>,
          <<"bar_fwd", "later_fwd", "bar_def", "call_decl", "mapped_def", "bar_foo_h",
            "late_foo_h", "bar_foo_cc", "late_def", "later_def">>,
          {R("full", "foo.h", 10, "bar_fwd"), R("forward", "foo.h", 11, "bar_fwd"),
           R("full", "foo.cc", 10, "bar_fwd"), R("forward", "foo.cc", 11, "bar_fwd"),
           R("forward", "foo.cc", 3, "bar_fwd"), R("forward", "foo.cc", 16, "later_fwd"),
           R("full", "foo.cc", 12, "call_decl"), R("full", "foo.h", 12, "call_decl"),
           R("full", "foo.cc", 13, "mapped_def"),
           R("forward", "foo.h", 13, "late_foo_h"), R("full", "foo.cc", 14, "late_foo_h"),
           R("full", "foo.cc", 31, "late_foo_h"), R("forward", "foo.cc", 32, "late_foo_h")})

Chain == <<I("foo.cc", 1, "foo.h"), I("foo.h", 1, "bar.h"), I("bar.h", 1, "fwd.h"),
           I("foo.cc", 2, "pub.h"), I("pub.h", 1, "priv.h")>>

Members ==
  Program(Chain \o <<I("foo.cc", 3, "impl.cc")>>,
          <<"bar_def", "nested_def", "member_decl", "versioned_fwd", "versioned_def", "arg_decl",
            "ns_decl", "inns_decl", "builtin_decl", "arg_default", "call_decl", "local_def",
            "using_call", "member_def", "arg_foo_cc">>,
          {R("full", "foo.cc", 20, "nested_def"), R("forward", "foo.cc", 21, "nested_def"),
           R("full", "foo.cc", 22, "member_decl"), R("full", "foo.h", 22, "member_decl"),
           R("full", "foo.cc", 23, "bar_def"), R("full", "foo.h", 24, "local_def"),
           R("forward", "foo.cc", 24, "local_def"),
           R("full", "foo.h", 25, "ns_decl"), R("full", "foo.h", 26, "inns_decl"),
           R("forward", "foo.cc", 27, "versioned_fwd"), R("full", "foo.cc", 28, "builtin_decl"),
           R("full", "foo.cc", 29, "arg_decl"), R("full", "foo.h", 21, "bar_def"),
           R("full", "foo.h", 23, "call_decl"), R("full", "foo.cc", 19, "call_decl"),
           [R("full", "foo.cc", 30, "arg_default") EXCEPT !.flags = {"default_argument"}],
           R("using", "foo.h", 31, "using_call"), R("using", "foo.cc", 31, "using_call")})

Templates ==
  Program(Chain \o <<I("foo.h", 2, "fwd.h"), I("pub.h", 2, "bar.h")>>,
          <<"stream_fwd", "tpl_fwd", "exported_fwd", "tpl_def", "plain_def", "exp_def",
            "stream_def", "tplint_def", "plainint_def", "kept_fwd", "friend_decl", "plain_fwd",
            "owned", "owned_def">>,
          {R("forward", "foo.h", 20, "stream_fwd"), R("full", "foo.cc", 20, "stream_fwd"),
           R("forward", "foo.cc", 21, "stream_def"),
           R("forward", "foo.cc", 22, "tpl_fwd"), R("forward", "foo.h", 22, "tplint_def"),
           R("full", "foo.cc", 23, "tplint_def"), R("forward", "foo.cc", 24, "plain_def"),
           R("forward", "foo.cc", 25, "plainint_def"), R("full", "foo.cc", 26, "plain_def"),
           R("forward", "foo.h", 27, "exp_def"), R("forward", "foo.h", 28, "friend_decl"),
           R("forward", "foo.cc", 29, "exp_def"), R("forward", "foo.cc", 30, "owned")})

Pragmas ==
  [Program(Chain \o <<I("foo.cc", 4, "fwd.h"), I("foo.cc", 5, "priv.h"), I("foo.cc", 5, "bar.h")>>,
          <<"pch_def", "bar_fwd", "bar_def", "call_decl", "late_foo_h", "pch_fwd", "macro_fwd",
            "qualified_def">>,
          {R("full", "foo.cc", 20, "bar_def"), R("forward", "foo.cc", 21, "bar_fwd"),
           R("forward", "foo.h", 21, "bar_fwd"),
           R("full", "foo.cc", 22, "pch_def"), R("forward", "foo.h", 22, "pch_def"),
           R("forward", "foo.cc", 23, "pch_fwd"), R("full", "foo.cc", 24, "call_decl"),
           [R("symbol", "foo.cc", 25, "none") EXCEPT !.symbol = "MACRO", !.dfn_file = "priv.h"],
           [R("symbol", "foo.h", 25, "none") EXCEPT !.symbol = "MACRO", !.dfn_file = "foo.cc"],
           [R("include", "foo.cc", 4, "none") EXCEPT !.dfn_file = "fwd.h"]})
   EXCEPT !.kept_includes = {<<"foo.cc", "priv.h">>}, !.prefix_headers = {"pch.h"},
          !.no_forward_declares = {<<"foo.h", "Bar">>}]

(* A private header that is kept, and provided by one that is added. *)
Kept ==
  [Program(<<I("foo.cc", 1, "foo.h"), I("foo.h", 1, "priv.h"), I("foo.cc", 2, "priv.h")>>,
          <<"call_decl", "mapped_def">>,
          {R("full", "foo.h", 20, "call_decl"), R("full", "foo.cc", 20, "call_decl"),
           R("full", "foo.h", 21, "mapped_def"), R("full", "foo.cc", 21, "mapped_def")})
   EXCEPT !.kept_includes = {<<"foo.cc", "priv.h">>}]

(* foo.h names bar.h as associated: it inherits its includes, or comes     *)
(* before it and ends the program.                                         *)
Inherits ==
  [Program(Chain, <<"bar_fwd", "bar_def", "call_decl", "mapped_def", "bar_foo_h">>,
          {R("full", "bar.h", 5, "call_decl"), R("full", "foo.h", 20, "call_decl"),
           R("full", "foo.cc", 20, "call_decl"), R("forward", "foo.h", 21, "bar_fwd"),
           R("forward", "bar.h", 6, "bar_def"), R("full", "foo.cc", 21, "bar_def"),
           R("full", "bar.h", 7, "mapped_def"), R("full", "foo.h", 22, "mapped_def")})
   EXCEPT !.files_to_report = {"foo.cc", "foo.h", "bar.h"},
          !.associated["foo.h"] = {"bar.h"}]

MCPrograms == {Pointers, Members, Templates, Pragmas, Kept, Inherits}

-----------------------------------------------------------------------------
Flags ==
  [no_fwd_decls |-> FALSE, transitive_includes_only |-> FALSE,
   prefix_header_includes |-> "add", verbose |-> 1,
   exit_code_error |-> 1, exit_code_always |-> 0]

MCFlagSets == {Flags, [Flags EXCEPT !.no_fwd_decls = TRUE],
               [Flags EXCEPT !.prefix_header_includes = "remove"]}
=============================================================================
