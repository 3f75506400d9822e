------------------------- MODULE MCMinimalIncludes -------------------------
(* A file self.cc, four headers, and uses whose candidates overlap.        *)
EXTENDS MinimalIncludes

MCHeaders == {"self", "a", "b", "c", "priv"}

FullUse(decl_file, public_headers, canonical_headers) ==
  [ignore_use |-> FALSE, full |-> TRUE, decl_file |-> decl_file,
   suggested_header |-> NoHeader, public_headers |-> public_headers,
   canonical_headers |-> canonical_headers]

MCUses ==
  { FullUse("priv", <<"a", "b">>, <<"a">>),
    FullUse("priv", <<"b", "a">>, <<"b", "c">>),
    FullUse("priv", <<"b", "c">>, <<"b">>),
    FullUse("priv", <<"c", "a">>, <<"c", "a">>),
    FullUse("c", <<"c">>, <<"c">>),
    FullUse("priv", <<"self", "a">>, <<"self">>),
    FullUse("priv", <<"a", "self">>, <<"a">>),
    [FullUse("a", <<>>, <<>>) EXCEPT !.suggested_header = "a"],
    [FullUse("b", <<>>, <<>>) EXCEPT !.suggested_header = "b", !.ignore_use = TRUE],
    [FullUse("a", <<>>, <<>>) EXCEPT !.full = FALSE] }

File(direct, associated_desired) ==
  [use_quoted_include |-> "self", direct_includes |-> direct,
   associated_desired_includes |-> associated_desired]

MCSituations ==
  { File({}, {}), File({"priv"}, {}), File({"a", "c"}, {}), File({"b"}, {"c"}),
    File({"a", "priv"}, {"b"}) }
=============================================================================
