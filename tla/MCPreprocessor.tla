---------------------------- MODULE MCPreprocessor ----------------------------
(* A small translation unit for Preprocessor: the source w/lib/x.cc, its   *)
(* header x.h, headers a.h and b.h that may include each other, a prefix   *)
(* header, and a public and a private header of a library.  Each           *)
(* configuration picks the lines that the files may have.                  *)
EXTENDS Preprocessor

Main == <<"w", "lib", "x.cc">>
Hdr  == <<"w", "api", "x.h">>
A    == <<"w", "lib", "a.h">>
B    == <<"w", "lib", "b.h">>
C    == <<"w", "lib", "c.h">>
Pre  == <<"w", "pre.h">>
Vec  == <<"usr", "bits", "vec.h">>
Std  == <<"usr", "vector">>

MCFileOrder == <<A, B, C, Hdr, Main, Pre, Std, Vec>>

MCSearchPaths == { [prefix |-> <<"w">>, angled |-> FALSE],
                   [prefix |-> <<"usr">>, angled |-> TRUE] }

MCStem == [n \in {Last(f) : f \in Range(MCFileOrder)} |->
             IF n \in {"x.cc", "x.h"} THEN "x" ELSE n]

MCSystemHeaders == {Vec, Std}

NameOf(file) == ConvertToQuotedInclude(file, <<>>)

Pragma(kind) == [kind |-> kind, arg |-> "none"]

Line(includer, includee, kind) ==
  [includer |-> includer, includee |-> includee, pragma |-> Pragma(kind),
   as_written |-> IF IsSpecialFilename(includer) THEN Picker!NotWritten
                  ELSE NameOf(includee)]

Comment(file, kind) == [file |-> file, pragma |-> Pragma(kind)]

Uses(file, defined_in) == [file |-> file, defined_in |-> defined_in]

Scopes(file) == {Comment(file, "begin_exports"), Comment(file, "end_exports")}

Guarded == [f \in Range(MCFileOrder) |-> "ifndef"]

None == {}
NoTable == <<>>

-----------------------------------------------------------------------------
(* Scopes, associated and prefix headers, macros, circular includes; and a *)
(* library with a private header.                                          *)
UnitLines ==
  { Line(SpecialFilename, Pre, "none"), Line(Pre, A, "none"),
    Line(Main, A, "none"), Line(Main, Hdr, "none"), Line(Main, B, "associated"),
    Line(A, B, "none"), Line(B, A, "export"), Line(A, Hdr, "none"),
    Line(A, Std, "none"), Line(Std, Vec, "none") }

UnitComments ==
  Scopes(A) \cup { Comment(B, "begin_keep"), Comment(B, "always_keep") }

UnitMacroUses == { Uses(Hdr, A), Uses(Vec, Std) }

UnitHeadernames == Vec :> << NameOf(Std) >>

UnitKeys == {NameOf(f) : f \in Range(MCFileOrder) \cup {SpecialFilename}}
              \cup {Picker!NotWritten}
=============================================================================
