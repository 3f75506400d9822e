--------------------------- MODULE MCIncludePicker ---------------------------
(* A small project for IncludePicker: sources and headers below w (on the  *)
(* search path as "..."), a library below usr (as <...>), and a directory  *)
(* out that no -I names.  Each configuration picks the calls it needs.     *)
EXTENDS IncludePicker

MCSearchPaths == { [prefix |-> <<"w">>, angled |-> FALSE],
                   [prefix |-> <<"usr">>, angled |-> TRUE],
                   [prefix |-> <<"usr", "c++">>, angled |-> TRUE] }

Main == <<"w", "lib", "main.cc">>
Api  == <<"w", "lib", "api.h">>
Impl == <<"w", "lib", "internal", "impl.h">>
Deep == <<"w", "myinternal", "internal", "deep.h">>
Vec  == <<"usr", "c++", "bits", "vec.h">>
Asm  == <<"usr", "asm-x", "io.h">>
OutMain == <<"out", "main.cc">>
OutPriv == <<"out", "priv.h">>
OutSub  == <<"out", "sub", "priv.h">>

vec     == Angled(<<"bits", "vec.h">>)
alloc   == Angled(<<"bits", "alloc.h">>)
vector  == Angled(<<"vector">>)
memory  == Angled(<<"memory">>)
assertH == Angled(<<"assert.h">>)
cassert == Angled(<<"cassert">>)
bits    == [form |-> "@angled", parts |-> <<"bits">>]
libs    == [form |-> "@any", parts |-> <<"lib">>]
mains   == [form |-> "@any", parts |-> <<"main.cc">>]

Private(from, to) == [from |-> from, from_visibility |-> "private",
                      to |-> to, to_visibility |-> "public"]
Public(from, to) == [from |-> from, from_visibility |-> "public",
                     to |-> to, to_visibility |-> "public"]
PrivateChain(from, to) == [from |-> from, from_visibility |-> "private",
                           to |-> to, to_visibility |-> "private"]

Includes(includer, includee, as_written) ==
  [includer |-> includer, includee |-> includee, as_written |-> as_written,
   export |-> FALSE]

Exports(includer, includee, as_written) ==
  [Includes(includer, includee, as_written) EXCEPT !.export = TRUE]

-----------------------------------------------------------------------------
(* Mappings: a chain of private headers, a pattern, two public headers     *)
(* that re-export each other (a cycle), and symbols.                       *)
LibraryMappings ==
  { Private(vec, vector), PrivateChain(vec, alloc), Private(bits, memory),
    Private(alloc, memory), Public(memory, vector), Public(vector, memory) }

LibrarySymbols ==
  { [use_kind |-> "full", symbol |-> "vector", to |-> vec,
     to_visibility |-> "private"] }

LibraryIncludes ==
  { Includes(Main, Vec, vec),
    Includes(Main, Api, Quoted(<<"lib", "api.h">>)),
    Exports(Api, Vec, vec) }

(* Preprocessing: internal/, asm-*, the main file, friends and pragmas,    *)
(* and two headers that re-export each other (a cycle).                    *)
ProjectIncludes ==
  { Includes(SpecialFilename, Main, NotWritten),
    Includes(Main, Impl, Quoted(<<"internal", "impl.h">>)),
    Exports(Api, Impl, Quoted(<<"internal", "impl.h">>)),
    Exports(Impl, Api, Quoted(<<"lib", "api.h">>)),
    Exports(Main, Api, Quoted(<<"lib", "api.h">>)),
    Includes(Main, Deep, Quoted(<<"myinternal", "internal", "deep.h">>)),
    Includes(Api, Asm, Angled(<<"asm-x", "io.h">>)) }

ProjectPrivateIncludes ==
  { [path |-> Api, suggested |-> Quoted(<<"lib", "all.h">>)] }

ProjectPrivatePaths == { Api }

ProjectFriends == { [path |-> Api, pattern |-> libs] }

(* A file on no search path. *)
OutsideIncludes ==
  { Includes(SpecialFilename, OutMain, NotWritten),
    Includes(OutMain, OutPriv, Quoted(<<"priv.h">>)) }

OutsideFriends == { [path |-> OutPriv, pattern |-> mains] }

CHeaderSet == { assertH }

CHeaderTable == << Public(assertH, cassert) >>

-----------------------------------------------------------------------------
None == {}
NoTable == <<>>

Files == UNION {{i.includer, i.includee} : i \in DirectIncludes}
Mappings == IncludeMappings \cup {InternalMappings[i] : i \in 1..Len(InternalMappings)}

MCKeys ==
  LET named == {ConvertToQuotedInclude(f, <<>>) : f \in Files}
               \cup {m.from : m \in Mappings} \cup {m.to : m \in Mappings}
               \cup {m.to : m \in SymbolMappings}
               \cup {i.as_written : i \in {x \in DirectIncludes : x.export}}
               \cup {i.suggested : i \in PrivateIncludes}
               \cup {f.pattern : f \in Friends}
      asm == {Angled(<<"asm">> \o Tail(k.parts)) :
                 k \in {x \in named : x.form = "angled" /\ x.parts[1] \in AsmDirs}}
      internal == {Below(k.form, SubSeq(k.parts, 1, i - 1)) :
                      k \in named, i \in {x \in 2..4 : \E n \in named :
                          x \in InternalAt(n)}}
      replaced == {RegexReplace(k, m.from, m.to) :
                      k \in {x \in named : ~IsPattern(x)},
                      m \in {x \in Mappings : IsPattern(x.from)}}
  IN  named \cup asm \cup replaced \cup {QuotedBuiltIn} \cup
      {k \in internal : k.form \in {"@quoted", "@angled", "@absolute"}}
=============================================================================
