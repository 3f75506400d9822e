------------------------------ MODULE PathUtil ------------------------------
(***************************************************************************)
(* File paths and quoted includes (iwyu_path_util.cc).                     *)
(*                                                                         *)
(* A path is the sequence of its components, absolute and normalized.  A   *)
(* quoted include is what stands after #include: its form says how it is   *)
(* written ("x/y.h", <x/y.h>, "/abs/x/y.h", or the bare name of a Clang    *)
(* special file), its parts are the components of the name.                *)
(***************************************************************************)
EXTENDS Naturals, Sequences, SequencesExt

CONSTANT SearchPaths   \* the -I list: records [prefix, angled]

SpecialFilename == <<"<built-in>">>

IsSpecialFilename(path) == path = SpecialFilename

(* The path with the components of prefix, a proper prefix of it, removed. *)
StripPathPrefix(path, prefix) == SubSeq(path, Len(prefix) + 1, Len(path))

IsInside(path, dir) == IsStrictPrefix(dir, path)

GetParentPath(path) == Front(path)

Quoted(parts) == [form |-> "quoted", parts |-> parts]
Angled(parts) == [form |-> "angled", parts |-> parts]

(* The longest entry of the search path that holds the file, else the      *)
(* directory of the includer, if one is given, else the absolute path.     *)
(* includer_dir is <<>> when the caller passes no includer path.           *)
ConvertToQuotedInclude(path, includer_dir) ==
  LET entries == {e \in SearchPaths : IsInside(path, e.prefix)}
      longest == CHOOSE e \in entries :
                    \A f \in entries : Len(e.prefix) >= Len(f.prefix)
      name == StripPathPrefix(path, longest.prefix)
  IN  IF IsSpecialFilename(path) THEN [form |-> "special", parts |-> path]
      ELSE IF entries # {} THEN IF longest.angled THEN Angled(name)
                                                  ELSE Quoted(name)
      ELSE IF includer_dir # <<>> /\ IsInside(path, includer_dir)
           THEN Quoted(StripPathPrefix(path, includer_dir))
      ELSE [form |-> "absolute", parts |-> path]

(* What another #include in a file of directory dir would call the file:   *)
(* the includer's directory is implicitly on the search path.              *)
QuotedFrom(path, includer) ==
  ConvertToQuotedInclude(path, GetParentPath(includer))

HasAbsoluteQuotedInclude(quoted_include) == quoted_include.form = "absolute"
=============================================================================
