--------------------------------- MODULE Paths ---------------------------------
(***************************************************************************)
(* The path helpers of the resolvers (rs/src/lib.rs, rs/src/vfs.rs).       *)
(*                                                                         *)
(* A path is the sequence of its segments, split at "/", and a segment the *)
(* sequence of its parts, split at ".":                                    *)
(*    "/srv/a.jsonic" is << <<"">>, <<"srv">>, <<"a", "jsonic">> >>,       *)
(*    "."  is << <<"","">> >>,  ".." is << <<"","","">> >>,                *)
(*    the empty string is << <<"">> >>.                                    *)
(* Joining strings with "/" is concatenation.  A backslash, which the      *)
(* helpers also take for a separator, is not told from "/".                *)
(***************************************************************************)
EXTENDS Integers, Sequences, SequencesExt

CONSTANTS
    Cwd,    \* the working directory, absolute, for native paths
    Parts   \* the strings names are made of, the empty one included

Nil == <<"">>
Dot == <<"", "">>
DotDot == <<"", "", "">>

EmptyPath == <<Nil>>
RootPath == <<Nil, Nil>>

NONE == ""

Segment == Seq(Parts) \ {<<>>}
Path == Seq(Segment) \ {<<>>}

IsAbsolute(path) == Len(path) > 1 /\ path[1] = Nil

ASSUME PathsAssumption == Cwd \in Path /\ IsAbsolute(Cwd) /\ {NONE, "index"} \subseteq Parts

(***************************************************************************)
(* ext_kind, resolve_path_spec and build_potentials.                       *)
(***************************************************************************)
ExtKind(full) == IF Len(Last(full)) = 1 THEN NONE ELSE Last(Last(full))

\* No full path for an empty reference; the base does not matter to an absolute one.
FullOf(reference, base) ==
    IF IsAbsolute(reference) \/ base = EmptyPath THEN reference ELSE base \o reference

WithExt(path, ext) == Front(path) \o <<Append(Last(path), ext)>>

BuildPotentials(full, exts) ==
    LET segment == Last(full)
        Each(Form(_)) == [i \in DOMAIN exts |-> Form(exts[i])]
    IN  IF full = EmptyPath THEN <<>>
        ELSE IF Len(segment) > 1 THEN <<full>>
        ELSE <<full>>
             \o Each(LAMBDA ext : WithExt(full, ext))
             \o Each(LAMBDA ext : Append(full, <<"index", ext>>))
             \o (IF segment = Nil THEN <<>>
                 ELSE Each(LAMBDA ext : Append(full, <<"index", segment[1], ext>>)))

(***************************************************************************)
(* source_dir: the key up to its last separator, those at the end left     *)
(* out; nothing for a bare key, the separator for one at the start.        *)
(***************************************************************************)
SourceDir(path) ==
    LET trimmed == SubSeq(path, 1, SelectLastInSeq(path, LAMBDA segment : segment # Nil)) IN
    IF Len(trimmed) <= 1 THEN EmptyPath
    ELSE IF Len(trimmed) = 2 /\ IsAbsolute(trimmed) THEN RootPath ELSE Front(trimmed)

(***************************************************************************)
(* clean (vfs.rs): what is left of a path once "." and ".." are resolved,  *)
(* as MapFs keys it.                                                       *)
(***************************************************************************)
Climb(segments, above) == IF Len(segments) = 0 THEN above ELSE Front(segments)

Enter(segments, segment, above) ==
    IF segment \in {Nil, Dot} THEN segments
    ELSE IF segment = DotDot THEN Climb(segments, above)
    ELSE Append(segments, segment)

Walked(path, above) ==
    LET walk[i \in 0 .. Len(path)] == IF i = 0 THEN <<>> ELSE Enter(walk[i - 1], path[i], above)
    IN  walk[Len(path)]

Clean(path) == LET out == Walked(path, <<>>) IN IF out = <<>> THEN <<Dot>> ELSE out

(***************************************************************************)
(* lexical and absolute (vfs.rs), with the semantics of PathBuf: popping   *)
(* the root or nothing fails, and popping a ".." succeeds.                 *)
(***************************************************************************)
Lexical(path) ==
    LET out == Walked(path, <<DotDot>>) IN
    IF IsAbsolute(path) THEN IF out = <<>> THEN RootPath ELSE <<Nil>> \o out
    ELSE IF out = <<>> THEN <<Dot>> ELSE out

Absolute(path) == IF IsAbsolute(path) THEN path ELSE Cwd \o path

(***************************************************************************)
(* The filesystem's own join, dir and canon: OsFs for native paths, MapFs  *)
(* for the others.                                                         *)
(***************************************************************************)
Push(path, part) ==
    IF IsAbsolute(part) \/ path = EmptyPath THEN part ELSE path \o part

JoinPaths(native, path, part) ==
    IF native THEN Lexical(Push(path, part)) ELSE Clean(path \o part)

\* Path::parent counts components, of which "" and an inner "." are none.
IsComponent(path, i) == path[i] # Nil /\ (path[i] = Dot => i = 1)

Components(path) ==
    FlattenSeq([i \in DOMAIN path |-> IF IsComponent(path, i) THEN <<path[i]>> ELSE <<>>])

OsDir(path) ==
    LET above == Front(Components(path)) IN
    IF Components(path) = <<>> THEN path
    ELSE IF IsAbsolute(path) THEN IF above = <<>> THEN RootPath ELSE <<Nil>> \o above
    ELSE IF above = <<>> THEN EmptyPath ELSE above

MapDir(path) == LET cleaned == Clean(path) IN
    IF Len(cleaned) = 1 THEN <<Dot>> ELSE Front(cleaned)

DirOf(native, path) == IF native THEN OsDir(path) ELSE MapDir(path)

Canon(native, path) == IF native THEN Lexical(Absolute(path)) ELSE Clean(path)
================================================================================
