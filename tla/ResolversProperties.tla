--------------------------- MODULE ResolversProperties ---------------------------
(***************************************************************************)
(* What the resolutions of Resolvers and the scan before them keep to,     *)
(* whatever becomes of the files meanwhile.  `steady` remembers which      *)
(* files have been there since the scan or the resolution began.           *)
(***************************************************************************)
EXTENDS Preloads

VARIABLE steady

watched == <<preloading, steady>>

WatchedInit == PreloadInit /\ steady = disk

WatchedNext ==
    /\ PreloadNext
    /\ steady' = IF At("done") /\ job' # job THEN disk ELSE steady \cap disk'

WatchedSpec == WatchedInit /\ [][WatchedNext]_watched

(***************************************************************************)
(* The type invariant.                                                     *)
(***************************************************************************)
IsPath(path) == Len(path) > 0 /\ \A i \in DOMAIN path : Len(path[i]) > 0

TypeOK ==
    /\ \A path \in filemap : IsPath(path)
    /\ \A i \in DOMAIN scan : IsPath(scan[i].path) /\ scan[i].depth \in 0 .. MAX_SCAN_DEPTH + 1
    /\ disk \subseteq Placeable \cup Fixed /\ steady \subseteq disk
    /\ job.at \in {"done", "canonicalize", "metadata", "base", "read"}
    /\ job.reach \in 0 .. Len(job.goal)
    /\ At("read") => job.todo # <<>>
    /\ IsPath(job.base) /\ \A i \in DOMAIN job.search : IsPath(job.search[i])
    /\ job.result.found => At("done") /\ IsPath(job.result.full)

(***************************************************************************)
(* A resolver with a root is about to read nothing but files that really   *)
(* are inside the folder the root really is: "a symbolic link inside the   *)
(* root is judged by where it POINTS" and "a link that resolves to nothing *)
(* at all is refused outright, since its target could be created before a  *)
(* read reaches it" (FileResolver::with_root).                             *)
(***************************************************************************)
InRoot(place) == \A root \in Root : IsPrefix(Follow(Place(root)), place)

ReadsConfined ==
    LET path == Head(job.todo).path IN
    At("read") /\ path \notin Preload /\ Readable(disk, Place(path))
        => InRoot(Follow(Place(path)))

(***************************************************************************)
(* A reference inside a source is looked for in the folder of that source, *)
(* as long as the source is to be had: "whether or not the filesystem      *)
(* still holds it", when it was preloaded (FileResolver::resolve); and a   *)
(* key without a folder is looked for as it is (MapResolver::resolve).     *)
(***************************************************************************)
Beside(base, path) == path = (IF base = EmptyPath THEN <<>> ELSE base) \o <<Last(path)>>

BesideItsSource ==
    job.at \in {"read", "done"} =>
        \A path \in job.source :
            path \in Preload \/ Readable(steady, Place(path)) =>
                IF InMemory THEN Beside(job.base, path) ELSE job.base = Dir(path)

(***************************************************************************)
(* What a reference can stand for, ranked.  To a FileResolver: the path    *)
(* itself, then that path in node_modules of the base and the folders      *)
(* above it, then the forms the path leaves open.  To a PkgResolver: in    *)
(* the nearest node_modules first, "the reference as a FILE (itself, then  *)
(* each implicit extension), then the target package's package.json main,  *)
(* and only then a directory index" (resolve_in_pkg_dir); a relative       *)
(* reference is "not a package name" (PkgResolver::resolve) and has the    *)
(* path and what it leaves open.  So has one to a MapResolver, "exactly as *)
(* given".                                                                 *)
(***************************************************************************)
Form(path, needs, rank) == [path |-> path, needs |-> needs, rank |-> rank]

Above(dir, up) == IF up = Len(Place(dir)) THEN RootPath ELSE SubSeq(dir, 1, Len(dir) - up)

\* A folder and those above it, at most `most`, by how far up they are.
Levels(dir, most) == 0 .. (IF Len(Place(dir)) < most THEN Len(Place(dir)) ELSE most - 1)

(***************************************************************************)
(* "the path itself, then the implicit extensions, then a folder index     *)
(* file, then a folder index file that repeats the folder name"            *)
(* (build_potentials), each in the order of the extensions, when the last  *)
(* segment has none.                                                       *)
(***************************************************************************)
Dotted(path) == Len(Last(path)) > 1

Suffixed(path, needs, rank) ==
    IF Dotted(path) THEN {}
    ELSE {Form(Front(path) \o <<Append(Last(path), ImplicitExt[i])>>, needs, rank + i) :
             i \in DOMAIN ImplicitExt}

Indexed(path, via, needs, rank) ==
    {Form(Append(path, <<"index">> \o via \o <<ImplicitExt[i]>>), needs, rank + i) :
        i \in DOMAIN ImplicitExt}

Indexes(path, needs, rank) ==
    IF Dotted(path) THEN {}
    ELSE Indexed(path, <<>>, needs, rank)
            \cup (IF Last(path) = Nil THEN {}
                  ELSE Indexed(path, Last(path), needs, rank + Len(ImplicitExt)))

Leaves(path, needs, rank) ==
    Suffixed(path, needs, rank) \cup Indexes(path, needs, rank + Len(ImplicitExt))

\* An absolute native reference is not chased; without a base there is one folder to look in.
ChaseForms(base, reference) ==
    IF Native /\ IsAbsolute(reference) THEN {}
    ELSE IF base = EmptyPath THEN {Form(Canonical(Join(<<NODE_MODULES>>, reference)), {}, 1)}
    ELSE {Form(Canonical(Above(base, up) \o <<NODE_MODULES>> \o reference), {}, 1 + up) :
             up \in Levels(base, NODE_MODULES_LEVELS)}

FileForms ==
    LET full == Canonical(FullOf(job.reference, job.base)) IN
    {Form(full, {}, 0)} \cup ChaseForms(job.base, job.reference)
                        \cup Leaves(full, {}, NODE_MODULES_LEVELS)

PathForms(full) == {Form(full, {}, 0)} \cup Leaves(full, {}, 0)

PackageForms(start, dir, up) ==
    LET exts == Len(ImplicitExt)
        target == Canonical(dir \o <<NODE_MODULES>> \o job.reference)
        manifest == Append(target, Manifest)
        mains == IF Place(manifest) \in DOMAIN Mains THEN Mains[Place(manifest)] ELSE {}
        rank == (2 + 6 * exts) * (MAX_ANCESTORS * start + up)
        Main(path) == {Form(path, {manifest}, rank + exts + 1)}
                         \cup Leaves(path, {manifest}, rank + exts + 1)
    IN  {Form(target, {}, rank)} \cup Suffixed(target, {}, rank)
        \cup UNION {Main(Canonical(target \o path)) : path \in mains}
        \cup Indexes(target, {}, rank + 4 * exts + 1)

AllPackageForms ==
    UNION {LET from == Canonical(Starts[start]) IN
           UNION {PackageForms(start, Above(from, up), up) : up \in Levels(from, MAX_ANCESTORS)} :
           start \in DOMAIN Starts}

Forms ==
    IF InMemory THEN PathForms(FullOf(job.reference, job.base))
    ELSE IF ~Packages THEN FileForms
    ELSE IF ByPackage(job.reference) THEN AllPackageForms
    ELSE PathForms(Canonical(FullOf(job.reference, job.base)))

(***************************************************************************)
(* A reference finds the first of the forms it can stand for: no form that *)
(* ranks before the one found, and none at all when nothing was found, was *)
(* there throughout the search and inside the root.  The root hides        *)
(* nothing that is in it, however it is spelled.                           *)
(***************************************************************************)
Servable(path) ==
    \/ path \in Preload /\ Root = {}
    \/ Readable(steady, Place(path)) /\ InRoot(Follow(Place(path)))

BestForm ==
    At("done") /\ job.reference # EmptyPath =>
        \A form \in Forms :
            (\A path \in form.needs \cup {form.path} : Servable(path))
                => \E hit \in Forms : /\ job.result.found /\ hit.path = job.result.full
                                      /\ hit.rank <= form.rank

(***************************************************************************)
(* The scan is complete and confined: when it ends, memory has every file  *)
(* that was in one of the folders all along, has one of the extensions,    *)
(* and is not deeper than the cap nor behind a link to a folder, under the *)
(* path a resolver looks it up by; and it has no other file.  "returning   *)
(* full path to content for every file matching one of the extensions"     *)
(* (preload_files).                                                        *)
(***************************************************************************)
ScanDepths == 0 .. (IF Recursive THEN MAX_SCAN_DEPTH ELSE 0)

Scannable(folder) ==
    LET at == Follow(Place(folder))
        below == {place \in Placeable \cup Fixed \cup DOMAIN Links : IsStrictPrefix(at, place)}
    IN  {suffix \in {SubSeq(place, Len(at) + 1, Len(place)) : place \in below} :
            /\ Len(suffix) - 1 \in ScanDepths /\ Matches(Last(suffix))
            /\ \A n \in 1 .. Len(suffix) - 1 : at \o SubSeq(suffix, 1, n) \notin DOMAIN Links}

ScanFinds ==
    [][scan # <<>> /\ scan' = <<>> =>
          /\ \A folder \in ToSet(setup.folders) : \A suffix \in Scannable(folder) :
                Readable(steady, Place(folder) \o suffix) => Canonical(Push(folder, suffix)) \in filemap'
          /\ \A path \in filemap' \ setup.preload :
                \E folder \in ToSet(setup.folders) : \E suffix \in Scannable(folder) :
                    path = Canonical(Push(folder, suffix))]_watched

(***************************************************************************)
(* The scan and every resolution whose thread keeps running end, whatever  *)
(* comes and goes in the filesystem.                                       *)
(***************************************************************************)
EveryResolveEnds == []<><<Work>>_preloading => []<>(Scanned /\ At("done"))

(***************************************************************************)
(* "a relative reference resolves against the source that contains it"     *)
(* (MapResolver::resolve): one that names a key in the folder of its       *)
(* source finds it.                                                        *)
(***************************************************************************)
KeyBesideKey ==
    At("done") /\ InMemory =>
        \A source \in job.source :
            ~IsAbsolute(job.reference) /\ Front(source) \o job.reference \in filemap => job.result.found

(***************************************************************************)
(* "chase node_modules/<path> up through the base's parents"               *)
(* (FileResolver::resolve): what is in node_modules of the base all along  *)
(* is found.  A plain reference has no "." or "..", which would lead out   *)
(* of node_modules, and is not absolute.                                   *)
(***************************************************************************)
IsPlain(reference) == ToSet(reference) \cap {Nil, Dot, DotDot} = {}

BaseChased ==
    LET place == Place(job.base) \o <<NODE_MODULES>> \o job.reference IN
    At("done") /\ IsPlain(job.reference) /\ Readable(steady, place) /\ InRoot(Follow(place))
        => job.result.found
================================================================================
