-------------------------------- MODULE Resolvers --------------------------------
(***************************************************************************)
(* FileResolver, PkgResolver and MapResolver (rs/src/resolver.rs)          *)
(* resolving one reference after another, a reference of the document or   *)
(* one inside the source found last, against a filesystem somebody else    *)
(* adds files to and removes files from.                                   *)
(*                                                                         *)
(* Every access to the filesystem is a step: the links are followed in     *)
(* one, the file is read in another.  A MapResolver has its files in       *)
(* memory only.                                                            *)
(***************************************************************************)
EXTENDS Paths

CONSTANT Setups     \* the resolvers, and the trees they are used on

VARIABLES
    setup,  \* the resolver in use and its tree
    filemap, \* the paths a FileResolver or a MapResolver holds in memory
    disk,   \* the places that hold a file
    job     \* the resolution in progress, or the last one

vars == <<setup, filemap, disk, job>>

Packages == setup.resolver = "package"
InMemory == setup.resolver = "map"
Native == setup.native            \* TRUE for OsFs, FALSE for MapFs
Root == setup.root                \* the sandbox root: {} or {path}
BasePath == setup.basePath        \* the path option of the plugin
ImplicitExt == setup.implicitExt  \* the implicit extensions, in order
SearchPaths == setup.searchPaths  \* the paths of a PkgResolver
Preload == filemap
References == setup.references    \* what documents refer to
Mains == setup.mains              \* place of a package.json -> {} or {the main it declares}
Links == setup.links              \* place of a link -> the place it points to
Placeable == setup.placeable      \* the places whose file comes and goes
Fixed == setup.fixed              \* the places whose file stays

INSTANCE FileTree

ASSUME ResolversAssumption ==
    /\ {"node_modules", "package", "json"} \subseteq Parts
    /\ \A s \in Setups :
          /\ s.resolver \in {"file", "package", "map"} /\ s.native \in BOOLEAN
          /\ s.basePath \in Path /\ s.implicitExt \in Seq(Parts) /\ s.searchPaths \in Seq(Path)
          /\ s.root \subseteq Path /\ \A path, other \in s.root : path = other
          /\ s.preload \subseteq Path /\ s.references \subseteq Path
          /\ s.mains \in [DOMAIN s.mains -> SUBSET Path]
          /\ DOMAIN s.links \subseteq Seq(Segment) /\ s.links \in [DOMAIN s.links -> Seq(Segment)]
          /\ s.placeable \cup s.fixed \subseteq Seq(Segment)
          /\ s.resolver = "package" => s.preload = {}
          /\ s.resolver = "map" => s.root = {} /\ s.placeable \cup s.fixed = {}
          /\ ~s.native => DOMAIN s.links = {} /\ s.placeable = {}

NODE_MODULES == <<"node_modules">>
NODE_MODULES_LEVELS == 7
MAX_ANCESTORS == 65
Manifest == <<"package", "json">>

Join(path, part) == JoinPaths(Native, path, part)
Dir(path) == DirOf(Native, path)
Canonical(path) == Canon(Native, path)

\* Where its canonical form leads: it can begin with "/..", which the kernel takes for "/".
Place(path) == Walked(IF Native THEN Absolute(path) ELSE path, <<>>)

(***************************************************************************)
(* A folder and those above it, at most `most`: the way up ends at a       *)
(* folder that is its own parent, once there are `least` of them.          *)
(***************************************************************************)
Upward(dir, least, most) ==
    LET up[n \in 1 .. most] ==
            IF n = 1 THEN <<dir>>
            ELSE LET dirs == up[n - 1]
                     above == Dir(Last(dirs))
                 IN  IF Len(dirs) >= least /\ above = Last(dirs) THEN dirs ELSE Append(dirs, above)
    IN  up[most]

(***************************************************************************)
(* The candidates of a FileResolver: the path itself, then node_modules up *)
(* the parents of the base, then the forms the reference leaves open.      *)
(***************************************************************************)
Chase(base, path) ==
    LET levels == Upward(base, 2, NODE_MODULES_LEVELS) IN
    [i \in DOMAIN levels |-> Canonical(Join(Push(levels[i], <<NODE_MODULES>>), path))]

FileCandidates(base, reference) ==
    LET full == Canonical(FullOf(reference, base)) IN
    <<full>> \o Chase(base, reference)
             \o (IF ExtKind(full) = NONE THEN Tail(BuildPotentials(full, ImplicitExt)) ELSE <<>>)

(***************************************************************************)
(* The candidates of a PkgResolver: for a relative reference the forms of  *)
(* its path, for any other those of the package in each node_modules, the  *)
(* file forms first, then what package.json names, then the index files.   *)
(***************************************************************************)
IsRelativeRef(reference) == reference[1] \in {Dot, DotDot}

RelativeCandidates(base, reference) ==
    BuildPotentials(Canonical(FullOf(reference, base)), ImplicitExt)

Ancestry(dir) == IF dir = EmptyPath THEN <<>> ELSE Upward(dir, 1, MAX_ANCESTORS)

Starts ==
    IF SearchPaths # <<>> THEN SearchPaths ELSE IF Native THEN <<Cwd>> ELSE << <<Dot>> >>

Folders ==
    LET all == FlattenSeq([i \in DOMAIN Starts |-> Ancestry(Canonical(Starts[i]))])
        seen(i) == \E j \in 1 .. i - 1 : all[j] = all[i]
    IN  FlattenSeq([i \in DOMAIN all |-> IF seen(i) THEN <<>> ELSE <<Join(all[i], <<NODE_MODULES>>)>>])

\* A candidate to load, or a package.json to read for its main.
Source(path) == [path |-> path, manifest |-> FALSE]
Sources(paths) == [i \in DOMAIN paths |-> Source(paths[i])]

IsIndexOf(candidate, target) ==
    Len(candidate) = Len(target) + 1 /\ Last(candidate)[1] = "index" /\ Len(Last(candidate)) > 1

\* Faulty: every form of the path before package.json is looked at.
InPackageDirIndexFirst(target) ==
    Sources(BuildPotentials(target, ImplicitExt))
      \o <<[path |-> Join(target, <<Manifest>>), manifest |-> TRUE]>>

InPackageDir(target) ==
    LET forms == BuildPotentials(target, ImplicitExt)
        Those(index) == FlattenSeq([i \in DOMAIN forms |->
                            IF IsIndexOf(forms[i], target) = index THEN <<forms[i]>> ELSE <<>>])
    IN  Sources(Those(FALSE))
          \o <<[path |-> Join(target, <<Manifest>>), manifest |-> TRUE]>>
          \o Sources(Those(TRUE))

PackageTasks(reference) ==
    LET folders == Folders IN
    FlattenSeq([i \in DOMAIN folders |-> InPackageDir(Join(folders[i], reference))])

MainTasks(manifest, main) ==
    Sources(BuildPotentials(Join(Front(manifest), main), ImplicitExt))

(***************************************************************************)
(* A resolution: where it is, the source it is for, the candidates it has  *)
(* tried and has left, and what it found.                                  *)
(***************************************************************************)
Unfound == [found |-> FALSE, full |-> EmptyPath, memory |-> FALSE, real |-> <<>>]

Fresh(reference, source) ==
    [at |-> "base", reference |-> reference, source |-> source, base |-> EmptyPath,
     root |-> {}, goal |-> <<>>, reach |-> 0, todo |-> <<>>, search |-> <<>>, result |-> Unfound]

Init ==
    /\ setup \in Setups /\ filemap = setup.preload
    /\ \E there \in SUBSET Placeable : disk = Fixed \cup there
    /\ job = [Fresh(EmptyPath, {}) EXCEPT !.at = "done"]

At(place) == job.at = place

\* Faulty: the path is taken to be one name longer than it is.
ProbeLong(path) == [at |-> "canonicalize", goal |-> Place(path), reach |-> Len(Place(path)) + 1]

\* SourceFs::real_path of `path`: OsFs follows links, MapFs has none.
Probe(path) == [at |-> "canonicalize", goal |-> Place(path), reach |-> Len(Place(path))]

Probing(j, path) ==
    [j EXCEPT !.at = Probe(path).at, !.goal = Probe(path).goal, !.reach = Probe(path).reach]

(***************************************************************************)
(* resolve begins with the real path of the sandbox root.  The reference   *)
(* is the document's, or is inside the source found last.                  *)
(***************************************************************************)
Begin ==
    /\ At("done")
    /\ \E reference \in References,
          source \in {{}} \cup (IF job.result.found THEN {{job.result.full}} ELSE {}) :
             LET fresh == Fresh(reference, source) IN
             job' = IF Root = {} THEN fresh ELSE Probing(fresh, CHOOSE root \in Root : TRUE)
    /\ UNCHANGED <<setup, filemap, disk>>

(***************************************************************************)
(* The next candidate, or the end of the search.  The paths a resolution   *)
(* reports are, for a package, those it came to; for a relative reference  *)
(* all; and for a file the first alone, or all once the first was missed.  *)
(***************************************************************************)
ByPackage(reference) == Packages /\ ~IsRelativeRef(reference)

PathsOf(tasks) == [i \in DOMAIN tasks |-> tasks[i].path]

Seek(j) ==
    IF j.todo = <<>> THEN [j EXCEPT !.at = "done"]
    ELSE LET next == [j EXCEPT !.at = "read",
                         !.search = IF ByPackage(j.reference) THEN Append(@, Head(j.todo).path) ELSE @]
         IN  IF j.root = {} THEN next ELSE Probing(next, Head(j.todo).path)

Skip(j) ==
    Seek([j EXCEPT !.todo = Tail(@),
             !.search = IF ~Packages /\ Len(@) = 1 THEN PathsOf(j.todo) ELSE @])

(***************************************************************************)
(* base_for: the folder of the source the reference is in, else the path   *)
(* option.  A source that is still to be had is a file, anything else is   *)
(* taken for a folder.                                                     *)
(***************************************************************************)
\* Faulty: a source held in memory alone is not a file.
IsFileOnDisk(path) == Readable(disk, Place(path))

IsFile(path) == path \in Preload \/ Readable(disk, Place(path))

\* The folder as a MapResolver cuts it from a key, and as a filesystem tells it.
FolderOf(path) == IF InMemory THEN SourceDir(path) ELSE Dir(path)

BaseFor ==
    LET raw == IF job.source = {} THEN BasePath ELSE CHOOSE path \in job.source : TRUE IN
    IF raw = EmptyPath \/ ~IsFile(raw) THEN raw ELSE FolderOf(raw)

\* The keys a MapResolver looks up: a reference with an extension has one form.
KeyTasks(base, reference) == Sources(BuildPotentials(FullOf(reference, base), ImplicitExt))

Tasks(base, reference) ==
    IF reference = EmptyPath THEN <<>>
    ELSE IF InMemory THEN KeyTasks(base, reference)
    ELSE IF ~Packages THEN Sources(FileCandidates(base, reference))
    ELSE IF IsRelativeRef(reference) THEN Sources(RelativeCandidates(base, reference))
    ELSE PackageTasks(reference)

Reported(tasks) ==
    IF ByPackage(job.reference) \/ tasks = <<>> THEN <<>>
    ELSE IF Packages \/ InMemory THEN PathsOf(tasks)
    ELSE <<tasks[1].path>>

FindBase ==
    /\ At("base")
    /\ \E tasks \in {Tasks(BaseFor, job.reference)} :
          job' = Seek([job EXCEPT !.base = BaseFor, !.todo = tasks, !.search = Reported(tasks)])
    /\ UNCHANGED <<setup, filemap, disk>>

(***************************************************************************)
(* real_path: the longest prefix that canonicalizes, with the rest put     *)
(* back; none when a prefix is there and does not.  Then within_root.      *)
(***************************************************************************)
WithinRoot(real, root) == IsPrefix(root, real)

Judged(real) ==
    IF job.root = {} THEN [job EXCEPT !.at = "base", !.root = {real}]
    ELSE IF \A root \in job.root : WithinRoot(real, root) THEN [job EXCEPT !.at = "read"]
    ELSE Skip(job)

\* A root that has no real path is compared as written; a candidate is refused.
Unjudged ==
    IF job.root = {} THEN [job EXCEPT !.at = "base", !.root = {job.goal}] ELSE Skip(job)

Prefix == SubSeq(job.goal, 1, job.reach)
Rest == SubSeq(job.goal, job.reach + 1, Len(job.goal))

Canonicalize ==
    /\ At("canonicalize")
    /\ job' = IF ~Native THEN Judged(job.goal)
              ELSE IF Reaches(disk, Prefix) THEN Judged(Follow(Prefix) \o Rest)
              ELSE [job EXCEPT !.at = "metadata"]
    /\ UNCHANGED <<setup, filemap, disk>>

\* Faulty: the same prefix is tried again.
ShortenNever == [job EXCEPT !.at = "canonicalize"]

Shorten == [job EXCEPT !.at = "canonicalize", !.reach = @ - 1]

\* Faulty: a link that leads nowhere yet is taken for what it is called.
ReduceAnyway == Shorten

Reduce == IF Occupied(disk, Prefix) THEN Unjudged ELSE Shorten

Metadata ==
    /\ At("metadata")
    /\ job' = Reduce
    /\ UNCHANGED <<setup, filemap, disk>>

(***************************************************************************)
(* The read: memory first, then the disk.  A package.json adds what it     *)
(* names in front of the rest.                                             *)
(***************************************************************************)
Found(path, memory) ==
    [found |-> TRUE, full |-> path, memory |-> memory,
     real |-> IF memory THEN <<>> ELSE Follow(Place(path))]

Loaded(task) ==
    IF ~task.manifest
    THEN [job EXCEPT !.at = "done", !.result = Found(task.path, task.path \in Preload)]
    ELSE LET place == Follow(Place(task.path))
             mains == IF place \in DOMAIN Mains THEN Mains[place] ELSE {} IN
         IF mains = {} THEN Skip(job)
         ELSE Skip([job EXCEPT !.todo = <<Head(@)>>
                       \o MainTasks(task.path, CHOOSE main \in mains : TRUE) \o Tail(@)])

Read ==
    LET task == Head(job.todo) IN
    /\ At("read")
    /\ job' = IF task.path \in Preload \/ Readable(disk, Place(task.path))
              THEN Loaded(task) ELSE Skip(job)
    /\ UNCHANGED <<setup, filemap, disk>>

(***************************************************************************)
(* Somebody else adds or removes a file, and the folders it is alone in.   *)
(* No link comes or goes: the check of the root does not promise anything  *)
(* about those (FileResolver::with_root).                                  *)
(***************************************************************************)
Change ==
    /\ \E file \in Placeable :
          disk' = IF file \in disk THEN disk \ {file} ELSE disk \cup {file}
    /\ UNCHANGED <<setup, filemap, job>>

Resolve == FindBase \/ Canonicalize \/ Metadata \/ Read

Next == Begin \/ Resolve \/ Change

Spec == Init /\ [][Next]_vars
================================================================================
