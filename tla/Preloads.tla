--------------------------------- MODULE Preloads ---------------------------------
(***************************************************************************)
(* preload_files_with and scan (rs/src/preload.rs): the folders of a       *)
(* PreloadOptions read into the memory of a FileResolver, which then       *)
(* resolves as in Resolvers.  Listing a folder and reading a file are      *)
(* steps, and files come and go between them.                              *)
(***************************************************************************)
EXTENDS Resolvers

CONSTANT MAX_SCAN_DEPTH     \* 64 in the code

VARIABLE scan   \* the folders to list and the files to read, next first

preloading == <<setup, filemap, disk, job, scan>>

Recursive == setup.recursive    \* descend into subfolders
Names == setup.names            \* the names there are, in the order a listing has them

\* Nothing is inside a file or a link, and every entry of a folder has a name of its own.
IsTree(places, names) ==
    /\ \A place, other \in places : ~IsStrictPrefix(place, other)
    /\ \A place \in places : ToSet(place) \subseteq names
    /\ names \cap {Nil, Dot, DotDot} = {}

ASSUME PreloadsAssumption ==
    /\ MAX_SCAN_DEPTH \in Nat
    /\ \A s \in Setups :
          /\ s.recursive \in BOOLEAN /\ s.folders \in Seq(Path) /\ s.names \in Seq(Segment)
          /\ s.folders # <<>> =>
                /\ s.resolver = "file"
                /\ IsTree(s.placeable \cup s.fixed \cup DOMAIN s.links, ToSet(s.names))

Extensions == IF setup.extensions = {} THEN {<<"jsonic">>, <<"json">>} ELSE setup.extensions

Folder(path, depth) == [folder |-> TRUE, path |-> path, depth |-> depth]
File(path, depth) == [folder |-> FALSE, path |-> path, depth |-> depth]

ScanFolders == [i \in DOMAIN setup.folders |-> Folder(Canonical(setup.folders[i]), 0)]

PreloadInit == Init /\ scan = ScanFolders

(***************************************************************************)
(* The entries of a folder.  Whether one is a folder is told of the entry  *)
(* itself: a link to a folder is none.                                     *)
(***************************************************************************)
IsDirEntry(place) == IsFolder(disk, place)

IsEntry(place) == IsDirEntry(place) \/ place \in disk \cup DOMAIN Links

Matches(name) == \E ext \in Extensions : IsStrictSuffix(ext, name)

\* Faulty: a folder at the cap is not listed.
TooDeepEarly(depth) == depth >= MAX_SCAN_DEPTH

TooDeep(depth) == depth > MAX_SCAN_DEPTH

Entered(task) ==
    LET place == Follow(Place(task.path))
        Entry(name) ==
            LET full == Join(task.path, <<name>>) IN
            IF ~IsEntry(Append(place, name)) THEN <<>>
            ELSE IF IsDirEntry(Append(place, name))
            THEN IF Recursive THEN <<Folder(full, task.depth + 1)>> ELSE <<>>
            ELSE IF Matches(name) THEN <<File(full, task.depth)>> ELSE <<>>
    IN  IF TooDeep(task.depth) \/ ~Reaches(disk, Place(task.path)) \/ ~IsFolder(disk, place) THEN <<>>
        ELSE FlattenSeq([i \in DOMAIN Names |-> Entry(Names[i])])

ListFolder ==
    /\ scan # <<>> /\ Head(scan).folder
    /\ scan' = Entered(Head(scan)) \o Tail(scan)
    /\ UNCHANGED vars

ReadFile ==
    /\ scan # <<>> /\ ~Head(scan).folder
    /\ filemap' = filemap \cup {path \in {Head(scan).path} : Readable(disk, Place(path))}
    /\ scan' = Tail(scan)
    /\ UNCHANGED <<setup, disk, job>>

(***************************************************************************)
(* The resolver is built with the map the scan returned.                   *)
(***************************************************************************)
Scanned == scan = <<>>

Resolving(A) == Scanned /\ A /\ UNCHANGED scan

Work == ListFolder \/ ReadFile \/ Resolving(Resolve)

PreloadNext ==
    \/ Work
    \/ Resolving(Begin)
    \/ Change /\ UNCHANGED scan
================================================================================
