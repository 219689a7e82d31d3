------------------------------- MODULE MCResolvers -------------------------------
(***************************************************************************)
(* Small trees.  P(place) is the absolute path of a place.                 *)
(***************************************************************************)
EXTENDS ResolversProperties, TLC

P(place) == <<Nil>> \o place
Name(x) == <<x>>
Jsonic(x) == <<x, "jsonic">>

r == Name("r")
x == Name("x")
a == Name("a")
p == Name("p")
sub == <<"s", "d">>
lnk == Name("lnk")

MCCwd == P(<<r, sub>>)
MCParts == STRING

\* A FileResolver without a root, and nothing for it to find.
Bare ==
    [resolver |-> "file", native |-> TRUE, root |-> {}, basePath |-> EmptyPath,
     implicitExt |-> <<"jsonic", "json">>, searchPaths |-> <<>>, preload |-> {},
     references |-> {}, mains |-> <<>>, links |-> <<>>, placeable |-> {}, fixed |-> {},
     folders |-> <<>>, extensions |-> {}, recursive |-> FALSE, names |-> <<>>]

(***************************************************************************)
(* A root reached through a link, with links out of it to a folder and to  *)
(* a file that are there at times, and a sibling named after it.           *)
(***************************************************************************)
LinkedRoot == {P(<<lnk>>)}
LinkedBase == P(<<lnk>>)
LinkedLinks ==
    <<lnk>> :> <<r>> @@ <<r, Name("out")>> :> <<x>> @@ <<r, Jsonic("dang")>> :> <<x, a>>
LinkedReferences ==
    {<<Name("out"), a>>, <<Jsonic("dang")>>, <<DotDot, <<"r", "bak">>, Jsonic("a")>>, <<a>>,
     <<sub, DotDot, Jsonic("a")>>}
LinkedPlaceable == {<<x, a>>, <<r, Jsonic("a")>>, <<r, a, <<"index", "a", "json">> >>}
LinkedFixed == {<< <<"r", "bak">>, Jsonic("a")>>}

(***************************************************************************)
(* Sources in memory whose files come and go, and a package above them.    *)
(***************************************************************************)
MemoryBase == P(<<r>>)
MemoryPreload == {P(<<r, sub, Jsonic("a")>>), P(<<r, Jsonic("p")>>)}
MemoryReferences == {<<sub, a>>, <<p>>, <<Dot, Jsonic("p")>>, P(<<r, Jsonic("p")>>), EmptyPath}
MemoryPlaceable ==
    {<<r, sub, Jsonic("a")>>, <<r, sub, Jsonic("p")>>, <<r, p, <<"index", "jsonic">> >>,
     <<r, NODE_MODULES, p>>}

(***************************************************************************)
(* No base: what is found is below the working directory.                  *)
(***************************************************************************)
AdriftReferences == {<<p>>, <<DotDot, a>>, P(<<r, a>>), P(<<x>>)}
AdriftPlaceable ==
    {<<r, sub, NODE_MODULES, p>>, <<r, sub, a>>, <<r, sub, Jsonic("p")>>, <<r, sub, p, Jsonic("index")>>}
AdriftFixed ==
    {<<r, Jsonic("a")>>, <<r, sub, <<"p", "json">> >>, <<r, sub, p, <<"index", "json">> >>,
     <<r, sub, NODE_MODULES, <<"x", "json">> >>}

(***************************************************************************)
(* Packages near and far, with a main and an index, one linked in.         *)
(***************************************************************************)
PackageLinks == <<r, NODE_MODULES, Name("q")>> :> <<x, Name("q")>>
PackageReferences == {<<p>>, <<Name("q")>>, <<p, Name("m")>>, <<Dot, Name("m")>>}
PackageMains ==
    <<r, NODE_MODULES, p, Manifest>> :> {<<Dot, Name("m")>>} @@
    <<x, Name("q"), Manifest>> :> {}
PackagePlaceable ==
    {<<r, NODE_MODULES, p, Manifest>>, <<r, NODE_MODULES, p, Jsonic("m")>>,
     <<r, NODE_MODULES, p, Jsonic("index")>>, <<NODE_MODULES, <<"p", "json">> >>}
PackageFixed ==
    {<<x, Name("q"), Jsonic("index")>>, <<x, Name("q"), Manifest>>, <<r, sub, <<"m", "json">> >>,
     <<r, sub, Jsonic("m")>>}

(***************************************************************************)
(* A filesystem in memory: a main and an index in one package, and a root. *)
(***************************************************************************)
MapRoot == {<<r>>}
MapBase == <<r>>
MapPaths == << <<x>>, <<r, sub>> >>
MapMains == <<r, NODE_MODULES, p, Manifest>> :> {<<sub>>}
MapFixed ==
    {<<r, NODE_MODULES, p, Manifest>>, <<r, NODE_MODULES, p, Jsonic("index")>>,
     <<r, NODE_MODULES, p, sub, <<"index", "json">> >>, <<NODE_MODULES, Name("q")>>,
     <<r, Jsonic("a")>>, <<r, NODE_MODULES, Name("q")>>, << <<"r", "bak">>, Jsonic("a")>>,
     <<r, sub, Jsonic("a")>>, <<r, sub, <<"a", "json">> >>}
MapReferences ==
    {<<p>>, <<Name("q")>>, <<Dot, a>>, <<DotDot, a>>, <<DotDot, DotDot, x>>, <<p, sub>>,
     <<DotDot, <<"r", "bak">>, a>>, <<Dot, sub, a>>}

(***************************************************************************)
(* Keys in memory and no filesystem: bare, in folders, and from the root.  *)
(***************************************************************************)
Keys ==
    {<<Jsonic("c")>>, <<Name("lib"), Jsonic("a")>>, <<Name("lib"), <<"a", "json">> >>,
     <<Name("lib"), Jsonic("c")>>,
     <<Name("lib"), x, <<"index", "json">> >>, <<Name("lib"), x, <<"c", "json">> >>, P(<<x, Jsonic("c")>>)}
KeyReferences == {<<Name("c")>>, <<a>>, <<Name("lib"), a>>, <<x>>, P(<<x, Name("c")>>), <<DotDot, Name("c")>>, EmptyPath}

(***************************************************************************)
(* A folder to preload, reached through a link and by a relative path:     *)
(* files that come and go, folders at the cap and beyond it, a link to a   *)
(* file and one to a folder with a file in it.                             *)
(***************************************************************************)
ScanFolder == <<DotDot, Name("fl")>>
ScanLinks ==
    <<r, Name("fl")>> :> <<x>> @@ <<x, Jsonic("l")>> :> <<r, Jsonic("a")>> @@ <<x, lnk>> :> <<p>>
ScanPlaceable == {<<x, Jsonic("a")>>, <<x, a, <<"b", "json">> >>, <<r, Jsonic("a")>>}
ScanFixed ==
    {<<x, a, a, Jsonic("a")>>, <<x, a, a, a, Jsonic("a")>>, <<x, <<"b", "txt">> >>, <<x, <<"", "json">> >>,
     <<p, Jsonic("a")>>}
ScanNames ==
    << <<"", "json">>, a, Jsonic("a"), <<"b", "json">>, <<"b", "txt">>, Jsonic("l"), lnk, r, x, p, Name("fl")>>
ScanReferences == {<<a>>, <<Jsonic("l")>>, <<a, Name("b")>>}

MapScanFixed == {<<Jsonic("a")>>, <<x, <<"b", "txt">> >>, <<x, Jsonic("b")>>}

(***************************************************************************)
(* The setups of the runs.                                                 *)
(***************************************************************************)
Linked ==
    [Bare EXCEPT !.root = LinkedRoot, !.basePath = LinkedBase, !.links = LinkedLinks,
        !.references = LinkedReferences, !.placeable = LinkedPlaceable, !.fixed = LinkedFixed]

Memory ==
    [Bare EXCEPT !.basePath = MemoryBase, !.preload = MemoryPreload,
        !.references = MemoryReferences, !.placeable = MemoryPlaceable]

Adrift ==
    [Bare EXCEPT !.references = AdriftReferences, !.placeable = AdriftPlaceable, !.fixed = AdriftFixed]

Package ==
    [Bare EXCEPT !.resolver = "package", !.links = PackageLinks, !.mains = PackageMains,
        !.references = PackageReferences, !.placeable = PackagePlaceable, !.fixed = PackageFixed]

Map ==
    [Bare EXCEPT !.resolver = "package", !.native = FALSE, !.root = MapRoot, !.basePath = MapBase,
        !.searchPaths = MapPaths, !.mains = MapMains, !.references = MapReferences, !.fixed = MapFixed]

Closed ==
    [Bare EXCEPT !.resolver = "map", !.native = FALSE, !.preload = Keys, !.references = KeyReferences]

Scan ==
    [Bare EXCEPT !.basePath = P(<<r, Name("fl")>>), !.links = ScanLinks, !.references = ScanReferences,
        !.placeable = ScanPlaceable, !.fixed = ScanFixed, !.names = ScanNames,
        !.folders = <<ScanFolder, P(<<p, x>>)>>, !.recursive = TRUE]

MapScan ==
    [Bare EXCEPT !.native = FALSE, !.references = {<<a>>, <<x, Name("b")>>}, !.fixed = MapScanFixed,
        !.names = <<Jsonic("a"), <<"b", "txt">>, Jsonic("b"), x>>, !.folders = << <<Dot>>, <<x>> >>,
        !.extensions = {<<"txt">>}]

AllSetups == {Linked, Memory, Adrift, Package, Map, Closed, Scan, MapScan}

\* Keys from the root.
RootSetups ==
    {[Closed EXCEPT !.preload = {P(<<Jsonic("c")>>), P(<<Jsonic("a")>>)},
         !.references = {P(<<Jsonic("c")>>), <<Jsonic("a")>>}]}

\* A base path above the working directory.
UpSetups ==
    {[Bare EXCEPT !.basePath = <<DotDot, DotDot>>, !.references = {<<p>>, <<Jsonic("p")>>},
         !.placeable = {<<NODE_MODULES, p>>, <<NODE_MODULES, Jsonic("p")>>, <<r, NODE_MODULES, p>>}]}
================================================================================
