# Multisource, modelled

Multisource is a parser plugin: a document says `@path`, and the value of the source found
at that path takes the reference's place. This directory is a TLA+ development of what the
plugin does around that: resolving references, parsing sources inside the parse that
referenced them, what the parses of one instance share, and the C library that hands parsers
to foreign programs. The reference is the code of this repository. The Rust crate (`rs/`) is
modelled first; it has the confinement, the depth cap, the threads and the report store that
the Go and TypeScript versions lack.

`PROJECT.json` lists the components, the runs, which lines each definition stands for
(`map`), one faulty variant of the code per property (`mutants`, the operators commented
*Faulty*), the disagreements with the documentation (`findings`), what is hard to test
(`hazards`) and the proved theorems.

## The system

| component | state it keeps | operations | hard behaviour |
|---|---|---|---|
| directive action (`rs/src/lib.rs`) | the metadata of the parse: path, parents, ticket | resolve, cycle check, depth check, record dependency, process, raise or splice | nests in itself; callers on several threads; errors of a nested parse re-raised one level up |
| report store `LastReport` | `slots`, `next` | `ticket`, `record`, `take`, `discard` | shared by all the parses of an install; a slot has to be freed on every path |
| nested parser slot `NestedParser` | `current` | `publish` by the prepare hook, `get` by the action | written and read at different times of a parse, by every parse of the install |
| processors, `parse_nested` (`rs/src/processor.rs`) | the threads alive | `process`, spawn, join | thread refused; panics; callbacks that swallow or change errors |
| dependency sink | `deps` map under a mutex the caller shares | insert | shared between parses, one target per level |
| resolvers (`rs/src/resolver.rs`) | options, preloaded sources, root | `resolve`, `load`, `Confinement::allows` | many reads of a filesystem that others write; order of candidates |
| path helpers, `SourceFs` (`rs/src/vfs.rs`) | none (`MapFs`: a map) | join, dir, canon, `real_path`, `within_root` | `.` and `..`, links, prefixes, extensions |
| preload scan (`rs/src/preload.rs`) | none | `scan` | recursion cap |
| options, processor table, grammar install | options of an install | `processor_for`, `normalize`, `install` | aliases, defaults |
| reference coercion, `format_number` | none | | number layouts, ties, carries |
| splice, `deep_merge` | the node of the enclosing map | | container kinds, three forbidden keys |
| Go C library (`go/clib`) | `nextID`, `loaded`, a mutex per engine | `tabnas_grammar`, `tabnas_parse`, `tabnas_grammar_free` | foreign threads in any order; panics; stale handles |
| Go plugin (`go/`) | options, caller's deps map | action, resolvers over `fs.FS` | no depth cap, no lock on deps |
| TypeScript plugin (`ts/src`) | options, `requireOptions` of a resolver | action, three resolvers | state kept between calls of a resolver |
| release tools, CI, tests, documentation | | | not part of the running system |

How they meet: a caller's `parse` runs the prepare hook, which publishes the instance. A
reference in the text runs the directive action. The action asks the resolver, which asks
the filesystem; checks the ancestor chain it got through the metadata; writes the dependency
sink; mints a ticket; and calls the processor of the source's kind with the published
parser. A processor may parse the source, with metadata one level longer, on this thread or
on one it joins; the same hook and the same action run inside that parse. An error of the
nested parse is recorded under the ticket and taken back by the action that minted it. The C
library calls an engine with the plugin installed, under the mutex of its handle. What the
action got from the processor becomes the value of a pair or is merged into the enclosing map.

Correct means:

- a parse returns what its document gives on its own, whoever else parses at the time: value,
  error code and the details of the error;
- no source is its own ancestor, reuse is not a cycle, chains end at `max_depth`, and neither
  a thread's stack nor the threads nor the slots pile up;
- dependencies name who really references whom, and lead from TOP to each source in a value;
- a parse that runs on ends; a refused thread fails one load and nothing else;
- a resolver reads nothing outside its root through the links that are there, finds the first
  form a reference can stand for, looks beside the source a reference is in, and ends;
- a scan reads what is in its folders, no deeper than its cap, and nothing else;
- a source is read by the processor set for its kind, the document's map is what its elements
  make together, and a number names what JavaScript spells;
- an engine behind a handle runs one parse at a time, no panic keeps it locked, no call waits
  for another handle's engine, and a handle never changes its parser.

## The modules

| module | models | on top of |
|---|---|---|
| `LastReport` | the report store | |
| `SourceGraph` | documents, sources and what is configured; the pure decisions of the action | |
| `Loads` | the loading machinery: one action per access to something shared | `SourceGraph`, `LastReport` |
| `LoadsProperties` | its type invariant and properties | `Loads` |
| `SequentialLoad` | the results of a document on its own, recursively | `SourceGraph` |
| `LoadService` | the promise to callers: a call returns one of these results | |
| `MCLoads` | graphs of sources for TLC; the refinement of `LoadService` | `LoadsProperties`, instances of the last two |
| `LoadsProofs` | proofs: types, cycles, depth; the shapes a stack can take and what one step does to it; the report store | `LoadsProperties`, `TLAPS` |
| `SequenceFacts` | proofs: induction over numbers and sequences and functions defined by recursion, with a set in the place of a predicate; sequences | `TLAPS` |
| `NestingProofs` | proofs: stacks, threads and joins; what parses share, except the store | `LoadsProofs` |
| `Handles` | the registry of the C library | |
| `HandleService` | the same without threads: each call takes effect at one instant | |
| `HandlesProperties` | properties and the refinement of `HandleService` | `Handles` |
| `MCHandles` | small instance | `HandlesProperties` |
| `HandlesProofs` | proofs: types, locks, exclusion, handles, the refinement | `HandlesProperties`, `TLAPS` |
| `Paths` | path helpers, on paths as sequences of segments, segments as sequences of parts | |
| `FileTree` | `std::fs` as the resolvers use it: files, folders, links (external) | |
| `Resolvers` | `FileResolver`, `PkgResolver` and `MapResolver`, a step per access to the filesystem | `Paths`, an instance of `FileTree` |
| `Preloads` | the scan of folders into memory, before the resolver is used | `Resolvers` |
| `ResolversProperties`, `MCResolvers` | properties; eight resolvers with their trees | `Preloads` |
| `ResolversProofs` | proofs: types, the root, the base beside the source | `ResolversProperties`, `SequenceFacts` |
| `ScanProofs` | proofs: the scan | `ResolversProofs` |
| `SearchProofs` | proofs: what a resolution finds | `ScanProofs` |
| `Values` | what a document's values are | |
| `Merges` | the merge the host grammar does, `deep_merge`, recursively | `Values` |
| `Numbers` | binary floating point of any size, and `format_number` | |
| `Splices` | processor table, reference coercion, and the map a document becomes, with any `Merge` | `Values`, `Numbers` |
| `SplicesProperties` | types, the map without a merge, processors, names | `Splices` |
| `MergesProperties`, `MCSplices` | the map with `DeepMerge`; small sources | `SplicesProperties`, `Merges` |
| `SplicesProofs` | proofs: types, processors, the map without a merge | `SplicesProperties`, `TLAPS` |

**Loads.** A caller's nested parses are a stack of frames. A frame holds what the metadata
carries (`path`, `parents`, `ticket`), the reference the parse is at, the sources its value is
made of so far, and the load in progress: `pc`, the ticket it minted, the parser it got, the
error it came back with. Between two accesses to shared state the code runs alone, so one
action is what `directive_action` does up to its next access: `Admit` is the checks with the
dependency insert, `MintTicket` the `fetch_add`, `GetParser` the read of the slot, `ParseHere`
and `ParseOnThread` the start of a nested parse, `Return` (inside `Finish`, `Fail` and
`Abort`) its end with the join, `TakeReport`, `DiscardReport` and `Fail` the accesses to the
store. Values are the sequence of sources they came from; text, positions and formatting are
left out. Resolution is given (`Refs`, `Found`, `Named`): how a path is found is the business
of `Resolvers`. The processors are the two default ones and three a caller may register: one
that falls back on an error, one that fails with a code of its own, one that panics.
`SEGMENT` is the code's own 2; the other numbers are constants.

**Handles.** A call is at one place of its function; each critical section of the registry's
lock is one step, the engine's mutex is taken, held over `Parse` and released in separate
steps. An engine is what it makes of an input (`Verdict`): a value, an error, a panic it
turned into an error, a panic it let out. Replies are their kind and the new handle.

**Resolvers.** A resolution reads the real path of the root, the base, then candidate after
candidate: canonicalize the longest prefix, shorten it while it fails, compare with the root,
read. Each is a step and files may come and go between any two (`Change`); links stay where
they are, which is what `FileResolver::with_root` says it can vouch for. The code canonicalizes a whole path and
then, where that fails, the same path again as the first prefix; that is one step here. A
`setup` is one configured resolver with its tree: all of them are checked by one run, and an
action never changes it.

**Preloads.** A worklist of folders to list and files to read, in the order of the recursion;
listing a folder is one step and reading a file another, and files come and go between them.
What an entry is, a folder or not, is told of the entry and not of where a link leads, which is
`file_type` of a directory entry. The resolver then runs with what was read. `IsTree` is what the
tree of a scan has to be: no path is a file or a link now and a folder at another time, and no
name is empty, `.` or `..`.

**Splices.** Builder calls change the processor table until the plugin is installed. Then a
document adds elements to its map, one after another: a pair of its own, a reference as a
pair's value, or a reference spliced in. A reference takes three steps: `Refer` (coercion and
resolution), `Process`, `Place`. What parsing a source gives is given; how that goes on
and fails is in `Loads`. A pair with a key the map already has is merged by the host grammar
and left out, and so is a pair whose source has no value. The merge of `map.extend` is an operator
among the constants, `Merge`, and every run gives it as `DeepMerge` of `Merges`: so the theorems
about the rest need not know it. `told` and `set` remember the elements and the builder calls: the
properties say what the map and the processor have to be from these alone. `AssignedAsTold` says
key by key what was written last, where splices assign or keep; `MergedAsTold`
compares the map, made by one deep merge after another, with all elements taken at once, place by
place. `NamesAsSpelled` does not compute a spelling; it says what the text of a number has to
be: it reads back, with the fewest digits, nearest, even where two are as near, with an
exponent only out of the plain range.

**Numbers.** A number is `m * 2^e` with `Precision` bits and exponents from `MinExp` to
`MaxExp`. What reads back as a number are the decimals nearer to it than to its neighbours,
and just below a power of two the neighbour is half as far. `format_number` finds the length
of the shortest of those and rounds to that length, as its two calls of `format!` do.

## Plan

1. `Loads` with its refinement of `LoadService`, and the theorems on types, cycles and depth
   (done).
2. `Handles` with its refinement of `HandleService` and theorems (done).
3. `Resolvers` with the root, preloaded sources, packages, keys in memory, and `Preloads`
   (done).
4. `Values`, `Numbers` and `Splices` against reference definitions (done).
5. Proofs: of the safety properties of `Loads` all but `OwnInstance` (which the code breaks)
   and the service; of `Handles` all of them; of `Resolvers` and `Preloads` all of them,
   `BestForm` for keys, files and relative references; of `Splices` the types, the processors and the merge with
   `Assigned` (done).
6. Proof left: `BestForm` for references that name a package.

## What the runs show

| run | instance | shows |
|---|---|---|
| `concurrent` | 2 callers, 5 documents: a diamond, a loop, missing sources under a default and a lenient processor | interleaved parses give what each document gives alone, slots are owned and freed, provenance holds |
| `nesting` | 1 caller, 2 parses, chains up to and over `MaxDepth` = 4, a base path or none, a source without a full path that includes itself | ancestors distinct, chain, nesting and stack bounds, deps, the parser is always published |
| `threads` | 2 callers, 1 segment thread, with lenient, recoding and panicking processors, a text the grammar rejects and a chain over the cap | a refused thread fails its load only; every call returns; threads are joined; the service |
| `panic` | a panicking processor | violates `SlotsOwned` |
| `clone` | two instances of one install | violates `OwnInstance` |
| `handles` | 2 threads, 4 grammars, 4 inputs, 2 parsers, a handle never issued | exclusion, mutexes, handles, the service, and every call returns |
| `resolvers` | eight setups, up to four files that come and go | confinement, the best form, the base beside the source, a complete and confined scan, termination |
| `chase` | a relative base `../..` | violates `BaseChased` |
| `root_key` | a `MapResolver` with keys in the root folder | violates `KeyBesideKey` |
| `splices` | 3 map options, 2 containers, up to 3 elements out of 10 sources, up to 2 builder calls, 275 numbers | the map is what its elements make, the right processor reads, numbers are spelled right unless they are powers of two |
| `guard` | sources with keys the merge skips | violates `ReservedSkipped` |
| `number` | the numbers of `splices`, powers of two among them | violates `NumbersSpelled` |

The bounds. Two callers are enough for the store and the slot: a report or a parser goes wrong
between one parse and one other. The graph of `MCLoads` has for each outcome of the action a
document that reaches it below one and below two levels, a source reached from two branches,
a cycle of two, and a chain longer than `MaxDepth`; a chain of four spans two segments. One
segment thread makes callers meet at the limit. Two parsers and two threads let a handle be
freed and another issued while it is in use. The trees hold a link in the root's own name, a
link out, a link to something that is there at times, a sibling whose name begins with the
root's, a dotted folder, a preloaded source whose file vanishes, packages near and far, a
package with a main and an index. Four links are followed on the way to one place (`Follow`;
trees here need two), which bounds the theorems too. `MaxCalls` and `MaxHandles` the calls and the parsers.

`MAX_SCAN_DEPTH` is 2 there (64 in the code), with files at the cap, and one below it, so an
off-by-one shows. Three elements let a container be put, replaced by another sort and merged
into again; sources hold maps in maps, lists of different lengths, reference containers, a list
where a map was, and nothing. Two builder calls make each order of a processor, an alias and
its target. Builder calls and elements share one bound (`MaxTold`), and bodies that are no
string are only tried as the first element: what becomes of a name does not depend on the map.
The floating point has 4 bits with exponents from -9 to 6 and a plain range of -1 to 2 instead
of -5 to 21; that is enough for ties, carries, numbers of one to three digits, subnormal ones
and all four layouts. `MaxDigits` and `Exponents` bound the decimals looked at; no number of
that size needs more.

Fairness. A parse that has started is a running thread that waits only for a join, whose
thread runs too, and for mutexes held for a few instructions: weak fairness of `Step` per
caller. In `Handles`, weak fairness of each thread's own steps; strong fairness of taking an
engine's mutex, since a Go mutex hands itself to a waiter that starved; and the engine ends
unless the input is one of `Slow`, which nobody promises anything about. Nobody is obliged to
call. The resolvers assume none: `EveryResolveEnds` is about a resolution whose thread keeps
taking steps, and says so in the property, however the files change.

`ImplementsService` of `Loads` is the safety part of `LoadService`; its liveness is
`EveryCallReturns`. The service allows the results of `SequentialLoad`, a second, recursive
formulation of loading without tickets, slots or threads.

## Findings

The six runs that end in a violation state what the repository says:

- `LastReport::discard` says a slot cannot outlive its parse; a panicking processor leaves one.
- `install` says two instances never share a published parser; two clones of one do.
- `FileResolver` says it chases `node_modules` up through the base's parents; from the base
  `../..` it never looks in the base's own: `OsFs::join` makes the first candidate, the one in it, a path
  below the working directory, and the levels that follow give the `node_modules` of the
  working directory's parent and of the working directory. The property is about plain references
  only, those without `.` and `..` and not absolute.
- `MapResolver` says a relative reference resolves against the source that contains it; in a
  source whose key is in the root folder it is looked up with two separators.
- `deep_merge` says it skips three keys of what it merges in; in a container the base has no
  counterpart of they stay.
- `format_number` says it is JavaScript's `Number::toString`; it writes 46 powers of two, 2^-44
  among them, as digits that read back as another number. The model finds it with 4 bits, where
  0.125 is read back from 0.13 and not from 0.12.

## What is proved

TLAPS proves these for every value of the constants that meets the named assumptions
(`GraphAssumption`, `LoadsAssumption`, `HandlesAssumption`, `SplicesAssumption`, which has it
that sources' values are values and an object has one path at most; `PathsAssumption`,
`ResolversAssumption` and `PreloadsAssumption`, which say what a setup is: names made of a set
of strings `Parts` in which the empty one is, paths of such names, a working directory that is
absolute, at most one root, a package
resolver without preloaded sources, a map resolver without a root and a disk, links on native
filesystems only, folders to scan for a file resolver only and over a tree as `IsTree` says).
Two hypotheses come up in theorems on `Loads`, both about processors a caller
may register:

- `FullPaths`: a source that a processor parses again has a full path. `jsonic_processor` sees
  to it itself and leaves a source without one alone; a callback of `with_processor` has it
  from the resolver. Without it such a source never enters the ancestor chain.
- `NoPanics`: no processor panics. One that does leaves a slot behind (run `panic`).

*LoadsProofs.* `TypeCorrect`, `NoSelfAncestor`, `DepthCapHolds`. Neither of the last two is
inductive: a frame that is about to start a nested parse hands its chain on, so the invariant
`IInv` says of each frame that its chain has no repetition and is at most `MaxDepth` long, and
of a frame past `Admit` and before its end that the reference is not in the chain and the chain
is shorter than `MaxDepth` (`Admitted`). That is what the two checks establish, what no other
caller's step can disturb, and what makes the child's chain good.

A step does one of five things to one stack: begin it, replace its top, push,
pop, clear it; the others stay. From that follows `ParsesLinked`: the frame at the bottom is a
document's, and each frame above another is the parse of the source that one is awaiting, with
the chain, the ticket and the thread its load determines (`Link`). `IInv` speaks of single
frames; what follows needs to know how they hang together.

*NestingProofs*, under `FullPaths`. Up the stack, each chain is one longer than the one below
(`HeightsFromBottom`, by induction on the height), and chains are capped: `NestingIsBounded`.
As every second length of a chain needs a thread, no `SEGMENT` + 1 frames in a row share one:
`ThreadStacksAreBounded`. `ThreadsAreJoined` has the counter of threads equal to the number of
frames in the pairs `(caller, height)` that run on one of their own (`ThreadsInv`), and follows
it through the five shapes.

Of what parses share, except the store: `ParserIsPublished`: while the slot of the parser is empty every parse in
progress is of a text without references, so none reads it empty. `DependenciesAreReferences`,
under `FullPaths`: the target of a frame stands for the text the reference is in.
`ValuesAreTraced` (`Provenance`): for every set of sources closed under the dependencies, the
frames' and callers' values lie in it, so do the targets they record under, and a frame with a
load in progress has recorded it. The set is fixed and the dependencies only grow, so the
closed sets become fewer with each step.

Of the store, at the end of *LoadsProofs*: `TicketsUnique`: tickets of frames are distinct and below `next`, and a slot
holds a report only while its frame is at its end, with that frame's error or for one
a processor replaced with a code of its own. From it
`LoadsTakeTheirOwn` and `ReportsAreLeftAlone` (each step that changes a slot is its holder's,
an action property), for any number of callers, panics included; and `ReportsAreOwned`, under
`NoPanics`: each slot has a frame that will free it.

*HandlesProofs.* `RegistryTypeCorrect`, `LocksFollowCalls`, `EnginesAreExclusive` and
`HandlesAreStable`. The invariant ties the three tables together: calls name instances that
exist, loaded handles are handles that were issued, the parsers on their way fit the bound, and
a mutex is held by exactly the call that uses its engine. Exclusion follows from the last, and
the stability of handles from `Fresh` lying above all handles issued.
`RegistryImplementsService` is the refinement of `HandleService`, each step to a step or a
stutter. The calls begin with `Ask`. `Register`, `FreeGrammar`, a `Build` that refuses and
`Lookup` are `Decide`: a parse is answered at the instant its handle is looked up, from the
parser it finds. `Lock`, `Parse` and a `Build` that succeeds are stutters, and `Unlock` is
`Return`.

*ResolversProofs.* `ResolversTypeCorrect`, `ReadsStayConfined` and `ReferencesStayBeside`, for
any number of resolvers, trees, references, roots and search paths.

`ReadsConfined` speaks of the instant before a read; the check that makes it true is several
steps earlier, on a disk that may have changed since. What stays is the links. The invariant
`IInv` says of a job that its goal is the place of its root or of its next candidate; that no
prefix of the goal longer than `reach` is a link once those before it are followed (`Cleared`);
that the root it compares with is the root's place or where that leads; and that at `read` the
candidate leads below it (`Confined`). `Metadata` keeps `Cleared`: what is not there is no link,
since a link occupies its place whether or not it leads anywhere, and its folder is there because
the link is in it (`UnoccupiedIsCleared`). When a prefix canonicalizes, following the whole goal
is following the prefix and putting the rest back (`FollowSplit`), so `Confined` holds of where a
read will end up, whatever appears in the meantime. A root without a real path is compared as it
is written; then what is below it holds no link, so neither does the root, and as written it is
where it leads. The mutant `ReduceAnyway`, which shortens past a link to nothing, is what
`Cleared` rules out.

`ReferencesStayBeside` adds that a job has one source at most, that a map resolver's memory never
changes and that a scan ends before a source is found (`BesideInv`): a source that is to be had
all along is a file when `FindBase` looks, and its folder is the base from then on. The theorem
has a hypothesis, `KeysInFolders`: no key of a map resolver ends in a separator or is directly
below the root. `source_dir` cuts the key `/a` to `/`, and joining puts a second separator there
(run `root_key`, see *Findings*).

*ScanProofs.* `ScanFindsAll`: when the scan ends, memory has what it should have and nothing else,
for any folders however they are spelled, any names, links and extensions, and any cap. The
invariant `ScanInv` is about the tasks that are left. Each is where it should be (`TaskOK`): its path
is that of a folder of the options with names below it, its depth their number; something of the
tree is below a folder, and a file is one that was to be read. And
each file that was there all along is in memory or on the way of a task (`Covered`): the names down
to it are those done, which spell the task's path, and those left. Listing a folder hands what is
left to one of its entries, for what has something in it is a folder and no link, and its names are
among those listed (`CoverGoesOn`); reading a file leaves nothing of its way. What is there now and
was not all along may be missed, and files may vanish, but then they were not `steady`. Under
it lies the algebra of spelled paths: a path walked with `..` kept at the top, as the native
filesystem does, and without, as a place is, differ by that `..` alone (`WalksAlike`), so
joining names to a cleaned path spells what a resolver looks up (`TaskPathIs`, `LookedUpBy`), and a
link in a folder's own name does not change what is below it (`FollowDown`).

*SearchProofs.* `KeysFoundInOrder`, `RelativesFoundInOrder` (the relative references of a
`PkgResolver`) and `FilesFoundInOrder`: a resolution that found something
found no worse a form than any that was there all along, and one that found nothing missed none.
`BestForm` ranks the forms without the code's list of candidates: by how far up the base
`node_modules` is, by what is added to the path, and by which extension it ends in, so that two
extensions swapped are a violation too. The proof has two halves. `SearchInv` is the
inductive invariant: what a job has left is the end of its list of candidates, and none of those
passed over was to be had all along (`Missed`). The check of the root is in its way, since it takes
several steps and may refuse: a place that is there canonicalizes at once, before anything
is taken off (`ProbeKept`), and while a file that was there all along is inside, the root is
where it really is (`RootKept`). The other half is about the list: each candidate is the path
of a form ranked no worse than it, each form is the path of a candidate no later than its rank says
(`Ordered`; `PathOrdered`, `FilesOrdered`), and going up by `dir` from a base comes to the same
folders as counting its names (`LevelsAre`). An absolute native reference has no form in
`node_modules`, for joining it replaces the folder; without a base the one folder is that of
the working directory. `FilesFoundInOrder` has a hypothesis, `Based`: there is no base, or it is
spelled as the filesystem spells it. The base of a source that was found is, unless its path begins
with `..` above the root of the tree. A native base path that is relative is not: going up
by `dir` ends at the working directory, short of the folders `BestForm` counts, and from one that
begins with `..` it comes to the working directory on its way and may leave out the base itself
(`BaseChased`, run `chase`, see *Findings*).

*SplicesProofs.* `SourcesReadByTheirProcessor` carries through the builder calls that the table
holds what was set last for each kind (`TableOK`), whether entry by entry or all at once, and from
`Process` on that the value is what the reader of the kind makes. `AssignedLastWins`: for each
element told, the keys it brings have its values and the others stay, so the last one wins; a merge
of the caller that keeps what there is has spliced elements count for nothing. `SplicesTypeCorrect`
has a hypothesis on the constant `Merge`, `MergeKeepsContainer`, which is `DeepMerge` read case by
case: nothing to merge leaves the base, a map into a map or a list into a list keeps the base's
container, and anything else is replaced.

Only model-checked: liveness (`EveryCallReturns`, `CallsReturn`, `EveryResolveEnds`), which is
out of the prover's reach; `ImplementsService` of `Loads`, since `SequentialLoad` is recursive;
`MergedAsTold` and `NamesAsSpelled` of `Splices`, whose `DeepMerge` and decimal arithmetic are
recursive; and `BestForm` of a package resolver for references that name a package: a
`package.json` adds candidates while the search runs, and folders that several search paths share
are looked in once, so the list the proof is about is not there from the start.

## What is not modelled

The grammar alternates and `normalize`, which decide how text is parsed before anything here
runs; the order of a map's keys. The Go plugin (`go/`) and the TypeScript plugin (`ts/src`):
they are ports of one design, the Rust one is modelled since it has more of it, and a second model of the action would
differ in what it leaves out. What only they have is in the hazards without a property: a
dependency map without a lock, no depth cap, options a resolver keeps between calls. The
`jsonUnsafe` walk of the C library, a function of a Go value and its pointers. Processors that
parse twice or keep an instance of another install. A resolver of the caller that leaves
`spec.full` unset for a source that a processor of the caller parses again: such a source never
enters the ancestor chain, neither check sees it, and `NestingBounded` does not hold; with the
processors of the crate it does, since `jsonic_processor` leaves that source alone.
The parser engine, the directive plugin and the
host grammar are other packages: a parse runs its hook once, its directives in the order of
the text, ends at the first error, and turns a panic into an error. A pathfinder, a
`SourceFs` of the caller and a JavaScript source that is run can do anything and are left
out. Mutex poisoning, the 64-bit wrap of tickets and handles, memory, Windows separators and
drive letters are not modelled. Release scripts and CI workflows are file and network I/O.
