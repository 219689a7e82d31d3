----------------------------- MODULE SearchProofs -----------------------------
(***************************************************************************)
(* What the resolutions of Resolvers find, for any trees, links, folders,  *)
(* references, bases, path options and extensions and any files that come  *)
(* and go: the first of the forms a reference can stand for.               *)
(***************************************************************************)
EXTENDS ScanProofs

(***************************************************************************)
(* A resolution tries its candidates in order, and passes over none that   *)
(* was there all along.  `there` are the files that have been there since  *)
(* it began.                                                               *)
(***************************************************************************)
Fits(there, files, path) ==
    \/ path \in files /\ Root = {}
    \/ Readable(there, Place(path)) /\ InRoot(Follow(Place(path)))

Something(there) == \E place \in Seq(Segment) : Readable(there, place) /\ InRoot(Follow(place))

OnWay(j) == j.at \in {"canonicalize", "metadata"}

\* Nothing has been taken off the path yet.
Straight(j) == j.at = "canonicalize" /\ j.reach = Len(j.goal)

\* As long as something is in it, the root is where it really is.
RootKept(there, j) ==
    Something(there) =>
        /\ \A place \in j.root : \E root \in Root : place = Follow(Place(root))
        /\ j.root = {} /\ OnWay(j) => Straight(j)

\* A candidate that is there canonicalizes at once.
ProbeKept(there, j) ==
    j.root # {} /\ OnWay(j) /\ Readable(there, j.goal) => Straight(j)

\* What is left of the candidates, and that those before it were not to be had.
Left(tasks, todo) ==
    /\ Len(todo) <= Len(tasks)
    /\ \A i \in 1 .. Len(todo) : todo[i] = tasks[Len(tasks) - Len(todo) + i]

Missed(there, files, tasks, todo) ==
    \A i \in 1 .. Len(tasks) - Len(todo) : ~Fits(there, files, tasks[i].path)

Concluded(j) ==
    j.at = "done" =>
        IF j.result.found THEN j.todo # <<>> /\ j.result.full = Head(j.todo).path ELSE j.todo = <<>>

Explored(there, files, j) ==
    /\ Left(Tasks(j.base, j.reference), j.todo)
    /\ Missed(there, files, Tasks(j.base, j.reference), j.todo)
    /\ Concluded(j)

Searched(there, files, j) ==
    /\ RootKept(there, j) /\ ProbeKept(there, j)
    /\ ~ByPackage(j.reference) /\ Settled(j) => Explored(there, files, j)

SearchInv ==
    /\ IInv
    /\ scan # <<>> => job.reference = EmptyPath
    /\ Searched(steady, filemap, job)

LEMMA OneFewer ==
    ASSUME NEW tasks \in Todo, NEW todo \in Todo, todo # <<>>, Left(tasks, todo)
    PROVE  /\ Tail(todo) \in Todo /\ Head(todo) \in Task
           /\ Left(tasks, Tail(todo))
           /\ Head(todo) = tasks[Len(tasks) - Len(todo) + 1]
           /\ Len(tasks) - Len(todo) + 1 \in 1 .. Len(tasks)
           /\ \A i \in 1 .. Len(tasks) - Len(Tail(todo)) :
                 i \in 1 .. Len(tasks) - Len(todo) \/ i = Len(tasks) - Len(todo) + 1
<1> DEFINE rest == Tail(todo)
           n == Len(todo)
           m == Len(tasks)
<1>1. tasks \in Seq(Task) /\ todo \in Seq(Task)
  BY DEF Todo
<1>2. /\ rest \in Seq(Task) /\ Head(todo) = todo[1] /\ Head(todo) \in Task
      /\ n \in Nat /\ m \in Nat /\ n # 0 /\ n <= m /\ Len(rest) = n - 1
      /\ \A i \in 1 .. Len(rest) : rest[i] = todo[i + 1]
  <2>1. rest \in Seq(Task) /\ Head(todo) = todo[1] /\ Head(todo) \in Task /\ Len(rest) = n - 1
    BY <1>1, HeadTailProperties
  <2>2. n \in Nat /\ m \in Nat /\ n # 0 /\ n <= m
    BY <1>1, EmptySeq, LenProperties DEF Left
  <2>3. \A i \in 1 .. Len(rest) : rest[i] = todo[i + 1]
    BY <1>1, <2>1
  <2>4. QED
    BY <2>1, <2>2, <2>3
<1>3. \A i \in 1 .. n : todo[i] = tasks[m - n + i]
  BY DEF Left
<1> HIDE DEF rest, n, m
<1>4. Head(todo) = tasks[m - n + 1] /\ m - n + 1 \in 1 .. m
  BY <1>2, <1>3
<1>5. ASSUME NEW i \in 1 .. Len(rest) PROVE rest[i] = tasks[m - Len(rest) + i]
  <2>1. i + 1 \in 1 .. n /\ m - n + (i + 1) = m - Len(rest) + i
    BY <1>2
  <2>2. rest[i] = todo[i + 1]
    BY <1>2
  <2>3. todo[i + 1] = tasks[m - n + (i + 1)]
    BY <1>3, <2>1
  <2>4. QED
    BY <2>1, <2>2, <2>3
<1>6. Left(tasks, rest)
  <2>1. Len(rest) <= Len(tasks)
    BY <1>2 DEF m
  <2>2. QED
    BY <1>5, <2>1 DEF Left, m
<1>7. \A i \in 1 .. m - Len(rest) : i \in 1 .. m - n \/ i = m - n + 1
  BY <1>2
<1>8. rest \in Todo
  BY <1>2 DEF Todo
<1>9. QED
  BY <1>2, <1>4, <1>6, <1>7, <1>8 DEF rest, n, m

LEMMA SeekHas ==
    ASSUME NEW j \in Job
    PROVE  LET k == Seek(j) IN
           /\ k.todo = j.todo /\ k.base = j.base /\ k.reference = j.reference
           /\ k.root = j.root /\ k.result = j.result
           /\ j.todo = <<>> => k.at = "done"
           /\ j.todo # <<>> => IF j.root = {} THEN k.at = "read" ELSE Straight(k)
<1>1. CASE j.todo = <<>>
  BY <1>1 DEF Seek, Job
<1>2. CASE j.todo # <<>>
  <2> DEFINE path == Head(j.todo).path
             search == IF ByPackage(j.reference) THEN Append(j.search, path) ELSE j.search
             next == [j EXCEPT !.at = "read", !.search = search]
  <2>1. Seek(j) = IF j.root = {} THEN next ELSE Probing(next, path)
    BY <1>2 DEF Seek
  <2> HIDE DEF search, path
  <2>2. /\ next.todo = j.todo /\ next.base = j.base /\ next.reference = j.reference
        /\ next.root = j.root /\ next.result = j.result /\ next.at = "read"
        /\ DOMAIN next = DOMAIN j
    BY DEF Job
  <2>3. DOMAIN next = {"at", "reference", "source", "base", "root", "goal", "reach", "todo", "search", "result"}
    BY <2>2 DEF Job
  <2> HIDE DEF next
  <2>4. CASE j.root = {}
    BY <1>2, <2>1, <2>2, <2>4
  <2>5. CASE j.root # {}
    <3> DEFINE goal == Place(path)
               n == Len(goal)
               k == [next EXCEPT !.at = "canonicalize", !.goal = goal, !.reach = n]
    <3>1. Seek(j) = k
      BY <2>1, <2>5 DEF Probing, Probe
    <3> HIDE DEF goal
    <3>2. /\ k.todo = j.todo /\ k.base = j.base /\ k.reference = j.reference
          /\ k.root = j.root /\ k.result = j.result /\ k.at = "canonicalize"
          /\ k.goal = goal /\ k.reach = n
      BY <2>2, <2>3
    <3> HIDE DEF k, n
    <3>3. QED
      BY <1>2, <2>5, <3>1, <3>2 DEF Straight, n
  <2>6. QED
    BY <2>4, <2>5
<1>3. QED
  BY <1>1, <1>2

\* The candidates left after a step: all, or all but the first.
Missing(there, files, j) ==
    ~ByPackage(j.reference) =>
        /\ Left(Tasks(j.base, j.reference), j.todo)
        /\ Missed(there, files, Tasks(j.base, j.reference), j.todo)

RootReal(there, j) ==
    Something(there) => \A place \in j.root : \E root \in Root : place = Follow(Place(root))

LEMMA SeekSearches ==
    ASSUME NEW there, NEW files, NEW j \in Job, ~j.result.found, RootReal(there, j), Missing(there, files, j)
    PROVE  Searched(there, files, Seek(j))
<1> DEFINE k == Seek(j)
<1>1. /\ k.todo = j.todo /\ k.base = j.base /\ k.reference = j.reference
      /\ k.root = j.root /\ k.result = j.result
      /\ j.todo = <<>> => k.at = "done"
      /\ j.todo # <<>> => IF j.root = {} THEN k.at = "read" ELSE Straight(k)
  BY SeekHas
<1> HIDE DEF k
<1>2. RootKept(there, k)
  BY <1>1 DEF RootKept, RootReal, OnWay
<1>3. ProbeKept(there, k)
  BY <1>1 DEF ProbeKept, OnWay
<1>4. Concluded(k)
  BY <1>1 DEF Concluded, Straight
<1>5. ~ByPackage(k.reference) => Explored(there, files, k)
  BY <1>1, <1>4 DEF Missing, Explored
<1>6. QED
  BY <1>2, <1>3, <1>5 DEF Searched, k

LEMMA SkipSearches ==
    ASSUME setup \in Setups, NEW there, NEW files, NEW j \in Job, j.todo # <<>>, ~j.result.found,
           RootReal(there, j), Missing(there, files, j),
           ~ByPackage(j.reference) => ~Fits(there, files, Head(j.todo).path)
    PROVE  Searched(there, files, Skip(j))
<1> DEFINE search == IF ~Packages /\ Len(j.search) = 1 THEN PathsOf(j.todo) ELSE j.search
           todo == Tail(j.todo)
           k == [j EXCEPT !.todo = todo, !.search = search]
           tasks == Tasks(j.base, j.reference)
<1>1. Skip(j) = Seek(k)
  BY DEF Skip
<1>2. j.todo \in Todo /\ j.search \in Seq(Path) /\ j.base \in Path /\ j.reference \in Path
  BY DEF Job
<1>3. todo \in Todo /\ search \in Seq(Path)
  BY <1>2, HeadTailProperties, PathsOfIsPaths DEF Todo
<1>4. tasks \in Todo
  BY <1>2, TasksAreTasks
<1>5. ASSUME ~ByPackage(j.reference) PROVE Left(tasks, todo) /\ Missed(there, files, tasks, todo)
  <2> DEFINE n == Len(tasks) - Len(j.todo)
  <2>1. Left(tasks, j.todo) /\ Missed(there, files, tasks, j.todo)
    BY <1>5 DEF Missing
  <2> HIDE DEF tasks
  <2>2. /\ Left(tasks, todo) /\ Head(j.todo) = tasks[n + 1]
        /\ \A i \in 1 .. Len(tasks) - Len(todo) : i \in 1 .. n \/ i = n + 1
    BY <1>2, <1>4, <2>1, OneFewer
  <2>3. ~Fits(there, files, tasks[n + 1].path)
    BY <1>5, <2>2
  <2>4. \A i \in 1 .. n : ~Fits(there, files, tasks[i].path)
    BY <2>1 DEF Missed
  <2> HIDE DEF n, todo
  <2>5. QED
    BY <2>2, <2>3, <2>4 DEF Missed
<1> HIDE DEF todo, search
<1>6. /\ k \in Job /\ k.base = j.base /\ k.reference = j.reference /\ k.todo = todo
      /\ k.root = j.root /\ k.result = j.result
  BY <1>3 DEF Job
<1> HIDE DEF k, tasks
<1>7. Missing(there, files, k) /\ RootReal(there, k)
  BY <1>5, <1>6 DEF Missing, RootReal, tasks
<1>8. QED
  BY <1>1, <1>6, <1>7, SeekSearches

LEMMA RootIsThere ==
    ASSUME setup \in Setups, NEW there, Something(there), NEW root \in Root
    PROVE  Reaches(there, Place(root))
<1> DEFINE real == Follow(Place(root))
<1>1. PICK place \in Seq(Segment) : Readable(there, place) /\ InRoot(Follow(place))
  BY DEF Something
<1> DEFINE at == Follow(place)
<1>2. IsPrefix(real, at) /\ LinksOn(at) = {} /\ at \in there
  BY <1>1 DEF InRoot, Readable, Reaches
<1>3. real \in Seq(Segment) /\ at \in Seq(Segment)
  BY SetupType, PlaceIsPlace, FollowIsPlace
<1> HIDE DEF real, at
<1>4. LinksOn(real) = {}
  BY <1>2, <1>3, PrefixHasNoLinks
<1>5. real = at \/ IsStrictPrefix(real, at)
  BY <1>2 DEF IsStrictPrefix
<1>6. real \in there \/ IsFolder(there, real)
  BY <1>2, <1>5 DEF IsFolder
<1>7. QED
  BY <1>4, <1>6 DEF Reaches, real

LEMMA SettledSearch ==
    ASSUME NEW there, NEW files, NEW j, Searched(there, files, j), Settled(j)
    PROVE  RootReal(there, j) /\ Missing(there, files, j)
  BY DEF Searched, RootKept, RootReal, Explored, Missing

LEMMA JudgedSearches ==
    ASSUME setup \in Setups, NEW there, NEW files, JobOK(job), Searched(there, files, job),
           job.at = "canonicalize", NEW real, real = Follow(job.goal)
    PROVE  Searched(there, files, Judged(real))
<1>1. job \in Job /\ ~job.result.found
  BY DEF JobOK
<1>2. CASE job.root = {}
  <2> DEFINE k == [job EXCEPT !.at = "base", !.root = {real}]
  <2>1. k.at = "base" /\ k.root = {real} /\ k.root # {}
    BY <1>1 DEF Job
  <2>2. Judged(real) = k
    BY <1>2 DEF Judged
  <2> HIDE DEF k
  <2>3. \E root \in Root : real = Follow(Place(root))
    BY <1>2 DEF JobOK, Probed
  <2>4. RootKept(there, k) /\ ProbeKept(there, k) /\ ~Settled(k)
    BY <2>1, <2>3 DEF RootKept, ProbeKept, OnWay, Settled
  <2>5. QED
    BY <2>2, <2>4 DEF Searched
<1>3. CASE job.root # {}
  <2>1. Settled(job) /\ job.todo # <<>> /\ job.goal = NextPlace(job)
    BY <1>3 DEF JobOK, Probed, Settled
  <2>2. RootReal(there, job) /\ Missing(there, files, job)
    BY <2>1, SettledSearch
  <2>3. CASE \A root \in job.root : WithinRoot(real, root)
    <3> DEFINE k == [job EXCEPT !.at = "read"]
    <3>1. Judged(real) = k
      BY <1>3, <2>3 DEF Judged
    <3>2. /\ k.at = "read" /\ k.root = job.root /\ k.todo = job.todo /\ k.base = job.base
          /\ k.reference = job.reference
      BY <1>1 DEF Job
    <3> HIDE DEF k
    <3>3. RootKept(there, k) /\ ProbeKept(there, k)
      BY <1>3, <2>2, <3>2 DEF RootKept, RootReal, ProbeKept, OnWay
    <3>4. ~ByPackage(k.reference) => Explored(there, files, k)
      BY <2>2, <3>2 DEF Missing, Explored, Concluded
    <3>5. QED
      BY <3>1, <3>3, <3>4 DEF Searched
  <2>4. CASE ~(\A root \in job.root : WithinRoot(real, root))
    <3>1. PICK top \in job.root : ~IsPrefix(top, real)
      BY <2>4 DEF WithinRoot
    <3>2. Root # {}
      BY <3>1 DEF JobOK, Rooted, IsRootOf
    <3>3. ASSUME Fits(there, files, Head(job.todo).path) PROVE FALSE
      <4>1. Readable(there, job.goal) /\ InRoot(real)
        BY <2>1, <3>2, <3>3 DEF Fits, NextPlace
      <4>2. Something(there)
        BY <1>1, <4>1 DEF Something, Job
      <4>3. PICK root \in Root : top = Follow(Place(root))
        BY <2>2, <3>1, <4>2 DEF RootReal
      <4>4. QED
        BY <3>1, <4>1, <4>3 DEF InRoot
    <3>4. Judged(real) = Skip(job)
      BY <1>3, <2>4 DEF Judged
    <3>5. QED
      BY <1>1, <2>1, <2>2, <3>3, <3>4, SkipSearches
  <2>5. QED
    BY <2>3, <2>4
<1>4. QED
  BY <1>2, <1>3

\* Where the root and a candidate that are there are looked for first.
LEMMA StraightReaches ==
    ASSUME setup \in Setups, NEW there, there \subseteq disk, JobOK(job), NEW files,
           Searched(there, files, job), OnWay(job),
           IF job.root = {} THEN Something(there) ELSE Readable(there, job.goal)
    PROVE  Straight(job) /\ Reaches(disk, job.goal) /\ Prefix = job.goal
<1>1. Straight(job)
  BY DEF Searched, RootKept, ProbeKept
<1>2. Reaches(there, job.goal)
  <2>1. CASE job.root = {}
    <3>1. PICK root \in Root : job.goal = Place(root)
      BY <2>1 DEF JobOK, Probed, OnWay
    <3>2. QED
      BY <2>1, <3>1, RootIsThere
  <2>2. QED
    BY <2>1 DEF Readable
<1>3. Reaches(disk, job.goal)
  BY <1>2 DEF Reaches, IsFolder
<1>4. Prefix = job.goal
  <2> DEFINE goal == job.goal
  <2>1. goal \in Seq(Segment) /\ job.reach = Len(goal)
    BY <1>1 DEF Straight, JobOK, Job
  <2> HIDE DEF goal
  <2>2. SubSeq(goal, 1, Len(goal)) = goal
    BY <2>1, SubSeqFull
  <2>3. QED
    BY <2>1, <2>2 DEF Prefix, goal
<1>5. QED
  BY <1>1, <1>3, <1>4

LEMMA CanonicalizeSearches ==
    ASSUME setup \in Setups, NEW there, there \subseteq disk, NEW files, JobOK(job),
           Searched(there, files, job), Canonicalize
    PROVE  Searched(there, files, job')
<1>1. /\ job \in Job /\ job.at = "canonicalize"
      /\ job' = IF ~Native THEN Judged(job.goal)
                ELSE IF Reaches(disk, Prefix) THEN Judged(Follow(Prefix) \o Rest)
                ELSE [job EXCEPT !.at = "metadata"]
  BY DEF Canonicalize, At, JobOK
<1>2. /\ job.goal \in Seq(Segment) /\ job.reach \in 0 .. Len(job.goal)
      /\ \A n \in job.reach + 1 .. Len(job.goal) : Cleared(job.goal, n)
  BY <1>1 DEF JobOK, Job, Probed
<1>3. CASE ~Native
  <2>1. job.goal = Follow(job.goal)
    BY <1>2, <1>3, NoLinks
  <2>2. Searched(there, files, Judged(job.goal))
    BY <1>1, <2>1, JudgedSearches
  <2>3. QED
    BY <1>1, <1>3, <2>2
<1>4. CASE Native /\ Reaches(disk, Prefix)
  <2> DEFINE goal == job.goal
             reach == job.reach
  <2>1. /\ goal \in Seq(Segment) /\ reach \in 0 .. Len(goal)
        /\ (\A n \in reach + 1 .. Len(goal) : Cleared(goal, n))
        /\ LinksOn(Follow(SubSeq(goal, 1, reach))) = {}
    BY <1>2, <1>4 DEF Reaches, Prefix
  <2> HIDE DEF goal, reach
  <2>2. Follow(goal) = Follow(SubSeq(goal, 1, reach)) \o SubSeq(goal, reach + 1, Len(goal))
    BY <2>1, FollowSplit
  <2>3. Follow(Prefix) \o Rest = Follow(job.goal)
    BY <2>2 DEF Prefix, Rest, goal, reach
  <2>4. Searched(there, files, Judged(Follow(Prefix) \o Rest))
    BY <1>1, <2>3, JudgedSearches
  <2>5. QED
    BY <1>1, <1>4, <2>4
<1>5. CASE Native /\ ~Reaches(disk, Prefix)
  <2> DEFINE k == [job EXCEPT !.at = "metadata"]
  <2>1. /\ k.at = "metadata" /\ k.root = job.root /\ k.goal = job.goal
        /\ k.todo = job.todo /\ k.base = job.base /\ k.reference = job.reference
    BY <1>1 DEF Job
  <2>2. job' = k
    BY <1>1, <1>5
  <2> HIDE DEF k
  <2>3. ~(IF job.root = {} THEN Something(there) ELSE Readable(there, job.goal))
    BY <1>1, <1>5, StraightReaches DEF OnWay
  <2>4. RootKept(there, k) /\ ProbeKept(there, k)
    BY <2>1, <2>3 DEF Searched, RootKept, ProbeKept
  <2>5. ~ByPackage(k.reference) /\ Settled(k) => Explored(there, files, k)
    BY <1>1, <2>1 DEF Searched, Settled, Explored, Concluded
  <2>6. QED
    BY <2>2, <2>4, <2>5 DEF Searched
<1>6. QED
  BY <1>3, <1>4, <1>5

LEMMA MetadataSearches ==
    ASSUME setup \in Setups, NEW there, there \subseteq disk, NEW files, JobOK(job),
           Searched(there, files, job), Metadata
    PROVE  Searched(there, files, job')
<1>1. /\ job \in Job /\ job.at = "metadata" /\ ~job.result.found
      /\ job' = IF Occupied(disk, Prefix) THEN Unjudged ELSE Shorten
  BY DEF Metadata, Reduce, At, JobOK
<1>2. ~(IF job.root = {} THEN Something(there) ELSE Readable(there, job.goal))
  BY <1>1, StraightReaches DEF OnWay, Straight
<1>3. CASE Occupied(disk, Prefix) /\ job.root = {}
  <2> DEFINE k == [job EXCEPT !.at = "base", !.root = {job.goal}]
  <2>1. job' = k
    BY <1>1, <1>3 DEF Unjudged
  <2>2. k.at = "base"
    BY <1>1 DEF Job
  <2> HIDE DEF k
  <2>3. RootKept(there, k) /\ ProbeKept(there, k) /\ ~Settled(k)
    BY <1>2, <1>3, <2>2 DEF RootKept, ProbeKept, OnWay, Settled
  <2>4. QED
    BY <2>1, <2>3 DEF Searched
<1>4. CASE Occupied(disk, Prefix) /\ job.root # {}
  <2>1. job' = Skip(job) /\ Settled(job) /\ job.todo # <<>> /\ job.goal = NextPlace(job)
    BY <1>1, <1>4 DEF Unjudged, Settled, JobOK, Probed
  <2>2. Root # {}
    BY <1>4 DEF JobOK, Rooted, IsRootOf
  <2>3. ~Fits(there, files, Head(job.todo).path)
    BY <1>2, <1>4, <2>1, <2>2 DEF Fits, NextPlace
  <2>4. QED
    BY <1>1, <2>1, <2>3, SettledSearch, SkipSearches
<1>5. CASE ~Occupied(disk, Prefix)
  <2> DEFINE n == job.reach - 1
             k == [job EXCEPT !.at = "canonicalize", !.reach = n]
  <2>1. job' = k
    BY <1>1, <1>5 DEF Shorten
  <2>2. /\ k.at = "canonicalize" /\ k.root = job.root /\ k.goal = job.goal
        /\ k.todo = job.todo /\ k.base = job.base /\ k.reference = job.reference
    BY <1>1 DEF Job
  <2> HIDE DEF k
  <2>3. RootKept(there, k) /\ ProbeKept(there, k)
    BY <1>2, <2>2 DEF Searched, RootKept, ProbeKept
  <2>4. ~ByPackage(k.reference) /\ Settled(k) => Explored(there, files, k)
    BY <1>1, <2>2 DEF Searched, Settled, Explored, Concluded
  <2>5. QED
    BY <2>1, <2>3, <2>4 DEF Searched
<1>6. QED
  BY <1>3, <1>4, <1>5

\* Only the search of a package reads a package.json.
LEMMA NoManifests ==
    ASSUME setup \in Setups, NEW base \in Path, NEW reference \in Path, ~ByPackage(reference),
           NEW i \in 1 .. Len(Tasks(base, reference))
    PROVE  ~Tasks(base, reference)[i].manifest
<1> DEFINE tasks == Tasks(base, reference)
<1>1. ASSUME NEW paths \in PathList, tasks = Sources(paths) PROVE ~tasks[i].manifest
  <2>1. Len(tasks) = Len(paths) /\ i \in DOMAIN paths
    <3>1. paths \in Seq(Given) /\ DOMAIN paths = 1 .. Len(paths) /\ Len(paths) \in Nat
      BY LenProperties DEF PathList
    <3>2. tasks \in Todo /\ DOMAIN tasks = DOMAIN paths
      BY <1>1, SourcesAreTasks DEF Sources
    <3> HIDE DEF tasks
    <3>3. Len(tasks) \in Nat /\ DOMAIN tasks = 1 .. Len(tasks)
      BY <3>2, LenProperties DEF Todo
    <3>4. Len(tasks) = Len(paths)
      BY <3>1, <3>2, <3>3
    <3>5. QED
      BY <3>1, <3>4 DEF tasks
  <2>2. tasks[i] = Source(paths[i])
    BY <1>1, <2>1 DEF Sources
  <2>3. QED
    BY <2>2 DEF Source
<1>2. tasks = <<>> => 1 .. Len(tasks) = {}
  OBVIOUS
<1>3. \/ tasks = <<>>
      \/ tasks = Sources(FileCandidates(base, reference))
      \/ tasks = Sources(RelativeCandidates(base, reference))
      \/ tasks = Sources(BuildPotentials(FullOf(reference, base), ImplicitExt))
  BY DEF Tasks, KeyTasks, ByPackage
<1> HIDE DEF tasks
<1>4. QED
  BY <1>1, <1>2, <1>3, CandidatesArePaths DEF tasks

LEMMA ReadSearches ==
    ASSUME setup \in Setups, NEW there, there \subseteq disk, JobOK(job),
           Searched(there, filemap, job), Read
    PROVE  Searched(there, filemap, job')
<1> DEFINE task == Head(job.todo)
<1>1. /\ job \in Job /\ job.at = "read" /\ job.todo # <<>> /\ ~job.result.found
      /\ job' = IF task.path \in Preload \/ Readable(disk, Place(task.path))
                THEN Loaded(task) ELSE Skip(job)
  BY DEF Read, At, JobOK
<1>2. Settled(job) /\ RootReal(there, job) /\ Missing(there, filemap, job)
  BY <1>1, SettledSearch DEF Settled
<1>3. CASE ~(task.path \in Preload \/ Readable(disk, Place(task.path)))
  <2>1. ~Fits(there, filemap, task.path)
    BY <1>3, MoreReadable DEF Fits, Preload
  <2>2. job' = Skip(job)
    BY <1>1, <1>3
  <2>3. QED
    BY <1>1, <1>2, <2>1, <2>2, SkipSearches
<1>4. CASE task.path \in Preload \/ Readable(disk, Place(task.path))
  <2>1. CASE ~task.manifest
    <3> DEFINE result == Found(task.path, task.path \in Preload)
               k == [job EXCEPT !.at = "done", !.result = result]
    <3>1. job' = k
      BY <1>1, <1>4, <2>1 DEF Loaded
    <3>2. result.found /\ result.full = task.path
      BY DEF Found
    <3> HIDE DEF result
    <3>3. /\ k.at = "done" /\ k.root = job.root /\ k.todo = job.todo /\ k.base = job.base
          /\ k.reference = job.reference /\ k.result = result
      BY <1>1 DEF Job
    <3> HIDE DEF k
    <3>4. RootKept(there, k) /\ ProbeKept(there, k)
      BY <1>2, <3>3 DEF RootKept, RootReal, ProbeKept, OnWay
    <3>5. Concluded(k)
      BY <1>1, <3>2, <3>3 DEF Concluded
    <3>6. ~ByPackage(k.reference) => Explored(there, filemap, k)
      BY <1>2, <3>3, <3>5 DEF Missing, Explored
    <3>7. QED
      BY <3>1, <3>4, <3>6 DEF Searched
  <2>2. CASE task.manifest
    <3>1. job.base \in Path /\ job.reference \in Path /\ job.todo \in Todo
      BY <1>1 DEF Job
    <3>2. ByPackage(job.reference)
      <4> SUFFICES ASSUME ~ByPackage(job.reference) PROVE FALSE
        OBVIOUS
      <4> DEFINE tasks == Tasks(job.base, job.reference)
                 n == Len(tasks) - Len(job.todo) + 1
      <4>1. tasks \in Todo /\ Left(tasks, job.todo)
        BY <1>2, <3>1, TasksAreTasks DEF Missing
      <4> HIDE DEF tasks
      <4>2. task = tasks[n] /\ n \in 1 .. Len(tasks)
        BY <1>1, <3>1, <4>1, OneFewer
      <4> HIDE DEF n
      <4>3. ~tasks[n].manifest
        BY <3>1, <4>2, NoManifests DEF tasks
      <4>4. QED
        BY <2>2, <4>2, <4>3
    <3>3. ASSUME NEW k \in Job, k.todo # <<>>, ~k.result.found, k.root = job.root, k.reference = job.reference
          PROVE  Searched(there, filemap, Skip(k))
      <4>1. RootReal(there, k) /\ Missing(there, filemap, k)
        BY <1>2, <3>2, <3>3 DEF RootReal, Missing
      <4>2. QED
        BY <3>2, <3>3, <4>1, SkipSearches
    <3>4. Searched(there, filemap, Skip(job))
      BY <1>1, <3>3
    <3>5. ASSUME NEW main \in Path PROVE Searched(there, filemap, Skip(Widened(job, main)))
      <4> DEFINE k == Widened(job, main)
      <4>1. k \in Job /\ k.todo # <<>> /\ k.root = job.root /\ k.result = job.result
            /\ k.reference = job.reference
        BY <1>1, WidenedIsJob
      <4> HIDE DEF k
      <4>2. Searched(there, filemap, Skip(k))
        BY <1>1, <3>3, <4>1
      <4>3. QED
        BY <4>2 DEF k
    <3>6. \/ job' = Skip(job)
          \/ \E main \in Path : job' = Skip(Widened(job, main))
      <4> DEFINE place == Follow(Place(task.path))
                 mains == IF place \in DOMAIN Mains THEN Mains[place] ELSE {}
                 main == CHOOSE path \in mains : TRUE
      <4>1. mains = {} => Loaded(task) = Skip(job)
        BY <2>2 DEF Loaded
      <4>2. mains # {} => Loaded(task) = Skip(Widened(job, main))
        BY <2>2 DEF Loaded, Widened
      <4>3. mains \in SUBSET Path
        BY SetupType
      <4> HIDE DEF mains, task
      <4>4. mains # {} => main \in Path
        BY <4>3
      <4> HIDE DEF main
      <4>5. QED
        BY <1>1, <1>4, <4>1, <4>2, <4>4
    <3>7. QED
      BY <3>4, <3>5, <3>6
  <2>3. QED
    BY <2>1, <2>2
<1>5. QED
  BY <1>3, <1>4

LEMMA FindBaseSearches ==
    ASSUME setup \in Setups, NEW there, NEW files, JobOK(job), Searched(there, files, job), FindBase
    PROVE  Searched(there, files, job')
<1> DEFINE base == BaseFor
           tasks == Tasks(base, job.reference)
           search == Reported(tasks)
           k == [job EXCEPT !.base = base, !.todo = tasks, !.search = search]
<1>1. job \in Job /\ job' = Seek(k) /\ job.at = "base" /\ ~job.result.found
  BY DEF FindBase, JobOK, At
<1>2. base \in Path /\ job.reference \in Path
  BY <1>1, BaseIsPath DEF Job
<1>3. tasks \in Todo
  BY <1>2, TasksAreTasks
<1>4. search \in Seq(Path)
  BY <1>3, ReportedIsPaths
<1> HIDE DEF base, search
<1>5. Left(tasks, tasks) /\ Missed(there, files, tasks, tasks)
  <2> HIDE DEF tasks
  <2>1. Len(tasks) \in Nat
    BY <1>3, LenProperties DEF Todo
  <2>2. Len(tasks) - Len(tasks) = 0
    BY <2>1
  <2>3. \A i \in 1 .. Len(tasks) : tasks[i] = tasks[0 + i]
    BY <2>1
  <2>4. QED
    BY <2>1, <2>2, <2>3 DEF Left, Missed
<1> HIDE DEF tasks
<1>6. /\ k \in Job /\ k.base = base /\ k.todo = tasks /\ k.reference = job.reference
      /\ k.root = job.root /\ k.result = job.result
  BY <1>1, <1>2, <1>3, <1>4 DEF Job
<1> HIDE DEF k
<1>7. RootReal(there, k) /\ Missing(there, files, k)
  BY <1>5, <1>6 DEF Searched, RootKept, RootReal, Missing, tasks
<1>8. QED
  BY <1>1, <1>6, <1>7, SeekSearches

LEMMA BeginSearches ==
    ASSUME setup \in Setups, JobOK(job), Begin, NEW there, NEW files
    PROVE  Searched(there, files, job')
<1>1. PICK reference \in References,
           source \in {{}} \cup (IF job.result.found THEN {{job.result.full}} ELSE {}) :
         LET fresh == Fresh(reference, source) IN
         job' = IF Root = {} THEN fresh ELSE Probing(fresh, CHOOSE root \in Root : TRUE)
  BY DEF Begin
<1>2. reference \in Path /\ source \in SUBSET Given
  <2>1. job.result.found => job.result.full \in Given
    BY DEF JobOK
  <2>2. QED
    BY <2>1, SetupType
<1> DEFINE fresh == Fresh(reference, source)
           path == CHOOSE root \in Root : TRUE
<1>3. job' = IF Root = {} THEN fresh ELSE Probing(fresh, path)
  BY <1>1
<1>4. fresh \in Job /\ fresh.root = {} /\ fresh.at = "base"
  BY <1>2, FreshIsOK
<1> HIDE DEF fresh, path
<1>5. job'.root = {} /\ (job' = fresh \/ Straight(job'))
  <2>1. CASE Root = {}
    BY <1>3, <1>4, <2>1
  <2>2. CASE Root # {}
    <3> DEFINE goal == Place(path)
               n == Len(goal)
    <3>1. job' = [fresh EXCEPT !.at = "canonicalize", !.goal = goal, !.reach = n]
      BY <1>3, <2>2 DEF Probing, Probe
    <3> HIDE DEF goal
    <3>2. job'.root = {} /\ job'.at = "canonicalize" /\ job'.goal = goal /\ job'.reach = n
      BY <1>4, <3>1 DEF Job
    <3>3. QED
      BY <3>2 DEF Straight
  <2>3. QED
    BY <2>1, <2>2
<1>6. QED
  BY <1>4, <1>5 DEF Searched, RootKept, ProbeKept, OnWay, Settled, Straight

(***************************************************************************)
(* The candidates of a reference do not change.                            *)
(***************************************************************************)
UpwardOf(native, dir, least, most) ==
    LET up[n \in 1 .. most] ==
            IF n = 1 THEN <<dir>>
            ELSE LET dirs == up[n - 1]
                     above == DirOf(native, Last(dirs))
                 IN  IF Len(dirs) >= least /\ above = Last(dirs) THEN dirs ELSE Append(dirs, above)
    IN  up[most]

ChaseOf(native, base, path) ==
    LET levels == UpwardOf(native, base, 2, NODE_MODULES_LEVELS) IN
    [i \in DOMAIN levels |-> Canon(native, JoinPaths(native, Push(levels[i], <<NODE_MODULES>>), path))]

CandidatesOf(native, exts, base, reference) ==
    LET full == Canon(native, FullOf(reference, base)) IN
    <<full>> \o ChaseOf(native, base, reference)
             \o (IF ExtKind(full) = NONE THEN Tail(BuildPotentials(full, exts)) ELSE <<>>)

TasksOf(memory, packages, native, exts, base, reference) ==
    LET full == FullOf(reference, base) IN
    IF reference = EmptyPath THEN <<>>
    ELSE IF memory THEN Sources(BuildPotentials(full, exts))
    ELSE IF packages THEN Sources(BuildPotentials(Canon(native, full), exts))
    ELSE Sources(CandidatesOf(native, exts, base, reference))

LEMMA TasksAre ==
    \A base, reference :
        ~ByPackage(reference) =>
            Tasks(base, reference) = TasksOf(InMemory, Packages, Native, ImplicitExt, base, reference)
<1> TAKE base, reference
<1>1. Upward(base, 2, NODE_MODULES_LEVELS) = UpwardOf(Native, base, 2, NODE_MODULES_LEVELS)
  BY DEF Upward, UpwardOf, Dir
<1>2. Chase(base, reference) = ChaseOf(Native, base, reference)
  BY <1>1 DEF Chase, ChaseOf, Canonical, Join
<1>3. FileCandidates(base, reference) = CandidatesOf(Native, ImplicitExt, base, reference)
  BY <1>2 DEF FileCandidates, CandidatesOf, Canonical
<1>4. QED
  BY <1>3 DEF Tasks, TasksOf, KeyTasks, RelativeCandidates, Canonical, ByPackage

LEMMA TasksWillBe ==
    \A base, reference :
        (~ByPackage(reference) =>
            Tasks(base, reference) = TasksOf(InMemory, Packages, Native, ImplicitExt, base, reference))'
<1> TAKE base, reference
<1>1. Upward(base, 2, NODE_MODULES_LEVELS)' = UpwardOf(Native', base, 2, NODE_MODULES_LEVELS)
  BY DEF Upward, UpwardOf, Dir
<1>2. Chase(base, reference)' = ChaseOf(Native', base, reference)
  BY <1>1 DEF Chase, ChaseOf, Canonical, Join
<1>3. FileCandidates(base, reference)' = CandidatesOf(Native', ImplicitExt', base, reference)
  BY <1>2 DEF FileCandidates, CandidatesOf, Canonical
<1>4. QED
  BY <1>3 DEF Tasks, TasksOf, KeyTasks, RelativeCandidates, Canonical, ByPackage

LEMMA TasksStay ==
    ASSUME setup' = setup
    PROVE  \A base, reference :
               ~ByPackage(reference) => Tasks(base, reference)' = Tasks(base, reference)
<1>1. InMemory' = InMemory /\ Native' = Native /\ ImplicitExt' = ImplicitExt /\ Packages' = Packages
  BY DEF InMemory, Native, ImplicitExt, Packages
<1>2. \A reference : ByPackage(reference)' = ByPackage(reference)
  BY <1>1 DEF ByPackage
<1>3. QED
  BY <1>1, <1>2, TasksAre, TasksWillBe

LEMMA FitsStay ==
    ASSUME setup' = setup
    PROVE  /\ \A there, place : Readable(there, place)' = Readable(there, place)
           /\ \A place : InRoot(place)' = InRoot(place)
           /\ \A there, files, path : Fits(there, files, path)' = Fits(there, files, path)
           /\ \A there : Something(there)' = Something(there)
<1>1. ASSUME NEW there, NEW place PROVE Readable(there, place)' = Readable(there, place)
  BY PlacesStay DEF Readable, Reaches, IsFolder, Inside
<1>2. ASSUME NEW place PROVE InRoot(place)' = InRoot(place)
  BY PlacesStay DEF InRoot
<1>3. ASSUME NEW there, NEW files, NEW path PROVE Fits(there, files, path)' = Fits(there, files, path)
  BY <1>1, <1>2, PlacesStay DEF Fits
<1>4. ASSUME NEW there PROVE Something(there)' = Something(there)
  BY <1>1, <1>2, PlacesStay DEF Something
<1>5. QED
  BY <1>1, <1>2, <1>3, <1>4

LEMMA SearchedStays ==
    ASSUME setup' = setup
    PROVE  \A there, files, j : Searched(there, files, j) => Searched(there, files, j)'
<1> SUFFICES ASSUME NEW there, NEW files, NEW j, Searched(there, files, j) PROVE Searched(there, files, j)'
  OBVIOUS
<1>1. \A reference : ByPackage(reference)' = ByPackage(reference)
  BY DEF ByPackage, Packages
<1>2. RootKept(there, j)'
  <2>1. RootKept(there, j)
    BY DEF Searched
  <2>2. QED
    BY <2>1, FitsStay, PlacesStay DEF RootKept, OnWay, Straight
<1>3. ProbeKept(there, j)'
  <2>1. ProbeKept(there, j)
    BY DEF Searched
  <2>2. QED
    BY <2>1, FitsStay DEF ProbeKept, OnWay, Straight
<1>4. ASSUME ~ByPackage(j.reference), Settled(j) PROVE Explored(there, files, j)'
  <2> DEFINE tasks == Tasks(j.base, j.reference)
             todo == j.todo
  <2>1. Left(tasks, todo) /\ Missed(there, files, tasks, todo) /\ Concluded(j)
    BY <1>4 DEF Searched, Explored
  <2>2. Tasks(j.base, j.reference)' = tasks
    BY <1>4, TasksStay
  <2>3. \A s, t : Missed(there, files, s, t)' = Missed(there, files, s, t)
    BY FitsStay DEF Missed
  <2> HIDE DEF tasks, todo
  <2>4. /\ Left(Tasks(j.base, j.reference)', todo)
        /\ Missed(there, files, Tasks(j.base, j.reference), todo)'
    BY <2>1, <2>2, <2>3
  <2>5. QED
    BY <2>1, <2>4 DEF Explored, todo
<1>5. QED
  BY <1>1, <1>2, <1>3, <1>4 DEF Searched, Settled

LEMMA FewerSearched ==
    ASSUME NEW there, NEW fewer, fewer \subseteq there, NEW files, NEW j, Searched(there, files, j)
    PROVE  Searched(fewer, files, j)
<1>1. \A place : Readable(fewer, place) => Readable(there, place)
  BY MoreReadable
<1>2. \A path : Fits(fewer, files, path) => Fits(there, files, path)
  BY <1>1 DEF Fits
<1>3. Something(fewer) => Something(there)
  BY <1>1 DEF Something
<1>4. QED
  BY <1>1, <1>2, <1>3 DEF Searched, RootKept, ProbeKept, Explored, Missed

LEMMA NoneToScanBefore ==
    ASSUME NEW there, NEW files, NEW more, NEW m, m \in Job, m.reference = EmptyPath,
           Searched(there, files, m)
    PROVE  Searched(there, more, m)
<1> DEFINE tasks == Tasks(m.base, m.reference)
<1>1. tasks = <<>> /\ m.todo \in Seq(Task)
  BY DEF Tasks, Job, Todo
<1>2. Left(tasks, m.todo) => Missed(there, more, tasks, m.todo)
  <2>1. Len(m.todo) \in Nat /\ Len(tasks) = 0
    BY <1>1, LenProperties
  <2> HIDE DEF tasks
  <2>2. 1 .. Len(tasks) - Len(m.todo) = {}
    BY <2>1
  <2>3. QED
    BY <2>2 DEF Missed
<1>3. QED
  BY <1>2 DEF Searched, Explored

LEMMA SearchAtFirst ==
    ASSUME WatchedInit
    PROVE  SearchInv
<1>1. IInv
  BY InvariantAtFirst
<1>2. /\ job.at = "done" /\ job.reference = EmptyPath /\ job.root = {} /\ job.todo = <<>> /\ ~job.result.found
      /\ job.base = EmptyPath
  BY DEF WatchedInit, PreloadInit, Init, Fresh, Unfound
<1> DEFINE tasks == Tasks(job.base, job.reference)
<1>3. tasks = <<>>
  BY <1>2 DEF Tasks
<1>4. Left(tasks, job.todo) /\ Missed(steady, filemap, tasks, job.todo) /\ Concluded(job)
  <2> HIDE DEF tasks
  <2>1. Len(tasks) = 0 /\ Len(job.todo) = 0
    BY <1>2, <1>3
  <2>2. 1 .. Len(job.todo) = {} /\ 1 .. Len(tasks) - Len(job.todo) = {}
    BY <2>1
  <2>3. QED
    BY <1>2, <2>1, <2>2 DEF Left, Missed, Concluded
<1>5. QED
  BY <1>1, <1>2, <1>4 DEF SearchInv, Searched, RootKept, ProbeKept, OnWay, Explored

LEMMA SearchInvStays ==
    ASSUME SearchInv, [WatchedNext]_watched
    PROVE  SearchInv'
<1>1. IInv /\ IInv'
  BY InvariantStays DEF SearchInv
<1>2. setup \in Setups /\ JobOK(job) /\ job \in Job /\ steady \subseteq disk /\ setup' = setup
  BY <1>1, SetupStays DEF IInv, JobOK
<1>3. Searched(steady, filemap, job) /\ (scan # <<>> => job.reference = EmptyPath)
  BY DEF SearchInv
<1>4. /\ scan = <<>> => scan' = <<>> /\ filemap' = filemap
      /\ scan # <<>> => UNCHANGED job
      /\ Begin \/ steady' \subseteq steady
  <2>1. scan = <<>> => scan' = <<>> /\ filemap' = filemap
    BY StepCases DEF ListFolder, ReadFile, Change, watched, preloading
  <2>2. scan # <<>> => UNCHANGED job
    BY StepCases DEF Change, watched, preloading
  <2>3. job' = job \/ Begin \/ ~At("done")
    BY StepCases DEF watched, preloading, At, FindBase, Canonicalize, Metadata, Read
  <2>4. Begin \/ steady' \subseteq steady
    BY <2>3 DEF WatchedNext, watched
  <2>5. QED
    BY <2>1, <2>2, <2>4
<1>5. scan' # <<>> => job'.reference = EmptyPath
  BY <1>3, <1>4
<1>6. Searched(steady', filemap', job')
  <2>1. CASE scan # <<>>
    <3>1. job' = job /\ job.reference = EmptyPath
      BY <1>3, <1>4, <2>1
    <3>2. steady' \subseteq steady
      BY <1>4, <3>1 DEF WatchedNext, watched, At
    <3>3. QED
      BY <1>2, <1>3, <3>1, <3>2, FewerSearched, NoneToScanBefore
  <2>2. CASE scan = <<>> /\ Begin
    BY <1>2, <1>4, <2>2, BeginSearches
  <2>3. CASE scan = <<>> /\ ~Begin
    <3>1. filemap' = filemap /\ steady' \subseteq steady
      BY <1>4, <2>3
    <3>2. Searched(steady, filemap, job')
      <4>1. CASE FindBase
        BY <1>2, <1>3, <4>1, FindBaseSearches
      <4>2. CASE Canonicalize
        BY <1>2, <1>3, <4>2, CanonicalizeSearches
      <4>3. CASE Metadata
        BY <1>2, <1>3, <4>3, MetadataSearches
      <4>4. CASE Read
        BY <1>2, <1>3, <4>4, ReadSearches
      <4>5. CASE job' = job
        BY <1>3, <4>5
      <4>6. QED
        BY <2>3, <4>1, <4>2, <4>3, <4>4, <4>5, StepCases DEF watched, preloading
    <3>3. QED
      BY <3>1, <3>2, FewerSearched
  <2>4. QED
    BY <2>1, <2>2, <2>3
<1>7. Searched(steady, filemap, job)'
  BY <1>2, <1>6, SearchedStays
<1>8. QED
  BY <1>1, <1>5, <1>7 DEF SearchInv

(***************************************************************************)
(* Candidates in the order of the forms they are.                          *)
(***************************************************************************)
Forming == [path : Path, needs : SUBSET Path, rank : Nat]

RanksBy(paths, forms, r) ==
    /\ \A i, j \in 1 .. Len(paths) : i <= j => r[i] <= r[j]
    /\ \A i \in 1 .. Len(paths) : \E hit \in forms : hit.path = paths[i] /\ hit.rank <= r[i]
    /\ \A form \in forms : \E i \in 1 .. Len(paths) : paths[i] = form.path /\ r[i] <= form.rank

Ordered(paths, forms, lo, hi) == \E r \in [1 .. Len(paths) -> lo .. hi] : RanksBy(paths, forms, r)

LEMMA OrderedJoin ==
    ASSUME NEW s \in PathList, NEW t \in PathList, NEW F, NEW G,
           NEW a \in Nat, NEW b \in Nat, NEW c \in Nat, NEW d \in Nat, a <= b, b <= c, c <= d,
           Ordered(s, F, a, b), Ordered(t, G, c, d)
    PROVE  Ordered(s \o t, F \cup G, a, d)
<1> DEFINE all == s \o t
           m == Len(s)
           n == Len(t)
<1>1. PICK p \in [1 .. m -> a .. b] : RanksBy(s, F, p)
  BY DEF Ordered
<1>2. PICK q \in [1 .. n -> c .. d] : RanksBy(t, G, q)
  BY DEF Ordered
<1> DEFINE r == [i \in 1 .. Len(all) |-> IF i <= m THEN p[i] ELSE q[i - m]]
<1>3. /\ m \in Nat /\ n \in Nat /\ Len(all) = m + n
      /\ \A i \in 1 .. m : all[i] = s[i]
      /\ \A i \in 1 .. n : all[m + i] = t[i]
  <2>1. s \in Seq(Given) /\ t \in Seq(Given)
    BY DEF PathList
  <2>2. m \in Nat /\ n \in Nat
    BY <2>1, LenProperties
  <2>3. Len(all) = m + n
    BY <2>1, ConcatProperties
  <2>4. \A i \in 1 .. m : all[i] = s[i]
    BY <2>1
  <2>5. \A i \in 1 .. n : all[m + i] = t[i]
    BY <2>1
  <2>6. QED
    BY <2>2, <2>3, <2>4, <2>5
<1> HIDE DEF all, m, n
<1>4. \A i \in 1 .. m : p[i] \in a .. b
  BY <1>1
<1>5. \A i \in 1 .. n : q[i] \in c .. d
  BY <1>2
<1>6. /\ \A i \in 1 .. m : r[i] = p[i] /\ i \in 1 .. Len(all)
      /\ \A i \in 1 .. n : r[m + i] = q[i] /\ m + i \in 1 .. Len(all)
      /\ \A i \in 1 .. Len(all) : i \in 1 .. m \/ (i - m \in 1 .. n /\ m + (i - m) = i)
  <2>1. ASSUME NEW i \in 1 .. m PROVE r[i] = p[i] /\ i \in 1 .. Len(all)
    BY <1>3
  <2>2. ASSUME NEW i \in 1 .. n PROVE r[m + i] = q[i] /\ m + i \in 1 .. Len(all)
    <3>1. m + i \in 1 .. Len(all) /\ ~(m + i <= m) /\ (m + i) - m = i
      BY <1>3
    <3>2. QED
      BY <3>1
  <2>3. ASSUME NEW i \in 1 .. Len(all) PROVE i \in 1 .. m \/ (i - m \in 1 .. n /\ m + (i - m) = i)
    BY <1>3
  <2>4. QED
    BY <2>1, <2>2, <2>3
<1>7. r \in [1 .. Len(all) -> a .. d]
  <2>1. ASSUME NEW i \in 1 .. Len(all) PROVE r[i] \in a .. d
    <3>1. CASE i \in 1 .. m
      BY <1>4, <1>6, <3>1
    <3>2. CASE i - m \in 1 .. n /\ m + (i - m) = i
      <4>1. r[i] = q[i - m]
        BY <1>6, <3>2
      <4>2. QED
        BY <1>5, <3>2, <4>1
    <3>3. QED
      BY <1>6, <3>1, <3>2
  <2>2. QED
    BY <2>1
<1> HIDE DEF r
<1>8. RanksBy(all, F \cup G, r)
  <2>1. ASSUME NEW i \in 1 .. Len(all), NEW j \in 1 .. Len(all), i <= j PROVE r[i] <= r[j]
    <3>1. CASE i \in 1 .. m /\ j \in 1 .. m
      BY <1>1, <1>6, <2>1, <3>1 DEF RanksBy, m
    <3>2. CASE i \in 1 .. m /\ j - m \in 1 .. n /\ m + (j - m) = j
      <4>1. r[i] = p[i] /\ r[j] = q[j - m]
        BY <1>6, <3>2
      <4>2. p[i] \in a .. b /\ q[j - m] \in c .. d
        BY <1>4, <1>5, <3>2
      <4>3. QED
        BY <4>1, <4>2
    <3>3. CASE i - m \in 1 .. n /\ m + (i - m) = i /\ j - m \in 1 .. n /\ m + (j - m) = j
      <4>1. r[i] = q[i - m] /\ r[j] = q[j - m]
        BY <1>6, <3>3
      <4>2. i - m <= j - m
        BY <1>3, <2>1
      <4>3. QED
        BY <1>2, <3>3, <4>1, <4>2 DEF RanksBy, n
    <3>4. CASE i - m \in 1 .. n /\ j \in 1 .. m
      BY <1>3, <2>1, <3>4
    <3>5. QED
      BY <1>6, <3>1, <3>2, <3>3, <3>4
  <2>2. ASSUME NEW i \in 1 .. Len(all) PROVE \E hit \in F \cup G : hit.path = all[i] /\ hit.rank <= r[i]
    <3>1. CASE i \in 1 .. m
      <4>1. PICK hit \in F : hit.path = s[i] /\ hit.rank <= p[i]
        BY <1>1, <3>1 DEF RanksBy, m
      <4>2. QED
        BY <1>3, <1>6, <3>1, <4>1
    <3>2. CASE i - m \in 1 .. n /\ m + (i - m) = i
      <4>1. PICK hit \in G : hit.path = t[i - m] /\ hit.rank <= q[i - m]
        BY <1>2, <3>2 DEF RanksBy, n
      <4>2. all[i] = t[i - m] /\ r[i] = q[i - m]
        BY <1>3, <1>6, <3>2
      <4>3. QED
        BY <4>1, <4>2
    <3>3. QED
      BY <1>6, <3>1, <3>2
  <2>3. ASSUME NEW form \in F \cup G
        PROVE  \E i \in 1 .. Len(all) : all[i] = form.path /\ r[i] <= form.rank
    <3>1. CASE form \in F
      <4>1. PICK i \in 1 .. m : s[i] = form.path /\ p[i] <= form.rank
        BY <1>1, <3>1 DEF RanksBy, m
      <4>2. QED
        BY <1>3, <1>6, <4>1
    <3>2. CASE form \in G
      <4>1. PICK i \in 1 .. n : t[i] = form.path /\ q[i] <= form.rank
        BY <1>2, <3>2 DEF RanksBy, n
      <4>2. m + i \in 1 .. Len(all) /\ all[m + i] = form.path /\ r[m + i] <= form.rank
        BY <1>3, <1>6, <4>1
      <4>3. QED
        BY <4>2
    <3>3. QED
      BY <3>1, <3>2
  <2>4. QED
    BY <2>1, <2>2, <2>3 DEF RanksBy
<1>9. QED
  BY <1>7, <1>8 DEF Ordered, all

\* Forms that rank alike.
LEMMA OrderedAlike ==
    ASSUME NEW s \in PathList, NEW F, NEW a \in Nat,
           \A i \in 1 .. Len(s) : \E form \in F : form.path = s[i] /\ form.rank = a,
           \A form \in F : form.rank = a /\ \E i \in 1 .. Len(s) : s[i] = form.path
    PROVE  Ordered(s, F, a, a)
<1> DEFINE r == [i \in 1 .. Len(s) |-> a]
<1>1. r \in [1 .. Len(s) -> a .. a]
  OBVIOUS
<1>2. RanksBy(s, F, r)
  BY DEF RanksBy
<1>3. QED
  BY <1>1, <1>2 DEF Ordered

LEMMA FindsFirst ==
    ASSUME SearchInv, ~ByPackage(job.reference), NEW paths \in PathList,
           At("done") => Tasks(job.base, job.reference) = Sources(paths),
           NEW hi \in Nat, Ordered(paths, Forms, 0, hi), Forms \subseteq Forming
    PROVE  BestForm
<1> SUFFICES ASSUME At("done"), NEW form \in Forms, \A path \in form.needs \cup {form.path} : Servable(path)
             PROVE  \E hit \in Forms : /\ job.result.found /\ hit.path = job.result.full
                                       /\ hit.rank <= form.rank
  BY DEF BestForm
<1> DEFINE tasks == Sources(paths)
           n == Len(tasks) - Len(job.todo)
<1>1. /\ setup \in Setups /\ job \in Job /\ job.at = "done" /\ job.todo \in Seq(Task)
      /\ Searched(steady, filemap, job) /\ Settled(job)
  BY DEF SearchInv, IInv, JobOK, Job, Todo, At, Settled
<1>2. Left(tasks, job.todo) /\ Missed(steady, filemap, tasks, job.todo) /\ Concluded(job)
  BY <1>1 DEF Searched, Explored, At
<1>3. Len(tasks) = Len(paths) /\ Len(tasks) \in Nat /\ \A i \in 1 .. Len(paths) : tasks[i].path = paths[i]
  <2>1. paths \in Seq(Given) /\ DOMAIN paths = 1 .. Len(paths) /\ Len(paths) \in Nat
    BY LenProperties DEF PathList
  <2>2. tasks \in Todo /\ DOMAIN tasks = DOMAIN paths
    BY SourcesAreTasks DEF Sources
  <2>3. \A i \in 1 .. Len(paths) : tasks[i] = Source(paths[i])
    BY <2>1 DEF Sources
  <2> HIDE DEF tasks
  <2>4. Len(tasks) \in Nat /\ DOMAIN tasks = 1 .. Len(tasks)
    BY <2>2, LenProperties DEF Todo
  <2>5. Len(tasks) = Len(paths)
    BY <2>1, <2>2, <2>4
  <2>6. QED
    BY <2>3, <2>4, <2>5 DEF Source
<1> HIDE DEF tasks
<1>4. PICK r \in [1 .. Len(paths) -> 0 .. hi] : RanksBy(paths, Forms, r)
  BY DEF Ordered
<1>5. PICK i \in 1 .. Len(paths) : paths[i] = form.path /\ r[i] <= form.rank
  BY <1>4 DEF RanksBy
<1>6. Fits(steady, filemap, tasks[i].path)
  BY <1>3, <1>5 DEF Servable, Fits, Preload
<1>7. Len(job.todo) \in Nat /\ n \in Nat /\ Len(job.todo) <= Len(tasks)
  <2>1. Len(job.todo) \in Nat /\ Len(job.todo) <= Len(tasks)
    BY <1>1, <1>2, LenProperties DEF Left
  <2>2. QED
    BY <1>3, <2>1
<1>8. i \notin 1 .. n
  BY <1>2, <1>6 DEF Missed
<1>9. n + 1 <= i /\ n + 1 \in 1 .. Len(paths)
  BY <1>3, <1>7, <1>8
<1>10. Len(job.todo) # 0 /\ job.todo # <<>>
  BY <1>3, <1>7, <1>9, <1>1, EmptySeq
<1>11. job.result.found /\ job.result.full = Head(job.todo).path
  BY <1>1, <1>2, <1>10 DEF Concluded
<1>12. Head(job.todo) = tasks[n + 1]
  <2> DEFINE todo == job.todo
  <2>1. todo \in Todo /\ tasks \in Todo /\ todo # <<>> /\ Left(tasks, todo)
    BY <1>1, <1>2, <1>10, SourcesAreTasks DEF Todo, tasks
  <2> HIDE DEF todo
  <2>2. Head(todo) = tasks[Len(tasks) - Len(todo) + 1]
    BY <2>1, OneFewer
  <2>3. QED
    BY <2>2 DEF todo
<1>13. job.result.full = paths[n + 1]
  BY <1>3, <1>9, <1>11, <1>12
<1> DEFINE k == n + 1
<1>14. k \in 1 .. Len(paths) /\ k <= i
  BY <1>9
<1> HIDE DEF k
<1>15. PICK hit \in Forms : hit.path = paths[k] /\ hit.rank <= r[k]
  BY <1>4, <1>14 DEF RanksBy
<1>16. r[k] <= r[i]
  BY <1>4, <1>14 DEF RanksBy
<1>17. hit.rank \in Nat /\ form.rank \in Nat
  <2>1. hit \in Forming /\ form \in Forming
    OBVIOUS
  <2>2. QED
    BY <2>1 DEF Forming
<1>18. r[k] \in Nat /\ r[i] \in Nat
  BY <1>14
<1>19. hit.rank <= form.rank
  <2>1. \A a, b, c, d \in Nat : a <= b /\ b <= c /\ c <= d => a <= d
    OBVIOUS
  <2>2. QED
    BY <1>5, <1>15, <1>16, <1>17, <1>18, <2>1, Zenon
<1>20. QED
  BY <1>11, <1>13, <1>15, <1>19 DEF k

(***************************************************************************)
(* The forms a path leaves open.                                           *)
(***************************************************************************)
Extended(full) == [i \in DOMAIN ImplicitExt |-> WithExt(full, ImplicitExt[i])]
IndexFiles(full) == [i \in DOMAIN ImplicitExt |-> Append(full, <<"index", ImplicitExt[i]>>)]
NamedIndexFiles(full) ==
    IF Last(full) = Nil THEN <<>>
    ELSE [i \in DOMAIN ImplicitExt |-> Append(full, <<"index", Last(full)[1], ImplicitExt[i]>>)]

OpenForms(full) == Extended(full) \o IndexFiles(full) \o NamedIndexFiles(full)

Open(full) == IF Dotted(full) THEN <<>> ELSE OpenForms(full)

FormsOf(paths, rank) == {Form(path, {}, rank) : path \in paths}

LEMMA OpenFormsAre ==
    ASSUME setup \in Setups, NEW full \in Given
    PROVE  /\ Extended(full) \in PathList /\ IndexFiles(full) \in PathList
           /\ NamedIndexFiles(full) \in PathList /\ OpenForms(full) \in PathList
<1> DEFINE exts == ImplicitExt
           n == Len(exts)
<1>1. exts \in Seq(Parts) /\ n \in Nat /\ DOMAIN exts = 1 .. n
  BY SetupType, LenProperties
<1>2. full \in Path /\ full \in Seq(Segment) /\ full # <<>> /\ Last(full) \in Segment
  BY FrontOf DEF Given, Path
<1> HIDE DEF exts, n
<1>3. ASSUME NEW i \in 1 .. n
      PROVE  /\ WithExt(full, exts[i]) \in Given
             /\ Append(full, <<"index", exts[i]>>) \in Given
             /\ Append(full, <<"index", Last(full)[1], exts[i]>>) \in Given
  <2>1. exts[i] \in Parts
    BY <1>1, ElementOfSeq DEF n
  <2>2. <<"index", exts[i]>> \in Segment /\ <<"index", Last(full)[1], exts[i]>> \in Segment
    BY <1>2, <2>1, IndexSegments
  <2>3. QED
    BY <1>2, <2>1, <2>2, AppendIsGiven, WithExtIsGiven
<1>4. Extended(full) \in [1 .. n -> Given] /\ IndexFiles(full) \in [1 .. n -> Given]
  BY <1>1, <1>3 DEF Extended, IndexFiles, exts
<1>5. NamedIndexFiles(full) = <<>> \/ NamedIndexFiles(full) \in [1 .. n -> Given]
  BY <1>1, <1>3 DEF NamedIndexFiles, exts
<1>6. <<>> \in PathList
  BY EmptySeq DEF PathList
<1>7. Extended(full) \in PathList /\ IndexFiles(full) \in PathList /\ NamedIndexFiles(full) \in PathList
  BY <1>1, <1>4, <1>5, <1>6, FunctionIsSeq DEF PathList
<1>8. \A s, t \in PathList : s \o t \in PathList
  BY ConcatProperties DEF PathList
<1>9. OpenForms(full) \in PathList
  BY <1>7, <1>8, Zenon DEF OpenForms
<1>10. QED
  BY <1>7, <1>9

LEMMA PotentialsAre ==
    ASSUME setup \in Setups, NEW full \in Given
    PROVE  BuildPotentials(full, ImplicitExt) = <<full>> \o Open(full) /\ Open(full) \in PathList
<1>1. full # EmptyPath /\ full \in Path
  BY DEF Given
<1>2. <<full>> \in Seq(Given)
  OBVIOUS
<1>3. CASE Dotted(full)
  <2>1. BuildPotentials(full, ImplicitExt) = <<full>>
    BY <1>1, <1>3 DEF BuildPotentials, Dotted
  <2>2. Open(full) = <<>>
    BY <1>3 DEF Open
  <2>3. QED
    BY <1>2, <2>1, <2>2, EmptySeq, ConcatEmptySeq DEF PathList
<1>4. CASE ~Dotted(full)
  <2> DEFINE A == Extended(full)
             B == IndexFiles(full)
             C == NamedIndexFiles(full)
             one == <<full>>
  <2>1. BuildPotentials(full, ImplicitExt) = one \o A \o B \o C
    BY <1>1, <1>4 DEF BuildPotentials, Dotted, Extended, IndexFiles, NamedIndexFiles
  <2>2. A \in Seq(Given) /\ B \in Seq(Given) /\ C \in Seq(Given) /\ one \in Seq(Given)
    BY <1>2, OpenFormsAre DEF PathList
  <2>3. Open(full) = A \o B \o C /\ Open(full) \in PathList
    BY <1>4, OpenFormsAre DEF Open, OpenForms
  <2> HIDE DEF A, B, C, one
  <2>4. Joins(Given)
    BY Concats
  <2>5. one \o A \o B \o C = one \o (A \o B \o C)
    <3>1. A \o B \in Seq(Given)
      BY <2>2, <2>4, Zenon DEF Joins
    <3>2. (one \o A) \o B = one \o (A \o B)
      BY <2>2, <2>4, Zenon DEF Joins
    <3>3. (one \o (A \o B)) \o C = one \o ((A \o B) \o C)
      BY <2>2, <2>4, <3>1, Zenon DEF Joins
    <3>4. QED
      BY <3>2, <3>3
  <2>6. QED
    BY <2>1, <2>3, <2>5 DEF one
<1>5. QED
  BY <1>3, <1>4

LEMMA RankedAlike ==
    ASSUME NEW s \in PathList, NEW a \in Nat
    PROVE  Ordered(s, FormsOf(ToSet(s), a), a, a)
<1>1. ToSet(s) = {s[i] : i \in 1 .. Len(s)}
  BY ToSetIs DEF PathList
<1> DEFINE F == FormsOf(ToSet(s), a)
<1>2. \A i \in 1 .. Len(s) : \E form \in F : form.path = s[i] /\ form.rank = a
  <2> SUFFICES ASSUME NEW i \in 1 .. Len(s) PROVE \E form \in F : form.path = s[i] /\ form.rank = a
    OBVIOUS
  <2>1. Form(s[i], {}, a) \in F
    BY <1>1 DEF FormsOf
  <2>2. QED
    BY <2>1 DEF Form
<1>3. \A form \in F : form.rank = a /\ \E i \in 1 .. Len(s) : s[i] = form.path
  <2> SUFFICES ASSUME NEW form \in F PROVE form.rank = a /\ \E i \in 1 .. Len(s) : s[i] = form.path
    OBVIOUS
  <2>1. PICK path \in ToSet(s) : form = Form(path, {}, a)
    BY DEF FormsOf
  <2>2. QED
    BY <1>1, <2>1 DEF Form
<1> HIDE DEF F
<1>4. Ordered(s, F, a, a)
  BY <1>2, <1>3, OrderedAlike
<1>5. QED
  BY <1>4 DEF F

LEMMA IndexNames ==
    ASSUME NEW d \in Parts, NEW e \in Parts, NEW x \in Parts
    PROVE  <<d>> \o <<>> \o <<x>> = <<d, x>> /\ <<d>> \o <<e>> \o <<x>> = <<d, e, x>>
<1> DEFINE one == <<d>>
           two == <<d, e>>
<1>1. one \in Seq(Parts) /\ two \in Seq(Parts)
  OBVIOUS
<1>2. Append(one, x) = <<d, x>> /\ Append(one, e) = two /\ Append(two, x) = <<d, e, x>>
  <2> DEFINE three == <<d, e, x>>
  <2>1. ASSUME NEW y \in Parts PROVE Append(one, y) = <<d, y>>
    <3> DEFINE pair == <<d, y>>
    <3>1. pair \in Seq(Parts) /\ Len(pair) = 2 /\ pair[1] = d /\ pair[2] = y
      OBVIOUS
    <3>2. Append(one, y) \in Seq(Parts) /\ Len(Append(one, y)) = 2 /\ Append(one, y)[1] = d /\ Append(one, y)[2] = y
      OBVIOUS
    <3> HIDE DEF pair, one
    <3>3. \A i \in 1 .. 2 : Append(one, y)[i] = pair[i]
      BY <3>1, <3>2
    <3>4. Append(one, y) = pair
      BY <3>1, <3>2, <3>3, SeqEqual
    <3>5. QED
      BY <3>4 DEF pair
  <2>2. three \in Seq(Parts) /\ Len(three) = 3 /\ three[1] = d /\ three[2] = e /\ three[3] = x
    OBVIOUS
  <2>3. /\ Append(two, x) \in Seq(Parts) /\ Len(Append(two, x)) = 3
        /\ Append(two, x)[1] = d /\ Append(two, x)[2] = e /\ Append(two, x)[3] = x
    OBVIOUS
  <2> HIDE DEF one, two, three
  <2>4. \A i \in 1 .. 3 : Append(two, x)[i] = three[i]
    BY <2>2, <2>3
  <2>5. Append(two, x) = three
    BY <2>2, <2>3, <2>4, SeqEqual
  <2>6. QED
    BY <2>1, <2>5 DEF two, three
<1> HIDE DEF one, two
<1>3. one \o <<>> = one /\ one \o <<x>> = Append(one, x) /\ one \o <<e>> = Append(one, e)
      /\ two \o <<x>> = Append(two, x)
  BY <1>1, ConcatEmptySeq, AppendIsConcat
<1>4. one \o <<>> \o <<x>> = <<d, x>> /\ one \o <<e>> \o <<x>> = <<d, e, x>>
  BY <1>2, <1>3
<1>5. QED
  BY <1>4 DEF one

\* Forms that rank one after another.
Ranked(paths, a) == {Form(paths[i], {}, a + i) : i \in 1 .. Len(paths)}

LEMMA RankedInOrder ==
    ASSUME NEW s \in PathList, NEW a \in Nat
    PROVE  Ordered(s, Ranked(s, a), a, a + Len(s)) /\ Ranked(s, a) \subseteq Forming
<1> DEFINE n == Len(s)
           r == [i \in 1 .. n |-> a + i]
           F == Ranked(s, a)
           FormOf(i) == Form(s[i], {}, a + i)
<1>1. n \in Nat /\ \A i \in 1 .. n : s[i] \in Path
  BY LenProperties, ElementOfSeq DEF PathList, Given
<1>2. F = {FormOf(i) : i \in 1 .. n}
  BY DEF Ranked
<1>3. \A i \in 1 .. n : FormOf(i).path = s[i] /\ FormOf(i).rank = a + i /\ FormOf(i) \in Forming
  BY <1>1 DEF Form, Forming
<1> HIDE DEF n, F, FormOf
<1>4. r \in [1 .. n -> a .. a + n]
  BY <1>1
<1>5. \A i \in 1 .. n : r[i] = a + i
  OBVIOUS
<1> HIDE DEF r
<1>6. ASSUME NEW i \in 1 .. n, NEW j \in 1 .. n, i <= j PROVE r[i] <= r[j]
  <2>1. a + i <= a + j
    BY <1>1, <1>6
  <2>2. QED
    BY <1>5, <2>1
<1>7. ASSUME NEW i \in 1 .. n PROVE \E hit \in F : hit.path = s[i] /\ hit.rank <= r[i]
  <2>1. FormOf(i) \in F /\ FormOf(i).path = s[i] /\ FormOf(i).rank = r[i] /\ r[i] <= r[i]
    BY <1>1, <1>2, <1>3, <1>5
  <2>2. QED
    BY <2>1
<1>8. ASSUME NEW form \in F PROVE \E i \in 1 .. n : s[i] = form.path /\ r[i] <= form.rank
  <2>1. PICK i \in 1 .. n : form = FormOf(i)
    BY <1>2
  <2>2. form.path = s[i] /\ form.rank = r[i] /\ r[i] <= r[i]
    BY <1>1, <1>3, <1>5, <2>1
  <2>3. QED
    BY <2>2
<1>9. Ordered(s, F, a, a + n)
  BY <1>4, <1>6, <1>7, <1>8 DEF Ordered, RanksBy, n
<1>10. F \subseteq Forming
  BY <1>2, <1>3
<1>11. QED
  BY <1>9, <1>10 DEF F, n

LEMMA LeavesAre ==
    ASSUME setup \in Setups, NEW full \in Given, NEW a \in Nat
    PROVE  LET n == Len(ImplicitExt)
               bare == Ranked(IndexFiles(full), a + n)
               its == Ranked(NamedIndexFiles(full), a + n + n)
           IN  IF Dotted(full) THEN Leaves(full, {}, a) = {}
               ELSE /\ Leaves(full, {}, a) = Ranked(Extended(full), a) \cup bare \cup its
                    /\ Len(Extended(full)) = n /\ Len(IndexFiles(full)) = n
                    /\ Len(NamedIndexFiles(full)) <= n /\ n \in Nat
<1> DEFINE exts == ImplicitExt
           n == Len(exts)
           last == Last(full)
           bare == Ranked(IndexFiles(full), a + n)
           its == Ranked(NamedIndexFiles(full), a + n + n)
<1>1. exts \in Seq(Parts) /\ n \in Nat /\ DOMAIN exts = 1 .. n
  BY SetupType, LenProperties
<1>2. last \in Seq(Parts) /\ last # <<>>
  <2>1. last \in Segment
    BY FrontOf DEF Given, Path
  <2>2. QED
    BY <2>1 DEF Segment
<1>3. CASE Dotted(full)
  BY <1>3 DEF Leaves, Suffixed, Indexes
<1>4. CASE ~Dotted(full)
  <2>1. last = <<last[1]>> /\ last[1] \in Parts
    <3>1. Len(last) = 1
      <4>1. ~(Len(last) > 1)
        BY <1>4 DEF Dotted
      <4> HIDE DEF last
      <4>2. Len(last) \in Nat \ {0}
        BY <1>2, EmptySeq
      <4>3. QED
        BY <4>1, <4>2
    <3>2. QED
      BY <1>2, <3>1
  <2>2. "index" \in Parts
    BY PathsAssumption
  <2> DEFINE d == "index"
             e == last[1]
             A == Extended(full)
             B == IndexFiles(full)
             C == NamedIndexFiles(full)
             Long(i) == WithExt(full, exts[i])
             Bare(i) == Append(full, <<d, exts[i]>>)
             Its(i) == Append(full, <<d, e, exts[i]>>)
             Via(via, i) == Append(full, <<d>> \o via \o <<exts[i]>>)
  <2>3. DOMAIN A = 1 .. n /\ \A i \in 1 .. n : A[i] = Long(i)
    BY <1>1 DEF Extended
  <2>4. DOMAIN B = 1 .. n /\ \A i \in 1 .. n : B[i] = Bare(i)
    BY <1>1 DEF IndexFiles
  <2>5. IF last = Nil THEN C = <<>> ELSE DOMAIN C = 1 .. n /\ \A i \in 1 .. n : C[i] = Its(i)
    BY <1>1 DEF NamedIndexFiles
  <2>6. /\ Indexed(full, <<>>, {}, a + n) = {Form(Via(<<>>, i), {}, a + n + i) : i \in 1 .. n}
        /\ Indexed(full, last, {}, a + n + n) = {Form(Via(last, i), {}, a + n + n + i) : i \in 1 .. n}
    BY <1>1 DEF Indexed
  <2>7. Suffixed(full, {}, a) = {Form(Long(i), {}, a + i) : i \in 1 .. n}
    <3>1. \A i : Long(i) = Front(full) \o <<Append(Last(full), exts[i])>>
      BY DEF WithExt
    <3>2. Suffixed(full, {}, a) =
             {Form(Front(full) \o <<Append(Last(full), exts[i])>>, {}, a + i) : i \in 1 .. n}
      BY <1>1, <1>4 DEF Suffixed
    <3> HIDE DEF Long, n, exts
    <3>3. QED
      BY <3>1, <3>2
  <2>8. Leaves(full, {}, a) =
           Suffixed(full, {}, a) \cup (Indexed(full, <<>>, {}, a + n)
               \cup (IF last = Nil THEN {} ELSE Indexed(full, last, {}, a + n + n)))
    BY <1>4 DEF Leaves, Indexes
  <2>9. A \in PathList /\ B \in PathList /\ C \in PathList
    BY OpenFormsAre
  <2>10. ASSUME NEW i \in 1 .. n PROVE Via(<<>>, i) = Bare(i) /\ Via(last, i) = Its(i)
    <3>1. exts[i] \in Parts
      BY <1>1, ElementOfSeq
    <3> HIDE DEF d, n, exts
    <3>2. d \in Parts /\ e \in Parts
      BY <2>1, <2>2 DEF d
    <3> HIDE DEF e
    <3>3. <<d>> \o <<>> \o <<exts[i]>> = <<d, exts[i]>> /\ <<d>> \o <<e>> \o <<exts[i]>> = <<d, e, exts[i]>>
      BY <3>1, <3>2, IndexNames
    <3>4. last = <<e>>
      BY <2>1 DEF e
    <3> HIDE DEF last
    <3>5. QED
      BY <3>3, <3>4
  <2> HIDE DEF A, B, C, Long, Bare, Its, Via, n, exts, last, d, e
  <2>11. Len(A) = n /\ Len(B) = n
    BY <1>1, <2>3, <2>4, <2>9, LenProperties DEF PathList
  <2>12. Len(C) <= n /\ (last = Nil => Len(C) = 0) /\ (last # Nil => Len(C) = n)
    <3>1. CASE last = Nil
      <4>1. Len(C) = 0
        BY <2>5, <3>1
      <4>2. QED
        BY <1>1, <3>1, <4>1
    <3>2. CASE last # Nil
      <4>1. Len(C) = n
        BY <1>1, <2>5, <2>9, <3>2, LenProperties DEF PathList
      <4>2. QED
        BY <1>1, <3>2, <4>1
    <3>3. QED
      BY <3>1, <3>2
  <2>13. Suffixed(full, {}, a) = Ranked(A, a)
    BY <2>3, <2>7, <2>11 DEF Ranked
  <2>14. Indexed(full, <<>>, {}, a + n) = Ranked(B, a + n)
    BY <2>4, <2>6, <2>10, <2>11 DEF Ranked
  <2>15. (IF last = Nil THEN {} ELSE Indexed(full, last, {}, a + n + n)) = Ranked(C, a + n + n)
    <3>1. CASE last = Nil
      <4>1. 1 .. Len(C) = {}
        BY <2>12, <3>1
      <4>2. QED
        BY <3>1, <4>1 DEF Ranked
    <3>2. CASE last # Nil
      BY <2>5, <2>6, <2>10, <2>12, <3>2 DEF Ranked
    <3>3. QED
      BY <3>1, <3>2
  <2>16. Leaves(full, {}, a) = Ranked(A, a) \cup Ranked(B, a + n) \cup Ranked(C, a + n + n)
    BY <2>8, <2>13, <2>14, <2>15
  <2>17. QED
    BY <1>1, <1>4, <2>11, <2>12, <2>16 DEF A, B, C, n, exts
<1>5. QED
  BY <1>3, <1>4

LEMMA OrderedWithin ==
    ASSUME NEW s, NEW F, NEW a \in Nat, NEW b \in Nat, NEW c \in Nat, NEW d \in Nat,
           c <= a, b <= d, Ordered(s, F, a, b)
    PROVE  Ordered(s, F, c, d)
<1>1. PICK r \in [1 .. Len(s) -> a .. b] : RanksBy(s, F, r)
  BY DEF Ordered
<1>2. a .. b \subseteq c .. d
  OBVIOUS
<1>3. r \in [1 .. Len(s) -> c .. d]
  BY <1>2
<1>4. QED
  BY <1>1, <1>3 DEF Ordered

\* How many ranks what a path leaves open takes.
Span == Len(ImplicitExt) + Len(ImplicitExt) + Len(ImplicitExt)

\* What a path leaves open, but for the path itself.
LEMMA OpenOrdered ==
    ASSUME setup \in Setups, NEW full \in Given, NEW a \in Nat
    PROVE  /\ Span \in Nat /\ Leaves(full, {}, a) \subseteq Forming
           /\ Ordered(Open(full), Leaves(full, {}, a), a, a + Span)
<1> DEFINE n == Len(ImplicitExt)
           b == a + n
           c == a + n + n
           d == a + Span
<1>1. n \in Nat
  BY SetupType, LenProperties
<1>2. Span = n + n + n
  BY DEF Span
<1> HIDE DEF n
<1>3. b \in Nat /\ c \in Nat /\ d \in Nat /\ Span \in Nat /\ a <= a /\ a <= b /\ b <= b /\ b <= c /\ c <= c
      /\ c <= d /\ a <= d /\ d <= d
      /\ b + n = c /\ c + n = d /\ \A m \in Nat : m <= n => c + m <= d /\ c <= c + m
  BY <1>1, <1>2
<1> HIDE DEF b, c, d
<1>4. CASE Dotted(full)
  <2> DEFINE none == <<>>
  <2>1. none \in PathList /\ Ranked(none, a) = {}
    BY EmptySeq DEF PathList, Ranked
  <2>2. a + Len(none) = a
    OBVIOUS
  <2> HIDE DEF none
  <2>3. Ordered(none, {}, a, a)
    <3>1. Ordered(none, Ranked(none, a), a, a + Len(none))
      BY <2>1, RankedInOrder
    <3>2. QED
      BY <2>1, <2>2, <3>1
  <2>4. Ordered(none, {}, a, d)
    BY <1>3, <2>3, OrderedWithin
  <2>5. Open(full) = none /\ Leaves(full, {}, a) = {}
    BY <1>4, LeavesAre DEF Open, none
  <2>6. QED
    BY <1>3, <2>4, <2>5 DEF d
<1>5. CASE ~Dotted(full)
  <2> DEFINE A == Extended(full)
             B == IndexFiles(full)
             C == NamedIndexFiles(full)
             FA == Ranked(A, a)
             FB == Ranked(B, b)
             FC == Ranked(C, c)
             m == Len(C)
             most == c + m
  <2>1. A \in PathList /\ B \in PathList /\ C \in PathList
    BY OpenFormsAre
  <2>2. Open(full) = A \o B \o C
    BY <1>5 DEF Open, OpenForms
  <2>3. /\ Leaves(full, {}, a) = FA \cup FB \cup FC
        /\ Len(A) = n /\ Len(B) = n /\ m <= n
    BY <1>5, LeavesAre DEF b, c, n
  <2> HIDE DEF A, B, C
  <2>4. m \in Nat
    BY <2>1, LenProperties DEF PathList
  <2>5. /\ Ordered(A, FA, a, a + Len(A)) /\ FA \subseteq Forming
        /\ Ordered(B, FB, b, b + Len(B)) /\ FB \subseteq Forming
        /\ Ordered(C, FC, c, c + Len(C)) /\ FC \subseteq Forming
    BY <1>3, <2>1, RankedInOrder
  <2>6. A \o B \in PathList
    BY <2>1, ConcatProperties DEF PathList
  <2>7. a + Len(A) = b /\ b + Len(B) = c /\ c + Len(C) = most
    BY <1>3, <2>3 DEF b
  <2>8. most \in Nat /\ most <= d /\ c <= most
    BY <1>3, <2>3, <2>4
  <2> HIDE DEF FA, FB, FC, m, most
  <2>9. Ordered(A, FA, a, b) /\ Ordered(B, FB, b, c) /\ Ordered(C, FC, c, most)
    BY <2>5, <2>7
  <2>10. Ordered(C, FC, c, d)
    BY <1>3, <2>8, <2>9, OrderedWithin
  <2>11. Ordered(A \o B, FA \cup FB, a, c)
    BY <1>3, <2>1, <2>9, OrderedJoin
  <2>12. Ordered((A \o B) \o C, (FA \cup FB) \cup FC, a, d)
    BY <1>3, <2>1, <2>6, <2>10, <2>11, OrderedJoin
  <2>13. QED
    BY <1>3, <2>2, <2>3, <2>5, <2>12 DEF d
<1>6. QED
  BY <1>4, <1>5

\* The path itself, then what it leaves open.
LEMMA PathOrdered ==
    ASSUME setup \in Setups, NEW full \in Given
    PROVE  LET paths == BuildPotentials(full, ImplicitExt) IN
           /\ paths \in PathList /\ Span \in Nat
           /\ Ordered(paths, PathForms(full), 0, Span) /\ PathForms(full) \subseteq Forming
<1> DEFINE one == <<full>>
           open == Open(full)
           FA == FormsOf({full}, 0)
           FB == Leaves(full, {}, 0)
           span == Span
<1>1. BuildPotentials(full, ImplicitExt) = one \o open /\ open \in PathList
  BY PotentialsAre
<1>2. one \in PathList /\ ToSet(one) = {full}
  BY DEF PathList, ToSet
<1>3. PathForms(full) = FA \cup FB
  BY DEF PathForms, FormsOf, Form
<1>4. FA \subseteq Forming
  BY DEF FormsOf, Form, Forming, Given
<1>5. span \in Nat /\ FB \subseteq Forming /\ Ordered(open, FB, 0, span)
  <2>1. Span \in Nat /\ FB \subseteq Forming /\ Ordered(open, FB, 0, 0 + Span)
    BY OpenOrdered
  <2>2. 0 + Span = span
    BY <2>1
  <2>3. QED
    BY <2>1, <2>2
<1> HIDE DEF open, span, FB
<1>6. Ordered(one, FA, 0, 0)
  <2> HIDE DEF one
  <2>1. Ordered(one, FormsOf(ToSet(one), 0), 0, 0)
    BY <1>2, RankedAlike
  <2>2. QED
    BY <1>2, <2>1
<1> HIDE DEF one, FA
<1>7. 0 <= 0 /\ 0 <= span
  BY <1>5
<1>8. Ordered(one \o open, FA \cup FB, 0, span)
  BY <1>1, <1>2, <1>5, <1>6, <1>7, OrderedJoin
<1>9. one \o open \in PathList
  BY <1>1, <1>2, ConcatProperties DEF PathList
<1>10. QED
  BY <1>1, <1>3, <1>4, <1>5, <1>8, <1>9 DEF span

LEMMA FullIsGiven ==
    ASSUME NEW reference \in Path, NEW base \in Path, reference # EmptyPath
    PROVE  FullOf(reference, base) \in Given
<1>1. CASE IsAbsolute(reference) \/ base = EmptyPath
  BY <1>1 DEF FullOf, Given
<1>2. CASE ~(IsAbsolute(reference) \/ base = EmptyPath)
  <2>1. FullOf(reference, base) = base \o reference
    BY <1>2 DEF FullOf
  <2>2. base \in Seq(Segment) /\ base # <<>> /\ reference \in Seq(Segment) /\ reference # <<>>
    BY DEF Path
  <2>3. base \o reference \in Given
    BY <2>2, JoinedIsGiven
  <2>4. QED
    BY <2>1, <2>3
<1>3. QED
  BY <1>1, <1>2

(***************************************************************************)
(* The keys of a MapResolver, and the paths of a relative reference of a   *)
(* PkgResolver.                                                            *)
(***************************************************************************)
LEMMA PathsOrdered ==
    ASSUME setup \in Setups, JobOK(job), InMemory \/ Packages, ~ByPackage(job.reference),
           job.reference # EmptyPath
    PROVE  \E paths \in PathList :
              /\ Tasks(job.base, job.reference) = Sources(paths) /\ Span \in Nat
              /\ Ordered(paths, Forms, 0, Span) /\ Forms \subseteq Forming
<1> DEFINE given == FullOf(job.reference, job.base)
           full == IF InMemory THEN given ELSE Canonical(given)
           paths == BuildPotentials(full, ImplicitExt)
<1>1. given \in Given /\ given \in Path
  BY FullIsGiven DEF JobOK, Job, Given
<1>2. Canonical(given) \in Given
  <2> HIDE DEF given
  <2>1. QED
    BY <1>1, CanonicalIsGiven
<1>3. full \in Given
  BY <1>1, <1>2
<1>4. Forms = PathForms(full)
  BY DEF Forms
<1>5. Tasks(job.base, job.reference) = Sources(paths)
  BY DEF Tasks, KeyTasks, RelativeCandidates, ByPackage
<1> HIDE DEF full
<1>6. /\ paths \in PathList /\ Span \in Nat
      /\ Ordered(paths, PathForms(full), 0, Span) /\ PathForms(full) \subseteq Forming
  BY <1>3, PathOrdered
<1> HIDE DEF paths
<1>7. QED
  BY <1>4, <1>5, <1>6

LEMMA PathFound ==
    ASSUME SearchInv, InMemory \/ Packages, ~ByPackage(job.reference)
    PROVE  BestForm
<1>1. CASE job.reference = EmptyPath
  BY <1>1 DEF BestForm
<1>2. CASE job.reference # EmptyPath
  <2>1. setup \in Setups /\ JobOK(job)
    BY DEF SearchInv, IInv
  <2>2. PICK paths \in PathList :
           /\ Tasks(job.base, job.reference) = Sources(paths) /\ Span \in Nat
           /\ Ordered(paths, Forms, 0, Span) /\ Forms \subseteq Forming
    BY <1>2, <2>1, PathsOrdered
  <2> DEFINE hi == Span
  <2>3. hi \in Nat /\ Ordered(paths, Forms, 0, hi)
    BY <2>2
  <2> HIDE DEF hi
  <2>4. QED
    BY <2>2, <2>3, FindsFirst
<1>3. QED
  BY <1>1, <1>2

(***************************************************************************)
(* A MapResolver finds the first of the keys a reference can stand for:    *)
(* the key itself, then with each extension, then the index keys, each in  *)
(* the order of the extensions.                                            *)
(***************************************************************************)
THEOREM KeysFoundInOrder == WatchedSpec => [](InMemory => BestForm)
<1>1. WatchedInit => SearchInv
  BY SearchAtFirst
<1>2. SearchInv /\ [WatchedNext]_watched => SearchInv'
  BY SearchInvStays
<1>3. SearchInv => (InMemory => BestForm)
  <2>1. InMemory => ~ByPackage(job.reference)
    BY DEF InMemory, ByPackage, Packages
  <2>2. QED
    BY <2>1, PathFound
<1>4. QED
  BY <1>1, <1>2, <1>3, PTL DEF WatchedSpec

(***************************************************************************)
(* A PkgResolver finds the first of the paths a relative reference can     *)
(* stand for.                                                              *)
(***************************************************************************)
THEOREM RelativesFoundInOrder ==
    WatchedSpec => [](Packages /\ ~ByPackage(job.reference) => BestForm)
<1>1. WatchedInit => SearchInv
  BY SearchAtFirst
<1>2. SearchInv /\ [WatchedNext]_watched => SearchInv'
  BY SearchInvStays
<1>3. SearchInv => (Packages /\ ~ByPackage(job.reference) => BestForm)
  BY PathFound
<1>4. QED
  BY <1>1, <1>2, <1>3, PTL DEF WatchedSpec

(***************************************************************************)
(* The folders a FileResolver chases node_modules in.                      *)
(***************************************************************************)
\* What is walked to from the same place is the same.
LEMMA WalkedFrom ==
    ASSUME NEW a \in Seq(Segment), NEW b \in Seq(Segment), Walked(a, Topmost) = Walked(b, Topmost),
           NEW rest \in Seq(Segment)
    PROVE  Walked(a \o rest, Topmost) = Walked(b \o rest, Topmost)
<1> DEFINE T == {t \in Seq(Segment) : Walked(a \o t, Topmost) = Walked(b \o t, Topmost)}
<1>1. <<>> \in T
  BY EmptySeq, ConcatEmptySeq
<1>2. ASSUME NEW t \in T, NEW x \in Segment PROVE Append(t, x) \in T
  <2>1. t \in Seq(Segment) /\ Walked(a \o t, Topmost) = Walked(b \o t, Topmost)
    OBVIOUS
  <2> HIDE DEF T
  <2>2. Append(a \o t, x) = a \o Append(t, x) /\ Append(b \o t, x) = b \o Append(t, x)
    BY <2>1, SegmentsOn, Zenon
  <2>3. a \o t \in Seq(Segment) /\ b \o t \in Seq(Segment) /\ Append(t, x) \in Seq(Segment)
    BY <2>1, ConcatProperties, AppendTo
  <2>4. /\ Walked(Append(a \o t, x), Topmost) = Enter(Walked(a \o t, Topmost), x, Topmost)
        /\ Walked(Append(b \o t, x), Topmost) = Enter(Walked(b \o t, Topmost), x, Topmost)
    BY <2>3, TopmostIsPlace, WalkedOn
  <2>5. QED
    BY <2>1, <2>2, <2>3, <2>4 DEF T
<1>3. T \in SUBSET Seq(Segment)
  OBVIOUS
<1> HIDE DEF T
<1>4. T = Seq(Segment)
  BY <1>1, <1>2, <1>3, SeqSetInduction
<1>5. QED
  BY <1>4 DEF T

\* The canonical form of a canonical form is that form.
LEMMA CanonicalOnce ==
    ASSUME setup \in Setups, NEW path \in Path
    PROVE  Canonical(Canonical(path)) = Canonical(path)
<1> DEFINE once == Canonical(path)
<1>1. Full(path) \in Seq(Segment) /\ once = Spelled(Out(path))
  BY FullIsThere
<1>2. PICK lead \in {<<>>, Topmost}, rest \in Seq(Plain) : Alike(Full(path), lead, rest)
  BY <1>1, WalksAlike
<1>3. once = Spelled(lead \o rest)
  BY <1>1, <1>2 DEF Alike, Out
<1> HIDE DEF once
<1>4. /\ once \in Path /\ (Native => IsAbsolute(once))
      /\ Walked(once, Topmost) = lead \o rest
  BY <1>3, SpelledWalks DEF Path
<1>5. Full(once) = once
  BY <1>4 DEF Full, Absolute
<1>6. Canonical(once) = Spelled(Out(once)) /\ Out(once) = lead \o rest
  BY <1>4, <1>5, FullIsThere DEF Out
<1>7. QED
  BY <1>3, <1>6 DEF once

\* A folder by the names on the way to it.
LEMMA SpelledIs ==
    ASSUME setup \in Setups, NEW q \in Seq(Plain)
    PROVE  /\ Spelled(q) \in Given /\ (Native => IsAbsolute(Spelled(q)))
           /\ Walked(Spelled(q), Topmost) = q /\ Walked(Spelled(q), <<>>) = q
           /\ q # <<>> => Spelled(q) = IF Native THEN <<Nil>> \o q ELSE q
<1> DEFINE path == Spelled(q)
<1>1. q \in Seq(Segment) /\ <<>> \o q = q
  BY PlainNames, ConcatEmptySeq
<1>2. path = Spelled(<<>> \o q)
  BY <1>1
<1>3. q # <<>> => path = IF Native THEN <<Nil>> \o q ELSE q
  BY DEF Spelled
<1>4. q = <<>> => path = IF Native THEN RootPath ELSE <<Dot>>
  BY DEF Spelled
<1> HIDE DEF path
<1>5. /\ path \in Seq(Segment) /\ path # <<>> /\ (Native => IsAbsolute(path))
      /\ Walked(path, Topmost) = q /\ Walked(path, <<>>) = q
  BY <1>1, <1>2, SpelledWalks
<1>6. path # EmptyPath
  <2>1. CASE q = <<>>
    BY <1>4, <2>1, SingleSegments DEF Given
  <2>2. CASE q # <<>> /\ ~Native
    <3>1. q \in Seq(Name)
      BY PlainNames
    <3>2. QED
      BY <1>3, <2>2, <3>1, NamesAreSegments
  <2>3. CASE Native
    <3>1. ~IsAbsolute(EmptyPath)
      BY DEF IsAbsolute, EmptyPath
    <3>2. QED
      BY <1>5, <2>3, <3>1, Zenon
  <2>4. QED
    BY <2>1, <2>2, <2>3
<1>7. QED
  BY <1>3, <1>5, <1>6 DEF path, Given, Path

LEMMA ComponentsOf ==
    /\ Components(RootPath) = <<>>
    /\ \A q \in Seq(Plain) : Components(<<Nil>> \o q) = q
<1>1. Components(RootPath) = <<>>
  <2> DEFINE n == 2
             none == <<>>
             V == Seq(Segment)
             parts == [i \in 1 .. n |-> none]
  <2>1. none \in V /\ n \in Nat /\ n # 0 /\ none \o none = none
    BY EmptySeq, ConcatEmptySeq
  <2>2. Components(RootPath) = FlattenSeq(parts)
    BY DEF Components, IsComponent, RootPath
  <2> HIDE DEF none, V
  <2>3. parts \in [1 .. n -> V] /\ parts[1] = none /\ parts[2] = none
    BY <2>1
  <2> HIDE DEF parts
  <2>4. FlattenRun(Segment, n, parts)
    BY <2>1, <2>3, FlattenSteps DEF V
  <2>5. PICK flat : /\ FlattenSeq(parts) = flat[n] /\ flat[1] = parts[1]
                    /\ \A i \in 1 + 1 .. n : flat[i] = flat[i - 1] \o parts[i]
    BY <2>1, <2>4 DEF FlattenRun
  <2>6. n \in 1 + 1 .. n /\ n - 1 = 1
    OBVIOUS
  <2>7. flat[n] = flat[n - 1] \o parts[n]
    BY <2>5, <2>6, Zenon
  <2>8. flat[n] = flat[1] \o parts[2]
    BY <2>6, <2>7
  <2>9. QED
    BY <2>1, <2>2, <2>3, <2>5, <2>8 DEF none
<1>2. ASSUME NEW q \in Seq(Plain) PROVE Components(<<Nil>> \o q) = q
  <2> DEFINE path == <<Nil>> \o q
             n == Len(q) + 1
             V == Seq(Segment)
             parts == [i \in 1 .. n |-> IF i = 1 THEN <<>> ELSE <<q[i - 1]>>]
  <2>1. q \in Seq(Segment) /\ Len(q) \in Nat /\ \A i \in 1 .. Len(q) : q[i] \in Plain
    BY PlainNames, LenProperties, ElementOfSeq
  <2>2. /\ path \in Seq(Segment) /\ Len(path) = n /\ DOMAIN path = 1 .. n /\ path[1] = Nil
        /\ \A i \in 2 .. n : path[i] = q[i - 1]
    <3> DEFINE root == <<Nil>>
    <3>1. root \in Seq(Segment) /\ Len(root) = 1 /\ root[1] = Nil
      BY SpecialSegments
    <3> HIDE DEF root
    <3>2. /\ root \o q \in Seq(Segment) /\ Len(root \o q) = 1 + Len(q) /\ (root \o q)[1] = root[1]
          /\ \A i \in 1 + 1 .. 1 + Len(q) : (root \o q)[i] = q[i - 1]
      BY <2>1, <3>1, ConcatProperties
    <3> DEFINE all == root \o q
    <3> HIDE DEF all
    <3>3. all \in Seq(Segment) /\ Len(all) = n /\ all[1] = Nil /\ \A i \in 2 .. n : all[i] = q[i - 1]
      BY <2>1, <3>1, <3>2 DEF all
    <3>4. DOMAIN all = 1 .. n
      BY <3>3, LenProperties
    <3>5. QED
      BY <3>3, <3>4 DEF all, root
  <2> HIDE DEF path
  <2>3. ASSUME NEW i \in 1 .. n
        PROVE  /\ (IF IsComponent(path, i) THEN <<path[i]>> ELSE <<>>) = parts[i] /\ parts[i] \in V
    <3>1. CASE i = 1
      BY <2>2, <3>1, EmptySeq DEF IsComponent
    <3>2. CASE i # 1
      <4>1. i \in 2 .. n /\ i - 1 \in 1 .. Len(q)
        BY <2>1, <3>2
      <4>2. path[i] = q[i - 1] /\ q[i - 1] \in Plain
        BY <2>1, <2>2, <4>1
      <4>3. q[i - 1] # Nil /\ q[i - 1] # Dot /\ q[i - 1] \in Segment
        BY <4>2, PlainNames
      <4>4. IsComponent(path, i)
        BY <4>2, <4>3 DEF IsComponent
      <4>5. QED
        BY <3>2, <4>2, <4>3, <4>4
    <3>3. QED
      BY <3>1, <3>2
  <2>4. Components(path) = FlattenSeq(parts)
    <3>1. Components(path) = FlattenSeq([i \in 1 .. n |-> IF IsComponent(path, i) THEN <<path[i]>> ELSE <<>>])
      BY <2>2 DEF Components
    <3>2. [i \in 1 .. n |-> IF IsComponent(path, i) THEN <<path[i]>> ELSE <<>>] = parts
      BY <2>3
    <3>3. QED
      BY <3>1, <3>2
  <2>5. parts \in [1 .. n -> V]
    BY <2>3
  <2>6. parts[1] = <<>> /\ \A i \in 1 + 1 .. n : parts[i] = <<q[i - 1]>>
    BY <2>1
  <2>7. n \in Nat /\ n # 0
    BY <2>1
  <2> HIDE DEF parts, V
  <2>8. FlattenRun(Segment, n, parts)
    BY <2>5, <2>7, FlattenSteps DEF V
  <2>9. PICK flat : /\ FlattenSeq(parts) = flat[n] /\ flat[1] = parts[1]
                    /\ \A i \in 1 + 1 .. n : flat[i] = flat[i - 1] \o parts[i]
    BY <2>7, <2>8 DEF FlattenRun
  <2> DEFINE T == {k \in Nat : k \in 1 .. n => flat[k] = SubSeq(q, 1, k - 1)}
  <2>10. 0 \in T
    OBVIOUS
  <2>11. ASSUME NEW k \in T PROVE k + 1 \in T
    <3>1. k \in Nat /\ (k \in 1 .. n => flat[k] = SubSeq(q, 1, k - 1))
      OBVIOUS
    <3> HIDE DEF T
    <3>2. CASE k = 0
      <4>1. SubSeq(q, 1, 0) = <<>>
        BY <2>1, PrefixOf, EmptySeq
      <4>2. flat[1] = SubSeq(q, 1, 0)
        BY <2>6, <2>9, <4>1
      <4> DEFINE m == k + 1
      <4>3. m = 1 /\ m - 1 = 0 /\ m \in Nat
        BY <3>2
      <4> HIDE DEF m
      <4>4. flat[m] = SubSeq(q, 1, m - 1)
        BY <4>2, <4>3
      <4>5. m \in T
        BY <4>3, <4>4 DEF T
      <4>6. QED
        BY <4>5 DEF m
    <3>3. ASSUME k # 0, k + 1 \in 1 .. n PROVE flat[k + 1] = SubSeq(q, 1, k + 1 - 1)
      <4> DEFINE m == k + 1
      <4>1. m \in 1 + 1 .. n /\ m - 1 = k /\ k \in 1 .. n /\ k \in 1 .. Len(q) /\ k \in 0 .. Len(q) /\ k > 0
        BY <2>1, <3>1, <3>3
      <4> HIDE DEF m
      <4>2. flat[m] = flat[m - 1] \o parts[m] /\ parts[m] = <<q[m - 1]>>
        BY <2>6, <2>9, <4>1, Zenon
      <4>3. flat[m] = flat[k] \o <<q[k]>>
        BY <4>1, <4>2
      <4>4. SubSeq(q, 1, k) = Append(SubSeq(q, 1, k - 1), q[k])
        BY <2>1, <4>1, PrefixOf
      <4>5. k - 1 \in 0 .. Len(q)
        BY <2>1, <4>1
      <4>6. SubSeq(q, 1, k - 1) \in Seq(Segment) /\ q[k] \in Segment
        BY <2>1, <4>1, <4>5, PrefixOf, PlainNames
      <4>7. Append(SubSeq(q, 1, k - 1), q[k]) = SubSeq(q, 1, k - 1) \o <<q[k]>>
        BY <4>6, AppendIsConcat
      <4>8. flat[m] = SubSeq(q, 1, m - 1)
        BY <3>1, <4>1, <4>3, <4>4, <4>7
      <4>9. QED
        BY <3>1, <4>8 DEF m
    <3>4. QED
      BY <3>1, <3>2, <3>3 DEF T
  <2>12. T \in SUBSET Nat
    OBVIOUS
  <2> HIDE DEF T
  <2>13. T = Nat
    BY <2>10, <2>11, <2>12, NatSetInduction
  <2>14. n \in T /\ n \in 1 .. n /\ n - 1 = Len(q)
    BY <2>1, <2>7, <2>13
  <2>15. flat[n] = SubSeq(q, 1, n - 1)
    BY <2>14 DEF T
  <2>16. flat[n] = q
    BY <2>1, <2>14, <2>15, SubSeqFull
  <2>17. QED
    BY <2>4, <2>9, <2>16 DEF path
<1>3. QED
  BY <1>1, <1>2

\* The folder a folder is in; the topmost is in itself.
LEMMA DirOfSpelled ==
    ASSUME setup \in Setups, NEW q \in Seq(Plain)
    PROVE  /\ q = <<>> => Dir(Spelled(q)) = Spelled(q)
           /\ q # <<>> => Dir(Spelled(q)) = Spelled(Front(q)) /\ Front(q) \in Seq(Plain)
<1> DEFINE path == Spelled(q)
<1>1. /\ path \in Given /\ (Native => IsAbsolute(path)) /\ Walked(path, <<>>) = q
      /\ q # <<>> => path = IF Native THEN <<Nil>> \o q ELSE q
  BY SpelledIs
<1>2. q = <<>> => path = IF Native THEN RootPath ELSE <<Dot>>
  BY DEF Spelled
<1>3. q # <<>> => Front(q) \in Seq(Plain) /\ Len(Front(q)) = Len(q) - 1 /\ Len(q) \in Nat \ {0}
  BY FrontOf
<1>4. Spelled(Front(q)) = IF Native THEN IF Front(q) = <<>> THEN RootPath ELSE <<Nil>> \o Front(q)
                          ELSE IF Front(q) = <<>> THEN <<Dot>> ELSE Front(q)
  BY DEF Spelled
<1> DEFINE front == Front(q)
<1> HIDE DEF path, front
<1>5. CASE Native
  <2>1. Dir(path) = OsDir(path)
    BY <1>5 DEF Dir, DirOf
  <2>2. CASE q = <<>>
    <3>1. path = RootPath /\ Components(RootPath) = <<>>
      BY <1>2, <1>5, <2>2, ComponentsOf
    <3>2. OsDir(path) = path
      BY <3>1 DEF OsDir
    <3>3. QED
      BY <2>1, <2>2, <3>2 DEF path
  <2>3. CASE q # <<>>
    <3>1. Components(path) = q /\ IsAbsolute(path)
      BY <1>1, <1>5, <2>3, ComponentsOf
    <3>2. OsDir(path) = IF Front(q) = <<>> THEN RootPath ELSE <<Nil>> \o Front(q)
      BY <2>3, <3>1 DEF OsDir
    <3>3. QED
      BY <1>3, <1>4, <1>5, <2>1, <2>3, <3>2 DEF path
  <2>4. QED
    BY <2>2, <2>3
<1>6. CASE ~Native
  <2>1. Dir(path) = MapDir(path)
    BY <1>6 DEF Dir, DirOf
  <2>2. CASE q = <<>>
    <3>1. Clean(path) = <<Dot>> /\ path = <<Dot>>
      BY <1>1, <1>2, <1>6, <2>2 DEF Clean
    <3>2. Len(<<Dot>>) = 1
      OBVIOUS
    <3>3. MapDir(path) = path
      BY <3>1, <3>2 DEF MapDir
    <3>4. QED
      BY <2>1, <2>2, <3>3 DEF path
  <2>3. CASE q # <<>>
    <3>1. Clean(path) = q
      BY <1>1, <2>3 DEF Clean
    <3>2. MapDir(path) = IF Len(q) = 1 THEN <<Dot>> ELSE Front(q)
      BY <3>1 DEF MapDir
    <3>3. Len(q) = 1 <=> Front(q) = <<>>
      <4>1. front \in Seq(Plain) /\ Len(front) = Len(q) - 1 /\ Len(q) \in Nat \ {0}
        BY <1>3, <2>3 DEF front
      <4>2. front = <<>> <=> Len(front) = 0
        BY <4>1, EmptySeq
      <4>3. QED
        BY <4>1, <4>2 DEF front
    <3>4. QED
      BY <1>3, <1>4, <1>6, <2>1, <2>3, <3>2, <3>3 DEF path
  <2>4. QED
    BY <2>2, <2>3
<1>7. QED
  BY <1>5, <1>6 DEF path

\* The i-th folder on the way up from q: the topmost again and again.
Level(q, i) == SubSeq(q, 1, IF i <= Len(q) THEN Len(q) + 1 - i ELSE 0)

LEMMA LevelIs ==
    ASSUME setup \in Setups, NEW q \in Seq(Plain), NEW i \in Nat \ {0}
    PROVE  /\ Level(q, i) \in Seq(Plain) /\ Level(q, 1) = q
           /\ Len(Level(q, i)) = IF i <= Len(q) THEN Len(q) + 1 - i ELSE 0
           /\ Dir(Spelled(Level(q, i))) = Spelled(Level(q, i + 1))
           /\ Dir(Spelled(Level(q, i))) = Spelled(Level(q, i)) => Len(q) + 1 <= i
<1> DEFINE k == IF i <= Len(q) THEN Len(q) + 1 - i ELSE 0
           level == Level(q, i)
<1>1. Len(q) \in Nat /\ k \in 0 .. Len(q) /\ k \in Nat
  BY LenProperties
<1>2. level = SubSeq(q, 1, k)
  BY DEF Level
<1>3. Level(q, i + 1) = SubSeq(q, 1, IF k > 0 THEN k - 1 ELSE 0) /\ (k > 0 <=> i <= Len(q))
  BY <1>1 DEF Level
<1>4. Level(q, 1) = q
  <2>1. CASE 1 <= Len(q)
    <3>1. Len(q) + 1 - 1 = Len(q)
      BY <1>1
    <3>2. QED
      BY <2>1, <3>1, SubSeqFull DEF Level
  <2>2. CASE ~(1 <= Len(q))
    <3>1. Len(q) = 0
      BY <1>1, <2>2
    <3>2. Level(q, 1) = SubSeq(q, 1, Len(q))
      BY <2>2, <3>1 DEF Level
    <3>3. QED
      BY <3>2, SubSeqFull
  <2>3. QED
    BY <2>1, <2>2
<1> HIDE DEF k, level
<1>5. /\ level \in Seq(Plain) /\ Len(level) = k
      /\ k > 0 => level # <<>> /\ Front(level) = SubSeq(q, 1, k - 1)
  BY <1>1, <1>2, PrefixOf
<1>6. k = 0 => level = <<>>
  BY <1>5, EmptySeq
<1>7. Dir(Spelled(level)) = Spelled(Level(q, i + 1))
  <2>1. CASE k > 0
    BY <1>3, <1>5, <2>1, DirOfSpelled
  <2>2. CASE k = 0
    <3>1. Level(q, i + 1) = level
      BY <1>2, <1>3, <2>2
    <3>2. Dir(Spelled(level)) = Spelled(level)
      BY <1>5, <1>6, <2>2, DirOfSpelled
    <3>3. QED
      BY <3>1, <3>2
  <2>3. QED
    BY <1>1, <2>1, <2>2
<1>8. ASSUME Dir(Spelled(level)) = Spelled(level) PROVE Len(q) + 1 <= i
  <2>1. CASE k > 0
    <3>1. k - 1 \in 0 .. Len(q)
      BY <1>1, <2>1
    <3> DEFINE up == SubSeq(q, 1, k - 1)
    <3>2. up \in Seq(Plain) /\ Len(up) = k - 1
      BY <3>1, PrefixOf
    <3>3. Dir(Spelled(level)) = Spelled(up)
      BY <1>5, <2>1, DirOfSpelled
    <3> HIDE DEF up
    <3>4. Walked(Spelled(up), <<>>) = up /\ Walked(Spelled(level), <<>>) = level
      BY <1>5, <3>2, SpelledIs
    <3>5. up = level
      BY <1>8, <3>3, <3>4
    <3>6. QED
      BY <1>1, <1>5, <3>2, <3>5
  <2>2. CASE k = 0
    BY <1>1, <1>3, <2>2
  <2>3. QED
    BY <1>1, <2>1, <2>2
<1>9. QED
  BY <1>4, <1>5, <1>7, <1>8 DEF level, k

Climbed(q, dirs) ==
    dirs \in Seq(Path) /\ dirs # <<>> /\ \A i \in 1 .. Len(dirs) : dirs[i] = Spelled(Level(q, i))

LEMMA ClimbsOn ==
    ASSUME setup \in Setups, NEW q \in Seq(Plain), NEW dirs, Climbed(q, dirs), NEW least \in Nat
    PROVE  LET more == Higher(dirs, least) IN
           /\ Climbed(q, more)
           /\ \/ more = dirs /\ Len(q) + 1 <= Len(dirs)
              \/ Len(more) = Len(dirs) + 1
<1> DEFINE l == Len(dirs)
           above == Dir(Last(dirs))
<1>1. dirs \in Seq(Path) /\ dirs # <<>> /\ l \in Nat \ {0} /\ Last(dirs) = dirs[l] /\ l \in 1 .. l
  <2>1. dirs \in Seq(Path) /\ dirs # <<>>
    BY DEF Climbed
  <2>2. Len(dirs) \in Nat \ {0} /\ Last(dirs) = dirs[Len(dirs)]
    BY <2>1, FrontOf
  <2>3. QED
    BY <2>1, <2>2
<1>2. Last(dirs) = Spelled(Level(q, l))
  BY <1>1 DEF Climbed
<1>3. above = Spelled(Level(q, l + 1)) /\ (above = Last(dirs) => Len(q) + 1 <= l)
  BY <1>1, <1>2, LevelIs
<1>4. above \in Path
  <2>1. l + 1 \in Nat \ {0}
    BY <1>1
  <2>2. Level(q, l + 1) \in Seq(Plain)
    BY <2>1, LevelIs
  <2>3. QED
    BY <1>3, <2>2, SpelledIs DEF Given
<1>5. Higher(dirs, least) = IF l >= least /\ above = Last(dirs) THEN dirs ELSE Append(dirs, above)
  BY DEF Higher
<1> HIDE DEF above
<1>6. CASE l >= least /\ above = Last(dirs)
  BY <1>3, <1>5, <1>6
<1>7. CASE ~(l >= least /\ above = Last(dirs))
  <2> DEFINE more == Append(dirs, above)
  <2>1. /\ more \in Seq(Path) /\ Len(more) = l + 1 /\ more[l + 1] = above /\ more # <<>>
        /\ \A i \in 1 .. l : more[i] = dirs[i]
    BY <1>1, <1>4, AppendTo
  <2> HIDE DEF more
  <2>2. \A i \in 1 .. l + 1 : i \in 1 .. l \/ i = l + 1
    BY <1>1
  <2>3. \A i \in 1 .. l + 1 : more[i] = Spelled(Level(q, i))
    BY <1>3, <2>1, <2>2 DEF Climbed
  <2>4. Climbed(q, more)
    BY <2>1, <2>3 DEF Climbed
  <2>5. QED
    BY <1>5, <1>7, <2>1, <2>4 DEF more
<1>8. QED
  BY <1>6, <1>7

LEMMA LevelsAre ==
    ASSUME setup \in Setups, NEW q \in Seq(Plain), NEW least \in Nat, NEW most \in Nat \ {0}
    PROVE  LET levels == Upward(Spelled(q), least, most) IN
           /\ Climbed(q, levels) /\ Len(levels) \in 1 .. most
           /\ Len(levels) = most \/ Len(q) + 1 <= Len(levels)
<1> DEFINE dir == Spelled(q)
           Good(n, dirs) == /\ Climbed(q, dirs) /\ Len(dirs) \in 1 .. n
                            /\ Len(dirs) = n \/ Len(q) + 1 <= Len(dirs)
<1>1. dir \in Path /\ Len(q) \in Nat
  BY SpelledIs, LenProperties DEF Given
<1>2. PICK up : Rises(up, dir, least, most)
  <2> HIDE DEF dir
  <2>1. QED
    BY <1>1, UpwardSteps
<1> DEFINE T == {n \in Nat : n \in 1 .. most => Good(n, up[n])}
<1>3. 0 \in T
  OBVIOUS
<1>4. ASSUME NEW n \in T PROVE n + 1 \in T
  <2>1. n \in Nat /\ (n \in 1 .. most => Good(n, up[n]))
    OBVIOUS
  <2> HIDE DEF T
  <2>2. CASE n = 0
    <3> DEFINE one == <<dir>>
    <3>1. one \in Seq(Path) /\ one # <<>> /\ Len(one) = 1 /\ one[1] = dir
      BY <1>1
    <3>2. dir = Spelled(Level(q, 1))
      BY LevelIs
    <3> HIDE DEF one, dir
    <3>3. Climbed(q, one)
      BY <3>1, <3>2 DEF Climbed
    <3>4. Good(1, one)
      BY <3>1, <3>3
    <3>5. up[1] = one
      BY <1>2 DEF one, Rises
    <3>6. Good(1, up[1])
      BY <3>4, <3>5, Zenon
    <3> HIDE DEF Good
    <3>7. 1 \in T
      BY <3>6 DEF T
    <3>8. QED
      BY <2>2, <3>7
  <2>3. ASSUME n # 0, n + 1 \in 1 .. most PROVE Good(n + 1, up[n + 1])
    <3> DEFINE m == n + 1
    <3>1. m \in 1 + 1 .. most /\ m - 1 = n /\ n \in 1 .. most /\ m \in Nat
      BY <2>1, <2>3
    <3> HIDE DEF m
    <3>2. up[m] = Higher(up[m - 1], least)
      BY <1>2, <3>1, Zenon DEF Rises
    <3>3. up[m] = Higher(up[n], least)
      BY <3>1, <3>2
    <3> DEFINE dirs == up[n]
               more == up[m]
    <3>4. Good(n, dirs) /\ more = Higher(dirs, least)
      BY <2>1, <3>1, <3>3
    <3> HIDE DEF dirs, more
    <3>5. Climbed(q, more) /\ ((more = dirs /\ Len(q) + 1 <= Len(dirs)) \/ Len(more) = Len(dirs) + 1)
      BY <3>4, ClimbsOn
    <3>6. Len(dirs) \in 1 .. n /\ (Len(dirs) = n \/ Len(q) + 1 <= Len(dirs))
      BY <3>4
    <3>7. Len(more) \in 1 .. m /\ (Len(more) = m \/ Len(q) + 1 <= Len(more))
      BY <1>1, <2>1, <3>5, <3>6 DEF m
    <3>8. Good(m, more)
      BY <3>5, <3>7
    <3>9. QED
      BY <3>8 DEF m, more
  <2> HIDE DEF Good
  <2>4. QED
    BY <2>1, <2>2, <2>3 DEF T
<1>5. T \in SUBSET Nat
  OBVIOUS
<1> HIDE DEF T
<1>6. T = Nat
  BY <1>3, <1>4, <1>5, NatSetInduction
<1>7. most \in T /\ most \in 1 .. most
  BY <1>6
<1>8. Good(most, up[most])
  <2> HIDE DEF Good
  <2>1. QED
    BY <1>7 DEF T
<1>9. QED
  BY <1>2, <1>8 DEF Rises

\* A reference in the node_modules of a folder.
InModules(folder, reference) == folder \o <<NODE_MODULES>> \o reference

LEMMA InModulesIs ==
    ASSUME NEW folder \in Given, NEW reference \in Path
    PROVE  /\ InModules(folder, reference) \in Given /\ folder \o <<NODE_MODULES>> \in Given
           /\ IsAbsolute(folder) => IsAbsolute(InModules(folder, reference))
<1> DEFINE modules == <<NODE_MODULES>>
           all == InModules(folder, reference)
<1>1. /\ modules \in Seq(Segment) /\ modules # <<>> /\ reference \in Seq(Segment) /\ reference # <<>>
      /\ folder \in Seq(Segment) /\ folder # <<>>
  BY SpecialSegments DEF Path, Given
<1> HIDE DEF modules
<1>2. folder \o modules \in Given
  BY <1>1, JoinedIsGiven
<1>3. folder \o modules \in Seq(Segment) /\ folder \o modules # <<>>
  BY <1>2 DEF Given, Path
<1>4. (folder \o modules) \o reference \in Given
  BY <1>1, <1>3, JoinedIsGiven
<1>5. all = (folder \o modules) \o reference
  BY DEF InModules, modules
<1>6. ASSUME IsAbsolute(folder) PROVE IsAbsolute(all)
  <2>1. modules \o reference \in Seq(Segment)
    BY <1>1, ConcatProperties
  <2>2. all = folder \o (modules \o reference)
    BY <1>1, <1>5, SegmentsJoin, Zenon
  <2> DEFINE rest == modules \o reference
  <2> HIDE DEF rest, all
  <2>3. /\ Len(all) = Len(folder) + Len(rest) /\ Len(folder) \in Nat /\ Len(rest) \in Nat
        /\ \A i \in 1 .. Len(folder) : all[i] = folder[i]
    BY <1>1, <2>1, <2>2, ConcatProperties, LenProperties DEF rest
  <2>4. Len(folder) > 1 /\ folder[1] = Nil
    BY <1>6 DEF IsAbsolute
  <2>5. Len(all) > 1 /\ all[1] = Nil
    BY <2>3, <2>4
  <2>6. QED
    BY <2>5 DEF IsAbsolute
<1>7. QED
  BY <1>2, <1>4, <1>5, <1>6 DEF modules, all

LEMMA ChasedIs ==
    ASSUME setup \in Setups, NEW q \in Seq(Plain), NEW reference \in Path
    PROVE  Canonical(Join(Push(Spelled(q), <<NODE_MODULES>>), reference)) =
               IF Native /\ IsAbsolute(reference) THEN Canonical(reference)
               ELSE Canonical(InModules(Spelled(q), reference))
<1> DEFINE folder == Spelled(q)
           part == <<NODE_MODULES>>
           all == InModules(folder, reference)
<1>1. folder \in Given /\ (Native => IsAbsolute(folder))
  BY SpelledIs
<1> HIDE DEF folder
<1>2. all \in Given /\ folder \o part \in Given /\ (Native => IsAbsolute(all))
  BY <1>1, InModulesIs
<1>3. ~IsAbsolute(part)
  BY DEF IsAbsolute
<1> HIDE DEF part
<1>4. Push(folder, part) = folder \o part
  BY <1>1, <1>3 DEF Push, Given
<1>5. all = (folder \o part) \o reference
  BY DEF InModules, part
<1> HIDE DEF all
<1>6. CASE Native /\ IsAbsolute(reference)
  <2>1. Push(folder \o part, reference) = reference
    BY <1>6 DEF Push
  <2>2. Join(folder \o part, reference) = Lexical(reference)
    BY <1>6, <2>1 DEF Join, JoinPaths
  <2>3. Canonical(reference) = Lexical(reference)
    BY <1>6 DEF Canonical, Canon, Absolute
  <2>4. Canonical(Canonical(reference)) = Canonical(reference)
    BY CanonicalOnce
  <2>5. QED
    BY <1>4, <1>6, <2>2, <2>3, <2>4 DEF folder, part
<1>7. CASE ~(Native /\ IsAbsolute(reference))
  <2>1. Join(folder \o part, reference) = Canonical(all)
    <3>1. CASE Native
      <4>1. Push(folder \o part, reference) = all
        BY <1>2, <1>5, <1>7, <3>1 DEF Push, Given
      <4>2. Absolute(all) = all
        BY <1>2, <3>1 DEF Absolute
      <4>3. QED
        BY <3>1, <4>1, <4>2 DEF Join, JoinPaths, Canonical, Canon
    <3>2. CASE ~Native
      BY <1>5, <3>2 DEF Join, JoinPaths, Canonical, Canon
    <3>3. QED
      BY <3>1, <3>2
  <2>2. Canonical(Canonical(all)) = Canonical(all)
    BY <1>2, CanonicalOnce DEF Given
  <2>3. QED
    BY <1>4, <1>7, <2>1, <2>2 DEF folder, part, all
<1>8. QED
  BY <1>6, <1>7

LEMMA CutPath ==
    ASSUME NEW q \in Seq(Plain), NEW m \in 1 .. Len(q)
    PROVE  /\ SubSeq(q, 1, m) \in Seq(Plain) /\ SubSeq(q, 1, m) # <<>>
           /\ SubSeq(<<Nil>> \o q, 1, m + 1) = <<Nil>> \o SubSeq(q, 1, m)
           /\ Len(<<Nil>> \o q) = Len(q) + 1
<1> DEFINE s == SubSeq(q, 1, m)
           t == SubSeq(q, m + 1, Len(q))
           root == <<Nil>>
<1>1. Len(q) \in Nat /\ m \in 0 .. Len(q) /\ m > 0 /\ m \in Nat
  BY LenProperties
<1>2. s \in Seq(Plain) /\ s # <<>> /\ Len(s) = m
  BY <1>1, PrefixOf
<1>3. s \o t = q
  <2>1. 1 \in 1 .. Len(q) + 1 /\ m \in 1 - 1 .. Len(q) /\ Len(q) \in m .. Len(q)
    BY <1>1
  <2>2. SubSeq(q, 1, m) \o SubSeq(q, m + 1, Len(q)) = SubSeq(q, 1, Len(q))
    BY <2>1, ConcatAdjacentSubSeq
  <2>3. QED
    BY <2>2, SubSeqFull
<1>4. t \in Seq(Segment) /\ s \in Seq(Segment) /\ q \in Seq(Segment)
  <2>1. \A i \in m + 1 .. Len(q) : q[i] \in Plain
    BY <1>1, ElementOfSeq
  <2>2. q \in Seq(Segment) /\ s \in Seq(Segment)
    BY <1>2, PlainNames
  <2>3. m + 1 \in Nat /\ Len(q) \in Nat
    BY <1>1
  <2>4. t \in Seq(Segment)
    <3>1. m + 1 \in 1 .. Len(q) + 1 /\ Len(q) \in m + 1 - 1 .. Len(q)
      BY <1>1
    <3>2. QED
      BY <2>2, <3>1, SubSeqProperties
  <2>5. QED
    BY <2>2, <2>4
<1>5. root \in Seq(Segment) /\ Len(root) = 1
  BY SpecialSegments
<1> HIDE DEF s, t, root
<1>6. root \o q = (root \o s) \o t
  BY <1>3, <1>4, <1>5, SegmentsJoin, Zenon
<1>7. /\ root \o s \in Seq(Segment) /\ Len(root \o s) = 1 + Len(s) /\ Len(root \o q) = 1 + Len(q)
  <2>1. root \o s \in Seq(Segment) /\ Len(root \o s) = Len(root) + Len(s)
    BY <1>4, <1>5, ConcatProperties
  <2>2. Len(root \o q) = Len(root) + Len(q)
    BY <1>4, <1>5, ConcatProperties
  <2>3. QED
    BY <1>5, <2>1, <2>2
<1>8. SubSeq((root \o s) \o t, 1, Len(root \o s)) = root \o s
  <2> DEFINE u == root \o s
  <2>1. u \in Seq(Segment)
    BY <1>7
  <2> HIDE DEF u
  <2>2. SubSeq(u \o t, 1, Len(u)) = u
    BY <1>4, <2>1, PartsOfConcat
  <2>3. QED
    BY <2>2 DEF u
<1>9. m + 1 = Len(root \o s) /\ Len(root \o q) = Len(q) + 1
  BY <1>1, <1>2, <1>7
<1>10. SubSeq(root \o q, 1, m + 1) = root \o s
  BY <1>6, <1>8, <1>9
<1>11. QED
  BY <1>2, <1>9, <1>10 DEF s, root

LEMMA AboveIs ==
    ASSUME setup \in Setups, NEW q \in Seq(Plain), NEW up \in 0 .. Len(q), NEW reference \in Path
    PROVE  /\ Place(Spelled(q)) = q
           /\ Canonical(InModules(Above(Spelled(q), up), reference)) =
                 Canonical(InModules(Spelled(Level(q, up + 1)), reference))
<1> DEFINE base == Spelled(q)
           level == Level(q, up + 1)
<1>1. Len(q) \in Nat /\ up \in Nat /\ up + 1 \in Nat \ {0}
  BY LenProperties
<1>2. /\ base \in Given /\ (Native => IsAbsolute(base)) /\ Walked(base, <<>>) = q
      /\ q # <<>> => base = IF Native THEN <<Nil>> \o q ELSE q
  BY SpelledIs
<1>3. level \in Seq(Plain) /\ Len(level) = IF up + 1 <= Len(q) THEN Len(q) + 1 - (up + 1) ELSE 0
  BY <1>1, LevelIs
<1> HIDE DEF base
<1>4. Place(base) = q
  BY <1>2 DEF Place, Absolute
<1>5. Above(base, up) = IF up = Len(q) THEN RootPath ELSE SubSeq(base, 1, Len(base) - up)
  BY <1>4 DEF Above
<1> HIDE DEF level
<1>6. CASE up = Len(q)
  <2>1. Len(level) = 0
    BY <1>1, <1>3, <1>6
  <2>2. level = <<>>
    BY <1>3, <2>1, EmptySeq
  <2>3. CASE Native
    <3>1. Spelled(level) = RootPath /\ Above(base, up) = RootPath
      BY <1>5, <1>6, <2>2, <2>3 DEF Spelled
    <3>2. QED
      BY <1>4, <3>1 DEF base, level
  <2>4. CASE ~Native
    <3> DEFINE dot == <<Dot>>
               rest == <<NODE_MODULES>> \o reference
    <3>1. Spelled(level) = dot /\ Above(base, up) = RootPath /\ Topmost = <<>>
      BY <1>5, <1>6, <2>2, <2>4 DEF Spelled, Topmost
    <3>2. dot \in Given /\ RootPath \in Given
      BY SingleSegments
    <3>3. <<NODE_MODULES>> \in Seq(Segment) /\ reference \in Seq(Segment)
      BY SpecialSegments DEF Path
    <3>4. rest \in Seq(Segment) /\ dot \in Seq(Segment) /\ RootPath \in Seq(Segment)
      BY <3>2, <3>3, ConcatProperties DEF Given, Path
    <3>5. \A f \in Seq(Segment) : InModules(f, reference) = f \o rest
      <4> SUFFICES ASSUME NEW f \in Seq(Segment) PROVE InModules(f, reference) = f \o rest
        OBVIOUS
      <4> DEFINE modules == <<NODE_MODULES>>
      <4>1. modules \in Seq(Segment)
        BY <3>3
      <4> HIDE DEF modules
      <4>2. f \o (modules \o reference) = (f \o modules) \o reference
        BY <3>3, <4>1, SegmentsJoin, Zenon
      <4>3. QED
        BY <4>2 DEF InModules, modules
    <3> HIDE DEF rest
    <3>6. Walked(dot, <<>>) = <<>> /\ Walked(RootPath, <<>>) = <<>>
      <4> DEFINE none == <<>>
                 one == <<Nil>>
      <4>1. none \in Seq(Segment) /\ one \in Seq(Segment) /\ none \in {<<>>, Topmost} /\ Walked(none, <<>>) = none
        <5>1. none \in Seq(Segment) /\ one \in Seq(Segment)
          BY SpecialSegments
        <5>2. Walked(none, <<>>) = none
          BY <5>1, TopmostIsPlace, SpecialSegments, WalkedOn
        <5>3. QED
          BY <5>1, <5>2
      <4>2. dot = Append(none, Dot) /\ one = Append(none, Nil) /\ RootPath = Append(one, Nil)
        BY DEF RootPath
      <4>3. Walked(Append(none, Dot), <<>>) = Walked(none, <<>>) /\ Walked(Append(none, Nil), <<>>) = Walked(none, <<>>)
        BY <4>1, OneMore, Zenon
      <4>4. Walked(Append(one, Nil), <<>>) = Walked(one, <<>>)
        BY <4>1, OneMore, Zenon
      <4>5. QED
        BY <4>1, <4>2, <4>3, <4>4
    <3> HIDE DEF dot
    <3>7. Walked(dot \o rest, <<>>) = Walked(RootPath \o rest, <<>>)
      BY <3>1, <3>4, <3>6, WalkedFrom
    <3>8. Canonical(dot \o rest) = Canonical(RootPath \o rest)
      BY <2>4, <3>7 DEF Canonical, Canon, Clean
    <3>9. QED
      BY <1>4, <3>1, <3>4, <3>5, <3>8 DEF base, level
  <2>5. QED
    BY <1>4, <2>3, <2>4 DEF base, level
<1>7. CASE up # Len(q)
  <2> DEFINE m == Len(q) - up
  <2>1. m \in 1 .. Len(q) /\ Len(q) + 1 - (up + 1) = m /\ up + 1 <= Len(q) /\ m + 1 = Len(q) + 1 - up
    BY <1>1, <1>7
  <2>2. level = SubSeq(q, 1, m)
    BY <2>1 DEF Level, level
  <2>3. /\ SubSeq(q, 1, m) \in Seq(Plain) /\ SubSeq(q, 1, m) # <<>>
        /\ SubSeq(<<Nil>> \o q, 1, m + 1) = <<Nil>> \o SubSeq(q, 1, m)
        /\ Len(<<Nil>> \o q) = Len(q) + 1
    BY <2>1, CutPath
  <2>4. Spelled(level) = IF Native THEN <<Nil>> \o level ELSE level
    BY <2>2, <2>3 DEF Spelled
  <2>5. q # <<>>
    BY <1>1, <1>7, EmptySeq
  <2>6. base = IF Native THEN <<Nil>> \o q ELSE q
    BY <1>2, <2>5
  <2>7. Above(base, up) = SubSeq(base, 1, Len(base) - up)
    BY <1>5, <1>7
  <2>8. Above(base, up) = Spelled(level)
    <3>1. CASE Native
      <4>1. Len(base) - up = m + 1
        BY <1>1, <2>1, <2>3, <2>6, <3>1
      <4>2. QED
        BY <2>2, <2>3, <2>4, <2>6, <2>7, <3>1, <4>1
    <3>2. CASE ~Native
      BY <2>2, <2>4, <2>6, <2>7, <3>2
    <3>3. QED
      BY <3>1, <3>2
  <2>9. QED
    BY <1>4, <2>8 DEF base, level
<1>8. QED
  BY <1>6, <1>7

Chased(q, i, reference) == Canonical(InModules(Spelled(Level(q, i)), reference))

LEMMA ChaseIs ==
    ASSUME setup \in Setups, NEW q \in Seq(Plain), NEW reference \in Path
    PROVE  LET chase == Chase(Spelled(q), reference) IN
           /\ chase \in PathList /\ Len(chase) \in 1 .. 7
           /\ Len(chase) = 7 \/ Len(q) + 1 <= Len(chase)
           /\ \A i \in 1 .. Len(chase) :
                 chase[i] = IF Native /\ IsAbsolute(reference) THEN Canonical(reference)
                            ELSE Chased(q, i, reference)
<1> DEFINE base == Spelled(q)
           chase == Chase(base, reference)
           least == 2
           most == NODE_MODULES_LEVELS
           levels == Upward(base, least, most)
           Entry(i) == Canonical(Join(Push(levels[i], <<NODE_MODULES>>), reference))
<1>1. base \in Path
  BY SpelledIs DEF Given
<1>2. chase = [i \in DOMAIN levels |-> Entry(i)]
  BY DEF Chase
<1>3. most \in Nat \ {0} /\ least \in Nat /\ most = 7
  BY DEF NODE_MODULES_LEVELS
<1> HIDE DEF least, most
<1>4. /\ Climbed(q, levels) /\ Len(levels) \in 1 .. most
      /\ Len(levels) = most \/ Len(q) + 1 <= Len(levels)
  BY <1>3, LevelsAre
<1>5. chase \in PathList
  BY <1>1, ChaseIsPaths
<1> HIDE DEF levels, base
<1>6. DOMAIN levels = 1 .. Len(levels) /\ \A i \in 1 .. Len(levels) : levels[i] = Spelled(Level(q, i))
  BY <1>4, LenProperties DEF Climbed
<1>7. ASSUME NEW i \in 1 .. Len(levels)
      PROVE  Entry(i) = IF Native /\ IsAbsolute(reference) THEN Canonical(reference)
                        ELSE Chased(q, i, reference)
  <2>1. i \in Nat \ {0}
    BY <1>4
  <2>2. Level(q, i) \in Seq(Plain)
    BY <2>1, LevelIs
  <2>3. Canonical(Join(Push(Spelled(Level(q, i)), <<NODE_MODULES>>), reference)) =
           IF Native /\ IsAbsolute(reference) THEN Canonical(reference) ELSE Chased(q, i, reference)
    BY <2>2, ChasedIs DEF Chased
  <2>4. QED
    BY <1>6, <2>3
<1> HIDE DEF Entry
<1>8. DOMAIN chase = 1 .. Len(levels) /\ \A i \in 1 .. Len(levels) : chase[i] = Entry(i)
  BY <1>2, <1>6
<1> HIDE DEF chase
<1>9. Len(chase) = Len(levels)
  BY <1>4, <1>5, <1>8, LenProperties DEF PathList
<1>10. QED
  BY <1>3, <1>4, <1>5, <1>7, <1>8, <1>9 DEF chase, base

ClimbForms(q, reference) ==
    {Form(Canonical(InModules(Above(Spelled(q), up), reference)), {}, 1 + up) :
        up \in 0 .. (IF Len(q) < 7 THEN Len(q) ELSE 6)}

LEMMA ClimbOrdered ==
    ASSUME setup \in Setups, NEW q \in Seq(Plain), NEW reference \in Path,
           ~(Native /\ IsAbsolute(reference))
    PROVE  Ordered(Chase(Spelled(q), reference), ClimbForms(q, reference), 1, 7)
<1> DEFINE chase == Chase(Spelled(q), reference)
           n == Len(chase)
           d == Len(q)
           most == IF d < 7 THEN d ELSE 6
           Up(i) == IF i <= d THEN i - 1 ELSE d
           r == [i \in 1 .. n |-> 1 + Up(i)]
           F == ClimbForms(q, reference)
           FormOf(up) == Form(Chased(q, up + 1, reference), {}, 1 + up)
<1>1. /\ n \in 1 .. 7 /\ (n = 7 \/ d + 1 <= n) /\ \A i \in 1 .. n : chase[i] = Chased(q, i, reference)
  BY ChaseIs
<1>2. d \in Nat
  BY LenProperties
<1>3. F = {FormOf(up) : up \in 0 .. most}
  <2>1. ASSUME NEW up \in 0 .. most
        PROVE  Form(Canonical(InModules(Above(Spelled(q), up), reference)), {}, 1 + up) = FormOf(up)
    <3>1. up \in 0 .. Len(q)
      BY <1>2
    <3>2. Canonical(InModules(Above(Spelled(q), up), reference)) = Chased(q, up + 1, reference)
      BY <3>1, AboveIs DEF Chased
    <3>3. QED
      BY <3>2
  <2>2. F = {Form(Canonical(InModules(Above(Spelled(q), up), reference)), {}, 1 + up) : up \in 0 .. most}
    BY DEF ClimbForms
  <2> HIDE DEF F, most, FormOf
  <2>3. QED
    BY <2>1, <2>2
<1>4. ASSUME NEW i \in 1 .. n PROVE chase[i] = Chased(q, Up(i) + 1, reference)
  <2>1. CASE i <= d
    <3>1. Up(i) + 1 = i
      BY <1>1, <1>2, <2>1
    <3>2. QED
      BY <1>1, <3>1
  <2>2. CASE ~(i <= d)
    <3>1. ~(d + 1 <= d) /\ Up(i) + 1 = d + 1
      BY <1>2, <2>2
    <3>2. Level(q, i) = SubSeq(q, 1, 0) /\ Level(q, d + 1) = SubSeq(q, 1, 0)
      BY <2>2, <3>1 DEF Level
    <3>3. QED
      BY <1>1, <3>1, <3>2 DEF Chased
  <2>3. QED
    BY <2>1, <2>2
<1> HIDE DEF n, d
<1>5. ASSUME NEW i \in 1 .. n PROVE Up(i) \in 0 .. most /\ Up(i) \in 0 .. 6 /\ 1 + Up(i) \in 1 .. 7
  <2>1. n \in 1 .. 7 /\ i \in 1 .. 7 /\ i \in Nat
    BY <1>1
  <2>2. CASE i <= d
    <3>1. Up(i) = i - 1 /\ i - 1 \in 0 .. 6 /\ i - 1 <= most
      BY <1>2, <2>1, <2>2
    <3>2. QED
      BY <1>2, <2>1, <3>1
  <2>3. CASE ~(i <= d)
    <3>1. Up(i) = d /\ d \in 0 .. 6 /\ most = d
      BY <1>2, <2>1, <2>3
    <3>2. QED
      BY <1>2, <3>1
  <2>4. QED
    BY <2>2, <2>3
<1>6. ASSUME NEW i \in 1 .. n, NEW j \in 1 .. n, i <= j PROVE Up(i) <= Up(j)
  <2>1. i \in Nat /\ j \in Nat
    BY <1>1
  <2>2. QED
    BY <1>2, <1>6, <2>1
<1>7. ASSUME NEW up \in 0 .. most PROVE up + 1 \in 1 .. n /\ Up(up + 1) = up
  <2>1. n \in Nat /\ (n = 7 \/ d + 1 <= n) /\ up \in Nat /\ up <= d /\ up <= 6
    BY <1>1, <1>2
  <2>2. up + 1 \in 1 .. n
    BY <1>2, <2>1
  <2>3. up + 1 <= d \/ (~(up + 1 <= d) /\ up = d)
    BY <1>2, <2>1
  <2>4. up + 1 - 1 = up
    BY <2>1
  <2>5. QED
    BY <2>2, <2>3, <2>4
<1> HIDE DEF most, Up
<1>8. r \in [1 .. n -> 1 .. 7]
  BY <1>5
<1>9. ASSUME NEW i \in 1 .. n PROVE r[i] = 1 + Up(i)
  OBVIOUS
<1> HIDE DEF r
<1>10. \A i, j \in 1 .. n : i <= j => r[i] <= r[j]
  <2> SUFFICES ASSUME NEW i \in 1 .. n, NEW j \in 1 .. n, i <= j PROVE r[i] <= r[j]
    OBVIOUS
  <2>1. Up(i) <= Up(j) /\ Up(i) \in 0 .. 6 /\ Up(j) \in 0 .. 6
    BY <1>5, <1>6
  <2>2. r[i] = 1 + Up(i) /\ r[j] = 1 + Up(j)
    BY <1>9
  <2>3. 1 + Up(i) <= 1 + Up(j)
    BY <2>1
  <2>4. QED
    BY <2>2, <2>3, Zenon
<1> HIDE DEF F, chase
<1>11. ASSUME NEW i \in 1 .. n PROVE \E hit \in F : hit.path = chase[i] /\ hit.rank <= r[i]
  <2>1. FormOf(Up(i)) \in F
    BY <1>3, <1>5
  <2>2. FormOf(Up(i)).path = chase[i] /\ FormOf(Up(i)).rank = 1 + Up(i)
    BY <1>4 DEF Form
  <2>3. r[i] = 1 + Up(i) /\ 1 + Up(i) <= 1 + Up(i)
    BY <1>5, <1>9
  <2> HIDE DEF FormOf
  <2>4. QED
    BY <2>1, <2>2, <2>3
<1>12. ASSUME NEW form \in F PROVE \E i \in 1 .. n : chase[i] = form.path /\ r[i] <= form.rank
  <2>1. PICK up \in 0 .. most : form = FormOf(up)
    BY <1>3
  <2> DEFINE i == up + 1
  <2>2. i \in 1 .. n /\ Up(i) = up
    BY <1>7
  <2>3. form.path = Chased(q, i, reference) /\ form.rank = 1 + up
    BY <2>1 DEF Form
  <2>4. up \in Nat
    BY <1>5, <2>2
  <2> HIDE DEF i
  <2>5. chase[i] = Chased(q, Up(i) + 1, reference) /\ r[i] = 1 + Up(i)
    BY <1>4, <1>9, <2>2
  <2>6. chase[i] = form.path /\ r[i] <= form.rank
    BY <2>2, <2>3, <2>4, <2>5 DEF i
  <2>7. QED
    BY <2>2, <2>6
<1>13. RanksBy(chase, F, r)
  BY <1>10, <1>11, <1>12 DEF RanksBy, n
<1>14. QED
  BY <1>8, <1>13 DEF Ordered, n, chase, F

(***************************************************************************)
(* The candidates of a FileResolver.                                       *)
(***************************************************************************)
LEMMA LeftOpen ==
    ASSUME setup \in Setups, NEW full \in Given
    PROVE  (IF ExtKind(full) = NONE THEN Tail(BuildPotentials(full, ImplicitExt)) ELSE <<>>) = Open(full)
<1> DEFINE one == <<full>>
           open == Open(full)
           all == one \o open
           l == Len(Last(full))
<1>1. BuildPotentials(full, ImplicitExt) = all /\ open \in PathList
  BY PotentialsAre
<1>2. l \in Nat \ {0}
  <2>1. Last(full) \in Segment
    BY FrontOf DEF Given, Path
  <2>2. Last(full) \in Seq(Parts) /\ Last(full) # <<>>
    BY <2>1 DEF Segment
  <2>3. QED
    BY <2>2, EmptySeq, LenProperties
<1>3. Tail(all) = open
  <2>1. one \in PathList /\ Len(one) = 1 /\ one # <<>>
    BY DEF PathList
  <2> HIDE DEF open, one
  <2>2. /\ all \in PathList /\ Len(all) = Len(one) + Len(open) /\ Len(open) \in Nat
        /\ \A i \in 1 .. Len(one) + Len(open) : all[i] = IF i <= Len(one) THEN one[i] ELSE open[i - Len(one)]
    BY <1>1, <2>1, ConcatProperties, LenProperties DEF PathList
  <2> HIDE DEF all
  <2>3. all # <<>>
    BY <2>1, <2>2, EmptySeq
  <2>4. /\ Tail(all) \in PathList /\ Len(Tail(all)) = Len(all) - 1
        /\ \A i \in 1 .. Len(Tail(all)) : Tail(all)[i] = all[i + 1]
    BY <2>2, <2>3, HeadTailProperties DEF PathList
  <2> DEFINE tail == Tail(all)
  <2> HIDE DEF tail
  <2>5. Len(tail) = Len(open)
    BY <2>1, <2>2, <2>4 DEF tail
  <2>6. ASSUME NEW i \in 1 .. Len(tail) PROVE tail[i] = open[i]
    <3>1. i + 1 \in 1 .. Len(one) + Len(open) /\ ~(i + 1 <= Len(one)) /\ i + 1 - Len(one) = i
      BY <2>1, <2>2, <2>5
    <3>2. all[i + 1] = open[i + 1 - Len(one)]
      BY <2>2, <3>1
    <3>3. tail[i] = all[i + 1]
      BY <2>4 DEF tail
    <3>4. QED
      BY <3>1, <3>2, <3>3
  <2>7. tail = open
    BY <1>1, <2>4, <2>5, <2>6, SeqEqual DEF PathList, tail
  <2>8. QED
    BY <2>7 DEF tail
<1>4. CASE l = 1
  BY <1>1, <1>3, <1>4 DEF ExtKind
<1>5. CASE l # 1
  <2>1. open = <<>>
    <3>1. l > 1
      <4> HIDE DEF l
      <4>1. QED
        BY <1>2, <1>5
    <3>2. QED
      BY <3>1, Zenon DEF Open, Dotted
  <2>2. QED
    BY <1>1, <1>3, <2>1
<1>6. QED
  BY <1>4, <1>5

LEMMA FilesAre ==
    ASSUME setup \in Setups, NEW base \in Path, NEW reference \in Path, reference # EmptyPath
    PROVE  LET full == Canonical(FullOf(reference, base)) IN
           /\ full \in Given
           /\ FileCandidates(base, reference) = (<<full>> \o Chase(base, reference)) \o Open(full)
<1> DEFINE full == Canonical(FullOf(reference, base))
<1>1. full \in Given
  BY FullIsGiven, CanonicalIsGiven DEF Given
<1>2. FileCandidates(base, reference) =
         (<<full>> \o Chase(base, reference))
             \o (IF ExtKind(full) = NONE THEN Tail(BuildPotentials(full, ImplicitExt)) ELSE <<>>)
  BY DEF FileCandidates
<1> HIDE DEF full
<1>3. QED
  BY <1>1, <1>2, LeftOpen DEF full

LEMMA ClimbFormsAre ==
    ASSUME setup \in Setups, NEW q \in Seq(Plain), NEW reference \in Path
    PROVE  ClimbForms(q, reference) \subseteq Forming
<1> SUFFICES ASSUME NEW form \in ClimbForms(q, reference) PROVE form \in Forming
  OBVIOUS
<1>1. Len(q) \in Nat
  BY LenProperties
<1> DEFINE most == IF Len(q) < 7 THEN Len(q) ELSE 6
           Path_(up) == Canonical(InModules(Above(Spelled(q), up), reference))
<1>2. \A up \in 0 .. most : up \in 0 .. Len(q) /\ up + 1 \in Nat \ {0} /\ 1 + up \in Nat
  BY <1>1
<1>3. PICK up \in 0 .. most : form = Form(Path_(up), {}, 1 + up)
  BY DEF ClimbForms
<1> HIDE DEF most
<1>4. Level(q, up + 1) \in Seq(Plain)
  BY <1>2, LevelIs
<1>5. Spelled(Level(q, up + 1)) \in Given
  BY <1>4, SpelledIs
<1>6. InModules(Spelled(Level(q, up + 1)), reference) \in Path
  BY <1>5, InModulesIs DEF Given
<1>7. Path_(up) \in Path
  BY <1>2, <1>6, AboveIs, CanonicalIsGiven DEF Given
<1> HIDE DEF Path_
<1>8. QED
  BY <1>2, <1>3, <1>7 DEF Form, Forming


\* Without a base there are two folders, and one of them is node_modules of the other.
LEMMA BareLevels ==
    ASSUME setup \in Setups
    PROVE  Upward(EmptyPath, 2, 7) = <<EmptyPath, Dir(EmptyPath)>>
           /\ Dir(EmptyPath) = IF Native THEN EmptyPath ELSE <<Dot>>
<1> DEFINE below == EmptyPath
           top == Dir(EmptyPath)
           least == 2
           most == 7
           pair == <<below, top>>
<1> DEFINE none == <<>>
<1>1. none \in Seq(Plain) /\ none \in Seq(Segment) /\ none \in {<<>>, Topmost} /\ Walked(none, <<>>) = none
  <2>1. none \in Seq(Plain) /\ none \in Seq(Segment)
    BY TopmostIsPlace, NamesAreSegments
  <2>2. Walked(none, <<>>) = none
    BY <2>1, TopmostIsPlace, SpecialSegments, WalkedOn
  <2>3. QED
    BY <2>1, <2>2
<1>2. top = IF Native THEN EmptyPath ELSE <<Dot>>
  <2>1. CASE Native
    <3>1. <<Nil>> \o none = EmptyPath
      BY SpecialSegments, ConcatEmptySeq DEF EmptyPath
    <3>2. Components(EmptyPath) = none
      BY <1>1, <3>1, ComponentsOf
    <3>3. QED
      BY <2>1, <3>2 DEF Dir, DirOf, OsDir
  <2>2. CASE ~Native
    <3>1. EmptyPath = Append(none, Nil)
      BY DEF EmptyPath
    <3>2. Walked(Append(none, Nil), <<>>) = Walked(none, <<>>)
      BY <1>1, OneMore, Zenon
    <3>3. Clean(EmptyPath) = <<Dot>>
      BY <1>1, <3>1, <3>2 DEF Clean
    <3>4. Len(<<Dot>>) = 1
      OBVIOUS
    <3>5. MapDir(EmptyPath) = <<Dot>>
      BY <3>3, <3>4 DEF MapDir
    <3>6. QED
      BY <2>2, <3>5 DEF Dir, DirOf
  <2>3. QED
    BY <2>1, <2>2
<1>3. Dir(top) = top
  <2>1. CASE Native
    BY <1>2, <2>1
  <2>2. CASE ~Native
    <3>1. top = Spelled(none)
      BY <1>2, <2>2 DEF Spelled
    <3>2. Dir(Spelled(none)) = Spelled(none)
      BY <1>1, DirOfSpelled
    <3>3. QED
      BY <3>1, <3>2
  <2>3. QED
    BY <2>1, <2>2
<1>4. below \in Path /\ top \in Path /\ least \in Nat /\ most \in Nat \ {0}
  BY SingleSegments, DirIsPath
<1>5. PICK up : Rises(up, below, least, most)
  <2> HIDE DEF below, least, most
  <2>1. QED
    BY <1>4, UpwardSteps
<1> DEFINE one == <<below>>
<1>6. Len(one) = 1 /\ Last(one) = below /\ Append(one, top) = pair /\ Len(pair) = 2 /\ Last(pair) = top
  <2> HIDE DEF below, top
  <2>1. Len(one) = 1 /\ one[1] = below /\ Len(pair) = 2 /\ pair[2] = top
    OBVIOUS
  <2>2. Append(one, top) = pair
    <3>1. one \in Seq(Path) /\ pair \in Seq(Path)
      BY <1>4
    <3> HIDE DEF one, pair
    <3>2. /\ Append(one, top) \in Seq(Path) /\ Len(Append(one, top)) = Len(one) + 1
          /\ Append(one, top)[Len(one) + 1] = top /\ \A i \in 1 .. Len(one) : Append(one, top)[i] = one[i]
      BY <1>4, <3>1, AppendTo
    <3> DEFINE more == Append(one, top)
    <3> HIDE DEF more
    <3>3. more \in Seq(Path) /\ Len(more) = 2 /\ more[2] = top /\ more[1] = below
      BY <2>1, <3>2 DEF more
    <3>4. \A i \in 1 .. 2 : pair[i] = more[i]
      <4>1. \A i \in 1 .. 2 : i = 1 \/ i = 2
        OBVIOUS
      <4>2. pair[1] = below
        BY DEF pair
      <4>3. QED
        BY <2>1, <3>3, <4>1, <4>2
    <3>5. more = pair
      BY <2>1, <3>1, <3>3, <3>4, SeqEqual
    <3>6. QED
      BY <3>5 DEF more
  <2> HIDE DEF one, pair
  <2>3. Last(one) = below /\ Last(pair) = top
    BY <2>1 DEF Last
  <2>4. QED
    BY <2>1, <2>2, <2>3
<1>7. Higher(one, least) = pair
  <2>1. Higher(one, least) = IF Len(one) >= least /\ Dir(Last(one)) = Last(one) THEN one ELSE Append(one, Dir(Last(one)))
    BY DEF Higher
  <2>2. Dir(Last(one)) = top /\ ~(Len(one) >= least)
    BY <1>6
  <2> HIDE DEF one, pair, top, least
  <2>3. QED
    BY <1>6, <2>1, <2>2
<1>8. Higher(pair, least) = pair
  <2>1. Len(pair) >= least /\ Dir(Last(pair)) = Last(pair)
    BY <1>3, <1>6
  <2> HIDE DEF pair, least
  <2>2. QED
    BY <2>1 DEF Higher
<1>9. up[1] = one /\ \A n \in 1 + 1 .. most : up[n] = Higher(up[n - 1], least)
  BY <1>5 DEF Rises
<1> HIDE DEF pair, one, least
<1>10. up[2] = pair
  <2>1. 2 \in 1 + 1 .. most /\ 2 - 1 = 1
    OBVIOUS
  <2>2. up[2] = Higher(up[2 - 1], least)
    BY <1>9, <2>1, Zenon
  <2>3. QED
    BY <1>7, <1>9, <2>1, <2>2
<1>11. \A n \in 3 .. most : n \in 1 + 1 .. most
  OBVIOUS
<1>12. ASSUME NEW n \in 3 .. most, up[n - 1] = pair PROVE up[n] = pair
  <2>1. up[n] = Higher(up[n - 1], least)
    BY <1>9, <1>11, Zenon
  <2>2. QED
    BY <1>8, <1>12, <2>1
<1>13. up[most] = pair
  <2> DEFINE V == {pair}
             b == 2
  <2>1. most \in Nat /\ b \in Nat /\ b <= most /\ up[b] \in V
    BY <1>10
  <2>2. \A i \in b + 1 .. most : up[i - 1] \in V => up[i] \in V
    BY <1>12
  <2> HIDE DEF V, b, most
  <2>3. up[most] \in V
    BY <2>1, <2>2, RecursionStays
  <2>4. QED
    BY <2>3 DEF V
<1>14. QED
  BY <1>2, <1>5, <1>13 DEF Rises, pair, least

LEMMA BareChase ==
    ASSUME setup \in Setups, NEW reference \in Path
    PROVE  LET chase == Chase(EmptyPath, reference)
               only == Canonical(Join(<<NODE_MODULES>>, reference))
           IN  /\ chase \in PathList /\ Len(chase) = 2 /\ only \in Path
               /\ chase[1] = only /\ chase[2] = only
               /\ Native /\ IsAbsolute(reference) => only = Canonical(reference)
<1> DEFINE modules == <<NODE_MODULES>>
           top == Dir(EmptyPath)
           levels == Upward(EmptyPath, 2, 7)
           chase == Chase(EmptyPath, reference)
           only == Canonical(Join(modules, reference))
<1>1. modules \in Path /\ modules \in Seq(Segment) /\ reference \in Seq(Segment)
  BY SpecialSegments, SingleSegments DEF Path
<1>2. levels = <<EmptyPath, top>> /\ top = IF Native THEN EmptyPath ELSE <<Dot>>
  BY BareLevels
<1>3. chase = [i \in DOMAIN levels |-> Canonical(Join(Push(levels[i], modules), reference))]
  BY DEF Chase, NODE_MODULES_LEVELS
<1>4. ~IsAbsolute(modules)
  BY DEF IsAbsolute
<1> HIDE DEF levels, top, modules
<1>5. DOMAIN levels = 1 .. 2 /\ levels[1] = EmptyPath /\ levels[2] = top
  BY <1>2
<1>6. chase \in PathList
  BY SingleSegments, ChaseIsPaths
<1> DEFINE pushed == Push(top, modules)
<1>7. Push(EmptyPath, modules) = modules
  BY DEF Push
<1>8. chase[1] = only /\ chase[2] = Canonical(Join(pushed, reference)) /\ DOMAIN chase = 1 .. 2
  BY <1>3, <1>5, <1>7
<1> HIDE DEF chase, pushed
<1>9. Len(chase) = 2
  BY <1>6, <1>8, LenProperties DEF PathList
<1>10. only \in Path
  BY <1>1, JoinIsGiven, CanonicalIsGiven DEF Given
<1>11. Canonical(Join(pushed, reference)) = only
  <2>1. CASE Native
    BY <1>2, <1>7, <2>1 DEF pushed
  <2>2. CASE ~Native
    <3> DEFINE dot == <<Dot>>
               none == <<>>
               rest == modules \o reference
    <3>1. top = dot /\ dot # EmptyPath /\ dot \in Seq(Segment) /\ none \in Seq(Segment)
          /\ none \in {<<>>, Topmost} /\ dot = Append(none, Dot)
      BY <1>2, <2>2, SingleSegments, SpecialSegments DEF Given
    <3>2. Walked(Append(none, Dot), none) = Walked(none, none)
      BY <3>1, OneMore, Zenon
    <3>3. rest \in Seq(Segment)
      BY <1>1, ConcatProperties
    <3> HIDE DEF dot
    <3>4. pushed = dot \o modules
      BY <1>4, <3>1 DEF Push, pushed
    <3>5. (dot \o modules) \o reference = dot \o rest
      BY <1>1, <3>1, SegmentsJoin, Zenon
    <3>6. none \o rest = rest /\ Topmost = none
      BY <2>2, <3>3, ConcatEmptySeq DEF Topmost
    <3> HIDE DEF rest, none
    <3>7. Walked(dot \o rest, none) = Walked(none \o rest, none)
      BY <3>1, <3>2, <3>3, <3>6, WalkedFrom
    <3>8. Walked(dot \o rest, <<>>) = Walked(rest, <<>>)
      BY <3>6, <3>7 DEF none
    <3>9. Clean(dot \o rest) = Clean(rest)
      BY <3>8 DEF Clean
    <3>10. Join(pushed, reference) = Clean(dot \o rest) /\ Join(modules, reference) = Clean(rest)
      BY <2>2, <3>4, <3>5 DEF Join, JoinPaths, rest
    <3>11. QED
      BY <3>9, <3>10
  <2>3. QED
    BY <2>1, <2>2
<1>12. ASSUME Native, IsAbsolute(reference) PROVE only = Canonical(reference)
  <2>1. Join(modules, reference) = Lexical(reference) /\ Canonical(reference) = Lexical(reference)
    BY <1>12 DEF Join, JoinPaths, Push, Canonical, Canon, Absolute
  <2>2. Canonical(Canonical(reference)) = Canonical(reference)
    BY CanonicalOnce
  <2>3. QED
    BY <2>1, <2>2
<1>13. QED
  BY <1>6, <1>8, <1>9, <1>10, <1>11, <1>12 DEF chase, modules

\* A base there is none of, or one spelled as the filesystem spells it.
Based(base) == base = EmptyPath \/ base = Spelled(Place(base))

LEMMA ChaseOrdered ==
    ASSUME setup \in Setups, NEW base \in Path, Based(base), NEW reference \in Path
    PROVE  LET chase == Chase(base, reference)
               forms == ChaseForms(base, reference)
           IN  /\ chase \in PathList /\ forms \subseteq Forming
               /\ IF Native /\ IsAbsolute(reference)
                  THEN forms = {} /\ \A i \in 1 .. Len(chase) : chase[i] = Canonical(reference)
                  ELSE Ordered(chase, forms, 1, 7)
<1> DEFINE q == Place(base)
           depth == Len(q)
           absolute == Native /\ IsAbsolute(reference)
           chase == Chase(base, reference)
           forms == ChaseForms(base, reference)
           only == Canonical(Join(<<NODE_MODULES>>, reference))
           Climbs == {Form(Canonical(InModules(Above(base, up), reference)), {}, 1 + up) :
                         up \in 0 .. (IF depth < 7 THEN depth ELSE 6)}
<1>1. forms = IF absolute THEN {}
              ELSE IF base = EmptyPath THEN {Form(only, {}, 1)}
              ELSE Climbs
  BY DEF ChaseForms, InModules, Levels, NODE_MODULES_LEVELS
<1>2. chase \in PathList
  BY ChaseIsPaths
<1>3. CASE base = EmptyPath
  <2>1. /\ Len(chase) = 2 /\ only \in Path /\ chase[1] = only /\ chase[2] = only
        /\ absolute => only = Canonical(reference)
    BY <1>3, BareChase
  <2> HIDE DEF chase, only, forms, Climbs
  <2>2. \A i \in 1 .. Len(chase) : i = 1 \/ i = 2
    BY <2>1
  <2>3. \A i \in 1 .. Len(chase) : chase[i] = only
    BY <2>1, <2>2
  <2>4. CASE absolute
    <3>1. forms = {} /\ \A i \in 1 .. Len(chase) : chase[i] = Canonical(reference)
      BY <1>1, <2>1, <2>3, <2>4
    <3>2. QED
      BY <1>2, <2>4, <3>1 DEF forms, chase
  <2>5. CASE ~absolute
    <3> DEFINE form == Form(only, {}, 1)
    <3>1. form.path = only /\ form.rank = 1 /\ form \in Forming
      BY <2>1 DEF Form, Forming
    <3>2. forms = {form}
      BY <1>1, <1>3, <2>5
    <3>3. 1 \in 1 .. Len(chase)
      BY <2>1
    <3> HIDE DEF form
    <3>4. /\ \A i \in 1 .. Len(chase) : \E f \in forms : f.path = chase[i] /\ f.rank = 1
          /\ \A f \in forms : f.rank = 1 /\ \E i \in 1 .. Len(chase) : chase[i] = f.path
      BY <2>3, <3>1, <3>2, <3>3
    <3>5. Ordered(chase, forms, 1, 1)
      BY <1>2, <3>4, OrderedAlike
    <3>6. Ordered(chase, forms, 1, 7)
      BY <3>5, OrderedWithin
    <3>7. forms \subseteq Forming
      BY <3>1, <3>2
    <3>8. QED
      BY <1>2, <2>5, <3>6, <3>7 DEF forms, chase
  <2>6. QED
    BY <2>4, <2>5
<1>4. CASE base # EmptyPath
  <2>1. <<>> \in Seq(Plain) /\ base = Spelled(q)
    BY <1>4, TopmostIsPlace DEF Based
  <2>2. q \in Seq(Plain)
    BY <2>1, TaskPathIs
  <2>3. Climbs = ClimbForms(q, reference)
    <3>1. ClimbForms(q, reference) =
            {Form(Canonical(InModules(Above(Spelled(q), up), reference)), {}, 1 + up) :
                up \in 0 .. (IF depth < 7 THEN depth ELSE 6)}
      BY DEF ClimbForms
    <3> HIDE DEF depth
    <3>2. QED
      BY <2>1, <3>1
  <2> HIDE DEF forms, Climbs
  <2>4. CASE absolute
    <3>1. \A i \in 1 .. Len(Chase(Spelled(q), reference)) : Chase(Spelled(q), reference)[i] = Canonical(reference)
      BY <2>2, <2>4, ChaseIs
    <3>2. \A i \in 1 .. Len(chase) : chase[i] = Canonical(reference)
      BY <2>1, <3>1
    <3>3. forms = {}
      BY <1>1, <2>4
    <3>4. QED
      BY <1>2, <2>4, <3>2, <3>3 DEF forms
  <2>5. CASE ~absolute
    <3>1. forms = ClimbForms(q, reference)
      BY <1>1, <1>4, <2>3, <2>5
    <3>2. forms \subseteq Forming
      BY <2>2, <3>1, ClimbFormsAre
    <3>3. Ordered(Chase(Spelled(q), reference), ClimbForms(q, reference), 1, 7)
      BY <2>2, <2>5, ClimbOrdered
    <3>4. Ordered(chase, forms, 1, 7)
      BY <2>1, <3>1, <3>3
    <3> HIDE DEF chase, q
    <3>5. QED
      BY <1>2, <2>5, <3>2, <3>4 DEF forms, chase
  <2>6. QED
    BY <2>4, <2>5
<1>5. QED
  BY <1>3, <1>4

\* The path itself and the folders it is chased through.
LEMMA ChasedInOrder ==
    ASSUME setup \in Setups, NEW base \in Path, Based(base), NEW reference \in Path, reference # EmptyPath
    PROVE  LET full == Canonical(FullOf(reference, base))
               chase == Chase(base, reference)
           IN  /\ <<full>> \o chase \in PathList
               /\ Ordered(<<full>> \o chase, FormsOf({full}, 0) \cup ChaseForms(base, reference), 0, 7)
<1> DEFINE full == Canonical(FullOf(reference, base))
           chase == Chase(base, reference)
           one == <<full>>
           FA == FormsOf({full}, 0)
           head == one \o chase
           n == Len(chase)
           forms == ChaseForms(base, reference)
<1>1. full \in Given
  BY FilesAre
<1>2. /\ chase \in PathList /\ n \in Nat
      /\ Native /\ IsAbsolute(reference) => forms = {} /\ \A i \in 1 .. n : chase[i] = Canonical(reference)
  <2>1. /\ chase \in PathList
        /\ Native /\ IsAbsolute(reference) => forms = {} /\ \A i \in 1 .. n : chase[i] = Canonical(reference)
    BY ChaseOrdered
  <2> HIDE DEF chase
  <2>2. n \in Nat
    BY <2>1, LenProperties DEF PathList
  <2>3. QED
    BY <2>1, <2>2
<1>3. Native /\ IsAbsolute(reference) => full = Canonical(reference)
  BY DEF FullOf
<1>4. ~(Native /\ IsAbsolute(reference)) => Ordered(chase, forms, 1, 7)
  BY ChaseOrdered
<1> HIDE DEF full, chase, forms
<1>5. one \in PathList /\ ToSet(one) = {full} /\ Len(one) = 1 /\ one[1] = full
  BY <1>1 DEF PathList, ToSet
<1> HIDE DEF one
<1>6. head \in PathList
  BY <1>2, <1>5, ConcatProperties DEF PathList
<1>7. CASE Native /\ IsAbsolute(reference)
  <2>1. /\ Len(head) = Len(one) + Len(chase)
        /\ \A i \in 1 .. Len(one) + Len(chase) : head[i] = IF i <= Len(one) THEN one[i] ELSE chase[i - Len(one)]
    BY <1>2, <1>5, ConcatProperties DEF PathList
  <2> HIDE DEF head, n
  <2>2. Len(head) = n + 1
    BY <1>2, <1>5, <2>1 DEF n
  <2>3. ASSUME NEW i \in 1 .. Len(head) PROVE head[i] = full
    <3>1. CASE i = 1
      <4>1. i \in 1 .. Len(one) + Len(chase) /\ i <= Len(one)
        BY <1>5, <2>1, <3>1
      <4>2. QED
        BY <1>5, <2>1, <3>1, <4>1
    <3>2. CASE i # 1
      <4>1. i \in 1 .. Len(one) + Len(chase) /\ ~(i <= Len(one)) /\ i - Len(one) \in 1 .. n
        BY <1>2, <1>5, <2>1, <2>2, <3>2
      <4>2. head[i] = chase[i - Len(one)]
        BY <2>1, <4>1
      <4>3. chase[i - Len(one)] = full
        BY <1>2, <1>3, <1>7, <4>1
      <4>4. QED
        BY <4>2, <4>3
    <3>3. QED
      BY <3>1, <3>2
  <2>4. 1 \in 1 .. Len(head)
    BY <1>2, <2>2
  <2>5. /\ \A i \in 1 .. Len(head) : \E form \in FA : form.path = head[i] /\ form.rank = 0
        /\ \A form \in FA : form.rank = 0 /\ \E i \in 1 .. Len(head) : head[i] = form.path
    <3> DEFINE only == Form(full, {}, 0)
    <3>1. FA = {only}
      BY DEF FormsOf
    <3>2. only.path = full /\ only.rank = 0
      BY DEF Form
    <3> HIDE DEF FA, only
    <3>3. QED
      BY <2>3, <2>4, <3>1, <3>2
  <2> HIDE DEF FA
  <2>6. Ordered(head, FA, 0, 0)
    BY <1>6, <2>5, OrderedAlike
  <2>7. Ordered(head, FA, 0, 7)
    BY <2>6, OrderedWithin
  <2>8. FA \cup forms = FA
    BY <1>2, <1>7
  <2>9. QED
    BY <1>6, <1>7, <2>7, <2>8 DEF head, FA, full, chase, forms, one
<1>8. CASE ~(Native /\ IsAbsolute(reference))
  <2>1. Ordered(one, FA, 0, 0)
    <3>1. Ordered(one, FormsOf(ToSet(one), 0), 0, 0)
      BY <1>5, RankedAlike
    <3>2. QED
      BY <1>5, <3>1
  <2> HIDE DEF FA
  <2>2. Ordered(head, FA \cup forms, 0, 7)
    BY <1>2, <1>4, <1>5, <1>8, <2>1, OrderedJoin
  <2> HIDE DEF head
  <2>3. QED
    BY <1>6, <1>8, <2>2 DEF head, FA, full, chase, forms, one
<1>9. QED
  BY <1>7, <1>8

LEMMA FilesOrdered ==
    ASSUME setup \in Setups, JobOK(job), ~InMemory, ~Packages, job.reference # EmptyPath, Based(job.base)
    PROVE  LET paths == FileCandidates(job.base, job.reference) IN
           /\ Tasks(job.base, job.reference) = Sources(paths)
           /\ paths \in PathList /\ 7 + Span \in Nat
           /\ Ordered(paths, Forms, 0, 7 + Span) /\ Forms \subseteq Forming
<1> DEFINE base == job.base
           reference == job.reference
           full == Canonical(FullOf(reference, base))
           head == <<full>> \o Chase(base, reference)
           open == Open(full)
           CF == ChaseForms(base, reference)
           FA == FormsOf({full}, 0)
           FH == FA \cup CF
           FB == Leaves(full, {}, 7)
           most == 7 + Span
<1>1. base \in Path /\ reference \in Path /\ reference # EmptyPath
  BY DEF JobOK, Job
<1>2. Tasks(base, reference) = Sources(FileCandidates(base, reference))
  BY <1>1 DEF Tasks
<1>3. Forms = FH \cup FB
  BY DEF Forms, FileForms, FormsOf, Form, NODE_MODULES_LEVELS
<1>4. /\ full \in Given
      /\ FileCandidates(base, reference) = head \o open
  BY <1>1, FilesAre
<1>5. head \in PathList /\ Ordered(head, FH, 0, 7)
  BY <1>1, ChasedInOrder
<1>6. CF \subseteq Forming
  BY <1>1, ChaseOrdered
<1> HIDE DEF full, head, base, reference
<1>7. FA \subseteq Forming
  BY <1>4 DEF FormsOf, Form, Forming, Given
<1>8. Span \in Nat /\ FB \subseteq Forming /\ Ordered(open, FB, 7, most)
  BY <1>4, OpenOrdered
<1>9. open \in PathList
  BY <1>4, PotentialsAre
<1>10. most \in Nat /\ 0 <= 7 /\ 7 <= 7 /\ 7 <= most
  BY <1>8
<1>11. FH \subseteq Forming
  BY <1>6, <1>7
<1> HIDE DEF FH, FB, open, most
<1>12. Ordered(head \o open, FH \cup FB, 0, most)
  BY <1>5, <1>8, <1>9, <1>10, OrderedJoin
<1>13. head \o open \in PathList
  BY <1>5, <1>9, ConcatProperties DEF PathList
<1>14. QED
  BY <1>2, <1>3, <1>4, <1>8, <1>10, <1>11, <1>12, <1>13 DEF base, reference, most

(***************************************************************************)
(* A FileResolver finds the first of the files a reference can stand for:  *)
(* itself, then up through node_modules, then the forms it leaves open in  *)
(* the order of the extensions.  The base is none, or spelled as the       *)
(* filesystem spells it.                                                   *)
(***************************************************************************)
THEOREM FilesFoundInOrder ==
    WatchedSpec => [](~InMemory /\ ~Packages /\ Based(job.base) => BestForm)
<1>1. WatchedInit => SearchInv
  BY SearchAtFirst
<1>2. SearchInv /\ [WatchedNext]_watched => SearchInv'
  BY SearchInvStays
<1>3. SearchInv => (~InMemory /\ ~Packages /\ Based(job.base) => BestForm)
  <2> SUFFICES ASSUME SearchInv, ~InMemory, ~Packages, Based(job.base) PROVE BestForm
    OBVIOUS
  <2>1. CASE job.reference = EmptyPath
    BY <2>1 DEF BestForm
  <2>2. CASE job.reference # EmptyPath
    <3> DEFINE paths == FileCandidates(job.base, job.reference)
    <3>1. setup \in Setups /\ JobOK(job)
      BY DEF SearchInv, IInv
    <3>2. /\ Tasks(job.base, job.reference) = Sources(paths)
          /\ paths \in PathList /\ 7 + Span \in Nat
          /\ Ordered(paths, Forms, 0, 7 + Span) /\ Forms \subseteq Forming
      BY <2>2, <3>1, FilesOrdered
    <3> DEFINE hi == 7 + Span
    <3> HIDE DEF paths
    <3>3. hi \in Nat /\ Ordered(paths, Forms, 0, hi) /\ ~ByPackage(job.reference)
      BY <3>2 DEF ByPackage
    <3> HIDE DEF hi
    <3>4. QED
      BY <3>1, <3>2, <3>3, FindsFirst
  <2>3. QED
    BY <2>1, <2>2
<1>4. QED
  BY <1>1, <1>2, <1>3, PTL DEF WatchedSpec
================================================================================
