-------------------------------- MODULE FileTree --------------------------------
(***************************************************************************)
(* The filesystem as a resolver sees it through std::fs: files that come   *)
(* and go, the folders they are in, and symbolic links that stay where     *)
(* they are.  A place is the sequence of names below the root, and a disk  *)
(* the set of places that hold a file; what a file holds is not told from  *)
(* where it is.  MapFs is a tree without links that never changes.         *)
(***************************************************************************)
EXTENDS Integers, Sequences, SequencesExt

CONSTANT Links      \* place of a link -> the place it points to

(***************************************************************************)
(* Following links: the first link on the way is replaced by its target.   *)
(***************************************************************************)
LinksOn(place) == {i \in 1 .. Len(place) : SubSeq(place, 1, i) \in DOMAIN Links}

Hop(place) ==
    IF LinksOn(place) = {} THEN place
    ELSE LET i == CHOOSE j \in LinksOn(place) : \A k \in LinksOn(place) : j <= k
         IN  Links[SubSeq(place, 1, i)] \o SubSeq(place, i + 1, Len(place))

\* Bound: four links are followed on the way to one place.
Follow(place) == Hop(Hop(Hop(Hop(place))))

(***************************************************************************)
(* What is there: a folder is there when something is in it.               *)
(***************************************************************************)
Inside(place) == {link \in DOMAIN Links : IsStrictPrefix(place, link)}

IsFolder(disk, place) ==
    place = <<>> \/ Inside(place) # {} \/ \E file \in disk : IsStrictPrefix(place, file)

\* std::fs::canonicalize succeeds, with Follow(place).
Reaches(disk, place) ==
    LET real == Follow(place) IN
    LinksOn(real) = {} /\ (real \in disk \/ IsFolder(disk, real))

\* std::fs::symlink_metadata succeeds: the last name is not followed.
Occupied(disk, place) ==
    \/ Reaches(disk, place)
    \/ /\ place # <<>> /\ Reaches(disk, Front(place))
       /\ Append(Follow(Front(place)), Last(place)) \in DOMAIN Links

\* A read finds a file.
Readable(disk, place) == Reaches(disk, place) /\ Follow(place) \in disk
================================================================================
