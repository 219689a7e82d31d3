---------------------------- MODULE LoadsProperties ----------------------------
(***************************************************************************)
(* What the loading machinery of Loads keeps to.                           *)
(***************************************************************************)
EXTENDS Loads, FiniteSets

(***************************************************************************)
(* The type invariant.                                                     *)
(***************************************************************************)
Outcomes == [name : Texts, base : Sources \cup {NoPath}, error : Errors,
             value : Seq(Sources)] \cup {NoOutcome}

TypeOK ==
    /\ stack \in [Callers -> Seq(Frame)]
    /\ outcome \in [Callers -> Outcomes]
    /\ calls \in [Callers -> 0 .. MaxCalls]
    /\ published \in Instances \cup {NoInstance}
    /\ deps \subseteq (Sources \cup {TOP}) \X Sources
    /\ threads \in Int
    /\ DOMAIN slots \subseteq Nat
    /\ \A k \in DOMAIN slots : slots[k] \in Errors
    /\ next \in Nat

\* The frames of caller c that still hold the ticket k of a load in progress.
Holds(c, k) ==
    \E i \in DOMAIN stack[c] :
        /\ stack[c][i].minted = k
        /\ stack[c][i].pc \in {"await", "take", "discard", "panic"}

(***************************************************************************)
(* No source is its own ancestor: the chain a reference is checked against *)
(* never repeats a path, however the sources include each other (the cycle *)
(* check of directive_action).                                             *)
(***************************************************************************)
DistinctIn(chain) == \A i, j \in DOMAIN chain : chain[i] = chain[j] => i = j

AncestorsDistinct ==
    \A c \in Callers : \A i \in DOMAIN stack[c] : DistinctIn(Ancestors(stack[c][i]))

(***************************************************************************)
(* The ancestor chain never grows past max_depth (the depth check of       *)
(* directive_action).                                                      *)
(***************************************************************************)
ChainCapped ==
    \A c \in Callers : \A i \in DOMAIN stack[c] : Len(Ancestors(stack[c][i])) <= MaxDepth

(***************************************************************************)
(* The parses standing on one another are bounded by max_depth: "a cycle   *)
(* ends in an error, and a chain longer than max_depth ends in one too, so *)
(* neither hangs nor exhausts the stack" (rs/README.md:239).               *)
(***************************************************************************)
NestingBounded == \A c \in Callers : Len(stack[c]) <= MaxDepth + 1

(***************************************************************************)
(* No thread's stack holds more than SEGMENT parses: of any SEGMENT + 1    *)
(* consecutive parses one starts a segment thread (parse_nested).          *)
(***************************************************************************)
ThreadStackBounded ==
    \A c \in Callers : \A i \in 1 .. Len(stack[c]) - SEGMENT :
        \E j \in i + 1 .. i + SEGMENT : stack[c][j].segment

(***************************************************************************)
(* Every segment thread is joined by the parse that spawned it: the        *)
(* threads alive are the segment frames on the stacks, so none outlives    *)
(* its parse ("nothing outlives it", parse_nested).                        *)
(***************************************************************************)
ThreadsJoined ==
    threads = Cardinality({p \in Callers \X (1 .. MaxDepth + 1) :
                              p[2] \in DOMAIN stack[p[1]] /\ stack[p[1]][p[2]].segment})

(***************************************************************************)
(* A recorded report belongs to a load still in progress: "a slot cannot   *)
(* outlive the parse that minted it" (LastReport::discard).                *)
(***************************************************************************)
SlotsOwned == \A k \in DOMAIN slots : \E c \in Callers : Holds(c, k)

(***************************************************************************)
(* A load that failed finds its own report: the details recorded under its *)
(* ticket with the code that came back are the details of the error that   *)
(* came back, whatever other parses of the instance raised meanwhile       *)
(* (LastReport: "its own report and no other parse's").                    *)
(***************************************************************************)
TakesOwnReport ==
    \A c \in Callers : \A i \in DOMAIN stack[c] :
        LET f == stack[c][i] IN
        f.pc = "take" /\ f.minted \in DOMAIN slots /\ slots[f.minted].code = f.error.code
            => slots[f.minted].about = f.error.about \/ f.error.code = "custom"

(***************************************************************************)
(* A slot that holds a report is rewritten or freed only by a step of the  *)
(* one caller whose load it belongs to (LastReport::record, take, discard).*)
(***************************************************************************)
OnlyOwnerTouchesSlot ==
    [][\A k \in DOMAIN slots :
          (k \notin DOMAIN slots' \/ slots'[k] # slots[k])
              => {c \in Callers : Holds(c, k)} = {c \in Callers : stack'[c] # stack[c]}]_vars

(***************************************************************************)
(* Every dependency recorded is a reference its target really holds, TOP   *)
(* and a base path given by the caller standing for the document           *)
(* (DependencyMap: "target pulled in source").                             *)
(***************************************************************************)
HoldsReference(t, s) == t \in Texts /\ s \in ToSet(Refs[t])

DepsAreReferences ==
    \A e \in deps :
        \/ HoldsReference(e[1], e[2])
        \/ e[1] \in Bases \cup {TOP} /\ \E d \in Documents : HoldsReference(d, e[2])

(***************************************************************************)
(* A spliced value can be traced back: each source in what a parse         *)
(* returned is reached along the recorded dependencies, from TOP or from a *)
(* base path a caller gave, so it is in every set that follows them        *)
(* (rs/README.md, "Provenance is available").                              *)
(***************************************************************************)
Follows(R) == \A e \in deps : e[1] \in R \cup Bases \cup {TOP} => e[2] \in R

Provenance ==
    \A c \in Callers : \A s \in ToSet(outcome[c].value) :
        \A R \in SUBSET {e[2] : e \in deps} : Follows(R) => s \in R

(***************************************************************************)
(* The parser a nested parse needs is always published: the internal error *)
(* of directive_action is "unreachable rather than a condition a document  *)
(* can provoke" (rs/src/lib.rs).                                           *)
(***************************************************************************)
AlwaysPublished == \A c \in Callers : ~At(c, "unpublished")

(***************************************************************************)
(* A nested parse runs on the instance its document is being parsed by:    *)
(* "two instances never share a published parser" (rs/src/lib.rs:951).     *)
(***************************************************************************)
OwnInstance ==
    \A c \in Callers : \A i \in DOMAIN stack[c] : stack[c][i].instance = stack[c][1].instance

(***************************************************************************)
(* Every parse returns to its caller, whatever the sources hold and        *)
(* however few threads there are: nobody waits for anybody.                *)
(***************************************************************************)
EveryCallReturns == \A c \in Callers : ~Idle(c) ~> Idle(c)
===============================================================================
