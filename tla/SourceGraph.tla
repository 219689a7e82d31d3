------------------------------ MODULE SourceGraph ------------------------------
(***************************************************************************)
(* What the documents and the sources hold, and what the caller configured *)
(* the plugin with: the data the loading machinery of rs/src/lib.rs and    *)
(* rs/src/processor.rs works on, and its pure decisions.                   *)
(*                                                                         *)
(* A source is known by the full path its resolution gives it.  Which path *)
(* a reference resolves to is the resolver's business, so the references   *)
(* of a text are given here as the sources they resolve to.                *)
(***************************************************************************)
EXTENDS Integers, Sequences, SequencesExt

CONSTANTS
    Documents,  \* texts a caller hands to parse
    Sources,    \* full paths a reference can resolve to
    NoPath,     \* metadata without a multisource.path entry
    Refs,       \* text -> the references in it, in the order they are parsed
    Found,      \* the sources the resolver finds
    Named,      \* the sources whose resolution carries spec.full
    Broken,     \* the texts the host grammar rejects at their end
    Processing, \* source -> what the processor of its kind does with it
    Bases,      \* the multisource.path a caller may give a top-level parse
    MaxDepth    \* options.max_depth

Texts == Documents \cup Sources

(***************************************************************************)
(* The processors.  "raw" is default_processor and "jsonic" is             *)
(* jsonic_processor; the other three are callbacks a caller may register   *)
(* with with_processor, all re-parsing through ProcessorInput::parse_source:*)
(* "lenient" falls back to the raw text when that fails, "recoding" fails  *)
(* the load with a code of its own, "panicking" unwraps the result.        *)
(***************************************************************************)
Processors == {"raw", "jsonic", "lenient", "recoding", "panicking"}

Codes == {"none", "not_found", "cycle", "depth",    \* raised by the plugin
          "internal",   \* no parser published, or no thread for a segment
          "syntax",     \* raised by the host grammar
          "panic",      \* the engine turns a panic inside a parse into an error
          "custom"}     \* the code of a recoding processor

ASSUME GraphAssumption ==
    /\ Documents \cap Sources = {}
    /\ NoPath \notin Sources
    /\ Refs \in [Texts -> Seq(Sources)]
    /\ Found \subseteq Sources
    /\ Named \subseteq Sources
    /\ Broken \subseteq Texts
    /\ Processing \in [Sources -> Processors]
    /\ Bases \subseteq Sources \cup {NoPath}
    /\ MaxDepth \in Nat \ {0}   \* normalize replaces 0 by the default

(***************************************************************************)
(* The ancestor chain of a reference: the parents of the text that holds   *)
(* it, and that text's own path when its metadata names one.               *)
(***************************************************************************)
\* Faulty: the text's own path is left out.
ChainUnpushed(parents, path) == parents

Chain(parents, path) == IF path = NoPath THEN parents ELSE Append(parents, path)

(***************************************************************************)
(* The cycle check compares against every ancestor; the loop it reports    *)
(* runs from the first ancestor that matches to the reference itself.      *)
(***************************************************************************)
\* Faulty: only the parent is compared.
IsCycleParentOnly(chain, r) == chain # <<>> /\ Last(chain) = r

IsCycle(chain, r) == r \in ToSet(chain)

FirstAt(chain, r) ==
    CHOOSE i \in DOMAIN chain : chain[i] = r /\ \A j \in 1 .. i - 1 : chain[j] # r

Loop(chain, r) == Append(SubSeq(chain, FirstAt(chain, r), Len(chain)), r)

(***************************************************************************)
(* The depth cap, checked before the load.                                 *)
(***************************************************************************)
\* Faulty: one level too many.
TooDeepLate(chain) == Len(chain) > MaxDepth

TooDeep(chain) == Len(chain) >= MaxDepth

(***************************************************************************)
(* parse_nested: every SEGMENT levels the parse moves to a thread of its   *)
(* own.                                                                    *)
(***************************************************************************)
SEGMENT == 2

\* Faulty: a thread every second time one is due.
NeedsThreadSparse(depth) == depth % (2 * SEGMENT) = 1

NeedsThread(depth) == depth % SEGMENT = 1

(***************************************************************************)
(* Does the processor of r re-parse its text?  jsonic_processor does only  *)
(* when the resolution carries a full path.                                *)
(***************************************************************************)
Reparses(r) ==
    \/ Processing[r] = "jsonic" /\ r \in Named
    \/ Processing[r] \in {"lenient", "recoding", "panicking"}

\* What a load contributes when its processor does not re-parse: the raw text,
\* or nothing where jsonic_processor leaves the value untouched.
Unparsed(r) == IF Processing[r] = "raw" THEN <<r>> ELSE <<>>

\* The multisource.path child_meta writes: spec.full, or undefined without one.
ChildPath(r) == IF r \in Named THEN r ELSE NoPath
===============================================================================
