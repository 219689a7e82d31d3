---------------------------- MODULE SequentialLoad ----------------------------
(***************************************************************************)
(* The results a document has on its own: the loading of rs/src/lib.rs     *)
(* written as a recursive function of the text and its ancestor chain,     *)
(* without tickets, slots, a published parser or threads.  A parse that    *)
(* may be refused a thread has that failure among its results.             *)
(***************************************************************************)
EXTENDS SourceGraph

CONSTANT MayRefuse  \* can a segment thread be refused?

Failure(code, about) == [error |-> [code |-> code, about |-> about], value |-> <<>>]
Success(value) == [error |-> [code |-> "none", about |-> <<>>], value |-> value]
Failed(result) == result.error.code # "none"

\* What the processor of r makes of the result of re-parsing it: a processor
\* that panics takes the parse of the holder of the reference with it.
Handled(holder, r, inner) ==
    CASE ~Failed(inner) -> Success(<<r>> \o inner.value)
      [] Failed(inner) /\ Processing[r] = "lenient" -> Success(<<r>>)
      [] Failed(inner) /\ Processing[r] = "recoding" ->
            Failure("custom", IF inner.error.code = "custom" THEN inner.error.about ELSE <<r>>)
      [] Failed(inner) /\ Processing[r] = "panicking" -> Failure("panic", <<holder>>)
      [] OTHER -> inner

RECURSIVE TextResults(_, _, _), LoadResults(_, _, _)

\* The results of loading the reference r of a text whose chain is given.
LoadResults(holder, r, chain) ==
    IF r \notin Found THEN {Failure("not_found", <<r>>)}
    ELSE IF r \in ToSet(chain)
         THEN LET first == CHOOSE i \in DOMAIN chain :
                              chain[i] = r /\ \A j \in 1 .. i - 1 : chain[j] # r
              IN {Failure("cycle", SubSeq(chain, first, Len(chain)) \o <<r>>)}
    ELSE IF Len(chain) >= MaxDepth THEN {Failure("depth", <<r>>)}
    ELSE IF ~Reparses(r) THEN {Success(Unparsed(r))}
    ELSE LET parsed == TextResults(r, Chain(chain, ChildPath(r)), 1)
             refused == IF MayRefuse /\ Len(chain) % 2 = 1
                        THEN {Failure("internal", <<r>>)} ELSE {}
         IN {Handled(holder, r, inner) : inner \in parsed \cup refused}

\* The results of a text from its reference number at on.
TextResults(text, chain, at) ==
    IF at > Len(Refs[text])
    THEN {IF text \in Broken THEN Failure("syntax", <<text>>) ELSE Success(<<>>)}
    ELSE UNION {IF Failed(load) THEN {load}
                ELSE {IF Failed(rest) THEN rest ELSE Success(load.value \o rest.value) :
                         rest \in TextResults(text, chain, at + 1)}
                : load \in LoadResults(text, Refs[text][at], chain)}

DocumentResults(d, base) == TextResults(d, Chain(<<>>, base), 1)
===============================================================================
