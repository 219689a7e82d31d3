-------------------------------- MODULE MCLoads --------------------------------
(***************************************************************************)
(* Small graphs of sources to model-check Loads on, and the refinement to  *)
(* LoadService.                                                            *)
(***************************************************************************)
EXTENDS LoadsProperties

CONSTANT MayRefuse

Alone == INSTANCE SequentialLoad

ResultsAlone == [call \in Documents \X Bases |-> Alone!DocumentResults(call[1], call[2])]

(***************************************************************************)
(* The detailed machine implements the service: a caller's bottom frame is *)
(* its call, and the outcome of the bottom frame is what it returns.       *)
(***************************************************************************)
Calling(c) == IF Idle(c) THEN <<>> ELSE <<stack[c][1].name, stack[c][1].path>>

Returned(c) ==
    IF outcome[c] = NoOutcome THEN <<>>
    ELSE <<[error |-> outcome[c].error, value |-> outcome[c].value]>>

Service == INSTANCE LoadService
    WITH Results <- ResultsAlone,
         calling <- [c \in Callers |-> Calling(c)],
         returned <- [c \in Callers |-> Returned(c)]

(***************************************************************************)
(* Every call returns one of the results its document has on its own, so   *)
(* concurrent parses of one instance do not interfere: the refinement of   *)
(* the safety of LoadService (its fairness is EveryCallReturns).           *)
(***************************************************************************)
ImplementsService == Service!SafeSpec

(***************************************************************************)
(* The graph of the runs: a diamond, a loop, a chain longer than the cap,  *)
(* a missing source below each kind of processor, a broken text.           *)
(***************************************************************************)
GraphRefs ==
    [diamond |-> <<"a", "e">>, loop |-> <<"x">>, chain |-> <<"p">>,
     lost |-> <<"n">>, soft |-> <<"l", "e">>, other |-> <<"o">>, own |-> <<"z", "e", "m">>,
     recoded |-> <<"i">>, broken |-> <<"k">>, plain |-> <<>>, panics |-> <<"u">>,
     a |-> <<"b", "d">>, b |-> <<"d">>, d |-> <<>>, e |-> <<>>,
     x |-> <<"y">>, y |-> <<"x">>,
     p |-> <<"q">>, q |-> <<"r">>, r |-> <<"t">>, t |-> <<"g">>, g |-> <<>>,
     l |-> <<"n">>, n |-> <<"m">>, m |-> <<>>, o |-> <<"m2">>, m2 |-> <<>>,
     i |-> <<"n">>, h |-> <<"k">>, k |-> <<"e">>, u |-> <<"h">>, z |-> <<"z">>]

GraphSources == {"a", "b", "d", "e", "x", "y", "p", "q", "r", "t", "g", "l", "n", "m",
                 "o", "m2", "i", "h", "k", "u", "z"}

MCRefs == [text \in Documents \cup Sources |-> GraphRefs[text]]
MCFound == GraphSources \ {"m", "m2"}
MCProcessing ==
    [s \in Sources |->
        CASE s = "e" -> "raw"
          [] s = "l" -> "lenient"
          [] s = "i" -> "recoding"
          [] s = "u" -> "panicking"
          [] OTHER -> "jsonic"]
\* A resolver that leaves spec.full unset, for a source that includes itself.
MCNamed == GraphSources \ {"z"}
MCBroken == {"k"}
NoBase == {NoPath}
OwnBases == {NoPath, "x", "q"}
================================================================================
