--------------------------- MODULE HandlesProperties ---------------------------
(***************************************************************************)
(* What the registry of Handles keeps to, and the service it implements.   *)
(***************************************************************************)
EXTENDS Handles

(***************************************************************************)
(* The type invariant.                                                     *)
(***************************************************************************)
CallRecord ==
    [at : Places, handle : Handles, text : Grammars \cup Inputs \cup {NoText},
     instance : Nat, reply : [kind : Kinds, handle : Handles]]

TypeOK ==
    /\ nextID \in Handles
    /\ DOMAIN loaded \subseteq 1 .. nextID
    /\ \A h \in DOMAIN loaded : loaded[h] \in DOMAIN instances
    /\ instances \in Seq(Instance)
    /\ call \in [Callers -> CallRecord]
    /\ \A c \in Callers : call[c].at \in {"lock", "parse", "unlock"}
                              => call[c].instance \in DOMAIN instances

(***************************************************************************)
(* An engine never runs two parses at once ("engines are not safe for      *)
(* concurrent Parse", core.go), not even when its handle has been freed    *)
(* and its callers are the only ones left that know it.                    *)
(***************************************************************************)
Using(c, i) == call[c].at \in {"parse", "unlock"} /\ call[c].instance = i

OneParseAtATime ==
    \A c, d \in Callers : \A i \in DOMAIN instances : Using(c, i) /\ Using(d, i) => c = d

(***************************************************************************)
(* An instance's mutex is held by exactly the call that uses it, so none   *)
(* stays locked after a call that returned, whatever its parse did         *)
(* (safeParse contains the panic before the mutex is released).            *)
(***************************************************************************)
HeldByUser ==
    \A i \in DOMAIN instances : \A c \in Callers : instances[i].holder = c <=> Using(c, i)

(***************************************************************************)
(* A handle names one parser for as long as it is loaded, and none once it *)
(* was freed: handles are never issued again (nextID in loadGrammar).      *)
(***************************************************************************)
HandleNamesOneParser ==
    [][\A h \in 1 .. nextID :
          h \in DOMAIN loaded' => h \in DOMAIN loaded /\ loaded'[h] = loaded[h]]_vars

(***************************************************************************)
(* A caller is back out of its calls again and again, or waits for good    *)
(* for one engine that is busy with a slow input: no call on another       *)
(* parser, no free and no load waits for it (the registry's lock is not    *)
(* held across a parse), and a finished parse lets the next one in.        *)
(***************************************************************************)
BehindSlow(c) ==
    \E d \in Callers :
        /\ call[d].at = "parse" /\ call[d].text \in Slow
        /\ call[c].at \in {"lock", "parse"} /\ call[c].instance = call[d].instance

CallsReturn == \A c \in Callers : []<>At(c, "rest") \/ <>[]BehindSlow(c)

(***************************************************************************)
(* The registry implements the service without threads: a parse takes      *)
(* effect when its instance is looked up.                                  *)
(***************************************************************************)
OperationAt ==
    [rest |-> "rest", build |-> "grammar", register |-> "grammar", lookup |-> "parse",
     lock |-> "parse", parse |-> "parse", unlock |-> "parse", free |-> "free"]

Decided(c) == call[c].at \in {"lock", "parse", "unlock"}

Known == [h \in DOMAIN loaded |-> instances[loaded[h]].grammar]

Issued == 1 .. nextID

AskedBy(c) ==
    [op |-> OperationAt[call[c].at], handle |-> call[c].handle, text |-> call[c].text,
     decided |-> Decided(c),
     reply |-> IF Decided(c) THEN Reply(Answered(Outcome(c)), 0) ELSE call[c].reply]

Asked == [c \in Callers |-> AskedBy(c)]

Service == INSTANCE HandleService WITH known <- Known, issued <- Issued, asked <- Asked

ImplementsService == Service!Spec
================================================================================
