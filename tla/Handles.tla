-------------------------------- MODULE Handles --------------------------------
(***************************************************************************)
(* The C library's registry of parsers (go/clib/core.go, and the argument  *)
(* checks of go/clib/tabnas_c.go): foreign threads build a parser from a   *)
(* grammar and get a handle to it, parse inputs with it, and free it, all  *)
(* at the same time and in any order, with handles that were never issued  *)
(* and handles that were freed.                                            *)
(*                                                                         *)
(* The registry's RWMutex guards `loaded` and `nextID` for the length of   *)
(* one critical section that blocks on nothing else, so each section is a  *)
(* step.  An instance's own mutex is held across the parse, so taking it,  *)
(* the parse and releasing it are steps of their own.                      *)
(***************************************************************************)
EXTENDS Integers, Sequences, FiniteSets

CONSTANTS
    Callers,        \* threads of the foreign program
    Nobody,         \* the holder of a free mutex
    NoText,         \* the argument of a call that has none
    Grammars,       \* arguments of tabnas_grammar
    Inputs,         \* arguments of tabnas_parse
    Unreadable,     \* arguments whose pointer or length goBytes refuses
    Installable,    \* grammars newParser builds a parser from
    Verdict,        \* <<grammar, input>> -> what the engine makes of the input
    Slow,           \* inputs nobody promises the engine is ever done with
    MaxHandles      \* bound: the parsers built

(***************************************************************************)
(* The engine's outcomes: a value, an error, an error with the code        *)
(* "internal" (a panic the engine itself recovered), and a panic it did    *)
(* not.                                                                    *)
(***************************************************************************)
Verdicts == {"value", "error", "internal", "panic"}

ASSUME HandlesAssumption ==
    /\ IsFiniteSet(Callers)
    /\ Nobody \notin Callers
    /\ Unreadable \subseteq Grammars \cup Inputs
    /\ Installable \subseteq Grammars
    /\ Verdict \in [Grammars \X Inputs -> Verdicts]
    /\ Slow \subseteq Inputs
    /\ MaxHandles \in Nat

VARIABLES
    nextID,     \* the last handle issued
    loaded,     \* handle -> the index of the instance it names
    instances,  \* the instances built: the grammar, and who holds the mutex
    call        \* caller -> its call in progress, and the reply of its last

vars == <<nextID, loaded, instances, call>>

Handles == 0 .. MaxHandles
Instance == [grammar : Grammars, holder : Callers \cup {Nobody}]

(***************************************************************************)
(* A call: where it is, its arguments, the instance it looked up, and the  *)
(* document it replied with: the kind, and the handle of a new parser.     *)
(***************************************************************************)
Places == {"rest", "build", "register", "lookup", "lock", "parse", "unlock", "free"}
Kinds == {"none", "usage", "grammar", "handle", "unknown", "accept", "reject", "internal"}

Reply(kind, handle) == [kind |-> kind, handle |-> handle]

NoReply == Reply("none", 0)

Call(at, handle, text) ==
    [at |-> at, handle |-> handle, text |-> text, instance |-> 0, reply |-> NoReply]

Resting(reply) == [Call("rest", 0, NoText) EXCEPT !.reply = reply]

Init ==
    /\ nextID = 0
    /\ loaded = [h \in {} |-> 0]
    /\ instances = <<>>
    /\ call = [c \in Callers |-> Resting(NoReply)]

At(c, place) == call[c].at = place
Begin(c, start) == At(c, "rest") /\ call' = [call EXCEPT ![c] = start]
Go(c, place) == call' = [call EXCEPT ![c].at = place]
Answer(c, kind) == call' = [call EXCEPT ![c] = Resting(Reply(kind, 0))]

(***************************************************************************)
(* tabnas_grammar: the parser is built outside the registry's lock, and    *)
(* only one that was built gets a handle.  A panic in the building is an   *)
(* error like any other.                                                   *)
(***************************************************************************)
\* The bound on the parsers built counts those on their way.
Underway == {c \in Callers : call[c].at \in {"build", "register"}}
Room == nextID + Cardinality(Underway) < MaxHandles

CallGrammar(c, g) ==
    /\ Room
    /\ Begin(c, IF g \in Unreadable THEN Resting(Reply("usage", 0)) ELSE Call("build", 0, g))
    /\ UNCHANGED <<nextID, loaded, instances>>

Build(c) ==
    /\ At(c, "build")
    /\ \/ call[c].text \in Installable /\ Go(c, "register")
       \/ call[c].text \notin Installable /\ Answer(c, "grammar")
    /\ UNCHANGED <<nextID, loaded, instances>>

\* Faulty: the handles in use are counted, so a live one can be issued again.
FreshCounted == Cardinality(DOMAIN loaded) + 1

\* Faulty: the counter is read before it is incremented.
FreshStale == nextID

Fresh == nextID + 1

Register(c) ==
    /\ At(c, "register")
    /\ nextID' = Fresh
    /\ instances' = Append(instances, [grammar |-> call[c].text, holder |-> Nobody])
    /\ loaded' = [h \in DOMAIN loaded \cup {Fresh} |->
                     IF h = Fresh THEN Len(instances) + 1 ELSE loaded[h]]
    /\ call' = [call EXCEPT ![c] = Resting(Reply("handle", Fresh))]

(***************************************************************************)
(* tabnas_parse: the instance is looked up, its mutex taken, the engine    *)
(* run, the mutex released, and the engine's outcome turned into the       *)
(* reply.  A handle freed after the lookup does not stop the parse.        *)
(***************************************************************************)
CallParse(c, h, src) ==
    /\ Begin(c, IF src \in Unreadable THEN Resting(Reply("usage", 0)) ELSE Call("lookup", h, src))
    /\ UNCHANGED <<nextID, loaded, instances>>

Lookup(c) ==
    LET h == call[c].handle IN
    /\ At(c, "lookup")
    /\ \/ /\ h \in DOMAIN loaded
          /\ call' = [call EXCEPT ![c].at = "lock", ![c].instance = loaded[h]]
       \/ h \notin DOMAIN loaded /\ Answer(c, "unknown")
    /\ UNCHANGED <<nextID, loaded, instances>>

Held(c) == instances[call[c].instance]

\* Faulty: the mutex is one lookup's own, not the instance's.
FreeForAll(c) == TRUE

Unheld(c) == Held(c).holder = Nobody

Lock(c) ==
    /\ At(c, "lock")
    /\ Unheld(c)
    /\ instances' = [instances EXCEPT ![call[c].instance].holder = c]
    /\ Go(c, "parse")
    /\ UNCHANGED <<nextID, loaded>>

Parse(c) ==
    /\ At(c, "parse")
    /\ Go(c, "unlock")
    /\ UNCHANGED <<nextID, loaded, instances>>

Outcome(c) == Verdict[<<Held(c).grammar, call[c].text>>]

\* Faulty: the code "internal" is not told from the other errors.
AnsweredAsError(verdict) ==
    IF verdict = "value" THEN "accept" ELSE IF verdict = "panic" THEN "internal" ELSE "reject"

Answered(verdict) ==
    IF verdict = "value" THEN "accept" ELSE IF verdict = "error" THEN "reject" ELSE "internal"

\* Faulty: a panic passes the release of the mutex by.
ReleasedUnlessPanic(c) == IF Outcome(c) = "panic" THEN c ELSE Nobody

Released(c) == Nobody

Unlock(c) ==
    /\ At(c, "unlock")
    /\ instances' = [instances EXCEPT ![call[c].instance].holder = Released(c)]
    /\ Answer(c, Answered(Outcome(c)))
    /\ UNCHANGED <<nextID, loaded>>

(***************************************************************************)
(* tabnas_grammar_free: freeing what is not loaded does nothing.           *)
(***************************************************************************)
CallFree(c, h) ==
    /\ Begin(c, Call("free", h, NoText))
    /\ UNCHANGED <<nextID, loaded, instances>>

FreeGrammar(c) ==
    /\ At(c, "free")
    /\ loaded' = [h \in DOMAIN loaded \ {call[c].handle} |-> loaded[h]]
    /\ call' = [call EXCEPT ![c] = Resting(NoReply)]
    /\ UNCHANGED <<nextID, instances>>

Calls(c) ==
    \/ \E g \in Grammars : CallGrammar(c, g)
    \/ \E h \in Handles, src \in Inputs : CallParse(c, h, src)
    \/ \E h \in Handles : CallFree(c, h)

Advance(c) == Build(c) \/ Register(c) \/ Lookup(c) \/ Unlock(c) \/ FreeGrammar(c)

Next == \E c \in Callers : Calls(c) \/ Advance(c) \/ Lock(c) \/ Parse(c)

(***************************************************************************)
(* A thread inside a call runs on; a Go mutex hands over to a thread that  *)
(* keeps waiting; the engine is done with an input unless it is a slow     *)
(* one.  Nobody has to call.                                               *)
(***************************************************************************)
Fairness ==
    \A c \in Callers :
        /\ WF_vars(Advance(c))
        /\ SF_vars(Lock(c))
        /\ WF_vars(Parse(c) /\ call[c].text \notin Slow)

Spec == Init /\ [][Next]_vars /\ Fairness
===============================================================================
