--------------------------------- MODULE Loads ---------------------------------
(***************************************************************************)
(* The loading machinery of one installed plugin (rs/src/lib.rs and        *)
(* rs/src/processor.rs), used by several callers at once.                  *)
(*                                                                         *)
(* Each caller parses documents; a reference in a text is resolved,        *)
(* checked, recorded as a dependency and loaded, and loading may parse the *)
(* source's own text inside the parse that referenced it.  The nested      *)
(* parses of a caller are a stack of frames, the top one running.  What    *)
(* the callers share is the report store, the dependency sink, the         *)
(* published parser and the operating system's threads: every access to    *)
(* one of them is an action of its own.                                    *)
(***************************************************************************)
EXTENDS SourceGraph, LastReport

CONSTANTS
    Callers,        \* threads that call parse
    Instances,      \* the engine instances that share this install
    NoInstance,     \* the empty NestedParser slot
    TOP,            \* the dependency target of a top-level reference
    ThreadLimit,    \* segment threads the machine can run at once
    MaxCalls        \* bound: parses each caller makes

ASSUME LoadsAssumption ==
    /\ NoInstance \notin Instances
    /\ TOP \notin Sources
    /\ ThreadLimit \in Nat
    /\ MaxCalls \in Nat

VARIABLES
    stack,      \* caller -> its parses, outermost first
    outcome,    \* caller -> what its last parse returned
    calls,      \* caller -> parses started
    published,  \* NestedParser::current
    deps,       \* the dependency sink: pairs <<target, source>>
    threads     \* segment threads alive

vars == <<stack, outcome, calls, published, deps, threads, slots, next>>

Errors == [code : Codes, about : Seq(Texts)]
NoError == [code |-> "none", about |-> <<>>]

(***************************************************************************)
(* One parse: the text, the instance running it, the multisource entry of  *)
(* its metadata (path, parents, ticket), the reference it is at, what its  *)
(* value is made of so far, whether it runs on a segment thread, and the   *)
(* load in progress: where it is, the ticket minted for it, the parser it  *)
(* got and the error it came back with.                                    *)
(***************************************************************************)
Places == {"scan", "mint", "get", "process", "await", "take", "discard",
           "fail", "panic", "unpublished"}

Frame == [name : Texts, instance : Instances,
          path : Sources \cup {NoPath}, parents : Seq(Sources),
          ticket : Nat \cup {NoTicket}, segment : BOOLEAN,
          at : Nat \ {0}, value : Seq(Sources),
          pc : Places, minted : Nat \cup {NoTicket},
          parser : Instances \cup {NoInstance}, error : Errors]

NoOutcome == [name |-> NoPath, base |-> NoPath, error |-> NoError, value |-> <<>>]

NewFrame(name, instance, path, parents, ticket, segment) ==
    [name |-> name, instance |-> instance, path |-> path, parents |-> parents,
     ticket |-> ticket, segment |-> segment, at |-> 1, value |-> <<>>,
     pc |-> "scan", minted |-> NoTicket, parser |-> NoInstance, error |-> NoError]

Init ==
    /\ ReportsInit
    /\ stack = [c \in Callers |-> <<>>]
    /\ outcome = [c \in Callers |-> NoOutcome]
    /\ calls = [c \in Callers |-> 0]
    /\ published = NoInstance
    /\ deps = {}
    /\ threads = 0

Idle(c) == stack[c] = <<>>
Running(c) == Last(stack[c])
At(c, place) == ~Idle(c) /\ Running(c).pc = place
Become(c, f) == stack' = [stack EXCEPT ![c] = Append(Front(@), f)]

Reference(f) == Refs[f.name][f.at]
Ancestors(f) == Chain(f.parents, f.path)
HasReference(f) == f.at <= Len(Refs[f.name])
Failing(f, code, about) ==
    [f EXCEPT !.pc = "fail", !.error = [code |-> code, about |-> about]]

(***************************************************************************)
(* A caller's parse starts: the prepare hook publishes the instance when   *)
(* the text holds the mark character at all.                               *)
(***************************************************************************)
\* Faulty: a parse with a path in its metadata is taken for a nested one.
PublishedWithoutPath(d, base, i) ==
    IF Refs[d] # <<>> /\ base = NoPath THEN i ELSE published

PublishedBy(d, base, i) == IF Refs[d] # <<>> THEN i ELSE published

Start(c, d, base, i) ==
    /\ Idle(c)
    /\ calls[c] < MaxCalls
    /\ calls' = [calls EXCEPT ![c] = @ + 1]
    /\ stack' = [stack EXCEPT ![c] = <<NewFrame(d, i, base, <<>>, NoTicket, FALSE)>>]
    /\ outcome' = [outcome EXCEPT ![c] = NoOutcome]
    /\ published' = PublishedBy(d, base, i)
    /\ UNCHANGED <<deps, threads, slots, next>>

(***************************************************************************)
(* The reference the parse is at: refused ...                              *)
(***************************************************************************)
NotFound(c) ==
    /\ At(c, "scan")
    /\ HasReference(Running(c))
    /\ Reference(Running(c)) \notin Found
    /\ Become(c, Failing(Running(c), "not_found", <<Reference(Running(c))>>))
    /\ UNCHANGED <<outcome, calls, published, deps, threads, slots, next>>

Cycle(c) ==
    LET f == Running(c) IN
    /\ At(c, "scan")
    /\ HasReference(f)
    /\ Reference(f) \in Found
    /\ IsCycle(Ancestors(f), Reference(f))
    /\ Become(c, Failing(f, "cycle", Loop(Ancestors(f), Reference(f))))
    /\ UNCHANGED <<outcome, calls, published, deps, threads, slots, next>>

Depth(c) ==
    LET f == Running(c) IN
    /\ At(c, "scan")
    /\ HasReference(f)
    /\ Reference(f) \in Found
    /\ ~IsCycle(Ancestors(f), Reference(f))
    /\ TooDeep(Ancestors(f))
    /\ Become(c, Failing(f, "depth", <<Reference(f)>>))
    /\ UNCHANGED <<outcome, calls, published, deps, threads, slots, next>>

(***************************************************************************)
(* ... or admitted, and recorded as a dependency of the last ancestor.     *)
(***************************************************************************)
\* Faulty: the outermost ancestor instead of the innermost.
TargetOutermost(chain) == IF chain = <<>> THEN TOP ELSE Head(chain)

Target(chain) == IF chain = <<>> THEN TOP ELSE Last(chain)

\* Faulty: the target's entry is replaced instead of added to.
RecordOnlyDependency(t, r) == deps' = {e \in deps : e[1] # t} \cup {<<t, r>>}

RecordDependency(t, r) == deps' = deps \cup {<<t, r>>}

Admit(c) ==
    LET f == Running(c) IN
    /\ At(c, "scan")
    /\ HasReference(f)
    /\ Reference(f) \in Found
    /\ ~IsCycle(Ancestors(f), Reference(f))
    /\ ~TooDeep(Ancestors(f))
    /\ RecordDependency(Target(Ancestors(f)), Reference(f))
    /\ Become(c, [f EXCEPT !.pc = "mint"])
    /\ UNCHANGED <<outcome, calls, published, threads, slots, next>>

MintTicket(c) ==
    /\ At(c, "mint")
    /\ Mint
    /\ Become(c, [Running(c) EXCEPT !.pc = "get", !.minted = Ticket])
    /\ UNCHANGED <<outcome, calls, published, deps, threads, slots>>

\* nested.get(): without a published parser the action itself fails.
GetParser(c) ==
    /\ At(c, "get")
    /\ Become(c, [Running(c) EXCEPT
                    !.pc = IF published = NoInstance THEN "unpublished" ELSE "process",
                    !.parser = published])
    /\ UNCHANGED <<outcome, calls, published, deps, threads, slots, next>>

(***************************************************************************)
(* The processor of the reference's kind: one that does not re-parse is    *)
(* done at once; one that does starts a nested parse, on a thread of its   *)
(* own every SEGMENT levels.                                               *)
(***************************************************************************)
Child(f) ==
    NewFrame(Reference(f), f.parser, ChildPath(Reference(f)), Ancestors(f), f.minted,
             NeedsThread(Len(Ancestors(f))))

ProcessText(c) ==
    LET f == Running(c) IN
    /\ At(c, "process")
    /\ ~Reparses(Reference(f))
    /\ Become(c, [f EXCEPT !.pc = "discard", !.value = @ \o Unparsed(Reference(f))])
    /\ UNCHANGED <<outcome, calls, published, deps, threads, slots, next>>

Descend(c) ==
    LET f == Running(c) IN
    /\ stack' = [stack EXCEPT ![c] =
                    Append(Append(Front(@), [f EXCEPT !.pc = "await"]), Child(f))]
    /\ UNCHANGED <<outcome, calls, published, deps, slots, next>>

ParseHere(c) ==
    /\ At(c, "process")
    /\ Reparses(Reference(Running(c)))
    /\ ~Child(Running(c)).segment
    /\ Descend(c)
    /\ UNCHANGED threads

ParseOnThread(c) ==
    /\ At(c, "process")
    /\ Reparses(Reference(Running(c)))
    /\ Child(Running(c)).segment
    /\ threads < ThreadLimit
    /\ Descend(c)
    /\ threads' = threads + 1

(***************************************************************************)
(* What the processor of f's reference makes of a nested parse that        *)
(* returned: a value, an error it passes on, an error of its own, a panic. *)
(***************************************************************************)
Processed(f, error, value) ==
    LET r == Reference(f)
        Loaded(v) == [f EXCEPT !.pc = "discard", !.value = @ \o <<r>> \o v]
        Erring(e) == [f EXCEPT !.pc = "take", !.error = e]
    IN CASE error = NoError -> Loaded(value)
         [] error # NoError /\ Processing[r] = "lenient"   -> Loaded(<<>>)
         [] error # NoError /\ Processing[r] = "recoding"  ->
                Erring([code |-> "custom", about |-> <<r>>])
         [] error # NoError /\ Processing[r] = "panicking" -> [f EXCEPT !.pc = "panic"]
         [] OTHER -> Erring(error)

\* parse_nested when the thread cannot be had: the load fails, and does not
\* carry on on the stack it has, nor wait for a thread.
\* Faulty: the load waits for a thread.
RefusedNever(limit) == FALSE

ThreadRefused(limit) == threads >= limit

NoThread(c) ==
    LET f == Running(c) IN
    /\ At(c, "process")
    /\ Reparses(Reference(f))
    /\ Child(f).segment
    /\ ThreadRefused(ThreadLimit)
    /\ Become(c, Processed(f, [code |-> "internal", about |-> <<Reference(f)>>], <<>>))
    /\ UNCHANGED <<outcome, calls, published, deps, threads, slots, next>>

(***************************************************************************)
(* The running parse of c ends.  A nested one hands its result to the      *)
(* processor that started it, its segment thread joined; the outermost one *)
(* returns to the caller.                                                  *)
(***************************************************************************)
\* Faulty: the thread is spawned and never joined.
JoinedNever(f) == threads' = threads

Joined(f) == threads' = IF f.segment THEN threads - 1 ELSE threads

Return(c, error) ==
    LET f == Running(c)
        value == IF error = NoError THEN f.value ELSE <<>>
    IN
    /\ Joined(f)
    /\ \/ /\ Len(stack[c]) = 1
          /\ stack' = [stack EXCEPT ![c] = <<>>]
          /\ outcome' = [outcome EXCEPT ![c] =
                [name |-> f.name, base |-> f.path, error |-> error, value |-> value]]
       \/ /\ Len(stack[c]) > 1
          /\ stack' = [stack EXCEPT ![c] =
                Append(Front(Front(@)), Processed(Last(Front(@)), error, value))]
          /\ UNCHANGED outcome
    /\ UNCHANGED <<calls, published, deps, next>>

\* The end of the text: its value, or the host grammar's own error.
Finish(c) ==
    LET f == Running(c) IN
    /\ At(c, "scan")
    /\ ~HasReference(f)
    /\ Return(c, IF f.name \in Broken THEN [code |-> "syntax", about |-> <<f.name>>]
                                      ELSE NoError)
    /\ UNCHANGED slots

(***************************************************************************)
(* The load is over.  A failed one takes back its report and raises it as  *)
(* its own; one that did not fail frees its ticket and the parse goes on.  *)
(***************************************************************************)
TakeReport(c) ==
    LET f == Running(c) IN
    /\ At(c, "take")
    /\ Release(f.minted)
    /\ Become(c, Failing(f, f.error.code,
                         TakenAbout(f.minted, f.error.code, <<Reference(f)>>)))
    /\ UNCHANGED <<outcome, calls, published, deps, threads, next>>

DiscardReport(c) ==
    LET f == Running(c) IN
    /\ At(c, "discard")
    /\ Discard(f.minted)
    /\ Become(c, [f EXCEPT !.pc = "scan", !.at = @ + 1, !.minted = NoTicket,
                           !.parser = NoInstance])
    /\ UNCHANGED <<outcome, calls, published, deps, threads, next>>

(***************************************************************************)
(* fail: a nested parse records its report under the ticket it was given,  *)
(* and the error ends the parse.  Only a nested parse has a ticket.        *)
(***************************************************************************)
\* Faulty: a top-level failure is recorded too.
HasTicketAlways(f) == TRUE

HasTicket(f) == f.ticket # NoTicket

Fail(c) ==
    LET f == Running(c) IN
    /\ At(c, "fail")
    /\ \/ HasTicket(f) /\ Record(f.ticket, f.error)
       \/ ~HasTicket(f) /\ UNCHANGED slots
    /\ Return(c, f.error)

\* Errors that end the parse without going through fail: a panic the engine
\* caught, and the internal error of a load no parser was published for.
Abort(c) ==
    LET f == Running(c) IN
    /\ ~Idle(c)
    /\ f.pc \in {"panic", "unpublished"}
    /\ Return(c, [code |-> IF f.pc = "panic" THEN "panic" ELSE "internal",
                  about |-> <<f.name>>])
    /\ UNCHANGED slots

Step(c) ==
    \/ NotFound(c) \/ Cycle(c) \/ Depth(c) \/ Admit(c)
    \/ MintTicket(c) \/ GetParser(c)
    \/ ProcessText(c) \/ ParseHere(c) \/ ParseOnThread(c) \/ NoThread(c)
    \/ Finish(c) \/ TakeReport(c) \/ DiscardReport(c) \/ Fail(c) \/ Abort(c)

\* Every caller has made its parses: the only state nothing follows.
Finished ==
    /\ \A c \in Callers : Idle(c) /\ calls[c] = MaxCalls
    /\ UNCHANGED vars

Next ==
    \/ \E c \in Callers, d \in Documents, base \in Bases, i \in Instances :
          Start(c, d, base, i)
    \/ \E c \in Callers : Step(c)
    \/ Finished

\* A parse that has started runs on: its thread is scheduled, and no lock is
\* held across a step.  Nothing obliges a caller to start one.
Fairness == \A c \in Callers : WF_vars(Step(c))

Spec == Init /\ [][Next]_vars /\ Fairness
===============================================================================
