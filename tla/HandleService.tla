----------------------------- MODULE HandleService -----------------------------
(***************************************************************************)
(* What the C library promises a foreign program whose threads call it as  *)
(* they like: each call takes effect at one instant between its start and  *)
(* its return, and replies what a library without threads would have       *)
(* replied at that instant.                                                *)
(***************************************************************************)
EXTENDS Integers

CONSTANTS Callers, NoText, Grammars, Inputs, Unreadable, Installable, Verdict, Handles

VARIABLES
    known,      \* handle -> the grammar of the parser it names
    issued,     \* every handle there has been
    asked       \* caller -> its call, and the reply once that is decided

serviceVars == <<known, issued, asked>>

Reply(kind, handle) == [kind |-> kind, handle |-> handle]

Nothing == Reply("none", 0)

Asking(op, handle, text) ==
    [op |-> op, handle |-> handle, text |-> text, decided |-> FALSE, reply |-> Nothing]

Answered(reply) ==
    [op |-> "rest", handle |-> 0, text |-> NoText, decided |-> FALSE, reply |-> reply]

\* The call has taken effect, and is still to return.
Decided(ask, reply) ==
    [op |-> ask.op, handle |-> ask.handle, text |-> ask.text, decided |-> TRUE, reply |-> reply]

Init ==
    /\ known = [h \in {} |-> NoText]
    /\ issued = {}
    /\ asked = [c \in Callers |-> Answered(Nothing)]

Ask(c) ==
    /\ asked[c].op = "rest"
    /\ \/ \E g \in Grammars : asked' = [asked EXCEPT ![c] =
            IF g \in Unreadable THEN Answered(Reply("usage", 0)) ELSE Asking("grammar", 0, g)]
       \/ \E h \in Handles, src \in Inputs : asked' = [asked EXCEPT ![c] =
            IF src \in Unreadable THEN Answered(Reply("usage", 0)) ELSE Asking("parse", h, src)]
       \/ \E h \in Handles : asked' = [asked EXCEPT ![c] = Asking("free", h, NoText)]
    /\ UNCHANGED <<known, issued>>

(***************************************************************************)
(* The three outcomes of a parse: "a broken call (ok:false with a code),   *)
(* an input outside the language (ok:true, accept:false), and an accepted  *)
(* input" (go/clib/tabnas_c.go).  An engine failure is a broken call.      *)
(***************************************************************************)
Judged(g, src) ==
    IF Verdict[<<g, src>>] = "value" THEN Reply("accept", 0)
    ELSE IF Verdict[<<g, src>>] = "error" THEN Reply("reject", 0)
    ELSE Reply("internal", 0)

\* The call of c takes effect, and `reply` is what it will return.
Effect(c, reply) ==
    LET ask == asked[c] IN
    \/ /\ ask.op = "grammar" /\ ask.text \notin Installable
       /\ reply = Reply("grammar", 0)
       /\ UNCHANGED <<known, issued>>
    \/ /\ ask.op = "grammar" /\ ask.text \in Installable
       /\ reply.kind = "handle" /\ reply.handle \notin issued
       /\ issued' = issued \cup {reply.handle}
       /\ known' = [h \in DOMAIN known \cup {reply.handle} |->
                       IF h = reply.handle THEN ask.text ELSE known[h]]
    \/ /\ ask.op = "parse" /\ ask.handle \notin DOMAIN known
       /\ reply = Reply("unknown", 0)
       /\ UNCHANGED <<known, issued>>
    \/ /\ ask.op = "parse" /\ ask.handle \in DOMAIN known
       /\ reply = Judged(known[ask.handle], ask.text)
       /\ UNCHANGED <<known, issued>>
    \/ /\ ask.op = "free"
       /\ reply = Nothing
       /\ known' = [h \in DOMAIN known \ {ask.handle} |-> known[h]]
       /\ UNCHANGED issued

Replies == {Reply("handle", h) : h \in Handles} \cup
           {Reply(kind, 0) : kind \in {"none", "grammar", "unknown", "accept", "reject", "internal"}}

\* It takes effect and returns later, or takes effect and returns at once.
Decide(c) ==
    /\ asked[c].op # "rest" /\ ~asked[c].decided
    /\ \E reply \in Replies :
          /\ Effect(c, reply)
          /\ \/ asked' = [asked EXCEPT ![c] = Decided(asked[c], reply)]
             \/ asked' = [asked EXCEPT ![c] = Answered(reply)]

Return(c) ==
    /\ asked[c].decided
    /\ asked' = [asked EXCEPT ![c] = Answered(asked[c].reply)]
    /\ UNCHANGED <<known, issued>>

Next == \E c \in Callers : Ask(c) \/ Decide(c) \/ Return(c)

Spec == Init /\ [][Next]_serviceVars
===============================================================================
