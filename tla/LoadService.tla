------------------------------ MODULE LoadService ------------------------------
(***************************************************************************)
(* What a caller of parse is promised: the call returns, and what it       *)
(* returns is one of the results the document has on its own.  Calls made  *)
(* at the same time share nothing that shows: the promise of "two parsers  *)
(* configured differently never see each other's sources" and of the       *)
(* tickets ("its own report and no other parse's").                        *)
(***************************************************************************)
CONSTANTS
    Callers,
    Documents,
    Bases,
    Results     \* <<document, base>> -> the results of parsing it alone

VARIABLES
    calling,    \* caller -> <<document, base>> while its parse runs, else <<>>
    returned    \* caller -> what its last parse returned

serviceVars == <<calling, returned>>

Init ==
    /\ calling = [c \in Callers |-> <<>>]
    /\ returned = [c \in Callers |-> <<>>]

Call(c, d, base) ==
    /\ calling[c] = <<>>
    /\ calling' = [calling EXCEPT ![c] = <<d, base>>]
    /\ returned' = [returned EXCEPT ![c] = <<>>]

Return(c) ==
    /\ calling[c] # <<>>
    /\ calling' = [calling EXCEPT ![c] = <<>>]
    /\ \E r \in Results[calling[c]] : returned' = [returned EXCEPT ![c] = <<r>>]

Next ==
    \E c \in Callers :
        \/ \E d \in Documents, base \in Bases : Call(c, d, base)
        \/ Return(c)

SafeSpec == Init /\ [][Next]_serviceVars

\* Return(c) is enabled for as long as c is calling, so this fairness says no
\* more and no less than that every call returns.
Spec == SafeSpec /\ \A c \in Callers : WF_serviceVars(Return(c))
===============================================================================
