------------------------------ MODULE LastReport ------------------------------
(***************************************************************************)
(* The report store one installed plugin shares between all its parses     *)
(* (struct LastReport, rs/src/lib.rs): a diagnostic raised inside a nested *)
(* parse is recorded under the ticket of the load that started it, and     *)
(* that load takes it back when the nested parse returns an error.         *)
(*                                                                         *)
(* Every operation holds the mutex for the whole of its body, so each one  *)
(* is a single step.  A report is a code and the details its message is    *)
(* rendered from.                                                          *)
(***************************************************************************)
EXTENDS Integers, Sequences

VARIABLES
    slots,      \* ticket -> [code, about]: the recorded reports
    next        \* the AtomicU64 the tickets are counted with

reportVars == <<slots, next>>

\* The ticket of a parse no load started: metadata without a "report" entry.
NoTicket == -1

ReportsInit ==
    /\ slots = [k \in {} |-> {}]
    /\ next = 0

(***************************************************************************)
(* LastReport::ticket: fetch_add returns the value it replaces.            *)
(***************************************************************************)
\* Faulty: one slot for all the parses of the instance.
TicketOfInstance == 0

Ticket == next

Mint == next' = next + 1

(***************************************************************************)
(* LastReport::record: insert replaces what the ticket held.               *)
(***************************************************************************)
Record(k, report) ==
    slots' = [j \in DOMAIN slots \cup {k} |-> IF j = k THEN report ELSE slots[j]]

(***************************************************************************)
(* LastReport::take: the details when the recorded code is the one that    *)
(* came back, the caller's fallback otherwise; the slot goes either way.   *)
(***************************************************************************)
\* Faulty: whatever the slot holds, under whichever code it was recorded.
TakenAnyCode(k, code, fallback) == IF k \in DOMAIN slots THEN slots[k].about ELSE fallback

TakenAbout(k, code, fallback) ==
    IF k \in DOMAIN slots /\ slots[k].code = code THEN slots[k].about ELSE fallback

Release(k) == slots' = [j \in DOMAIN slots \ {k} |-> slots[j]]

(***************************************************************************)
(* LastReport::discard, for a load that did not fail.                      *)
(***************************************************************************)
\* Faulty: only a failed load frees its ticket.
DiscardNothing(k) == slots' = slots

Discard(k) == Release(k)
===============================================================================
