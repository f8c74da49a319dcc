------------------------------ MODULE Custody -------------------------------
(***************************************************************************)
(* What the registry of systems promises about who holds a system, however *)
(* many people, processes and requests work on it: an identifier is given  *)
(* out once and, once its system is deleted, never again; a system passes  *)
(* from one account to another only by the operator's hand or by spending  *)
(* a link; at most one link of a system can be spent, and it can be spent  *)
(* once.                                                                   *)
(*                                                                         *)
(* Tenancy implements it with its write queue, its web sessions and its    *)
(* command line.                                                           *)
(***************************************************************************)
CONSTANTS
    Systems,
    Holders,    \* the accounts a system can be held by
    Links,      \* the links that pass a system on
    Unborn,     \* an identifier no system has had yet
    Deleted     \* an identifier whose system is gone

VARIABLES
    holder,     \* per identifier, who holds its system
    made,       \* the links made so far
    open        \* per identifier, the links that can be spent

vars == <<holder, made, open>>

Held(s) == holder[s] \in Holders

Init ==
    /\ holder = [s \in Systems |-> Unborn]
    /\ made = {}
    /\ open = [s \in Systems |-> {}]

Create(s) ==
    /\ holder[s] = Unborn
    /\ \E h \in Holders : holder' = [holder EXCEPT ![s] = h]
    /\ UNCHANGED <<made, open>>

Assign(s) ==
    /\ Held(s)
    /\ \E h \in Holders : holder' = [holder EXCEPT ![s] = h]
    /\ UNCHANGED <<made, open>>

\* A new link takes the place of the one the system had.
MakeLink(s) ==
    /\ Held(s)
    /\ \E l \in Links \ made :
        /\ made' = made \cup {l}
        /\ open' = [open EXCEPT ![s] = {l}]
    /\ holder' = holder

TakeBack(s) ==
    /\ open' = [open EXCEPT ![s] = {}]
    /\ UNCHANGED <<holder, made>>

Spend(s) ==
    /\ Held(s)
    /\ \E l \in open[s] : open' = [open EXCEPT ![s] = {}]
    /\ \E h \in Holders \ {holder[s]} : holder' = [holder EXCEPT ![s] = h]
    /\ made' = made

\* What is deleted takes its links along.
Delete(gone) ==
    /\ \A s \in gone : Held(s)
    /\ holder' = [s \in Systems |-> IF s \in gone THEN Deleted ELSE holder[s]]
    /\ open' = [s \in Systems |-> IF s \in gone THEN {} ELSE open[s]]
    /\ made' = made

Next ==
    \/ \E s \in Systems : Create(s) \/ Assign(s) \/ MakeLink(s) \/ TakeBack(s) \/ Spend(s)
    \/ \E gone \in SUBSET Systems : Delete(gone)

Spec == Init /\ [][Next]_vars
=============================================================================
