---------------------------- MODULE EvidenceLog -----------------------------
(***************************************************************************)
(* What a chain of signed receipts promises, whatever keeps it: per system *)
(* one record that only grows, in which a named event stands once, and     *)
(* nothing told to anyone that the record does not hold at that position.  *)
(*                                                                         *)
(* Signer implements it with its state files, its journal and its crashes; *)
(* ReceiptStore implements it with a server, a database and a signer that  *)
(* can each fail without the others.                                       *)
(***************************************************************************)
EXTENDS Integers, Sequences

CONSTANTS
    Systems,
    Events,     \* what one receipt records
    Spans       \* events with a name of their own, recorded once

VARIABLES
    record,     \* per system, the events recorded, in order
    told        \* what callers were told: the system, the position, the event

vars == <<record, told>>

Recorded(s, e) == \E i \in 1..Len(record[s]) : record[s][i] = e

Init ==
    /\ record \in [Systems -> Seq(Events)]
    /\ told = {}

Extend(s) ==
    /\ \E e \in Events :
        /\ e \in Spans => ~Recorded(s, e)
        /\ record' = [record EXCEPT ![s] = Append(@, e)]
    /\ told' = told

Tell(s) ==
    /\ \E i \in 1..Len(record[s]) :
        told' = told \cup {[system |-> s, at |-> i, event |-> record[s][i]]}
    /\ record' = record

\* A system erased on request: what was told of it no longer binds anyone.
\* Its record is not given a second life.
Forget(s) ==
    /\ told' = {t \in told : t.system # s}
    /\ record' = record

Next == \E s \in Systems : Extend(s) \/ Tell(s) \/ Forget(s)

Spec == Init /\ [][Next]_vars
=============================================================================
