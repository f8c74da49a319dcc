----------------------------- MODULE MCRestored -----------------------------
(* Restored on a small instance.

   The two parts share no variable.  A formula about one of them, all of which
   are blind to stuttering, holds of every interleaving exactly when it holds
   of that one alone: TLC takes them one after the other, and part says which
   moves.                                                                   *)
EXTENDS Restored, TLC

CONSTANTS
    hiring, ours, acme,     \* a customer's system and the operator's
    ada, bea,
    a, b,                   \* contents of receipts
    run

VARIABLE part

MCOwnerOf == (hiring :> acme) @@ (ours :> Operator)

\* Of the part that does not move one initial state is enough.
Init ==
    /\ part \in {"memory", "people"}
    /\ Memory!Init /\ People!Init
    /\ part # "memory" => db.gone = {} /\ damaged = {} /\ \A s \in DOMAIN db.chain : db.chain[s] = <<>>

Next ==
    \/ part = "memory" /\ Memory!Next /\ UNCHANGED <<part, peopleVars>>
    \/ part = "people" /\ People!Next /\ UNCHANGED <<part, memoryVars>>

Spec == Init /\ [][Next]_<<part, memoryVars, peopleVars>>

PeopleSymmetry == Permutations({ada, bea})
=============================================================================
