------------------------------ MODULE MCKeeping -----------------------------
(* Keeping on a small instance.

   The parts share no variable.  A formula about one of them, all of which are
   blind to stuttering, holds of every interleaving exactly when it holds of
   that one alone: TLC takes them one after the other, and part says which
   moves.                                                                   *)
EXTENDS Keeping, TLC

CONSTANTS
    hiring, chat,               \* systems
    north, south,               \* accounts with daily files
    acme,
    ann, bob                    \* members

VARIABLE part

\* Of a part that does not move one initial state is enough.
Init ==
    /\ part \in {"copies", "daily", "keys", "web"}
    /\ Copying!Init /\ Daily!Init /\ Vaults!Init /\ Web!Init
    /\ part # "daily" => owner = [s \in AllSystems |-> north]
    /\ part # "keys" => ~vaultOn /\ keyTables.owner = [s \in AllSystems |-> acme]

Next ==
    \/ /\ part = "copies" /\ Copying!Next
       /\ UNCHANGED <<part, exportVars, keyVars, sessionVars>>
    \/ /\ part = "daily" /\ Daily!Next
       /\ UNCHANGED <<part, backupVars, keyVars, sessionVars>>
    \/ /\ part = "keys" /\ Vaults!Next
       /\ UNCHANGED <<part, backupVars, exportVars, sessionVars>>
    \/ /\ part = "web" /\ Web!Next
       /\ UNCHANGED <<part, backupVars, exportVars, keyVars>>

Spec == Init /\ [][Next]_<<part, backupVars, exportVars, keyVars, sessionVars>>

Symmetric == Permutations({hiring, chat}) \cup Permutations({north, south})
-----------------------------------------------------------------------------
(* The sealed hours of a vault, over a week of days of five minutes.        *)

Hours == INSTANCE VaultHours WITH DAY <- 5

\* A window seals the minutes the customer drew and no others, wherever it
\* starts and whether or not it crosses midnight or the end of the week.
ASSUME HoursAsDrawn ==
    \A w \in Hours!Windows : \A minute \in 0..(Hours!WEEK - 1) :
        Hours!IsSealedAt({w}, minute) <=> minute \in Hours!Drawn(w)
=============================================================================
