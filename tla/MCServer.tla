----------------------------- MODULE MCServer ------------------------------
(* What stands at the server's door (Serving) and who holds what behind it   *)
(* (Tenancy), on a small instance: a system with a key and its replacement,  *)
(* three addresses; two organizations, two people and a system to hand over. *)
(*                                                                           *)
(* The parts share no variable.  A formula about one of them, which is       *)
(* blind to stuttering, holds of every interleaving exactly when it holds    *)
(* of that one alone: TLC takes them one after the other, and part says      *)
(* which moves.                                                              *)
EXTENDS Serving, Tenancy, TLC

CONSTANTS
    k1, k2, bot, acme, c1, c2,
    here, there, away,          \* addresses
    globex, u1, u2, l1, l2      \* the other organization, people, links

VARIABLE part

MCOneKey == {k1}
MCSystemOf == [k \in Keys |-> bot]
MCCalls == {c1, c2}
MCAccounts == {acme, OperatorAccount}

MCOrgs == {acme, globex}
MCUsers == {u1, u2}
MCSystems == {bot}
MCLinks == {l1, l2}
\* bot's identifier has acme's prefix.
MCUnder == [s \in MCSystems |-> acme]
Alike == Permutations(MCUsers) \cup Permutations(MCLinks)

\* Of a part that does not move one initial state is enough.
MCInit ==
    /\ part \in {"gate", "door", "register"}
    /\ Gate!Init /\ Door!Init /\ Init
    /\ part # "gate" =>
          /\ vaults = {}
          /\ accountOf \in [Gate!Served -> {acme}] /\ modelKey \in [Gate!Served -> {NoKey}]
          /\ key \in [Keys -> {"none"}]
    /\ part # "door" => use = "login"

MCNext ==
    \/ part = "gate" /\ Gate!Next /\ UNCHANGED <<part, doorVars, vars>>
    \/ part = "door" /\ Door!Next /\ UNCHANGED <<part, gateVars, vars>>
    \/ part = "register" /\ Next /\ UNCHANGED <<part, gateVars, doorVars>>

MCSpec == MCInit /\ [][MCNext]_<<part, gateVars, doorVars, vars>>
=============================================================================
