------------------------------ MODULE MCSigner ------------------------------
(* The signer and the line to it on a small instance.                       *)
(*                                                                          *)
(* The parts share no variable.  A formula about one of them, which is      *)
(* blind to stuttering, holds of every interleaving exactly when it holds   *)
(* of that one alone: TLC takes them one after the other, and part says     *)
(* which moves.                                                             *)
EXTENDS Signer, SignerLine

CONSTANTS
    s1, s2, s3, g, a,
    x, y, z,            \* requests of the server
    first, second       \* keys of the signer

VARIABLE part

MCSystems == {s1, s2, s3}
MCBodies == {g, a}

\* s1 is new, s2 was adopted with a genesis the journal does not hold, and s3
\* is the identifier of a deleted system.
MCAdopted ==
    [s \in MCSystems |->
        CASE s = s1 -> Unknown
          [] s = s2 -> Chain(<<[system_id |-> s2, seq |-> 0, body |-> g, ts_received |-> 0]>>)
          [] s = s3 -> Retired]

MCInit ==
    /\ part \in {"signer", "line"}
    /\ Init /\ Line!Init
    /\ part # "signer" => now = 0
    /\ part # "line" => signer = Down

MCNext ==
    \/ part = "signer" /\ Next /\ UNCHANGED <<part, lineVars>>
    \/ part = "line" /\ Line!Next /\ UNCHANGED <<part, vars>>

MCSpec ==
    /\ MCInit /\ [][MCNext]_<<part, vars, lineVars>>
    /\ part = "line" => Line!Fairness
=============================================================================
