-------------------------- MODULE MCConnectionWatch --------------------------
(* Values of the constants of ConnectionWatch for model checking. *)
EXTENDS ConnectionWatch

CONSTANTS c1, c2, h1, h2, monday, tuesday

MCOne == {c1}
MCTwo == {c1, c2}
MCHashes == {h1, h2}
\* c1 runs before the computer is switched off, c2 after.
MCBootOf == [s \in MCTwo |-> IF s = c1 THEN monday ELSE tuesday]
=============================================================================
