----------------------------- MODULE MCHosting -----------------------------
(* What runs on its own in a hosted installation, on a small instance: the
   checkpoints and their tokens (Checkpointer), the light of a system (Health) and
   the updates of the server (Updates).

   The parts share no variable and none waits for another, so that a formula
   about one of them, all of which are blind to stuttering, holds of every
   interleaving exactly when it holds of that one alone: TLC takes them one
   after the other, and part says which of them moves.                      *)
EXTENDS Checkpointer

CONSTANTS s1, s2, Nothing

VARIABLES
    part,
    now, chain, stamps, connection, diverged, answers, checked, broken, reachable,
    main, head, built, live, stage, target, failed, removed, refused, deaths, removals

lightVars == <<now, chain, stamps, connection, diverged, answers, checked, broken, reachable>>
updateVars == <<main, head, built, live, stage, target, failed, removed, refused, deaths, removals>>

Light == INSTANCE Health WITH
    MaxAnchorDelay <- 0, StaleAfter <- 0, MaxReceipts <- 3, MaxSeals <- 1, MaxTime <- 1,
    None <- Nothing, signer <- answers, failed <- broken, seals <- stamps

Upkeep == INSTANCE Updates WITH
    MaxCommit <- 4, MaxRemoved <- 2, MaxDeaths <- 2, running <- live

ASSUME PartsConstants == Light!HealthConstants /\ Upkeep!UpdatesConstants

MCInit ==
    /\ part \in {"checkpoints", "light", "updates"}
    /\ Init /\ Light!Init /\ Upkeep!Init

MCNext ==
    \/ part = "checkpoints" /\ Next /\ UNCHANGED <<part, lightVars, updateVars>>
    \/ part = "light" /\ Light!Next /\ UNCHANGED <<part, vars, updateVars>>
    \/ part = "updates" /\ Upkeep!Next /\ UNCHANGED <<part, vars, lightVars>>

MCFairness ==
    \/ part = "checkpoints" /\ Fairness
    \/ part = "light" /\ Light!Fairness
    \/ part = "updates" /\ Upkeep!Fairness

MCSpec == MCInit /\ [][MCNext]_<<part, vars, lightVars, updateVars>> /\ MCFairness

\* The properties of the other two, by the names they have in their modules.
DamageShows == Light!DamageShows
FollowsMain == Upkeep!FollowsMain
=============================================================================
