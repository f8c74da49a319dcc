----------------------------- MODULE AgentSide -----------------------------
(* What the SDK does for an agent, on the agent's computer: the exporter and its
   way to the server (Delivery), the process it is in, with its heartbeat and its
   guard (AgentProcess), and the guard's rounds against the clock (Guard).

   The three share no variable and none waits for another, so that a formula
   about one of them, all of which are blind to stuttering, holds of every
   interleaving exactly when it holds of that one alone: one of them moves, and
   part says which.                                                          *)
EXTENDS Delivery

CONSTANTS
    None,
    STRICT_MISSED_BEATS, MaxUpsets,
    BeatEvery, OFFLINE_MIN_SECONDS, Timeout, SleepLength, MaxTime, MaxSleeps

VARIABLES
    part,
    sdk, strict, onHalt, program, ending, marked, beating, requests, sending,
    missed, halted, guard, word, said, answers, changed, upsets,
    now, network, cutFrom, slept, sleeps, longCut, step,
    lastTick, lastOk, downSince, pending, nextPing, untold, still

processVars == <<sdk, strict, onHalt, program, ending, marked, beating, requests, sending,
                 missed, halted, guard, word, said, answers, changed, upsets>>
clockVars == <<now, network, cutFrom, slept, sleeps, longCut, step,
               lastTick, lastOk, downSince, pending, nextPing, untold, still>>

Process == INSTANCE AgentProcess WITH
    MaxFaults <- MaxUpsets, queue <- requests, up <- answers, faults <- upsets

Clock == INSTANCE Guard WITH Never <- None, up <- network, at <- step

ASSUME SideConstants == Process!AgentProcessConstants /\ Clock!GuardConstants

SideInit ==
    /\ part \in {"delivery", "process", "clock"}
    /\ Init /\ Process!Init /\ Clock!Init
    /\ part # "process" => sdk = "python" /\ ~strict /\ onHalt = "default"

SideNext ==
    \/ part = "delivery" /\ Next /\ UNCHANGED <<part, processVars, clockVars>>
    \/ part = "process" /\ Process!Next /\ UNCHANGED <<part, vars, clockVars>>
    \/ part = "clock" /\ Clock!Next /\ UNCHANGED <<part, vars, processVars>>

SideSpec ==
    /\ SideInit /\ [][SideNext]_<<part, vars, processVars, clockVars>>
    /\ part = "delivery" => Fairness

\* The properties of the other two, by the names they have in their modules.
EndIsTold == Process!EndIsTold
LongCutsAreTold == Clock!LongCutsAreTold
=============================================================================
