------------------------------- MODULE Guard -------------------------------
(***************************************************************************)
(* The guard process beside an agent (sdk-typescript/src/guard.ts; the     *)
(* Python SDK's _watchdog.py keeps the same books): what it says of the    *)
(* computer's sleeps and of the network's cuts, told only from the times at*)
(* which its own loop runs and its own pings are answered.                 *)
(*                                                                         *)
(* Time is counted in periods of the loop, of five seconds.                *)
(***************************************************************************)
EXTENDS Naturals, Sequences

CONSTANTS
    BeatEvery,              \* between two pings: 60 s by default
    OFFLINE_MIN_SECONDS,    \* 120 s
    Timeout,                \* of one POST: 10 s
    SleepLength,            \* how long the computer sleeps
    Never,                  \* no time
    MaxTime,                \* bound: when the guard is no longer looked at
    MaxSleeps               \* bound: sleeps of the computer

GuardConstants ==
    /\ {BeatEvery, OFFLINE_MIN_SECONDS, Timeout, SleepLength, MaxTime, MaxSleeps} \subseteq Nat
    /\ Never \notin Nat

VARIABLES
    now,                    \* the computer's clock
    up,                     \* does the network reach the server
    cutFrom,                \* when the network was cut last
    slept,                  \* the computer slept since the loop last ran
    sleeps,
    longCut,                \* when a cut of OFFLINE_MIN_SECONDS began, that no answer
                            \* and no sleep came after yet
    at,                     \* which await the loop is at
    lastTick, lastOk, downSince, pending, nextPing,     \* Gaps, and watch()
    untold, still           \* the gaps of this round: to post, and posted in vain

vars == <<now, up, cutFrom, slept, sleeps, longCut, at,
          lastTick, lastOk, downSince, pending, nextPing, untold, still>>

computer == <<now, slept, sleeps>>
network == <<up, cutFrom>>
gaps == <<lastTick, lastOk, downSince>>

Gap == [kind : {"sleep", "offline"}, from : Nat]

TypeOK ==
    /\ now \in Nat /\ up \in BOOLEAN /\ slept \in BOOLEAN
    /\ sleeps \in 0..MaxSleeps
    /\ {cutFrom, longCut, downSince} \subseteq Nat \cup {Never}
    /\ at \in {"waiting", "due", "pinging", "telling"}
    /\ {lastTick, lastOk, nextPing} \subseteq Nat
    /\ {pending, untold, still} \subseteq Seq(Gap)

Init ==
    /\ now = 0 /\ up = TRUE /\ cutFrom = Never
    /\ slept = FALSE /\ sleeps = 0 /\ longCut = Never
    /\ at = "waiting"
    /\ lastTick = 0 /\ lastOk = 0 /\ downSince = Never /\ nextPing = BeatEvery
    /\ pending = <<>> /\ untold = <<>> /\ still = <<>>

(***************************************************************************)
(* The computer and the network.                                           *)
(***************************************************************************)
Cut ==
    /\ up /\ up' = FALSE
    /\ cutFrom' = now
    /\ UNCHANGED <<computer, longCut, at, gaps, pending, nextPing, untold, still>>

Back ==
    /\ ~up /\ up' = TRUE
    /\ longCut' = IF longCut = Never /\ now - cutFrom >= OFFLINE_MIN_SECONDS
                  THEN cutFrom ELSE longCut
    /\ UNCHANGED <<computer, cutFrom, at, gaps, pending, nextPing, untold, still>>

(* Time passes while the loop waits, and the computer may sleep meanwhile. *)
Passes(time) ==
    /\ now <= MaxTime
    /\ \/ now' = now + time /\ UNCHANGED <<slept, sleeps>>
       \/ /\ sleeps < MaxSleeps
          /\ now' = now + time + SleepLength
          /\ slept' = TRUE /\ sleeps' = sleeps + 1

(***************************************************************************)
(* watch(): one round of the loop.                                         *)
(***************************************************************************)
Jumped == now - lastTick > 3 * 1 + 3

Wait ==
    /\ at = "waiting" /\ at' = "due"
    /\ Passes(1)
    /\ UNCHANGED <<network, longCut, gaps, pending, nextPing, untold, still>>

Tell(list) ==
    /\ at' = IF list = <<>> THEN "waiting" ELSE "telling"
    /\ untold' = list
    /\ still' = <<>>

(* Gaps.tick.  A sleep is the end of what went before: of a failed ping, and of
   a cut.                                                                  *)
Sleeping ==
    /\ pending' = Append(pending, [kind |-> "sleep", from |-> lastTick])
    /\ downSince' = Never /\ lastOk' = now
    /\ longCut' = Never
    /\ cutFrom' = IF up THEN cutFrom ELSE now

(* A ping if one is due, or straight to the gaps. *)
Tick ==
    /\ at = "due"
    /\ slept' = FALSE
    /\ lastTick' = now
    /\ IF Jumped THEN Sleeping ELSE UNCHANGED <<pending, downSince, lastOk, longCut, cutFrom>>
    /\ IF now >= nextPing
       THEN at' = "pinging" /\ nextPing' = now + BeatEvery /\ UNCHANGED <<untold, still>>
       ELSE UNCHANGED nextPing /\ Tell(pending')
    /\ UNCHANGED <<now, sleeps, up>>

FaultSinceNow == now

DownSince == IF downSince = Never THEN lastOk ELSE downSince

PingFails ==
    /\ at = "pinging" /\ ~up
    /\ \/ UNCHANGED computer        \* refused at once
       \/ Passes(Timeout)
    /\ downSince' = DownSince
    /\ Tell(pending)
    /\ UNCHANGED <<network, longCut, lastTick, lastOk, pending, nextPing>>

PingAnswered ==
    /\ at = "pinging" /\ up
    /\ pending' = IF downSince # Never /\ now - downSince >= OFFLINE_MIN_SECONDS
                  THEN Append(pending, [kind |-> "offline", from |-> downSince])
                  ELSE pending
    /\ downSince' = Never /\ lastOk' = now
    /\ longCut' = Never
    /\ Tell(pending')
    /\ UNCHANGED <<computer, network, lastTick, nextPing>>

(* One gap is posted; those in vain wait for the next round. *)
Posted(kept) ==
    /\ untold' = Tail(untold)
    /\ IF Tail(untold) = <<>>
       THEN at' = "waiting" /\ pending' = kept /\ still' = <<>>
       ELSE still' = kept /\ UNCHANGED <<at, pending>>

GapTold ==
    /\ at = "telling" /\ up
    /\ Posted(still)
    /\ UNCHANGED <<computer, network, longCut, gaps, nextPing>>

GapNotTold ==
    /\ at = "telling" /\ ~up
    /\ \/ UNCHANGED computer
       \/ Passes(Timeout)
    /\ Posted(Append(still, Head(untold)))
    /\ UNCHANGED <<network, longCut, gaps, nextPing>>

Next == Cut \/ Back \/ Wait \/ Tick \/ PingFails \/ PingAnswered \/ GapTold \/ GapNotTold

Spec == Init /\ [][Next]_vars

(***************************************************************************)
(* Properties.                                                             *)
(***************************************************************************)
Reports(kind) ==
    /\ Len(pending') > Len(pending)
    /\ pending'[Len(pending')].kind = kind

(* A cut of two minutes is reported by the first ping answered after it, from a
   time no later than it began, whatever came between: short cuts, failed
   pings, gaps that could not be told.  Only a sleep, reported since, hides it
   (guard.ts:10-11).                                                        *)
LongCutsAreTold ==
    [][PingAnswered /\ longCut # Never =>
         Reports("offline") /\ pending'[Len(pending')].from <= longCut]_vars
=============================================================================
