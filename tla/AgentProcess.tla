---------------------------- MODULE AgentProcess ----------------------------
(***************************************************************************)
(* How an agent's process says that it is there and that it ends: the      *)
(* heartbeat of the two SDKs (packages/sdk-typescript/src/heartbeat.ts,    *)
(* class _Heartbeat of sdk-python/src/sigillo/__init__.py), the guard      *)
(* process beside it (guard.ts, _watchdog.py), the program that closes,    *)
(* returns, crashes or is killed at any moment, and strict mode, which     *)
(* stops it.  What the server makes of the words is ConnectionWatch, and   *)
(* the gaps the guard reports are Guard.                                   *)
(***************************************************************************)
EXTENDS Naturals, Sequences, SequencesExt

CONSTANTS
    STRICT_MISSED_BEATS,
    None,
    MaxFaults       \* bound: guards killed, scripts edited

AgentProcessConstants ==
    /\ STRICT_MISSED_BEATS \in Nat \ {0} /\ MaxFaults \in Nat
    /\ None \notin {"closed", "exit", "start", "beat", "stop"}

VARIABLES
    sdk, strict, onHalt,    \* which SDK, and how init was called
    program,    \* the process: "running", "closing" (in close()), "closed" or "over"
    ending,     \* why it ends, once it does
    marked,     \* _closed, #closed
    beating,    \* the heartbeat's thread, or timer, goes on
    queue, sending,     \* requests in their order, and the one under way
    missed, halted,
    guard,      \* "watching", "ending the agent", and how it ended itself
    word,       \* what the agent left on the guard's standard input
    said,       \* the words posted, a beat repeated being one
    up,         \* the server answers
    changed,    \* the script is not the one it started with
    faults

options == <<sdk, strict, onHalt>>
heartbeat == <<beating, queue, sending, missed, halted>>
agent == <<program, ending, marked, word>>
world == <<up, changed, faults>>
vars == <<options, agent, heartbeat, guard, said, world>>

Endings == {"returns", "exits", "crashes", "is killed", "halts", "is ended by its guard"}

TypeOK ==
    /\ sdk \in {"python", "typescript"} /\ strict \in BOOLEAN
    /\ onHalt \in {"default", "shuts down"}
    /\ program \in {"running", "closing", "closed", "over"}
    /\ ending \in Endings \cup {None}
    /\ marked \in BOOLEAN /\ beating \in BOOLEAN
    /\ queue \in Seq({"start", "beat", "stop"}) /\ sending \in {"start", "beat", "stop", None}
    /\ missed \in Nat /\ halted \in BOOLEAN
    /\ guard \in {"watching", "ending the agent", "told", "ended the agent", "killed"}
    /\ word \in {"closed", "exit", None}
    /\ said \in Seq({"start", "beat", "stop", "ended", "changed"})
    /\ up \in BOOLEAN /\ changed \in BOOLEAN /\ faults \in 0..MaxFaults

Init ==
    /\ sdk \in {"python", "typescript"} /\ strict \in BOOLEAN
    /\ onHalt \in {"default", "shuts down"}
    /\ program = "running" /\ ending = None /\ marked = FALSE /\ word = None
    /\ beating = TRUE /\ queue = <<"start">> /\ sending = None
    /\ missed = 0 /\ halted = FALSE
    /\ guard = "watching" /\ said = <<>>
    /\ up = TRUE /\ changed = FALSE /\ faults = 0

Say(event) == said' = IF said # <<>> /\ Last(said) = event THEN said ELSE Append(said, event)

-----------------------------------------------------------------------------
(* The end of the process, and what runs as it ends.                        *)

\* Node's 'exit' handler, which can only tell the guard; it is taken off by
\* close().  A killed process runs nothing, nor does os._exit.
ExitHandlerRuns(why) ==
    sdk = "typescript" /\ ~marked /\ why \notin {"is killed", "is ended by its guard"}

Over(why) ==
    /\ program' = "over" /\ ending' = why
    /\ word' = IF ExitHandlerRuns(why) THEN "exit" ELSE word
    /\ marked' = (marked \/ ExitHandlerRuns(why))
    /\ beating' = FALSE /\ queue' = <<>> /\ sending' = None

FaultGuardToldFirst(why) ==
    /\ program' = "closing" /\ ending' = why /\ marked' = TRUE
    /\ beating' = FALSE /\ queue' = Append(queue, "stop") /\ word' = "closed"

Close(why) ==
    /\ program' = "closing" /\ ending' = why /\ marked' = TRUE
    /\ beating' = FALSE /\ queue' = Append(queue, "stop")
    /\ UNCHANGED word

\* The program calls shutdown().
Shutdown ==
    /\ program = "running" /\ ~marked
    /\ Close(ending)
    /\ UNCHANGED <<options, sending, missed, halted, guard, said, world>>

CloseReturns ==
    /\ program = "closing" /\ queue = <<>> /\ sending = None
    /\ program' = "closed" /\ word' = "closed"
    /\ UNCHANGED <<options, ending, marked, heartbeat, guard, said, world>>

\* What closes first when the program ends by itself: atexit, which runs after
\* sys.exit and an uncaught exception too; beforeExit only once nothing is left
\* to do.
ClosesFirst(why) == sdk = "python" \/ why = "returns"

Ends(why) ==
    /\ program # "over" /\ ending = None
    /\ \/ ClosesFirst(why) /\ ~marked /\ Close(why) /\ UNCHANGED sending
       \/ ClosesFirst(why) /\ marked /\ program # "closing" /\ Over(why)
       \/ ~ClosesFirst(why) /\ Over(why)
    /\ UNCHANGED <<options, missed, halted, guard, said, world>>

\* atexit or beforeExit has closed, and the process goes.
Leaves ==
    /\ program = "closed" /\ ending # None
    /\ Over(ending)
    /\ UNCHANGED <<options, missed, halted, guard, said, world>>

Killed ==
    /\ program # "over"
    /\ Over("is killed")
    /\ UNCHANGED <<options, missed, halted, guard, said, world>>

-----------------------------------------------------------------------------
(* The heartbeat, and strict mode.                                          *)

NextBeat ==
    /\ beating /\ program = "running" /\ queue = <<>>
    /\ sending = None \/ sdk = "typescript"
    /\ queue' = <<"beat">>
    /\ UNCHANGED <<options, agent, beating, sending, missed, halted, guard, said, world>>

\* _halt, #halt: in strict mode only, and once.
MayHalt == strict /\ ~halted

\* An on_halt that shuts down is called, in Python, on the heartbeat's thread:
\* close() takes itself for done, then joins the thread it runs on, which
\* raises, and the thread is over.  By default the process leaves with status
\* 70, by os._exit in one SDK and by process.exit in the other.
ShutsDown ==
    \/ marked /\ UNCHANGED <<agent, beating, queue>>
    \/ ~marked /\ sdk = "typescript" /\ Close(ending)
    \/ /\ ~marked /\ sdk = "python"
       /\ marked' = TRUE /\ beating' = FALSE /\ queue' = <<>>
       /\ UNCHANGED <<program, ending, word>>

Halt ==
    /\ halted' = TRUE
    /\ \/ onHalt = "default" /\ Over("halts")
       \/ onHalt # "default" /\ ShutsDown /\ sending' = None

\* Looked at before each request but the stop.
GuardIsGone == guard \notin {"watching", "ending the agent"} /\ Head(queue) # "stop"

GuardIsMissed ==
    /\ sending = None /\ queue # <<>> /\ GuardIsGone /\ MayHalt
    /\ Halt
    /\ UNCHANGED <<options, missed, guard, said, world>>

\* Each request waits for the one before.
Send ==
    /\ sending = None /\ queue # <<>> /\ ~(GuardIsGone /\ MayHalt)
    /\ sending' = Head(queue) /\ queue' = Tail(queue)
    /\ Say(sending')
    /\ UNCHANGED <<options, agent, beating, missed, halted, guard, world>>

Goes == sending' = None /\ UNCHANGED <<agent, beating, queue, halted>>

\* The answer to a start or a beat says whether the script changed, to a system
\* the server watches.
Answered ==
    /\ up /\ sending # None
    /\ missed' = 0
    /\ \/ Goes
       \/ changed /\ sending # "stop" /\ MayHalt /\ Halt
    /\ UNCHANGED <<options, guard, said, world>>

NotDelivered ==
    /\ ~up /\ sending # None
    /\ missed' = IF sending = "stop" \/ missed = STRICT_MISSED_BEATS THEN missed ELSE missed + 1
    /\ IF sending # "stop" /\ missed' = STRICT_MISSED_BEATS /\ MayHalt THEN Halt ELSE Goes
    /\ UNCHANGED <<options, guard, said, world>>

-----------------------------------------------------------------------------
(* The guard process.                                                       *)

Hangup == program = "over" \/ word = "closed"

\* Its standard input is at its end, even while it is ending the agent: a stop
\* for an agent that could not send its own, ended for one that left no word.
GuardHears ==
    /\ guard \in {"watching", "ending the agent"} /\ Hangup
    /\ guard' = "told"
    /\ CASE word = "closed" -> UNCHANGED said
         [] word = "exit" -> Say("stop")
         [] OTHER -> Say("ended")
    /\ UNCHANGED <<options, agent, heartbeat, world>>

\* A changed script: the server is told, and the agent is ended.  The Python
\* SDK leaves an agent with an on_halt of its own to it.
GuardSees ==
    /\ guard = "watching" /\ changed /\ strict
    /\ sdk = "python" => onHalt = "default"
    /\ guard' = "ending the agent"
    /\ Say("changed")
    /\ UNCHANGED <<options, agent, heartbeat, world>>

GuardEnds ==
    /\ guard = "ending the agent"
    /\ guard' = "ended the agent"
    /\ IF program = "over" THEN UNCHANGED <<agent, beating, queue, sending>>
       ELSE Over("is ended by its guard")
    /\ UNCHANGED <<options, missed, halted, said, world>>

-----------------------------------------------------------------------------
(* What happens to them.                                                    *)

GuardKilled ==
    /\ guard \in {"watching", "ending the agent"} /\ faults < MaxFaults
    /\ guard' = "killed" /\ faults' = faults + 1
    /\ UNCHANGED <<options, agent, heartbeat, said, up, changed>>

Edited ==
    /\ ~changed /\ faults < MaxFaults
    /\ changed' = TRUE /\ faults' = faults + 1
    /\ UNCHANGED <<options, agent, heartbeat, guard, said, up>>

NetworkChanges ==
    /\ up' = ~up
    /\ UNCHANGED <<options, agent, heartbeat, guard, said, changed, faults>>

Program == Shutdown \/ CloseReturns \/ Leaves \/ Killed
             \/ \E why \in {"returns", "exits", "crashes"} : Ends(why)
Heartbeat == NextBeat \/ GuardIsMissed \/ Send \/ Answered \/ NotDelivered
Guard == GuardHears \/ GuardSees \/ GuardEnds
World == GuardKilled \/ Edited \/ NetworkChanges

Next == Program \/ Heartbeat \/ Guard \/ World

Spec == Init /\ [][Next]_vars

\* The timer fires and a request ends, answered or not after ten seconds; a
\* close goes on, and a guard reads its input.  Nothing is asked of the network
\* or of the program.
Fairness ==
    /\ WF_vars(NextBeat) /\ WF_vars(GuardIsMissed) /\ WF_vars(Send)
    /\ WF_vars(Answered \/ NotDelivered)
    /\ WF_vars(CloseReturns) /\ WF_vars(Leaves) /\ WF_vars(Guard)

FairSpec == Spec /\ Fairness

-----------------------------------------------------------------------------
(* What is promised.                                                        *)

Words == Range(said)

\* Somebody says how an agent ended, unless its guard was killed, or was ending
\* it: a stop, by the agent or by its guard, or ended.  Whatever the moment the
\* process dies at, close() half-way included (__init__.py close, heartbeat.ts
\* close and #onExit, guard.ts main).
EndIsTold == program = "over" /\ guard = "told" => Words \cap {"stop", "ended"} # {}
=============================================================================
