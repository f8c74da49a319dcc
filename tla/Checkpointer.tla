---------------------------- MODULE Checkpointer ----------------------------
(***************************************************************************)
(* apps/server/src/checkpoint/checkpointer.ts: chains are turned into      *)
(* signed checkpoints on a timer, on request from the web view, and the    *)
(* time-stamp authority is asked for a token over each.                    *)
(*                                                                         *)
(* Runs wait for one another on `lock`, a promise chain, while the timers  *)
(* look only at `running`, which is false while a requested run waits out  *)
(* its gap.  Every await is a point where a timer fires, a request comes,  *)
(* a receipt is written or a system is deleted.  What one checkpoint does  *)
(* with the signer is ReceiptStore's; here it covers everything written,   *)
(* is refused, or throws.                                                  *)
(***************************************************************************)
EXTENDS Integers, Sequences, FiniteSets, SequencesExt

CONSTANTS
    Systems,
    NoToken,
    MaxReceipts,    \* bound: receipts of one system
    MaxJobs,        \* bound: runs waiting for one another
    MaxExits        \* bound: how often the process ends

VARIABLES
    written,        \* receipts of each system
    gone,           \* systems deleted
    seals,          \* table checkpoints, by id, with its token if it has one
    timer,          \* "unset", "set" by start(), or "cleared" by stop()
    retryTimer,     \* retryTimer is set
    running,
    requested,      \* a run was asked for and has not started
    jobs,           \* the runs on `lock`, the first one going on
    exits

vars == <<written, gone, seals, timer, retryTimer, running, requested, jobs, exits>>

-----------------------------------------------------------------------------
Ids == 1..(Cardinality(Systems) * MaxReceipts)
Levels == 1..MaxReceipts
Kinds == {"timer", "retry", "asked"}

Seal == [system : Systems, level : Levels, token : (Systems \X Levels) \cup {NoToken}]

\* A run: the systems it listed and has still to check point, the checkpoints
\* it still asks tokens for, the tokens missing so far, and, if it was asked
\* for, the receipts written when it was, and the systems refused.
Job(kind) ==
    [kind |-> kind, phase |-> "queued", todo |-> {}, asking |-> {}, missing |-> 0,
     due |-> written, refused |-> {}]

Waiting == {id \in DOMAIN seals : seals[id].token = NoToken}
LevelsOf(s) == {seals[id].level : id \in {x \in DOMAIN seals : seals[x].system = s}}
Covers(s, n) == n = 0 \/ \E level \in LevelsOf(s) : n <= level

\* INTEGER PRIMARY KEY: one more than the largest in the table.
NewId == IF seals = <<>> THEN 1 ELSE 1 + Max(DOMAIN seals)

Init ==
    /\ written = [s \in Systems |-> 0] /\ gone = {}
    /\ seals = <<>>
    /\ timer = "unset" /\ retryTimer = FALSE /\ running = FALSE /\ requested = FALSE
    /\ jobs = <<>>
    /\ exits = 0

-----------------------------------------------------------------------------
(* What calls for a run. *)

\* exclusively: nothing if a run is going, else behind those on the lock.
Exclusively(kind) == jobs' = IF running THEN jobs ELSE Append(jobs, Job(kind))

Room == Len(jobs) < MaxJobs

\* start() ticks at once.
Start ==
    /\ timer = "unset" /\ Room
    /\ timer' = "set"
    /\ Exclusively("timer")
    /\ UNCHANGED <<written, gone, seals, retryTimer, running, requested, exits>>

\* The interval is longer than the gap a requested run waits out.
Tick ==
    /\ timer = "set" /\ Room
    /\ ~\E i \in 1..Len(jobs) : jobs[i].kind = "timer" /\ jobs[i].phase = "queued"
    /\ Exclusively("timer")
    /\ UNCHANGED <<written, gone, seals, timer, retryTimer, running, requested, exits>>

RetryFires ==
    /\ retryTimer /\ Room
    /\ retryTimer' = FALSE
    /\ Exclusively("retry")
    /\ UNCHANGED <<written, gone, seals, timer, running, requested, exits>>

\* `requested` is the last run asked for.
LastAsked(i) ==
    jobs[i].kind = "asked" /\ \A k \in 1..Len(jobs) : jobs[k].kind = "asked" => k <= i

\* Requests made while it has not started share it.

RequestRun ==
    /\ timer = "set"
    /\ IF requested
       THEN jobs' = [i \in 1..Len(jobs) |-> IF LastAsked(i) THEN [jobs[i] EXCEPT !.due = written] ELSE jobs[i]]
       ELSE Room /\ jobs' = Append(jobs, Job("asked"))
    /\ requested' = TRUE
    /\ UNCHANGED <<written, gone, seals, timer, retryTimer, running, exits>>

-----------------------------------------------------------------------------
(* A run. *)

MayRun(i) == i = 1 /\ jobs # <<>>

In(i, phase) == MayRun(i) /\ jobs[i].phase = phase

FaultLatestOnly == {[id |-> id, seal |-> seals[id]] : id \in {x \in Waiting : \A y \in DOMAIN seals : y <= x}}

\* checkpointsAwaitingTimestamp: those of earlier runs too.
Awaiting == {[id |-> id, seal |-> seals[id]] : id \in Waiting}

\* checkpointAll lists the systems; a retry goes straight to the tokens.
Begin(job) ==
    IF job.kind = "retry"
    THEN [job EXCEPT !.phase = "stamp", !.asking = Awaiting]
    ELSE [job EXCEPT !.phase = "seal", !.todo = {s \in Systems : written[s] > 0}]

StartRun(i) ==
    /\ In(i, "queued") /\ jobs[i].kind # "asked"
    /\ running' = TRUE
    /\ jobs' = [jobs EXCEPT ![i] = Begin(@)]
    /\ UNCHANGED <<written, gone, seals, timer, retryTimer, requested, exits>>

WaitGap(i) ==
    /\ In(i, "queued") /\ jobs[i].kind = "asked"
    /\ jobs' = [jobs EXCEPT ![i].phase = "gap"]
    /\ UNCHANGED <<written, gone, seals, timer, retryTimer, running, requested, exits>>

FaultStillRequested(i) ==
    /\ In(i, "gap")
    /\ running' = TRUE
    /\ jobs' = [jobs EXCEPT ![i] = Begin(@)]
    /\ UNCHANGED <<written, gone, seals, timer, retryTimer, requested, exits>>

\* From here on, a new request needs a run of its own.
StartRequested(i) ==
    /\ In(i, "gap")
    /\ requested' = FALSE
    /\ running' = TRUE
    /\ jobs' = [jobs EXCEPT ![i] = Begin(@)]
    /\ UNCHANGED <<written, gone, seals, timer, retryTimer, exits>>

\* createCheckpoint: the systems go in order of their names, here in any.
Checkpoint(i, s) ==
    /\ In(i, "seal") /\ s \in jobs[i].todo
    /\ jobs' = [jobs EXCEPT ![i].todo = @ \ {s}]
    /\ seals' = IF s \in gone \/ Covers(s, written[s]) THEN seals
                ELSE [id \in DOMAIN seals \cup {NewId} |->
                        IF id \in DOMAIN seals THEN seals[id]
                        ELSE [system |-> s, level |-> written[s], token |-> NoToken]]
    /\ UNCHANGED <<written, gone, timer, retryTimer, running, requested, exits>>

\* The signer disagrees about this system: the others still get theirs.
CheckpointRefused(i, s) ==
    /\ In(i, "seal") /\ s \in jobs[i].todo
    /\ jobs' = [jobs EXCEPT ![i].todo = @ \ {s}, ![i].refused = @ \cup {s}]
    /\ UNCHANGED <<written, gone, seals, timer, retryTimer, running, requested, exits>>

StartStamping(i) ==
    /\ In(i, "seal") /\ jobs[i].todo = {}
    /\ jobs' = [jobs EXCEPT ![i].phase = "stamp", ![i].asking = Awaiting]
    /\ UNCHANGED <<written, gone, seals, timer, retryTimer, running, requested, exits>>

StillToAsk(i, c) == jobs[i].asking \ {c}

\* The authority answered, and recordTimestamp has its turn on the write queue:
\* it fails if the row has gone, or has a token already.
TokenArrives(i, c) ==
    /\ In(i, "stamp") /\ c \in jobs[i].asking
    /\ \A d \in jobs[i].asking : c.id <= d.id
    /\ IF c.id \in Waiting
       THEN /\ seals' = [seals EXCEPT ![c.id].token = <<c.seal.system, c.seal.level>>]
            /\ jobs' = [jobs EXCEPT ![i].asking = @ \ {c}]
       ELSE /\ seals' = seals
            /\ jobs' = [jobs EXCEPT ![i].asking = @ \ {c}, ![i].missing = @ + 1]
    /\ UNCHANGED <<written, gone, timer, retryTimer, running, requested, exits>>

NoTokenCame(i, c) ==
    /\ In(i, "stamp") /\ c \in jobs[i].asking
    /\ \A d \in jobs[i].asking : c.id <= d.id
    /\ jobs' = [jobs EXCEPT ![i].asking = StillToAsk(i, c), ![i].missing = @ + 1]
    /\ UNCHANGED <<written, gone, seals, timer, retryTimer, running, requested, exits>>

\* The end of a run.  Only exclusively schedules another try, and only if the
\* run reached the tokens.
EndRun(i, pending) ==
    /\ running' = FALSE
    /\ jobs' = SubSeq(jobs, 1, i - 1) \o SubSeq(jobs, i + 1, Len(jobs))
    /\ retryTimer' = (retryTimer \/ (jobs[i].kind # "asked" /\ pending > 0 /\ timer = "set"))
    /\ UNCHANGED <<written, gone, seals, timer, requested, exits>>

Stamped(i) == In(i, "stamp") /\ jobs[i].asking = {} /\ EndRun(i, jobs[i].missing)

\* The signer does not answer: the whole run fails.
CheckpointThrows(i) == In(i, "seal") /\ jobs[i].todo # {} /\ EndRun(i, 0)

-----------------------------------------------------------------------------
(* Around it. *)

Write(s) ==
    /\ s \notin gone /\ written[s] < MaxReceipts
    /\ written' = [written EXCEPT ![s] = @ + 1]
    /\ UNCHANGED <<gone, seals, timer, retryTimer, running, requested, jobs, exits>>

\* deleteEmptySystem and the erasures, with the checkpoints and their tokens.
Delete(s) ==
    /\ written[s] > 0
    /\ written' = [written EXCEPT ![s] = 0]
    /\ gone' = gone \cup {s}
    /\ seals' = [id \in {x \in DOMAIN seals : seals[x].system # s} |-> seals[id]]
    /\ UNCHANGED <<timer, retryTimer, running, requested, jobs, exits>>

\* stop() lets a run that is going end by itself.
Stop ==
    /\ timer = "set" /\ exits < MaxExits
    /\ timer' = "cleared" /\ retryTimer' = FALSE
    /\ UNCHANGED <<written, gone, seals, running, requested, jobs, exits>>

\* The process ends, stopped or not, and another takes its place.
Exit ==
    /\ exits < MaxExits
    /\ exits' = exits + 1
    /\ timer' = "unset" /\ retryTimer' = FALSE /\ running' = FALSE /\ requested' = FALSE
    /\ jobs' = <<>>
    /\ UNCHANGED <<written, gone, seals>>

-----------------------------------------------------------------------------
Step(i) ==
    \/ StartRun(i) \/ WaitGap(i) \/ StartRequested(i) \/ StartStamping(i) \/ Stamped(i)
    \/ \E s \in Systems : Checkpoint(i, s) \/ CheckpointRefused(i, s)
    \/ \E c \in jobs[i].asking : TokenArrives(i, c) \/ NoTokenCame(i, c)
    \/ CheckpointThrows(i)

Next ==
    \/ Start \/ Tick \/ RetryFires \/ RequestRun
    \/ \E i \in 1..Len(jobs) : Step(i)
    \/ \E s \in Systems : Write(s) \/ Delete(s)
    \/ Stop \/ Exit

Spec == Init /\ [][Next]_vars

\* The timers fire, a run goes on, a process that was stopped ends and another
\* starts.  The signer answers for every system, and through the last system of
\* a run, again and again; so does the authority for every checkpoint.
Fairness ==
    /\ WF_vars(Start) /\ WF_vars(Tick) /\ WF_vars(RetryFires)
    /\ WF_vars(jobs # <<>> /\ Step(1))
    /\ WF_vars(timer = "cleared" /\ Exit)
    /\ \A s \in Systems :
        /\ SF_vars(jobs # <<>> /\ Checkpoint(1, s))
        /\ SF_vars(jobs # <<>> /\ Head(jobs).todo = {s} /\ Checkpoint(1, s))
    /\ \A id \in Ids : SF_vars(jobs # <<>> /\ \E c \in Head(jobs).asking : c.id = id /\ TokenArrives(1, c))

FairSpec == Spec /\ Fairness

-----------------------------------------------------------------------------

(* checkpointer.ts 152-160: a run asked for covers every receipt written    *)
(* before the last request that shares it, of every system the signer did   *)
(* not refuse and nobody deleted.                                           *)
RequestsAreCovered ==
    \A i \in 1..Len(jobs) :
        jobs[i].kind = "asked" /\ jobs[i].phase = "stamp" =>
            \A s \in Systems \ (jobs[i].refused \cup gone) : Covers(s, jobs[i].due[s])

(* Every checkpoint gets its token, unless its system is deleted, once the  *)
(* authority and the signer answer: through failed runs and restarts.       *)
EveryCheckpointAnchored == \A id \in Ids : id \in Waiting ~> id \notin Waiting
=============================================================================
