--------------------------- MODULE ConnectionWatch ---------------------------
(***************************************************************************)
(* apps/server/src/connection/watch.ts: the heartbeat of one system's      *)
(* agents, and the receipts the server writes when a session's state       *)
(* changes.                                                                *)
(*                                                                         *)
(* Handlers and the sweep run one at a time (`serially`); each decides its *)
(* writes from the rows it reads when it starts, then makes them one by    *)
(* one with recordConnection, and a write that fails drops the rest.       *)
(* ReceiptStore says what a write can come to: the receipt stored with the *)
(* session's row, nothing at all, or a receipt only the signer holds,      *)
(* which reconciliation later stores without the row.                      *)
(*                                                                         *)
(* A request, once sent, arrives at any time or never: the SDK waits ten   *)
(* seconds for an answer, then sends the next.  Every agent runs the same  *)
(* script, under the script guard.  Time passes in ticks longer than a     *)
(* handler takes; only how long ago something was is kept.                 *)
(***************************************************************************)
EXTENDS Integers, Sequences, FiniteSets, SequencesExt

CONSTANTS
    Sessions,
    Hashes,                 \* what a script can hash to
    NoHash,                 \* script_hash null
    BootOf,                 \* when each session's computer was switched on
    NoBoot,                 \* boot_at null
    Nothing,                \* no receipt
    LOST_AFTER,             \* lostAfterMs, in ticks
    MAX_NEW_SESSIONS,       \* maxNewSessionsPerHour
    MAX_GAPS,               \* MAX_GAPS_PER_HOUR
    MaxBeats,               \* bound: beats and gaps sent
    MaxFaults               \* bound: failed writes and crashes

ASSUME WatchAssumption ==
    /\ IsFiniteSet(Sessions)
    /\ LOST_AFTER \in Nat /\ MAX_NEW_SESSIONS \in Nat /\ MAX_GAPS \in Nat
    /\ MaxBeats \in Nat /\ MaxFaults \in Nat

VARIABLES
    \* the agents and the network
    agent,      \* of each session: "new", "running", "closed", "dead" or "gone"
    budget,     \* beats and gaps they may still send
    script,     \* the hash of the agents' script
    net,        \* requests on their way, or lost
    \* the database
    conn,       \* table connections
    order,      \* sessions, the most recent beat first
    chain,      \* the connection receipts on the chain
    ahead,      \* the receipt only the signer holds, or Nothing
    \* the server process
    up,
    upFor,      \* ticks since it started
    todo,       \* the writes the handler at work has still to make
    opened,     \* sessions opened in the last hour
    gaps,       \* gaps of each session in the last hour
    \* history and time
    age,        \* ticks since each session's last_beat_at
    edited,     \* sessions that started with another script than the last one
    faults

agentVars == <<agent, budget, script, net>>
dbVars == <<conn, order, chain, ahead, age>>
serverVars == <<up, upFor, todo, opened, gaps, edited>>
vars == <<agentVars, dbVars, serverVars, faults>>

-----------------------------------------------------------------------------
Row == [state : {"unknown", "open", "lost", "closed"},
        hash : Hashes \cup {NoHash}, changed : BOOLEAN,
        boot : {BootOf[s] : s \in Sessions} \cup {NoBoot}]
NeverSeen == [state |-> "unknown", hash |-> NoHash, changed |-> FALSE, boot |-> NoBoot]

Names == {"start", "stop", "lost", "ended", "restored", "script_changed", "gap", "power_off"}
StateNames == {"start", "stop", "lost", "ended", "restored"}

\* A receipt does not name its session; the model does, and marks the ones
\* stored by reconciliation, without the session's row.
Receipt(s, name, kept) == [session |-> s, name |-> name, kept |-> kept]

\* recordConnection(row, event): the row it saves, whether that moves
\* last_beat_at, and the receipt's name, or "none" for an ordinary beat.
Change(s, name, row, beat) == [session |-> s, name |-> name, row |-> row, beat |-> beat]

Init ==
    /\ agent = [s \in Sessions |-> "new"] /\ budget = MaxBeats
    /\ script \in Hashes /\ net = {}
    /\ conn = [s \in Sessions |-> NeverSeen] /\ order = <<>>
    /\ chain = <<>> /\ ahead = Nothing
    /\ up = TRUE /\ upFor = 0 /\ todo = <<>>
    /\ opened = 0 /\ gaps = [s \in Sessions |-> 0]
    /\ age = [s \in Sessions |-> 0] /\ edited = {} /\ faults = 0

-----------------------------------------------------------------------------
(* The agents: the SDK's Heartbeat and its guard process. *)

Request(s, event) == [session |-> s, event |-> event, hash |-> script]
SendRequest(s, event) == net' = net \cup {Request(s, event)}

AgentStarts(s) ==
    /\ agent[s] = "new"
    /\ agent' = [agent EXCEPT ![s] = "running"]
    /\ SendRequest(s, "start")
    /\ UNCHANGED <<budget, script, dbVars, serverVars, faults>>

AgentBeats(s, event) ==
    /\ agent[s] = "running" /\ budget > 0
    /\ budget' = budget - 1
    /\ SendRequest(s, event)
    /\ UNCHANGED <<agent, script, dbVars, serverVars, faults>>

AgentCloses(s) ==
    /\ agent[s] = "running"
    /\ agent' = [agent EXCEPT ![s] = "closed"]
    /\ SendRequest(s, "stop")
    /\ UNCHANGED <<budget, script, dbVars, serverVars, faults>>

AgentDies(s) ==
    /\ agent[s] = "running"
    /\ agent' = [agent EXCEPT ![s] = "dead"]
    /\ UNCHANGED <<budget, script, net, dbVars, serverVars, faults>>

\* The guard outlived the agent: the computer is still on.
GuardTells(s) ==
    /\ agent[s] = "dead"
    /\ agent' = [agent EXCEPT ![s] = "gone"]
    /\ SendRequest(s, "ended")
    /\ UNCHANGED <<budget, script, dbVars, serverVars, faults>>

EditScript(hash) ==
    /\ hash # script /\ \E s \in Sessions : agent[s] \in {"new", "running"}
    /\ script' = hash
    /\ UNCHANGED <<agent, budget, net, dbVars, serverVars, faults>>

-----------------------------------------------------------------------------
(* heartbeat() and gap(): what a request writes, from the rows as read. *)

\* The row as `row` makes it; a stop carries neither hash nor boot time.
RowOf(m, known, state, changed) ==
    IF known.state # "unknown" THEN [known EXCEPT !.state = state, !.changed = changed]
    ELSE [state |-> state, changed |-> changed,
          hash |-> IF m.event = "stop" THEN NoHash ELSE m.hash,
          boot |-> IF m.event = "stop" THEN NoBoot ELSE BootOf[m.session]]

\* The latest of these sessions, if there is one.
Latest(some) ==
    LET found == SelectSeq(order, LAMBDA x : x \in some) IN {found[i] : i \in {1} \cap DOMAIN found}

ScriptDiffers(m) == \E s \in Latest({x \in Sessions : conn[x].hash # NoHash}) : conn[s].hash # m.hash

RestartedComputer(m) ==
    /\ BootOf[m.session] # NoBoot
    /\ \E s \in Latest({x \in Sessions : conn[x].boot # NoBoot}) :
        conn[s].state # "closed" /\ conn[s].boot # BootOf[m.session]

\* A session the server has not heard from, in this order.
Opening(m) ==
    LET open(name) == Change(m.session, name, RowOf(m, NeverSeen, "open", FALSE), TRUE)
    IN  <<open("start")>>
        \o (IF RestartedComputer(m) THEN <<open("power_off")>> ELSE <<>>)
        \o (IF ScriptDiffers(m) THEN <<open("script_changed")>> ELSE <<>>)

ScriptEdited(m, known) == known.hash # NoHash /\ ~known.changed /\ m.hash # known.hash

Going(m, known) ==
    LET change(name, changed) == Change(m.session, name, RowOf(m, known, "open", changed), TRUE)
        back == IF known.state # "open" THEN <<change("restored", known.changed)>> ELSE <<>>
    IN  IF ScriptEdited(m, known) THEN Append(back, change("script_changed", TRUE))
        ELSE IF back # <<>> THEN back
        ELSE <<change("none", known.changed)>>

Closing(m, known) ==
    IF known.state = "closed" THEN <<>>
    ELSE <<Change(m.session, "stop", RowOf(m, known, "closed", known.changed), TRUE)>>

\* Only an open session is ended: a lost or closed one has said more.
Ending(m, known) ==
    IF known.state = "open" THEN <<Change(m.session, "ended", [known EXCEPT !.state = "lost"], FALSE)>> ELSE <<>>

MayGap(m, known) == known.state \in {"open", "lost"} /\ gaps[m.session] < MAX_GAPS

\* admitNewSession counts a session before anything is written.
Refused(m, known) ==
    known.state = "unknown" /\ m.event \notin {"gap", "ended"} /\ opened >= MAX_NEW_SESSIONS

Writes(m, known) ==
    CASE m.event = "gap" -> IF MayGap(m, known) THEN <<Change(m.session, "gap", known, FALSE)>> ELSE <<>>
      [] m.event = "ended" -> Ending(m, known)
      [] m.event = "stop" -> Closing(m, known)
      [] OTHER -> IF known.state = "unknown" THEN Opening(m) ELSE Going(m, known)

-----------------------------------------------------------------------------
(* The server. *)

FaultNotInTurn == up
InTurn == up /\ todo = <<>>

Handle(m) ==
    LET known == conn[m.session]
    IN  /\ InTurn
        /\ net' = net \ {m}
        /\ IF Refused(m, known) THEN UNCHANGED serverVars
           ELSE /\ todo' = todo \o Writes(m, known)
                /\ opened' = opened + (IF known.state = "unknown" /\ m.event \notin {"gap", "ended"} THEN 1 ELSE 0)
                /\ gaps' = [gaps EXCEPT ![m.session] = @ + (IF m.event = "gap" /\ MayGap(m, known) THEN 1 ELSE 0)]
                /\ edited' = edited \cup {s \in {m.session} :
                                known.state = "unknown" /\ m.event \in {"start", "beat"} /\ ScriptDiffers(m)}
                /\ UNCHANGED <<up, upFor>>
        /\ UNCHANGED <<agent, budget, script, dbVars, faults>>

FaultNoAllowance == {s \in Sessions : conn[s].state = "open" /\ age[s] > LOST_AFTER}
FaultFirstLossOnly ==
    {s \in Sessions : /\ conn[s].state = "open" /\ age[s] > LOST_AFTER /\ upFor > LOST_AFTER
                      /\ \A i \in 1..Len(chain) : chain[i] # Receipt(s, "restored", TRUE)}
Silent == {s \in Sessions : conn[s].state = "open" /\ age[s] > LOST_AFTER /\ upFor > LOST_AFTER}

Sweep ==
    /\ InTurn /\ Silent # {}
    /\ \E list \in SetToSeqs(Silent) :
        todo' = [i \in 1..Len(list) |->
                    Change(list[i], "lost", [conn[list[i]] EXCEPT !.state = "lost"], FALSE)]
    /\ UNCHANGED <<agentVars, dbVars, up, upFor, opened, gaps, edited, faults>>

\* The row, in the receipt's transaction.
Save(w) ==
    /\ conn' = [conn EXCEPT ![w.session] = w.row]
    /\ age' = IF w.beat THEN [age EXCEPT ![w.session] = 0] ELSE age
    /\ order' = IF w.beat THEN <<w.session>> \o SelectSeq(order, LAMBDA x : x # w.session) ELSE order

\* What reconciliation stores: the receipt the signer is ahead by.
Recovered == IF ahead = Nothing THEN chain ELSE Append(chain, ahead)

Beat ==
    /\ todo # <<>> /\ Head(todo).name = "none"
    /\ Save(Head(todo))
    /\ todo' = Tail(todo)
    /\ UNCHANGED <<agentVars, chain, ahead, up, upFor, opened, gaps, edited, faults>>

Written ==
    /\ todo # <<>> /\ Head(todo).name # "none"
    /\ Save(Head(todo))
    /\ chain' = Append(Recovered, Receipt(Head(todo).session, Head(todo).name, TRUE))
    /\ ahead' = Nothing
    /\ todo' = Tail(todo)
    /\ UNCHANGED <<agentVars, up, upFor, opened, gaps, edited, faults>>

\* The signer recorded the receipt and its answer did not come in time.
SignedOnly ==
    /\ todo # <<>> /\ Head(todo).name # "none" /\ faults < MaxFaults
    /\ chain' = Recovered
    /\ ahead' = Receipt(Head(todo).session, Head(todo).name, FALSE)
    /\ todo' = <<>> /\ faults' = faults + 1
    /\ UNCHANGED <<agentVars, conn, order, age, up, upFor, opened, gaps, edited>>

NotSigned ==
    /\ todo # <<>> /\ Head(todo).name # "none" /\ faults < MaxFaults
    /\ todo' = <<>> /\ faults' = faults + 1
    /\ UNCHANGED <<agentVars, dbVars, up, upFor, opened, gaps, edited>>

\* Another receipt of the chain is written, or its checkpoint: reconcileNow.
TakeBack ==
    /\ up /\ ahead # Nothing
    /\ chain' = Recovered /\ ahead' = Nothing
    /\ UNCHANGED <<agentVars, conn, order, age, serverVars, faults>>

Crash ==
    /\ up /\ faults < MaxFaults
    /\ up' = FALSE /\ todo' = <<>> /\ opened' = 0 /\ gaps' = [s \in Sessions |-> 0]
    /\ faults' = faults + 1
    /\ UNCHANGED <<agentVars, dbVars, upFor, edited>>

\* The start-up reconciliation, whose failure is not fatal, is TakeBack.
Restart ==
    /\ ~up
    /\ up' = TRUE /\ upFor' = 0
    /\ UNCHANGED <<agentVars, dbVars, todo, opened, gaps, edited, faults>>

-----------------------------------------------------------------------------
(* Time. *)

Later(n) == IF n > LOST_AFTER THEN n ELSE n + 1

\* A handler ends within a tick.
Tick ==
    /\ todo = <<>>
    /\ age' = [s \in Sessions |-> IF conn[s].state = "unknown" THEN 0 ELSE Later(age[s])]
    /\ upFor' = IF up THEN Later(upFor) ELSE upFor
    /\ UNCHANGED <<agentVars, conn, order, chain, ahead, up, todo, opened, gaps, edited, faults>>

\* An hour since one of the sessions opened, or one of the gaps.
HourPasses ==
    /\ \/ opened > 0 /\ opened' = opened - 1 /\ UNCHANGED gaps
       \/ \E s \in Sessions : gaps[s] > 0 /\ gaps' = [gaps EXCEPT ![s] = @ - 1] /\ UNCHANGED opened
    /\ UNCHANGED <<agentVars, dbVars, up, upFor, todo, edited, faults>>

Next ==
    \/ \E s \in Sessions :
        \/ AgentStarts(s) \/ AgentBeats(s, "beat") \/ AgentBeats(s, "gap")
        \/ AgentCloses(s) \/ AgentDies(s) \/ GuardTells(s)
    \/ \E hash \in Hashes : EditScript(hash)
    \/ \E m \in net : Handle(m)
    \/ Sweep \/ Beat \/ Written \/ SignedOnly \/ NotSigned \/ TakeBack
    \/ Crash \/ Restart \/ Tick \/ HourPasses

Spec == Init /\ [][Next]_vars

\* Time passes, the sweep's timer fires, the process is started again, and the
\* signer answers in the end.  No request need ever arrive.
Fairness ==
    /\ WF_vars(Tick) /\ WF_vars(Sweep) /\ WF_vars(Restart)
    /\ WF_vars(Beat) /\ SF_vars(Written)

FairSpec == Spec /\ Fairness

-----------------------------------------------------------------------------
\* The receipts written with a session's row that tell its state, by their places
\* on the chain, and the state the last of such places tells.
ChangesOf(s) ==
    {i \in 1..Len(chain) : chain[i].kept /\ chain[i].session = s /\ chain[i].name \in StateNames}

\* Receipts that may follow one another for a session, and the state they leave.
May(before, after) ==
    CASE after = "start" -> before = "unknown"
      [] after = "stop" -> before # "closed"
      [] after = "restored" -> before \in {"lost", "closed"}
      [] OTHER -> before = "open"
StateOf(name) ==
    CASE name \in {"start", "restored"} -> "open"
      [] name \in {"lost", "ended"} -> "lost"
      [] OTHER -> "closed"
StateAfter(places) ==
    IF places = {} THEN "unknown"
    ELSE StateOf(chain[CHOOSE i \in places : \A k \in places : k <= i].name)

Receipts == [session : Sessions, name : Names, kept : BOOLEAN]
Changes == [session : Sessions, name : Names \cup {"none"}, row : Row, beat : BOOLEAN]

(* Every variable holds what the tables and the process can hold.           *)
TypeOK ==
    /\ agent \in [Sessions -> {"new", "running", "closed", "dead", "gone"}]
    /\ budget \in 0..MaxBeats /\ script \in Hashes
    /\ net \subseteq [session : Sessions, event : {"start", "beat", "gap", "stop", "ended"}, hash : Hashes]
    /\ conn \in [Sessions -> Row]
    /\ chain \in Seq(Receipts) /\ ahead \in Receipts \cup {Nothing}
    /\ up \in BOOLEAN /\ upFor \in 0..(LOST_AFTER + 1) /\ age \in [Sessions -> 0..(LOST_AFTER + 1)]
    /\ todo \in Seq(Changes)
    /\ opened \in 0..MAX_NEW_SESSIONS /\ gaps \in [Sessions -> 0..MAX_GAPS]
    /\ edited \subseteq Sessions /\ faults \in 0..MaxFaults

(* watch.ts 144: one change at a time: whatever arrives together, the       *)
(* receipts written with a session's row are changes of its state, each     *)
(* from the one before: no second `lost` for one silence, none after `ended`.*)
OneReceiptPerChange ==
    \A s \in Sessions : \A i \in ChangesOf(s) :
        May(StateAfter({k \in ChangesOf(s) : k < i}), chain[i].name)

(* watch.ts 136-141 and 252-263: when `lost` is written, no beat has come   *)
(* within the allowance and the server has been up for as long: beats and   *)
(* restarts between the sweep's reading and its writing do not matter.      *)
LostAfterTheAllowance ==
    [][\A s \in Sessions :
        Len(chain') > Len(chain) /\ Last(chain') = Receipt(s, "lost", TRUE) =>
            age[s] > LOST_AFTER /\ upFor > LOST_AFTER]_vars

(* watch.ts 15-19: a session whose agent is no longer there does not stay   *)
(* open: silence is written down, through failed writes and restarts.       *)
SilenceIsRecorded ==
    \A s \in Sessions :
        agent[s] \in {"closed", "dead", "gone"} /\ conn[s].state = "open" ~> conn[s].state # "open"
=============================================================================
