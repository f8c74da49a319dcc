------------------------------ MODULE Throttle ------------------------------
(***************************************************************************)
(* How many failed attempts an address may make (throttle.ts), with its    *)
(* three uses: passwords of the operator and of customers ("login"),       *)
(* accounts and reset links asked for ("requests"), API keys ("ingest").   *)
(*                                                                         *)
(* A customer's password is judged by Firebase and an API key by scrypt,   *)
(* both behind an await: whether the address is locked out is read when    *)
(* the attempt arrives and its failure is recorded, under the time it      *)
(* arrived at, when the answer does. Attempts of one address wait side by  *)
(* side and their answers come in any order.                               *)
(***************************************************************************)
EXTENDS Integers, Sequences, FiniteSets

CONSTANTS
    Clients,
    MaxFailures, Window, Lockout, MaxLockout, ForgetAfter, MaxEntries,
    MaxDelay,               \* the longest an answer takes
    MaxTime, MaxWaiting     \* bounds: of the clock, and attempts at once

ThrottleConstants ==
    /\ {MaxFailures, Window, Lockout, MaxEntries} \subseteq Nat \ {0}
    /\ MaxLockout \in Nat /\ MaxLockout >= Lockout
    /\ MaxDelay \in Nat /\ ForgetAfter \in Nat /\ MaxDelay <= ForgetAfter
    /\ MaxTime \in Nat /\ MaxWaiting \in Nat

VARIABLES
    use,        \* what the throttle is for
    now,
    entries,    \* the clients remembered, in the order they were inserted
    waiting,    \* attempts whose answer has not come
    wrongs      \* history: failures held against a client, since its last lockout

vars == <<use, now, entries, waiting, wrongs>>

Known(c) == \E i \in DOMAIN entries : entries[i].client = c
EntryOf(c) == entries[CHOOSE i \in DOMAIN entries : entries[i].client = c]

\* Of a sequence, what is at the positions to keep, in its order.
Rank(keep, i) == Cardinality({j \in keep : j <= i})
Picked(seq, keep) ==
    [n \in 1..Cardinality(keep) |-> seq[CHOOSE i \in keep : Rank(keep, i) = n]]

Without(map, c) == Picked(map, {i \in DOMAIN map : map[i].client # c})

IsLocked(c, at) == Known(c) /\ at < EntryOf(c).lockedUntil

Init ==
    /\ use \in {"login", "requests", "ingest"}
    /\ use = "ingest" => MaxLockout <= ForgetAfter + 1     \* fixed: 15 minutes, 24 hours
    /\ now = 0
    /\ entries = <<>>
    /\ waiting = <<>>
    /\ wrongs = [c \in Clients |-> <<>>]

-----------------------------------------------------------------------------
(* Recording a failure.                                                     *)

\* makeRoom: who has nothing left to answer for, then the oldest.
Answerable(e, at) == at < e.lockedUntil \/ at - e.lastFailure <= Window

MakeRoom(map, at) ==
    LET held == Picked(map, {i \in DOMAIN map : Answerable(map[i], at)})
    IN  IF Len(map) < MaxEntries THEN map
        ELSE IF Len(held) < MaxEntries THEN held
        ELSE SubSeq(held, Len(held) - MaxEntries + 2, Len(held))

Fresh(c, at) ==
    [client |-> c, failures |-> <<>>, lockouts |-> 0, lockedUntil |-> 0, lastFailure |-> at]

Remembered(c, at) == Known(c) /\ at - EntryOf(c).lastFailure <= ForgetAfter

\* The clients remembered, c among them.
Opened(c, at) ==
    IF Remembered(c, at) THEN entries
    ELSE Append(MakeRoom(Without(entries, c), at), Fresh(c, at))

Least(m, n) == IF m <= n THEN m ELSE n
Term(n) == Least(Lockout * 2 ^ Least(n - 1, 30), MaxLockout)

Recent(failures, at) == Picked(failures, {i \in DOMAIN failures : at - failures[i] < Window})

Counted(e, at) ==
    LET failures == Append(Recent(e.failures, at), at)
        locked == [e EXCEPT !.lastFailure = at, !.failures = <<>>,
                            !.lockouts = @ + 1, !.lockedUntil = at + Term(e.lockouts + 1)]
    IN  IF Len(failures) >= MaxFailures THEN locked
        ELSE [e EXCEPT !.lastFailure = at, !.failures = failures]

\* The same of the history: c's failures, since its last lockout began.
Blamed(c, at, map) ==
    LET fresh == ~Remembered(c, at) \/ EntryOf(c).failures = <<>>
    IN  [k \in Clients |->
            IF ~\E i \in DOMAIN map : map[i].client = k THEN <<>>
            ELSE IF k # c \/ IsLocked(c, at) THEN wrongs[k]
            ELSE IF fresh THEN <<at>> ELSE Append(wrongs[k], at)]

FaultKnocksCount(e, at) == TRUE
Counts(e, at) == at >= e.lockedUntil

RecordFailure(c, at) ==
    LET map == Opened(c, at)
    IN  /\ entries' = [i \in DOMAIN map |->
               IF map[i].client = c /\ Counts(map[i], at) THEN Counted(map[i], at) ELSE map[i]]
        /\ wrongs' = Blamed(c, at, map)

RecordSuccess(c) ==
    /\ entries' = Without(entries, c)
    /\ wrongs' = [wrongs EXCEPT ![c] = <<>>]

-----------------------------------------------------------------------------
(* The attempts.                                                            *)

\* POST /ui/login: the operator's password is compared at once.
Login(c) ==
    /\ use = "login" /\ ~IsLocked(c, now)
    /\ RecordFailure(c, now) \/ RecordSuccess(c)
    /\ UNCHANGED <<use, now, waiting>>

\* POST /ui/registrati, /ui/password: every request counts, and none succeeds.
Request(c) ==
    /\ use = "requests" /\ ~IsLocked(c, now)
    /\ RecordFailure(c, now)
    /\ UNCHANGED <<use, now, waiting>>

\* A key of a locked address is looked up too: among those known already.
Ask(c) ==
    /\ use # "requests"
    /\ use = "login" => ~IsLocked(c, now)
    /\ Len(waiting) < MaxWaiting
    /\ waiting' = Append(waiting, [client |-> c, at |-> now])
    /\ UNCHANGED <<use, now, entries, wrongs>>

Answered(i) ==
    /\ waiting' = SubSeq(waiting, 1, i - 1) \o SubSeq(waiting, i + 1, Len(waiting))
    /\ UNCHANGED <<use, now>>

Wrong(i) == RecordFailure(waiting[i].client, waiting[i].at) /\ Answered(i)

\* A key that is right forgets nothing.
Right(i) ==
    /\ IF use = "login" THEN RecordSuccess(waiting[i].client) ELSE UNCHANGED <<entries, wrongs>>
    /\ Answered(i)

\* Firebase away, an account disabled, or too many attempts by its own count.
NoVerdict(i) == use = "login" /\ UNCHANGED <<entries, wrongs>> /\ Answered(i)

Tick ==
    /\ now < MaxTime
    /\ \A i \in DOMAIN waiting : now - waiting[i].at < MaxDelay
    /\ now' = now + 1
    /\ UNCHANGED <<use, entries, waiting, wrongs>>

Restart ==
    /\ entries' = <<>> /\ waiting' = <<>>
    /\ wrongs' = [c \in Clients |-> <<>>]
    /\ UNCHANGED <<use, now>>

Next ==
    \/ \E c \in Clients : Login(c) \/ Request(c) \/ Ask(c)
    \/ \E i \in DOMAIN waiting : Wrong(i) \/ Right(i) \/ NoVerdict(i)
    \/ Tick \/ Restart

Spec == Init /\ [][Next]_vars

-----------------------------------------------------------------------------
(* What is promised.                                                        *)

\* A lockout has its failures, a full count since the one before, no further
\* apart than the window and the time an answer takes.
Earned ==
    \A i \in DOMAIN entries :
        LET e == entries[i]
            made == wrongs[e.client]
            near == {k \in DOMAIN made : e.lastFailure - made[k] \in -MaxDelay..(Window - 1)}
        IN  e.failures = <<>> => Cardinality(near) >= MaxFailures

\* While it lasts nothing moves its end: it goes only with a success asked for
\* before it, for room when nobody remembered could be forgotten instead, or
\* with the process.
NoOneToSpare ==
    /\ Len(entries) = MaxEntries
    /\ \E at \in (now - MaxDelay)..now : \A i \in DOMAIN entries : Answerable(entries[i], at)

Stands(c) ==
    \/ Known(c)' /\ EntryOf(c)' = EntryOf(c)
    \/ /\ ~Known(c)'
       /\ \/ use = "login" /\ \E i \in DOMAIN waiting : waiting[i].client = c
          \/ NoOneToSpare
          \/ entries' = <<>> /\ waiting' = <<>>

\* Whatever the order the answers come in (throttle.ts: "a lockout ends when it
\* was set to end, however hard it was knocked on meanwhile"), and never more
\* clients remembered than there is room for.
LockoutsAreKept ==
    [][/\ Earned' /\ Len(entries') <= MaxEntries
       /\ \A c \in Clients : IsLocked(c, now) => Stands(c)]_vars
=============================================================================
