----------------------------- MODULE VaultHours -----------------------------
(***************************************************************************)
(* The sealed hours of a vault (apps/server/src/gateway/vault-schedule.ts):*)
(* weekly windows, each from a time of some days to a time of the same day *)
(* or the next, looked up in minutes since Sunday 00:00.                   *)
(***************************************************************************)
EXTENDS Integers

CONSTANT DAY        \* the minutes of a day

WEEK == 7 * DAY
Times == 0..(DAY - 1)

\* What checkSchedule lets through: a day at least, and never from = to.
Windows == {w \in [days : (SUBSET (0..6)) \ {{}}, from : Times, to : Times] : w.from # w.to}

Length(w) == (w.to - w.from + DAY) % DAY

IsSealedAt(windows, now) ==
    \E w \in windows : \E day \in w.days :
        (now - (day * DAY + w.from) + WEEK) % WEEK < Length(w)

\* What the customer draws: from that time of each of those days to the next
\* time that reads `to`, the end left out, over the end of the week too.
Drawn(w) ==
    UNION { LET start == day * DAY + w.from
                end == day * DAY + w.to + (IF w.to > w.from THEN 0 ELSE DAY)
            IN {m % WEEK : m \in start..(end - 1)} : day \in w.days }
=============================================================================
