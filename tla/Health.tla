------------------------------- MODULE Health -------------------------------
(***************************************************************************)
(* The traffic light of one system (apps/server/src/health/chain-health.ts)*)
(* and /healthz: the chain checked on a timer, from wherever the last      *)
(* check left off, the signer asked whether it answers, and the newest     *)
(* checkpoint with its time-stamp, beside the chain, the signer and the    *)
(* checkpointer that go their own way.                                     *)
(***************************************************************************)
EXTENDS Integers, Sequences

CONSTANTS
    MaxAnchorDelay, StaleAfter,     \* in ticks of the clock, as ages are
    MaxReceipts, MaxSeals,          \* bounds
    MaxTime,
    None

HealthConstants ==
    /\ MaxAnchorDelay \in Nat /\ StaleAfter \in Nat
    /\ MaxReceipts \in Nat \ {0} /\ MaxSeals \in Nat /\ MaxTime \in Nat

VARIABLES
    now,
    chain,      \* of each receipt, when it was received, and whether it checks:
                \* its prev_hash is the one before it, its signature verifies
    seals,      \* of each checkpoint, its time and its token's, by the authority
    connection, \* connectionStatus
    diverged,   \* the store found that the signer disagrees
    signer,     \* it answers
    checked,    \* lastSeq + 1
    failed,     \* the check failed, at the receipt after lastSeq
    reachable   \* signerReachable: TRUE, FALSE, or None until the first answer

monitor == <<checked, failed, reachable>>
server == <<chain, seals, connection, diverged>>
vars == <<now, server, signer, monitor>>

Times == 0..MaxTime
States == {"open", "lost", "closed", None}

TypeOK ==
    /\ now \in Times
    /\ chain \in Seq([at : Times, checks : BOOLEAN])
    /\ seals \in Seq([at : Times, token : Times \cup {None}])
    /\ connection \in States
    /\ diverged \in BOOLEAN /\ signer \in BOOLEAN
    /\ checked \in 0..MaxReceipts /\ failed \in BOOLEAN
    /\ reachable \in BOOLEAN \cup {None}

\* A system just opened, with its genesis, and the server started before it.
Init ==
    /\ now = 0 /\ chain = <<[at |-> 0, checks |-> TRUE]>> /\ seals = <<>>
    /\ connection = None /\ diverged = FALSE /\ signer = TRUE
    /\ checked = 0 /\ failed = FALSE /\ reachable = None

-----------------------------------------------------------------------------
(* The monitor.                                                             *)

Bad == {i \in (checked + 1)..Len(chain) : ~chain[i].checks}
FirstBad == CHOOSE i \in Bad : \A j \in Bad : i <= j

FaultGoesPast ==
    /\ checked' = Len(chain)
    /\ failed' = (checked < Len(chain) /\ ~chain[Len(chain)].checks)

\* checkSystem: a failure is sticky.
CheckSystem ==
    IF failed THEN UNCHANGED <<checked, failed>>
    ELSE /\ checked' = IF Bad = {} THEN Len(chain) ELSE FirstBad - 1
         /\ failed' = (Bad # {})

\* The signer answers, or has not within its deadline, long before the next tick.
CheckSigner == reachable' = signer

Tick ==
    /\ CheckSystem
    /\ CheckSigner
    /\ UNCHANGED <<now, server, signer>>

Restart ==
    /\ checked' = 0 /\ failed' = FALSE /\ reachable' = None
    /\ UNCHANGED <<now, server, signer>>

-----------------------------------------------------------------------------
(* What it watches.                                                         *)

\* A receipt is written, or put into the database by another hand.
Receive(checks) ==
    /\ Len(chain) < MaxReceipts
    /\ checks => signer /\ ~diverged
    /\ chain' = Append(chain, [at |-> now, checks |-> checks])
    /\ UNCHANGED <<now, seals, connection, diverged, signer, monitor>>

\* A receipt that was there is changed.
Change(i) ==
    /\ chain[i].checks
    /\ chain' = [chain EXCEPT ![i].checks = FALSE]
    /\ UNCHANGED <<now, seals, connection, diverged, signer, monitor>>

Seal ==
    /\ Len(seals) < MaxSeals /\ signer /\ ~diverged
    /\ seals' = Append(seals, [at |-> now, token |-> None])
    /\ UNCHANGED <<now, chain, connection, diverged, signer, monitor>>

TokenArrives(i) ==
    /\ seals[i].token = None
    /\ seals' = [seals EXCEPT ![i].token = now]
    /\ UNCHANGED <<now, chain, connection, diverged, signer, monitor>>

Connects(state) ==
    /\ connection' = state
    /\ UNCHANGED <<now, chain, seals, diverged, signer, monitor>>

Disagrees(whether) ==
    /\ diverged' = whether
    /\ UNCHANGED <<now, chain, seals, connection, signer, monitor>>

SignerChanges ==
    /\ signer' = ~signer
    /\ UNCHANGED <<now, server, monitor>>

TimePasses ==
    /\ now < MaxTime
    /\ now' = now + 1
    /\ UNCHANGED <<server, signer, monitor>>

Next ==
    \/ Tick \/ Restart \/ SignerChanges \/ TimePasses \/ Seal
    \/ \E b \in BOOLEAN : Receive(b) \/ Disagrees(b)
    \/ \E i \in DOMAIN chain : Change(i)
    \/ \E i \in DOMAIN seals : TokenArrives(i)
    \/ \E state \in States \ {None} : Connects(state)

Spec == Init /\ [][Next]_vars

\* The timer of start(), once a minute.
Fairness == WF_vars(Tick)

FairSpec == Spec /\ Fairness

-----------------------------------------------------------------------------
(* statusFor. *)

Age(at) == now - at

Anchoring ==
    IF seals = <<>> THEN IF Age(chain[1].at) <= MaxAnchorDelay THEN "first" ELSE "none"
    ELSE LET newest == seals[Len(seals)] IN
         IF newest.token = None
         THEN IF Age(newest.at) > MaxAnchorDelay THEN "missing" ELSE "coming"
         ELSE IF newest.token - newest.at > MaxAnchorDelay THEN "late" ELSE "anchored"

Red == failed \/ reachable = FALSE \/ diverged

Stale == connection # "open" /\ Age(chain[Len(chain)].at) > StaleAfter

Status ==
    IF Red THEN "red"
    ELSE IF Anchoring \in {"first", "coming", "anchored"} /\ ~Stale /\ connection # "lost" THEN "green"
    ELSE "yellow"

-----------------------------------------------------------------------------
(* What is promised.                                                        *)

\* A receipt that does not check and that the monitor has not been at turns the
\* light red, and red it stays whatever is written after it, unless the server
\* keeps being started anew.
DamageShows == <>[][~Restart]_vars => (Bad # {} ~> [](Status = "red"))
=============================================================================
