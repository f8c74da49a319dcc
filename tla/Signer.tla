------------------------------- MODULE Signer -------------------------------
(***************************************************************************)
(* The signer process: apps/signer/src/signer.ts over the state directory  *)
(* of apps/signer/src/state.ts, driven by apps/signer/src/daemon.ts.       *)
(*                                                                         *)
(* The server is not trusted here: any request may arrive at any moment.   *)
(* What the process keeps on disk survives a crash at any point between    *)
(* the three steps of a signature (journal line, state file, reply).       *)
(*                                                                         *)
(* A hash stands for everything it commits to.  The hash of a receipt is   *)
(* the sequence of contents of its chain up to and including its own, so a *)
(* receipt is written as its hash: its last element is what it says, the   *)
(* rest is its prev_hash, and <<>> is GENESIS_PREV_HASH.  A Merkle         *)
(* frontier is likewise the sequence of leaves it was built from.          *)
(* Requests refused for their form alone (another key_id, malformed        *)
(* Unicode, another protocol version) change nothing and are left out.     *)
(***************************************************************************)
EXTENDS Integers, Sequences, SequencesExt

CONSTANTS
    Systems,        \* system_ids
    Bodies,         \* what a receipt says beyond its position and its time
    Genesis,        \* the body of a genesis receipt
    Torn,           \* a journal line cut short by a crash
    Adopted,        \* the state init-from-db left before the first start
    Tolerance,      \* clockToleranceMs, in ticks
    MaxSeq,         \* bound: last position a request names
    MaxTime,        \* bound: last instant of either clock
    MaxCrashes      \* bound: how often the process dies

VARIABLES
    disk,           \* one state file per system: the durable SystemState
    journal,        \* one .receipts.jsonl per system: its lines, in order
    memory,         \* StateDirectory.systems, the Map the process reads
    up,             \* whether the process is running
    stage,          \* how far the signature in progress is
    signing,        \* the receipt being signed, or <<>>
    now,            \* the signer's own clock
    answered,       \* every receipt whose signature left the process
    sealed,         \* every checkpoint whose signature left the process
    crashes         \* how often the process has died

vars == <<disk, journal, memory, up, stage, signing, now, answered, sealed, crashes>>

-----------------------------------------------------------------------------
Content == [system_id : Systems, seq : 0..MaxSeq, body : Bodies, ts_received : 0..MaxTime]
Receipt == Seq(Content) \ {<<>>}

Said(receipt) == Last(receipt)

\* SystemState: nothing known, a chain, or an identifier never to be reused.
Unknown == [kind |-> "unknown", leaves |-> <<>>]
Retired == [kind |-> "retired", leaves |-> <<>>]
Chain(leaves) == [kind |-> "chain", leaves |-> leaves]

SystemState == [kind : {"unknown", "chain", "retired"}, leaves : Seq(Content)]

\* Every receipt in its place, in the chain of its system.
Positioned(s, leaves) == \A i \in 1..Len(leaves) : leaves[i].system_id = s /\ leaves[i].seq = i - 1

\* What signReceipt adds to the first n receipts one at a time: the genesis only
\* at the first position, and there nothing else; times that never go back, from
\* that of the nth on.
WellSigned(leaves, n) ==
    /\ \A i \in 1..Len(leaves) : n < i => ((leaves[i].body = Genesis) <=> (i = 1))
    /\ \A i, j \in 1..Len(leaves) : n <= i /\ i <= j => leaves[i].ts_received <= leaves[j].ts_received

ASSUME SignerAssumption ==
    /\ MaxSeq \in Nat /\ MaxTime \in Nat /\ MaxCrashes \in Nat /\ Tolerance \in Nat
    /\ Genesis \in Bodies
    /\ Torn \notin Receipt
    /\ Adopted \in [Systems -> SystemState]
    /\ \A s \in Systems :
        /\ (Adopted[s].kind = "chain") <=> (Adopted[s].leaves # <<>>)
        /\ Positioned(s, Adopted[s].leaves)

-----------------------------------------------------------------------------
Init ==
    /\ disk = Adopted
    /\ journal = [s \in Systems |-> <<>>]
    /\ memory = Adopted
    /\ up = TRUE
    /\ stage = "idle"
    /\ signing = <<>>
    /\ now \in 0..MaxTime
    /\ answered = {}
    /\ sealed = {}
    /\ crashes = 0

\* The refusals of Signer.signReceipt.
Reusable(known) == known.kind # "retired"

Continues(known, receipt) ==
    /\ Said(receipt).seq = Len(known.leaves)
    /\ Front(receipt) = known.leaves

Timely(known, r) ==
    /\ r.ts_received - now \in -Tolerance..Tolerance
    /\ known.leaves # <<>> => r.ts_received >= Said(known.leaves).ts_received

Admits(receipt) ==
    LET r == Said(receipt)
        known == memory[r.system_id]
    IN  /\ (r.seq = 0) <=> (r.body = Genesis)
        /\ Reusable(known)
        /\ Continues(known, receipt)
        /\ Timely(known, r)

\* StateDirectory.record writes after a torn line on a line of its own.
\* (Each operator named Fault... is what the definition after it would be with a
\* plausible slip in the code.)
FaultGlued(lines, receipt) ==
    IF lines # <<>> /\ Last(lines) = Torn THEN lines ELSE Append(lines, receipt)
WithLine(lines, receipt) == Append(lines, receipt)

\* What a request may name as prev_hash: anything signed, or written down.
HashesOf(s) ==
    {SubSeq(disk[s].leaves, 1, n) : n \in 1..Len(disk[s].leaves)}
        \cup ({journal[s][i] : i \in 1..Len(journal[s])} \ {Torn})

KnownHashes == {<<>>} \cup UNION {HashesOf(s) : s \in Systems}

\* SIGN_RECEIPT may carry any receipt at all.
Requests == {Append(prev, content) : prev \in KnownHashes, content \in Content}

FaultAnsweredEarly(receipt) ==
    /\ up /\ stage = "idle"
    /\ Admits(receipt)
    /\ journal' = [journal EXCEPT ![Said(receipt).system_id] = WithLine(@, receipt)]
    /\ stage' = "recorded" /\ signing' = receipt /\ answered' = answered \cup {receipt}
    /\ UNCHANGED <<disk, memory, up, now, sealed, crashes>>

\* signReceipt, first durable step: the journal line, flushed.
Record(receipt) ==
    /\ up /\ stage = "idle"
    /\ Admits(receipt)
    /\ journal' = [journal EXCEPT ![Said(receipt).system_id] = WithLine(@, receipt)]
    /\ stage' = "recorded"
    /\ signing' = receipt
    /\ UNCHANGED <<disk, memory, up, now, answered, sealed, crashes>>

FaultNotFlushed ==
    /\ up /\ stage = "recorded"
    /\ memory' = [memory EXCEPT ![Said(signing).system_id] = Chain(Append(@.leaves, Said(signing)))]
    /\ stage' = "put"
    /\ UNCHANGED <<disk, journal, up, signing, now, answered, sealed, crashes>>

\* StateDirectory.put: the file replaced by a rename, then the Map.
Put ==
    /\ up /\ stage = "recorded"
    /\ LET s == Said(signing).system_id IN
        /\ disk' = [disk EXCEPT ![s] = Chain(Append(memory[s].leaves, Said(signing)))]
        /\ memory' = [memory EXCEPT ![s] = Chain(Append(memory[s].leaves, Said(signing)))]
    /\ stage' = "put"
    /\ UNCHANGED <<journal, up, signing, now, answered, sealed, crashes>>

\* handleLine returns and serve() sends: the signature leaves the process.
Answer ==
    /\ up /\ stage = "put"
    /\ answered' = answered \cup {signing}
    /\ stage' = "idle"
    /\ signing' = <<>>
    /\ UNCHANGED <<disk, journal, memory, up, now, sealed, crashes>>

\* Signer.checkpoint: size and root from the frontier.
Seal(s) ==
    /\ up /\ stage = "idle"
    /\ memory[s].kind = "chain"
    /\ sealed' = sealed \cup {[system_id |-> s, leaves |-> memory[s].leaves]}
    /\ UNCHANGED <<disk, journal, memory, up, stage, signing, now, answered, crashes>>

\* The process dies, or stops itself because a step was not durable.
Crash ==
    /\ up /\ crashes < MaxCrashes
    /\ crashes' = crashes + 1
    /\ up' = FALSE
    /\ memory' = [s \in Systems |-> Unknown]
    /\ stage' = "idle"
    /\ signing' = <<>>
    /\ UNCHANGED <<disk, journal, now, answered, sealed>>

\* It dies inside record(): part of the line is on disk.  One torn line after
\* another reads as one, so at most one is kept.
CrashTearingLine(receipt) ==
    /\ up /\ stage = "idle" /\ crashes < MaxCrashes
    /\ crashes' = crashes + 1
    /\ Admits(receipt)
    /\ LET s == Said(receipt).system_id IN
        /\ Len(journal[s]) > 0 => Last(journal[s]) # Torn
        /\ journal' = [journal EXCEPT ![s] = Append(@, Torn)]
    /\ up' = FALSE
    /\ memory' = [s \in Systems |-> Unknown]
    /\ UNCHANGED <<disk, stage, signing, now, answered, sealed>>

\* StateDirectory.open: every state file is read, the journals are not.
Restart ==
    /\ ~up
    /\ up' = TRUE
    /\ memory' = disk
    /\ UNCHANGED <<disk, journal, stage, signing, now, answered, sealed, crashes>>

\* The clock is the machine's: it runs, and it may be set back.
SetClock ==
    /\ now' \in 0..MaxTime
    /\ UNCHANGED <<disk, journal, memory, up, stage, signing, answered, sealed, crashes>>

Next ==
    \/ \E receipt \in Requests : Record(receipt) \/ CrashTearingLine(receipt)
    \/ Put \/ Answer \/ Crash \/ Restart \/ SetClock
    \/ \E s \in Systems : Seal(s)

Spec == Init /\ [][Next]_vars

-----------------------------------------------------------------------------
\* StateDirectory.receipts: the last readable line at a position wins, and the
\* position of the head is the state's own.
LinesAt(s, seq) ==
    {i \in 1..Len(journal[s]) : journal[s][i] # Torn /\ Said(journal[s][i]).seq = seq}

Held(s, seq) == seq = Len(memory[s].leaves) - 1 \/ LinesAt(s, seq) # {}

ReceiptAt(s, seq) ==
    IF seq = Len(memory[s].leaves) - 1
    THEN memory[s].leaves
    ELSE journal[s][CHOOSE i \in LinesAt(s, seq) : \A k \in LinesAt(s, seq) : k <= i]

\* GET_RECEIPTS stops at the first position not held, at the limit, at the head.
PageEnd(s, from, limit) ==
    CHOOSE last \in (from - 1)..(Len(memory[s].leaves) - 1) :
        /\ last < from + limit
        /\ \A seq \in from..last : Held(s, seq)
        /\ \/ last = from + limit - 1
           \/ last = Len(memory[s].leaves) - 1
           \/ ~Held(s, last + 1)

Page(s, from, limit) ==
    [i \in 1..(PageEnd(s, from, limit) - from + 1) |-> ReceiptAt(s, from + i - 1)]

-----------------------------------------------------------------------------
(* Every variable holds what the process and its files can hold. *)
TypeOK ==
    /\ disk \in [Systems -> SystemState]
    /\ memory \in [Systems -> SystemState]
    /\ journal \in [Systems -> Seq(Receipt \cup {Torn})]
    /\ up \in BOOLEAN
    /\ stage \in {"idle", "recorded", "put"}
    /\ signing \in Seq(Content)
    /\ now \in 0..MaxTime
    /\ answered \subseteq Receipt
    /\ sealed \subseteq [system_id : Systems, leaves : Seq(Content)]
    /\ crashes \in 0..MaxCrashes

(* signReceipt never gives out two signatures for one position of a chain, *)
(* whatever it is asked and wherever it crashes.                           *)
NoFork ==
    \A a, b \in answered :
        /\ Said(a).system_id = Said(b).system_id
        /\ Said(a).seq = Said(b).seq
        => a = b

(* A signature that left the process is one the disk remembers (state.ts:  *)
(* put() returns only when durable, and only then is the request answered).*)
Remembered == \A r \in answered : IsPrefix(r, disk[Said(r).system_id].leaves)

(* Checkpoints of a system always describe one growing tree, and one that  *)
(* holds every receipt answered before it (Signer.checkpoint).             *)
SealsAgree ==
    /\ \A a, b \in sealed :
        a.system_id = b.system_id => IsPrefix(a.leaves, b.leaves) \/ IsPrefix(b.leaves, a.leaves)
    /\ \A c \in sealed, r \in answered :
        c.system_id = Said(r).system_id => IsPrefix(r, c.leaves) \/ IsPrefix(c.leaves, r)

(* GET_RECEIPTS gives back, from any position after those init-from-db     *)
(* adopted, the very receipts of the chain: torn lines, and lines whose    *)
(* signature was never finished, included (StateDirectory.receipts).       *)
JournalGivesTheChain ==
    up =>
        \A s \in Systems, from \in 0..MaxSeq, limit \in 1..2 :
            Len(Adopted[s].leaves) <= from /\ from < Len(memory[s].leaves) =>
                LET last == IF from + limit <= Len(memory[s].leaves) THEN from + limit ELSE Len(memory[s].leaves)
                IN  Page(s, from, limit) = [i \in 1..(last - from) |-> SubSeq(memory[s].leaves, 1, from + i)]

(* Every receipt of a chain on disk is in its place, and those signed here  *)
(* have the genesis first and only first, and times that never go back from *)
(* the head that init-from-db adopted on.  It adopts what the database held *)
(* before: it looks at positions, links and signatures, at nothing else.    *)
ChainsWellFormed ==
    \A s \in Systems :
        Positioned(s, disk[s].leaves) /\ WellSigned(disk[s].leaves, Len(Adopted[s].leaves))

(* A chain on disk is only ever extended, and a retired identifier stays   *)
(* retired (signReceipt refuses it).                                       *)
OnlyExtended ==
    [][\A s \in Systems :
        /\ IsPrefix(disk[s].leaves, disk'[s].leaves)
        /\ disk[s].kind = "retired" => disk'[s] = disk[s]]_vars

\* The promise the signer keeps: EvidenceLog, with its state files as record.
Log == INSTANCE EvidenceLog WITH
    Events <- Content,
    Spans <- {},
    record <- [s \in Systems |-> disk[s].leaves],
    told <- {[system |-> Said(r).system_id, at |-> Len(r), event |-> Said(r)] : r \in answered}

(* The signer implements EvidenceLog: its files only ever extend a record, *)
(* and it answers only with what they already hold (state.ts put, then     *)
(* daemon.ts send).                                                        *)
ImplementsLog == Log!Spec
=============================================================================
