------------------------------ MODULE Backups ------------------------------
(***************************************************************************)
(* The copies of the database: deploy/backup.sh, which cron starts every   *)
(* hour, and deploy/offsite-backup.sh, which sends the newest copy away    *)
(* once a day.  Both are processes beside the server; either may be killed *)
(* at any point, by a restart of its container or of the host.             *)
(*                                                                         *)
(* `copies` is the backup directory in the order of `ls -1t` read from the *)
(* end: writing to a file makes it the newest.                             *)
(***************************************************************************)
EXTENDS Naturals, Sequences, FiniteSets, SequencesExt

CONSTANTS
    Keep,           \* SIGILLO_BACKUP_KEEP
    RemoteKeep,     \* SIGILLO_OFFSITE_KEEP
    Overlap,        \* runs of backup.sh at the same time
    MaxRuns         \* bound: runs of backup.sh in all

BackupsConstants ==
    /\ Keep \in Nat \ {0} /\ RemoteKeep \in Nat \ {0}
    /\ Overlap \in Nat
    /\ MaxRuns \in Nat

VARIABLES
    copies,     \* the directory: <<number of the run, is it complete>>, oldest first
    runs,       \* for each run of backup.sh, in the order of their stamps, where it is
    old,        \* what each run has listed and still removes, the last first
    since,      \* history: who wrote between each run's copy and its listing
    sending,    \* offsite-backup.sh: the copy it named, 0 if it is not running
    remote      \* what was sent: number of the run and completeness

vars == <<copies, runs, old, since, sending, remote>>

Stages == {"copying", "listing", "removing", "ended", "killed"}
Numbers == 1..MaxRuns

TypeOK ==
    /\ copies \in Seq(Numbers \X BOOLEAN)
    /\ runs \in Seq(Stages) /\ Len(runs) <= MaxRuns
    /\ old \in [Numbers -> Seq(Numbers \X BOOLEAN)]
    /\ since \in [Numbers -> SUBSET Numbers]
    /\ sending \in {0} \cup Numbers
    /\ remote \subseteq Numbers \X BOOLEAN

Init ==
    /\ copies = <<>> /\ runs = <<>>
    /\ old = [n \in Numbers |-> <<>>] /\ since = [n \in Numbers |-> {}]
    /\ sending = 0 /\ remote = {}

Running == {n \in DOMAIN runs : runs[n] \in {"copying", "listing", "removing"}}

Place(n) == CHOOSE i \in DOMAIN copies : copies[i][1] = n

InDirectory(n) == \E i \in DOMAIN copies : copies[i][1] = n

Without(n) == IF InDirectory(n) THEN RemoveAt(copies, Place(n)) ELSE copies

(***************************************************************************)
(* backup.sh                                                               *)
(***************************************************************************)

(* Writing to a file makes it the newest.  Nothing but the properties reads
   `since`.                                                               *)
Writes(n, complete) ==
    /\ copies' = Append(Without(n), <<n, complete>>)
    /\ since' = [m \in Numbers |->
                    IF m \in DOMAIN runs /\ runs[m] = "listing" THEN since[m] \cup {n} ELSE since[m]]

(* A run that finds too little space ends before it has made a file. *)
Begin ==
    /\ Len(runs) < MaxRuns
    /\ Cardinality(Running) < Overlap
    /\ runs' = Append(runs, "copying")
    /\ Writes(Len(runs) + 1, FALSE)
    /\ UNCHANGED <<old, sending, remote>>

CopyOn(n) ==
    /\ runs[n] = "copying" /\ InDirectory(n)
    /\ Writes(n, FALSE)
    /\ UNCHANGED <<runs, old, sending, remote>>

(* `node cli.js backup` is done.  A run whose file another has pruned fails
   when it asks for its size: Killed.                                     *)
CopyEnds(n) ==
    /\ runs[n] = "copying" /\ InDirectory(n)
    /\ Writes(n, TRUE)
    /\ runs' = [runs EXCEPT ![n] = "listing"]
    /\ UNCHANGED <<old, sending, remote>>

(* What the listing after a complete copy finds beyond the newest Keep. *)
FaultByName(dir) == SelectSeq(dir, LAMBDA c : Cardinality({d \in ToSet(dir) : d[1] > c[1]}) >= Keep)

BeyondKeep(dir) == SubSeq(dir, 1, Len(dir) - Keep)

(* `ls -1t | tail`, a command of its own: another run may have written since
   this one's copy was complete, been killed, begun.                      *)
List(n) ==
    /\ runs[n] = "listing"
    /\ runs' = [runs EXCEPT ![n] = "removing"]
    /\ old' = [old EXCEPT ![n] = BeyondKeep(copies)]
    /\ UNCHANGED <<copies, since, sending, remote>>

(* The newest of them first, as they are listed. *)
RemoveOne(n) ==
    /\ runs[n] = "removing" /\ old[n] # <<>>
    /\ copies' = Without(Last(old[n])[1])
    /\ old' = [old EXCEPT ![n] = Front(@)]
    /\ UNCHANGED <<runs, since, sending, remote>>

End(n) ==
    /\ runs[n] = "removing" /\ old[n] = <<>>
    /\ runs' = [runs EXCEPT ![n] = "ended"]
    /\ UNCHANGED <<copies, old, since, sending, remote>>

(* Killed, or failed: with `set -e` nothing after the failed step is done. *)
Killed(n) ==
    /\ n \in Running
    /\ runs' = [runs EXCEPT ![n] = "killed"]
    /\ old' = [old EXCEPT ![n] = <<>>]
    /\ UNCHANGED <<copies, since, sending, remote>>

(***************************************************************************)
(* offsite-backup.sh                                                       *)
(***************************************************************************)
Pick ==
    /\ sending = 0 /\ copies # <<>>
    /\ sending' = Last(copies)[1]
    /\ UNCHANGED <<copies, runs, old, since, remote>>

(* The file as it is now, if it is still there; then the copies beyond
   RemoteKeep, by name, which is the order of the stamps.                 *)
Newest(sent) ==
    {c \in sent : Cardinality({d \in sent : d[1] > c[1]}) < RemoteKeep}

Send ==
    /\ sending # 0
    /\ \E c \in ToSet(copies) :
         /\ c[1] = sending
         /\ remote' = Newest({d \in remote : d[1] # sending} \cup {c})
    /\ sending' = 0
    /\ UNCHANGED <<copies, runs, old, since>>

SendFails ==
    /\ sending # 0 /\ sending' = 0
    /\ UNCHANGED <<copies, runs, old, since, remote>>

Next ==
    \/ Begin \/ Pick \/ Send \/ SendFails
    \/ \E n \in DOMAIN runs : \/ CopyOn(n) \/ CopyEnds(n) \/ List(n)
                              \/ RemoveOne(n) \/ End(n) \/ Killed(n)

Spec == Init /\ [][Next]_vars

(***************************************************************************)
(* Properties.                                                             *)
(***************************************************************************)
Complete == {c \in ToSet(copies) : c[2]}

\* As many other runs as there are copies kept wrote between the end of a
\* run's copy and its listing.
Overtaken == \E n \in Numbers : Cardinality(since[n]) >= Keep

(* Once there is a complete copy there always is one, whichever runs overlap,
   are killed half-way, and prune what others are writing: "a backup that
   stops running does not silently delete the last good one" (backup.sh:6-7).
   It hangs on the order: a run lists after its own copy is complete, and
   what is written in between is less than what it keeps.  It needs two
   copies kept, as by default, and no more than two runs at once: of two that
   keep one, each may list the other's copy and take it; and three may do so
   whatever is kept, once enough others began after them and were killed. *)
LastGoodCopyStays == [][Complete # {} /\ ~Overtaken => Complete' # {}]_vars

(* backup.sh:6-7 as it stands: "a backup that stops running does not silently
   delete the last good one", and nor do those that do run.  Between the copy
   (backup.sh:46) and the listing (49) of one run another may write and be
   killed, and the next begin: the newest copies are then theirs.         *)
NeverTheLast == [][Complete # {} => Complete' # {}]_vars
=============================================================================
