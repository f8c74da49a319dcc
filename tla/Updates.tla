------------------------------ MODULE Updates ------------------------------
(***************************************************************************)
(* A deployment that keeps itself up to date: deploy/auto-update.sh, which *)
(* cron starts every minute under a lock, and the deploy/update.sh it runs.*)
(* Commits are numbers, in the order they reach main.                      *)
(***************************************************************************)
EXTENDS Naturals

CONSTANTS
    MaxCommit,      \* bound: commits pushed to main
    MaxRemoved,     \* bound: times a person removes the mark
    MaxDeaths       \* bound: runs killed half-way

UpdatesConstants == MaxCommit \in Nat /\ MaxRemoved \in Nat /\ MaxDeaths \in Nat

VARIABLES
    main,       \* the last commit of main
    head,       \* HEAD of the clone on the server
    built,      \* the commit of the images
    running,    \* the commit of the containers
    stage,      \* where the run under way is
    target,     \* what it set out to bring here
    failed,     \* .auto-update.failed: a commit, 0 if there is no such file
    removed,    \* a person removed the mark of this commit, and it was not tried since
    refused,    \* commits that failed, and whose mark nobody removed
    deaths, removals

vars == <<main, head, built, running, stage, target, failed, removed, refused,
          deaths, removals>>

Commits == 0..MaxCommit
Stages == {"idle", "pulling", "building", "starting", "checking"}

TypeOK ==
    /\ {main, head, built, running, target, failed, removed} \subseteq Commits
    /\ stage \in Stages /\ refused \subseteq Commits
    /\ deaths \in 0..MaxDeaths /\ removals \in 0..MaxRemoved

(* After the first update by hand, with nothing new. *)
Init ==
    /\ main = 1 /\ head = 1 /\ built = 1 /\ running = 1
    /\ stage = "idle" /\ target = 1
    /\ failed = 0 /\ removed = 0 /\ refused = {}
    /\ deaths = 0 /\ removals = 0

Push ==
    /\ main < MaxCommit
    /\ main' = main + 1 /\ removed' = 0
    /\ UNCHANGED <<head, built, running, stage, target, failed, refused, deaths, removals>>

(* run(): the lock is free, the fetch answers, main is not HEAD and not the
   commit that failed.                                                     *)
Look ==
    /\ stage = "idle"
    /\ head # main /\ failed # main
    /\ target' = main /\ stage' = "pulling"
    /\ removed' = IF removed = main THEN 0 ELSE removed
    /\ UNCHANGED <<main, head, built, running, failed, refused, deaths, removals>>

(* `git pull` brings what main is by now, which may be newer than the target. *)
Pull ==
    /\ stage = "pulling" /\ stage' = "building"
    /\ head' = main
    /\ UNCHANGED <<main, built, running, target, failed, removed, refused, deaths, removals>>

Build ==
    /\ stage = "building" /\ stage' = "starting"
    /\ built' = head
    /\ UNCHANGED <<main, head, running, target, failed, removed, refused, deaths, removals>>

(* The containers are replaced and Caddy restarted. *)
FaultNotRestarted == running

Started == built

Up ==
    /\ stage = "starting" /\ stage' = "checking"
    /\ running' = Started
    /\ UNCHANGED <<main, head, built, target, failed, removed, refused, deaths, removals>>

(* Caddy serves the Caddyfile's hash, and the signer and the database agree. *)
Succeed ==
    /\ stage = "checking" /\ stage' = "idle"
    /\ failed' = 0
    /\ UNCHANGED <<main, head, built, running, target, removed, refused, deaths, removals>>

Marked == target

(* update.sh exits non-zero at any of its steps. *)
Fail ==
    /\ stage # "idle" /\ stage' = "idle"
    /\ failed' = Marked
    /\ refused' = refused \cup {target}
    /\ UNCHANGED <<main, head, built, running, target, removed, deaths, removals>>

(* The run is killed, by a restart of the host say: it marks nothing. *)
Die ==
    /\ stage # "idle" /\ deaths < MaxDeaths
    /\ stage' = "idle" /\ deaths' = deaths + 1
    /\ UNCHANGED <<main, head, built, running, target, failed, removed, refused, removals>>

RemoveMark ==
    /\ failed # 0 /\ stage = "idle" /\ removals < MaxRemoved
    /\ failed' = 0 /\ refused' = refused \ {failed}
    /\ removed' = IF failed = main THEN main ELSE removed
    /\ removals' = removals + 1
    /\ UNCHANGED <<main, head, built, running, stage, target, deaths>>

Steps == Pull \/ Build \/ Up \/ Succeed \/ Fail

Next == Push \/ Look \/ Steps \/ Die \/ RemoveMark

Spec == Init /\ [][Next]_vars

(* cron starts a run every minute, and a step of update.sh ends, well or not. *)
Fairness == WF_vars(Look) /\ WF_vars(Steps)

FairSpec == Spec /\ Fairness

(***************************************************************************)
(* Properties.                                                             *)
(***************************************************************************)

(* When nothing was killed, the server ends up running what main is, unless a
   mark says which update failed and nobody removed it: no commit is passed
   over in silence (auto-update.sh:2-4).                                    *)
FollowsMain == <>[](deaths = 0 /\ removals = 0 => running = main \/ failed # 0)
=============================================================================
