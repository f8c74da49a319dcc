---------------------------- MODULE DailyExport -----------------------------
(***************************************************************************)
(* The daily export (apps/server/src/backup/daily-export.ts): at 23:59 one *)
(* file per system, for the accounts that turned it on, written while the  *)
(* chains go on growing, systems change owner and the server restarts.     *)
(***************************************************************************)
EXTENDS Integers, Sequences, FiniteSets

CONSTANTS
    Systems, Accounts,
    KEEP_DAYS,
    MaxDay,         \* bound: days
    MaxReceipts,    \* bound: receipts of a system
    MaxTransfers    \* bound: changes of owner

DailyExportConstants ==
    /\ KEEP_DAYS \in Nat /\ MaxDay \in Nat \ {0}
    /\ MaxReceipts \in Nat /\ MaxTransfers \in Nat

VARIABLES
    day,        \* the day in Rome
    late,       \* it is 23:59
    chain,      \* the receipts of each system: the day of each, and was it 23:59
    owner,      \* of each system
    enabled,    \* daily-export.json
    files,      \* exports/<account>/<system>--<day>.zip, and the receipts in it
    run,        \* the run under way: systems still to look at, as they were listed
    runDay, runFor,
    transfers

vars == <<day, late, chain, owner, enabled, files, run, runDay, runFor, transfers>>

Days == 1..MaxDay
Files == [account : Accounts, system : Systems, day : Days, receipts : 1..MaxReceipts]

TypeOK ==
    /\ day \in Days /\ runDay \in Days /\ late \in BOOLEAN
    /\ chain \in [Systems -> Seq(Days \X BOOLEAN)]
    /\ owner \in [Systems -> Accounts]
    /\ enabled \subseteq Accounts /\ runFor \subseteq Accounts
    /\ files \subseteq Files
    /\ run \subseteq Systems \X Accounts
    /\ transfers \in 0..MaxTransfers

Init ==
    /\ day = 1 /\ late = FALSE
    /\ chain = [s \in Systems |-> <<>>]
    /\ owner \in [Systems -> Accounts]
    /\ enabled = {} /\ files = {}
    /\ run = {} /\ runDay = 1 /\ runFor = {}
    /\ transfers = 0

\* The receipts of a day, by their places in the chain.
OfDay(s, d) == {i \in 1..Len(chain[s]) : chain[s][i][1] = d}

(***************************************************************************)
(* What happens meanwhile.                                                 *)
(***************************************************************************)
Record(s) ==
    /\ Len(chain[s]) < MaxReceipts
    /\ chain' = [chain EXCEPT ![s] = Append(@, <<day, late>>)]
    /\ UNCHANGED <<day, late, owner, enabled, files, run, runDay, runFor, transfers>>

Time ==
    /\ IF late THEN day < MaxDay /\ day' = day + 1 ELSE UNCHANGED day
    /\ late' = ~late
    /\ UNCHANGED <<chain, owner, enabled, files, run, runDay, runFor, transfers>>

setDailyExport(a) ==
    /\ enabled' = (enabled \ {a}) \cup ({a} \ enabled)
    /\ UNCHANGED <<day, late, chain, owner, files, run, runDay, runFor, transfers>>

Transfer(s) ==
    /\ transfers < MaxTransfers
    /\ \E a \in Accounts \ {owner[s]} : owner' = [owner EXCEPT ![s] = a]
    /\ transfers' = transfers + 1
    /\ UNCHANGED <<day, late, chain, enabled, files, run, runDay, runFor>>

(***************************************************************************)
(* A run: DailyExporter.tick, runDailyExports.                             *)
(***************************************************************************)
FaultAnyTime == TRUE

ItIsTime == late

Tick ==
    /\ run = {} /\ ItIsTime
    /\ enabled # {}
    /\ run' = {<<s, owner[s]>> : s \in Systems}
    /\ runDay' = day /\ runFor' = enabled
    /\ UNCHANGED <<day, late, chain, owner, enabled, files, transfers>>

Existing(s, a) ==
    {f \in files : f.account = a /\ f.system = s /\ f.day = runDay}

Kept(all, today) == {f \in all : f.day >= today - KEEP_DAYS}

(* The files of one system: none if its account did not turn it on, if the file
   is there, or if the day brought nothing.  What is written replaces what has
   the name.                                                               *)
Written(s, a) ==
    LET n == Cardinality(OfDay(s, runDay))
        new == [account |-> a, system |-> s, day |-> runDay, receipts |-> n]
    IN  IF a \notin runFor \/ Existing(s, a) # {} \/ n = 0 THEN files
        ELSE {f \in files : <<f.account, f.system, f.day>> # <<a, s, runDay>>} \cup {new}

(* With the last system the old files go. *)
One ==
    /\ \E r \in run :
         LET made == Written(r[1], r[2])
         IN  /\ files' = IF run = {r} THEN Kept(made, runDay) ELSE made
             /\ run' = run \ {r}
    /\ UNCHANGED <<day, late, chain, owner, enabled, runDay, runFor, transfers>>

(* An error at one system ends the run; so does a restart of the server. *)
Fails ==
    /\ run # {} /\ run' = {}
    /\ UNCHANGED <<day, late, chain, owner, enabled, files, runDay, runFor, transfers>>

Next ==
    \/ Time \/ Tick \/ One \/ Fails
    \/ \E s \in Systems : Record(s) \/ Transfer(s)
    \/ \E a \in Accounts : setDailyExport(a)

Spec == Init /\ [][Next]_vars

(***************************************************************************)
(* Properties.                                                             *)
(***************************************************************************)

(* A file holds every receipt its system had that day until 23:59, and none of
   another day, though it may be written after midnight, when the chain has
   gone on (daily-export.ts:108-117).                                       *)
HoldsItsDay ==
    \A f \in files :
        /\ f.receipts <= Cardinality(OfDay(f.system, f.day))
        /\ f.receipts >= Cardinality({i \in OfDay(f.system, f.day) : ~chain[f.system][i][2]})
=============================================================================
