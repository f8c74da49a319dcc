------------------------------ MODULE Keeping ------------------------------
(* What an installation keeps beside the chains: the copies of the database *)
(* (Backups), the daily files (DailyExport), the keys of the models         *)
(* (ModelKeys), and in memory who is signed in (Sessions).                  *)
EXTENDS Integers, Installation

CONSTANTS
    Keep, RemoteKeep, Overlap, MaxRuns,
    Holders,    \* the accounts that may have daily files
    KEEP_DAYS, MaxDay, MaxDaily, MaxTransfers,
    MaxDataKeys, MaxFiles, MaxChanges,
    SessionLength, TicketLength, MaxTime, MaxStarts, MaxCookies, MaxTickets

VARIABLES
    copies, backups, old, since, sending, remote,
    day, late, chain, owner, enabled, zips, run, runDay, runFor, transfers,
    keyTables, keyFile, vaultOn, dataKeys, saving, shown, made, backup, changes,
    now, secret, epochs, cookies, tickets, org, member, signedOut

backupVars == <<copies, backups, old, since, sending, remote>>
exportVars == <<day, late, chain, owner, enabled, zips, run, runDay, runFor, transfers>>
keyVars == <<keyTables, keyFile, vaultOn, dataKeys, saving, shown, made, backup, changes>>
sessionVars == <<now, secret, epochs, cookies, tickets, org, member, signedOut>>

Copying == INSTANCE Backups WITH runs <- backups

Daily == INSTANCE DailyExport WITH
    Systems <- AllSystems, Accounts <- Holders, MaxReceipts <- MaxDaily, files <- zips

Vaults == INSTANCE ModelKeys WITH
    Systems <- AllSystems, Organizations <- AllOrganizations,
    db <- keyTables, file <- keyFile, enabled <- vaultOn, held <- dataKeys

Web == INSTANCE Sessions WITH Users <- Persons, Orgs <- AllOrganizations

ASSUME KeepingConstants ==
    /\ Copying!BackupsConstants /\ Daily!DailyExportConstants
    /\ Vaults!ModelKeysConstants /\ Web!SessionsConstants

\* The properties, by the names they have in their modules.
LastGoodCopyStays == Copying!LastGoodCopyStays
NeverTheLast == Copying!NeverTheLast
HoldsItsDay == Daily!HoldsItsDay
KeysOpenInTheirVault == Vaults!KeysOpenInTheirVault
SessionsExact == Web!SessionsExact
=============================================================================
