------------------------------ MODULE Serving ------------------------------
(* What stands at the server's door: the model gateway with the keys and    *)
(* vaults that decide which call may pass (Gateway), and who is locked out  *)
(* after failed attempts (Throttle).                                        *)
EXTENDS Integers

CONSTANTS
    Keys, SystemOf, Accounts,
    OperatorAccount, NoKey,     \* Operator and None, in Gateway
    Calls, Server, VaultEnabled, OpenToAll, Limit, MaxEvents,
    Clients, MaxFailures, Window, Lockout, MaxLockout, ForgetAfter, MaxEntries,
    MaxDelay, MaxTime, MaxWaiting

VARIABLES
    key, archived, verified, accountOf, vaults, sealed, held, modelKey,
    call, receipts, unwritten, events,
    use, now, entries, waiting, wrongs

gateVars == <<key, archived, verified, accountOf, vaults, sealed, held, modelKey,
              call, receipts, unwritten, events>>
doorVars == <<use, now, entries, waiting, wrongs>>

Gate == INSTANCE Gateway WITH
    Operator <- OperatorAccount, None <- NoKey, owner <- accountOf

Door == INSTANCE Throttle

ASSUME ServingConstants == Gate!GatewayConstants /\ Door!ThrottleConstants

\* The properties, by the names they have in their modules.
RevokedStaysOut == Gate!RevokedStaysOut
AnswerAfterReceipt == Gate!AnswerAfterReceipt
EveryCallAccountedFor == Gate!EveryCallAccountedFor
EveryCallBecomesAReceipt == Gate!EveryCallBecomesAReceipt
LockoutsAreKept == Door!LockoutsAreKept
=============================================================================
