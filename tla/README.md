# Verification of sigillo

TLA+ models of sigillo's recording, delivery, tenancy, gateway, export, erasure
and upkeep, the TLC runs that check them on small instances, and TLAPS proofs
of what most of these runs check, for every instance. Paths below are relative to
the repository.

sigillo records what an AI agent does as a chain of signed receipts. What a
customer buys is one sentence: *what was recorded can be neither changed nor
lost without it showing*. The models ask whether the code keeps it when
processes die between two steps, answers come late, files are put back to a
copy, timers overlap, requests wait while others are served, and an export
reads a database that is being written.

    agent's SDK                       web view, command line
      Delivery   ConnectionWatch        Tenancy ──implements──▶ Custody
         │            │                    │ who holds a system
         ▼            ▼                    ▼
      ReceiptStore ◀──────────────────── Gateway   (keys, vaults, model calls)
         │   ▲   └─implements─▶ EvidenceLog ◀─implements─┐
         │   └── Checkpointer                            │
         └──────── socket ──────────────────────────── Signer
         ▼
      Evidence (export, verifier, anchored times) ── Merkle

    between server and signer:  Conversation   the socket, request by request
    beside the database:        Erasure        what is forgotten, and what must not be
                                Adoption       the signer's first memory
                                Backups  DailyExport  ModelKeys (VaultHours)
    at the server's door:       Sessions  Throttle  (with Gateway: Serving)
    around the server:          Health  Updates
    beside the agent:           AgentProcess  Guard

    proofs: SignerProofs  StoreProofs  WatchProofs (all with Prefixes)
            ServerProofs  EvidenceProofs  DeliveryProofs  PartsProofs

## 1. Inventory

### The parts and how they interact

| part | state it keeps | operations | talks to |
|---|---|---|---|
| **signer** (`apps/signer/src`: `signer.ts`, `state.ts`, `daemon.ts`) | per system a state file (head, Merkle frontier, or retired) and an append-only `.receipts.jsonl`; a Map of the states in memory | SIGN_RECEIPT, CHECKPOINT, GET_HEAD, GET_RECEIPTS, PUBKEY, one line at a time over a unix socket | the server only |
| **init-from-db** (`apps/signer/src/init-from-db.ts`) | writes the signer's first states from an existing database | one command, offline | database, state directory |
| **signer client** (`apps/server/src/signer/client.ts`) | one connection, the requests waited for by id, a deadline each | request, connect again, refuse another key | signer |
| **receipt store** (`apps/server/src/storage/store.ts`) | SQLite: receipts, checkpoints, connections, systems, organizations, admin log; in memory the write queue and `divergences` | append, appendBatch, createSystem, reconcileNow, writeCheckpoint, recordConnection, deletions | signer client |
| **checkpointer** (`apps/server/src/checkpoint/checkpointer.ts`) | `timer`, `retryTimer`, `running`, `requested`, `lock` | start, tick, retry, requestRun, checkpointAll, timestampPending, stop | store, time-stamp authority |
| **heartbeat watch** (`apps/server/src/connection/watch.ts`) | rows of `connections`; in memory the queue `serially`, the hourly allowances, when it started | heartbeat, gap, sweep | store, SDK |
| **SDK heartbeat and guard** (`packages/sdk-typescript/src/heartbeat.ts`, `guard.ts`; `sdk-python`) | session id, script hash, boot time | start, beat, stop, ended, gap | heartbeat watch |
| **SDK tracer and exporter** (`packages/sdk-typescript/src/tracer.ts`, `exporter.ts`) | the queue of ended spans, the promise of the batches under way, a timer | end a span, flush, shut down, send | `POST /v1/traces` |
| **tenancy** (`apps/server/src/auth/tenancy.ts`, `http/ui.ts`, `http/accounts.ts`, parts of `store.ts` and `cli.ts`) | organizations, accounts, assignments, transfer links, archive flags | create, assign, offer, accept, archive, delete, erase | store's write queue; the command line is another process on the same file |
| **keys, sessions, throttles** (`apps/server/src/auth`) | API key hashes, keys already verified, sessions, failure counters | issue, revoke, verify, lock out | HTTP handlers |
| **model gateway and vault** (`apps/server/src/gateway`) | sealed model keys, vaults, their schedules, data keys in memory | forward a call, record it, lock and unlock, sweep | providers, store |
| **chain health monitor** (`apps/server/src/health`) | the last result per system, the slice under way | verify chains in slices | store |
| **exports** (`apps/server/src/export`) | none | read a window of a chain, choose its checkpoints, prove it, zip it | store, read by read |
| **daily export** (`apps/server/src/backup/daily-export.ts`) | the files of the day | one archive per system, once a day | exports |
| **core** (`packages/core/src`) | none | canonical form, receipts, Merkle trees and frontiers, anchored times | everything |
| **verifier** (`packages/verifier/src`) | none | verify an evidence file, alone and against an earlier one | — |
| **people and content** (`storage/store.ts`, `cli.ts`) | the tables `subjects` (tokens) and `openings` (nonces), in the receipts' transactions | write, recover, erase a person, a system, a customer, a document | store |
| **copies and updates** (`deploy/*.sh`) | files of a directory, a remote directory, a mark, a lock | back up, send away, pull, build, restart | cron, git, docker, the database file |
| **ingest, web views, site** | none of their own | OTLP to events; pages and routes | store |

Between server and signer there is one socket, ordered, with a deadline on the
server's side only: a request whose sender gave up is still read. Inside the
server everything that writes receipts, and every change of the web view, goes
through one promise chain (`enqueue`), and the transaction stays open while the
signer is asked. The checkpointer and the watch are callers of that queue, with
queues of their own (`lock`, `serially`) in front of it. The command line
(`create-system`, `assign`, `erase`, `export` and the others) is a process of its
own on the same database file.

### What is hard here

* The signer's answer and the database's commit are two durable steps of two
  processes; either can die between them.
* A signature itself is three steps: journal line, state file, reply.
* Requests that timed out are executed later; replies come after their request.
* The database can be put back to a copy, the signer cannot.
* Two mechanisms guard the checkpointer's runs (a promise chain and a Boolean),
  with an await between them and the tokens they ask for.
* Heartbeats arrive late, twice or after the session's end, while a sweep reads
  and writes the same rows.
* A request of the web view is checked when it is asked and carried out when its
  turn comes; in between the queue, and the command line beside it, change what
  was checked.
* An API key is read before its secret is hashed on another thread, and used
  after; a model call outlives the key, the vault and the owner it began with.
* An answer and its receipt are two steps, in an order that depends on how the
  answer is sent.
* A batch of spans is written one receipt at a time, may fail half-way, and is
  written on after its sender gave it up.
* An export reads receipts, checkpoints, tokens, hashes and keys one after the
  other, from a database that changes in between.
* Scripts that cron starts may be killed at any line, and run beside the next of
  their kind.

### What makes each part correct

* *signer*: one receipt per position ever; nothing answered is forgotten; all
  checkpoints describe one growing tree; the journal gives back the chain.
* *store*: never holds what the signer does not; what was answered survives;
  a resent span is written once; red means disagreement; the queue moves.
* *checkpointer*: a requested run covers what it was asked for; a token stands
  with the root it covers; each checkpoint gets one in the end.
* *watch*: one receipt per change of state, none that is not due, and silence
  is written down.
* *delivery*: a batch the agent was told is taken is on the chain, whole; the
  chain has the batches in their order; nothing waits in memory for ever.
* *tenancy*: a system belongs to exactly whom it was given to; a link is spent
  once; a customer's records leave only with the customer.
* *keys, gateway, vault*: nothing revoked is let in; no plain answer without its
  receipt; no call that reached a model without one; a vault that should be shut
  is shut.
* *people and content*: a token means one person for ever; a nonce opens its own
  digest; what is erased comes back only with an old copy.
* *copies, updates, daily files*: the last good copy is not pruned; a failed
  update is not tried again and no commit is passed over; a file holds its day.
* *agent process and guard*: the end of an agent is told by somebody; every long
  cut of the network is told.
* *signer client*: a caller gets the reply to its own request, or an error, and
  one of the two always.
* *health monitor*: damage the monitor comes upon turns the light red and keeps
  it so.
* *model keys*: every key opens with the vault it names, whoever owns the system
  and however far a new vault got.
* *exports and verifier*: every archive of an honest chain is intact, and verifies
  if its tokens were given in the order of the trees; a later one is accepted
  after an earlier one, a shortened or rewritten one is not, and the times it states
  are true.

`PROJECT.json` lists the hazards line by line with the properties that cover
them, and those no property covers.

## 2. The modules

| module | models | checked by |
|---|---|---|
| `EvidenceLog` | the promise: records that only grow, named events once, nothing told that is not recorded | refined by `Signer` and `ReceiptStore` |
| `Signer` | `signer.ts`, `state.ts`, `daemon.ts` | `MCSigner`, `SignerProofs` (with `Prefixes`) |
| `ReceiptStore` | one chain in `store.ts`, `client.ts`, its signer, the database file | `ReceiptStore.cfg`, `StoreProofs` |
| `Checkpointer` | `checkpointer.ts` | `MCHosting`, `PartsProofs` |
| `ConnectionWatch` | `watch.ts`, `recordConnection`, the SDK's senders | `MCConnectionWatch`, `WatchProofs` |
| `Custody` | the register: who holds a system, and how it may change hands | refined by `Tenancy` |
| `Tenancy` | organizations, people, systems and links in `store.ts`; `ui.ts`, `accounts.ts`, `cli.ts` | `MCServer`, `ServerProofs` |
| `Gateway` | `llm.ts`, `api-keys.ts`, `provider-keys.ts`, `vault-schedule.ts` | `Serving`, `MCServer`, `ServerProofs` |
| `Merkle` | `merkle.ts`, `merkle-frontier.ts` | `MCEvidence` |
| `Evidence` | `archive.ts`, `from-store.ts`, `verify.ts`, `timestamps.ts`, `anchoring.ts` | `MCEvidence`, `EvidenceProofs` |
| `Delivery` | `tracer.ts`, `exporter.ts`, `POST /v1/traces` | `AgentSide`, `DeliveryProofs` |
| `Adoption` | `init-from-db.ts` | `Restored`, `MCRestored`, `PartsProofs` |
| `Erasure` | `subjects` and `openings` in `store.ts`, the `erase` commands | `Restored`, `MCRestored`, `PartsProofs` |
| `Backups` | `backup.sh`, `offsite-backup.sh` | `Keeping`, `MCKeeping`, `PartsProofs` |
| `Updates` | `auto-update.sh`, `update.sh` | `MCHosting` |
| `DailyExport` | `daily-export.ts` | `Keeping`, `MCKeeping`, `PartsProofs` |
| `ModelKeys`, `VaultHours` | `provider-keys.ts` with what changes hands and is deleted in `store.ts`; `vault-schedule.ts` | `Keeping`, `MCKeeping`, `PartsProofs` |
| `Sessions` | `sessions.ts`, viewerOf, login and logout in `ui.ts`, the way in of `accounts.ts` | `Keeping`, `MCKeeping`, `PartsProofs` |
| `Throttle` | `throttle.ts` and its three uses in `ui.ts`, `accounts.ts`, `server.ts` | `Serving`, `MCServer`, `ServerProofs` |
| `AgentProcess` | `heartbeat.ts`, `guard.ts`, `__init__.py`, `_watchdog.py`: the life of the process | `AgentSide`, `DeliveryProofs` |
| `Guard` | `guard.ts`, `_watchdog.py`: the clock of the guard | `AgentSide`, `DeliveryProofs` |
| `Conversation` | `client.ts`, the socket side of `daemon.ts` | `SignerLine`, `MCSigner`, `PartsProofs` |
| `Health` | `chain-health.ts`, `/healthz` | `MCHosting` |

`AgentSide`, `Restored`, `Keeping` and `Serving` put several components
together that share no variable and never wait for one another, with their constants
and under the names the proofs use (`SignerLine` does the latter for `Conversation`);
`MCRestored`, `MCKeeping`, `MCServer` (`Serving` with `Tenancy`), `MCSigner` (`Signer`
with `SignerLine`) and `MCHosting` (`Checkpointer` with `Health` and `Updates`) are
small instances of several, `Installation` holds the constants they have in common. The formulas
are blind to stuttering, so one holds of every interleaving exactly when it holds
of its component alone: TLC takes the components one after the other (`part` says
which moves), which is the union of their state graphs and not the product.

Operators named `Fault...` are slips that the definition after each could have
had. They are used by no specification: each shows that a property notices it.

### A convention used everywhere

A hash stands for all it commits to. The hash of a receipt is the sequence of
contents of its chain up to it, so a receipt *is* that sequence: its last
element is what it says, the rest is its `prev_hash`, the empty sequence is
GENESIS_PREV_HASH. A Merkle root, and a frontier, is the sequence of its leaves,
except in `Merkle`, which computes them. This assumes hashes do not collide, and
no more. Signatures are taken as unforgeable: what the server verifies is what
the signer sent.

### Signer

`disk` and `journal` are the files, `memory` the Map `StateDirectory.systems`,
`stage` and `signing` the signature in progress. `Record` is signReceipt up to
the flushed journal line, with all its refusals (`Admits`); `Put` is
`StateDirectory.put`; `Answer` is the reply. `Crash` may come between any two of
them, `CrashTearingLine` inside the first, `Restart` is `StateDirectory.open`.
`Seal` is CHECKPOINT. `LinesAt`, `ReceiptAt`, `Page` are
`StateDirectory.receipts` and GET_RECEIPTS. The server is not trusted: a request
may carry any receipt with any `prev_hash` ever seen, at any moment, and the
clock may be set to anything. `Adopted` is what init-from-db left behind.

Left out: requests refused for their form alone (key_id, protocol version,
malformed Unicode) change nothing; what openings and digests a body holds.

### ReceiptStore

One system. `signed` is the signer's durable chain, `wire` and `reply` the
socket with the client's table of requests (`live`: somebody still waits),
`chain`, `owner`, `deleted`, `seals` the database, `backup` a copy of it, `task`
the write at the head of the queue with reconcileNow's local variables. The
actions follow the awaits: `BeginAppend`/`StoreSigned`/`SignRefused` are
insertReceipt and writeReceipt; `GotHead`/`GotPage`/`Reconcile`/`Resume` are
reconcileNow and what each caller does with its outcome; `BeginSeal`/`GotSeal`
are writeCheckpoint; `ServerStart` is the comparison in `cli.ts` before anything
is served; `Unavailable` is a request that gets no answer (`ConnectionLost`,
`Timeout`). appendBatch is modelled as the receipts it commits one by one.

Here the signer signs atomically and only the next receipt: that is what
`Signer` is proved to do (`SignerImplementsLog`, `NeverForks`).

Left out: the handshake with another key; pseudonyms and openings (`Erasure`),
organizations beyond the owner (`Tenancy`).

### Checkpointer

`jobs` is the promise chain `lock` with, for each run, the phase it is in and
its local variables; `running`, `requested`, `timer`, `retryTimer` are the
object's fields. `Exclusively` is the timers' entry, `RequestRun` the web
view's. `seals` is the table, whose ids are used again after a deletion, as
SQLite does with `INTEGER PRIMARY KEY`. `Write` and `Delete` come between any
two awaits. One checkpoint is one step here; `ReceiptStore` opens it up.

### ConnectionWatch

`conn` is the table, `todo` the writes the handler in its turn has still to
make: `heartbeat` decides them from the rows it read (`Writes`), then
recordConnection makes them one at a time, in its transaction (`Save` with the
receipt). A write ends as `ReceiptStore` allows: `Written`, `NotSigned`, or
`SignedOnly`, whose receipt `TakeBack` stores later without the row. `net` is a
set: requests arrive in any order, or never. Times are ages in ticks; the hourly
windows are counters that run down (`HourPasses`).

### Tenancy, and Custody above it

`Custody` says what a register of holders may do: take a system in, assign it,
hand it over by a link that is spent once, close it. `Tenancy` is the code: the
tables (`dbVars`) and the store's write queue (`queue`). A request of the web view is
two steps, as in the code: `Ask...` checks who is signed in and whether the
system is theirs, and queues the change; `Turn...` is the store's transaction,
with the checks that transaction makes itself. `Cli...` commits beside it, from a
process of its own; `TurnFails` leaves nothing; `Restart` forgets the queue.
deleteOrganization is one task with one transaction per system (`Rest`).

Left out: names and labels, the admin log's text, sessions beyond who is signed
in, and everything about keys (`Gateway`).

### Gateway

`call` holds each request with the locals it carries over an await: the row of
its key, what kind of call it is, how far it has come.
`Present`, `Hashed`, `Serve`, `AnswerBegins`, `BodyArrives` or `StreamEnds`,
`Record` are the awaits of `llm.ts` in order; `NoAnswer`, `BodyBreaks`,
`UnknownOutcome`, `RecordFails` its error paths. `key`, `archived`, `owner`, `vaults`, `sealed`,
`held` (data keys in memory) and `modelKey` are what people and clocks change in
between (`Revoke`, `Archive`, `Move`, `Lock`, `Unlock`, `CreateVault`,
`SetSchedule`, `HoursPass`, `TimeRunsOut`, `Sweep`). The cache of verified keys
(`verified`) and the bounded hashing are in `Verdict`.

Left out: passphrases and failure counts (what they allow is a choice), the
pause for maintenance, more than one provider per system, how answers are read.

### Merkle and Evidence

`Merkle` is both files function by function, hashes being terms. `MCEvidence`
assumes, and TLC evaluates, that the frontier's root, the root over every entry
and the root climbed from every audit path agree for trees of up to 12 leaves.

`Evidence` puts them to use. What it takes of the trees are four constants, the
root of a tree, the frontier's, the path of an entry and the root climbed from it,
for which `MCEvidence` puts `Merkle`'s; what it needs of them is `TreesHold`: the two
roots agree, and a path proves the entry it was made for and none of another history.
The database (`Write`, `Checkpoint`, `AskForTokens`,
`TokenArrives`, `NewKey`) grows while the export command makes its five reads
(`ReadReceipts`, `ReadCheckpoints`, then hashes, tokens and keys); `Archive` is
what it writes. `Intact`, `Follows`, `SameReceipts`, `SameAnchors` are
verifyBundle and `--previous`; `Proven`, `ExistedBy` are
anchorTimes, with its two errors: `ReceivedInTime` (anchor-time) and `TimesGoForward`
(anchor-order). `sigillo-verify` ends well when an archive `Verifies`, which is all
three. A token may fail and come after that of a larger checkpoint (`TokenFails`), so
that archives which do not verify are among those of the run. A window may begin and
end anywhere, so proofs are needed for the receipts that are left out.

Left out: schemas, disclosures and artifacts, the manifest's counts and period,
openssl's verdict on a token (honest here), anchor delays, the tolerance between the
two clocks (they agree).

### Delivery

`queue` holds the spans that ended; `batches` what `flush` cut off it, with the
promise each stands for; `wire`, `writing`, `replies` the requests to
`POST /v1/traces` and what the server still writes of each, given up or not;
`chain` what was signed. `Send` is the promise chain's next link, `GiveUp`
AbortSignal's timeout, `WriteNext`/`WriteFails`/`Answers` appendBatch and the
route. Nothing that failed is sent again: that is the code (`exporter.ts` drops
what it could not send), and it is why only what was *told* taken is promised.

Left out: what a span says; the Python SDK, whose exporter is OpenTelemetry's.

### Adoption

`db` is the database with its log, `files` and `marker` the signer's directory,
`command` the command between two writes, `up` whether the services run,
`release` which signer is installed, with a memory or without. `Run` is everything up to the first write (`Acceptable` are its
comparisons, `ToWrite` what it has to do), `PutState`, `WriteLog`, `WriteMarker`
its writes, `Crash` between any two. `Start`, `Record`, `TakeBack`, `Delete` are
the services it prepares for; `PutBack` and `PutAside` the two steps a person may
take after DEPLOY.md. The comparison with what the signer holds is the code's:
position and hash of the head.

### Erasure

`db` holds `chains` (receipts as the token they name, the nonce they commit to,
their trace), `subjects` and `openings`; `signed` what the signer holds. A receipt
is `Write`, or `WriteLost` and later `Recover`: its transaction excludes every
other writer, so it is one step with two ends. `EraseSubject`,
`EraseOperatorSystem`, `EraseOrganization` are the transactions of the same
names; `ListDocument`, `CutOff`, `CommandEnds` are `openings erase`, which reads
once and then deletes system by system. `Backup` and `Restore` put an old copy
back.

### Backups, Updates, DailyExport, Guard

* `Backups`: `copies` is the directory in the order of `ls -1t`; a run of
  `backup.sh` is `Begin`, `CopyOn`, `CopyEnds` (the command of line 46 is done),
  `List` (`BeyondKeep` is the list of line 49, a command of its own: others may write
  in between), `RemoveOne`..., the newest of the list first, `End`, and `Killed`
  anywhere. `since` is a history variable that no action reads: who wrote between the
  end of each run's copy and its listing. `offsite-backup.sh` is `Pick`, `Send` or
  `SendFails`.
* `Updates`: `main`, `head` (the checkout), `built`, `running`, the mark (`failed`),
  and the step a run is at (`stage`): `Look`, `Pull`, `Build`, `Started`, `Up`, `Succeed`; `Fail`
  marks, `Die` does not.
* `DailyExport`: the day, whether it is 23:59 (`late`), the receipts with their
  days, who holds a system and has the switch on, the files, the run under way. `Tick` is the timer with its test of
  the clock and of the register; `One` writes one file; `Fails` ends the run.
* `Guard`: the loop of the watchdog in periods of five seconds. Its books
  (`pending`, the last answer, the time of the last round) and the truth (cuts
  and sleeps) are separate, and time passes inside a round as its awaits do.
  Left out: the last 50 gaps only are kept, the agent's own end (`AgentProcess`).

### AgentProcess

One agent with its heartbeat (a thread in Python, a timer in Node), its guard, and
the network with the server's answers. `sdk`, `strict` and `onHalt` are options,
so one model holds both SDKs and says where they differ. `program` and `ending`
are the agent's code and the way it ends: it closes, returns, exits, crashes or is
killed, at any step of `Send`. `Close` is close() up to what it waits for,
`CloseReturns` the rest; `Halt` is strict mode's. The guard's rounds are
`GuardHears`, `GuardSees`, `GuardEnds`. `said` is
what was sent, with who sent it, `queue` the requests under way.

### Sessions, Throttle

Nothing of a session is stored. A cookie (`cookies`: all that were ever issued,
since copies stay in browsers) is sealed under the process's `secret` and the epoch
of its viewer, and `Opens` says which of them viewerOf takes: the seal, the end, and
whether the viewer is still somebody (`Belongs`, read from the database each time).
`SignsOut` moves the epoch on, `Restart` draws another secret and forgets the
epochs, `Registers`, `Approve`, `Remove` change the rows. `signedOut` remembers what
the code forgets.

In `Throttle`, `use` says which of the three throttles it is. `entries` is the Map in
the order of its insertions, with `MakeRoom` as it evicts; `Ask`, `Wrong`, `Right`,
`NoVerdict` are the two sides of the await behind which a password or a key is
judged, so that failures are recorded under the time they were asked at and in any
order. `wrongs` is the history that lockouts are measured by. A filter keeps positions
(`Picked`), which is what the proofs can be about. The addresses of API keys are
locked out for at most fifteen minutes and remembered for a day, which `Init` has as
`MaxLockout <= ForgetAfter + 1`: there a failure is recorded while the lock lasts.

Left out: how clients are told apart (an address or a header), the answers' wording.

### Conversation

`connections` are the connections ever made, with what is still in each
direction and who listens at the other end (`signer`: a key, something foreign, or
nothing); `socket`, `opening`, `pending`, `lastId`, `identity`, `closer` are the
client's fields; `calls` the callers. `Call`, `Connects`, `Receive`, `HearsClose`,
`TimesOut`, `Close` are its methods and listeners, `Serves` the daemon's. A reply may come after its deadline, from a connection that was
replaced, or from a signer with another key.

### Health

One system. `checked` and `failed` are the monitor's memory, `reachable` the
signer's last answer, `Status` what statusFor computes. The chain, the
checkpoints, the connection and the signer change as they like beside it.

### ModelKeys, VaultHours

`db` holds systems with their owners, the organizations, the vaults and the keys with
what each is sealed under; `keyFile` is the server's own key file, `held` the data
keys in memory, `saving` a request of the web view that waits for the provider.
`CreateVault` may also fail or be cut (`CreateVaultFails`, `CreateVaultCut`);
`AsksToSave` and `Saves` are the form of the console, before and after its await; the rest is what
happens to systems and organizations meanwhile, with `BackUp` and
`Restore` (with the key file, or on another machine without it).

`VaultHours` is the arithmetic of the weekly windows. `MCKeeping` assumes, and TLC
evaluates, that a window seals the minutes that were drawn and no others, over
midnight and the week's end.

## 3. The runs

All runs switch deadlock checking off: the bounds make every system stop.

| run | asks | bounds |
|---|---|---|
| `signer` | `Signer`: forks, reading back, refinement of `EvidenceLog` (which has that nothing answered is forgotten). `Conversation`: replies and callers, nobody waits for ever | 3 systems (new, adopted with its genesis, retired), 2 positions, 2 bodies, 2 instants, 2 crashes; 3 requests, 2 connections, 2 keys |
| `store` | what was answered survives, a checkpoint covers its receipts, red has a cause, refinement, a chain behind catches up | 1 span and 1 other event, chain of 3, any 3 faults, pages of 1, a journal without the genesis |
| `watch` | one receipt per change, none undue, silence is recorded | 1 session, 2 script hashes, 2 beats, 2 faults |
| `server` | `Gateway`: nothing revoked is let in, answers and calls have receipts. `Throttle`: lockouts. `Tenancy`: no orphans, records leave with their customer, refinement of `Custody` | 1 key, 1 system, 2 calls, 2 accounts, 2 events; 3 addresses, 2 remembered, 2 failures, a clock to 2; 2 organizations, 2 people, 1 system, 2 links, quota 1, queue of 2 |
| `gateway_broken` | *violated*: a call that reached the model and has no receipt | 1 key, 2 calls, no event |
| `evidence` | every archive is intact and, but for tokens out of order, verifies; `--previous`, what a token protects, the times stated | 4 receipts, 2 checkpoints, 2 keys; trees of up to 12 leaves |
| `evidence_order` | *violated*: attested times that go forward with the tree | 2 receipts, 2 checkpoints, 1 key |
| `agent_side` | `Delivery`: what was told, the order, an end to waiting. `AgentProcess`: somebody tells the end. `Guard`: long cuts are told | 3 spans, batches of 2, 1 flush, 2 faults; STRICT_MISSED_BEATS 3, 2 faults; 40 periods of five seconds, the default times, 1 sleep |
| `restored` | `Adoption`: one branch. `Erasure`: one meaning of a token, nonces at their own receipts, links lost on purpose only | 2 systems, chains of 2, 2 mishaps; 2 systems, 2 people, 3 tokens and nonces, 1 restore |
| `keeping` | `Backups`: the last good copy. `DailyExport`: a file holds its day. `ModelKeys`: keys open in their vault. `VaultHours`: windows. `Sessions`: what opens pages | 4 runs, 2 at once, 2 copies kept and 1 sent; 2 days, 2 systems, 2 accounts, 1 handover; 2 systems, 1 customer, 2 data keys, 3 changes; 2 people, 1 organization, 3 cookies, 1 ticket, 2 starts |
| `keeping_crossed` | *violated*: a complete copy always stays, whoever writes between a run's copy and its listing | 4 runs, 2 at once, 2 copies kept; the other parts nearly still |
| `hosting` | `Checkpointer`: a requested run covers what it was asked for, every checkpoint gets its token. `Health`: damage shows. `Updates`: main is followed | 2 systems, 1 receipt each beside the genesis, 2 runs at a time, 1 exit; 3 receipts, 1 checkpoint, 2 instants; 4 commits, 2 marks removed, 2 deaths |

### Why these bounds are enough to be interesting

* **MaxSeq, MaxTime, MaxCrashes** (`signer`): a fork needs two receipts at one
  position, one of them after a crash; times that go back need two instants;
  a torn line followed by a repeated position needs two crashes. Longer chains
  are covered by the proofs.
* **MaxSigned** 3 (`store`): a chain behind by two receipts needs the journal, more
  than one page of it with `RECOVERY_PAGE` 1, and one behind by one does not.
  **JournalStart** 1: the genesis is not in the journal, the rest is.
  **MaxFaults** 3: a timeout whose request is executed late, a crash and a
  database put back, in one behaviour. The trace in which a journal page times
  out after a restore uses exactly these three.
* **MaxJobs** 2, **MaxReceipts** 1: one run going on and one behind it; a receipt
  before and one during a run. **MaxExits** 1: a restart between a checkpoint
  and its token.
* **LOST_AFTER** 1, ages up to `LOST_AFTER + 1`: only "longer ago than the
  allowance" is compared. **MaxBeats** 2: a beat late enough to follow a loss
  and one after it; **MAX_NEW_SESSIONS**, **MAX_GAPS** small enough to be met.
* `Tenancy`: everything that goes wrong between the asking and the turn needs one
  thing in the queue in front of it, hence **MaxQueue** 2; a link that is replaced
  needs a second one; two organizations and the operator are all the owners a
  handover can involve. The proofs cover any number.
* `Gateway`: two calls at once share a key, a vault and the cache; **MaxEvents**
  2 lets any two changes (revoke and archive, lock and move, ...) fall between
  their awaits. The proofs cover any number of both.
* `evidence`: with 4 receipts and 2 checkpoints there are windows that begin or
  end inside a tree, at its edge and beyond it, checkpoints before, in and after
  a window, and proofs over odd trees. The trees of up to 12 leaves pass two
  complete powers of two.
* `Delivery`: three spans with batches of two give a full batch and a rest; spans 1
  and 3 are actions, 2 is not. `Guard`: 40 periods of five seconds, with the default
  times (a ping a minute, two minutes' cut, ten seconds' time-out), are a long cut
  and the rounds around it, or a short one, a sleep and another.
* `Adoption`: two systems so that the command is half done; **MaxUpsets** 2: a
  database and a directory put back, in either order. `Erasure`: three tokens or
  nonces, so that one is drawn after an erasure and one after the restore.
* `Backups`: four runs with two kept prune twice, and are one more than it takes to
  push a complete copy out between a run's copy and its listing. **Overlap** 2 and two
  copies kept are what the property needs, and the proof covers any number of runs: see
  below. **RemoteKeep** 1: what was sent is read by nothing else.
* `Sessions`: a cookie, its copy's second session and one of the next process;
  **MaxStarts** 2 for a restart that forgets the epochs. `Throttle`: three addresses
  with room for two meet the eviction; failures two apart in time lock out twice.
* `Health`: both allowances are zero ticks, so one tick of lateness is beyond them.

### Assumptions of the models

* The checkpoint interval is longer than the gap a requested run waits (an
  hour against ten seconds by default): no second tick finds the first still
  queued (`Checkpointer!Tick`).
* A heartbeat handler ends within a tick (`ConnectionWatch!Tick`): a signer
  request gives up after five seconds, the allowance is three minutes.
* The signer's files are not put back to a copy (docs/SECURITY.md says why this
  must not be done; `Adoption` does it, with the steps DEPLOY.md gives); one
  server process writes to a database. The `checkpoint` command in a process of
  its own is not modelled.
* A random token or nonce is new (`Erasure`, `ModelKeys`); a restart ends the
  requests it had (`Gateway`, `Delivery`).
* At most two runs of `backup.sh` at once, and at least two copies kept (`Backups`;
  `TwoByTwo` in the proof). Cron starts a run every hour and nothing keeps the next
  from starting, so three at once are runs of more than two hours; two copies is the
  default. Without either `LastGoodCopyStays` fails, because a run prunes by a
  listing made before the other's copy was complete: of two runs that keep one copy
  each may list the other's; and three runs may do so whatever is kept. With three
  kept: the first is still writing when two others begin and are killed and a fourth
  completes, listing the first's file among the old; two more begin and are killed;
  the first completes and lists the fourth's; each then removes the other's, and
  files of killed runs are all that is left. Nor is that enough: the property ends
  where a run is overtaken (`Overtaken`), that is, where as many others as are kept
  write between the end of its copy and its listing, two commands of one script. What
  happens then is the third violated property.
* The guard's pings are less than ninety seconds apart (`PingsInTime` in the proof;
  a minute by default): see "Heartbeats, SDKs" below.

### Fairness

* `ReceiptStore`: the signer and the server are started again when they stop
  (`restart: unless-stopped` in deploy/docker-compose.yml); the signer reads
  what was sent; a handler with its answer goes on; the checkpointer's timer
  lists the systems. `BeginSeal` is strongly fair: it has its place in a
  first-come-first-served queue that other writes pass through.
* `Checkpointer`: timers fire, runs go on. Checkpoints and tokens are strongly
  fair, system by system and checkpoint by checkpoint: the signer and the
  authority may fail any number of times, not for ever. For more than one
  system the signer must also get through the last system of a run again and
  again: a run that throws at one system drops the tokens of all, so a signer
  failing at a different system each time would starve them, and no schedule
  of the code prevents it.
* `ConnectionWatch`: time passes, the sweep's timer fires, the process is
  started again, writes succeed in the end. No message need ever arrive.
* `Delivery`: the interval timer fires, the promise chain goes on, AbortSignal's
  timeout passes. Nothing is asked of the network or the server.
* `Conversation`: an attempt to connect ends, well or not, and while deadlines run
  one passes. Nothing is asked of the signer.
* `Health`: the monitor's timer fires. `Updates`: cron starts the script every
  minute, and a step of it ends, well or not.
* Faults are never fair.

### What the violated properties show

`EveryCallBecomesAReceipt` states llm.ts:12-13, "Every call that reaches the model
becomes a receipt". The fetch of a call is inside a handler that records it with
an unknown outcome when it throws; a plain answer's body is read outside any
(llm.ts:260). When the answer breaks off after its headers, or the agent goes
away, the call reached the model and no receipt says so. A stream that breaks off
in the same way is recorded (278-281).

`AttestedTimesGoForward` states anchoring.ts:136, "by tree size, the attested times
only go forward". A checkpoint whose token failed "stays in the queue for the next
run" (checkpointer.ts:117), and `timestampPending` goes on with the next one, which is
larger. The first gets its token later, and the larger tree is then the one stamped
earlier: an error without tolerance, for which `sigillo-verify` ends with FAILED
(verifier/cli.ts:264-271). Nobody touched the chain. Every export that carries both
checkpoints is refused from then on; `ExportsVerify` says what holds of them all the
same, and that nothing else makes an archive fail.

`NeverTheLast` states backup.sh:6-7, "a backup that stops running does not silently
delete the last good one". The copy (46) and the listing (49) are two commands. The
first run's copy is complete; before it lists, a second run begins, writes and is
killed, and a third begins: the two newest files are theirs, neither is a copy, and
the first run removes its own. No more than two run at once.

### Met while modelling

Each of these was met as a behaviour of the models, and says what the code does
beside what it promises elsewhere. They are not carried as runs; the first line of
each names the place.

*Chain, signer, checkpoints*

* checkpointer.ts:170, 210. "A run that leaves tokens missing tries again after
  `retryMinutes`" (20-23), but a run asked for from the web view arms no retry,
  nor does one that throws (202-209), and a retry that fires during a run is
  swallowed (201). `EveryCheckpointAnchored` shows that the next interval makes it
  good.
* checkpointer.ts:70-72. A system deleted between the listing and its turn is
  recorded as divergent until the process ends (store.ts:2554, cli.ts:279).
* store.ts:2566. A customer's genesis that was signed and lost is taken back with
  `organization_id` null, though a system "is never nobody's" (696-698).
* store.ts:2485. A journal page that does not arrive in time is treated as "a signer
  without a journal" and turns the system red, until a later run recovers it;
  `AlarmsHaveACause` names that cause (`pageLost`).
* store.ts:1396. A system created after the copy that was put back is not compared
  at start: `AnsweredKept` therefore speaks of chains that are not empty.
* store.ts:1093. deleteEmptySystem counts the database's receipts only; one that was
  signed and lost goes with the system.
* server.ts:562. An event posted to the receipts API has no name of its own: retried
  after a 503 whose receipt was taken back, it is recorded twice.
* client.ts. A listener that does not speak the protocol drops the client until the
  server starts again; the refusal of an over-long line carries no id, but
  MAX_RECEIPT_BYTES keeps every line the server sends below the limit.
* init-from-db.ts:176. The states are put before the log's entries: a run killed in
  between leaves adoptions that no entry ever names, against 28-30. The daemon
  starts without looking at the marker.
* docs/SECURITY.md:222-229. An archived system may still gain a receipt that the
  signer signed before.
* A copy put back loses the checkpoints made since; `--previous` with an archive that
  carried one reports it as removed.

*Heartbeats, SDKs*

* guard.ts, heartbeat.ts. The guard pings every `heartbeatSeconds`, which an agent may
  set to anything: from ninety on, a cut of two minutes may fall between two pings
  and stay untold, whatever docs/API.md:320-322 says of it.
* watch.ts:222. A beat that arrives after its session's stop opens the session
  again, and the sweep then writes `lost` for an agent that closed.
* store.ts:1365. A change of a session whose receipt was signed and lost is written
  again, against 1341-1342.
* watch.ts:212-219. The start of a session and its `script_changed` are separate
  writes: if the second fails the edit is never told.
* guard.ts:97. A cut is measured between two answered pings, 60 s apart: one lost
  ping makes two minutes, and a receipt, of however short a cut (docs/API.md:320-322
  and _watchdog.py:163 speak of two minutes).
* guard.ts:84. Two gaps that cannot be told and a ping that times out make one round
  of the loop 35 s long, which the guard takes for a sleep (docs/API.md:303).
* guard.ts. HTTP errors count as told; only the last 50 gaps are kept; the offline
  stretch before a sleep is lost when the sleep follows it.
* `__init__.py`:198, heartbeat.ts:84-91. An uncaught exception closes as it goes in
  both SDKs: the chain says `stop` where docs/API.md:310-312 says `ended`.
* `__init__.py`:240. An `on_halt` that shuts down joins the thread it runs on: no
  stop is sent and the guard says ended, against 930-932.
* heartbeat.ts:106. The TypeScript SDK's guard kills a strict agent that has an
  `onHalt` of its own, against its README:97-98; its strict halt is recorded as a
  stop where Python's is as ended. A guard that kills says no `ended`.
* exporter.ts, tracer.ts:182. A batch that failed is never sent again, and a flush
  answers only for its own batch. server.ts:436-439 has "the whole batch in one
  transaction", which appendBatch does not do.

*Tenancy, gateway, keys*

* ui.ts:979, 1250. A quota is looked at before the creation it limits, a last key
  before its retirement: two requests at once pass both.
* store.ts:951. Assigning a system leaves its open transfer link open; it is refused
  when it is used.
* store.ts:2041. An administrator's request that waited acts after the system has
  gone to another owner.
* ui.ts:1370-1372. A model key is written for a system that was deleted, or changed
  hands, while the provider was asked about it.
* store.ts:901. A deleted organization leaves its vault and its schedule
  (docs/STORAGE-INVENTORY.md:209, 221): an organization made under the same
  identifier finds a vault it has no passphrase for. If they were removed, the keys
  of systems handed on would no longer open.
* provider-keys.ts:345. A system that changes hands keeps its key in its former
  owner's vault, against 13-15.
* provider-keys.ts:367. After a restore without the key file, createVault fails at the
  first key it takes over, with the vault made and its recovery key lost.

*Sessions, throttles*

* sessions.ts. Signing out moves an epoch; while the organization does not exist
  there is no viewer to sign out, so that a copy of the cookie made before opens
  again when the same person registers under the same identifiers, until its end.
* ui.ts:428-431 speaks of an approval withdrawn; no code withdraws one.
* throttle.ts. An attempt that was asked before a lockout began is still judged, and
  its success forgets the lockout. Room for a new client may be made by forgetting
  one that is locked out, once everyone remembered has something to answer for. A key that is right forgets no failure.
* throttle.ts. Whether a client is remembered is measured from its last failure, so a
  `maxLockoutMinutes` above the day of `forgetAfter` would be forgotten before its
  end by the first failure after that day. The largest in use is below it, but for
  the password's, where the lock is looked at before anything is recorded.

*Erasure, copies, daily files, updates*

* cli.ts:901. `openings erase --document` reads positions once and deletes system by
  system: a receipt of the same run written in between keeps its nonces
  (docs/SECURITY.md:341-343).
* docs/SECURITY.md:383-389. A receipt taken back has lost its nonces, and may have
  lost the link of a person who was known before.
* store.ts eraseOperatorSystem leaves `subjects` rows that no receipt names.
* offsite-backup.sh:67. The newest file may be one that a run is writing, or left by
  one that was killed: it is sent in place of the last copy that was made.
* daily-export.ts:115. A receipt of the last minute, written after its day's file, is
  in no file; an error at one system ends the run for the others; a restart cannot
  make up an earlier day; two day files in a row fail `--previous`. The files of an
  erased organization stay until they are pruned.
* auto-update.sh:61. With its mark removed a failed update is not tried again
  (against 25), because HEAD has moved; a run killed after its pull leaves a server
  half updated with no mark; update.sh has no lock of its own.
* chain-health.ts:184. A checkpoint stamped too late is forgotten by the light as soon
  as there is a newer one, while the next export still warns of it (22-24). Damage
  behind the place the monitor has reached shows after a restart only, by design.
  A system deleted from the command line stays in `failedSystems` (90), and without
  the web view `/healthz` covers only divergence.

## 4. What is proved

Eight modules hold proofs, for any value of the constants, from the assumptions that
are stated in the modules they are about. Three more are stated by the theorems that
need them: `PingsInTime`, `TwoByTwo`, and `EvidenceConstants` with its `TreesHold`,
which no prover here can show of the recursion in `Merkle` and which TLC evaluates
for every chain of the run, and for every path of trees of up to 12 leaves
(`MCConstants`, `PathsProveTheirEntry`). A theorem about a
part is about that part's own specification; where a run takes several parts one
after the other, what holds of each holds of every interleaving of them.

| theorem | says |
|---|---|
| `SignerProofs!TypeCorrect` | the type invariant |
| `NeverForks` | no two different receipts were answered for one position |
| `AnsweredIsRemembered` | what was answered is in the durable chain |
| `SealsAlwaysAgree` | checkpoints agree with one another and with the receipts |
| `AlwaysWellFormed` | the positions of every durable chain; genesis and times of what was signed here |
| `ChainsOnlyExtended` | no step replaces or removes a receipt |
| `SignerImplementsLog` | every step is one of `EvidenceLog`, or none |
| `JournalKeepsTheChain` | what is read out of the journal, whatever its lines, is the chain |
| `StoreProofs!TypeCorrect` | the type invariant |
| `OneHistory` | the database's chain and its copy's are beginnings of the signer's |
| `AnsweredReceiptsAreKept` | what was answered is in the chain while nothing is red |
| `SealsCover` | a checkpoint covers receipts that are there |
| `NoAlarmWithoutACause` | red needs a page that did not come, a deletion, or a short journal |
| `StoreImplementsLog` | every step of the store is one of `EvidenceLog`, or none |
| `WatchProofs!TypeCorrect` | types |
| `ReceiptsFollowOneAnother` | a session's receipts tell one change after the other |
| `LossesHaveTheirTime` | a loss is written only after the allowance |
| `ServerProofs!TypeCorrect` | the types of the tables and of the queue |
| `NobodyOrphaned` | no system, no person is left to an organization that is gone |
| `RecordsKept` | a customer's records go only in the step that erases the customer |
| `CustodyImplemented` | every step is one of `Custody`, or none |
| `GateTypeCorrect` | the gateway's types; a data key is held only for an account with a vault |
| `RevokedStaysOutside` | no request later than the revocation is let in |
| `AnswersAreRecorded` | who holds a plain answer finds its receipts |
| `CallsAreAccountedFor` | a call that is over left a receipt, or a line that says it was refused |
| `LockoutsKept` | a lockout has its failures, and stays as it was set |
| `EvidenceProofs!TypesHold` | types |
| `ArchivesVerify` | every archive is intact and says what is unanchored; it verifies but for tokens out of order |
| `PreviousStands` | of two exports the later follows the earlier, and hides nothing of it |
| `TokensSeal` | no archive of another history is intact with a token over what it changed |
| `TimesAreTrue` | a receipt is not newer than the time it is proven to have existed by |
| `DeliveryProofs!TypeCorrect` | types |
| `TakenIsWritten` | every action of a batch told taken has its receipt |
| `ChainInOrder` | the batches in their order, each batch's actions as they started, once |
| `EndsAreTold` | the end of an agent's process is told, by it or by its guard |
| `LongCutsAlwaysTold` | a cut of two minutes is told by the first ping after it |
| `PartsProofs!LastGoodCopyAlwaysStays` | two runs of `backup.sh` at once never take the last complete copy while neither is overtaken |
| `SignOutsHold` | a cookie opens pages exactly as long as it should |
| `VaultsOpenTheirKeys` | a saved model key opens with the data key of the vault it names |
| `FilesHoldTheirDay` | a day's file holds that day's receipts |
| `OneBranchPerMemory` | no second branch out of an old database |
| `TokensMeanOnePerson` | a token stands for one person, in every copy, and a nonce at the receipt that was made with it |
| `LinksAreLostOnPurpose` | a receipt leads to its person unless somebody erased them |
| `AnswersAreTheirs` | a caller gets the reply to its own request |
| `AskedRunsCover` | a requested run covers what was written before it was asked for |

**SignerProofs.** `NoFork` is not inductive: it says nothing about the receipt in
hand, nor what the Map and the files have to do with each other. `IInv` adds
that (`MapIsDisk`) while the process runs its Map is what its files hold; that
(`InHand`) the receipt in hand continues its durable chain before `Put` and ends
it after; that (`Remembered`, `AnsweredAtItsPlace`, `SealedIsOnDisk`) what left
the process is a prefix of a durable chain, at its own position. Two answered
receipts of one length are then prefixes of one sequence, hence equal
(`PrefixUnique`). Of the chains that init-from-db adopts only the positions are assumed
(`Positioned`), which it checks; it does not look at their times, and so the theorem
says nothing of them before the head that was adopted. The only step that changes
`disk` is `Put`, and it appends one element (`PutExtends`), so every prefix stays one (`PrefixTransitive`): that is
`ChainsOnlyExtended`, and most of the rest. Each action has a lemma of its own
(`RecordStep`, `PutStep`, `AnswerStep`, `SealStep`; crashes and restarts touch
only what `MapIsDisk` and `InHand` say), collected in `InvStep`. For the
refinement, `Put` is an `Extend`, `Answer` a `Tell`, everything else a stutter.

The journal needs an invariant of its own, `JournalHolds`: what is read for a position
that is taken is the receipt the chain has there, and the receipt in hand is the last
line there is. A new line is always at the position after the chain's last, so it
hides none before it (`FreshLineHidesNothing`).

**StoreProofs.** The database and its copy hold beginnings of the signer's chain
(`HeldBySigner`). Whatever is still on the wire after its sender gave it up can sign
no event a second time (`Harmless`), and a request that somebody waits for is
the last one on the wire and was asked of the chain the database still holds
(`Awaited`, `OnTheWire`): so an answer that comes may be committed, and one that
does not come loses nothing. Red (`Caused`) has one of its causes at every step of
the comparison. The refinement maps the chain the signer holds to the log.

**WatchProofs.** The row of a session and its receipts say the same at every moment
(`RowsTell`), and each write a handler has still to make fits the state it will find
(`WritesFit`, `InGroups`): the one before it leaves it so, and nothing else writes
in between. A loss is decided only with other losses, by a sweep
(`LossesStand`), so that nothing made since the sweep read can unsay it.

**ServerProofs, Tenancy.** Every step leaves the tables alone or is one transaction of the
store (`StepIsTransaction`), and every transaction looks again at what it depends
on. So what stands on the queue needs only its type: however old a request is, it
does no harm. `DbInv` says that who is named in the tables exists, that open links
are held by who may give the system away, and that a system has one open link at
most; each transaction keeps it. The refinement maps each transaction to its
counterpart in `Custody`.

**ServerProofs, Gateway.** `RequestInv` says of each call, by how far it has come, what is
already on the chain (`Written`) and why it was let in (`LetIn`): its key was good
when it arrived. A revocation later does not unsay that, and an entry of the cache
of verified keys is used only beside a row that was read after. `Kept`: no step
takes a line or a receipt away.

**ServerProofs, Throttle.** That lockouts stand is no invariant by itself: a late failure
could find its client forgotten and put a fresh entry in the lockout's place.
`AskedBefore` rules it out where a locked client cannot ask: whoever waits and finds
itself locked out was locked out since it asked, by an answer that was not late by
more than `MaxDelay`. For API keys `Short` does, no lockout being longer than a
client is remembered. That a lockout has its failures is `Fair`: the failures an entry
holds are among those recorded against its client, one for one (`Backs`), so that a full
count of them (`CountedIs`) is a full count of the history. `Picks` says what a filter
leaves: positions of the sequence, each once, and none it was to keep left out.

**EvidenceProofs.** What an archive holds is decided by four things: the chain, the
window read of it, the seals read after, and the number of keys (`Pack`). The lemmas
are of such a pack, with any seals of the chain (`SealsOf`): it is intact
(`PackIntact`), its receipts were received in time (`PackTimes`), and with seals
stamped in order its times go forward (`PackInOrder`); a proof in it stands for the
seal it names; another history shares no hash from the change on. The
invariant (`EInv`, which TLC was given first) says that what the export has read so
far, the archive it made and the one that was kept are of that kind (`ReadsOk`,
`ArchiveOk`, `PreviousOk`), and that what was read or kept before still stands in what
is there now (`Stand`): the chain only grows, and seals gain tokens and larger seals,
nothing else. The export's five reads need no more than that to fit together.

**DeliveryProofs.** Of batches: one is in one place at a time, waiting, on the wire,
in the server's hand, answered, given up (`OneAtATime`). What the server writes of it
is what is left of it, from the front; an answer is given when nothing is left. Of
the process: a close that has begun keeps its stop, on the way or said, until the
guard is told of it (`ClosesTell`), and an end without one leaves the guard to speak
(`ToldByOne`). Of the guard's clock: a ping falls into a cut within one interval of
its beginning (`CutSeen`, whence `PingsInTime`), and once the cut is long the guard
knows of it, or is so late that it will take the round for a sleep (`LongCutKnown`).

**PartsProofs.** One invariant per part:

* *copies*: the directory is an order of files, which a write changes by putting one
  at its end and a removal by leaving one out (`Written`, `Removed`). While nobody was
  overtaken: a run about to remove what another still writes or has not listed yet has
  its own copy complete, and only that other has written since (`LastWord`); what is
  newer than the copy of a run that is to list wrote since then (`Fresh`), so that it
  is less than what is kept; of two runs that are to list one was complete first
  (`NotBoth`). Hence one complete copy is always on nobody's list (`OneIsSpared`), and
  the next listing will not name it (`Safe`). `TwoByTwo` is what these steps need.
* *sessions*: of the cookies of this process those with an epoch gone by are the
  signed out (`EpochsTell`).
* *model keys*: the same seals in the tables and in the copy (`Sealed`), and a data
  key in memory is the one of its vault (`InMemory`).
* *daily files*: a file is written when its day is at its end (`AtItsEnd`), and
  a receipt written later is late.
* *signer's memory*: the chain a state file stands for is the longest this memory ever
  held (`Longest`), and the command, while it goes on, writes each system's state
  once and only where there is none (`WritesOnce`).
* *people*: the database and its copy hold beginnings of what was signed
  (`Beginnings`), tokens are drawn once (`TokensDrawn`) for one person (`OnePerson`),
  and a receipt without its link has its reason (`Explained`). Nonces have an invariant
  beside it (`NonceInv`): what is taken back stands after all that a nonce is kept of.
* *line*: where the client is (`Phases`) and what each line on the wire with an id
  means (`IdsMean`), from whom (`FromPeers`).
* *checkpointer*: what a run owes was written when it was asked for (`DueWritten`),
  the systems it has been through are covered (`CoveredSoFar`), and a request that
  shares a run shares one that has not begun to seal (`SharedWaits`).

Out of the prover's reach, and only model-checked: liveness under fairness
(`ChainCatchesUp`, `EveryCheckpointAnchored`, `SilenceIsRecorded`, `SpansAreSettled`,
`EveryCallSettles`, `DamageShows`, `FollowsMain`), and what is computed by recursion
over data (`Merkle`, whence `TreesHold` is a hypothesis of `EvidenceProofs`). Every
other property of the runs is proved. `VaultHours` is arithmetic that TLC evaluates.

## 5. What is not modelled

* **Pages, the site and their words** (`http/pages*.ts`, `site*.ts`, `strings*.ts`,
  `style*.ts`, `layout.ts`, most of `ui.ts`, `history.ts`, `report.ts`,
  `agent-setup.ts`, `agent-detect.ts`, `blog/`): wording and layout, and more than
  half of the repository's lines. The state behind the routes is in `Tenancy`,
  `Gateway`, `ModelKeys` and `ConnectionWatch`.
* **The second verifier in the browser** (`evidence-check.ts`, `pack-reader.ts`):
  tested against `sigillo-verify`, whose checks `Evidence` models.
* **Canonical form, signatures, zip files, the decoding of OTLP and of model answers,
  the vault's passphrases**: encodings and cryptography, assumed injective and
  unforgeable.
* **Whom Firebase or Google vouches for** (`firebase.ts`): anybody, in `Sessions`; the
  signed in of `Tenancy` are a choice.
* **The Python SDK's tracing** (content filter, instrumentations, `door.py`): its queue
  is OpenTelemetry's, which is not in the repository.
* **schema.ts**: migrations; every model starts from the present schema.
* `attiva-backup-fuori-sede.sh`, demos, videos, generators of test vectors.

Modelled for the steps they take part in, with no property of their own: the vault in
`Gateway`, which decides which calls are refused; the commits that
failed and the marks a person removed in `Updates` (`refused`, `removed`); the lateness of anchoring in `Health!Status`; and what
`offsite-backup.sh` sends.

Next: the schema's migrations; the web view's forms beside those in `Tenancy`.

## 6. Running

    tlc -workers 2 -config MCSigner.cfg MCSigner
    tlc -workers 2 -config AgentSide.cfg AgentSide
    tlapm SignerProofs.tla

and so on for each configuration, and for `Prefixes`, `StoreProofs`, `WatchProofs`,
`ServerProofs`, `EvidenceProofs`, `DeliveryProofs` and `PartsProofs`, which takes a
quarter of an hour. Each passing run takes under three minutes on two cores;
`MCServerBroken.cfg`, `MCEvidenceOrder.cfg` and `MCKeepingCrossed.cfg` end with the
counterexamples they are for.
