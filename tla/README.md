# A formal model of pier-client-fabric

pier-client-fabric connects a Hyperledger Fabric network to BitXHub, a relay
chain for cross-chain calls.  It consists of

- a **plugin** (`src/*.go`) that a *pier* (the gateway process, in another
  repository) loads; it polls the broker chaincode for outgoing messages and
  receipts, and submits incoming messages and receipts to it;
- **chaincodes** (`src/example/contracts/src/`) that run on Fabric: the
  *broker*, which numbers, stores, executes, reverses and settles interchain
  messages; *transaction*, a status table used when two chains work without a
  hub; and the business examples *transfer* and *data_swapper*.

A message goes: business chaincode -> source broker -> (polling) -> pier -> hub
-> pier -> (submission) -> destination broker -> called service; its receipt
goes the same way back and ends in the callback or the rollback function of the
emitting service.  In *relay* mode (`valThreshold` > 0) the hub keeps the state
of each cross-chain transaction; in *direct* mode (`valThreshold` = 0) the
transaction chaincode of the source chain does.

Paths below are under `src/example/contracts/src/` unless they begin with
`src/`.

## 1. Inventory

### Broker chaincode, source side (`broker/broker.go`, `broker/helper.go`, `broker/meta.go`)

| | |
|---|---|
| state | `valThreshold`; `outterMeta`, `callbackMeta` (counters per service pair); `outMessages` |
| operations | `Init`, `initialize` (admin), `EmitInterchainEvent` (services), `invokeReceipt` (pier), `invokeIndexUpdate` of type 1 (pier) |
| interacts with | the emitting service (callback and rollback by `InvokeChaincode`), the transaction chaincode in direct mode, polling (`getOuterMeta`, `getOutMessage`) |
| hard behaviour | retried, duplicated and reordered receipts; two chaincodes that must agree; a reset in the middle of traffic; the mode switch |
| correct when | the table is dense and its messages immutable; every message is settled once, in order, by the right function; the two chaincodes agree |

### Broker chaincode, destination side (same files)

| | |
|---|---|
| state | `innerMeta`, `dstRollbackMeta` (counters per pair); `receiptMessages` |
| operations | `initialize`, `invokeInterchain`, `invokeIndexUpdate` of types 0 and 2, the batch `invokeInterchains` |
| interacts with | the called service; the plugin, which reads the receipts |
| hard behaviour | a rollback may come before, after or instead of its message; receipts are overwritten; retries |
| correct when | each message runs at most once and is reversed at most once, only after it ran; a receipt exists for each and says what stands on the chain; a closed message stays closed |

### Transaction chaincode (`transaction/`)

State: `transactionStatus` per IBTP id (the start timestamp beside it guards
nothing), and two registries of appchains and remote services.  Operations:
`startTransaction`, `rollbackTransaction`, `endTransactionSuccess`,
`endTransactionFail`, `endTransactionRollback`, `initialize`, all guarded by
`onlyBroker`; `registerAppchain`, `registerRemoteService`.  Correct when a status
only moves along its arrows, and agrees with what the broker did.

### Transfer chaincode (`transfer/`)

State: a `uint64` balance per account.  Operations: `transfer` (local, and the
interchain form that debits and emits), `interchainCharge` (credit, or taking it
back), `interchainRollback` (refund), `setBalance`, `register`.  Hard: arithmetic
modulo 2^64, an account that does not exist, reads that do not see the writes of
the same transaction.  Correct when the two ledgers together conserve money.

### Data swapper chaincode (`data_swapper/`)

State: a value per key.  Operations: `get` (local, or remote: it emits
`interchainGet` with `interchainSet` as its callback), `set`, `interchainGet`,
`interchainSet`, `register`.  Its values travel back in the payloads of receipts,
which the plugin splits at commas.  Hard: the value is read at one time and stored
at another, perhaps read again when a time-out reverses the read, while users
write to both stores.  Correct when a copy is no older than its request, and never
replaces a newer one.

### Plugin, polling (`src/client.go:157-328`)

State: `serviceMeta` (per source service, the interchain and receipt counters),
the ticker, the unbuffered channel to the pier, `done`.  Operations: `Start`,
one tick of `polling`, `Stop`.  Hard: the chain moves, or is initialized, between
queries; a query fails in the middle; the proof of a query never comes; the
goroutine forgets everything at a restart; `Stop` races a blocked send.  Correct
when every message is thrown once and in order.

### Plugin, submission and queries (`src/client.go:346-840`, `src/receipt.go`)

State: the chain's two ids, asked for when they are empty and shared by all calls
without a lock.  Operations: `SubmitIBTP`, `SubmitReceipt`, `SubmitIBTPBatch`, and
the queries.  Hard: a lost acknowledgement is retried without limit, concurrent
transactions invalidate each other, the receipt is read by a second call, and one
call's query may empty the ids under another.  Correct when a message runs once however often it is
submitted, every call returns, and a reported success is true.

### Governance in the broker (`register`, `audit`, `vote`, whitelists, admins)

State: `localWhitelist`, `localServiceList`, `localProposal`,
`serviceOrderedList`, `adminList`, `adminThreshold`; in the transaction chaincode
the appchains and the remote services.  A service registers, administrators vote;
in direct mode appchains and remote services are registered.  Hard: the votes are
stored only when a proposal is decided; `initialize` resets some of the tables,
in some modes.  Correct when the tables agree, an audit is final, and only
audited or registered parties exchange messages.

### The rest

`src/consumer.go` (an event listener that is built and never started),
`src/verify.go` (a signature check over HTTP), configuration, `main`, packed data.

## 2. Modules

| module | what it models | composes |
|---|---|---|
| `Transaction` | the status table of the transaction chaincode | |
| `BrokerOut` | the broker as source, and the transaction chaincode | `Transaction` |
| `Settlement` | abstract: what a source broker promises | |
| `BrokerIn` | the broker as destination | |
| `Delivery` | abstract: what a destination broker promises | |
| `Transfer` | the ledger | |
| `Relay` | two brokers, the plugin's submissions and queries, an external hub: one service pair in relay mode, with the receipts' payloads | `BrokerOut`, `BrokerIn` |
| `CrossChain` | interchain transfers over it | extends `Relay`; `Transfer` (twice) |
| `DataSwap` | the data swapper on both chains over it | extends `Relay` |
| `Submit` | `SubmitIBTP` against Fabric's optimistic transactions | extends `BrokerIn` |
| `Polling` | the polling goroutine | |
| `Governance` | registration, audit and vote, the remote registries, and the guards of emissions and calls | |
| `BrokerOut_proofs`, `BrokerIn_proofs`, `Submit_proofs`, `Polling_proofs`, `Governance_proofs` | theorems | extend their modules |
| `Relay_proofs` | lemmas on two brokers and a hub | extends `Relay`; `BrokerOut_proofs`, `BrokerIn_proofs` |
| `CrossChain_proofs`, `DataSwap_proofs` | theorems | extend their modules and `Relay_proofs` |
| `MC*` | small instances for TLC | |

### How state and actions correspond to the code

*Chaincodes.*  A chaincode handler is one Fabric transaction: it runs against
the committed state, and commits everything it wrote or, when it returns
`shim.Error` (or panics), nothing, including what the chaincodes it called
wrote.  So one accepted handler call is one action, and a refusal is a disabled
action.  A JSON map in the world state is a TLA+ function; an absent entry is
Go's zero value (`0`, `NoEvent`).  Two things follow from Fabric's read rule
(reads see the committed state, never the writes of the same transaction) and are
kept: a local `transfer` reads both balances before either is written, and
`invokeInterchain` reads `innerMeta` before `updateIndex`.

`EmitInterchainEvent` of `BrokerOut` is the handler of that name: the guard on
the threshold's readability, the next index, the two writes, and in direct mode
`startTransaction` inside the same transaction.  `InvokeReceipt` is
`invokeReceipt`: in direct mode the transaction's fate first, then the index
check, then the one call to the callback or the rollback function, whose answer
the code ignores.  `InvokeInterchain` is `invokeInterchain`; whether a rollback
calls the service is decided on the counter before it moves.  `invokeIndexUpdate`
is split by request type between the two modules.

`Governance` keeps the broker's and the registries' maps as functions on the
registered names.  `Audit` is `audit` with `vote`: a vote that does not decide
makes the handler fail, so an accepted audit is a decision.

`Relay` is everything between the two business chaincodes: a module that extends
it conjoins `Emit`, `Deliver` and `Settle` with what its chaincode does in the same
Fabric transaction.  `CrossChain` does so with two ledgers, whose balances are
meanwhile spent and set; `DataSwap` with two stores, in which a value is known by
its version.

*History variables* (`called`, `applied`, `skipped` (in `BrokerIn` and in `Polling`); `issues`, `issued`, `touched`,
`refunded`; `asked`, `copied`; `base`, `thrown`, `failed`, `resets`, `raced`; `blanked`, `reply`;
`lastEmission`, `lastCall`) record what was done; no guard reads them, but for the
bounds on `issues` and `resets`.

*Plugin.*  `Polling` has one step for what happens between two points where the
goroutine may wait or a query may fail: taking the tick and reading the one map,
reading the other, entering a pair, querying a message, waiting for its proof,
handing it to the pier.  The broker answers a query for an index it does not have
with an empty message (`Ghost`).  The loops over
`outterMeta` and `innerMeta` are the same code over two maps; the outgoing one
runs first.  The chain under it keeps, of each pair, a counter and the indices for
which it has a message or a receipt (`stored`), since the two come apart: `Emit`
counts and stores, an index update of an incoming pair counts and stores nothing
(`InvokeIndexUpdate`), and the rollback of a message counted already stores a
receipt and counts nothing (`StoreReceipt`).  The plugin throws and counts the empty
receipt it is given for an index without one, and never asks for that index again.

`Submit` has one step per interaction with Fabric: endorsement (which the chaincode
may refuse, ending the retries), commit or invalidation of the ordered transaction,
giving up on it, learning of it, and the queries after.  `GetChainID` writes what it
got over the ids all calls share: the ids, nothing with an error (the call fails), or
nothing without one (a payload that is no pair of ids; the call goes on).  A call
reads the ids again when it builds the pair, so that one that found them may read
the receipt of a pair the broker does not know: the empty one, of type 0, which is
told apart from the nil result of a failed query.  Two strings written without a
lock can also be seen half written; that names an unknown pair too, or crashes the
plugin (`Restart`, which also stands for any other crash: every call is gone, and
what was ordered may commit yet).

### External, and assumed

- Fabric: atomic transactions, reads of the committed state, invalidation of a
  transaction whose reads are stale, `GetSignedProposal` naming the chaincode
  the client called.
- A called service that answers with an error wrote nothing.
- Piers hand in the rollbacks of one pair in order and not more than one message
  ahead of the counter (`RollbackWindow = 1`).  The code does not enforce it:
  with a window of 2, TLC finds `RollbackBehind`, `ReceiptForEach` and
  `RollbackFinal` violated (a rollback two ahead closes messages that have no receipt
  and can still run), while `CallsPaired`, `ReceiptTruth` and the refinement of
  `Delivery` still hold.
- A pier hands in a verdict that rests on a receipt of B with that receipt's one
  status; the others, which the hub gives alone (`BeginFailure`, `BeginRollback`),
  with one or none.  `SubmitReceipt` refuses those with none (`Submittable`).
- The hub's statuses and what it does with a receipt (`HubAccept`, `HubTimeout`,
  `HubReceipt`, `Fetch`), from how `txStatus` and the IBTP types are used.
- The whitelists let through the services that `BrokerOut`, `BrokerIn` and the
  modules above them use.  Which services those are is `Governance`'s subject;
  the two are not composed yet.
- One organisation is administrator: `Init` makes its caller the only entry of
  `adminList`, and nothing else writes it.  An upgrade, which runs `Init` again,
  is not modelled.

## 3. Runs

| run | instance | question |
|---|---|---|
| `broker_out` | 2 pairs (one emitted by the broker itself), 2 messages each, 2 contents, thresholds -1, 0, 1 | `MessagesDense`, `ExactlyOnceInOrder`, `StatusAgrees`, `MessageImmutable`, refinement of `Settlement` |
| `broker_out_direct` | 1 pair, fair emission | finding 1 |
| `broker_out_rollback_end` | 1 pair, fair receipts of type 4 | finding 2 |
| `broker_in` | 2 pairs, 2 messages, thresholds -1, 0, 1 | `RollbackBehind`, `CallsPaired`, `ReceiptForEach`, `ReceiptTruth`, `RollbackFinal`, refinement of `Delivery` |
| `cross_chain` | 2 transfers to an existing and a missing account, words of 8 values, 1 step that makes or destroys money (a balance set to 1 or to a text, or a transfer to oneself) | `CommitMeansCredited`, `Conservation`, `RefundReversible`, `DebitExcused`, `EventuallyAtomic` |
| `cross_chain_spend` | the same without such a step | finding 3 |
| `cross_chain_disorder` | likewise, and the hub may give up messages out of order | finding 4 |
| `submit` | 2 goroutines, 2 messages, 1 transaction that nobody waits for at a time | `ReplyTrue`, `RunOnce`, `CallReturns` |
| `data_swap` | 2 gets of a key that is set 3 times on B, the second time to a value with a comma | `Fresh`, `NewestKept`, `GetEnds` |
| `polling` | an outgoing and an incoming pair of one source, 2 indices, queries of the incoming one fail, index 1 counted without a receipt or given one without being counted, 1 initialize | `InOrder`, `CounterHonest`, `NothingLost`, `StopReturns` |
| `governance` | 2 services, 2 organisations, 2 remote services on 2 appchains, thresholds -1, 0, 1 | `TablesAgree`, `RemotesOnChains`, `TrafficBacked`, `AuditFinal`, `ApprovalCounts` |
| `governance_reject` | the same with 1 organisation, fair rejections | finding 5 |

### Bounds, and why they are enough

Two messages per pair give every order relation the code tests: next, last
again, one too far, and a rollback that jumps.  Two pairs show that one pair's
steps leave the other alone; in `Polling` whichever comes second is a pair of a
source that is already known, which the code treats differently.  The thresholds are
one of each sign, the only distinction the code makes.  `Word = 8` with funds of
2 makes a wrap-around visible and keeps the legal sums below it.  One step that
makes or destroys money is enough to come between any two steps of a transfer.
`DataSwap` has a value to copy before, in and after the pieces.  `Submit` needs
two callers for a conflict and for one that empties the ids under the other, and
one orphan (`MaxOrphans`) for a late commit, whether given up or left by a crash.  `Governance` has
the broker and a contract because direct mode tells them apart, and lists of up
to three because a service is listed again after each reset.  No
invariant needs these bounds to be true: section 5 proves every one of them, and
the action properties and the refinements, for every value.

`Polling` starts on any chain, so a crash and restart is any behaviour that
begins there; the plugin keeps nothing on disk.  One initialize of the chain at any
point of a tick (`MaxResets`) meets every local of the goroutine.  Its failing queries are bounded
to one pair (`Flaky`); the others show what a failure next to them does not
disturb.  One index at which the counter and the receipts come apart (`Irregular`)
has a regular one after it.

### Fairness, and why the code justifies it

- `Relay`, and `CrossChain` and `DataSwap` on it: piers retry what they hold and poll for ever (the plugin's
  tickers and `retry.Retry` without a limit), the hub processes what it has.  A
  verdict is only sure to get past `SubmitReceipt` when it rests on a receipt of B.
  Nobody has to transfer, spend, get, set or time out.  Weak fairness suffices.
- `Polling`: the goroutine runs and Go's ticker ticks.  The pier need not receive
  from the channel: `NothingLost` and `StopReturns` name a goroutine that it leaves
  waiting for ever (`Blocked`) as an outcome.  Strong fairness for `TakeTick` and `ReadInMeta`, because `GiveUpTick`
  (a map could not be read) competes with them: the chain cannot fail every read.
  `getProof` retries without limit: a proof arrives or it never does, and then the
  goroutine is `hung` for ever; `NothingLost` and `StopReturns` say so.  So
  `StopReturns` does not say that Stop always returns, which is false: it says that
  these are the only two things that keep it from returning.
- `Submit`: ordered transactions are committed or invalidated in the end, and the
  steps of each call are taken.  The client may give up on every single wait.  The
  proof of the receipt is assumed to come here; `Polling` has the one that never
  does, over the same `getProof`.  Other
  traffic on the pair is finite: all pairs share the keys of the counters, so
  endless traffic could invalidate one call's transactions for ever.
- `Governance`: the administrator repeats the vote until it is accepted (`Spec`:
  approving; `RejectingSpec`: rejecting).
- `EmittingSpec`, `RollbackEndSpec`: the caller retries the one call in question.

A run that may legitimately stop (every bounded transfer settled, the plugin
stopped) is checked without deadlock detection; the others with it.

## 4. Findings

1. **Direct mode cannot be used by business contracts** (`broker_out_direct`).
   `EmitInterchainEvent` creates the transaction by calling the transaction
   chaincode (`broker/broker.go:463`), whose `onlyBroker`
   (`transaction/helper.go:40-50`) looks at the chaincode of the signed proposal.
   That is the contract the user called, not the broker.
2. **A direct rollback never ends** (`broker_out_rollback_end`).  The receipt of
   type 3 takes the index; the receipt of type 4, of the same index, is refused by
   `updateIndex` (`broker/broker.go:1048`).
3. **A rollback may take back money that was spent** (`cross_chain_spend`).  The
   subtraction of `interchainCharge` wraps around; a TODO in the code
   (`transfer/transfer.go:221`) knows of it.
4. **An out-of-order rollback is lost** (`cross_chain_disorder`).
   `broker/broker.go:681` accepts a rollback that jumps, and refuses those it
   jumped over.
5. **A rejection is never heard** (`governance_reject`).  The quorum of `vote`
   (`broker/broker.go:608`) is computed from a list that is never filled and is 0;
   the vote does not decide, `audit` fails, and nothing is stored.

Met on the way, and not counted as a finding because nothing in the repository
says which is meant: the "white list" of a remote service turns away the
organisations on it (`broker/broker.go:358`), and `checkService` looks it up under
the name of the local service, where there is none.

## 5. What is proved

TLAPS checks these for all pairs, bounds, contents and thresholds (any integers),
and for all accounts, amounts, words, keys and versions.  Every invariant, action
property and refinement that a run checks is among them.

| theorem | states |
|---|---|
| `BrokerOut_proofs!TypeCorrect` | `Spec => []TypeOK` |
| `BrokerOut_proofs!Dense` | `Spec => []MessagesDense` |
| `BrokerOut_proofs!SettledOnce` | `Spec => []ExactlyOnceInOrder` |
| `BrokerOut_proofs!ChaincodesAgree` | `Spec => []StatusAgrees` |
| `BrokerOut_proofs!MessagesNeverChange` | `Spec => MessageImmutable` |
| `BrokerOut_proofs!Refinement` | `Spec => ImplementsSettlement` |
| `BrokerIn_proofs!TypeCorrect` | `Spec => []TypeOK` |
| `BrokerIn_proofs!RollbackStaysBehind` | `Spec => []RollbackBehind` |
| `BrokerIn_proofs!CallsArePaired` | `Spec => []CallsPaired` |
| `BrokerIn_proofs!ReceiptsComplete` | `Spec => []ReceiptForEach` |
| `BrokerIn_proofs!ReceiptsTrue` | `Spec => []ReceiptTruth` |
| `BrokerIn_proofs!RollbackIsFinal` | `Spec => RollbackFinal` |
| `BrokerIn_proofs!Refinement` | `Spec => ImplementsDelivery` |
| `Submit_proofs!SubmitTypeCorrect` | `SubmitSpec => []SubmitTypeOK` |
| `Submit_proofs!RunsOnce` | `SubmitSpec => []RunOnce` |
| `Submit_proofs!RepliesTrue` | `SubmitSpec => []ReplyTrue` |
| `Polling_proofs!TypeCorrect` | `Spec => []TypeOK` |
| `Polling_proofs!ThrownInOrder` | `Spec => []InOrder` |
| `Polling_proofs!CountersAreHonest` | `Spec => []CounterHonest` |
| `Governance_proofs!TypeCorrect` | `Spec => []TypeOK` |
| `Governance_proofs!TablesStayInAgreement` | `Spec => []TablesAgree` |
| `Governance_proofs!RemotesStayOnChains` | `Spec => []RemotesOnChains` |
| `Governance_proofs!TrafficIsBacked` | `Spec => []TrafficBacked` |
| `Governance_proofs!AuditIsFinal` | `Spec => AuditFinal` |
| `CrossChain_proofs!TypeCorrect` | `Spec => []TypeOK` |
| `CrossChain_proofs!CommitMeansCreditedAlways` | `Spec => []CommitMeansCredited` |
| `CrossChain_proofs!ConservationAlways` | `Spec => []Conservation` |
| `CrossChain_proofs!DebitsExcused` | `Spec => []DebitExcused` |
| `CrossChain_proofs!RefundReversibleAlways` | `FailuresInOrder` assumed: `Spec => []RefundReversible` |
| `DataSwap_proofs!TypeCorrect` | `Spec => []TypeOK` |
| `DataSwap_proofs!FreshAlways` | `Spec => []Fresh` |
| `DataSwap_proofs!NewestKeptAlways` | `Spec => []NewestKept` |

The constants' assumptions are those of the modules (the pairs of the broker are
pairs, `NoEvent` is no content, the thresholds are integers, `MaxIndex` is a
natural number, the administrator's organisation is one); every theorem of
`BrokerIn_proofs` and `Submit_proofs` also assumes what the environment promises,
`RollbackWindow <= 1`, and those of `Submit_proofs` that there is a message to
submit, `MaxIndex >= 1`; those of `Polling_proofs` that there is a pair.  In
`CrossChain` a word is a positive number, what is paid, owned at the start or set
fits in one (Go's `uint64`), there are finitely many accounts, and the receivers
have a shop other than themselves to spend at; `RefundReversibleAlways` alone also
assumes `FailuresInOrder`, that the hub refuses no message while it could still give
up an earlier one of the pair, without which finding 4 refutes it.  In `DataSwap` the versions are
numbered, and a value a user of A wrote is not one of B's.

*Argument.*  Each module has an inductive invariant `IInv`: its type invariant
and the named safety invariants above, which support one another.  That a message
is settled once needs the density of the table (a receipt for a message that was
never emitted has no function to call); that the chaincodes agree needs the exact
relation between counter, history and status.  On the destination side, that a
late request cannot run needs `RollbackBehind`: the rollback counter never passes
the messages taken, so that a request, which must be the next one, is always above
it; and that in turn is where `RollbackWindow <= 1` enters.  There is one lemma
per action, one step per conjunct the action can disturb, and the action property
and the refinements follow from `IInv` and the same case split.  That the
destination broker implements `Delivery` turns on one more fact: what is cancelled
or reversed lies at or below the rollback counter (`WithdrawnClosed`).

`Submit` extends the destination broker, and its proof extends that broker's: a
transaction that commits is a step of the broker (`NextInv`), one that is
invalidated is none.  What the pier may conclude is two facts about a message,
`Ran` and `Closed`, that no later commit takes back (`Kept`); so a step of one
goroutine cannot spoil what another one has learned.  `SInv` carries them from the
commit to the reply (`Effect`), and with them what every stored receipt says
(`ReceiptSays`): a receipt may be replaced between the commit and the second call
that reads it, but only by one that says the message is closed.  A receipt is read with
the ids known then, or one of the queries for them came back empty (`blanked`, kept
with the ids by every step of another goroutine, `IdsKept`), and only then may it be
the empty one.

`Polling` needs what the goroutine's locals say at each program point: ahead of a
throw, that the index is one more than the counter unless a query of the pair
failed (`AtMessage`), and that the message in hand is the chain's unless an
initialize came in between (`InHand`), which rests on the counters read being no
newer than the chain's (`SeenBacked`) and on every index counted having been stored,
or skipped by an index update (`Covered`).  A pair of a new source may start its
counter anywhere because nothing of it was thrown (`Unmet`).

`Governance` needs each table for the other: a place on the white list is an
approved proposal, which no later vote can reach because its voter has voted; and
as the quorum of a rejection is 0, only approvals decide (`OnlyApprovals`).

`Relay_proofs` instantiates the proofs of the two brokers for the one pair in
relay mode (`SrcP`, `DstP`), so what holds of one broker alone is not proved again.
`RelayInv` adds what holds between them.  The theorems it is there for turn on a
short chain of facts: a settled message was settled by the hub's verdict
(`VerdictsKept`); a success was decided on a receipt of success that a pier had
taken (`SuccessProved`); such a receipt, however old, is true of the message on B
unless the hub had meanwhile asked for its rollback (`ReceiptsTrue`); and a hub
that asked for a rollback never decides for success (`FetchedTrue`).  So what A
hears, and B's calls, cannot disagree (`SuccessApplied`), whatever was retried,
duplicated or late; that is `CommitMeansCredited`.  None of this needs the hub to
give messages up in order (`FailuresInOrder`).

`RefundReversible` does.  It is the safety part of `EventuallyAtomic`: what is
rolled back on A is refunded, and its credit on B is gone or can still be taken
back.  The other half of `Relay_proofs` (`OrderInv`) is about the jump of the
rollback counter: a message given up has only decided ones before it
(`GivenUpInOrder`), also while its rollback is on its way, so what the counter
passes can no longer time out, and a rollback that is still asked for of a closed
message was made (`ClosedDecided`); and the receipts of failure and rollback, which
the hub decides on, stay true (`FailuresTrue`, `RollbacksTrue`).  On the ledgers,
an account that was ever credited is missing only if it was set (`CreditsFound`),
and so a refund or a reversal fails for that reason alone.

`DebitExcused` is about the other side of that coin: a charge fails for want of an
account, and its reversal, later, finds one.  Between the two somebody must have set
that account (`DebitInv`), because nothing but `setBalance` brings an account into
being (`ShutKept`).  It needs nothing of the order of messages.

`Conservation` is itself inductive given `RelayInv` and `RefundsCalled`, which says
that a refund is paid in the step that calls the rollback and hence once.
Each action moves the three parts of the sum by known amounts: an emission moves
money from A onto the way, a credit off the way onto B, a reversal back, a refund
off the way onto A.  Ledgers count modulo the word and `OnTheWay` does not, so the
amounts agree up to a multiple of the word, also when a rollback takes back money
that was spent.  `SumFunction` adds in an order that its definition leaves open;
the first part of `CrossChain_proofs` shows that the order does not matter
(`SumsUnique`, `SumAny`), by induction on the size of the set.  That induction is
written out with a least number for which the claim fails, for want of a prover
that can instantiate the library's induction theorem.

`DataSwap` has a copy fresh at the time it is stored because the answer was fresh
already when B gave it, and stays so while it is a receipt, perhaps one of
several, on its way.  So the invariant is said of every answer that the hub may
still take (`Answered`): it is no older than its get and no newer than B
(`AnswersFresh`), and answers to later gets of a key are not older
(`AnswersOrdered`), because B takes messages in order and its versions only grow.
`NewestKept` needs that callbacks are called in the order of their gets, which is
the source broker's `ExactlyOnceInOrder`.

*Only model-checked:* all liveness (`EventuallyAtomic`, `NothingLost`,
`StopReturns`, `CallReturns`, `ApprovalCounts`, `GetEnds`), because fairness and `ENABLED`
are beyond the prover.  The five findings are counterexamples of TLC's.

*What the properties leave open.*  Some hazards are what the code does, and a
property can only say how far they reach.  A plugin that starts takes a new
source's messages below its counter for done (`src/client.go:209`), and a restart
forgets every counter (`src/client.go:147`): `InOrder` and `NothingLost` count from
`base`.  A reversal of a failed charge, and a refund that fails
(`broker/broker.go:918`, `:1083`), lose money when an account was set in between:
`EventuallyAtomic` excuses touched accounts, and `DebitExcused` and
`RefundReversible` say that no others are hit.  A value with a comma is lost
(`src/client.go:680`): `GetEnds` excuses it.  `localServiceList` keeps stale and
double entries (`broker/broker.go:565`): `TablesAgree` holds in the other direction
only.  Old remote registrations count again after a stay in relay mode
(`broker/broker.go:238`): `RemotesOnChains` and `TrafficBacked` are about the tables
as they are at the time.

## 6. Not modelled

- Batch submission.  No batch the plugin sends is accepted: `InvokeInterchains`
  packs the list of indices (`src/client.go:498`) where `invokeInterchains` decodes
  the list of target names (`broker/broker.go:769`), and the loop at
  `broker/broker.go:797` reads nine elements of every list.  Its model would be one
  refusal.  What waits behind it (messages of one Fabric transaction that do not see
  each other's counters) is listed as a hazard.
- Direct mode end to end.  Findings 1 and 2 are that a business contract cannot
  begin a transaction in direct mode and that a rollback cannot end: there is no
  complete exchange to compose.  Both halves are in `BrokerOut` and `BrokerIn`.
- The guards of `Governance` on the emissions and calls of the other modules: they
  let a message through or turn it away and keep nothing of it.
- Multi-signature checks: commented out in `invokeInterchain` and `invokeReceipt`;
  the loop that counts signatures in `src/verify.go` is called by nobody, and
  recovering them is outside a model checker's reach.
- The packing of events and results (`src/event.go`, `src/receipt.go`) beyond the
  type, the payload and its pieces.
- `register` of the business chaincodes, which passes its argument to the broker's
  (`Governance`), and queries that change nothing.
- The event consumer (built and never started), configuration, `main`, packed data.

## 7. Plan

Done, in this order: the source broker with its transaction chaincode, its
abstraction and its proofs; the destination broker likewise; the ledger and the
two-chain composition; polling; submission; governance; initializations of the chain
and proofs that never come under the polling goroutine; balances set and refunds lost during transfers; the
two-chain composition split off as `Relay` and used for the data swapper; the
proofs of submission, of polling, of governance and of `ImplementsDelivery`; the
invariants of `Relay`, and on them the proofs of `CrossChain` and `DataSwap`; the
order of rollbacks, and that what was refunded can be reversed.

Next, of what can still be proved: that an ended get was answered or refused (the
safety part of `GetEnds`, as `RefundReversible` is that of `EventuallyAtomic`), and
that `Submit` implements `Delivery` through the broker it extends.
