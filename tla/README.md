# Paybridgex in TLA+

Paybridgex is a payments portal: a Next.js application and a pg-boss worker over one Postgres
database, between retailers with a prepaid wallet and the providers that pay their bills, charge
their customers' cards and transfer money to bank accounts. This directory specifies the part of it
where money can be lost: who may move which balance, when, and what happens when two parties move
it at once or one dies half way. Paths below are relative to `src/src/lib/` unless they start with
`src/`.

1. [Inventory](#1-inventory) 2. [Modules](#2-modules) 3. [Runs](#3-runs)
4. [Bounds](#4-bounds) 5. [Fairness](#5-fairness) 6. [Proofs](#6-proofs)
7. [What the code disagrees with itself about](#7-what-the-code-disagrees-with-itself-about)
8. [Assumptions](#8-assumptions) 9. [Not modelled](#9-not-modelled)

To check a run: `tlc -config LedgerFunds.cfg MCLedger.tla`; to check the proofs of a module:
`tlapm PayoutProofs.tla`.

## 1. Inventory

| part | state it keeps | operations | correct when |
|---|---|---|---|
| **Wallet ledger** `ledger.ts` | `User.walletBalance, aepsBalance, revenueBalance, payinBalance, heldBalance, lienBalance`; the passbook `WalletTxn` | credit, debit, hold, release, capture, place and release a lien hold, sweep liens | no book overdrawn, reserved money still there, passbook without gaps, one keyed movement once, a credit pays open liens before it becomes spendable |
| **Liens** `wallet/lien.ts` | `WalletLien` rows | place, recover, release, reverse | what leaves the user is what suspense receives and what the lien row says; oldest lien first |
| **Service payments** `services/transaction.ts` | `Transaction` rows, the retailer's reserve | reserve, call the provider, settle, hold, refund, refuse a merged order | the reserve is the company's exactly when the provider was paid |
| **Finalizer** `services/finalize.ts` | the same rows and the refund schedule | settle, schedule and make a refund, correct a wrong refund through a lien | one winner per row; no refund on a single failure report; a correction happens once |
| **Reconciliation** `recon/*` | none of its own | sweeps every five minutes, desk resolution, recovery of terminal rows | every open row is resolved once the provider has |
| **Payouts** `payout/service.ts`, `src/src/app/api/payout/**` | `PayoutRequest`, `User.heldBalance` | submit, decide, initiate, reconcile, recover a lost reference, webhook, desk, reverse | sent at most once, ends once, ends as the rail ended it, hold gone exactly then |
| **Queue and worker** `queue.ts`, `src/scripts/worker.ts` | pg-boss jobs | enqueue, deliver, retry, schedules | handlers tolerate redelivery |
| **Webhook dispatcher** `partners/sameday-webhook.ts` | delivery ids | verify, drop repeats, route | late, repeated and reordered events change nothing twice |
| **HTTP idempotency** `idempotency.ts` | `IdempotencyKey` rows | claim, replay, release on error | one result per key |
| **Desks** `wallet/operations.ts`, `reversal/service.ts` | operation and reversal rows | create, approve, reject, cancel | one ledger movement per key (nothing else they promise survives two operators, section 9) |
| **POS and PG settlement** `settlement/pos.ts`, `pg.ts`, `pos-mirror-settle.ts`, `wallet/topup.ts` | settlement entries, the acquirer's mirror | capture, instant button, T+1 sweep, reversal | a capture is credited once, a voided one is not left queued, a top-up is credited with what was paid |
| **AEPS settlement, autosweep** `settlement/t1.ts`, `autosweep.ts` | run rows, a key per day | move one book to another, or the company account to a bank, once a day | both legs, or a run an operator looks at; at most one run a day and trigger, one transfer a day |
| **QR collections** `qr/claims.ts`, `rotation.ts` | claims, codes, daily use | claim, approve twice, settle, claw back, choose the live code | a claim is paid exactly while it is settled, a large one by two people; one code is live in the end |
| **POS rental** `pos/rental.ts` | invoices per period | bill, retry, waive | one debit and one invoice a period |
| **Revenue, commission, tax** `commission/*` | revenue and TDS wallets | split a margin, claw it back | at best: margin is booked only for what succeeded and taken back only for what came back, but either may be left undone |
| **Monitors** `recon/integrity.ts`, `anomalies.ts` | alerts | recompute balances, look for stuck rows | they state the invariants this project checks |

How they meet. Everything that touches money calls the ledger, in the caller's database
transaction where it passes one. A service payment reserves by a debit, calls the provider
*outside* any transaction, and settles in another; a payout holds, is queued, and is sent by the
worker. While the outcome is open, webhook, sweep, status button, worker and desk may all act on the
row: the row's status, claimed by a conditional update, is what makes one of them win.

What is hard in it: reads made before a lock or a provider call and used after; the death of a
process between a provider's acceptance and the write that records it; providers that time out,
deny and later confirm, or answer two requests with one order; one shared suspense row that
different operations lock in different orders; and claims that are conditional in one file and not
in another. `PROJECT.json` lists each such place at its line with the property that watches it.

## 2. Modules

| module | models | abstract view it implements | proofs |
|---|---|---|---|
| `WalletRow` | one user's row, passbook and liens, as pure operators: what one call writes | | `LedgerProofs`, `LedgerBooksProofs` |
| `Ledger` | the ledger and lien desk as concurrent SQL transactions | `AtomicLedger` | `LedgerProofs`, `LedgerBooksProofs`, `LedgerAtomicProofs` |
| `AtomicLedger` | every movement as one step on the newest balances | | |
| `ServiceTxn` | runs of `runTransaction`, finalizers, desk, provider | `Reserves` | `ServiceTxnProofs` |
| `Reserves` | a reserve is held, then kept or returned; a wrong return is taken back once | | |
| `Payout` | payout routes, worker, sweep, drain, webhooks, desk, rail | `Disbursal` | `PayoutProofs` |
| `Disbursal` | the state machine in the header of `payout/service.ts` | | |
| `PosSettlement` | `settlement/pos.ts` with the webhooks, mirror and sweeps that feed it | | `SettlementProofs` |
| `QrClaims` | `qr/claims.ts` | | `QrProofs` |
| `QrRotation` | `resolveLiveQr` of `qr/rotation.ts` and what changes the queue under it | | `QrProofs` |
| `TopUp` | `wallet/topup.ts` with `handleTopupCapture` of `settlement/pg.ts` and their callers | | `SettlementProofs` |
| `T1Settlement` | `settleUser` of `settlement/t1.ts` | | `SettlementProofs` |
| `IdempotencyKeys` | `idempotency.ts` around the payout route; the day key of `settlement/autosweep.ts` | | `SubsystemsProofs` |
| `MCLedger`, `MCServiceTxn`, `MCPayout`, `MCSubsystems` | small instances; the last one composes the six around the ledger and `Payout` | | `SubsystemsProofs` |

**`Ledger`.** A session is one database connection with an interactive transaction. `row` is the
committed table; `lock` the row locks; `work[s]` what session `s` has written to rows it locked;
`seen[s]` the lien rows it read without a lock. The steps are the statements between which another
session can come: the key lookup (`CheckKey`), waiting for the row lock, the write
(`CreditWallet`, `DebitWallet`, `HoldFunds`, `ReleaseHold`, `CaptureHold`), the sweep that is part
of every PRIMARY credit and every new lien (`ReadLiens`, `LockForSweep`, `TakeFromLien` per lien,
`SweepDone`), the desk (`PlaceWalletLien`, `ReadLien`, `ReleaseWalletLien` and the steps of a
reversal in the order of the code: for the suspense and then for the user, the key lookup and the locked write, `CheckSuspenseLeg`,
`ReverseDebitSuspense`, `CheckUserLeg`, `ReverseCreditUser`, at last the lien row with `ReverseClose`), `Commit`, `Reject` when a unique index or CHECK
constraint refuses, and `Die`. This is where READ COMMITTED matters: a lien list read before the
lock may be old, and a second use of a key is stopped by the unique index, not by the lookup.

**`ServiceTxn`.** One call is one run of `runTransaction`: `Begin` (replay check), `Reserve`, `Send`,
`Answer`, then one of the settle, hold, refuse and refund branches. A finalizer is one run of
`finalizeServiceTransaction`, whoever started it: `Poll`, duplicate check, claim, the gate for a
prior reversal, the refund window, schedule, refund. `CorrectTerminalToSuccess` is the desk's
correction. A database transaction is one step here, because `Ledger` looks inside; money is counted
in reserves, and `reversals[c]` is the set of ledger keys under which row `c` was refunded, so that
a replay under the same key adds nothing and one under another key does.

**`Payout`.** A run is one execution of a handler and `run[r].at` its next step. Submission is
`Create` and, in a later step that may never come, `Enqueue`; the worker is `Initiate`, `Claim`,
`Send`, `Answer`, `Persist` and what follows from the answer; reconciliation is `Read`, then `Poll`
or, without a reference, `List`, `Check`, `Store`, `Reread`; the ends are `FinalizeSuccess` with
`Capture`, `FinalizeFailure`, `Reverse` with `ClawMargin` in a transaction of its own. The company's margin is
booked with the capture and taken back after a reversal, or not: `CreditServiceMargin` and `ReverseServiceMargin` do
nothing for a margin of zero or without a revenue account, and swallow what the ledger refuses. The sweep,
the daily drain, both kinds of webhook and the desk start runs; any run may die before any step.
`rail[p]` is the truth about the transfer, and `row[p].ref` the record the portal believes in.

**`PosSettlement`.** Nothing in `settlement/pos.ts` spans statements with a transaction, so every
statement is a step: a capture is looked up (`CaptureWebhook`, `MirrorSettle`), paid at once
(`PayNow`, the wallet first) or queued, and only then written as an entry (`CreateEntry`); queued
entries are re-verified against the mirror, credited and marked (`Verify`, `CreditEntry`,
`MarkSettled`), each on what the step before read. Reversals come by webhook, by the feed and by the
sweep's second pass over orphans. `posTruth` is the partner's state, `posMirror` the portal's copy of it,
and `posListed` holds the swipes that are still in the lookback of the feed (`pos.mirror_sync`, two days by default): the days
pass at any time (`LeavesFeed`), and `FeedPage` lists no other.

**`QrClaims`.** Each review, payment and clawback reads the claim in one step and writes under a
condition in another; `qrLedger[c]` is the set of keys the claim's money moved under.
**`QrRotation`.** `resolveLiveQr` statement by statement, the winner's transaction with its row locks. The queue
is the code's: each code has a priority (`codePriority`, the column), a list of candidates carries the priorities as they were
read, and its `First` has the lowest, of equal ones the oldest code (`CreatedAt`). `SetPriority` is an admin's number;
`MakeLiveNow` goes one below the lowest enabled one, its read of the minimum and its update as one step: when two admins
cross there, both codes get that number, their age decides, and the outcome is that of one order of the two.
Creating a code is enabling one that was off from the start.
**`TopUp`.** Initiation may lose the gateway's answer; `PaymentChanges` is what became of the
payment; webhooks may say anything an order can look like at that time, repeat and cross; polls only the truth.
**`T1Settlement`.** Two triggers run `settleUser` for one user on one day: slot, reads, AEPS
debit, PRIMARY credit, link, final write, with the death of the process in between as a run that
takes no further step. As in the code the slot is created with status SKIPPED, and the detail "in progress" alone tells
it from a run that finished with nothing to do. **`IdempotencyKeys`.** Requests with one key, the handler's commit and its enqueue,
an update of the key that fails or only seems to, the daily purge; and the day key of the autosweep.

## 3. Runs

| run | question | instance |
|---|---|---|
| `ledger_funds` | Do interleaved statements, retries, crashes and sweeps amount to the atomic ledger? | 2 users on 2 books, 2 sessions |
| `ledger_desk` | Do all desk operations balance and end, although they lock in both orders? | 1 user, 2 sessions, all four desk operations |
| `service_settle` | Do money and status agree when merged orders, two finalizers, desk and crashes meet? | 2 calls on a recon and a plain rail, 2 finalizers |
| `service_live` | Does the sweep resolve what crashes left? Is one key debited once, whatever a webhook does meanwhile? | 2 calls with one key, 1 finalizer |
| `payout` | Is a payout sent once and ended once, as the rail did, whoever acts? | 2 payouts, 2 concurrent runs |
| `subsystems` | Do the components around the ledger keep what they promise, and does the sweep settle a payout alone? | each with two contenders, see below |

and the six runs of section 7, each of which ends in a counterexample.

`subsystems` is a sum, not a product: the components share no row and no ledger key (`pos-settle:`,
`qrsettle:`, `topup:`, `t1d:`, `t1c:` ... prefix theirs), so an interleaving of two of them shows nothing that
each does not show alone. The variable `part` names the component that moves; the others keep their
initial state, and fairness is assumed of the moving one only.

What the passing runs show, by property:

* `ActsAtomically`: every commit of the statement-level ledger is a step of `AtomicLedger` on the newest
  balances. `AccountsSolvent`, `PassbookContinuous`, `KeyAppliedOnce` are what `recon/integrity.ts`
  recomputes every day; here no interleaving can break them. `LienBalanceMatchesActive`,
  `RecoveryIsDoubleEntry`, `OldestLienFirst`, `FrozenMoneyStaysFrozen` relate the balance, the lien rows and two
  passbooks. They are checked where liens are placed and swept, but no desk call races, so none of them watches the stale lien list of
  `ledger.ts:391`: with a recovery or reversal that races, `RecoveryIsDoubleEntry` fails (section 7). `EachLienBalances` holds even then: whatever the
  lien row says, what recoveries of a lien, or its reversal, took from one passbook entered another. So does `MoneyConserved`: all
  PRIMARY balances together, suspense included, are what callers paid in less what they took out.
* `TransactionsEnd`: sweeps lock the user and then suspense, reversals suspense and then the user. Cycles
  form, and the database's deadlock detector is what ends them: the mutant without it fails.
* `WalletMatchesStatus` and `ReservesMoveOnce`: after any crash, race or correction the reserve is with the retailer
  exactly when the row is failed or refunded. With webhooks that act on a running call and one key
  used twice, `DebitMatchesStatus`, the half about rows that were debited, still holds on recon rails (`service_live`).
  `OneSuccessPerOrder` rests on the partial unique index, not on the lookup before it.
  `RefundsAreDoubleChecked`: on a recon rail a refund needs a second failure
  report after the window, a duplicate, or a payment the provider never saw.
* `HeldMatchesOpen`, `LedgerMatchesStatus`, `EndsOnce`: hold, passbook and status of a payout move together
  whatever races; margin is booked for no payout that did not succeed and taken back for none that did not come back
  (more the code does not promise). `SentOnce`: the conditional claim before the transfer is what makes redelivery
  harmless. `SettledAsTheRailDid` is checked for payouts that differ in amount or account: for twins it is
  false (section 7).
* `HeldRowsSettle` and `KnownToRailSettles` are the promise that no operator is needed, for payments whose provider
  reference can be found.
* `PosPaidOnce`: one ledger key shared by every path is what keeps webhook, sweep, button and two crons, none of which locks anything, from paying twice.
  `PosVoidsClose`: a reversal overtaken by the creation of the entry, or undone by an older webhook, is found by the second pass,
  unless the swipe leaves the feed's lookback while the mirror has it as captured: a void whose webhook was lost and that
  comes later than that is never seen, and the entry stays payable.
  `PosPaymentsRecorded`: a credit whose entry was lost in a crash gets one, as long as the retailer stays eligible and the swipe is
  within the lookback; it is the replay by the sweeps, every few minutes, that writes it.
* `QrMoneyMatchesStatus`: the conditional update inside the paying transaction decides between button, cron, rejection and
  clawback. `QrLargeNeedsTwo`: stale reads never let one person approve twice. `QrRotationSettles`: two live codes
  happen; the next polls leave exactly the first with headroom.
* `TopUpCreditsMatch`: crossing PAID, FAILED, repeated and wrong-amount webhooks credit what was asked, once, or nothing.
* `T1BooksAgree`: money stuck between the books is always on a run that reads FAILED or has the detail "in progress" (its status is then
  SKIPPED, as it was created), never on one that reads SUCCESS or finished SKIPPED. The daily ceiling is kept by each run alone: two triggers that read
  before either has finished can exceed it together, so it is stated per run.
* `OneAnswerPerKey`, `KeysAreFreed`, `AutosweepOncePerDay`: one handler at a time under a key, all answers the same row, no key
  blocked for ever, one transfer a day. The life of a key, which `OneAnswerPerKey` is about, ends with its purge, or when the stored
  answer is deleted because the update that stored it looked like a failure: a replay in between has got that answer, and
  the next request makes another row.

Every property of these runs is broken by at least one small change of the model that mirrors a
plausible bug (a dropped claim, a missing index, a forgotten entry); `PROJECT.json` lists them under
`mutants`.

## 4. Bounds

| bound | value | why it is enough |
|---|---|---|
| sessions, finalizers, runs, resolvers | 2 | every claim, lock and index in the code settles a contest between two parties; the third party of a payout (rail) is not a run |
| users | 2 (`ledger_funds`) | two users meet only in the suspense row |
| liens per user (`MaxLiens`) | 2 | order and stale lists need an older and a younger lien |
| passbook length (`MaxEntries`) | 2 to 5 | it stops new transactions, running ones still append; enough for fund, freeze, recover, return |
| amounts | 1 to 3 | a lien smaller than, equal to and larger than the free money occurs |
| calls, orders | 2 | one call to merge into another's order, or one key used twice |
| payouts | 2 (1 in `subsystems`) | one to be mistaken for the other; liveness is about one |
| captures, claims | 1 | no statement of POS settlement or of a claim reads another row of the kind |
| codes, queue changes (`MaxChanges`) | 2, 2 | two winners, and a change while either resolves |
| priorities (`Priorities`) | 99, 100 | the default is 100: a code overtakes the other, falls back, or ties with it and their age decides |
| top-ups | 2 | one of each kind of gateway; they do not meet |
| AEPS money and ceilings | 5, at most 2 a run and a day | the first run uses up what the second reads as left, or both read before either ends |
| requests of one key, autosweep deliveries | 3, 2 | one works, one is refused, one comes after |

Two books stand for four: the code treats AEPS, REVENUE and PAYIN alike and only PRIMARY has holds and
liens. Symmetry is used only in runs without liveness properties. Deadlock is not checked, because
a system with no requests, no open rows and no liens to place rests.

## 5. Fairness

* `Ledger`: a session that can take its next step does so in the end (strong fairness: lock queues are
  first come, first served, but the lock may be taken by others meanwhile), and the deadlock detector aborts a
  session of a wait cycle. No request is obliged to arrive.
* `ServiceTxn`: the sweep runs every five minutes (`src/scripts/worker.ts`) over every open row it can poll,
  so a row pollable again and again is polled; a finalizer's step is not lost for ever; time passes; the
  provider decides every order it took. Dead calls stay dead, webhooks and operators need never come.
* `Payout`: the same for the sweep; runs go on and stop dying at some time (a run that ends quietly by
  itself, as a poll that finds nothing new does, is no death: `Crash(r) => RunStep(r)`); the rail ends a transfer it is processing. No job need be
  delivered.
* `PosSettlement`: the second pass is a cron job of the worker that visits every row, the feed and the settle sweep visit every row
  of the last days (the settle sweep's lookback, three days by default, is taken to be no shorter than the feed's, two); a run that did not die
  goes on, and runs stop dying at some time; a retailer whose account and scheme are in order is not turned away
  every time, which is what `SF(Accept)` says. Webhooks, button and crons that pay need never come.
* `QrRotation`: a resolver goes on, and the retailers' page polls again and again. Changes stop (`MaxChanges`).
* `IdempotencyKeys`: a handler that began goes on or fails; records reach `expiresAt`; `recon.daily` purges them.

## 6. Proofs

The theorems hold for every value of the constants: any number of users, sessions, calls, payouts, claims, keys,
runs, and any amounts. None of TLC's bounds enters them. Assumed are the `ASSUME`s of the modules, and a hypothesis
on the constants where the theorem states one (third column).

| module | theorems | only if | stated by |
|---|---|---|---|
| `LedgerProofs` | `TypeCorrect`, `AlwaysSolvent`, `AlwaysContinuous`, `Safety` | | `TypeOK`, `AccountsSolvent`, `PassbookContinuous` |
| `LedgerBooksProofs` | `KeysAppliedOnce`, `EachLienAddsUp`, `MoneyIsConserved` | | `KeyAppliedOnce`, `EachLienBalances`, `MoneyConserved` |
| `LedgerAtomicProofs` | `LedgerIsAtomic`, `TableInOrder`, `FreezeMatchesLiens`, `RecoveriesAreDoubleEntries`, `OldestIsPaidFirst`, `FrozenStaysFrozen` | the desk only places liens | `ActsAtomically`, `LienBalanceMatchesActive`, `RecoveryIsDoubleEntry`, `OldestLienFirst`, `FrozenMoneyStaysFrozen` |
| `ServiceTxnProofs` | `ServiceTyped`, `OneDebitPerKey`, `OrdersChargedOnce`, `SuccessIsPaid` | | `TypeOK`, `KeyDebitedOnce`, `OneSuccessPerOrder`, `SettledMeansPaid` |
| | `MoneyFollowsStatus`, `ReservesAreMovedOnce` | `Disciplined` | `WalletMatchesStatus`, `ReservesMoveOnce` |
| | `DebitsFollowStatus`, `RefundsAreCheckedTwice` | `OrdersApart` | `DebitMatchesStatus`, `RefundsAreDoubleChecked` |
| `PayoutProofs` | `PayoutTyped`, `HoldsAgree`, `BooksAgree`, `SendsOnce`, `EndsAsTheRailDid`, `PayoutsFollowDisbursal` | | `TypeOK`, `HeldMatchesOpen`, `LedgerMatchesStatus`, `SentOnce`, `SettledAsTheRailDid`, `EndsOnce` |
| `SettlementProofs` | `SwipesTyped`, `PaidOnce`; `TopUpsTyped`, `CreditsMatch`; `SlotsTyped`, `BooksAgree` | | `PosPaidOnce`, `TopUpCreditsMatch`, `T1BooksAgree` |
| `QrProofs` | `ClaimsTyped`, `MoneyMatchesStatus`, `LargeNeedsTwo`; `RotationTyped` | | `QrMoneyMatchesStatus`, `QrLargeNeedsTwo` |
| `SubsystemsProofs` | `KeysTyped`, `KeysAnswerOnce`, `OneTransferADay`; `SubsystemsTyped`, `SubsystemsSafe` | | `OneAnswerPerKey`, `AutosweepOncePerDay`; `SubsystemsTypeOK` |

Few of these properties are inductive; what has to be added is the reason why the code is right.

**Ledger.** The invariants speak of committed rows, and a commit publishes a copy
written earlier. `Safe` therefore says the same of the copies under lock (`CopiesGood`: reserved
funds are there and every passbook runs to its balance), says that committed rows also satisfy the
CHECK constraints (`RowsGood`), and ties control to request (`ControlOK`: a session past the desk's checks
carries a desk request for a retailer, a session about to take from liens has read only liens with something outstanding). Lemmas about
`WalletRow` say that each pure operator keeps a good row good, lemmas about `Write`, `Continue`, `Commit` and
`Rollback` what the transaction primitives do to `Safe`, and then there is one lemma per action.

What a session has written and not committed is compared with the committed row it started from: as long as it holds the
lock nobody changes that row (`Apart`, `Frame`), so the copy extends the committed passbook (`Extends`). `KeysInv` says which
keys a session may have put on its copies (`Fresh`: its request's, or those of its reversal, each at one place); the commit compares them with
the unique index, which is where two sessions that both found a key unused are told apart.

`EachLienBalances` and `MoneyConserved` are one argument. An entry that moves money between accounts has a label, the lien and whether
it is a recovery or a reversal; `BalanceInv` says for every set `W` of labels that the entries with a label in `W` add up to
nothing over the committed passbooks (`BalancedIn`). One label is `EachLienBalances`; all labels are what conservation needs: a passbook
without gaps ends at the sum of its entries, so its balance is what was requested plus what was transferred (`BalanceParts`), and
the second adds up to nothing. A recovery writes both of its legs in one step; a reversal writes
them apart, and another session may commit the same reversal in between. `BalanceInv` therefore says for each session what it has moved
and not committed (`Flow`, the sum of `Net` over the accounts): nothing (`Quiet`), the suspense leg alone and then, if its label is
in `W`, exactly what the lien had recovered when it was read (`Halfway`), both legs (`Returned`), or it has written a key somebody else
has committed since, and the unique index will stop it (`Doomed`). With that goes `PairedKeys`: the committed passbooks hold both legs of a reversal or
neither, so a session that finds the suspense leg done finds the user's done too, and skips both. The sums are
`SetTotal`s over a finite set of accounts (`RetailersAssumption`); the lemmas on them go by induction on its cardinality. The second
assumption is `ReversalKeysAreOwn`: no caller's key has the prefix `lien:<id>:reverse:`, which only `reverseWalletLien` writes.

**Ledger is `AtomicLedger`.** The committed table is kept in order (`TableOK`): a user's freeze is what the open liens claim, each
recovery is in both passbooks and on its lien row. `Path(s)` says where session `s` is between the row it locked and the row it will
commit: while it sweeps, `Along(s, k)` says that its copies are what the atomic ledger's recursive sweep has
reached after `k` liens. Steps of others leave a session on its path (the lock), a step of its own takes it one round on, and
`Commit` publishes what the whole atomic step yields. The four properties of liens and freezes are then properties of rows that
an atomic sweep made. The hypothesis is `DeskOps \subseteq {"place"}`: `AtomicLedger` has no release, reversal or
manual recovery, and with a manual recovery or a reversal that races `RecoveryIsDoubleEntry` is false (`ledger_recover_race`).

Sums over passbooks and lien rows, and the sweep itself, are recursive functions. The facts about them (`PartialStep`, `TotalChange`,
`TotalSame` ...) are proved by induction stated over a *set* of numbers, by its least element (`LeastNumber`, `Induct`), which needs
no operator as a parameter.

**Service payments.** `SvcInv` adds that a party about to write SUCCESS has seen a paid order (`Sure` for a
finalizer, `CallTrue` for the runner), and that the provider never takes a success back (`Remembers`).
The money needs two conditions, which `Disciplined` names: every call has a key of its own, and nobody
finalizes a row whose call is still running (the sweep and the desk wait, webhook and button do not).
`MoneyInv` then says what each row status means in ledger entries (`MoneyTrue`) and that a finalizer works on a row whose call is
over (`Later`); every step changes the money of one reserve as `Reserves` allows (`MoneySteps`), which gives both theorems.
That the two conditions are needed is what `service_same_key` and `service_double_refund` show.
`OrdersApart` allows what `Disciplined` forbids, webhooks and buttons on running calls and reused keys, and asks that the provider
merges no orders and that keys are reused on recon rails only (the instance of `service_live`). `LoneInv` says, per row, when its
call is over and whether it may have been refunded (`RowTrue`), and that each order belongs to one call (`OwnOrders`): finalizers
wait with a refund until the call is over, and nothing reopens the row after that.

**Payouts.** `PayInv` stands on three legs. *Money*: the hold is the sum over open rows, and passbook of a row is that of
its status and its margin at most that (`HeldMatchesOpen`, `LedgerRow`), kept because every end is one transaction under a conditional update. *Sending*: a
run at the transfer is the only one for its payout and nothing was sent before (`OneSender`, `RunsKnow`), since the claim
leaves no second row to claim. *Truth*: what a run remembers of the rail is so (`Believes`), what a row says is so
(`RowTrue`), provided no two payouts look alike; for twins neither is true, and `payout_twins` shows it.
`PayoutsFollowDisbursal` maps each action to one step of `Disbursal` or to none.

**The others.** `ReadsBack` (claims): what a run read is a status the claim has really passed, and `Staged`: a large claim waiting for a second approval has its
first approver on record. `Knows` and `OpenedOnce` (top-ups): a run that is about to pay knows of a payment of the asked amount, and an order is opened by one
call, before its payment exists. `Moved` and `Booked` (T+1): each step of a run implies which legs it has moved.
`Credits` and `Carries` (POS): a run past the credit has credited. `OneHolder`, `StoredOwn`, `KeysAnswered`, `OneSweep`
(keys): between two purges the row in progress belongs to one request.

**The subsystems together.** A step of `PartNext` is a step of one component and leaves the variables of the others alone (`PartsMove`),
so a behaviour of `PartSpec` is a behaviour of each component (`PartsBehave`), and what is proved of a component holds of the
sum: `SubsystemsTyped` for the type invariants of all six, `SubsystemsSafe` for the seven safety invariants that
`subsystems` checks. `Payout`'s are proved of its own specification in `PayoutProofs`.

Model-checked only:

* every liveness property (`TransactionsEnd`, `HeldRowsSettle`, `KnownToRailSettles`, `PosVoidsClose`, `PosPaymentsRecorded`,
  `QrRotationSettles`, `KeysAreFreed`): liveness under fairness is out of this prover's reach;
* `RefundsAreDoubleChecked` and `DebitMatchesStatus` where the provider merges orders;
* the six counterexamples of section 7.

## 7. What the code disagrees with itself about

| run | what the text says | what happens |
|---|---|---|
| `ledger_recover_race` | `ledger.ts:382`: the sweep is "Safe to run repeatedly" | it reads the liens at `:391`, before the lock at `:397`. A second recovery that waited for the lock works on the old list and takes the lien's money again, out of what another lien froze |
| `ledger_reverse_recapture` | `wallet/lien.ts:242`: "THIS lien is RECOVERED/non-ACTIVE here so it can never re-capture its own reversal" | a partly recovered lien is still ACTIVE when its money is returned; if another lien keeps the frozen balance positive, the sweep in the credit takes it back |
| `service_same_key` | `services/transaction.ts:21`: "duplicate clicks are safe" | a call that passed the replay check before the first one committed gets the first one's debit as its own and sends a second order with nothing reserved for it |
| `service_double_refund` | `services/transaction.ts:473`: "keyed on the same reversal idempotency key" | the finalizer's key contains `refId`, the runner's the client's key: a leg a webhook refunds first is refunded again |
| `payout_twins` | `payout/service.ts:537`: two payouts "can never steal each other's record" | the owner of a record stores its reference only after the answer; until then, and for ever if the answer is lost, the record looks free |
| `pos_void_race` | `settlement/pos.ts`, `handlePosReversal`: a PENDING entry becomes REVERSED "so the T+1 / instant crons skip it" | a settlement that verified the mirror just before credits the wallet all the same, and its final write turns REVERSED into SETTLED |

`payout_twins` is not idle: `src/scripts/reverse-misattributed-payout.ts` repairs a payout that had been
captured under the reference of another one's transfer (there by a manual recovery).

Seen while modelling, part of the models, and without a run of their own because a run above shows the same shape or the text
is only imprecise:

* `settlement/engine.ts:17-25` says every caller claims a status "BEFORE any credit"; `settleEntry` of `pos.ts` (and of `pg.ts`) credits
  first and writes the status after, unconditionally. An exception after that credit makes the crons (`pos.ts:1155`, `:1207`) mark a paid entry FAILED.
* The headers of `wallet/operations.ts` and `reversal/service.ts` say row and movement commit together; they are separate statements.
* `qr/rotation.ts:17-22` calls the claim race-safe; two codes can be live until the next poll.
* `idempotency.ts:30`, "run fn at most once": a failure after the handler committed, the update of the key included, releases the key, and the retry runs it again.
* `settlement/t1.ts`: the hourly cron's first look, at 00:05, uses up the day's slot even for a balance below the minimum; a run that
  died after the debit reads SKIPPED, "in progress", in the database, with the AEPS book debited.
* `src/src/app/api/webhooks/chagans-pg/route.ts:73-76` maps PENDING and unknown words to EXPIRED, which fails the top-up, and a PAID that
  follows is dropped (`wallet/topup.ts:242-248`); `partners/chagans-pg.ts:448-450` means unknown words to be merely non-crediting. A webhook that
  comes before `partnerTxnId` is stored is acknowledged and lost.
* `handleTopupCapture` writes FAILED with no condition when the scheme is missing; `settlePgCollect`, `handlePgCapture` and `runPosIngestSweep` have no callers.

## 8. Assumptions

The environment is as lenient as the code justifies, and no more:

* Postgres at READ COMMITTED with row locks, unique indexes, CHECK constraints, deadlock detection.
* No caller of `Ledger`'s movements uses a key under `lien:<id>:reverse:`; every key a caller passes has a prefix of its own.
* Jobs are delivered at least once, never deleted before they are taken. Webhooks may be lost, repeated and late.
* A provider asked by a payment's reference answers for that payment. It may deny a payment and confirm
  it later, but not the other way round. A merged order answers both callers.
* A call is over (the partner client gives up after 45 s, `partners/sameday-core.ts:31`) long before the refund window of
  `REFUND_HOLD_MINUTES` (default 30) has passed.
* The desk refunds a payment as unknown only when the call is over and the provider has no
  record; what operators read from a bank statement is true, and a reference they type in is the payout's own.
* A returned transfer reads as paid or as failed when polled. (`mapSettlementStatus` reads every other
  word as pending, which would leave the payout open.) A declined transfer leaves no record.
* `PENDING_APPROVAL` payouts are old rows: `autoApprove` is `true` for every new one.
* Whether a desk refund first re-checks the rail (it does for rail KNTEER) is left open.
* A swipe the partner reversed stays reversed; its feed shows the present state, its webhooks may be old.
* A payment at the gateway is made for the order's amount or another one, where an amount at most one rupee away counts as the
  order's (`isAmountMismatch`); a webhook that says paid tells a payment that was made.
* T+1: the three reads of `settleUser` and its two legs are steps of their own; nothing else moves the AEPS book meanwhile (the
  ledger's solvency is what protects it then, and is checked and proved in `Ledger`).

## 9. Not modelled

Data: amounts as decimals, fees, GST, MDR slabs, commission shares and tax are units; names, receipts, notifications
and audit texts are left out. Prior checks that refuse a request without writing (risk limits, PIN, account status, quoting) are
requests that were not made.

Components that are left out, and why (`PROJECT.json` gives each one its note):

* **Wallet operations desk, reversal desk.** Statuses are read without a lock and written without a condition. What they promise
  beyond the ledger key does not survive two operators, so a model
  could only repeat the races listed under the hazards; what does survive, one movement per key, is `KeyAppliedOnce`.
* **Dual control.** Nothing calls `enforceDualControl`; two admins are asked for by the reviews of QR claims, which are modelled.
* **POS rental.** Debit and invoice share a key and nothing else; a crash between them leaves a paid invoice that the next run may waive. Nothing in the code repairs it.
* **PG settlement of collections.** No live caller.
* **Commission and TDS, pricing, schemes, MDR.** Sums and lookups over amounts inside the transactions that are modelled.
* **Risk engine, limits, authentication, step-up.** They read and refuse.
* **Monitors, outbound webhooks, audit anchors, disputes, AML, onboarding, KYC, user interface.** They move no money; what the
  integrity scan recomputes is stated as invariants of `Ledger`. The interface is most of the repository's lines, which is why the map covers
  a small share of them.
* **Page sizes of the sweeps** (50 rows, 200 for the drain) exceed any instance TLC can check.
* In `PosSettlement`: manual slips and their reversal, terminal assignments and the computation of the net; in `QrClaims`: the limits on submission.
