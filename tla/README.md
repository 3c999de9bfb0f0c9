# Ghasedak, specified

Ghasedak is a shop: a Next.js storefront and admin panel over a NestJS API
(`src/apps/api`) with PostgreSQL. Its hard part is not any single handler but
what happens when several of them, a payment gateway, an impatient customer and
a restarting process act on the same order and the same goods. This directory
specifies that part in TLA+, model-checks it with TLC and proves the core of it
with TLAPS. Paths below are relative to `src/apps/api/src`.

## 1. The system

| Part | State it keeps | Operations | Interacts with |
|---|---|---|---|
| Stock ledger (`inventory/inventory.service.ts`) | `StockLedgerEntry` (append-only, unique `idempotencyKey`), the projections `stockQty`, `reservedQty` on `ProductVariant`, `StockReservation` | `move`, `moveInTx`, `consumeReservation`, `releaseByRef`, `releaseExpiredReservations` | every part that moves goods calls `moveInTx` inside its own transaction |
| Orders (`orders/orders.service.ts`) | `Order.status`, `.paymentStatus`, history, coupon redemptions | `createGuestOrder`, `cancelUnpaid`, `editOrder`, status changes | reserves goods; writes the outbox |
| Online payment (`payments/payments.service.ts`, gateway adapters) | `PaymentAttempt` | `startOnlinePayment`, `registerCallback`, `verify`, `finalizePaid` | gateway over HTTP; orders, stock, treasury, journal, outbox |
| Card-to-card payment (`payments/c2c.service.ts`) | `CardToCardSubmission` | `submit`, `decide`, `expireIfNeeded` | shares attempts and `finalizePaid` |
| Inventory documents (`inventory/inventory-ops.service.ts`, `admin/admin-panel.controller.ts`) | transfers, quarantine, damage, stocktakes | create, confirm, receive, cancel, post, close | stock, journal |
| Purchasing (`inventory/purchasing.service.ts`) | purchase orders, receipts, invoices, supplier payments | create, send, receive, invoice, pay | stock, journal |
| Returns (`returns/returns.service.ts`) | `ReturnRequest`, `Refund` | request, approve, receive, settle, finalize | stock, treasury, outbox |
| Events (`events/`) | `DomainEventOutbox`, notifications, webhook deliveries | poll, dispatch, retry | reads what all others write |
| Accounting (`accounting/`) | `JournalEntry`, `FiscalYear` | post, edit, delete, finalize, close | called by every part that handles money |
| Treasury, cheques, settlement (`treasury/`, `checks/`, `payments/settlement.service.ts`) | account balances, cheques, matchings | pay, receive, transfer, match, clear | journal |
| Point of sale (`pos/`) | shifts, invoices, tickets | open, sell, correct, close | stock, treasury, journal |
| Products, import (`products/`, `import/`) | variants | edit, import | write `stockQty` and ledger rows beside the ledger service |

Hard behaviours, in short (the full list, with lines, is `hazards` in
`PROJECT.json`):

* *Database concurrency.* READ COMMITTED transactions with `SELECT ... FOR
  UPDATE` on variant rows; statements before the lock see other data than those
  after it; lines are locked in whatever order the caller sent them.
* *Request concurrency.* Every `await` of a Node handler lets another one run.
  Most handlers read a state, judge it, and write later.
* *Partial failure.* `finalizePaid` is one short transaction and six further
  statements; a death between any two is possible.
* *The outside.* Callbacks that are late, repeated or missing; payers who pay
  what the shop has already given up; clocks.

What makes each part correct: the ledger never goes negative, loses or invents
goods; an order is sold only when paid and paid only when money arrived; money
goes back once, and for goods that came back; an event is handled at least once
and its effects are not repeated without bound; books follow money. Sections 3
and 4 say which of these hold and which do not.

## 2. Modules

| Module | Models |
|---|---|
| `StockLedger` | the stock engine, at the level of statements inside concurrent transactions |
| `AtomicStock` | the promise the stock engine keeps, a shop that serves one request at a time; `StockLedger` implements it |
| `OrderPayment` | what all payments share: order, its edits, reservation, attempt, `finalizePaid`, handlers that die |
| `OnlinePayment` | extends it with the gateway payment |
| `CardToCard` | extends it with the card-to-card payment |
| `Purchase` | the promise a payment keeps; `OnlinePayment` and `CardToCard` implement it |
| `StockDocs` | the documents that move goods: transfers, damage, quarantine, stocktakes and their approval |
| `Refunds` | return requests, counter refunds, and the refund both end in |
| `Webhooks`, `Outbox` | deliveries to webhook endpoints; extends it with the event bus |
| `Checks`, `Purchasing` | cheques with the accounts they move; extends it with the way from purchase order to paid invoice |
| `StockLedgerProofs`, `StockDocsProofs`, `OnlinePaymentProofs`, `CardToCardProofs`, `RefundsProofs`, `OutboxProofs`, `PurchasingProofs` | theorems about the module they are named for |
| `OrderPaymentInvariant` | the statements about orders and attempts that both payment proofs show to be preserved |
| `Sums` | lemmas on sums over finite sets |
| `MC*` | values and symmetry for TLC |

**StockLedger.** A transaction `t` has a kind (`move`, `hold`, `consume`,
`release`) and `lines`. `Want` is the idempotency lookup and the request of the
row lock, `Lock` the return of `SELECT ... FOR UPDATE` with the aggregate that
follows it, `Check` the availability test of `createGuestOrder`, `Commit` all
writes at once (they become visible together), `Fail` the exceptions,
`DeadlockVictim` PostgreSQL's detector, `Crash` a lost connection. The ledger
rows are abstracted to what the code reads of them: two sums per (warehouse,
variant), the newest `balanceAfter`, and the keys. `stockQty` is read in a
statement of its own and written back, not added to: `seenStock` is what a
transaction has read of it. `releaseByRef` is no
transaction in the code and so is several steps here, each reading
`reservedQty` before it writes it. A basket is a function from variants to
quantities because `createGuestOrder` merges lines. There is no clock: each row
of a reservation gets an `expiresAt` of its own, within an order too, so a
`Sweep` may release any of the ACTIVE rows. An `UPDATE` of rows waits for the
consumption that has one of them locked (`Free`).

**AtomicStock** has four actions and no transactions, locks or stale reads: a
move takes effect in all lines whose keys are new, an order is placed on what is
on hand beside everything set aside, goods set aside are given back, and what an
order wants of a variant is sold, once. `StockLedger!Alone` is its INSTANCE: the
stock is the difference of the two sums, the keys are those of direct moves, the
goods are the reservation rows. It does not promise that an order is sold whole:
a sweep may find the rows of one order at different times, and a consumption
sells what it found ACTIVE.

**OrderPayment, OnlinePayment, CardToCard.** `pc[h]` is the statement a handler
is at; one action is one statement or one database transaction. `Begin` takes a
request in, `Return` answers. What a handler read earlier and will use later is
in a variable of the handler (`ord`, `work`, `issued`, `sub`, `seen`, `choice`).
`goods` has one state per batch of reservation rows (below): what consumption
does to single rows is StockLedger's subject, and here it either succeeds or
throws `INSUFFICIENT_STOCK`, both possible because of other buyers. `bank` and
`journal` are the attempts whose amount was credited and whose sale has an
entry: at least once, since a second finalisation repeats both. Neither is
certain for a paid order. `creditBankForOnlineInTx` returns without a word when
the amount is no valid number or no active bank account exists
(`treasury/treasury.service.ts:833-836`), and `postSaleJournal` swallows a
failed entry, or throws `GL_MISSING` and ends the handler (`NoReceivable`).
Attempts are identified by their idempotency key, gateway sessions by their
authority; `session` is the gateway's own record and is external. `Pay` is the
payer. `expireIfNeeded` is a subroutine: `Examine` is the call, `back` the
return address.

**Purchase** says what a customer may rely on, in five actions.
`OnlinePayment!Promise` and `CardToCard!Promise` are its INSTANCEs, with *paid*
the orders whose `paymentStatus` is PAID and *confirmed* those with a captured
session, or with a submission on file; property `KeepsPromise` of each is checked
as a refinement. That a transfer was also approved is more than the promise says
and is a property of its own (`OnlyApprovalPays`), as is, for the gateway, that
it is the attempt's own session and not another one of the same order
(`EffectsAreCaptured`). `Purchase` deliberately does not promise
that a paid order is sold: that is `PaidIsSold`, which fails.

**StockDocs.** Its handlers read a document, judge its state, and write later in
a transaction that does not look again: `Begin(h, write, ...)` is the read,
`pc[h]` the write that is due, `noted[h]` the number computed from what was
read. A write and all the transaction contains are one action; the statements
after it (a journal entry that is posted or reported, closing a stocktake,
granting an approval) are actions of their own, and `Fail` is a death, a
rollback or a refused entry before any of them. `rows` maps an idempotency key
to the signed quantity of its ledger row and `booked` is the set of keys with a
journal entry. `records` counts the `DamageRecord`s that destructions wrote: two
destructions of one quarantine move the goods once and write two records.
`moveInTx` is one step here because `StockLedger` is about its interior, and
there is one SKU because documents of different SKUs meet nowhere. `Elsewhere`
is the rest of the shop, selling and buying. A damage report that needs approval
starts as a draft; `ReportDamage` is one that does not.

**OrderPayment's edits.** `editOrder` releases what the order holds and reserves
the new lines in one transaction, judged by an order it read before. The rows an
order reserved at once are a *batch* with one state; batch 0 is
`createGuestOrder`'s and each edit adds one. So an edit that is late, a release
and a consumption of the older batch can all be told apart. Left out are coupons
and the statuses that shipping writes, which no payment reads.

**Refunds.** The `Read...` actions are the first half of a handler, `pc[h]` the
write that is due and `doc[h]` its subject. A return request is written whatever
it has become since it was read; a `Refund` row is claimed by an `UPDATE` that
looks at the state again, and that difference is what the properties live on.
`settle` is two steps, since creating the refund and moving the return on share
no transaction. `Finalize` is one transaction: claim, payment, entry, event and
the return. All returns are for one order line and all counter refunds for one
invoice line, where they can compete, and a return has one item: `receive` moves
the items of a return under the key `return-receive:<return>:<sku>`, so that of
two items of one SKU only the first would come in. The correction of an invoice
is an action of the environment (`CorrectInvoice`). Amounts are proportional to
quantities.

**Webhooks, Outbox.** A sender is anything that attempts deliveries: a pass of
the event bus right after it created the row, a pass of the webhook timer, an
administrator. `queue[s]` are the rows it is about to attempt and `job[s]` the
post under way with the count it read. A pass of the event bus keeps what it
polled in `list[p]` and the event in hand in `now[p]`, both with the attempts
read at the time. Neither timer waits for its last pass, so passes overlap, and
so do server processes. `nextAttemptAt` and `availableAt` are left open: a row
may be taken up at any time after it was put back. A pass of the timer reads the
oldest 20 rows that are due (`Window`) and passes over those whose endpoint is
off; which those are is left open too, so `Drain` takes any of the pending rows,
at most `Window` of them. An event stands for one whose handler queues a text
message, unless it finds none to be wanted (`unwanted`: no mobile number, the
setting off, no key of the provider). Left out: the dispatcher that
sends queued text messages, the window of 24 hours for notices, pruning, the
administration of endpoints.

**Checks, Purchasing.** A transition of a cheque reads it, judges it by the table
of its direction and claims it by `updateMany` with the version it read. Nothing
of it is written before the claim and everything after is in its transaction, so
claim and effects are one action, `TransitionOf`. `gl` holds the balances of the
general accounts the entries touch, with one account for all money: cash, 1100
and its sub-accounts 1100-XX. The balances kept with the bank accounts
themselves are not followed: `clearingBankInTx` may find no account
(`checks/checks.service.ts:400-408`), and then the entry is posted and no balance
moves, so the two do not agree and no property says they do.
Purchasing has the same shape: `ReadOrder`, `ReadReceipt`, `ReadInvoice` and then
a write. `payInvoice` reads twice before its transaction, the invoice with its
payments and then which of their cheques came back, so `JudgePayment` is an
action of its own. `debitForPurchaseInTx` returns when it finds no account
(`treasury/treasury.service.ts:849`): the payment then counts, the debt falls and
nothing is booked (`unbooked`); what such a transaction reads of the payable may
be out of date when it writes, since it waits for no entry number (`PaidSeen`).
One supplier; one line and one invoice per receipt. Of a counter sale paid by
cheque there is the cheque and its entry (`SellByCheck`). The HTTP controller
(`inventory/purchasing.controller.ts:197`) does not pass the cheque fields on:
payments by cheque come from callers of the service. A missing account of the
general ledger itself (2100, 1220, ...) is left out.

Abstractions common to all: amounts are left out except where a property counts
them, as are messages, validation of form fields, permissions, the audit log and
the order history.

Some definitions are marked `Fault:` in their comment. They are no part of any
specification: each is a plausible mistake in the definition that follows it, put
there so that one can see that a property would notice.

## 3. What TLC checks

Passing runs:

| Run | Instance | Properties beside `TypeOK` |
|---|---|---|
| `StockLedger` | 3 transactions, 2 orders, 2 variants, 2 warehouses; fair | `LedgerChain`, `ProjectionMatchesLedger`, `ConsumedIffSold`, `StockConservation`, `NoOverHold`, `RunsAsIfAlone` (refinement; includes that no cell goes below zero), `EveryTxnEnds` |
| `StockDocs` | 2 handlers, 2 warehouses, at most 3 of 5 documents | `TransferConserves`, `StateShowsMove`, `BookedWithGoods`, `AdjustedIsApproved` |
| `OnlinePayment` | 1 order, 2 attempts, 2 authorities, 2 handlers, 1 edit | `EffectsAreCaptured`, `AuthorityUnique`, `KeepsPromise` (refinement; includes that only a paid order is sold and that paid stays paid) |
| `OnlinePaymentLive` | 1 attempt, 2 handlers, 1 edit, 1 death; fair | `PaidEventTruthful`, `VerificationEnds` |
| `CardToCard` | 1 order, 1 key, 2 submissions, 2 handlers | `KeepsPromise` (refinement; includes that only a paid order is sold and that paid stays paid), `OnlyApprovalPays`, `ApprovedIsPaid`, `RejectedHoldsNothing` |
| `CardToCardSequential` | 1 handler, 2 keys, 2 submissions, 1 edit, 1 death; fair | `OverdueCloses` |
| `Refunds` | 2 returns of a line of one, 2 counter refunds of a line of two, 2 handlers that may die | `PaidOnce`, `GoodsFirst`, `StatusTellsMoney` |
| `Outbox` | 2 passes, 1 webhook timer pass, 1 event, 1 delivery, 1 death, 1 retry; fair | `OutcomeIsTrue`, `VerdictIsTrue`, `MessagesBounded`, `EventEnds` |
| `Purchasing` | 3 cheques (counter sale, supplier payment, by hand), 1 order, receipt and invoice, 2 handlers | `BooksMatchChecks`, `CustomerOwes`, `PayablesMatch`, `ReceivedWasSent` |

Why these bounds. Three transactions are a holder, a waiter and a third who acts
in between; the jobs share a variant, repeat a key and use a second warehouse;
opening stock 2 and 1 makes the last unit contested. Two handlers show every
race of two requests, and each handler takes any number of requests one after
the other, so a long history is covered although concurrency is two. In
`StockDocs` each warehouse holds one unit that a transfer, a damage report and a
quarantine all want, and a count of 0 or 4 around it differs by more or less
than the tolerance in either direction; documents meet only through the goods
and, for a request, through its stocktake, so three at a time (`FewDocuments`)
suffice. Two attempts and two authorities make an order paid twice possible. Two
submissions allow a rejected one followed by another. One edit puts two batches
of rows side by side. Edits and deaths together are in `OnlinePaymentLive` and
`CardToCardSequential`; the larger instances leave out deaths, and `CardToCard`
edits too, since the proofs cover their safety for any number of both. In
`Refunds` either return could claim the ordered unit and either counter refund
part of the two sold; the four refunds use three methods of payment. In `Outbox`
both limits are 2 instead of 5 and 6: with one overlap that is the smallest
limit at which a lost count and a count reached too early differ; `Window` is 1
for one delivery. In `Purchasing` the invoice is for 2, the cheque that pays it
for 2, and a transfer for 1, so both together overpay and either may be judged
before the other; the receipt is worth 3, so the invoice differs from it.

Bounds on histories are `MaxCrashes`, `MaxEdits`, `MaxSubmissions`, `MaxDeaths`,
`MaxRetries`, `MaxStock`, the set of transition keys and the saturating counters.

Deadlock is checked in every run but `Refunds`, `RefundsCostComesBack`, `Outbox`
and `Purchasing`, whose documents, events and keys run out: when all are finished
nothing is left to ask for. `StockLedger` stops by `Terminating` for the same
reason.

Fairness. `StockLedger!Fairness`: Node runs the transactions it has started and
PostgreSQL picks a victim in a cycle; nobody is obliged to start one.
`OnlinePayment!Fairness`: handlers run on, and a payer whose verification was
interrupted opens the result page again and again until it is taken up (the page
posts to `verify/:authority`); without that, nothing in the server would.
`CardToCard!Fairness`: handlers run on, and somebody opens an open submission
again and again; the code has no scheduler for expiry and says so.
`Outbox!Fairness`: passes that have started run on, the timers start new ones,
and a row does not wait for its next attempt for ever; nobody must publish,
retry or die, and nothing obliges a post to succeed. That is enough for events
and not for deliveries: one whose endpoint has been switched off stays PENDING
(`events/webhooks.service.ts:210`), and as the passes take the oldest twenty rows
first (205-206), twenty of those keep every younger one from being sent. So that
a delivery ends is no property here.

Runs that find what a comment or document denies (each quoted under `findings`
in `PROJECT.json`):

| Run | What happens |
|---|---|
| `StockDocsCountSettles` | a shortage found by a stocktake is booked as a surplus: `closeStocktake` passes the size of the difference and `move` takes the direction from its sign |
| `OnlinePaymentPaidIsSold` | a paid order is never sold |
| `RefundsCostComesBack` | the cost of returned goods does not go back into inventory: it is looked for in rows that were never given one |

Other surprising behaviours of the code that the models contain, with no run of
their own; the properties above hold in spite of them.

* Stock. A direct move takes goods that an order has reserved: it compares with
  stock on hand alone. Two transactions that lock two variants in opposite
  orders deadlock (the detector ends one of them). `reservedQty` drifts from the
  reservations: `releaseByRef` lowers it by every row ever released for the
  order, so a second run lowers it twice, and what it writes it has read before.
* Online payment. Two verifications of one attempt both credit the bank and both
  book the sale; without an active bank account none does, and the event is
  published all the same. The session of a second click with one key is stored
  nowhere, and a payer who uses it pays what the shop does not know. A payment
  attempt can leave PAID or FAILED, or go from VERIFYING to EXPIRED; an order
  can end CANCELLED and paid; three network errors fail an attempt whose money
  was captured.
* Card to card. A later decision replaces an earlier one, and two approvals
  credit the bank twice; two concurrent submissions are both under review; a
  death in `expireIfNeeded` leaves the goods of an expired submission reserved.
* Edits. An edit judged before the payment and written after it leaves a paid,
  sold order with goods reserved again. If the order is paid once more they are
  marked CONSUMED, though the sale row of a variant already sold exists and
  nothing is moved for it.
* Documents. A second confirmation of a transfer moves nothing but posts its
  journal entry again and can turn DONE back into IN_TRANSIT; a cancellation read
  early overwrites IN_TRANSIT or POSTED; a release overwrites DESTROYED. The
  goods are right in all of these (`TransferConserves`), the state is not. Two
  destructions of one quarantine write two damage records for goods that left
  once. Two holds may exceed what is there. An
  approval of one count of a stocktake serves a later count, and a request for
  approval goes by the general threshold where closing goes by the stocktake's
  own tolerance, so that some counts can be neither closed nor submitted.
  `systemQty` is the stock of all warehouses though the adjustment goes to one.
* Returns. A settlement that dies between the refund and the return leaves the
  return RECEIVED for good: the next one hits the unique key. Several requests
  for one order line are each compared with the ordered quantity. A cancelled
  counter refund keeps its goods in. APPROVED or REJECTED may be written over a
  return that was received or refunded since.
* Events. A slow pass that fails puts an event that another has DISPATCHED back;
  a delivery that is OK may be overwritten by a late FAILED. A row that is
  PENDING with as many attempts as the limit is never taken up again, nor is one
  whose endpoint is off, and passes that overlap queue a message twice.
* Cheques. A payment for which no account is found lowers the debt and leaves
  the ledger as it was, and two such at once can lose one on the payable. A
  cheque that clears without an account is in the ledger and on no balance. A
  cheque entered by hand books nothing when it is issued, so clearing or
  cancelling it leaves a balance on 2110 or 2100. An invoice stays PAID after
  its cheque bounced, and `payInvoice` refuses it for good. Two payments at once
  can overpay. Sending, cancelling and receiving one order overwrite each
  other's state.

## 4. What is proved

All of it for every value of the constants that the module's assumption admits:
any number of handlers, documents, orders and attempts (finite where something
is counted), and any bound.

| Module | Theorems (property) |
|---|---|
| `StockLedgerProofs` | `TypeCorrect`, `NeverNegative` (`NonNegative`), `ChainUnbroken` (`LedgerChain`), `SoldOnce` (`ConsumedIffSold`), `ProjectionHolds` (`ProjectionMatchesLedger`), `StockConserved` (`StockConservation`), `NeverOverHeld` (`NoOverHold`), `RunsAlone` (`RunsAsIfAlone`, the refinement of `AtomicStock`), `NoLockOutlives` (proved only) |
| `StockDocsProofs` | `DocsTypeCorrect`, `TransfersConserve`, `StatesAreTrue`, `TransfersAreBooked`, `LargeAdjustmentsApproved` |
| `OnlinePaymentProofs` | `OnlineTypeCorrect`, `NothingUncaptured` (`EffectsAreCaptured`), `AuthoritiesDiffer`, `EventsAreTrue`, `PromiseKept` (the refinement of `Purchase`); proved only: `OnlineSoldOnlyIfPaid`, `OnlinePaidStaysPaid` |
| `CardToCardProofs` | `CardTypeCorrect`, `ApprovalsArePaid`, `RejectionsHoldNothing`, `OnlyApprovalsPay` (`OnlyApprovalPays`), `CardPromiseKept` (the refinement of `Purchase`); proved only: `CardSoldOnlyIfPaid`, `CardPaidStaysPaid` |
| `RefundsProofs` | `RefundsTypeCorrect`, `RefundsPaidOnce`, `StatusTellsTruth`, `GoodsBackFirst`, `RefundsDecidedForGood` (an action property that is proved only) |
| `OutboxProofs` | `OutboxTypeCorrect`, `OutcomesAreTrue`, `VerdictsAreTrue`, `MessagesStayBounded` |
| `PurchasingProofs` | `PurchasingTypeCorrect`, `ReceivedAfterSent` (`ReceivedWasSent`), `BooksAgree` (`BooksMatchChecks`), `CustomersOweTruly` (`CustomerOwes`), `PayablesAgree` (`PayablesMatch`); proved only: `ChecksKeepTheTable`, `ReceivablesFollowChecks`, `ChecksPayOneInvoice` |

None of the properties is inductive. What each proof adds:

* **StockLedger.** *Shape* ties a transaction's program counter to its lines, its
  wanted row and the locks it holds. *Chain* is the fact the lock is there for:
  what a transaction summed for a row it still holds is what the ledger sums to
  now, since every commit that writes a cell holds its row; likewise what it read of
  `stockQty` is what `stockQty` is now. *Sold* says that a
  consumption's lines are the reservation's rows with their sale keys and that
  no other kind of transaction carries such a key. *Counted* is the
  bookkeeping: for each cell and variant the ledger is the opening stock plus
  the keys that were used minus the orders that were consumed, a sum in which one
  commit changes one term per line. *Secured* is for `NoOverHold`: an order that
  passed its check holds the locks of all its variants, and only a holder takes
  goods from a variant or reserves them; a release only lowers the sum.
  `RunsAlone` takes the commit for the moment at which a request happens. What
  the transaction did before is invisible; what it writes is what the request
  asks for in the state of that moment, since a line it passed over had its key
  in the ledger and keys stay (*Intended*), the balances it summed are current
  (*Chain*), the cover it checked is still there (*Secured*), and the rows it
  takes out are those of its lines that are not CONSUMED yet (*Sold*). So any
  number of transactions that read, wait, race, fail and die do to the goods
  what some order of whole requests does. `NoLockOutlives` is the safe half of
  `EveryTxnEnds`: what stands in a transaction's way is always another that is
  still open.
* **StockDocs.** What a handler is about to write rests on a state that may be
  gone by then: a transfer judged IN_TRANSIT may be CANCELLED when it is
  received. So the invariant adds *Rows* (what a ledger row with each kind of key
  can hold) and *Pending*: for each due write, the part of what the handler saw
  that nobody can take back. A due receipt has an outgoing row, since rows are
  never deleted; a due adjustment above the limit has its approval, since
  approvals are never withdrawn. That, and not the state, keeps these documents
  right.
* **OnlinePayment, CardToCard.** Each handler on its way through `verify` or
  `finalizePaid` *knows* something that only grows: its attempt's session was
  captured, the order is paid, nothing of batch 0 is still ACTIVE.
  `OrderPaymentInvariant` states that knowledge once for both.
  `CardToCardProofs` adds what holds at each return address of `expireIfNeeded`,
  and that submissions are numbered by attempt. `PromiseKept` and
  `CardPromiseKept` map every step of `OnlinePayment` and of `CardToCard` to a
  step of `Purchase` or a stutter: only the statements that write reservation
  rows, mark an order paid, capture a session or file a submission are seen, and
  what the handler knows at each is the guard of the promise's step. That goods
  are sold only when paid (`SoldOnlyIfPaid`), which the runs check as part of the
  promise, is a theorem of its own in both.
* **Refunds.** *Linking* says what a handler that died, or is about to move a
  return on, leaves between a refund and its return. *Goods*: a refund that
  exists, or is about to, has its goods in. *OnHand* counts the stock as a sum
  over what came back. `RefundsDecidedForGood` follows the claims: a refund is
  created once, leaves PENDING once and only by a write that looks at the state
  again, and money moves in the step that completes it.
* **Outbox.** No count is ahead of the facts: the number of attempts on a row or
  in the memory of a sender is at most the number of posts or failures there
  were, whoever overwrites whom. For `MessagesBounded`, messages and passes about
  to queue one are together at most as many as there are passes, as long as a
  pass that looks finds none.
* **Checks, Purchasing.** For every account there is a table of what a cheque
  contributes to it in each state, and *the balance is the sum of the table over
  the cheques* (plus the payments that are none). A transition changes one term;
  the account moves by the difference of the two entries of the table, which is
  what its journal entry posts, and the lemma is proved once for each transition
  of each direction. What makes the claim safe is the version: it grows with
  every transition, so either the state a handler has read is still the row's or
  its claim fails (`KnowsCheck`).
  `PayablesAgree` also follows an invoice: its payable is counted once, by the
  payment that made it, and taken back once, when its cheque dies. That a cheque
  pays at most one invoice, which this rests on, is `ChecksPayOneInvoice`.
* **Sums.** The models add with `SumFunctionOnSet` of the community modules,
  which recurses through a `CHOOSE`. The lemmas show that its recursive function
  exists and is unique for every finite set, by an induction over a *set* of good
  subsets, which needs no operator parameter, and from that what happens to a sum
  when an element is removed, changed, added or filtered out.

Only checked by TLC: liveness (`EveryTxnEnds`, `VerificationEnds`,
`OverdueCloses`, `EventEnds`), which is out of the prover's
reach. Every other property of the passing runs is a theorem.

## 5. Order of construction, and what is left

The stock engine came first because everything moves goods through it, then the
payments, whose races matter most to a customer, then documents, returns, the
outbox that everything writes to, and buying. Each was model-checked before it
was proved.

Not modelled, although they keep state:

* *Journal and fiscal year.* `postEntry` is one transaction under the row lock
  of its counter. `Checks` and `Purchasing` follow the balances that entries
  move; numbering, editing, finalising and closing of periods are left out.
* *Treasury operations of the panel.* Withdrawals queue behind the number series
  of payments before they read the balance; a withdrawal and a transfer, which
  take different series, can overdraw an account together (a hazard,
  `treasury/treasury.service.ts:63`). A cash expense of a shift is booked against
  the cash account and does not lower its balance.
* *Settlement.* `postBatch` posts its entry and then, in no transaction with it,
  marks the batch, so two requests, or a repetition after a death, post twice.
* *Point of sale.* Read, not modelled. A correction first makes the new sale and
  then, in another transaction, reverses the old one; a repetition after a death
  between them is answered with the new sale and reverses nothing. It moves the
  goods out again, two corrections with one key reverse the journal twice and
  the treasury not at all; opening a shift looks and then creates, and closing
  one misses sales in flight.
* *Products and import* write `stockQty` beside the ledger; `StockLedger` is
  about the ledger's own writers, so its `ProjectionMatchesLedger` says nothing
  of a shop where these run.
* *Coupons*: the limit is counted before the redemption. *Shipping*: a late
  synchronisation may overwrite CANCELLED.

Not to be modelled: reading and reporting, content management, front ends,
authentication, payroll; they are sequential, or keep no state that several
actors build up together (`components` gives each one's reason). They are most of
the source by lines, and the reason that the models map a small share of it.
