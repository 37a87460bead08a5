# SellFindConnect: formal models

This directory holds TLA+ models of the SellFindConnect API (`src/apps/api`, a NestJS service over Prisma
repositories, with pure rules in `src/packages/domain` and a Next.js front end in `src/apps/web`), the TLC
configurations that check them and TLAPS proofs about them. Line numbers below refer to the repository.

- `tlc -config Workbench.cfg MCTaxReturnWorkbench` checks one configuration (table of runs in section 4).
- `tlapm Profiles_proofs.tla` checks the proofs of one module.
- `PROJECT.json` maps every definition to the lines it models and lists runs, mutants, hazards and theorems.

## 1. The system

Every part has the same shape, and most of what is hard about it follows from that shape:

1. An operation loads rows, decides in pure domain code, and **writes the whole row it loaded** back, usually by
   an `upsert` without a version check. Between the load and the write are awaits: another request may run.
2. An operation makes several such writes, provider calls and notifications **one after the other, without a
   transaction**. It may stop after any of them.
3. Nothing runs in the background of the API. A GitHub workflow (`.github/workflows/scheduled-jobs.yml`) calls
   protected endpoints: every 15 minutes conversation SLA checks, notification dispatch, media processing and
   source-finder alerts; daily advert lifecycle, account deletions, analytics rollups and finance alerts; weekly
   retention. The workflow is in one concurrency group, but `curl --retry 3` repeats a call whose answer was lost
   while the first may still run, every run gives the same `workerId`, and an operator may call as well: sweeps overlap.
4. Providers (Stripe, Africa's Talking, Google Play, Resend, scanners) answer, fail, answer and are not heard, and call back.

| Component (`apps/api/src/modules/…`) | State | Operations | What makes it correct | Status |
|---|---|---|---|---|
| Tax return workbench (`finance`) | one return per country and period, correction ledger, reconciliation runs and alerts | submit, approve, attach evidence, file, remit, lock, correct, reconcile | evidence before filing; two people above the threshold of the request; approval behind reconciliation; a lock is final but for corrections; ledger and return agree | modelled |
| Tax books, return alerts, settlements (`finance`) | tax profiles and rules, snapshots, ledger entries, alerts, statements | configure, approve a rule, calculate, generate a return; alert sweep, reconcile a statement | a sale is taxed by the rule in force; returns, ledger and snapshots agree; one alert per milestone, none missed | partly |
| Payment invoices (`finance`) | invoice, payments, receipts; the provider's charges | `payInvoice`, `settleProviderCapture`, `refundInvoice` | invoice, payments, receipts and provider add up; no key charges twice; never more than the total | partly |
| Payment adapters (`finance/payment.adapter.ts`) | configuration; what each rail took and paid back | capture, refund, routing, configuration check | what is booked is what the rail moved, to a unit of its currency | partly |
| Tenant invoices (`finance`) | invoice, receipts, adjustments, dunning notices, number sequence | issue a receipt, refund, chargeback, dunning | no number twice; one notice per stage; documents and balance agree | partly |
| Mobile money (`payments`) | transaction rows | `requestCheckout`, `requestPayout`, `reconcileCallback` | SUCCESS is money moved; every request has a row; the domain's status machine | modelled |
| Media pipeline (`media`) | assets, processing jobs, review cases; storage, providers and queue chosen at start | attach, enqueue, claim, process, publish the verdict, retry, review; draft publication; sign uploads, ask providers, check the CDN | unsafe media is blocked, stays so and is not published; one worker per job; bounded retries; one case per bad end, decided once; a provider that is named is used, and its errors pass nothing | partly |
| Adverts (`adverts`) | drafts and files, adverts, discovery index, saved searches, lifecycle notifications | edit, upload, duplicate, publish, pause, archive, renew, boost; daily sweep; search, alerts, rebuild | warned before deletion; index, files and record agree; tenants' decisions stand; one advert per draft; what is found is live and ranked | modelled |
| Notifications (`notifications`) | outbox records with a status per channel and attempts | plan and queue, dispatch one, dispatch all | a keyed channel delivers once; the record accounts for deliveries; failures are retried | partly |
| Account deletion (`privacy`) | deletion requests; what a tenant holds; sessions | request, cancel, sweep | a cancelled request is not executed; a completed one is whole; a due one is settled in the end | partly |
| Authentication (`auth`) | users, sessions, challenges, MFA; tenants, invites, memberships, terms | register, sign in, codes, resets, recovery codes; invite, accept, switch | codes work once; guesses are bounded; a reset closes sessions; members were invited | partly |
| Conversations (`conversations`) | threads, messages, receipts, SLA alerts | open, send, mark, assign, status, SLA sweep | the SLA clock follows the messages; one warning per due date and no lost one; statuses are not undone | partly |
| Profiles (`profiles`) | drafts, published versions | edit, review, media, publish, erase | one live version in order, none without its draft; an erased draft stays away; changes that need a review had one | partly |
| Analytics (`analytics`), platform access (`access`, `auth`) | events, daily rollups; roles, assignments, scopes | record, refresh, erase, retain, report | rollups equal the events that remain; a report counts what its asker may see | partly / modelled |
| Source finder, relationship claims, reports and blocks (`source-finder`, `relationships`, `ugc`) | index with embeddings, feedback, saved searches and alerts; claims; reports and blocks | search, rebuild, feedback, sweep, notify; create, decide, remove | a search shows matches in order, without what is hidden or blocked; one alert per match, notified in the end; decisions are final | partly / modelled / modelled |
| Leads; tenant guard; operations; search adapters; catalogue, onboarding, safety, health, audit; domain library; database schema; persistence (but for how it is chosen); web | none of their own, or in front of the others | – | – | not modelled, reasons in section 7 |

Interactions that the models contain:

- media results patch the asset that an advert draft publishes (MediaPipeline holds both);
- the advert sweep writes index and notifications (AdvertLifecycle); drafts become adverts (AdvertDrafts); searches read index and advert (AdvertDiscovery);
- the payment adapters stand between invoices and the provider (PaymentInvoices for overlaps, PaymentRails for amounts), and both kinds of invoice
  are served by one set of handlers (TenantInvoices);
- blocks decide who may be written to (Conversations) and whom an alert names (SourceAlerts), claims what the alert sweep matches (SourceAlerts);
- a deletion closes the sessions of its user (AccountDeletion, and as closings from outside in AuthSessions); access decisions stand in front of reports (AnalyticsReports over PlatformAccess).

Cut: leads, conversations, source finder and media call `planAndQueue` as their last effect and read nothing back, so NotificationOutbox starts from any planned record.

The behaviours that are hard to test are in PROJECT.json under `hazards`, each at its line, with the properties
that would catch it. The list keeps the forty most relevant ones; several small ones of the same shape are folded together.

## 2. Modules

| Module | Models | Checked by | Proofs |
|---|---|---|---|
| `TaxReturnWorkbench` | the workbench operations of `finance.service.ts` | `Workbench` | `TaxReturnWorkbench_proofs` |
| `TaxBooks`, `FinanceAlerts` | tax profiles, rules, snapshots and sums; alerts and settlement comparison | `Workbench` (focuses) | – |
| `PaymentInvoices`, extended by `TenantInvoices` | payment invoices with the adapters' idempotency keys; tenant invoices | `Invoices` | `TenantInvoices_proofs` |
| `PaymentRails` | `payment.adapter.ts`: amounts, statuses, routing | `MobileMoney` (focus) | `TenantInvoices_proofs` |
| `MobileMoney`, abstract `PaymentStatusFSM` | `payments.service.ts`; `packages/domain/src/payments.ts` | `MobileMoney` | `TenantInvoices_proofs` |
| `MediaPipeline` | queue, worker, publisher, review cases, `publishDraft` of adverts | `Media` | `MediaPipeline_proofs` |
| `MediaProviders` | start-up, upload links, queue in memory, scanners, moderators and transformers, CDN check | `Media` (focus) | – |
| `MediaReview` | decisions on review cases, playbooks, their audit | `Media` (focus) | `MediaPipeline_proofs` |
| `AdvertPeriod`, `AdvertOverlaps`, `AdvertLifecycle` | live adverts, the sweep, the index; what the operations on adverts share | `Adverts` | `AdvertLifecycle_proofs` |
| `AdvertDrafts` | drafts, uploads, publication, duplication | `Adverts` (focus) | `AdvertLifecycle_proofs` |
| `DiscoveryText`, `AdvertDiscovery` | query correction and ranking; search, saved searches, rebuild | `Adverts` (focuses) | – |
| `NotificationOutbox` | outbox and dispatch | `Outbox` | `NotificationOutbox_proofs` |
| `AccountDeletion` | `privacy.service.ts` | `AccountDeletion` | `AccountDeletion_proofs` |
| `AuthSessions` | sign-in, second factor, challenges, recovery codes | `AuthSessions` | `AuthSessions_proofs` |
| `TenantMembers` | registration, invites, memberships, terms | `AuthSessions` (focus) | `AuthSessions_proofs` |
| `Conversations` | conversations and SLA checks | `Conversations` | `NotificationOutbox_proofs` |
| `Profiles` | profile drafts, review, versions | `Profiles` | `Profiles_proofs` |
| `AnalyticsRollups`, extended by `AnalyticsReports`; `PlatformAccess` | events, rollups, erasure; reports; who may ask | `Rollups` | `TaxReturnWorkbench_proofs` |
| `SourceAlerts` | saved-search alerts, claims, blocks, reports | `SourceAlerts` | `MediaPipeline_proofs` |
| `SourceSearch` | searches, their ranking, feedback, the index and its rebuild, the hierarchy report | `SourceAlerts` (focus) | – |

A run whose table entry says "focus" has a variable `focus` that is chosen in the initial state and never changes: a behaviour of such a run is about one of its
modules, the others stand still. The modules share bounds (`MaxOverlaps`, …) but no state in these runs; each focus is a run of its own in all but name.
`MC…` modules give constants small values, join focuses, and name a module's property for the run; they model nothing. `Conversations` and `NotificationOutbox` need none.

Left of the plan: the real-time gateway of conversations.

### Conventions

A request handler is a function from its name to a record with a program counter `pc` and its **locals** (the
copies it read). One action is what happens between two awaits: a read of the database, a write, or a provider call. An operation that is
refused before its first write is no action; one that is refused or dies after a write is. `pc` values are
named for the write that comes next. Operators named `…Mutant` are deliberately wrong versions of the definition
after them: each shows that a property is able to fail.

Bounds are constants that appear in guards only: `MaxOverlaps` (operations that begin while another is in
progress), `MaxAborts`, `MaxCrashes`, `MaxFaults` (operations that die or whose answer is lost), `MaxTrouble` (overlaps and crashes together), and sizes of
histories (`MaxPayments`, `MaxCorrections`, `MaxCases`, `MaxDay`, …). The proofs do not depend on their values. The counters also serve
the properties that hold only under a condition: `overlaps = 0` says that operations came one at a time,
`Undisturbed` or `Alone` that none died either. Such a property says what the code guarantees without concurrency control; what happens beyond is
under "Disagreements" or a hazard.

## 3. What each model says

### TaxReturnWorkbench

`ret` is the stored `TaxReturnRecord` reduced to status, evidence kinds, the two signatures, the remittance mark, the tax
it was generated with (`opening`), the tax it shows (`due`) and its corrections; `lastRun` and `alert` are what the reconciliation gate reads; `ledger` holds the
amounts of the correction entries. Each operation is a `…Load` action followed by one action per `saveTaxReturn`. `Transition` is
`transitionTaxReturn` (the one place that checks `taxReturnTransitions`), `FilingSeparated` and `CorrectionSeparated` are the two-person
rules, `evaluateTaxPeriodCompletion` gates the lock. The threshold of the two-person rules comes with each request (`dualApprovalThresholdAmount`,
any of `Thresholds`; the default stands in when it is absent); the return's `threshold` is history, what its filing was checked against.

- 2 handlers, 2 people, requests whose threshold the tax reaches or not, corrections up and down, 2 overlaps. The record is
  always sound in itself, however handlers overwrite one another (`EvidenceBacked`, `LockedUnderDualControl`, `CorrectionChain`, the first half of `RecordsBehindReturn`):
  every write starts from one consistent copy and checks against it. Between records this needs requests one at a time:
  the ledger's half of `RecordsBehindReturn`, and `GatesHoldAlone` (approval behind a clean reconciliation; a lock changes by corrections only).
- Two handlers and two overlaps are enough for a stale write, and for a second one over the first; a third handler would add only further
  stale writes, and the proofs cover any number of handlers.
- Focus "books", `TaxBooks`: two clerks, rate 28 %, one sale of 400, days 0 and 1, two profiles or rules, two snapshots, one return, one overlap, one death. `TaxesHold`: a sale is split into net and tax,
  taxed by the rule in force, its ledger entries follow it, a return is the sum of what is in the ledger, and an approval is kept.
- Focus "alerts", `FinanceAlerts`: deadlines on days 1 and 3 (half-day ticks, clock to 3), two statements against the books. `TaxesHold` also says that an alert is raised once per key, is true when
  raised, is not missed by a sweep that runs on its day, and that every difference of a statement is flagged.

### PaymentInvoices and TenantInvoices

`inv`, `payments`, `receipts` are the stored records, `charges` and `returned` the provider's. `payInvoice` is
`PayLoad`, `PayKey` (the derived key counts the payments), `PayLookup` (replay), `PayPending`, `PayCapture`, `PaySave`, `Credit`,
`ReceiptCount`, `ReceiptSave`; settlement and refund follow their code in the same way. The Stripe adapter recognises a key, Africa's
Talking gets none, and a pending charge is resolved by `Resolve` at any time. `PayCapture` and `RefundCall` may get an error for what the provider did: any answer that is not ok is booked FAILED (`payment.adapter.ts:150`). `SettleSave` stores what the body says (`Verdicts`: FAILED, or CAPTURED with any amount of `Stated` or the payment's), as the code asks no provider (`finance.service.ts:1191`). `misled` remembers that the books were told otherwise than the provider did. In the other book (`book = "tenant"`) the same handlers run `issueReceipt`, `requestRefund`, `openChargeback` and `runDunning`
with the document numbers, ledger entries and alerts that they write.

- Total 2, 2 requests, one disturbance (an overlap or a death), settled amounts 1, 3 (more than the total) or the payment's, both adapters, 3 payments, 2 charges, 2 refunds; references x and y, found 0, 1 or 15 days overdue, 3 documents.
  `InvoiceMoneyAccounted`: a stored invoice is coherent in any case; alone, receipts are for captured payments and of their amounts; alone and undisturbed invoice, payments and receipts add up whatever settlements say, and unless `misled` they are the provider's.
  `NothingDoneTwice`: a retry of a key or of a settlement is a replay when requests come one at a time, even after a death; one document per reference and number, one notice per stage. Alone, undisturbed and unless `misled`, what is charged stays within the total.
- A total of 2 makes partial payments, partial refunds and two equal partial refunds possible; a second disturbance only repeats what the first can do.

### MobileMoney, PaymentStatusFSM, PaymentRails

One row per request, written before the provider is asked, updated with the answer, and then by callbacks that find it by transaction id.
The provider is orderly for some rows (answers with the id, then calls back once) and **unruly** for the others (lost answers, early, repeated and reordered callbacks, and a process that dies).

- Two orderly rows and an unruly one: `SuccessIsReal` and `AskedIsRecorded` hold for all rows; the orderly rows implement the domain's status machine
  (`FollowsFSM`: refinement of `PaymentStatusFSM` by the rows' statuses) although `reconcileCallback` never calls `canTransitionPayment`; a confirmed
  checkout of an orderly request settles (`CheckoutSettles`; payouts have no id and never do). For unruly rows the status
  machine is not followed: a late interim callback overwrites SUCCESS (hazard at `payments.service.ts:240`).
- Rows do not interact, so three of them are enough; the proofs hold for any number.
- Focus "rails": one invoice of UGX 20000, 15000 or 12000, USD 150 or KWD 14 (ten-thousandths: whole units, halves and less than a half of each provider's unit),
  eight deployments of the four adapters, one redeployment, one lost answer, three booked captures or refunds. `RailsHold`: what is booked is what was taken, to a unit; a key takes once;
  what cannot be collected is less than a unit; a refund is returned by the rail that took the money, unless the deployment changed; a Play purchase that is PAID was acknowledged, unless the call failed.

### MediaPipeline

The jobs of one file (malware scan, moderation, transform), the asset on the draft and its copy on the live advert, the review cases,
and worker runs: `FindCandidates`, `Claim` (the conditional update), `Process`, `Complete` or `FailFind`/`FailWrite`/`FailRead`, then `Patch`, `CaseFind`,
`CaseCreate`. A call gives one of its `WorkerIds`: the scheduler's is always the same, an operator may give one of his own. `publishDraft` reads the media (`ReadMedia`) and stores the copies awaits later (`PublishDraft`). `Throw` is a database error inside the worker's
`try`, which leads to `failJob` or ends the run, as in the code.

- Two jobs, one run at a time and a publication (focus "publication"), or one job and two runs that overlap, both of the scheduler or one of an operator (focus "overlaps"), with one fault: `VerdictIsPublished` (no block without its reason, no verdict and no review case lost or doubled unless a run dies; of the live copy it says nothing),
  `LockHolds` (a job has one worker, and its attempts are counted: while no two runs shared a workerId, or while none died or threw), `BlockStands` (a block stays, and keeps what no publication has read yet from the public), `JobsFinish`.
- Two jobs suffice for order between jobs of one file, a single one for races on a job; two attempts leave one to spare after a failure.
- Focus "providers", `MediaProviders`: every combination of the keys for scanners, moderators, the CDN, storage and the database, clean and bad files, two runs of one job or one of two, answers of status 200, 422, 429, 503 or none with every kind of body,
  clock to 1. `AnswersHold`: what is named is used or the start is refused; a bad file passes no provider that can be read; a provider that is down costs a try and no job, and is asked once per try; what a transform publishes is served where it may be;
  an upload link lasts as long as it says, and the file is found at its public address. Wording, headers and the arithmetic of signatures are left out: `Signed` holds what is signed.
- Focus "reviews", `MediaReview`: two moderators, one of whom may decide one of the two cases, three operations, two overlaps, a death, two days. `ReviewsHold`: a playbook is on record exactly if the decision demands it, each opening of a case is decided once by somebody who may and under their own note,
  the audit names it, and overdue cases are shown; `DecidedStays`: only a dismissed case changes again, by being reopened.
- Three operations are a decision, a reopening and a second decision, with a race at either decision.

### AdvertLifecycle, AdvertDrafts, AdvertDiscovery

`advert` (status, day of publication, alert days sent), `index`, `media`, `alerts` (unique per advert and day), day counter `today`; `entered` (was the advert's period entered in time, on its last day or when it was over?), `renewed` (is it in a second period of alerts?) and `missed` are history. A tenant's call is `Read`,
`Write`, `ArchiveMedia`, `SyncIndex` (each where the operation has it); the sweep is `List` (the scheduler's, dated today) or `ListDated` (a tenant's own, with the date of its request, `adverts.service.ts:853`), then per advert `Keep` or `Update`, `SweepMedia`, `SweepIndex`,
`Alert`, and `Complete`. The pure date rules are operators of `AdvertPeriod`. A period has 3 days with alerts on days 1 and 2
instead of 40 with 35 and 39: what matters is two alert days, the last of them the day before expiry.

- Lifecycle: one advert, days to 4, publications dated −3, −2, 0 and +1 days from today and renewals −3, 0 and +1 (the client chooses both, `adverts.service.ts:286`, `:501`), tenants' own sweeps dated −1 and +2 days from today, one overlap or one crash (`MaxTrouble` = 1). `RecordAgrees`: alerts that the record counts were sent, in the first
  period of alerts; the index agrees with the record when nobody is between the two writes; files of gone adverts are archived, unless the advert was published or renewed when its period was over already. `SweepIsJust`: an advert entered in time is not deleted before all alerts of its first period, if a sweep ran every day (`~missed`) and the one that deletes it is not dated ahead; what a sweep deletes has
  expired by the date the sweep was given, and only a renewal ends a pause. Sweeps dated back or ahead **before** spoil neither: the warnings are still given. `Expires`.
- Focus "drafts": two drafts (one may be a duplicate of the other or of its advert), two requests, two files, two adverts; a request overlaps or one dies, a sum that the theorem does without. `DraftsHold`: one advert per draft, files in place, the advert is the draft, but for requests that overlap.
- Focus "discovery": two adverts, one saved search, two runs of alerts or rebuilds beside a tenant's change. `DiscoveryHolds`: searches show the live, boosted ones first, alert once, and a rebuild repairs the index.
- Focus "texts", one state: for all words of up to seven letters of the vocabulary, the correction is the nearest known word in Levenshtein distance (against a reference definition); role inference; the scores that the discovery focus uses.

### NotificationOutbox

`outbox` holds a status per channel, which channels have a destination, and the outcomes seen among the attempts; `delivered` and `keys` are the providers'. `Plan` and `Save` are `planAndQueue`, `Find`
is `dispatchOutbox`, `List` is the sweep's reading of the `Limit` oldest open records; `Skip`, `Refused` and `Sent` are one channel's dispatch; `Update` stores the
copy. `Sent` includes a provider that accepted and was not heard. Two records, two operations, in-app without and email with a key, one overlap, one fault: `KeyedOnce`, `DeliveriesOnRecord`, `Retried`.

### AccountDeletion

Requests with their status and due day, what each tenant holds (profiles, adverts, conversations), open sessions; calls `RequestLoad/Save`, `CancelLoad/Save`; the sweep `List`, `Mark`, the erasures, `Revoke`, `Finish`, `Complete` or `Fail`. Two accounts
in two tenants, the erasure of one of which always throws, one call, two sweeps, one overlap, one fault: `ErasureIsJust` (nothing is erased against the user's last word, a completed deletion is whole),
`DueIsSettled`.

### AuthSessions and TenantMembers

AuthSessions: one user's `sessions`, the `challenge`, the recovery `codes` and the authenticator; calls go through the steps of `Steps` (load, count a guess, consume, open a session), closings by a reset or a deletion run beside them. Two calls, two sessions,
one challenge, two sets of one code, one failed guess allowed, one overlap or death: `ResetClosesSessions`; `CodesHold` (a code works once; guesses are at most `MaxFailed` and one for every overlap). TenantMembers: two people, two tenants, two
invites, two releases of the terms: `MembersHold` (members were invited, sessions are of members, an invite is used once, terms are accepted once per release).

### Conversations

The row with status, due time and messages, receipts, blocks; `Change` is an operation's whole read-decide-write in its steps, `Check` the sweep's. A tenant dates checks of its own (`runSlaChecksDated`, one tick ahead of the clock in the run). One call, one sweep, two messages, clock to 2, one overlap or death: `ConversationHolds` (clock follows messages, one warning
per due time and none of a breach before it but by checks dated ahead, receipts and closings not undone), `OverdueIsWarned`.

### Profiles

Drafts with contents, decision and media; versions live or archived; an erasure at any time, and again, after which new drafts may be made (`createDraft` has no check) while the erased ones' ids are `GoneDraft`. Two drafts, two calls, contents that need a review by industry or role, one overlap or death:
`LiveInOrder` (one live version under increasing numbers; whatever was in progress, no version outlives its draft and no erased draft comes back; a live version changes in what is reviewed only as a review approved).

### AnalyticsRollups, AnalyticsReports, PlatformAccess

The rollup table is the set of events its rows count. Two days of two times, two tenants, two refreshes or erasures with any period, two events, one overlap or death: `RollupsAgree` (erased events are not counted again, rows of whole days are the raw events). `ReportsHold`: on all samples of up to three
events a report from rows equals the one from events, and a report counts only what the asker's assignments (sessions with one or two) cover.

### SourceAlerts and SourceSearch

Focus "alerts": one saved search, two sources, one of which matches only by a relationship claim; blocks, one report; two sweeps, two decisions, five calls, one overlap or death: `NoticesAndDecisions` (one alert per match, a notice for each alert of a run that ends alone; decisions on claims, reports and alerts stand), `Alerted`.

Focus "searches": a tenant's searches, feedback, blocks, hierarchy reports and rebuilds over a small catalogue, three of them, one begun during another, failing or dying, with an embedder that is optional, required or none. A search is its steps: the records and hits read, the embedding asked for, feedback read, blocks read, the answer.
`SearchesHold`: an answer has only sources within the filters, none that was blocked or hidden all along, leaves out none that the rules match when it is by the rules alone, is in the order of its scores, and feedback lifts only what was praised and agreed to; the index is whole or empty however rebuilds overlap or die;
a report counts each source and link in its scope once.
The links that approved claims add to records are left out of searches (they are what the alerts are about). Three operations are a change, a rebuild and a search.

## 4. Runs

| Run | Module | Properties | Question |
|---|---|---|---|
| `Workbench` | `MCTaxReturnWorkbench` | `EvidenceBacked`, `RecordsBehindReturn`, `LockedUnderDualControl`, `CorrectionChain`, `GatesHoldAlone`, `TaxesHold` | is the return sound under any interleaving, and gated and final alone? do the tax books add up, and are deadlines alerted? |
| `Invoices` | `MCTenantInvoices` | `InvoiceMoneyAccounted`, `NothingDoneTwice` | do invoice, payments, documents and provider agree, and is nothing done twice? |
| `MobileMoney` | `MCMobileMoney` | `SuccessIsReal`, `AskedIsRecorded`, `RailsHold`, `FollowsFSM`, `CheckoutSettles` | is SUCCESS real, and does the ledger follow the status machine? is what is booked what the rails moved? |
| `Media` | `MCMediaPipeline` | `VerdictIsPublished`, `LockHolds`, `AnswersHold`, `BlockStands`, `JobsFinish`, `ReviewsHold` | is every verdict published, and final? do overlapping workers exclude each other? |
| `Adverts` | `MCAdverts` | `RecordAgrees`, `DraftsHold`, `SweepIsJust`, `Expires`, `DiscoveryHolds` | is deletion warned, exact and certain? do record, index, files and drafts agree? is what is found live and ranked? |
| `Outbox` | `NotificationOutbox` | `KeyedOnce`, `DeliveriesOnRecord`, `Retried` | is delivery kept on record, and repeated only when needed? |
| `AccountDeletion` | `MCAccountDeletion` | `ErasureIsJust`, `DueIsSettled` | is what is erased wanted, whole and settled in the end? |
| `AuthSessions` | `MCAuthSessions` | `ResetClosesSessions`, `CodesHold`, `MembersHold` | do codes work once, are guesses bounded, does a reset close sessions? were members invited? |
| `Conversations` | `Conversations` | `ConversationHolds`, `OverdueIsWarned` | does the clock follow the messages, and is everyone warned once? |
| `Profiles` | `MCProfiles` | `LiveInOrder` | is there one live version, in order and reviewed? |
| `Rollups` | `MCAnalyticsReports` | `RollupsAgree`, `ReportsHold` | do rows agree with raw events, and reports with what may be seen? |
| `SourceAlerts` | `MCSourceAlerts` | `SearchesHold`, `NoticesAndDecisions`, `Alerted` | is every match alerted once and notified, and do decisions stand? |

Deadlock is not checked in any run: all of them have bounds, at which the model, not the system, stops, and a quiet system is
at rest. Symmetry is used where handlers, people or runs are interchangeable and only in runs without liveness.

### Disagreements found

These were met while modelling. The properties above state what holds, so no run is expected to fail; each of these is a behaviour of the model.

Money:
- A locked return is overwritten by a request that loaded it before the lock (`finance.service.ts:1860`); `packages/domain/src/finance.ts:693` says locked periods change by corrections only.
- The request chooses the threshold of the two-person rule (`finance.dto.ts:645`, `:692`: any number from 0), so one person files or corrects any amount alone by sending a larger one, and
  `lockTaxReturn` compares no signatures: `LockedUnderDualControl` promises two people only above the threshold the filing was sent with.
- A retry after a death between the payment record and the invoice charges again (`finance.service.ts:1059`); `ARCHITECTURE.md:252` promises idempotency keys for billing.
- A settlement asks no provider: its body says whether a charge was captured and for how much (`finance.service.ts:1191`, `finance.dto.ts:513`), so the books may show money the provider never took, or deny a charge it made, which is then made again.
- An error of the provider (a 5xx too) is booked as a FAILED payment without the provider's id (`payment.adapter.ts:150`): if the charge was made, no settlement finds it, and the next attempt has a new key and charges again.
- A receipt after a chargeback computes the balance from everything paid; a partial refund reopens the balance and is dunned.
- A refund of several payments goes to the newest payment's rail, and in a deployment with a single rail to that one; the manual adapter "refunds" real payments after a redeployment. Stripe's "pending" refund is booked as REFUNDED. A failed Play acknowledgement is ignored, and so is the amount Play charged. The rest of an invoice that is
  below the provider's unit can never be collected, and rounding up collects up to half a unit too much.
- Two returns of one period count the same snapshots, late snapshots are in no return, an inclusive split may exceed the gross by 0.0001. The approval of a tax profile survives later edits. `Math.ceil` keeps a deadline open until a whole day after it; a `RECONCILIATION_VARIANCE` alert is never closed; refunds in a statement are always missing
  in the ledger; of a reference that is given twice the last wins.

Published content:
- With one `workerId` for all runs, as the scheduler has it, a retry that is claimed at once is published as a final failure; `MEDIA_PIPELINE.md:281` tells the two apart. A call that throws then lets a run end a job that another works on.
- Media that a verdict blocks after `publishDraft` listed it (`adverts.service.ts:276`), before the copies are stored or later, is public: the copy is LIVE with the moderation as it was read, and no job refers to it.
- No alert in a second period after a renewal (unique key at `packages/database/prisma/schema.prisma:585`); `Advertising_SaaS_PRD.md:483` wants alerts before every deletion.
- A tenant may run its sweep with any date (`input.now`, `adverts.service.ts:853`): one dated ahead deletes adverts that have not expired, without the alerts of the days between, and takes scheduled ones live before their day. `SweepIsJust` says what is left: nothing is deleted but by that date, and a sweep not dated ahead deletes nobody unwarned, whatever runs came before it.
- A tenant may also date its SLA checks (`conversations.service.ts:664`): one dated ahead warns of a breach that has not happened, and `hasSlaAlert` then withholds the warning when it does. `NoFalseAlarm` excepts such checks, and `OverdueIsWarned` counts their warnings.
- Dates come from the client: an advert renewed for a later day is LIVE and found at once (a publication would wait as SCHEDULED); one dated so that its last day has come is deleted unwarned; one dated beyond its period is deleted by the call itself, which leaves its files live (`adverts.service.ts:505`).
- A stale write of DRAFT over PUBLISHED gives a second advert. A query that names no role lists every advert, because `RELATIONSHIP_GRAPH` is a reason (`adverts.service.ts:1290`). "logistics" and "makers" never infer their role, since tokens are stemmed first.
- Profiles: nothing stops a draft after an erasure (`profiles.service.ts:69` does not ask), and the erasure ends the sessions of the member who asked for it only (`privacy.service.ts:163`), so another member, or a create in progress, gives the erased tenant drafts and a public profile again: only the erased ones stay away. A transaction is one step, as if serialised: at the default isolation a first publication that commits between the erasure's deletes would keep its version. Version numbers are `max + 1` and race; an edit of a pending change is not reviewed while another draft is live; an upload lifts a rejection.

People:
- An invite is marked accepted before the membership exists (`auth.service.ts:698`, `:778`); nothing revokes an invite; a login goes to the first membership.
- The nightly rollup's default period (`analytics.service.ts:577`) replaces whole days' rows by the events of the last 24 hours, against `docs/ARCHITECTURE.md:309`; an empty-region report counts the whole world, against `docs/IMPLEMENTATION_BACKLOG.md:449`; `UNKNOWN_COUNTRY` is never an answer of `evaluateAccess`.
- Media: a public base URL is read in opposite orders by the storage (`MEDIA_S3_PUBLIC_BASE_URL` first) and the CDN check (`SPACES_CDN_ENDPOINT` first); an endpoint that names its bucket, as in `docs/MEDIA_PIPELINE.md:60`, gives a public address with the bucket twice unless a base URL is given. An answer of ClamAV or Sightengine that is not JSON passes the file, any error of ClamAV and a busy Sightengine are final; a provider `http` without endpoint, or a misspelt one, leaves the development processor, which passes everything; a threshold of 0 is 0.5; variants beyond eight are not checked.
- Reviews: the limit of the list is applied before other countries are left out; the audit names what a second read says, which may be another decision if the case was dismissed and reopened in between; a reopened case keeps its notes, and is due since it was opened first.
- Source finder: any feedback re-sorts an answer by score, whatever order was asked for; a semantic hit outside the filters can empty an answer; full-text hits that no rule scores are dropped; hidden sources are still alerted; an optional embedder that fails during a rebuild loses all embeddings. Alerts of a run that dies or collides with another are never notified; the limit is applied before blocked and known matches are taken out; a claim about oneself is refused only if the labels match too.
- Two saved-search runs of the adverts collide on the unique alert, and the later one dies.

Others are kept as hazards: callbacks that overwrite a terminal payment status; attempts lost when two dispatches of one record overlap; a
reconciliation alert that nothing closes; a payout that stays PENDING; jobs of a dead run that stay RUNNING; records beyond the oldest hundred open ones that are not reached.

## 5. Fairness

- A process that has begun an operation and does not die continues (`WF` on its steps): Node runs every await's continuation.
- The scheduler starts sweeps again and again. `SF` on `List` (adverts, notifications) and on the scheduled runs of each tenant (source alerts) because tenants' operations may come
  between: the cron fires regardless of what they do, so that a sweep that is possible again and again starts in the end. `WF` on `AskForAll` (media), because a run that is idle stays ready to start; the scheduler's
  call names no job type, so the run asks for all of them. AccountDeletion and Conversations state the same of their sweeps in `FairSpec`, SourceAlerts in `Fairness`.
- An orderly mobile-money provider calls back (`WF` on `CallbackFind`); nothing makes a payer confirm, so no fairness on `Decide`.
- A saved search becomes due again (`WF` on `Due`): time passes. A run that a tenant dates ahead (`source-finder.service.ts:307`) makes that wait for the day it gave, which the model does not count.
- Nothing is assumed fair for tenants, providers' outcomes, crashes or lost answers. Liveness therefore excepts what a crash leaves behind (`JobsFinish`), and
  payouts, which nothing can settle (`CheckoutSettles`).
- In the runs with focuses, fairness speaks of the focus it belongs to: in `Adverts` of the lifecycle, in `Media` of the jobs (`Ours`), in `SourceAlerts` of the alerts; in `MobileMoney` no fair action is enabled in the focus "rails".

## 6. What is proved and what is only checked

40 theorems in 8 modules, checked by TLAPS to the last leaf:

| Module | Theorem | States | In words |
|---|---|---|---|
| `TaxReturnWorkbench_proofs` | `TypeCorrect` | – | Every stored value and handler copy keeps its type. |
| `TaxReturnWorkbench_proofs` | `EvidenceIsKept` | `EvidenceBacked` | Filed and remitted returns have their evidence under any interleaving of any number of handlers. |
| `TaxReturnWorkbench_proofs` | `LockIsEarned` | `LockedUnderDualControl` | For any thresholds the requests bring: a locked return is complete, and signed by two people if its tax reached the threshold of the request that filed it, although filing alone may be fooled by a missing reviewer. |
| `TaxReturnWorkbench_proofs` | `CorrectionsChain` | `CorrectionChain` | Corrections form an unbroken, non-negative chain behind a lock. |
| `TaxReturnWorkbench_proofs` | `RecordsBehind` | `RecordsBehindReturn` | For any handlers, actors, amounts and thresholds: a locked return has its complete records under any interleaving, and every correction in the tax ledger is on the return while calls come one at a time. |
| `TaxReturnWorkbench_proofs` | `GatesAlone` | `GatesHoldAlone` | No step of calls that come one at a time approves past an unreconciled period or changes a locked return other than by a correction. |
| `TenantInvoices_proofs` | `InvoiceMoneyIsAccounted` | `InvoiceMoneyAccounted` | For any totals, keys, charges and requests, in both books: the stored invoice is coherent however requests interleave and die; no credit or refund on it lacks its payment, receipt or adjustment if requests come one at a time; if none dies, invoice, payments, receipts, refunds, ledger and alerts agree between requests, whatever settlements say; and the provider agrees with them unless a settlement or an error told the books otherwise than it did. |
| `TenantInvoices_proofs` | `NothingIsDoneTwice` | `NothingDoneTwice` | In both books, of requests that come one at a time, whatever dies, no receipt, payment of a key, document number, reference or stage of dunning comes twice; if none dies, and no settlement and no error told the books otherwise than the provider did, nobody is charged more than the total. |
| `TenantInvoices_proofs` | `LedgerTyped` | – | Types of the ledger in every environment. |
| `TenantInvoices_proofs` | `SuccessIsEarned` | `SuccessIsReal` | No SUCCESS without money moved, for any provider and any number of rows. |
| `TenantInvoices_proofs` | `RowsComeFirst` | `AskedIsRecorded` | The provider never holds a request without a ledger row, whatever dies. |
| `TenantInvoices_proofs` | `ImplementsFSM` | `FollowsFSM` | With an orderly provider the ledger implements the domain's payment status machine, for any number of rows. |
| `MediaPipeline_proofs` | `TypeCorrect` | – | Types of the jobs, the runs and the assets, for any number of runs. |
| `MediaPipeline_proofs` | `LocksHold` | `LockHolds` | Runs never work on one job together and never exceed maxAttempts: whatever dies or throws if no two in progress gave the same workerId, and for the scheduler's one workerId as long as none died or threw. |
| `MediaPipeline_proofs` | `BlockHolds` | `BlockStands` | Blocked media stays blocked, and what is blocked before a publication has read it never reaches the public, for any runs, workerIds and order of results. |
| `MediaPipeline_proofs` | `VerdictPublished` | `VerdictIsPublished` | For any number of runs and jobs: while nothing overlaps, dies or fails, every verdict reaches the draft's asset and its one review case, and no asset is blocked without a verdict. |
| `MediaPipeline_proofs` | `ReviewInvariant` | – | For any cases and moderators, under any interleaving and death: types; a decision in progress passed its gates, and is what its case says until the case is opened again; what a case and its audit say fits its decision. |
| `MediaPipeline_proofs` | `ReviewsSound` | `ReviewsHold` | For any cases and moderators: playbook, note and audit are those of the one decision a case has, every overdue case is shown where the limit leaves room, and what was decided stays. |
| `AdvertLifecycle_proofs` | `RecordKept` | `RecordAgrees` | For any adverts, sweeps, calls, period, alert days and dates: what a record says is so in the alerts and the index while operations come one at a time, and in the files however they overlap. |
| `AdvertLifecycle_proofs` | `SweepJust` | `SweepIsJust` | For any adverts, sweeps, calls, period, alert days and dates: while no day is missed, no sweep but one that its tenant dated ahead deletes an advert entered in time before all its alerts, whatever dates other sweeps were given; a sweep deletes only what has expired by its own date, and only a renewal ends a pause. |
| `AdvertLifecycle_proofs` | `DraftsSound` | `DraftsHold` | For any drafts, requests, texts and limit of files, however requests interleave and die: a draft becomes one advert, an owner's files keep to the limit and to positions of their own, each but for one per request that overlapped; and adverts of requests that come one at a time have their drafts' text and files. |
| `NotificationOutbox_proofs` | `MailedOnce` | `KeyedOnce` | For any records, channels, operations and faults, a keyed channel delivers a record at most once. |
| `NotificationOutbox_proofs` | `TypeCorrect` | – | Rows, the operations' copies of them and the counts of deliveries keep their types through every step. |
| `NotificationOutbox_proofs` | `OnRecord` | `DeliveriesOnRecord` | While operations come one at a time, a channel is recorded as sent only if it was and, without faults, exactly then; for any records and channels. |
| `AccountDeletion_proofs` | `ErasureIsSound` | `ErasureIsJust` | For any accounts, tenants, calls, sweeps and faults: a request that says COMPLETED has erased everything, under any interleaving; and while operations do not overlap, nothing is erased and no session ended but for a deletion that its user asked for GraceDays ago and has not cancelled. |
| `AuthSessions_proofs` | `ResetInvariant` | `ResetClosesSessions` | For any number of calls, sessions and challenges: of calls that come one at a time, a reset or a deletion leaves no earlier session open. |
| `AuthSessions_proofs` | `CodesInvariant` | `CodesHold` | For any number of calls and tries: one-time codes are used once by calls that do not overlap, and guesses at a second factor are bounded by MaxFailed for each overlap. |
| `AuthSessions_proofs` | `MembersInvariant` | `MembersHold` | For any people, tenants, invites and releases and under any interleaving and crash: members were invited, invites are used once, and sessions are of members who accepted the terms when asked alone (`MembersHold`). |
| `NotificationOutbox_proofs` | `ConversationInvariant` | – | For any calls, sweeps, messages and response times: what requests and sweeps hold is sound under any interleaving (a breach that a sweep is about to warn of was past due by the date the sweep was given), and while operations come one at a time, what the one in progress has read is as things stand. |
| `NotificationOutbox_proofs` | `ConversationSound` | `ConversationHolds` | For any calls, sweeps, response times and deaths: between operations that come one at a time the SLA clock follows the messages, nobody is warned twice and no receipt or closing is undone; under any interleaving a warning that an answer is overdue comes after it was due, unless the checks that send it are dated ahead of the clock. |
| `Profiles_proofs` | `ProfilesInvariant` | – | For any drafts, requests, contents and review rules: under any interleaving what requests hold has its sort, and every published version has its draft; while operations come one at a time, at most one is in progress, what it has read is as things stand, and what may be published was reviewed. |
| `Profiles_proofs` | `LiveKept` | `LiveInOrder` | For any drafts, requests, contents, review rules and any number of publications, erasures and deaths: one live version under numbers in order, none outlives its draft and no erased draft comes back whatever was in progress, and a live version changes in what is reviewed only as a review approved. |
| `TaxReturnWorkbench_proofs` | `RollupsInvariant` | – | For any tenants, countries, scopes, lengths of a day and runs: nothing an answered erasure deleted is an event again, and while operations do not overlap, a run in progress has read what there is but for what came since. |
| `TaxReturnWorkbench_proofs` | `RollupsAreRaw` | `RollupsAgree` | For any such values, with runs that die anywhere: while operations do not overlap, no report counts what was erased, and replaced rows are the raw events of whole days. |
| `TaxReturnWorkbench_proofs` | `ReportsArePermitted` | – | For any geography, assignments, sessions and queries: every event a report counts lies within an assignment that is in force, has VIEW_ANALYTICS and came with the second factor if it needs one, but for regions and continents without countries (`ReportsPermitted`, half of `ReportsHold`). |
| `TaxReturnWorkbench_proofs` | `ReportsAreSound` | `ReportsHold` | For any tables of events, queries, periods of whole days, lengths of a day, event types and cut of the ranking: a report made of rows just refreshed has the total, the totals by type, the breakdowns, the ranking and the last times of the report made of the raw events; and reports show what is permitted. |
| `MediaPipeline_proofs` | `SourcesInvariant` | – | For any sources, claims, sweeps and decisions: types; an alert is to be told of by one sweep at most, whatever overlaps; what an operation that is alone has read is so. |
| `MediaPipeline_proofs` | `ToldAndDecided` | `NoticesAndDecisions` | For any sources, claims, sweeps and decisions: a tenant is told of a source once at most, and of every alert if nothing overlaps or dies; of operations that come one at a time, decisions stand and a new alert is for what matches. |
| `TenantInvoices_proofs` | `RailsInvariant` | – | The books of the providers, of the payments on record and of the invoice agree, for any invoices, deployments, redeployments and lost answers. |
| `TenantInvoices_proofs` | `RailsSound` | `RailsHold` | What payInvoice and refundInvoice book is what the rail took and paid back: once, to the nearest unit, never more than it took. |

No theorem has an assumption but the named `ASSUME`s of the modules (`LivesAssumption`, `CallsAssumption`: finitely many calls; `AmountAssumption`, `KindAssumption`, `AttemptsAssumption`, `RecordsAssumption`, `ChannelsAssumption`, `OffsetsAssumption`, `OpsAssumption`, `MediaAssumption`, `AccountsAssumption`, `TimesAssumption`, `ActiveAssumption`, `ScopeAssumption`, `SlaAssumption`, `DraftsAssumption` (finitely many requests), `RailsAssumption`: sorts of the constants; `SamplesAssumption`: tables are finite, times are numbers; `GeographyAssumption`, `CountriesAssumption`, `SessionsAssumption`: every supported country lies on a continent, regions consist of continents, the absent code is none of them, an assignment is of one of the five levels; `OwnerAssumption`, `ScoreAssumption`: every saved search has an owner, scores are numbers, sources and claims are finitely many; `ReviewAssumption`: review cases and moderators are finitely many; `PolicyAssumption`: alert days lie before the last day, as 35 and 39 of 40 do), which TLC evaluates, and,
for `RailsInvariant` and `RailsSound`, `TablesAgree`: for the currencies invoiced, the code's table of decimals gives the provider's unit. It is a
hypothesis and no `ASSUME`, as it speaks of the code's table; the values of the run satisfy it, and a table that does not breaks `RailsHold`, as the mutant shows.
They hold for all values of the bounds. Each follows one pattern: an inductive invariant about the locals of every process, one lemma or step per action, and temporal logic at the end. The invariants:

- **TaxReturnWorkbench.** None of the properties is inductive, because the stored return comes from a handler's copy: `Inv` says that **every copy** is sound
  (`RecordSound`), and what each handler has passed at its `pc` (`HandlerSound`: a handler about to file has evidence in its copy, one about to post has checked the
  lock). `LockedUnderDualControl` rests on one fact that is easily missed: `fileTaxReturn` compares with a missing
  reviewer when the approver died between its two writes, but then the reviewer stays missing and the return cannot be locked. `Books` says that one request at a time is in progress and counts, for every amount, the ledger's entries against the return's corrections plus the one a handler is about to post;
  `Fresh` that a lone handler's copy is what is stored, but for the fields of the write it is making: from it the gates follow.
- **MobileMoney** (in `TenantInvoices_proofs`). `Honest` (a callback in work or delivered tells what the provider did); `Orderly` (for each orderly row: where its request is, what the provider knows and what
  callbacks are on their way determine the status, so that each step is a step of the status machine or a stutter).
- **MediaPipeline.** `Locks` says who may hold which job: a run that stands at a job owns its RUNNING row and is the only one there. A run that cleans up after its processor threw stands there too as long as no database call threw, which is why one workerId for all suffices until then (`Trusted`); `Local` relates a run's locals to its `pc`. For
  `VerdictPublished`: `Recorded` (a block of an asset has a job behind it) and `Lone` (a single run in progress; for every job that ended badly, what the run has still to patch and to file; at most one case per job, and none while the run is on its way to it). `BlockHolds` needs neither: a block is held by the draft, and a publication lists no blocked media; `Copied` says that what is public was listed first.
- **MediaReview** (in `MediaPipeline_proofs`). Everything under any interleaving. `RowSound`: a case is open, or is as its decision says, with the playbook that decision demands; `OperationSound`: a decision in progress passed its gates, and once it is written the case says what was decided **until it is opened again**, which is what the second read for the audit relies on;
  `AuditComplete` counts the entries of the audit and the decisions still to be put there against the openings: no more than were decided, and exactly as many if nobody died.
- **SourceAlerts** (at the end of `MediaPipeline_proofs`). `ToldOnce`, under any interleaving: an alert is to be told of by the one sweep that created it, the unique key lets no other create it, and that sweep forgets it once it has told. `SourcesAlone` is for operations that come one at a time: the links a sweep has read are those of the claims, the source it is about to alert matches and is not blocked,
  a claim or report about to be written is not one that was closed, and an alert of which nobody has been told is one that the sweep in progress will tell of. `First`, a `CHOOSE` of the best result, needs that there is one (`TopIsOne`: the results are finitely many, and no two share a place).
- **AdvertLifecycle.** `FilesFollow` holds under any overlap: the files of an advert that is gone are archived, or a process that will archive them or write the advert back is on its way. The other properties need operations that come one at a time: `Alone` (one in progress, whose copy is the record, although a sweep's listing is as old as its start),
  `Indexed` and `Alerted` (index and alerts are as the record says but for what that operation is about to write), and `Daily`, which makes the warnings inductive over days: an advert has all its alerts counted by the end of its last day **or no sweep has gone past it as of that day**, and a scheduled one goes live on its day. Because a tenant may date a sweep as it likes, `SweptAsOf` counts a sweep by the date it was given, if it can still be that day's: one dated further ahead is over on its date only if a day without a sweep has gone by.
- **AdvertDrafts** (at the end of `AdvertLifecycle_proofs`). That each overlap costs at most one advert or one file too many is not inductive as it stands. `AdvertsCounted` counts the adverts of a draft **and** the requests in progress while any of them may still publish it: together they are at most one more than the overlaps. `Crowded` counts an owner's files beyond
  its positions in the same way for uploads that go by an old list (`Overtaken`); but a duplication repeats the files of its source, which may itself be a copy still in progress, so there is a bound `W` for every owner, increasing along a `rank` (what will be copied has the smaller one), and requests that may add a file count against it. `Matched`, for requests one at a time: what the one in progress has read is so.
- **NotificationOutbox.** The keys of what was delivered are at the provider (`ProviderInv`), statuses of row and copies account for the deliveries (`Accounts`), and exactly (`Exact`) without faults; `Alone` leaves one copy that may differ from its row.
- **AuthSessions.** `Alone` for closings: a lone call's view of the sessions is theirs. `GuessSound` bounds guesses by a potential (`Weight`): every call between reading the challenge and counting its guess may leave one uncounted, and each such call was paid for by an overlap.
- **PaymentInvoices, TenantInvoices.** For each book (`PayInv`, `TenantInv`) three layers. The base, under any interleaving and death: **every copy** of the invoice is coherent, and what stands behind a handler's step (the payment it credits is stored; an adjustment it
  makes fits the net amount of its copy). Alone (no overlap): the one handler in progress has the invoice as stored, what it is about to add or take is counted with what is stored (`ToCredit`, `ToReturn`), and its key, number, reference or stage is newer than all others. Exact (none dies either): the same as equations, and for the payment book, unless `misled`, `TrueAt` and `SentAt` (what is captured and returned is so at the provider) and `BilledAt`: what the provider charges is on the invoice but for one open charge, whose amount fits what is left to pay. `ReceiptsAt` is apart from them, as a settlement that overlaps another may deny a payment that has its receipt.
  Sums over records are `SumSeq`, a recursive function; `Weight` writes a conditional sum as one over weights, and `SumsExist`, `SumStep` and their corollaries say what appending or replacing one record does to it. They rest on `Induct`, induction up to a bound proved from the pigeonhole principle of FiniteSetTheorems, which needs no operator parameter.
- **PaymentRails** (at the end of `TenantInvoices_proofs`). A call and its answer are one step, so `RailsInv` ties three books together: each captured payment names a charge of its amount at its rail (`BookedSound`), what was credited is the total to the nearest half unit (`PaidNearly`) and covers what was charged unless an answer was lost (`ChargedIsPaid`), and while one payment paid,
  what Africa's Talking paid back is within what the invoice refunded (`PaidAtOnce`), as that provider, unlike Stripe, checks nothing. That Stripe answers a repeated refund for its own charge rests on `RepaidSound` (Africa's Talking is only told of charges taken by phone). `Rounding` is the arithmetic of `Math.round` for a unit of any size, with `Quotient` and `Grows` for the products of two variables that it needs.
- **TenantMembers** (in `AuthSessions_proofs`, through the instance `M` of `MCAuthSessions`). `RowsSound` (members, invites and sessions point at each other), `RequestSound` (what a request between two writes owes: an accepted invite without its membership belongs to it or to one that died), `AloneSound`.
- **Profiles.** `Base` holds under any interleaving: what requests hold has its sort, and every published version has its draft, because a write of a request that outlived an erasure finds its row gone (`GoneStays`). `Right` needs operations one at a time: what the one in progress has read (its row, the live version and the next number) is as things stand. `Reviewed` is what makes the review inductive over any number of edits: a draft that may be published differs in nothing that is reviewed
  from its live version **or** from what a review approved last, and an approved draft is what was approved; every edit, upload and decision keeps that because `reviewBaseline` compares with just these two.
- **AccountDeletion**. `ErasedSoFar` under any interleaving: what stands behind a sweep's step has been erased for the row it works on. `Alone` for operations one at a time: a row that may still be executed is its account's last one and has the day its user asked (`RowStands`), what a call has read still holds (`CallSees`),
  and every row on a sweep's list is still due (`SweepSees`).
- **Conversations** (at the end of `NotificationOutbox_proofs`). Under any interleaving, copies and alerts are sound (`CallSound`, `SweepSound`: a breach found is past due by the date its checks were given, the clock's or one still ahead of it, which is `NoFalseAlarm`). Of operations one at a time, a request that has stored its message holds the conversation whose clock is right of the messages
  **with** that message (`CallFresh`), which is what its second write makes true; `SweepFresh`: a sweep about to warn has no such alert behind it. The clock may be wrong after a death between the two writes, which `ClockFollowsMessages` excepts.
- **AnalyticsRollups** (at the end of `TaxReturnWorkbench_proofs`). What an answered erasure deleted is no event under any interleaving, as ids are never used again; alone, the run in progress has counted the events that there are but for those that came since (`RunSees`). That days grow with time (`DaysGrow`, `DayAfter`, `DayBefore`: linear facts about a quotient and a rest by a length that is a variable)
  is why the rows of whole days are just the events of the period. **PlatformAccess** and **AnalyticsReports**, there too: what normalising a scope makes of each level of a query, and that an assignment that matches it covers every event that the scope lists; `ReportsPermitted` is about all geographies, assignments and queries, no induction needed.
  `ReportsAgree` holds because the rows of a scope and of whole days are the rows of the events in it (`RowsInScope`), and because each number of a report sums, over rows, the sizes of parts that divide a set of events (`SumOfParts`, from `SumIs`: the library's fold over a set is any function that adds one element at a time, by a smallest counterexample).

Only model-checked, and why:

- all liveness (`JobsFinish`, `Expires`, `Retried`, `CheckoutSettles`, `DueIsSettled`, `OverdueIsWarned`, `Alerted`): TLAPS proves no fairness or `ENABLED`;
- properties that evaluate texts, statements or rankings by folds: `TaxesHold`, `DiscoveryHolds`, `SearchesHold` (what a fold computes needs an induction of its own for each, as the sums of the invoices did);
- MediaProviders (`AnswersHold`), whose start-up and answers the run tries on every configuration instead.

## 7. Not modelled

- **Leads**: a map of the process with a status a tenant sets in one synchronous step. **Tenant guard, operations, search adapters, catalogue, onboarding, safety, health, audit**: no state of their own, or reads. **Domain library**: the pure functions that the
  modelled services call are operators of their modules; price tables, scoring, text safety and formatting are not. **Database schema**: a constraint that decides an outcome is a guard of the action that meets it. **Persistence**: the modules
  model the Prisma repositories; the in-memory ones, used in development, are the same operations without awaits (the media queue's are in `MediaProviders`, with the choice between the two). **Web application**: what it can send is what any caller can, which the modules enumerate.
- The `now` that a caller may give is modelled for the advert sweep, the SLA checks, publications and renewals. Elsewhere a call goes by the clock: public search (`adverts.service.ts:576`), saved-search alerts (`:690`), dunning (`finance.service.ts:810`), finance alerts (`:875`), the source finder (`:175`, `:307`, `:400`), media runs (`media-worker.service.ts:69`) and an operator's run of deletions (`privacy.service.ts:134`).
- Inside the modelled parts these are abstracted: names, messages, templates, audit
  entries, DTO validation and authorisation that refuses before any write; controllers; dashboards; request building and error texts of adapters; the real-time gateway; attachments; exports. Amounts are small integers, except in `PaymentRails` and `TaxBooks`, where rounding is what is checked. `computedTaxDue` is any of the given amounts in
  the workbench and a sum in `TaxBooks`. Real time is a counter of days or ticks, or absent (backoff of jobs: a queued job may be claimed at any time).
