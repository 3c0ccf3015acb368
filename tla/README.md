# Verification of torii-continuum

TLA+ models of torii-continuum, the TLC runs that check them and the theorems TLAPS proves about
them. The modules sit beside the repository's source; `PROJECT.json` maps every definition to the
lines it models.

    tlc -workers 2 -config BearerPayment.cfg MCBearerPayment
    tlapm Payments_proof.tla

## The system

torii-continuum is a personal assistant an owner runs on a server. A Node daemon (`agent/`)
serves an HTTP API on one event loop; a browser application (`src/`) talks to it; shell scripts and
an Ansible role (`ops/`) install and update it. The daemon holds ecash in files, pays inference
providers with it, stores sealed memories, sessions, projects and team data in files, and signs in
the owner and members by challenges signed with their Nostr keys.

| component | state | operations | what makes it correct |
|---|---|---|---|
| Bearer payments (`core/routstr-payment.mjs`) | one record per turn on disk, `active`, `settling`, `gate`, `recovering` in memory | `begin`, `finish`/`settle`, `recover` timer, `remember` | money at a provider always has a record; at most MAX_PENDING records; no refund of a balance in use; quarantined records untouched |
| Wallet (`core/wallet.mjs`) | a proof file per mint, a mutation lock, quote markers, per-session sets of open quotes | `receive`, `send`/`rollback`/`markSpent`, `createMintQuote`, `checkMintQuote`, `resumeQuote` | no live proof is dropped or stored twice; a dispatched proof is never spendable; a paid quote stays resumable |
| Memory consent (`lib/consent.mjs`, `lib/mutex.mjs`) | a proposal file each, keyed mutex | `propose`, `approve`, `reject` | a rejected text is never stored, an approved one once |
| Memory store (`lib/memstore.mjs`) | a ciphertext file per item, one index per scope, tombstones | `put`, `remove`, retention sweep | what was approved is in the index until deleted |
| Portability (`lib/portability.mjs`) | quarantine files | import, approve, reject | imports become durable by approval only |
| Model routing and chat (`core/model-router.mjs`, `core/routstr.mjs`, `core/ollama.mjs`, `lib/timeout-budget.mjs`, `skills/chat.mjs`) | the candidates, budget, reservation and attempt of a turn; the catalogue | `chat`, failover, fallback, discovery | every turn is answered, within its time and its sats, and what it says of money is true |
| Authentication (`core/auth.mjs`, `core/config.mjs`) | challenges and the admin key in memory, `admin_npub` in config.yaml; tokens are with the clients | challenge, verify, claim, refresh, member sign-in, hand-over, invite claim, swap of a pending token | one owner, and it is the persisted one; a challenge is used once; no renewal passes the sign-in's lifetime |
| Deployment (`ops/deploy-unattended.sh`, the role `ops/ansible/roles/continuum`, `ops/lib/continuum-adopt.sh`) | release directories with the agent's state inside, web root, units enabled and active, the pin | a timer's run: detect, stage, stop, copy the state, swap the trees, publish, start, health gate; rescue | no state is lost or served stale; the agent comes back; a pinned release is served in the end |
| Update requests (`core/updater.mjs`, `ops/apply-update-request.sh`) | request file, pin | request, cancel, apply | a request that waits is applied unless it is cancelled; no downgrade |
| Retention (`ops/torii-disk-retention.sh`) | quarantines, backups, releases | prune | retention keeps what runs and what a rollback needs |
| Teams (`lib/team*.mjs`, `lib/roster.mjs`) | links in one file, a signed member list and admissions per project, both behind serial queues | create, claim, approve, decline, revoke, put, admit | a link admits as many as it was made for; revocation is final; no membership is lost |
| Sessions library (`lib/sessions.mjs`, `src/session-library.js`, `src/chat.js`) | a sealed blob per conversation and an index; in each tab records, threads and a queue of writes | list, read, upsert, remove; load, save, patch, remove, retry | no tab overwrites what it never read; a deletion is not undone by a late save; the index names a blob that is there |
| Projects (`lib/projectstore.mjs`, `src/data/store.js`) | one file of the agent and its mirror in the browser | replace, apply | no lost update |
| Onboarding (`core/onboarding.mjs`, `core/nwc.mjs`, `core/routstr-provider.mjs`, `lib/secretstore.mjs`) | records of the wallet connection, the provider key and the pending quote; the claim's mutex | connect, test, quote, pay, recover, enter, export, disconnect | a paid quote can be claimed until its key is stored; one claim at a time |
| Genesis, GitHub connection (`core/genesis.mjs`, `core/github-connection.mjs`) | manifest, device flow | create, poll | one manifest |
| NPC bridge (`core/npc-bridge.mjs`) | events seen, rate limits | handle, start | one answer per event |
| Browser authentication (`src/auth.js`, `src/data/agent.js`, `src/session-state.js`, `src/main.js`) | the token and marker all tabs share; an epoch, a login attempt, timers and requests in flight per tab | sign in, cancel, sign out, renew, navigate, storage events | no late answer restores an ended session or ends a newer one; a live session is renewed |

The components meet as follows. A chat turn asks the router for a model; for a paid provider the
provider client asks the payment adapter for a balance (`begin`), which cuts a token from the wallet
(`send`), writes a claim through the encrypted record store and posts the deposit; after the stream
`finish` withdraws what is left and imports it (`receive`). Top-ups enter the same proof file
through mint quotes. The browser seals a memory and proposes it; the owner's verdict calls consent,
which calls the memory store. The browser signs in before all that; the onboarding connects a
Lightning wallet and buys a provider key, and keeps both in records of the same encrypted store. The
owner's request for a release is a file of the agent's; the timer's run applies it to the pin, and
copies it with the agent's state. The chat keeps a thread per page and has it sealed and
saved after every message. All handlers share one event loop, so code between two awaits is one
step, and every await is a point where another request, a timer or a crash may come in.

## Modules

| module | models |
|---|---|
| `PaymentCustody` | abstract: where the money of each turn is (wallet, cut, deposited, refunded, credited) and what may be forgotten |
| `BearerPayment` | the payment adapter, the wallet calls it makes and the provider it talks to; implements `PaymentCustody` |
| `Purse` | abstract: which proofs are stored, in hand and given away, as if each operation read and wrote the proof file at once |
| `ProofStore` | the proof file, the mutation lock, `receive`, `send`, `rollback`, `markSpent` |
| `MintQuotes` | extends `ProofStore` with Lightning top-ups; implements `Purse` |
| `MintQuotes_proof` | its theorems, which cover `ProofStore`'s actions too |
| `MemoryConsent` | proposals, quarantine, memory store, keyed mutex, boot sweep |
| `MemoryConsent_proof` | its theorem |
| `TeamAccess` | invite links, grants, join requests, signed member lists and admissions of one project |
| `TeamAccess_proof` | its theorems |
| `Sessions` | challenges, the first claim of the machine, tokens of the owner, of members and of those who wait |
| `Sessions_proof` | its theorems |
| `Upgrade` | abstract: the release in place, what answers, the state, and what a trial would go back to |
| `Deploy` | update requests and their applier; a run of the deployment on each way the machine was installed, the two units and the agent's state; implements `Upgrade` |
| `Deploy_proof` | its theorems |
| `Browser` | the tabs, which the next module and `Conversations` share |
| `BrowserSession` | sign-in, renewal and sign-out in several tabs of one browser, with the requests in flight |
| `Onboarding` | wallet connection and provider key: the quote, its payment, its claim, and what overwrites their records |
| `Onboarding_proof` | its theorems |
| `Register` | abstract: one conversation as a register of versions that a save compares and replaces at once |
| `Conversations` | one sealed conversation: the agent's store, the library and the threads of several tabs; implements `Register` |
| `Browser_proof` | the theorems about `Conversations` and `BrowserSession` |
| `ChatTurn` | one chat turn: router, paid provider, local model, budget, failover and the sats that leave the wallet |
| `Payments_proof` | the theorems about `BearerPayment` and `ChatTurn` |

A module `MC...` for each of them gives TLC the constants. The modules meet in their subjects and
are checked apart (where one module of proofs extends two of them, the definitions of one have a
prefix: `ChatNext`, `SessionNext`): `ChatTurn` takes from `BearerPayment` what a payment may answer
(paid, refused, failed after the deposit) and from its end a refund between nothing and all;
`Sessions` answers what `BrowserSession` lets the agent answer at any time (accepted, refused);
`TeamAccess` decides what `Sessions` takes for any answer. `BearerPayment` is composed with
`PaymentCustody`, `MintQuotes` with `Purse`, `Deploy` with `Upgrade` and `Conversations` with
`Register` by refinement, and `MintQuotes` with `ProofStore` by extension.

### BearerPayment

`store` is the journal of claims on disk; `volatile` groups what a crash erases (`active`,
`settling`, the gate, the recovery pass); `remote` is external: what the mint and the provider hold
and what is on the wire. `Enter` to `Leave` are `begin()`: one caller at a time passes the gate,
lists and reads the records (`ListClaims`, `ScanClaim`), refuses beyond MAX_PENDING or while an
older claim is unsettled (`Scanned`), cuts the token (`SendOk`), writes the claim (`PersistOk`),
posts the deposit (`CreateReply`, `CreateFail`) and rolls back what was never posted (`Rollback`).
`SettleGet` to `SettleRemove` are `settle()`, entered by `finish()` and by the recovery timer.
A deposit may arrive after its caller has given up (`AcceptCreate`), and `Charge` lets the provider
take satoshis during the turn.

The refinement mapping to `PaymentCustody` reads where a turn's money is from the wallet, the
journal and the provider together. Its actions are the promises: money is cut, journalled, then
deposited; it returns by refund and import; a claim is forgotten only when its money is accounted
for.

### ProofStore and MintQuotes

A proof is worth one satoshi and a payment is one proof. `file` counts the copies of each proof in
the proof file, so a duplicate is visible. `lockq` is the chain of promises of `withMutationLock`.
A caller reads the file (`Read` into `snap`), awaits, and writes `snap` changed by its operation.
The mint is external and knows each proof as unissued, unspent, pending or spent.
`MintQuotes` adds the quote marker files (which can be torn, since they are written in place), the
throttle, and the Sets of open quotes, which are named by the call that allocated them because two
first calls of a session build two Sets. `MintReplays` says whether the mint returns the same
signatures for an issued quote, as the comment in the code relies on.

`Purse` is what the lock is for: operations that read the file, await the mint and write the file
back do so as if at once. Its variables are the mint, the proofs in the file (`InFile`), what each
caller has in hand (`Hands`; a token that was posted no longer counts) and what providers were given.
A step stores what one caller has in hand, removes what is spent, or swaps a stored proof for a
payment while the floor stays; a write from a stale copy of the file would be none of them.

### MemoryConsent

A memory text is a model value standing for its ciphertext and digest; `IdOf` gives the item id that
its class and tag determine, so two texts can compete for an id. `at` is where each HTTP request is.
`memstore.put` is three steps (read the index, rename the file, write the index), `remove` four. The
mutex is per proposal, in memory, and released by any return or exception. After a crash the
retention sweep runs before the server listens. A put may be refused at any time: sizes, which the
quotas of bytes count, are not modelled. Audit entries, whose failures are swallowed, are left out.

`VerdictsHold` is about the ciphertext files. The index keeps no such promise: put and remove write
back the index they read, so with two items and one failed write the record of a rejected text, left
by an interrupted approval and deleted since, can come back (without its file). The first finding
about `memstore.mjs` in `PROJECT.json` is this lost update; the quota of 2 lets it happen.

### TeamAccess

`link` is invites.json and `signedAt`, `joined` the file of the project: the list the owner signed
and who was admitted beside it. Both stores run their operations in a queue of their own (`iq`,
`rq`), and a route goes through several of them: a claim finds the link, asks the member list, asks
for a seat, spends the use and admits, so anything may happen between these. The owner's signature
on a grant or on a list is made elsewhere and arrives later, once or again. The unit of time is
longer than a request, so the clock ticks at most once during one. A grant's date may be off by
`Skew`; the shortest link outlasts twice that (600 s against an hour in the code), so `Team.cfg`
takes no skew and two units for a link.

### Sessions

Signatures and MACs are not modelled: `owners`, `members` and `waiting` are the tokens the server
has made, which is what a MAC makes sure of. `since` is the origin a renewal carries along while it
awaits the member lists. `file` is what config.yaml says; `PersistFails` and `Crash` leave it old,
new or torn, for `persistAdminNpub()` writes in place, and `Boot` refuses a torn file. The unit of
time is longer than any request, so a request ends in the unit it began in or, when the clock ticks
once meanwhile, in the next. Whether a member list or a link lets somebody in is any answer here; it
is decided in `TeamAccess`.

### Deploy

`tree` says which release and which write of the agent's state each directory holds: the role's
install (`app`), the standalone one, and the staging, quarantine and failed directories of the run.
The quarantine and the failed directory of earlier runs stay on disk, but no run reads them, so
`Begin` forgets them. `web` is the web root and this run's backup of it. `enabled` and `active` are
systemd's units, and `port` the one whose program answers: a unit starts its program again and again
(`Grab`) until it comes up or is stopped, and releases in `Bad` never come up. `pc` is the play:
`Prepare` (preflight, detection and staging), the cutover from `StopOld` to `Gate`, and the rescue
from `StopNew` to `RestoreWeb`; each rename is a step of its own. `Fail` is any task that returns an
error (`RewriteFails` of the applier), `Killed` the end of the run by its timeout, `Reboot` that of
the machine. `Layouts` are the installs `layout_detect` tells apart.

`newest` is the last write that counts. A rollback returns to the tree that was quarantined, so what
a release wrote while it was on trial is discarded on purpose, and `Restore` takes `newest` back with
it; every other loss would show in `NewestKept`.

An owner's request is a file among that state, so `tree` has it too: `Request` and `Cancel` are the
agent's handlers, and `ReadRequest`, `RewritePin` and `Consume` the applier before a run, which reads
the directory `Spool` only. Runs copy, swap and roll back the request like the rest. The default of
`CONTINUUM_UPDATE_REQUEST` is the standalone install, which no install by the role reads or writes (a
finding); `Deploy.cfg` has it set to the role's.

There are five points from which the code does not recover; they are findings. `Weak` names those at
which a run may be cut off or passed by anyway: `swap` (between two renames), `web` (between the
swap of the trees and that of the web root), `trial` (killed while a release is live that does not
come up), `adoption` (a failure after an adoption promoted its tree) and `cancel` (a cancellation
after the applier has read the request). `Torn`, `Mixed` and `Stranded` are the guards for them;
`web` and `trial` concern an install of the role only. `Deploy.cfg` leaves `Weak` empty and shows
that everything else is safe; adding a point to it reproduces the finding.

`Upgrade` says what all this is for. A new release takes over the state while nothing answers; it is
on trial, with the old release and its state saved; then it is kept, which takes a release that comes
up, or taken back. The mapping reads the release in place from the directory that has it (`InPlace`:
between the two renames of a swap the quarantine, between those of a rescue the failed one) and the
saved one from the quarantine (`SavedTree`). An adoption is not on trial. `NewestKept` lets a rescue
take `newest` back to whatever the quarantine holds; `ImplementsUpgrade` says that this is the state
as it was at the swap, with the release it belonged to, and that nothing else ever takes it back.

### BrowserSession

`stored` is where the one token of localStorage is in its life (`classify`), `marker` the record
beside it, and `inbox` the storage events a tab has not handled. A request in flight is a record of
`calls`. The code keeps the epoch and the token a request was sent under and compares them when the
answer comes; the model keeps the outcome of that comparison (`current`, `same`) and updates it
where epoch (`Superseded`) or token (`Outdated`) change. `armed` counts the timers that will fire,
as there can be more than the one `refreshTimer` holds (`held`). `StartLogin` to `LateAnswer` are a
sign-in, `SignOut`, `StorageEvent` and `Navigate` what the tab does, `TickExpired` to
`OldRefreshRefused` the renewal loop. The agent may accept any request and may refuse sign-ins and
renewals at any time; an ordinary request under the stored token is refused only once that token has
expired. `ended` is history: the tab has ended its session and seen none since.

### Onboarding

`disk` is the three records; a record is overwritten in place, so that a crash, a failed write or
two writes at a time leave it `Torn`. `tasks` is where each request is, `line` the keyed mutex that
only pay and recover take. `invoice` is the provider's and the wallet's view of a quote: a payment
that was sent may succeed long after `routstrPay()` gave up. `Enqueue` to `RemovePending` are pay and
recover; connecting, testing, entering or exporting a key and quoting end in one `Put`, whose value
is fixed when the request begins and written when it ends, which is what makes them overwrite each
other. `claimed` is history.

### Conversations

A sealed version is its number and `content` tells whose messages it holds. `index` and `blob` are
the two files of the agent, written one after the other (`Upsert` or `Unlink`, then `WriteIndex`),
with a failure or a crash possible in between (`Fails`). `record` is what the library of a tab holds
(the digest it will name, the messages it has, locked or not), `thread` what the chat shows, `dirty`
that something was said in it there, and `queue` the chain of writes. A request stays in `requests`
after its tab stopped waiting for it (`heard`): that is a lost answer, a client timeout or a new
sign-in. `SignIn` with and without a sign-out before it differ in what is dropped, as in the code.
`deleted` is history.

`Register` says what the digests and the queue of requests are for: a save that names the version
its tab has read or saved (`known`) replaces it in one step or is refused, takes effect once and
before its answer, and is answered as it went. The mapping reads `current` from the index, so a save
takes effect when the index is written (`WriteIndex`); writing the blob is a stutter, and a request
cut short after it is refused. A request is a call whether or not its tab still waits, and a locked
row is no knowledge: a tab may delete what it cannot read, but not save on it. What is lost when a
request is cut short between its writes is the text (the finding at `sessions.mjs:150`), which the
register does not keep.

### ChatTurn

`cfg` is any strategy, with or without a local model, and either way to pay. `at` is what the turn
is at and `clock` its time; a wait ends when somebody answers, or at the deadline of the timer that
was armed (`Tick` does not overrun it). `offers` are the candidates left, each with the sats its
attempt is estimated at; `allowance` is what the turn may set aside, a ceiling for each of them,
`reserved` what its attempts have set aside, and `out` what providers were given and is not back.
A token is worth what it says, or less when some of its proofs were spent before the turn
(`attempt.worth`): the wallet looks for spent proofs before it makes one, so that most are good.
A provider may refuse any token as already spent, whoever spent it; it may have redeemed it for this
request and lost the mint's answer. The agent then pays the attempt once more, in full
(`AlreadySpent`). Codes that route alike are one (`unavailable` is a 5xx, HTML, a broken or an empty
reply, no connection). A refund is any amount between nothing and what the payment was worth; after a
deposit, that none came back may be told although it did (`Settled`), when its record could not be
removed.

## Runs

| run | question | bounds | result |
|---|---|---|---|
| `bearer_safety` | does the journal always cover the money, and is custody implemented? | three turns, two providers of which one quarantined, one fault, MAX_PENDING 2 | holds |
| `bearer_liveness` | do begin() and settlement always end? | two turns, two faults (a rollback that fails needs two) | holds |
| `top_up` | can interleavings or faults lose or double ecash, and is an operation as if at once? | a payer, an importer, a creator, two pollers, two proofs, one quote, one fault | holds |
| `memory_consent` | are verdicts final, and answered? | two requests, a proposal and a direct text with one id, an import with another, quota 2, one fault | holds |
| `team_access` | do links, grants and lists keep what they promise? | two requests, two people, one link for one person whose id may be used again, lists of at most two people, three units of time, one fault | holds |
| `sessions` | one owner, single use, bounded lifetimes, and do claims end? | two people, two requests, two challenges with room for one, five units of time, lifetimes of one (token) and two (session), one fault | holds |
| `deploy` | does the agent keep its state and come back, is a run a transaction, is a request applied, and does the pin converge? | three releases of which one does not come up, four layouts, two requests or changes of the pin, two writes, two failures, one kill or reboot, `Weak` empty | holds |
| `browser_session` | does an ended session stay ended, a live one last, and renewal go on? | two tabs, one sign-in, one renewal (two in the first tab) and one other request in flight each, one waiting storage event | holds |
| `onboarding` | does a paid quote stay claimable, is it claimed by one request at a time, are requests answered? | two requests at a time, two quotes and a key of the owner's own | holds |
| `conversations` | is the store a register of versions (`Register`), does no deletion come back, and does the index name what is there? | two tabs alike, two messages, two sealings, one queued write per tab, one unheard request | holds |
| `chat_turn` | how far can a turn go in sats and time, does it with deposits pay once and say so, and does it end? | at most two providers, prices below and above the ceiling, units of ten seconds: a turn of 100 s, paid requests of 50 s (45 in the code), the local model's of 60 s, payment, settlement and discovery of up to 10 s each | holds |
| `total_spend` | does the allowance of a turn bound what it spends? | as above | violated |

Every hazard needs two actors at most besides the one that is hit, except the claim limit, for which
three turns compete for two records; hence these sizes. In `sessions` the clock runs long enough for a
session to be renewed to its end, handed over and swapped. In `deploy` two pin changes take a good
machine to a bad release and on to a third, and two failures and a stop can hit a run, its rescue and
the run that follows. Elsewhere one fault reaches every point where a single crash, failed write or
lost reply can strike. Retrying callers may repeat, so recovery
after the fault is covered.

`onboarding` has no bound on faults: writes fail and the process crashes as often as they like. Two
messages and two sealings in `conversations` give a first version, its replacement, and a message that
is in neither; a tab with more than one queued write only repeats the first. `browser_session` lets
the first tab have two loops at a time, which is how the code comes to have two.

`TotalSpendBounded` is what `agent/core/routstr.mjs:783-785` says of the turn's allowance. It is true
with deposits (`WithinBudget`) and false with tokens: the payment that follows a token refused as
already spent is not set aside, and the first is neither asked back nor known to be worthless. The
shortest behaviour is a turn with one candidate, whose allowance is one ceiling: its token is given
away, refused, and given away again. What the code does bound is twice what was set aside, one more
payment for each attempt; that is `WithinBudget`, and a mutant that forgets that the attempt was paid
again breaks it.

That nothing was charged for a turn that timed out or ran out of budget, as `src/src/chat.js` tells
the owner, is true with deposits (`PaidOnceAndTold`) and false with tokens: a token that was sent is
not taken back, and the refund that is asked for may not come. This finding has no run of its own.

`PROJECT.json` lists further divergences, most of them with the behaviour in the model but without a
run of their own, because the promise is a comment's or a document's and the code does something
else: an unsettled older claim that `begin()` skips, the limit of open quotes, an index of memories
written back over an overlapping put, the cap on people, the installation an adoption leaves behind,
a release that cannot revert itself after a kill, a second renewal timer, a broadcast that ends a
newer session, a quote overwritten while it is paid, a conversation overwritten by a thread its
history was never merged into, a local model that is not asked when no provider is in reach, a
requested release that is older by the time it is applied, and others. Where a property speaks of
fewer cases than the comment does, the finding says which (`OldClaimsBlock`, `EndedForReason`,
`PaidStaysClaimable`, `DeletedStays`, `WithinBudget`).

## Fairness

The event loop runs every continuation, so weak fairness holds for each step of a call in progress,
and a lock queue is served in order. Fetches end by their timeouts. `bearer_liveness` also assumes
that the provider eventually answers some request (strong fairness of its replies) and that the
recovery timer fires. `top_up` assumes that the page, or the owner who resumes, polls again and
again and that the mint answers some of these polls. `memory_consent` assumes that file operations
settle. `sessions` assumes that the write of config.yaml ends, with or without success, and that the
code after it runs on (`Fairness`); a claim also ends when the process does. `deploy` assumes that
the timer starts a run and that a run goes on, and that a unit whose program can come up does so if
it is active again and again (strong fairness): a start takes seconds, and a run stops a unit at
most every five minutes. `browser_session` assumes that timers fire, storage events are delivered
and requests are answered or time out; nothing of the owner or the signer. `onboarding` assumes that
every await of a request returns, since calls to wallet and provider have a time limit. `chat_turn`
assumes only that the turn goes on (`WF(Next)`): time may pass until a timer that is armed fires,
and its bounded waits are the bound `Wait` of the wallet and the provider, and the code's own time
limits. Faults are bounded, or stop no request from being answered, in every run: once they stop,
the liveness properties must hold.

## Proofs

Every safety property of the passing runs is proved: invariants and action properties alike.

`Payments_proof` proves of `BearerPayment`, for any set of turns and providers, any quarantine and
any bound:

* `TypeCorrect`, the types, and `MoneyCovered`, `CustodyBounded`, `RefundExcludesUse`, the invariants
  of `bearer_safety`;
* `OldClaimsStop` (`OldClaimsBlock`) and `QuarantineHolds` (`HeldClaimsKept`), action properties;
* `Implementation`: every behaviour is one of `PaymentCustody`.

The invariant `MoneyHasClaim` is not inductive: that a posted deposit has a record depends on where
`begin()` is, on which caller holds the gate, and on which settlement may remove the record. The
strengthening relates these: at most one caller is past the gate and it is the gate's head, a claim
under settlement belongs to no active turn and to no quarantined provider, and each location of
`begin()` fixes which of wallet, journal and provider have the money. Each action is then one lemma
with one step for each conjunct it can disturb. The only assumptions are those named in the modules
(the sets of callers, finiteness of turns, the provider of each turn).

`Sessions_proof` proves, for any people, requests, challenges, lifetimes and bounds, the four safety
properties of `sessions`: `ChallengeOnce`, `OneOwner`, `OwnerLifetime`, `MemberLifetime`, and its
type invariant, `TypeCorrect`. They come from one inductive invariant of four parts. `Unused`: a
challenge in the Map was made and has let nobody in. `ClaimInv`: there is at most one claim under
way, it is its claimant's, nobody has an owner's token before it ends, and while the machine runs
and has an owner the file names that owner. `RequestInv`: a request carries a signature of this unit
of time or the last, or the origin of the token it renews. `TokenInv`: each token's origin is a
signature, for a member's at most the time of a pending token earlier. The properties alone are not
inductive: that a token served is for the owner on file holds only because no claim can begin once
there is an owner, and that a renewal stays within bounds because the token it starts from does. The
assumptions are that a torn file is no name and that the session lifetime is at least that of a
token, which `loadConfig()` enforces.

`Payments_proof` proves of `ChatTurn`, for any prices, ceiling, number of candidates, budget, slices
and waiting times, the two invariants of `chat_turn`: `Within` and `PaidOnce`. Neither is inductive.
What a turn can spend needs to know at which places the sats of the attempt under way are still to
go, once or twice, and whether the attempt was paid again (`Sats`), and that what it set aside is
within the allowance (`Reserve`). With deposits nothing is paid again, so that the bound is what was
set aside; with tokens it is twice that. That a paid call ends in time needs the time its payment
began (`Time`). That the answer tells what was paid needs, for every place of the turn, whether the
deposit has been made and what code its attempt can carry (`Deposits`): after a deposit the code is
never one that is tried again, so that no further payment nor the local model can follow. The
assumptions are that the constants are positive and that a turn has time for one attempt
(`ChatAssumption`).

`Onboarding_proof` proves, for any number of requests and quotes, `OneClaim` and
`PaidStaysClaimable`. The inductive invariant has three parts. `LineInv`: the line holds those that
pay or recover, each once, and only the first of them is past the mutex. `TaskInv`: what each request
has in hand at each of its steps. `QuoteInv`: a quote is put on record once, by the request that asked
for it and before anyone pays it; so a request that replaces the quote of a claim under way replaces
it by one that has not been paid. The assumption is that no quote is a place (`Names`).

`MintQuotes_proof` proves, for any callers, proofs, quotes and bound on faults, `ProofsAccounted`
(`AllAccounted`), `PaidIsResumable` (`PaidResumes`) and `ImplementsPurse` (`AsIfAtOnce`) of the wallet
with its top-ups, and `NothingDropped` (`NoneDropped`), what `Purse` says of each write of the file. A
write is a step of `Purse` only if the writer's copy of the file is the file, and that comes from the
lock. Reading, queueing and marking are stutters, a failed write or a crash is `Lose`, and the floor
holds since what a payment may spend is in the file (`PaysFromFile`). The inductive invariant has, besides the types, five parts. `LockInv`: the queue
holds those that wait for the lock or are inside, each once, and only the first is inside. `SnapInv`:
what a caller inside has read is what the file holds, less what it saw spent. `HandInv`: what a caller
has in hand is fresh proofs nobody else has, proofs handed to a provider, or the proofs of a quote.
`ProofInv`: where a proof can be by what the mint knows of it; one that is pending at the mint is
still in the file. `QuoteInv`: the proofs of a quote exist exactly when it is issued, a quote is shown
only after its marker is on disk, and a poller writes `minted` only when the proofs are stored. The
assumptions are that callers are of the kinds named, that there are finitely many proofs, and that
each quote has a proof of its own.

`MemoryConsent_proof` proves `VerdictsHold` (`VerdictsAreFinal`) for any requests, texts, ids, quota,
failed writes and crashes. A write of a text is the step of a request that has read a proposal as
pending some awaits ago, so the invariant has to say that it still is: the mutex's queue holds the
requests about the proposal, each once, and only the first of them is past the mutex (`QueueInv`),
such a request finds the proposal pending at each of its steps (`OpenInv`), and a rejected proposal
is gone (`GoneInv`). The assumptions are that texts of the three kinds, ids and `Nothing` differ.

`TeamAccess_proof` proves, for any requests, people, links, uses, seats and faults, `LinkServesAsMade`
(`ServesAsMade`), `RevokedForGood` (`RevokedStays`) and `MembershipKept` (`NobodyIsLost`). None is
inductive. A save writes what its request worked out from the file some steps ago, so the invariant
says that this still follows from the file (`DraftOK`), which holds because each file's queue has its
writers once and only the first of them writes (`Lines`). A use is spent in one file and the person
admitted in the other, so `UsesInv` counts, with those let in and the uses left, the claims between
the two (`Flight`). That a link serves once per grant needs its dates: until a link that was made by
a grant is gone the id is taken, and when it is gone the grant is too old (`LinkInv`, `CreateOK`,
`TimeOK`). The assumptions are that there are finitely many requests (`CallersFinite`) and that a link
outlives the time in which its grant is good (`GrantsExpireFirst`: an hour against 600 s on either
side).

`Browser_proof` proves of `Conversations`, for any number of tabs, messages, versions, queued writes
and lost requests, `IndexNamesBlob` (`RequestsDoNotMix`), `ImplementsRegister` (`OneRegister`)
and `DeletedStays` (`DeletionStands`). The comparison is made one step before the write that takes
effect, so the invariant has to say that the request between its two writes is alone and that the
index is still what it found (`Between`). Calls are records, and two requests that looked alike would
be one call: no two do (`Distinct`: two saves are of two versions, a tab has one delete under way), so
replacing a request replaces its call and no other (`OneToOne`, `CallBecomes`). Only an answer says
that a request went through (`AnswerInv`), and a tab waits for one save at a time, the one at the
head of its queue (`RequestOK`). One lemma for each kind of step then shows it to be a step of
`Register` or a stutter.

`DeletedStays` needs a second invariant, `DeleteInv`: a tab deletes what it has a record of and keeps
that record until it is told that the conversation is gone, so every save it still waits for names a
stored version, which the agent refuses when there is none. The property speaks of a conversation the
agent no longer has: where another tab has stored it again while a delete is under way, the deleting
tab can load that one and save its own messages on top, which is the finding at
`session-library.js:114`. A tab has one delete under way in the model.

`Browser_proof` proves of `BrowserSession`, for any number of tabs, requests in flight, timers and
events, `SignedOutStays` (`SignedOutForGood`), `RenewalPending` (`LoopAlive`) and `EndedForReason`
(`EndsForReason`). `SessionInv` adds to the types what the answers of requests depend on. `TimerInv`:
a tab that holds a timer or means to keep a session has one armed, and one that renews has the request.
`CurrentInv`: a renewal whose epoch is still the tab's belongs to a tab that has not ended its session.
Both are about requests sent long before; each step marks the requests of its tab (`Superseded`,
`Outdated`), and the lemmas on these say that marking makes no request current again and loses none.

`Deploy_proof` proves, for any releases, ways of installation, pins, writes, failures, kills and
reboots, `NewestKept` (`StateSurvives`), `NothingToDo` (`WebFollows`), `RequestKept`
(`RequestsStay`) and `ImplementsUpgrade` (`UpdateIsTransaction`). None is inductive: what a rescue restores depends on which directory holds what
when the run failed. So the invariant `DeployInv` says for every place of the play where it is and
what it has swapped (`PlayInv`), which directories have the newest state, the staged copy or what a
rollback needs (`StateInv`), which unit may run (`UnitInv`), and that a machine the role does not
own is not asked for a release that does not come up (`BadInv`). `WebInv` relates the web root and
its backup to the trees, `RequestInv` the request to its copies, and `TrialInv` the writes to the one
a rescue would go back to; with `TrialInv` each step is a step of `Upgrade` or a stutter (one lemma
for each kind of step). Each theorem names the points of `Weak` it excludes, and these only: `swap`
and `adoption` for all four, besides `web` for `WebFollows`, `cancel` for `RequestsStay` and `trial`
for `UpdateIsTransaction`.
The assumptions are that releases are numbers and the other names are none (`TagType`, `NoTree`),
that the bounds are numbers and one write is allowed, the one the machine starts with (`Numbers`),
and what `Choices` says of the request's place and of `Weak`.

Liveness (`BeginReturns`, `ClaimsSettle`, `PaidIsMinted`, `VerdictReturns`, `ClaimEnds`, `ComesBack`,
`Converges`, `RequestsReturn`, `TurnAnswered`) is model-checked only: TLAPS does not do liveness under
fairness. `TotalSpendBounded` is violated, by its own run.

## Not modelled

Cryptography, encodings, amounts and keysets (a payment is one unit; in `ChatTurn` sats are numbers),
the text of messages and logging.

By module: in `BrowserSession` the signer and its challenge are one wait that changes nothing, and
the cookie, the back-forward cache, the suppression of repeated events within milliseconds and the
keys that are scoped by owner are left out. `Onboarding` leaves out status reads, the model list, the
NWC invoices and the recovery kit. `Conversations` has one conversation: quotas, a corrupt index and
the order of the list are about several; titles and pins travel with the messages. A load reads and
unseals row after row, and is one step here (`Read`): what it read may be older by the time the
library has it, which a save finds out by its digest. `Deploy` has no step of the rescue that fails:
the role goes on after one (`failed_when: false`), so that a rename or a `systemctl` that fails while
a failed cutover is undone can leave what the properties rule out. `ChatTurn` has the
catalogue as any list of candidates: its cache, its background refresh and the formula of an estimate
are not in it, nor is the stream to the browser.

Not modelled at all, with the reason in `PROJECT.json`: the HTTP server's routing and validation, the
project store, retention, the NPC bridge, prompt assembly and reflection, audit
and events, views, installers and operator scripts. The project store, retention and the bridge have
state worth a model and are in the plan; the others take no decision that a later step reads.

About 60,000 of the repository's lines of JavaScript are three.js and a preview build under
`preview-assets/`, vendored and never changed here; no share of them can be mapped.

## Plan

1. `ProjectStore`: the browser's mirror of the project file and the agent's replace and actions.
2. What retention may delete (`ops/torii-disk-retention.sh`), with the directories of `Deploy`.
3. `NpcBridge` (replays, rate limits, reconnects) and `TeamSignals` (chat records and group info).
4. Theorems about these, when they are written.
