# A verification of okaiwa-server

TLA+ models of the parts of okaiwa-server that keep state or decide on it, TLC runs
that check them on small instances, and TLAPS proofs of every safety property and every
refinement the passing runs check, for every value of the constants. Paths below are relative to the repository's `src/`.

## 1. The system

okaiwa-server is the back end of an end-to-end encrypted messenger. It is four
independent AdonisJS services; they call each other nowhere and share no
database. What couples the parts of one service is its store (Redis, Postgres,
or the memory of the process) and the fact that a Node process interleaves
handlers at every `await`. What couples the identity service and the relay is a
token: the one signs it, the other believes it, each by its own clock.

| part | state it keeps | operations that change it | models |
|---|---|---|---|
| relay: message queue (`message_queue_service.ts`, `message_relay_controller.ts`) | Redis: `msg:{id}` (a blob with `enqueuedAt`, TTL), `inbox:{device}` (a ZSET of ids scored by `enqueuedAt`, TTL) | `enqueue` (MULTI of SET, ZADD, EXPIRE), `dequeue` (ZRANGEBYSCORE, GET per id, ZREM), `purge` (DEL) | MessageQueue |
| relay: rate limiter (`rate_limit_middleware.ts`) | Redis: `ratelimit:{device}:{window}` | INCR, then EXPIRE when the counter is 1 | RateLimit |
| relay: device authentication (`device_auth_middleware.ts`) | none (a signed token) | - | Sessions; in RateLimit as a guard, the public path and the age limits of a token |
| relay: WebSocket stub, validators, error handler | none | - | not modelled |
| identity: pre-keys (`key_controller.ts`) | Postgres `pre_keys`: a row per key id, four kinds of key, `consumed` | `uploadPreKeys` (up to four `createMany`), `fetchPreKey` (two `UPDATE ... FOR UPDATE SKIP LOCKED`) | PreKeys |
| identity: registration and verification (`auth_controller.ts`) | Postgres `accounts` | `register` (read, INSERT), `login` (read), `verify` (read, UPDATE, two tokens) | Accounts, Sessions |
| identity: profiles (`profile_controller.ts`) | Postgres `profiles`, `accounts.username` | `update` (five statements); `get` and `me` read | Accounts |
| identity: discovery (`discovery_controller.ts`) | none; reads one or both tables, a statement each | - | Accounts, Sessions (by phone) |
| identity: session middleware (`session_auth_middleware.ts`) | none (a signed token) | - | Sessions; in Accounts as the set of accounts with a token |
| blockchain: balance cache (`balance_controller.ts`) | a `Map` in memory, TTL 30 s, pruned above 10,000 entries | `getBalance` | ChainProxy |
| blockchain: providers (`chain_provider_service.ts`) | one round-robin counter per chain | `getEndpoint` | ChainProxy |
| blockchain: RPC proxy (`rpc_proxy_controller.ts`) | none of its own | takes a provider per request | ChainProxy, that effect only |
| push service | none; stubs | - | not modelled |
| start-up, routes, environment | none | - | not modelled |

### What is hard, and what makes each part correct

*Message queue.* Handlers of senders, polls and acknowledgements interleave
between Redis calls; two kinds of key expire on their own; an acknowledgement
deletes the blob and leaves the reference for a later poll; ids are sent again by
clients that saw no answer; handlers die; Redis keeps nothing over a restart.
Correct means: a stored message stays reachable, a poll's answer is complete and
in order, an acknowledgement destroys exactly one stored copy, messages get
delivered by polling, and stale references go away.

*Rate limiter.* A request fixes its window, counts, and compares what it was told, with
awaits in between; the key of the window expires on its own and gets its TTL in a
second call; a request for `/health` needs no token and counts for the device it names. Correct means: no window lets more requests pass than the limit of
their route, no request is turned away before so many named its device, Retry-After leads to a new
counter, no counter stays for ever.

*Pre-keys.* Fetches race for the same one-time keys, uploads insert in up to
four transactions and race for the same key ids, wait for each other's rows and
may deadlock; the four kinds share a table and a unique index. Correct means: a
one-time key serves one session, no fetch falls back while keys are left, the
signed pre-key of a bundle is current, an accepted upload is stored as a whole,
every request ends.

*Accounts.* Handlers read rows, assign to copies and save awaits later; a reader
combines two reads. Correct means: updates of different fields do not undo each
other, nothing is found that is not verified, visibility is respected.

*Sessions.* A client registers, logs in, verifies, and then sends one of two tokens of
the same form to one of two services that look at nothing but the token. It loses
answers and starts again at another place than its account is at; two attempts of
its own may overlap; both ages are rounded to seconds, and the two clocks differ.
Correct means: one account for a phone, tokens that act for the account of their
owner and are good for as long as they should be, and a client that always gets in.

*Balance cache and providers.* The look into the cache and its filling are an
await apart; answers arrive out of order; a counter is shared by all handlers.
Correct means: equal shares for the providers, a bound on the age of a cached
balance, one TTL without requests after each stored answer, a bounded cache.

`PROJECT.json` lists every hazard at its line with the property that covers it.

## 2. Modules

Six modules model the code; each has an `MC` module with the values of its
constants for TLC and a `_proofs` module with theorems. Four abstract modules, Mailbox,
KeyPool, Fields and Quota, state what four of them promise. All modules
take the store's atomicity as it is: a Redis command or MULTI block, a Postgres
statement, a stretch of JavaScript between two awaits is one action. History
variables, marked as such, record what a property needs and restrict no step.

**MessageQueue.** `stamp`, `blobExp` are `msg:{id}`; `score`, `inboxExp` are
`inbox:{device}`; `sPc`, `sMsg`, `sNow` are the locals of a send handler, `pPc`,
`pDev`, `todo`, `out`, `expired` those of a poll. A message id names its
recipient (`Recipient`), since clients draw it per envelope. `SendBegin` is
`enqueue` up to the MULTI block (it reads `Date.now()`), `SendExec` the block,
`SendAccepted` the publish and the 202. `PollList` is ZRANGEBYSCORE, `PollGet`
one GET of the loop, `PollClean` the ZREM, `PollRespond` the answer.
`Acknowledge` is the single DEL of `purge` and takes any id, as the code does; `Next`
says who calls it: a client acknowledges what it received, any number of times. This is an
assumption about clients, as neither the controller nor `purge` compares the id with the caller. `SendFails`, `PollFails` and `RedisRestart` are the
failures, `Tick` time with expiry. Equal scores are ordered arbitrarily.

**Mailbox** is the abstract queue: `copy` and `until` of a message, polls that
take messages one at a time, and the debt `owed` a poll enters when it begins. It
knows no references, no second TTL, no clean-up and no failed handlers. `Close` is
possible only with the debt paid and the answer in order; a copy goes away only by
`Destroy` (of a delivered message), `Advance` over its time, or `Wipe`.
MessageQueue implements it (`ImplementsMailbox`): the blob is the copy, the poll's
`out` what it got, `pPc` whether it is open, `Owed` its debt; `SendExec` is `Put`,
`Acknowledge` is `Destroy`, `PollList` is `Open`, a `PollGet` that finds its blob is
`Take`, `PollRespond` is `Close`, `PollFails` is `Abort`, and everything else
stutters, the clean-up of references included. For ids that are sent again the
mailbox keeps the latest copy and promises no poll anything.

**RateLimit.** The middleware chain of the relay (`start/kernel.ts`) for the requests that name
one device: two devices share no counter. A request names it by its token, or, on a public path
(`Public`, which is `/health`), by an `x-device-id` header that no middleware checks; `Passes` lets both through
to the counter, so clients without a token use up the same allowance, and `arrived` counts them. `count`, `expiry` are the key of a window, `win`, `cur` the
locals `windowTimestamp` and `current`. `Begin` is everything up to INCR,
`Incr` and `SetExpiry` the two Redis calls, `Admit` and `Reject` the rest of the
handler; `Fails` loses a handler before an answer, `RedisRestart` loses all keys,
`Tick` is time with expiry. `Fresh` is what `verifyToken` asks of a token's date.
`lost` records the windows Redis may have forgotten: it restarted, or a handler
called INCR later than `Slack` after the end of its window. Nothing more is assumed
about how long a handler takes.

**Quota** is the abstract limiter: `Ask` gives a request its window, `Judge` counts it
and decides about it in one step, `Tell` tells a refused one when to come back, which is
in a later window and at most a window ahead, `End` ends it at any time. Counts
of a window stay until the window and a grace period are over (`Advance`) or the
store is wiped. RateLimit implements it (`ImplementsQuota`): `used` is `count`, the grace is
`Slack`, `Incr` is `Judge` (the handler has not compared yet, but what it will find is
settled: `Stage`), `Admit`, `Answer` and `Fails` are `End`, `Reject` is `Tell`, `Tick` is
`Advance`, `RedisRestart` is `Wipe`, and `SetExpiry` stutters. So a late INCR that starts
a window's count again does so only when the grace is over.

**PreKeys.** One account's rows: `kind` and `consumed` per key id, `writer` for
rows of an open transaction, `lock` for row locks. An upload (`uPc`, `batch`,
`rest`, `cur`) goes through the kinds it has keys of; each INSERT waits for an
open transaction that holds its key id, fails on a committed one
(`UploadConflict`, which undoes the current step but not the earlier ones) and
may be the victim of the deadlock detector (`UploadDeadlock`), when it is on a circle of
uploads of any length that wait for each other (`WaitsFor`, `Circle`). A fetch reads the signed pre-key,
then per pool locks (`FetchLock`) and consumes (`FetchConsume`) the lowest free
key or finds none (`FetchNone`), reads the last-resort key when it has no Kyber
key, and answers. `FetchFails`, `UploadFails` end a request between any two
statements.

**KeyPool** is the abstract store: two pools of keys, `Supply` adds new keys to one of
them at once, `Serve` takes a key in one step, and `Miss`, going without, is allowed
only while there is for each key left a rival request of its own that may take it.
PreKeys implements it (`ImplementsKeyPool`): a pool is the committed rows of its
kind, a key is taken when `consumed`, and the request has tried the pools its place
is past. `UploadCommit` of a one-time kind is `Supply`,
`FetchConsume` is `Serve`, `FetchNone` is `Miss` (the rivals are the
fetches that hold the locks it skipped), and locks, waits, conflicts and deadlocks
stutter.

**Accounts.** `phone`, `name`, `verified` are the account row, `profile` the
profile row with visibility and wallets. `register` is `RegisterCheck` and
`RegisterInsert`; `verify` is `VerifyFind`, `VerifySave` and `VerifyToken`; `update` is
`UpdateBegin`, `UpdateCheckName`, `UpdateSaveName`, `UpdateReadProfile`,
`UpdateSaveProfile`, `UpdateAnswer`. A profile has a visibility, wallets and, as one column,
`details` (display name, biography, avatar). Lucid's `save()` is `Saved`: it writes the
columns that differ from the copy the handler read. Readers are `FindByName`
(of `get` and of the username search), `FindOwn` (of `me`) or `FindByWallet` with a
second read each, and `FindByPhone`, which is one read; `shown` and `detail` are the wallets and
details they answer with. The history `relied` is the visibility an owner may rely on: that of the last update that was
answered 200, as long as no update that sends one is under way. `during` collects, for a reader,
what was relied on while it ran (`Rely`).

**Fields** is the abstract store of profiles: each field of an account, the username
among them, is a register. An update begins, sets each field it sends once, some of them
together and some at other moments, is answered when all are set (`state` "ok"), or ends
before; an account is entered with its username. Accounts implements it
(`ImplementsFields`): `Fields` reads the two rows as one record, with the defaults of the
table where there is no profile row; a field an update sends is set (`Done`) when the
save that writes it commits, or, when the copy already has the value so that Lucid will not
write it, when that copy was read. `RegisterInsert` is `Enter`, `UpdateSaveName`,
`UpdateReadProfile` and `UpdateSaveProfile` are `Write`, the ends of `update` are `End`;
verification, tokens and readers stutter. As a whole, updates are not atomic: two that overlap
can leave a mixture of what they sent, and one that fails can leave its username.

**Sessions.** The same `accounts` table as in Accounts, reduced to `phone` and
`verified`, with what surrounds it: `pc`, `who`, `acc` are the locals of a handler of
`register`, `login` or `verify`, `made` the `Date.now()` of its tokens. `RegisterNew`,
`RegisterKnown`, `LoginKnown`, `LoginUnknown`, `VerifyFind`, `VerifyDenied` are a handler up to
its first read, `RegisterInsert`, `VerifySave` and `Mint` what follows, `Answer` the answer;
`HandlerFails` loses a handler between two statements. `ValidCode` is
`validateSmsCode`: only the development bypass makes a code good. A token has a kind
(account or device id), an owner, the secret of its hmac and a date; `Accepts` is
`verifyToken` of both middleware, with the age limit, the tolerance and the secret of
the service; `Admit` and `Refuse` are their outcomes. `clock` is the identity
service's clock in ticks, `Sec` of them to a second, and the relay's is `ahead` of it,
by anything in `Drift`, which may change. The clients are not in the repository;
their behaviour is external and as the comments of the controller describe it: they
begin with registration or login, go to login on 409, to registration on 404 and to
verification on 201 or 200 (`step`, `After`), wait for one answer at a time
(`waits`), may give up on it while the handler runs on (`GiveUp`), keep what
verification gave them (`held`) and log in again when they like (`LogInAgain`: the
refresh of the controller answers 501).

**ChainProxy.** `cachedAt`, `balance` are the cache, `counter` is
`roundRobinCounters`, `asked` counts the requests each provider got.
`BalanceHit` and `BalanceMiss` are `getBalance` up to its fetch, `ProviderReads`
is the provider's side, `BalanceStore` is everything after a good answer (store,
prune, answer), `BalanceError` the 502 and 503. `Forward` is every other handler
that takes a provider. A balance is represented by the tick at which it was
read. `getBalance` gives `fetch` no timeout and no signal, so `Tick` waits for no request: a
fetch lasts as long as it lasts, and the history `sentAt` keeps when the request behind an entry was sent. `Endpoints` is the filter of `configureChain` over the listed providers.

## 3. Runs

| run | asks | instance |
|---|---|---|
| mq_polls | is a message sent once always reachable, is a poll's answer complete, is the queue a mailbox? | two polls of one inbox, one sender, two ids, each stored up to twice, TTL 1 |
| mq_retries | do TTLs, acknowledgements and FIFO survive retries and failures? | two senders, one poll, TTL 2 so that keys expire at different times, one failure or restart |
| mq_liveness | is every message delivered, is every stale reference removed? | one sender, one poll, one failure, fair polling |
| mq_strand | is blob-and-reference an invariant, as a comment says? No (section 6) | one sender, one poll |
| pk_uploads | do uploads that race keep the table whole and never stand still, and does every request end? | two uploads with overlapping key ids, one fetch, fairness |
| pk_fetches | do fetches that race serve each key once, exhaustively and currently, is the store a pair of pools? | two fetches against one upload that refills and rotates |
| ac_updates | do updates keep each other's fields, do answers respect verified and visibility, is each field a register? | one account, one username, two updates at once with three bodies (visibility "private"; wallets and details; username and visibility "contacts"), one reader, one registration, one verification |
| ac_visibility | are the details of a "contacts" profile kept from readers, and a "private" one hidden, as comments say? No | one account, one update to "contacts" with details, one reader |
| se_tokens | does a client have one account, tokens that are good for it and as long as they should be, and does it get in? | one client, two handlers, one request with a token, two rows, a right and a wrong code, seconds of two ticks, age limits and tolerance of one second, the relay 3 ticks behind or 1 ahead, one failure, fair clients |
| rl_limits | do the limits hold across windows, expiry and failures, are rejections justified, is the limiter a quota? | two requests at once on two routes with limits 2 (public) and 1 (with a token), two windows of two ticks, Slack 1, two tokens |
| ch_cache | shares, ages, shield and size of the cache | two handlers, two addresses, two of three providers usable, TTL 2, prune above one entry, fetches as long as the run, which is two TTLs |
| ch_window | one request per address and TTL, as a comment says? No | the same |

**Bounds.** `MaxTime`, `MaxExec`, `MaxFail` (MessageQueue), `MaxTime`, `MaxAsk`
(ChainProxy), `MaxTime`, `MaxArrive` (RateLimit), `MaxTime`, `MaxFail` (Sessions) only make the state space finite; each appears in a guard of the
environment or of an arriving request. They leave room for the cases that
matter: an id is stored twice (a retry), a key expires while a poll is between
its calls and again after a second store, one failure hits at every place, a fetch
outlasts the TTL (it may last the 4 ticks of the run, the TTL is 2), a cache is pruned and refilled, the counter
passes its modulus twice, three requests of a window exceed both limits, those of
the public path alone exceed the other one's, a request
counts in the tick after its window (within Slack) and in the one after that (too late). In se_tokens the clock runs over three boundaries of
seconds, so a token is used at every offset within a second and at both sides of the
age limit, and 3 ticks behind is beyond the tolerance while 2 are within; one
failure lets a first attempt be abandoned at each of its steps while a second one
runs. One client is enough there, as clients of different phones share nothing
but free handlers; the theorems are about any number. Two handlers of a kind are enough for every race the
code has: each is between one reader or writer and another on one row or key, and the
proofs of section 5 drop the bound (circles of three waiting uploads and more, which a run with two
cannot have, are the business of `UploadsNeverStandStill`). `PreKeys` and `Accounts` need no bounds: key
ids and accounts are finite. Symmetry is over handlers of one kind and only in
runs without liveness. `CHECK_DEADLOCK FALSE` appears in the two ChainProxy
configurations, where all that stops the system is `MaxTime` and `MaxAsk`; the other
runs check for deadlock.

**Fairness.** MessageQueue: a poll that was started goes on (weak fairness of
its steps: Node runs the continuation of an await that settled), and every device
polls again and again (strong fairness; this is the client's part, there being
no other way of delivery in the repository: nothing subscribes to the published
notification and the WebSocket endpoint opens no connection). Failures stay
possible, but are at most `MaxFail`; time need not pass, so expiry is not what
makes a property true. PreKeys: a fetch goes on (weak fairness; SKIP LOCKED means
it never waits), an upload that can go on again and again does (strong fairness:
Postgres wakes a waiting insert when the transaction it waits for ends, and the
deadlock detector ends a cycle). Nothing is assumed of the arrival of requests.
Sessions: a handler goes on (weak fairness), and a client that can try again and again
does, at last with the right code (strong fairness of `Try`: all handlers may be busy
for a while; this is the owner of the phone, who wants to get in). Nothing forces
a client to give up, to log in again, or time to pass.

Each property of a passing run has in `PROJECT.json` a mutant of the code, defined
next to the original as `Name_Variant`, under which TLC finds it violated.

## 4. Properties

*MessageQueue.* `SentOnceReachable`, `PollComplete` and `FifoAnswer` hold for ids whose
MULTI block ran once; for ids sent again mq_strand shows why they cannot be
stronger. `ImplementsMailbox` is the whole promise at once, over every interleaving
of stores, expiry, acknowledgements, clean-ups and failures. `InboxOutlivesBlob` relates the two TTLs. `AckDestroysACopy` counts:
copies acknowledged and the copy left never exceed the copies stored. The
liveness properties are `EventuallyDelivered` and `StaleReferencesCleaned`.

*RateLimit.* `WindowLimit` (against INCRs that race, and against a key that expires
under a late handler; `admitted[w][r]` also counts the routes with lower limits,
which share the counter), `RejectedForCause` (the converse: a rejection means that more requests
than the limit named the device in its window, by token or, for `/health`, by header; that the device
itself made them is not true and not claimed), `RetryInNewWindow`
(the clock is read twice), `UntimedIsAttended` (a counter without a TTL is one whose
handler is about to set it, or was lost), `ImplementsQuota` (two calls to Redis, a key
with a TTL and any interleaving of handlers count and decide as one step would).

*PreKeys.* `OneTimeServedOnce` (over whole histories, failures included),
`DrainedBeforeFallback` (SKIP LOCKED lets a fetch go without a key only when all
keys it could have seen are spoken for), `SignedIsCurrent` (against rotation),
`AcceptedIsStored` (against uploads racing for ids), `LongLivedKept` (the kinds do
not mix), `ImplementsKeyPool` (locks, skips and waits are invisible: an upload's keys of a
kind arrive at once, a fetch that misses had rivals for every key left), `NoStandstill` (the
waits of uploads: of any uploads under way one can go on, or waits for one outside of
them, so no circle of waits escapes the detector and no upload waits for one that is
over), and `RequestsEnd`, the liveness it is the safety half of.

*Accounts.* `SentFieldsStored` (no lost update between updates of different
fields; `rivals` records the fields of concurrent updates), `FoundAreVerified` (the
wallet search does not look at the flag), `AnswersRespectVisibility` (an owner whose update was
answered 200 may rely on its visibility until an update that sends another begins: `get` does not
answer for a profile that was private in this sense, nor show wallets of a restricted one, nor does the wallet
search find it, although a concurrent update of other fields read the row before the change
and saves its copy after it, and readers read twice; the details are not in it, see ac_visibility), `ImplementsFields` (what overlapping updates of
the same fields may leave: each field what one of them sent, and nothing of anybody's old copy).

*Sessions.* `OneAccountPerPhone` (`phone_hash` is not unique: the rows a phone has, and
which of them an answer names, rest on `register` alone; registrations that overlap do give
several rows, and the property counts how many: one more at most for each that looked for a row
while another was about to insert, and nothing else ever makes a second one), `ActsAsOwner` (a token of the
one service never passes at the other, and a request acts as a verified account of
its sender), `AdmittedInTime` and `RefusedForCause` (the rounding of both times and the
difference of the clocks, to less than a second: a token works for the whole of its
`expiresIn`, and at the relay at once), `GetsIn` (from every place where a lost answer or
a failed handler can leave a client, 409, 404 and 401 lead it to its tokens).

*ChainProxy.* `RoundRobinSpread` (all handlers of a chain share one counter), `CachedIsRecent` (the
cache adds less than a TTL to the age a balance had from the fetch behind it, whatever hits, stores and prunes
of other handlers come between; how long a fetch may last nothing in the code says),
`StoredAnswersTTL` (no request for a TTL after a store), `OverLimitIsRecent` (what a prune leaves).

## 5. Proofs

Each theorem is `Spec => []P`, or `Spec => P` for an action property or a refinement, for all values of the constants that satisfy the
`ASSUME`s of the module, which TLC evaluates in every run. They assume nothing
about the number of handlers, ids, keys or providers, nor about the bounds
beyond being numbers. In each module the type invariant comes first
(`TypeCorrect`), then inductive invariants, each preserved action by action:

* `MessageQueue_proofs`: `QueueInv` collects what ties blobs, references, their
  expiry and the counts together (a pending clean-up can only name ids whose
  blob was gone, so an id stored once keeps its reference); from it `Reachable`,
  `InboxLivesLongEnough`, `AckIsDestruction`. `PollInv` says that of the
  blobs a poll could see at its listing each is still to read or already in the
  answer, or gone: `AnswerIsComplete`. `OrderInv` says that what is
  in the answer is no later than what is listed: `AnswerIsFifo`.
* `MessageQueue_refines`: `QueueIsAMailbox`, that `Spec` implies the specification of Mailbox. One
  step lemma (`MailStep`) maps each action to a step or a stutter; it rests on the
  invariants above and on two more: the date a send handler
  read is not in the future when its MULTI block runs (`StampedBefore`), and what a poll has still to read is
  listed once and not yet in its answer (`TodoIsFresh`), so `Take` is of something new.
* `PreKeys_proofs`: `RowInv` (locks and open rows belong to handlers at the
  right step, long-lived rows are unlocked and unconsumed) gives `LongLivedStay`;
  `HoldInv` (a held key is consumed, by one holder, never counted before) gives
  `KeysServeOnce`; `FetchInv`, made of `BegunInv` (rows seen at the begin stay
  committed), `SignedInv` and `DrainInv`, gives `BundleIsCurrent` and `FallbackIsLast`; `BatchInv`
  (every step of an upload already passed is stored) gives `AcceptedStay`.
  `StoreIsAKeyPool` is the refinement: `LockInv` (a fetch at its UPDATE holds one lock,
  on a row of the pool it is at, and others none) turns the locks that made a fetch miss into
  distinct rivals, `HandsInv` says that a fetch has no key of a pool it did not come to.
  The same injection counts: `KeysForEverybody` (`EnoughKeys`, an action property) says that a fetch
  goes without a key only at a moment when fewer keys are left than fetches are taking one.
  `UploadsNeverStandStill` needs no new invariant but an argument about sets: by `BatchInv` an
  upload that waits waits for one under way (`AwaitedIsUnderWay`); among the uploads of a set in
  which each waits for another one of it there is a smallest such set, and that one is a circle
  (`CircleExists`, by the well-foundedness of inclusion on finite sets), which
  the detector breaks. Here and for the counts handlers are finitely many (`FiniteAssumption`).
* `RateLimit_proofs`: `LimitInv` says that requests that passed plus those whose value
  of INCR lets them pass are within the limit and, while the key must be there,
  within the counter, so one more INCR either is over the limit or adds one to
  both; `KeyInv` (no key goes before its window and Slack are over) and `StartInv` (a
  request took its window before now) carry it over ticks: `WindowIsLimited`.
  `CountInv` covers a counter and the INCRs to come by requests that arrived:
  `RejectionsHaveCause`. `RetryIsLater` is arithmetic on `StartInv`; `CountersGetTTL` is
  inductive with the type invariant. The sets of handlers are finite
  (`HandlerAssumption`), for their cardinalities. `LimiterIsAQuota` is the refinement, one
  lemma per action; it rests on `KeyInv` (what a tick lets go is past its grace), on `StartInv`,
  and on `RetryInNewWindow` and the bound of Retry-After in the type invariant for `Tell`.
* `ChainProxy_proofs`: `SpreadInv` says that with q full rounds done the slots
  before the counter's have q + 1 requests and the others q; its step needs the arithmetic
  of division with remainder (module `Division`, which the
  windows of the rate limiter and the seconds of the tokens use too), and it gives `EqualShares`. `AgeInv` says
  that a balance was read after its request was sent, in flight and in the cache, and that the dates of an
  entry are those of its last store: `CacheAge`. `EntryInv` says that a key stored
  less than a TTL ago is still cached, pruning included: `AnswersShield`.
  `OverLimitIsRecent` is inductive with the type invariant: `CacheBounded`.
* `Accounts_proofs`: `TypeInv` adds to the types what a handler holds at each step
  (a profile row is only ever written complete, since an UPDATE needs a row that is
  there). `RowInv` orders the stages of an account (row, flag, token, profile):
  `FoundVerified`. `FieldInv` says that concurrent updates of one account know each
  other's fields and that a field no rival sent still is as the update read
  or saved it: `FieldsStay`. `RelyInv` says that a visibility an owner relies on is the one in
  the row and that no update under way sends another (that the saves of the others leave it alone is `FieldInv`);
  `SeenInv` that a reader knows of it, and what the reader has concluded from the row it read:
  `VisibilityRespected`. `FieldsAreRegisters` is the refinement of Fields; the
  three steps of `update` that set fields share one lemma (`WriteStep`), and what remains for
  each is which fields it sets and that the record of the account changes in those only.
* `Sessions_proofs`: `TableInv` says that the rows of a phone and the registrations about to insert one
  are together one more at most than the registrations that raced; with `NameInv`
  (handlers and answers name rows of their phone): `OneAccount`. `OwnerInv` says that every token
  a handler made, a client holds or a request carries is of a verified
  row of that phone, made in the past, its secret that of its kind; as the two secrets differ: `OwnerActs`. The lemmas
  `AtMost` and `MoreThan` bound a difference of rounded seconds by one of ticks, and give
  `InTime` and `ForCause`. `ClientsOnTheirWay` is the safety half of `GetsIn`: by `WaitInv`,
  `CodeInv` and `PairInv` a client waits only for a handler that works on its request, is asked for a
  code only when its phone has a row (rows stay, so the code will be good for one), and is in
  with the two tokens of one verified account of its own. It is proved for any number of clients,
  where the run has one.

So every safety property of a passing run is proved, and all four refinements; `EnoughKeys`
and `OnItsWay` are stated in the proof modules and proved without a run of their
own. Only model-checked: the liveness properties (`EventuallyDelivered`,
`StaleReferencesCleaned`, `RequestsEnd`, `GetsIn`), which need fairness and ENABLED.

## 6. Where comments and code differ

Each is a run TLC refutes; `PROJECT.json` quotes the lines.

* mq_strand: a blob and its inbox reference do not always exist together. A poll
  that found a blob missing removes the reference later; when the id is sent again
  in between, the new blob is left without a reference and no poll finds it.
* ac_visibility: comments keep the details of a "contacts" profile for mutual contacts and hide a
  "private" one from all discovery. There are no contacts in the code: `get` hides the wallets
  only and answers display name, biography and avatar to anyone, and the username search does not look at the
  visibility, so it answers with them for a private profile too.
* ch_window: requests for one address that arrive before the first answer all go
  to the providers.

Others need no run. `001_create_accounts.ts:40-41` speaks of usernames that are unique in
lower case; the constraint is case-sensitive and `register` does not compare in lower case, so two
spellings can be registered. The header of `session_auth_middleware.ts` says that refresh
re-issues a fresh token so that clients never hit the age limit; `refresh` answers 501 (`LogInAgain`).
`key_controller.ts:14-17` says served one-time keys are deleted
from the database; they are marked (`consumed`) and no code deletes them. And a
counter of the rate limiter whose handler was lost between its two calls has no TTL,
where the header of `rate_limit_middleware.ts` says short TTL windows. The same header (line 9)
has limits applied per device token, and lines 58-62 avoid Redis keys for unauthenticated requests; a
request for `/health` passes the authentication without a token (`device_auth_middleware.ts:40-43`)
with the `x-device-id` its client sent, and is counted for that device. `WindowLimit`
and `RejectedForCause` are stated over all of these requests.

## 7. Not modelled, and what comes next

Not modelled, because they keep no state that changes and decide nothing about the state
that is kept: request validation, headers and their stripping, error bodies, the contents
of blobs, keys and RPC bodies; tokens nobody issued (malformed, forged: both middleware answer
401 and change nothing); the stubs, namely the push services and their controller, the WebSocket
endpoint (`upgrade` looks at headers and answers 202, no connection is ever opened; an ack frame,
which nothing delivers yet, would call the `purge` that `Acknowledge` models), the Brevo gateway
and refresh; start-up and configuration. The RPC proxy is modelled by what it takes from the
providers' counter; the rest of it passes a body on and back.

Left out on purpose: which of several rows an answer names after registrations of one phone
overlapped (`OneAccountPerPhone` bounds how many there are; the code promises no order among them), the
hazards of `PROJECT.json` without a property (retries that are not idempotent, usernames in two
spellings, cached balances out of order or without a result: their
notes say what does not hold and that nothing promises it), and the composition of Accounts and Sessions into one module: the profile code reads
nothing of what Sessions adds but that its caller has a token, which Accounts has as `tokens`, and
`ActsAsOwner` is what justifies that.

What could still be added: an instance of Accounts with two accounts that compete for a username
(the model has the unique constraint and its conflict, `NameFree`; the theorems cover any number of
accounts), an instance of Sessions with two phones (again covered by the theorems), and a
delivery over the WebSocket once it exists, which would be a second reader of the mailbox.
