# Verification of the multi-currency e-wallet

TLA+ specifications of the e-wallet backend in `src/`, the TLC runs that check
them on small instances, and theorems about them checked by TLAPS. File and
line references are to the repository, without the leading `src/`;
`wallet_service.go` is `internal/service/wallet_service.go`, and so on.

## 1. The system

A Go process serves HTTP requests with Gin, one goroutine for each request. A
handler parses the request, calls a service, and turns its result into a JSON
response. The services keep their state in PostgreSQL, through one pgx
connection pool, at PostgreSQL's default isolation level (READ COMMITTED). A
worker goroutine deletes old idempotency keys.

| Component | State | Operations | Correct when |
|---|---|---|---|
| Wallet service (`wallet_service.go`, `wallet_repository.go`, `ledger_repository.go`) | tables `wallets`, `ledger` | CreateWallet, TopUp, Payment, Transfer, SuspendWallet, GetWallet | every operation is one indivisible step on the balances of that moment; no money is made or lost; no overdraft; a suspended wallet is frozen; the ledger explains each balance; one wallet for each user and currency |
| Idempotency store (`idempotency_repository.go`) | table `idempotency_keys` | GetResponse, CheckAndCreateKey, SaveResponse, DeleteExpiredKeys | a key moves money once; a replay tells the truth; a failed attempt does not burn its key; responses are kept for the retention |
| Sharded mutexes (`wallet_service.go:29`, `:49`) | 64 `sync.Mutex` in memory | Lock, Unlock, in index order for a transfer | two operations of one process on one wallet never overlap; no deadlock |
| Row locks (`wallet_repository.go:67`) | lock of a row, owned by a transaction | SELECT ... FOR UPDATE, in the order of the ids | what was read under a lock stays true until the transaction ends; no deadlock |
| Connection pool (`db/postgres.go`, `util/config.go`) | `DB_MAX_CONNS` connections | acquire, release | nobody waits for ever |
| Cleanup worker (`worker_service.go`) | a ticker | DeleteExpiredKeys each interval, stop with its context | no key goes before its retention; expired ones do go |
| Ledger history (`ledger_service.go`) | none of its own | GetHistory: a wallet read, a count, a page, a summary | whoever follows "next" to the end has seen everything; the parts of an answer differ only by what was committed between them; what is lost is reported |
| Users (`user_service.go`, `user_repository.go`) | table `users` | CreateUser, GetUserByID | the client knows whether its user exists |
| HTTP handlers, routing, middleware, responses | none | parse, validate, map errors to status codes | the status says what happened |
| Start-up and shutdown (`cmd/api/main.go`) | the server, the worker's context, the pool | connect, serve, `srv.Shutdown` with 5 seconds, `os.Exit` | a stop at any point leaves the tables consistent; a graceful one cuts nobody off; a shutdown ends |

How they interact. TopUp, Payment and Transfer take the mutexes of their
wallets' shards; begin a transaction, which takes a connection; ask the
idempotency store for an earlier response, on *another* connection of the same
pool (`idempotency_repository.go:52`); insert the key in the transaction; lock and
read the wallet rows; decide; write balances, ledger entries and the response;
commit; and release everything through `defer`, in the order Rollback, Unlock.
SuspendWallet takes its mutex and runs one autocommitted UPDATE. CreateWallet
takes the mutex of the *user's* shard, checks the currency, the user and the
wallet, and runs one autocommitted INSERT. GetHistory runs four statements, each
on a connection and with a snapshot of its own. The worker deletes key rows on
whatever connection is free. `main` starts the worker and the listener, waits for a
signal, gives handlers five seconds, cancels the worker and closes the pool.

What is hard in this:

- **Two layers of locks.** The mutexes cover one process and vanish with it. A
  handler that gives up (its client left: the context of every call is the
  request's) releases its mutexes while its transaction may still be alive on the
  server, holding row locks and an undecided key. What keeps the balances right
  then are the row locks alone.
- **A COMMIT whose answer is lost.** The handler returns an error; the money may
  have moved. Only a retry with the key can tell.
- **Retries that overlap the first try.** GetResponse reads outside the
  transaction; what it does not find may be committed when the key is inserted.
- **Waits on four kinds of things**: mutexes, connections, row locks and undecided
  keys, each with its own order, or none.
- **A key's lifetime.** `created_at` is the start of the transaction by the
  database's clock, the cutoff a reading of the application's.
- **Check, then insert**, in two statements, with a constraint of the table behind
  them; and a check whose error is dropped.
- **Pages of a list that grows**, cut by offset, out of order of commit, with
  arithmetic in `int` on what a client wrote.
- **The end of the process**: five seconds, then `os.Exit`, which runs no `defer`.
- **Arithmetic.** Rounding half away from zero to cents, and NUMERIC(20, 2).

`PROJECT.json` lists each hazard with its line and the properties aimed at it.

## 2. The modules

| Module | What it is |
|---|---|
| `WalletOps` | constants and their assumptions; rows, requests, and the arithmetic and refusals of the service, without state |
| `Sums`, `FiniteLemmas` | the sum of a function over a finite set; facts about such sums, about least and greatest numbers and least sets |
| `Bank` | what the service promises: Post and Suspend, each one indivisible step; that money is conserved |
| `BankProofs` | that `Bank` conserves money |
| `Idempotency` | what clients are promised of their keys: an operation takes effect and leaves its response in one step, and every answer is true |
| `WalletService` | how it does it: handlers, mutexes, pool, transactions, server, worker, failures and crashes; its properties; the mappings to `Bank` and `Idempotency` |
| `WalletServiceProofs` | its theorems about wallets, locks, `Bank` and money |
| `IdempotencyProofs` | its theorems about keys, responses, answers and entries of the ledger, and that it implements `Idempotency` |
| `Progress` | what each handler of `WalletService` waits for at each label; that something can always move |
| `ProgressProofs` | its theorems |
| `Registry` | what clients are promised of users and wallets: rows that appear in one step, for the right user, and true answers |
| `Accounts` | how it is done: CreateUser and CreateWallet: mutex of the user's shard, checks, autocommitted INSERTs, several processes |
| `AccountsProofs` | their theorems, and that `Accounts` implements `Registry` |
| `LedgerHistory` | GetHistory's four statements, a client that follows links, and commits in between |
| `LedgerHistoryProofs` | their theorems |
| `Lifecycle` | `WalletService` inside `main()`: start-up, worker, drain, exit, kill |
| `LifecycleProofs` | that it is still `WalletService`, and its other theorems |
| `MCWalletService` | small instances: wallets, ids, shards, request sets |
| `MCWalletClaims` | statements of documents and tests that the code does not keep |
| `MCAccounts`, `MCLedgerHistory`, `MCLifecycle` | small instances of the others |

`Bank`, `Idempotency` and `WalletService` extend `WalletOps`. `WalletService` instantiates
`Bank` with `applied <- Applied`, and `wallets`, `ledger` and `req` under their own
names; its `Conservation` is `Bank`'s. It instantiates `Idempotency` with `made <- Made`, the
response of each transaction that moved money, and `answer <- Answers`, and `keyRows`,
`clock` and `req` under their own names. The two abstract specifications share the
requests and nothing else: `Bank` says what an operation does, `Idempotency` how often it
is done and what its client learns. `Progress` extends `WalletService` and adds no
variable and no step, only definitions of who waits for what. `Lifecycle` extends `WalletService` and composes with it: its `Exit` is a
`Crash` seen from inside, its `Receive` an `Arrive` while the server runs, its
`Purge` a `DeleteExpiredKeys`. `Accounts` extends
`Registry` and implements it with the same four variables; its own (labels, mutexes, the
INSERTs under way) are hidden by the mapping. `Accounts` and `LedgerHistory` stand apart: the first
writes rows nothing of `WalletService` reads (the wallets of a run exist from its
start), the second only reads, and has the commits of `WalletService` as its `Post`.

### WalletService and the code

An *attempt* is one HTTP request that reached the service; a client's retry is
another attempt with the same payload. Its handler moves through these labels,
one action for the code from one call that can wait, fail, or be seen by others
to the next:

| Label | Action | Code (TopUp / Payment / Transfer) |
|---|---|---|
| idle | Arrive | the handler calls the service (`wallet_handler.go:75`, `:110`, `:137`, `:164`) |
| mutex | LockShard, once for each shard | 102-104 / 187-189 / 278-295 / 421-423 |
| mutex | RefuseMalformed | 108-111 / 191-199 / 297-304 |
| mutex | Begin | 114-118 / 201-205 / 306-310 |
| mutex | Suspend | 425, `wallet_repository.go:94` |
| getResponse | GetResponse, GetResponseFails | 121-130 / 208-217 / 313-319 |
| checkKey | CheckAndCreateKey | 132-138 / 219-225 / 321-327 |
| lockRows | LockWallet, WalletNotFound | 141-144 / 228-231 / 330-349 |
| update | Refuse, UpdateWalletBalance (once for each wallet) | 146-154 / 233-246 / 352-375 |
| ledger | CreateLedgerEntry, once for each wallet | 157-168 / 249-260 / 378-406 |
| save | SaveResponse | 171-175 / 263-267 / 409-411 |
| commit, await | Commit, Reply | 178-182 / 269-273 / 413 |
| rollback, unlock | Rollback, Unlock | the deferred calls |

`CallFails` takes the place of any of these calls that can return an error;
`RollbackFails` leaves the transaction to the server. `ServerCommit`,
`ServerSuspend` and `ServerAbort` are PostgreSQL deciding a transaction: for an
awaited COMMIT, for one whose handler has gone, or, for an *orphan* (a live
transaction whose handler no longer holds its connection), a rollback. `Crash`
stops the process at any point: running handlers are dead, mutexes are free,
transactions are orphans; idle attempts then arrive at the restarted process.
`DeleteExpiredKeys` is the worker, at any moment, by a clock that differs from the
database's by `Skew`; `Tick` is time.

State: `tx[p]` is the transaction of an attempt. `updated`, `logged`, `keyed` and
`body` are what it has written and nobody else sees; `ServerCommit` moves them
into `wallets`, `ledger` and `keyRows`. A written balance is not stored in `tx`: as
in the code, it is computed from what the handler has read (`seen`).

What is abstracted: amounts in requests are integers of a tenth of a cent
(three decimals tell apart everything `Round(2)` does); ids are model values with
their shard and their place in the string order as constants; the mutex array is
who holds which shard; the pool is the number of handlers that have a connection;
GetResponse, being one query, takes its second connection for the length of one
step. A wallet in a response is its id and balance. Creation times and
descriptions of ledger entries, which no operation reads, are left out, and the
order of the ledger is the order of the commits.

### Accounts and the code

| Label | Action | Code |
|---|---|---|
| idle | AskUser | `user_handler.go:31-45`, `user_service.go:23-28` |
| idle | AskWallet | `wallet_handler.go:32-46`; the ids a client can name are those of earlier users, of nobody, and of users it has been answered |
| mutex | Lock | `wallet_service.go:60-61` |
| currency | CheckCurrency | 65-70, `currency.go` |
| checkUser | GetUserByID | 73-76, `user_repository.go:37` |
| checkWallet | GetWalletByUserAndCurrency, ...Fails | 79-82, `wallet_repository.go:71`; the error is dropped |
| insert, await | SendInsert, Reply | 84-97, `wallet_repository.go:35`; `user_repository.go:30` |
| unlock | Unlock | 62 |

`InsertUser`, `InsertWallet` and `InsertLost` are the server. An INSERT that was sent
may be decided after its handler has given up, and after a crash. A user whose
INSERT failed may exist, but nobody knows its id. `Process` says which process
serves an attempt; mutexes exclude within one only.

### LedgerHistory and the code

| Label | Action | Code |
|---|---|---|
| idle | Ask, Follow | `ledger_handler.go:36-55`; a link of `response.go:29-62` |
| checkWallet | CheckWallet | `ledger_service.go:28`, `wallet_repository.go:42` |
| count | CountLedgerByWalletID | 33, `ledger_repository.go:73` |
| page | GetLedgerByWalletID, RowsStop | 38-42, `ledger_repository.go:39-71` |
| summary | GetLedgerSummary | 44-58, `ledger_repository.go:90`, and the links and the answer |
| any | CallFails | the error returns, answered 500 |

A page is the set of entries whose *rank* (one more than the number of newer
ones) lies between offset and offset + limit. `math.Ceil` of a `float64` quotient is the
exact ceiling, as counts below 2^53 are exact. Integers are of any width: `Atoi`
saturates and reports an error nobody reads, `Wrap` is the overflow of the product.
`Post` adds an entry with any `created_at` not taken yet, as the application's clock
is read before the commit (`wallet_service.go:164`). The history variable `walk`
remembers what a client that follows "next" was given, how many entries were
`added` since it began, and whether the rows of one of its pages ended in an error
that only `rows.Err()` has (`cut`): because they stopped coming (`RowsStop`), or because
the server refused a negative OFFSET, which it does when it executes the statement.
`WalkShowsAll` excuses a walk that was cut; that no offset behind a "next" link
overflows, so that only lost rows can cut a walk after its first page, is a part of
`NextLeadsToEntries`.

### Lifecycle and the code

`main` goes down, connecting (`main.go:39`), serving (72-105), draining (108-110),
closing (the deferred calls) and down again; `worker` is none, panics (an interval
that is not positive), waiting in `select`, or purging; `exit` is the last exit code: 0
the end of `main`, 1 its calls of `os.Exit`, 2 a panic or a kill. `Exit` ends every
running handler. While draining handlers go on, and a connection accepted before the
listener was closed may still deliver a request; after that none arrives.

### Variants

Some definitions are preceded by a variant with a plausible mistake, such as
`CheckAndCreateKeyOnPool` or `LockShardAnyOrder`. No definition uses a variant. Each
shows that a property tells the code from the mistake: with the variant in place
of the definition, TLC finds the property violated (`mutants` in `PROJECT.json`).

### Progress and the code

`CanStep(p)` writes out, label by label, when the handler of `p`, or the server for
its transaction, can go on: at `mutex` the least shard missing must be free
(`wallet_service.go:287-294`) and then a connection (306); at `getResponse` a second
connection (`idempotency_repository.go:52`); at `checkKey` no undecided row with the
key; at `lockRows` the next row (`wallet_service.go:329-349`); an awaited COMMIT its
result. Failures, crashes, time and the worker do not count: nothing may depend on
them to get on. `CanStep` is another way to write the guards of the actions, to be
compared with them by reading. What it claims of the code is checked without it as
well: in `races` nothing but the handlers and the server can take a step, so TLC's
own check for deadlock would find a state in which they all wait for each other, and
`EveryRequestAnswered` of `recovery` rests on the fairness of the actions themselves.

## 3. The runs

| Run | Instance | Shows |
|---|---|---|
| `races` | 4 attempts of 5 payloads on 2 wallets, 3 connections | with opposite transfers, a payment the transfer leaves without funds, a wrongly shared key and a suspension, in every interleaving: a chained ledger, honest duplicates, backed keys; someone can always move; every commit is one step of `Bank` |
| `faults` | 3 attempts of 4 payloads, 2 connections, any call may fail, crashes | the inductive invariant; at most once for each key; replays tell the truth; all successes of one request have the same response; refusals are final, also when the rollback fails; transfers are whole, whichever of their writes fails; suspended wallets are frozen, also under abandoned transactions; still an implementation of `Bank`; someone can always move, except when both connections are held by handlers that ask for another |
| `retention` | 3 attempts, clock to 3, retention 2, the worker's clock 1 ahead | a response is kept for the retention less the skew; the second inductive invariant, `KeyInv`, a conjunct of which is `AtMostOncePerKey`, with keys that expire; the service implements `Idempotency` meanwhile |
| `recovery` | 2 attempts of 16 payloads on 3 wallets, two currencies, two wallets of one shard; failures, crashes, fairness | wallets are serialized, those of colliding shards too; money is conserved in each currency and fits its column at every rounding and range edge; every transaction ends, orphans too; every request of a live process is answered: no deadlock among mutexes, rows and keys; the service implements `Idempotency` through failures and crashes |
| `accounts` | 3 attempts in 2 processes, 1 user and 1 stranger of one shard, 3 spellings; failures, crashes | one wallet for each user and currency; truthful answers; within a process nothing comes between check and insert; all of it implements `Registry` |
| `history` | ledgers of at most 3 entries of two types, 5-bit ints, 5 page numbers, 4 sizes; failures | a walk misses nothing, and is given no more rows again than were added; the four parts of an answer differ only by what came between them; "next" leads to entries |
| `lifecycle` | 2 attempts of one request, 4 intervals, clock to 1; failures, kills, fairness | the process implements `WalletService`; exit 0 cuts nobody off; shutdown ends; expired keys go |

`recovery` starts from every pair of the payloads; `Conservation` of more than two
commits in a row is `LedgerChain` of `races`.

Runs that find what a document or test says and the code does not do:

| Run | Counterexample |
|---|---|
| `pool_deadlock` | Two top-ups of different wallets, a pool of two. Each has begun its transaction and holds a connection; each waits for a second one in GetResponse. With N connections, N such requests do it (20 by default). README.md:48 assumes a pool "configured to handle the expected peak". |
| `retry_refused` | The retry's GetResponse does not see the first try, whose COMMIT is under way (its client gave up, so its mutex is free); CheckAndCreateKey then waits for that COMMIT and finds the key. The retry is answered "duplicate request" and not the stored response of README.md:32. |
| `repeat_answered` | The second request with a key is answered 200 with the stored wallet, where `robustness_test.go:161` and `wallet_test.go:75` expect 400. |
| `suspend_nobody` | Suspending an id of no wallet succeeds: nobody looks at the number of updated rows. |
| `page_cut` | The rows of a page stop coming before the last: `rows.Next()` is false, `rows.Err()` is not asked (`ledger_repository.go:62-70`), and the client gets 200 with entries missing, where `ledger_handler.go:34` has a 500. This run's pages (0 and 2) have no negative offset; the model records the rows lost to a refused negative OFFSET in the same way (`walk.cut`), so with the pages of `history.cfg` and *CallsMayFail* FALSE the same invariant fails for that reason. |

Differences noticed that need no run: wallets whose ids agree modulo 64 wait for each
other, against README.md:31; a COMMIT whose answer is lost is answered with an
error and may have moved money, against README.md:34 (the model has both); the
balance is updated before the ledger, not after (README.md:26), which one
transaction makes invisible; `created_at` of wallets, users and ledger entries is the
application's clock, against README.md:67; an entry committed between the count and
the page of a walk's last request pushes the oldest entry off it, which is why
`WalkShowsAll` excepts that case; every error of CreateWallet and of the money
operations is a 400, where the comments of the handlers list a 500 as well.

### Bounds, and why they are enough

- *Attempts*: three or four. Every property relates at most two attempts; the
  third and fourth are the bystander (a suspension, a holder of a lock the two
  wait for). Attempts choose their payloads at the start from the run's set, so
  all combinations are explored, also several retries of one request.
- *Wallets*: two, so that opposite transfers meet; three in `recovery`, for a second
  currency and two wallets of one shard. The shards are in the opposite order of
  the ids, so mutexes and rows are taken in different orders.
- *Keys*: at most three, one shared on purpose.
- *Amounts*: `w1` opens with one unit (100 cents); payloads are chosen so that one
  transfer leaves too little for the payment, so that amounts round to 0, to 1 cent,
  and up past the balance; the largest column value is 150 cents instead of
  10^20 - 1, so that one top-up overflows it, and so does a transfer's credit after
  its debit was written.
- *NumShards*: 2 instead of 64, so that wallets share a mutex and a transfer takes one
  or two.
- *MaxConns*: 3 or 4: room for the handlers that can be in a transaction at once,
  and one more, except in `faults`, `lifecycle` and `pool_deadlock`. In `races` four
  attempts share three. `faults` has two, so that the pool is stuck in some of its
  states and something else is asked of all others; a call that fails is its way
  out, so TLC finds no deadlock there, and `NothingStuck` does not count failures.
- *MaxClock*, *Retention*, *Skew*: 3, 2 and 1: enough for a transaction that begins
  before, at and after the expiry of another's key, seen from either clock. In
  `lifecycle` the clock reaches 1 with no retention, so that keys expire; in the
  other runs time stands still.
- *Accounts*: three attempts: two of one process and one of the other, or a user's
  creation and two wallets for it. Codes: one valid, one valid in lower case, one
  of no currency.
- *LedgerHistory*: *Stamps* 1 to 3 and so three entries, which with sizes 1 to 3 make
  walks of one to three pages, commits behind and ahead of the reader included. With
  *MaxInt* 15, page 12 of size 2 has a negative offset, page 9 of size 3 one of 24,
  which wraps to -8, page 12 of size 3 one of 33, which wraps to 1 and shows entries;
  40 is out of range, and page 0 and size 0 are what `Atoi` makes of a word.
- *Lifecycle*: one request and its retry, a pool of two. They share a mutex, so they
  do not deadlock here; as handlers have no fairness in this run, each may stop
  anywhere for good, whatever the reason, and then only the deadline ends the
  shutdown. *Hour* 3 and *MaxInt* 15: an
  interval of 6 hours overflows the Duration, 40 does not parse, 0 is zero.
- *CallsMayFail*, *MayCrash* switch failures on where a run is about them. They
  are not counted: any number of failures and crashes may happen.
- Symmetry (permutations of the attempts, which the specification never tells
  apart) is used in runs without liveness properties only. `BankSpec`,
  `KeySpec`, `KeepsRegistry` and `SuspendedFrozen` are safety properties, of single
  steps, and tell attempts apart no more than the specification does.

### Fairness

`FairSpec` gives weak fairness to each handler's steps and to the server's
decisions on each transaction. The Go scheduler runs every goroutine that can run,
and a database call returns. Each lock a step waits for is handed to a waiter in
turn: `sync.Mutex` (Go's starvation mode), the pool's queue and PostgreSQL's lock
queue are all first come, first served in the long run; and since an attempt runs once, a
competitor can overtake it only a finite number of times, so weak fairness is
enough. `ServerAbort` under fairness says that the server sooner or later notices
a lost client, which TCP keep-alive provides. There is no fairness for Arrive,
failures, crashes, the clock or the worker: none of them has to happen.
`EveryRequestAnswered` counts a request as settled when its process stops.

`FairLSpec` gives none to handlers, so that shutdown is seen to end whatever they
do: the timer of `srv.Shutdown` runs and `pgxpool.Close` waits only for connections in
use (weak fairness of `Drained \/ DeadlineExpires \/ ClosePool`); the worker's goroutine
runs and its ticker ticks (weak fairness of `Worker`); and a purge tried again and
again succeeds some time (strong fairness of `Purge`, which is the database's part).
Signals, failures, kills and restarts need not happen. `history` and `accounts` check
safety only; `history` does not check deadlock, as a full ledger and a client that has
stopped are the end of the run, not of the program.

## 4. The theorems

They hold for every value of the constants that the named assumptions allow, with or
without failures and crashes.

### WalletServiceProofs

For any sets of attempts, wallets and requests, any shards, pool size, retention and
skew. The assumptions are `WalletsAssumption` (rows are ids, and finitely many; shards
are numbers below `NumShards`, which is the length of the array of mutexes; the ids
have a strict order; opening balances fit the column), `RequestsAssumption` (requests
are of the four kinds and name ids; only a transfer names two) and
`ServiceAssumption` (types of the bounds).

- `Invariance`: `Inv` is an invariant of the specification. `TypeOK`,
  `SerializedByWallet`, `RowsStable` and `LedgerChain` follow from it or are parts of
  it (`TypeCorrect`, `MutexesSerialize`, `NoLostUpdate`, `LedgerIsTheHistory`).
- `NothingOverdrawn`: every balance is between zero and the largest its column
  holds.
- `SuspensionIsFinal`: once a suspension is visible the row never changes.
- `ServiceImplementsBank`: the service implements `Bank`, so every statement about
  `Bank` holds of the code's commits.
- `MoneyConserved`: in each currency the balances add up to the opening ones, plus the
  top-ups, less the payments that were committed.

**The inductive invariant.** `LedgerChain` is not inductive: that a commit extends
the chain correctly depends on the handler having read the balance the commit
replaces. `RowsStable` says that what was read under a lock is still true, as long as the
lock is held; it is kept because only the owner of a row's lock commits a balance
of it (`RowLocksExclusive`), and a suspension waits for the lock. `Staged` ties the
label of the handler to what its transaction has locked and written: at COMMIT
every touched wallet is locked, read, checked and written, once in each table.
Staged speaks of the transaction's status and not only of the label, because an
abandoned transaction outlives its handler. `MutexesExclusive` is needed for
`SerializedByWallet` only: **nothing about balances rests on the mutexes**, which is
why crashes, and handlers that give up, are harmless, and why several processes
on one database would be.

**The refinement** maps each `ServerCommit` to `Post`, because `Staged` and `RowsStable`
make the guards and values computed from `seen` equal to those computed from
`wallets` at that moment; `ServerSuspend` to `Suspend`; every other step to a stutter,
`Crash` included.

**Conservation** is proved of `Bank` (`BankProofs`, `BankConserves`) and carried over by
the refinement: `WalletService` knows nothing of sums. A step of `Bank` is one `Post`,
which changes one balance and adds one flow, or for a transfer moves a rounded
amount from one balance to another of the same currency (`CurrencyMismatch` refuses
others) and adds a flow of zero. What is missing is that a sum changes by what its
terms change by. `SumOver` is a recursive function over the finite sets, and induction
over sets is out of the provers' reach as a cited theorem; `FiniteLemmas` therefore
reasons by least counterexample: of the subsets for which a statement fails there
is a smallest (`LeastSet`, from `LeastNumber` and cardinalities), and the statement
holds of it without one element. This gives that the defining equation of the sum
has a solution and only one (`SmallSums`, `SumsUnique`), that the order in which the
elements are taken does not matter (`SumStep`), and hence `SumAdd`, `SumChange` and `SumMove`,
which the steps of `Bank` cite.

### ProgressProofs

From the same assumptions.

- `OnlyThePoolSticks`: while a request is being handled or a transaction is undecided,
  someone can move, or every connection is held by a handler that asks for a second
  one. This is freedom from deadlock of the mutexes (in the order of their indices),
  the row locks (in the order of the ids) and the keys *together*, for any number of
  requests, wallets and mutexes: README.md:30's claim, and exactly where it ends.
- `LargePoolNeverSticks`: with more connections than mutexes someone can always move,
  because a handler with a connection has a mutex nobody else has. The code has 64
  mutexes and by default 20 connections, so its default is not in this case.

**The invariant**, `AllPlaced` (`LocksArePlaced`; no run needs to repeat it), says where the locks of a handler are at
each of its labels: mutexes are taken in increasing order and all of them before a
connection; before the key is inserted a transaction holds no row and no key; a handler that
has not finished holds all its mutexes. **The argument** supposes that nobody can move
(`Blocked`). No transaction is then an orphan, so an undecided one still has its
handler and its handler its mutexes (`LiveRuns`); so two transactions that meet on a
row would have a mutex in common, which is impossible (`RowsAreFree`, `NoneWaitsForRow`);
a holder of a key would be past the key, and only waiting for a row or for the
server (`NoneWaitsForServer`). All wait for mutexes or connections. If all wait for
mutexes, the one that waits for the greatest can have it, as whoever holds it
would wait for a greater one (`GreatestMutexFree`). So someone waits for a connection,
there is none, and everyone who has one is at GetResponse. Here, unlike in
everything about balances, the mutexes matter.

### IdempotencyProofs

From the same assumptions: all properties of keys and answers that the runs check.

- `RetriesMoveOnce`, `ResponsesAreKept`: at most once for each key, and a response to
  replay, until the row expires by the worker's clock, whatever its skew.
- `RepliesAreTrue`, `KeysHaveResponses`, `DuplicatesAreDone`, `RefusedMovesNothing`: what a
  client is told, and what a row of `idempotency_keys` says, has a commit behind it,
  or for a refusal none.
- `TransfersArePaired`: both legs of a transfer are in the ledger.
- `RetriesAgree`: two attempts of one request that are answered with success are given
  the same response, unless money moved twice under their key, which by
  `RetriesMoveOnce` needs a row that has expired.
- `ServiceKeepsKeys`: the service implements `Idempotency`.

**The second invariant**, `KeyInv`, is inductive relative to `Inv`. The history part says
that the three tables agree with the transactions that moved money (`Posted`): each
row of `idempotency_keys` is one of theirs (`RowsPosted`), theirs is there until it
expires (`RowsKept`), the ledger has their entries and no others (`EntriesPosted`,
`PostedInLedger`). The handlers' part, `Keyed`, says where a transaction has its key
and its response, and that an outcome, once decided, comes too late for a COMMIT. Between them
stands `UndecidedKeysNew`: a key in use by a live transaction, orphans included, has
no row and no other user. That is the unique index: INSERT waits for whoever has
inserted the key and is undecided. Hence, when a second transaction commits under
a key, the row of the first has gone; by `RowsKept` it had expired
(`AtMostOnceInv`). **Neither the mutexes nor GetResponse are needed for
that**: a retry that arrives while the first try is an orphan is as safe as one in turn.
An answer stands on `SuccessPosted`, which leads from the client's success, through
the row if it was replayed, to the commit and its entry, and says that the body of the
answer is that commit's own response: `RetriesAgree` follows.

**The second refinement** maps `ServerCommit` of an operation to `TakeEffect`
(`CommitTakesEffect`). Its guard, that no kept response has the key, is
`UndecidedKeysNew`; that it happens once, with nobody refused, is the clause of `Keyed` on
outcomes; the response is one `Responses` allows because the balance a commit leaves
is within its column (`CommittedBalance`); its date is not in the future because
transactions began before (`BegunBefore`). Each action that decides an outcome is the one
answer of its attempt (`AnswersRefine`): a COMMIT's result is `Confirm` or `GiveUp`,
GetResponse's is `Replay`, or `Refuse` when the body is not one the operation can read,
a key that is taken, an amount or a wallet is `Refuse`, a failed call is `GiveUp`.
`DeleteExpiredKeys` is `Purge`, `Tick` is `Tick`, and everything else, the mutexes, the
pool, the row locks, rollbacks and crashes, stutters (`RestStutters`). `Idempotency`
has none of those: all that a client sees of them is `GiveUp`. What it does not promise is as telling: it allows `Refuse` with "duplicate" where a
replay would do, which is the finding of `retry_refused`, and `GiveUp` at any time.

### LifecycleProofs

From the assumptions above and `LifecycleAssumption`, for any intervals and any width
of Duration. `ProcessImplementsService`: every step of the process is a step of
`WalletService` or changes nothing of it; an `Exit` that finds no handler running changes
nothing, any other is a `Crash`. So all of the above, `IdempotencyProofs` included, holds of the process; the two
refinements are stated of it (`ProcessImplementsBank`, `ProcessKeepsKeys`). `UpWhenNeeded` is inductive by itself with the help
of `WalletService`'s types; `GracefulExit` follows from it, because the pool is closed
only from the label that `Drained` leads to.

### LedgerHistoryProofs

From `HistoryAssumption`: times are numbers, the possible entries are finitely many
and their number fits in an int. `WalkMissesNothing` is the theorem to know. Its
invariant, `WalkInv`, says what has been given so far: each entry the walk is to
show, *whose rank now says that it was on one of the first k pages*, has been shown
(`Reached`). Ranks only grow when entries are added (`RankGrows`), whatever their
time, so commits take entries out of this set and never put one in. At the end the
ranks are bounded by the count (`RankWithin`), and the pages cover the count
(`PagesCover`). The offset of a page that "next" leads to fits in an int (`NoWrap`),
since it is less than the count.

`NothingTwice`, `AnswersAgree` and `NextIsNeverEmpty` rest on a second invariant, `PagesInv`
(`PagesInvariance`; the runs check what follows from it). `CountFits` relates the count
to the rows: exact until one is added, too low afterwards, so a link made from it
stays inside the ledger (`LinkFits`) and the page read after it is as full as the count
says (`PageFull`, a part of `PartsAgree`). `ShownFits` says that the rows given so far are
those of the pages so far, pushed back by *d* places, where *d* is at most the number of
entries added, less the rows that were given again. An entry more adds one to *d* at most
(`PushedByOne`); the next page can repeat at most *d* rows, those in its first *d*
places (`PageAtMost`), and uses that many up. So no more rows are ever given again
than entries were added. When all times differ, no two rows have the same rank
(`RanksDiffer`), and every number up to the count is the rank of some row, found as
the row of the least rank that is large enough (`RankTaken`); hence a page inside the
ledger is full (`PageAtLeast`).

### AccountsProofs

From `RegistryAssumption` (ids of users there before, of nobody and of attempts are
different; the normalisation of codes leaves the valid ones alone) and
`AccountsAssumption` (types), for any number of processes. `Inv` has four parts: the mutex
of the user's shard is held from the currency check to the end by one handler of a
process (`MutexInv`); a row comes from an INSERT that was done, and the other way
round (`RowsInv`); an INSERT comes from the checks (`StepInv`); an outcome says what
became of it (`OutcomeInv`). Uniqueness needs none of the first: it is the table's
constraint. `CheckStaysTrue` rests on the mutex alone.

`AccountsKeepRegistry`: `Accounts` implements `Registry`. An INSERT that is done is `AddUser` or
`AddWallet`, also when its handler has given up or its process has stopped, which is
why `Registry` lets an attempt answered "failed" still create, and no other refused
one. A handler's decision is `Answer`, whose reason (`Reason`) must hold when it is
given. The reason of a check is what its statement has just read; that of an INSERT
that was refused is older than the answer, and still holds because no code deletes a
wallet. That no client is ever shown the error of a *foreign key* is part of
it: `StepInv` has that whoever passes `checkUser` has a user in the table for good, so
an INSERT of a wallet is refused only by UNIQUE(user_id, currency). The mutexes play no part.

### Induction over data

The library's induction theorems take an operator as a parameter, which the provers
here cannot instantiate. What needs an induction, sums and ranks, is proved from the least
number of a set of numbers instead (`LeastNumber` rests on one well-foundedness
fact of the library without such a parameter).

### Only model-checked

Liveness (`EveryRequestAnswered`, `TransactionsEnd`, `ShutdownEnds`, `ExpiredKeysGo`): fairness
is out of the prover's reach. `OnlyThePoolSticks` is the safety part of the first: what
stays with TLC is that a step that can be taken is taken, and that no handler is
overtaken for ever. The theorems about progress are about `CanStep`; that `CanStep` is
the guards of the actions is for a reader to see, as `ENABLED` is out of the prover's
reach. Every invariant and every action property of the passing runs is stated by a
theorem.

## 5. What is not modelled

- Requests that do not parse (a body or an id): they are refused before any service
  is called and change nothing. Status codes and wording of answers.
- The user's and the wallets' mutexes in one model: CreateWallet shares the array
  with the other operations but takes one mutex, and waits for nothing while
  holding it except calls of the database; nor does `Accounts` count connections.
- A statement a handler has given up, and that waits on the server: it may still be
  handed its row lock or insert its key before the server ends its transaction. In
  the model an orphan acquires nothing more. Its transaction is aborted in either case,
  and whoever waits for it waits until then.
- Equal `created_at` of two entries of a wallet: their order on a page is then the
  server's choice at each request, and a walk of even a still ledger may miss one.
- More than one process in `WalletService`. The theorems do not use the mutexes for
  anything but `SerializedByWallet`; liveness across processes is not examined.
- A negative retention; retention and skew so large that a Duration or a time overflows; `DB_MAX_CONNS`
  out of the range of int32.
- A purge or a statement of a process that has exited: PostgreSQL may finish it
  later, which `WalletService` allows for (its purge may happen at any time) and
  `Lifecycle` does not show.
- Logging, middleware, CORS and headers, generated documentation and mocks: no state.
- The pool's connection lifetimes and health checks; PostgreSQL itself, beyond
  READ COMMITTED, row locks, unique and foreign keys and the fate of a transaction
  whose client has gone.

## 6. Plan

1. *Done*: the modules of section 2, their runs and theorems, the three abstract
   specifications `Bank`, `Idempotency` and `Registry` and the proofs that the code
   implements them.
2. Liveness of `Accounts` on a pool shared with `WalletService`.
