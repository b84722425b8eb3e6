--------------------------- MODULE WalletService ---------------------------
(***************************************************************************)
(* The money-moving handlers of the e-wallet (top up, pay, transfer,       *)
(* suspend) as they run: any number at once in one process, behind the     *)
(* sharded mutexes and the connection pool, against PostgreSQL at READ     *)
(* COMMITTED, with the worker that purges old idempotency keys.            *)
(*                                                                         *)
(* An attempt is one HTTP request received; a client's retry is another    *)
(* attempt with the same request.  One action of an attempt is the code    *)
(* from one call that can wait, fail or be seen by others to the next.     *)
(* What the database does with a COMMIT, or with a transaction whose       *)
(* client has gone, are actions of the server: the handler may have given  *)
(* up, released its mutexes and answered by then.                          *)
(*                                                                         *)
(* Some definitions are preceded by one like them with a plausible mistake *)
(* (a lock not taken, a call on the pool instead of the transaction): with *)
(* it in the place of the definition a property fails.  Nothing uses them. *)
(***************************************************************************)
EXTENDS WalletOps, FiniteSets

CONSTANTS
  MaxConns,      \* connections in the pool
  Retention,     \* age at which the worker deletes an idempotency key
  Skew,          \* the worker's clock, less the database's
  MaxClock,      \* bound on the clock
  CallsMayFail,  \* TRUE: a database call may fail, its effect unknown
  MayCrash       \* TRUE: the process may stop at any point and be restarted

ASSUME ServiceAssumption ==
  /\ MaxConns \in Nat
  /\ Retention \in Nat
  /\ Skew \in Int
  /\ MaxClock \in Nat
  /\ CallsMayFail \in BOOLEAN
  /\ MayCrash \in BOOLEAN

VARIABLES
  req,      \* the request of each attempt
  pc,       \* where its handler is
  held,     \* the shards of WalletService.mu the handler holds
  seen,     \* the wallet rows the handler has read
  outcome,  \* what the handler has decided to answer
  tx,       \* the database transaction of each attempt
  wallets,  \* the committed rows of wallets
  ledger,   \* the committed rows of ledger, for each wallet oldest first
  keyRows,  \* the committed rows of idempotency_keys
  clock     \* the time, by the database's clock

handler == << pc, held, seen, outcome >>
tables == << wallets, ledger, keyRows >>
vars == << req, pc, held, seen, outcome, tx, wallets, ledger, keyRows, clock >>

Labels ==
  {"idle", "mutex", "getResponse", "checkKey", "lockRows", "update", "ledger",
   "save", "commit", "await", "rollback", "unlock", "done", "dead"}

(* updated and logged are the rows written and not yet visible: the values
   are the handler's, computed from seen.  keyed is the same for the row of
   idempotency_keys, body for its response.                                *)
Transaction ==
  [status : {"none", "open", "committing", "committed", "aborted"},
   begun : Nat, ended : Nat, locks : SUBSET Wallets,
   updated : SUBSET Wallets, logged : SUBSET Wallets,
   keyed : BOOLEAN, body : Body]

NoTransaction ==
  [status |-> "none", begun |-> 0, ended |-> 0, locks |-> {},
   updated |-> {}, logged |-> {}, keyed |-> FALSE, body |-> NullBody]

Init ==
  /\ req \in [Attempts -> Requests]
  /\ pc = [p \in Attempts |-> "idle"]
  /\ held = [p \in Attempts |-> {}]
  /\ seen = [p \in Attempts |-> OpeningRows]
  /\ outcome = [p \in Attempts |-> NoOutcome]
  /\ tx = [p \in Attempts |-> NoTransaction]
  /\ wallets = OpeningRows
  /\ ledger = OpeningLedger
  /\ keyRows = {}
  /\ clock = 0

-----------------------------------------------------------------------------
(* The locks and the pool.                                                 *)

ShardsOfPayer(r) == {Shard[r.from]}

ShardsOf(r) == {Shard[w] : w \in Touched(r)}

HasMutexes(p) == held[p] = ShardsOf(req[p])

(* The connection is the handler's from Begin to the end of the deferred
   Rollback; a statement outside a transaction needs one while it runs.    *)
ConnLabels ==
  {"getResponse", "checkKey", "lockRows", "update", "ledger", "save",
   "commit", "await", "rollback"}

SpareConn == Cardinality({p \in Attempts : pc[p] \in ConnLabels}) < MaxConns

Live(p) == tx[p].status \in {"open", "committing"}

NeverOrphan(p) == FALSE

(* The handler has lost its connection, or has gone, and the server has not
   noticed yet.                                                            *)
Orphan(p) == Live(p) /\ pc[p] \in {"unlock", "done", "dead"}

RowAlwaysFree(p, w) == TRUE

RowFree(p, w) == \A q \in Attempts \ {p} : Live(q) => w \notin tx[q].locks

KeyAlwaysFree(p) == TRUE

(* INSERT ... ON CONFLICT waits for a transaction that has inserted the key
   and is still undecided.                                                 *)
KeyFree(p) ==
  \A q \in Attempts \ {p} : Live(q) /\ tx[q].keyed => req[q].key # req[p].key

KeyTaken(p) == \E k \in keyRows : k.key = req[p].key

Goto(p, l) == pc' = [pc EXCEPT ![p] = l]

Decide(p, kind, b) ==
  outcome' = [outcome EXCEPT ![p] = [kind |-> kind, body |-> b]]

-----------------------------------------------------------------------------
(* The handler, until it has its transaction.                              *)

Arrive(p) ==
  /\ pc[p] = "idle"
  /\ Goto(p, "mutex")
  /\ UNCHANGED << req, held, seen, outcome, tx, tables, clock >>

LockShardAnyOrder(p) ==
  /\ pc[p] = "mutex"
  /\ \E s \in ShardsOf(req[p]) \ held[p] :
       /\ \A q \in Attempts : s \notin held[q]
       /\ held' = [held EXCEPT ![p] = @ \cup {s}]
  /\ UNCHANGED << req, pc, seen, outcome, tx, tables, clock >>

(* Mutexes are taken in the order of their indexes.                        *)
LockShard(p) ==
  /\ pc[p] = "mutex"
  /\ \E s \in ShardsOf(req[p]) \ held[p] :
       /\ \A t \in ShardsOf(req[p]) \ held[p] : s <= t
       /\ \A q \in Attempts : s \notin held[q]
       /\ held' = [held EXCEPT ![p] = @ \cup {s}]
  /\ UNCHANGED << req, pc, seen, outcome, tx, tables, clock >>

RefuseMalformed(p) ==
  /\ pc[p] = "mutex" /\ HasMutexes(p)
  /\ Malformed(req[p])
  /\ Goto(p, "unlock")
  /\ Decide(p, "rejected", NullBody)
  /\ UNCHANGED << req, held, seen, tx, tables, clock >>

Begin(p) ==
  /\ pc[p] = "mutex" /\ HasMutexes(p)
  /\ IsMoney(req[p]) /\ ~Malformed(req[p])
  /\ SpareConn
  /\ Goto(p, "getResponse")
  /\ tx' = [tx EXCEPT ![p].status = "open", ![p].begun = clock]
  /\ UNCHANGED << req, held, seen, outcome, tables, clock >>

-----------------------------------------------------------------------------
(* Idempotency.                                                            *)

(* GetResponse finds a response: the row is committed and its code is set. *)
Answered(p) == {k \in keyRows : k.key = req[p].key /\ k.body.form # "null"}

(* GetResponse reads outside the transaction, on a second connection.      *)
GetResponse(p) ==
  /\ pc[p] = "getResponse"
  /\ SpareConn
  /\ \/ /\ Answered(p) = {}
        /\ Goto(p, "checkKey")
        /\ UNCHANGED outcome
     \/ \E k \in Answered(p) :
          /\ Goto(p, "rollback")
          /\ IF Replayable(req[p], k.body)
             THEN Decide(p, "ok",
                         IF req[p].kind = "Transfer" THEN OkBody ELSE k.body)
             ELSE Decide(p, "duplicate", NullBody)
  /\ UNCHANGED << req, held, seen, tx, tables, clock >>

(* An error of GetResponse is taken for "not found".                       *)
GetResponseFails(p) ==
  /\ CallsMayFail
  /\ pc[p] = "getResponse"
  /\ Goto(p, "checkKey")
  /\ UNCHANGED << req, held, seen, outcome, tx, tables, clock >>

CheckAndCreateKeyNoWait(p) ==
  /\ pc[p] = "checkKey"
  /\ IF KeyTaken(p) \/ ~KeyFree(p)
     THEN /\ Goto(p, "rollback")
          /\ Decide(p, "duplicate", NullBody)
          /\ UNCHANGED tx
     ELSE /\ Goto(p, "lockRows")
          /\ tx' = [tx EXCEPT ![p].keyed = TRUE]
          /\ UNCHANGED outcome
  /\ UNCHANGED << req, held, seen, tables, clock >>

CheckAndCreateKeyOnPool(p) ==
  /\ pc[p] = "checkKey"
  /\ ~KeyTaken(p)
  /\ keyRows' = keyRows \cup
       {[key |-> req[p].key, created |-> clock, body |-> NullBody]}
  /\ Goto(p, "lockRows")
  /\ UNCHANGED << req, held, seen, outcome, tx, wallets, ledger, clock >>

CheckAndCreateKey(p) ==
  /\ pc[p] = "checkKey"
  /\ KeyFree(p)
  /\ IF KeyTaken(p)
     THEN /\ Goto(p, "rollback")
          /\ Decide(p, "duplicate", NullBody)
          /\ UNCHANGED tx
     ELSE /\ Goto(p, "lockRows")
          /\ tx' = [tx EXCEPT ![p].keyed = TRUE]
          /\ UNCHANGED outcome
  /\ UNCHANGED << req, held, seen, tables, clock >>

-----------------------------------------------------------------------------
(* The work of the transaction.                                            *)

(* GetWalletByIDWithLock, in the order of the ids as strings.              *)
NextRow(p, w) ==
  /\ w \in Touched(req[p]) \ tx[p].locks
  /\ \A v \in Touched(req[p]) \ tx[p].locks : UUIDRank[w] <= UUIDRank[v]

LockWallet(p) ==
  /\ pc[p] = "lockRows"
  /\ \E w \in Wallets :
       /\ NextRow(p, w)
       /\ RowFree(p, w)
       /\ tx' = [tx EXCEPT ![p].locks = @ \cup {w}]
       /\ seen' = [seen EXCEPT ![p][w] = wallets[w]]
       /\ IF Touched(req[p]) \subseteq tx[p].locks \cup {w}
          THEN Goto(p, "update") ELSE UNCHANGED pc
  /\ UNCHANGED << req, held, outcome, tables, clock >>

WalletNotFound(p) ==
  /\ pc[p] = "lockRows"
  /\ \E w \in WalletIds \ Wallets : NextRow(p, w)
  /\ Goto(p, "rollback")
  /\ Decide(p, "rejected", NullBody)
  /\ UNCHANGED << req, held, seen, tx, tables, clock >>

Refuse(p) ==
  /\ pc[p] = "update" /\ tx[p].updated = {}
  /\ Refused(req[p], seen[p])
  /\ Goto(p, "rollback")
  /\ Decide(p, "rejected", NullBody)
  /\ UNCHANGED << req, held, seen, tx, tables, clock >>

(* A transfer debits first, in the wallets and in the ledger.              *)
NextOf(p, done) == IF req[p].from \in done THEN req[p].to ELSE req[p].from

UpdateWalletBalanceOnPool(p) ==
  LET w == NextOf(p, tx[p].updated) IN
  /\ pc[p] = "update"
  /\ ~Refused(req[p], seen[p])
  /\ wallets' = [wallets EXCEPT
                   ![w].balance = NewBalance(req[p], seen[p], w)]
  /\ tx' = [tx EXCEPT ![p].updated = @ \cup {w}]
  /\ IF w = req[p].to THEN Goto(p, "ledger") ELSE UNCHANGED pc
  /\ UNCHANGED << req, held, seen, outcome, ledger, keyRows, clock >>

(* A balance too long for its column makes the UPDATE fail.                *)
UpdateWalletBalance(p) ==
  LET w == NextOf(p, tx[p].updated) IN
  /\ pc[p] = "update"
  /\ ~Refused(req[p], seen[p])
  /\ IF NewBalance(req[p], seen[p], w) > MaxNumeric
     THEN /\ Goto(p, "rollback")
          /\ Decide(p, "rejected", NullBody)
          /\ UNCHANGED tx
     ELSE /\ tx' = [tx EXCEPT ![p].updated = @ \cup {w}]
          /\ IF w = req[p].to THEN Goto(p, "ledger") ELSE UNCHANGED pc
          /\ UNCHANGED outcome
  /\ UNCHANGED << req, held, seen, tables, clock >>

CreateLedgerEntryOnce(p) ==
  /\ pc[p] = "ledger"
  /\ tx' = [tx EXCEPT ![p].logged = {req[p].from}]
  /\ Goto(p, "save")
  /\ UNCHANGED << req, held, seen, outcome, tables, clock >>

CreateLedgerEntry(p) ==
  LET w == NextOf(p, tx[p].logged) IN
  /\ pc[p] = "ledger"
  /\ tx' = [tx EXCEPT ![p].logged = @ \cup {w}]
  /\ IF w = req[p].to THEN Goto(p, "save") ELSE UNCHANGED pc
  /\ UNCHANGED << req, held, seen, outcome, tables, clock >>

SaveResponse(p) ==
  /\ pc[p] = "save"
  /\ tx' = [tx EXCEPT ![p].body = SavedBody(req[p], seen[p])]
  /\ Goto(p, "commit")
  /\ UNCHANGED << req, held, seen, outcome, tables, clock >>

Commit(p) ==
  /\ pc[p] = "commit"
  /\ tx' = [tx EXCEPT ![p].status = "committing"]
  /\ Goto(p, "await")
  /\ UNCHANGED << req, held, seen, outcome, tables, clock >>

(* SuspendWallet's UPDATE commits by itself.                               *)
Suspend(p) ==
  /\ pc[p] = "mutex" /\ HasMutexes(p)
  /\ ~IsMoney(req[p])
  /\ SpareConn
  /\ tx' = [tx EXCEPT ![p].status = "committing", ![p].begun = clock]
  /\ Goto(p, "await")
  /\ UNCHANGED << req, held, seen, outcome, tables, clock >>

-----------------------------------------------------------------------------
(* The server.                                                             *)

Ended(p, status) ==
  tx' = [tx EXCEPT ![p].status = status, ![p].ended = clock, ![p].locks = {}]

ServerCommit(p) ==
  /\ tx[p].status = "committing" /\ IsMoney(req[p])
  /\ wallets' = [w \in Wallets |->
                   IF w \in tx[p].updated
                   THEN [wallets[w] EXCEPT
                           !.balance = NewBalance(req[p], seen[p], w)]
                   ELSE wallets[w]]
  /\ ledger' = [w \in Wallets |->
                  IF w \in tx[p].logged
                  THEN Append(ledger[w], Entry(p, req[p], seen[p], w))
                  ELSE ledger[w]]
  /\ keyRows' = IF tx[p].keyed
                THEN keyRows \cup {[key |-> req[p].key, created |-> tx[p].begun,
                                    body |-> tx[p].body]}
                ELSE keyRows
  /\ Ended(p, "committed")
  /\ UNCHANGED << req, handler, clock >>

(* UPDATE ... WHERE id = $2: no row is no error.                           *)
ServerSuspend(p) ==
  /\ tx[p].status = "committing" /\ ~IsMoney(req[p])
  /\ RowFree(p, req[p].to)
  /\ wallets' = [w \in Wallets |->
                   IF w = req[p].to
                   THEN [wallets[w] EXCEPT !.status = "SUSPENDED"]
                   ELSE wallets[w]]
  /\ Ended(p, "committed")
  /\ UNCHANGED << req, handler, ledger, keyRows, clock >>

(* An orphan is rolled back when the server notices, unless its COMMIT was
   already on the way; that COMMIT may also be lost while it is awaited.   *)
ServerAbort(p) ==
  /\ \/ Orphan(p)
     \/ CallsMayFail /\ tx[p].status = "committing"
  /\ Ended(p, "aborted")
  /\ UNCHANGED << req, handler, tables, clock >>

-----------------------------------------------------------------------------
(* The handler, to its end.                                                *)

ReplyAsRead(p) ==
  /\ pc[p] = "await"
  /\ \/ /\ tx[p].status = "committed"
        /\ Decide(p, "ok", IF IsMoney(req[p]) THEN StaleBody(req[p], seen[p])
                           ELSE NullBody)
     \/ /\ tx[p].status = "aborted"
        /\ Decide(p, "failed", NullBody)
  /\ Goto(p, "unlock")
  /\ UNCHANGED << req, held, seen, tx, tables, clock >>

Reply(p) ==
  /\ pc[p] = "await"
  /\ \/ /\ tx[p].status = "committed"
        /\ Decide(p, "ok", IF IsMoney(req[p]) THEN SavedBody(req[p], seen[p])
                           ELSE NullBody)
     \/ /\ tx[p].status = "aborted"
        /\ Decide(p, "failed", NullBody)
  /\ Goto(p, "unlock")
  /\ UNCHANGED << req, held, seen, tx, tables, clock >>

CommitAnyway(p) ==
  /\ pc[p] = "rollback"
  /\ tx' = [tx EXCEPT ![p].status = "committing"]
  /\ Goto(p, "unlock")
  /\ UNCHANGED << req, held, seen, outcome, tables, clock >>

Rollback(p) ==
  /\ pc[p] = "rollback"
  /\ Ended(p, "aborted")
  /\ Goto(p, "unlock")
  /\ UNCHANGED << req, held, seen, outcome, tables, clock >>

Unlock(p) ==
  /\ pc[p] = "unlock"
  /\ held' = [held EXCEPT ![p] = {}]
  /\ Goto(p, "done")
  /\ UNCHANGED << req, seen, outcome, tx, tables, clock >>

(* A call fails: the connection broke, or the client left and its request's
   context was cancelled.  The handler cannot know what became of a COMMIT
   or an autocommitted UPDATE it had sent.                                 *)
CallFails(p) ==
  /\ CallsMayFail
  /\ \/ /\ pc[p] = "mutex" /\ HasMutexes(p) /\ ~Malformed(req[p])
        /\ Goto(p, "unlock")
     \/ /\ pc[p] \in {"checkKey", "lockRows", "update", "ledger", "save", "commit"}
        /\ Goto(p, "rollback")
     \/ /\ pc[p] = "await"
        /\ Goto(p, "unlock")
  /\ Decide(p, "failed", NullBody)
  /\ UNCHANGED << req, held, seen, tx, tables, clock >>

(* The deferred Rollback fails like any call; the connection is closed and
   the transaction is left to the server.                                  *)
RollbackFails(p) ==
  /\ CallsMayFail
  /\ pc[p] = "rollback"
  /\ Goto(p, "unlock")
  /\ UNCHANGED << req, held, seen, outcome, tx, tables, clock >>

-----------------------------------------------------------------------------
(* The process, the worker and the clock.                                  *)

Running(p) == pc[p] \notin {"idle", "done", "dead"}

(* The mutexes are memory: the restarted process has all of them free.     *)
Crash ==
  /\ MayCrash
  /\ \E p \in Attempts : Running(p)
  /\ pc' = [p \in Attempts |-> IF Running(p) THEN "dead" ELSE pc[p]]
  /\ held' = [p \in Attempts |-> {}]
  /\ UNCHANGED << req, seen, outcome, tx, tables, clock >>

Tick ==
  /\ clock < MaxClock
  /\ clock' = clock + 1
  /\ UNCHANGED << req, handler, tx, tables >>

ExpiredOnTime(k) == k.created <= clock + Skew - Retention

(* created_at is the database's clock, the cutoff the application's.       *)
Expired(k) == k.created < clock + Skew - Retention

DeleteExpiredKeys ==
  /\ SpareConn
  /\ \E k \in keyRows : Expired(k)
  /\ keyRows' = {k \in keyRows : ~Expired(k)}
  /\ UNCHANGED << req, handler, tx, wallets, ledger, clock >>

Finished ==
  /\ \A p \in Attempts : pc[p] \in {"done", "dead"} /\ ~Live(p)
  /\ UNCHANGED vars

-----------------------------------------------------------------------------
Handler(p) ==
  \/ LockShard(p) \/ RefuseMalformed(p) \/ Begin(p)
  \/ GetResponse(p) \/ CheckAndCreateKey(p)
  \/ LockWallet(p) \/ WalletNotFound(p) \/ Refuse(p)
  \/ UpdateWalletBalance(p) \/ CreateLedgerEntry(p) \/ SaveResponse(p)
  \/ Commit(p) \/ Suspend(p)
  \/ Reply(p) \/ Rollback(p) \/ Unlock(p)

Server(p) == ServerCommit(p) \/ ServerSuspend(p) \/ ServerAbort(p)

Fault(p) == GetResponseFails(p) \/ CallFails(p) \/ RollbackFails(p)

Next ==
  \/ \E p \in Attempts : Arrive(p) \/ Handler(p) \/ Server(p) \/ Fault(p)
  \/ Crash \/ Tick \/ DeleteExpiredKeys \/ Finished

Spec == Init /\ [][Next]_vars

FairSpec ==
  Spec /\ \A p \in Attempts : WF_vars(Handler(p)) /\ WF_vars(Server(p))
-----------------------------------------------------------------------------
(* Types of the variables.                                                 *)
TypeOK ==
  /\ req \in [Attempts -> Requests]
  /\ pc \in [Attempts -> Labels]
  /\ held \in [Attempts -> SUBSET Nat]
  /\ seen \in [Attempts -> [Wallets -> WalletRow]]
  /\ outcome \in [Attempts -> Outcome]
  /\ tx \in [Attempts -> Transaction]
  /\ wallets \in [Wallets -> WalletRow]
  /\ ledger \in [Wallets -> Seq(LedgerEntry)]
  /\ keyRows \in SUBSET KeyRow
  /\ clock \in Nat

Applied == {p \in Attempts : tx[p].status = "committed"}

(* "Operations on the same wallet are serialized at the code level"
   (README.md:31): no two handlers are past their mutexes with a wallet in
   common, transfers in opposite directions and colliding shards included. *)
InMutexes(p) ==
  HasMutexes(p) /\ pc[p] \notin {"idle", "done", "dead"}

SerializedByWallet ==
  \A p, q \in Attempts :
    p # q /\ InMutexes(p) /\ InMutexes(q) =>
      Touched(req[p]) \cap Touched(req[q]) = {}

(* Pessimistic locking (README.md:29): what a handler has read of a wallet
   stays true for as long as its transaction lives, even when the handler
   has already given up and released its mutexes: no lost update.          *)
RowsStable ==
  \A p \in Attempts : \A w \in tx[p].locks : seen[p][w] = wallets[w]

(* The ledger is the history of the balance: every entry takes up the
   balance the one before left, and the last one is the wallet's balance.  *)
After(l, i) == IF i = 0 THEN 0 ELSE l[i].after

LedgerChain ==
  \A w \in Wallets :
    /\ \A i \in 1 .. Len(ledger[w]) :
         ledger[w][i].after = After(ledger[w], i - 1) + ledger[w][i].amount
    /\ wallets[w].balance = After(ledger[w], Len(ledger[w]))

(* Nothing spends what is not there, and every balance fits its column.    *)
BalancesInRange == \A w \in Wallets : wallets[w].balance \in 0 .. MaxNumeric

(* Atomicity (README.md:34): each leg of a transfer in the ledger of one
   wallet has its counterpart, with the opposite amount, in the other's.   *)
TransferPaired ==
  \A v \in Wallets : \A i \in 1 .. Len(ledger[v]) :
    LET e == ledger[v][i] IN
    e.type \in {"TRANSFER_OUT", "TRANSFER_IN"} =>
      \E w \in Wallets \ {v} : \E j \in 1 .. Len(ledger[w]) :
        /\ ledger[w][j].by = e.by
        /\ ledger[w][j].amount = -e.amount
        /\ {e.type, ledger[w][j].type} = {"TRANSFER_OUT", "TRANSFER_IN"}

(* However often, and however concurrently, a client retries, one key moves
   money once within the retention of its row, counted from the start of
   the transaction that created it, and less what the application's clock
   is ahead of the database's.                                             *)
AtMostOncePerKey ==
  \A p, q \in Applied :
    p # q /\ IsMoney(req[p]) /\ IsMoney(req[q]) /\ req[p].key = req[q].key =>
      \/ tx[q].ended > tx[p].begun + Retention - Skew
      \/ tx[p].ended > tx[q].begun + Retention - Skew

(* "Stores and returns the original response on retries" (README.md:32): an
   attempt answered with success stands for a transaction that committed, of
   its very request, and shows the balance that one left.  For clients that
   keep a key to one request, as README.md:51 asks.                        *)
OneRequestPerKey ==
  \A p, q \in Attempts : req[p].key = req[q].key => req[p] = req[q]

ReplayFaithful ==
  \A p \in Attempts :
    OneRequestPerKey /\ outcome[p].kind = "ok" /\ IsMoney(req[p]) =>
      \E q \in Applied :
        /\ req[q] = req[p]
        /\ outcome[p].body.form = "wallet" =>
             \E i \in 1 .. Len(ledger[req[p].to]) :
               /\ ledger[req[p].to][i].by = q
               /\ ledger[req[p].to][i].after = outcome[p].body.balance

(* ... and every attempt of one request is answered with the same response,
   unless money has moved twice under the key.                             *)
SameResponse ==
  \A p, q \in Attempts :
    /\ outcome[p].kind = "ok" /\ outcome[q].kind = "ok"
    /\ req[p] = req[q] /\ IsMoney(req[p])
    => \/ outcome[p].body = outcome[q].body
       \/ \E a, b \in Applied :
            /\ a # b /\ IsMoney(req[a]) /\ IsMoney(req[b])
            /\ req[a].key = req[p].key /\ req[b].key = req[p].key

(* A refusal is final: an attempt refused for its wallets, its amount or its
   key has not moved money and never will.                                 *)
RefusalsAreFinal ==
  \A p \in Attempts :
    outcome[p].kind \in {"rejected", "duplicate"} =>
      tx[p].status \notin {"committing", "committed"}

(* "Already used" is said of a key only when money moved under it, not when
   an attempt was refused or rolled back.                                  *)
DuplicateMeansDone ==
  \A p \in Attempts :
    outcome[p].kind = "duplicate" =>
      \E q \in Applied \ {p} : IsMoney(req[q]) /\ req[q].key = req[p].key

(* A row of idempotency_keys others can see belongs to a transaction that
   committed and has its response: a failed attempt never burns its key, and
   GetResponse never finds one "still processing".                         *)
KeysAreBacked ==
  \A k \in keyRows :
    /\ k.body.form # "null"
    /\ \E q \in Applied : IsMoney(req[q]) /\ req[q].key = k.key

(* "The system stores successful responses for 24 hours" (README.md:52), as
   far as the two clocks agree.                                            *)
ResponsesKept ==
  \A p \in Applied :
    IsMoney(req[p]) /\ clock <= tx[p].begun + Retention - Skew => KeyTaken(p)

(* "Suspended wallets cannot perform transactions" (wallet_handler.go:147):
   from the moment the suspension is visible the row never changes again,
   whatever was under way.                                                 *)
SuspendedFrozen ==
  [][\A w \in Wallets :
       wallets[w].status = "SUSPENDED" => wallets'[w] = wallets[w]]_vars

(* Every request received is answered, unless the process stops.           *)
EveryRequestAnswered ==
  \A p \in Attempts : pc[p] = "mutex" ~> pc[p] \in {"done", "dead"}

(* No transaction keeps its row locks and its key for ever, not even one
   its handler has abandoned.                                              *)
TransactionsEnd == \A p \in Attempts : Live(p) ~> ~Live(p)

(* What makes the safety properties inductive.  First the mutexes.         *)
MutexesExclusive ==
  \A p, q \in Attempts :
    /\ held[p] \subseteq ShardsOf(req[p])
    /\ p # q => held[p] \cap held[q] = {}

(* Row locks are held for live transactions, on the wallets they touch.    *)
RowLocksExclusive ==
  \A p \in Attempts :
    /\ tx[p].locks \subseteq Touched(req[p])
    /\ tx[p].locks # {} => Live(p) /\ IsMoney(req[p])
    /\ \A q \in Attempts \ {p} : tx[p].locks \cap tx[q].locks = {}

(* Every wallet is locked, was read under the lock, and will be written.   *)
Justified(p) ==
  /\ Touched(req[p]) \subseteq tx[p].locks
  /\ tx[p].updated = Touched(req[p])
  /\ ~Malformed(req[p]) /\ ~Refused(req[p], seen[p])
  /\ \A w \in Touched(req[p]) : NewBalance(req[p], seen[p], w) <= MaxNumeric

(* What is true of a transaction at each label of its handler, and of one
   whose COMMIT is sent.                                                   *)
Staged(p) ==
  /\ pc[p] \in {"idle", "mutex"} => tx[p].status = "none"
  /\ tx[p].status = "none" => tx[p] = NoTransaction
  /\ pc[p] \in {"getResponse", "checkKey", "lockRows", "update", "ledger",
                "save", "commit", "rollback"} =>
       tx[p].status = "open"
  /\ tx[p].status = "open" => IsMoney(req[p]) /\ ~Malformed(req[p])
  /\ pc[p] \in {"getResponse", "checkKey", "lockRows"} =>
       tx[p].updated = {} /\ tx[p].logged = {}
  /\ pc[p] = "update" =>
       /\ Touched(req[p]) \subseteq tx[p].locks
       /\ tx[p].logged = {}
       /\ tx[p].updated \subseteq {req[p].from} \ {req[p].to}
       /\ \A w \in tx[p].updated :
            NewBalance(req[p], seen[p], w) <= MaxNumeric
  /\ pc[p] \in {"ledger", "save", "commit"} => Justified(p)
  /\ pc[p] = "ledger" => tx[p].logged \subseteq {req[p].from} \ {req[p].to}
  /\ pc[p] \in {"save", "commit"} => tx[p].logged = Touched(req[p])
  /\ tx[p].status = "committing" /\ IsMoney(req[p]) =>
       Justified(p) /\ tx[p].logged = Touched(req[p])
  /\ tx[p].status = "committed" /\ IsMoney(req[p]) =>
       Touched(req[p]) \subseteq Wallets

Inv ==
  /\ TypeOK
  /\ MutexesExclusive
  /\ RowLocksExclusive
  /\ \A p \in Attempts : Staged(p)
  /\ RowsStable
  /\ LedgerChain

(* What makes the properties about keys, answers and single entries of the
   ledger inductive.  The transactions that moved money, and their keys' rows. *)
Posted == {p \in Applied : IsMoney(req[p])}

RowOf(p) == [key |-> req[p].key, created |-> tx[p].begun, body |-> tx[p].body]

(* What is true of a handler's key, response and answer at each label, and
   of a transaction whose COMMIT is sent.                                  *)
Keyed(p) ==
  /\ tx[p].keyed => IsMoney(req[p])
  /\ pc[p] \in {"lockRows", "update", "ledger", "save", "commit"} => tx[p].keyed
  /\ pc[p] = "commit" => tx[p].body = SavedBody(req[p], seen[p])
  /\ tx[p].status \in {"committing", "committed"} /\ IsMoney(req[p]) =>
       /\ tx[p].keyed /\ ~Malformed(req[p])
       /\ tx[p].body = SavedBody(req[p], seen[p])
  /\ outcome[p].kind # "none" =>
       pc[p] \in {"rollback", "unlock", "done", "dead"}
  /\ outcome[p].kind \in {"rejected", "duplicate"} =>
       tx[p].status \in {"none", "open", "aborted"}
  /\ outcome[p].kind = "ok" => tx[p].status # "committing"

BegunBefore == \A p \in Attempts : tx[p].begun <= clock

(* A key that is being used has no row, and no second user.                *)
UndecidedKeysNew ==
  \A p \in Attempts : Live(p) /\ tx[p].keyed => ~KeyTaken(p) /\ KeyFree(p)

(* Rows are those of transactions that moved money, and until they expire
   all of those.                                                           *)
RowsPosted == \A k \in keyRows : \E q \in Posted : k = RowOf(q)

RowsKept ==
  \A p \in Posted :
    clock <= tx[p].begun + Retention - Skew => RowOf(p) \in keyRows

(* The entries of the ledger are the opening ones and those of transactions
   that moved money, and all of those.                                     *)
EntryOf(p, w) == Entry(p, req[p], seen[p], w)

EntriesPosted ==
  \A w \in Wallets : \A i \in 1 .. Len(ledger[w]) :
    \/ ledger[w][i].type = "TOPUP" /\ ledger[w][i].by = NoAttempt
    \/ \E q \in Posted : w \in Touched(req[q]) /\ ledger[w][i] = EntryOf(q, w)

PostedInLedger ==
  \A p \in Posted : \A w \in Touched(req[p]) :
    \E i \in 1 .. Len(ledger[w]) : ledger[w][i] = EntryOf(p, w)

(* A success stands for a transaction that moved money under the key, and
   is that one's own response.                                             *)
SuccessPosted ==
  \A p \in Attempts :
    outcome[p].kind = "ok" /\ IsMoney(req[p]) =>
      \E q \in Posted :
        /\ req[q].key = req[p].key
        /\ outcome[p].body =
             IF req[p].kind = "Transfer" THEN OkBody ELSE tx[q].body

KeyInv ==
  /\ \A p \in Attempts : Keyed(p)
  /\ BegunBefore
  /\ UndecidedKeysNew
  /\ RowsPosted
  /\ RowsKept
  /\ EntriesPosted
  /\ PostedInLedger
  /\ SuccessPosted
  /\ AtMostOncePerKey
  /\ DuplicateMeansDone

(* The service implements the bank: each COMMIT is one indivisible step of
   it, decided on the balances and statuses of that moment.                *)
B == INSTANCE Bank WITH applied <- Applied

BankSpec == B!Spec

(* The service keeps the promises made of idempotency keys: an operation and
   its response take effect in one step, under a key no kept response has, and
   each answer is true at the moment it is decided.                        *)
Made == [p \in Attempts |-> IF p \in Posted THEN {RowOf(p)} ELSE {}]

Answers ==
  [p \in Attempts |-> IF IsMoney(req[p]) THEN outcome[p] ELSE NoOutcome]

K == INSTANCE Idempotency WITH made <- Made, answer <- Answers

KeySpec == K!Spec

(* No money is made or lost, whatever fails and wherever the process stops:
   in every currency the balances add up to the opening ones, plus the
   top-ups, less the payments that committed.                              *)
Conservation == B!Conservation
=============================================================================
