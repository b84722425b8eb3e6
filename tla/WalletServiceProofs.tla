------------------------ MODULE WalletServiceProofs ------------------------
(***************************************************************************)
(* Theorems about WalletService, for every number of attempts, wallets,    *)
(* shards and connections and every set of requests.                       *)
(*                                                                         *)
(* Inv is inductive.  The lemmas about the operators come first, then one  *)
(* lemma for the part of Inv each variable can disturb, then one for every *)
(* action, and the theorems last.                                          *)
(***************************************************************************)
EXTENDS WalletService, TLAPS

-----------------------------------------------------------------------------
(* The operators on requests and rows.                                     *)

(* A request names ids, and its rounded amount is a number of cents.       *)
LEMMA RequestTypes ==
  ASSUME NEW r \in Requests
  PROVE  /\ Touched(r) \subseteq WalletIds
         /\ RoundedAmount(r) \in Int
         /\ r.key \in Keys
BY RequestsAssumption DEF Touched, RoundedAmount, Round2, Keys

(* The new balance of a row is a number, and so is the change.             *)
LEMMA NewBalanceType ==
  ASSUME NEW r \in Requests, NEW rows \in [Wallets -> WalletRow],
         NEW w \in Wallets
  PROVE  /\ Delta(r, w) \in Int
         /\ NewBalance(r, rows, w) \in Int
         /\ NewBalance(r, rows, w) = rows[w].balance + Delta(r, w)
BY RequestTypes DEF NewBalance, Delta, WalletRow

(* What a handler inserts is a row of the ledger.                          *)
LEMMA EntryIsRow ==
  ASSUME NEW r \in Requests, NEW rows \in [Wallets -> WalletRow],
         NEW w \in Wallets, NEW p \in Attempts
  PROVE  /\ Entry(p, r, rows, w) \in LedgerEntry
         /\ Entry(p, r, rows, w).amount = Delta(r, w)
         /\ Entry(p, r, rows, w).after = NewBalance(r, rows, w)
<1>1. EntryType(r, w) \in EntryTypes
  BY DEF EntryType, EntryTypes
<1> QED
  BY <1>1, NewBalanceType DEF Entry, LedgerEntry

(* What is saved for replay is a body.                                     *)
LEMMA SavedBodyType ==
  ASSUME NEW r \in Requests, NEW rows \in [Wallets -> WalletRow],
         r.to \in Wallets
  PROVE  SavedBody(r, rows) \in Body
<1>1. NewBalance(r, rows, r.to) \in Int
  BY NewBalanceType
<1> QED
  BY <1>1, WalletsAssumption DEF SavedBody, OkBody, WalletBody, Body

(* The opening rows and ledger.                                            *)
LEMMA OpeningTypes ==
  /\ OpeningRows \in [Wallets -> WalletRow]
  /\ OpeningLedger \in [Wallets -> Seq(LedgerEntry)]
<1>1. OpeningRows \in [Wallets -> WalletRow]
  BY WalletsAssumption DEF OpeningRows, WalletRow, Status
<1>2. ASSUME NEW w \in Wallets
      PROVE  OpeningLedger[w] \in Seq(LedgerEntry)
  <2>1. [amount |-> Opening[w], type |-> "TOPUP", after |-> Opening[w],
         by |-> NoAttempt] \in LedgerEntry
    BY WalletsAssumption DEF LedgerEntry, EntryTypes
  <2> QED
    BY <2>1 DEF OpeningLedger
<1> QED
  BY <1>1, <1>2 DEF OpeningLedger

-----------------------------------------------------------------------------
(* What a step leaves alone.                                               *)

Safe ==
  /\ MutexesExclusive
  /\ RowLocksExclusive
  /\ RowsStable
  /\ LedgerChain

(* A handler's step that touches neither its mutexes, its transaction, what
   it has read nor the tables keeps the part of Inv about those.           *)
LEMMA QuietStep ==
  ASSUME Safe, UNCHANGED << req, held, seen, tx, wallets, ledger >>
  PROVE  Safe'
BY DEF Safe, MutexesExclusive, RowLocksExclusive, RowsStable, LedgerChain, Live

(* A step of one attempt keeps the stage of the others.                    *)
LEMMA OtherStages ==
  ASSUME NEW q \in Attempts, Staged(q), UNCHANGED req,
         pc'[q] = pc[q], tx'[q] = tx[q], seen'[q] = seen[q]
  PROVE  Staged(q)'
BY DEF Staged, Justified

(* A step that changes pc, and nothing of a transaction, to a label at which
   the transaction may be anything.                                        *)
LEMMA FreeStage ==
  ASSUME NEW p \in Attempts, Staged(p), UNCHANGED << req, seen, tx >>,
         \/ pc'[p] \in {"await", "unlock", "done", "dead"}
         \/ pc'[p] = "rollback" /\ tx[p].status = "open"
         \/ pc'[p] = "mutex" /\ tx[p].status = "none"
  PROVE  Staged(p)'
BY DEF Staged, Justified

(* A step on the transaction of one attempt that keeps its locks while it
   lives, or gives them all up.                                            *)
LEMMA TransactionStep ==
  ASSUME Safe, NEW p \in Attempts,
         UNCHANGED << req, held, seen, wallets, ledger >>,
         \A q \in Attempts \ {p} : tx'[q] = tx[q],
         \/ /\ tx'[p].locks = tx[p].locks
            /\ tx'[p].status \in {"open", "committing"}
         \/ tx'[p].locks = {}
  PROVE  Safe'
<1>1. MutexesExclusive'
  BY DEF Safe, MutexesExclusive
<1>2. RowLocksExclusive'
  BY DEF Safe, RowLocksExclusive, Live
<1>3. RowsStable'
  BY DEF Safe, RowsStable
<1>4. LedgerChain'
  BY DEF Safe, LedgerChain
<1> QED
  BY <1>1, <1>2, <1>3, <1>4 DEF Safe

-----------------------------------------------------------------------------
(* Steps of the handler that leave its transaction alone.                  *)

LEMMA QuietInv ==
  ASSUME Inv, NEW p \in Attempts, NEW l \in Labels,
         UNCHANGED << req, held, seen, tx, wallets, ledger, keyRows, clock >>,
         pc' = [pc EXCEPT ![p] = l],
         outcome' \in [Attempts -> Outcome],
         Staged(p)'
  PROVE  Inv'
<1>1. TypeOK'
  BY DEF Inv, TypeOK
<1>2. Safe'
  BY QuietStep DEF Inv, Safe
<1>3. \A q \in Attempts : Staged(q)'
  <2>1. \A q \in Attempts \ {p} : pc'[q] = pc[q]
    BY DEF Inv, TypeOK
  <2> QED
    BY <2>1, OtherStages DEF Inv
<1> QED
  BY <1>1, <1>2, <1>3 DEF Inv, Safe

(* The type of what a handler decides.                                     *)
LEMMA DecideType ==
  ASSUME TypeOK, NEW p \in Attempts, NEW b \in Body,
         NEW kind \in {"none", "ok", "duplicate", "rejected", "failed"},
         Decide(p, kind, b)
  PROVE  outcome' \in [Attempts -> Outcome]
BY DEF TypeOK, Decide, Outcome

LEMMA NullBodyType == NullBody \in Body /\ OkBody \in Body
BY DEF NullBody, OkBody, Body

LEMMA ArriveInv ==
  ASSUME Inv, NEW p \in Attempts, Arrive(p)
  PROVE  Inv'
<1>1. pc' = [pc EXCEPT ![p] = "mutex"] /\ pc'[p] = "mutex"
  BY DEF Arrive, Goto, Inv, TypeOK
<1>2. Staged(p)'
  BY <1>1, FreeStage DEF Arrive, Inv, Staged
<1> QED
  BY <1>1, <1>2, QuietInv DEF Arrive, Labels, tables, Inv, TypeOK

LEMMA RefuseMalformedInv ==
  ASSUME Inv, NEW p \in Attempts, RefuseMalformed(p)
  PROVE  Inv'
<1>1. pc' = [pc EXCEPT ![p] = "unlock"] /\ pc'[p] = "unlock"
  BY DEF RefuseMalformed, Goto, Inv, TypeOK
<1>2. Staged(p)'
  BY <1>1, FreeStage DEF RefuseMalformed, Inv
<1>3. outcome' \in [Attempts -> Outcome]
  BY DecideType, NullBodyType DEF RefuseMalformed, Inv
<1> QED
  BY <1>1, <1>2, <1>3, QuietInv DEF RefuseMalformed, Labels, tables

(* Not finding the key leads to checkKey, finding it to rollback.          *)
LEMMA GetResponseInv ==
  ASSUME Inv, NEW p \in Attempts, GetResponse(p)
  PROVE  Inv'
<1>1. tx[p].status = "open" /\ UNCHANGED << req, seen, tx >>
  BY DEF GetResponse, Inv, Staged
<1>2. CASE Goto(p, "checkKey") /\ UNCHANGED outcome
  <2>1. pc' = [pc EXCEPT ![p] = "checkKey"] /\ pc'[p] = "checkKey"
    BY <1>2 DEF Goto, Inv, TypeOK
  <2>2. Staged(p)'
    BY <1>1, <2>1 DEF GetResponse, Inv, Staged
  <2> QED
    BY <1>2, <2>1, <2>2, QuietInv
    DEF GetResponse, Labels, tables, Inv, TypeOK
<1>3. ASSUME NEW k \in Answered(p), Goto(p, "rollback"),
             IF Replayable(req[p], k.body)
             THEN Decide(p, "ok",
                         IF req[p].kind = "Transfer" THEN OkBody ELSE k.body)
             ELSE Decide(p, "duplicate", NullBody)
      PROVE  Inv'
  <2>1. pc' = [pc EXCEPT ![p] = "rollback"] /\ pc'[p] = "rollback"
    BY <1>3 DEF Goto, Inv, TypeOK
  <2>2. Staged(p)'
    BY <1>1, <2>1, FreeStage DEF Inv
  <2>3. k.body \in Body
    BY DEF Answered, Inv, TypeOK, KeyRow
  <2>4. outcome' \in [Attempts -> Outcome]
    BY <1>3, <2>3, DecideType, NullBodyType DEF Inv
  <2> QED
    BY <2>1, <2>2, <2>4, QuietInv DEF GetResponse, Labels, tables
<1> QED
  BY <1>2, <1>3 DEF GetResponse

LEMMA GetResponseFailsInv ==
  ASSUME Inv, NEW p \in Attempts, GetResponseFails(p)
  PROVE  Inv'
<1>1. pc' = [pc EXCEPT ![p] = "checkKey"] /\ pc'[p] = "checkKey"
  BY DEF GetResponseFails, Goto, Inv, TypeOK
<1>2. Staged(p)'
  BY <1>1 DEF GetResponseFails, Inv, Staged
<1> QED
  BY <1>1, <1>2, QuietInv
  DEF GetResponseFails, Labels, tables, Inv, TypeOK

(* Both refusals at lockRows and update lead to rollback.                  *)
LEMMA RefusalInv ==
  ASSUME Inv, NEW p \in Attempts, WalletNotFound(p) \/ Refuse(p)
  PROVE  Inv'
<1>1. pc' = [pc EXCEPT ![p] = "rollback"] /\ pc'[p] = "rollback"
  BY DEF WalletNotFound, Refuse, Goto, Inv, TypeOK
<1>2. UNCHANGED << req, held, seen, tx, wallets, ledger, keyRows, clock >>
  BY DEF WalletNotFound, Refuse, tables
<1>3. tx[p].status = "open"
  BY DEF WalletNotFound, Refuse, Inv, Staged
<1>4. Staged(p)'
  BY <1>1, <1>2, <1>3, FreeStage DEF Inv
<1>5. outcome' \in [Attempts -> Outcome]
  BY DecideType, NullBodyType DEF WalletNotFound, Refuse, Inv
<1> QED
  BY <1>1, <1>2, <1>4, <1>5, QuietInv DEF Labels

(* A transfer's, a top-up's or a payment's reply shows the balance read.   *)
LEMMA ReplyInv ==
  ASSUME Inv, NEW p \in Attempts, Reply(p)
  PROVE  Inv'
<1>1. pc' = [pc EXCEPT ![p] = "unlock"] /\ pc'[p] = "unlock"
  BY DEF Reply, Goto, Inv, TypeOK
<1>2. Staged(p)'
  BY <1>1, FreeStage DEF Reply, Inv
<1>3. outcome' \in [Attempts -> Outcome]
  <2>1. tx[p].status = "committed" /\ IsMoney(req[p]) =>
          SavedBody(req[p], seen[p]) \in Body
    BY SavedBodyType DEF Inv, Staged, TypeOK, Touched
  <2> QED
    BY <2>1, DecideType, NullBodyType DEF Reply, Inv
<1> QED
  BY <1>1, <1>2, <1>3, QuietInv DEF Reply, Labels, tables

LEMMA CallFailsInv ==
  ASSUME Inv, NEW p \in Attempts, CallFails(p)
  PROVE  Inv'
<1>1. outcome' \in [Attempts -> Outcome]
  BY DecideType, NullBodyType DEF CallFails, Inv
<1>2. UNCHANGED << req, held, seen, tx, wallets, ledger, keyRows, clock >>
  BY DEF CallFails, tables
<1>3. CASE Goto(p, "unlock")
  <2>1. pc' = [pc EXCEPT ![p] = "unlock"] /\ pc'[p] = "unlock"
    BY <1>3 DEF Goto, Inv, TypeOK
  <2>2. Staged(p)'
    BY <1>2, <2>1, FreeStage DEF Inv
  <2> QED
    BY <1>1, <1>2, <2>1, <2>2, QuietInv DEF Labels
<1>4. CASE /\ pc[p] \in {"checkKey", "lockRows", "update", "ledger", "save",
                         "commit"}
           /\ Goto(p, "rollback")
  <2>1. pc' = [pc EXCEPT ![p] = "rollback"] /\ pc'[p] = "rollback"
    BY <1>4 DEF Goto, Inv, TypeOK
  <2>2. tx[p].status = "open"
    BY <1>4 DEF Inv, Staged
  <2>3. Staged(p)'
    BY <1>2, <2>1, <2>2, FreeStage DEF Inv
  <2> QED
    BY <1>1, <1>2, <2>1, <2>3, QuietInv DEF Labels
<1> QED
  BY <1>3, <1>4 DEF CallFails

LEMMA RollbackFailsInv ==
  ASSUME Inv, NEW p \in Attempts, RollbackFails(p)
  PROVE  Inv'
<1>1. pc' = [pc EXCEPT ![p] = "unlock"] /\ pc'[p] = "unlock"
  BY DEF RollbackFails, Goto, Inv, TypeOK
<1>2. Staged(p)'
  BY <1>1, FreeStage DEF RollbackFails, Inv
<1> QED
  BY <1>1, <1>2, QuietInv DEF RollbackFails, Labels, tables, Inv, TypeOK

-----------------------------------------------------------------------------
(* Steps on the mutexes.                                                   *)

LEMMA LockShardInv ==
  ASSUME Inv, NEW p \in Attempts, LockShard(p)
  PROVE  Inv'
<1>1. PICK s \in ShardsOf(req[p]) \ held[p] :
        /\ \A q \in Attempts : s \notin held[q]
        /\ held' = [held EXCEPT ![p] = @ \cup {s}]
  BY DEF LockShard
<1>2. s \in Nat
  BY RequestTypes, WalletsAssumption DEF ShardsOf, Inv, TypeOK
<1>3. TypeOK'
  BY <1>1, <1>2 DEF LockShard, tables, Inv, TypeOK
<1>4. MutexesExclusive'
  BY <1>1 DEF LockShard, Inv, TypeOK, MutexesExclusive
<1>5. (RowLocksExclusive /\ RowsStable /\ LedgerChain)'
  BY DEF LockShard, tables, Inv, RowLocksExclusive, RowsStable, LedgerChain,
         Live
<1>6. \A q \in Attempts : Staged(q)'
  BY OtherStages DEF LockShard, Inv
<1> QED
  BY <1>3, <1>4, <1>5, <1>6 DEF Inv

LEMMA UnlockInv ==
  ASSUME Inv, NEW p \in Attempts, Unlock(p)
  PROVE  Inv'
<1>1. TypeOK'
  BY DEF Unlock, Goto, tables, Labels, Inv, TypeOK
<1>2. MutexesExclusive'
  BY DEF Unlock, Inv, TypeOK, MutexesExclusive
<1>3. (RowLocksExclusive /\ RowsStable /\ LedgerChain)'
  BY DEF Unlock, tables, Inv, RowLocksExclusive, RowsStable, LedgerChain, Live
<1>4. \A q \in Attempts : Staged(q)'
  <2>1. pc'[p] = "done" /\ \A q \in Attempts \ {p} : pc'[q] = pc[q]
    BY DEF Unlock, Goto, Inv, TypeOK
  <2> QED
    BY <2>1, FreeStage, OtherStages DEF Unlock, Inv
<1> QED
  BY <1>1, <1>2, <1>3, <1>4 DEF Inv

(* All running handlers die with their mutexes; transactions stay.         *)
LEMMA CrashInv ==
  ASSUME Inv, Crash
  PROVE  Inv'
<1>1. TypeOK'
  BY DEF Crash, tables, Labels, Inv, TypeOK
<1>2. MutexesExclusive'
  BY DEF Crash, MutexesExclusive
<1>3. (RowLocksExclusive /\ RowsStable /\ LedgerChain)'
  BY DEF Crash, tables, Inv, RowLocksExclusive, RowsStable, LedgerChain, Live
<1>4. ASSUME NEW q \in Attempts
      PROVE  Staged(q)'
  <2>1. pc'[q] = "dead" \/ pc'[q] = pc[q]
    BY DEF Crash
  <2> QED
    BY <2>1, FreeStage, OtherStages DEF Crash, Inv
<1> QED
  BY <1>1, <1>2, <1>3, <1>4 DEF Inv

-----------------------------------------------------------------------------
(* Steps of a handler on its own transaction.                              *)

(* Putting them together.                                                  *)
LEMMA OwnStepInv ==
  ASSUME Inv, NEW p \in Attempts, NEW t \in Transaction, NEW l \in Labels,
         UNCHANGED << req, held, seen, wallets, ledger, keyRows, clock >>,
         tx' = [tx EXCEPT ![p] = t],
         pc' = [pc EXCEPT ![p] = l],
         outcome' \in [Attempts -> Outcome],
         \/ t.locks = tx[p].locks /\ t.status \in {"open", "committing"}
         \/ t.locks = {},
         Staged(p)'
  PROVE  Inv'
<1>1. tx'[p] = t /\ \A q \in Attempts \ {p} : tx'[q] = tx[q] /\ pc'[q] = pc[q]
  BY DEF Inv, TypeOK
<1>2. TypeOK'
  BY DEF Inv, TypeOK
<1>3. Safe'
  BY <1>1, TransactionStep DEF Inv, Safe
<1>4. \A q \in Attempts : Staged(q)'
  BY <1>1, OtherStages DEF Inv
<1> QED
  BY <1>2, <1>3, <1>4 DEF Inv, Safe

LEMMA BeginInv ==
  ASSUME Inv, NEW p \in Attempts, Begin(p)
  PROVE  Inv'
<1> DEFINE t == [tx[p] EXCEPT !.status = "open", !.begun = clock]
<1>1. tx[p].locks = {} /\ tx[p].updated = {} /\ tx[p].logged = {}
  <2>1. tx[p] = NoTransaction
    BY DEF Begin, Inv, Staged
  <2> QED
    BY <2>1 DEF NoTransaction
<1>2. /\ t \in Transaction
      /\ t.locks = {} /\ t.updated = {} /\ t.logged = {}
      /\ t.status = "open"
  BY <1>1 DEF Transaction, Inv, TypeOK
<1>3. tx' = [tx EXCEPT ![p] = t] /\ tx'[p] = t
  BY DEF Begin, Inv, TypeOK
<1>4. pc' = [pc EXCEPT ![p] = "getResponse"] /\ pc'[p] = "getResponse"
  BY DEF Begin, Goto, Inv, TypeOK
<1>5. Staged(p)'
  BY <1>2, <1>3, <1>4 DEF Begin, Staged
<1> QED
  BY <1>2, <1>3, <1>4, <1>5, OwnStepInv
  DEF Begin, tables, Labels, Inv, TypeOK

LEMMA SuspendInv ==
  ASSUME Inv, NEW p \in Attempts, Suspend(p)
  PROVE  Inv'
<1> DEFINE t == [tx[p] EXCEPT !.status = "committing", !.begun = clock]
<1>1. tx[p].locks = {} /\ tx[p].updated = {} /\ tx[p].logged = {}
  <2>1. tx[p] = NoTransaction
    BY DEF Suspend, Inv, Staged
  <2> QED
    BY <2>1 DEF NoTransaction
<1>2. /\ t \in Transaction
      /\ t.locks = {} /\ t.updated = {} /\ t.logged = {}
      /\ t.status = "committing"
  BY <1>1 DEF Transaction, Inv, TypeOK
<1>3. tx' = [tx EXCEPT ![p] = t] /\ tx'[p] = t
  BY DEF Suspend, Inv, TypeOK
<1>4. pc' = [pc EXCEPT ![p] = "await"] /\ pc'[p] = "await"
  BY DEF Suspend, Goto, Inv, TypeOK
<1>5. Staged(p)'
  BY <1>2, <1>3, <1>4 DEF Suspend, Staged
<1> QED
  BY <1>2, <1>3, <1>4, <1>5, OwnStepInv
  DEF Suspend, tables, Labels, Inv, TypeOK

LEMMA CheckAndCreateKeyInv ==
  ASSUME Inv, NEW p \in Attempts, CheckAndCreateKey(p)
  PROVE  Inv'
<1>1. tx[p].status = "open"
  BY DEF CheckAndCreateKey, Inv, Staged
<1>2. CASE KeyTaken(p)
  <2>1. pc' = [pc EXCEPT ![p] = "rollback"] /\ pc'[p] = "rollback"
    BY <1>2 DEF CheckAndCreateKey, Goto, Inv, TypeOK
  <2>2. Staged(p)'
    BY <1>1, <1>2, <2>1, FreeStage DEF CheckAndCreateKey, Inv
  <2>3. outcome' \in [Attempts -> Outcome]
    BY <1>2, DecideType, NullBodyType DEF CheckAndCreateKey, Inv
  <2> QED
    BY <1>2, <2>1, <2>2, <2>3, QuietInv
    DEF CheckAndCreateKey, Labels, tables
<1>3. CASE ~KeyTaken(p)
  <2> DEFINE t == [tx[p] EXCEPT !.keyed = TRUE]
  <2>1. t \in Transaction /\ t.locks = tx[p].locks /\ t.status = "open"
    BY <1>1 DEF Transaction, Inv, TypeOK
  <2>2. tx' = [tx EXCEPT ![p] = t] /\ tx'[p] = t
    BY <1>3 DEF CheckAndCreateKey, Inv, TypeOK
  <2>3. pc' = [pc EXCEPT ![p] = "lockRows"] /\ pc'[p] = "lockRows"
    BY <1>3 DEF CheckAndCreateKey, Goto, Inv, TypeOK
  <2>4. tx'[p].updated = tx[p].updated /\ tx'[p].logged = tx[p].logged
    BY <2>2 DEF Inv, TypeOK, Transaction
  <2>5. Staged(p)'
    BY <2>1, <2>2, <2>3, <2>4 DEF CheckAndCreateKey, Inv, Staged
  <2> QED
    BY <1>3, <2>1, <2>2, <2>3, <2>5, OwnStepInv
    DEF CheckAndCreateKey, tables, Labels, Inv, TypeOK
<1> QED
  BY <1>2, <1>3

(* A row is locked and read in one step: nobody else has it, and nobody
   else's reading of it is disturbed.                                      *)
LEMMA LockWalletInv ==
  ASSUME Inv, NEW p \in Attempts, LockWallet(p)
  PROVE  Inv'
<1>1. PICK w \in Wallets :
        /\ w \in Touched(req[p])
        /\ RowFree(p, w)
        /\ tx' = [tx EXCEPT ![p].locks = @ \cup {w}]
        /\ seen' = [seen EXCEPT ![p][w] = wallets[w]]
        /\ IF Touched(req[p]) \subseteq tx[p].locks \cup {w}
           THEN Goto(p, "update") ELSE UNCHANGED pc
  BY DEF LockWallet, NextRow
<1> DEFINE t == [tx[p] EXCEPT !.locks = @ \cup {w}]
<1>2. tx[p].status = "open" /\ tx[p].updated = {} /\ tx[p].logged = {}
      /\ IsMoney(req[p]) /\ ~Malformed(req[p])
  BY DEF LockWallet, Inv, Staged
<1>3. /\ t \in Transaction
      /\ t.locks = tx[p].locks \cup {w} /\ t.status = "open"
      /\ t.updated = {} /\ t.logged = {}
  BY <1>2 DEF Transaction, Inv, TypeOK
<1>4. tx'[p] = t /\ \A q \in Attempts \ {p} : tx'[q] = tx[q]
  BY <1>1 DEF Inv, TypeOK
<1>5. /\ pc' \in [Attempts -> Labels]
      /\ \A q \in Attempts \ {p} : pc'[q] = pc[q]
      /\ \/ pc'[p] = "lockRows"
         \/ pc'[p] = "update" /\ Touched(req[p]) \subseteq t.locks
  BY <1>1, <1>3 DEF LockWallet, Goto, Labels, Inv, TypeOK
<1>6. /\ seen' \in [Attempts -> [Wallets -> WalletRow]]
      /\ \A q \in Attempts \ {p} : seen'[q] = seen[q]
      /\ seen'[p] = [seen[p] EXCEPT ![w] = wallets[w]]
  BY <1>1 DEF Inv, TypeOK
<1>7. UNCHANGED << req, held, outcome, wallets, ledger, keyRows, clock >>
  BY DEF LockWallet, tables
<1>8. TypeOK'
  BY <1>1, <1>3, <1>5, <1>6, <1>7 DEF Inv, TypeOK
<1>9. RowLocksExclusive'
  <2>1. \A q \in Attempts \ {p} : w \notin tx[q].locks
    BY <1>1 DEF RowFree, Inv, RowLocksExclusive
  <2> QED
    BY <1>1, <1>2, <1>3, <1>4, <1>7, <2>1 DEF Inv, RowLocksExclusive, Live
<1>10. RowsStable'
  <2>1. ASSUME NEW v \in tx'[p].locks
        PROVE  seen'[p][v] = wallets'[v]
    <3>1. v \in Wallets /\ (v = w \/ v \in tx[p].locks)
      BY <1>3, <1>4 DEF Transaction
    <3>2. seen'[p][v] = IF v = w THEN wallets[w] ELSE seen[p][v]
      BY <1>6, <3>1 DEF Inv, TypeOK
    <3> QED
      BY <1>7, <3>1, <3>2 DEF Inv, RowsStable
  <2>2. ASSUME NEW q \in Attempts \ {p}, NEW v \in tx'[q].locks
        PROVE  seen'[q][v] = wallets'[v]
    BY <1>4, <1>6, <1>7 DEF Inv, RowsStable
  <2> QED
    BY <2>1, <2>2 DEF RowsStable
<1>11. (MutexesExclusive /\ LedgerChain)'
  BY <1>7 DEF Inv, MutexesExclusive, LedgerChain
<1>12. \A q \in Attempts : Staged(q)'
  <2>1. Staged(p)'
    BY <1>2, <1>3, <1>4, <1>5, <1>7 DEF Staged
  <2> QED
    BY <2>1, <1>4, <1>5, <1>6, <1>7, OtherStages DEF Inv
<1> QED
  BY <1>8, <1>9, <1>10, <1>11, <1>12 DEF Inv

(* The wallet a transfer writes second is the credited one.                *)
LEMMA NextOfTouched ==
  ASSUME NEW p \in Attempts, NEW done,
         done \subseteq {req[p].from} \ {req[p].to}
  PROVE  /\ NextOf(p, done) \in Touched(req[p])
         /\ NextOf(p, done) = req[p].to =>
              done \cup {NextOf(p, done)} = Touched(req[p])
         /\ NextOf(p, done) # req[p].to =>
              done \cup {NextOf(p, done)} \subseteq {req[p].from} \ {req[p].to}
BY DEF NextOf, Touched

LEMMA UpdateWalletBalanceInv ==
  ASSUME Inv, NEW p \in Attempts, UpdateWalletBalance(p)
  PROVE  Inv'
<1> DEFINE w == NextOf(p, tx[p].updated)
           t == [tx[p] EXCEPT !.updated = @ \cup {w}]
<1>1. /\ pc[p] = "update" /\ tx[p].status = "open"
      /\ ~Malformed(req[p]) /\ ~Refused(req[p], seen[p])
      /\ IsMoney(req[p])
      /\ UNCHANGED << req, held, seen, wallets, ledger, keyRows, clock >>
  BY DEF UpdateWalletBalance, tables, Inv, Staged
<1>2. /\ Touched(req[p]) \subseteq tx[p].locks
      /\ tx[p].logged = {}
      /\ tx[p].updated \subseteq {req[p].from} \ {req[p].to}
      /\ \A v \in tx[p].updated : NewBalance(req[p], seen[p], v) <= MaxNumeric
  BY <1>1 DEF Inv, Staged
<1>3. /\ w \in Touched(req[p]) /\ w \in Wallets
      /\ NewBalance(req[p], seen[p], w) \in Int
  <2>1. w \in Touched(req[p])
    BY <1>2, NextOfTouched
  <2>2. w \in Wallets
    BY <1>2, <2>1 DEF Inv, TypeOK, Transaction
  <2>3. req[p] \in Requests /\ seen[p] \in [Wallets -> WalletRow]
    BY DEF Inv, TypeOK
  <2> QED
    BY <2>1, <2>2, <2>3, NewBalanceType
<1>4. CASE NewBalance(req[p], seen[p], w) > MaxNumeric
  <2>1. pc' = [pc EXCEPT ![p] = "rollback"] /\ pc'[p] = "rollback"
        /\ UNCHANGED tx
    BY <1>4 DEF UpdateWalletBalance, Goto, Inv, TypeOK
  <2>2. Staged(p)'
    BY <1>1, <2>1, FreeStage DEF Inv
  <2>3. outcome' \in [Attempts -> Outcome]
    BY <1>4, DecideType, NullBodyType DEF UpdateWalletBalance, Inv
  <2> QED
    BY <1>1, <2>1, <2>2, <2>3, QuietInv DEF Labels
<1>5. CASE ~(NewBalance(req[p], seen[p], w) > MaxNumeric)
  <2>1. tx' = [tx EXCEPT ![p] = t] /\ tx'[p] = t /\ UNCHANGED outcome
    BY <1>5 DEF UpdateWalletBalance, Inv, TypeOK
  <2>2. /\ t \in Transaction
        /\ t.locks = tx[p].locks /\ t.status = "open" /\ t.logged = {}
        /\ t.updated = tx[p].updated \cup {w}
    BY <1>1, <1>2, <1>3 DEF Inv, TypeOK, Transaction
  <2>3. \A v \in t.updated : NewBalance(req[p], seen[p], v) <= MaxNumeric
    BY <1>2, <1>3, <1>5, <2>2, WalletsAssumption
  <2>4. CASE w = req[p].to
    <3>1. pc' = [pc EXCEPT ![p] = "ledger"] /\ pc'[p] = "ledger"
      BY <1>5, <2>4 DEF UpdateWalletBalance, Goto, Inv, TypeOK
    <3>2. t.updated = Touched(req[p])
      BY <1>2, <2>2, <2>4, NextOfTouched
    <3>3. Justified(p)'
      BY <1>1, <1>2, <2>1, <2>2, <2>3, <3>2 DEF Justified
    <3>4. Staged(p)'
      BY <1>1, <2>1, <2>2, <3>1, <3>3 DEF Staged
    <3> QED
      BY <1>1, <2>1, <2>2, <3>1, <3>4, OwnStepInv DEF Labels, Inv, TypeOK
  <2>5. CASE w # req[p].to
    <3>1. pc' = [pc EXCEPT ![p] = "update"] /\ pc'[p] = "update"
      BY <1>1, <1>5, <2>5 DEF UpdateWalletBalance, Inv, TypeOK
    <3>2. t.updated \subseteq {req[p].from} \ {req[p].to}
      BY <1>2, <2>2, <2>5, NextOfTouched
    <3>3. Staged(p)'
      BY <1>1, <1>2, <2>1, <2>2, <2>3, <3>1, <3>2 DEF Staged
    <3> QED
      BY <1>1, <2>1, <2>2, <3>1, <3>3, OwnStepInv DEF Labels, Inv, TypeOK
  <2> QED
    BY <2>4, <2>5
<1> QED
  BY <1>4, <1>5

LEMMA CreateLedgerEntryInv ==
  ASSUME Inv, NEW p \in Attempts, CreateLedgerEntry(p)
  PROVE  Inv'
<1> DEFINE w == NextOf(p, tx[p].logged)
           t == [tx[p] EXCEPT !.logged = @ \cup {w}]
           l == IF w = req[p].to THEN "save" ELSE "ledger"
<1>1. /\ pc[p] = "ledger" /\ tx[p].status = "open"
      /\ IsMoney(req[p]) /\ Justified(p)
      /\ tx[p].logged \subseteq {req[p].from} \ {req[p].to}
      /\ UNCHANGED << req, held, seen, outcome, wallets, ledger, keyRows, clock >>
  BY DEF CreateLedgerEntry, tables, Inv, Staged
<1>2. w \in Touched(req[p]) /\ w \in Wallets
  BY <1>1, NextOfTouched DEF Justified, Inv, TypeOK, Transaction
<1>3. tx' = [tx EXCEPT ![p] = t] /\ tx'[p] = t
  BY DEF CreateLedgerEntry, Inv, TypeOK
<1>4. /\ t \in Transaction
      /\ t.locks = tx[p].locks /\ t.status = "open"
      /\ t.updated = tx[p].updated /\ t.logged = tx[p].logged \cup {w}
  BY <1>1, <1>2 DEF Inv, TypeOK, Transaction
<1>5. Justified(p)'
  BY <1>1, <1>3, <1>4 DEF Justified
<1>6. pc' = [pc EXCEPT ![p] = l] /\ pc'[p] = l
  BY <1>1 DEF CreateLedgerEntry, Goto, Inv, TypeOK
<1>7. /\ l = "save" => t.logged = Touched(req[p])
      /\ l = "ledger" => t.logged \subseteq {req[p].from} \ {req[p].to}
  BY <1>1, <1>4, NextOfTouched
<1>8. Staged(p)'
  <2> HIDE DEF w
  <2>1. l \in {"save", "ledger"} /\ tx'[p].status = "open"
    BY <1>3, <1>4
  <2>2. ~Malformed(req'[p]) /\ req'[p] = req[p]
    BY <1>1 DEF Justified
  <2> HIDE DEF t, l
  <2> QED
    BY <1>1, <1>3, <1>4, <1>5, <1>6, <1>7, <2>1, <2>2 DEF Staged
<1> QED
  BY <1>1, <1>3, <1>4, <1>6, <1>8, OwnStepInv DEF Labels, Inv, TypeOK

LEMMA SaveResponseInv ==
  ASSUME Inv, NEW p \in Attempts, SaveResponse(p)
  PROVE  Inv'
<1> DEFINE t == [tx[p] EXCEPT !.body = SavedBody(req[p], seen[p])]
<1>1. /\ tx[p].status = "open" /\ IsMoney(req[p]) /\ Justified(p)
      /\ tx[p].logged = Touched(req[p])
      /\ UNCHANGED << req, held, seen, outcome, wallets, ledger, keyRows, clock >>
  BY DEF SaveResponse, tables, Inv, Staged
<1>2. SavedBody(req[p], seen[p]) \in Body
  BY <1>1, SavedBodyType DEF Justified, Touched, Inv, TypeOK, Transaction
<1>3. tx' = [tx EXCEPT ![p] = t] /\ tx'[p] = t
  BY DEF SaveResponse, Inv, TypeOK
<1>4. /\ t \in Transaction
      /\ t.locks = tx[p].locks /\ t.status = "open"
      /\ t.updated = tx[p].updated /\ t.logged = tx[p].logged
  BY <1>1, <1>2 DEF Inv, TypeOK, Transaction
<1>5. Justified(p)'
  BY <1>1, <1>3, <1>4 DEF Justified
<1>6. pc' = [pc EXCEPT ![p] = "commit"] /\ pc'[p] = "commit"
  BY DEF SaveResponse, Goto, Inv, TypeOK
<1>7. Staged(p)'
  BY <1>1, <1>3, <1>4, <1>5, <1>6 DEF Staged, Justified
<1> QED
  BY <1>1, <1>3, <1>4, <1>6, <1>7, OwnStepInv DEF Labels, Inv, TypeOK

LEMMA CommitInv ==
  ASSUME Inv, NEW p \in Attempts, Commit(p)
  PROVE  Inv'
<1> DEFINE t == [tx[p] EXCEPT !.status = "committing"]
<1>1. /\ Justified(p) /\ tx[p].logged = Touched(req[p])
      /\ UNCHANGED << req, held, seen, outcome, wallets, ledger, keyRows, clock >>
  BY DEF Commit, tables, Inv, Staged
<1>2. tx' = [tx EXCEPT ![p] = t] /\ tx'[p] = t
  BY DEF Commit, Inv, TypeOK
<1>3. /\ t \in Transaction
      /\ t.locks = tx[p].locks /\ t.status = "committing"
      /\ t.updated = tx[p].updated /\ t.logged = tx[p].logged
  BY DEF Inv, TypeOK, Transaction
<1>4. Justified(p)'
  BY <1>1, <1>2, <1>3 DEF Justified
<1>5. pc' = [pc EXCEPT ![p] = "await"] /\ pc'[p] = "await"
  BY DEF Commit, Goto, Inv, TypeOK
<1>6. Staged(p)'
  BY <1>1, <1>2, <1>3, <1>4, <1>5 DEF Staged
<1> QED
  BY <1>1, <1>2, <1>3, <1>5, <1>6, OwnStepInv DEF Labels, Inv, TypeOK

-----------------------------------------------------------------------------
(* Steps of the server, and the end of a transaction.                      *)

(* An ended transaction has no locks; what else it says is kept.           *)
LEMMA EndedTransaction ==
  ASSUME Inv, NEW p \in Attempts, NEW status \in {"committed", "aborted"},
         Ended(p, status)
  PROVE  /\ tx' \in [Attempts -> Transaction]
         /\ \A q \in Attempts \ {p} : tx'[q] = tx[q]
         /\ tx'[p].locks = {} /\ tx'[p].status = status
<1> DEFINE t == [tx[p] EXCEPT !.status = status, !.ended = clock, !.locks = {}]
<1>1. t \in Transaction /\ t.locks = {} /\ t.status = status
  BY DEF Inv, TypeOK, Transaction
<1>2. tx' = [tx EXCEPT ![p] = t]
  BY DEF Ended, Inv, TypeOK
<1> HIDE DEF t
<1> QED
  BY <1>1, <1>2 DEF Inv, TypeOK

LEMMA RollbackInv ==
  ASSUME Inv, NEW p \in Attempts, Rollback(p)
  PROVE  Inv'
<1>1. /\ tx' \in [Attempts -> Transaction]
      /\ \A q \in Attempts \ {p} : tx'[q] = tx[q]
      /\ tx'[p].locks = {} /\ tx'[p].status = "aborted"
  BY EndedTransaction DEF Rollback
<1>2. /\ pc' \in [Attempts -> Labels] /\ pc'[p] = "unlock"
      /\ \A q \in Attempts \ {p} : pc'[q] = pc[q]
  BY DEF Rollback, Goto, Labels, Inv, TypeOK
<1>3. UNCHANGED << req, held, seen, outcome, wallets, ledger, keyRows, clock >>
  BY DEF Rollback, tables
<1>4. TypeOK'
  BY <1>1, <1>2, <1>3 DEF Inv, TypeOK
<1>5. Safe'
  BY <1>1, <1>3, TransactionStep DEF Inv, Safe
<1>6. Staged(p)'
  BY <1>1, <1>2 DEF Staged
<1> QED
  BY <1>1, <1>2, <1>3, <1>4, <1>5, <1>6, OtherStages DEF Inv, Safe

LEMMA ServerAbortInv ==
  ASSUME Inv, NEW p \in Attempts, ServerAbort(p)
  PROVE  Inv'
<1>1. /\ tx' \in [Attempts -> Transaction]
      /\ \A q \in Attempts \ {p} : tx'[q] = tx[q]
      /\ tx'[p].locks = {} /\ tx'[p].status = "aborted"
  BY EndedTransaction DEF ServerAbort
<1>2. UNCHANGED << req, pc, held, seen, outcome, wallets, ledger, keyRows, clock >>
  BY DEF ServerAbort, handler, tables
<1>3. TypeOK'
  BY <1>1, <1>2 DEF Inv, TypeOK
<1>4. Safe'
  BY <1>1, <1>2, TransactionStep DEF Inv, Safe
<1>5. pc[p] \in {"await", "unlock", "done", "dead"}
  BY DEF ServerAbort, Orphan, Inv, TypeOK, Labels, Staged
<1>6. Staged(p)'
  BY <1>1, <1>2, <1>5 DEF Staged
<1> QED
  BY <1>1, <1>2, <1>3, <1>4, <1>6, OtherStages DEF Inv, Safe

(* Where a handler is when its transaction is being committed.             *)
LEMMA CommittingLabels ==
  ASSUME Inv, NEW p \in Attempts, tx[p].status = "committing"
  PROVE  pc[p] \in {"await", "unlock", "done", "dead"}
BY DEF Inv, TypeOK, Labels, Staged

(* The rows a COMMIT makes visible: those the transaction has locked, so
   what it read of them is still what they are.                            *)
LEMMA CommitEffect ==
  ASSUME Inv, NEW p \in Attempts, ServerCommit(p)
  PROVE  /\ Justified(p) /\ IsMoney(req[p])
         /\ Touched(req[p]) \subseteq Wallets
         /\ \A w \in Touched(req[p]) : seen[p][w] = wallets[w]
         /\ wallets' = [w \in Wallets |->
                          IF w \in Touched(req[p])
                          THEN [wallets[w] EXCEPT
                                  !.balance = NewBalance(req[p], seen[p], w)]
                          ELSE wallets[w]]
         /\ ledger' = [w \in Wallets |->
                         IF w \in Touched(req[p])
                         THEN Append(ledger[w], Entry(p, req[p], seen[p], w))
                         ELSE ledger[w]]
<1>1. Justified(p) /\ tx[p].logged = Touched(req[p]) /\ IsMoney(req[p])
  BY DEF ServerCommit, Inv, Staged
<1>2. Touched(req[p]) \subseteq tx[p].locks /\ tx[p].updated = Touched(req[p])
  BY <1>1 DEF Justified
<1>3. Touched(req[p]) \subseteq Wallets
  BY <1>2 DEF Inv, TypeOK, Transaction
<1>4. \A w \in Touched(req[p]) : seen[p][w] = wallets[w]
  BY <1>2 DEF Inv, RowsStable
<1> QED
  BY <1>1, <1>2, <1>3, <1>4 DEF ServerCommit

LEMMA ServerCommitInv ==
  ASSUME Inv, NEW p \in Attempts, ServerCommit(p)
  PROVE  Inv'
<1>1. /\ tx' \in [Attempts -> Transaction]
      /\ \A q \in Attempts \ {p} : tx'[q] = tx[q]
      /\ tx'[p].locks = {} /\ tx'[p].status = "committed"
  BY EndedTransaction DEF ServerCommit
<1>2. UNCHANGED << req, pc, held, seen, outcome, clock >>
  BY DEF ServerCommit, handler
<1>3. req[p] \in Requests /\ seen[p] \in [Wallets -> WalletRow]
  BY DEF Inv, TypeOK
<1>4. \A w \in Touched(req[p]) :
        /\ w \in Wallets
        /\ NewBalance(req[p], seen[p], w) \in Int
        /\ NewBalance(req[p], seen[p], w)
             = wallets[w].balance + Entry(p, req[p], seen[p], w).amount
        /\ Entry(p, req[p], seen[p], w) \in LedgerEntry
        /\ Entry(p, req[p], seen[p], w).after = NewBalance(req[p], seen[p], w)
  <2> TAKE w \in Touched(req[p])
  <2>1. w \in Wallets /\ seen[p][w] = wallets[w]
    BY CommitEffect
  <2> QED
    BY <1>3, <2>1, NewBalanceType, EntryIsRow
<1>5. TypeOK'
  <2>1. wallets' \in [Wallets -> WalletRow]
    <3>1. ASSUME NEW w \in Touched(req[p])
          PROVE  [wallets[w] EXCEPT !.balance = NewBalance(req[p], seen[p], w)]
                   \in WalletRow
      BY <1>4 DEF Inv, TypeOK, WalletRow
    <3> QED
      BY <3>1, CommitEffect DEF Inv, TypeOK
  <2>2. ledger' \in [Wallets -> Seq(LedgerEntry)]
    <3>1. ASSUME NEW w \in Touched(req[p])
          PROVE  Append(ledger[w], Entry(p, req[p], seen[p], w))
                   \in Seq(LedgerEntry)
      BY <1>4 DEF Inv, TypeOK
    <3>2. \A w \in Wallets : ledger[w] \in Seq(LedgerEntry)
      BY DEF Inv, TypeOK
    <3>3. ledger' = [w \in Wallets |->
                      IF w \in Touched(req[p])
                      THEN Append(ledger[w], Entry(p, req[p], seen[p], w))
                      ELSE ledger[w]]
      BY CommitEffect
    <3> QED
      BY <3>1, <3>2, <3>3, Zenon
  <2>3. keyRows' \in SUBSET KeyRow
    <3>1. req[p].key \in Keys
      BY <1>3, RequestTypes
    <3>2. tx[p].begun \in Nat /\ tx[p].body \in Body
      BY DEF Inv, TypeOK, Transaction
    <3> QED
      BY <3>1, <3>2 DEF ServerCommit, Inv, TypeOK, KeyRow
  <2> QED
    BY <1>1, <1>2, <2>1, <2>2, <2>3 DEF Inv, TypeOK
<1>6. MutexesExclusive'
  BY <1>2 DEF Inv, MutexesExclusive
<1>7. RowLocksExclusive'
  BY <1>1, <1>2 DEF Inv, RowLocksExclusive, Live
<1>8. RowsStable'
  <2>1. ASSUME NEW q \in Attempts, NEW w \in tx'[q].locks
        PROVE  seen'[q][w] = wallets'[w]
    <3>1. q # p /\ w \in tx[q].locks /\ w \in Wallets
      BY <1>1, <2>1 DEF Inv, TypeOK, Transaction
    <3>2. w \notin Touched(req[p])
      BY <3>1, CommitEffect DEF Justified, Inv, RowLocksExclusive
    <3> QED
      BY <1>2, <3>1, <3>2, CommitEffect DEF Inv, RowsStable
  <2> QED
    BY <2>1 DEF RowsStable
<1>9. LedgerChain'
  <2> SUFFICES ASSUME NEW w \in Wallets
               PROVE  /\ \A i \in 1 .. Len(ledger'[w]) :
                           ledger'[w][i].after =
                             After(ledger'[w], i - 1) + ledger'[w][i].amount
                      /\ wallets'[w].balance = After(ledger'[w], Len(ledger'[w]))
    BY DEF LedgerChain, After
  <2>1. /\ ledger[w] \in Seq(LedgerEntry)
        /\ \A i \in 1 .. Len(ledger[w]) :
             ledger[w][i].after = After(ledger[w], i - 1) + ledger[w][i].amount
        /\ wallets[w].balance = After(ledger[w], Len(ledger[w]))
    BY DEF Inv, TypeOK, LedgerChain
  <2>2. CASE w \notin Touched(req[p])
    BY <2>1, <2>2, CommitEffect
  <2>3. CASE w \in Touched(req[p])
    <3> DEFINE e == Entry(p, req[p], seen[p], w)
               n == Len(ledger[w]) + 1
    <3>1. /\ ledger'[w] = Append(ledger[w], e)
          /\ wallets'[w].balance = NewBalance(req[p], seen[p], w)
      BY <2>3, CommitEffect DEF Inv, TypeOK, WalletRow
    <3>2. /\ e \in LedgerEntry
          /\ e.after = wallets'[w].balance
          /\ e.after = wallets[w].balance + e.amount
      BY <1>4, <2>3, <3>1
    <3> HIDE DEF e
    <3>3. /\ Len(ledger'[w]) = n /\ n \in Nat \ {0}
          /\ ledger'[w][n] = e
          /\ \A i \in 1 .. n - 1 : ledger'[w][i] = ledger[w][i]
      BY <2>1, <3>1, <3>2
    <3> HIDE DEF n
    <3>4. \A i \in 0 .. n - 1 : After(ledger'[w], i) = After(ledger[w], i)
      BY <3>3 DEF After
    <3>5. n - 1 = Len(ledger[w])
      BY <2>1 DEF n
    <3>6. ASSUME NEW i \in 1 .. n
          PROVE  ledger'[w][i].after =
                   After(ledger'[w], i - 1) + ledger'[w][i].amount
      <4>1. CASE i = n
        BY <2>1, <3>2, <3>3, <3>4, <3>5, <4>1
      <4>2. CASE i # n
        <5>1. i \in 1 .. n - 1 /\ i - 1 \in 0 .. n - 1
          BY <3>3, <4>2
        <5> QED
          BY <2>1, <3>3, <3>4, <3>5, <5>1
      <4> QED
        BY <4>1, <4>2
    <3>7. After(ledger'[w], n) = e.after
      BY <3>3 DEF After
    <3> QED
      BY <3>2, <3>3, <3>6, <3>7
  <2> QED
    BY <2>2, <2>3
<1>10. \A q \in Attempts : Staged(q)'
  <2>1. Staged(p)'
    BY <1>1, <1>2, CommittingLabels, CommitEffect DEF ServerCommit, Staged
  <2> QED
    BY <2>1, <1>1, <1>2, OtherStages DEF Inv
<1> QED
  BY <1>5, <1>6, <1>7, <1>8, <1>9, <1>10 DEF Inv

(* A suspension waits for the row, so nobody has read what it changes.     *)
LEMMA ServerSuspendInv ==
  ASSUME Inv, NEW p \in Attempts, ServerSuspend(p)
  PROVE  Inv'
<1>1. /\ tx' \in [Attempts -> Transaction]
      /\ \A q \in Attempts \ {p} : tx'[q] = tx[q]
      /\ tx'[p].locks = {} /\ tx'[p].status = "committed"
  BY EndedTransaction DEF ServerSuspend
<1>2. UNCHANGED << req, pc, held, seen, outcome, ledger, keyRows, clock >>
  BY DEF ServerSuspend, handler
<1>3. wallets' \in [Wallets -> WalletRow]
  BY DEF ServerSuspend, Inv, TypeOK, WalletRow, Status
<1>4. \A w \in Wallets :
        /\ wallets'[w].balance = wallets[w].balance
        /\ w # req[p].to => wallets'[w] = wallets[w]
  BY DEF ServerSuspend, Inv, TypeOK, WalletRow
<1>5. TypeOK'
  BY <1>1, <1>2, <1>3 DEF Inv, TypeOK
<1>6. MutexesExclusive'
  BY <1>2 DEF Inv, MutexesExclusive
<1>7. RowLocksExclusive'
  BY <1>1, <1>2 DEF Inv, RowLocksExclusive, Live
<1>8. RowsStable'
  <2>1. ASSUME NEW q \in Attempts, NEW w \in tx'[q].locks
        PROVE  seen'[q][w] = wallets'[w]
    <3>1. q # p /\ w \in tx[q].locks /\ w \in Wallets
      BY <1>1, <2>1 DEF Inv, TypeOK, Transaction
    <3>2. Live(q)
      BY <3>1 DEF Inv, RowLocksExclusive
    <3>3. w # req[p].to
      BY <3>1, <3>2 DEF ServerSuspend, RowFree
    <3> QED
      BY <1>2, <1>4, <3>1, <3>3 DEF Inv, RowsStable
  <2> QED
    BY <2>1 DEF RowsStable
<1>9. LedgerChain'
  BY <1>2, <1>4 DEF Inv, LedgerChain, After
<1>10. \A q \in Attempts : Staged(q)'
  <2>1. Staged(p)'
    BY <1>1, <1>2, CommittingLabels DEF ServerSuspend, Staged
  <2> QED
    BY <2>1, <1>1, <1>2, OtherStages DEF Inv
<1> QED
  BY <1>5, <1>6, <1>7, <1>8, <1>9, <1>10 DEF Inv

-----------------------------------------------------------------------------
(* The worker, the clock, and steps that change nothing.                   *)

LEMMA BackgroundInv ==
  ASSUME Inv, Tick \/ DeleteExpiredKeys \/ Finished \/ UNCHANGED vars
  PROVE  Inv'
<1>1. /\ UNCHANGED << req, pc, held, seen, outcome, tx, wallets, ledger >>
      /\ clock' \in Nat /\ keyRows' \in SUBSET KeyRow
  BY DEF Tick, DeleteExpiredKeys, Finished, vars, handler, tables, Inv, TypeOK
<1>2. TypeOK'
  BY <1>1 DEF Inv, TypeOK
<1>3. Safe'
  BY <1>1, QuietStep DEF Inv, Safe
<1> QED
  BY <1>1, <1>2, <1>3, OtherStages DEF Inv, Safe

-----------------------------------------------------------------------------
(* The invariant.                                                          *)

LEMMA InitInv == Init => Inv
<1> SUFFICES ASSUME Init PROVE Inv
  OBVIOUS
<1>1. NoOutcome \in Outcome /\ NoTransaction \in Transaction
  BY NullBodyType DEF NoOutcome, Outcome, NoTransaction, Transaction
<1>2. TypeOK
  BY <1>1, OpeningTypes DEF Init, TypeOK, Labels
<1>3. \A p \in Attempts : tx[p].locks = {} /\ held[p] = {}
  BY DEF Init, NoTransaction
<1>4. MutexesExclusive /\ RowLocksExclusive /\ RowsStable
  BY <1>3 DEF MutexesExclusive, RowLocksExclusive, RowsStable
<1>5. LedgerChain
  <2> SUFFICES ASSUME NEW w \in Wallets
               PROVE  /\ \A i \in 1 .. Len(ledger[w]) :
                           ledger[w][i].after =
                             After(ledger[w], i - 1) + ledger[w][i].amount
                      /\ wallets[w].balance = After(ledger[w], Len(ledger[w]))
    BY DEF LedgerChain
  <2>1. wallets[w].balance = Opening[w] /\ Opening[w] \in Nat
    BY WalletsAssumption DEF Init, OpeningRows
  <2>2. CASE Opening[w] = 0
    <3>1. ledger[w] = << >>
      BY <2>2 DEF Init, OpeningLedger
    <3> QED
      BY <2>1, <2>2, <3>1 DEF After
  <2>3. CASE Opening[w] # 0
    <3>1. /\ Len(ledger[w]) = 1
          /\ ledger[w][1].after = Opening[w] /\ ledger[w][1].amount = Opening[w]
      BY <2>3 DEF Init, OpeningLedger
    <3> QED
      BY <2>1, <3>1 DEF After
  <2> QED
    BY <2>2, <2>3
<1>6. \A p \in Attempts : Staged(p)
  BY DEF Init, Staged, NoTransaction
<1> QED
  BY <1>2, <1>4, <1>5, <1>6 DEF Inv

LEMMA NextInv == Inv /\ [Next]_vars => Inv'
<1> SUFFICES ASSUME Inv, [Next]_vars PROVE Inv'
  OBVIOUS
<1>1. ASSUME NEW p \in Attempts, Arrive(p) PROVE Inv'
  BY <1>1, ArriveInv
<1>2. ASSUME NEW p \in Attempts, Handler(p) PROVE Inv'
  BY <1>2, LockShardInv, RefuseMalformedInv, BeginInv, GetResponseInv,
     CheckAndCreateKeyInv, LockWalletInv, RefusalInv, UpdateWalletBalanceInv,
     CreateLedgerEntryInv, SaveResponseInv, CommitInv, SuspendInv, ReplyInv,
     RollbackInv, UnlockInv
  DEF Handler
<1>3. ASSUME NEW p \in Attempts, Server(p) PROVE Inv'
  BY <1>3, ServerCommitInv, ServerSuspendInv, ServerAbortInv DEF Server
<1>4. ASSUME NEW p \in Attempts, Fault(p) PROVE Inv'
  BY <1>4, GetResponseFailsInv, CallFailsInv, RollbackFailsInv DEF Fault
<1> QED
  BY <1>1, <1>2, <1>3, <1>4, CrashInv, BackgroundInv DEF Next

(* Inv holds of every state the service reaches.                           *)
THEOREM Invariance == Spec => []Inv
BY InitInv, NextInv, PTL DEF Spec

(* Type correctness of the handlers, their transactions and the tables.    *)
THEOREM TypeCorrect == Spec => []TypeOK
BY Invariance, PTL DEF Inv

(* The sharded mutexes serialize the operations on a wallet, whatever the
   hash: two handlers that hold all their mutexes share no wallet.         *)
THEOREM MutexesSerialize == Spec => []SerializedByWallet
<1>1. Inv => SerializedByWallet
  BY DEF Inv, MutexesExclusive, SerializedByWallet, InMutexes, HasMutexes,
         ShardsOf
<1> QED
  BY <1>1, Invariance, PTL

(* No update is lost: what a transaction has read of a locked row is still
   the row, even after its handler has gone.                               *)
THEOREM NoLostUpdate == Spec => []RowsStable
BY Invariance, PTL DEF Inv

(* Every balance is the last link of an unbroken chain of ledger entries.  *)
THEOREM LedgerIsTheHistory == Spec => []LedgerChain
BY Invariance, PTL DEF Inv

-----------------------------------------------------------------------------
(* The implementation of the bank.                                         *)

(* The bank's operators are the service's.                                 *)
LEMMA SameOps ==
  ASSUME NEW r \in Requests, NEW rows, NEW w, NEW p
  PROVE  /\ B!IsMoney(r) <=> IsMoney(r)
         /\ B!Malformed(r) <=> Malformed(r)
         /\ B!Touched(r) = Touched(r)
         /\ B!Refused(r, rows) <=> Refused(r, rows)
         /\ B!NewBalance(r, rows, w) = NewBalance(r, rows, w)
         /\ B!Entry(p, r, rows, w) = Entry(p, r, rows, w)
BY DEF B!IsMoney, IsMoney, B!Malformed, Malformed, B!RoundedAmount,
       RoundedAmount, B!Round2, Round2, B!Touched, Touched, B!Refused, Refused,
       B!CurrencyMismatch, CurrencyMismatch, B!Suspended, Suspended,
       B!Insufficient, Insufficient, B!Debited, Debited, B!NewBalance,
       NewBalance, B!Delta, Delta, B!Entry, Entry, B!EntryType, EntryType

(* What was read of the rows decides, and the rows are still so.           *)
LEMMA CommitRefines ==
  ASSUME Inv, NEW p \in Attempts, ServerCommit(p)
  PROVE  B!Post(p)
<1>1. /\ \A q \in Attempts \ {p} : tx'[q] = tx[q]
      /\ tx'[p].status = "committed" /\ tx[p].status = "committing"
  BY EndedTransaction DEF ServerCommit
<1>2. p \notin Applied /\ Applied' = Applied \cup {p}
  BY <1>1 DEF Applied
<1>3. req[p] \in Requests
  BY DEF Inv, TypeOK
<1>4. /\ IsMoney(req[p]) /\ ~Malformed(req[p])
      /\ Touched(req[p]) \subseteq Wallets
  BY CommitEffect DEF Justified
<1>5. /\ Refused(req[p], seen[p]) <=> Refused(req[p], wallets)
      /\ \A w \in Touched(req[p]) :
           /\ NewBalance(req[p], seen[p], w) = NewBalance(req[p], wallets, w)
           /\ Entry(p, req[p], seen[p], w) = Entry(p, req[p], wallets, w)
  <2>1. \A w \in Touched(req[p]) : seen[p][w] = wallets[w]
    BY CommitEffect
  <2> QED
    BY <2>1 DEF Refused, Suspended, Insufficient, NewBalance, Entry
<1>6. /\ ~Refused(req[p], wallets)
      /\ \A w \in Touched(req[p]) :
           NewBalance(req[p], wallets, w) <= MaxNumeric
  BY <1>5, CommitEffect DEF Justified
<1>7. wallets' = [w \in Wallets |->
                   IF w \in Touched(req[p])
                   THEN [wallets[w] EXCEPT
                           !.balance = NewBalance(req[p], wallets, w)]
                   ELSE wallets[w]]
  BY <1>5, CommitEffect
<1>8. ledger' = [w \in Wallets |->
                  IF w \in Touched(req[p])
                  THEN Append(ledger[w], Entry(p, req[p], wallets, w))
                  ELSE ledger[w]]
  BY <1>5, CommitEffect
<1>9. UNCHANGED req
  BY DEF ServerCommit
<1> QED
  BY <1>2, <1>3, <1>4, <1>6, <1>7, <1>8, <1>9, SameOps DEF B!Post

LEMMA SuspendRefines ==
  ASSUME Inv, NEW p \in Attempts, ServerSuspend(p)
  PROVE  B!Suspend(p)
<1>1. /\ \A q \in Attempts \ {p} : tx'[q] = tx[q]
      /\ tx'[p].status = "committed" /\ tx[p].status = "committing"
  BY EndedTransaction DEF ServerSuspend
<1>2. p \notin Applied /\ Applied' = Applied \cup {p}
  BY <1>1 DEF Applied
<1>3. req[p] \in Requests
  BY DEF Inv, TypeOK
<1> QED
  BY <1>2, <1>3, SameOps DEF ServerSuspend, B!Suspend

(* A step that commits nothing is none of the bank's.                      *)
LEMMA Uncommitted ==
  ASSUME NEW p \in Attempts,
         UNCHANGED << req, wallets, ledger >>,
         \A q \in Attempts \ {p} : tx'[q] = tx[q],
         tx'[p].status = "committed" <=> tx[p].status = "committed"
  PROVE  UNCHANGED B!vars
BY DEF B!vars, Applied

(* The handlers, the failures, the worker and the clock change no wallet.  *)
LEMMA OtherStepsStutter ==
  ASSUME Inv,
         \/ \E p \in Attempts :
              Arrive(p) \/ Handler(p) \/ ServerAbort(p) \/ Fault(p)
         \/ Crash \/ Tick \/ DeleteExpiredKeys \/ Finished \/ UNCHANGED vars
  PROVE  UNCHANGED B!vars
<1>1. CASE UNCHANGED << req, wallets, ledger, tx >>
  BY <1>1 DEF B!vars, Applied
<1>2. ASSUME NEW p \in Attempts,
             \/ Arrive(p) \/ LockShard(p) \/ RefuseMalformed(p) \/ GetResponse(p)
             \/ WalletNotFound(p) \/ Refuse(p) \/ Reply(p) \/ Unlock(p)
             \/ Fault(p)
      PROVE  UNCHANGED << req, wallets, ledger, tx >>
  BY <1>2 DEF Arrive, LockShard, RefuseMalformed, GetResponse, WalletNotFound,
     Refuse, Reply, Unlock, Fault, GetResponseFails, CallFails, RollbackFails,
     tables
<1>3. ASSUME Crash \/ Tick \/ DeleteExpiredKeys \/ Finished \/ UNCHANGED vars
      PROVE  UNCHANGED << req, wallets, ledger, tx >>
  BY <1>3 DEF Crash, Tick, DeleteExpiredKeys, Finished, vars, tables
<1>4. ASSUME NEW p \in Attempts,
             \/ Begin(p) \/ Suspend(p) \/ CheckAndCreateKey(p) \/ LockWallet(p)
             \/ UpdateWalletBalance(p) \/ CreateLedgerEntry(p)
             \/ SaveResponse(p) \/ Commit(p)
      PROVE  UNCHANGED B!vars
  <2>1. UNCHANGED << req, wallets, ledger >>
    BY <1>4 DEF Begin, Suspend, CheckAndCreateKey, LockWallet,
       UpdateWalletBalance, CreateLedgerEntry, SaveResponse, Commit, tables
  <2>2. tx[p].status \in {"none", "open"}
    BY <1>4 DEF Begin, Suspend, CheckAndCreateKey, LockWallet,
       UpdateWalletBalance, CreateLedgerEntry, SaveResponse, Commit,
       Inv, Staged
  <2>3. /\ \A q \in Attempts \ {p} : tx'[q] = tx[q]
        /\ tx'[p].status \in {"none", "open", "committing"}
    <3>1. CASE Begin(p) \/ Suspend(p) \/ Commit(p)
      BY <3>1 DEF Begin, Suspend, Commit, Inv, TypeOK, Transaction
    <3>2. CASE CheckAndCreateKey(p)
      BY <3>2, <2>2 DEF CheckAndCreateKey, Inv, TypeOK, Transaction
    <3>3. CASE LockWallet(p)
      BY <3>3, <2>2 DEF LockWallet, Inv, TypeOK, Transaction
    <3>4. CASE UpdateWalletBalance(p)
      BY <3>4, <2>2 DEF UpdateWalletBalance, Inv, TypeOK, Transaction
    <3>5. CASE CreateLedgerEntry(p) \/ SaveResponse(p)
      BY <3>5, <2>2 DEF CreateLedgerEntry, SaveResponse, Inv, TypeOK,
         Transaction
    <3> QED
      BY <1>4, <3>1, <3>2, <3>3, <3>4, <3>5
  <2> QED
    BY <2>1, <2>2, <2>3, Uncommitted
<1>5. ASSUME NEW p \in Attempts, Rollback(p) \/ ServerAbort(p)
      PROVE  UNCHANGED B!vars
  <2>1. UNCHANGED << req, wallets, ledger >>
    BY <1>5 DEF Rollback, ServerAbort, handler, tables
  <2>2. tx[p].status # "committed"
    BY <1>5 DEF Rollback, ServerAbort, Orphan, Live, Inv, Staged
  <2>3. /\ \A q \in Attempts \ {p} : tx'[q] = tx[q]
        /\ tx'[p].status = "aborted"
    BY <1>5, EndedTransaction DEF Rollback, ServerAbort
  <2> QED
    BY <2>1, <2>2, <2>3, Uncommitted
<1> QED
  BY <1>1, <1>2, <1>3, <1>4, <1>5 DEF Handler

(* The service implements the bank: however many requests run at once,
   whatever fails and wherever the process stops, each commit is one
   indivisible operation of the bank and nothing else changes a wallet.    *)
THEOREM ServiceImplementsBank == Spec => BankSpec
<1>1. Init => B!Init
  BY DEF Init, B!Init, Applied, NoTransaction, OpeningRows, B!OpeningRows,
         OpeningLedger, B!OpeningLedger
<1>2. Inv /\ [Next]_vars => [B!Next]_(B!vars)
  <2> SUFFICES ASSUME Inv, [Next]_vars
               PROVE  B!Next \/ UNCHANGED B!vars
    OBVIOUS
  <2>1. ASSUME NEW p \in Attempts, ServerCommit(p) PROVE B!Next
    BY <2>1, CommitRefines DEF B!Next
  <2>2. ASSUME NEW p \in Attempts, ServerSuspend(p) PROVE B!Next
    BY <2>2, SuspendRefines DEF B!Next
  <2> QED
    BY <2>1, <2>2, OtherStepsStutter DEF Next, Server
<1> QED
  BY <1>1, <1>2, Invariance, PTL DEF Spec, BankSpec, B!Spec

-----------------------------------------------------------------------------
(* What the bank promises the service keeps: the theorems of BankProofs.   *)
BP == INSTANCE BankProofs WITH applied <- Applied

(* The bank they are about is the one the service implements.              *)
LEMMA SameBank == BankSpec <=> BP!Spec
<1>1. B!Init <=> BP!Init
  BY DEF B!Init, BP!Init, B!OpeningRows, BP!OpeningRows, B!OpeningLedger,
         BP!OpeningLedger
<1>2. /\ \A r : B!IsMoney(r) <=> BP!IsMoney(r)
      /\ \A r : B!Touched(r) = BP!Touched(r)
      /\ \A r : B!RoundedAmount(r) = BP!RoundedAmount(r)
      /\ \A r, w : B!Debited(r, w) <=> BP!Debited(r, w)
      /\ \A r, w : B!EntryType(r, w) = BP!EntryType(r, w)
  BY DEF B!IsMoney, BP!IsMoney, B!Touched, BP!Touched, B!RoundedAmount,
         BP!RoundedAmount, B!Round2, BP!Round2, B!Debited, BP!Debited,
         B!EntryType, BP!EntryType
<1>3. /\ \A r : B!Malformed(r) <=> BP!Malformed(r)
      /\ \A r, rows : B!Refused(r, rows) <=> BP!Refused(r, rows)
      /\ \A r, w : B!Delta(r, w) = BP!Delta(r, w)
  BY <1>2 DEF B!Malformed, BP!Malformed, B!Refused, BP!Refused,
         B!CurrencyMismatch, BP!CurrencyMismatch, B!Suspended, BP!Suspended,
         B!Insufficient, BP!Insufficient, B!Delta, BP!Delta
<1>4. /\ \A r, rows, w : B!NewBalance(r, rows, w) = BP!NewBalance(r, rows, w)
      /\ \A p, r, rows, w : B!Entry(p, r, rows, w) = BP!Entry(p, r, rows, w)
  BY <1>2, <1>3 DEF B!NewBalance, BP!NewBalance, B!Entry, BP!Entry
<1>5. ASSUME NEW p \in Attempts
      PROVE  (B!Post(p) <=> BP!Post(p)) /\ (B!Suspend(p) <=> BP!Suspend(p))
  BY <1>2, <1>3, <1>4 DEF B!Post, BP!Post, B!Suspend, BP!Suspend
<1>6. [B!Next]_(B!vars) <=> [BP!Next]_(BP!vars)
  BY <1>5 DEF B!Next, BP!Next, B!vars, BP!vars
<1> QED
  BY <1>1, <1>6, PTL DEF BankSpec, B!Spec, BP!Spec

LEMMA SameBalances == Conservation <=> BP!Conservation
BY DEF Conservation, B!Conservation, BP!Conservation, B!SumOver, BP!SumOver,
       B!MapThenFoldSet, BP!MapThenFoldSet, B!Balances, BP!Balances, B!Flows,
       BP!Flows, B!Of, BP!Of, B!MovedIn, BP!MovedIn, B!Delta, BP!Delta,
       B!Debited, BP!Debited, B!RoundedAmount, BP!RoundedAmount, B!Round2,
       BP!Round2, B!IsMoney, BP!IsMoney

(* No money is made or lost, whatever fails and wherever the process stops:
   in every currency the balances are what the opening ones, the top-ups and
   the payments that committed make them, and transfers cancel out.        *)
THEOREM MoneyConserved == Spec => []Conservation
<1>1. BP!WalletsAssumption /\ BP!RequestsAssumption
  BY WalletsAssumption, RequestsAssumption
     DEF BP!WalletsAssumption, BP!RequestsAssumption, BP!IsFiniteSet,
         IsFiniteSet, BP!Kinds, Kinds
<1> QED
  BY <1>1, ServiceImplementsBank, SameBank, SameBalances, BP!BankConserves, PTL

-----------------------------------------------------------------------------
(* What follows of the wallets.                                            *)

(* A step changes the wallets as a commit, as a suspension, or not at all. *)
LEMMA WalletSteps ==
  ASSUME Inv, [Next]_vars
  PROVE  \/ \E p \in Attempts : ServerCommit(p) \/ ServerSuspend(p)
         \/ UNCHANGED wallets
BY OtherStepsStutter DEF Next, Server, B!vars

(* A commit leaves balances that fit their column: a debit is covered by
   what the row held under its lock, and a credit is positive.             *)
LEMMA CommittedBalance ==
  ASSUME Inv, BalancesInRange, NEW p \in Attempts, ServerCommit(p),
         NEW w \in Touched(req[p])
  PROVE  NewBalance(req[p], seen[p], w) \in 0 .. MaxNumeric
<1>1. /\ req[p] \in Requests /\ seen[p] \in [Wallets -> WalletRow]
      /\ w \in Wallets
  BY CommitEffect DEF Inv, TypeOK
<1>2. /\ NewBalance(req[p], seen[p], w) <= MaxNumeric
      /\ seen[p][w] = wallets[w]
  BY <1>1, CommitEffect DEF Justified, Inv, TypeOK, WalletRow
<1>3. /\ RoundedAmount(req[p]) \in Int /\ RoundedAmount(req[p]) > 0
      /\ ~Insufficient(req[p], seen[p])
  BY <1>1, CommitEffect, RequestTypes DEF Justified, Malformed, Refused
<1>4. NewBalance(req[p], seen[p], w) >= 0
  <2>1. seen[p][w].balance \in 0 .. MaxNumeric
    BY <1>1, <1>2 DEF BalancesInRange
  <2>2. Debited(req[p], w) => seen[p][w].balance >= RoundedAmount(req[p])
    BY <1>3, <2>1, WalletsAssumption DEF Insufficient
  <2> QED
    BY <1>3, <2>1, <2>2, WalletsAssumption DEF NewBalance, Delta
<1> QED
  BY <1>1, <1>2, <1>4, NewBalanceType, WalletsAssumption

(* No balance is ever negative or too long for its column.                 *)
THEOREM NothingOverdrawn == Spec => []BalancesInRange
<1>1. Init => BalancesInRange
  <2> SUFFICES ASSUME Init, NEW w \in Wallets
               PROVE  wallets[w].balance \in 0 .. MaxNumeric
    BY DEF BalancesInRange
  <2>1. wallets[w].balance = Opening[w]
    BY DEF Init, OpeningRows
  <2> QED
    BY <2>1, WalletsAssumption
<1>2. Inv /\ BalancesInRange /\ [Next]_vars => BalancesInRange'
  <2> SUFFICES ASSUME Inv, BalancesInRange, [Next]_vars PROVE BalancesInRange'
    OBVIOUS
  <2>1. ASSUME NEW p \in Attempts, ServerCommit(p) PROVE BalancesInRange'
    <3> SUFFICES ASSUME NEW w \in Wallets
                 PROVE  wallets'[w].balance \in 0 .. MaxNumeric
      BY DEF BalancesInRange
    <3>1. CASE w \notin Touched(req[p])
      BY <2>1, <3>1, CommitEffect DEF BalancesInRange
    <3>2. CASE w \in Touched(req[p])
      <4>1. wallets'[w].balance = NewBalance(req[p], seen[p], w)
        BY <2>1, <3>2, CommitEffect DEF Inv, TypeOK, WalletRow
      <4> QED
        BY <2>1, <3>2, <4>1, CommittedBalance
    <3> QED
      BY <3>1, <3>2
  <2>2. ASSUME NEW p \in Attempts, ServerSuspend(p) PROVE BalancesInRange'
    BY <2>2 DEF ServerSuspend, BalancesInRange, Inv, TypeOK, WalletRow
  <2>3. CASE UNCHANGED wallets
    BY <2>3 DEF BalancesInRange
  <2> QED
    BY <2>1, <2>2, <2>3, WalletSteps
<1> QED
  BY <1>1, <1>2, Invariance, PTL DEF Spec

(* A suspended wallet never changes again, not even by what was under way
   when it was suspended.                                                  *)
THEOREM SuspensionIsFinal == Spec => SuspendedFrozen
<1>1. Inv /\ [Next]_vars =>
        \A w \in Wallets :
          wallets[w].status = "SUSPENDED" => wallets'[w] = wallets[w]
  <2> SUFFICES ASSUME Inv, [Next]_vars, NEW w \in Wallets,
                      wallets[w].status = "SUSPENDED"
               PROVE  wallets'[w] = wallets[w]
    OBVIOUS
  <2>1. ASSUME NEW p \in Attempts, ServerCommit(p)
        PROVE  wallets'[w] = wallets[w]
    <3>1. ~Suspended(req[p], seen[p])
      BY <2>1, CommitEffect DEF Justified, Refused
    <3>2. w \notin Touched(req[p])
      BY <2>1, <3>1, CommitEffect DEF Suspended
    <3> QED
      BY <2>1, <3>2, CommitEffect
  <2>2. ASSUME NEW p \in Attempts, ServerSuspend(p)
        PROVE  wallets'[w] = wallets[w]
    <3>1. [wallets[w] EXCEPT !.status = "SUSPENDED"] = wallets[w]
      BY DEF Inv, TypeOK, WalletRow
    <3> QED
      BY <2>2, <3>1 DEF ServerSuspend
  <2> QED
    BY <2>1, <2>2, WalletSteps
<1> QED
  BY <1>1, Invariance, PTL DEF Spec, SuspendedFrozen
=============================================================================
