----------------------------- MODULE WalletOps -----------------------------
(***************************************************************************)
(* The vocabulary of the e-wallet: rows of the wallets, ledger and         *)
(* idempotency_keys tables, the requests clients send, and the arithmetic  *)
(* the service does on them.  Nothing here has state; Bank and             *)
(* WalletService both extend it.                                           *)
(*                                                                         *)
(* Amounts in requests are in mills (a tenth of a cent): three decimals    *)
(* are enough to tell apart everything Round(2) does.  Balances and ledger *)
(* amounts are in cents, the unit of a NUMERIC(20, 2) column.              *)
(*                                                                         *)
(* Some definitions are preceded by one like them with a plausible         *)
(* mistake, with which a property fails; nothing uses those.               *)
(***************************************************************************)
EXTENDS Integers, Sequences, FiniteSets

CONSTANTS
  Wallets,     \* ids of the rows of the wallets table
  WalletIds,   \* ids a request may name: the rows, and ids of no row
  NoWallet,    \* the wallet of a body that carries none
  Currency,    \* [Wallets -> currency code], never updated
  Opening,     \* [Wallets -> cents], the balance each wallet starts with
  NumShards,   \* walletLockShards
  Shard,       \* [WalletIds -> 0 .. NumShards - 1], getShard
  UUIDRank,    \* [WalletIds -> Nat], the order of the ids as strings
  MaxNumeric,  \* the largest number of cents a NUMERIC(20, 2) column holds
  Attempts,    \* handler invocations, one for each HTTP request received
  NoAttempt,   \* the author of a ledger entry older than the run
  Requests     \* the payloads clients send

Kinds == {"TopUp", "Payment", "Transfer", "Suspend"}

Status == {"ACTIVE", "SUSPENDED"}

WalletRow == [balance : Int, status : Status]

EntryTypes == {"TOPUP", "PAYMENT", "TRANSFER_IN", "TRANSFER_OUT"}

(* by stands for the row's ids: the two entries of a transfer share a
   reference_id, and no other entries of distinct attempts share anything. *)
LedgerEntry ==
  [amount : Int, type : EntryTypes, after : Int, by : Attempts \cup {NoAttempt}]

(* TopUp, Payment and Suspend name one wallet: from = to there.             *)
ASSUME WalletsAssumption ==
  /\ Wallets \subseteq WalletIds
  /\ IsFiniteSet(Wallets)
  /\ NoWallet \notin WalletIds
  /\ NoAttempt \notin Attempts
  /\ NumShards \in Nat
  /\ Shard \in [WalletIds -> 0 .. NumShards - 1]
  /\ UUIDRank \in [WalletIds -> Nat]
  /\ \A v, w \in WalletIds : UUIDRank[v] = UUIDRank[w] => v = w
  /\ MaxNumeric \in Nat
  /\ Opening \in [Wallets -> 0 .. MaxNumeric]

ASSUME RequestsAssumption ==
  \A r \in Requests :
    /\ r.kind \in Kinds
    /\ r.from \in WalletIds
    /\ r.to \in WalletIds
    /\ r.kind # "Transfer" => r.from = r.to
    /\ r.amount \in Int

Keys == {r.key : r \in Requests}

IsMoney(r) == r.kind # "Suspend"

Touched(r) == {r.from, r.to}

(* decimal.Decimal.Round(2): half away from zero.                          *)
Round2(mills) ==
  IF mills >= 0 THEN (mills + 5) \div 10 ELSE -((5 - mills) \div 10)

RoundedAmount(r) == Round2(r.amount)

(* The refusals a handler makes before it talks to the database.  Payment's
   second test, below 0.01 after rounding, adds nothing to the first.      *)
Malformed(r) ==
  /\ IsMoney(r)
  /\ \/ RoundedAmount(r) <= 0
     \/ r.kind = "Transfer" /\ r.from = r.to

Debited(r, w) == r.kind \in {"Payment", "Transfer"} /\ w = r.from

DeltaUnrounded(r, w) ==
  IF Debited(r, w) THEN -RoundedAmount(r) ELSE r.amount \div 10

Delta(r, w) == IF Debited(r, w) THEN -RoundedAmount(r) ELSE RoundedAmount(r)

EntryTypeOfKind(r, w) ==
  CASE r.kind = "TopUp"   -> "TOPUP"
    [] r.kind = "Payment" -> "PAYMENT"
    [] OTHER -> "TRANSFER"

EntryType(r, w) ==
  CASE r.kind = "TopUp"   -> "TOPUP"
    [] r.kind = "Payment" -> "PAYMENT"
    [] OTHER -> IF w = r.from THEN "TRANSFER_OUT" ELSE "TRANSFER_IN"

(* The refusals that depend on the wallet rows the handler has read.       *)
CurrencyMismatch(r) ==
  r.kind = "Transfer" /\ Currency[r.from] # Currency[r.to]

Suspended(r, rows) == \E w \in Touched(r) : rows[w].status = "SUSPENDED"

PaymentInsufficient(r, rows) ==
  r.kind = "Payment" /\ rows[r.from].balance < RoundedAmount(r)

Insufficient(r, rows) ==
  \E w \in Touched(r) : Debited(r, w) /\ rows[w].balance < RoundedAmount(r)

Refused(r, rows) ==
  CurrencyMismatch(r) \/ Suspended(r, rows) \/ Insufficient(r, rows)

NewBalance(r, rows, w) == rows[w].balance + Delta(r, w)

EntryBefore(p, r, rows, w) ==
  [amount |-> Delta(r, w), type |-> EntryType(r, w),
   after |-> rows[w].balance, by |-> p]

Entry(p, r, rows, w) ==
  [amount |-> Delta(r, w), type |-> EntryType(r, w),
   after |-> NewBalance(r, rows, w), by |-> p]

(* Bodies of the responses kept for replay.  "null" is the SQL NULL of a row
   whose response was never saved; a wallet body is the JSON of the wallet;
   "ok" is the string OK of a transfer, which is not JSON.                 *)
Body ==
  [form : {"null", "ok", "wallet"}, wallet : WalletIds \cup {NoWallet},
   balance : Int]

NullBody == [form |-> "null", wallet |-> NoWallet, balance |-> 0]

OkBody == [form |-> "ok", wallet |-> NoWallet, balance |-> 0]

WalletBody(w, b) == [form |-> "wallet", wallet |-> w, balance |-> b]

StaleBody(r, rows) ==
  IF r.kind = "Transfer" THEN OkBody ELSE WalletBody(r.to, rows[r.to].balance)

(* What SaveResponse stores, and what the handler answers on success.      *)
SavedBody(r, rows) ==
  IF r.kind = "Transfer" THEN OkBody
  ELSE WalletBody(r.to, NewBalance(r, rows, r.to))

(* A row of idempotency_keys, dated by the start of its transaction.       *)
KeyRow == [key : Keys, created : Nat, body : Body]

(* A wallet's JSON is replayed by TopUp and Payment, anything by Transfer. *)
Replayable(r, b) == r.kind = "Transfer" \/ b.form = "wallet"

(* What a handler answers.                                                 *)
Outcome ==
  [kind : {"none", "ok", "duplicate", "rejected", "failed"}, body : Body]

NoOutcome == [kind |-> "none", body |-> NullBody]

(* The tables at the start: one top-up for each opening balance.           *)
OpeningRows == [w \in Wallets |-> [balance |-> Opening[w], status |-> "ACTIVE"]]

OpeningLedger ==
  [w \in Wallets |->
    IF Opening[w] = 0 THEN << >>
    ELSE << [amount |-> Opening[w], type |-> "TOPUP", after |-> Opening[w],
             by |-> NoAttempt] >>]
=============================================================================
