-------------------------- MODULE MCWalletService --------------------------
(***************************************************************************)
(* WalletService on small instances: three wallets, the first two in one   *)
(* currency, their shards in the opposite order of their ids; an id of no  *)
(* row; and the payloads the runs choose from.                             *)
(***************************************************************************)
EXTENDS Progress, TLC

CONSTANTS w1, w2, w3, ghost, k1, k2, k3, NoKey

TwoWallets == {w1, w2}

ThreeWallets == {w1, w2, w3}

MCIds == {w1, w2, w3, ghost}

MCCurrency == [w \in Wallets |-> IF w = w3 THEN "IDR" ELSE "USD"]

MCOpening == [w \in Wallets |-> IF w = w1 THEN 100 ELSE 0]

(* w1 and w3 are different wallets of one shard.                           *)
MCShard == [i \in WalletIds |-> IF i \in {w1, w3} THEN 1 ELSE 0]

MCRank == [i \in WalletIds |->
            CASE i = w1 -> 1 [] i = w2 -> 2 [] i = w3 -> 3 [] OTHER -> 4]

Ask(kind, from, to, mills, key) ==
  [kind |-> kind, from |-> from, to |-> to, amount |-> mills, key |-> key]

TopUp(w, mills, key) == Ask("TopUp", w, w, mills, key)
Payment(w, mills, key) == Ask("Payment", w, w, mills, key)
Transfer(v, w, mills, key) == Ask("Transfer", v, w, mills, key)
SuspendWallet(w) == Ask("Suspend", w, w, 0, NoKey)

(* Requests that meet on the two wallets: opposite transfers, a payment that
   the first transfer leaves without funds, a suspension, and a top-up that
   wrongly reuses the payment's key.                                       *)
RaceRequests ==
  { Transfer(w1, w2, 604, k1), Transfer(w2, w1, 305, k2),
    Payment(w1, 500, k3), TopUp(w2, 10, k3), SuspendWallet(w2) }

(* Requests to be retried, one key each, and a suspension.                 *)
RetryRequests ==
  { TopUp(w2, 1005, k1), Payment(w1, 996, k2), Transfer(w1, w2, 300, k3),
    SuspendWallet(w2) }

(* Requests at the edges: amounts that round to nothing, to a cent and down,
   wallets that do not exist, are the same or of two currencies, a balance
   that outgrows its column, that of a transfer's credited side after its
   debit was written too, and opposite transfers.                          *)
EdgeRequests ==
  { TopUp(w2, 4, k1), TopUp(w2, 5, k1), TopUp(w3, 1494, k2), TopUp(w1, 510, k3),
    TopUp(w2, 510, k1), TopUp(ghost, 50, k1), Payment(w1, 1005, k2),
    Payment(w1, 994, k3), Transfer(w1, w2, 15, k2), Transfer(w2, w1, 5, k2),
    Transfer(w1, w2, 1000, k2), Transfer(w1, w1, 10, k3),
    Transfer(w1, w3, 10, k1), Transfer(w2, ghost, 10, k3),
    SuspendWallet(ghost), SuspendWallet(w3) }

(* One key that outlives its row, and another operation.                   *)
RetentionRequests == { TopUp(w1, 10, k1), Transfer(w1, w2, 10, k2) }

Symmetric == Permutations(Attempts)
=============================================================================
