--------------------------- MODULE MCWalletClaims ---------------------------
(***************************************************************************)
(* What the repository's documents and tests say of the wallet service and *)
(* the code does not do.  Each of these has a run that finds the           *)
(* counterexample; README.md tells the story of each.                      *)
(***************************************************************************)
EXTENDS MCWalletService

(* The requests: top-ups of two wallets, a repeated one, and suspensions.  *)
ApartRequests == { TopUp(w1, 100, k1), TopUp(w2, 100, k2) }

RepeatedRequests == { TopUp(w1, 100, k1) }

SuspendRequests == { SuspendWallet(w1), SuspendWallet(ghost) }

(* "Stores and returns the original response on retries" (README.md:32): a
   retry of a request that has been applied is not refused.                *)
RetriesGetTheResponse ==
  \A p, q \in Attempts :
    p # q /\ req[p] = req[q] /\ q \in Applied => outcome[p].kind # "duplicate"

(* "Expected 400 for duplicate key" (robustness_test.go:161,
   wallet_test.go:75): success means that this very attempt moved money.   *)
RepeatsAreRefused ==
  \A p \in Attempts :
    IsMoney(req[p]) /\ outcome[p].kind = "ok" => p \in Applied

(* "Wallet suspended successfully" (wallet_handler.go:152).                *)
SuspendedMeansSuspended ==
  \A p \in Attempts :
    ~IsMoney(req[p]) /\ outcome[p].kind = "ok" =>
      \E w \in Wallets : w = req[p].to /\ wallets[w].status = "SUSPENDED"
=============================================================================
