-------------------------------- MODULE Bank --------------------------------
(***************************************************************************)
(* What the wallet service promises, with nothing of how: every top-up,    *)
(* payment and transfer takes effect in one indivisible step, decided on   *)
(* the balances and statuses of that very moment, and a suspended wallet   *)
(* never changes again.  No locks, no connections, no retries, no crashes. *)
(* WalletService implements this module.                                   *)
(***************************************************************************)
EXTENDS WalletOps, Sums

VARIABLES
  wallets,   \* the rows of the wallets table
  ledger,    \* the ledger of each wallet, oldest entry first
  req,       \* the request of each attempt
  applied    \* the attempts that took effect

vars == << wallets, ledger, req, applied >>

Init ==
  /\ wallets = OpeningRows
  /\ ledger = OpeningLedger
  /\ req \in [Attempts -> Requests]
  /\ applied = {}

(* A top-up, payment or transfer takes effect: all of it, or none.         *)
Post(p) ==
  LET r == req[p] IN
  /\ p \notin applied
  /\ IsMoney(r) /\ ~Malformed(r)
  /\ Touched(r) \subseteq Wallets
  /\ ~Refused(r, wallets)
  /\ \A w \in Touched(r) : NewBalance(r, wallets, w) <= MaxNumeric
  /\ wallets' = [w \in Wallets |->
                   IF w \in Touched(r)
                   THEN [wallets[w] EXCEPT !.balance = NewBalance(r, wallets, w)]
                   ELSE wallets[w]]
  /\ ledger' = [w \in Wallets |->
                  IF w \in Touched(r)
                  THEN Append(ledger[w], Entry(p, r, wallets, w))
                  ELSE ledger[w]]
  /\ applied' = applied \cup {p}
  /\ UNCHANGED req

(* Suspending an id of no row touches no row, and is applied all the same. *)
Suspend(p) ==
  LET r == req[p] IN
  /\ p \notin applied
  /\ ~IsMoney(r)
  /\ wallets' = [w \in Wallets |->
                   IF w = r.to THEN [wallets[w] EXCEPT !.status = "SUSPENDED"]
                   ELSE wallets[w]]
  /\ applied' = applied \cup {p}
  /\ UNCHANGED << ledger, req >>

Next == \E p \in Attempts : Post(p) \/ Suspend(p)

Spec == Init /\ [][Next]_vars
-----------------------------------------------------------------------------
(* Types of the variables.                                                 *)
TypeOK ==
  /\ wallets \in [Wallets -> WalletRow]
  /\ ledger \in [Wallets -> Seq(LedgerEntry)]
  /\ req \in [Attempts -> Requests]
  /\ applied \in SUBSET Attempts

(* No money is made or lost: in every currency the balances add up to the
   opening ones, plus the top-ups, less the payments that took effect.     *)
Of(c) == {w \in Wallets : Currency[w] = c}

MovedIn(c) == {p \in applied : IsMoney(req[p]) /\ Currency[req[p].to] = c}

Balances == [w \in Wallets |-> wallets[w].balance]

Flows ==
  [p \in Attempts |->
    IF req[p].kind = "Transfer" THEN 0 ELSE Delta(req[p], req[p].to)]

Conservation ==
  \A c \in {Currency[w] : w \in Wallets} :
    SumOver(Balances, Of(c)) =
      SumOver(Opening, Of(c)) + SumOver(Flows, MovedIn(c))

(* What makes it inductive.                                                *)
Inv ==
  /\ TypeOK
  /\ IsFiniteSet(applied)
  /\ Conservation
=============================================================================
