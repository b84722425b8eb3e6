----------------------------- MODULE BankProofs -----------------------------
(***************************************************************************)
(* Theorems about Bank, for any wallets, currencies, attempts and          *)
(* requests.  What implements the bank inherits them.                      *)
(***************************************************************************)
EXTENDS Bank, FiniteLemmas

(* The numbers that are summed up.                                         *)
LEMMA Numbers ==
  ASSUME TypeOK
  PROVE  /\ \A p \in Attempts : Flows[p] \in Int
         /\ \A w \in Wallets : Balances[w] \in Int /\ Opening[w] \in Int
         /\ \A c : IsFiniteSet(Of(c)) /\ Of(c) \subseteq Wallets
<1>1. ASSUME NEW p \in Attempts
      PROVE  Flows[p] \in Int
  <2>1. RoundedAmount(req[p]) \in Int
    BY RequestsAssumption DEF TypeOK, RoundedAmount, Round2
  <2> QED
    BY <2>1 DEF Flows, Delta
<1>2. \A w \in Wallets : Balances[w] \in Int /\ Opening[w] \in Int
  BY WalletsAssumption DEF TypeOK, WalletRow, Balances
<1>3. ASSUME NEW c
      PROVE  IsFiniteSet(Of(c)) /\ Of(c) \subseteq Wallets
  <2>1. Of(c) \in SUBSET Wallets
    BY DEF Of
  <2> QED
    BY <2>1, WalletsAssumption, FS_Subset
<1> QED
  BY <1>1, <1>2, <1>3

LEMMA InvInit == Init => Inv
<1> SUFFICES ASSUME Init PROVE Inv
  OBVIOUS
<1>1. /\ wallets \in [Wallets -> WalletRow]
      /\ ledger \in [Wallets -> Seq(LedgerEntry)]
  <2>1. OpeningRows \in [Wallets -> WalletRow]
    BY WalletsAssumption DEF OpeningRows, WalletRow, Status
  <2>2. ASSUME NEW w \in Wallets
        PROVE  OpeningLedger[w] \in Seq(LedgerEntry)
    <3>1. [amount |-> Opening[w], type |-> "TOPUP", after |-> Opening[w],
           by |-> NoAttempt] \in LedgerEntry
      BY WalletsAssumption DEF LedgerEntry, EntryTypes
    <3> QED
      BY <3>1 DEF OpeningLedger
  <2> QED
    BY <2>1, <2>2 DEF Init, OpeningLedger
<1>2. TypeOK /\ IsFiniteSet(applied)
  BY <1>1, FS_EmptySet DEF Init, TypeOK
<1>3. Conservation
  <2> SUFFICES ASSUME NEW c
               PROVE  SumOver(Balances, Of(c)) =
                        SumOver(Opening, Of(c)) + SumOver(Flows, MovedIn(c))
    BY DEF Conservation
  <2>1. \A w \in Of(c) : Balances[w] = Opening[w]
    BY DEF Init, OpeningRows, Balances, Of
  <2>2. SumOver(Balances, Of(c)) = SumOver(Opening, Of(c))
    BY <1>2, <2>1, Numbers, SumSame
  <2>3. MovedIn(c) = {} /\ SumOver(Flows, {}) = 0
    BY FS_EmptySet, SumStep DEF Init, MovedIn
  <2>4. SumOver(Opening, Of(c)) \in Int
    BY <1>2, Numbers, SumAdd
  <2> QED
    BY <2>2, <2>3, <2>4
<1> QED
  BY <1>2, <1>3 DEF Inv

(* What an operation does to the balances.                                 *)
LEMMA PostedBalances ==
  ASSUME TypeOK, NEW p \in Attempts, Post(p)
  PROVE  /\ Touched(req[p]) \subseteq Wallets
         /\ RoundedAmount(req[p]) \in Int
         /\ \A w \in Wallets :
              /\ Delta(req[p], w) \in Int
              /\ Balances'[w] = IF w \in Touched(req[p])
                                THEN Balances[w] + Delta(req[p], w)
                                ELSE Balances[w]
<1>1. RoundedAmount(req[p]) \in Int
  BY RequestsAssumption DEF TypeOK, RoundedAmount, Round2
<1>2. \A w \in Wallets : Delta(req[p], w) \in Int
  BY <1>1 DEF Delta
<1>3. \A w \in Wallets :
        wallets'[w].balance = IF w \in Touched(req[p])
                              THEN NewBalance(req[p], wallets, w)
                              ELSE wallets[w].balance
  BY DEF Post, TypeOK, WalletRow
<1> QED
  BY <1>1, <1>2, <1>3 DEF Post, Balances, NewBalance

(* The balances of the operation's currency change by its flow: what leaves
   one wallet of a transfer arrives at the other.                          *)
LEMMA PostFlow ==
  ASSUME TypeOK, NEW p \in Attempts, Post(p), NEW c
  PROVE  SumOver(Balances', Of(c)) =
           SumOver(Balances, Of(c))
             + (IF Currency[req[p].to] = c THEN Flows[p] ELSE 0)
<1> DEFINE r == req[p]
           C == Of(c)
           F == Balances
           G == Balances'
<1>1. /\ r.from \in Wallets /\ r.to \in Wallets
      /\ r.kind = "Transfer" =>
           r.from # r.to /\ Currency[r.from] = Currency[r.to]
      /\ r.kind # "Transfer" => r.from = r.to
  BY RequestsAssumption, PostedBalances
     DEF TypeOK, Post, Touched, Malformed, Refused, CurrencyMismatch
<1>2. /\ IsFiniteSet(C) /\ C \subseteq Wallets
      /\ \A w \in C : F[w] \in Int /\ G[w] \in Int
      /\ SumOver(F, C) \in Int
  BY Numbers, PostedBalances, SumAdd
<1>3. \A w \in C : G[w] = IF w \in Touched(r) THEN F[w] + Delta(r, w) ELSE F[w]
  BY <1>2, PostedBalances
<1>4. CASE Currency[r.to] # c
  <2>1. \A w \in C : G[w] = F[w]
    BY <1>1, <1>3, <1>4 DEF Of, Touched
  <2> HIDE DEF C, F, G
  <2>2. SumOver(G, C) = SumOver(F, C)
    BY <1>2, <2>1, SumSame
  <2> QED
    BY <1>2, <1>4, <2>2 DEF C, F, G
<1>5. CASE Currency[r.to] = c /\ r.kind # "Transfer"
  <2>1. r.to \in C /\ Touched(r) = {r.to} /\ Flows[p] = Delta(r, r.to)
    BY <1>1, <1>5 DEF Of, Touched, Flows
  <2>2. /\ \A w \in C \ {r.to} : G[w] = F[w]
        /\ G[r.to] = F[r.to] + Flows[p]
    BY <1>3, <2>1
  <2> HIDE DEF C, F, G
  <2>3. SumOver(G, C) = SumOver(F, C) + (G[r.to] - F[r.to])
    <3> DEFINE x == r.to
    <3>1. IsFiniteSet(C) /\ x \in C
      BY <1>2, <2>1
    <3>2. /\ \A y \in C : F[y] \in Int
          /\ \A y \in C : G[y] \in Int
          /\ \A y \in C \ {x} : G[y] = F[y]
      BY <1>2, <2>2
    <3> HIDE DEF x
    <3>3. ASSUME NEW K, \A y \in C : K[y] \in Int,
                 \A y \in C \ {x} : K[y] = F[y]
          PROVE  SumOver(K, C) = SumOver(F, C) + (K[x] - F[x])
      BY <3>1, <3>2, <3>3, SumChange
    <3>4. SumOver(G, C) = SumOver(F, C) + (G[x] - F[x])
      BY <3>2, <3>3, Zenon
    <3> QED
      BY <3>4 DEF x
  <2>4. Flows[p] \in Int /\ F[r.to] \in Int
    BY <1>2, <2>1, Numbers
  <2> QED
    BY <1>2, <1>5, <2>2, <2>3, <2>4 DEF C, F, G
<1>6. CASE Currency[r.to] = c /\ r.kind = "Transfer"
  <2> DEFINE amount == RoundedAmount(r)
  <2>1. /\ r.from \in C /\ r.to \in C /\ r.from # r.to
        /\ Flows[p] = 0 /\ amount \in Int
    BY <1>1, <1>6, PostedBalances DEF Of, Flows
  <2>2. /\ G[r.from] = F[r.from] - amount
        /\ G[r.to] = F[r.to] + amount
        /\ \A w \in C \ {r.from, r.to} : G[w] = F[w]
    <3>1. Delta(r, r.from) = -amount /\ Delta(r, r.to) = amount
      BY <1>6, <2>1 DEF Delta, Debited
    <3> HIDE DEF amount
    <3> QED
      BY <1>2, <1>3, <2>1, <3>1 DEF Touched
  <2> HIDE DEF C, F, G
  <2>3. SumOver(G, C) = SumOver(F, C)
    <3> DEFINE x == r.from
               y == r.to
    <3>1. /\ IsFiniteSet(C) /\ x \in C /\ y \in C /\ x # y
          /\ amount \in Int
          /\ \A z \in C : F[z] \in Int
      BY <1>2, <2>1
    <3>2. /\ G[x] = F[x] - amount
          /\ G[y] = F[y] + amount
          /\ \A z \in C \ {x, y} : G[z] = F[z]
      BY <2>2
    <3> HIDE DEF x, y, amount
    <3>3. ASSUME NEW K,
                 K[x] = F[x] - amount,
                 K[y] = F[y] + amount,
                 \A z \in C \ {x, y} : K[z] = F[z]
          PROVE  SumOver(K, C) = SumOver(F, C)
      BY <3>1, <3>3, SumMove
    <3> QED
      BY <3>2, <3>3, Zenon
  <2> QED
    BY <1>2, <1>6, <2>1, <2>3 DEF C, F, G
<1> QED
  BY <1>4, <1>5, <1>6

LEMMA PostInv == ASSUME Inv, NEW p \in Attempts, Post(p) PROVE Inv'
<1>1. TypeOK'
  <2>1. wallets' \in [Wallets -> WalletRow]
    <3>1. ASSUME NEW w \in Wallets
          PROVE  NewBalance(req[p], wallets, w) \in Int
      BY PostedBalances DEF Inv, TypeOK, WalletRow, NewBalance
    <3> QED
      BY <3>1 DEF Post, Inv, TypeOK, WalletRow
  <2>2. ledger' \in [Wallets -> Seq(LedgerEntry)]
    <3>1. ASSUME NEW w \in Wallets
          PROVE  Entry(p, req[p], wallets, w) \in LedgerEntry
      <4>1. Delta(req[p], w) \in Int /\ NewBalance(req[p], wallets, w) \in Int
        BY PostedBalances DEF Inv, TypeOK, WalletRow, NewBalance
      <4>2. EntryType(req[p], w) \in EntryTypes
        BY DEF EntryType, EntryTypes
      <4> QED
        BY <4>1, <4>2 DEF Entry, LedgerEntry
    <3> QED
      BY <3>1 DEF Post, Inv, TypeOK
  <2> QED
    BY <2>1, <2>2 DEF Post, Inv, TypeOK
<1>2. IsFiniteSet(applied')
  BY FS_AddElement DEF Post, Inv
<1>3. ASSUME NEW c
      PROVE  SumOver(Flows, MovedIn(c)') =
               SumOver(Flows, MovedIn(c))
                 + (IF Currency[req[p].to] = c THEN Flows[p] ELSE 0)
  <2>1. MovedIn(c)' = IF Currency[req[p].to] = c THEN MovedIn(c) \cup {p}
                                                 ELSE MovedIn(c)
    BY DEF Post, MovedIn, Inv, TypeOK
  <2>2. /\ IsFiniteSet(MovedIn(c)') /\ MovedIn(c)' \subseteq Attempts
        /\ p \notin MovedIn(c) /\ IsFiniteSet(MovedIn(c))
        /\ MovedIn(c) \subseteq Attempts
    <3>1. MovedIn(c)' \in SUBSET applied' /\ MovedIn(c) \in SUBSET applied
      BY DEF MovedIn
    <3>2. p \notin applied
      BY DEF Post
    <3> QED
      BY <1>1, <1>2, <3>1, <3>2, FS_Subset DEF Inv, TypeOK
  <2>3. \A q \in Attempts : Flows[q] \in Int
    BY Numbers DEF Inv
  <2>4. SumOver(Flows, MovedIn(c)) \in Int
    BY <2>2, <2>3, SumAdd
  <2>5. CASE Currency[req[p].to] = c
    <3>1. p \in MovedIn(c)' /\ MovedIn(c)' \ {p} = MovedIn(c)
      BY <2>1, <2>2, <2>5
    <3>2. SumOver(Flows, MovedIn(c)') = Flows[p] + SumOver(Flows, MovedIn(c))
      <4>1. SumOver(Flows, MovedIn(c)') = Flows[p] + SumOver(Flows, MovedIn(c)' \ {p})
        BY <2>2, <2>3, <3>1, SumAdd
      <4> QED
        BY <3>1, <4>1
    <3>3. Flows[p] \in Int
      BY <2>3
    <3> QED
      BY <2>4, <2>5, <3>2, <3>3
  <2> QED
    BY <2>1, <2>4, <2>5
<1>4. Conservation'
  <2> SUFFICES ASSUME NEW c \in {Currency[w] : w \in Wallets}
               PROVE  SumOver(Balances', Of(c)) =
                        SumOver(Opening, Of(c)) + SumOver(Flows', MovedIn(c)')
    BY DEF Conservation, Of
  <2>1. SumOver(Balances, Of(c)) =
          SumOver(Opening, Of(c)) + SumOver(Flows, MovedIn(c))
    BY DEF Inv, Conservation
  <2>2. Flows' = Flows
    BY DEF Post, Flows
  <2>3. SumOver(Opening, Of(c)) \in Int
    BY Numbers, SumAdd DEF Inv
  <2>4. SumOver(Flows, MovedIn(c)) \in Int
    <3>1. MovedIn(c) \in SUBSET applied
      BY DEF MovedIn
    <3>2. IsFiniteSet(MovedIn(c)) /\ \A q \in MovedIn(c) : Flows[q] \in Int
      BY <3>1, FS_Subset, Numbers DEF Inv, TypeOK
    <3> QED
      BY <3>2, SumAdd
  <2>5. (IF Currency[req[p].to] = c THEN Flows[p] ELSE 0) \in Int
    BY Numbers DEF Inv
  <2>6. SumOver(Balances', Of(c)) =
          SumOver(Balances, Of(c))
            + (IF Currency[req[p].to] = c THEN Flows[p] ELSE 0)
    BY PostFlow DEF Inv
  <2> QED
    BY <1>3, <2>1, <2>2, <2>3, <2>4, <2>5, <2>6
<1> QED
  BY <1>1, <1>2, <1>4 DEF Inv

(* A suspension moves nothing.                                             *)
LEMMA SuspendInv == ASSUME Inv, NEW p \in Attempts, Suspend(p) PROVE Inv'
<1>1. TypeOK'
  BY DEF Suspend, Inv, TypeOK, WalletRow, Status
<1>2. IsFiniteSet(applied')
  BY FS_AddElement DEF Suspend, Inv
<1>3. Balances' = Balances
  BY DEF Suspend, Balances, Inv, TypeOK, WalletRow
<1>4. Flows' = Flows /\ \A c : MovedIn(c)' = MovedIn(c)
  BY DEF Suspend, Flows, MovedIn
<1>5. Conservation'
  BY <1>3, <1>4 DEF Inv, Conservation, Of
<1> QED
  BY <1>1, <1>2, <1>5 DEF Inv

-----------------------------------------------------------------------------
(* Inv is inductive: Post changes one balance and one flow alike, or, in a
   transfer, two balances of one currency by opposite amounts.             *)
THEOREM BankInvariance == Spec => []Inv
<1>1. Inv /\ [Next]_vars => Inv'
  <2> SUFFICES ASSUME Inv, [Next]_vars PROVE Inv'
    OBVIOUS
  <2>1. CASE UNCHANGED vars
    BY <2>1 DEF vars, Inv, TypeOK, Conservation, Of, MovedIn, Balances, Flows
  <2> QED
    BY <2>1, PostInv, SuspendInv DEF Next
<1> QED
  BY InvInit, <1>1, PTL DEF Spec

(* No money is made or lost: in every currency, the balances are what the
   top-ups brought less what the payments took (Conservation).             *)
THEOREM BankConserves == Spec => []Conservation
<1>1. Inv => Conservation
  BY DEF Inv
<1> QED
  BY BankInvariance, <1>1, PTL
=============================================================================
