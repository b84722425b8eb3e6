--------------------------- MODULE AccountsProofs ---------------------------
(***************************************************************************)
(* Theorems about Accounts, for any number of processes, attempts, users   *)
(* and currencies, any hash of users to shards, with failures and crashes. *)
(***************************************************************************)
EXTENDS Accounts, TLAPS

(* The request of one attempt is of one kind.                              *)
LEMMA RequestKinds ==
  ASSUME NEW r \in Request
  PROVE  /\ r.kind = "user" \/ (r.kind = "wallet" /\ r.user \in UserIds /\ r.code \in Codes)
         /\ r # NoRequest
BY DEF Request, NoRequest

LEMMA InvInit == Init => Inv
<1> SUFFICES ASSUME Init PROVE Inv
  OBVIOUS
<1> USE DEF Init, RegistryInit
<1>1. TypeOK
  BY DEF TypeOK, Labels, Answers, UserIds
<1>2. \A p \in Attempts : ~IsWallet(p)
  BY DEF IsWallet, NoRequest
<1>3. MutexInv
  BY DEF MutexInv, InSection
<1>4. RowsInv
  BY DEF RowsInv
<1>5. \A p \in Attempts : StepInv(p) /\ OutcomeInv(p)
  BY <1>2 DEF StepInv, OutcomeInv
<1>6. OneWalletPerCurrency
  BY DEF OneWalletPerCurrency
<1> QED
  BY <1>1, <1>3, <1>4, <1>5, <1>6 DEF Inv

-----------------------------------------------------------------------------
(* Steps of three shapes.                                                  *)

(* A handler moves on and may decide its answer, and touches nothing else. *)
LEMMA LocalStep ==
  ASSUME Inv, NEW p \in Attempts, NEW l \in Labels, NEW a \in Answers,
         pc' = [pc EXCEPT ![p] = l], outcome' = [outcome EXCEPT ![p] = a],
         UNCHANGED << req, held, insert, users, wallets >>,
         pc[p] # "idle",
         IsWallet(p) /\ l \in InSection => held[p],
         StepInv(p)', OutcomeInv(p)'
  PROVE  Inv'
<1>1. TypeOK'
  BY DEF Inv, TypeOK
<1>2. pc'[p] = l /\ \A q \in Attempts \ {p} : pc'[q] = pc[q] /\ outcome'[q] = outcome[q]
  BY DEF Inv, TypeOK
<1>3. \A q \in Attempts : IsWallet(q)' = IsWallet(q)
  BY DEF IsWallet
<1>4. MutexInv'
  BY <1>2, <1>3 DEF Inv, MutexInv, SameShard
<1>5. RowsInv'
  BY DEF Inv, RowsInv, IsWallet, WalletBy, Currency
<1>6. ASSUME NEW q \in Attempts PROVE StepInv(q)' /\ OutcomeInv(q)'
  <2>1. CASE q = p
    BY <2>1
  <2>2. CASE q # p
    BY <1>2, <1>3, <2>2 DEF Inv, StepInv, OutcomeInv, Currency,
       SameWallet, HasWallet, Reason
  <2> QED
    BY <2>1, <2>2
<1>7. OneWalletPerCurrency'
  BY DEF Inv, OneWalletPerCurrency
<1> QED
  BY <1>1, <1>4, <1>5, <1>6, <1>7 DEF Inv

(* A request arrives.                                                      *)
LEMMA ArriveStep ==
  ASSUME Inv, NEW p \in Attempts, NEW r \in Request, pc[p] = "idle",
         req' = [req EXCEPT ![p] = r],
         pc' = [pc EXCEPT ![p] = IF r.kind = "wallet" THEN "mutex" ELSE "insert"],
         r.kind = "wallet" => r.user \in Nameable,
         UNCHANGED << held, insert, outcome, users, wallets >>
  PROVE  Inv'
<1> USE DEF Inv
<1>1. TypeOK'
  BY DEF TypeOK, Labels
<1>2. /\ req'[p] = r
      /\ pc'[p] = IF r.kind = "wallet" THEN "mutex" ELSE "insert"
      /\ \A q \in Attempts \ {p} : pc'[q] = pc[q] /\ req'[q] = req[q]
  BY DEF TypeOK
<1>3. ~IsWallet(p) /\ ~held[p] /\ insert[p] = "none" /\ outcome[p] = "none"
  BY DEF StepInv, MutexInv, IsWallet, NoRequest
<1>4. MutexInv'
  BY <1>2, <1>3 DEF MutexInv, InSection, SameShard, IsWallet
<1>5. RowsInv'
  <2>1. \A q \in Attempts : insert[q] = "done" => q # p
    BY <1>3
  <2>2. \A q \in Attempts \ {p} :
          IsWallet(q)' = IsWallet(q) /\ WalletBy(q)' = WalletBy(q)
    BY <1>2 DEF IsWallet, WalletBy, Currency
  <2>3. \A w \in wallets : w.id \in Attempts
    BY DEF TypeOK, Wallet
  <2> QED
    BY <2>1, <2>2, <2>3 DEF RowsInv
<1>6. ASSUME NEW q \in Attempts PROVE StepInv(q)' /\ OutcomeInv(q)'
  <2>1. CASE q = p
    <3>1. r.kind = "wallet" => r.user \in Strangers \cup users
      <4>1. \A u \in Attempts : outcome[u] = "created" /\ req[u].kind = "user" => u \in users
        BY DEF OutcomeInv, RowsInv, IsWallet
      <4> QED
        BY <4>1 DEF Nameable, RowsInv
    <3> QED
      BY <1>2, <1>3, <2>1, <3>1 DEF StepInv, OutcomeInv, IsWallet
  <2>2. CASE q # p
    BY <1>2, <2>2 DEF StepInv, OutcomeInv, Currency,
       SameWallet, HasWallet, Reason, IsWallet
  <2> QED
    BY <2>1, <2>2
<1>7. OneWalletPerCurrency'
  BY DEF OneWalletPerCurrency
<1> QED
  BY <1>1, <1>4, <1>5, <1>6, <1>7

(* The INSERT of an attempt is decided without a row, or sent.             *)
LEMMA StatusStep ==
  ASSUME Inv, NEW p \in Attempts, NEW s \in {"sent", "refused", "lost"},
         insert[p] # "done", pc[p] # "idle",
         insert' = [insert EXCEPT ![p] = s],
         \/ insert[p] = "sent" /\ pc' = pc
         \/ insert[p] = "none" /\ pc[p] = "insert" /\ pc' = [pc EXCEPT ![p] = "await"],
         s = "refused" => Reason(p, "refused"),
         UNCHANGED << req, held, outcome, users, wallets >>
  PROVE  Inv'
<1> USE DEF Inv
<1>1. TypeOK'
  BY DEF TypeOK, Labels
<1>2. /\ insert'[p] = s /\ insert[p] \in {"none", "sent"}
      /\ pc'[p] = pc[p] \/ (pc[p] = "insert" /\ pc'[p] = "await")
      /\ insert[p] = "none" => pc[p] = "insert" /\ pc'[p] = "await"
      /\ \A q \in Attempts \ {p} : pc'[q] = pc[q] /\ insert'[q] = insert[q]
  BY DEF TypeOK
<1>3. \A q \in Attempts : IsWallet(q)' = IsWallet(q)
  BY DEF IsWallet
<1>4. MutexInv'
  BY <1>2, <1>3 DEF MutexInv, SameShard, InSection
<1>5. RowsInv'
  <2>1. \A q \in Attempts : insert'[q] = "done" <=> insert[q] = "done"
    BY <1>2
  <2>2. \A w \in wallets : w.id \in Attempts
    BY DEF TypeOK, Wallet
  <2> QED
    BY <1>3, <2>1, <2>2 DEF RowsInv, WalletBy, Currency
<1>6. ASSUME NEW q \in Attempts PROVE StepInv(q)' /\ OutcomeInv(q)'
  <2>1. CASE q = p
    <3>1. StepInv(p)'
      <4>1. /\ Reason(p, "refused")' = Reason(p, "refused")
            /\ IsWallet(p) => req[p].user \in users
        BY <1>2 DEF StepInv, Reason, HasWallet, SameWallet, Currency, IsWallet
      <4> QED
        BY <1>2, <1>3, <4>1 DEF StepInv, Currency
    <3>2. OutcomeInv(p)'
      <4>1. outcome[p] \notin {"created", "refused"}
        BY <1>2 DEF OutcomeInv
      <4>2. outcome[p] \in {"exists", "invalid", "noUser"} => insert[p] = "none"
        BY DEF OutcomeInv
      <4>3. insert[p] = "none" => outcome[p] = "none"
        BY <1>2 DEF OutcomeInv
      <4>4. outcome[p] \notin {"exists", "invalid", "noUser"}
        BY <4>2, <4>3
      <4>5. outcome[p] # "none" => pc'[p] \in {"unlock", "done", "dead"}
        BY <1>2 DEF OutcomeInv
      <4> QED
        BY <4>1, <4>4, <4>5 DEF OutcomeInv
    <3> QED
      BY <2>1, <3>1, <3>2
  <2>2. CASE q # p
    BY <1>2, <1>3, <2>2 DEF StepInv, OutcomeInv, Currency,
       SameWallet, HasWallet, Reason
  <2> QED
    BY <2>1, <2>2
<1>7. OneWalletPerCurrency'
  BY DEF OneWalletPerCurrency
<1> QED
  BY <1>1, <1>4, <1>5, <1>6, <1>7

(* The INSERT of an attempt is done, and its row is there.                 *)
LEMMA InsertedStep ==
  ASSUME Inv, NEW p \in Attempts, insert[p] = "sent",
         insert' = [insert EXCEPT ![p] = "done"],
         \/ /\ IsWallet(p) /\ users' = users
            /\ wallets' = wallets \cup {WalletBy(p)}
            /\ ~HasWallet(p)
         \/ ~IsWallet(p) /\ wallets' = wallets /\ users' = users \cup {p},
         UNCHANGED << req, pc, held, outcome >>
  PROVE  Inv'
<1> USE DEF Inv
<1>1. /\ pc[p] # "idle" /\ req[p] \in Request
      /\ IsWallet(p) => Currency(p) \in ISO
      /\ pc[p] \notin {"mutex", "currency", "checkUser", "checkWallet", "insert"}
  BY DEF StepInv
<1>2. IsWallet(p) => WalletBy(p) \in Wallet
  BY <1>1, RequestKinds DEF WalletBy, Wallet, IsWallet
<1>3. TypeOK'
  BY <1>2 DEF TypeOK, UserIds
<1>4. /\ insert'[p] = "done" /\ \A q \in Attempts \ {p} : insert'[q] = insert[q]
      /\ wallets \subseteq wallets' /\ users \subseteq users'
  BY DEF TypeOK
<1>5. MutexInv'
  BY DEF MutexInv, SameShard, IsWallet
<1>6. \A q : /\ IsWallet(q)' = IsWallet(q) /\ WalletBy(q)' = WalletBy(q)
             /\ Currency(q)' = Currency(q)
  BY DEF IsWallet, WalletBy, Currency
<1>7. RowsInv'
  <2>1. \A w \in wallets : w.id \in Attempts
    BY DEF TypeOK, Wallet
  <2>2. WalletBy(p).id = p
    BY DEF WalletBy
  <2>3. \A w \in wallets' :
          insert'[w.id] = "done" /\ IsWallet(w.id) /\ w = WalletBy(w.id)
    BY <1>4, <2>1, <2>2 DEF RowsInv
  <2>4. \A u \in users' \ OldUsers : u \in Attempts /\ insert'[u] = "done" /\ ~IsWallet(u)
    BY <1>4 DEF RowsInv
  <2>5. ASSUME NEW q \in Attempts, insert'[q] = "done"
        PROVE  IF IsWallet(q) THEN WalletBy(q) \in wallets' ELSE q \in users'
    BY <1>4, <2>5 DEF RowsInv
  <2>6. OldUsers \subseteq users'
    BY <1>4 DEF RowsInv
  <2> QED
    BY <1>6, <2>3, <2>4, <2>5, <2>6 DEF RowsInv
<1>8. ASSUME NEW q \in Attempts PROVE StepInv(q)' /\ OutcomeInv(q)'
  <2>1. HasWallet(q) => HasWallet(q)'
    BY <1>4 DEF HasWallet, SameWallet, Currency
  <2>2. StepInv(q)'
    <3>1. Reason(q, "refused") => Reason(q, "refused")'
      BY <1>6, <2>1 DEF Reason
    <3>2. insert'[q] = "refused" => insert[q] = "refused"
      BY <1>4
    <3> QED
      BY <1>1, <1>4, <1>6, <3>1, <3>2 DEF StepInv
  <2>3. outcome[p] \notin {"refused", "exists", "invalid", "noUser"}
    BY DEF OutcomeInv
  <2>4. OutcomeInv(q)'
    <3>1. CASE q = p
      BY <1>4, <2>3, <3>1 DEF OutcomeInv
    <3>2. CASE q # p
      BY <1>4, <2>1, <3>2 DEF OutcomeInv
    <3> QED
      BY <3>1, <3>2
  <2> QED
    BY <2>2, <2>4
<1>9. OneWalletPerCurrency'
  BY DEF OneWalletPerCurrency, HasWallet, SameWallet, WalletBy
<1> QED
  BY <1>3, <1>5, <1>7, <1>8, <1>9

-----------------------------------------------------------------------------
(* The handler's actions.                                                  *)

LEMMA AskInv == ASSUME Inv, NEW p \in Attempts, Client(p) PROVE Inv'
<1>1. CASE AskUser(p)
  <2>1. PICK n \in Names : req' = [req EXCEPT ![p] = [kind |-> "user", name |-> n]]
    BY <1>1 DEF AskUser
  <2>2. [kind |-> "user", name |-> n] \in Request
    BY DEF Request
  <2> QED
    BY <1>1, <2>1, <2>2, ArriveStep DEF AskUser, Goto
<1>2. CASE AskWallet(p)
  <2>1. PICK u \in Nameable, c \in Codes :
          req' = [req EXCEPT ![p] = [kind |-> "wallet", user |-> u, code |-> c]]
    BY <1>2 DEF AskWallet
  <2>2. [kind |-> "wallet", user |-> u, code |-> c] \in Request
    BY DEF Request, Nameable, UserIds
  <2> QED
    BY <1>2, <2>1, <2>2, ArriveStep DEF AskWallet, Goto
<1> QED
  BY <1>1, <1>2 DEF Client

LEMMA LockInv == ASSUME Inv, NEW p \in Attempts, Lock(p) PROVE Inv'
<1> USE DEF Inv
<1>1. /\ pc[p] = "mutex" /\ pc' = [pc EXCEPT ![p] = "currency"]
      /\ held' = [held EXCEPT ![p] = TRUE]
      /\ \A q \in Attempts : held[q] => ~SameShard(p, q)
      /\ UNCHANGED << req, insert, outcome, users, wallets >>
  BY DEF Lock, Goto
<1>2. TypeOK'
  BY <1>1 DEF TypeOK, Labels
<1>3. /\ pc'[p] = "currency" /\ held'[p]
      /\ \A q \in Attempts \ {p} : pc'[q] = pc[q] /\ held'[q] = held[q]
  BY <1>1 DEF TypeOK
<1>4. IsWallet(p) /\ insert[p] = "none" /\ outcome[p] = "none"
  BY <1>1 DEF StepInv, OutcomeInv
<1>5. MutexInv'
  <2>1. \A q, r \in Attempts : SameShard(q, r)' = SameShard(q, r)
    BY <1>1 DEF SameShard
  <2>2. \A q, r \in Attempts : SameShard(q, r) = SameShard(r, q)
    BY DEF SameShard
  <2>3. \A q : IsWallet(q)' = IsWallet(q)
    BY <1>1 DEF IsWallet
  <2> QED
    BY <1>1, <1>3, <1>4, <2>1, <2>2, <2>3 DEF MutexInv
<1>6. RowsInv'
  BY <1>1 DEF RowsInv, IsWallet, WalletBy, Currency
<1>7. ASSUME NEW q \in Attempts PROVE StepInv(q)' /\ OutcomeInv(q)'
  <2>1. CASE q = p
    BY <1>1, <1>3, <1>4, <2>1 DEF StepInv, OutcomeInv, IsWallet
  <2>2. CASE q # p
    BY <1>1, <1>3, <2>2 DEF StepInv, OutcomeInv, IsWallet, Currency,
       SameWallet, HasWallet, Reason
  <2> QED
    BY <2>1, <2>2
<1>8. OneWalletPerCurrency'
  BY <1>1 DEF OneWalletPerCurrency
<1> QED
  BY <1>2, <1>5, <1>6, <1>7, <1>8

LEMMA UnlockInv == ASSUME Inv, NEW p \in Attempts, Unlock(p) PROVE Inv'
<1> USE DEF Inv
<1>1. /\ pc[p] = "unlock" /\ pc' = [pc EXCEPT ![p] = "done"]
      /\ held' = [held EXCEPT ![p] = FALSE]
      /\ UNCHANGED << req, insert, outcome, users, wallets >>
  BY DEF Unlock, Goto
<1>2. TypeOK'
  BY <1>1 DEF TypeOK, Labels
<1>3. /\ pc'[p] = "done" /\ ~held'[p]
      /\ \A q \in Attempts \ {p} : pc'[q] = pc[q] /\ held'[q] = held[q]
  BY <1>1 DEF TypeOK
<1>4. MutexInv'
  BY <1>1, <1>3 DEF MutexInv, SameShard, IsWallet, InSection
<1>5. RowsInv'
  BY <1>1 DEF RowsInv, IsWallet, WalletBy, Currency
<1>6. ASSUME NEW q \in Attempts PROVE StepInv(q)' /\ OutcomeInv(q)'
  <2>1. CASE q = p
    BY <1>1, <1>3, <2>1 DEF StepInv, OutcomeInv, IsWallet, Currency,
       SameWallet, HasWallet, Reason
  <2>2. CASE q # p
    BY <1>1, <1>3, <2>2 DEF StepInv, OutcomeInv, IsWallet, Currency,
       SameWallet, HasWallet, Reason
  <2> QED
    BY <2>1, <2>2
<1>7. OneWalletPerCurrency'
  BY <1>1 DEF OneWalletPerCurrency
<1> QED
  BY <1>2, <1>4, <1>5, <1>6, <1>7

(* A handler's step from one label to the next, or to its answer.          *)
LEMMA DecideInv ==
  ASSUME Inv, NEW p \in Attempts, NEW l \in InSection \ {"currency"},
         NEW a \in Answers,
         pc[p] \in InSection,
         pc' = [pc EXCEPT ![p] = l], outcome' = [outcome EXCEPT ![p] = a],
         UNCHANGED << req, held, insert, users, wallets >>,
         l \in {"checkUser", "checkWallet"} => IsWallet(p),
         IsWallet(p) /\ l # "unlock" => Currency(p) \in ISO,
         l # "unlock" => insert[p] = "none" /\ l # "await",
         IsWallet(p) /\ l \in {"checkWallet", "insert"} => req[p].user \in users,
         OutcomeInv(p)'
  PROVE  Inv'
<1>1. pc'[p] = l /\ l \in Labels
  BY DEF Inv, TypeOK, InSection, Labels
<1>2. IsWallet(p) => held[p]
  BY DEF Inv, MutexInv
<1>3. StepInv(p)'
  <2>1. Reason(p, "refused")' = Reason(p, "refused")
    BY DEF Reason, HasWallet, SameWallet, Currency, IsWallet
  <2> QED
    BY <1>1, <2>1 DEF Inv, StepInv, IsWallet, Currency, InSection
<1> QED
  BY <1>1, <1>2, <1>3, LocalStep DEF InSection

LEMMA CheckInv ==
  ASSUME Inv, NEW p \in Attempts,
         \/ CheckCurrency(p) \/ GetUserByID(p)
         \/ GetWalletByUserAndCurrency(p) \/ GetWalletByUserAndCurrencyFails(p)
  PROVE  Inv'
<1> USE DEF Inv
<1>1. /\ pc[p] \in {"currency", "checkUser", "checkWallet"}
      /\ UNCHANGED << req, held, insert, users, wallets >>
  BY DEF CheckCurrency, GetUserByID, GetWalletByUserAndCurrency,
         GetWalletByUserAndCurrencyFails
<1>2. IsWallet(p) /\ insert[p] = "none" /\ outcome[p] = "none"
  BY <1>1 DEF StepInv, OutcomeInv
<1>3. pc[p] \in InSection
  BY <1>1 DEF InSection
<1>4. CASE /\ pc' = [pc EXCEPT ![p] = "unlock"]
           /\ \E a \in {"exists", "invalid", "noUser"} :
                /\ outcome' = [outcome EXCEPT ![p] = a]
                /\ a = "exists" => HasWallet(p)
                /\ a = "noUser" => req[p].user \in Strangers
  <2>1. PICK a \in {"exists", "invalid", "noUser"} :
          /\ outcome' = [outcome EXCEPT ![p] = a]
          /\ a = "exists" => HasWallet(p)
          /\ a = "noUser" => req[p].user \in Strangers
    BY <1>4
  <2>2. pc'[p] = "unlock" /\ outcome'[p] = a
    BY <1>4, <2>1 DEF TypeOK
  <2>3. OutcomeInv(p)'
    BY <1>1, <1>2, <2>1, <2>2 DEF OutcomeInv, HasWallet, SameWallet, Currency
  <2>4. a \in Answers /\ "unlock" \in InSection \ {"currency"}
    BY DEF Answers, InSection
  <2> QED
    BY <1>1, <1>3, <1>4, <2>1, <2>3, <2>4, DecideInv
<1>5. CASE /\ UNCHANGED outcome
           /\ \E l \in {"checkUser", "checkWallet", "insert"} :
                /\ pc' = [pc EXCEPT ![p] = l]
                /\ l # "checkUser" => req[p].user \in users
           /\ Currency(p) \in ISO
  <2>1. PICK l \in {"checkUser", "checkWallet", "insert"} :
          pc' = [pc EXCEPT ![p] = l] /\ (l # "checkUser" => req[p].user \in users)
    BY <1>5
  <2>2. outcome' = [outcome EXCEPT ![p] = "none"] /\ outcome'[p] = "none"
    BY <1>2, <1>5 DEF TypeOK
  <2>3. OutcomeInv(p)'
    BY <2>2 DEF OutcomeInv
  <2>4. "none" \in Answers /\ l \in InSection \ {"currency"}
    BY DEF Answers, InSection
  <2> QED
    BY <1>1, <1>2, <1>3, <1>5, <2>1, <2>2, <2>3, <2>4, DecideInv
<1>6. /\ pc[p] # "currency" => Currency(p) \in ISO
      /\ pc[p] = "checkWallet" => req[p].user \in users
  BY <1>1, <1>2 DEF StepInv
<1>7. CASE CheckCurrency(p)
  BY <1>4, <1>5, <1>7 DEF CheckCurrency, Goto, Decide
<1>8. CASE GetUserByID(p)
  <2>1. req[p].user \notin users => req[p].user \in Strangers
    BY <1>2 DEF StepInv
  <2> QED
    BY <1>4, <1>5, <1>6, <1>8, <2>1 DEF GetUserByID, Goto, Decide
<1>9. CASE GetWalletByUserAndCurrency(p)
  BY <1>4, <1>5, <1>6, <1>9 DEF GetWalletByUserAndCurrency, Goto, Decide
<1>10. CASE GetWalletByUserAndCurrencyFails(p)
  BY <1>5, <1>6, <1>10 DEF GetWalletByUserAndCurrencyFails, Goto
<1> QED
  BY <1>7, <1>8, <1>9, <1>10

LEMMA SendInsertInv == ASSUME Inv, NEW p \in Attempts, SendInsert(p) PROVE Inv'
<1>1. insert[p] = "none"
  BY DEF SendInsert, Inv, StepInv
<1> QED
  BY <1>1, StatusStep DEF SendInsert, Goto

LEMMA ReplyInv == ASSUME Inv, NEW p \in Attempts, Reply(p) PROVE Inv'
<1>1. PICK a \in {"created", "refused", "failed"} :
        /\ outcome' = [outcome EXCEPT ![p] = a]
        /\ a = "created" => insert[p] = "done"
        /\ a = "refused" => insert[p] = "refused"
  BY DEF Reply, Decide
<1>2. /\ pc[p] = "await" /\ pc' = [pc EXCEPT ![p] = "unlock"]
      /\ UNCHANGED << req, held, insert, users, wallets >>
  BY DEF Reply, Goto
<1>3. outcome'[p] = a /\ pc'[p] = "unlock"
  BY <1>1, <1>2 DEF Inv, TypeOK
<1>4. OutcomeInv(p)'
  BY <1>1, <1>2, <1>3 DEF OutcomeInv
<1>5. a \in Answers /\ "unlock" \in InSection \ {"currency"} /\ pc[p] \in InSection
  BY <1>2 DEF Answers, InSection
<1> QED
  BY <1>1, <1>2, <1>4, <1>5, DecideInv

LEMMA CallFailsInv == ASSUME Inv, NEW p \in Attempts, CallFails(p) PROVE Inv'
<1>1. /\ pc[p] \in {"checkUser", "insert", "await"}
      /\ pc' = [pc EXCEPT ![p] = "unlock"]
      /\ outcome' = [outcome EXCEPT ![p] = "failed"]
      /\ UNCHANGED << req, held, insert, users, wallets >>
  BY DEF CallFails, Goto, Decide
<1>2. outcome'[p] = "failed" /\ pc'[p] = "unlock"
  BY <1>1 DEF Inv, TypeOK
<1>3. OutcomeInv(p)'
  BY <1>2 DEF OutcomeInv
<1>4. "failed" \in Answers /\ "unlock" \in InSection \ {"currency"} /\ pc[p] \in InSection
  BY <1>1 DEF Answers, InSection
<1> QED
  BY <1>1, <1>3, <1>4, DecideInv

(* The server decides an INSERT.                                           *)
LEMMA ServerInv == ASSUME Inv, NEW p \in Attempts, Server(p) PROVE Inv'
<1>1. insert[p] = "sent" /\ UNCHANGED << req, pc, held, outcome >>
  BY DEF Server, InsertUser, InsertWallet, InsertLost
<1>2. pc[p] # "idle"
  BY <1>1 DEF Inv, StepInv
<1>3. CASE InsertUser(p)
  <2>1. ~IsWallet(p)
    BY <1>3 DEF InsertUser, IsWallet
  <2>2. CASE req[p].name = "tooLong"
    <3>1. Reason(p, "refused")
      BY <2>1, <2>2 DEF Reason
    <3> QED
      BY <3>1, <1>1, <1>2, <1>3, <2>2, StatusStep DEF InsertUser, Became
  <2>3. CASE req[p].name # "tooLong"
    BY <1>1, <1>3, <2>1, <2>3, InsertedStep DEF InsertUser, Became
  <2> QED
    BY <2>2, <2>3
<1>4. CASE InsertWallet(p)
  <2>1. IsWallet(p)
    BY <1>4 DEF InsertWallet, IsWallet
  <2> DEFINE refused == req[p].user \notin users \/ HasWallet(p)
  <2>2. CASE refused
    <3>1. Reason(p, "refused")
      BY <1>1, <2>1, <2>2 DEF Reason, Inv, StepInv
    <3> QED
      BY <3>1, <1>1, <1>2, <1>4, <2>2, StatusStep DEF InsertWallet, Became
  <2>3. CASE ~refused
    BY <1>1, <1>4, <2>1, <2>3, InsertedStep DEF InsertWallet, Became
  <2> QED
    BY <2>2, <2>3
<1>5. CASE InsertLost(p)
  BY <1>1, <1>2, <1>5, StatusStep DEF InsertLost, Became
<1> QED
  BY <1>3, <1>4, <1>5 DEF Server

(* A crash frees mutexes only of handlers that it ends.                    *)
LEMMA CrashInv == ASSUME Inv, Crash PROVE Inv'
<1> USE DEF Inv
<1>1. PICK stopped \in {Process[p] : p \in Attempts} :
        LET Hit(p) == Process[p] = stopped /\ Running(p) IN
        /\ pc' = [p \in Attempts |-> IF Hit(p) THEN "dead" ELSE pc[p]]
        /\ held' = [p \in Attempts |-> held[p] /\ ~Hit(p)]
  BY DEF Crash
<1>2. UNCHANGED << req, insert, outcome, users, wallets >>
  BY DEF Crash
<1>3. ASSUME NEW p \in Attempts
      PROVE  /\ pc'[p] = pc[p] \/ (pc'[p] = "dead" /\ pc[p] # "idle")
             /\ held'[p] => held[p]
             /\ held[p] /\ pc'[p] # "dead" => held'[p]
  BY <1>1 DEF Running
<1>4. TypeOK'
  BY <1>1, <1>2 DEF TypeOK, Labels
<1>5. MutexInv'
  BY <1>2, <1>3 DEF MutexInv, SameShard, IsWallet, InSection
<1>6. RowsInv'
  BY <1>2 DEF RowsInv, IsWallet, WalletBy, Currency
<1>7. ASSUME NEW q \in Attempts PROVE StepInv(q)' /\ OutcomeInv(q)'
  BY <1>2, <1>3 DEF StepInv, OutcomeInv, IsWallet, Currency,
       SameWallet, HasWallet, Reason
<1>8. OneWalletPerCurrency'
  BY <1>2 DEF OneWalletPerCurrency
<1> QED
  BY <1>4, <1>5, <1>6, <1>7, <1>8

LEMMA StutterInv == ASSUME Inv, UNCHANGED vars PROVE Inv'
BY DEF vars, Inv, TypeOK, MutexInv, SameShard, RowsInv, StepInv, OutcomeInv, IsWallet,
       WalletBy, Currency, SameWallet, HasWallet, Reason, OneWalletPerCurrency

LEMMA NextInv == Inv /\ [Next]_vars => Inv'
<1> SUFFICES ASSUME Inv, [Next]_vars PROVE Inv'
  OBVIOUS
<1>1. ASSUME NEW p \in Attempts, Client(p) \/ Handler(p) \/ Fault(p) \/ Server(p)
      PROVE  Inv'
  BY <1>1, AskInv, LockInv, CheckInv, SendInsertInv, ReplyInv, UnlockInv, CallFailsInv,
     ServerInv
     DEF Handler, Fault
<1> QED
  BY <1>1, CrashInv, StutterInv DEF Next, Finished

-----------------------------------------------------------------------------
(* The invariant, of every reachable state.                                *)
THEOREM AccountsInvariance == Spec => []Inv
BY InvInit, NextInv, PTL DEF Spec

(* Every variable keeps its type.                                          *)
THEOREM AccountsTypeCorrect == Spec => []TypeOK
<1>1. Inv => TypeOK
  BY DEF Inv
<1> QED
  BY AccountsInvariance, <1>1, PTL

(* However many processes create wallets, and whatever fails, a user has at
   most one wallet of a currency (OneWalletPerCurrency).                   *)
THEOREM WalletsAreUnique == Spec => []OneWalletPerCurrency
<1>1. Inv => OneWalletPerCurrency
  BY DEF Inv
<1> QED
  BY AccountsInvariance, <1>1, PTL

(* What a client is told of its user or wallet is so (AnswersAreTrue).     *)
THEOREM AnswersHold == Spec => []AnswersAreTrue
<1>1. ASSUME Inv, NEW p \in Attempts, outcome[p] # "none"
      PROVE  /\ req[p] \in Request
             /\ req[p].kind = "user" <=> ~IsWallet(p)
  <2>1. req[p] \in Request
    BY <1>1 DEF Inv, StepInv
  <2> QED
    BY <2>1, RequestKinds DEF IsWallet
<1>2. ASSUME Inv, NEW p \in Attempts,
             outcome[p] \in {"exists", "invalid", "noUser", "refused"}
      PROVE  ~Created(p) /\ insert[p] # "sent"
  <2>1. insert[p] \in {"none", "refused"}
    BY <1>2 DEF Inv, OutcomeInv
  <2>2. p \notin OldUsers
    BY RegistryAssumption
  <2> QED
    BY <1>2, <2>1, <2>2 DEF Inv, RowsInv, Created
<1>3. Inv => AnswersAreTrue
  BY <1>1, <1>2 DEF Inv, RowsInv, OutcomeInv, AnswersAreTrue
<1> QED
  BY AccountsInvariance, <1>3, PTL

(* Between the check and the INSERT of a handler no other of its process
   creates that wallet (NothingBetweenCheckAndInsert).                     *)
THEOREM CheckStaysTrue == Spec => NothingBetweenCheckAndInsert
<1> DEFINE Undisturbed(p, w) ==
             /\ pc[p] \in {"insert", "await"} /\ insert[p] \in {"none", "sent"}
             /\ req[p].kind = "wallet" /\ SameWallet(w, p) /\ w.id # p
             => Process[w.id] # Process[p] \/ pc[w.id] \in {"done", "dead"}
<1>1. ASSUME Inv, [Next]_vars, NEW p \in Attempts, NEW w \in wallets' \ wallets
      PROVE  Undisturbed(p, w)
  <2>1. PICK q \in Attempts : InsertWallet(q)
    BY <1>1 DEF Next, vars, Client, AskUser, AskWallet, Handler, Lock, CheckCurrency,
       GetUserByID, GetWalletByUserAndCurrency, SendInsert, Reply, Unlock, Fault,
       GetWalletByUserAndCurrencyFails, CallFails, Server, InsertUser, InsertLost,
       Crash, Finished
  <2>2. w = WalletBy(q) /\ insert[q] = "sent" /\ IsWallet(q)
    BY <1>1, <2>1 DEF InsertWallet, IsWallet
  <2>3. w.id = q /\ w.user = req[q].user
    BY <2>2 DEF WalletBy
  <2>4. SUFFICES ASSUME pc[p] \in {"insert", "await"}, IsWallet(p), SameWallet(w, p),
                        q # p, Process[q] = Process[p], pc[q] \notin {"done", "dead"}
                 PROVE  FALSE
    BY <2>3 DEF IsWallet
  <2>5. held[p]
    BY <1>1, <2>4 DEF Inv, MutexInv, InSection
  <2>6. pc[q] \in InSection
    BY <1>1, <2>2, <2>4 DEF Inv, StepInv, TypeOK, Labels, InSection
  <2>7. held[q]
    BY <1>1, <2>2, <2>6 DEF Inv, MutexInv
  <2>8. SameShard(p, q)
    BY <2>3, <2>4 DEF SameWallet, SameShard
  <2> QED
    BY <1>1, <2>4, <2>5, <2>7, <2>8 DEF Inv, MutexInv
<1>2. Inv /\ [Next]_vars =>
        [\A p \in Attempts : \A w \in wallets' \ wallets : Undisturbed(p, w)]_vars
  BY <1>1
<1> QED
  BY AccountsInvariance, <1>2, PTL DEF Spec, NothingBetweenCheckAndInsert

-----------------------------------------------------------------------------
(* The handlers and the constraints implement Registry.                    *)

(* A handler's answer, told what makes it true.                            *)
LEMMA DecisionAnswers ==
  ASSUME Inv, NEW p \in Attempts, pc[p] \in InSection \ {"unlock"}, pc[p] # "idle",
         NEW a \in {"created", "failed", "invalid", "noUser", "exists", "refused"},
         Decide(p, a),
         a = "created" => Created(p),
         a \notin {"created", "failed"} => insert[p] # "done" /\ Reason(p, a),
         UNCHANGED << req, users, wallets >>
  PROVE  Answer(p)
<1>1. req[p] # NoRequest
  BY RequestKinds DEF Inv, StepInv
<1>2. outcome[p] = "none"
  BY DEF Inv, OutcomeInv, InSection
<1>3. insert[p] # "done" => ~Created(p)
  BY RegistryAssumption DEF Inv, RowsInv, Created
<1> QED
  BY <1>1, <1>2, <1>3 DEF Answer, Decide

LEMMA HandlerKeepsRegistry ==
  ASSUME Inv, NEW p \in Attempts, Handler(p) \/ Fault(p)
  PROVE  RegistryNext \/ UNCHANGED registry
<1>1. UNCHANGED << req, users, wallets >>
  BY DEF Handler, Fault, Lock, CheckCurrency, GetUserByID,
     GetWalletByUserAndCurrency, SendInsert, Reply, Unlock,
     GetWalletByUserAndCurrencyFails, CallFails
<1>2. CASE outcome' = outcome
  BY <1>1, <1>2 DEF registry
<1>3. CASE outcome' # outcome
  <2>1. CASE CheckCurrency(p) \/ GetUserByID(p) \/ GetWalletByUserAndCurrency(p)
    <3>1. IsWallet(p) /\ insert[p] = "none" /\ pc[p] \in InSection \ {"unlock"}
      BY <2>1 DEF CheckCurrency, GetUserByID, GetWalletByUserAndCurrency, Inv,
         StepInv, InSection
    <3>2. PICK a \in {"invalid", "noUser", "exists"} : Decide(p, a) /\ Reason(p, a)
      BY <1>3, <2>1, <3>1 DEF CheckCurrency, GetUserByID,
         GetWalletByUserAndCurrency, Reason
    <3>3. Answer(p)
      BY <1>1, <3>1, <3>2, DecisionAnswers DEF InSection
    <3> QED
      BY <3>3 DEF RegistryNext
  <2>2. CASE Reply(p)
    <3>1. insert[p] = "done" => Created(p)
      BY DEF Inv, RowsInv, Created, WalletBy
    <3>2. insert[p] = "refused" => Reason(p, "refused")
      BY DEF Inv, StepInv
    <3>3. Answer(p)
      BY <1>1, <2>2, <3>1, <3>2, DecisionAnswers DEF Reply, InSection
    <3> QED
      BY <3>3 DEF RegistryNext
  <2>3. CASE CallFails(p)
    <3>1. Answer(p)
      BY <1>1, <2>3, DecisionAnswers DEF CallFails, InSection
    <3> QED
      BY <3>1 DEF RegistryNext
  <2> QED
    BY <1>3, <2>1, <2>2, <2>3 DEF Handler, Fault, Lock, SendInsert, Unlock,
       GetWalletByUserAndCurrencyFails
<1> QED
  BY <1>2, <1>3

(* An INSERT creates what was asked for, by an attempt that was not refused. *)
LEMMA ServerKeepsRegistry ==
  ASSUME Inv, NEW p \in Attempts, Server(p)
  PROVE  RegistryNext \/ UNCHANGED registry
<1>1. insert[p] = "sent" /\ UNCHANGED << req, outcome >> /\ req[p] \in Request
  BY DEF Server, InsertUser, InsertWallet, InsertLost, Inv, StepInv
<1>2. Undecided(p)
  BY <1>1 DEF Inv, OutcomeInv, TypeOK, Answers, Undecided
<1>3. CASE InsertUser(p) /\ users' # users
  <2>1. req[p].name = "fits"
    BY <1>1, <1>3 DEF InsertUser, Request, Names
  <2> QED
    BY <1>1, <1>2, <1>3, <2>1 DEF InsertUser, AddUser, RegistryNext
<1>4. CASE InsertWallet(p) /\ wallets' # wallets
  <2>1. IsWallet(p) /\ Currency(p) \in ISO
    BY <1>1, <1>4 DEF InsertWallet, Inv, StepInv, IsWallet
  <2> QED
    BY <1>1, <1>2, <1>4, <2>1 DEF InsertWallet, AddWallet, RegistryNext
<1>5. CASE UNCHANGED << users, wallets >>
  BY <1>1, <1>5 DEF registry
<1> QED
  BY <1>3, <1>4, <1>5 DEF Server, InsertUser, InsertWallet, InsertLost

LEMMA ClientKeepsRegistry ==
  ASSUME Inv, NEW p \in Attempts, Client(p)
  PROVE  RegistryNext
<1>1. req[p] = NoRequest /\ UNCHANGED << outcome, users, wallets >>
  BY DEF Client, AskUser, AskWallet, Inv, StepInv
<1>2. PICK r \in Request :
        /\ r.kind = "wallet" => r.user \in Nameable
        /\ req' = [req EXCEPT ![p] = r]
  <2>1. CASE AskUser(p)
    <3>1. PICK n \in Names : req' = [req EXCEPT ![p] = [kind |-> "user", name |-> n]]
      BY <2>1 DEF AskUser
    <3> QED
      BY <3>1 DEF Request
  <2>2. CASE AskWallet(p)
    <3>1. PICK u \in Nameable, c \in Codes :
            req' = [req EXCEPT ![p] = [kind |-> "wallet", user |-> u, code |-> c]]
      BY <2>2 DEF AskWallet
    <3>2. u \in UserIds
      BY DEF Nameable, UserIds
    <3> QED
      BY <3>1, <3>2 DEF Request
  <2> QED
    BY <2>1, <2>2 DEF Client
<1>3. Ask(p)
  BY <1>1, <1>2 DEF Ask
<1> QED
  BY <1>3 DEF RegistryNext

(* Statements, mutexes, processes and failures show only what Registry allows:
   a user or a wallet appears in one step, for a user who is there and has none
   of the currency, never for an attempt that was refused, and each answer is
   so when it is decided.  In particular a client that is answered with a
   constraint's own error sent a name too long or has that wallet already.  *)
THEOREM AccountsKeepRegistry == Spec => KeepsRegistry
<1>1. Init => RegistryInit
  BY DEF Init
<1>2. Inv /\ [Next]_vars => [RegistryNext]_registry
  <2> SUFFICES ASSUME Inv, [Next]_vars PROVE RegistryNext \/ UNCHANGED registry
    OBVIOUS
  <2>1. CASE Crash \/ Finished \/ UNCHANGED vars
    BY <2>1 DEF Crash, Finished, vars, registry
  <2> QED
    BY <2>1, ClientKeepsRegistry, HandlerKeepsRegistry, ServerKeepsRegistry DEF Next
<1> QED
  BY <1>1, <1>2, AccountsInvariance, PTL DEF Spec, KeepsRegistry, RegistrySpec
=============================================================================
