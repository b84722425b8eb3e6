------------------------------ MODULE Accounts ------------------------------
(***************************************************************************)
(* POST /users and POST /wallets: who has a wallet, and at most one for    *)
(* each user and currency.                                                 *)
(*                                                                         *)
(* CreateWallet checks and then inserts, in statements of their own; what  *)
(* keeps two of them apart is the mutex of the user's shard within a       *)
(* process, and UNIQUE(user_id, currency) between processes.  There is no  *)
(* transaction and no idempotency key: the one INSERT commits by itself,   *)
(* and a handler that has given up does not know what became of it.        *)
(*                                                                         *)
(* An attempt is one HTTP request.  uuid.New() is fresh: the id of what an *)
(* attempt creates is the attempt.                                         *)
(*                                                                         *)
(* Some definitions are preceded by one like them with a plausible         *)
(* mistake, with which a property fails; nothing uses those.               *)
(***************************************************************************)
EXTENDS Registry

CONSTANTS
  Shard,         \* [user ids -> Nat], getShard
  Process,       \* [Attempts -> the process that serves it]
  CallsMayFail,  \* TRUE: a database call may fail, its effect unknown
  MayCrash       \* TRUE: a process may stop at any point and be restarted

ASSUME AccountsAssumption ==
  /\ Shard \in [UserIds -> Nat]
  /\ DOMAIN Process = Attempts
  /\ CallsMayFail \in BOOLEAN
  /\ MayCrash \in BOOLEAN

VARIABLES
  pc,     \* where the handler of each attempt is
  held,   \* whether the handler holds the mutex of the user's shard
  insert  \* the handler's INSERT

vars == << req, pc, held, insert, outcome, users, wallets >>

Init ==
  /\ RegistryInit
  /\ pc = [p \in Attempts |-> "idle"]
  /\ held = [p \in Attempts |-> FALSE]
  /\ insert = [p \in Attempts |-> "none"]

Goto(p, l) == pc' = [pc EXCEPT ![p] = l]

Decide(p, answer) == outcome' = [outcome EXCEPT ![p] = answer]

-----------------------------------------------------------------------------
(* The client.                                                             *)

AskUser(p) ==
  /\ pc[p] = "idle"
  /\ \E n \in Names : req' = [req EXCEPT ![p] = [kind |-> "user", name |-> n]]
  /\ Goto(p, "insert")
  /\ UNCHANGED << held, insert, outcome, users, wallets >>

AskWallet(p) ==
  /\ pc[p] = "idle"
  /\ \E u \in Nameable, c \in Codes :
       req' = [req EXCEPT ![p] = [kind |-> "wallet", user |-> u, code |-> c]]
  /\ Goto(p, "mutex")
  /\ UNCHANGED << held, insert, outcome, users, wallets >>

-----------------------------------------------------------------------------
(* The handler.                                                            *)

SameShard(p, q) ==
  /\ Process[p] = Process[q]
  /\ Shard[req[p].user] = Shard[req[q].user]

LockAtOnce(p) ==
  /\ pc[p] = "mutex"
  /\ held' = [held EXCEPT ![p] = TRUE]
  /\ Goto(p, "currency")
  /\ UNCHANGED << req, insert, outcome, users, wallets >>

Lock(p) ==
  /\ pc[p] = "mutex"
  /\ \A q \in Attempts : held[q] => ~SameShard(p, q)
  /\ held' = [held EXCEPT ![p] = TRUE]
  /\ Goto(p, "currency")
  /\ UNCHANGED << req, insert, outcome, users, wallets >>

CheckCurrency(p) ==
  /\ pc[p] = "currency"
  /\ IF Currency(p) \in ISO
     THEN Goto(p, "checkUser") /\ UNCHANGED outcome
     ELSE Goto(p, "unlock") /\ Decide(p, "invalid")
  /\ UNCHANGED << req, held, insert, users, wallets >>

GetUserByIDUnchecked(p) ==
  /\ pc[p] = "checkUser"
  /\ Goto(p, "checkWallet")
  /\ UNCHANGED << req, held, insert, outcome, users, wallets >>

GetUserByID(p) ==
  /\ pc[p] = "checkUser"
  /\ IF req[p].user \in users
     THEN Goto(p, "checkWallet") /\ UNCHANGED outcome
     ELSE Goto(p, "unlock") /\ Decide(p, "noUser")
  /\ UNCHANGED << req, held, insert, users, wallets >>

GetWalletByUserAndCurrency(p) ==
  /\ pc[p] = "checkWallet"
  /\ IF HasWallet(p)
     THEN Goto(p, "unlock") /\ Decide(p, "exists")
     ELSE Goto(p, "insert") /\ UNCHANGED outcome
  /\ UNCHANGED << req, held, insert, users, wallets >>

(* Its error is swallowed: the wallet is taken not to exist.               *)
GetWalletByUserAndCurrencyFails(p) ==
  /\ CallsMayFail
  /\ pc[p] = "checkWallet"
  /\ Goto(p, "insert")
  /\ UNCHANGED << req, held, insert, outcome, users, wallets >>

SendInsert(p) ==
  /\ pc[p] = "insert"
  /\ insert' = [insert EXCEPT ![p] = "sent"]
  /\ Goto(p, "await")
  /\ UNCHANGED << req, held, outcome, users, wallets >>

ReplyUnawaited(p) ==
  /\ pc[p] = "await"
  /\ Decide(p, "created")
  /\ Goto(p, "unlock")
  /\ UNCHANGED << req, held, insert, users, wallets >>

(* A conflict is answered like any other error of the INSERT.              *)
Reply(p) ==
  /\ pc[p] = "await"
  /\ \/ insert[p] = "done" /\ Decide(p, "created")
     \/ insert[p] = "refused" /\ Decide(p, "refused")
     \/ insert[p] = "lost" /\ Decide(p, "failed")
  /\ Goto(p, "unlock")
  /\ UNCHANGED << req, held, insert, users, wallets >>

Unlock(p) ==
  /\ pc[p] = "unlock"
  /\ held' = [held EXCEPT ![p] = FALSE]
  /\ Goto(p, "done")
  /\ UNCHANGED << req, insert, outcome, users, wallets >>

(* A call fails: the connection broke, or the client left.                 *)
CallFails(p) ==
  /\ CallsMayFail
  /\ pc[p] \in {"checkUser", "insert", "await"}
  /\ Goto(p, "unlock")
  /\ Decide(p, "failed")
  /\ UNCHANGED << req, held, insert, users, wallets >>

-----------------------------------------------------------------------------
(* The server.                                                             *)

Became(p, status) == insert' = [insert EXCEPT ![p] = status]

(* VARCHAR(255).                                                           *)
InsertUser(p) ==
  /\ insert[p] = "sent" /\ req[p].kind = "user"
  /\ IF req[p].name = "tooLong"
     THEN Became(p, "refused") /\ UNCHANGED users
     ELSE Became(p, "done") /\ users' = users \cup {p}
  /\ UNCHANGED << req, pc, held, outcome, wallets >>

InsertWalletAnyway(p) ==
  /\ insert[p] = "sent" /\ req[p].kind = "wallet"
  /\ Became(p, "done")
  /\ wallets' = wallets \cup {WalletBy(p)}
  /\ UNCHANGED << req, pc, held, outcome, users >>

(* REFERENCES users(id), UNIQUE(user_id, currency).                        *)
InsertWallet(p) ==
  /\ insert[p] = "sent" /\ req[p].kind = "wallet"
  /\ IF req[p].user \notin users \/ HasWallet(p)
     THEN Became(p, "refused") /\ UNCHANGED wallets
     ELSE Became(p, "done") /\ wallets' = wallets \cup {WalletBy(p)}
  /\ UNCHANGED << req, pc, held, outcome, users >>

(* The INSERT does not reach the server, or dies with its connection.      *)
InsertLost(p) ==
  /\ insert[p] = "sent"
  /\ CallsMayFail \/ pc[p] # "await"
  /\ Became(p, "lost")
  /\ UNCHANGED << req, pc, held, outcome, users, wallets >>

-----------------------------------------------------------------------------
(* A process stops; the restarted one has its mutexes free.                *)
Running(p) == pc[p] \notin {"idle", "done", "dead"}

Crash ==
  /\ MayCrash
  /\ \E stopped \in {Process[p] : p \in Attempts} :
       LET Hit(p) == Process[p] = stopped /\ Running(p) IN
       /\ \E p \in Attempts : Hit(p)
       /\ pc' = [p \in Attempts |-> IF Hit(p) THEN "dead" ELSE pc[p]]
       /\ held' = [p \in Attempts |-> held[p] /\ ~Hit(p)]
  /\ UNCHANGED << req, insert, outcome, users, wallets >>

Finished ==
  /\ \A p \in Attempts : pc[p] \in {"done", "dead"} /\ insert[p] # "sent"
  /\ UNCHANGED vars

-----------------------------------------------------------------------------
Client(p) == AskUser(p) \/ AskWallet(p)

Handler(p) ==
  \/ Lock(p) \/ CheckCurrency(p) \/ GetUserByID(p)
  \/ GetWalletByUserAndCurrency(p) \/ SendInsert(p) \/ Reply(p) \/ Unlock(p)

Fault(p) == GetWalletByUserAndCurrencyFails(p) \/ CallFails(p)

Server(p) == InsertUser(p) \/ InsertWallet(p) \/ InsertLost(p)

Next ==
  \/ \E p \in Attempts : Client(p) \/ Handler(p) \/ Fault(p) \/ Server(p)
  \/ Crash \/ Finished

Spec == Init /\ [][Next]_vars
-----------------------------------------------------------------------------
Labels ==
  {"idle", "mutex", "currency", "checkUser", "checkWallet", "insert", "await",
   "unlock", "done", "dead"}

Answers ==
  {"none", "created", "exists", "invalid", "noUser", "refused", "failed"}

(* Types of the variables.                                                 *)
TypeOK ==
  /\ req \in [Attempts -> Request \cup {NoRequest}]
  /\ pc \in [Attempts -> Labels]
  /\ held \in [Attempts -> BOOLEAN]
  /\ insert \in [Attempts -> {"none", "sent", "done", "refused", "lost"}]
  /\ outcome \in [Attempts -> Answers]
  /\ users \in SUBSET UserIds
  /\ wallets \in SUBSET Wallet

(* "One wallet per currency per user" (schema.sql:22), however the currency
   was written, whichever processes served the requests, and although a
   failed check is taken for "no such wallet".                             *)
OneWalletPerCurrency ==
  \A v, w \in wallets : v.user = w.user /\ v.currency = w.currency => v = w

(* What a client is told is so, for good: a wallet or user created is its
   own; one refused, for whatever reason, has created nothing and will not;
   "already exists" speaks of another attempt's wallet, and "user not found"
   of a user nobody has been told of.                                      *)
AnswersAreTrue ==
  \A p \in Attempts :
    /\ outcome[p] = "created" =>
         IF req[p].kind = "user" THEN p \in users ELSE WalletBy(p) \in wallets
    /\ outcome[p] \in {"exists", "invalid", "noUser", "refused"} =>
         ~Created(p) /\ insert[p] # "sent"
    /\ outcome[p] = "exists" => HasWallet(p)
    /\ outcome[p] = "noUser" => req[p].user \in Strangers

(* What GetWalletByUserAndCurrency found stays true until the INSERT: no wallet
   of the user and currency gets in between, but for one that another process
   creates, or an INSERT whose handler had given up.  Only these bring a raw
   constraint error to a client whose own calls all succeeded.             *)
NothingBetweenCheckAndInsert ==
  [][\A p \in Attempts : \A w \in wallets' \ wallets :
       /\ pc[p] \in {"insert", "await"} /\ insert[p] \in {"none", "sent"}
       /\ req[p].kind = "wallet" /\ SameWallet(w, p) /\ w.id # p
       => Process[w.id] # Process[p] \/ pc[w.id] \in {"done", "dead"}]_vars

(* What makes these inductive.  A handler that uses the user's wallets has the
   mutex of the user's shard to itself.                                    *)
InSection == {"currency", "checkUser", "checkWallet", "insert", "await", "unlock"}

MutexInv ==
  \A p \in Attempts :
    /\ IsWallet(p) /\ pc[p] \in InSection => held[p]
    /\ held[p] => IsWallet(p)
    /\ \A q \in Attempts : held[p] /\ held[q] /\ p # q => ~SameShard(p, q)

(* What there is comes from an INSERT, and an INSERT from the checks.      *)
RowsInv ==
  /\ OldUsers \subseteq users
  /\ \A u \in users \ OldUsers : u \in Attempts /\ insert[u] = "done" /\ ~IsWallet(u)
  /\ \A w \in wallets :
       insert[w.id] = "done" /\ IsWallet(w.id) /\ w = WalletBy(w.id)
  /\ \A p \in Attempts :
       insert[p] = "done" => IF IsWallet(p) THEN WalletBy(p) \in wallets ELSE p \in users

StepInv(p) ==
  /\ pc[p] = "idle" => req[p] = NoRequest /\ outcome[p] = "none"
  /\ pc[p] # "idle" => req[p] \in Request
  /\ IsWallet(p) => req[p].user \in Strangers \cup users
  /\ pc[p] \in {"mutex", "currency", "checkUser", "checkWallet"} => IsWallet(p)
  /\ IsWallet(p) /\ pc[p] \in {"checkUser", "checkWallet", "insert", "await"} =>
       Currency(p) \in ISO
  /\ IsWallet(p) /\ insert[p] # "none" => Currency(p) \in ISO
  /\ pc[p] \in {"idle", "mutex", "currency", "checkUser", "checkWallet", "insert"} =>
       insert[p] = "none"
  /\ pc[p] = "await" => insert[p] # "none"
  /\ IsWallet(p) /\ pc[p] \in {"checkWallet", "insert", "await"} => req[p].user \in users
  /\ IsWallet(p) /\ insert[p] # "none" => req[p].user \in users
  /\ insert[p] = "refused" => Reason(p, "refused")

OutcomeInv(p) ==
  /\ outcome[p] # "none" => pc[p] \in {"unlock", "done", "dead"}
  /\ outcome[p] = "created" => insert[p] = "done"
  /\ outcome[p] = "refused" => insert[p] = "refused"
  /\ outcome[p] \in {"exists", "invalid", "noUser"} => insert[p] = "none"
  /\ outcome[p] = "exists" => HasWallet(p)
  /\ outcome[p] = "noUser" => req[p].user \in Strangers

Inv ==
  /\ TypeOK
  /\ MutexInv
  /\ RowsInv
  /\ \A p \in Attempts : StepInv(p) /\ OutcomeInv(p)
  /\ OneWalletPerCurrency

(* The handlers, the constraints and the mutexes keep what Registry promises:
   each row appears in one step, by an attempt not yet refused, and an answer
   says what is so when it is decided.                                     *)
KeepsRegistry == RegistrySpec
=============================================================================
