------------------------- MODULE IdempotencyProofs -------------------------
(***************************************************************************)
(* Theorems about the keys, the answers and the ledger of WalletService,   *)
(* for every retention and skew of the clocks, every number of attempts    *)
(* and every set of requests, whatever fails.                              *)
(*                                                                         *)
(* KeyInv is inductive relative to Inv.  The lemmas say first what a step  *)
(* does to the other attempts and to the past, then that it keeps each     *)
(* part of KeyInv; the theorems come last.                                 *)
(***************************************************************************)
EXTENDS WalletServiceProofs

-----------------------------------------------------------------------------
(* What a step leaves alone.                                               *)

StepOf(p) == Arrive(p) \/ Handler(p) \/ Server(p) \/ Fault(p)

Background == Crash \/ Tick \/ DeleteExpiredKeys \/ Finished \/ UNCHANGED vars

LEMMA Steps ==
  ASSUME [Next]_vars
  PROVE  (\E p \in Attempts : StepOf(p)) \/ Background
BY DEF Next, StepOf, Background

(* A step of one attempt is invisible in the state of another.             *)
LEMMA OthersUntouched ==
  ASSUME Inv, NEW p \in Attempts, StepOf(p), NEW q \in Attempts \ {p}
  PROVE  /\ pc'[q] = pc[q] /\ tx'[q] = tx[q] /\ seen'[q] = seen[q]
         /\ outcome'[q] = outcome[q]
<1>1. CASE Arrive(p) \/ RefuseMalformed(p) \/ GetResponse(p) \/ LockShard(p)
  BY <1>1 DEF Arrive, RefuseMalformed, GetResponse, LockShard, Goto, Decide,
     Inv, TypeOK
<1>2. CASE Begin(p) \/ Suspend(p) \/ Commit(p) \/ SaveResponse(p)
  BY <1>2 DEF Begin, Suspend, Commit, SaveResponse, Goto, Inv, TypeOK
<1>3. CASE CheckAndCreateKey(p) \/ WalletNotFound(p) \/ Refuse(p)
  BY <1>3 DEF CheckAndCreateKey, WalletNotFound, Refuse, Goto, Decide,
     Inv, TypeOK
<1>4. CASE LockWallet(p)
  BY <1>4 DEF LockWallet, Goto, Inv, TypeOK
<1>5. CASE UpdateWalletBalance(p)
  BY <1>5 DEF UpdateWalletBalance, Goto, Decide, Inv, TypeOK
<1>6. CASE CreateLedgerEntry(p)
  BY <1>6 DEF CreateLedgerEntry, Goto, Inv, TypeOK
<1>7. CASE Reply(p) \/ Rollback(p) \/ Unlock(p)
  BY <1>7 DEF Reply, Rollback, Unlock, Ended, Goto, Decide, Inv, TypeOK
<1>8. CASE Server(p)
  BY <1>8 DEF Server, ServerCommit, ServerSuspend, ServerAbort, Ended,
     handler, Inv, TypeOK
<1>9. CASE Fault(p)
  BY <1>9 DEF Fault, GetResponseFails, CallFails, RollbackFails, Goto, Decide,
     Inv, TypeOK
<1> QED
  BY <1>1, <1>2, <1>3, <1>4, <1>5, <1>6, <1>7, <1>8, <1>9 DEF StepOf, Handler

(* What a transaction that has been decided has read and written is fixed,
   requests never change, and the clock never goes back.                   *)
LEMMA PastIsFixed ==
  ASSUME Inv, [Next]_vars
  PROVE  /\ req' = req
         /\ clock' \in Nat /\ clock' >= clock
         /\ \A q \in Applied :
              q \in Applied' /\ tx'[q] = tx[q] /\ seen'[q] = seen[q]
<1>1. ASSUME NEW p \in Attempts, StepOf(p)
      PROVE  req' = req /\ clock' = clock
  BY <1>1 DEF StepOf, Handler, Server, Fault, Arrive, LockShard,
     RefuseMalformed, Begin, GetResponse, CheckAndCreateKey, LockWallet,
     WalletNotFound, Refuse, UpdateWalletBalance, CreateLedgerEntry,
     SaveResponse, Commit, Suspend, Reply, Rollback, Unlock, ServerCommit,
     ServerSuspend, ServerAbort, GetResponseFails, CallFails, RollbackFails,
     handler, tables
<1>2. ASSUME NEW p \in Attempts, StepOf(p), tx[p].status = "committed"
      PROVE  tx'[p] = tx[p] /\ seen'[p] = seen[p]
  <2>1. pc[p] \in {"await", "unlock", "done", "dead"}
    BY <1>2 DEF Inv, TypeOK, Labels, Staged
  <2>2. CASE Arrive(p) \/ Handler(p)
    BY <1>2, <2>1, <2>2 DEF Handler, Arrive, LockShard, RefuseMalformed, Begin,
       GetResponse, CheckAndCreateKey, LockWallet, WalletNotFound, Refuse,
       UpdateWalletBalance, CreateLedgerEntry, SaveResponse, Commit, Suspend,
       Reply, Rollback, Unlock
  <2>3. ~Server(p)
    BY <1>2 DEF Server, ServerCommit, ServerSuspend, ServerAbort, Orphan, Live
  <2>4. CASE Fault(p)
    BY <2>4 DEF Fault, GetResponseFails, CallFails, RollbackFails
  <2> QED
    BY <1>2, <2>2, <2>3, <2>4 DEF StepOf
<1>3. CASE \E p \in Attempts : StepOf(p)
  <2>1. clock \in Nat
    BY DEF Inv, TypeOK
  <2> QED
    BY <1>1, <1>2, <1>3, <2>1, OthersUntouched DEF Applied
<1>4. CASE Background
  BY <1>4 DEF Background, Crash, Tick, DeleteExpiredKeys, Finished, vars,
     handler, Applied, Inv, TypeOK
<1> QED
  BY <1>3, <1>4, Steps

(* Of an attempt's steps only the server's COMMIT of a top-up, payment or
   transfer changes the keys or the ledger, or moves money.                *)
LEMMA StepKeepsHistory ==
  ASSUME Inv, [Next]_vars, NEW p \in Attempts, StepOf(p), ~ServerCommit(p)
  PROVE  UNCHANGED << keyRows, ledger, clock >> /\ Posted' = Posted
<1>1. UNCHANGED << keyRows, ledger, clock >>
  BY DEF StepOf, Handler, Server, Fault, Arrive, LockShard,
     RefuseMalformed, Begin, GetResponse, CheckAndCreateKey, LockWallet,
     WalletNotFound, Refuse, UpdateWalletBalance, CreateLedgerEntry,
     SaveResponse, Commit, Suspend, Reply, Rollback, Unlock,
     ServerSuspend, ServerAbort, GetResponseFails, CallFails, RollbackFails,
     handler, tables
<1>2. ASSUME IsMoney(req[p]), tx'[p].status = "committed"
      PROVE  tx[p].status = "committed"
  <2>1. CASE Server(p)
    <3>1. ServerAbort(p)
      BY <1>2, <2>1 DEF Server, ServerSuspend
    <3> QED
      BY <1>2, <3>1, EndedTransaction DEF ServerAbort
  <2>2. CASE Rollback(p)
    BY <1>2, <2>2, EndedTransaction DEF Rollback
  <2>3. CASE Begin(p) \/ Suspend(p) \/ CheckAndCreateKey(p) \/ LockWallet(p)
    BY <1>2, <2>3 DEF Begin, Suspend, CheckAndCreateKey, LockWallet, Inv,
       TypeOK, Transaction
  <2>4. CASE UpdateWalletBalance(p)
    BY <1>2, <2>4 DEF UpdateWalletBalance, Inv, TypeOK, Transaction
  <2>5. CASE CreateLedgerEntry(p) \/ SaveResponse(p) \/ Commit(p)
    BY <1>2, <2>5 DEF CreateLedgerEntry, SaveResponse, Commit, Inv, TypeOK,
       Transaction
  <2>6. CASE \/ Arrive(p) \/ LockShard(p) \/ RefuseMalformed(p)
             \/ GetResponse(p) \/ WalletNotFound(p) \/ Refuse(p) \/ Reply(p)
             \/ Unlock(p) \/ Fault(p)
    BY <1>2, <2>6 DEF Arrive, LockShard, RefuseMalformed, GetResponse,
       WalletNotFound, Refuse, Reply, Unlock, Fault, GetResponseFails,
       CallFails, RollbackFails
  <2> QED
    BY <1>2, <2>1, <2>2, <2>3, <2>4, <2>5, <2>6 DEF StepOf, Handler
<1> QED
  BY <1>1, <1>2, OthersUntouched, PastIsFixed DEF Posted, Applied

(* Only a COMMIT and the worker change the history.                        *)
LEMMA HistorySteps ==
  ASSUME Inv, [Next]_vars
  PROVE  \/ \E p \in Attempts : ServerCommit(p)
         \/ DeleteExpiredKeys /\ Posted' = Posted
         \/ UNCHANGED << keyRows, ledger >> /\ Posted' = Posted
<1>1. CASE Background
  BY <1>1 DEF Background, Crash, Tick, DeleteExpiredKeys, Finished, vars,
     handler, tables, Applied, Posted
<1> QED
  BY <1>1, StepKeepsHistory, Steps

-----------------------------------------------------------------------------
(* Keys, responses and answers, label by label.                            *)

LEMMA KeyedMoves ==
  ASSUME Inv, NEW p \in Attempts, Keyed(p),
         \/ Arrive(p) \/ LockShard(p) \/ RefuseMalformed(p) \/ GetResponse(p)
         \/ WalletNotFound(p) \/ Refuse(p) \/ Unlock(p) \/ Fault(p)
  PROVE  Keyed(p)'
<1>1. UNCHANGED << req, tx, seen >>
  BY DEF Arrive, LockShard, RefuseMalformed, GetResponse, WalletNotFound,
     Refuse, Unlock, Fault, GetResponseFails, CallFails, RollbackFails
<1>2. CASE Arrive(p) \/ LockShard(p) \/ Unlock(p)
  BY <1>1, <1>2 DEF Arrive, LockShard, Unlock, Goto, Keyed, Inv, TypeOK
<1>3. CASE RefuseMalformed(p)
  BY <1>1, <1>3 DEF RefuseMalformed, Goto, Decide, Keyed, Inv, TypeOK, Staged
<1>4. CASE GetResponse(p)
  BY <1>1, <1>4 DEF GetResponse, Goto, Decide, Keyed, Inv, TypeOK, Staged
<1>5. CASE WalletNotFound(p) \/ Refuse(p)
  BY <1>1, <1>5 DEF WalletNotFound, Refuse, Goto, Decide, Keyed, Inv, TypeOK,
     Staged
<1>6. CASE GetResponseFails(p)
  BY <1>1, <1>6 DEF GetResponseFails, Goto, Keyed, Inv, TypeOK
<1>7. CASE CallFails(p)
  BY <1>1, <1>7 DEF CallFails, Goto, Decide, Keyed, Inv, TypeOK
<1>8. CASE RollbackFails(p)
  BY <1>1, <1>8 DEF RollbackFails, Goto, Keyed, Inv, TypeOK
<1> QED
  BY <1>2, <1>3, <1>4, <1>5, <1>6, <1>7, <1>8 DEF Fault

LEMMA KeyedWorks ==
  ASSUME Inv, NEW p \in Attempts, Keyed(p),
         \/ Begin(p) \/ Suspend(p) \/ CheckAndCreateKey(p) \/ LockWallet(p)
         \/ UpdateWalletBalance(p) \/ CreateLedgerEntry(p) \/ SaveResponse(p)
         \/ Commit(p)
  PROVE  Keyed(p)'
<1>1. req' = req
  BY DEF Begin, Suspend, CheckAndCreateKey, LockWallet, UpdateWalletBalance,
     CreateLedgerEntry, SaveResponse, Commit
<1>2. CASE Begin(p) \/ Suspend(p)
  <2>1. tx[p].keyed = FALSE /\ outcome' = outcome
    BY <1>2 DEF Begin, Suspend, Inv, Staged, NoTransaction
  <2>2. tx[p] \in Transaction
    BY DEF Inv, TypeOK
  <2>3. /\ tx'[p].keyed = FALSE
        /\ tx'[p].status = "open" \/ ~IsMoney(req[p])
    <3>1. CASE Begin(p)
      BY <3>1, <2>1, <2>2 DEF Begin, Transaction, Inv, TypeOK
    <3>2. CASE Suspend(p)
      BY <3>2, <2>1, <2>2 DEF Suspend, Transaction, Inv, TypeOK
    <3> QED
      BY <1>2, <3>1, <3>2
  <2>4. pc'[p] \in {"getResponse", "await"}
    BY <1>2 DEF Begin, Suspend, Goto, Inv, TypeOK
  <2>5. outcome[p].kind = "none"
    BY <1>2 DEF Begin, Suspend, Keyed
  <2> QED
    BY <1>1, <2>1, <2>3, <2>4, <2>5 DEF Keyed
<1>3. CASE CheckAndCreateKey(p)
  BY <1>1, <1>3 DEF CheckAndCreateKey, Goto, Decide, Keyed, Inv, TypeOK,
     Staged, Transaction
<1>4. CASE LockWallet(p)
  <2>1. /\ tx'[p].keyed = tx[p].keyed /\ tx'[p].status = "open"
        /\ pc'[p] \in {"lockRows", "update"} /\ outcome' = outcome
    BY <1>4 DEF LockWallet, Goto, Inv, TypeOK, Staged, Transaction
  <2> QED
    BY <1>1, <1>4, <2>1 DEF LockWallet, Keyed
<1>5. CASE UpdateWalletBalance(p)
  <2>1. /\ tx'[p].keyed = tx[p].keyed /\ tx'[p].status = "open"
        /\ \/ pc'[p] \in {"update", "ledger"} /\ outcome' = outcome
           \/ pc'[p] = "rollback"
    BY <1>5 DEF UpdateWalletBalance, Goto, Inv, TypeOK, Staged, Transaction
  <2> QED
    BY <1>1, <1>5, <2>1 DEF UpdateWalletBalance, Keyed
<1>6. CASE CreateLedgerEntry(p)
  <2>1. /\ tx'[p].keyed = tx[p].keyed /\ tx'[p].status = "open"
        /\ pc'[p] \in {"ledger", "save"} /\ outcome' = outcome
    BY <1>6 DEF CreateLedgerEntry, Goto, Inv, TypeOK, Staged, Transaction
  <2> QED
    BY <1>1, <1>6, <2>1 DEF CreateLedgerEntry, Keyed
<1>7. CASE SaveResponse(p)
  BY <1>1, <1>7 DEF SaveResponse, Goto, Keyed, Inv, TypeOK, Staged,
     Transaction
<1>8. CASE Commit(p)
  BY <1>1, <1>8 DEF Commit, Goto, Keyed, Inv, TypeOK, Staged, Transaction,
     Justified
<1> QED
  BY <1>2, <1>3, <1>4, <1>5, <1>6, <1>7, <1>8

LEMMA KeyedEnds ==
  ASSUME Inv, NEW p \in Attempts, Keyed(p),
         Reply(p) \/ Rollback(p) \/ Server(p)
  PROVE  Keyed(p)'
<1>1. req' = req /\ seen' = seen
  BY DEF Reply, Rollback, Server, ServerCommit, ServerSuspend, ServerAbort,
     handler
<1>2. CASE Reply(p)
  BY <1>1, <1>2 DEF Reply, Goto, Decide, Keyed, Inv, TypeOK
<1>3. ASSUME NEW status \in {"committed", "aborted"}, Ended(p, status)
      PROVE  /\ tx'[p].status = status
             /\ tx'[p].keyed = tx[p].keyed /\ tx'[p].body = tx[p].body
  BY <1>3 DEF Ended, Inv, TypeOK, Transaction
<1>4. CASE Rollback(p)
  BY <1>1, <1>3, <1>4 DEF Rollback, Goto, Keyed, Inv, TypeOK
<1>5. CASE ServerCommit(p) \/ ServerSuspend(p)
  BY <1>1, <1>3, <1>5 DEF ServerCommit, ServerSuspend, handler, Keyed
<1>6. CASE ServerAbort(p)
  BY <1>1, <1>3, <1>6 DEF ServerAbort, handler, Keyed
<1> QED
  BY <1>2, <1>4, <1>5, <1>6 DEF Server

LEMMA KeyedInv ==
  ASSUME Inv, \A q \in Attempts : Keyed(q), [Next]_vars
  PROVE  \A q \in Attempts : Keyed(q)'
<1>1. req' = req
  BY PastIsFixed
<1>2. ASSUME NEW p \in Attempts, StepOf(p), NEW q \in Attempts
      PROVE  Keyed(q)'
  <2>1. CASE q = p
    BY <1>2, <2>1, KeyedMoves, KeyedWorks, KeyedEnds DEF StepOf, Handler
  <2>2. CASE q # p
    BY <1>1, <1>2, <2>2, OthersUntouched DEF Keyed
  <2> QED
    BY <2>1, <2>2
<1>3. CASE Crash
  BY <1>3 DEF Crash, Running, Keyed, Inv, TypeOK
<1>4. CASE Tick \/ DeleteExpiredKeys \/ Finished \/ UNCHANGED vars
  BY <1>4 DEF Tick, DeleteExpiredKeys, Finished, vars, handler, Keyed
<1> QED
  BY <1>2, <1>3, <1>4, Steps DEF Background

(* Transactions are dated by the clock, which does not go back.            *)
LEMMA BegunInv ==
  ASSUME Inv, BegunBefore, [Next]_vars
  PROVE  BegunBefore'
<1>1. clock \in Nat /\ clock' \in Nat /\ clock' >= clock
  BY PastIsFixed DEF Inv, TypeOK
<1>2. ASSUME NEW p \in Attempts, StepOf(p)
      PROVE  tx'[p].begun \in {tx[p].begun, clock}
  <2>1. CASE Begin(p) \/ Suspend(p)
    BY <2>1 DEF Begin, Suspend, Inv, TypeOK, Transaction
  <2>2. CASE Rollback(p) \/ Server(p)
    BY <2>2 DEF Rollback, Server, ServerCommit, ServerSuspend, ServerAbort,
       Ended, Inv, TypeOK, Transaction
  <2>3. CASE CheckAndCreateKey(p) \/ LockWallet(p)
    BY <2>3 DEF CheckAndCreateKey, LockWallet, Inv, TypeOK, Transaction
  <2>4. CASE UpdateWalletBalance(p)
    BY <2>4 DEF UpdateWalletBalance, Inv, TypeOK, Transaction
  <2>5. CASE CreateLedgerEntry(p) \/ SaveResponse(p) \/ Commit(p)
    BY <2>5 DEF CreateLedgerEntry, SaveResponse, Commit, Inv, TypeOK,
       Transaction
  <2>6. CASE \/ Arrive(p) \/ LockShard(p) \/ RefuseMalformed(p)
             \/ GetResponse(p) \/ WalletNotFound(p) \/ Refuse(p) \/ Reply(p)
             \/ Unlock(p) \/ Fault(p)
    BY <2>6 DEF Arrive, LockShard, RefuseMalformed, GetResponse,
       WalletNotFound, Refuse, Reply, Unlock, Fault, GetResponseFails,
       CallFails, RollbackFails
  <2> QED
    BY <1>2, <2>1, <2>2, <2>3, <2>4, <2>5, <2>6 DEF StepOf, Handler
<1>3. \A p \in Attempts : tx[p].begun \in Nat
  BY DEF Inv, TypeOK, Transaction
<1>4. CASE \E p \in Attempts : StepOf(p)
  BY <1>1, <1>2, <1>3, <1>4, OthersUntouched DEF BegunBefore
<1>5. CASE Background
  <2>1. tx' = tx
    BY <1>5 DEF Background, Crash, Tick, DeleteExpiredKeys, Finished, vars,
       handler
  <2> QED
    BY <1>1, <1>3, <2>1 DEF BegunBefore
<1> QED
  BY <1>4, <1>5, Steps

-----------------------------------------------------------------------------
(* Keys in use, and what a COMMIT adds to the history.                     *)

Undecided(p) == Live(p) /\ tx[p].keyed

(* Only CheckAndCreateKey puts a key to use.                               *)
LEMMA NewUses ==
  ASSUME Inv, [Next]_vars, NEW q \in Attempts, Undecided(q)'
  PROVE  Undecided(q) \/ CheckAndCreateKey(q)
<1>1. ASSUME StepOf(q)
      PROVE  Undecided(q) \/ CheckAndCreateKey(q)
  <2>1. CASE Begin(q) \/ Suspend(q)
    <3>1. tx[q].keyed = FALSE
      BY <2>1 DEF Begin, Suspend, Inv, Staged, NoTransaction
    <3>2. tx'[q].keyed = tx[q].keyed
      BY <2>1 DEF Begin, Suspend, Inv, TypeOK, Transaction
    <3> QED
      BY <3>1, <3>2 DEF Undecided
  <2>2. CASE Rollback(q) \/ Server(q)
    <3>1. tx'[q].status \in {"committed", "aborted"}
      BY <2>2, EndedTransaction
      DEF Rollback, Server, ServerCommit, ServerSuspend, ServerAbort
    <3> QED
      BY <3>1 DEF Undecided, Live
  <2>3. CASE LockWallet(q)
    <3>1. tx[q].status = "open" /\ tx'[q].keyed = tx[q].keyed
      BY <2>3 DEF LockWallet, Inv, TypeOK, Transaction, Staged
    <3> QED
      BY <3>1 DEF Undecided, Live
  <2>4. CASE UpdateWalletBalance(q)
    <3>1. tx[q].status = "open" /\ tx'[q].keyed = tx[q].keyed
      BY <2>4 DEF UpdateWalletBalance, Inv, TypeOK, Transaction, Staged
    <3> QED
      BY <3>1 DEF Undecided, Live
  <2>5. CASE CreateLedgerEntry(q) \/ SaveResponse(q) \/ Commit(q)
    <3>1. tx[q].status = "open"
      BY <2>5 DEF CreateLedgerEntry, SaveResponse, Commit, Inv, Staged
    <3>2. tx'[q].keyed = tx[q].keyed
      BY <2>5 DEF CreateLedgerEntry, SaveResponse, Commit, Inv, TypeOK,
         Transaction
    <3> QED
      BY <3>1, <3>2 DEF Undecided, Live
  <2>6. CASE \/ Arrive(q) \/ LockShard(q) \/ RefuseMalformed(q)
             \/ GetResponse(q) \/ WalletNotFound(q) \/ Refuse(q) \/ Reply(q)
             \/ Unlock(q) \/ Fault(q)
    BY <2>6 DEF Arrive, LockShard, RefuseMalformed, GetResponse,
       WalletNotFound, Refuse, Reply, Unlock, Fault, GetResponseFails,
       CallFails, RollbackFails, Undecided, Live
  <2> QED
    BY <1>1, <2>1, <2>2, <2>3, <2>4, <2>5, <2>6 DEF StepOf, Handler
<1>2. ASSUME NEW p \in Attempts \ {q}, StepOf(p) PROVE Undecided(q)
  BY <1>2, OthersUntouched DEF Undecided, Live
<1>3. CASE Background
  BY <1>3 DEF Background, Crash, Tick, DeleteExpiredKeys, Finished, vars,
     handler, Undecided, Live
<1> QED
  BY <1>1, <1>2, <1>3, Steps

(* A commit adds one transaction to those that moved money, the row of its
   key to the keys, and nothing else to either.                            *)
LEMMA CommitAdds ==
  ASSUME Inv, \A q \in Attempts : Keyed(q), NEW p \in Attempts, ServerCommit(p)
  PROVE  /\ p \notin Posted /\ Posted' = Posted \cup {p}
         /\ Undecided(p)
         /\ UNCHANGED << req, seen, pc, outcome, clock >>
         /\ keyRows' = keyRows \cup {RowOf(p)}
         /\ \A q \in Posted' : RowOf(q)' = RowOf(q)
         /\ \A q \in Posted : tx'[q] = tx[q]
         /\ tx'[p].begun = tx[p].begun /\ tx'[p].ended = clock
         /\ tx'[p].body = tx[p].body
<1>1. /\ tx[p].status = "committing" /\ IsMoney(req[p]) /\ tx[p].keyed
      /\ UNCHANGED << req, seen, pc, outcome, clock >>
      /\ keyRows' = keyRows \cup {RowOf(p)}
  BY DEF ServerCommit, handler, Keyed, RowOf
<1>2. /\ tx'[p].begun = tx[p].begun /\ tx'[p].ended = clock
      /\ tx'[p].body = tx[p].body /\ tx'[p].status = "committed"
  BY DEF ServerCommit, Ended, Inv, TypeOK, Transaction
<1>3. \A q \in Attempts \ {p} : tx'[q] = tx[q]
  BY EndedTransaction DEF ServerCommit
<1>4. p \notin Posted /\ Posted' = Posted \cup {p} /\ Undecided(p)
  BY <1>1, <1>2, <1>3 DEF Posted, Applied, Undecided, Live
<1>5. \A q \in Posted' : RowOf(q)' = RowOf(q)
  BY <1>1, <1>2, <1>3 DEF RowOf, Posted, Applied
<1>6. \A q \in Posted : tx'[q] = tx[q]
  BY <1>3, <1>4 DEF Posted, Applied
<1> QED
  BY <1>1, <1>2, <1>4, <1>5, <1>6

(* A key is put to use when no row has it and nobody uses it, and a row
   appears when its user commits.                                          *)
LEMMA UndecidedInv ==
  ASSUME Inv, \A q \in Attempts : Keyed(q), UndecidedKeysNew, [Next]_vars
  PROVE  UndecidedKeysNew'
<1>1. req' = req
  BY PastIsFixed
<1>2. ASSUME NEW p \in Attempts, Undecided(p)',
             NEW q \in Attempts \ {p}, Undecided(q)'
      PROVE  req[q].key # req[p].key
  <2>1. CASE Undecided(p) /\ Undecided(q)
    BY <2>1 DEF UndecidedKeysNew, Undecided, KeyFree
  <2>2. ASSUME NEW u \in {p, q}, NEW v \in {p, q}, u # v,
               CheckAndCreateKey(u), ~Undecided(u)
        PROVE  req[q].key # req[p].key
    <3>1. Undecided(v)
      BY <1>2, <2>2, OthersUntouched DEF StepOf, Handler, Undecided, Live
    <3> QED
      BY <2>2, <3>1 DEF CheckAndCreateKey, KeyFree, Undecided
  <2> QED
    BY <1>2, <2>1, <2>2, NewUses
<1>3. ASSUME NEW p \in Attempts, Undecided(p)' PROVE ~KeyTaken(p)'
  <2>1. CASE \E q \in Attempts : ServerCommit(q)
    <3> PICK q \in Attempts : ServerCommit(q)
      BY <2>1
    <3>1. keyRows' = keyRows \cup {RowOf(q)} /\ Undecided(q)
      BY CommitAdds
    <3>2. p # q
      BY <1>3, EndedTransaction DEF ServerCommit, Undecided, Live
    <3>3. Undecided(p)
      BY <1>3, <3>2, OthersUntouched DEF StepOf, Server, Undecided, Live
    <3> QED
      BY <1>1, <3>1, <3>2, <3>3
      DEF UndecidedKeysNew, Undecided, KeyTaken, KeyFree, RowOf
  <2>2. CASE keyRows' \subseteq keyRows
    <3>1. ~KeyTaken(p)
      <4>1. CASE Undecided(p)
        BY <4>1 DEF UndecidedKeysNew, Undecided
      <4>2. CASE CheckAndCreateKey(p) /\ ~Undecided(p)
        BY <1>3, <4>2 DEF CheckAndCreateKey, Undecided, Live
      <4> QED
        BY <1>3, <4>1, <4>2, NewUses
    <3> QED
      BY <1>1, <2>2, <3>1 DEF KeyTaken
  <2> QED
    BY <2>1, <2>2, HistorySteps DEF DeleteExpiredKeys
<1> QED
  BY <1>1, <1>2, <1>3 DEF UndecidedKeysNew, Undecided, KeyFree

-----------------------------------------------------------------------------
(* The rows of the keys, and what they say of retries.                     *)

(* The row and the entries of a transaction that moved money are fixed.    *)
LEMMA PostedIsFixed ==
  ASSUME Inv, [Next]_vars, NEW q \in Posted
  PROVE  /\ q \in Attempts /\ q \in Posted' /\ RowOf(q)' = RowOf(q)
         /\ tx'[q] = tx[q] /\ tx[q] \in Transaction
         /\ Touched(req[q]) \subseteq Wallets
         /\ \A w : EntryOf(q, w)' = EntryOf(q, w)
<1>1. /\ q \in Applied /\ q \in Attempts /\ IsMoney(req[q])
      /\ tx[q].status = "committed"
  BY DEF Posted, Applied
<1>2. Touched(req[q]) \subseteq Wallets
  BY <1>1 DEF Inv, Staged
<1>3. tx[q] \in Transaction
  BY <1>1 DEF Inv, TypeOK
<1> QED
  BY <1>1, <1>2, <1>3, PastIsFixed DEF Posted, RowOf, EntryOf

LEMMA RowsPostedInv ==
  ASSUME Inv, \A q \in Attempts : Keyed(q), RowsPosted, [Next]_vars
  PROVE  RowsPosted'
<1> SUFFICES ASSUME NEW k \in keyRows' PROVE \E q \in Posted' : k = RowOf(q)'
  BY DEF RowsPosted
<1>1. CASE k \in keyRows
  BY <1>1, PostedIsFixed DEF RowsPosted
<1>2. ASSUME NEW p \in Attempts, ServerCommit(p), k = RowOf(p)
      PROVE  \E q \in Posted' : k = RowOf(q)'
  BY <1>2, CommitAdds
<1> QED
  BY <1>1, <1>2, CommitAdds, HistorySteps DEF DeleteExpiredKeys

LEMMA RowsKeptInv ==
  ASSUME Inv, \A q \in Attempts : Keyed(q), RowsKept, [Next]_vars
  PROVE  RowsKept'
<1> SUFFICES ASSUME NEW p \in Posted',
                    clock' <= tx'[p].begun + Retention - Skew
             PROVE  RowOf(p)' \in keyRows'
  BY DEF RowsKept
<1>1. ASSUME p \in Posted
      PROVE  RowOf(p) \in keyRows /\ RowOf(p)' = RowOf(p)
  <2>1. tx'[p] = tx[p] /\ tx[p].begun \in Nat
    BY <1>1, PostedIsFixed DEF Transaction
  <2>2. clock \in Nat /\ clock' \in Nat /\ clock' >= clock
    BY PastIsFixed DEF Inv, TypeOK
  <2>3. clock <= tx[p].begun + Retention - Skew
    BY <2>1, <2>2, ServiceAssumption
  <2> QED
    BY <1>1, <2>3, PostedIsFixed DEF RowsKept
<1>2. ASSUME NEW q \in Attempts, ServerCommit(q) PROVE RowOf(p)' \in keyRows'
  <2>1. p \in Posted \/ p = q
    BY <1>2, CommitAdds
  <2> QED
    BY <1>1, <1>2, <2>1, CommitAdds
<1>3. CASE DeleteExpiredKeys /\ Posted' = Posted
  <2>1. tx'[p] = tx[p] /\ tx[p].begun \in Nat /\ clock' = clock
    BY <1>3, PostedIsFixed DEF DeleteExpiredKeys, Transaction
  <2>2. ~Expired(RowOf(p))
    BY <2>1, ServiceAssumption DEF Expired, RowOf, Inv, TypeOK
  <2> QED
    BY <1>1, <1>3, <2>2 DEF DeleteExpiredKeys
<1>4. CASE UNCHANGED << keyRows, ledger >> /\ Posted' = Posted
  BY <1>1, <1>4
<1> QED
  BY <1>2, <1>3, <1>4, HistorySteps

(* When a second transaction commits under a key, the row of the first has
   been deleted: it had expired by the worker's clock.                     *)
LEMMA AtMostOnceInv ==
  ASSUME Inv, \A q \in Attempts : Keyed(q), UndecidedKeysNew, RowsKept,
         AtMostOncePerKey, [Next]_vars
  PROVE  AtMostOncePerKey'
<1> DEFINE Apart(p, q) == tx[q].ended > tx[p].begun + Retention - Skew
<1>1. ASSUME NEW p \in Posted, NEW q \in Attempts, ServerCommit(q),
             req[p].key = req[q].key
      PROVE  Apart(p, q)'
  <2>1. ~KeyTaken(q)
    BY <1>1, CommitAdds DEF UndecidedKeysNew, Undecided
  <2>2. RowOf(p) \notin keyRows
    BY <1>1, <2>1 DEF KeyTaken, RowOf
  <2>3. ~(clock <= tx[p].begun + Retention - Skew)
    BY <2>2 DEF RowsKept
  <2>4. /\ tx'[p] = tx[p] /\ tx[p].begun \in Nat /\ tx'[q].ended = clock
    BY <1>1, PostedIsFixed, CommitAdds DEF Transaction
  <2> QED
    BY <2>3, <2>4, ServiceAssumption DEF Inv, TypeOK
<1>2. ASSUME NEW p \in Posted', NEW q \in Posted', p # q,
             req[p].key = req[q].key
      PROVE  Apart(p, q)' \/ Apart(q, p)'
  <2>1. CASE p \in Posted /\ q \in Posted
    <3>1. Apart(p, q) \/ Apart(q, p)
      BY <1>2, <2>1 DEF AtMostOncePerKey, Posted
    <3> QED
      BY <2>1, <3>1, PostedIsFixed
  <2>2. CASE p \notin Posted \/ q \notin Posted
    <3>1. PICK u \in Attempts : ServerCommit(u) /\ Posted' = Posted \cup {u}
      BY <1>2, <2>2, HistorySteps, CommitAdds
    <3>2. \/ p = u /\ q \in Posted
          \/ q = u /\ p \in Posted
      BY <1>2, <2>2, <3>1
    <3> QED
      BY <1>1, <1>2, <3>1, <3>2
  <2> QED
    BY <2>1, <2>2
<1>3. req' = req
  BY PastIsFixed
<1> QED
  BY <1>2, <1>3 DEF AtMostOncePerKey, Posted

-----------------------------------------------------------------------------
(* The entries of the ledger.                                              *)

(* A COMMIT adds one entry at the end of the ledger of each wallet it
   touches, and keeps the ones before.                                     *)
LEMMA CommitAppends ==
  ASSUME Inv, NEW p \in Attempts, ServerCommit(p), NEW w \in Wallets
  PROVE  /\ Len(ledger[w]) \in Nat
         /\ \A i \in 1 .. Len(ledger[w]) :
              i \in 1 .. Len(ledger'[w]) /\ ledger'[w][i] = ledger[w][i]
         /\ w \in Touched(req[p]) =>
              /\ Len(ledger'[w]) = Len(ledger[w]) + 1
              /\ ledger'[w][Len(ledger'[w])] = EntryOf(p, w)
         /\ w \notin Touched(req[p]) => ledger'[w] = ledger[w]
<1>1. ledger[w] \in Seq(LedgerEntry) /\ Entry(p, req[p], seen[p], w) \in LedgerEntry
  BY EntryIsRow DEF Inv, TypeOK
<1>2. ledger'[w] = IF w \in Touched(req[p])
                   THEN Append(ledger[w], EntryOf(p, w)) ELSE ledger[w]
  BY CommitEffect DEF EntryOf
<1> QED
  BY <1>1, <1>2 DEF EntryOf

LEMMA EntriesPostedInv ==
  ASSUME Inv, \A q \in Attempts : Keyed(q), EntriesPosted, [Next]_vars
  PROVE  EntriesPosted'
<1> SUFFICES ASSUME NEW w \in Wallets, NEW i \in 1 .. Len(ledger'[w])
             PROVE  \/ /\ ledger'[w][i].type = "TOPUP"
                       /\ ledger'[w][i].by = NoAttempt
                    \/ \E q \in Posted' :
                         w \in Touched(req'[q]) /\ ledger'[w][i] = EntryOf(q, w)'
  BY DEF EntriesPosted
<1>1. req' = req
  BY PastIsFixed
<1>2. CASE i \in 1 .. Len(ledger[w]) /\ ledger'[w][i] = ledger[w][i]
  BY <1>1, <1>2, PostedIsFixed DEF EntriesPosted
<1>3. ASSUME NEW p \in Attempts, ServerCommit(p), w \in Touched(req[p]),
             i = Len(ledger'[w])
      PROVE  /\ p \in Posted' /\ w \in Touched(req'[p])
             /\ ledger'[w][i] = EntryOf(p, w)'
  <2>1. EntryOf(p, w)' = EntryOf(p, w)
    BY <1>3, CommitAdds DEF EntryOf
  <2> QED
    BY <1>1, <1>3, <2>1, CommitAdds, CommitAppends
<1>4. ASSUME NEW p \in Attempts, ServerCommit(p)
      PROVE  \/ i \in 1 .. Len(ledger[w]) /\ ledger'[w][i] = ledger[w][i]
             \/ w \in Touched(req[p]) /\ i = Len(ledger'[w])
  BY <1>4, CommitAppends
<1>5. CASE ledger' = ledger
  BY <1>2, <1>5
<1> QED
  BY <1>2, <1>3, <1>4, <1>5, HistorySteps DEF DeleteExpiredKeys

LEMMA PostedInLedgerInv ==
  ASSUME Inv, \A q \in Attempts : Keyed(q), PostedInLedger, [Next]_vars
  PROVE  PostedInLedger'
<1> SUFFICES ASSUME NEW p \in Posted', NEW w \in Touched(req'[p])
             PROVE  \E i \in 1 .. Len(ledger'[w]) :
                      ledger'[w][i] = EntryOf(p, w)'
  BY DEF PostedInLedger
<1>1. req' = req
  BY PastIsFixed
<1>2. ASSUME p \in Posted
      PROVE  \E i \in 1 .. Len(ledger[w]) : ledger[w][i] = EntryOf(p, w)'
  BY <1>1, <1>2, PostedIsFixed DEF PostedInLedger
<1>3. ASSUME NEW q \in Attempts, ServerCommit(q)
      PROVE  \E i \in 1 .. Len(ledger'[w]) : ledger'[w][i] = EntryOf(p, w)'
  <2>1. CASE p \in Posted
    <3>1. w \in Wallets
      BY <1>1, <2>1, PostedIsFixed
    <3> QED
      BY <1>2, <1>3, <2>1, <3>1, CommitAppends
  <2>2. CASE p = q
    <3>1. w \in Wallets
      BY <1>1, <1>3, <2>2, CommitEffect
    <3>2. EntryOf(p, w)' = EntryOf(p, w)
      BY <1>3, <2>2, CommitAdds DEF EntryOf
    <3> QED
      BY <1>1, <1>3, <2>2, <3>1, <3>2, CommitAppends
  <2> QED
    BY <1>3, <2>1, <2>2, CommitAdds
<1>4. CASE ledger' = ledger /\ Posted' = Posted
  BY <1>2, <1>4
<1> QED
  BY <1>3, <1>4, HistorySteps DEF DeleteExpiredKeys

-----------------------------------------------------------------------------
(* The answers.                                                            *)

(* Where an answer that is a success or "already used" comes from.         *)
LEMMA NewAnswers ==
  ASSUME Inv, [Next]_vars, NEW p \in Attempts,
         outcome'[p].kind \in {"ok", "duplicate"}
  PROVE  \/ outcome'[p] = outcome[p]
         \/ GetResponse(p) \/ CheckAndCreateKey(p) \/ Reply(p)
<1>1. ASSUME NEW q \in Attempts, StepOf(q), q # p
      PROVE  outcome'[p] = outcome[p]
  BY <1>1, OthersUntouched
<1>2. ASSUME Background PROVE outcome'[p] = outcome[p]
  BY <1>2 DEF Background, Crash, Tick, DeleteExpiredKeys, Finished, vars,
     handler
<1>3. CASE \/ Arrive(p) \/ LockShard(p) \/ Begin(p) \/ LockWallet(p)
           \/ CreateLedgerEntry(p) \/ SaveResponse(p) \/ Commit(p)
           \/ Suspend(p) \/ Rollback(p) \/ Unlock(p) \/ Server(p)
           \/ GetResponseFails(p) \/ RollbackFails(p)
  BY <1>3 DEF Arrive, LockShard, Begin, LockWallet, CreateLedgerEntry,
     SaveResponse, Commit, Suspend, Rollback, Unlock, Server, ServerCommit,
     ServerSuspend, ServerAbort, GetResponseFails, RollbackFails, handler
<1>4. CASE \/ RefuseMalformed(p) \/ WalletNotFound(p) \/ Refuse(p)
           \/ CallFails(p)
  BY <1>4 DEF RefuseMalformed, WalletNotFound, Refuse, CallFails, Decide,
     Inv, TypeOK
<1>5. CASE UpdateWalletBalance(p)
  BY <1>5 DEF UpdateWalletBalance, Decide, Inv, TypeOK
<1> QED
  BY <1>1, <1>2, <1>3, <1>4, <1>5, Steps DEF StepOf, Handler, Fault

LEMMA SuccessPostedInv ==
  ASSUME Inv, \A q \in Attempts : Keyed(q), RowsPosted, SuccessPosted,
         [Next]_vars
  PROVE  SuccessPosted'
<1> SUFFICES ASSUME NEW p \in Attempts, outcome'[p].kind = "ok",
                    IsMoney(req[p])
             PROVE  \E q \in Posted' :
                      /\ req[q].key = req[p].key
                      /\ outcome'[p].body =
                           IF req[p].kind = "Transfer" THEN OkBody
                           ELSE tx'[q].body
  BY PastIsFixed DEF SuccessPosted
<1>1. CASE outcome'[p] = outcome[p]
  BY <1>1, PostedIsFixed DEF SuccessPosted
<1>2. CASE GetResponse(p) /\ outcome'[p] # outcome[p]
  <2>1. PICK k \in Answered(p) :
          outcome'[p].body =
            IF req[p].kind = "Transfer" THEN OkBody ELSE k.body
    BY <1>2 DEF GetResponse, Decide, Inv, TypeOK
  <2>2. PICK q \in Posted : k = RowOf(q)
    BY DEF RowsPosted, Answered
  <2>3. req[q].key = req[p].key /\ k.body = tx[q].body
    BY <2>2 DEF Answered, RowOf
  <2> QED
    BY <2>1, <2>3, PostedIsFixed
<1>3. CASE Reply(p)
  <2>1. /\ tx[p].status = "committed"
        /\ outcome'[p].body = SavedBody(req[p], seen[p])
    BY <1>3 DEF Reply, Decide, Inv, TypeOK
  <2>2. p \in Posted /\ outcome'[p].body = tx[p].body
    BY <2>1 DEF Posted, Applied, Keyed
  <2>3. req[p].kind = "Transfer" => outcome'[p].body = OkBody
    BY <2>1 DEF SavedBody
  <2> QED
    BY <2>2, <2>3, PostedIsFixed
<1>4. CASE CheckAndCreateKey(p) /\ outcome'[p] # outcome[p]
  BY <1>4 DEF CheckAndCreateKey, Decide, Inv, TypeOK
<1> QED
  BY <1>1, <1>2, <1>3, <1>4, NewAnswers

LEMMA DuplicateMeansDoneInv ==
  ASSUME Inv, RowsPosted, DuplicateMeansDone, [Next]_vars
  PROVE  DuplicateMeansDone'
<1> SUFFICES ASSUME NEW p \in Attempts, outcome'[p].kind = "duplicate"
             PROVE  \E q \in Applied' \ {p} :
                      IsMoney(req[q]) /\ req[q].key = req[p].key
  BY PastIsFixed DEF DuplicateMeansDone
<1>1. CASE outcome'[p] = outcome[p]
  BY <1>1, PastIsFixed DEF DuplicateMeansDone
<1>2. CASE \/ GetResponse(p) /\ outcome'[p] # outcome[p]
           \/ CheckAndCreateKey(p) /\ outcome'[p] # outcome[p]
  <2>1. PICK k \in keyRows : k.key = req[p].key
    BY <1>2 DEF GetResponse, Answered, CheckAndCreateKey, KeyTaken
  <2>2. PICK q \in Posted : k = RowOf(q)
    BY DEF RowsPosted
  <2>3. tx[p].status = "open"
    BY <1>2 DEF GetResponse, CheckAndCreateKey, Inv, Staged
  <2>4. q \in Applied \ {p} /\ IsMoney(req[q]) /\ req[q].key = req[p].key
    BY <2>1, <2>2, <2>3 DEF Posted, Applied, RowOf
  <2> QED
    BY <2>4, PastIsFixed
<1>3. CASE Reply(p)
  BY <1>3 DEF Reply, Decide, Inv, TypeOK
<1> QED
  BY <1>1, <1>2, <1>3, NewAnswers

-----------------------------------------------------------------------------
(* The invariant.                                                          *)

LEMMA KeyInit == Init => KeyInv
<1> SUFFICES ASSUME Init PROVE KeyInv
  OBVIOUS
<1>1. \A p \in Attempts :
        /\ pc[p] = "idle" /\ outcome[p].kind = "none"
        /\ tx[p].status = "none" /\ tx[p].keyed = FALSE
  BY DEF Init, NoOutcome, NoTransaction
<1>2. Applied = {} /\ Posted = {} /\ keyRows = {}
  BY <1>1 DEF Applied, Posted, Init
<1>3. EntriesPosted
  <2> SUFFICES ASSUME NEW w \in Wallets, NEW i \in 1 .. Len(ledger[w])
               PROVE  ledger[w][i].type = "TOPUP" /\ ledger[w][i].by = NoAttempt
    BY DEF EntriesPosted
  <2>1. ledger[w] = IF Opening[w] = 0 THEN << >>
                    ELSE << [amount |-> Opening[w], type |-> "TOPUP",
                             after |-> Opening[w], by |-> NoAttempt] >>
    BY DEF Init, OpeningLedger
  <2> QED
    BY <2>1
<1>4. /\ \A p \in Attempts : Keyed(p)
      /\ UndecidedKeysNew /\ SuccessPosted /\ DuplicateMeansDone
  BY <1>1 DEF Keyed, UndecidedKeysNew, Live, SuccessPosted, DuplicateMeansDone
<1>5. RowsPosted /\ RowsKept /\ PostedInLedger /\ AtMostOncePerKey
  BY <1>2 DEF RowsPosted, RowsKept, PostedInLedger, AtMostOncePerKey
<1>6. BegunBefore
  BY DEF Init, NoTransaction, BegunBefore
<1> QED
  BY <1>3, <1>4, <1>5, <1>6 DEF KeyInv

LEMMA KeyNext == Inv /\ KeyInv /\ [Next]_vars => KeyInv'
<1> SUFFICES ASSUME Inv, KeyInv, [Next]_vars PROVE KeyInv'
  OBVIOUS
<1>1. \A p \in Attempts : Keyed(p)'
  BY KeyedInv DEF KeyInv
<1>2. BegunBefore' /\ UndecidedKeysNew' /\ RowsPosted' /\ RowsKept'
  BY BegunInv, UndecidedInv, RowsPostedInv, RowsKeptInv DEF KeyInv
<1>3. EntriesPosted' /\ PostedInLedger'
  BY EntriesPostedInv, PostedInLedgerInv DEF KeyInv
<1>4. SuccessPosted' /\ DuplicateMeansDone' /\ AtMostOncePerKey'
  BY SuccessPostedInv, DuplicateMeansDoneInv, AtMostOnceInv DEF KeyInv
<1> QED
  BY <1>1, <1>2, <1>3, <1>4 DEF KeyInv

(* The keys, the responses, the answers and the ledger always agree with
   the transactions that have committed.                                   *)
THEOREM KeyInvariance == Spec => [](Inv /\ KeyInv)
<1>1. Inv /\ KeyInv /\ [Next]_vars => (Inv /\ KeyInv)'
  BY NextInv, KeyNext
<1> QED
  BY InitInv, KeyInit, <1>1, PTL DEF Spec

-----------------------------------------------------------------------------
(* What follows.                                                           *)

(* However often and however concurrently clients retry, whatever fails and
   wherever the process stops, a key moves money once while its row lasts.  *)
THEOREM RetriesMoveOnce == Spec => []AtMostOncePerKey
BY KeyInvariance, PTL DEF KeyInv

(* A response is there to be replayed until its row expires by the worker's
   clock, however its clock is skewed.                                     *)
THEOREM ResponsesAreKept == Spec => []ResponsesKept
<1>1. KeyInv => ResponsesKept
  BY DEF KeyInv, RowsKept, ResponsesKept, Posted, RowOf, KeyTaken
<1> QED
  BY <1>1, KeyInvariance, PTL

(* No row of idempotency_keys is without the committed transaction that
   wrote it, nor without its response.                                     *)
THEOREM KeysHaveResponses == Spec => []KeysAreBacked
<1>1. KeyInv => KeysAreBacked
  <2> SUFFICES ASSUME KeyInv, NEW k \in keyRows
               PROVE  /\ k.body.form # "null"
                      /\ \E q \in Applied : IsMoney(req[q]) /\ req[q].key = k.key
    BY DEF KeysAreBacked
  <2>1. PICK q \in Posted : k = RowOf(q)
    BY DEF KeyInv, RowsPosted
  <2>2. q \in Applied /\ IsMoney(req[q]) /\ k.key = req[q].key
    BY <2>1 DEF Posted, RowOf
  <2>3. k.body = SavedBody(req[q], seen[q])
    BY <2>1, <2>2 DEF KeyInv, Keyed, RowOf, Applied
  <2> QED
    BY <2>2, <2>3 DEF SavedBody, OkBody, WalletBody
<1> QED
  BY <1>1, KeyInvariance, PTL

(* "Already used" is said only when money moved under the key.             *)
THEOREM DuplicatesAreDone == Spec => []DuplicateMeansDone
BY KeyInvariance, PTL DEF KeyInv

(* A refused attempt moves no money, then or later.                        *)
THEOREM RefusedMovesNothing == Spec => []RefusalsAreFinal
<1>1. KeyInv => RefusalsAreFinal
  BY DEF KeyInv, Keyed, RefusalsAreFinal
<1> QED
  BY <1>1, KeyInvariance, PTL

(* A success, first or replayed, shows the balance its own transaction left
   in the ledger, for clients that keep a key to one request.              *)
THEOREM RepliesAreTrue == Spec => []ReplayFaithful
<1>1. Inv /\ KeyInv => ReplayFaithful
  <2> SUFFICES ASSUME Inv, KeyInv, NEW p \in Attempts, OneRequestPerKey,
                      outcome[p].kind = "ok", IsMoney(req[p])
               PROVE  \E q \in Applied :
                        /\ req[q] = req[p]
                        /\ outcome[p].body.form = "wallet" =>
                             \E i \in 1 .. Len(ledger[req[p].to]) :
                               /\ ledger[req[p].to][i].by = q
                               /\ ledger[req[p].to][i].after
                                    = outcome[p].body.balance
    BY DEF ReplayFaithful
  <2>1. PICK q \in Posted :
          /\ req[q].key = req[p].key
          /\ outcome[p].body.form = "wallet" => outcome[p].body = tx[q].body
    BY DEF KeyInv, SuccessPosted, OkBody
  <2>2. q \in Applied /\ q \in Attempts /\ req[q] = req[p]
    BY <2>1 DEF Posted, Applied, OneRequestPerKey
  <2>3. ASSUME outcome[p].body.form = "wallet"
        PROVE  outcome[p].body.balance = NewBalance(req[p], seen[q], req[p].to)
    <3>1. outcome[p].body = SavedBody(req[p], seen[q])
      BY <2>1, <2>2, <2>3 DEF KeyInv, Keyed, Posted, Applied
    <3> QED
      BY <2>3, <3>1 DEF SavedBody, OkBody, WalletBody
  <2>4. PICK i \in 1 .. Len(ledger[req[p].to]) :
          ledger[req[p].to][i] = EntryOf(q, req[p].to)
    BY <2>1, <2>2 DEF KeyInv, PostedInLedger, Touched
  <2> QED
    BY <2>2, <2>3, <2>4 DEF EntryOf, Entry
<1> QED
  BY <1>1, KeyInvariance, PTL

(* Each leg of a transfer has the other in the other wallet's ledger.      *)
THEOREM TransfersArePaired == Spec => []TransferPaired
<1>1. Inv /\ KeyInv => TransferPaired
  <2> SUFFICES ASSUME Inv, KeyInv, NEW v \in Wallets,
                      NEW i \in 1 .. Len(ledger[v]),
                      ledger[v][i].type \in {"TRANSFER_OUT", "TRANSFER_IN"}
               PROVE  \E w \in Wallets \ {v} : \E j \in 1 .. Len(ledger[w]) :
                        /\ ledger[w][j].by = ledger[v][i].by
                        /\ ledger[w][j].amount = -ledger[v][i].amount
                        /\ {ledger[v][i].type, ledger[w][j].type}
                             = {"TRANSFER_OUT", "TRANSFER_IN"}
    BY DEF TransferPaired
  <2>1. PICK q \in Posted :
          v \in Touched(req[q]) /\ ledger[v][i] = EntryOf(q, v)
    BY DEF KeyInv, EntriesPosted
  <2> DEFINE r == req[q]
             w == IF v = r.from THEN r.to ELSE r.from
  <2>2. /\ q \in Attempts /\ r \in Requests /\ Touched(r) \subseteq Wallets
        /\ ~Malformed(r) /\ IsMoney(r)
    BY DEF Posted, Applied, Keyed, KeyInv, Inv, TypeOK, Staged
  <2>3. r.kind = "Transfer"
    BY <2>1, <2>2, RequestsAssumption DEF EntryOf, Entry, EntryType, Kinds,
       IsMoney
  <2>4. r.from # r.to
    BY <2>2, <2>3 DEF Malformed
  <2>5. w \in Wallets \ {v} /\ w \in Touched(r) /\ Touched(r) = {v, w}
    BY <2>1, <2>2, <2>4 DEF Touched
  <2>6. PICK j \in 1 .. Len(ledger[w]) : ledger[w][j] = EntryOf(q, w)
    BY <2>5 DEF KeyInv, PostedInLedger
  <2>7. Delta(r, w) = -Delta(r, v)
    <3>1. RoundedAmount(r) \in Int
      BY <2>2, RequestTypes
    <3> QED
      BY <2>1, <2>3, <2>4, <2>5, <3>1 DEF Delta, Debited, Touched
  <2>8. {EntryType(r, v), EntryType(r, w)} = {"TRANSFER_OUT", "TRANSFER_IN"}
    BY <2>1, <2>3, <2>4, <2>5 DEF EntryType, Touched
  <2>9. /\ ledger[v][i].by = q /\ ledger[v][i].amount = Delta(r, v)
        /\ ledger[v][i].type = EntryType(r, v)
    BY <2>1 DEF EntryOf, Entry
  <2>10. /\ ledger[w][j].by = q /\ ledger[w][j].amount = Delta(r, w)
         /\ ledger[w][j].type = EntryType(r, w)
    BY <2>6 DEF EntryOf, Entry
  <2> HIDE DEF r, w
  <2> QED
    BY <2>5, <2>7, <2>8, <2>9, <2>10
<1> QED
  BY <1>1, KeyInvariance, PTL

(* Every attempt of one request that succeeds is answered with the same
   response, unless money has moved twice under its key.                   *)
THEOREM RetriesAgree == Spec => []SameResponse
<1>1. KeyInv => SameResponse
  <2> SUFFICES ASSUME KeyInv, NEW p \in Attempts, NEW q \in Attempts,
                      outcome[p].kind = "ok", outcome[q].kind = "ok",
                      req[p] = req[q], IsMoney(req[p])
               PROVE  \/ outcome[p].body = outcome[q].body
                      \/ \E a, b \in Applied :
                           /\ a # b /\ IsMoney(req[a]) /\ IsMoney(req[b])
                           /\ req[a].key = req[p].key
                           /\ req[b].key = req[p].key
    BY DEF SameResponse
  <2>1. PICK a \in Posted :
          /\ req[a].key = req[p].key
          /\ outcome[p].body =
               IF req[p].kind = "Transfer" THEN OkBody ELSE tx[a].body
    BY DEF KeyInv, SuccessPosted
  <2>2. PICK b \in Posted :
          /\ req[b].key = req[p].key
          /\ outcome[q].body =
               IF req[p].kind = "Transfer" THEN OkBody ELSE tx[b].body
    BY DEF KeyInv, SuccessPosted
  <2>3. CASE a = b
    BY <2>1, <2>2, <2>3
  <2>4. CASE a # b
    BY <2>1, <2>2, <2>4 DEF Posted
  <2> QED
    BY <2>3, <2>4
<1> QED
  BY <1>1, KeyInvariance, PTL

-----------------------------------------------------------------------------
(* The service keeps what Idempotency promises of its keys.                *)

(* The two modules mean the same by the operators they share.              *)
LEMMA SameVocabulary ==
  /\ \A r : K!IsMoney(r) <=> IsMoney(r)
  /\ \A r, b : K!Replayable(r, b) <=> Replayable(r, b)
  /\ K!NullBody = NullBody /\ K!OkBody = OkBody
  /\ \A w, b : K!WalletBody(w, b) = WalletBody(w, b)
  /\ K!NoOutcome = NoOutcome
BY DEF K!IsMoney, IsMoney, K!Replayable, Replayable, K!NullBody, NullBody,
   K!OkBody, OkBody, K!WalletBody, WalletBody, K!NoOutcome, NoOutcome

(* A COMMIT is the moment its operation takes effect.                      *)
LEMMA CommitTakesEffect ==
  ASSUME Inv, KeyInv, BalancesInRange, NEW p \in Attempts, ServerCommit(p)
  PROVE  K!TakeEffect(p)
<1>1. /\ IsMoney(req[p]) /\ tx[p].status = "committing"
      /\ req[p] \in Requests /\ Justified(p)
      /\ seen[p] \in [Wallets -> WalletRow]
  BY DEF ServerCommit, Inv, TypeOK, Staged
<1>2. /\ p \notin Posted /\ Posted' = Posted \cup {p} /\ Undecided(p)
      /\ UNCHANGED << req, outcome, clock >>
      /\ keyRows' = keyRows \cup {RowOf(p)}
      /\ \A q \in Posted' : RowOf(q)' = RowOf(q)
  BY CommitAdds DEF KeyInv
<1>3. Made[p] = {} /\ Made' = [Made EXCEPT ![p] = {RowOf(p)}]
  BY <1>2 DEF Made
<1>4. Answers[p].kind \in {"none", "failed"}
  <2>1. outcome[p] \in Outcome /\ outcome[p].kind \notin {"ok", "rejected", "duplicate"}
    BY <1>1 DEF KeyInv, Keyed, Inv, TypeOK
  <2> QED
    BY <1>1, <2>1 DEF Answers, Outcome
<1>5. ~K!InUse(req[p].key)
  BY <1>2 DEF K!InUse, KeyInv, UndecidedKeysNew, Undecided, KeyTaken
<1>6. tx[p].begun \in 0 .. clock
  BY DEF KeyInv, BegunBefore, Inv, TypeOK, Transaction
<1>7. tx[p].body \in K!Responses(req[p])
  <2>1. tx[p].body = SavedBody(req[p], seen[p])
    BY <1>1 DEF KeyInv, Keyed
  <2>2. CASE req[p].kind = "Transfer"
    BY <2>1, <2>2, SameVocabulary DEF SavedBody, K!Responses
  <2>3. CASE req[p].kind # "Transfer"
    <3>1. NewBalance(req[p], seen[p], req[p].to) \in 0 .. MaxNumeric
      BY <1>1, CommittedBalance DEF Touched
    <3> QED
      BY <2>1, <2>3, <3>1, SameVocabulary DEF SavedBody, K!Responses
  <2> QED
    BY <2>2, <2>3
<1>8. Answers' = Answers
  BY <1>2 DEF Answers
<1> QED
  BY <1>1, <1>2, <1>3, <1>4, <1>5, <1>6, <1>7, <1>8, SameVocabulary
  DEF K!TakeEffect, RowOf

(* A decision of the handler is an answer, first and last.                 *)
LEMMA DecisionAnswers ==
  ASSUME Inv, NEW p \in Attempts, NEW kind, NEW body, Decide(p, kind, body),
         IsMoney(req[p]), outcome[p].kind = "none",
         UNCHANGED << req, tx, keyRows, clock >>
  PROVE  K!Answer(p, kind, body)
<1>1. Posted' = Posted /\ \A q \in Posted : RowOf(q)' = RowOf(q)
  BY DEF Posted, Applied, RowOf
<1>2. Made' = Made
  BY <1>1 DEF Made
<1>3. Answers' = [Answers EXCEPT ![p] = [kind |-> kind, body |-> body]]
  BY DEF Answers, Decide, Inv, TypeOK
<1>4. Answers[p].kind = "none"
  BY DEF Answers
<1> QED
  BY <1>2, <1>3, <1>4, SameVocabulary DEF K!Answer

(* A response is replayed from a row of its key, and a key that is in use is
   refused, before the attempt has left one.                               *)
LEMMA GetResponseAnswers ==
  ASSUME Inv, KeyInv, NEW p \in Attempts, GetResponse(p), outcome' # outcome
  PROVE  K!Replay(p) \/ K!Refuse(p)
<1>1. /\ tx[p].status = "open" /\ IsMoney(req[p]) /\ outcome[p].kind = "none"
      /\ UNCHANGED << req, tx, keyRows, clock >>
  BY DEF GetResponse, tables, Inv, Staged, KeyInv, Keyed
<1>2. Made[p] = {}
  BY <1>1 DEF Made, Posted, Applied
<1>3. PICK k \in keyRows :
        /\ k.key = req[p].key
        /\ IF Replayable(req[p], k.body)
           THEN Decide(p, "ok",
                       IF req[p].kind = "Transfer" THEN OkBody ELSE k.body)
           ELSE Decide(p, "duplicate", NullBody)
  BY DEF GetResponse, Answered
<1>4. CASE Replayable(req[p], k.body)
  BY <1>1, <1>2, <1>3, <1>4, DecisionAnswers, SameVocabulary DEF K!Replay
<1>5. CASE ~Replayable(req[p], k.body)
  BY <1>1, <1>2, <1>3, <1>5, DecisionAnswers, SameVocabulary
  DEF K!Refuse, K!InUse
<1> QED
  BY <1>4, <1>5

LEMMA KeyRefusalAnswers ==
  ASSUME Inv, KeyInv, NEW p \in Attempts, CheckAndCreateKey(p),
         outcome' # outcome
  PROVE  K!Refuse(p)
<1>1. /\ tx[p].status = "open" /\ IsMoney(req[p]) /\ outcome[p].kind = "none"
      /\ UNCHANGED << req, tx, keyRows, clock >>
      /\ Decide(p, "duplicate", NullBody) /\ KeyTaken(p)
  BY DEF CheckAndCreateKey, tables, Inv, Staged, KeyInv, Keyed
<1>2. Made[p] = {}
  BY <1>1 DEF Made, Posted, Applied
<1> QED
  BY <1>1, <1>2, DecisionAnswers, SameVocabulary DEF K!Refuse, K!InUse, KeyTaken

LEMMA RefusalAnswers ==
  ASSUME Inv, KeyInv, NEW p \in Attempts, outcome' # outcome,
         \/ RefuseMalformed(p) \/ WalletNotFound(p) \/ Refuse(p)
         \/ UpdateWalletBalance(p)
  PROVE  K!Refuse(p)
<1>1. tx[p].status \in {"none", "open"} /\ outcome[p].kind = "none"
  BY DEF RefuseMalformed, WalletNotFound, Refuse, UpdateWalletBalance, Inv,
     Staged, KeyInv, Keyed
<1>2. IsMoney(req[p])
  BY DEF RefuseMalformed, Malformed, WalletNotFound, Refuse,
     UpdateWalletBalance, Inv, Staged
<1>3. /\ Decide(p, "rejected", NullBody)
      /\ UNCHANGED << req, tx, keyRows, clock >>
  BY DEF RefuseMalformed, WalletNotFound, Refuse, UpdateWalletBalance, tables
<1>4. Made[p] = {}
  BY <1>1 DEF Made, Posted, Applied
<1> QED
  BY <1>1, <1>2, <1>3, <1>4, DecisionAnswers, SameVocabulary DEF K!Refuse

(* A COMMIT that returned is confirmed with its own response, and a call that
   failed gives up.                                                        *)
LEMMA ReplyAnswers ==
  ASSUME Inv, KeyInv, NEW p \in Attempts, Reply(p), IsMoney(req[p])
  PROVE  K!Confirm(p) \/ K!GiveUp(p)
<1>1. outcome[p].kind = "none" /\ UNCHANGED << req, tx, keyRows, clock >>
  BY DEF Reply, tables, KeyInv, Keyed
<1>2. CASE tx[p].status = "committed" /\
           Decide(p, "ok", SavedBody(req[p], seen[p]))
  <2>1. p \in Posted /\ SavedBody(req[p], seen[p]) = RowOf(p).body
    BY <1>2 DEF Posted, Applied, KeyInv, Keyed, RowOf
  <2>2. Made[p] = {RowOf(p)}
    BY <2>1 DEF Made
  <2> QED
    BY <1>1, <1>2, <2>1, <2>2, DecisionAnswers DEF K!Confirm
<1>3. CASE Decide(p, "failed", NullBody)
  BY <1>1, <1>3, DecisionAnswers, SameVocabulary DEF K!GiveUp
<1> QED
  BY <1>2, <1>3 DEF Reply

LEMMA FailureAnswers ==
  ASSUME Inv, KeyInv, NEW p \in Attempts, CallFails(p), IsMoney(req[p])
  PROVE  K!GiveUp(p)
<1>1. outcome[p].kind = "none" /\ UNCHANGED << req, tx, keyRows, clock >>
  BY DEF CallFails, tables, KeyInv, Keyed
<1> QED
  BY <1>1, DecisionAnswers, SameVocabulary DEF CallFails, K!GiveUp

(* Every other step leaves the answers as they are.                        *)
LEMMA OtherwiseUnanswered ==
  ASSUME Inv, NEW p \in Attempts, StepOf(p)
  PROVE  \/ outcome' = outcome
         \/ Reply(p) \/ CallFails(p) \/ GetResponse(p) \/ CheckAndCreateKey(p)
         \/ RefuseMalformed(p) \/ WalletNotFound(p) \/ Refuse(p)
         \/ UpdateWalletBalance(p)
BY DEF StepOf, Handler, Server, Fault, Arrive, LockShard, Begin, LockWallet,
   CreateLedgerEntry, SaveResponse, Commit, Suspend, Rollback, Unlock,
   ServerCommit, ServerSuspend, ServerAbort, GetResponseFails, RollbackFails,
   handler

LEMMA AnswersRefine ==
  ASSUME Inv, KeyInv, NEW p \in Attempts, StepOf(p), outcome' # outcome,
         IsMoney(req[p])
  PROVE  K!Next
<1>1. K!Confirm(p) \/ K!Replay(p) \/ K!Refuse(p) \/ K!GiveUp(p)
  BY OtherwiseUnanswered, ReplyAnswers, FailureAnswers, GetResponseAnswers,
     KeyRefusalAnswers, RefusalAnswers
<1> QED
  BY <1>1 DEF K!Next

(* What no client can tell by the answers and the responses: a stutter.    *)
LEMMA RestStutters ==
  ASSUME Inv, [Next]_vars, Posted' = Posted, UNCHANGED << keyRows, clock >>,
         \A p \in Attempts : IsMoney(req[p]) => outcome'[p] = outcome[p]
  PROVE  UNCHANGED K!vars
<1>1. req' = req
  BY PastIsFixed
<1>2. Made' = Made
  BY PostedIsFixed DEF Made
<1>3. Answers' = Answers
  BY <1>1 DEF Answers
<1> QED
  BY <1>1, <1>2, <1>3 DEF K!vars

LEMMA NextKeepsKeys ==
  ASSUME Inv, KeyInv, BalancesInRange, [Next]_vars
  PROVE  K!Next \/ UNCHANGED K!vars
<1>1. ASSUME NEW p \in Attempts, ServerCommit(p) PROVE K!Next
  BY <1>1, CommitTakesEffect DEF K!Next
<1>2. ASSUME NEW p \in Attempts, StepOf(p), ~ServerCommit(p)
      PROVE  K!Next \/ UNCHANGED K!vars
  <2>1. Posted' = Posted /\ UNCHANGED << keyRows, clock >>
    BY <1>2, StepKeepsHistory
  <2>2. CASE outcome' # outcome /\ IsMoney(req[p])
    BY <1>2, <2>2, AnswersRefine
  <2>3. CASE outcome' = outcome \/ ~IsMoney(req[p])
    BY <1>2, <2>1, <2>3, OthersUntouched, RestStutters
  <2> QED
    BY <2>2, <2>3
<1>3. CASE DeleteExpiredKeys
  <2>1. UNCHANGED << req, outcome, clock, tx >>
    BY <1>3 DEF DeleteExpiredKeys, handler
  <2>2. Made' = Made /\ Answers' = Answers
    BY <2>1 DEF Made, Answers, Posted, Applied, RowOf
  <2>3. \A k : K!Expired(k) <=> Expired(k)
    BY DEF K!Expired, Expired
  <2> QED
    BY <1>3, <2>1, <2>2, <2>3 DEF DeleteExpiredKeys, K!Purge, K!Next
<1>4. CASE Tick
  <2>1. UNCHANGED << req, outcome, keyRows, tx >>
    BY <1>4 DEF Tick, handler, tables
  <2>2. Made' = Made /\ Answers' = Answers
    BY <2>1 DEF Made, Answers, Posted, Applied, RowOf
  <2> QED
    BY <1>4, <2>1, <2>2 DEF Tick, K!Tick, K!Next
<1>5. CASE Crash \/ Finished \/ UNCHANGED vars
  <2>1. UNCHANGED << outcome, tx, req, keyRows, clock >>
    BY <1>5 DEF Crash, Finished, vars, tables
  <2> QED
    BY <2>1, RestStutters DEF Posted, Applied
<1> QED
  BY <1>1, <1>2, <1>3, <1>4, <1>5, Steps DEF Background

(* The handlers, the server and the worker implement the promise made of the
   keys: each operation takes effect, and leaves its response, in one step
   under a key that is not in use, and each answer is true when it is decided. *)
THEOREM ServiceKeepsKeys == Spec => KeySpec
<1>1. Init => K!Init
  <2> SUFFICES ASSUME Init PROVE K!Init
    OBVIOUS
  <2>1. Posted = {}
    BY DEF Init, Posted, Applied, NoTransaction
  <2> QED
    BY <2>1, SameVocabulary DEF Init, K!Init, Made, Answers
<1>2. Inv /\ KeyInv /\ BalancesInRange /\ [Next]_vars => [K!Next]_(K!vars)
  BY NextKeepsKeys
<1> QED
  BY <1>1, <1>2, KeyInvariance, NothingOverdrawn, PTL
  DEF Spec, KeySpec, K!Spec
=============================================================================
