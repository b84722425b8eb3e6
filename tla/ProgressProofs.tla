--------------------------- MODULE ProgressProofs ---------------------------
(***************************************************************************)
(* The handlers of WalletService never all wait on each other, for every   *)
(* number of attempts, wallets, shards and connections, whatever fails:    *)
(* only the pool of connections can be stuck, and one larger than the      *)
(* array of mutexes cannot.                                                *)
(***************************************************************************)
EXTENDS Progress, IdempotencyProofs, FiniteLemmas

-----------------------------------------------------------------------------
(* Where the handlers' locks are at each label.                            *)

LEMMA OthersHold ==
  ASSUME Inv, NEW p \in Attempts, StepOf(p), NEW q \in Attempts \ {p}
  PROVE  held'[q] = held[q]
BY DEF StepOf, Handler, Server, Fault, Arrive, LockShard, RefuseMalformed,
   Begin, GetResponse, CheckAndCreateKey, LockWallet, WalletNotFound, Refuse,
   UpdateWalletBalance, CreateLedgerEntry, SaveResponse, Commit, Suspend,
   Reply, Rollback, Unlock, ServerCommit, ServerSuspend, ServerAbort,
   GetResponseFails, CallFails, RollbackFails, handler, Inv, TypeOK

LEMMA PlacedByMutexes ==
  ASSUME Inv, NEW p \in Attempts, Placed(p),
         Arrive(p) \/ LockShard(p) \/ Unlock(p)
  PROVE  Placed(p)'
<1>1. UNCHANGED << req, tx, seen >> /\ Missing(p)' = ShardsOf(req[p]) \ held'[p]
  BY DEF Arrive, LockShard, Unlock, Missing
<1>2. CASE Arrive(p)
  <2>1. pc'[p] = "mutex" /\ held' = held /\ held[p] = {}
    BY <1>2 DEF Arrive, Goto, Placed, Running, Inv, TypeOK
  <2> QED
    BY <2>1 DEF Placed, Running
<1>3. CASE Unlock(p)
  <2>1. pc'[p] = "done" /\ held'[p] = {}
    BY <1>3 DEF Unlock, Goto, Inv, TypeOK
  <2> QED
    BY <2>1 DEF Placed, Running
<1>4. CASE LockShard(p)
  <2>1. PICK s \in Missing(p) :
          /\ \A t \in Missing(p) : s <= t
          /\ held'[p] = held[p] \cup {s}
    BY <1>4 DEF LockShard, Missing, Inv, TypeOK
  <2>2. pc[p] = "mutex" /\ pc' = pc
    BY <1>4 DEF LockShard
  <2>3. Missing(p) \subseteq Nat /\ held[p] \subseteq Nat
    BY WalletsAssumption, RequestsAssumption
       DEF Missing, ShardsOf, Touched, Inv, TypeOK
  <2>4. Missing(p)' = Missing(p) \ {s}
    BY <1>1, <2>1 DEF Missing
  <2>5. \A u \in held'[p] : \A t \in Missing(p)' : u < t
    BY <2>1, <2>2, <2>3, <2>4 DEF Placed
  <2> QED
    BY <2>2, <2>5 DEF Placed, Running
<1> QED
  BY <1>2, <1>3, <1>4

LEMMA PlacedMoves ==
  ASSUME Inv, NEW p \in Attempts, Placed(p),
         \/ RefuseMalformed(p) \/ GetResponse(p) \/ WalletNotFound(p)
         \/ Refuse(p) \/ Fault(p)
  PROVE  Placed(p)'
<1>1. UNCHANGED << req, held, tx, seen >>
  BY DEF RefuseMalformed, GetResponse, WalletNotFound, Refuse, Fault,
     GetResponseFails, CallFails, RollbackFails
<1>2. pc'[p] \in {"checkKey", "rollback", "unlock"} /\ HasMutexes(p)
  BY DEF RefuseMalformed, GetResponse, WalletNotFound, Refuse, Fault,
     GetResponseFails, CallFails, RollbackFails, Goto, Placed, Running, Inv,
     TypeOK
<1>3. Running(p)
  BY DEF RefuseMalformed, GetResponse, WalletNotFound, Refuse, Fault,
     GetResponseFails, CallFails, RollbackFails, Running
<1>4. pc'[p] = "checkKey" => pc[p] = "getResponse"
  BY DEF RefuseMalformed, GetResponse, WalletNotFound, Refuse, Fault,
     GetResponseFails, CallFails, RollbackFails, Goto, Inv, TypeOK
<1> QED
  BY <1>1, <1>2, <1>3, <1>4 DEF Placed, Running, HasMutexes, Missing

LEMMA PlacedWorks ==
  ASSUME Inv, NEW p \in Attempts, Placed(p),
         \/ Begin(p) \/ Suspend(p) \/ CheckAndCreateKey(p) \/ LockWallet(p)
         \/ UpdateWalletBalance(p) \/ CreateLedgerEntry(p) \/ SaveResponse(p)
         \/ Commit(p)
  PROVE  Placed(p)'
<1>1. /\ UNCHANGED << req, held >>
      /\ Running(p) /\ HasMutexes(p) /\ HasMutexes(p)'
  BY DEF Begin, Suspend, CheckAndCreateKey, LockWallet, UpdateWalletBalance,
     CreateLedgerEntry, SaveResponse, Commit, Placed, Running, HasMutexes
<1>2. tx[p] \in Transaction /\ p \in DOMAIN tx /\ p \in DOMAIN pc
  BY DEF Inv, TypeOK
<1>3. CASE Begin(p) \/ Suspend(p)
  <2>1. tx[p] = NoTransaction
    BY <1>3 DEF Begin, Suspend, Inv, Staged
  <2>2. /\ tx'[p].locks = {} /\ ~tx'[p].keyed
        /\ tx'[p].status \in {"open", "committing"}
        /\ tx'[p].status = "open" => pc'[p] = "getResponse"
        /\ pc'[p] \in {"getResponse", "await"}
    BY <1>2, <1>3, <2>1 DEF Begin, Suspend, Goto, NoTransaction, Transaction
  <2> QED
    BY <1>1, <2>2 DEF Placed, Running
<1>4. CASE CheckAndCreateKey(p)
  <2>1. \/ pc'[p] = "rollback"
        \/ pc'[p] = "lockRows" /\ tx'[p].locks = tx[p].locks
    BY <1>2, <1>4 DEF CheckAndCreateKey, Goto, Transaction
  <2>2. tx[p].locks = {} /\ Touched(req[p]) # {}
    BY <1>4 DEF CheckAndCreateKey, Placed, Touched
  <2> QED
    BY <1>1, <2>1, <2>2 DEF Placed, Running
<1>5. CASE LockWallet(p)
  <2>1. PICK w \in Wallets :
          /\ tx'[p].locks = tx[p].locks \cup {w}
          /\ tx'[p].updated = tx[p].updated
          /\ IF Touched(req[p]) \subseteq tx[p].locks \cup {w}
             THEN pc'[p] = "update" ELSE pc' = pc
    BY <1>2, <1>5 DEF LockWallet, Goto, Transaction
  <2>2. tx[p].updated = {} /\ pc[p] = "lockRows"
    BY <1>5 DEF LockWallet, Inv, Staged
  <2> QED
    BY <1>1, <2>1, <2>2 DEF Placed, Running
<1>6. CASE UpdateWalletBalance(p)
  <2>1. /\ ~Refused(req[p], seen[p]) /\ seen' = seen
        /\ pc'[p] \in {"update", "ledger", "rollback"}
    BY <1>2, <1>6 DEF UpdateWalletBalance, Goto
  <2> QED
    BY <1>1, <2>1 DEF Placed, Running
<1>7. CASE CreateLedgerEntry(p) \/ SaveResponse(p)
  <2>1. pc'[p] \in {"ledger", "save", "commit"}
    BY <1>2, <1>7 DEF CreateLedgerEntry, SaveResponse, Goto
  <2> QED
    BY <1>1, <2>1 DEF Placed, Running
<1>8. CASE Commit(p)
  <2>1. pc'[p] = "await" /\ tx'[p].status = "committing"
    BY <1>2, <1>8 DEF Commit, Goto, Transaction
  <2> QED
    BY <1>1, <2>1 DEF Placed, Running
<1> QED
  BY <1>3, <1>4, <1>5, <1>6, <1>7, <1>8

LEMMA PlacedEnds ==
  ASSUME Inv, NEW p \in Attempts, Placed(p),
         Reply(p) \/ Rollback(p) \/ Server(p)
  PROVE  Placed(p)'
<1>1. UNCHANGED << req, held, seen >>
  BY DEF Reply, Rollback, Server, ServerCommit, ServerSuspend, ServerAbort,
     handler
<1>2. CASE Reply(p) \/ Rollback(p)
  <2>1. pc'[p] = "unlock" /\ Running(p) /\ HasMutexes(p)
    BY <1>2 DEF Reply, Rollback, Goto, Placed, Running, Inv, TypeOK
  <2> QED
    BY <1>1, <2>1 DEF Placed, Running, HasMutexes
<1>3. CASE Server(p)
  <2>1. pc' = pc /\ pc[p] \in {"await", "unlock", "done", "dead"}
    BY <1>3, CommittingLabels DEF Server, ServerCommit, ServerSuspend,
       ServerAbort, Orphan, handler
  <2>2. tx'[p].status \in {"committed", "aborted"}
    BY <1>3, EndedTransaction DEF Server, ServerCommit, ServerSuspend,
       ServerAbort
  <2> QED
    BY <1>1, <2>1, <2>2 DEF Placed, Running, HasMutexes
<1> QED
  BY <1>2, <1>3

LEMMA PlacedInv ==
  ASSUME Inv, AllPlaced, [Next]_vars
  PROVE  AllPlaced'
<1>1. req' = req
  BY PastIsFixed
<1>2. ASSUME NEW p \in Attempts, StepOf(p), NEW q \in Attempts
      PROVE  Placed(q)'
  <2>1. Placed(q)
    BY DEF AllPlaced
  <2>2. CASE q = p
    BY <1>2, <2>1, <2>2, PlacedByMutexes, PlacedMoves, PlacedWorks, PlacedEnds
    DEF StepOf, Handler
  <2>3. CASE q # p
    BY <1>1, <1>2, <2>1, <2>3, OthersUntouched, OthersHold
    DEF Placed, Missing, HasMutexes, Running
  <2> QED
    BY <2>2, <2>3
<1>3. CASE Crash
  BY <1>1, <1>3 DEF Crash, Running, AllPlaced, Placed, Inv, TypeOK
<1>4. CASE Tick \/ DeleteExpiredKeys \/ Finished \/ UNCHANGED vars
  BY <1>4 DEF Tick, DeleteExpiredKeys, Finished, vars, handler, AllPlaced,
     Placed, Missing, HasMutexes, Running
<1> QED
  BY <1>2, <1>3, <1>4, Steps DEF Background, AllPlaced

(* Where every handler's mutexes, row locks and key are, at all times.     *)
THEOREM LocksArePlaced == Spec => []AllPlaced
<1>1. Init => AllPlaced
  BY DEF Init, AllPlaced, Placed, Running, Missing
<1> QED
  BY <1>1, PlacedInv, Invariance, PTL DEF Spec

-----------------------------------------------------------------------------
(* Suppose nobody can move.                                                *)

Blocked == Inv /\ KeyInv /\ AllPlaced /\ \A q \in Attempts : ~CanStep(q)

(* Then an undecided transaction still has its handler, with its mutexes.  *)
LEMMA LiveRuns ==
  ASSUME Blocked, NEW p \in Attempts, Live(p)
  PROVE  Running(p) /\ pc[p] # "mutex" /\ pc[p] \in ConnLabels /\ InMutexes(p)
<1>1. pc[p] \notin {"unlock", "done", "dead", "idle", "mutex"}
  BY DEF Blocked, CanStep, Orphan, Live, Inv, Staged
<1>2. pc[p] \in ConnLabels
  BY <1>1 DEF Blocked, Inv, TypeOK, Labels, ConnLabels
<1> QED
  BY <1>1, <1>2 DEF Blocked, AllPlaced, Placed, Running, InMutexes

(* ... so no row is locked against a handler that has its mutexes,         *)
LEMMA RowsAreFree ==
  ASSUME Blocked, NEW p \in Attempts, Running(p), pc[p] # "mutex",
         NEW w \in Touched(req[p])
  PROVE  RowFree(p, w)
<1> SUFFICES ASSUME NEW q \in Attempts \ {p}, Live(q), w \in tx[q].locks
             PROVE  FALSE
  BY DEF RowFree
<1>1. InMutexes(p) /\ InMutexes(q)
  BY LiveRuns DEF Blocked, AllPlaced, Placed, Running, InMutexes
<1>2. w \in Touched(req[q])
  BY DEF Blocked, Inv, RowLocksExclusive
<1>3. held[p] \cap held[q] # {}
  BY <1>1, <1>2 DEF InMutexes, HasMutexes, ShardsOf
<1> QED
  BY <1>3 DEF Blocked, Inv, MutexesExclusive

(* ... and none waits for a row,                                           *)
LEMMA NoneWaitsForRow ==
  ASSUME Blocked, NEW p \in Attempts
  PROVE  pc[p] # "lockRows"
<1> SUFFICES ASSUME pc[p] = "lockRows" PROVE FALSE
  OBVIOUS
<1> DEFINE rest == Touched(req[p]) \ tx[p].locks
           ranks == {UUIDRank[w] : w \in rest}
<1>1. rest # {} /\ rest \subseteq WalletIds
  BY RequestTypes DEF Blocked, AllPlaced, Placed, Inv, TypeOK
<1>2. ranks \in SUBSET Nat /\ ranks # {}
  BY <1>1, WalletsAssumption
<1>3. PICK n \in ranks : \A m \in ranks : n <= m
  BY <1>2, LeastNumber
<1>4. PICK w \in rest : UUIDRank[w] = n
  OBVIOUS
<1>5. NextRow(p, w) /\ w \in WalletIds
  BY <1>1, <1>3, <1>4 DEF NextRow
<1>6. RowFree(p, w)
  BY RowsAreFree DEF Running
<1> QED
  BY <1>5, <1>6 DEF Blocked, CanStep

(* ... for a key or for the end of its transaction,                        *)
LEMMA NoneWaitsForServer ==
  ASSUME Blocked, NEW p \in Attempts
  PROVE  pc[p] \notin {"await", "checkKey"}
<1>1. ASSUME NEW q \in Attempts PROVE tx[q].status # "committing"
  <2> SUFFICES ASSUME tx[q].status = "committing" PROVE FALSE
    OBVIOUS
  <2>1. ~RowFree(q, req[q].to)
    BY DEF Blocked, CanStep
  <2>2. Running(q) /\ pc[q] # "mutex" /\ req[q].to \in Touched(req[q])
    BY LiveRuns DEF Live, Touched
  <2> QED
    BY <2>1, <2>2, RowsAreFree
<1>2. pc[p] # "await"
  BY <1>1 DEF Blocked, CanStep, AllPlaced, Placed, Inv, TypeOK, Transaction
<1>3. ASSUME pc[p] = "checkKey" PROVE FALSE
  <2>1. PICK q \in Attempts \ {p} : Live(q) /\ tx[q].keyed
    BY <1>3 DEF Blocked, CanStep, KeyFree
  <2>2. tx[q].status = "open" /\ pc[q] \in ConnLabels
    BY <1>1, <2>1, LiveRuns DEF Live
  <2>3. pc[q] \notin {"getResponse", "checkKey", "await"}
    BY <2>1, <2>2 DEF Blocked, AllPlaced, Placed
  <2>4. pc[q] = "update"
    BY <2>2, <2>3, NoneWaitsForRow DEF Blocked, CanStep, ConnLabels
  <2> QED
    BY <2>4 DEF Blocked, CanStep, AllPlaced, Placed
<1> QED
  BY <1>2, <1>3

(* ... so all wait for mutexes or for a connection.                        *)
LEMMA WhoWaits ==
  ASSUME Blocked, NEW p \in Attempts, Running(p)
  PROVE  pc[p] \in {"mutex", "getResponse"}
<1>1. pc[p] # "update"
  BY DEF Blocked, CanStep, AllPlaced, Placed
<1> QED
  BY <1>1, NoneWaitsForRow, NoneWaitsForServer
  DEF Blocked, CanStep, Running, Inv, TypeOK, Labels

(* Of handlers that all wait for a mutex, the one that waits for the greatest
   can have it: whoever held it would wait for a greater one.              *)
LEMMA GreatestMutexFree ==
  ASSUME Blocked, NEW p \in Attempts, pc[p] = "mutex", Missing(p) # {},
         \A q \in Attempts : Running(q) => pc[q] = "mutex" /\ Missing(q) # {}
  PROVE  FALSE
<1> DEFINE awaited == {s \in Nat : \E q \in Attempts :
                                   Running(q) /\ NextShard(q, s)}
<1>1. ASSUME NEW q \in Attempts
      PROVE  /\ Missing(q) \in SUBSET (0 .. NumShards - 1)
             /\ Missing(q) # {} => \E s \in Nat : NextShard(q, s)
  <2>1. Missing(q) \in SUBSET (0 .. NumShards - 1)
    BY WalletsAssumption, RequestTypes DEF Missing, ShardsOf, Blocked, Inv, TypeOK
  <2>2. Missing(q) # {} => \E s \in Missing(q) : \A t \in Missing(q) : s <= t
    BY <2>1, LeastNumber
  <2> QED
    BY <2>1, <2>2 DEF NextShard
<1>2. awaited \in SUBSET Nat /\ awaited # {}
  BY <1>1 DEF Running
<1>3. \A s \in awaited : s <= NumShards /\ NumShards \in Nat
  BY <1>1, WalletsAssumption DEF NextShard
<1>4. PICK s \in awaited : \A t \in awaited : t <= s
  <2>1. NumShards \in Nat
    BY WalletsAssumption
  <2> HIDE DEF awaited
  <2> QED
    BY <1>2, <1>3, <2>1, GreatestNumber
<1>5. PICK q \in Attempts : Running(q) /\ NextShard(q, s)
  OBVIOUS
<1>6. PICK r \in Attempts : s \in held[r]
  BY <1>5 DEF Blocked, CanStep, ShardFree, NextShard
<1>7. Running(r)
  BY <1>6 DEF Blocked, AllPlaced, Placed
<1>8. PICK t \in Nat : NextShard(r, t)
  BY <1>1, <1>7
<1>9. s < t
  BY <1>6, <1>7, <1>8 DEF Blocked, AllPlaced, Placed, NextShard
<1> QED
  BY <1>4, <1>7, <1>8, <1>9

LEMMA NeverStuck ==
  ASSUME Inv, KeyInv, AllPlaced
  PROVE  NothingStuck
<1> SUFFICES ASSUME Blocked, ~PoolStuck, NEW p \in Attempts,
                    Running(p) \/ Live(p)
             PROVE  FALSE
  BY DEF NothingStuck, Blocked
<1>1. Running(p)
  BY LiveRuns
<1>2. ASSUME NEW q \in Attempts, pc[q] \in ConnLabels
      PROVE  pc[q] = "getResponse"
  BY <1>2, WhoWaits DEF ConnLabels, Running
<1>3. SpareConn
  BY <1>2 DEF PoolStuck
<1>4. ASSUME NEW q \in Attempts, Running(q)
      PROVE  pc[q] = "mutex" /\ Missing(q) # {}
  <2>1. pc[q] = "mutex"
    BY <1>3, <1>4, WhoWaits DEF Blocked, CanStep
  <2>2. ~HasMutexes(q)
    BY <1>3, <2>1 DEF Blocked, CanStep
  <2>3. held[q] \subseteq ShardsOf(req[q])
    BY DEF Blocked, Inv, MutexesExclusive
  <2> QED
    BY <2>1, <2>2, <2>3 DEF HasMutexes, Missing
<1> QED
  BY <1>1, <1>4, GreatestMutexFree

(* However many requests meet, whatever fails and wherever the process stops:
   as long as one is being handled, or a transaction is undecided, someone
   can move, or all connections are held by handlers that ask for a second
   one.  The orders of the mutexes and of the row locks do their work.     *)
THEOREM OnlyThePoolSticks == Spec => []NothingStuck
BY NeverStuck, KeyInvariance, LocksArePlaced, PTL

-----------------------------------------------------------------------------
(* A pool larger than the array of mutexes.                                *)

(* A handler with a connection has a mutex nobody else has.                *)
LEMMA ConnectionsHaveMutexes ==
  ASSUME Inv, AllPlaced
  PROVE  /\ Cardinality({p \in Attempts : pc[p] \in ConnLabels}) \in Nat
         /\ Cardinality({p \in Attempts : pc[p] \in ConnLabels}) <= NumShards
<1> DEFINE users == {p \in Attempts : pc[p] \in ConnLabels}
           shards == 0 .. NumShards - 1
           shard == [p \in users |-> Shard[req[p].to]]
<1>1. \A p \in users : shard[p] \in held[p]
  BY DEF AllPlaced, Placed, Running, ConnLabels, HasMutexes, ShardsOf, Touched
<1>2. shard \in [users -> shards]
  BY WalletsAssumption, RequestsAssumption DEF Inv, TypeOK
<1>3. \A p, q \in users : p # q => shard[p] # shard[q]
  BY <1>1 DEF Inv, MutexesExclusive
<1>4. IsFiniteSet(shards) /\ Cardinality(shards) = NumShards
  BY WalletsAssumption, FS_Interval
<1>5. shard \in Injection(users, shards)
  BY <1>2, <1>3 DEF Injection, IsInjective
<1> HIDE DEF users, shards, shard
<1>6. /\ Cardinality(users) \in Nat
      /\ Cardinality(users) <= Cardinality(shards)
  BY <1>4, <1>5, FS_Injection, FS_CardinalityType
<1> QED
  BY <1>4, <1>6 DEF users

(* With more connections than mutexes (the code has 64, and by default 20
   connections) the pool is never stuck, so nothing is.                    *)
THEOREM LargePoolNeverSticks ==
  ASSUME NumShards < MaxConns
  PROVE  Spec => []((\E p \in Attempts : Running(p) \/ Live(p)) =>
                      \E q \in Attempts : CanStep(q))
<1>1. ASSUME Inv, AllPlaced PROVE SpareConn
  <2> DEFINE used == Cardinality({p \in Attempts : pc[p] \in ConnLabels})
  <2>1. used \in Nat /\ used <= NumShards
    BY <1>1, ConnectionsHaveMutexes
  <2>2. NumShards \in Nat /\ MaxConns \in Nat
    BY WalletsAssumption, ServiceAssumption
  <2> HIDE DEF used
  <2>3. used < MaxConns
    BY <2>1, <2>2
  <2> QED
    BY <2>3 DEF SpareConn, used
<1>2. Inv /\ AllPlaced /\ NothingStuck =>
        ((\E p \in Attempts : Running(p) \/ Live(p)) =>
           \E q \in Attempts : CanStep(q))
  BY <1>1 DEF NothingStuck, PoolStuck
<1> QED
  BY <1>2, Invariance, LocksArePlaced, OnlyThePoolSticks, PTL
=============================================================================
