------------------------------ MODULE Progress ------------------------------
(***************************************************************************)
(* When the handlers of WalletService can move: what each waits for at     *)
(* each label, written out, and that they never all wait on each other     *)
(* over mutexes, keys and rows, only over the connections of the pool.     *)
(***************************************************************************)
EXTENDS WalletService

(* What a handler waiting for its mutexes waits for.                       *)
Missing(p) == ShardsOf(req[p]) \ held[p]

NextShard(p, s) == s \in Missing(p) /\ \A t \in Missing(p) : s <= t

ShardFree(s) == \A q \in Attempts : s \notin held[q]

(* The handler of p, or the server for its transaction, can take a step.  The
   server gives up a transaction only when its client has gone: a COMMIT that
   is lost is a fault, and no way to get on.                               *)
CanStep(p) ==
  \/ /\ pc[p] = "mutex"
     /\ \/ \E s \in Missing(p) : NextShard(p, s) /\ ShardFree(s)
        \/ HasMutexes(p) /\ (Malformed(req[p]) \/ SpareConn)
  \/ pc[p] = "getResponse" /\ SpareConn
  \/ pc[p] = "checkKey" /\ KeyFree(p)
  \/ /\ pc[p] = "lockRows"
     /\ \E w \in WalletIds : NextRow(p, w) /\ (w \in Wallets => RowFree(p, w))
  \/ pc[p] = "update" /\ (tx[p].updated # {} => ~Refused(req[p], seen[p]))
  \/ pc[p] \in {"ledger", "save", "commit", "rollback", "unlock"}
  \/ pc[p] = "await" /\ tx[p].status \in {"committed", "aborted"}
  \/ /\ tx[p].status = "committing"
     /\ IsMoney(req[p]) \/ RowFree(p, req[p].to)
  \/ Orphan(p)

(* Every connection is taken by a handler that asks for a second one:
   GetResponse reads outside the transaction of its handler.               *)
PoolStuck ==
  ~SpareConn /\ \A p \in Attempts : pc[p] \in ConnLabels => pc[p] = "getResponse"

(* "A deterministic locking order ... is used to prevent deadlocks"
   (README.md:30): while a request is being handled or a transaction is
   undecided someone can move, however the handlers wait for each other's
   mutexes, keys and rows, unless the pool is stuck.                       *)
NothingStuck ==
  (\E p \in Attempts : Running(p) \/ Live(p)) =>
    PoolStuck \/ \E q \in Attempts : CanStep(q)

(* What makes it hold: where a handler's mutexes, row locks and key are at
   each of its labels.                                                     *)
Placed(p) ==
  /\ held[p] # {} => Running(p)
  /\ Running(p) /\ pc[p] # "mutex" => HasMutexes(p)
  /\ pc[p] = "mutex" => \A s \in held[p] : \A t \in Missing(p) : s < t
  /\ pc[p] \in {"getResponse", "checkKey"} => tx[p].locks = {} /\ ~tx[p].keyed
  /\ pc[p] = "lockRows" => ~(Touched(req[p]) \subseteq tx[p].locks)
  /\ pc[p] = "update" /\ tx[p].updated # {} => ~Refused(req[p], seen[p])
  /\ pc[p] = "await" => tx[p].status \notin {"none", "open"}

AllPlaced == \A p \in Attempts : Placed(p)
=============================================================================
