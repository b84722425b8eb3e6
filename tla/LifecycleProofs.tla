-------------------------- MODULE LifecycleProofs --------------------------
(***************************************************************************)
(* The process as a whole does nothing WalletService does not: so all that *)
(* is proved there holds through start-up, shutdown and every kind of      *)
(* death.  And a process that exits with 0 has cut nobody off.             *)
(***************************************************************************)
EXTENDS Lifecycle, IdempotencyProofs

(* A step of a handler is of one that runs, and one that ends lets go of its
   mutexes.                                                                *)
LEMMA HandlerStep ==
  ASSUME TypeOK, NEW p \in Attempts, Handler(p) \/ Fault(p)
  PROVE  /\ Running(p)
         /\ \A q \in Attempts \ {p} : pc'[q] = pc[q] /\ held'[q] = held[q]
         /\ Running(p)' \/ held'[p] = {}
<1> USE DEF TypeOK, Running, Goto
<1>1. CASE LockShard(p) \/ RefuseMalformed(p) \/ Begin(p) \/ Suspend(p)
  BY <1>1 DEF LockShard, RefuseMalformed, Begin, Suspend
<1>2. CASE GetResponse(p) \/ CheckAndCreateKey(p) \/ Reply(p) \/ Rollback(p)
  BY <1>2 DEF GetResponse, CheckAndCreateKey, Reply, Rollback
<1>3. CASE LockWallet(p) \/ WalletNotFound(p) \/ Refuse(p)
  BY <1>3 DEF LockWallet, WalletNotFound, Refuse
<1>4. CASE \/ UpdateWalletBalance(p) \/ CreateLedgerEntry(p)
           \/ SaveResponse(p) \/ Commit(p)
  BY <1>4 DEF UpdateWalletBalance, CreateLedgerEntry, SaveResponse, Commit
<1>5. CASE Unlock(p)
  BY <1>5 DEF Unlock
<1>6. CASE Fault(p)
  BY <1>6 DEF Fault, GetResponseFails, CallFails, RollbackFails
<1> QED
  BY <1>1, <1>2, <1>3, <1>4, <1>5, <1>6 DEF Handler

(* Neither the server nor the clock nor a purge moves a handler.           *)
LEMMA BackgroundStep ==
  ASSUME \/ \E p \in Attempts : Server(p)
         \/ Tick \/ DeleteExpiredKeys \/ UNCHANGED vars
  PROVE  UNCHANGED << pc, held >>
BY DEF Server, ServerCommit, ServerSuspend, ServerAbort, Tick,
       DeleteExpiredKeys, handler, vars

(* The end of the process is a crash, or nothing at all to the service.    *)
LEMMA ExitIsCrash ==
  ASSUME TypeOK, UpWhileRunning, NEW code, Exit(code)
  PROVE  Crash \/ UNCHANGED vars
<1>1. CASE \E p \in Attempts : Running(p)
  BY <1>1, LifecycleAssumption DEF Exit, Crash
<1>2. CASE \A p \in Attempts : ~Running(p)
  <2>1. pc' = pc /\ held' = held
    BY <1>2 DEF Exit, TypeOK, UpWhileRunning
  <2> QED
    BY <2>1 DEF Exit, vars, tables
<1> QED
  BY <1>1, <1>2

(* Every step of the process is one of the service, or a stutter.          *)
LEMMA ProcessStep ==
  ASSUME TypeOK, UpWhileRunning, [LNext]_allVars
  PROVE  [Next]_vars
<1>1. CASE \/ ConnectFails \/ ListenFails \/ DeadlineExpires \/ ClosePool
           \/ WorkerPanics \/ Killed
  BY <1>1, ExitIsCrash DEF ConnectFails, ListenFails, DeadlineExpires,
     ClosePool, WorkerPanics, Killed, Next
<1>2. CASE StartUp \/ Serve \/ Signal \/ Drained
  BY <1>2 DEF StartUp, Serve, Signal, Drained
<1>3. CASE TickerFires \/ Purge \/ PurgeFails \/ WorkerReturns
  BY <1>3 DEF TickerFires, Purge, PurgeFails, WorkerReturns, Next
<1>4. CASE \E p \in Attempts :
             \/ Receive(p)
             \/ (Handler(p) \/ Server(p) \/ Fault(p)) /\ UNCHANGED process
  BY <1>4 DEF Receive, Next
<1>5. CASE Tick /\ UNCHANGED process
  BY <1>5 DEF Next
<1>6. CASE UNCHANGED allVars
  BY <1>6 DEF allVars
<1> QED
  BY <1>1, <1>2, <1>3, <1>4, <1>5, <1>6 DEF LNext, Main, Worker

LEMMA UpInit == LInit => UpWhileRunning
BY DEF LInit, Init, UpWhileRunning, Running

LEMMA UpNext ==
  ASSUME TypeOK, UpWhileRunning, [LNext]_allVars
  PROVE  UpWhileRunning'
<1>1. CASE \E code \in 0 .. 2 : Exit(code)
  BY <1>1 DEF Exit, UpWhileRunning, Running, TypeOK
<1>2. CASE StartUp \/ Serve \/ Signal \/ Drained
  BY <1>2 DEF StartUp, Serve, Signal, Drained, UpWhileRunning, Running, vars
<1>3. CASE TickerFires \/ Purge \/ PurgeFails \/ WorkerReturns
  <2>1. UNCHANGED << pc, held, main, exit >>
    BY <1>3, BackgroundStep
       DEF TickerFires, Purge, PurgeFails, WorkerReturns, vars
  <2> QED
    BY <1>3, <2>1 DEF TickerFires, Purge, PurgeFails, WorkerReturns,
       UpWhileRunning, Running
<1>4. ASSUME NEW p \in Attempts, Receive(p)
      PROVE  UpWhileRunning'
  BY <1>4 DEF Receive, Arrive, Goto, process, UpWhileRunning, Running, TypeOK
<1>5. ASSUME NEW p \in Attempts, Handler(p) \/ Fault(p), UNCHANGED process
      PROVE  UpWhileRunning'
  BY <1>5, HandlerStep DEF process, UpWhileRunning, Running
<1>6. ASSUME (\E p \in Attempts : Server(p)) \/ Tick \/ UNCHANGED vars,
             UNCHANGED process
      PROVE  UpWhileRunning'
  <2>1. UNCHANGED << pc, held >>
    BY <1>6, BackgroundStep
  <2> QED
    BY <1>6, <2>1 DEF process, UpWhileRunning, Running
<1> QED
  BY <1>1, <1>2, <1>3, <1>4, <1>5, <1>6
     DEF LNext, Main, Worker, ConnectFails, ListenFails, DeadlineExpires,
         ClosePool, WorkerPanics, Killed, allVars

-----------------------------------------------------------------------------
(* The process implements the service: an exit, however it comes about, is a
   crash at worst, and what the worker does is a purge.                    *)
THEOREM ProcessImplementsService == LSpec => Spec
<1>1. LInit => Init /\ Inv /\ UpWhileRunning
  BY InitInv, UpInit DEF LInit
<1>2. Inv /\ UpWhileRunning /\ [LNext]_allVars =>
        [Next]_vars /\ Inv' /\ UpWhileRunning'
  BY ProcessStep, UpNext, NextInv DEF Inv
<1> QED
  BY <1>1, <1>2, PTL DEF LSpec, Spec

(* Handlers run only between the start of the listener and the closing of the
   pool, and leave no mutex locked.                                        *)
THEOREM UpWhenNeeded == LSpec => []UpWhileRunning
<1>1. LInit => Inv /\ UpWhileRunning
  BY InitInv, UpInit DEF LInit
<1>2. Inv /\ UpWhileRunning /\ [LNext]_allVars => Inv' /\ UpWhileRunning'
  BY ProcessStep, UpNext, NextInv DEF Inv
<1> QED
  BY <1>1, <1>2, PTL DEF LSpec

(* A process that exits with 0 has answered every request it received.     *)
THEOREM GracefulExit == LSpec => ExitZeroCutsNobody
<1>1. UpWhileRunning /\ [LNext]_allVars =>
        [main # "down" /\ main' = "down" /\ exit' = 0 =>
           \A p \in Attempts : ~Running(p)]_allVars
  <2> SUFFICES ASSUME UpWhileRunning, LNext, main # "down", main' = "down",
                      exit' = 0
               PROVE  \A p \in Attempts : ~Running(p)
    OBVIOUS
  <2>1. ClosePool
    BY DEF LNext, Main, Worker, StartUp, ConnectFails, Serve, ListenFails,
           Signal, Drained, DeadlineExpires, WorkerPanics, TickerFires, Purge,
           PurgeFails, WorkerReturns, Killed, Exit, Receive, process
  <2> QED
    BY <2>1 DEF ClosePool, UpWhileRunning
<1> QED
  BY <1>1, UpWhenNeeded, PTL DEF LSpec, ExitZeroCutsNobody

(* So the money is right in the whole process too: its commits are the bank's,
   one indivisible step each.                                              *)
THEOREM ProcessImplementsBank == LSpec => BankSpec
BY ProcessImplementsService, ServiceImplementsBank, PTL

(* ... and no exit, however it comes about, breaks the promise made of the
   idempotency keys.                                                       *)
THEOREM ProcessKeepsKeys == LSpec => KeySpec
BY ProcessImplementsService, ServiceKeepsKeys, PTL
=============================================================================
