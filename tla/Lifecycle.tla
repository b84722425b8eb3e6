----------------------------- MODULE Lifecycle -----------------------------
(***************************************************************************)
(* The life of the process around WalletService: start-up, the listener,   *)
(* the cleanup worker, graceful shutdown with its five seconds, and the    *)
(* ways to die.  Each stop that cuts handlers off is a Crash of            *)
(* WalletService, each purge a DeleteExpiredKeys, and requests arrive only *)
(* while the server runs: what is proved of WalletService holds of it.     *)
(*                                                                         *)
(* Some definitions are preceded by one like them with a plausible         *)
(* mistake, with which a property fails; nothing uses those.               *)
(***************************************************************************)
EXTENDS WalletService

CONSTANTS
  Intervals,  \* values of IDEMPOTENCY_CLEANUP_INTERVAL_HOURS
  Unset,      \* the value of a variable that is not set, or no number
  Hour,       \* time.Hour
  MaxInt      \* the largest int, and the largest time.Duration

ASSUME LifecycleAssumption ==
  /\ Intervals \subseteq Int \cup {Unset}
  /\ Hour \in Nat
  /\ MaxInt \in Nat
  /\ MayCrash

VARIABLES
  main,     \* where main() is
  worker,   \* where StartCleanupWorker is
  exit      \* the code the process last exited with

process == << main, worker, exit >>
allVars == << vars, process >>

LInit ==
  /\ Init
  /\ main = "down"
  /\ worker = "none"
  /\ exit = 0

-----------------------------------------------------------------------------
(* The end of the process takes its handlers, its mutexes and its worker
   with it.                                                                *)
Exit(code) ==
  /\ main' = "down"
  /\ exit' = code
  /\ worker' = "none"
  /\ pc' = [p \in Attempts |-> IF Running(p) THEN "dead" ELSE pc[p]]
  /\ held' = [p \in Attempts |-> {}]
  /\ UNCHANGED << req, seen, outcome, tx, tables, clock >>

(* main(), up to <-quit.                                                   *)

StartUp ==
  /\ main = "down"
  /\ main' = "connecting"
  /\ UNCHANGED << vars, worker, exit >>

(* The pool does not open, or the database does not answer the ping.       *)
ConnectFails ==
  /\ main = "connecting"
  /\ CallsMayFail
  /\ Exit(1)

(* getEnvAsInt: what is out of range is no number either.                  *)
AsInt(v, fallback) ==
  IF v = Unset \/ v > MaxInt \/ v < -MaxInt - 1 THEN fallback ELSE v

(* time.Duration(n) * time.Hour wraps.                                     *)
Hours(n) == ((n * Hour + MaxInt + 1) % (2 * MaxInt + 2)) - MaxInt - 1

(* The worker and the listener are started.  time.NewTicker panics for an
   interval that is not positive.                                          *)
Serve ==
  /\ main = "connecting"
  /\ main' = "serving"
  /\ \E i \in Intervals :
       worker' = IF Hours(AsInt(i, 1)) > 0 THEN "waiting" ELSE "panics"
  /\ UNCHANGED << vars, exit >>

(* No handler's Recovery is below the worker's goroutine.                  *)
WorkerPanics ==
  /\ worker = "panics"
  /\ Exit(2)

(* ListenAndServe returns an error: the port is taken.                     *)
ListenFails ==
  /\ CallsMayFail
  /\ main = "serving"
  /\ Exit(1)

(* SIGINT or SIGTERM; a second one stays in the channel, unread.           *)
Signal ==
  /\ main = "serving"
  /\ main' = "draining"
  /\ UNCHANGED << vars, worker, exit >>

(* srv.Shutdown, with a context of five seconds.                           *)

DrainedAtOnce ==
  /\ main = "draining"
  /\ main' = "closing"
  /\ UNCHANGED << vars, worker, exit >>

(* All connections are idle; the deferred calls begin, and the first of them
   that matters is workerCancel().                                         *)
Drained ==
  /\ main = "draining"
  /\ \A p \in Attempts : ~Running(p)
  /\ main' = "closing"
  /\ UNCHANGED << vars, worker, exit >>

DeadlineNever == FALSE

(* os.Exit runs no deferred call.                                          *)
DeadlineExpires ==
  /\ main = "draining"
  /\ Exit(1)

(* database.Close() waits for the connection of a purge, then main returns;
   nobody waits for the worker itself.                                     *)
ClosePool ==
  /\ main = "closing"
  /\ worker # "purging"
  /\ Exit(0)

Killed ==
  /\ main # "down"
  /\ Exit(2)

-----------------------------------------------------------------------------
(* StartCleanupWorker.                                                     *)

(* A tick that select takes after workerCancel() gets no connection, and
   changes nothing.                                                        *)
TickerFires ==
  /\ worker = "waiting"
  /\ main # "closing"
  /\ worker' = "purging"
  /\ UNCHANGED << vars, main, exit >>

PurgeEverything ==
  /\ worker = "purging"
  /\ SpareConn
  /\ keyRows' = {}
  /\ worker' = "waiting"
  /\ UNCHANGED << req, handler, tx, wallets, ledger, clock, main, exit >>

Purge ==
  /\ worker = "purging"
  /\ \/ DeleteExpiredKeys
     \/ SpareConn /\ (\A k \in keyRows : ~Expired(k)) /\ UNCHANGED vars
  /\ worker' = "waiting"
  /\ UNCHANGED << main, exit >>

PurgeFailsForGood ==
  /\ worker = "purging"
  /\ CallsMayFail \/ main = "closing"
  /\ worker' = "none"
  /\ UNCHANGED << vars, main, exit >>

(* With its context cancelled, or as any call fails; it is logged.         *)
PurgeFails ==
  /\ worker = "purging"
  /\ CallsMayFail \/ main = "closing"
  /\ worker' = "waiting"
  /\ UNCHANGED << vars, main, exit >>

WorkerReturns ==
  /\ worker = "waiting"
  /\ main = "closing"
  /\ worker' = "none"
  /\ UNCHANGED << vars, main, exit >>

-----------------------------------------------------------------------------
ReceiveWhileUp(p) ==
  /\ main # "down"
  /\ Arrive(p)
  /\ UNCHANGED process

(* srv.Shutdown closes the listener at once, but a connection accepted before
   may still deliver a request for as long as it waits.                    *)
Receive(p) ==
  /\ main \in {"serving", "draining"}
  /\ Arrive(p)
  /\ UNCHANGED process

Main ==
  \/ StartUp \/ ConnectFails \/ Serve \/ ListenFails \/ Signal
  \/ Drained \/ DeadlineExpires \/ ClosePool

Worker == WorkerPanics \/ TickerFires \/ Purge \/ PurgeFails \/ WorkerReturns

LNext ==
  \/ Main \/ Worker \/ Killed
  \/ \E p \in Attempts :
       \/ Receive(p)
       \/ (Handler(p) \/ Server(p) \/ Fault(p)) /\ UNCHANGED process
  \/ Tick /\ UNCHANGED process

LSpec == LInit /\ [][LNext]_allVars

(* Shutdown's timer runs and the worker's ticker ticks; that a purge does not
   fail every time is the database's part.  Handlers need not get anywhere. *)
FairLSpec ==
  /\ LSpec
  /\ WF_allVars(Drained \/ DeadlineExpires \/ ClosePool)
  /\ WF_allVars(Worker)
  /\ SF_allVars(Purge)
-----------------------------------------------------------------------------
(* Handlers and the worker have a process, and handlers a pool, for as long
   as they run; no mutex is left locked by a handler that has ended.       *)
UpWhileRunning ==
  /\ main \in {"down", "connecting", "serving", "draining", "closing"}
  /\ worker \in {"none", "panics", "waiting", "purging"}
  /\ exit \in 0 .. 2
  /\ \A p \in Attempts : Running(p) => main \in {"serving", "draining"}
  /\ \A p \in Attempts : ~Running(p) => held[p] = {}
  /\ worker # "none" => main \in {"serving", "draining", "closing"}

(* "Graceful Shutdown" (main.go:87): a process that exits with 0 has answered
   every request it had received, and holds nothing any more.              *)
ExitZeroCutsNobody ==
  [][main # "down" /\ main' = "down" /\ exit' = 0 =>
       \A p \in Attempts : ~Running(p)]_allVars

(* "with a timeout of 5 seconds" (main.go:101): once asked to stop, the process
   does, even when its handlers get no further, whatever keeps them, and
   whatever the worker is at.                                              *)
ShutdownEnds == main = "draining" ~> main = "down"

(* "A background cleanup worker proactively purges old idempotency keys"
   (README.md:33): an expired key does not stay for as long as the process
   serves and the pool has a connection to spare, although purges may fail. *)
ExpiredKeysGo ==
  (\E k \in keyRows : Expired(k)) ~>
    \/ \A k \in keyRows : ~Expired(k)
    \/ main # "serving"
    \/ ~SpareConn
=============================================================================
