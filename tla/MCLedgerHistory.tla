-------------------------- MODULE MCLedgerHistory --------------------------
(***************************************************************************)
(* LedgerHistory on a small instance: ints of five bits, so that large     *)
(* pages overflow into negative offsets and into small ones; and what the  *)
(* handler's documentation says of the history and the code does not do.   *)
(***************************************************************************)
EXTENDS LedgerHistory

(* "@Failure 500 ... Internal server error" (ledger_handler.go:34): a page
   whose rows ended in an error is not answered with a success.            *)
ErrorsAreReported == answer.kind = "ok" => ~walk.cut
=============================================================================
