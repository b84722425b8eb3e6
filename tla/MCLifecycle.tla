---------------------------- MODULE MCLifecycle ----------------------------
(***************************************************************************)
(* Lifecycle on an instance of MCWalletService: a request and its retry,   *)
(* on a pool as large as their number, and an interval that is missing,    *)
(* zero, too many hours for a Duration, or too many for an int.            *)
(***************************************************************************)
EXTENDS Lifecycle, MCWalletClaims

MCIntervals == {Unset, 0, 6, 40}
=============================================================================
