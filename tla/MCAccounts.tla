----------------------------- MODULE MCAccounts -----------------------------
(***************************************************************************)
(* Accounts on a small instance: a user and a stranger of one shard, one   *)
(* code written in two ways and one that is not of the table, and two      *)
(* processes, of which the second serves a3 only.                          *)
(***************************************************************************)
EXTENDS Accounts, TLC

CONSTANTS u1, stranger, a1, a2, a3

MCUpper == [c \in Codes |-> IF c = "usd" THEN "USD" ELSE c]

MCShard == [u \in UserIds |-> IF u \in {u1, stranger} THEN 7 ELSE 3]

MCProcess == [p \in Attempts |-> IF p = a3 THEN 2 ELSE 1]

(* Of the attempts of the first process.                                   *)
Symmetric == Permutations({a1, a2})
=============================================================================
