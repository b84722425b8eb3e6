---------------------------- MODULE Idempotency ----------------------------
(***************************************************************************)
(* What clients are promised of their idempotency keys, with nothing of    *)
(* how: an operation takes effect at one moment, under a key that is not   *)
(* in use, and leaves its response in that very moment; the response is    *)
(* there until it expires; an attempt is answered once, truthfully, and    *)
(* one that was refused never takes effect.  No handlers, no transactions, *)
(* no locks, no crashes.  WalletService implements this module.            *)
(*                                                                         *)
(* What an operation does to the wallets is the subject of Bank.           *)
(***************************************************************************)
EXTENDS WalletOps

CONSTANTS
  Retention,  \* age at which a response is deleted
  Skew        \* the clock it is measured by, less the one it is dated by

VARIABLES
  req,      \* the request of each attempt
  made,     \* the response each attempt has left: none, or one
  answer,   \* what each attempt is answered
  keyRows,  \* the responses that are kept
  clock

vars == << req, made, answer, keyRows, clock >>

Init ==
  /\ req \in [Attempts -> Requests]
  /\ made = [p \in Attempts |-> {}]
  /\ answer = [p \in Attempts |-> NoOutcome]
  /\ keyRows = {}
  /\ clock = 0

-----------------------------------------------------------------------------
InUse(key) == \E k \in keyRows : k.key = key

Responses(r) ==
  IF r.kind = "Transfer" THEN {OkBody}
  ELSE {WalletBody(r.to, b) : b \in 0 .. MaxNumeric}

(* A response is dated by the moment its operation began.                  *)
TakeEffect(p) ==
  LET r == req[p] IN
  /\ IsMoney(r) /\ made[p] = {}
  /\ answer[p].kind \in {"none", "failed"}
  /\ ~InUse(r.key)
  /\ \E begun \in 0 .. clock, body \in Responses(r) :
       LET row == [key |-> r.key, created |-> begun, body |-> body] IN
       /\ keyRows' = keyRows \cup {row}
       /\ made' = [made EXCEPT ![p] = {row}]
  /\ UNCHANGED << req, answer, clock >>

(* Every answer is the first and last of its attempt.                      *)
Answer(p, kind, body) ==
  /\ IsMoney(req[p])
  /\ answer[p].kind = "none"
  /\ answer' = [answer EXCEPT ![p] = [kind |-> kind, body |-> body]]
  /\ UNCHANGED << req, made, keyRows, clock >>

Confirm(p) == \E k \in made[p] : Answer(p, "ok", k.body)

Replay(p) ==
  /\ made[p] = {}
  /\ \E k \in keyRows :
       /\ k.key = req[p].key
       /\ Replayable(req[p], k.body)
       /\ Answer(p, "ok", IF req[p].kind = "Transfer" THEN OkBody ELSE k.body)

Refuse(p) ==
  /\ made[p] = {}
  /\ \/ Answer(p, "rejected", NullBody)
     \/ InUse(req[p].key) /\ Answer(p, "duplicate", NullBody)

(* The operation may have taken effect, or may yet do so: a retry tells.   *)
GiveUp(p) == Answer(p, "failed", NullBody)

Expired(k) == k.created < clock + Skew - Retention

Purge ==
  /\ keyRows' = {k \in keyRows : ~Expired(k)}
  /\ UNCHANGED << req, made, answer, clock >>

Tick ==
  /\ clock' = clock + 1
  /\ UNCHANGED << req, made, answer, keyRows >>

Next ==
  \/ \E p \in Attempts :
       TakeEffect(p) \/ Confirm(p) \/ Replay(p) \/ Refuse(p) \/ GiveUp(p)
  \/ Purge \/ Tick

Spec == Init /\ [][Next]_vars
=============================================================================
