------------------------------ MODULE Registry ------------------------------
(***************************************************************************)
(* What clients are promised of users and wallets, with nothing of how: a  *)
(* user or a wallet appears in one step, a wallet only for a user who is   *)
(* there and has none of its currency; an attempt is answered once, with   *)
(* what is so at that moment; one that was refused never creates anything. *)
(* No statements, mutexes, processes or crashes.  Accounts implements it.  *)
(*                                                                         *)
(* WalletAsWritten is WalletBy with a plausible mistake, with which a      *)
(* property fails; nothing uses it.                                        *)
(***************************************************************************)
EXTENDS Naturals

CONSTANTS
  Attempts,
  OldUsers,   \* the ids of users created before
  Strangers,  \* ids of no user
  Codes,      \* the three-letter strings clients send as a currency
  Upper,      \* [Codes -> Codes], ToUpper(TrimSpace(code))
  ISO         \* ValidCurrencies

UserIds == OldUsers \cup Strangers \cup Attempts

ASSUME RegistryAssumption ==
  /\ OldUsers \cap (Strangers \cup Attempts) = {}
  /\ Strangers \cap Attempts = {}
  /\ Upper \in [Codes -> Codes]
  /\ \A c \in ISO : c \in Codes /\ Upper[c] = c

VARIABLES
  req,      \* what each attempt asks for, once it has arrived
  outcome,  \* what each attempt is answered
  users,    \* the committed rows of users
  wallets   \* the committed rows of wallets

registry == << req, outcome, users, wallets >>

Names == {"fits", "tooLong"}

Request ==
  [kind : {"user"}, name : Names] \cup
  [kind : {"wallet"}, user : UserIds, code : Codes]

NoRequest == [kind |-> "none"]

Wallet == [user : UserIds, currency : ISO, id : Attempts]

Currency(p) == Upper[req[p].code]

SameWallet(w, p) == w.user = req[p].user /\ w.currency = Currency(p)

HasWallet(p) == \E w \in wallets : SameWallet(w, p)

WalletAsWritten(p) == [user |-> req[p].user, currency |-> req[p].code, id |-> p]

WalletBy(p) == [user |-> req[p].user, currency |-> Currency(p), id |-> p]

IsWallet(p) == req[p].kind = "wallet"

Created(p) == p \in users \/ \E w \in wallets : w.id = p

(* The client.  The ids it knows of users are those it has been answered.  *)
Nameable ==
  OldUsers \cup Strangers \cup
  {p \in Attempts : outcome[p] = "created" /\ req[p].kind = "user"}

-----------------------------------------------------------------------------
RegistryInit ==
  /\ req = [p \in Attempts |-> NoRequest]
  /\ outcome = [p \in Attempts |-> "none"]
  /\ users = OldUsers
  /\ wallets = {}

Ask(p) ==
  /\ req[p] = NoRequest
  /\ \E r \in Request :
       /\ r.kind = "wallet" => r.user \in Nameable
       /\ req' = [req EXCEPT ![p] = r]
  /\ UNCHANGED << outcome, users, wallets >>

(* Only an attempt that has given up can still create what it asked for.   *)
Undecided(p) == outcome[p] \in {"none", "failed"}

AddUser(p) ==
  /\ req[p].kind = "user" /\ Undecided(p)
  /\ req[p].name = "fits"
  /\ users' = users \cup {p}
  /\ UNCHANGED << req, outcome, wallets >>

AddWallet(p) ==
  /\ IsWallet(p) /\ Undecided(p)
  /\ Currency(p) \in ISO /\ req[p].user \in users /\ ~HasWallet(p)
  /\ wallets' = wallets \cup {WalletBy(p)}
  /\ UNCHANGED << req, outcome, users >>

(* Why an attempt may be refused.  A constraint's own error speaks of a name
   too long or of UNIQUE(user_id, currency), never of the user.            *)
Reason(p, answer) ==
  CASE answer = "invalid" -> IsWallet(p) /\ Currency(p) \notin ISO
    [] answer = "noUser"  -> IsWallet(p) /\ req[p].user \notin users
    [] answer = "exists"  -> IsWallet(p) /\ HasWallet(p)
    [] answer = "refused" ->
         IF IsWallet(p) THEN HasWallet(p) ELSE req[p].name = "tooLong"

Answer(p) ==
  /\ req[p] # NoRequest /\ outcome[p] = "none"
  /\ \E answer \in {"created", "failed", "invalid", "noUser", "exists", "refused"} :
       /\ answer = "created" => Created(p)
       /\ answer \notin {"created", "failed"} => ~Created(p) /\ Reason(p, answer)
       /\ outcome' = [outcome EXCEPT ![p] = answer]
  /\ UNCHANGED << req, users, wallets >>

RegistryNext ==
  \E p \in Attempts : Ask(p) \/ AddUser(p) \/ AddWallet(p) \/ Answer(p)

RegistrySpec == RegistryInit /\ [][RegistryNext]_registry
=============================================================================
