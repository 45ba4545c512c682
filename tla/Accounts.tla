------------------------------ MODULE Accounts ------------------------------
(***************************************************************************)
(* One account of the API: its password, sessions and second factor        *)
(* (server/src/api/routes/auth.ts and account.ts, session.ts,              *)
(* twofactor.ts).  A request runs as the steps between its awaits; the     *)
(* requests of several devices interleave at those points.                 *)
(*                                                                         *)
(* Hashes and sealed values are the values themselves; a code of the       *)
(* authenticator is the secret and the time step it was made for, a        *)
(* recovery code the confirmation that issued it (one stands for eight).   *)
(***************************************************************************)
EXTENDS Naturals, FiniteSets

CONSTANTS
  Devices,      \* browsers of the owner
  Unheard,      \* places of requests that nobody waits for any more
  Sessions,     \* tokens of auth_sessions
  Passwords,
  None,
  MaxSecret,    \* bound: secrets made by setup, and confirmations
  MaxStep       \* bound: time steps

AccountsAssumption ==
  /\ MaxSecret \in Nat /\ MaxStep \in Nat
  /\ None \notin Sessions \cup Passwords \cup Nat
  /\ Devices \cap Unheard = {}

Callers == Devices \cup Unheard

VARIABLES
  user,         \* the row of users
  sessions,     \* auth_sessions of the user
  clock,        \* the current time step of 30 s
  made,         \* secrets made so far
  request,      \* the request under way of a device, or one it has given up
  uses          \* how often each code was accepted (of the authenticator: since it was turned on)

server == <<user, sessions, clock, made, uses>>

AppCode(s, t) == [kind |-> "app", secret |-> s, step |-> t]
RecoveryCode(n) == [kind |-> "recovery", secret |-> n, step |-> 0]
Codes ==
  {AppCode(s, t) : s \in 1..MaxSecret, t \in 0..MaxStep} \cup {RecoveryCode(n) : n \in 1..MaxSecret}

NoRequest == [op |-> "none", at |-> "idle", pw |-> None, new |-> None, code |-> None,
              sid |-> None, seen |-> None]

\* `issued` and `overtaken` are no columns: confirmations so far, and whether the last one wrote
\* another pending secret than the one its code was checked against.
UserRow == [exists : BOOLEAN, pw : Passwords, secret : 0..MaxSecret, pending : 0..MaxSecret,
            enabled : BOOLEAN, lastStep : (0..MaxStep) \cup {None}, codes : SUBSET (1..MaxSecret),
            issued : 0..MaxSecret, overtaken : BOOLEAN]

\* A request as it leaves the browser, with the cookie of that moment.
Request(op, sid) == [NoRequest EXCEPT !.op = op, !.at = "sent", !.sid = sid]

InitServer ==
  /\ \E p \in Passwords :
       user = [exists |-> FALSE, pw |-> p, secret |-> 0, pending |-> 0, enabled |-> FALSE,
               lastStep |-> None, codes |-> {}, issued |-> 0, overtaken |-> FALSE]
  /\ sessions = {} /\ clock = 0 /\ made = 0
  /\ request = [d \in Callers |-> NoRequest]
  /\ uses = [c \in Codes |-> 0]

-----------------------------------------------------------------------------
(* Helpers of the handlers *)

Goes(d, at) == request' = [request EXCEPT ![d].at = at]
Answers(d, answer) == Goes(d, answer)

\* "Accepts the neighbouring steps to tolerate clock drift."
VerifyTotp(secret, code) ==
  /\ code.kind = "app" /\ code.secret = secret
  /\ code.step \in (IF clock = 0 THEN 0 ELSE clock - 1)..(clock + 1)

Asks(d, ops, at) == request[d].op \in ops /\ request[d].at = at

SignedIn(d) == request[d].sid \in sessions

\* requireUser: everything but signing in and out starts with it.
NeedsUser == {"password", "setup", "enable", "disable", "revoke", "revokeOthers", "status", "me"}

-----------------------------------------------------------------------------
(* auth.ts *)

Register(d) ==
  /\ Asks(d, {"register"}, "sent")
  /\ IF user.exists
       THEN Answers(d, "username_taken") /\ UNCHANGED user
       ELSE /\ user' = [user EXCEPT !.exists = TRUE, !.pw = request[d].pw]
            /\ Goes(d, "insert")
  /\ UNCHANGED <<sessions, clock, made, uses>>

\* The row is read once; the password and whether a code is needed are judged by it.
Login(d) ==
  /\ Asks(d, {"login"}, "sent")
  /\ Goes(d, IF ~user.exists \/ user.pw # request[d].pw THEN "invalid_credentials"
             ELSE IF ~user.enabled THEN "insert"
             ELSE IF request[d].code = None THEN "totp_required"
             ELSE "factor")
  /\ UNCHANGED server

CreateSession(d) ==
  /\ Asks(d, {"register", "login"}, "insert")
  /\ \E s \in Sessions \ (sessions \cup {request[e].sid : e \in Callers}) :
       /\ sessions' = sessions \cup {s}
       /\ request' = [request EXCEPT ![d].sid = s, ![d].at = "ok"]
  /\ UNCHANGED <<user, clock, made, uses>>

Logout(d) ==
  /\ Asks(d, {"logout"}, "sent")
  /\ sessions' = sessions \ {request[d].sid}
  /\ Answers(d, "ok")
  /\ UNCHANGED <<user, clock, made, uses>>

-----------------------------------------------------------------------------
(* twofactor.ts *)

\* The secret is read and the code is checked against it ...
ReadFactor(d) ==
  /\ Asks(d, {"login", "disable"}, "factor")
  /\ Goes(d, IF user.secret = 0 THEN "totp_invalid"
             ELSE IF request[d].code.kind = "recovery" \/ VerifyTotp(user.secret, request[d].code)
               THEN "consume" ELSE "totp_invalid")
  /\ UNCHANGED server

\* Mutant: the step is written without looking at the one written last.
FreshAnyway(code) == code.kind = "recovery" => code.secret \in user.codes

Fresh(code) ==
  IF code.kind = "recovery" THEN code.secret \in user.codes
  ELSE user.lastStep = None \/ user.lastStep < code.step

\* ... and then used up by one statement.
Consume(d) ==
  LET code == request[d].code IN
  /\ Asks(d, {"login", "disable"}, "consume")
  /\ IF ~Fresh(code)
       THEN Answers(d, "totp_invalid") /\ UNCHANGED <<user, uses>>
       ELSE /\ user' = IF code.kind = "recovery" THEN [user EXCEPT !.codes = @ \ {code.secret}]
                       ELSE [user EXCEPT !.lastStep = code.step]
            /\ uses' = [uses EXCEPT ![code] = @ + 1]
            /\ Goes(d, IF request[d].op = "login" THEN "insert" ELSE "clear")
  /\ UNCHANGED <<sessions, clock, made>>

-----------------------------------------------------------------------------
(* account.ts *)

\* What the handler does with the row that currentUser() read: `seen` keeps totp_enabled.
RequireUser(d) ==
  /\ Asks(d, NeedsUser, "sent")
  /\ request' = [request EXCEPT
       ![d].seen = IF request[d].op = "disable" THEN user.enabled ELSE None,
       ![d].at = IF ~SignedIn(d) THEN "unauthorized"
                 ELSE IF request[d].op \in {"status", "me"} THEN "ok"
                 ELSE IF request[d].op = "setup" /\ user.enabled THEN "conflict"
                 ELSE "user"]
  /\ UNCHANGED server

\* Checked before anything else by a change of the password and by switching off.
CheckPassword(d) ==
  /\ Asks(d, {"password", "disable"}, "user")
  /\ Goes(d, IF user.pw # request[d].pw THEN "invalid_credentials"
             ELSE IF request[d].op = "password" THEN "write"
             ELSE IF ~request[d].seen THEN "ok" ELSE "factor")
  /\ UNCHANGED server

\* "A password change signs out every other device."
ChangePassword(d) ==
  /\ Asks(d, {"password"}, "write")
  /\ user' = [user EXCEPT !.pw = request[d].new]
  /\ sessions' = sessions \cap {request[d].sid}
  /\ Answers(d, "ok")
  /\ UNCHANGED <<clock, made, uses>>

Revoke(d) ==
  /\ Asks(d, {"revoke"}, "user")
  /\ \E s \in Sessions :
       IF s \in sessions THEN sessions' = sessions \ {s} /\ Answers(d, "ok")
       ELSE Answers(d, "not_found") /\ UNCHANGED sessions
  /\ UNCHANGED <<user, clock, made, uses>>

RevokeOthers(d) ==
  /\ Asks(d, {"revokeOthers"}, "user")
  /\ sessions' = sessions \cap {request[d].sid}
  /\ Answers(d, "ok")
  /\ UNCHANGED <<user, clock, made, uses>>

Setup(d) ==
  /\ Asks(d, {"setup"}, "user") /\ made < MaxSecret
  /\ made' = made + 1
  /\ user' = [user EXCEPT !.pending = made + 1]
  /\ request' = [request EXCEPT ![d].seen = made + 1, ![d].at = "ok"]
  /\ UNCHANGED <<sessions, clock, uses>>

\* The pending secret is read and the code checked against it ...
ReadPending(d) ==
  /\ Asks(d, {"enable"}, "user")
  /\ request' = [request EXCEPT
       ![d].seen = user.pending,
       ![d].at = IF user.pending = 0 THEN "conflict"
                 ELSE IF VerifyTotp(user.pending, request[d].code) THEN "write"
                 ELSE "totp_invalid"]
  /\ UNCHANGED server

\* Mutant: the pending secret stays in the row and the active one is not set.
EnableLater(d) ==
  /\ Asks(d, {"enable"}, "write") /\ user.issued < MaxSecret
  /\ user' = [user EXCEPT !.enabled = TRUE, !.lastStep = request[d].code.step,
                          !.codes = {user.issued + 1}, !.issued = @ + 1]
  /\ request' = [request EXCEPT ![d].seen = user.issued + 1, ![d].at = "ok"]
  /\ UNCHANGED <<sessions, clock, made, uses>>

\* ... and what is pending by now becomes the secret, be it another one or none.
Enable(d) ==
  /\ Asks(d, {"enable"}, "write") /\ user.issued < MaxSecret
  /\ user' = [user EXCEPT !.secret = user.pending, !.pending = 0, !.enabled = TRUE,
                          !.lastStep = request[d].code.step,
                          !.codes = {user.issued + 1}, !.issued = @ + 1,
                          !.overtaken = user.pending # request[d].seen]
  /\ uses' = [uses EXCEPT ![request[d].code] = @ + 1]
  /\ request' = [request EXCEPT ![d].seen = user.issued + 1, ![d].at = "ok"]
  /\ UNCHANGED <<sessions, clock, made>>

Disable(d) ==
  /\ Asks(d, {"disable"}, "clear")
  /\ user' = [user EXCEPT !.secret = 0, !.pending = 0, !.enabled = FALSE, !.lastStep = None,
                          !.codes = {}]
  /\ uses' = [c \in Codes |-> IF c.kind = "app" THEN 0 ELSE uses[c]]
  /\ Answers(d, "ok")
  /\ UNCHANGED <<sessions, clock, made>>

Tick ==
  /\ clock < MaxStep /\ clock' = clock + 1
  /\ UNCHANGED <<user, sessions, made, request, uses>>

Server(d) ==
  \/ Register(d) \/ Login(d) \/ CreateSession(d) \/ Logout(d)
  \/ ReadFactor(d) \/ Consume(d) \/ RequireUser(d) \/ CheckPassword(d)
  \/ ChangePassword(d) \/ Revoke(d) \/ RevokeOthers(d)
  \/ Setup(d) \/ ReadPending(d) \/ Enable(d) \/ Disable(d)
=============================================================================
