---------------------------- MODULE AccountPages ----------------------------
(***************************************************************************)
(* The pages of the web client that sign in, confirm a code and manage the *)
(* second factor, the password and the sessions (web/src/pages/AuthPage,   *)
(* SecurityPage, lib/auth.tsx), composed with the handlers of Accounts.    *)
(*                                                                         *)
(* A device is one tab of a browser of its own.  A form that is busy       *)
(* disables its button; the panels of SecurityPage are busy one by one,    *)
(* and two of them at work are modelled as two devices, so a tab has one   *)
(* request under way beside the refresh of AuthProvider.  A page that is   *)
(* loaded anew or gets no answer gives its request up, which may go on at  *)
(* the server, unheard.                                                    *)
(***************************************************************************)
EXTENDS Accounts

CONSTANTS
  MaxMoves      \* bound: account forms, sign-outs, steps back, reloads, breaks, time steps,
                \* passwords that are not the account's

AccountPagesAssumption == MaxMoves \in Nat

VARIABLES
  tab,          \* what a device shows
  cookie,       \* its sid cookie
  app,          \* secrets in the owner's authenticator
  kept,         \* recovery codes the owner has seen
  lost,         \* recovery codes whose answer is lost
  moves

client == <<tab, cookie, app, kept, lost, moves>>
vars   == <<server, request, client>>

Idle(d) == request[d] = NoRequest

Tab == [auth : {"loading", "anon", "error", "authed"},
        me : {"idle", "authed", "anon"},
        page : {"auth", "security"},
        go : BOOLEAN,                  \* navigate when the refresh has ended
        totp : {None} \cup Passwords,  \* the code step, with the password of the form
        panel : {"unknown", "off", "setup", "codes", "on"},
        secret : 0..MaxSecret]         \* shown by the step "setup"

FirstTab == [auth |-> "loading", me |-> "anon", page |-> "auth", go |-> FALSE, totp |-> None,
             panel |-> "unknown", secret |-> 0]

Init ==
  /\ InitServer
  /\ tab = [d \in Devices |-> FirstTab]
  /\ cookie = [d \in Devices |-> None]
  /\ app = {} /\ kept = {} /\ lost = {} /\ moves = 0

Moves == moves < MaxMoves /\ moves' = moves + 1

Sends(d, r) == Idle(d) /\ request' = [request EXCEPT ![d] = r]

Answered == {"ok", "username_taken", "invalid_credentials", "totp_required", "totp_invalid",
             "unauthorized", "conflict", "not_found"}

\* AuthPage redirects a user who is signed in (unless it is submitting), SecurityPage one who
\* is not; what the other page shows starts anew.
Routed(t, submitting) ==
  LET from(page) == [t EXCEPT !.page = page, !.panel = "unknown", !.secret = 0, !.totp = None] IN
  IF t.page = "auth" /\ t.auth = "authed" /\ ~submitting THEN from("security")
  ELSE IF t.page = "security" /\ t.auth = "anon" THEN from("auth")
  ELSE t

-----------------------------------------------------------------------------
(* AuthProvider *)

\* GET /api/auth/me is answered by the cookie it is sent with ...
Refreshed(t, sid) ==
  [t EXCEPT !.me = IF t.me # "idle" THEN @ ELSE IF sid \in sessions THEN "authed" ELSE "anon"]

\* ... and shown when the answer arrives, whatever has happened since.
SetAuth(d) ==
  LET t == tab[d] shown(a) == Routed([t EXCEPT !.auth = a, !.me = "idle", !.go = FALSE,
                                        !.page = IF t.go THEN "security" ELSE @,
                                        !.totp = IF t.go THEN None ELSE @], ~Idle(d)) IN
  /\ t.me # "idle"
  /\ \/ tab' = [tab EXCEPT ![d] = shown(t.me)] /\ UNCHANGED moves
     \/ tab' = [tab EXCEPT ![d] = shown("error")] /\ Moves
  /\ UNCHANGED <<server, request, cookie, app, kept, lost>>

RetryAuth(d) ==
  /\ tab[d].auth = "error" /\ tab[d].page = "security"
  /\ tab' = [tab EXCEPT ![d] = Refreshed(@, cookie[d])]
  /\ UNCHANGED <<server, request, cookie, app, kept, lost, moves>>

-----------------------------------------------------------------------------
(* AuthPage *)

\* Bound: another password than the account's is a move, and so is to register once more.
Expected(op, p) == p = user.pw /\ op = IF user.exists THEN "login" ELSE "register"

SubmitPassword(d) ==
  /\ tab[d].page = "auth" /\ tab[d].totp = None /\ tab[d].auth # "authed" /\ ~tab[d].go
  /\ \E op \in {"login", "register"}, p \in Passwords :
       /\ Sends(d, [Request(op, cookie[d]) EXCEPT !.pw = p])
       /\ IF Expected(op, p) THEN UNCHANGED moves ELSE Moves
  /\ UNCHANGED <<server, tab, cookie, app, kept, lost>>

\* Codes the owner may type: what the authenticator shows now, or a code he kept.
Typed == {AppCode(s, clock) : s \in app}

SubmitCode(d) ==
  /\ tab[d].page = "auth" /\ tab[d].totp # None /\ ~tab[d].go
  /\ \E c \in Typed \cup {RecoveryCode(n) : n \in kept} :
       Sends(d, [Request("login", cookie[d]) EXCEPT !.pw = tab[d].totp, !.code = c])
  /\ UNCHANGED <<server, client>>

\* The link back is not disabled while a code is being checked.
Back(d) ==
  /\ Moves
  /\ tab[d].totp # None
  /\ tab' = [tab EXCEPT ![d].totp = None]
  /\ UNCHANGED <<server, request, cookie, app, kept, lost>>

LoginAnswered(d) ==
  LET r == request[d] t == tab[d] IN
  /\ r.op \in {"login", "register"} /\ r.at \in Answered
  /\ request' = [request EXCEPT ![d] = NoRequest]
  /\ cookie' = [cookie EXCEPT ![d] = IF r.at = "ok" THEN r.sid ELSE @]
  /\ tab' = [tab EXCEPT ![d] =
       IF r.at = "ok" THEN [Refreshed(t, r.sid) EXCEPT !.go = TRUE]
       ELSE IF r.at = "totp_required" /\ r.code = None THEN [t EXCEPT !.totp = r.pw]
       ELSE IF r.at = "invalid_credentials" THEN [t EXCEPT !.totp = None]
       ELSE t]
  /\ UNCHANGED <<server, app, kept, lost, moves>>

LogoutClicked(d) ==
  /\ Moves
  /\ tab[d].auth = "authed"
  /\ Sends(d, Request("logout", cookie[d]))
  /\ UNCHANGED <<server, tab, cookie, app, kept, lost>>

LogoutAnswered(d) ==
  /\ request[d].op = "logout" /\ request[d].at \in Answered
  /\ request' = [request EXCEPT ![d] = NoRequest]
  /\ cookie' = [cookie EXCEPT ![d] = None]
  /\ tab' = [tab EXCEPT ![d] = Routed([@ EXCEPT !.auth = "anon"], FALSE)]
  /\ UNCHANGED <<server, app, kept, lost, moves>>

-----------------------------------------------------------------------------
(* SecurityPage *)

OnSecurity(d) == tab[d].page = "security" /\ tab[d].auth = "authed"

\* The panel follows the status until the first step the user takes.
LoadStatus(d) ==
  /\ OnSecurity(d) /\ tab[d].panel = "unknown" /\ cookie[d] \in sessions
  /\ tab' = [tab EXCEPT ![d].panel = IF user.enabled THEN "on" ELSE "off"]
  /\ UNCHANGED <<server, request, cookie, app, kept, lost, moves>>

StartSetup(d) ==
  /\ OnSecurity(d) /\ tab[d].panel = "off"
  /\ Sends(d, Request("setup", cookie[d]))
  /\ UNCHANGED <<server, client>>

\* The owner scans the QR code; an authenticator may show codes of several secrets.
SetupAnswered(d) ==
  LET r == request[d] IN
  /\ r.op = "setup" /\ r.at \in Answered
  /\ request' = [request EXCEPT ![d] = NoRequest]
  /\ IF r.at = "ok"
       THEN /\ tab' = [tab EXCEPT ![d].panel = "setup", ![d].secret = r.seen]
            /\ app' = app \cup {r.seen}
       ELSE UNCHANGED <<tab, app>>
  /\ UNCHANGED <<server, cookie, kept, lost, moves>>

CancelSetup(d) ==
  /\ OnSecurity(d) /\ tab[d].panel = "setup" /\ Idle(d)
  /\ tab' = [tab EXCEPT ![d].panel = "off", ![d].secret = 0]
  /\ UNCHANGED <<server, request, cookie, app, kept, lost, moves>>

ConfirmSetup(d) ==
  /\ OnSecurity(d) /\ tab[d].panel = "setup"
  /\ \E c \in Typed : Sends(d, [Request("enable", cookie[d]) EXCEPT !.code = c])
  /\ UNCHANGED <<server, client>>

EnableAnswered(d) ==
  LET r == request[d] IN
  /\ r.op = "enable" /\ r.at \in Answered
  /\ request' = [request EXCEPT ![d] = NoRequest]
  /\ IF r.at = "ok"
       THEN /\ tab' = [tab EXCEPT ![d] = [Refreshed(@, cookie[d]) EXCEPT !.panel = "codes", !.secret = 0]]
            /\ kept' = kept \cup {r.seen}
       ELSE UNCHANGED <<tab, kept>>
  /\ UNCHANGED <<server, cookie, app, lost, moves>>

CodesSaved(d) ==
  /\ OnSecurity(d) /\ tab[d].panel = "codes"
  /\ tab' = [tab EXCEPT ![d].panel = "on"]
  /\ UNCHANGED <<server, request, cookie, app, kept, lost, moves>>

SubmitDisable(d) ==
  /\ OnSecurity(d) /\ tab[d].panel = "on"
  /\ \E c \in Typed, p \in Passwords :
       Sends(d, [Request("disable", cookie[d]) EXCEPT !.code = c, !.pw = p])
  /\ UNCHANGED <<server, client>>

DisableAnswered(d) ==
  LET r == request[d] IN
  /\ r.op = "disable" /\ r.at \in Answered
  /\ request' = [request EXCEPT ![d] = NoRequest]
  /\ tab' = [tab EXCEPT ![d] = IF r.at = "ok" THEN [Refreshed(@, cookie[d]) EXCEPT !.panel = "off"] ELSE @]
  /\ UNCHANGED <<server, cookie, app, kept, lost, moves>>

SubmitNewPassword(d) ==
  /\ Moves
  /\ OnSecurity(d)
  /\ \E p, q \in Passwords :
       Sends(d, [Request("password", cookie[d]) EXCEPT !.pw = p, !.new = q])
  /\ UNCHANGED <<server, tab, cookie, app, kept, lost>>

SubmitRevoke(d) ==
  /\ Moves
  /\ OnSecurity(d)
  /\ \E op \in {"revoke", "revokeOthers"} : Sends(d, Request(op, cookie[d]))
  /\ UNCHANGED <<server, tab, cookie, app, kept, lost>>

\* The list of sessions is brought up to date, or an error is shown.
FormAnswered(d) ==
  /\ request[d].op \in {"password", "revoke", "revokeOthers"} /\ request[d].at \in Answered
  /\ request' = [request EXCEPT ![d] = NoRequest]
  /\ UNCHANGED <<server, client>>

\* The recovery codes an answer under way carries.
Issued(d) ==
  IF request[d].op = "enable" /\ request[d].at = "ok" THEN {request[d].seen} ELSE {}

\* Nobody waits for a request: it does not arrive or its answer does not, or its handler goes on
\* unheard, beside what the device sends next.
GivesUp(d) ==
  \/ /\ request[d].at \in Answered \cup {"idle", "sent"}
     /\ request' = [request EXCEPT ![d] = NoRequest]
     /\ lost' = lost \cup Issued(d)
  \/ \E u \in Unheard :
       /\ request[d].at \notin Answered \cup {"idle"}
       /\ request[u].at \in Answered \cup {"idle"}
       /\ request' = [request EXCEPT ![u] = request[d], ![d] = NoRequest]
       /\ lost' = lost \cup Issued(u)

\* The connection breaks: the form shows an error.
Lost(d) ==
  /\ Moves
  /\ ~Idle(d) /\ GivesUp(d)
  /\ tab' = [tab EXCEPT ![d] = Routed(
       IF request[d].op = "logout" THEN [@ EXCEPT !.auth = "anon"] ELSE @, FALSE)]
  /\ UNCHANGED <<server, cookie, app, kept>>

\* The page is loaded anew; what it showed, the recovery codes too, is gone.
Reload(d) ==
  /\ Moves
  /\ GivesUp(d)
  /\ tab' = [tab EXCEPT ![d] = Refreshed([FirstTab EXCEPT !.page = tab[d].page, !.me = "idle"],
                                           cookie[d])]
  /\ UNCHANGED <<server, cookie, app, kept>>

ServerStep(d) == Server(d) /\ UNCHANGED client
Time == Tick /\ Moves /\ UNCHANGED <<tab, cookie, app, kept, lost>>

Browser(d) ==
  \/ SetAuth(d) \/ RetryAuth(d)
  \/ SubmitPassword(d) \/ SubmitCode(d) \/ Back(d) \/ LoginAnswered(d)
  \/ LogoutClicked(d) \/ LogoutAnswered(d) \/ LoadStatus(d) \/ StartSetup(d) \/ SetupAnswered(d)
  \/ CancelSetup(d) \/ ConfirmSetup(d) \/ EnableAnswered(d) \/ CodesSaved(d) \/ SubmitDisable(d)
  \/ DisableAnswered(d) \/ SubmitNewPassword(d) \/ SubmitRevoke(d) \/ FormAnswered(d)
  \/ Lost(d) \/ Reload(d)

Next == Time \/ (\E d \in Callers : ServerStep(d)) \/ (\E d \in Devices : Browser(d))

Spec == Init /\ [][Next]_vars

-----------------------------------------------------------------------------
(* Properties *)

TypeOK ==
  /\ user \in UserRow /\ sessions \subseteq Sessions
  /\ clock \in 0..MaxStep /\ made \in 0..MaxSecret
  /\ uses \in [Codes -> Nat]
  /\ tab \in [Devices -> Tab] /\ cookie \in [Devices -> Sessions \cup {None}]
  /\ app \subseteq 1..MaxSecret /\ kept \subseteq 1..MaxSecret /\ lost \subseteq 1..MaxSecret

\* "Each time step usable once": however the requests of several devices interleave, a recovery
\* code is accepted once, and so is a code of the authenticator while its secret is in force
\* (twofactor.ts:21-29).
CodesOnce ==
  \A c \in Codes : c.kind = "recovery" \/ c.secret = user.secret => uses[c] <= 1

\* An account that asks for a second factor asks for one its owner holds, also when setups,
\* confirmations and switching off on several devices cross, and when answers are lost: the
\* secret of the row is one he scanned, and of the recovery codes he has seen all whose answer
\* was not lost.  Not so when the pending secret was written between the read of a confirmation
\* (account.ts:95) and its UPDATE (:101), which then installs another secret, or none.
OwnerCanSignIn ==
  user.enabled =>
    /\ user.secret \in app \/ user.overtaken
    /\ user.codes \subseteq kept \cup lost \cup UNION {Issued(d) : d \in Callers}
=============================================================================
