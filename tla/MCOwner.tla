------------------------------ MODULE MCOwner ------------------------------
(***************************************************************************)
(* For TLC, what the owner of a channel works with: the account and, in    *)
(* the studio, the broadcast from the browser, the overlay and the stream  *)
(* information.  They share nothing, and in a behaviour one of them is at  *)
(* work.                                                                   *)
(***************************************************************************)
EXTENDS StreamInfo, TLC

CONSTANTS
  d1, d2, u1, s1, s2, p1, p2,                           \* Accounts
  Devices, Unheard, Sessions, Passwords, None, MaxSecret, MaxStep, MaxMoves,
  MaxStreams, MaxStarts,                                \* BrowserBroadcast
  Overlays, MaxChanges, MaxQueue, MaxExtras             \* Overlay

VARIABLES
  at,                                                   \* which of them is at work
  user, sessions, clock, made, request, uses,           \* Accounts
  tab, cookie, app, kept, lost, moves,
  ui, capture, whip,                                    \* BrowserBroadcast
  air, bus, hub, tasks, overlay, changes, extras, raced \* Overlay

aVars == <<user, sessions, clock, made, request, uses, tab, cookie, app, kept, lost, moves>>
bVars == <<ui, capture, whip>>
oVars == <<air, bus, hub, tasks, overlay, changes, extras, raced>>

A == INSTANCE AccountPages
B == INSTANCE BrowserBroadcast
O == INSTANCE Overlay WITH Pages <- Overlays, page <- overlay

ASSUME OwnerAssumption ==
  /\ A!AccountsAssumption /\ A!AccountPagesAssumption /\ B!BroadcastAssumption
  /\ O!OverlayAssumption /\ InfoAssumption

Symmetry ==
  Permutations({d1, d2}) \cup Permutations({s1, s2}) \cup Permutations({p1, p2})

\* Where each part begins, the others rest; the overlay begins off the air or on it.  The values of
\* a setting are alike, so the stream information begins with any of them.
OwnerInit ==
  /\ A!Init /\ B!Init /\ O!Init /\ Init
  /\ at \in {"account", "panel", "overlay", "info"}
  /\ at # "overlay" => ~air.live
  /\ db = CHOOSE c \in Settings : TRUE

OwnerNext ==
  \/ at = "account" /\ A!Next /\ UNCHANGED <<at, bVars, oVars, vars>>
  \/ at = "panel"   /\ B!Next /\ UNCHANGED <<at, aVars, oVars, vars>>
  \/ at = "overlay" /\ O!Next /\ UNCHANGED <<at, aVars, bVars, vars>>
  \/ at = "info"    /\ Next   /\ UNCHANGED <<at, aVars, bVars, oVars>>

OwnerSpec == OwnerInit /\ [][OwnerNext]_<<at, aVars, bVars, oVars, vars>>

-----------------------------------------------------------------------------
(* The properties of the parts, as their modules state them: a part that rests stays where it holds *)

\* AccountPages: no code is accepted twice.
CodesOnce == at = "account" => A!CodesOnce

\* AccountPages: a factor that is asked for is one the owner holds.
OwnerCanSignIn == at = "account" => A!OwnerCanSignIn

\* BrowserBroadcast: the refs hold everything there is to end.
NothingLeaks == at = "panel" => B!NothingLeaks

\* BrowserBroadcast: the panel shows what happens.
PhaseIsHonest == at = "panel" => B!PhaseIsHonest

\* Overlay: events keep every overlay at the channel's state.
CounterIsCurrent == at = "overlay" => O!CounterIsCurrent
=============================================================================
