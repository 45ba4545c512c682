----------------------------- MODULE StreamInfo -----------------------------
(***************************************************************************)
(* The stream information in the studio: the form                          *)
(* (web/src/pages/dashboard/StreamInfoForm.tsx), the page that polls the   *)
(* channel for it (DashboardPage.tsx, lib/hooks.ts) and the routes that    *)
(* read and patch the channel (server/src/api/routes/dashboard.ts).        *)
(*                                                                         *)
(* Of the settings there is one of each of the two queries an answer is    *)
(* put together from.  Trimming is left out.                               *)
(***************************************************************************)
EXTENDS Naturals

CONSTANTS
  Values,       \* of a setting
  MaxSaves      \* bound: saves, here and in other tabs

InfoAssumption == Values # {} /\ MaxSaves \in Nat

VARIABLES
  db,           \* the row of the channel
  form,         \* the channel the page holds, and its form
  asked,        \* the requests under way that bring the channel
  saves         \* saves so far

vars == <<db, form, asked, saves>>

Fields   == {"title", "mode"}
Settings == [Fields -> Values]
Patches  == UNION {[S -> Values] : S \in SUBSET Fields}

\* History: `typed` is what the user has set since the form last took over the channel; `crossed`
\* is what was written by others, or while an answer was on its way, since the form last showed
\* what is stored with nothing under way.
Form == [chan : Settings, base : Settings, vals : Settings,
         typed : SUBSET Fields, crossed : SUBSET Fields]

\* The page polls, the form is saved, and so is the profile (which sets nothing of the form).
Kinds    == {"poll", "profile", "save"}
\* `set` is what it has yet to write.
Requests == [step : {"sent", "served", "half", "read"}, set : Patches, got : Settings]

Init ==
  /\ db \in Settings
  /\ form = [chan |-> db, base |-> db, vals |-> db, typed |-> {}, crossed |-> {}]
  /\ asked = [k \in {} |-> db] /\ saves = 0

UnderWay(k) == k \in DOMAIN asked
At(k, step) == UnderWay(k) /\ asked[k].step = step
Nothing == [x \in {} |-> db[x]]
\* What an answer is filled into.
Empty == [x \in Fields |-> CHOOSE v \in Values : TRUE]
Sent(k, set) ==
  [j \in DOMAIN asked \cup {k} |->
     IF j = k THEN [step |-> IF k = "save" THEN "sent" ELSE "served", set |-> set, got |-> Empty]
     ELSE asked[j]]
Over(k) == [j \in DOMAIN asked \ {k} |-> asked[j]]

-----------------------------------------------------------------------------
(* The form *)

Changed == {x \in Fields : form.vals[x] # form.base[x]}
Dirty   == Changed # {}

Type(x, v) ==
  /\ form.vals[x] # v
  /\ form' = [form EXCEPT !.vals[x] = v, !.typed = @ \cup {x}]
  /\ UNCHANGED <<db, asked, saves>>

\* "Follow server-side changes (other tab, etc.) unless the user is editing": the effect runs when
\* the channel has changed; `dirty` is that of the rendering before.
Followed(c) ==
  IF c = form.chan THEN form
  ELSE IF Dirty THEN [form EXCEPT !.chan = c, !.base = c]
  ELSE [form EXCEPT !.chan = c, !.base = c, !.vals = c, !.typed = {}]

\* The answer of k is the last one under way.
Takes(k, f) ==
  form' = [f EXCEPT !.crossed = IF f.base = db /\ f.vals = db /\ DOMAIN asked = {k} THEN {} ELSE @]

Submit ==
  /\ Dirty /\ ~UnderWay("save") /\ saves < MaxSaves
  /\ asked' = Sent("save", [x \in Changed |-> form.vals[x]])
  /\ saves' = saves + 1
  /\ UNCHANGED <<db, form>>

\* Mutant: what is in the form stays when it has been saved.
SavedBase(c) == [form EXCEPT !.chan = c, !.base = c, !.typed = {}]

\* setBaseline, setValues and onSaved in one go, also over what was typed meanwhile.
Saved(c) == [form EXCEPT !.chan = c, !.base = c, !.vals = c, !.typed = {}]

SaveAnswered ==
  /\ At("save", "read") /\ Takes("save", Saved(asked["save"].got)) /\ asked' = Over("save")
  /\ UNCHANGED <<db, saves>>

-----------------------------------------------------------------------------
(* The routes *)

Patched(set) == [x \in Fields |-> IF x \in DOMAIN set THEN set[x] ELSE db[x]]

Crosses(S) == form' = [form EXCEPT !.crossed = @ \cup S]

\* It crosses the answers on their way; the form may have forgotten what it has sent.
Writes(set) ==
  /\ db' = Patched(set)
  /\ Crosses(IF UnderWay("poll") \/ UnderWay("profile") THEN DOMAIN set ELSE DOMAIN set \ form.typed)

Store ==
  /\ At("save", "sent") /\ Writes(asked["save"].set)
  /\ asked' = [asked EXCEPT !["save"].step = "served", !["save"].set = Nothing]
  /\ UNCHANGED saves

\* The request fails, before it was served or after; the form stays as it is.
SaveFails ==
  /\ UnderWay("save") /\ asked' = Over("save")
  /\ \/ UNCHANGED <<db, form>>
     \/ At("save", "sent") /\ Writes(asked["save"].set)
  /\ UNCHANGED saves

\* Another tab saves its form, or a save that was lost is served at last.
Elsewhere ==
  /\ saves < MaxSaves /\ saves' = saves + 1
  /\ db' \in Settings /\ Crosses({x \in Fields : db'[x] # db[x]})
  /\ UNCHANGED asked

\* channelSettings: two queries, one after the other.
Reads(k) ==
  /\ \/ /\ At(k, "served")
        /\ asked' = [asked EXCEPT ![k].step = "half", ![k].got.title = db.title]
     \/ /\ At(k, "half")
        /\ asked' = [asked EXCEPT ![k].step = "read", ![k].got.mode = db.mode]
  /\ UNCHANGED <<db, form, saves>>

-----------------------------------------------------------------------------
(* The page *)

Ask(k) ==
  /\ ~UnderWay(k) /\ asked' = Sent(k, Nothing)
  /\ UNCHANGED <<db, form, saves>>

\* setState of the poll, or patchChannel.
Arrives(k) ==
  /\ At(k, "read") /\ Takes(k, Followed(asked[k].got)) /\ asked' = Over(k)
  /\ UNCHANGED <<db, saves>>

\* It fails, or the tab is hidden, or the page asks anew.
Dropped(k) ==
  /\ UnderWay(k) /\ asked' = Over(k)
  /\ UNCHANGED <<db, form, saves>>

Next ==
  \/ \E x \in Fields, v \in Values : Type(x, v)
  \/ Submit \/ Store \/ SaveAnswered \/ SaveFails \/ Elsewhere
  \/ \E k \in Kinds : Reads(k)
  \/ \E k \in {"poll", "profile"} : Ask(k) \/ Arrives(k) \/ Dropped(k)

Spec == Init /\ [][Next]_vars

-----------------------------------------------------------------------------
(* Properties *)

TypeOK ==
  /\ db \in Settings /\ form \in Form /\ DOMAIN asked \subseteq Kinds
  /\ \A k \in DOMAIN asked : asked[k] \in Requests
  /\ saves \in 0..MaxSaves

\* A save carries what the user has set and nothing else (StreamInfoForm.tsx:79-86, 105-117): in
\* whatever order the answers of polls, of the profile and of saves arrive or fail, a setting that
\* nobody has touched here is not about to be written back.  Not so for a setting that another tab
\* has written, or a save of this form while an answer was on its way, until the form has shown
\* what is stored with nothing under way: the form takes it for changed if the news reaches it
\* while the user is editing.
SavesWhatWasTyped == Changed \subseteq form.typed \cup form.crossed
=============================================================================
