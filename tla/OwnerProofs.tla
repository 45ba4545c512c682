----------------------------- MODULE OwnerProofs -----------------------------
(***************************************************************************)
(* Proofs about what the owner of a channel works with, for any number of  *)
(* devices, sessions, secrets, streams, overlays and saves: the stream     *)
(* information, the account and its second factor, the broadcast from the  *)
(* browser and the overlay, in this order.  Each has an invariant of its   *)
(* own, shown of the part's own specification; at the end all of them are  *)
(* stated of OwnerSpec, the specification the runs check, where a part is  *)
(* at work and the others rest.                                            *)
(***************************************************************************)
EXTENDS MCOwner, Sequences, TLAPS

-----------------------------------------------------------------------------
(* The stream information: a save carries what the user has set and nothing else *)

TypeInv ==
  /\ db \in Settings /\ form \in Form /\ DOMAIN asked \subseteq Kinds
  /\ \A k \in DOMAIN asked : asked[k] \in Requests

\* What nobody has touched, and nothing has crossed, is what is stored, and so it is in the form.
Untouched ==
  \A x \in Fields : x \notin form.typed \cup form.crossed => form.vals[x] = db[x] /\ form.base[x] = db[x]

\* An answer that is put together has what is stored.
Answers ==
  \A k \in DOMAIN asked :
    /\ asked[k].step = "half" /\ "title" \notin form.crossed => asked[k].got["title"] = db["title"]
    /\ asked[k].step = "read" => \A x \in Fields \ form.crossed : asked[k].got[x] = db[x]

Good == Untouched /\ Answers

IInv == TypeInv /\ Good

-----------------------------------------------------------------------------
(* Types *)

LEMMA FormFields ==
  ASSUME NEW f \in Form
  PROVE  /\ f.chan \in Settings /\ f.base \in Settings /\ f.vals \in Settings
         /\ f.typed \in SUBSET Fields /\ f.crossed \in SUBSET Fields
BY DEF Form

LEMMA FollowedType ==
  ASSUME form \in Form, NEW c \in Settings
  PROVE  Followed(c) \in Form /\ Saved(c) \in Form
BY DEF Form, Followed, Saved

LEMMA TakesType ==
  ASSUME form \in Form, NEW f \in Form, NEW k, Takes(k, f)
  PROVE  /\ form' \in Form
         /\ form'.chan = f.chan /\ form'.base = f.base /\ form'.vals = f.vals /\ form'.typed = f.typed
         /\ \/ form'.crossed = f.crossed
            \/ form'.crossed = {} /\ f.base = db /\ f.vals = db /\ DOMAIN asked = {k}
BY DEF Form, Takes

LEMMA CrossesType ==
  ASSUME form \in Form, NEW S \in SUBSET Fields, Crosses(S)
  PROVE  /\ form' \in Form /\ form'.crossed = form.crossed \cup S
         /\ form'.chan = form.chan /\ form'.base = form.base /\ form'.vals = form.vals
         /\ form'.typed = form.typed
BY DEF Form, Crosses

LEMMA WritesType ==
  ASSUME form \in Form, NEW set \in Patches, Writes(set)
  PROVE  /\ form' \in Form /\ form.crossed \subseteq form'.crossed
         /\ form'.chan = form.chan /\ form'.base = form.base /\ form'.vals = form.vals
         /\ form'.typed = form.typed
         /\ DOMAIN set \subseteq form'.typed \cup form'.crossed
         /\ UnderWay("poll") \/ UnderWay("profile") => DOMAIN set \subseteq form'.crossed
<1> DEFINE S == IF UnderWay("poll") \/ UnderWay("profile") THEN DOMAIN set ELSE DOMAIN set \ form.typed
<1>1. S \in SUBSET Fields
  BY DEF Patches
<1>2. Crosses(S)
  BY DEF Writes
<1>3. form' \in Form /\ form'.crossed = form.crossed \cup S
  BY <1>1, <1>2, CrossesType
<1> QED
  BY <1>1, <1>2, <1>3, CrossesType

LEMMA PatchedType ==
  ASSUME db \in Settings, NEW set \in Patches
  PROVE  Patched(set) \in Settings
BY DEF Patched, Patches, Settings

\* What a save sets, and what a poll does.
LEMMA ChangedPatch ==
  ASSUME form \in Form
  PROVE  [x \in Changed |-> form.vals[x]] \in Patches
<1>1. Changed \in SUBSET Fields
  BY DEF Changed
<1>2. [x \in Changed |-> form.vals[x]] \in [Changed -> Values]
  BY <1>1, FormFields DEF Settings
<1> QED
  BY <1>1, <1>2 DEF Patches

LEMMA EmptyPatch == Nothing \in Patches
<1>1. {} \in SUBSET Fields /\ Nothing \in [{} -> Values]
  BY DEF Nothing
<1> QED
  BY <1>1 DEF Patches

\* A request is sent, and one is over.
LEMMA SentType ==
  ASSUME TypeInv, NEW k \in Kinds, NEW set \in Patches, asked' = Sent(k, set)
  PROVE  /\ DOMAIN asked' = DOMAIN asked \cup {k}
         /\ asked'[k].step = (IF k = "save" THEN "sent" ELSE "served") /\ asked'[k].set = set
         /\ \A j \in DOMAIN asked : j # k => asked'[j] = asked[j]
         /\ \A j \in DOMAIN asked' : asked'[j] \in Requests
<1>1. Empty \in Settings
  <2>1. db["title"] \in Values
    BY DEF TypeInv, Settings, Fields
  <2>2. (CHOOSE v \in Values : TRUE) \in Values
    BY <2>1
  <2> QED
    BY <2>2 DEF Empty, Settings
<1> QED
  BY <1>1, FormFields DEF Sent, TypeInv, Requests

LEMMA OverType ==
  ASSUME TypeInv, NEW k \in Kinds, asked' = Over(k)
  PROVE  /\ DOMAIN asked' = DOMAIN asked \ {k}
         /\ \A j \in DOMAIN asked' : asked'[j] = asked[j] /\ asked'[j] \in Requests
BY DEF Over, TypeInv

LEMMA StoreType ==
  ASSUME TypeInv, Store
  PROVE  /\ UnderWay("save") /\ DOMAIN asked' = DOMAIN asked /\ asked'["save"].step = "served"
         /\ \A j \in DOMAIN asked : j # "save" => asked'[j] = asked[j]
         /\ \A j \in DOMAIN asked' : asked'[j] \in Requests
<1>1. UnderWay("save") /\ asked["save"] \in Requests
  BY DEF TypeInv, Store, At, UnderWay
<1>2. asked' = [asked EXCEPT !["save"] = [asked["save"] EXCEPT !.step = "served", !.set = Nothing]]
  BY DEF Store
<1>3. [asked["save"] EXCEPT !.step = "served", !.set = Nothing] \in Requests
  BY <1>1, EmptyPatch DEF Requests
<1> QED
  BY <1>1, <1>2, <1>3 DEF TypeInv, UnderWay, Requests

\* An answer takes over one of the two queries.
LEMMA ReadsType ==
  ASSUME TypeInv, NEW k \in Kinds, Reads(k)
  PROVE  /\ k \in DOMAIN asked /\ DOMAIN asked' = DOMAIN asked
         /\ \A j \in DOMAIN asked : j # k => asked'[j] = asked[j]
         /\ asked'[k] \in Requests
         /\ \/ asked[k].step = "served" /\ asked'[k].step = "half" /\ asked'[k].got["title"] = db["title"]
            \/ /\ asked[k].step = "half" /\ asked'[k].step = "read"
               /\ asked'[k].got["mode"] = db["mode"]
               /\ asked'[k].got["title"] = asked[k].got["title"]
<1> USE DEF TypeInv
<1>1. k \in DOMAIN asked /\ asked[k] \in Requests /\ asked[k].got \in Settings /\ db \in Settings
  BY DEF Reads, At, UnderWay, Requests
<1>2. CASE At(k, "served") /\ asked' = [asked EXCEPT ![k].step = "half", ![k].got.title = db.title]
  <2> DEFINE q == [[asked[k] EXCEPT !.step = "half"] EXCEPT !.got = [@ EXCEPT !["title"] = db["title"]]]
  <2>1. asked' = [asked EXCEPT ![k] = q]
    BY <1>1, <1>2
  <2>2. q \in Requests /\ q.step = "half" /\ q.got["title"] = db["title"]
    BY <1>1 DEF Requests, Settings, Fields
  <2> HIDE DEF q
  <2> QED
    BY <1>1, <1>2, <2>1, <2>2 DEF At
<1>3. CASE At(k, "half") /\ asked' = [asked EXCEPT ![k].step = "read", ![k].got.mode = db.mode]
  <2> DEFINE q == [[asked[k] EXCEPT !.step = "read"] EXCEPT !.got = [@ EXCEPT !["mode"] = db["mode"]]]
  <2>1. asked' = [asked EXCEPT ![k] = q]
    BY <1>1, <1>3
  <2>2. /\ q \in Requests /\ q.step = "read" /\ q.got["mode"] = db["mode"]
        /\ q.got["title"] = asked[k].got["title"]
    BY <1>1 DEF Requests, Settings, Fields
  <2> HIDE DEF q
  <2> QED
    BY <1>1, <1>3, <2>1, <2>2 DEF At
<1> QED
  BY <1>2, <1>3 DEF Reads

LEMMA NextTypes == TypeInv /\ [Next]_vars => TypeInv'
<1> SUFFICES ASSUME TypeInv, [Next]_vars PROVE TypeInv'
  OBVIOUS
<1>1. form \in Form /\ db \in Settings
  BY DEF TypeInv
<1>2. ASSUME NEW x \in Fields, NEW v \in Values, Type(x, v) PROVE TypeInv'
  <2>1. form' \in Form
    BY <1>1, <1>2 DEF Type, Form, Settings
  <2> QED
    BY <1>2, <2>1 DEF Type, TypeInv
<1>3. CASE Submit
  BY <1>1, <1>3, ChangedPatch, SentType DEF Submit, TypeInv, Kinds
<1>4. CASE Store
  <2>1. asked["save"].set \in Patches
    BY <1>4 DEF Store, At, UnderWay, TypeInv, Requests
  <2> QED
    BY <1>1, <1>4, <2>1, StoreType, PatchedType, WritesType DEF Store, Writes, TypeInv
<1>5. CASE SaveAnswered
  <2>1. asked["save"].got \in Settings
    BY <1>5 DEF SaveAnswered, At, UnderWay, TypeInv, Requests
  <2> QED
    BY <1>1, <1>5, <2>1, OverType, FollowedType, TakesType DEF SaveAnswered, TypeInv, Kinds
<1>6. CASE SaveFails
  <2>1. asked["save"].set \in Patches
    BY <1>6 DEF SaveFails, UnderWay, TypeInv, Requests
  <2>2. db' \in Settings /\ form' \in Form
    BY <1>1, <1>6, <2>1, PatchedType, WritesType DEF SaveFails, Writes
  <2> QED
    BY <1>6, <2>2, OverType DEF SaveFails, TypeInv, Kinds
<1>7. CASE Elsewhere
  <2>1. {x \in Fields : db'[x] # db[x]} \in SUBSET Fields
    OBVIOUS
  <2> QED
    BY <1>1, <1>7, <2>1, CrossesType DEF Elsewhere, TypeInv
<1>8. ASSUME NEW k \in Kinds, Reads(k) PROVE TypeInv'
  BY <1>8, ReadsType DEF Reads, TypeInv
<1>9. ASSUME NEW k \in {"poll", "profile"}, Ask(k) \/ Arrives(k) \/ Dropped(k) PROVE TypeInv'
  <2>1. k \in Kinds
    BY DEF Kinds
  <2>2. CASE Ask(k)
    BY <2>1, <2>2, EmptyPatch, SentType DEF Ask, TypeInv
  <2>3. CASE Arrives(k)
    <3>1. asked[k].got \in Settings
      BY <2>3 DEF Arrives, At, UnderWay, TypeInv, Requests
    <3> QED
      BY <1>1, <2>1, <2>3, <3>1, OverType, FollowedType, TakesType DEF Arrives, TypeInv
  <2>4. CASE Dropped(k)
    BY <2>1, <2>4, OverType DEF Dropped, TypeInv
  <2> QED
    BY <1>9, <2>2, <2>3, <2>4
<1>10. CASE UNCHANGED vars
  BY <1>10 DEF vars, TypeInv
<1> QED
  BY <1>2, <1>3, <1>4, <1>5, <1>6, <1>7, <1>8, <1>9, <1>10 DEF Next

-----------------------------------------------------------------------------
(* The steps *)

\* A step that keeps the row and the form, when a request is given up.
LEMMA OverGood ==
  ASSUME TypeInv, Good, NEW k \in Kinds, asked' = Over(k), db' = db, form' = form
  PROVE  Good'
<1>1. Untouched'
  BY DEF Good, Untouched
<1>2. \A j \in DOMAIN asked' : j \in DOMAIN asked /\ asked'[j] = asked[j]
  BY OverType
<1>3. Answers'
  BY <1>2 DEF Good, Answers
<1> QED
  BY <1>1, <1>3 DEF Good

LEMMA SubmitGood ==
  ASSUME TypeInv, Good, Submit
  PROVE  Good'
<1> DEFINE set == [x \in Changed |-> form.vals[x]]
<1>1. asked' = Sent("save", set) /\ db' = db /\ form' = form /\ ~UnderWay("save")
  BY DEF Submit
<1>2. set \in Patches
  BY ChangedPatch DEF TypeInv
<1> HIDE DEF set
<1>3. /\ asked'["save"].step = "sent" /\ DOMAIN asked' = DOMAIN asked \cup {"save"}
      /\ \A j \in DOMAIN asked : j # "save" => asked'[j] = asked[j]
  BY <1>1, <1>2, SentType DEF Kinds
<1>4. Untouched'
  BY <1>1 DEF Good, Untouched
<1>5. Answers'
  BY <1>1, <1>3 DEF Good, Answers
<1> QED
  BY <1>4, <1>5 DEF Good

\* A save writes what was touched, or what counts as crossed.
LEMMA WritesGood ==
  ASSUME TypeInv, Good, At("save", "sent"), Writes(asked["save"].set),
         DOMAIN asked' \subseteq DOMAIN asked,
         \A k \in DOMAIN asked' : IF k = "save" THEN asked'[k].step = "served" ELSE asked'[k] = asked[k]
  PROVE  Good'
<1> DEFINE set == asked["save"].set
<1>0. set \in Patches /\ form \in Form /\ db' = Patched(set)
  BY DEF At, UnderWay, TypeInv, Requests, Writes
<1>1. /\ form.crossed \subseteq form'.crossed
      /\ form'.base = form.base /\ form'.vals = form.vals /\ form'.typed = form.typed
      /\ DOMAIN set \subseteq form'.typed \cup form'.crossed
      /\ UnderWay("poll") \/ UnderWay("profile") => DOMAIN set \subseteq form'.crossed
  BY <1>0, WritesType
<1>2. \A x \in Fields : x \notin DOMAIN set => db'[x] = db[x]
  BY <1>0 DEF Patched
<1> HIDE DEF set
<1>3. Untouched'
  BY <1>1, <1>2 DEF Good, Untouched
<1>4. ASSUME NEW k \in DOMAIN asked', k # "save"
      PROVE  asked'[k] = asked[k] /\ k \in DOMAIN asked /\ DOMAIN set \subseteq form'.crossed
  BY <1>1, <1>4 DEF TypeInv, Kinds, UnderWay
<1>5. Answers'
  BY <1>1, <1>2, <1>4 DEF Good, Answers, Fields
<1> QED
  BY <1>3, <1>5 DEF Good

\* Another tab has written what counts as crossed.
LEMMA ElsewhereGood ==
  ASSUME TypeInv, Good, Elsewhere
  PROVE  Good'
<1> DEFINE S == {x \in Fields : db'[x] # db[x]}
<1>1. /\ form'.crossed = form.crossed \cup S
      /\ form'.base = form.base /\ form'.vals = form.vals /\ form'.typed = form.typed
  BY CrossesType DEF Elsewhere, TypeInv
<1>2. asked' = asked /\ \A x \in Fields : x \notin form'.crossed => db'[x] = db[x] /\ x \notin form.crossed
  BY <1>1 DEF Elsewhere
<1>3. Untouched'
  BY <1>1, <1>2 DEF Good, Untouched
<1>4. Answers'
  BY <1>2 DEF Good, Answers, Fields
<1> QED
  BY <1>3, <1>4 DEF Good

LEMMA ReadsGood ==
  ASSUME TypeInv, Good, NEW k \in Kinds, Reads(k)
  PROVE  Good'
<1>1. db' = db /\ form' = form
  BY DEF Reads
<1>2. Untouched'
  BY <1>1 DEF Good, Untouched
<1>3. Answers'
  <2>1. asked'[k].step = "read" => \A x \in Fields \ form.crossed : asked'[k].got[x] = db[x]
    BY ReadsType DEF Good, Answers, Fields
  <2>2. asked'[k].step = "half" => asked'[k].got["title"] = db["title"]
    BY ReadsType
  <2> QED
    BY <1>1, <2>1, <2>2, ReadsType DEF Good, Answers
<1> QED
  BY <1>2, <1>3 DEF Good

LEMMA AskGood ==
  ASSUME TypeInv, Good, NEW k \in {"poll", "profile"}, Ask(k)
  PROVE  Good'
<1>1. k \in Kinds
  BY DEF Kinds
<1>2. /\ DOMAIN asked' = DOMAIN asked \cup {k} /\ asked'[k].step = "served"
      /\ \A j \in DOMAIN asked : j # k => asked'[j] = asked[j]
  BY <1>1, EmptyPatch, SentType DEF Ask
<1>3. db' = db /\ form' = form
  BY DEF Ask
<1>4. Untouched'
  BY <1>3 DEF Good, Untouched
<1>5. Answers'
  BY <1>2, <1>3 DEF Good, Answers
<1> QED
  BY <1>4, <1>5 DEF Good

\* The form takes over an answer: what nothing has crossed is as it is stored, and when all of it is
\* and nothing is under way, what has crossed is over.
LEMMA TakesGood ==
  ASSUME TypeInv, Good, NEW k \in Kinds, NEW f \in Form, Takes(k, f), asked' = Over(k), db' = db,
         f.crossed = form.crossed,
         \A x \in Fields : x \notin f.typed \cup f.crossed => f.vals[x] = db[x] /\ f.base[x] = db[x]
  PROVE  Good'
<1>1. /\ form'.base = f.base /\ form'.vals = f.vals /\ form'.typed = f.typed
      /\ \/ form'.crossed = f.crossed
         \/ form'.crossed = {} /\ f.base = db /\ f.vals = db /\ DOMAIN asked = {k}
  BY TakesType DEF TypeInv
<1>2. DOMAIN asked' = DOMAIN asked \ {k} /\ \A j \in DOMAIN asked' : asked'[j] = asked[j]
  BY OverType
<1>3. Untouched'
  BY <1>1 DEF Untouched
<1>4. Answers'
  BY <1>1, <1>2 DEF Good, Answers
<1> QED
  BY <1>3, <1>4 DEF Good

LEMMA ArrivesGood ==
  ASSUME TypeInv, Good, NEW k \in {"poll", "profile"}, Arrives(k)
  PROVE  Good'
<1> DEFINE c == asked[k].got
<1>1. /\ k \in Kinds /\ At(k, "read") /\ Takes(k, Followed(c)) /\ asked' = Over(k) /\ db' = db
      /\ c \in Settings /\ form \in Form
  BY DEF Arrives, Kinds, At, UnderWay, TypeInv, Requests
<1>2. \A x \in Fields \ form.crossed : c[x] = db[x]
  BY <1>1 DEF Good, Answers, At, UnderWay
<1> HIDE DEF c
<1>3. Followed(c) \in Form
  BY <1>1, FollowedType
<1>4. /\ Followed(c).crossed = form.crossed
      /\ \A x \in Fields : x \notin Followed(c).typed \cup Followed(c).crossed =>
           Followed(c).vals[x] = db[x] /\ Followed(c).base[x] = db[x]
  <2>1. CASE c = form.chan
    BY <2>1 DEF Followed, Good, Untouched
  <2>2. CASE c # form.chan /\ Dirty
    <3>1. /\ Followed(c).crossed = form.crossed /\ Followed(c).typed = form.typed
          /\ Followed(c).vals = form.vals /\ Followed(c).base = c
      BY <1>1, <2>2 DEF Followed, Form
    <3> QED
      BY <1>2, <3>1 DEF Good, Untouched
  <2>3. CASE c # form.chan /\ ~Dirty
    <3>1. Followed(c).crossed = form.crossed /\ Followed(c).vals = c /\ Followed(c).base = c
      BY <1>1, <2>3 DEF Followed, Form
    <3> QED
      BY <1>2, <3>1
  <2> QED
    BY <2>1, <2>2, <2>3
<1> QED
  BY <1>1, <1>3, <1>4, TakesGood

LEMMA SaveAnsweredGood ==
  ASSUME TypeInv, Good, SaveAnswered
  PROVE  Good'
<1> DEFINE c == asked["save"].got
<1>1. /\ "save" \in Kinds /\ At("save", "read") /\ Takes("save", Saved(c)) /\ asked' = Over("save")
      /\ db' = db /\ c \in Settings /\ form \in Form
  BY DEF SaveAnswered, Kinds, At, UnderWay, TypeInv, Requests
<1>2. \A x \in Fields \ form.crossed : c[x] = db[x]
  BY <1>1 DEF Good, Answers, At, UnderWay
<1> HIDE DEF c
<1>3. /\ Saved(c) \in Form /\ Saved(c).crossed = form.crossed
      /\ Saved(c).vals = c /\ Saved(c).base = c
  BY <1>1, FollowedType DEF Saved, Form
<1> QED
  BY <1>1, <1>2, <1>3, TakesGood

LEMMA TypeGood ==
  ASSUME TypeInv, Good, NEW x \in Fields, NEW v \in Values, Type(x, v)
  PROVE  Good'
<1>1. /\ form'.base = form.base /\ form'.typed = form.typed \cup {x} /\ form'.crossed = form.crossed
      /\ \A y \in Fields : y # x => form'.vals[y] = form.vals[y]
      /\ UNCHANGED <<db, asked>>
  BY DEF Type, TypeInv, Form, Settings
<1>2. Untouched'
  BY <1>1 DEF Good, Untouched
<1> QED
  BY <1>1, <1>2 DEF Good, Answers

-----------------------------------------------------------------------------
(* The invariant is inductive *)

LEMMA InitIInv == Init => IInv
<1> SUFFICES ASSUME Init PROVE IInv
  OBVIOUS
<1>1. DOMAIN asked = {} /\ db \in Settings
  BY DEF Init
<1>2. form = [chan |-> db, base |-> db, vals |-> db, typed |-> {}, crossed |-> {}]
  BY DEF Init
<1>3. TypeInv
  BY <1>1, <1>2 DEF TypeInv, Form
<1> QED
  BY <1>1, <1>2, <1>3 DEF IInv, Good, Untouched, Answers

LEMMA NextIInv == IInv /\ [Next]_vars => IInv'
<1> SUFFICES ASSUME TypeInv, Good, [Next]_vars PROVE Good'
  BY NextTypes DEF IInv
<1>1. CASE Store
  <2>1. DOMAIN asked' \subseteq DOMAIN asked
    BY <1>1, StoreType
  <2>2. \A k \in DOMAIN asked' : IF k = "save" THEN asked'[k].step = "served" ELSE asked'[k] = asked[k]
    BY <1>1, StoreType
  <2> QED
    BY <1>1, <2>1, <2>2, WritesGood DEF Store
<1>2. CASE SaveFails
  <2>1. asked' = Over("save") /\ "save" \in Kinds
    BY <1>2 DEF SaveFails, Kinds
  <2>2. CASE UNCHANGED <<db, form>>
    BY <2>1, <2>2, OverGood
  <2>3. CASE At("save", "sent") /\ Writes(asked["save"].set)
    <3>1. DOMAIN asked' = DOMAIN asked \ {"save"}
      BY <2>1, OverType
    <3>2. \A k \in DOMAIN asked' : k # "save" /\ asked'[k] = asked[k]
      BY <2>1, <3>1, OverType
    <3> QED
      BY <2>3, <3>1, <3>2, WritesGood
  <2> QED
    BY <1>2, <2>2, <2>3 DEF SaveFails
<1>3. ASSUME NEW k \in {"poll", "profile"}, Dropped(k) PROVE Good'
  BY <1>3, OverGood DEF Dropped, Kinds
<1>4. CASE UNCHANGED vars
  BY <1>4 DEF vars, Good, Untouched, Answers
<1> QED
  BY <1>1, <1>2, <1>3, <1>4, TypeGood, SubmitGood, SaveAnsweredGood, ElsewhereGood, ReadsGood,
     AskGood, ArrivesGood DEF Next

LEMMA IInvSaves == IInv => SavesWhatWasTyped
BY DEF IInv, Good, Untouched, SavesWhatWasTyped, Changed

\* In whatever order the answers of polls, of the profile and of saves arrive or fail, a setting that
\* nobody has touched here is not about to be written back (StreamInfoForm.tsx:79-86), except one
\* that another tab has written, or a save while an answer was on its way, since the form last
\* showed what is stored with nothing under way.
THEOREM SavesOnlyWhatWasTyped == Spec => []SavesWhatWasTyped
BY InitIInv, NextIInv, IInvSaves, PTL DEF Spec

-----------------------------------------------------------------------------
(* The account: sessions, secrets and their codes *)

Ops == {"none", "login", "register", "logout", "setup", "enable", "disable", "password", "revoke",
        "revokeOthers"}

Ats == A!Answered \cup {"idle", "sent", "insert", "factor", "consume", "user", "write", "clear"}

Calls == [op : Ops, at : Ats, pw : Passwords \cup {None}, new : Passwords \cup {None},
          code : A!Codes \cup {None}, sid : Sessions \cup {None},
          seen : (0..MaxSecret) \cup BOOLEAN \cup {None}]

\* What a request carries that the handlers use.
Carries(r) ==
  /\ r.op \in {"login", "register", "disable", "password"} => r.pw \in Passwords
  /\ r.op = "password" => r.new \in Passwords
  /\ r.op \in {"enable", "disable"} \/ r.at \in {"factor", "consume"} => r.code \in A!Codes
  /\ r.op \in {"setup", "enable"} /\ r.at = "ok" => r.seen \in 1..MaxSecret
  /\ r.at = "consume" => r.op \in {"login", "disable"}
  /\ r.at \in {"user", "write"} => r.op \in A!NeedsUser
  /\ r.at = "clear" => r.op = "disable"

CallsFit == request \in [A!Callers -> Calls] /\ \A d \in A!Callers : Carries(request[d])

AccTypes == A!AccountsAssumption /\ A!AccountPagesAssumption /\ A!TypeOK /\ CallsFit

\* A secret is in force for as long as it is in the row: a step of it that was accepted is not
\* later than the last one, and secrets that were never in force have accepted nothing.
SecretsOnce ==
  /\ user.secret <= made /\ user.pending <= made
  /\ user.pending = 0 \/ user.pending # user.secret
  /\ \A c \in A!Codes : c.kind = "app" =>
       /\ c.secret > made \/ c.secret = user.pending => uses[c] = 0
       /\ c.secret = user.secret =>
            /\ uses[c] <= 1
            /\ uses[c] > 0 => user.lastStep # None /\ c.step <= user.lastStep

\* A recovery code in the row is unused, as is one that was not issued yet.
RecoveryOnce ==
  /\ \A n \in user.codes : n <= user.issued
  /\ \A c \in A!Codes : c.kind = "recovery" =>
       /\ uses[c] <= 1
       /\ c.secret \in user.codes \/ c.secret > user.issued => uses[c] = 0

\* A code that has been checked is one of a secret made before, and one that signs in was in force.
CodesInHand ==
  \A d \in A!Callers :
    /\ request[d].at = "consume" /\ request[d].code.kind = "app" =>
         /\ request[d].code.secret <= made
         /\ user.pending = 0 \/ request[d].code.secret # user.pending
    /\ request[d].op = "enable" /\ request[d].at = "write" =>
         request[d].code.kind = "app" /\ request[d].code.secret <= made

AccInv == AccTypes /\ SecretsOnce /\ RecoveryOnce /\ CodesInHand

-----------------------------------------------------------------------------
(* Types *)

LEMMA CodeFields ==
  ASSUME NEW c \in A!Codes
  PROVE  /\ c.kind \in {"app", "recovery"} /\ c.secret \in 1..MaxSecret /\ c.step \in Nat
         /\ A!AccountsAssumption => c.step \in 0..MaxStep
         /\ c.kind = "recovery" => c = A!RecoveryCode(c.secret)
         /\ c.kind = "app" => c = A!AppCode(c.secret, c.step)
BY DEF A!Codes, A!AppCode, A!RecoveryCode, A!AccountsAssumption

LEMMA NoRequestFits == A!NoRequest \in Calls /\ Carries(A!NoRequest)
BY DEF A!NoRequest, Calls, Ops, Ats, Carries

LEMMA CallFields ==
  ASSUME NEW r \in Calls
  PROVE  /\ r.op \in Ops /\ r.at \in Ats /\ r.pw \in Passwords \cup {None}
         /\ r.new \in Passwords \cup {None} /\ r.code \in A!Codes \cup {None}
         /\ r.sid \in Sessions \cup {None}
BY DEF Calls

LEMMA TabFields ==
  ASSUME NEW t \in A!Tab
  PROVE  /\ t.auth \in {"loading", "anon", "error", "authed"}
         /\ t.me \in {"idle", "authed", "anon"}
         /\ t.page \in {"auth", "security"} /\ t.go \in BOOLEAN
         /\ t.totp \in {None} \cup Passwords
         /\ t.panel \in {"unknown", "off", "setup", "codes", "on"} /\ t.secret \in 0..MaxSecret
BY DEF A!Tab

LEMMA RefreshedTab ==
  ASSUME NEW t \in A!Tab, NEW sid
  PROVE  /\ A!Refreshed(t, sid) \in A!Tab
         /\ A!Refreshed(t, sid).panel = t.panel
<1> DEFINE m == IF t.me # "idle" THEN t.me ELSE IF sid \in sessions THEN "authed" ELSE "anon"
<1>1. m \in {"idle", "authed", "anon"}
  BY TabFields
<1>2. A!Refreshed(t, sid) = [t EXCEPT !.me = m]
  BY DEF A!Refreshed
<1> HIDE DEF m
<1> QED
  BY <1>1, <1>2 DEF A!Tab

LEMMA RoutedTab ==
  ASSUME A!AccountsAssumption, NEW t \in A!Tab, NEW b \in BOOLEAN
  PROVE  A!Routed(t, b) \in A!Tab /\ A!Routed(t, b).panel \in {t.panel, "unknown"}
<1> DEFINE from(p) == [t EXCEPT !.page = p, !.panel = "unknown", !.secret = 0, !.totp = None]
<1>1. ASSUME NEW p \in {"auth", "security"}
      PROVE  from(p) \in A!Tab /\ from(p).panel = "unknown"
  <2>1. 0 \in 0..MaxSecret
    BY DEF A!AccountsAssumption
  <2> QED
    BY <2>1 DEF A!Tab
<1>2. A!Routed(t, b) \in {from("security"), from("auth"), t}
  BY DEF A!Routed
<1> HIDE DEF from
<1> QED
  BY <1>1, <1>2

LEMMA TypedCodes ==
  ASSUME AccTypes
  PROVE  A!Typed \subseteq A!Codes /\ {A!RecoveryCode(n) : n \in kept} \subseteq A!Codes
BY DEF AccTypes, A!TypeOK, A!Typed, A!Codes, A!AppCode, A!RecoveryCode

\* What the browser sends is new, and fits.
Dispatched(r) == r \in Calls /\ Carries(r) /\ r.at = "sent"

LEMMA RequestFits ==
  ASSUME NEW op \in Ops, NEW sid \in Sessions \cup {None}
  PROVE  /\ A!Request(op, sid) \in Calls
         /\ A!Request(op, sid).op = op /\ A!Request(op, sid).at = "sent"
         /\ A!Request(op, sid).code = None
         /\ op \in {"logout", "setup", "revoke", "revokeOthers"} => Dispatched(A!Request(op, sid))
BY DEF A!Request, A!NoRequest, Calls, Ops, Ats, Carries, Dispatched

LEMMA PasswordFits ==
  ASSUME NEW r \in Calls, NEW p \in Passwords, r.at = "sent", r.op \in {"login", "register"}
  PROVE  Dispatched([r EXCEPT !.pw = p]) /\ [r EXCEPT !.pw = p].op = r.op
BY DEF Calls, Dispatched, Carries

LEMMA CodeFits ==
  ASSUME NEW r \in Calls, NEW p \in Passwords, NEW c \in A!Codes, r.at = "sent",
         r.op \in {"login", "disable"}
  PROVE  /\ Dispatched([r EXCEPT !.pw = p, !.code = c]) /\ Dispatched([r EXCEPT !.code = c, !.pw = p])
         /\ [r EXCEPT !.pw = p, !.code = c].op = r.op
BY DEF Calls, Dispatched, Carries

LEMMA ConfirmationFits ==
  ASSUME NEW r \in Calls, NEW c \in A!Codes, r.at = "sent", r.op = "enable"
  PROVE  /\ Dispatched([r EXCEPT !.code = c])
         /\ [r EXCEPT !.code = c].code = c
BY DEF Calls, Dispatched, Carries

LEMMA NewPasswordFits ==
  ASSUME NEW r \in Calls, NEW p \in Passwords, NEW q \in Passwords, r.at = "sent",
         r.op = "password"
  PROVE  Dispatched([r EXCEPT !.pw = p, !.new = q]) /\ [r EXCEPT !.pw = p, !.new = q].op = r.op
BY DEF Calls, Dispatched, Carries

\* A setup is confirmed with a code of the authenticator.
FromApp(r) == r.op = "enable" => r.code.kind = "app" /\ r.code.secret \in app

\* A step of a page forgets its request, leaves it to the server, sends one, or leaves it alone.
LEMMA BrowserCalls ==
  ASSUME AccTypes, NEW d \in Devices, A!Browser(d)
  PROVE  /\ UNCHANGED A!server
         /\ \/ request' = request
            \/ request' = [request EXCEPT ![d] = A!NoRequest]
            \/ \E u \in Unheard : request' = [request EXCEPT ![u] = request[d], ![d] = A!NoRequest]
            \/ \E r \in Calls : /\ Dispatched(r) /\ FromApp(r) /\ request[d] = A!NoRequest
                                /\ request' = [request EXCEPT ![d] = r]
<1> USE DEF AccTypes, A!TypeOK
<1>0. cookie[d] \in Sessions \cup {None} /\ tab[d] \in A!Tab
  OBVIOUS
<1>1. CASE A!SetAuth(d) \/ A!RetryAuth(d) \/ A!Back(d) \/ A!LoadStatus(d) \/ A!CancelSetup(d)
           \/ A!CodesSaved(d)
  BY <1>1 DEF A!SetAuth, A!RetryAuth, A!Back, A!LoadStatus, A!CancelSetup, A!CodesSaved, A!server
<1>2. CASE A!LoginAnswered(d) \/ A!LogoutAnswered(d) \/ A!SetupAnswered(d) \/ A!EnableAnswered(d)
           \/ A!DisableAnswered(d) \/ A!FormAnswered(d)
  BY <1>2 DEF A!LoginAnswered, A!LogoutAnswered, A!SetupAnswered, A!EnableAnswered,
     A!DisableAnswered, A!FormAnswered, A!server
<1>3. CASE A!SubmitPassword(d)
  <2>1. PICK op \in {"login", "register"}, p \in Passwords :
          A!Sends(d, [A!Request(op, cookie[d]) EXCEPT !.pw = p])
    BY <1>3, Zenon DEF A!SubmitPassword
  <2>2. /\ Dispatched([A!Request(op, cookie[d]) EXCEPT !.pw = p])
        /\ FromApp([A!Request(op, cookie[d]) EXCEPT !.pw = p])
    BY <1>0, RequestFits, PasswordFits DEF Ops, FromApp
  <2> QED
    BY <1>3, <2>1, <2>2 DEF A!SubmitPassword, A!Sends, A!Idle, Dispatched, A!server
<1>4. CASE A!SubmitCode(d)
  <2>1. PICK c \in A!Typed \cup {A!RecoveryCode(n) : n \in kept} :
          A!Sends(d, [A!Request("login", cookie[d]) EXCEPT !.pw = tab[d].totp, !.code = c])
    BY <1>4 DEF A!SubmitCode
  <2>2. tab[d].totp \in Passwords
    BY <1>0, <1>4, TabFields DEF A!SubmitCode
  <2>3. /\ Dispatched([A!Request("login", cookie[d]) EXCEPT !.pw = tab[d].totp, !.code = c])
        /\ FromApp([A!Request("login", cookie[d]) EXCEPT !.pw = tab[d].totp, !.code = c])
    <3>1. c \in A!Codes
      BY TypedCodes
    <3>2. /\ A!Request("login", cookie[d]) \in Calls
          /\ A!Request("login", cookie[d]).op = "login" /\ A!Request("login", cookie[d]).at = "sent"
      BY <1>0, RequestFits DEF Ops
    <3> QED
      BY <2>2, <3>1, <3>2, CodeFits DEF FromApp
  <2> QED
    BY <1>4, <2>1, <2>3 DEF A!SubmitCode, A!Sends, A!Idle, Dispatched, A!server
<1>5. CASE A!LogoutClicked(d)
  <2>1. Dispatched(A!Request("logout", cookie[d])) /\ FromApp(A!Request("logout", cookie[d]))
    BY <1>0, RequestFits DEF Ops, FromApp
  <2> QED
    BY <1>5, <2>1 DEF A!LogoutClicked, A!Sends, A!Idle, Dispatched, A!server
<1>6. CASE A!StartSetup(d)
  <2>1. Dispatched(A!Request("setup", cookie[d])) /\ FromApp(A!Request("setup", cookie[d]))
    BY <1>0, <1>6, RequestFits DEF Ops, FromApp, A!StartSetup
  <2> QED
    BY <1>6, <2>1 DEF A!StartSetup, A!Sends, A!Idle, Dispatched, A!server
<1>7. CASE A!ConfirmSetup(d)
  <2>1. PICK c \in A!Typed : A!Sends(d, [A!Request("enable", cookie[d]) EXCEPT !.code = c])
    BY <1>7 DEF A!ConfirmSetup
  <2>2. /\ Dispatched([A!Request("enable", cookie[d]) EXCEPT !.code = c])
        /\ FromApp([A!Request("enable", cookie[d]) EXCEPT !.code = c])
    <3>1. c \in A!Codes /\ c.kind = "app" /\ c.secret \in app
      <4>1. c \in A!Codes
        BY TypedCodes
      <4>2. c.kind = "app" /\ c.secret \in app
        BY DEF A!Typed, A!AppCode
      <4> QED
        BY <4>1, <4>2
    <3>2. /\ A!Request("enable", cookie[d]) \in Calls
          /\ A!Request("enable", cookie[d]).op = "enable"
          /\ A!Request("enable", cookie[d]).at = "sent"
      BY <1>0, RequestFits DEF Ops
    <3> QED
      BY <1>7, <3>1, <3>2, ConfirmationFits DEF FromApp, A!ConfirmSetup
  <2> QED
    BY <1>7, <2>1, <2>2 DEF A!ConfirmSetup, A!Sends, A!Idle, Dispatched, A!server
<1>8. CASE A!SubmitDisable(d)
  <2>1. PICK c \in A!Typed, p \in Passwords :
          A!Sends(d, [A!Request("disable", cookie[d]) EXCEPT !.code = c, !.pw = p])
    BY <1>8 DEF A!SubmitDisable
  <2>2. /\ Dispatched([A!Request("disable", cookie[d]) EXCEPT !.code = c, !.pw = p])
        /\ FromApp([A!Request("disable", cookie[d]) EXCEPT !.code = c, !.pw = p])
    <3>1. c \in A!Codes
      BY TypedCodes
    <3>2. /\ A!Request("disable", cookie[d]) \in Calls
          /\ A!Request("disable", cookie[d]).op = "disable"
          /\ A!Request("disable", cookie[d]).at = "sent"
      BY <1>0, RequestFits DEF Ops
    <3> QED
      <4>1. [A!Request("disable", cookie[d]) EXCEPT !.code = c, !.pw = p].op = "disable"
        BY <3>2 DEF Calls
      <4> QED
        BY <1>8, <3>1, <3>2, <4>1, CodeFits DEF FromApp, A!SubmitDisable
  <2> QED
    BY <1>8, <2>1, <2>2 DEF A!SubmitDisable, A!Sends, A!Idle, Dispatched, A!server
<1>9. CASE A!SubmitNewPassword(d)
  <2>1. PICK p \in Passwords, q \in Passwords :
          A!Sends(d, [A!Request("password", cookie[d]) EXCEPT !.pw = p, !.new = q])
    BY <1>9 DEF A!SubmitNewPassword
  <2>2. /\ Dispatched([A!Request("password", cookie[d]) EXCEPT !.pw = p, !.new = q])
        /\ FromApp([A!Request("password", cookie[d]) EXCEPT !.pw = p, !.new = q])
    <3>1. /\ A!Request("password", cookie[d]) \in Calls
          /\ A!Request("password", cookie[d]).op = "password"
          /\ A!Request("password", cookie[d]).at = "sent"
      BY <1>0, RequestFits DEF Ops
    <3> QED
      BY <3>1, NewPasswordFits DEF FromApp
  <2> QED
    BY <1>9, <2>1, <2>2 DEF A!SubmitNewPassword, A!Sends, A!Idle, Dispatched, A!server
<1>10. CASE A!SubmitRevoke(d)
  <2>1. PICK op \in {"revoke", "revokeOthers"} : A!Sends(d, A!Request(op, cookie[d]))
    BY <1>10 DEF A!SubmitRevoke
  <2>2. Dispatched(A!Request(op, cookie[d])) /\ FromApp(A!Request(op, cookie[d]))
    BY <1>0, RequestFits DEF Ops, FromApp
  <2> QED
    BY <1>10, <2>1, <2>2 DEF A!SubmitRevoke, A!Sends, A!Idle, Dispatched, A!server
<1>11. CASE A!Lost(d) \/ A!Reload(d)
  BY <1>11 DEF A!Lost, A!Reload, A!GivesUp, A!server
<1> QED
  BY <1>1, <1>2, <1>3, <1>4, <1>5, <1>6, <1>7, <1>8, <1>9, <1>10, <1>11 DEF A!Browser

\* A step of a handler: the request of the device goes on, and fits.
LEMMA GoesFits ==
  ASSUME AccTypes, NEW d \in A!Callers, NEW a \in Ats, A!Goes(d, a),
         a \in {"user", "write"} => request[d].op \in A!NeedsUser,
         a = "clear" => request[d].op = "disable",
         a = "factor" => request[d].code \in A!Codes,
         a = "consume" => request[d].code \in A!Codes /\ request[d].op \in {"login", "disable"},
         a = "ok" => request[d].op \notin {"setup", "enable"}
  PROVE  CallsFit'
<1>1. request[d] \in Calls /\ Carries(request[d]) /\ request \in [A!Callers -> Calls]
  BY DEF AccTypes, CallsFit
<1>2. [request[d] EXCEPT !.at = a] \in Calls /\ Carries([request[d] EXCEPT !.at = a])
  BY <1>1 DEF Calls, Carries
<1>3. request' = [request EXCEPT ![d] = [request[d] EXCEPT !.at = a]]
  BY DEF A!Goes
<1> QED
  BY <1>1, <1>2, <1>3 DEF AccTypes, CallsFit

LEMMA UserFields ==
  ASSUME NEW u \in A!UserRow
  PROVE  /\ u.exists \in BOOLEAN /\ u.pw \in Passwords /\ u.secret \in 0..MaxSecret
         /\ u.pending \in 0..MaxSecret /\ u.enabled \in BOOLEAN
         /\ u.lastStep \in (0..MaxStep) \cup {None} /\ u.codes \subseteq 1..MaxSecret
         /\ u.issued \in 0..MaxSecret /\ u.overtaken \in BOOLEAN
BY DEF A!UserRow

LEMMA ServerCalls ==
  ASSUME AccTypes, NEW d \in A!Callers, A!Server(d)
  PROVE  CallsFit'
<1>0. /\ request \in [A!Callers -> Calls] /\ request[d] \in Calls /\ Carries(request[d])
      /\ user \in A!UserRow /\ made \in 0..MaxSecret /\ MaxSecret \in Nat
      /\ \A e \in A!Callers : Carries(request[e])
  BY DEF AccTypes, CallsFit, A!TypeOK, A!AccountsAssumption
<1>1. CASE A!Register(d)
  <2>1. A!Goes(d, "username_taken") \/ A!Goes(d, "insert")
    BY <1>1 DEF A!Register, A!Answers
  <2> QED
    BY <2>1, GoesFits DEF Ats, A!Answered
<1>2. CASE A!Login(d)
  <2>1. \/ A!Goes(d, "invalid_credentials") \/ A!Goes(d, "insert") \/ A!Goes(d, "totp_required")
        \/ A!Goes(d, "factor") /\ request[d].code # None
    BY <1>2 DEF A!Login
  <2>2. {"invalid_credentials", "insert", "totp_required", "factor"} \subseteq Ats
    BY DEF Ats, A!Answered
  <2>3. request[d].code # None => request[d].code \in A!Codes
    BY <1>0, CallFields
  <2> QED
    BY <2>1, <2>2, <2>3, GoesFits
<1>3. CASE A!CreateSession(d)
  <2>1. PICK s \in Sessions : request' = [request EXCEPT ![d].sid = s, ![d].at = "ok"]
    BY <1>3 DEF A!CreateSession
  <2>2. request[d].op \in {"register", "login"}
    BY <1>3 DEF A!CreateSession, A!Asks
  <2>3. /\ [request[d] EXCEPT !.sid = s, !.at = "ok"] \in Calls
        /\ Carries([request[d] EXCEPT !.sid = s, !.at = "ok"])
    <3> DEFINE r == [request[d] EXCEPT !.sid = s, !.at = "ok"]
    <3>1. "ok" \in Ats
      BY DEF Ats, A!Answered
    <3>2. r \in Calls /\ r.at = "ok" /\ r.op = request[d].op
          /\ r.pw = request[d].pw /\ r.new = request[d].new /\ r.code = request[d].code
      BY <1>0, <3>1 DEF Calls
    <3> HIDE DEF r
    <3>3. Carries(r)
      BY <1>0, <2>2, <3>2 DEF Carries
    <3> QED
      BY <3>2, <3>3 DEF r
  <2>4. request' = [request EXCEPT ![d] = [request[d] EXCEPT !.sid = s, !.at = "ok"]]
    BY <1>0, <2>1
  <2> QED
    BY <1>0, <2>3, <2>4 DEF CallsFit
<1>4. CASE A!Logout(d)
  BY <1>4, GoesFits DEF A!Logout, A!Asks, A!Answers, Ats, A!Answered
<1>5. CASE A!ReadFactor(d)
  <2>1. request[d].op \in {"login", "disable"} /\ request[d].code \in A!Codes
    BY <1>0, <1>5 DEF A!ReadFactor, A!Asks, Carries
  <2>2. A!Goes(d, "totp_invalid") \/ A!Goes(d, "consume")
    BY <1>5 DEF A!ReadFactor
  <2> QED
    BY <2>1, <2>2, GoesFits DEF Ats, A!Answered
<1>6. CASE A!Consume(d)
  <2>1. \/ A!Goes(d, "totp_invalid") \/ A!Goes(d, "insert")
        \/ A!Goes(d, "clear") /\ request[d].op = "disable"
    BY <1>6 DEF A!Consume, A!Asks, A!Answers
  <2> QED
    BY <2>1, GoesFits DEF Ats, A!Answered
<1>7. CASE A!RequireUser(d)
  <2> DEFINE seen == IF request[d].op = "disable" THEN user.enabled ELSE None
             a == IF ~A!SignedIn(d) THEN "unauthorized"
                  ELSE IF request[d].op \in {"status", "me"} THEN "ok"
                  ELSE IF request[d].op = "setup" /\ user.enabled THEN "conflict" ELSE "user"
             r == [request[d] EXCEPT !.seen = seen, !.at = a]
  <2>1. request[d].op \in A!NeedsUser \ {"status", "me"}
    BY <1>0, <1>7, CallFields DEF A!RequireUser, A!Asks, Ops
  <2>2. seen \in (0..MaxSecret) \cup BOOLEAN \cup {None}
    BY <1>0, UserFields
  <2>3. a \in {"unauthorized", "conflict", "user"}
    BY <2>1
  <2>4. request' = [request EXCEPT ![d] = r]
    BY <1>0, <1>7 DEF A!RequireUser
  <2>5. a \in Ats
    BY <2>3 DEF Ats, A!Answered
  <2> HIDE DEF seen, a
  <2>6. r \in Calls
    BY <1>0, <2>2, <2>5 DEF Calls
  <2>7. /\ r.at = a /\ r.op = request[d].op /\ r.pw = request[d].pw /\ r.new = request[d].new
        /\ r.code = request[d].code
    BY <1>0 DEF Calls
  <2>8. Carries(r)
    BY <1>0, <2>1, <2>3, <2>7 DEF Carries
  <2> QED
    BY <1>0, <2>4, <2>6, <2>8 DEF CallsFit
<1>8. CASE A!CheckPassword(d)
  <2>1. request[d].op \in {"password", "disable"}
    BY <1>8 DEF A!CheckPassword, A!Asks
  <2>2. \/ A!Goes(d, "invalid_credentials") \/ A!Goes(d, "ok")
        \/ A!Goes(d, "write")
        \/ request[d].op = "disable" /\ A!Goes(d, "factor")
    BY <1>8, <2>1 DEF A!CheckPassword
  <2> QED
    BY <1>0, <2>1, <2>2, GoesFits DEF Ats, A!Answered, A!NeedsUser, Carries
<1>9. CASE A!ChangePassword(d) \/ A!RevokeOthers(d)
  BY <1>9, GoesFits DEF A!ChangePassword, A!RevokeOthers, A!Asks, A!Answers, Ats, A!Answered
<1>10. CASE A!Revoke(d)
  <2>1. request[d].op = "revoke" /\ (A!Goes(d, "ok") \/ A!Goes(d, "not_found"))
    BY <1>10 DEF A!Revoke, A!Asks, A!Answers
  <2> QED
    BY <2>1, GoesFits DEF Ats, A!Answered
<1>11. CASE A!Setup(d)
  <2>1. [request[d] EXCEPT !.seen = made + 1, !.at = "ok"] \in Calls
    <3>1. made + 1 \in 0..MaxSecret
      BY <1>0, <1>11 DEF A!Setup
    <3> QED
      BY <1>0, <3>1 DEF Calls, Ats, A!Answered
  <2>2. request[d].op = "setup" /\ made + 1 \in 1..MaxSecret
    BY <1>0, <1>11 DEF A!Setup, A!Asks
  <2>3. Carries([request[d] EXCEPT !.seen = made + 1, !.at = "ok"])
    BY <1>0, <2>2 DEF Carries, Calls
  <2>4. request' = [request EXCEPT ![d] = [request[d] EXCEPT !.seen = made + 1, !.at = "ok"]]
    BY <1>0, <1>11 DEF A!Setup
  <2> QED
    BY <1>0, <2>1, <2>3, <2>4 DEF CallsFit
<1>12. CASE A!ReadPending(d)
  <2>1. request[d].op = "enable" /\ user.pending \in 0..MaxSecret
    BY <1>0, <1>12, UserFields DEF A!ReadPending, A!Asks
  <2>2. PICK a \in {"conflict", "write", "totp_invalid"} :
          request' = [request EXCEPT ![d].seen = user.pending, ![d].at = a]
    BY <1>12 DEF A!ReadPending
  <2> DEFINE r == [request[d] EXCEPT !.seen = user.pending, !.at = a]
  <2>3. a \in Ats
    BY DEF Ats, A!Answered
  <2>4. r \in Calls
    BY <1>0, <2>1, <2>3 DEF Calls
  <2>5. /\ r.at = a /\ r.op = request[d].op /\ r.pw = request[d].pw /\ r.new = request[d].new
        /\ r.code = request[d].code
    BY <1>0 DEF Calls
  <2>6. request' = [request EXCEPT ![d] = r]
    BY <1>0, <2>2
  <2> HIDE DEF r
  <2>7. Carries(r)
    BY <1>0, <2>1, <2>5 DEF Carries, A!NeedsUser
  <2> QED
    BY <1>0, <2>4, <2>6, <2>7 DEF CallsFit
<1>13. CASE A!Enable(d)
  <2>0. user.issued + 1 \in 1..MaxSecret /\ request[d].op = "enable"
    BY <1>0, <1>13, UserFields DEF A!Enable, A!Asks
  <2>1. /\ [request[d] EXCEPT !.seen = user.issued + 1, !.at = "ok"] \in Calls
        /\ Carries([request[d] EXCEPT !.seen = user.issued + 1, !.at = "ok"])
    <3> DEFINE seen == user.issued + 1
    <3>1. seen \in 0..MaxSecret /\ seen \in 1..MaxSecret
      BY <2>0
    <3> HIDE DEF seen
    <3>2. [request[d] EXCEPT !.seen = seen, !.at = "ok"] \in Calls
      BY <1>0, <3>1 DEF Calls, Ats, A!Answered
    <3>3. Carries([request[d] EXCEPT !.seen = seen, !.at = "ok"])
      BY <1>0, <2>0, <3>1 DEF Carries, Calls
    <3> QED
      BY <3>2, <3>3 DEF seen
  <2>2. request' = [request EXCEPT ![d] = [request[d] EXCEPT !.seen = user.issued + 1, !.at = "ok"]]
    BY <1>0, <1>13 DEF A!Enable
  <2> QED
    BY <1>0, <2>1, <2>2 DEF CallsFit
<1>14. CASE A!Disable(d)
  BY <1>14, GoesFits DEF A!Disable, A!Asks, A!Answers, Ats, A!Answered
<1> QED
  BY <1>1, <1>2, <1>3, <1>4, <1>5, <1>6, <1>7, <1>8, <1>9, <1>10, <1>11, <1>12, <1>13, <1>14
     DEF A!Server

\* What the handlers do to the row keeps its type.
LEMMA ServerRow ==
  ASSUME AccTypes, NEW d \in A!Callers, A!Server(d)
  PROVE  /\ user' \in A!UserRow /\ sessions' \subseteq Sessions /\ clock' = clock
         /\ made' \in 0..MaxSecret /\ uses' \in [A!Codes -> Nat]
<1>0. /\ request[d] \in Calls /\ Carries(request[d]) /\ user \in A!UserRow /\ sessions \subseteq Sessions
      /\ made \in 0..MaxSecret /\ uses \in [A!Codes -> Nat] /\ MaxSecret \in Nat
      /\ 0 \in 0..MaxSecret
  BY DEF AccTypes, CallsFit, A!TypeOK, A!AccountsAssumption
<1>1. CASE A!Register(d)
  <2>1. request[d].pw \in Passwords
    BY <1>0, <1>1 DEF A!Register, A!Asks, Carries
  <2>2. [user EXCEPT !.exists = TRUE, !.pw = request[d].pw] \in A!UserRow
    BY <1>0, <2>1 DEF A!UserRow
  <2> QED
    BY <1>0, <1>1, <2>2 DEF A!Register
<1>2. CASE A!Consume(d)
  <2>1. request[d].code \in A!Codes
    BY <1>0, <1>2 DEF A!Consume, A!Asks, Carries
  <2>2. [user EXCEPT !.codes = @ \ {request[d].code.secret}] \in A!UserRow
    BY <1>0 DEF A!UserRow
  <2>3. request[d].code.step \in 0..MaxStep
    BY <2>1, CodeFields DEF AccTypes
  <2>4. [user EXCEPT !.lastStep = request[d].code.step] \in A!UserRow
    BY <1>0, <2>3 DEF A!UserRow
  <2>5. user' \in A!UserRow
    BY <1>0, <1>2, <2>2, <2>4 DEF A!Consume
  <2>6. uses' \in [A!Codes -> Nat]
    BY <1>0, <1>2, <2>1 DEF A!Consume
  <2> QED
    BY <1>0, <1>2, <2>5, <2>6 DEF A!Consume
<1>3. CASE A!ChangePassword(d)
  <2>1. request[d].new \in Passwords
    BY <1>0, <1>3 DEF A!ChangePassword, A!Asks, Carries
  <2>2. [user EXCEPT !.pw = request[d].new] \in A!UserRow
    BY <1>0, <2>1 DEF A!UserRow
  <2> QED
    BY <1>0, <1>3, <2>2 DEF A!ChangePassword
<1>4. CASE A!Setup(d)
  <2>1. made + 1 \in 0..MaxSecret
    BY <1>0, <1>4 DEF A!Setup
  <2>2. [user EXCEPT !.pending = made + 1] \in A!UserRow
    BY <1>0, <2>1 DEF A!UserRow
  <2> QED
    BY <1>0, <1>4, <2>1, <2>2 DEF A!Setup
<1>5. CASE A!Enable(d)
  <2>1. request[d].code \in A!Codes
    BY <1>0, <1>5 DEF A!Enable, A!Asks, Carries
  <2>2. request[d].code.step \in 0..MaxStep
    BY <2>1, CodeFields DEF AccTypes
  <2>3. user.issued + 1 \in 0..MaxSecret /\ {user.issued + 1} \subseteq 1..MaxSecret
    BY <1>0, <1>5, UserFields DEF A!Enable
  <2>4. user.pending \in 0..MaxSecret
    BY <1>0, UserFields
  <2> DEFINE n == user.issued + 1
             u == [user EXCEPT !.secret = user.pending, !.pending = 0, !.enabled = TRUE,
                               !.lastStep = request[d].code.step, !.codes = {n}, !.issued = n,
                               !.overtaken = user.pending # request[d].seen]
  <2>5. n \in 0..MaxSecret /\ {n} \subseteq 1..MaxSecret
    BY <2>3
  <2>6. user' = u
    BY <1>5 DEF A!Enable
  <2> HIDE DEF n
  <2>7. u \in A!UserRow
    BY <1>0, <2>2, <2>4, <2>5 DEF A!UserRow
  <2>8. uses' \in [A!Codes -> Nat]
    BY <1>0, <1>5, <2>1 DEF A!Enable
  <2> QED
    BY <1>0, <1>5, <2>6, <2>7, <2>8 DEF A!Enable
<1>6. CASE A!Disable(d)
  <2>1. [user EXCEPT !.secret = 0, !.pending = 0, !.enabled = FALSE, !.lastStep = None,
                     !.codes = {}] \in A!UserRow
    BY <1>0 DEF A!UserRow
  <2>2. uses' \in [A!Codes -> Nat]
    BY <1>0, <1>6 DEF A!Disable
  <2> QED
    BY <1>0, <1>6, <2>1, <2>2 DEF A!Disable
<1>7. CASE A!CreateSession(d) \/ A!Logout(d) \/ A!Revoke(d) \/ A!RevokeOthers(d)
  BY <1>0, <1>7 DEF A!CreateSession, A!Logout, A!Revoke, A!RevokeOthers
<1>8. CASE A!Login(d) \/ A!ReadFactor(d) \/ A!RequireUser(d) \/ A!CheckPassword(d) \/ A!ReadPending(d)
  BY <1>0, <1>8 DEF A!Login, A!ReadFactor, A!RequireUser, A!CheckPassword, A!ReadPending, A!server
<1> QED
  BY <1>1, <1>2, <1>3, <1>4, <1>5, <1>6, <1>7, <1>8 DEF A!Server

\* The answer of GET /me, once it is shown.
LEMMA SetAuthTab ==
  ASSUME AccTypes, NEW d \in Devices, A!SetAuth(d)
  PROVE  \E t \in A!Tab : /\ tab' = [tab EXCEPT ![d] = t]
                          /\ t.panel \in {tab[d].panel, "unknown"}
<1> DEFINE t == tab[d]
           p == IF t.go THEN "security" ELSE t.page
           w == IF t.go THEN None ELSE t.totp
           g(a) == [t EXCEPT !.auth = a, !.me = "idle", !.go = FALSE, !.page = p, !.totp = w]
<1>0. tab[d] \in A!Tab /\ A!AccountsAssumption
  BY DEF AccTypes, A!TypeOK
<1>1. ASSUME NEW a \in {"loading", "anon", "error", "authed"}
      PROVE  /\ A!Routed(g(a), ~A!Idle(d)) \in A!Tab
             /\ A!Routed(g(a), ~A!Idle(d)).panel \in {tab[d].panel, "unknown"}
  <2>1. p \in {"auth", "security"} /\ w \in {None} \cup Passwords
    BY <1>0, TabFields
  <2> HIDE DEF p, w
  <2>2. g(a) \in A!Tab /\ g(a).panel = tab[d].panel
    BY <1>0, <2>1 DEF A!Tab
  <2> HIDE DEF g
  <2> QED
    BY <1>0, <2>2, RoutedTab
<1>2. tab[d].me \in {"authed", "anon"}
  BY <1>0, TabFields DEF A!SetAuth
<1>3. PICK a \in {"authed", "anon", "error"} : tab' = [tab EXCEPT ![d] = A!Routed(g(a), ~A!Idle(d))]
  BY <1>2 DEF A!SetAuth
<1> HIDE DEF g
<1> QED
  BY <1>1, <1>3

\* The pages keep their types.
LEMMA BrowserTypes ==
  ASSUME AccTypes, NEW d \in Devices, A!Browser(d)
  PROVE  /\ tab' \in [Devices -> A!Tab] /\ cookie' \in [Devices -> Sessions \cup {None}]
         /\ app' \subseteq 1..MaxSecret /\ kept' \subseteq 1..MaxSecret /\ lost' \subseteq 1..MaxSecret
         /\ app \subseteq app' /\ kept \subseteq kept' /\ lost \subseteq lost'
<1>0. /\ tab \in [Devices -> A!Tab] /\ tab[d] \in A!Tab /\ cookie \in [Devices -> Sessions \cup {None}]
      /\ app \subseteq 1..MaxSecret /\ kept \subseteq 1..MaxSecret /\ 0 \in 0..MaxSecret
      /\ request[d] \in Calls /\ Carries(request[d]) /\ A!AccountsAssumption
      /\ lost \subseteq 1..MaxSecret
  BY DEF AccTypes, CallsFit, A!TypeOK, A!AccountsAssumption, A!Callers
<1>i. A!GivesUp(d) => lost' \subseteq 1..MaxSecret /\ lost \subseteq lost'
  <2>1. \A e \in A!Callers : A!Issued(e) \subseteq 1..MaxSecret
    BY DEF AccTypes, CallsFit, Carries, A!Issued
  <2>2. Devices \subseteq A!Callers /\ Unheard \subseteq A!Callers
    BY DEF A!Callers
  <2> QED
    BY <1>0, <2>1, <2>2 DEF A!GivesUp
<1>1. ASSUME NEW t \in A!Tab, tab' = [tab EXCEPT ![d] = t]
      PROVE  tab' \in [Devices -> A!Tab]
  BY <1>0, <1>1
<1>2. CASE A!SetAuth(d)
  BY <1>0, <1>1, <1>2, SetAuthTab DEF A!SetAuth
<1>3. CASE A!RetryAuth(d)
  BY <1>0, <1>1, <1>3, RefreshedTab DEF A!RetryAuth
<1>4. CASE A!SubmitPassword(d) \/ A!SubmitCode(d) \/ A!LogoutClicked(d) \/ A!StartSetup(d) \/ A!ConfirmSetup(d)
           \/ A!SubmitDisable(d) \/ A!SubmitNewPassword(d) \/ A!SubmitRevoke(d) \/ A!FormAnswered(d)
  BY <1>0, <1>4 DEF A!SubmitPassword, A!SubmitCode, A!LogoutClicked, A!StartSetup, A!ConfirmSetup,
     A!SubmitDisable, A!SubmitNewPassword, A!SubmitRevoke, A!FormAnswered, A!client
<1>5. CASE A!Back(d) \/ A!LoadStatus(d) \/ A!CancelSetup(d) \/ A!CodesSaved(d)
  <2>1. /\ [tab[d] EXCEPT !.totp = None] \in A!Tab
        /\ [tab[d] EXCEPT !.panel = "on"] \in A!Tab /\ [tab[d] EXCEPT !.panel = "off"] \in A!Tab
        /\ [tab[d] EXCEPT !.panel = "off", !.secret = 0] \in A!Tab
    BY <1>0 DEF A!Tab
  <2>2. \E t \in A!Tab : tab' = [tab EXCEPT ![d] = t]
    BY <1>0, <1>5, <2>1 DEF A!Back, A!LoadStatus, A!CancelSetup, A!CodesSaved
  <2> QED
    BY <1>0, <1>1, <1>5, <2>2 DEF A!Back, A!LoadStatus, A!CancelSetup, A!CodesSaved
<1>6. CASE A!LoginAnswered(d)
  <2>1. request[d].pw \in Passwords /\ request[d].sid \in Sessions \cup {None}
    BY <1>0, <1>6, CallFields DEF A!LoginAnswered, Carries
  <2>2. ASSUME NEW t \in A!Tab
        PROVE  /\ [t EXCEPT !.go = TRUE] \in A!Tab /\ [t EXCEPT !.totp = None] \in A!Tab
               /\ [t EXCEPT !.totp = request[d].pw] \in A!Tab
    BY <2>1 DEF A!Tab
  <2>3. [A!Refreshed(tab[d], request[d].sid) EXCEPT !.go = TRUE] \in A!Tab
    BY <1>0, <2>2, RefreshedTab
  <2>4. \E t \in A!Tab : tab' = [tab EXCEPT ![d] = t]
    BY <1>0, <1>6, <2>2, <2>3 DEF A!LoginAnswered
  <2> QED
    BY <1>0, <1>1, <1>6, <2>1, <2>4 DEF A!LoginAnswered
<1>7. CASE A!LogoutAnswered(d)
  <2>1. [tab[d] EXCEPT !.auth = "anon"] \in A!Tab
    BY <1>0 DEF A!Tab
  <2>2. \E t \in A!Tab : tab' = [tab EXCEPT ![d] = t]
    BY <1>0, <1>7, <2>1, RoutedTab DEF A!LogoutAnswered
  <2> QED
    BY <1>0, <1>1, <1>7, <2>2 DEF A!LogoutAnswered
<1>8. CASE A!SetupAnswered(d)
  <2>1. request[d].at = "ok" => request[d].seen \in 1..MaxSecret /\ request[d].seen \in 0..MaxSecret
    BY <1>0, <1>8 DEF A!SetupAnswered, Carries
  <2>2. request[d].at = "ok" => [tab[d] EXCEPT !.panel = "setup", !.secret = request[d].seen] \in A!Tab
    BY <1>0, <2>1 DEF A!Tab
  <2>3. request[d].at = "ok" =>
          tab' = [tab EXCEPT ![d] = [tab[d] EXCEPT !.panel = "setup", !.secret = request[d].seen]]
    BY <1>0, <1>8 DEF A!SetupAnswered
  <2>4. tab' \in [Devices -> A!Tab]
    BY <1>0, <1>1, <1>8, <2>2, <2>3 DEF A!SetupAnswered
  <2> QED
    BY <1>0, <1>8, <2>1, <2>4 DEF A!SetupAnswered
<1>9. CASE A!EnableAnswered(d)
  <2>1. request[d].at = "ok" => request[d].seen \in 1..MaxSecret
    BY <1>0, <1>9 DEF A!EnableAnswered, Carries
  <2>2. ASSUME NEW t \in A!Tab PROVE [t EXCEPT !.panel = "codes", !.secret = 0] \in A!Tab
    BY <1>0 DEF A!Tab
  <2>3. [A!Refreshed(tab[d], cookie[d]) EXCEPT !.panel = "codes", !.secret = 0] \in A!Tab
    BY <1>0, <2>2, RefreshedTab
  <2>4. tab' \in [Devices -> A!Tab]
    BY <1>0, <1>1, <1>9, <2>3 DEF A!EnableAnswered
  <2> QED
    BY <1>0, <1>9, <2>1, <2>4 DEF A!EnableAnswered
<1>10. CASE A!DisableAnswered(d)
  <2>1. ASSUME NEW t \in A!Tab PROVE [t EXCEPT !.panel = "off"] \in A!Tab
    BY DEF A!Tab
  <2>2. \E t \in A!Tab : tab' = [tab EXCEPT ![d] = t]
    BY <1>0, <1>10, <2>1, RefreshedTab DEF A!DisableAnswered
  <2> QED
    BY <1>0, <1>1, <1>10, <2>2 DEF A!DisableAnswered
<1>11. CASE A!Lost(d)
  <2>1. [tab[d] EXCEPT !.auth = "anon"] \in A!Tab
    BY <1>0 DEF A!Tab
  <2>2. \E t \in A!Tab : tab' = [tab EXCEPT ![d] = t]
    BY <1>0, <1>11, <2>1, RoutedTab DEF A!Lost
  <2> QED
    BY <1>0, <1>i, <1>1, <1>11, <2>2 DEF A!Lost
<1>12. CASE A!Reload(d)
  <2>1. A!FirstTab \in A!Tab
    BY <1>0 DEF A!FirstTab, A!Tab
  <2>2. [A!FirstTab EXCEPT !.page = tab[d].page, !.me = "idle"] \in A!Tab
    BY <1>0, <2>1, TabFields DEF A!Tab
  <2>3. \E t \in A!Tab : tab' = [tab EXCEPT ![d] = t]
    BY <1>0, <1>12, <2>2, RefreshedTab DEF A!Reload
  <2> QED
    BY <1>0, <1>i, <1>1, <1>12, <2>3 DEF A!Reload
<1> QED
  BY <1>2, <1>3, <1>4, <1>5, <1>6, <1>7, <1>8, <1>9, <1>10, <1>11, <1>12 DEF A!Browser

LEMMA AccNextTypes == AccTypes /\ [A!Next]_A!vars => AccTypes'
<1> SUFFICES ASSUME AccTypes, [A!Next]_A!vars PROVE AccTypes'
  OBVIOUS
<1>0. A!TypeOK /\ CallsFit
  BY DEF AccTypes
<1>1. ASSUME NEW d \in A!Callers, A!ServerStep(d)
      PROVE  AccTypes'
  <2>1. A!Server(d) /\ UNCHANGED A!client
    BY <1>1 DEF A!ServerStep
  <2>2. CallsFit' /\ user' \in A!UserRow /\ sessions' \subseteq Sessions /\ clock' = clock
        /\ made' \in 0..MaxSecret /\ uses' \in [A!Codes -> Nat]
    BY <2>1, ServerCalls, ServerRow
  <2> QED
    BY <1>0, <2>1, <2>2 DEF AccTypes, A!TypeOK, A!client, A!AccountsAssumption,
       A!AccountPagesAssumption
<1>2. ASSUME NEW d \in Devices, A!Browser(d)
      PROVE  AccTypes'
  <2>1. /\ tab' \in [Devices -> A!Tab] /\ cookie' \in [Devices -> Sessions \cup {None}]
        /\ app' \subseteq 1..MaxSecret /\ kept' \subseteq 1..MaxSecret /\ lost' \subseteq 1..MaxSecret
    BY <1>2, BrowserTypes
  <2>2. UNCHANGED A!server /\ CallsFit'
    <3>0. d \in A!Callers
      BY DEF A!Callers
    <3>1. ASSUME NEW r \in Calls, Carries(r), request' = [request EXCEPT ![d] = r]
          PROVE  CallsFit'
      BY <1>0, <3>0, <3>1 DEF CallsFit
    <3>2. ASSUME NEW u \in Unheard, request' = [request EXCEPT ![u] = request[d], ![d] = A!NoRequest]
          PROVE  CallsFit'
      BY <1>0, <3>0, <3>2, NoRequestFits DEF CallsFit
    <3> QED
      BY <1>0, <1>2, <3>1, <3>2, BrowserCalls, NoRequestFits DEF Dispatched, CallsFit
  <2> QED
    BY <1>0, <2>1, <2>2 DEF AccTypes, A!TypeOK, A!server, A!AccountsAssumption,
       A!AccountPagesAssumption
<1>3. CASE A!Time
  <2>1. clock' \in 0..MaxStep
    BY <1>0, <1>3 DEF A!Time, A!Tick, A!TypeOK, AccTypes, A!AccountsAssumption
  <2> QED
    BY <1>0, <1>3, <2>1 DEF A!Time, A!Tick, A!client, AccTypes, A!TypeOK, CallsFit,
       A!AccountsAssumption,
       A!AccountPagesAssumption
<1>4. CASE UNCHANGED A!vars
  BY <1>0, <1>4 DEF A!vars, A!server, A!client, AccTypes, A!TypeOK, CallsFit,
     A!AccountsAssumption,
     A!AccountPagesAssumption
<1> QED
  BY <1>1, <1>2, <1>3, <1>4 DEF A!Next

-----------------------------------------------------------------------------
(* Codes *)

LEMMA NextSecretsOnce ==
  ASSUME AccInv, NEW d \in A!Callers, A!Server(d)
  PROVE  SecretsOnce'
<1> USE DEF SecretsOnce
<1>0. /\ request[d] \in Calls /\ Carries(request[d]) /\ user \in A!UserRow /\ SecretsOnce
      /\ made \in Nat /\ uses \in [A!Codes -> Nat] /\ MaxStep \in Nat /\ None \notin Nat
      /\ user.secret \in Nat /\ user.pending \in Nat
  BY UserFields DEF AccInv, AccTypes, CallsFit, A!TypeOK, A!AccountsAssumption
<1>c. \A c \in A!Codes : c.secret \in Nat \ {0} /\ c.step \in Nat
  BY CodeFields
<1>1. CASE A!Consume(d)
  <2>1. request[d].code \in A!Codes
    BY <1>0, <1>1 DEF A!Consume, A!Asks, Carries
  <2>2. CASE request[d].code.kind = "recovery"
    <3>1. /\ user'.secret = user.secret /\ user'.pending = user.pending /\ made' = made
          /\ user'.lastStep = user.lastStep
      BY <1>0, <1>1, <2>2 DEF A!Consume, A!UserRow
    <3>2. \A c \in A!Codes : c.kind = "app" => uses'[c] = uses[c]
      BY <1>0, <1>1, <2>1, <2>2 DEF A!Consume
    <3> QED
      BY <1>0, <3>1, <3>2
  <2>3. CASE request[d].code.kind = "app" /\ A!Fresh(request[d].code)
    <3> DEFINE code == request[d].code
    <3>1. /\ user'.secret = user.secret /\ user'.pending = user.pending /\ made' = made
          /\ user'.lastStep = code.step
      BY <1>0, <1>1, <2>3 DEF A!Consume, A!UserRow
    <3>2. /\ uses'[code] = uses[code] + 1
          /\ \A c \in A!Codes : c # code => uses'[c] = uses[c]
      BY <1>0, <1>1, <2>1, <2>3 DEF A!Consume
    <3>3. code.secret <= made /\ (user.pending = 0 \/ code.secret # user.pending)
      BY <1>1, <2>3 DEF AccInv, CodesInHand, A!Consume, A!Asks
    <3>4. user.lastStep = None \/ user.lastStep < code.step
      BY <2>3 DEF A!Fresh
    <3>5. ASSUME NEW c \in A!Codes, c.kind = "app", c.secret = user.secret
          PROVE  (c.step <= code.step /\ uses'[c] <= 1) \/ uses'[c] = 0
      <4>1. user.lastStep = None \/ user.lastStep \in Nat
        BY <1>0, UserFields
      <4>2. code.step \in Nat /\ c.step \in Nat /\ uses[c] \in Nat
        BY <1>0, <1>c, <2>1
      <4>3. CASE uses[c] = 0
        BY <3>2, <4>2, <4>3
      <4>4. CASE uses[c] > 0
        <5>1. user.lastStep # None /\ c.step <= user.lastStep /\ uses[c] <= 1
          BY <1>0, <3>5, <4>4
        <5>2. user.lastStep \in Nat /\ user.lastStep < code.step
          BY <3>4, <4>1, <5>1
        <5>3. c # code
          BY <4>2, <5>1, <5>2
        <5> QED
          BY <3>2, <4>2, <5>1, <5>2, <5>3
      <4> QED
        BY <4>2, <4>3, <4>4
    <3>6. ASSUME NEW c \in A!Codes, c.kind = "app", c.secret > made \/ c.secret = user.pending
          PROVE  uses'[c] = 0
      BY <1>0, <1>c, <2>1, <3>2, <3>3, <3>6
    <3>7. code.step # None
      BY <1>0, <1>c, <2>1
    <3> QED
      BY <1>0, <1>c, <3>1, <3>5, <3>6, <3>7
  <2>4. CASE ~A!Fresh(request[d].code)
    BY <1>0, <1>1, <2>4 DEF A!Consume
  <2> QED
    BY <2>1, <2>2, <2>3, <2>4, CodeFields
<1>2. CASE A!Setup(d)
  <2>1. /\ user'.secret = user.secret /\ user'.pending = made + 1 /\ made' = made + 1
        /\ user'.lastStep = user.lastStep /\ uses' = uses
    BY <1>0, <1>2 DEF A!Setup, A!UserRow
  <2>2. \A c \in A!Codes : c.secret > made + 1 \/ c.secret = made + 1 => c.secret > made
    BY <1>0, <1>c
  <2> QED
    BY <1>0, <1>c, <2>1, <2>2
<1>3. CASE A!Enable(d)
  <2>1. request[d].code \in A!Codes
    BY <1>0, <1>3 DEF A!Enable, A!Asks, Carries
  <2> DEFINE code == request[d].code
  <2>2. /\ user'.secret = user.pending /\ user'.pending = 0 /\ made' = made
        /\ user'.lastStep = code.step
    BY <1>0, <1>3 DEF A!Enable, A!UserRow
  <2>3. /\ uses'[code] = uses[code] + 1
        /\ \A c \in A!Codes : c # code => uses'[c] = uses[c]
    BY <1>0, <1>3, <2>1 DEF A!Enable
  <2>4. code.secret <= made
    BY <1>3 DEF AccInv, CodesInHand, A!Enable, A!Asks
  <2>5. ASSUME NEW c \in A!Codes, c.kind = "app", c.secret > made
        PROVE  uses'[c] = 0
    BY <1>0, <1>c, <2>1, <2>3, <2>4, <2>5
  <2>6. ASSUME NEW c \in A!Codes, c.kind = "app", c.secret = user.pending
        PROVE  uses'[c] = 0 \/ (c = code /\ uses'[c] = 1)
    BY <1>0, <2>3, <2>6
  <2>7. code.step \in Nat /\ code.step # None
    BY <1>0, <1>c, <2>1
  <2> QED
    BY <1>0, <1>c, <2>2, <2>5, <2>6, <2>7
<1>4. CASE A!Disable(d)
  <2>1. /\ user'.secret = 0 /\ user'.pending = 0 /\ made' = made
        /\ \A c \in A!Codes : c.kind = "app" => uses'[c] = 0
    BY <1>0, <1>4 DEF A!Disable, A!UserRow
  <2> QED
    BY <1>0, <1>c, <2>1
<1>5. CASE A!Register(d) \/ A!ChangePassword(d)
  <2>1. /\ user'.secret = user.secret /\ user'.pending = user.pending /\ made' = made
        /\ user'.lastStep = user.lastStep /\ uses' = uses
    BY <1>0, <1>5 DEF A!Register, A!ChangePassword, A!UserRow
  <2> QED
    BY <1>0, <2>1
<1>6. CASE \/ A!CreateSession(d) \/ A!Logout(d) \/ A!Revoke(d) \/ A!RevokeOthers(d) \/ A!Login(d)
           \/ A!ReadFactor(d) \/ A!RequireUser(d) \/ A!CheckPassword(d) \/ A!ReadPending(d)
  BY <1>0, <1>6 DEF A!CreateSession, A!Logout, A!Revoke, A!RevokeOthers, A!Login, A!ReadFactor,
     A!RequireUser,
     A!CheckPassword, A!ReadPending, A!server
<1> QED
  BY <1>1, <1>2, <1>3, <1>4, <1>5, <1>6 DEF A!Server

LEMMA NextRecoveryOnce ==
  ASSUME AccInv, NEW d \in A!Callers, A!Server(d)
  PROVE  RecoveryOnce'
<1> USE DEF RecoveryOnce
<1>0. /\ request[d] \in Calls /\ Carries(request[d]) /\ user \in A!UserRow /\ RecoveryOnce
      /\ uses \in [A!Codes -> Nat] /\ user.issued \in Nat /\ user.codes \subseteq Nat
  BY UserFields DEF AccInv, AccTypes, CallsFit, A!TypeOK, A!AccountsAssumption
<1>c. \A c \in A!Codes : c.secret \in Nat \ {0}
  BY CodeFields
<1>1. CASE A!Consume(d)
  <2>1. request[d].code \in A!Codes
    BY <1>0, <1>1 DEF A!Consume, A!Asks, Carries
  <2>2. CASE request[d].code.kind = "recovery" /\ A!Fresh(request[d].code)
    <3> DEFINE code == request[d].code
    <3>1. user'.codes = user.codes \ {code.secret} /\ user'.issued = user.issued
      BY <1>0, <1>1, <2>2 DEF A!Consume, A!UserRow
    <3>2. /\ uses'[code] = uses[code] + 1
          /\ \A c \in A!Codes : c # code => uses'[c] = uses[c]
      BY <1>0, <1>1, <2>1, <2>2 DEF A!Consume
    <3>3. code.secret \in user.codes /\ uses[code] = 0 /\ code.secret <= user.issued
      BY <1>0, <2>1, <2>2 DEF A!Fresh
    <3> QED
      BY <1>0, <1>c, <2>1, <3>1, <3>2, <3>3
  <2>3. CASE request[d].code.kind = "app"
    <3>1. user'.codes = user.codes /\ user'.issued = user.issued
      BY <1>0, <1>1, <2>3 DEF A!Consume, A!UserRow
    <3>2. \A c \in A!Codes : c.kind = "recovery" => uses'[c] = uses[c]
      BY <1>0, <1>1, <2>1, <2>3 DEF A!Consume
    <3> QED
      BY <1>0, <3>1, <3>2
  <2>4. CASE ~A!Fresh(request[d].code)
    BY <1>0, <1>1, <2>4 DEF A!Consume
  <2> QED
    BY <2>1, <2>2, <2>3, <2>4, CodeFields
<1>2. CASE A!Enable(d)
  <2>1. request[d].code \in A!Codes
    BY <1>0, <1>2 DEF A!Enable, A!Asks, Carries
  <2>2. request[d].code.kind = "app"
    BY <1>2 DEF AccInv, CodesInHand, A!Enable, A!Asks
  <2>3. user'.codes = {user.issued + 1} /\ user'.issued = user.issued + 1
    BY <1>0, <1>2 DEF A!Enable, A!UserRow
  <2>4. \A c \in A!Codes : c.kind = "recovery" => uses'[c] = uses[c]
    BY <1>0, <1>2, <2>1, <2>2 DEF A!Enable
  <2> QED
    BY <1>0, <1>c, <2>3, <2>4
<1>3. CASE A!Disable(d)
  <2>1. /\ user'.codes = {} /\ user'.issued = user.issued
        /\ \A c \in A!Codes : c.kind = "recovery" => uses'[c] = uses[c]
    BY <1>0, <1>3 DEF A!Disable, A!UserRow
  <2> QED
    BY <1>0, <2>1
<1>4. CASE A!Register(d) \/ A!ChangePassword(d) \/ A!Setup(d)
  <2>1. user'.codes = user.codes /\ user'.issued = user.issued /\ uses' = uses
    BY <1>0, <1>4 DEF A!Register, A!ChangePassword, A!Setup, A!UserRow
  <2> QED
    BY <1>0, <2>1
<1>5. CASE \/ A!CreateSession(d) \/ A!Logout(d) \/ A!Revoke(d) \/ A!RevokeOthers(d) \/ A!Login(d)
           \/ A!ReadFactor(d) \/ A!RequireUser(d) \/ A!CheckPassword(d) \/ A!ReadPending(d)
  BY <1>0, <1>5 DEF A!CreateSession, A!Logout, A!Revoke, A!RevokeOthers, A!Login, A!ReadFactor,
     A!RequireUser,
     A!CheckPassword, A!ReadPending, A!server
<1> QED
  BY <1>1, <1>2, <1>3, <1>4, <1>5 DEF A!Server

LEMMA NextCodesInHand ==
  ASSUME AccInv, NEW d \in A!Callers, A!Server(d)
  PROVE  CodesInHand'
<1> USE DEF CodesInHand
<1>0. /\ request \in [A!Callers -> Calls] /\ request[d] \in Calls /\ Carries(request[d])
      /\ user \in A!UserRow /\ CodesInHand /\ SecretsOnce /\ made \in Nat
      /\ user.secret \in Nat /\ user.pending \in Nat
      /\ \A e \in A!Callers : request[e] \in Calls /\ Carries(request[e])
  BY UserFields DEF AccInv, AccTypes, CallsFit, A!TypeOK, A!AccountsAssumption
<1>c. \A c \in A!Codes : c.secret \in Nat \ {0}
  BY CodeFields
<1>1. CASE A!ReadFactor(d)
  <2>1. /\ request[d].op \in {"login", "disable"} /\ user' = user /\ made' = made
        /\ \A e \in A!Callers \ {d} : request'[e] = request[e]
        /\ request'[d].op = request[d].op /\ request'[d].code = request[d].code
    BY <1>0, <1>1 DEF A!ReadFactor, A!Asks, A!Goes, Calls, A!server
  <2>2. request'[d].at = "consume" /\ request[d].code.kind = "app" =>
          user.secret # 0 /\ request[d].code.secret = user.secret
    BY <1>0, <1>1 DEF A!ReadFactor, A!Goes, Calls, A!VerifyTotp
  <2>3. /\ request'[d].at # "write"
        /\ request'[d].at = "consume" /\ request[d].code.kind = "app" =>
             /\ request[d].code.secret <= made
             /\ user.pending = 0 \/ request[d].code.secret # user.pending
    BY <1>0, <1>1, <2>2 DEF A!ReadFactor, A!Goes, Calls, SecretsOnce
  <2> QED
    BY <1>0, <2>1, <2>3
<1>2. CASE A!ReadPending(d)
  <2>1. PICK a \in {"conflict", "write", "totp_invalid"} :
          /\ request' = [request EXCEPT ![d].seen = user.pending, ![d].at = a]
          /\ a = "write" => A!VerifyTotp(user.pending, request[d].code)
    BY <1>2 DEF A!ReadPending
  <2>2. /\ request[d].op = "enable" /\ user' = user /\ made' = made
        /\ \A e \in A!Callers \ {d} : request'[e] = request[e]
        /\ request'[d].code = request[d].code /\ request'[d].at = a
    BY <1>0, <1>2, <2>1 DEF A!ReadPending, A!Asks, Calls, A!server
  <2>3. a = "write" => request[d].code.kind = "app" /\ request[d].code.secret = user.pending
    BY <2>1 DEF A!VerifyTotp
  <2> QED
    BY <1>0, <2>2, <2>3 DEF SecretsOnce
<1>3. CASE A!Setup(d)
  <2>1. /\ \A e \in A!Callers \ {d} : request'[e] = request[e]
        /\ request'[d].at = "ok"
        /\ made' = made + 1 /\ user'.pending = made + 1
    BY <1>0, <1>3 DEF A!Setup, Calls, A!UserRow
  <2>2. ASSUME NEW e \in A!Callers, request[e].at = "consume" \/ request[e].op = "enable"
        PROVE  request[e].code.secret \in Nat
    BY <1>0, <1>c, <2>2 DEF Carries
  <2>3. ASSUME NEW e \in A!Callers \ {d}, request[e].at = "consume", request[e].code.kind = "app"
        PROVE  request[e].code.secret <= made + 1 /\ request[e].code.secret # made + 1
    BY <1>0, <2>2, <2>3
  <2>4. ASSUME NEW e \in A!Callers \ {d}, request[e].op = "enable", request[e].at = "write"
        PROVE  request[e].code.kind = "app" /\ request[e].code.secret <= made + 1
    BY <1>0, <2>2, <2>4
  <2> QED
    BY <2>1, <2>3, <2>4
<1>4. CASE A!Enable(d) \/ A!Disable(d)
  <2>1. /\ \A e \in A!Callers \ {d} : request'[e] = request[e]
        /\ request'[d].at = "ok"
    BY <1>0, <1>4 DEF A!Enable, A!Disable, A!Answers, A!Goes, Calls
  <2>2. made' = made /\ user'.pending = 0
    BY <1>0, <1>4 DEF A!Enable, A!Disable, A!UserRow
  <2> QED
    BY <1>0, <2>1, <2>2
<1>5. CASE A!Register(d) \/ A!ChangePassword(d) \/ A!Consume(d)
  <2>1. /\ \A e \in A!Callers \ {d} : request'[e] = request[e]
        /\ request'[d].at \in {"username_taken", "insert", "ok", "totp_invalid", "clear"}
    BY <1>0, <1>5 DEF A!Register, A!ChangePassword, A!Consume, A!Answers, A!Goes, Calls
  <2>2. made' = made /\ user'.pending = user.pending
    BY <1>0, <1>5 DEF A!Register, A!ChangePassword, A!Consume, A!UserRow
  <2> QED
    BY <1>0, <2>1, <2>2
<1>6. CASE A!CheckPassword(d)
  <2>1. /\ \A e \in A!Callers \ {d} : request'[e] = request[e]
        /\ request'[d].at \in {"invalid_credentials", "write", "ok", "factor"}
        /\ request'[d].op = request[d].op /\ request[d].op \in {"password", "disable"}
        /\ made' = made /\ user' = user
    BY <1>0, <1>6 DEF A!CheckPassword, A!Asks, A!Goes, Calls, A!server
  <2> QED
    BY <1>0, <2>1
<1>7. CASE A!CreateSession(d)
  <2>1. /\ \A e \in A!Callers \ {d} : request'[e] = request[e]
        /\ request'[d].at = "ok"
        /\ made' = made /\ user' = user
    BY <1>0, <1>7 DEF A!CreateSession, Calls
  <2> QED
    BY <1>0, <2>1
<1>9. CASE A!RequireUser(d)
  <2>1. PICK v, a : request' = [request EXCEPT ![d].seen = v, ![d].at = a]
                    /\ a \in {"ok", "unauthorized", "conflict", "user"}
    BY <1>9 DEF A!RequireUser
  <2>2. /\ \A e \in A!Callers \ {d} : request'[e] = request[e]
        /\ request'[d].at \in {"ok", "unauthorized", "conflict", "user"}
    BY <1>0, <2>1 DEF Calls
  <2> QED
    BY <1>0, <1>9, <2>2 DEF A!RequireUser, A!server
<1>8. CASE A!Logout(d) \/ A!Revoke(d) \/ A!RevokeOthers(d) \/ A!Login(d)
  <2>1. /\ \A e \in A!Callers \ {d} : request'[e] = request[e]
        /\ request'[d].at \in A!Answered \cup {"insert", "factor"}
        /\ made' = made /\ user' = user
    BY <1>0, <1>8 DEF A!Logout, A!Revoke, A!RevokeOthers, A!Login, A!Answers, A!Goes, Calls,
       A!server, A!Answered
  <2> QED
    BY <1>0, <2>1 DEF A!Answered
<1> QED
  BY <1>1, <1>2, <1>3, <1>4, <1>5, <1>6, <1>7, <1>8, <1>9 DEF A!Server

LEMMA AccInitInv == A!AccountsAssumption /\ A!AccountPagesAssumption /\ A!Init => AccInv
<1> SUFFICES ASSUME A!AccountsAssumption, A!AccountPagesAssumption, A!Init PROVE AccInv
  OBVIOUS
<1>0. 0 \in 0..MaxSecret /\ 0 \in 0..MaxStep
  BY DEF A!AccountsAssumption
<1>1. PICK p \in Passwords :
        user = [exists |-> FALSE, pw |-> p, secret |-> 0, pending |-> 0, enabled |-> FALSE,
                lastStep |-> None, codes |-> {}, issued |-> 0, overtaken |-> FALSE]
  BY DEF A!Init, A!InitServer
<1>2. user \in A!UserRow
  BY <1>0, <1>1 DEF A!UserRow
<1>3. A!FirstTab \in A!Tab
  BY <1>0 DEF A!FirstTab, A!Tab
<1>4. A!TypeOK
  BY <1>0, <1>2, <1>3 DEF A!Init, A!InitServer, A!TypeOK
<1>5. CallsFit
  BY NoRequestFits DEF A!Init, A!InitServer, CallsFit
<1>6. /\ user.secret = 0 /\ user.pending = 0 /\ user.codes = {} /\ user.issued = 0 /\ made = 0
      /\ uses = [c \in A!Codes |-> 0] /\ \A d \in A!Callers : request[d].at = "idle"
  BY <1>1 DEF A!Init, A!InitServer, A!NoRequest
<1>7. \A c \in A!Codes : c.secret \in Nat \ {0} /\ uses[c] = 0
  BY <1>6, CodeFields
<1> QED
  BY <1>4, <1>5, <1>6, <1>7 DEF AccInv, AccTypes, SecretsOnce, RecoveryOnce, CodesInHand

LEMMA AccNextInv == AccInv /\ [A!Next]_A!vars => AccInv'
<1> SUFFICES ASSUME AccInv, [A!Next]_A!vars PROVE AccInv'
  OBVIOUS
<1>0. AccTypes /\ AccTypes'
  BY AccNextTypes DEF AccInv
<1>1. ASSUME NEW d \in A!Callers, A!ServerStep(d)
      PROVE  AccInv'
  BY <1>0, <1>1, NextSecretsOnce, NextRecoveryOnce, NextCodesInHand DEF A!ServerStep, AccInv
<1>2. ASSUME NEW d \in Devices, A!Browser(d)
      PROVE  AccInv'
  <2>1. /\ UNCHANGED A!server
        /\ \A e \in A!Callers : \/ request'[e].at \in {"idle", "sent"}
                                \/ \E f \in A!Callers : request'[e] = request[f]
    <3>1. d \in A!Callers /\ request \in [A!Callers -> Calls]
      BY <1>0 DEF A!Callers, AccTypes, CallsFit
    <3> QED
      BY <1>0, <1>2, <3>1, BrowserCalls DEF A!NoRequest, Dispatched
  <2>2. SecretsOnce' /\ RecoveryOnce'
    BY <2>1 DEF AccInv, SecretsOnce, RecoveryOnce, A!server
  <2>3. CodesInHand'
    BY <2>1 DEF AccInv, CodesInHand, A!server
  <2> QED
    BY <1>0, <2>2, <2>3 DEF AccInv
<1>3. CASE A!Time \/ UNCHANGED A!vars
  BY <1>0, <1>3 DEF A!Time, A!Tick, A!vars, A!server, AccInv, SecretsOnce, RecoveryOnce,
     CodesInHand
<1> QED
  BY <1>1, <1>2, <1>3 DEF A!Next

LEMMA AccCodesOnce == AccInv => A!CodesOnce
<1> SUFFICES ASSUME AccInv, NEW c \in A!Codes, c.kind = "recovery" \/ c.secret = user.secret
             PROVE  uses[c] <= 1
  BY DEF A!CodesOnce
<1> QED
  BY CodeFields DEF AccInv, SecretsOnce, RecoveryOnce

-----------------------------------------------------------------------------
(* The owner *)

\* A code that is checked is one of a secret its owner has scanned: the one read from the row, if
\* the check has succeeded.
AtSetup ==
  \A d \in A!Callers : request[d].op = "enable" =>
    /\ request[d].code.kind = "app" /\ request[d].code.secret \in app
    /\ request[d].at = "write" => request[d].code.secret = request[d].seen

SecretScanned == user.enabled => user.secret \in app \/ user.overtaken

\* A recovery code has been seen, or its answer is lost, or on its way.
Known(n) == n \in kept \cup lost \/ \E d \in A!Callers : n \in A!Issued(d)

CodesKnown == \A n \in user.codes : Known(n)

OwnerInv == AccInv /\ AtSetup /\ SecretScanned /\ CodesKnown

LEMMA ServerAtSetup ==
  ASSUME OwnerInv, NEW d \in A!Callers, A!ServerStep(d)
  PROVE  AtSetup' /\ SecretScanned' /\ CodesKnown'
<1>0. /\ request \in [A!Callers -> Calls] /\ request[d] \in Calls /\ user \in A!UserRow
      /\ AtSetup /\ SecretScanned /\ CodesKnown /\ UNCHANGED A!client /\ A!Server(d)
  BY DEF OwnerInv, AccInv, AccTypes, CallsFit, A!TypeOK, A!ServerStep
<1>1. \A e \in A!Callers \ {d} : request'[e] = request[e]
  BY <1>0 DEF A!Server, A!Register, A!Login, A!CreateSession, A!Logout, A!ReadFactor, A!Consume,
     A!RequireUser, A!CheckPassword, A!ChangePassword, A!Revoke, A!RevokeOthers, A!Setup,
     A!ReadPending, A!Enable, A!Disable, A!Goes, A!Answers
<1>2. request'[d].op = request[d].op /\ request'[d].code = request[d].code
  <2>1. ASSUME NEW a, A!Goes(d, a)
        PROVE  request'[d].op = request[d].op /\ request'[d].code = request[d].code
    BY <1>0, <2>1 DEF A!Goes, Calls
  <2>2. CASE A!CreateSession(d)
    BY <1>0, <2>2 DEF A!CreateSession, Calls
  <2>3. CASE A!RequireUser(d)
    BY <1>0, <2>3 DEF A!RequireUser, Calls
  <2>4. CASE A!Setup(d)
    BY <1>0, <2>4 DEF A!Setup, Calls
  <2>5. CASE A!ReadPending(d)
    BY <1>0, <2>5 DEF A!ReadPending, Calls
  <2>6. CASE A!Enable(d)
    BY <1>0, <2>6 DEF A!Enable, Calls
  <2>7. ASSUME ~(A!CreateSession(d) \/ A!RequireUser(d) \/ A!Setup(d) \/ A!ReadPending(d) \/ A!Enable(d))
        PROVE  \E a : A!Goes(d, a)
    BY <1>0, <2>7 DEF A!Server, A!Register, A!Login, A!Logout, A!ReadFactor, A!Consume,
       A!CheckPassword, A!ChangePassword, A!Revoke, A!RevokeOthers, A!Disable, A!Answers
  <2> QED
    BY <2>1, <2>2, <2>3, <2>4, <2>5, <2>6, <2>7
<1>3. request[d].at # "ok"
  BY <1>0 DEF A!Server, A!Register, A!Login, A!CreateSession, A!Logout, A!ReadFactor, A!Consume,
     A!RequireUser, A!CheckPassword, A!ChangePassword, A!Revoke, A!RevokeOthers, A!Setup,
     A!ReadPending, A!Enable, A!Disable, A!Asks
<1>4. request[d].op = "enable" /\ request'[d].at = "write" => request'[d].code.secret = request'[d].seen
  <2> SUFFICES ASSUME request[d].op = "enable" PROVE request'[d].at = "write" => request'[d].code.secret = request'[d].seen
    OBVIOUS
  <2>1. A!RequireUser(d) \/ A!ReadPending(d) \/ A!Enable(d)
    BY <1>0 DEF A!Server, A!Register, A!Login, A!CreateSession, A!Logout, A!ReadFactor, A!Consume,
       A!CheckPassword, A!ChangePassword, A!Revoke, A!RevokeOthers, A!Setup, A!Disable, A!Asks
  <2>2. CASE A!RequireUser(d)
    <3>1. PICK v, a : request' = [request EXCEPT ![d].seen = v, ![d].at = a]
                      /\ a \in {"ok", "unauthorized", "conflict", "user"}
      BY <2>2 DEF A!RequireUser
    <3> QED
      BY <1>0, <3>1 DEF Calls
  <2>3. CASE A!ReadPending(d)
    <3>1. PICK a \in {"conflict", "write", "totp_invalid"} :
            /\ request' = [request EXCEPT ![d].seen = user.pending, ![d].at = a]
            /\ a = "write" => A!VerifyTotp(user.pending, request[d].code)
      BY <2>3 DEF A!ReadPending
    <3>2. request'[d].at = a /\ request'[d].seen = user.pending
      BY <1>0, <3>1 DEF Calls
    <3> QED
      BY <1>2, <3>1, <3>2 DEF A!VerifyTotp
  <2>4. CASE A!Enable(d)
    BY <1>0, <2>4 DEF A!Enable, Calls
  <2> QED
    BY <2>1, <2>2, <2>3, <2>4
<1>5. AtSetup'
  <2>1. app' = app
    BY <1>0 DEF A!client
  <2>2. ASSUME NEW e \in A!Callers, request'[e].op = "enable"
        PROVE  /\ request'[e].code.kind = "app" /\ request'[e].code.secret \in app
               /\ request'[e].at = "write" => request'[e].code.secret = request'[e].seen
    BY <1>0, <1>1, <1>2, <1>4, <2>2 DEF AtSetup
  <2> QED
    BY <2>1, <2>2 DEF AtSetup, A!Callers
<1>6. \A n : Known(n) => Known(n)'
  BY <1>0, <1>1, <1>3 DEF Known, A!Issued, A!client, A!Callers
<1>7. ASSUME user'.enabled = user.enabled, user'.secret = user.secret,
             user'.overtaken = user.overtaken, user'.codes \subseteq user.codes
      PROVE  SecretScanned' /\ CodesKnown'
  <2>1. SecretScanned'
    BY <1>0, <1>7 DEF SecretScanned, A!client
  <2>2. CodesKnown'
    BY <1>0, <1>6, <1>7 DEF CodesKnown
  <2> QED
    BY <2>1, <2>2
<1>8. CASE A!Enable(d)
  <2>1. /\ user'.secret = user.pending /\ user'.codes = {user.issued + 1}
        /\ user'.overtaken = (user.pending # request[d].seen)
        /\ request[d].op = "enable" /\ request[d].at = "write"
    BY <1>0, <1>8 DEF A!Enable, A!Asks, A!UserRow
  <2>2. request'[d].seen = user.issued + 1 /\ request'[d].at = "ok"
    BY <1>0, <1>8 DEF A!Enable, Calls
  <2>3. request[d].code.secret = request[d].seen /\ request[d].code.secret \in app
    BY <1>0, <2>1 DEF AtSetup
  <2>4. SecretScanned'
    BY <1>0, <2>1, <2>3 DEF SecretScanned, A!client
  <2>5. A!Issued(d)' = {user.issued + 1}
    BY <1>2, <2>1, <2>2 DEF A!Issued
  <2>6. CodesKnown'
    BY <2>1, <2>5 DEF CodesKnown, Known, A!Callers
  <2> QED
    BY <1>5, <2>4, <2>6
<1>9. CASE A!Disable(d)
  <2>1. ~user'.enabled /\ user'.codes = {}
    BY <1>0, <1>9 DEF A!Disable, A!UserRow
  <2> QED
    BY <1>5, <2>1 DEF SecretScanned, CodesKnown
<1>10. CASE A!Consume(d) \/ A!Register(d) \/ A!ChangePassword(d) \/ A!Setup(d)
  <2>1. /\ user'.enabled = user.enabled /\ user'.secret = user.secret
        /\ user'.overtaken = user.overtaken /\ user'.codes \subseteq user.codes
    <3>1. CASE A!Consume(d)
      BY <1>0, <3>1 DEF A!Consume, A!UserRow
    <3>2. CASE A!Register(d) \/ A!ChangePassword(d) \/ A!Setup(d)
      BY <1>0, <3>2 DEF A!Register, A!ChangePassword, A!Setup, A!UserRow
    <3> QED
      BY <1>10, <3>1, <3>2
  <2> QED
    BY <1>5, <1>7, <2>1
<1>11. CASE \/ A!CreateSession(d) \/ A!Logout(d) \/ A!Revoke(d) \/ A!RevokeOthers(d) \/ A!Login(d)
            \/ A!ReadFactor(d) \/ A!RequireUser(d) \/ A!CheckPassword(d) \/ A!ReadPending(d)
  <2>1. user' = user
    BY <1>11 DEF A!CreateSession, A!Logout, A!Revoke, A!RevokeOthers, A!Login, A!ReadFactor,
       A!RequireUser, A!CheckPassword, A!ReadPending, A!server
  <2> QED
    BY <1>5, <1>7, <2>1
<1> QED
  BY <1>0, <1>8, <1>9, <1>10, <1>11 DEF A!Server

\* A recovery code whose request is forgotten has been seen, or counts as lost.
LEMMA BrowserKnows ==
  ASSUME AccTypes, NEW d \in Devices, A!Browser(d), NEW n, Known(n)
  PROVE  Known(n)'
<1>0. /\ request \in [A!Callers -> Calls] /\ d \in A!Callers /\ Unheard \subseteq A!Callers
      /\ kept \subseteq kept' /\ lost \subseteq lost' /\ A!Issued(d) \subseteq {request[d].seen}
  BY BrowserTypes DEF AccTypes, CallsFit, A!Callers, A!Issued
<1>1. ASSUME n \in kept' \cup lost'
      PROVE  Known(n)'
  BY <1>1 DEF Known
<1>2. ASSUME NEW e \in A!Callers, n \in A!Issued(e)'
      PROVE  Known(n)'
  BY <1>2 DEF Known, A!Callers
<1>3. CASE n \in kept \cup lost
  BY <1>0, <1>1, <1>3
<1>4. ASSUME NEW e \in A!Callers, n \in A!Issued(e), request'[e] = request[e]
      PROVE  Known(n)'
  BY <1>2, <1>4 DEF A!Issued
<1>5. ASSUME NEW e \in A!Callers \ {d}, n \in A!Issued(e), NEW r, request' = [request EXCEPT ![d] = r]
      PROVE  Known(n)'
  BY <1>0, <1>4, <1>5
<1>6. CASE n \in A!Issued(d)
  <2>0. request[d].op = "enable" /\ request[d].at = "ok"
    BY <1>6 DEF A!Issued
  <2>1. CASE A!EnableAnswered(d)
    BY <1>0, <1>1, <1>6, <2>0, <2>1 DEF A!EnableAnswered
  <2>2. CASE A!Lost(d) \/ A!Reload(d)
    <3>1. A!GivesUp(d)
      BY <2>2 DEF A!Lost, A!Reload
    <3>2. n \in lost'
      BY <1>6, <2>0, <3>1 DEF A!GivesUp, A!Answered
    <3> QED
      BY <1>1, <3>2
  <2>3. CASE request' = request
    BY <1>0, <1>4, <1>6, <2>3
  <2>4. ASSUME ~A!EnableAnswered(d), ~A!Lost(d), ~A!Reload(d), request' # request
        PROVE  FALSE
    <3>1. request[d] = A!NoRequest \/ request[d].op # "enable"
      BY <2>4 DEF A!Browser, A!SetAuth, A!RetryAuth, A!SubmitPassword, A!SubmitCode, A!Back,
         A!LoginAnswered, A!LogoutClicked, A!LogoutAnswered, A!LoadStatus, A!StartSetup,
         A!SetupAnswered, A!CancelSetup, A!ConfirmSetup, A!CodesSaved, A!SubmitDisable,
         A!DisableAnswered, A!SubmitNewPassword, A!SubmitRevoke, A!FormAnswered, A!Sends, A!Idle
    <3> QED
      BY <2>0, <3>1 DEF A!NoRequest
  <2> QED
    BY <2>1, <2>2, <2>3, <2>4
<1>7. ASSUME NEW e \in A!Callers \ {d}, n \in A!Issued(e)
      PROVE  Known(n)'
  <2>1. CASE request' = request \/ \E r : request' = [request EXCEPT ![d] = r]
    BY <1>0, <1>4, <1>5, <1>7, <2>1
  <2>2. ASSUME NEW u \in Unheard, request' = [request EXCEPT ![u] = request[d], ![d] = A!NoRequest],
               lost' = lost \cup A!Issued(u)
        PROVE  Known(n)'
    <3>1. CASE e = u
      BY <1>1, <1>7, <2>2, <3>1
    <3>2. CASE e # u
      BY <1>0, <1>4, <1>7, <2>2, <3>2
    <3> QED
      BY <3>1, <3>2
  <2>3. CASE A!Lost(d) \/ A!Reload(d)
    BY <2>1, <2>2, <2>3 DEF A!Lost, A!Reload, A!GivesUp
  <2>4. ASSUME ~A!Lost(d), ~A!Reload(d)
        PROVE  request' = request \/ \E r : request' = [request EXCEPT ![d] = r]
    BY <2>4 DEF A!Browser, A!SetAuth, A!RetryAuth, A!SubmitPassword, A!SubmitCode, A!Back,
       A!LoginAnswered, A!LogoutClicked, A!LogoutAnswered, A!LoadStatus, A!StartSetup,
       A!SetupAnswered, A!CancelSetup, A!ConfirmSetup, A!EnableAnswered, A!CodesSaved,
       A!SubmitDisable, A!DisableAnswered, A!SubmitNewPassword, A!SubmitRevoke, A!FormAnswered,
       A!Sends, A!client
  <2> QED
    BY <2>1, <2>3, <2>4
<1> QED
  BY <1>3, <1>6, <1>7 DEF Known

LEMMA BrowserAtSetup ==
  ASSUME OwnerInv, NEW d \in Devices, A!Browser(d)
  PROVE  AtSetup' /\ SecretScanned' /\ CodesKnown'
<1>0. /\ AccTypes /\ AtSetup /\ SecretScanned /\ CodesKnown /\ app \subseteq app' /\ user' = user
      /\ request \in [A!Callers -> Calls] /\ d \in A!Callers
  BY BrowserCalls, BrowserTypes
     DEF OwnerInv, AccInv, AccTypes, CallsFit, A!Callers, A!server
<1>1. AtSetup'
  <2> SUFFICES ASSUME NEW e \in A!Callers, request'[e].op = "enable"
               PROVE  /\ request'[e].code.kind = "app" /\ request'[e].code.secret \in app
                      /\ request'[e].at = "write" => request'[e].code.secret = request'[e].seen
    BY <1>0 DEF AtSetup, A!Callers
  <2>1. \/ \E f \in A!Callers : request'[e] = request[f]
        \/ request'[e] = A!NoRequest
        \/ \E r \in Calls : Dispatched(r) /\ FromApp(r) /\ request'[e] = r
    BY <1>0, BrowserCalls
  <2>2. ASSUME NEW r \in Calls, Dispatched(r), FromApp(r), request'[e] = r
        PROVE  /\ request'[e].code.kind = "app" /\ request'[e].code.secret \in app
               /\ request'[e].at # "write"
    BY <2>2 DEF Dispatched, FromApp
  <2>3. request'[e] # A!NoRequest
    BY DEF A!NoRequest
  <2>4. ASSUME NEW f \in A!Callers, request'[e] = request[f]
        PROVE  /\ request'[e].code.kind = "app" /\ request'[e].code.secret \in app
               /\ request'[e].at = "write" => request'[e].code.secret = request'[e].seen
    BY <1>0, <2>4 DEF AtSetup
  <2> QED
    BY <2>1, <2>2, <2>3, <2>4
<1>2. SecretScanned'
  BY <1>0 DEF SecretScanned
<1>3. CodesKnown'
  BY <1>0, BrowserKnows DEF CodesKnown
<1> QED
  BY <1>1, <1>2, <1>3

LEMMA OwnerInitInv ==
  A!AccountsAssumption /\ A!AccountPagesAssumption /\ A!Init => OwnerInv
<1> SUFFICES ASSUME A!AccountsAssumption, A!AccountPagesAssumption, A!Init PROVE OwnerInv
  OBVIOUS
<1>1. /\ ~user.enabled /\ user.codes = {}
      /\ \A d \in A!Callers : request[d].op = "none"
  BY DEF A!Init, A!InitServer, A!NoRequest
<1> QED
  BY <1>1, AccInitInv DEF OwnerInv, AtSetup, SecretScanned, CodesKnown

LEMMA OwnerNextInv == OwnerInv /\ [A!Next]_A!vars => OwnerInv'
<1> SUFFICES ASSUME OwnerInv, [A!Next]_A!vars PROVE OwnerInv'
  OBVIOUS
<1>1. AccInv'
  BY AccNextInv DEF OwnerInv
<1>2. CASE A!Time \/ UNCHANGED A!vars
  <2>1. UNCHANGED <<user, request, app, kept, lost>>
    BY <1>2 DEF A!Time, A!Tick, A!vars, A!server, A!client
  <2>2. AtSetup' /\ SecretScanned' /\ CodesKnown'
    BY <2>1 DEF OwnerInv, AtSetup, SecretScanned, CodesKnown, Known, A!Issued
  <2> QED
    BY <1>1, <2>2 DEF OwnerInv
<1> QED
  BY <1>1, <1>2, ServerAtSetup, BrowserAtSetup DEF A!Next, OwnerInv

\* The secret in force is scanned unless the row was written in between, and the codes are known.
LEMMA OwnerPromise == OwnerInv => A!OwnerCanSignIn
<1> SUFFICES ASSUME OwnerInv PROVE A!OwnerCanSignIn
  OBVIOUS
<1>1. ASSUME NEW n \in user.codes
      PROVE  n \in kept \cup lost \cup UNION {A!Issued(d) : d \in A!Callers}
  BY DEF OwnerInv, CodesKnown, Known
<1> QED
  BY <1>1 DEF OwnerInv, SecretScanned, A!OwnerCanSignIn

LEMMA AccInvariant == A!AccountsAssumption /\ A!AccountPagesAssumption /\ A!Spec => []AccInv
<1>1. A!AccountsAssumption /\ A!AccountPagesAssumption /\ A!Init => AccInv
  BY AccInitInv
<1> QED
  BY <1>1, AccNextInv, PTL DEF A!Spec

LEMMA OwnerInvariant ==
  A!AccountsAssumption /\ A!AccountPagesAssumption /\ A!Spec => []OwnerInv
<1>1. A!AccountsAssumption /\ A!AccountPagesAssumption /\ A!Init => OwnerInv
  BY OwnerInitInv
<1> QED
  BY <1>1, OwnerNextInv, PTL DEF A!Spec

-----------------------------------------------------------------------------
(* The broadcast from the browser: what the refs of the panel hold *)

\* What a session that has been handed over means: it sends, and nothing else is being done.
SessionHolds ==
  ui.session # 0 =>
    /\ B!Sending(ui.session) /\ ~B!Opening /\ ~B!Stopping
    /\ ui.media # 0 /\ ui.phase \in {"connecting", "live"}

\* The refs hold what sends and what captures.
RefsHold ==
  /\ \A s \in B!Starts : B!Sending(s) => s = ui.session \/ B!Starting(s)
  /\ \A n \in B!Streams : capture[n] = "on" <=> n = ui.media

\* One call of WhipSession.start at a time; once it is cancelled the panel has moved on.
StartHolds ==
  \A s \in B!Starts : B!Starting(s) =>
    /\ B!Sending(s) /\ ui.session = 0 /\ ~B!Acquiring /\ ~B!Stopping /\ ui.mounted
    /\ \A r \in B!Starts : B!Starting(r) => r = s
    /\ ui.cancelled => ui.phase \in {"idle", "preview"}
    /\ ~ui.cancelled => ui.media # 0 /\ ui.phase \in {"connecting", "live"}

\* One capture is asked for at a time.
CaptureHolds ==
  \A n \in B!Streams : capture[n] \in {"preview", "start"} =>
    /\ ui.media = 0 /\ ui.session = 0 /\ ui.mounted /\ ui.phase \in {"acquiring", "idle"}
    /\ \A m \in B!Streams : capture[m] \in {"preview", "start"} => m = n
    /\ capture[n] = "start" => ~B!Stopping

PhaseHolds ==
  ui.mounted =>
    /\ ui.phase = "live" => ui.session # 0 \/ \E s \in B!Starts : B!Starting(s)
    /\ ui.phase = "idle" => ui.media = 0
    /\ ui.phase = "acquiring" => B!Acquiring

PanelInv ==
  /\ B!BroadcastAssumption /\ B!TypeOK
  /\ ui.raced \/ (SessionHolds /\ RefsHold /\ StartHolds /\ CaptureHolds /\ PhaseHolds)

-----------------------------------------------------------------------------
(* Types *)

LEMMA UiFields ==
  ASSUME NEW u \in B!Ui
  PROVE  /\ u.phase \in B!Phases /\ u.media \in 0..MaxStreams /\ u.session \in 0..MaxStarts
         /\ u.cancelled \in BOOLEAN /\ u.mounted \in BOOLEAN /\ u.raced \in BOOLEAN
         /\ u.media # 0 => u.media \in B!Streams
         /\ u.session # 0 => u.session \in B!Starts
BY DEF B!Ui, B!Streams, B!Starts

\* Assignments to the refs and to the phase.
LEMMA UiAssign ==
  ASSUME B!BroadcastAssumption, NEW u \in B!Ui
  PROVE  /\ \A p \in B!Phases : [u EXCEPT !.phase = p] \in B!Ui
         /\ \A p \in B!Phases, b \in BOOLEAN : [u EXCEPT !.phase = p, !.cancelled = b] \in B!Ui
         /\ \A p \in B!Phases : [u EXCEPT !.session = 0, !.phase = p] \in B!Ui
         /\ \A p \in B!Phases : [u EXCEPT !.media = 0, !.phase = p] \in B!Ui
         /\ \A n \in B!Streams : [u EXCEPT !.media = n] \in B!Ui
         /\ \A b \in BOOLEAN : [u EXCEPT !.raced = b] \in B!Ui
         /\ \A b \in BOOLEAN : [u EXCEPT !.cancelled = b] \in B!Ui
         /\ \A s \in B!Starts, p \in B!Phases : [u EXCEPT !.session = s, !.phase = p] \in B!Ui
         /\ \A p \in B!Phases, b \in BOOLEAN : [u EXCEPT !.phase = p, !.raced = b] \in B!Ui
         /\ [u EXCEPT !.mounted = FALSE, !.session = 0, !.media = 0] \in B!Ui
<1>1. 0 \in 0..MaxStreams /\ 0 \in 0..MaxStarts
  BY DEF B!BroadcastAssumption
<1>2. B!Streams \subseteq 0..MaxStreams /\ B!Starts \subseteq 0..MaxStarts
  BY DEF B!Streams, B!Starts, B!BroadcastAssumption
<1> QED
  BY <1>1, <1>2 DEF B!Ui

LEMMA RacesFields ==
  ASSUME B!BroadcastAssumption, NEW u \in B!Ui
  PROVE  /\ B!Races(u) \in B!Ui /\ B!Races(u).phase = u.phase /\ B!Races(u).media = u.media
         /\ B!Races(u).session = u.session /\ B!Races(u).cancelled = u.cancelled
         /\ B!Races(u).mounted = u.mounted /\ (B!Races(u).raced <=> u.raced \/ B!Opening)
<1>1. (u.raced \/ B!Opening) \in BOOLEAN
  BY DEF B!Opening, B!Acquiring
<1> QED
  BY <1>1 DEF B!Races, B!Ui

LEMMA SettledFields ==
  ASSUME B!BroadcastAssumption, NEW u \in B!Ui, NEW keep \in BOOLEAN
  PROVE  /\ B!Settled(u, keep) \in B!Ui
         /\ B!Settled(u, keep).session = u.session /\ B!Settled(u, keep).cancelled = u.cancelled
         /\ B!Settled(u, keep).mounted = u.mounted /\ B!Settled(u, keep).raced = u.raced
         /\ B!Settled(u, keep).media = IF keep THEN u.media ELSE 0
         /\ B!Settled(u, keep).phase = IF keep /\ u.media # 0 THEN "preview" ELSE "idle"
<1>1. 0 \in 0..MaxStreams
  BY DEF B!BroadcastAssumption
<1>2. CASE keep /\ u.media # 0
  BY <1>2 DEF B!Settled, B!Ui, B!Phases
<1>3. CASE ~(keep /\ u.media # 0)
  BY <1>1, <1>3 DEF B!Settled, B!Ui, B!Phases
<1> QED
  BY <1>2, <1>3

LEMMA ReleasedFields ==
  ASSUME B!TypeOK, NEW u \in B!Ui, NEW keep \in BOOLEAN
  PROVE  /\ B!Released(u, keep) \in [B!Streams -> B!Captures]
         /\ \A n \in B!Streams : B!Released(u, keep)[n] =
              IF ~keep /\ n = u.media THEN "off" ELSE capture[n]
<1>1. \A n \in B!Streams : n # 0
  BY DEF B!Streams
<1>2. CASE keep \/ u.media = 0
  BY <1>1, <1>2 DEF B!TypeOK, B!Released
<1>3. CASE ~(keep \/ u.media = 0)
  <2>1. u.media \in B!Streams /\ B!Released(u, keep) = [capture EXCEPT ![u.media] = "off"]
    BY <1>3, UiFields DEF B!Released
  <2> QED
    BY <1>3, <2>1 DEF B!TypeOK, B!Captures
<1> QED
  BY <1>2, <1>3

\* stopAll, in both its forms.
LEMMA StopAllFields ==
  ASSUME B!BroadcastAssumption, B!TypeOK, NEW u \in B!Ui, NEW keep \in BOOLEAN, B!StopAll(u, keep)
  PROVE  /\ ui' \in B!Ui /\ capture' \in [B!Streams -> B!Captures] /\ whip' \in [B!Starts -> B!WhipSessions]
         /\ ui'.cancelled = u.cancelled /\ ui'.mounted = u.mounted /\ ui'.raced = u.raced
         /\ ui'.session = 0
         /\ u.session = 0 =>
              /\ whip' = whip /\ ui'.media = IF keep THEN u.media ELSE 0
              /\ ui'.phase = IF keep /\ u.media # 0 THEN "preview" ELSE "idle"
              /\ \A n \in B!Streams : capture'[n] = IF ~keep /\ n = u.media THEN "off" ELSE capture[n]
         /\ u.session # 0 =>
              /\ capture' = capture /\ ui'.media = u.media /\ ui'.phase = "stopping"
              /\ \A s \in B!Starts \ {u.session} : whip'[s] = whip[s]
              /\ whip'[u.session].step = whip[u.session].step
              /\ whip'[u.session].pc = "closed" /\ whip'[u.session].stop # "no"
<1>1. CASE u.session = 0
  BY <1>1, SettledFields, ReleasedFields DEF B!StopAll, B!TypeOK
<1>2. CASE u.session # 0
  <2> DEFINE x == IF keep THEN "keep" ELSE "drop"
  <2>1. x \in {"keep", "drop"} /\ u.session \in B!Starts
    BY <1>2, UiFields
  <2>2. whip' = [whip EXCEPT ![u.session] = [whip[u.session] EXCEPT !.pc = "closed", !.stop = x]]
    BY <1>2, <2>1 DEF B!StopAll, B!TypeOK
  <2> HIDE DEF x
  <2>3. [whip[u.session] EXCEPT !.pc = "closed", !.stop = x] \in B!WhipSessions
    BY <2>1 DEF B!TypeOK, B!WhipSessions
  <2>4. /\ whip' \in [B!Starts -> B!WhipSessions]
        /\ \A s \in B!Starts \ {u.session} : whip'[s] = whip[s]
    BY <2>1, <2>2, <2>3 DEF B!TypeOK
  <2>5. /\ whip'[u.session].step = whip[u.session].step
        /\ whip'[u.session].pc = "closed" /\ whip'[u.session].stop # "no"
    BY <2>1, <2>2 DEF B!TypeOK, B!WhipSessions
  <2>6. /\ ui' = [u EXCEPT !.session = 0, !.phase = "stopping"] /\ ui' \in B!Ui /\ capture' = capture
    BY <1>2, UiAssign DEF B!StopAll, B!Phases
  <2>7. /\ ui'.cancelled = u.cancelled /\ ui'.mounted = u.mounted /\ ui'.raced = u.raced
        /\ ui'.session = 0 /\ ui'.media = u.media /\ ui'.phase = "stopping"
    BY <2>6 DEF B!Ui
  <2> QED
    BY <1>2, <2>4, <2>5, <2>6, <2>7 DEF B!TypeOK
<1> QED
  BY <1>1, <1>2

\* A call of WhipSession.start.
LEMMA ConnectFields ==
  ASSUME B!BroadcastAssumption, B!TypeOK, NEW u \in B!Ui, B!Connect(u)
  PROVE  /\ ui' \in B!Ui /\ whip' \in [B!Starts -> B!WhipSessions]
         /\ ui'.cancelled = FALSE /\ ui'.mounted = u.mounted /\ ui'.raced = u.raced
         /\ ui'.session = u.session /\ ui'.media = u.media /\ ui'.phase = "connecting"
         /\ \E s \in B!Starts :
              /\ whip[s].step = "none" /\ \A r \in B!Starts \ {s} : whip'[r] = whip[r]
              /\ whip'[s].step = "offer" /\ whip'[s].pc = "new" /\ whip'[s].stop = whip[s].stop
<1>1. PICK s \in B!Starts : /\ whip[s].step = "none"
                            /\ whip' = [whip EXCEPT ![s].step = "offer", ![s].pc = "new"]
                            /\ ui' = [u EXCEPT !.phase = "connecting", !.cancelled = FALSE]
  BY DEF B!Connect
<1>2. /\ whip'[s].step = "offer" /\ whip'[s].pc = "new" /\ whip'[s].stop = whip[s].stop
      /\ \A r \in B!Starts \ {s} : whip'[r] = whip[r]
  BY <1>1 DEF B!TypeOK, B!WhipSessions
<1>3. whip' \in [B!Starts -> B!WhipSessions]
  <2>1. [whip[s] EXCEPT !.step = "offer", !.pc = "new"] \in B!WhipSessions
    BY DEF B!TypeOK, B!WhipSessions
  <2> QED
    BY <1>1, <2>1 DEF B!TypeOK
<1>4. /\ ui' \in B!Ui
      /\ ui'.cancelled = FALSE /\ ui'.mounted = u.mounted /\ ui'.raced = u.raced
      /\ ui'.session = u.session /\ ui'.media = u.media /\ ui'.phase = "connecting"
  BY <1>1 DEF B!Ui, B!Phases
<1> QED
  BY <1>1, <1>2, <1>3, <1>4

LEMMA AskFields ==
  ASSUME B!BroadcastAssumption, B!TypeOK, NEW u \in B!Ui, NEW button \in {"preview", "start"},
         B!Ask(u, button)
  PROVE  /\ ui' \in B!Ui /\ capture' \in [B!Streams -> B!Captures]
         /\ ui'.cancelled = u.cancelled /\ ui'.mounted = u.mounted /\ ui'.raced = u.raced
         /\ ui'.session = u.session /\ ui'.media = u.media /\ ui'.phase = "acquiring"
         /\ \E n \in B!Streams :
              /\ capture[n] = "none" /\ capture'[n] = button
              /\ \A m \in B!Streams \ {n} : capture'[m] = capture[m]
<1>1. PICK n \in B!Streams : /\ capture[n] = "none"
                             /\ capture' = [capture EXCEPT ![n] = button]
                             /\ ui' = [u EXCEPT !.phase = "acquiring"]
  BY DEF B!Ask
<1>2. /\ capture' \in [B!Streams -> B!Captures] /\ capture'[n] = button
      /\ \A m \in B!Streams \ {n} : capture'[m] = capture[m]
  BY <1>1 DEF B!TypeOK, B!Captures
<1>3. /\ ui' \in B!Ui
      /\ ui'.cancelled = u.cancelled /\ ui'.mounted = u.mounted /\ ui'.raced = u.raced
      /\ ui'.session = u.session /\ ui'.media = u.media /\ ui'.phase = "acquiring"
  BY <1>1 DEF B!Ui, B!Phases
<1> QED
  BY <1>1, <1>2, <1>3

-----------------------------------------------------------------------------
(* The steps: types first, then what the refs hold *)

Holds == SessionHolds /\ RefsHold /\ StartHolds /\ CaptureHolds /\ PhaseHolds

LEMMA InitHolds == B!BroadcastAssumption /\ B!Init => PanelInv
<1> SUFFICES ASSUME B!BroadcastAssumption, B!Init PROVE PanelInv
  OBVIOUS
<1>1. 0 \in 0..MaxStreams /\ 0 \in 0..MaxStarts
  BY DEF B!BroadcastAssumption
<1>2. B!TypeOK
  BY <1>1 DEF B!Init, B!TypeOK, B!Ui, B!Phases, B!Captures, B!WhipSessions
<1>3. SessionHolds /\ RefsHold /\ StartHolds /\ CaptureHolds /\ PhaseHolds
  BY DEF B!Init, SessionHolds, RefsHold, StartHolds, CaptureHolds, PhaseHolds, B!Sending,
     B!Starting,
    B!Opening, B!Acquiring, B!Stopping, B!Streams, B!Starts
<1> QED
  BY <1>2, <1>3 DEF PanelInv

LEMMA PreviewStep ==
  ASSUME PanelInv, B!Preview
  PROVE  B!TypeOK' /\ (~ui'.raced => ~ui.raced /\ Holds')
<1> DEFINE u == B!Races(ui)
<1>1. /\ B!BroadcastAssumption /\ B!TypeOK /\ ui \in B!Ui /\ u \in B!Ui
      /\ u.phase = ui.phase /\ u.media = ui.media /\ u.session = ui.session
      /\ u.cancelled = ui.cancelled /\ u.mounted = ui.mounted
      /\ (u.raced <=> ui.raced \/ B!Opening)
  BY RacesFields DEF PanelInv, B!TypeOK
<1>0. /\ ui.mounted /\ ui.phase = "idle" /\ whip' = whip
      /\ IF ui.media # 0 THEN ui' = [u EXCEPT !.phase = "preview"] /\ capture' = capture
         ELSE B!Ask(u, "preview")
  BY DEF B!Preview
<1> HIDE DEF u
<1>2. CASE ui.media # 0
  <2>1. ui' = [u EXCEPT !.phase = "preview"] /\ UNCHANGED <<capture, whip>>
    BY <1>0, <1>2
  <2>2. ui' \in B!Ui /\ ui'.raced = u.raced
    BY <1>1, <2>1 DEF B!Phases, B!Ui
  <2>3. ~ui'.raced => FALSE
    BY <1>0, <1>1, <1>2, <2>2 DEF PanelInv, PhaseHolds
  <2> QED
    BY <1>1, <2>1, <2>2, <2>3 DEF B!TypeOK
<1>3. CASE ui.media = 0
  <2>1. B!Ask(u, "preview") /\ whip' = whip /\ ui.mounted /\ ui.phase = "idle"
    BY <1>0, <1>3
  <2>2. B!TypeOK'
    BY <1>1, <2>1, AskFields DEF B!TypeOK
  <2>3. ASSUME ~ui'.raced PROVE ~ui.raced /\ Holds'
    <3>1. /\ ~ui.raced /\ ~B!Opening
          /\ ui'.mounted = ui.mounted /\ ui'.session = ui.session /\ ui'.media = ui.media
          /\ ui'.cancelled = ui.cancelled /\ ui'.phase = "acquiring"
      BY <1>1, <2>1, <2>3, AskFields
    <3>2. PICK n \in B!Streams : /\ capture[n] = "none" /\ capture'[n] = "preview"
                                 /\ \A m \in B!Streams \ {n} : capture'[m] = capture[m]
      BY <1>1, <2>1, AskFields
    <3>3. SessionHolds /\ RefsHold
      BY <3>1 DEF PanelInv
    <3>4. ui.session = 0
      BY <2>1, <3>3 DEF SessionHolds
    <3>5. \A m \in B!Streams : m # 0
      BY DEF B!Streams
    <3> QED
      BY <1>3, <2>1, <3>1, <3>2, <3>3, <3>4, <3>5 DEF Holds, SessionHolds, RefsHold, StartHolds,
         CaptureHolds,
        PhaseHolds, B!Opening, B!Acquiring, B!Starting, B!Sending, B!Stopping
  <2> QED
    BY <2>2, <2>3
<1> QED
  BY <1>2, <1>3

LEMMA StartStep ==
  ASSUME PanelInv, B!Start
  PROVE  B!TypeOK' /\ (~ui'.raced => ~ui.raced /\ Holds')
<1> DEFINE u == [ui EXCEPT !.raced = @ \/ B!Opening \/ B!Stopping]
<1>1. B!BroadcastAssumption /\ B!TypeOK /\ ui \in B!Ui
  BY DEF PanelInv, B!TypeOK
<1>2. /\ u \in B!Ui /\ u.phase = ui.phase /\ u.media = ui.media
      /\ u.session = ui.session /\ u.cancelled = ui.cancelled
      /\ u.mounted = ui.mounted /\ (u.raced <=> ui.raced \/ B!Opening \/ B!Stopping)
  <2>1. (ui.raced \/ B!Opening \/ B!Stopping) \in BOOLEAN
    OBVIOUS
  <2> QED
    BY <1>1, <2>1 DEF B!Ui
<1>3. /\ ui.mounted /\ ui.phase \in {"idle", "preview"}
      /\ IF ui.media # 0 THEN B!Connect(u) /\ UNCHANGED capture
         ELSE B!Ask(u, "start") /\ UNCHANGED whip
  BY DEF B!Start
<1> HIDE DEF u
<1>4. ASSUME ~ui.raced PROVE ui.session = 0 /\ RefsHold /\ Holds
  BY <1>3, <1>4 DEF PanelInv, SessionHolds, Holds
<1>5. CASE ui.media # 0
  <2>1. B!Connect(u) /\ capture' = capture
    BY <1>3, <1>5
  <2>2. B!TypeOK'
    BY <1>1, <1>2, <2>1, ConnectFields DEF B!TypeOK
  <2>3. ASSUME ~ui'.raced PROVE ~ui.raced /\ Holds'
    <3>1. /\ ~ui.raced /\ ~B!Opening /\ ~B!Stopping
          /\ ui'.mounted = ui.mounted /\ ui'.session = ui.session /\ ui'.media = ui.media
          /\ ui'.cancelled = FALSE /\ ui'.phase = "connecting"
      BY <1>1, <1>2, <2>1, <2>3, ConnectFields
    <3>2. PICK s \in B!Starts :
            /\ whip[s].step = "none" /\ \A r \in B!Starts \ {s} : whip'[r] = whip[r]
            /\ whip'[s].step = "offer" /\ whip'[s].pc = "new" /\ whip'[s].stop = whip[s].stop
      BY <1>1, <1>2, <2>1, ConnectFields
    <3> QED
      BY <1>3, <1>4, <1>5, <2>1, <3>1, <3>2 DEF Holds, SessionHolds, RefsHold, StartHolds,
         CaptureHolds,
        PhaseHolds, B!Opening, B!Acquiring, B!Starting, B!Sending, B!Stopping
  <2> QED
    BY <2>2, <2>3
<1>6. CASE ui.media = 0
  <2>1. B!Ask(u, "start") /\ whip' = whip
    BY <1>3, <1>6
  <2>2. B!TypeOK'
    BY <1>1, <1>2, <2>1, AskFields DEF B!TypeOK
  <2>3. ASSUME ~ui'.raced PROVE ~ui.raced /\ Holds'
    <3>1. /\ ~ui.raced /\ ~B!Opening /\ ~B!Stopping
          /\ ui'.mounted = ui.mounted /\ ui'.session = ui.session /\ ui'.media = ui.media
          /\ ui'.cancelled = ui.cancelled /\ ui'.phase = "acquiring"
      BY <1>1, <1>2, <2>1, <2>3, AskFields
    <3>2. PICK n \in B!Streams : /\ capture[n] = "none" /\ capture'[n] = "start"
                                 /\ \A m \in B!Streams \ {n} : capture'[m] = capture[m]
      BY <1>1, <1>2, <2>1, AskFields
    <3>3. \A m \in B!Streams : m # 0
      BY DEF B!Streams
    <3> QED
      BY <1>3, <1>4, <1>6, <2>1, <3>1, <3>2, <3>3 DEF Holds, SessionHolds, RefsHold, StartHolds,
         CaptureHolds,
        PhaseHolds, B!Opening, B!Acquiring, B!Starting, B!Sending, B!Stopping
  <2> QED
    BY <2>2, <2>3
<1> QED
  BY <1>5, <1>6

\* Every action that ends in stopAll: nothing is being opened, or the start under way has
\* been cancelled and the session is not there yet.
LEMMA StopAllStep ==
  ASSUME PanelInv, NEW u \in B!Ui, NEW keep \in BOOLEAN, B!StopAll(u, keep),
         u.session = ui.session, u.media = ui.media, u.mounted = ui.mounted,
         ui.raced => u.raced,
         ~u.raced => ~B!Acquiring /\ \A s \in B!Starts : B!Starting(s) => u.cancelled
  PROVE  B!TypeOK' /\ (~ui'.raced => ~ui.raced /\ Holds')
<1>1. B!BroadcastAssumption /\ B!TypeOK /\ ui \in B!Ui
  BY DEF PanelInv, B!TypeOK
<1>2. B!TypeOK'
  BY <1>1, StopAllFields DEF B!TypeOK
<1>3. ASSUME ~ui'.raced PROVE ~ui.raced /\ Holds'
  <2>1. /\ ~u.raced /\ ~ui.raced /\ Holds
        /\ ui'.cancelled = u.cancelled /\ ui'.mounted = ui.mounted /\ ui'.session = 0
    BY <1>1, <1>3, StopAllFields DEF PanelInv, Holds
  <2>2. ~B!Acquiring /\ \A s \in B!Starts : B!Starting(s) => u.cancelled
    BY <2>1
  <2>3. \A n \in B!Streams : n # 0
    BY DEF B!Streams
  <2>4. \A s \in B!Starts : s # 0
    BY DEF B!Starts
  <2>5. CASE ui.session = 0
    <3>1. /\ whip' = whip /\ ui'.media = IF keep THEN ui.media ELSE 0
          /\ ui'.phase = IF keep /\ ui.media # 0 THEN "preview" ELSE "idle"
          /\ \A n \in B!Streams : capture'[n] = IF ~keep /\ n = ui.media THEN "off" ELSE capture[n]
      BY <1>1, <2>5, StopAllFields
    <3> QED
      BY <2>1, <2>2, <2>3, <2>4, <2>5, <3>1 DEF Holds, SessionHolds, RefsHold, StartHolds,
         CaptureHolds,
        PhaseHolds, B!Opening, B!Acquiring, B!Starting, B!Sending, B!Stopping
  <2>6. CASE ui.session # 0
    <3>1. /\ capture' = capture /\ ui'.media = ui.media /\ ui'.phase = "stopping"
          /\ \A s \in B!Starts \ {ui.session} : whip'[s] = whip[s]
          /\ whip'[ui.session].step = whip[ui.session].step
          /\ whip'[ui.session].pc = "closed" /\ whip'[ui.session].stop # "no"
          /\ ui.session \in B!Starts
      BY <1>1, <2>6, StopAllFields, UiFields
    <3> QED
      BY <2>1, <2>2, <2>3, <2>4, <2>6, <3>1 DEF Holds, SessionHolds, RefsHold, StartHolds,
         CaptureHolds,
        PhaseHolds, B!Opening, B!Acquiring, B!Starting, B!Sending, B!Stopping
  <2> QED
    BY <2>1, <2>5, <2>6
<1> QED
  BY <1>2, <1>3

LEMMA CancelStep ==
  ASSUME PanelInv, B!Cancel
  PROVE  B!TypeOK' /\ (~ui'.raced => ~ui.raced /\ Holds')
<1> DEFINE u == [ui EXCEPT !.cancelled = TRUE]
<1>1. ui \in B!Ui /\ B!BroadcastAssumption
  BY DEF PanelInv, B!TypeOK
<1>2. /\ u \in B!Ui /\ u.session = ui.session /\ u.media = ui.media /\ u.mounted = ui.mounted
      /\ u.raced = ui.raced /\ u.cancelled
  BY <1>1 DEF B!Ui
<1>3. B!StopAll(u, TRUE) /\ ui.phase = "connecting"
  BY DEF B!Cancel
<1>4. ~ui.raced => ~B!Acquiring
  BY <1>3 DEF PanelInv, CaptureHolds, B!Acquiring
<1> HIDE DEF u
<1> QED
  BY <1>2, <1>3, <1>4, StopAllStep

LEMMA StopStep ==
  ASSUME PanelInv, B!Stop
  PROVE  B!TypeOK' /\ (~ui'.raced => ~ui.raced /\ Holds')
<1>1. ui \in B!Ui /\ B!BroadcastAssumption
  BY DEF PanelInv, B!TypeOK
<1>2. CASE ui.phase = "live"
  <2>1. B!StopAll(B!Races(ui), FALSE)
    BY <1>2 DEF B!Stop
  <2>2. ~B!Races(ui).raced => ~B!Acquiring /\ \A s \in B!Starts : B!Starting(s) => B!Races(ui).cancelled
    BY <1>1, RacesFields DEF B!Opening
  <2> QED
    BY <1>1, <2>1, <2>2, RacesFields, StopAllStep
<1>3. CASE ui.phase = "preview"
  <2>1. B!StopAll(ui, FALSE)
    BY <1>3 DEF B!Stop
  <2>2. ~ui.raced => ~B!Acquiring /\ \A s \in B!Starts : B!Starting(s) => ui.cancelled
    BY <1>3 DEF PanelInv, CaptureHolds, StartHolds, B!Acquiring
  <2> QED
    BY <1>1, <2>1, <2>2, StopAllStep
<1> QED
  BY <1>2, <1>3 DEF B!Stop

LEMMA TrackEndsStep ==
  ASSUME PanelInv, NEW n \in B!Streams, B!TrackEnds(n)
  PROVE  B!TypeOK' /\ (~ui'.raced => ~ui.raced /\ Holds')
<1>1. ui \in B!Ui /\ B!BroadcastAssumption
  BY DEF PanelInv, B!TypeOK
<1>2. B!StopAll(B!Races(ui), FALSE)
  BY DEF B!TrackEnds
<1>3. ~B!Races(ui).raced => ~B!Acquiring /\ \A s \in B!Starts : B!Starting(s) => B!Races(ui).cancelled
  BY <1>1, RacesFields DEF B!Opening
<1> QED
  BY <1>1, <1>2, <1>3, RacesFields, StopAllStep

\* One session moves on.
LEMMA WhipMoves ==
  ASSUME B!TypeOK, NEW s \in B!Starts, NEW w \in B!WhipSessions, whip' = [whip EXCEPT ![s] = w]
  PROVE  /\ whip' \in [B!Starts -> B!WhipSessions] /\ whip'[s] = w
         /\ \A r \in B!Starts \ {s} : whip'[r] = whip[r]
BY DEF B!TypeOK

LEMMA ChangeSourceStep ==
  ASSUME PanelInv, B!ChangeSource
  PROVE  B!TypeOK' /\ (~ui'.raced => ~ui.raced /\ Holds')
<1>1. /\ ui \in B!Ui /\ B!BroadcastAssumption /\ B!TypeOK
      /\ ui' = B!Settled(ui, FALSE) /\ capture' = B!Released(ui, FALSE) /\ whip' = whip
      /\ ui.phase = "preview"
  BY DEF PanelInv, B!TypeOK, B!ChangeSource
<1>2. /\ ui' \in B!Ui /\ ui'.session = ui.session /\ ui'.cancelled = ui.cancelled
      /\ ui'.mounted = ui.mounted /\ ui'.raced = ui.raced /\ ui'.media = 0 /\ ui'.phase = "idle"
  BY <1>1, SettledFields
<1>3. /\ capture' \in [B!Streams -> B!Captures]
      /\ \A n \in B!Streams : capture'[n] = IF n = ui.media THEN "off" ELSE capture[n]
  BY <1>1, ReleasedFields
<1>4. B!TypeOK'
  BY <1>1, <1>2, <1>3 DEF B!TypeOK
<1>5. ASSUME ~ui'.raced PROVE Holds'
  <2>1. Holds
    BY <1>2, <1>5 DEF PanelInv, Holds
  <2>2. \A n \in B!Streams : n # 0
    BY DEF B!Streams
  <2>3. /\ ui.session = 0 /\ ~B!Acquiring /\ \A s \in B!Starts : B!Starting(s) => ui.cancelled
    BY <1>1, <2>1 DEF Holds, SessionHolds, StartHolds, CaptureHolds, B!Acquiring
  <2>4. \A s \in B!Starts : (B!Starting(s)' <=> B!Starting(s)) /\ (B!Sending(s)' <=> B!Sending(s))
    BY <1>1 DEF B!Starting, B!Sending
  <2>5. ~B!Acquiring' /\ (B!Stopping' <=> B!Stopping)
    BY <1>1, <1>3, <2>3 DEF B!Acquiring, B!Stopping
  <2>6. SessionHolds' /\ CaptureHolds'
    BY <1>2, <2>3, <2>5 DEF SessionHolds, CaptureHolds, B!Acquiring
  <2>7. RefsHold'
    BY <1>2, <1>3, <2>1, <2>2, <2>3, <2>4 DEF Holds, RefsHold
  <2>8. StartHolds'
    BY <1>2, <2>1, <2>3, <2>4, <2>5 DEF Holds, StartHolds
  <2>9. PhaseHolds'
    BY <1>2 DEF PhaseHolds
  <2> QED
    BY <2>6, <2>7, <2>8, <2>9 DEF Holds
<1> QED
  BY <1>2, <1>4, <1>5

LEMMA UnmountStep ==
  ASSUME PanelInv, B!Unmount
  PROVE  B!TypeOK' /\ (~ui'.raced => ~ui.raced /\ Holds')
<1> DEFINE u == B!Races(ui)
<1>1. /\ ui \in B!Ui /\ B!BroadcastAssumption /\ B!TypeOK /\ u \in B!Ui
      /\ (u.raced <=> ui.raced \/ B!Opening) /\ u.cancelled = ui.cancelled
  BY RacesFields DEF PanelInv, B!TypeOK
<1>2. /\ ui' = [u EXCEPT !.mounted = FALSE, !.session = 0, !.media = 0]
      /\ whip' = IF ui.session = 0 THEN whip ELSE [whip EXCEPT ![ui.session].pc = "closed"]
      /\ capture' = B!Released(ui, FALSE)
  BY DEF B!Unmount
<1> HIDE DEF u
<1>3. ui' \in B!Ui
  BY <1>1, <1>2, UiAssign
<1>4. /\ ui'.mounted = FALSE /\ ui'.session = 0 /\ ui'.media = 0 /\ ui'.raced = u.raced
      /\ ui'.cancelled = ui.cancelled
  BY <1>1, <1>2 DEF B!Ui
<1>5. /\ capture' \in [B!Streams -> B!Captures]
      /\ \A n \in B!Streams : capture'[n] = IF n = ui.media THEN "off" ELSE capture[n]
  <2>1. capture' = B!Released(ui, FALSE) /\ ui \in B!Ui /\ B!TypeOK
    BY <1>1, <1>2
  <2>2. FALSE \in BOOLEAN
    OBVIOUS
  <2>3. /\ B!Released(ui, FALSE) \in [B!Streams -> B!Captures]
        /\ \A n \in B!Streams : B!Released(ui, FALSE)[n] =
             IF ~FALSE /\ n = ui.media THEN "off" ELSE capture[n]
    BY <2>1, <2>2, ReleasedFields
  <2> QED
    BY <2>1, <2>3
<1>6. /\ whip' \in [B!Starts -> B!WhipSessions]
      /\ \A s \in B!Starts : /\ whip'[s].step = whip[s].step /\ whip'[s].stop = whip[s].stop
                             /\ whip'[s].pc = IF s = ui.session THEN "closed" ELSE whip[s].pc
  <2>1. CASE ui.session = 0
    <3>1. \A s \in B!Starts : s # 0
      BY DEF B!Starts
    <3> QED
      BY <1>1, <1>2, <2>1, <3>1 DEF B!TypeOK
  <2>2. CASE ui.session # 0
    <3>1. /\ ui.session \in B!Starts
          /\ whip' = [whip EXCEPT ![ui.session] = [whip[ui.session] EXCEPT !.pc = "closed"]]
      BY <1>1, <1>2, <2>2, UiFields DEF B!TypeOK
    <3>2. /\ [whip[ui.session] EXCEPT !.pc = "closed"] \in B!WhipSessions
          /\ [whip[ui.session] EXCEPT !.pc = "closed"].pc = "closed"
          /\ [whip[ui.session] EXCEPT !.pc = "closed"].step = whip[ui.session].step
          /\ [whip[ui.session] EXCEPT !.pc = "closed"].stop = whip[ui.session].stop
      BY <1>1, <3>1 DEF B!TypeOK, B!WhipSessions
    <3> QED
      BY <1>1, <3>1, <3>2, WhipMoves
  <2> QED
    BY <2>1, <2>2
<1>7. B!TypeOK'
  BY <1>3, <1>5, <1>6 DEF B!TypeOK
<1>8. ASSUME ~ui'.raced PROVE ~ui.raced /\ Holds'
  <2>1. ~ui.raced /\ ~B!Opening /\ Holds
    BY <1>1, <1>4, <1>8 DEF PanelInv, Holds
  <2>2. \A n \in B!Streams : n # 0
    BY DEF B!Streams
  <2> QED
    BY <1>4, <1>5, <1>6, <2>1, <2>2 DEF Holds, SessionHolds, RefsHold, StartHolds, CaptureHolds,
      PhaseHolds, B!Opening, B!Acquiring, B!Starting, B!Sending, B!Stopping
<1> QED
  BY <1>7, <1>8

LEMMA AcquiredStep ==
  ASSUME PanelInv, NEW n \in B!Streams, B!Acquired(n)
  PROVE  B!TypeOK' /\ (~ui'.raced => ~ui.raced /\ Holds')
<1> DEFINE u == [ui EXCEPT !.media = n]
<1>1. /\ ui \in B!Ui /\ B!BroadcastAssumption /\ B!TypeOK /\ u \in B!Ui
      /\ u.phase = ui.phase /\ u.media = n /\ u.session = ui.session
      /\ u.cancelled = ui.cancelled /\ u.mounted = ui.mounted /\ u.raced = ui.raced
  <2>1. ui \in B!Ui /\ B!BroadcastAssumption /\ B!TypeOK
    BY DEF PanelInv, B!TypeOK
  <2>2. u \in B!Ui
    BY <2>1, UiAssign
  <2> QED
    BY <2>1, <2>2 DEF B!Ui
<1>2. /\ capture[n] \in {"preview", "start"} /\ capture' = [capture EXCEPT ![n] = "on"]
      /\ IF capture[n] = "start" THEN B!Connect(u)
         ELSE ui' = [u EXCEPT !.phase = "preview"] /\ whip' = whip
  BY DEF B!Acquired
<1> HIDE DEF u
<1>3. /\ capture' \in [B!Streams -> B!Captures] /\ capture'[n] = "on"
      /\ \A m \in B!Streams \ {n} : capture'[m] = capture[m]
  BY <1>1, <1>2 DEF B!TypeOK, B!Captures
<1>4. ASSUME ~ui.raced
      PROVE  /\ Holds /\ ui.media = 0 /\ ui.session = 0 /\ ui.mounted
             /\ \A m \in B!Streams \ {n} : capture[m] \notin {"preview", "start", "on"}
             /\ \A s \in B!Starts : ~B!Starting(s) /\ ~B!Sending(s)
             /\ capture[n] = "start" => ~B!Stopping
             /\ n # 0
  <2>1. \A m \in B!Streams : m # 0
    BY DEF B!Streams
  <2>2. \A m \in B!Starts : m # 0
    BY DEF B!Starts
  <2> QED
    BY <1>2, <1>4, <2>1, <2>2 DEF PanelInv, Holds, CaptureHolds, RefsHold, StartHolds, B!Acquiring
<1>5. CASE capture[n] = "start"
  <2>1. B!Connect(u)
    BY <1>2, <1>5
  <2>2. B!TypeOK' /\ ui'.raced = ui.raced
    BY <1>1, <1>3, <2>1, ConnectFields DEF B!TypeOK
  <2>3. ASSUME ~ui'.raced PROVE Holds'
    <3>1. /\ ui'.mounted = ui.mounted /\ ui'.session = ui.session /\ ui'.media = n
          /\ ui'.cancelled = FALSE /\ ui'.phase = "connecting"
      BY <1>1, <2>1, ConnectFields
    <3>2. PICK s \in B!Starts :
            /\ whip[s].step = "none" /\ \A r \in B!Starts \ {s} : whip'[r] = whip[r]
            /\ whip'[s].step = "offer" /\ whip'[s].pc = "new" /\ whip'[s].stop = whip[s].stop
      BY <1>1, <2>1, ConnectFields
    <3> QED
      BY <1>3, <1>4, <1>5, <2>2, <2>3, <3>1, <3>2 DEF Holds, SessionHolds, RefsHold, StartHolds,
        CaptureHolds, PhaseHolds, B!Opening, B!Acquiring, B!Starting, B!Sending, B!Stopping
  <2> QED
    BY <2>2, <2>3
<1>6. CASE capture[n] # "start"
  <2>1. ui' = [u EXCEPT !.phase = "preview"] /\ whip' = whip
    BY <1>2, <1>6
  <2>2. /\ ui' \in B!Ui /\ ui'.raced = ui.raced /\ ui'.phase = "preview"
        /\ ui'.mounted = ui.mounted /\ ui'.session = ui.session /\ ui'.media = n
        /\ ui'.cancelled = ui.cancelled
    BY <1>1, <2>1 DEF B!Ui, B!Phases
  <2>3. B!TypeOK'
    BY <1>1, <1>3, <2>1, <2>2 DEF B!TypeOK
  <2>4. ASSUME ~ui'.raced PROVE Holds'
    BY <1>3, <1>4, <2>1, <2>2, <2>4 DEF Holds, SessionHolds, RefsHold, StartHolds,
        CaptureHolds, PhaseHolds, B!Opening, B!Acquiring, B!Starting, B!Sending, B!Stopping
  <2> QED
    BY <2>2, <2>3, <2>4
<1> QED
  BY <1>5, <1>6

LEMMA AcquireFailsStep ==
  ASSUME PanelInv, NEW n \in B!Streams, B!AcquireFails(n)
  PROVE  B!TypeOK' /\ (~ui'.raced => ~ui.raced /\ Holds')
<1>1. /\ ui \in B!Ui /\ B!BroadcastAssumption /\ B!TypeOK /\ capture[n] \in {"preview", "start"}
      /\ ui' = [ui EXCEPT !.phase = "idle"] /\ whip' = whip
      /\ capture' = [capture EXCEPT ![n] = "off"]
  BY DEF PanelInv, B!TypeOK, B!AcquireFails
<1>2. /\ capture' \in [B!Streams -> B!Captures] /\ capture'[n] = "off"
      /\ \A m \in B!Streams \ {n} : capture'[m] = capture[m]
  BY <1>1 DEF B!TypeOK, B!Captures
<1>3. /\ ui' \in B!Ui /\ ui'.raced = ui.raced /\ ui'.phase = "idle"
      /\ ui'.mounted = ui.mounted /\ ui'.session = ui.session /\ ui'.media = ui.media
      /\ ui'.cancelled = ui.cancelled
  BY <1>1 DEF B!Ui, B!Phases
<1>4. B!TypeOK'
  BY <1>1, <1>2, <1>3 DEF B!TypeOK
<1>5. ASSUME ~ui'.raced PROVE Holds'
  <2>1. Holds
    BY <1>3, <1>5 DEF PanelInv, Holds
  <2> QED
    BY <1>1, <1>2, <1>3, <2>1 DEF Holds, SessionHolds, RefsHold, StartHolds, CaptureHolds,
      PhaseHolds, B!Opening, B!Acquiring, B!Starting, B!Sending, B!Stopping
<1> QED
  BY <1>3, <1>4, <1>5

\* The offer is posted, or answered.
LEMMA OfferStep ==
  ASSUME PanelInv, NEW s \in B!Starts, B!Post(s) \/ B!Answer(s)
  PROVE  B!TypeOK' /\ (~ui'.raced => ~ui.raced /\ Holds')
<1>1. PICK x \in {"posted", "answered"} :
        /\ whip' = [whip EXCEPT ![s].step = x] /\ B!Starting(s) /\ ui' = ui /\ capture' = capture
  BY DEF B!Post, B!Answer, B!Starting
<1>2. [whip[s] EXCEPT !.step = x] \in B!WhipSessions /\ B!TypeOK
  BY DEF PanelInv, B!TypeOK, B!WhipSessions
<1>3. whip' \in [B!Starts -> B!WhipSessions]
  BY <1>1, <1>2 DEF B!TypeOK
<1>4. \A r \in B!Starts : /\ whip'[r].pc = whip[r].pc /\ whip'[r].stop = whip[r].stop
                          /\ B!Starting(r)' <=> B!Starting(r)
  BY <1>1, <1>2 DEF B!TypeOK, B!WhipSessions, B!Starting
<1>5. B!TypeOK'
  BY <1>1, <1>2, <1>3 DEF B!TypeOK
<1>6. ASSUME ~ui'.raced PROVE Holds'
  <2>1. Holds
    BY <1>1, <1>6 DEF PanelInv, Holds
  <2>2. (B!Acquiring' <=> B!Acquiring) /\ (B!Stopping' <=> B!Stopping) /\ (B!Opening' <=> B!Opening)
    BY <1>1, <1>4 DEF B!Acquiring, B!Stopping, B!Opening
  <2>3. \A r \in B!Starts : B!Sending(r)' <=> B!Sending(r)
    BY <1>4 DEF B!Sending
  <2>4. SessionHolds'
    <3>1. CASE ui.session # 0
      <4>1. ui.session \in B!Starts
        BY <3>1, UiFields, <1>2 DEF B!TypeOK
      <4> QED
        BY <1>1, <2>1, <2>2, <2>3, <4>1 DEF Holds, SessionHolds, B!Sending
    <3> QED
      BY <1>1, <3>1 DEF SessionHolds
  <2>5. RefsHold' /\ PhaseHolds'
    BY <1>1, <1>4, <2>1, <2>2, <2>3 DEF Holds, RefsHold, PhaseHolds
  <2>6. StartHolds'
    BY <1>1, <1>4, <2>1, <2>2, <2>3 DEF Holds, StartHolds
  <2>7. CaptureHolds'
    BY <1>1, <2>1, <2>2 DEF Holds, CaptureHolds
  <2> QED
    BY <2>4, <2>5, <2>6, <2>7 DEF Holds
<1> QED
  BY <1>1, <1>5, <1>6

LEMMA StartFailsStep ==
  ASSUME PanelInv, NEW s \in B!Starts, B!StartFails(s)
  PROVE  B!TypeOK' /\ (~ui'.raced => ~ui.raced /\ Holds')
<1> DEFINE w == [whip[s] EXCEPT !.step = "done", !.pc = "closed"]
<1> DEFINE p == IF ui.media # 0 THEN "preview" ELSE "idle"
<1>1. /\ ui \in B!Ui /\ B!BroadcastAssumption /\ B!TypeOK /\ B!Starting(s)
      /\ ui' = [ui EXCEPT !.phase = p] /\ whip' = [whip EXCEPT ![s] = w]
      /\ capture' = capture
  BY DEF PanelInv, B!TypeOK, B!StartFails
<1>2. w \in B!WhipSessions /\ w.step = "done" /\ w.pc = "closed" /\ w.stop = whip[s].stop
  BY <1>1 DEF B!TypeOK, B!WhipSessions
<1>3. p \in B!Phases /\ p = IF ui.media # 0 THEN "preview" ELSE "idle"
  BY DEF B!Phases
<1> HIDE DEF w, p
<1>4. /\ ui' \in B!Ui /\ ui'.raced = ui.raced /\ ui'.phase = p
      /\ ui'.mounted = ui.mounted /\ ui'.session = ui.session /\ ui'.media = ui.media
      /\ ui'.cancelled = ui.cancelled
  BY <1>1, <1>3 DEF B!Ui
<1>5. /\ whip' \in [B!Starts -> B!WhipSessions] /\ whip'[s] = w
      /\ \A r \in B!Starts \ {s} : whip'[r] = whip[r]
  BY <1>1, <1>2, WhipMoves
<1>6. B!TypeOK'
  BY <1>1, <1>4, <1>5 DEF B!TypeOK
<1>7. ASSUME ~ui'.raced PROVE Holds'
  <2>1. Holds
    BY <1>4, <1>7 DEF PanelInv, Holds
  <2>2. \A r \in B!Starts : r # 0
    BY DEF B!Starts
  <2> QED
    BY <1>1, <1>2, <1>3, <1>4, <1>5, <2>1, <2>2 DEF Holds, SessionHolds, RefsHold, StartHolds,
      CaptureHolds, PhaseHolds, B!Opening, B!Acquiring, B!Starting, B!Sending, B!Stopping
<1> QED
  BY <1>4, <1>6, <1>7

LEMMA ConnectedStep ==
  ASSUME PanelInv, NEW s \in B!Starts, B!Connected(s)
  PROVE  B!TypeOK' /\ (~ui'.raced => ~ui.raced /\ Holds')
<1> DEFINE w == [whip[s] EXCEPT !.pc = "connected"]
<1> DEFINE b == ui.raced \/ (ui.cancelled /\ B!Starting(s))
<1>1. /\ ui \in B!Ui /\ B!BroadcastAssumption /\ B!TypeOK
      /\ ui' = [ui EXCEPT !.phase = "live", !.raced = b] /\ whip' = [whip EXCEPT ![s] = w]
      /\ capture' = capture /\ whip[s].step \in {"answered", "done"} /\ whip[s].pc = "new"
  BY DEF PanelInv, B!TypeOK, B!Connected
<1>2. w \in B!WhipSessions /\ w.step = whip[s].step /\ w.pc = "connected" /\ w.stop = whip[s].stop
  BY <1>1 DEF B!TypeOK, B!WhipSessions
<1>3. b \in BOOLEAN /\ (b <=> ui.raced \/ (ui.cancelled /\ B!Starting(s)))
  OBVIOUS
<1> HIDE DEF w, b
<1>4. /\ ui' \in B!Ui /\ ui'.raced = b /\ ui'.phase = "live"
      /\ ui'.mounted = ui.mounted /\ ui'.session = ui.session /\ ui'.media = ui.media
      /\ ui'.cancelled = ui.cancelled
  BY <1>1, <1>3 DEF B!Ui, B!Phases
<1>5. /\ whip' \in [B!Starts -> B!WhipSessions] /\ whip'[s] = w
      /\ \A r \in B!Starts \ {s} : whip'[r] = whip[r]
  BY <1>1, <1>2, WhipMoves
<1>6. B!TypeOK'
  BY <1>1, <1>4, <1>5 DEF B!TypeOK
<1>7. ASSUME ~ui'.raced PROVE ~ui.raced /\ Holds'
  <2>1. ~ui.raced /\ Holds /\ (B!Starting(s) => ~ui.cancelled)
    BY <1>3, <1>4, <1>7 DEF PanelInv, Holds
  <2>2. \A r \in B!Starts : r # 0
    BY DEF B!Starts
  <2>3. B!Sending(s) /\ (s = ui.session \/ B!Starting(s))
    BY <1>1, <2>1 DEF Holds, RefsHold, B!Sending
  <2> QED
    BY <1>1, <1>2, <1>3, <1>4, <1>5, <2>1, <2>2, <2>3 DEF Holds, SessionHolds, RefsHold,
       StartHolds,
      CaptureHolds, PhaseHolds, B!Opening, B!Acquiring, B!Starting, B!Sending, B!Stopping
<1> QED
  BY <1>6, <1>7

LEMMA ReturnStep ==
  ASSUME PanelInv, NEW s \in B!Starts, B!Return(s)
  PROVE  B!TypeOK' /\ (~ui'.raced => ~ui.raced /\ Holds')
<1>1. /\ ui \in B!Ui /\ B!BroadcastAssumption /\ B!TypeOK /\ B!Starting(s) /\ capture' = capture
  BY DEF PanelInv, B!TypeOK, B!Return, B!Starting
<1>2. \A r \in B!Starts : r # 0
  BY DEF B!Starts
<1>3. CASE ui.cancelled
  <2> DEFINE w == [whip[s] EXCEPT !.step = "done", !.pc = "closed"]
  <2>1. ui' = ui /\ whip' = [whip EXCEPT ![s] = w]
    BY <1>1, <1>3 DEF B!Return, B!TypeOK
  <2>2. w \in B!WhipSessions /\ w.step = "done" /\ w.pc = "closed" /\ w.stop = whip[s].stop
    BY <1>1 DEF B!TypeOK, B!WhipSessions
  <2> HIDE DEF w
  <2>3. /\ whip' \in [B!Starts -> B!WhipSessions] /\ whip'[s] = w
        /\ \A r \in B!Starts \ {s} : whip'[r] = whip[r]
    BY <1>1, <2>1, <2>2, WhipMoves
  <2>4. B!TypeOK'
    BY <1>1, <2>1, <2>3 DEF B!TypeOK
  <2>5. ASSUME ~ui'.raced PROVE Holds'
    <3>1. Holds
      BY <2>1, <2>5 DEF PanelInv, Holds
    <3> QED
      BY <1>1, <1>2, <1>3, <2>1, <2>2, <2>3, <3>1 DEF Holds, SessionHolds, RefsHold, StartHolds,
        CaptureHolds, PhaseHolds, B!Opening, B!Acquiring, B!Starting, B!Sending, B!Stopping
  <2> QED
    BY <2>1, <2>4, <2>5
<1>4. CASE ~ui.cancelled
  <2> DEFINE w == [whip[s] EXCEPT !.step = "done"]
  <2> DEFINE p == IF whip[s].pc = "connected" THEN "live" ELSE ui.phase
  <2>1. ui' = [ui EXCEPT !.session = s, !.phase = p] /\ whip' = [whip EXCEPT ![s] = w]
    BY <1>1, <1>4 DEF B!Return, B!TypeOK
  <2>2. w \in B!WhipSessions /\ w.step = "done" /\ w.pc = whip[s].pc /\ w.stop = whip[s].stop
    BY <1>1 DEF B!TypeOK, B!WhipSessions
  <2>3. p \in B!Phases /\ (p = "live" \/ p = ui.phase)
    BY <1>1, UiFields DEF B!Phases
  <2> HIDE DEF w, p
  <2>4. ui' \in B!Ui
    BY <1>1, <2>1, <2>3, UiAssign
  <2>5. /\ ui'.raced = ui.raced /\ ui'.phase = p
        /\ ui'.mounted = ui.mounted /\ ui'.session = s /\ ui'.media = ui.media
        /\ ui'.cancelled = ui.cancelled
    BY <1>1, <2>1 DEF B!Ui
  <2>6. /\ whip' \in [B!Starts -> B!WhipSessions] /\ whip'[s] = w
        /\ \A r \in B!Starts \ {s} : whip'[r] = whip[r]
    BY <1>1, <2>1, <2>2, WhipMoves
  <2>7. B!TypeOK'
    BY <1>1, <2>4, <2>6 DEF B!TypeOK
  <2>8. ASSUME ~ui'.raced PROVE Holds'
    <3>1. Holds
      BY <2>5, <2>8 DEF PanelInv, Holds
    <3> QED
      BY <1>1, <1>2, <1>4, <2>2, <2>3, <2>5, <2>6, <3>1 DEF Holds, SessionHolds, RefsHold,
         StartHolds,
        CaptureHolds, PhaseHolds, B!Opening, B!Acquiring, B!Starting, B!Sending, B!Stopping
  <2> QED
    BY <2>5, <2>7, <2>8
<1> QED
  BY <1>3, <1>4

LEMMA FailedStep ==
  ASSUME PanelInv, NEW s \in B!Starts, B!Failed(s)
  PROVE  B!TypeOK' /\ (~ui'.raced => ~ui.raced /\ Holds')
<1> DEFINE u == B!Races(ui)
<1>1. /\ B!BroadcastAssumption /\ B!TypeOK /\ ui \in B!Ui /\ u \in B!Ui
      /\ u.phase = ui.phase /\ u.media = ui.media /\ u.session = ui.session
      /\ u.cancelled = ui.cancelled /\ u.mounted = ui.mounted
      /\ (u.raced <=> ui.raced \/ B!Opening)
  BY RacesFields DEF PanelInv, B!TypeOK
<1>2. /\ B!Sending(s) /\ capture' = capture
      /\ IF u.session = 0
           THEN whip' = [whip EXCEPT ![s].pc = "failed"] /\ ui' = B!Settled(u, TRUE)
           ELSE /\ whip' = [r \in B!Starts |->
                     IF r = u.session THEN [whip[r] EXCEPT !.pc = "closed", !.stop = "keep"]
                     ELSE IF r = s THEN [whip[r] EXCEPT !.pc = "failed"] ELSE whip[r]]
                /\ ui' = [u EXCEPT !.session = 0, !.phase = "stopping"]
  BY DEF B!Failed
<1> HIDE DEF u
<1>3. \A r \in B!Starts : r # 0
  BY DEF B!Starts
<1>4. CASE u.session = 0
  <2>1. ui' = B!Settled(u, TRUE) /\ whip' = [whip EXCEPT ![s] = [whip[s] EXCEPT !.pc = "failed"]]
    BY <1>1, <1>2, <1>4 DEF B!TypeOK
  <2>2. ui' \in B!Ui /\ ui'.raced = u.raced
    BY <1>1, <2>1, SettledFields
  <2>3. [whip[s] EXCEPT !.pc = "failed"] \in B!WhipSessions
    BY <1>1 DEF B!TypeOK, B!WhipSessions
  <2>4. B!TypeOK'
    BY <1>1, <1>2, <2>1, <2>2, <2>3, WhipMoves DEF B!TypeOK
  <2>5. ui.raced \/ B!Opening
    BY <1>1, <1>2, <1>3, <1>4 DEF PanelInv, RefsHold, B!Opening
  <2> QED
    BY <1>1, <2>2, <2>4, <2>5
<1>5. CASE u.session # 0
  <2>1. /\ ui' = [u EXCEPT !.session = 0, !.phase = "stopping"]
        /\ whip' = [r \in B!Starts |->
             IF r = u.session THEN [whip[r] EXCEPT !.pc = "closed", !.stop = "keep"]
             ELSE IF r = s THEN [whip[r] EXCEPT !.pc = "failed"] ELSE whip[r]]
    BY <1>2, <1>5
  <2>2. ui' \in B!Ui
    BY <1>1, <2>1, UiAssign DEF B!Phases
  <2>3. /\ ui'.raced = u.raced /\ ui'.phase = "stopping" /\ ui'.mounted = ui.mounted
        /\ ui'.session = 0 /\ ui'.media = ui.media /\ ui'.cancelled = ui.cancelled
    BY <1>1, <2>1 DEF B!Ui
  <2>4. \A r \in B!Starts :
          /\ [whip[r] EXCEPT !.pc = "closed", !.stop = "keep"] \in B!WhipSessions
          /\ [whip[r] EXCEPT !.pc = "failed"] \in B!WhipSessions
          /\ whip[r] \in B!WhipSessions
    BY ZenonT(40), <1>1 DEF B!TypeOK, B!WhipSessions
  <2>5. whip' \in [B!Starts -> B!WhipSessions]
    BY <2>1, <2>4
  <2>6. B!TypeOK'
    BY <1>2, <1>1, <2>2, <2>5 DEF B!TypeOK
  <2>7. ASSUME ~ui'.raced PROVE ~ui.raced /\ Holds'
    <3>1. ~ui.raced /\ ~B!Opening /\ Holds
      BY <1>1, <2>3, <2>7 DEF PanelInv, Holds
    <3>2. s = ui.session
      BY <1>2, <3>1 DEF Holds, RefsHold, B!Opening
    <3>3. /\ whip'[s].pc = "closed" /\ whip'[s].step = whip[s].step
          /\ \A r \in B!Starts \ {s} : whip'[r] = whip[r]
      <4>1. whip'[s] = [whip[s] EXCEPT !.pc = "closed", !.stop = "keep"]
        BY <1>1, <2>1, <3>2
      <4>2. \A r \in B!Starts \ {s} : whip'[r] = whip[r]
        BY <1>1, <2>1, <3>2
      <4> QED
        BY <1>1, <4>1, <4>2 DEF B!TypeOK, B!WhipSessions
    <3>4. B!Sending(s) /\ capture' = capture
      BY <1>2
    <3> QED
      BY <3>4, <1>3, <2>3, <3>1, <3>2, <3>3 DEF Holds, SessionHolds, RefsHold, StartHolds,
        CaptureHolds, PhaseHolds, B!Opening, B!Acquiring, B!Starting, B!Sending, B!Stopping
  <2> QED
    BY <2>6, <2>7
<1> QED
  BY <1>4, <1>5

LEMMA StopEndsStep ==
  ASSUME PanelInv, NEW s \in B!Starts, B!StopEnds(s)
  PROVE  B!TypeOK' /\ (~ui'.raced => ~ui.raced /\ Holds')
<1> DEFINE keep == whip[s].stop = "keep"
<1> DEFINE w == [whip[s] EXCEPT !.stop = "no"]
<1>1. /\ ui \in B!Ui /\ B!BroadcastAssumption /\ B!TypeOK /\ whip[s].stop # "no"
      /\ whip' = [whip EXCEPT ![s] = w] /\ keep \in BOOLEAN
      /\ ui' = B!Settled(ui, keep) /\ capture' = B!Released(ui, keep)
  BY DEF PanelInv, B!TypeOK, B!StopEnds
<1>2. w \in B!WhipSessions /\ w.step = whip[s].step /\ w.pc = whip[s].pc /\ w.stop = "no"
  BY <1>1 DEF B!TypeOK, B!WhipSessions
<1> HIDE DEF w, keep
<1>3. /\ ui' \in B!Ui /\ ui'.session = ui.session /\ ui'.cancelled = ui.cancelled
      /\ ui'.mounted = ui.mounted /\ ui'.raced = ui.raced
      /\ ui'.media = IF keep THEN ui.media ELSE 0
      /\ ui'.phase = IF keep /\ ui.media # 0 THEN "preview" ELSE "idle"
  BY <1>1, SettledFields
<1>4. /\ capture' \in [B!Streams -> B!Captures]
      /\ \A n \in B!Streams : capture'[n] = IF ~keep /\ n = ui.media THEN "off" ELSE capture[n]
  BY <1>1, ReleasedFields
<1>5. /\ whip' \in [B!Starts -> B!WhipSessions] /\ whip'[s] = w
      /\ \A r \in B!Starts \ {s} : whip'[r] = whip[r]
  BY <1>1, <1>2, WhipMoves
<1>6. B!TypeOK'
  BY <1>3, <1>4, <1>5 DEF B!TypeOK
<1>7. ASSUME ~ui'.raced PROVE Holds'
  <2>1. Holds /\ B!Stopping
    BY <1>1, <1>3, <1>7 DEF PanelInv, Holds, B!Stopping
  <2>2. \A r \in B!Starts : r # 0
    BY DEF B!Starts
  <2>3. \A n \in B!Streams : n # 0
    BY DEF B!Streams
  <2>4. ui.session = 0 /\ \A r \in B!Starts : ~B!Starting(r)
    BY <2>1 DEF Holds, SessionHolds, StartHolds
  <2> QED
    BY <1>2, <1>3, <1>4, <1>5, <2>1, <2>2, <2>3, <2>4 DEF Holds, SessionHolds, RefsHold,
       StartHolds,
      CaptureHolds, PhaseHolds, B!Opening, B!Acquiring, B!Starting, B!Sending, B!Stopping
<1> QED
  BY <1>3, <1>6, <1>7

LEMMA PanelStep == PanelInv /\ [B!Next]_B!vars => PanelInv'
<1> SUFFICES ASSUME PanelInv, [B!Next]_B!vars PROVE PanelInv'
  OBVIOUS
<1>1. B!BroadcastAssumption
  BY DEF PanelInv
<1>2. ASSUME B!TypeOK' /\ (~ui'.raced => ~ui.raced /\ Holds') PROVE PanelInv'
  BY <1>1, <1>2 DEF PanelInv, Holds, B!BroadcastAssumption
<1>3. CASE B!Preview
  BY <1>2, <1>3, PreviewStep
<1>4. CASE B!Start
  BY <1>2, <1>4, StartStep
<1>5. CASE B!Cancel
  BY <1>2, <1>5, CancelStep
<1>6. CASE B!Stop
  BY <1>2, <1>6, StopStep
<1>7. CASE B!ChangeSource
  BY <1>2, <1>7, ChangeSourceStep
<1>8. CASE B!Unmount
  BY <1>2, <1>8, UnmountStep
<1>9. ASSUME NEW n \in B!Streams, B!Acquired(n) PROVE PanelInv'
  BY <1>2, <1>9, AcquiredStep
<1>10. ASSUME NEW n \in B!Streams, B!AcquireFails(n) PROVE PanelInv'
  BY <1>2, <1>10, AcquireFailsStep
<1>11. ASSUME NEW n \in B!Streams, B!TrackEnds(n) PROVE PanelInv'
  BY <1>2, <1>11, TrackEndsStep
<1>12. ASSUME NEW s \in B!Starts, B!Post(s) \/ B!Answer(s) PROVE PanelInv'
  BY <1>2, <1>12, OfferStep
<1>13. ASSUME NEW s \in B!Starts, B!StartFails(s) PROVE PanelInv'
  BY <1>2, <1>13, StartFailsStep
<1>14. ASSUME NEW s \in B!Starts, B!Connected(s) PROVE PanelInv'
  BY <1>2, <1>14, ConnectedStep
<1>15. ASSUME NEW s \in B!Starts, B!Return(s) PROVE PanelInv'
  BY <1>2, <1>15, ReturnStep
<1>16. ASSUME NEW s \in B!Starts, B!Failed(s) PROVE PanelInv'
  BY <1>2, <1>16, FailedStep
<1>17. ASSUME NEW s \in B!Starts, B!StopEnds(s) PROVE PanelInv'
  BY <1>2, <1>17, StopEndsStep
<1>18. CASE UNCHANGED B!vars
  BY <1>18 DEF B!vars, PanelInv, B!TypeOK, SessionHolds, RefsHold, StartHolds, CaptureHolds,
    PhaseHolds, B!Opening, B!Acquiring, B!Starting, B!Sending, B!Stopping
<1> QED
  BY <1>3, <1>4, <1>5, <1>6, <1>7, <1>8, <1>9, <1>10, <1>11, <1>12, <1>13, <1>14, <1>15, <1>16,
    <1>17, <1>18 DEF B!Next

\* What the invariant says of what the panel holds and shows.
LEMMA PanelPromises == PanelInv => B!NothingLeaks /\ B!PhaseIsHonest
<1> SUFFICES ASSUME PanelInv PROVE B!NothingLeaks /\ B!PhaseIsHonest
  OBVIOUS
<1>1. ui \in B!Ui
  BY DEF PanelInv, B!TypeOK
<1>2. \A n \in B!Streams : n # 0
  BY DEF B!Streams
<1>3. B!NothingLeaks
  BY DEF PanelInv, B!NothingLeaks, RefsHold
<1>4. B!PhaseIsHonest
  <2> SUFFICES ASSUME ~ui.raced, ui.mounted PROVE B!PhaseIsHonest
    BY DEF B!PhaseIsHonest
  <2>1. SessionHolds /\ RefsHold /\ StartHolds /\ CaptureHolds /\ PhaseHolds
    BY DEF PanelInv
  <2>2. ASSUME ui.phase = "live"
        PROVE  ui.media # 0 /\ \E s \in B!Starts : B!Sending(s) /\ (s = ui.session \/ B!Starting(s))
    <3>1. CASE ui.session # 0
      BY <1>1, <2>1, <3>1, UiFields DEF SessionHolds
    <3>2. CASE ui.session = 0
      BY <2>1, <2>2, <3>2 DEF PhaseHolds, StartHolds
    <3> QED
      BY <3>1, <3>2
  <2>3. ui.phase = "idle" => \A n \in B!Streams : capture[n] # "on"
    BY <1>2, <2>1 DEF PhaseHolds, RefsHold
  <2>4. ui.phase = "acquiring" => B!Acquiring
    BY <2>1 DEF PhaseHolds
  <2> QED
    BY <2>2, <2>3, <2>4 DEF B!PhaseIsHonest
<1> QED
  BY <1>3, <1>4

LEMMA PanelInvariant == B!BroadcastAssumption /\ B!Spec => []PanelInv
<1>1. B!BroadcastAssumption /\ B!Init => PanelInv
  BY InitHolds
<1> QED
  BY <1>1, PanelStep, PTL DEF B!Spec

-----------------------------------------------------------------------------
(* The overlay: the cached counter and the events on their way *)

Events == [kind : {"viewers"}, n : 0..1] \cup [kind : {"state", "alert"}, n : Nat]

PageKinds ==
  [at : {"connecting", "accepted", "open", "half", "refused", "backoff", "invalid"},
   link : Nat, shown : O!Stats \cup {None}, queue : Seq(Nat), current : Nat]

OverlayTypes ==
  /\ air \in [live : BOOLEAN, viewers : 0..1, token : Nat] /\ bus \in Seq(Events)
  /\ hub \in [subs : SUBSET Overlays, stats : O!Stats \cup {None}]
  /\ tasks \subseteq O!Tasks /\ overlay \in [Overlays -> PageKinds] /\ extras \in Nat

\* The subscribers of the hub are the pages whose connection is open.
SubsAreOpen == \A p \in Overlays : p \in hub.subs <=> overlay[p].at = "open"

\* The last count on its way is the channel's, if no broadcast started or ended after it.
LastCount ==
  \A i \in 1..Len(bus) :
    bus[i].kind = "viewers" /\ (\A j \in (i + 1)..Len(bus) : bus[j].kind = "alert")
      => bus[i].n = air.viewers

NoState == \A i \in 1..Len(bus) : bus[i].kind # "state"
NoNews  == \A i \in 1..Len(bus) : bus[i].kind = "alert"

\* A cached or loaded answer is the channel's, but for what is on its way.
Fresh(stats) == stats # None /\ (NoNews => stats = O!Now)

\* At rest what is cached and what the overlays show is the channel's, but for what is on its way.
RestHolds ==
  tasks = {} /\ hub.subs # {} =>
    /\ Fresh(hub.stats) /\ (NoState => hub.stats.live = air.live)
    /\ \A p \in hub.subs : overlay[p].shown \in {None, hub.stats}

\* One load at a time; its answer is not overtaken.
TaskHolds ==
  /\ \A t, u \in tasks : t = u
  /\ \A t \in tasks : hub.subs # {} =>
       /\ t.got # None => Fresh(t.got)
       /\ t.to = "event" => \A p \in hub.subs : overlay[p].shown \in {None, t.prev}
       /\ t.to # "event" =>
            \/ hub.subs \subseteq {t.to}
            \/ /\ Fresh(hub.stats)
               /\ \A p \in hub.subs \ {t.to} : overlay[p].shown \in {None, hub.stats}

OverlayInv ==
  /\ O!OverlayAssumption /\ OverlayTypes /\ SubsAreOpen /\ LastCount
  /\ raced \/ (RestHolds /\ TaskHolds)

-----------------------------------------------------------------------------
(* The events on their way *)

LEMMA NewsAppended ==
  ASSUME bus \in Seq(Events), NEW e \in Events, bus' = Append(bus, e)
  PROVE  /\ bus' \in Seq(Events) /\ bus' # <<>>
         /\ NoState' <=> NoState /\ e.kind # "state"
         /\ NoNews' <=> NoNews /\ e.kind = "alert"
<1>1. /\ bus' \in Seq(Events) /\ Len(bus') = Len(bus) + 1 /\ Len(bus) \in Nat
      /\ bus'[Len(bus) + 1] = e /\ \A i \in 1..Len(bus) : bus'[i] = bus[i]
  OBVIOUS
<1>2. 1..Len(bus') = (1..Len(bus)) \cup {Len(bus) + 1}
  BY <1>1
<1>3. bus' # <<>>
  BY <1>1
<1>4. NoState' <=> NoState /\ e.kind # "state"
  BY <1>1, <1>2 DEF NoState
<1>5. NoNews' <=> NoNews /\ e.kind = "alert"
  BY <1>1, <1>2 DEF NoNews
<1> QED
  BY <1>1, <1>3, <1>4, <1>5

LEMMA CountAppended ==
  ASSUME bus \in Seq(Events), NEW e \in Events, bus' = Append(bus, e), LastCount,
         \/ e.kind = "state"
         \/ e.kind = "viewers" /\ e.n = air'.viewers
         \/ e.kind = "alert" /\ air' = air
  PROVE  LastCount'
<1> SUFFICES ASSUME NEW i \in 1..Len(bus'), bus'[i].kind = "viewers",
                    \A j \in (i + 1)..Len(bus') : bus'[j].kind = "alert"
             PROVE  bus'[i].n = air'.viewers
  BY DEF LastCount
<1>1. /\ Len(bus') = Len(bus) + 1 /\ Len(bus) \in Nat
      /\ bus'[Len(bus) + 1] = e /\ \A j \in 1..Len(bus) : bus'[j] = bus[j]
  OBVIOUS
<1>2. CASE i = Len(bus) + 1
  BY <1>1, <1>2
<1>3. CASE i # Len(bus) + 1
  <2>1. i \in 1..Len(bus) /\ Len(bus) + 1 \in (i + 1)..Len(bus')
    BY <1>1, <1>3
  <2>2. e.kind = "alert"
    BY <1>1, <2>1
  <2>3. \A j \in (i + 1)..Len(bus) : j \in 1..Len(bus) /\ j \in (i + 1)..Len(bus')
    BY <1>1, <2>1
  <2>4. bus[i].kind = "viewers" /\ \A j \in (i + 1)..Len(bus) : bus[j].kind = "alert"
    BY <1>1, <2>1, <2>3
  <2>5. bus[i].n = air.viewers
    BY <2>1, <2>4 DEF LastCount
  <2> QED
    BY <1>1, <2>1, <2>2, <2>5
<1> QED
  BY <1>2, <1>3

LEMMA NewsDelivered ==
  ASSUME bus \in Seq(Events), bus # <<>>, bus' = Tail(bus), air' = air, LastCount
  PROVE  /\ bus' \in Seq(Events) /\ Head(bus) \in Events /\ LastCount'
         /\ NoState <=> NoState' /\ Head(bus).kind # "state"
         /\ NoNews <=> NoNews' /\ Head(bus).kind = "alert"
         /\ NoNews' /\ Head(bus).kind = "viewers" => Head(bus).n = air.viewers
<1>1. /\ bus' \in Seq(Events) /\ Len(bus') = Len(bus) - 1 /\ Len(bus) \in Nat \ {0}
      /\ Head(bus) = bus[1] /\ Head(bus) \in Events
      /\ \A i \in 1..Len(bus') : bus'[i] = bus[i + 1]
  OBVIOUS
<1>2. \A i \in 2..Len(bus) : i - 1 \in 1..Len(bus') /\ bus[i] = bus'[i - 1]
  BY <1>1
<1>3. \A i \in 1..Len(bus') : i + 1 \in 2..Len(bus)
  BY <1>1
<1>4. \A i \in 1..Len(bus) : i = 1 \/ i \in 2..Len(bus)
  BY <1>1
<1>5. 1 \in 1..Len(bus) /\ 2..Len(bus) \subseteq 1..Len(bus)
  BY <1>1
<1>6. NoState <=> NoState' /\ Head(bus).kind # "state"
  BY <1>1, <1>2, <1>3, <1>4, <1>5 DEF NoState
<1>7. NoNews <=> NoNews' /\ Head(bus).kind = "alert"
  BY <1>1, <1>2, <1>3, <1>4, <1>5 DEF NoNews
<1>8. NoNews' /\ Head(bus).kind = "viewers" => Head(bus).n = air.viewers
  <2> SUFFICES ASSUME NoNews', Head(bus).kind = "viewers" PROVE Head(bus).n = air.viewers
    OBVIOUS
  <2>1. \A j \in (1 + 1)..Len(bus) : j \in 2..Len(bus)
    BY <1>1
  <2>2. \A j \in (1 + 1)..Len(bus) : bus[j].kind = "alert"
    BY <1>2, <2>1 DEF NoNews
  <2> QED
    BY <1>1, <1>5, <2>2 DEF LastCount
<1>9. LastCount'
  <2> SUFFICES ASSUME NEW i \in 1..Len(bus'), bus'[i].kind = "viewers",
                      \A j \in (i + 1)..Len(bus') : bus'[j].kind = "alert"
               PROVE  bus'[i].n = air'.viewers
    BY DEF LastCount
  <2>1. i + 1 \in 1..Len(bus) /\ bus[i + 1] = bus'[i]
    BY <1>1
  <2>2. \A j \in (i + 1 + 1)..Len(bus) : j - 1 \in (i + 1)..Len(bus') /\ j \in 2..Len(bus)
    BY <1>1
  <2>3. \A j \in (i + 1 + 1)..Len(bus) : bus[j].kind = "alert"
    BY <1>2, <2>2
  <2> QED
    BY <2>1, <2>3 DEF LastCount
<1> QED
  BY <1>1, <1>6, <1>7, <1>8, <1>9

LEMMA NothingOnItsWay ==
  ASSUME bus = <<>>
  PROVE  NoState /\ NoNews
BY DEF NoState, NoNews

-----------------------------------------------------------------------------
(* The fields of a page and of the channel *)

LEMMA NowIsStats ==
  ASSUME O!OverlayAssumption, OverlayTypes
  PROVE  O!Now \in O!Stats /\ O!Now # None /\ O!Now.live = air.live /\ O!Now.viewers = air.viewers
BY DEF O!OverlayAssumption, OverlayTypes, O!Now, O!Stats

\* Records that agree in both fields are equal.
LEMMA StatsAgree ==
  ASSUME NEW a \in O!Stats, NEW b \in O!Stats, a.live = b.live, a.viewers = b.viewers
  PROVE  a = b
BY DEF O!Stats

LEMMA ShownFields ==
  ASSUME NEW r \in PageKinds, NEW s \in O!Stats
  PROVE  /\ [r EXCEPT !.shown = s] \in PageKinds /\ [r EXCEPT !.shown = s].at = r.at
         /\ [r EXCEPT !.shown = s].shown = s
BY DEF PageKinds

\* What a connection does to its own page.
LEMMA PageMoves ==
  ASSUME OverlayTypes, NEW p \in Overlays, NEW r \in PageKinds,
         overlay' = [overlay EXCEPT ![p] = r]
  PROVE  /\ overlay' \in [Overlays -> PageKinds] /\ overlay'[p] = r
         /\ \A q \in Overlays \ {p} : overlay'[q] = overlay[q]
BY DEF OverlayTypes

\* The same of what a step leaves.
StaysFresh(stats) == stats # None /\ (NoNews' => stats = O!Now')

Carried == OverlayTypes' /\ SubsAreOpen' /\ LastCount' /\ (~raced' => ~raced /\ RestHolds' /\ TaskHolds')

\* A step that leaves alone which pages are open and what they show.
LEMMA PagesStep ==
  ASSUME OverlayInv, overlay' \in [Overlays -> PageKinds], extras' \in Nat,
         UNCHANGED <<air, bus, hub, tasks, raced>>,
         \A p \in Overlays : /\ overlay'[p].at = "open" <=> overlay[p].at = "open"
                             /\ overlay[p].at = "open" => overlay'[p].shown = overlay[p].shown
  PROVE  Carried
<1>1. OverlayTypes'
  BY DEF OverlayInv, OverlayTypes
<1>2. SubsAreOpen' /\ LastCount'
  BY DEF OverlayInv, SubsAreOpen, LastCount
<1>3. \A p \in hub.subs : p \in Overlays /\ overlay'[p].shown = overlay[p].shown
  BY DEF OverlayInv, OverlayTypes, SubsAreOpen
<1>4. ASSUME ~raced' PROVE ~raced /\ RestHolds' /\ TaskHolds'
  <2>1. ~raced /\ RestHolds /\ TaskHolds
    BY <1>4 DEF OverlayInv
  <2>2. /\ (NoState' <=> NoState) /\ (NoNews' <=> NoNews) /\ O!Now' = O!Now
        /\ air' = air /\ hub' = hub /\ tasks' = tasks
    BY DEF NoState, NoNews, O!Now
  <2>3. RestHolds'
    BY <1>3, <2>1, <2>2 DEF RestHolds, Fresh
  <2>4. TaskHolds'
    BY <1>3, <2>1, <2>2 DEF TaskHolds, Fresh
  <2> QED
    BY <2>1, <2>3, <2>4
<1> QED
  BY <1>1, <1>2, <1>4 DEF Carried

\* A connection that was not open moves on and is not open.
LEMMA ClosedPageStep ==
  ASSUME OverlayInv, NEW p \in Overlays, NEW r \in PageKinds,
         overlay' = [overlay EXCEPT ![p] = r],
         extras' \in Nat, UNCHANGED <<air, bus, hub, tasks, raced>>,
         overlay[p].at # "open", r.at # "open"
  PROVE  Carried
<1>1. /\ overlay' \in [Overlays -> PageKinds] /\ overlay'[p] = r
      /\ \A q \in Overlays \ {p} : overlay'[q] = overlay[q]
  BY PageMoves DEF OverlayInv
<1>2. \A q \in Overlays : /\ overlay'[q].at = "open" <=> overlay[q].at = "open"
                          /\ overlay[q].at = "open" => overlay'[q].shown = overlay[q].shown
  BY <1>1
<1> QED
  BY <1>1, <1>2, PagesStep

LEMMA ConnectionStep ==
  ASSUME OverlayInv, NEW p \in Overlays,
         O!Lookup(p) \/ O!Fail(p) \/ O!Probe(p) \/ O!Watchdog(p) \/ O!Reconnect(p)
  PROVE  Carried
<1>1. PICK x \in {"connecting", "accepted", "half", "refused", "backoff", "invalid"} :
        /\ overlay' = [overlay EXCEPT ![p].at = x] /\ overlay[p].at # "open"
        /\ UNCHANGED <<air, bus, hub, tasks, raced>>
        /\ extras' = extras \/ extras' = extras + 1
  <2>1. CASE O!Lookup(p)
    BY <2>1 DEF O!Lookup
  <2>2. CASE O!Fail(p)
    BY <2>2 DEF O!Fail, O!Extra
  <2>3. CASE O!Probe(p)
    BY <2>3 DEF O!Probe
  <2>4. CASE O!Watchdog(p)
    BY <2>4 DEF O!Watchdog
  <2>5. CASE O!Reconnect(p)
    BY <2>5 DEF O!Reconnect
  <2> QED
    BY <2>1, <2>2, <2>3, <2>4, <2>5
<1>2. OverlayTypes /\ overlay[p] \in PageKinds /\ extras' \in Nat
  BY <1>1 DEF OverlayInv, OverlayTypes
<1> DEFINE r == [overlay[p] EXCEPT !.at = x]
<1>3. overlay' = [overlay EXCEPT ![p] = r]
  BY <1>1, <1>2 DEF OverlayTypes
<1>4. r \in PageKinds /\ r.at # "open"
  BY <1>2 DEF PageKinds
<1> HIDE DEF r
<1> QED
  BY <1>1, <1>2, <1>3, <1>4, ClosedPageStep

LEMMA PasteStep ==
  ASSUME OverlayInv, NEW p \in Overlays, O!Paste(p)
  PROVE  Carried
<1> DEFINE r == [at |-> "connecting", link |-> air.token, shown |-> None, queue |-> <<>>,
                 current |-> 0]
<1>1. /\ overlay' = [overlay EXCEPT ![p] = r] /\ overlay[p].at # "open" /\ extras' = extras
      /\ UNCHANGED <<air, bus, hub, tasks, raced>>
  BY DEF O!Paste
<1>2. r \in PageKinds /\ r.at # "open" /\ extras \in Nat
  BY DEF OverlayInv, OverlayTypes, PageKinds
<1> HIDE DEF r
<1> QED
  BY <1>1, <1>2, ClosedPageStep

LEMMA AlertStep ==
  ASSUME OverlayInv, NEW p \in Overlays, O!ShowAlert(p) \/ O!AlertEnds(p)
  PROVE  Carried
<1>1. OverlayTypes /\ overlay[p] \in PageKinds /\ extras \in Nat
  BY DEF OverlayInv, OverlayTypes
<1>2. UNCHANGED <<air, bus, hub, tasks, raced, extras>>
  BY DEF O!ShowAlert, O!AlertEnds
<1>3. PICK r \in PageKinds : /\ overlay' = [overlay EXCEPT ![p] = r]
                             /\ r.at = overlay[p].at /\ r.shown = overlay[p].shown
  <2>1. CASE O!ShowAlert(p)
    <3> DEFINE r == [overlay[p] EXCEPT !.current = Head(overlay[p].queue), !.queue = Tail(@)]
    <3>1. overlay' = [overlay EXCEPT ![p] = r] /\ overlay[p].queue # <<>>
      BY <1>1, <2>1 DEF O!ShowAlert, OverlayTypes
    <3>2. /\ overlay[p].queue \in Seq(Nat) /\ Head(overlay[p].queue) \in Nat
          /\ Tail(overlay[p].queue) \in Seq(Nat)
      BY <1>1, <3>1 DEF PageKinds
    <3>3. r \in PageKinds /\ r.at = overlay[p].at /\ r.shown = overlay[p].shown
      BY <1>1, <3>2 DEF PageKinds
    <3> QED
      BY <3>1, <3>3
  <2>2. CASE O!AlertEnds(p)
    <3> DEFINE r == [overlay[p] EXCEPT !.current = 0]
    <3>1. overlay' = [overlay EXCEPT ![p] = r]
      BY <1>1, <2>2 DEF O!AlertEnds, OverlayTypes
    <3>2. r \in PageKinds /\ r.at = overlay[p].at /\ r.shown = overlay[p].shown
      BY <1>1 DEF PageKinds
    <3> QED
      BY <3>1, <3>2
  <2> QED
    BY <2>1, <2>2
<1>4. /\ overlay' \in [Overlays -> PageKinds] /\ overlay'[p] = r
      /\ \A q \in Overlays \ {p} : overlay'[q] = overlay[q]
  BY <1>1, <1>3, PageMoves
<1>5. \A q \in Overlays : /\ overlay'[q].at = "open" <=> overlay[q].at = "open"
                          /\ overlay[q].at = "open" => overlay'[q].shown = overlay[q].shown
  BY <1>3, <1>4
<1> QED
  BY <1>1, <1>2, <1>4, <1>5, PagesStep

-----------------------------------------------------------------------------
(* What is published *)

\* An event is published; only an alert leaves the channel as it was.
LEMMA PublishStep ==
  ASSUME OverlayInv, NEW e \in Events, bus' = Append(bus, e), extras' \in Nat,
         air' \in [live : BOOLEAN, viewers : 0..1, token : Nat],
         UNCHANGED <<hub, tasks, overlay, raced>>,
         \/ e.kind = "state"
         \/ e.kind = "viewers" /\ e.n = air'.viewers /\ air'.live = air.live
         \/ e.kind = "alert" /\ air' = air
  PROVE  Carried
<1>1. OverlayTypes /\ bus \in Seq(Events) /\ LastCount /\ SubsAreOpen
  BY DEF OverlayInv, OverlayTypes
<1>2. /\ bus' \in Seq(Events) /\ (NoState' <=> NoState /\ e.kind # "state")
      /\ (NoNews' <=> NoNews /\ e.kind = "alert")
  BY <1>1, NewsAppended
<1>3. LastCount'
  BY <1>1, CountAppended
<1>4. OverlayTypes' /\ SubsAreOpen'
  BY <1>1, <1>2 DEF OverlayTypes, SubsAreOpen
<1>5. ASSUME ~raced' PROVE ~raced /\ RestHolds' /\ TaskHolds'
  <2>1. ~raced /\ RestHolds /\ TaskHolds
    BY <1>5 DEF OverlayInv
  <2>2. NoNews' => NoNews /\ O!Now' = O!Now
    BY <1>2 DEF O!Now
  <2>3. NoState' => NoState /\ air'.live = air.live
    BY <1>2
  <2>4. \A stats : Fresh(stats) => StaysFresh(stats)
    BY <2>2 DEF Fresh, StaysFresh
  <2>5. hub' = hub /\ tasks' = tasks /\ overlay' = overlay
    OBVIOUS
  <2>6. RestHolds'
    BY <2>1, <2>3, <2>4, <2>5 DEF RestHolds, Fresh, StaysFresh
  <2>7. TaskHolds'
    BY <2>1, <2>4, <2>5 DEF TaskHolds, Fresh, StaysFresh
  <2> QED
    BY <2>1, <2>6, <2>7
<1> QED
  BY <1>3, <1>4, <1>5 DEF Carried

LEMMA PublishedSteps ==
  ASSUME OverlayInv, O!GoLiveOrEnd \/ O!Count \/ O!Alert
  PROVE  Carried
<1>1. air \in [live : BOOLEAN, viewers : 0..1, token : Nat] /\ extras \in Nat
  BY DEF OverlayInv, OverlayTypes
<1>2. CASE O!GoLiveOrEnd
  <2> DEFINE e == [kind |-> "state", n |-> 0]
  <2>1. /\ bus' = Append(bus, e) /\ air' = [air EXCEPT !.live = ~@, !.viewers = 0]
        /\ UNCHANGED <<hub, tasks, overlay, raced, extras>>
    BY <1>2 DEF O!GoLiveOrEnd
  <2>2. e \in Events /\ e.kind = "state"
    BY DEF Events
  <2>3. air' \in [live : BOOLEAN, viewers : 0..1, token : Nat]
    <3>1. 0 \in 0..1 /\ (~air.live) \in BOOLEAN
      OBVIOUS
    <3> QED
      BY <1>1, <2>1, <3>1
  <2> HIDE DEF e
  <2> QED
    BY <1>1, <2>1, <2>2, <2>3, PublishStep
<1>3. CASE O!Count
  <2> DEFINE e == [kind |-> "viewers", n |-> air'.viewers]
  <2>1. /\ bus' = Append(bus, e) /\ air' = [air EXCEPT !.viewers = 1 - @]
        /\ UNCHANGED <<hub, tasks, overlay, raced, extras>>
    BY <1>3 DEF O!Count
  <2>2. /\ air' \in [live : BOOLEAN, viewers : 0..1, token : Nat] /\ air'.live = air.live
        /\ air'.viewers \in 0..1
    <3>1. \A v \in 0..1 : 1 - v \in 0..1
      OBVIOUS
    <3> QED
      BY <1>1, <2>1, <3>1
  <2>3. e \in Events /\ e.kind = "viewers" /\ e.n = air'.viewers
    BY <2>2 DEF Events
  <2> HIDE DEF e
  <2> QED
    BY <1>1, <2>1, <2>2, <2>3, PublishStep
<1>4. CASE O!Alert
  <2> DEFINE e == [kind |-> "alert", n |-> extras']
  <2>1. /\ bus' = Append(bus, e) /\ air' = air /\ extras' \in Nat
        /\ UNCHANGED <<hub, tasks, overlay, raced>>
    BY <1>1, <1>4 DEF O!Alert, O!Extra
  <2>2. e \in Events /\ e.kind = "alert"
    BY <2>1 DEF Events
  <2> HIDE DEF e
  <2> QED
    BY <1>1, <2>1, <2>2, PublishStep
<1> QED
  BY <1>2, <1>3, <1>4

LEMMA LoseEventStep ==
  ASSUME OverlayInv, O!LoseEvent
  PROVE  Carried
<1>1. /\ bus # <<>> /\ bus' = Tail(bus) /\ air' = air /\ raced' = TRUE
      /\ UNCHANGED <<hub, tasks, overlay>> /\ extras' = extras + 1
  BY DEF O!LoseEvent, O!Extra
<1>2. OverlayTypes /\ bus \in Seq(Events) /\ LastCount /\ SubsAreOpen
  BY DEF OverlayInv, OverlayTypes
<1>3. bus' \in Seq(Events) /\ LastCount'
  BY <1>1, <1>2, NewsDelivered
<1>4. OverlayTypes' /\ SubsAreOpen'
  BY <1>1, <1>2, <1>3 DEF OverlayTypes, SubsAreOpen
<1> QED
  BY <1>1, <1>3, <1>4 DEF Carried

-----------------------------------------------------------------------------
(* What the hub does with it *)

LEMMA QueuedFields ==
  ASSUME OverlayTypes, NEW p \in Overlays, NEW n \in Nat
  PROVE  /\ O!Queued(p, n) \in PageKinds /\ O!Queued(p, n).at = overlay[p].at
         /\ O!Queued(p, n).shown = overlay[p].shown
<1> DEFINE q == Append(overlay[p].queue, n)
<1> DEFINE k == IF Len(q) > MaxQueue THEN Tail(q) ELSE q
<1>1. overlay[p] \in PageKinds
  BY DEF OverlayTypes
<1>2. q \in Seq(Nat) /\ q # <<>>
  <2>1. overlay[p].queue \in Seq(Nat)
    BY <1>1 DEF PageKinds
  <2> QED
    BY <2>1
<1>3. k \in Seq(Nat)
  <2> HIDE DEF q
  <2>1. Tail(q) \in Seq(Nat)
    BY <1>2
  <2> QED
    BY <1>2, <2>1
<1>4. O!Queued(p, n) = [overlay[p] EXCEPT !.queue = k]
  BY DEF O!Queued
<1> HIDE DEF q, k
<1> QED
  BY <1>1, <1>3, <1>4 DEF PageKinds

LEMMA PushedFields ==
  ASSUME OverlayTypes, NEW s \in O!Stats
  PROVE  /\ O!Pushed(s) \in [Overlays -> PageKinds]
         /\ \A p \in Overlays : /\ O!Pushed(s)[p].at = overlay[p].at
                                /\ p \in hub.subs /\ overlay[p].at = "open" =>
                                     O!Pushed(s)[p].shown = s
<1>1. \A p \in Overlays : overlay[p] \in PageKinds
  BY DEF OverlayTypes
<1>3. \A p \in Overlays : /\ [overlay[p] EXCEPT !.shown = s] \in PageKinds
                          /\ [overlay[p] EXCEPT !.shown = s].at = overlay[p].at
                          /\ [overlay[p] EXCEPT !.shown = s].shown = s
  <2> TAKE p \in Overlays
  <2>1. overlay[p] \in PageKinds
    BY <1>1
  <2> QED
    BY <2>1, ShownFields
<1> QED
  BY <1>1, <1>3 DEF O!Pushed

\* What onChannelEvent knows in the end is cached, and the open overlays show it.
LEMMA AnnounceFields ==
  ASSUME O!OverlayAssumption, OverlayTypes, SubsAreOpen, NEW prev, NEW next \in O!Stats,
         O!Announce(prev, next)
  PROVE  /\ hub' \in [subs : SUBSET Overlays, stats : O!Stats \cup {None}]
         /\ hub'.subs = hub.subs /\ hub'.stats = next
         /\ overlay' \in [Overlays -> PageKinds] /\ \A p \in Overlays : overlay'[p].at = overlay[p].at
         /\ (\A p \in hub.subs : overlay[p].shown \in {None, prev}) =>
              \A p \in hub.subs : overlay'[p].shown \in {None, next}
<1>1. /\ hub' \in [subs : SUBSET Overlays, stats : O!Stats \cup {None}]
      /\ hub'.subs = hub.subs /\ hub'.stats = next
  BY DEF O!Announce, OverlayTypes
<1>2. \A p \in hub.subs : p \in Overlays /\ overlay[p].at = "open"
  BY DEF OverlayTypes, SubsAreOpen
<1>3. CASE O!Same(prev, next)
  BY <1>1, <1>3 DEF O!Announce, O!Same, OverlayTypes
<1>4. CASE ~O!Same(prev, next)
  <2>1. overlay' = O!Pushed(next)
    BY <1>4 DEF O!Announce
  <2>2. /\ overlay' \in [Overlays -> PageKinds] /\ \A p \in Overlays : overlay'[p].at = overlay[p].at
        /\ \A p \in Overlays : p \in hub.subs /\ overlay[p].at = "open" => overlay'[p].shown = next
    BY <2>1, PushedFields
  <2> QED
    BY <1>1, <1>2, <2>2
<1> QED
  BY <1>3, <1>4

LEMMA DeliverStep ==
  ASSUME OverlayInv, O!Deliver
  PROVE  Carried
<1> DEFINE ev == Head(bus)
<1>1. /\ O!OverlayAssumption /\ OverlayTypes /\ bus \in Seq(Events) /\ LastCount /\ SubsAreOpen
      /\ hub \in [subs : SUBSET Overlays, stats : O!Stats \cup {None}]
  BY DEF OverlayInv, OverlayTypes
<1>2. bus # <<>> /\ bus' = Tail(bus) /\ air' = air /\ extras' = extras
  BY DEF O!Deliver
<1>3. /\ bus' \in Seq(Events) /\ ev \in Events /\ LastCount'
      /\ (NoState <=> NoState' /\ ev.kind # "state") /\ (NoNews <=> NoNews' /\ ev.kind = "alert")
      /\ (NoNews' /\ ev.kind = "viewers" => ev.n = air.viewers)
  BY <1>1, <1>2, NewsDelivered
<1>4. O!Now' = O!Now
  BY <1>2 DEF O!Now
<1>5. ~raced => RestHolds /\ TaskHolds
  BY DEF OverlayInv
<1>6. CASE hub.subs = {} /\ UNCHANGED <<hub, tasks, overlay, raced>>
  <2>1. OverlayTypes' /\ SubsAreOpen'
    BY <1>1, <1>2, <1>3, <1>6 DEF OverlayTypes, SubsAreOpen
  <2>2. ~raced' => ~raced /\ RestHolds' /\ TaskHolds'
    BY <1>5, <1>6 DEF RestHolds, TaskHolds
  <2> QED
    BY <1>3, <2>1, <2>2 DEF Carried
<1>7. CASE hub.subs # {} /\ ev.kind = "alert" /\ overlay' = O!Alerted(ev.n) /\ UNCHANGED <<hub, tasks, raced>>
  <2>1. ev.n \in Nat
    BY <1>3 DEF Events
  <2>2. /\ overlay' \in [Overlays -> PageKinds]
        /\ \A p \in Overlays : overlay'[p].at = overlay[p].at /\ overlay'[p].shown = overlay[p].shown
    <3>1. \A p \in Overlays : overlay[p] \in PageKinds
      BY <1>1 DEF OverlayTypes
    <3> QED
      BY <1>1, <1>7, <2>1, <3>1, QueuedFields DEF O!Alerted
  <2>3. OverlayTypes' /\ SubsAreOpen'
    BY <1>1, <1>2, <1>3, <1>7, <2>2 DEF OverlayTypes, SubsAreOpen
  <2>4. (NoState' <=> NoState) /\ (NoNews' <=> NoNews) /\ hub.subs \subseteq Overlays
    BY <1>1, <1>3, <1>7
  <2>5. ASSUME ~raced' PROVE ~raced /\ RestHolds' /\ TaskHolds'
    <3>1. ~raced /\ RestHolds /\ TaskHolds /\ hub' = hub /\ tasks' = tasks
      BY <1>5, <1>7, <2>5
    <3>2. \A stats : Fresh(stats) => StaysFresh(stats)
      BY <1>4, <2>4 DEF Fresh, StaysFresh
    <3>3. \A p \in hub.subs : overlay'[p].shown = overlay[p].shown
      BY <2>2, <2>4
    <3>4. RestHolds'
      BY <1>2, <2>4, <3>1, <3>2, <3>3 DEF RestHolds, Fresh, StaysFresh
    <3>5. TaskHolds'
      BY <3>1, <3>2, <3>3 DEF TaskHolds, Fresh, StaysFresh
    <3> QED
      BY <3>1, <3>4, <3>5
  <2> QED
    BY <1>3, <2>3, <2>5 DEF Carried
<1>8. CASE /\ hub.subs # {} /\ ev.kind = "viewers" /\ hub.stats # None
           /\ O!Announce(hub.stats, [hub.stats EXCEPT !.viewers = ev.n])
           /\ raced' = (raced \/ tasks # {}) /\ UNCHANGED tasks
  <2> DEFINE next == [hub.stats EXCEPT !.viewers = ev.n]
  <2>1. hub.stats \in O!Stats
    BY <1>1, <1>8
  <2>2. next \in O!Stats /\ next.live = hub.stats.live /\ next.viewers = ev.n
    <3>1. ev.n \in 0..1
      BY <1>3, <1>8 DEF Events
    <3> QED
      BY <2>1, <3>1 DEF O!Stats
  <2>3. O!Announce(hub.stats, next)
    BY <1>8
  <2> HIDE DEF next
  <2>4. /\ hub' \in [subs : SUBSET Overlays, stats : O!Stats \cup {None}]
        /\ hub'.subs = hub.subs /\ hub'.stats = next
        /\ overlay' \in [Overlays -> PageKinds] /\ \A p \in Overlays : overlay'[p].at = overlay[p].at
        /\ (\A p \in hub.subs : overlay[p].shown \in {None, hub.stats}) =>
             \A p \in hub.subs : overlay'[p].shown \in {None, next}
    BY <1>1, <2>2, <2>3, AnnounceFields
  <2>5. OverlayTypes' /\ SubsAreOpen'
    BY <1>1, <1>2, <1>3, <1>8, <2>4 DEF OverlayTypes, SubsAreOpen
  <2>6. ASSUME ~raced' PROVE ~raced /\ RestHolds' /\ TaskHolds'
    <3>1. ~raced /\ RestHolds /\ tasks = {} /\ tasks' = {}
      BY <1>5, <1>8, <2>6
    <3>2. /\ Fresh(hub.stats) /\ (NoState => hub.stats.live = air.live)
          /\ \A p \in hub.subs : overlay[p].shown \in {None, hub.stats}
      BY <1>8, <3>1 DEF RestHolds
    <3>3. NoState' => next.live = air'.live
      BY <1>2, <1>3, <1>8, <2>2, <3>2
    <3>4. NoNews' => NoState'
      BY DEF NoNews, NoState
    <3>5. NoNews' => next = O!Now
      BY <1>1, <1>2, <1>3, <1>8, <2>2, <3>3, <3>4, NowIsStats, StatsAgree
    <3>6. StaysFresh(next)
      BY <1>1, <1>4, <2>2, <3>5 DEF StaysFresh, O!OverlayAssumption
    <3>7. RestHolds'
      BY <2>4, <3>2, <3>3, <3>6 DEF RestHolds, Fresh, StaysFresh
    <3>8. TaskHolds'
      BY <3>1 DEF TaskHolds, Fresh, StaysFresh
    <3> QED
      BY <3>1, <3>7, <3>8
  <2> QED
    BY <1>3, <2>5, <2>6 DEF Carried
<1>9. CASE /\ hub.subs # {} /\ (ev.kind = "state" \/ (ev.kind = "viewers" /\ hub.stats = None))
           /\ tasks' = tasks \cup {[to |-> "event", prev |-> hub.stats, got |-> None]}
           /\ raced' = (raced \/ tasks # {}) /\ UNCHANGED <<hub, overlay>>
  <2> DEFINE t == [to |-> "event", prev |-> hub.stats, got |-> None]
  <2>1. t \in O!Tasks /\ t.to = "event" /\ t.prev = hub.stats /\ t.got = None
    BY <1>1 DEF O!Tasks
  <2>2. tasks' = tasks \cup {t}
    BY <1>9
  <2> HIDE DEF t
  <2>3. OverlayTypes' /\ SubsAreOpen'
    BY <1>1, <1>2, <1>3, <1>9, <2>1, <2>2 DEF OverlayTypes, SubsAreOpen
  <2>4. ASSUME ~raced' PROVE ~raced /\ RestHolds' /\ TaskHolds'
    <3>1. ~raced /\ RestHolds /\ tasks' = {t} /\ hub' = hub /\ overlay' = overlay /\ tasks = {}
      BY <1>5, <1>9, <2>2, <2>4
    <3>2. \A p \in hub.subs : overlay[p].shown \in {None, hub.stats}
      BY <1>9, <3>1 DEF RestHolds
    <3>3. RestHolds'
      BY <3>1 DEF RestHolds, Fresh, StaysFresh
    <3>4. TaskHolds'
      BY <2>1, <3>1, <3>2 DEF TaskHolds, Fresh, StaysFresh
    <3> QED
      BY <3>1, <3>3, <3>4
  <2> QED
    BY <1>3, <2>3, <2>4 DEF Carried
<1> HIDE DEF ev
<1>10. \/ hub.subs = {} /\ UNCHANGED <<hub, tasks, overlay, raced>>
       \/ hub.subs # {} /\ ev.kind = "alert" /\ overlay' = O!Alerted(ev.n) /\ UNCHANGED <<hub, tasks, raced>>
       \/ /\ hub.subs # {} /\ ev.kind = "viewers" /\ hub.stats # None
          /\ O!Announce(hub.stats, [hub.stats EXCEPT !.viewers = ev.n])
          /\ raced' = (raced \/ tasks # {}) /\ UNCHANGED tasks
       \/ /\ hub.subs # {} /\ (ev.kind = "state" \/ (ev.kind = "viewers" /\ hub.stats = None))
          /\ tasks' = tasks \cup {[to |-> "event", prev |-> hub.stats, got |-> None]}
          /\ raced' = (raced \/ tasks # {}) /\ UNCHANGED <<hub, overlay>>
  BY DEF O!Deliver, ev
<1> QED
  BY <1>6, <1>7, <1>8, <1>9, <1>10

-----------------------------------------------------------------------------
(* Loads *)

LEMMA TaskFields ==
  ASSUME NEW t \in O!Tasks, NEW s \in O!Stats
  PROVE  /\ t.to \in Overlays \cup {"event"} /\ t.prev \in O!Stats \cup {None}
         /\ t.got \in O!Stats \cup {None}
         /\ [t EXCEPT !.got = s] \in O!Tasks /\ [t EXCEPT !.got = s].got = s
         /\ [t EXCEPT !.got = s].to = t.to /\ [t EXCEPT !.got = s].prev = t.prev
BY DEF O!Tasks

LEMMA LoadStep ==
  ASSUME OverlayInv, NEW t \in O!Tasks, O!Load(t)
  PROVE  Carried
<1> DEFINE u == [t EXCEPT !.got = O!Now]
<1>1. /\ O!OverlayAssumption /\ OverlayTypes /\ LastCount /\ SubsAreOpen
      /\ t \in tasks /\ tasks' = (tasks \ {t}) \cup {u}
      /\ UNCHANGED <<air, bus, hub, overlay, extras, raced>>
  BY DEF OverlayInv, O!Load
<1>2. O!Now \in O!Stats /\ O!Now # None
  BY <1>1, NowIsStats
<1>3. u \in O!Tasks /\ u.got = O!Now /\ u.to = t.to /\ u.prev = t.prev
  BY <1>2, TaskFields
<1> HIDE DEF u
<1>4. OverlayTypes'
  BY <1>1, <1>3 DEF OverlayTypes
<1>5. SubsAreOpen' /\ LastCount'
  BY <1>1 DEF SubsAreOpen, LastCount
<1>6. ASSUME ~raced' PROVE ~raced /\ RestHolds' /\ TaskHolds'
  <2>1. ~raced /\ RestHolds /\ TaskHolds /\ hub' = hub /\ overlay' = overlay
    BY <1>1, <1>6 DEF OverlayInv
  <2>2. tasks' = {u}
    BY <1>1, <2>1 DEF TaskHolds
  <2>3. RestHolds'
    BY <2>2 DEF RestHolds, Fresh, StaysFresh
  <2>4. \A stats : Fresh(stats) => StaysFresh(stats)
    BY <1>1 DEF Fresh, StaysFresh, NoNews, O!Now
  <2>5. StaysFresh(u.got)
    BY <1>1, <1>2, <1>3 DEF StaysFresh, O!Now
  <2>6. TaskHolds'
    BY <1>1, <1>3, <2>1, <2>2, <2>4, <2>5 DEF TaskHolds, Fresh, StaysFresh
  <2> QED
    BY <2>1, <2>3, <2>6
<1> QED
  BY <1>4, <1>5, <1>6 DEF Carried

LEMMA LoadedStep ==
  ASSUME OverlayInv, NEW t \in O!Tasks, O!Loaded(t)
  PROVE  Carried
<1>1. /\ O!OverlayAssumption /\ OverlayTypes /\ LastCount /\ SubsAreOpen
      /\ t \in tasks /\ t.got # None /\ tasks' = tasks \ {t}
      /\ raced' = (raced \/ tasks' # {} \/ bus # <<>>)
      /\ UNCHANGED <<air, bus, extras>>
  BY DEF OverlayInv, O!Loaded
<1>2. /\ t.got \in O!Stats /\ t.to \in Overlays \cup {"event"}
      /\ hub \in [subs : SUBSET Overlays, stats : O!Stats \cup {None}]
      /\ overlay \in [Overlays -> PageKinds]
  BY <1>1 DEF OverlayTypes, O!Tasks
<1>3. LastCount'
  BY <1>1 DEF LastCount
\* What is cached and shown afterwards, whoever asked.
<1>4. /\ hub' \in [subs : SUBSET Overlays, stats : O!Stats \cup {None}]
      /\ hub'.subs = hub.subs /\ hub'.stats = t.got
      /\ overlay' \in [Overlays -> PageKinds] /\ \A p \in Overlays : overlay'[p].at = overlay[p].at
      /\ ~raced' /\ hub.subs # {} => \A p \in hub.subs : overlay'[p].shown \in {None, t.got}
  <2>1. ~raced' => ~raced /\ TaskHolds /\ NoNews
    BY <1>1, NothingOnItsWay DEF OverlayInv
  <2>2. CASE t.to = "event"
    <3>1. O!Announce(t.prev, t.got)
      BY <2>2 DEF O!Loaded
    <3>2. /\ hub' \in [subs : SUBSET Overlays, stats : O!Stats \cup {None}]
          /\ hub'.subs = hub.subs /\ hub'.stats = t.got
          /\ overlay' \in [Overlays -> PageKinds] /\ \A p \in Overlays : overlay'[p].at = overlay[p].at
          /\ (\A p \in hub.subs : overlay[p].shown \in {None, t.prev}) =>
               \A p \in hub.subs : overlay'[p].shown \in {None, t.got}
      BY <1>1, <1>2, <3>1, AnnounceFields
    <3>3. ~raced' /\ hub.subs # {} => \A p \in hub.subs : overlay[p].shown \in {None, t.prev}
      BY <1>1, <2>1, <2>2 DEF TaskHolds
    <3> QED
      BY <3>2, <3>3
  <2>3. CASE t.to # "event"
    <3>1. /\ t.to \in Overlays /\ hub' = [hub EXCEPT !.stats = t.got]
          /\ overlay' = IF t.to \in hub.subs /\ overlay[t.to].at = "open"
                       THEN [overlay EXCEPT ![t.to].shown = t.got] ELSE overlay
      BY <1>2, <2>3 DEF O!Loaded
    <3>2. /\ hub' \in [subs : SUBSET Overlays, stats : O!Stats \cup {None}]
          /\ hub'.subs = hub.subs /\ hub'.stats = t.got
      BY <1>2, <3>1
    <3>3. /\ overlay' \in [Overlays -> PageKinds] /\ \A p \in Overlays : overlay'[p].at = overlay[p].at
          /\ \A p \in Overlays \ {t.to} : overlay'[p] = overlay[p]
          /\ t.to \in hub.subs => overlay'[t.to].shown = t.got
      <4> DEFINE r == [overlay[t.to] EXCEPT !.shown = t.got]
      <4>2. overlay[t.to] \in PageKinds
        BY <1>2, <3>1
      <4>3. r \in PageKinds /\ r.at = overlay[t.to].at /\ r.shown = t.got
        BY <1>2, <4>2, ShownFields
      <4>4. overlay' = IF t.to \in hub.subs /\ overlay[t.to].at = "open"
                      THEN [overlay EXCEPT ![t.to] = r] ELSE overlay
        BY <1>2, <3>1
      <4> HIDE DEF r
      <4> QED
        BY <1>1, <1>2, <3>1, <4>3, <4>4 DEF SubsAreOpen
    <3>4. ASSUME ~raced', hub.subs # {}, NEW p \in hub.subs PROVE overlay'[p].shown \in {None, t.got}
      <4>1. CASE p = t.to
        BY <3>3, <3>4, <4>1
      <4>2. CASE p # t.to
        <5>1. /\ Fresh(hub.stats) /\ overlay[p].shown \in {None, hub.stats} /\ Fresh(t.got) /\ NoNews
          BY <1>1, <2>1, <2>3, <3>4, <4>2 DEF TaskHolds
        <5>2. hub.stats = t.got
          BY <5>1 DEF Fresh
        <5>3. p \in Overlays \ {t.to}
          BY <1>2, <3>4, <4>2
        <5> QED
          BY <3>3, <5>1, <5>2, <5>3
      <4> QED
        BY <4>1, <4>2
    <3> QED
      BY <3>2, <3>3, <3>4
  <2> QED
    BY <2>2, <2>3
<1>5. OverlayTypes' /\ SubsAreOpen'
  BY <1>1, <1>2, <1>4 DEF OverlayTypes, SubsAreOpen
<1>6. ASSUME ~raced' PROVE ~raced /\ RestHolds' /\ TaskHolds'
  <2>1. ~raced /\ TaskHolds /\ tasks' = {} /\ NoNews /\ NoState
    BY <1>1, <1>6, NothingOnItsWay DEF OverlayInv
  <2>2. hub.subs # {} => Fresh(t.got)
    BY <1>1, <2>1 DEF TaskHolds
  <2>3. hub.subs # {} => t.got = O!Now
    BY <2>1, <2>2 DEF Fresh
  <2>4. O!Now' = O!Now /\ air' = air
    BY <1>1 DEF O!Now
  <2>5. hub.subs # {} => StaysFresh(t.got) /\ t.got.live = air.live
    BY <1>1, <2>3, <2>4, NowIsStats DEF StaysFresh
  <2>6. RestHolds'
    BY <1>4, <1>6, <2>4, <2>5 DEF RestHolds, Fresh, StaysFresh
  <2>7. TaskHolds'
    BY <2>1 DEF TaskHolds, Fresh, StaysFresh
  <2> QED
    BY <2>1, <2>6, <2>7
<1> QED
  BY <1>3, <1>5, <1>6 DEF Carried

-----------------------------------------------------------------------------
(* Pages come and go *)

LEMMA AddStep ==
  ASSUME OverlayInv, NEW p \in Overlays, O!Add(p)
  PROVE  Carried
<1> DEFINE r == [overlay[p] EXCEPT !.at = "open"]
<1> DEFINE t == [to |-> p, prev |-> None, got |-> None]
<1>1. /\ O!OverlayAssumption /\ OverlayTypes /\ LastCount /\ SubsAreOpen
      /\ hub' = [hub EXCEPT !.subs = @ \cup {p}] /\ tasks' = tasks \cup {t}
      /\ overlay' = [overlay EXCEPT ![p] = r]
      /\ raced' = (raced \/ tasks # {} \/ bus # <<>>)
      /\ UNCHANGED <<air, bus, extras>>
      /\ overlay[p].at # "open"
  BY DEF OverlayInv, OverlayTypes, O!Add
<1>2. overlay[p] \in PageKinds /\ hub \in [subs : SUBSET Overlays, stats : O!Stats \cup {None}]
  BY <1>1 DEF OverlayTypes
<1>3. r \in PageKinds /\ r.at = "open"
  BY <1>2 DEF PageKinds
<1>4. t \in O!Tasks /\ t.to = p /\ t.got = None
  BY DEF O!Tasks
<1> HIDE DEF r, t
<1>5. /\ overlay' \in [Overlays -> PageKinds] /\ overlay'[p] = r
      /\ \A q \in Overlays \ {p} : overlay'[q] = overlay[q]
  BY <1>1, <1>3, PageMoves
<1>6. /\ hub' \in [subs : SUBSET Overlays, stats : O!Stats \cup {None}]
      /\ hub'.subs = hub.subs \cup {p} /\ hub'.stats = hub.stats
  BY <1>1, <1>2
<1>7. OverlayTypes'
  BY <1>1, <1>4, <1>5, <1>6 DEF OverlayTypes
<1>8. SubsAreOpen'
  BY <1>1, <1>3, <1>5, <1>6 DEF SubsAreOpen
<1>9. LastCount'
  BY <1>1 DEF LastCount
<1>10. ASSUME ~raced' PROVE ~raced /\ RestHolds' /\ TaskHolds'
  <2>1. ~raced /\ RestHolds /\ tasks = {} /\ tasks' = {t} /\ NoNews
    BY <1>1, <1>10, NothingOnItsWay DEF OverlayInv
  <2>2. \A stats : Fresh(stats) => StaysFresh(stats)
    BY <1>1 DEF Fresh, StaysFresh, NoNews, O!Now
  <2>3. hub.subs # {} =>
          StaysFresh(hub.stats) /\ \A q \in hub.subs : overlay[q].shown \in {None, hub.stats}
    BY <2>1, <2>2 DEF RestHolds
  <2>4. \A q \in hub.subs : overlay'[q].shown = overlay[q].shown \/ q = p
    BY <1>2, <1>5
  <2>5. RestHolds'
    BY <2>1 DEF RestHolds, Fresh, StaysFresh
  <2>6. p # "event"
    BY <1>1 DEF O!OverlayAssumption
  <2>7. TaskHolds'
    <3>1. CASE hub.subs = {}
      BY <1>4, <1>6, <2>1, <2>6, <3>1 DEF TaskHolds
    <3>2. CASE hub.subs # {}
      <4>1. StaysFresh(hub'.stats)
        BY <1>6, <2>3, <3>2
      <4>2. \A q \in hub'.subs \ {p} : overlay'[q].shown \in {None, hub'.stats}
        BY <1>6, <2>3, <2>4, <3>2
      <4> QED
        BY <1>4, <2>1, <2>6, <4>1, <4>2 DEF TaskHolds, Fresh, StaysFresh
    <3> QED
      BY <3>1, <3>2
  <2> QED
    BY <2>1, <2>5, <2>7
<1> QED
  BY <1>7, <1>8, <1>9, <1>10 DEF Carried

\* Fewer subscribers ask for less.
LEMMA FewerSubs ==
  ASSUME OverlayInv, UNCHANGED <<air, bus, tasks, raced>>, extras' \in Nat,
         hub' \in [subs : SUBSET Overlays, stats : O!Stats \cup {None}],
         hub'.subs \subseteq hub.subs, hub'.subs # {} => hub'.stats = hub.stats,
         overlay' \in [Overlays -> PageKinds], SubsAreOpen',
         \A q \in hub'.subs : overlay'[q].shown = overlay[q].shown
  PROVE  Carried
<1>1. OverlayTypes' /\ LastCount'
  BY DEF OverlayInv, OverlayTypes, LastCount
<1>2. ASSUME ~raced' PROVE ~raced /\ RestHolds' /\ TaskHolds'
  <2>1. ~raced /\ RestHolds /\ TaskHolds
    BY <1>2 DEF OverlayInv
  <2>2. \A stats : Fresh(stats) => StaysFresh(stats)
    BY DEF Fresh, StaysFresh, NoNews, O!Now
  <2>3. (NoState' <=> NoState) /\ air' = air /\ tasks' = tasks
    BY DEF NoState
  <2>4. RestHolds'
    BY <2>1, <2>2, <2>3 DEF RestHolds, Fresh, StaysFresh
  <2>5. TaskHolds'
    BY <2>1, <2>2, <2>3 DEF TaskHolds, Fresh, StaysFresh
  <2> QED
    BY <2>1, <2>4, <2>5
<1> QED
  BY <1>1, <1>2 DEF Carried

LEMMA LoseStep ==
  ASSUME OverlayInv, NEW p \in Overlays, O!Lose(p)
  PROVE  Carried
<1>1. /\ OverlayTypes /\ SubsAreOpen /\ overlay[p] \in PageKinds
      /\ hub \in [subs : SUBSET Overlays, stats : O!Stats \cup {None}] /\ extras \in Nat
  BY DEF OverlayInv, OverlayTypes
<1>2. PICK x \in {"connecting", "half"} : overlay' = [overlay EXCEPT ![p].at = x]
  BY DEF O!Lose
<1>3. /\ hub' = O!Without(p) /\ extras' \in Nat /\ UNCHANGED <<air, bus, tasks, raced>>
  BY <1>1 DEF O!Lose, O!Extra
<1> DEFINE r == [overlay[p] EXCEPT !.at = x]
<1>4. overlay' = [overlay EXCEPT ![p] = r]
  BY <1>1, <1>2 DEF OverlayTypes
<1>5. r \in PageKinds /\ r.at # "open"
  BY <1>1, <1>2 DEF PageKinds
<1> HIDE DEF r
<1>6. /\ overlay' \in [Overlays -> PageKinds] /\ overlay'[p] = r
      /\ \A q \in Overlays \ {p} : overlay'[q] = overlay[q]
  BY <1>1, <1>4, <1>5, PageMoves
<1>7. /\ hub' \in [subs : SUBSET Overlays, stats : O!Stats \cup {None}]
      /\ hub'.subs = hub.subs \ {p} /\ (hub'.subs # {} => hub'.stats = hub.stats)
  BY <1>1, <1>3 DEF O!Without
<1>8. SubsAreOpen'
  BY <1>1, <1>5, <1>6, <1>7 DEF SubsAreOpen
<1>9. \A q \in hub'.subs : overlay'[q].shown = overlay[q].shown
  BY <1>1, <1>6, <1>7
<1> QED
  BY <1>3, <1>6, <1>7, <1>8, <1>9, FewerSubs

LEMMA ResetStep ==
  ASSUME OverlayInv, O!Reset
  PROVE  Carried
<1>1. /\ OverlayTypes /\ SubsAreOpen /\ LastCount /\ overlay \in [Overlays -> PageKinds]
      /\ air \in [live : BOOLEAN, viewers : 0..1, token : Nat] /\ extras \in Nat
  BY DEF OverlayInv, OverlayTypes
<1>2. /\ air' = [air EXCEPT !.token = @ + 1] /\ hub' = [subs |-> {}, stats |-> None]
      /\ overlay' = [q \in Overlays |-> IF q \in hub.subs THEN [overlay[q] EXCEPT !.at = "connecting"]
                                  ELSE overlay[q]]
      /\ extras' \in Nat /\ UNCHANGED <<bus, tasks, raced>>
  BY <1>1 DEF O!Reset, O!Extra
<1>3. \A q \in Overlays : /\ overlay[q] \in PageKinds
                          /\ [overlay[q] EXCEPT !.at = "connecting"] \in PageKinds
                          /\ [overlay[q] EXCEPT !.at = "connecting"].at = "connecting"
  BY <1>1 DEF PageKinds
<1>4. /\ overlay' \in [Overlays -> PageKinds]
      /\ \A q \in Overlays : overlay'[q].at = IF q \in hub.subs THEN "connecting" ELSE overlay[q].at
  BY <1>2, <1>3
<1>5. /\ air' \in [live : BOOLEAN, viewers : 0..1, token : Nat] /\ air'.viewers = air.viewers
  BY <1>1, <1>2
<1>6. hub' \in [subs : SUBSET Overlays, stats : O!Stats \cup {None}] /\ hub'.subs = {}
  BY <1>2
<1>7. OverlayTypes'
  BY <1>1, <1>2, <1>4, <1>5, <1>6 DEF OverlayTypes
<1>8. SubsAreOpen'
  BY <1>1, <1>4, <1>6 DEF SubsAreOpen
<1>9. LastCount'
  BY <1>1, <1>2, <1>5 DEF LastCount
<1>10. ~raced' => ~raced /\ RestHolds' /\ TaskHolds'
  BY <1>2, <1>6 DEF OverlayInv, RestHolds, TaskHolds
<1> QED
  BY <1>7, <1>8, <1>9, <1>10 DEF Carried

-----------------------------------------------------------------------------
(* The invariant, and what it says *)

LEMMA OverlayStart == O!OverlayAssumption /\ O!Init => OverlayInv
<1> SUFFICES ASSUME O!OverlayAssumption, O!Init PROVE OverlayInv
  OBVIOUS
<1>1. /\ air \in [live : BOOLEAN, viewers : {0}, token : {0}] /\ bus = <<>> /\ tasks = {}
      /\ hub = [subs |-> {}, stats |-> None] /\ extras = 0
      /\ overlay = [p \in Overlays |-> [at |-> "connecting", link |-> 0, shown |-> None, queue |-> <<>>,
                                  current |-> 0]]
  BY DEF O!Init
<1>2. [at |-> "connecting", link |-> 0, shown |-> None, queue |-> <<>>, current |-> 0] \in PageKinds
  BY DEF PageKinds
<1>3. overlay \in [Overlays -> PageKinds] /\ \A p \in Overlays : overlay[p].at = "connecting"
  BY <1>1, <1>2
<1>4. 0 \in 0..1 /\ air \in [live : BOOLEAN, viewers : 0..1, token : Nat]
  BY <1>1
<1>5. OverlayTypes
  BY <1>1, <1>3, <1>4 DEF OverlayTypes
<1>6. SubsAreOpen
  BY <1>1, <1>3 DEF SubsAreOpen
<1>7. LastCount
  BY <1>1 DEF LastCount
<1>8. RestHolds /\ TaskHolds
  BY <1>1 DEF RestHolds, TaskHolds
<1> QED
  BY <1>5, <1>6, <1>7, <1>8 DEF OverlayInv

LEMMA OverlayStep == OverlayInv /\ [O!Next]_O!vars => OverlayInv'
<1> SUFFICES ASSUME OverlayInv, [O!Next]_O!vars PROVE OverlayInv'
  OBVIOUS
<1>1. ASSUME Carried PROVE OverlayInv'
  <2>1. O!OverlayAssumption
    BY DEF OverlayInv
  <2>2. RestHolds' \/ raced'
    BY <1>1 DEF Carried
  <2>3. TaskHolds' \/ raced'
    BY <1>1 DEF Carried
  <2> QED
    BY <1>1, <2>1, <2>2, <2>3 DEF Carried, OverlayInv, O!OverlayAssumption, O!Stats
<1>2. CASE O!GoLiveOrEnd \/ O!Count \/ O!Alert
  BY <1>1, <1>2, PublishedSteps
<1>3. CASE O!LoseEvent
  BY <1>1, <1>3, LoseEventStep
<1>4. CASE O!Deliver
  BY <1>1, <1>4, DeliverStep
<1>5. CASE O!Reset
  BY <1>1, <1>5, ResetStep
<1>6. ASSUME NEW t \in O!Tasks, O!Load(t) PROVE OverlayInv'
  BY <1>1, <1>6, LoadStep
<1>7. ASSUME NEW t \in O!Tasks, O!Loaded(t) PROVE OverlayInv'
  BY <1>1, <1>7, LoadedStep
<1>8. ASSUME NEW p \in Overlays, O!Lookup(p) \/ O!Fail(p) \/ O!Probe(p) \/ O!Watchdog(p) \/ O!Reconnect(p)
      PROVE  OverlayInv'
  BY <1>1, <1>8, ConnectionStep
<1>9. ASSUME NEW p \in Overlays, O!Add(p) PROVE OverlayInv'
  BY <1>1, <1>9, AddStep
<1>10. ASSUME NEW p \in Overlays, O!Lose(p) PROVE OverlayInv'
  BY <1>1, <1>10, LoseStep
<1>11. ASSUME NEW p \in Overlays, O!Paste(p) PROVE OverlayInv'
  BY <1>1, <1>11, PasteStep
<1>12. ASSUME NEW p \in Overlays, O!ShowAlert(p) \/ O!AlertEnds(p) PROVE OverlayInv'
  BY <1>1, <1>12, AlertStep
<1>13. CASE UNCHANGED O!vars
  BY <1>13 DEF O!vars, OverlayInv, OverlayTypes, SubsAreOpen, LastCount, RestHolds, TaskHolds,
    Fresh, NoState, NoNews, O!Now
<1> QED
  BY <1>2, <1>3, <1>4, <1>5, <1>6, <1>7, <1>8, <1>9, <1>10, <1>11, <1>12, <1>13 DEF O!Next

LEMMA OverlayPromise == OverlayInv => O!CounterIsCurrent
<1> SUFFICES ASSUME OverlayInv, ~raced, bus = <<>>, tasks = {},
                    NEW p \in Overlays, overlay[p].at = "open", overlay[p].shown # None
             PROVE  overlay[p].shown = O!Now
  BY DEF O!CounterIsCurrent
<1>1. p \in hub.subs /\ RestHolds
  BY DEF OverlayInv, SubsAreOpen
<1>2. Fresh(hub.stats) /\ overlay[p].shown = hub.stats
  BY <1>1 DEF RestHolds
<1> QED
  BY <1>2, NothingOnItsWay DEF Fresh

LEMMA OverlayInvariant == O!OverlayAssumption /\ O!Spec => []OverlayInv
<1>1. O!OverlayAssumption /\ O!Init => OverlayInv
  BY OverlayStart
<1> QED
  BY <1>1, OverlayStep, PTL DEF O!Spec

-----------------------------------------------------------------------------
(* The runs' specification: one part is at work, and takes the steps of its own *)

LEMMA OwnerParts == OwnerSpec => A!Spec /\ B!Spec /\ O!Spec
<1>1. OwnerInit => A!Init /\ B!Init /\ O!Init
  BY DEF OwnerInit
<1>2. [OwnerNext]_<<at, aVars, bVars, oVars, vars>> => [A!Next]_A!vars
  BY DEF OwnerNext, aVars, A!vars, A!server, A!client
<1>3. [OwnerNext]_<<at, aVars, bVars, oVars, vars>> => [B!Next]_B!vars
  BY DEF OwnerNext, bVars, B!vars
<1>4. [OwnerNext]_<<at, aVars, bVars, oVars, vars>> => [O!Next]_O!vars
  BY DEF OwnerNext, oVars, O!vars
<1> QED
  BY <1>1, <1>2, <1>3, <1>4, PTL DEF OwnerSpec, A!Spec, B!Spec, O!Spec

\* No code signs in twice (totp.ts, auth.ts): a time step of the secret in force is accepted once,
\* and so is a recovery code, whatever the requests do in between.
THEOREM NoCodeTwice == OwnerSpec => []CodesOnce
<1>1. OwnerSpec => []AccInv
  BY OwnerParts, AccInvariant, OwnerAssumption, PTL
<1>2. AccInv => CodesOnce
  BY AccCodesOnce DEF CodesOnce
<1> QED
  BY <1>1, <1>2, PTL

\* Whatever setups, confirmations, switching off and lost answers do in between, what the server
\* asks for at the next sign-in is a secret the owner has scanned and recovery codes he has seen,
\* or whose answer was lost, unless the pending secret was written between the read of a
\* confirmation and its UPDATE (account.ts:95-101).
THEOREM NobodyIsLockedOut == OwnerSpec => []OwnerCanSignIn
<1>1. OwnerSpec => []OwnerInv
  BY OwnerParts, OwnerInvariant, OwnerAssumption, PTL
<1>2. OwnerInv => OwnerCanSignIn
  BY OwnerPromise DEF OwnerCanSignIn
<1> QED
  BY <1>1, <1>2, PTL

\* Every session that may send and every camera that is on belongs to the refs or to a call under
\* way (BrowserBroadcast.tsx:142-160), unless the broadcast was raced while it was opened.
THEOREM PanelLeaksNothing == OwnerSpec => []NothingLeaks
<1>1. OwnerSpec => []PanelInv
  BY OwnerParts, PanelInvariant, OwnerAssumption, PTL
<1>2. PanelInv => NothingLeaks
  BY PanelPromises DEF NothingLeaks
<1> QED
  BY <1>1, <1>2, PTL

\* The panel says "live" only while a session sends captured media, and "idle" only with the
\* camera off (BrowserBroadcast.tsx:207-221), with the same exception.
THEOREM PanelShowsWhatHappens == OwnerSpec => []PhaseIsHonest
<1>1. OwnerSpec => []PanelInv
  BY OwnerParts, PanelInvariant, OwnerAssumption, PTL
<1>2. PanelInv => PhaseIsHonest
  BY PanelPromises DEF PhaseIsHonest
<1> QED
  BY <1>1, <1>2, PTL

\* When no event is on its way every open overlay shows the channel's state and count, unless
\* loads overlapped each other or an event (overlay.ts:66-78), or an event was lost.
THEOREM OverlayIsCurrent == OwnerSpec => []CounterIsCurrent
<1>1. OwnerSpec => []OverlayInv
  BY OwnerParts, OverlayInvariant, OwnerAssumption, PTL
<1>2. OverlayInv => CounterIsCurrent
  BY OverlayPromise DEF CounterIsCurrent
<1> QED
  BY <1>1, <1>2, PTL

=============================================================================
