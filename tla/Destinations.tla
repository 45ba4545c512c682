---------------------------- MODULE Destinations ----------------------------
(***************************************************************************)
(* The multistream destinations in the studio: the list in a tab           *)
(* (web/src/pages/dashboard/RestreamPanel.tsx) and its routes              *)
(* (server/src/api/routes/restreams.ts).                                   *)
(*                                                                         *)
(* A destination has two settings the list can switch; its dialog sets     *)
(* everything at once.  Names, addresses and keys are left out, and so is  *)
(* the order of the list.  What other tabs do is one step.                 *)
(***************************************************************************)
EXTENDS Naturals, FiniteSets, Sequences

CONSTANTS
  MaxIds,       \* bound: destinations ever made
  MaxRows,      \* restreamMax, and MAX_DESTINATIONS of the page
  Fields,       \* its settings: whether it is on, how its video is sent
  MaxCalls,     \* bound: requests that write
  MaxOthers     \* bound: writes of other tabs

DestinationsAssumption == MaxIds \in Nat /\ MaxRows \in 0..MaxIds /\ MaxCalls \in Nat /\ MaxOthers \in Nat

VARIABLES
  rows,         \* the table: a function on the destinations there are
  used,         \* how many ids were given out
  tab,          \* the list and the dialog of a tab
  call,         \* the requests that were sent
  others,       \* writes of other tabs so far
  together      \* history: two additions were counted side by side

vars == <<rows, used, tab, call, others, together>>

Ids    == 1..MaxIds
NoId   == 0
Rows   == [Fields -> BOOLEAN]
Tables == UNION {[D -> Rows] : D \in SUBSET Ids}

\* `sure`: history, nothing has happened since the list was read that the tab cannot know of.
Tab == [load : {"sent", "read", "shown"}, list : Tables, busy : Ids \cup {NoId},
        dialog : {"no", "new", "edit", "delete"}, target : Ids \cup {NoId},
        waits : BOOLEAN, sure : BOOLEAN]

\* `set` holds the settings a request changes, `row` what the tab will show, that is, what it
\* showed before or what it is told; nobody waits for a request that is not `heard`.
Patches  == UNION {[S -> BOOLEAN] : S \in SUBSET Fields}
Requests == [kind : {"switch", "edit", "create", "delete"}, id : Ids \cup {NoId}, set : Patches,
             row : Rows, step : {"sent", "counted", "answered", "over"}, heard : BOOLEAN,
             ok : BOOLEAN]

Usual == [f \in Fields |-> TRUE]

Init ==
  /\ used \in 0..MaxRows /\ rows = [i \in 1..used |-> Usual]
  /\ tab = [load |-> "sent", list |-> [i \in {} |-> Usual], busy |-> NoId, dialog |-> "no",
            target |-> NoId, waits |-> FALSE, sure |-> TRUE]
  /\ call = <<>> /\ others = 0 /\ together = FALSE

-----------------------------------------------------------------------------
With(table, i, r)  == [j \in DOMAIN table \cup {i} |-> IF j = i THEN r ELSE table[j]]
Without(table, i)  == [j \in DOMAIN table \ {i} |-> table[j]]
Patched(r, set)    == [f \in Fields |-> IF f \in DOMAIN set THEN set[f] ELSE r[f]]

\* `replace`: a destination that is not in the list is not added.
Replaced(list, i, r) == IF i \in DOMAIN list THEN With(list, i, r) ELSE list

Calls          == DOMAIN call
Awaits(c)      == call[c].step # "over" /\ call[c].heard

\* Two updates of one destination under way may be applied and answered in any order.
Overlaps(i) == \E c \in Calls : Awaits(c) /\ call[c].kind \in {"switch", "edit"} /\ call[c].id = i

Send(kind, i, set, row) ==
  /\ Len(call) < MaxCalls
  /\ call' = Append(call, [kind |-> kind, id |-> i, set |-> set, row |-> row, step |-> "sent",
                           heard |-> TRUE, ok |-> FALSE])

-----------------------------------------------------------------------------
(* A tab: useResource and the controls *)

\* A tab begins with a load.
Read ==
  /\ tab.load = "sent"
  /\ tab' = [tab EXCEPT !.load = "read", !.list = rows, !.sure = TRUE]
  /\ UNCHANGED <<rows, used, call, others, together>>

\* It arrives, or it fails and there is a button to try again.
Loaded ==
  /\ \/ tab.load = "read" /\ tab' = [tab EXCEPT !.load = "shown"]
     \/ tab.load = "read" /\ tab' = [tab EXCEPT !.load = "sent"]
  /\ UNCHANGED <<rows, used, call, others, together>>

\* patchInline: shown at once; only the destination changed last has its controls disabled.
Switch(i, f) ==
  LET d   == tab.list[i]
      set == [g \in {f} |-> ~d[f]] IN
  /\ tab.load = "shown" /\ tab.dialog = "no" /\ i \in DOMAIN tab.list /\ tab.busy # i
  /\ Send("switch", i, set, d)
  /\ tab' = [tab EXCEPT !.busy = i, !.list = Replaced(@, i, Patched(d, set)),
                        !.sure = @ /\ ~Overlaps(i)]
  /\ UNCHANGED <<rows, used, others, together>>

\* The dialogs are modal.
OpenDialog ==
  /\ tab.load = "shown" /\ tab.dialog = "no"
  /\ \/ /\ Cardinality(DOMAIN tab.list) < MaxRows
        /\ tab' = [tab EXCEPT !.dialog = "new", !.target = NoId]
     \/ \E d \in {"edit", "delete"}, i \in DOMAIN tab.list :
          tab' = [tab EXCEPT !.dialog = d, !.target = i]
  /\ UNCHANGED <<rows, used, call, others, together>>

CloseDialog ==
  /\ tab.dialog # "no" /\ ~tab.waits
  /\ tab' = [tab EXCEPT !.dialog = "no", !.target = NoId]
  /\ UNCHANGED <<rows, used, call, others, together>>

\* onSubmit: the draft may say anything, and all of it is sent.
Submit ==
  /\ tab.dialog \in {"new", "edit"} /\ ~tab.waits
  /\ \E r \in Rows :
       Send(IF tab.dialog = "new" THEN "create" ELSE "edit", tab.target, r, r)
  /\ tab' = [tab EXCEPT !.waits = TRUE, !.sure = @ /\ ~Overlaps(tab.target)]
  /\ UNCHANGED <<rows, used, others, together>>

Confirm ==
  /\ tab.dialog = "delete" /\ ~tab.waits
  /\ Send("delete", tab.target, [f \in {} |-> FALSE], Usual)
  /\ tab' = [tab EXCEPT !.waits = TRUE]
  /\ UNCHANGED <<rows, used, others, together>>

-----------------------------------------------------------------------------
(* The routes *)

\* Nobody knows that a request was served which the tab has given up.
Known(c) == [tab EXCEPT !.sure = @ /\ call[c].heard]

Counting == \E c \in Calls : call[c].step = "counted"

\* Another tab writes.
Elsewhere ==
  /\ others < MaxOthers /\ others' = others + 1
  /\ \/ /\ \E i \in DOMAIN rows :
             rows' = Without(rows, i) \/ \E r \in Rows : rows' = With(rows, i, r)
        /\ UNCHANGED <<used, together>>
     \/ /\ Cardinality(DOMAIN rows) < MaxRows /\ used < MaxIds /\ used' = used + 1
        /\ \E r \in Rows : rows' = With(rows, used', r)
        /\ together' = (together \/ Counting)
  /\ tab' = [tab EXCEPT !.sure = FALSE]
  /\ UNCHANGED call

Served(c, i, r) ==
  [call EXCEPT ![c] = [@ EXCEPT !.step = "answered", !.ok = TRUE, !.id = i, !.row = r]]

Refuse(c) ==
  /\ call[c].step \in {"sent", "counted"}
  /\ call' = [call EXCEPT ![c].step = "answered", ![c].ok = FALSE]
  /\ UNCHANGED <<rows, used, tab, others, together>>

Count(c) ==
  /\ call[c].kind = "create" /\ call[c].step = "sent"
  /\ IF Cardinality(DOMAIN rows) >= MaxRows
       THEN call' = [call EXCEPT ![c].step = "answered"] /\ UNCHANGED together
       ELSE /\ call' = [call EXCEPT ![c].step = "counted"]
            /\ together' = (together \/ Counting)
  /\ UNCHANGED <<rows, used, tab, others>>

Insert(c) ==
  /\ call[c].step = "counted"
  /\ used < MaxIds /\ used' = used + 1
  /\ rows' = With(rows, used', call[c].set)
  /\ call' = Served(c, used', call[c].set)
  /\ tab' = Known(c) /\ UNCHANGED <<others, together>>

Update(c) ==
  LET i == call[c].id IN
  /\ call[c].kind \in {"switch", "edit"} /\ call[c].step = "sent"
  /\ IF i \in DOMAIN rows
       THEN LET r == Patched(rows[i], call[c].set) IN
            /\ rows' = With(rows, i, r) /\ tab' = Known(c)
            /\ call' = Served(c, i, r)
       ELSE call' = [call EXCEPT ![c].step = "answered"] /\ UNCHANGED <<rows, tab>>
  /\ UNCHANGED <<used, others, together>>

Remove(c) ==
  /\ call[c].kind = "delete" /\ call[c].step = "sent"
  /\ IF call[c].id \in DOMAIN rows
       THEN /\ rows' = Without(rows, call[c].id) /\ tab' = Known(c)
            /\ call' = Served(c, call[c].id, call[c].row)
       ELSE call' = [call EXCEPT ![c].step = "answered"] /\ UNCHANGED <<rows, tab>>
  /\ UNCHANGED <<used, others, together>>

-----------------------------------------------------------------------------
(* The answer, or its loss, in the tab *)

\* Mutant: a failed switch stays.
KeepSwitch(s, c, ok) ==
  [s EXCEPT !.busy = NoId, !.list = IF ok THEN Replaced(@, call[c].id, call[c].row) ELSE @]

\* The row of the answer, or the row before: busy for none, whichever was changed last.
Switched(s, c, ok) == [s EXCEPT !.busy = NoId, !.list = Replaced(@, call[c].id, call[c].row)]

\* A form with an error stays open; the question whether to delete does not.
Closed(s) == [s EXCEPT !.waits = FALSE, !.dialog = "no", !.target = NoId]

Settled(s, c, ok) ==
  CASE call[c].kind = "switch" -> Switched(s, c, ok)
    [] call[c].kind = "delete" ->
         [Closed(s) EXCEPT !.list = IF ok THEN Without(@, call[c].id) ELSE @]
    [] call[c].kind \in {"create", "edit"} /\ ~ok -> [s EXCEPT !.waits = FALSE]
    [] call[c].kind = "create" /\ ok -> [Closed(s) EXCEPT !.list = With(@, call[c].id, call[c].row)]
    [] call[c].kind = "edit" /\ ok   -> [Closed(s) EXCEPT !.list = Replaced(@, call[c].id, call[c].row)]

Answer(c) ==
  /\ call[c].step = "answered"
  /\ call' = [call EXCEPT ![c].step = "over"]
  /\ tab' = IF call[c].heard THEN Settled(tab, c, call[c].ok) ELSE tab
  /\ UNCHANGED <<rows, used, others, together>>

\* The connection breaks: the request may have been served, or may be yet.
Lose(c) ==
  /\ Awaits(c)
  /\ call' = [call EXCEPT ![c].heard = FALSE]
  /\ tab' = [Settled(tab, c, FALSE) EXCEPT !.sure = @ /\ call[c].step = "answered" /\ ~call[c].ok]
  /\ UNCHANGED <<rows, used, others, together>>

Next ==
  \/ Read \/ Loaded \/ OpenDialog \/ CloseDialog \/ Submit \/ Confirm \/ Elsewhere
  \/ \E i \in Ids, f \in Fields : Switch(i, f)
  \/ \E c \in Calls :
       Refuse(c) \/ Count(c) \/ Insert(c) \/ Update(c) \/ Remove(c) \/ Answer(c) \/ Lose(c)

Spec == Init /\ [][Next]_vars

-----------------------------------------------------------------------------
(* Properties *)

TypeOK ==
  /\ rows \in Tables /\ used \in 0..MaxIds /\ DOMAIN rows \subseteq 1..used
  /\ tab \in Tab /\ call \in Seq(Requests) /\ Len(call) <= MaxCalls
  /\ others \in 0..MaxOthers /\ together \in BOOLEAN

\* "Optimistic, reverted on failure" (RestreamPanel.tsx:75-89, and 91-104, 175-187): whatever was
\* switched, edited, added and deleted side by side, a tab with nothing under way shows what is
\* stored, as long as it could know: no other tab wrote, no answer was lost, and no two updates of one
\* destination overlapped.  And there are no more than are allowed (restreams.ts:52-64), but
\* for additions that were counted side by side.
ListIsHonest ==
  /\ tab.load = "shown" /\ tab.sure /\ (\A c \in Calls : ~Awaits(c)) => tab.list = rows
  /\ Cardinality(DOMAIN rows) > MaxRows => together
=============================================================================
