---------------------------------- MODULE App ----------------------------------
(***************************************************************************)
(* The booking sheet of the web client (web/src/app/BookingSheet.tsx,      *)
(* SearchPage.tsx) over the HTTP handlers and a store.  Calls take time:   *)
(* between the click, the store and the answer the sheet can be closed,    *)
(* searched away or opened again, sessions end, and answers get lost.      *)
(***************************************************************************)
EXTENDS DataStore

CONSTANTS
    Renters,       \* the browsers whose users book
    Trip,          \* the window searched for, with the price the search has quoted
    Calls,         \* bound on the requests under way
    NoCall,        \* not a call
    ScriptOrders,  \* what clients of the API without a browser order
    MaxTime        \* bound on the clock

ASSUME AppAssumption ==
    /\ Renters \subseteq Browsers
    /\ Trip \in [start : Nat, end : Nat, price : Nat] /\ Trip.start < Trip.end
    /\ \A o \in ScriptOrders : o.kind \in {"rental", "rental_hold", "owner"}
    /\ \A o \in ScriptOrders : o.start \in Nat /\ o.end \in Nat /\ o.start < o.end
    /\ MaxTime \in Nat

VARIABLES
    sheet,   \* the booking sheet of each browser
    calls    \* calls of browsers that have not been answered

vars == <<backend, clock, idVars, storeVars, sheet, calls>>

\* hold is the reservation a held sheet shows.
Sheet(step, hold) == [step |-> step, hold |-> hold]

\* to: who hears the answer: the sheet that called, the search page it has gone
\* from, or nobody since the page was left.
Call(b, op, row) ==
    [browser |-> b, op |-> op, row |-> row, to |-> "sheet", token |-> cookie[b], answer |-> "none"]

TypeOK ==
    /\ IdentityType
    /\ \A b \in Browsers :
         /\ sheet[b].step \in {"closed", "quote", "holding", "held", "price_changed"}
         /\ sheet[b].step = "held" => sheet[b].hold \in ResIds
    /\ \A c \in Calls : calls[c] # NoCall =>
         /\ calls[c].op \in {"order", "confirm", "cancel"} /\ calls[c].to \in {"sheet", "page", "gone"}
         /\ calls[c].answer \in {"none", "ok", "taken", "price_changed", "refused", "done"}
         /\ calls[c].answer = "ok" => calls[c].row \in ResIds
    /\ superseded \subseteq ResIds

Init ==
    /\ backend \in {"postgres", "memory"}
    /\ clock = 0
    /\ IdentityInit
    /\ StoreInit
    /\ sheet = [b \in Browsers |-> Sheet("closed", NoRes)]
    /\ calls = [c \in Calls |-> NoCall]

-----------------------------------------------------------------------------
(* What the user does *)

\* The sheet of b has gone: answers to it reach the search page only.
Orphaned(b) ==
    [c \in Calls |-> IF calls[c] # NoCall /\ calls[c].browser = b /\ calls[c].to = "sheet"
                     THEN [calls[c] EXCEPT !.to = "page"] ELSE calls[c]]

\* So has the page: nobody waits for the answers, though the handlers may still
\* run.
Abandoned(b) ==
    [c \in Calls |-> IF calls[c] = NoCall \/ calls[c].browser # b THEN calls[c]
                     ELSE IF calls[c].answer # "none" THEN NoCall
                     ELSE [calls[c] EXCEPT !.to = "gone"]]

\* The car is selected in a search result, which can be out of date.
Open(b) ==
    /\ sheet[b].step = "closed"
    /\ sheet' = [sheet EXCEPT ![b] = Sheet("quote", NoRes)]
    /\ UNCHANGED calls

\* The sheet goes: its cross, a new search, or the countdown at its end.
Close(b) ==
    /\ sheet[b].step # "closed"
    /\ sheet' = [sheet EXCEPT ![b] = Sheet("closed", NoRes)]
    /\ calls' = Orphaned(b)

\* The page is left or loaded again.
Leave(b) ==
    /\ sheet' = [sheet EXCEPT ![b] = Sheet("closed", NoRes)]
    /\ calls' = Abandoned(b)

\* A bound on the requests under way, those of signing in among them.
Room == Cardinality({c \in Calls : calls[c] # NoCall})
        + Cardinality({b \in Browsers : ~Signing(b, "idle")}) < Cardinality(Calls)

Send(b, op, row) ==
    Room /\ \E c \in Calls : calls[c] = NoCall /\ calls' = [calls EXCEPT ![c] = Call(b, op, row)]

\* hold: every click has a fresh idempotency key, which no row has.
Hold(b) ==
    /\ sheet[b].step = "quote" /\ cookie[b] # NoOne
    /\ sheet' = [sheet EXCEPT ![b] = Sheet("holding", NoRes)]
    /\ Send(b, "order", NoRes)

\* confirm and release: the buttons stay while the call is under way.
Press(b, op) ==
    /\ sheet[b].step = "held"
    /\ Send(b, op, sheet[b].hold)
    /\ UNCHANGED sheet

-----------------------------------------------------------------------------
(* What the handlers do *)

OrderOf(user) ==
    [booker |-> user, kind |-> "rental_hold", start |-> Trip.start, end |-> Trip.end,
     maxPrice |-> Trip.price, key |-> NoKey]

\* What the client tells apart.
Heard(op, code) ==
    CASE op = "cancel" -> "done"
      [] op # "cancel" /\ code \in {"ok", "price_changed"} -> code
      [] op # "cancel" /\ code \in {"conflict", "owner_schedule_conflict"} -> "taken"
      [] OTHER -> "refused"

Answer(c, code, row) ==
    calls' = [calls EXCEPT ![c] =
                IF @.to = "gone" THEN NoCall
                ELSE [@ EXCEPT !.answer = Heard(calls[c].op, code), !.row = row]]

\* requireUser, then handleOrderCar, handleConfirmHold or handleCancelReservation.
Serve(c) ==
    LET call == calls[c]
        user == UserOf(call.token)
        late == call.op = "order" /\ Trip.start + PastGrace < clock
    IN
    /\ call # NoCall /\ call.answer = "none"
    /\ \/ /\ user = NoOne \/ late
          /\ Answer(c, "refused", call.row)
          /\ UNCHANGED <<resv, superseded>>
       \/ /\ call.op = "order" /\ user # NoOne /\ ~late
          /\ \E r \in ResIds \cup {NoRes} :
                OrderCar(OrderOf(user), r) /\ Answer(c, OrderCode(OrderOf(user)), r)
       \/ /\ call.op = "confirm" /\ user # NoOne
          /\ ConfirmHold(call.row, user) /\ Answer(c, ConfirmCode(call.row, user), call.row)
       \/ /\ call.op = "cancel" /\ user # NoOne
          /\ CancelReservation(call.row, user) /\ Answer(c, CancelCode(call.row, user), call.row)
    /\ UNCHANGED <<offer, sheet>>

-----------------------------------------------------------------------------
(* What the client makes of an answer *)

\* The new search of onBooked and onConflict takes the sheet away in the same
\* rendering that would show it booked or taken, and so does onClose.
SheetGoes(call) ==
    \/ call.op = "order" /\ call.answer = "taken"
    \/ call.op = "confirm" /\ call.answer = "ok"
    \/ call.op = "cancel"

\* Mutant of AfterAnswer: what is not a new price is taken for a hold.
AfterAnswer_AnyHold(call) ==
    IF call.answer = "price_changed" THEN Sheet("price_changed", NoRes) ELSE Sheet("held", call.row)

\* The sheet that called, after any other answer.
AfterAnswer(call) ==
    IF call.answer = "ok" THEN Sheet("held", call.row)
    ELSE Sheet(IF call.answer = "price_changed" THEN "price_changed" ELSE "quote", NoRes)

\* The browser has this answer to c, and left says what remains of the call.
Hear(c, call, left) ==
    LET b == call.browser IN
    IF SheetGoes(call)
    THEN sheet' = [sheet EXCEPT ![b] = Sheet("closed", NoRes)] /\ calls' = [Orphaned(b) EXCEPT ![c] = left]
    ELSE /\ sheet' = IF call.to = "sheet" THEN [sheet EXCEPT ![b] = AfterAnswer(call)] ELSE sheet
         /\ calls' = [calls EXCEPT ![c] = left]

Deliver(c) ==
    /\ calls[c] # NoCall /\ calls[c].answer # "none"
    /\ Hear(c, calls[c], NoCall)
    /\ UNCHANGED storeVars

\* The request or its answer is lost, or the handler fails.  The browser hears of
\* a failure while the request may still be on its way.
Lose(c) ==
    /\ calls[c] # NoCall
    /\ \/ calls[c].to = "gone" /\ calls' = [calls EXCEPT ![c] = NoCall] /\ UNCHANGED sheet
       \/ /\ calls[c].to # "gone"
          /\ \E left \in {NoCall, [calls[c] EXCEPT !.to = "gone"]} :
                /\ left # NoCall => calls[c].answer = "none"
                /\ Hear(c, [calls[c] EXCEPT !.answer = "refused"], left)
    /\ UNCHANGED storeVars

-----------------------------------------------------------------------------

Signs(b) ==
    /\ \/ Room /\ SignIn(b) /\ Leave(b)
       \/ SignInStep(b) /\ UNCHANGED <<sheet, calls>>
       \/ SignInAbort(b) /\ UNCHANGED <<sheet, calls>>
       \/ Logout(b) /\ Leave(b)
       \/ LogoutUnheard(b) /\ UNCHANGED <<sheet, calls>>
    /\ UNCHANGED <<backend, clock, storeVars>>

Uses(b) ==
    /\ Open(b) \/ Close(b) \/ Hold(b) \/ \E op \in {"confirm", "cancel"} : Press(b, op)
    /\ UNCHANGED <<backend, clock, idVars, storeVars>>

\* The buttons of the trips page, in another tab; only the list hears the answer.
ActOnTrip(b) ==
    /\ UserOf(cookie[b]) # NoOne
    /\ \E r \in {s \in ResIds : resv[s] # NoRow} :
          ConfirmHold(r, UserOf(cookie[b])) \/ CancelReservation(r, UserOf(cookie[b]))
    /\ UNCHANGED <<backend, clock, idVars, offer, sheet, calls>>

Handles(c) ==
    /\ Serve(c) \/ Lose(c) \/ Deliver(c)
    /\ UNCHANGED <<backend, clock, idVars>>

\* A client of the API without a browser; a lost answer makes it try again.
ScriptOrder(o) ==
    /\ o.start + PastGrace >= clock
    /\ \E r \in ResIds \cup {NoRes} : OrderCar(o, r)
    /\ UNCHANGED <<backend, clock, idVars, offer, sheet, calls>>

Tick ==
    /\ clock < MaxTime /\ clock' = clock + 1
    /\ UNCHANGED <<backend, idVars, storeVars, sheet, calls>>

Next ==
    \/ \E b \in Browsers : Signs(b) \/ ActOnTrip(b)
    \/ \E b \in Renters : Uses(b)
    \/ \E c \in Calls : Handles(c)
    \/ \E o \in ScriptOrders : ScriptOrder(o)
    \/ Tick

Spec == Init /\ [][Next]_vars

-----------------------------------------------------------------------------

\* The countdown of a sheet is a promise: until it ends nobody else gets the
\* car for any part of the trip, unless the user has cancelled the hold, here or
\* on the trips page.
HeldKeepsCar ==
    \A b \in Browsers :
        LET r == sheet[b].hold IN
        sheet[b].step = "held" /\ clock < resv[r].created + HoldTTL =>
        \/ resv[r].status = "cancelled"
        \/ Confirmed(r) /\ \A s \in ResIds \ {r} :
                              Confirmed(s) /\ ~Lapsed(s) => ~Overlaps(resv[s], Trip)

\* A confirmation that was answered is a rental of the account that signed in,
\* and nothing has been booked over it however late the answer is heard.
ConfirmStands ==
    \A c \in Calls : calls[c] # NoCall /\ calls[c].op = "confirm" /\ calls[c].answer = "ok" =>
        LET r == calls[c].row IN
        /\ resv[r].kind = "rental" /\ resv[r].booker = identities[PersonOf[calls[c].browser]]
        /\ \/ resv[r].status = "cancelled"
           \/ Confirmed(r) /\ \A s \in ResIds \ {r} :
                                 Confirmed(s) /\ ~Lapsed(s) => ~Overlaps(resv[s], resv[r])

\* Either store keeps the promises of the ledger.
LedgerSpec == Ledger!Spec
=============================================================================
