------------------------ MODULE OnlinePaymentProofs ------------------------
(***************************************************************************)
(* Proofs, for every set of orders, attempts, authorities and concurrent   *)
(* handlers, and any number of edits and deaths, of the safety of a        *)
(* payment through a gateway, and that it implements Purchase.             *)
(*                                                                         *)
(* A handler acts on what it read earlier.  The invariant says, for each   *)
(* place in its code, which part of that still holds (Knows); it does      *)
(* because the rows concerned only ever grow (Grows): orders and attempts  *)
(* are not deleted, an authority is not replaced, a captured session is    *)
(* not refunded, and what is paid or sold stays so.                        *)
(***************************************************************************)
EXTENDS OnlinePayment, OrderPaymentInvariant, TLAPS

Starting == {"create", "poll", "again", "request", "redirect", "store", "unrequested"}
Requesting == {"request", "redirect", "store"}
Judging == {"callback", "callbackAgain", "recheck", "verify", "expire", "mark", "ask", "refuse"}

\* What a handler may rely on at its place in the code.
Knows(h) ==
    /\ pc[h] \in Ordering \union Starting => ord[h] \in Order /\ status[ord[h]] # "NONE"
    /\ pc[h] \in Starting \union Judging \union Finalizing => work[h] \in Attempt
    /\ pc[h] \in Requesting \union {"unrequested"} => attOrder[work[h]] # None
    /\ pc[h] \in Requesting => authority[work[h]] = None
    /\ pc[h] \in {"redirect", "store"} => issued[h] # None
    /\ issued[h] # None => session[issued[h]] = "issued"
    /\ pc[h] \in Judging \union Finalizing => authority[work[h]] # None
    /\ pc[h] \in Finalizing => session[authority[work[h]]] = "captured"
    /\ pc[h] \in Paying => payStatus[attOrder[work[h]]] = "PAID"
    /\ pc[h] = "consume" =>
         /\ rows[h] # {}
         /\ \A b \in rows[h] : goods[attOrder[work[h]]][b] # "NONE"
         /\ 0 \in rows[h] \/ goods[attOrder[work[h]]][0] # "ACTIVE"
    /\ pc[h] \in Booking => goods[attOrder[work[h]]][0] # "ACTIVE"

\* Two handlers never ask for a session for one attempt, or hold the same one.
Apart ==
    \A g, h \in Handler : g # h =>
        /\ issued[g] # None => issued[g] # issued[h]
        /\ pc[g] \in Requesting /\ pc[h] \in Requesting => work[g] # work[h]

\* An order is paid by the capture of one of its attempts.
PaidOrderCaptured ==
    \A o \in Order : payStatus[o] = "PAID" => \E a \in Attempt : attOrder[a] = o /\ Captured(a)

\* Attempts belong to orders that exist, authorities to attempts that exist
\* and to sessions that are stored.
Attempts ==
    \A a \in Attempt :
        /\ attOrder[a] = None <=> attState[a] = "NONE"
        /\ authority[a] # None => attOrder[a] # None /\ session[authority[a]] \notin {"none", "issued"}
        /\ attOrder[a] # None => status[attOrder[a]] # "NONE"

Inv ==
    /\ TypeOK
    /\ Orders /\ Attempts
    /\ AuthorityUnique
    /\ PaidOrderCaptured /\ EffectsAreCaptured /\ SoldOnlyIfPaid
    /\ PaidEventTruthful /\ (\A a \in Attempt : <<"OrderPaid", a>> \in outbox => authority[a] # None)
    /\ Apart
    /\ \A h \in Handler : Knows(h)

\* What no step takes back.
Grows ==
    /\ \A o \in Order :
         /\ status[o] # "NONE" => status'[o] # "NONE"
         /\ payStatus[o] = "PAID" => payStatus'[o] = "PAID"
         /\ \A b \in Batch : goods[o][b] # "NONE" => goods'[o][b] # "NONE"
         /\ goods[o][0] \notin {"NONE", "ACTIVE"} => goods'[o][0] # "ACTIVE"
    /\ \A a \in Attempt :
         /\ attOrder[a] # None => attOrder'[a] = attOrder[a]
         /\ authority[a] # None => authority'[a] = authority[a]
    /\ \A x \in Authority : session[x] = "captured" => session'[x] = "captured"

\* Only h acts, and it leaves alone what other handlers need of the rows.
Alone(h) ==
    \A g \in Handler : g # h =>
        /\ pc'[g] = pc[g] /\ ord'[g] = ord[g] /\ work'[g] = work[g]
        /\ rows'[g] = rows[g] /\ issued'[g] = issued[g]
        /\ pc[g] \in Requesting => authority'[work[g]] = None
        /\ issued[g] # None => session'[issued[g]] = "issued"

\* The rows alone, without the handlers.
Data ==
    /\ Orders /\ Attempts
    /\ AuthorityUnique
    /\ PaidOrderCaptured /\ EffectsAreCaptured /\ SoldOnlyIfPaid
    /\ PaidEventTruthful /\ (\A a \in Attempt : <<"OrderPaid", a>> \in outbox => authority[a] # None)

-----------------------------------------------------------------------------
(* What the parts of the invariant give *)

LEMMA BatchFacts == 0 \in Batch /\ Batch \subseteq Int
  BY OrderPaymentAssumption DEF Batch

LEMMA InvParts == Inv <=> TypeOK /\ Data /\ Apart /\ \A h \in Handler : Knows(h)
  BY DEF Inv, Data

\* The order and the authority of an attempt that is served exist.
LEMMA AttemptFacts ==
  ASSUME TypeOK, Attempts, NEW a \in Attempt
  PROVE  /\ attOrder[a] # None => attOrder[a] \in Order /\ status[attOrder[a]] # "NONE"
         /\ authority[a] # None => attOrder[a] \in Order /\ authority[a] \in Authority
  BY DEF TypeOK, PaymentTypeOK, Attempts

\* What a handler knows stays true while others act.
LEMMA Bystander ==
  ASSUME Inv, Grows, NEW g \in Handler,
         pc'[g] = pc[g], ord'[g] = ord[g], work'[g] = work[g],
         rows'[g] = rows[g], issued'[g] = issued[g],
         pc[g] \in Requesting => authority'[work[g]] = None,
         issued[g] # None => session'[issued[g]] = "issued"
  PROVE  Knows(g)'
  <1>1. TypeOK /\ Attempts /\ Orders /\ Knows(g)
    BY DEF Inv
  <1>2. /\ pc[g] \in Ordering \union Starting => status'[ord[g]] # "NONE"
        /\ pc[g] \in Requesting \union {"unrequested"} => attOrder'[work[g]] # None
    BY <1>1 DEF Knows, Grows, Starting, Requesting
  <1>3. ASSUME pc[g] \in Judging \union Finalizing
        PROVE  /\ work[g] \in Attempt /\ authority[work[g]] \in Authority
               /\ attOrder[work[g]] \in Order /\ status[attOrder[work[g]]] # "NONE"
               /\ authority'[work[g]] = authority[work[g]]
               /\ attOrder'[work[g]] = attOrder[work[g]]
    BY <1>1, <1>3, AttemptFacts, OnlinePaymentAssumption, OrderPaymentAssumption DEF Knows, Grows
  <1>4. pc[g] \in Finalizing => session'[authority'[work[g]]] = "captured"
    BY <1>1, <1>3 DEF Knows, Grows
  <1>5. pc[g] \in Paying => payStatus'[attOrder'[work[g]]] = "PAID"
    BY <1>1, <1>3 DEF Knows, Grows, Finalizing
  <1>6. ASSUME pc[g] \in {"consume"} \union Booking
        PROVE  goods[attOrder[work[g]]][0] # "ACTIVE" => goods'[attOrder'[work[g]]][0] # "ACTIVE"
    BY <1>1, <1>3, <1>6 DEF Grows, Orders, Finalizing, Paying
  <1>7. ASSUME pc[g] = "consume"
        PROVE  /\ rows[g] # {}
               /\ \A b \in rows[g] : goods'[attOrder'[work[g]]][b] # "NONE"
               /\ 0 \in rows[g] \/ goods'[attOrder'[work[g]]][0] # "ACTIVE"
    <2>1. pc[g] \in Finalizing /\ rows[g] \subseteq Batch
      BY <1>1, <1>7 DEF Finalizing, Paying, TypeOK, PaymentTypeOK
    <2>. QED  BY <1>1, <1>3, <1>6, <1>7, <2>1 DEF Knows, Grows
  <1>8. pc[g] \in Booking => goods'[attOrder'[work[g]]][0] # "ACTIVE"
    BY <1>1, <1>6 DEF Knows
  <1>. QED
    BY <1>1, <1>2, <1>3, <1>4, <1>5, <1>7, <1>8 DEF Knows

\* A step of one handler keeps the invariant if it keeps the types, the rows
\* and what it knows itself.
LEMMA HandlerStep ==
  ASSUME Inv, NEW h \in Handler, TypeOK', Data', Grows, Alone(h), Apart', Knows(h)'
  PROVE  Inv'
  <1>1. ASSUME NEW g \in Handler PROVE Knows(g)'
    <2>1. CASE g = h
      BY <2>1
    <2>2. CASE g # h
      BY <2>2, Bystander DEF Alone
    <2>. QED  BY <2>1, <2>2
  <1>. QED  BY <1>1 DEF Inv, Data

-----------------------------------------------------------------------------
(* What a handler does to itself *)

Label == {"idle"} \union Ordering \union Starting \union Judging \union Finalizing

\* h goes somewhere, the other handlers stay, and all have their types.
Acts(h) ==
    /\ pc' \in [Handler -> Label]
    /\ ord' \in [Handler -> Order \union {None}]
    /\ work' \in [Handler -> Attempt \union {None}]
    /\ rows' \in [Handler -> SUBSET Batch]
    /\ crashes' \in 0..MaxCrashes
    /\ \A g \in Handler : g # h =>
         pc'[g] = pc[g] /\ ord'[g] = ord[g] /\ work'[g] = work[g] /\ rows'[g] = rows[g]

LEMMA LabelFacts ==
  TypeOK => /\ pc \in [Handler -> Label]
            /\ ord \in [Handler -> Order \union {None}] /\ work \in [Handler -> Attempt \union {None}]
            /\ rows \in [Handler -> SUBSET Batch] /\ crashes \in 0..MaxCrashes
  BY DEF TypeOK, PaymentTypeOK, Label, Ordering, Starting, Judging, Finalizing, Paying, Booking

LEMMA GotoFacts ==
  ASSUME TypeOK, NEW h \in Handler, NEW l \in Label, Goto(h, l)
  PROVE  Acts(h) /\ pc'[h] = l /\ ord'[h] = ord[h] /\ work'[h] = work[h] /\ rows'[h] = rows[h]
  BY LabelFacts DEF Goto, Acts

LEMMA ReturnFacts ==
  ASSUME TypeOK, NEW h \in Handler, Return(h)
  PROVE  Acts(h) /\ pc'[h] = "idle"
  BY LabelFacts DEF Return, Acts, Label

LEMMA BeginFacts ==
  ASSUME TypeOK, NEW h \in Handler, NEW l \in Label,
         NEW o \in Order \union {None}, NEW a \in Attempt \union {None}, Begin(h, l, o, a)
  PROVE  Acts(h) /\ pc'[h] = l /\ ord'[h] = o /\ work'[h] = a /\ pc[h] = "idle"
  BY LabelFacts DEF Begin, Acts

\* At rest a handler needs to know nothing but the session it was given.
LEMMA IdleKnows ==
  ASSUME NEW h \in Handler, pc'[h] = "idle", issued'[h] # None => session'[issued'[h]] = "issued"
  PROVE  Knows(h)'
  BY DEF Knows, Ordering, Starting, Requesting, Judging, Finalizing, Paying, Booking

\* A handler keeps the session it was given, or drops it.
Keeps(h) ==
    /\ issued' \in [Handler -> Authority \union {None}]
    /\ \A g \in Handler : g # h => issued'[g] = issued[g]
    /\ issued'[h] \in {issued[h], None}

LEMMA KeepsFacts ==
  ASSUME TypeOK, NEW h \in Handler, issued' = issued \/ issued' = [issued EXCEPT ![h] = None]
  PROVE  Keeps(h)
  BY DEF TypeOK, Keeps

\* The rows a handler only reads.
rowVars == <<orderVars, attOrder, attState, effectVars, authority, overdue, session>>

LEMMA SameRows ==
  ASSUME Inv, UNCHANGED rowVars
  PROVE  Data' /\ Grows
  <1>1. UNCHANGED <<status, payStatus, goods, attOrder, attState, bank, journal, outbox,
                    authority, overdue, session>>
    BY DEF rowVars, orderVars, effectVars
  <1>2. (Orders /\ Attempts /\ AuthorityUnique)'
    BY <1>1 DEF Inv, Orders, Attempts, AuthorityUnique
  <1>3. (PaidOrderCaptured /\ EffectsAreCaptured /\ SoldOnlyIfPaid)'
    BY <1>1 DEF Inv, PaidOrderCaptured, EffectsAreCaptured, Captured, SoldOnlyIfPaid, In
  <1>4. (PaidEventTruthful /\ \A a \in Attempt : <<"OrderPaid", a>> \in outbox => authority[a] # None)'
    BY <1>1 DEF Inv, PaidEventTruthful, In
  <1>5. Grows
    BY <1>1 DEF Grows
  <1>. QED  BY <1>2, <1>3, <1>4, <1>5 DEF Data

\* A handler that only reads, and does not begin to ask for a session.
LEMMA ReadingStep ==
  ASSUME Inv, NEW h \in Handler, UNCHANGED rowVars, Acts(h), Keeps(h), Knows(h)',
         pc'[h] \notin Requesting
  PROVE  Inv'
  <1>1. UNCHANGED <<status, payStatus, goods, attOrder, attState, bank, journal, outbox,
                    authority, overdue, session>>
    BY DEF rowVars, orderVars, effectVars
  <1>2. TypeOK'
    BY <1>1 DEF Inv, TypeOK, PaymentTypeOK, Acts, Keeps,
                Label, Ordering, Starting, Judging, Finalizing, Paying, Booking
  <1>3. Alone(h)
    BY <1>1 DEF Inv, Alone, Acts, Keeps, Knows
  <1>4. Apart'
    BY <1>1 DEF Inv, Apart, Acts, Keeps
  <1>. QED  BY <1>2, <1>3, <1>4, SameRows, HandlerStep

\* A handler that writes the state of an attempt that exists.
LEMMA WritingStep ==
  ASSUME Inv, NEW h \in Handler, NEW a \in Attempt, NEW s \in AttemptState \ {"NONE"},
         attOrder[a] # None, SetState(a, s), s = "PAID" => Captured(a),
         UNCHANGED <<orderVars, attOrder, effectVars, authority, overdue, session>>,
         Acts(h), Keeps(h), Knows(h)',
         pc'[h] \in Requesting => pc[h] \in Requesting /\ work'[h] = work[h]
  PROVE  Inv'
  <1>1. UNCHANGED <<status, payStatus, goods, attOrder, bank, journal, outbox,
                    authority, overdue, session>>
    BY DEF orderVars, effectVars
  <1>2. TypeOK'
    BY <1>1 DEF Inv, TypeOK, PaymentTypeOK, Acts, Keeps, SetState,
                Label, Ordering, Starting, Judging, Finalizing, Paying, Booking
  <1>3. Alone(h)
    BY <1>1 DEF Inv, Alone, Acts, Keeps, Knows
  <1>4. Apart'
    BY <1>1 DEF Inv, Apart, Acts, Keeps
  <1>5. (Orders /\ AuthorityUnique)' /\ Grows
    BY <1>1 DEF Inv, Orders, AuthorityUnique, Grows
  <1>6. Attempts'
    BY <1>1 DEF Inv, TypeOK, PaymentTypeOK, Attempts, SetState
  <1>7. (PaidOrderCaptured /\ SoldOnlyIfPaid)'
    BY <1>1 DEF Inv, PaidOrderCaptured, Captured, SoldOnlyIfPaid, In
  <1>9. EffectsAreCaptured'
    <2>1. \A b \in Attempt : attState'[b] = IF b = a THEN s ELSE attState[b]
      BY DEF Inv, TypeOK, PaymentTypeOK, SetState
    <2>. QED  BY <1>1, <2>1 DEF Inv, EffectsAreCaptured, Captured
  <1>8. (PaidEventTruthful /\ \A b \in Attempt : <<"OrderPaid", b>> \in outbox => authority[b] # None)'
    BY <1>1 DEF Inv, PaidEventTruthful, In
  <1>. QED  BY <1>2, <1>3, <1>4, <1>5, <1>6, <1>7, <1>8, <1>9, HandlerStep DEF Data

-----------------------------------------------------------------------------
(* Steps that only read *)

LEMMA OrderReads ==
  ASSUME Inv, NEW h \in Handler, NEW o \in Order, UNCHANGED onlineVars,
         CancelCheck(h, o) \/ EditCheck(h, o)
  PROVE  Inv'
  <1>1. TypeOK /\ Knows(h) /\ UNCHANGED rowVars /\ issued' = issued
    BY DEF Inv, CancelCheck, EditCheck, rowVars, onlineVars
  <1>2. PICK l \in {"cancel", "edit"} : Begin(h, l, o, None) /\ status[o] # "NONE"
    BY DEF CancelCheck, EditCheck
  <1>3. Acts(h) /\ pc'[h] = l /\ ord'[h] = o
    BY <1>1, <1>2, BeginFacts DEF Label, Ordering
  <1>4. Knows(h)'
    BY <1>1, <1>2, <1>3
       DEF rowVars, orderVars, Knows, Ordering, Starting, Requesting, Judging, Finalizing, Paying, Booking
  <1>. QED  BY <1>1, <1>3, <1>4, KeepsFacts, ReadingStep DEF Requesting

LEMMA StartInv ==
  ASSUME Inv, NEW h \in Handler, NEW o \in Order, NEW a \in Attempt, Start(h, o, a)
  PROVE  Inv'
  <1>1. TypeOK /\ Knows(h) /\ UNCHANGED rowVars /\ issued' = issued
    BY DEF Inv, Start, rowVars, onlineVars
  <1>2. PICK l \in {"create", "again"} : Begin(h, l, o, a) /\ status[o] # "NONE"
    BY DEF Start
  <1>3. Acts(h) /\ pc'[h] = l /\ ord'[h] = o /\ work'[h] = a
    BY <1>1, <1>2, BeginFacts DEF Label, Starting
  <1>4. Knows(h)'
    BY <1>1, <1>2, <1>3
       DEF rowVars, orderVars, Knows, Ordering, Starting, Requesting, Judging, Finalizing, Paying, Booking
  <1>. QED  BY <1>1, <1>3, <1>4, KeepsFacts, ReadingStep DEF Requesting

LEMMA AttemptReads ==
  ASSUME Inv, NEW h \in Handler, NEW a \in Attempt, Callback(h, a) \/ Verify(h, a)
  PROVE  Inv'
  <1>1. TypeOK /\ Knows(h) /\ UNCHANGED rowVars /\ issued' = issued
    BY DEF Inv, Callback, Verify, rowVars, onlineVars
  <1>2. PICK l \in {"callback", "recheck", "verify"} : Begin(h, l, None, a) /\ authority[a] # None
    BY DEF Callback, Verify
  <1>3. Acts(h) /\ pc'[h] = l /\ work'[h] = a
    BY <1>1, <1>2, BeginFacts DEF Label, Judging
  <1>4. Knows(h)'
    BY <1>1, <1>2, <1>3
       DEF rowVars, Knows, Ordering, Starting, Requesting, Judging, Finalizing, Paying, Booking
  <1>. QED  BY <1>1, <1>3, <1>4, KeepsFacts, ReadingStep DEF Requesting

\* Reading steps on the way: the handler goes on with what it knows, or ends.
LEMMA JudgingReads ==
  ASSUME Inv, NEW h \in Handler,
         Poll(h) \/ Recheck(h) \/ ReadAttempt(h) \/ AskGateway(h) \/ NoReceivable(h) \/ Answer(h)
         \/ StoreFails(h)
  PROVE  Inv'
  <1>1. TypeOK /\ Knows(h) /\ UNCHANGED rowVars /\ issued' = issued
    BY DEF Inv, Poll, Recheck, ReadAttempt, AskGateway, NoReceivable, Answer, StoreFails, rowVars, onlineVars
  <1>2. CASE Return(h)
    <2>1. Acts(h) /\ pc'[h] = "idle"
      BY <1>1, <1>2, ReturnFacts
    <2>2. Knows(h)'
      BY <1>1, <2>1, IdleKnows DEF Knows, rowVars
    <2>. QED  BY <1>1, <2>1, <2>2, KeepsFacts, ReadingStep DEF Requesting
  <1>3. CASE \E l \in {"again", "unrequested"} : Goto(h, l) /\ pc[h] \in {"poll", "redirect", "store"}
             /\ (l = "unrequested" => pc[h] \in {"redirect", "store"})
    <2>1. PICK l \in {"again", "unrequested"} :
            Goto(h, l) /\ pc[h] \in {"poll", "redirect", "store"}
             /\ (l = "unrequested" => pc[h] \in {"redirect", "store"})
      BY <1>3
    <2>2. Acts(h) /\ pc'[h] = l /\ ord'[h] = ord[h] /\ work'[h] = work[h]
      BY <1>1, <2>1, GotoFacts DEF Label, Starting
    <2>3. Knows(h)'
      BY <1>1, <2>1, <2>2
         DEF rowVars, orderVars, Knows, Ordering, Starting, Requesting, Judging, Finalizing, Paying, Booking
    <2>. QED  BY <1>1, <2>2, <2>3, KeepsFacts, ReadingStep DEF Requesting
  <1>4. CASE \E l \in {"verify", "expire", "mark", "ask", "refuse", "settle"} :
               /\ Goto(h, l) /\ pc[h] \in Judging
               /\ l = "settle" => session[authority[work[h]]] = "captured"
    <2>1. PICK l \in {"verify", "expire", "mark", "ask", "refuse", "settle"} :
               /\ Goto(h, l) /\ pc[h] \in Judging
               /\ l = "settle" => session[authority[work[h]]] = "captured"
      BY <1>4
    <2>2. Acts(h) /\ pc'[h] = l /\ work'[h] = work[h]
      BY <1>1, <2>1, GotoFacts DEF Label, Judging, Finalizing
    <2>3. Knows(h)'
      BY <1>1, <2>1, <2>2
         DEF rowVars, Knows, Ordering, Starting, Requesting, Judging, Finalizing, Paying, Booking
    <2>. QED  BY <1>1, <2>2, <2>3, KeepsFacts, ReadingStep DEF Requesting
  <1>. QED
    BY <1>2, <1>3, <1>4 DEF Poll, Recheck, ReadAttempt, AskGateway, NoReceivable, Answer, StoreFails, Judging

LEMMA ReservationInv ==
  ASSUME Inv, NEW h \in Handler, ReadReservation(h), UNCHANGED onlineVars
  PROVE  Inv'
  <1>. DEFINE o == attOrder[work[h]]
  <1>1. TypeOK /\ Attempts /\ Orders /\ Knows(h) /\ UNCHANGED rowVars /\ issued' = issued
    BY DEF Inv, ReadReservation, rowVars, onlineVars
  <1>2. /\ work[h] \in Attempt /\ attOrder[work[h]] # None
        /\ o \in Order /\ In(o, "ACTIVE") \subseteq Batch
    BY <1>1, AttemptFacts
       DEF Knows, ReadReservation, Finalizing, Paying, Attempts, In
  <1>3. /\ Acts(h) /\ work'[h] = work[h] /\ rows'[h] = In(o, "ACTIVE")
        /\ pc'[h] = IF In(o, "ACTIVE") # {} THEN "consume" ELSE "book"
    BY <1>1, <1>2, LabelFacts DEF ReadReservation, Acts, Label, Finalizing, Paying, Booking
  <1>4. /\ \A b \in In(o, "ACTIVE") : goods[o][b] # "NONE"
        /\ goods[o][0] = "ACTIVE" => 0 \in In(o, "ACTIVE")
    BY BatchFacts DEF In
  <1>5. Knows(h)'
    BY <1>1, <1>2, <1>3, <1>4
       DEF ReadReservation, rowVars, orderVars, effectVars, Knows,
           Ordering, Starting, Requesting, Judging, Finalizing, Paying, Booking
  <1>. QED  BY <1>1, <1>3, <1>5, KeepsFacts, ReadingStep DEF Requesting

LEMMA DieInv ==
  ASSUME Inv, NEW h \in Handler, Die(h)
  PROVE  Inv'
  <1>1. TypeOK /\ Knows(h) /\ UNCHANGED rowVars /\ issued' = [issued EXCEPT ![h] = None]
    BY DEF Inv, Die, Crash, rowVars
  <1>2. Acts(h) /\ pc'[h] = "idle"
    BY <1>1, LabelFacts, OrderPaymentAssumption DEF Die, Crash, Acts, Label
  <1>3. Knows(h)'
    BY <1>1, <1>2, IdleKnows DEF TypeOK
  <1>. QED  BY <1>1, <1>2, <1>3, KeepsFacts, ReadingStep DEF Requesting

-----------------------------------------------------------------------------
(* Steps that write the state of an attempt *)

LEMMA UnrequestedInv ==
  ASSUME Inv, NEW h \in Handler, Unrequested(h)
  PROVE  Inv'
  <1>1. TypeOK /\ Knows(h) /\ issued' = [issued EXCEPT ![h] = None]
    BY DEF Inv, Unrequested
  <1>2. /\ SetState(work[h], "FAILED") /\ Return(h)
        /\ UNCHANGED <<orderVars, attOrder, effectVars, authority, overdue, session>>
    BY DEF Unrequested
  <1>3. work[h] \in Attempt /\ attOrder[work[h]] # None
    BY <1>1 DEF Unrequested, Knows, Starting
  <1>4. Acts(h) /\ pc'[h] = "idle"
    BY <1>1, <1>2, ReturnFacts
  <1>5. Knows(h)'
    BY <1>1, <1>4, IdleKnows DEF TypeOK
  <1>6. "FAILED" \in AttemptState \ {"NONE"} /\ "idle" \notin Requesting
    BY DEF AttemptState, Requesting
  <1>7. Keeps(h)
    BY <1>1, KeepsFacts
  <1>. QED  BY <1>2, <1>3, <1>4, <1>5, <1>6, <1>7, WritingStep

LEMMA RedirectInv ==
  ASSUME Inv, NEW h \in Handler, Redirect(h)
  PROVE  Inv'
  <1>1. TypeOK /\ Knows(h) /\ issued' = issued
    BY DEF Inv, Redirect, onlineVars
  <1>2. /\ SetState(work[h], "REDIRECTED") /\ Goto(h, "store") /\ pc[h] = "redirect"
        /\ UNCHANGED <<orderVars, attOrder, effectVars, authority, overdue, session>>
    BY DEF Redirect, onlineVars
  <1>3. work[h] \in Attempt /\ attOrder[work[h]] # None
    BY <1>1, <1>2 DEF Knows, Starting, Requesting
  <1>4. Acts(h) /\ pc'[h] = "store" /\ ord'[h] = ord[h] /\ work'[h] = work[h]
    BY <1>1, <1>2, GotoFacts DEF Label, Starting
  <1>5. Knows(h)'
    BY <1>1, <1>2, <1>4
       DEF orderVars, Knows, Ordering, Starting, Requesting, Judging, Finalizing, Paying, Booking
  <1>6. "REDIRECTED" \in AttemptState \ {"NONE"} /\ pc[h] \in Requesting
    BY <1>2 DEF AttemptState, Requesting
  <1>7. Keeps(h)
    BY <1>1, KeepsFacts
  <1>. QED  BY <1>2, <1>3, <1>4, <1>5, <1>6, <1>7, WritingStep

\* The writes of the callback and of a verification before its answer.
LEMMA JudgingWrites ==
  ASSUME Inv, NEW h \in Handler,
         WriteCallback(h) \/ Expire(h) \/ MarkVerifying(h) \/ Refuse(h)
  PROVE  Inv'
  <1>1. TypeOK /\ Attempts /\ Knows(h) /\ issued' = issued
    BY DEF Inv, WriteCallback, Expire, MarkVerifying, Refuse, onlineVars
  <1>2. /\ \E s \in AttemptState \ {"NONE", "PAID"} : SetState(work[h], s)
        /\ pc[h] \in Judging
        /\ Return(h) \/ \E l \in {"callbackAgain", "recheck", "ask"} : Goto(h, l)
        /\ UNCHANGED <<orderVars, attOrder, effectVars, authority, overdue, session>>
    BY DEF WriteCallback, Expire, MarkVerifying, Refuse, onlineVars, AttemptState, Judging
  <1>3. work[h] \in Attempt /\ attOrder[work[h]] # None
    BY <1>1, <1>2 DEF Knows, Attempts
  <1>4. /\ Acts(h)
        /\ \/ pc'[h] = "idle"
           \/ pc'[h] \in {"callbackAgain", "recheck", "ask"} /\ work'[h] = work[h]
    <2>1. CASE Return(h)
      BY <1>1, <2>1, ReturnFacts
    <2>2. ASSUME NEW l \in {"callbackAgain", "recheck", "ask"}, Goto(h, l)
          PROVE  Acts(h) /\ pc'[h] = l /\ work'[h] = work[h]
      BY <1>1, <2>2, GotoFacts DEF Label, Judging
    <2>. QED  BY <1>2, <2>1, <2>2
  <1>5. Knows(h)'
    BY <1>1, <1>2, <1>4
       DEF Knows, Ordering, Starting, Requesting, Judging, Finalizing, Paying, Booking
  <1>6. pc'[h] \notin Requesting
    BY <1>4 DEF Requesting
  <1>7. Keeps(h)
    BY <1>1, KeepsFacts
  <1>. QED  BY <1>2, <1>3, <1>4, <1>5, <1>6, <1>7, WritingStep

LEMMA RecordPaidInv ==
  ASSUME Inv, NEW h \in Handler, RecordPaid(h), UNCHANGED onlineVars
  PROVE  Inv'
  <1>1. TypeOK /\ Attempts /\ Knows(h) /\ issued' = issued
    BY DEF Inv, onlineVars
  <1>2. /\ SetState(work[h], "PAID") /\ Goto(h, "publish") /\ pc[h] = "record"
        /\ UNCHANGED <<orderVars, attOrder, effectVars, authority, overdue, session>>
    BY DEF RecordPaid, onlineVars
  <1>3. work[h] \in Attempt /\ attOrder[work[h]] # None /\ Captured(work[h])
    BY <1>1, <1>2 DEF Knows, Captured, Attempts, Finalizing, Paying, Booking
  <1>4. Acts(h) /\ pc'[h] = "publish" /\ work'[h] = work[h] /\ rows'[h] = rows[h]
    BY <1>1, <1>2, GotoFacts DEF Label, Finalizing, Paying, Booking
  <1>5. Knows(h)'
    BY <1>1, <1>2, <1>4
       DEF orderVars, effectVars, Knows, Ordering, Starting, Requesting, Judging, Finalizing, Paying, Booking
  <1>6. "PAID" \in AttemptState \ {"NONE"} /\ "publish" \notin Requesting
    BY DEF AttemptState, Requesting
  <1>7. Keeps(h)
    BY <1>1, KeepsFacts
  <1>. QED  BY <1>2, <1>3, <1>4, <1>5, <1>6, <1>7, WritingStep

-----------------------------------------------------------------------------
(* Steps that write events and entries *)

\* No session is touched: the other handlers are left alone.
LEMMA QuietOnline ==
  ASSUME Inv, NEW h \in Handler, Acts(h), UNCHANGED onlineVars, pc'[h] \notin Requesting
  PROVE  Alone(h) /\ Apart'
  <1>1. UNCHANGED <<authority, session, issued>>
    BY DEF onlineVars
  <1>2. Alone(h)
    BY <1>1 DEF Inv, Alone, Acts, Knows
  <1>3. Apart'
    BY <1>1 DEF Inv, Apart, Acts
  <1>. QED  BY <1>2, <1>3

LEMMA EventStep ==
  ASSUME Inv, NEW h \in Handler, Acts(h), Knows(h)', pc'[h] \notin Requesting,
         UNCHANGED <<orderVars, attOrder, attState, bank, onlineVars>>,
         journal' \subseteq Attempt, outbox \subseteq outbox', outbox' \subseteq Event,
         \A a \in Attempt : a \in journal' \ journal => Captured(a),
         \A a \in Attempt : <<"OrderPaid", a>> \in outbox' \ outbox =>
             /\ Captured(a)
             /\ payStatus[attOrder[a]] = "PAID" /\ goods[attOrder[a]][0] # "ACTIVE"
  PROVE  Inv'
  <1>1. UNCHANGED <<status, payStatus, goods, attOrder, attState, bank, authority, overdue, session, issued>>
    BY DEF orderVars, onlineVars
  <1>2. TypeOK'
    BY <1>1 DEF Inv, TypeOK, PaymentTypeOK, Acts,
                Label, Ordering, Starting, Judging, Finalizing, Paying, Booking
  <1>3. (Orders /\ Attempts /\ AuthorityUnique)' /\ Grows
    BY <1>1 DEF Inv, Orders, Attempts, AuthorityUnique, Grows
  <1>4. (PaidOrderCaptured /\ EffectsAreCaptured /\ SoldOnlyIfPaid)'
    <2>1. (PaidOrderCaptured /\ SoldOnlyIfPaid)'
      BY <1>1 DEF Inv, PaidOrderCaptured, Captured, SoldOnlyIfPaid, In
    <2>2. \A a \in Attempt : Captured(a)' <=> Captured(a)
      BY <1>1 DEF Captured
    <2>3. \A a \in Attempt :
            \/ attState'[a] = "PAID" \/ a \in bank' \/ a \in journal' \/ <<"OrderPaid", a>> \in outbox'
            => Captured(a)
      BY <1>1 DEF Inv, EffectsAreCaptured
    <2>. QED  BY <2>1, <2>2, <2>3 DEF EffectsAreCaptured
  <1>5. (PaidEventTruthful /\ \A a \in Attempt : <<"OrderPaid", a>> \in outbox => authority[a] # None)'
    BY <1>1 DEF Inv, PaidEventTruthful, Captured, In
  <1>. QED  BY <1>2, <1>3, <1>4, <1>5, QuietOnline, HandlerStep DEF Data

LEMMA OrderEventInv ==
  ASSUME Inv, NEW h \in Handler, PublishCreated(h) \/ PublishEdited(h), UNCHANGED onlineVars
  PROVE  Inv'
  <1>1. TypeOK /\ Knows(h) /\ issued' = issued /\ session' = session
    BY DEF Inv, onlineVars
  <1>2. /\ pc[h] \in Ordering /\ Return(h)
        /\ outbox' = outbox \union {<<"OrderCreated", ord[h]>>}
             \/ outbox' = outbox \union {<<"OrderEdited", ord[h]>>}
        /\ UNCHANGED <<orderVars, attOrder, attState, bank, onlineVars, journal>>
    BY DEF PublishCreated, PublishEdited, Ordering
  <1>3. Acts(h) /\ pc'[h] = "idle"
    BY <1>1, <1>2, ReturnFacts
  <1>4. Knows(h)'
    BY <1>1, <1>3, IdleKnows DEF Knows
  <1>5. /\ outbox' \subseteq Event /\ outbox \subseteq outbox'
        /\ \A a \in Attempt : <<"OrderPaid", a>> \notin outbox' \ outbox
    BY <1>1, <1>2 DEF Knows, TypeOK, PaymentTypeOK, Event
  <1>6. journal' \subseteq Attempt /\ "idle" \notin Requesting
    BY <1>1, <1>2 DEF TypeOK, PaymentTypeOK, Requesting
  <1>. QED  BY <1>2, <1>3, <1>4, <1>5, <1>6, EventStep

LEMMA JournalInv ==
  ASSUME Inv, NEW h \in Handler, PostSaleJournal(h), UNCHANGED onlineVars
  PROVE  Inv'
  <1>1. TypeOK /\ Knows(h)
    BY DEF Inv
  <1>2. /\ pc[h] = "book" /\ Goto(h, "record") /\ outbox' = outbox
        /\ journal' = journal \union {work[h]} \/ journal' = journal
        /\ UNCHANGED <<orderVars, attOrder, attState, bank, onlineVars>>
    BY DEF PostSaleJournal
  <1>3. Acts(h) /\ pc'[h] = "record" /\ work'[h] = work[h]
    BY <1>1, <1>2, GotoFacts DEF Label, Finalizing, Paying, Booking
  <1>4. Knows(h)'
    BY <1>1, <1>2, <1>3
       DEF orderVars, onlineVars, Knows, Ordering, Starting, Requesting, Judging, Finalizing, Paying, Booking
  <1>5. /\ work[h] \in Attempt /\ Captured(work[h])
    BY <1>1, <1>2 DEF Knows, Captured, Finalizing, Paying, Booking
  <1>6. /\ journal' \subseteq Attempt /\ outbox' \subseteq Event /\ "record" \notin Requesting
        /\ \A a \in Attempt : a \in journal' \ journal => Captured(a)
    BY <1>1, <1>2, <1>5 DEF TypeOK, PaymentTypeOK, Requesting
  <1>. QED  BY <1>2, <1>3, <1>4, <1>6, EventStep

\* By the time OrderPaid is written its handler knows the order is paid.
LEMMA PublishPaidInv ==
  ASSUME Inv, NEW h \in Handler, PublishPaid(h), UNCHANGED onlineVars
  PROVE  Inv'
  <1>1. TypeOK /\ Knows(h) /\ issued' = issued /\ session' = session
    BY DEF Inv, onlineVars
  <1>2. /\ pc[h] = "publish" /\ (Return(h) \/ Goto(h, "finalized"))
        /\ outbox' = outbox \union {<<"OrderPaid", work[h]>>}
        /\ UNCHANGED <<orderVars, attOrder, attState, bank, onlineVars, journal>>
    BY DEF PublishPaid
  <1>3. Acts(h) /\ (pc'[h] = "idle" \/ (pc'[h] = "finalized" /\ work'[h] = work[h]))
    BY <1>1, <1>2, ReturnFacts, GotoFacts DEF Label, Finalizing, Paying, Booking
  <1>4. Knows(h)'
    BY <1>1, <1>2, <1>3
       DEF orderVars, onlineVars, Knows, Ordering, Starting, Requesting, Judging, Finalizing, Paying, Booking
  <1>5. /\ work[h] \in Attempt /\ Captured(work[h])
        /\ payStatus[attOrder[work[h]]] = "PAID" /\ goods[attOrder[work[h]]][0] # "ACTIVE"
    BY <1>1, <1>2 DEF Knows, Captured, Finalizing, Paying, Booking
  <1>6. /\ outbox' \subseteq Event /\ outbox \subseteq outbox'
        /\ \A a \in Attempt : <<"OrderPaid", a>> \in outbox' \ outbox => a = work[h]
    BY <1>1, <1>2, <1>5 DEF TypeOK, PaymentTypeOK, Event
  <1>7. journal' \subseteq Attempt /\ pc'[h] \notin Requesting
    BY <1>1, <1>2, <1>3 DEF TypeOK, PaymentTypeOK, Requesting
  <1>. QED  BY <1>2, <1>3, <1>4, <1>5, <1>6, <1>7, EventStep

-----------------------------------------------------------------------------
(* Steps that reserve, release and sell goods *)

LEMMA TurnFacts ==
  ASSUME TypeOK, NEW o \in Order, NEW batches \in SUBSET Batch, NEW state \in Goods,
         Turn(o, batches, state)
  PROVE  /\ goods' \in [Order -> [Batch -> Goods]]
         /\ \A p \in Order, b \in Batch :
              goods'[p][b] = IF p = o /\ b \in batches THEN state ELSE goods[p][b]
  BY DEF TypeOK, PaymentTypeOK, Turn

LEMMA GoodsStep ==
  ASSUME Inv, NEW h \in Handler, Acts(h), Knows(h)', pc'[h] \notin Requesting,
         UNCHANGED <<payStatus, attOrder, attState, effectVars, onlineVars>>,
         status' \in [Order -> {"NONE", "PENDING", "PAID", "CANCELLED"}],
         goods' \in [Order -> [Batch -> Goods]],
         Orders',
         \A o \in Order :
            /\ status[o] # "NONE" => status'[o] # "NONE"
            /\ \A b \in Batch : goods[o][b] # "NONE" => goods'[o][b] # "NONE"
            /\ goods[o][0] \notin {"NONE", "ACTIVE"} => goods'[o][0] # "ACTIVE"
            /\ \A b \in Batch : goods'[o][b] = "CONSUMED" /\ goods[o][b] # "CONSUMED" => payStatus[o] = "PAID"
  PROVE  Inv'
  <1>1. UNCHANGED <<payStatus, attOrder, attState, bank, journal, outbox, authority, overdue, session, issued>>
    BY DEF effectVars, onlineVars
  <1>2. TypeOK'
    BY <1>1 DEF Inv, TypeOK, PaymentTypeOK, Acts,
                Label, Ordering, Starting, Judging, Finalizing, Paying, Booking
  <1>3. Grows
    BY <1>1 DEF Grows
  <1>4. (Attempts /\ AuthorityUnique /\ PaidOrderCaptured /\ EffectsAreCaptured)'
    BY <1>1 DEF Inv, TypeOK, PaymentTypeOK, Attempts, AuthorityUnique, PaidOrderCaptured, EffectsAreCaptured, Captured
  <1>5. SoldOnlyIfPaid'
    BY <1>1 DEF Inv, SoldOnlyIfPaid, In
  <1>6. (PaidEventTruthful /\ \A a \in Attempt : <<"OrderPaid", a>> \in outbox => authority[a] # None)'
    <2>1. ASSUME NEW a \in Attempt, <<"OrderPaid", a>> \in outbox
          PROVE  0 \notin In(attOrder[a], "ACTIVE")'
      <3>1. attOrder[a] \in Order /\ status[attOrder[a]] # "NONE"
        BY <2>1, AttemptFacts DEF Inv, Attempts
      <3>2. goods[attOrder[a]][0] \notin {"NONE", "ACTIVE"}
        BY <2>1, <3>1, BatchFacts DEF Inv, Orders, PaidEventTruthful, In
      <3>. QED  BY <1>1, <3>1, <3>2 DEF In
    <2>. QED  BY <1>1, <2>1 DEF Inv, PaidEventTruthful
  <1>. QED  BY <1>2, <1>3, <1>4, <1>5, <1>6, QuietOnline, HandlerStep DEF Data

LEMMA PlaceInv ==
  ASSUME Inv, NEW h \in Handler, NEW o \in Order, Place(h, o), UNCHANGED onlineVars
  PROVE  Inv'
  <1>1. TypeOK /\ Orders /\ Knows(h) /\ Begin(h, "placed", o, None)
    BY DEF Inv, Place
  <1>2. Acts(h) /\ pc'[h] = "placed" /\ ord'[h] = o
    BY <1>1, BeginFacts DEF Label, Ordering
  <1>3. /\ status' \in [Order -> {"NONE", "PENDING", "PAID", "CANCELLED"}]
        /\ goods' \in [Order -> [Batch -> Goods]]
        /\ \A p \in Order : status'[p] = IF p = o THEN "PENDING" ELSE status[p]
        /\ \A p \in Order, b \in Batch :
             goods'[p][b] = IF p = o /\ b = 0 THEN "ACTIVE" ELSE goods[p][b]
    BY <1>1, BatchFacts DEF Place, TypeOK, PaymentTypeOK, Goods
  <1>4. Knows(h)'
    BY <1>1, <1>2, <1>3
       DEF onlineVars, Knows, Ordering, Starting, Requesting, Judging, Finalizing, Paying, Booking
  <1>5. Orders' /\ \A b \in Batch : goods[o][b] = "NONE"
    BY <1>1, <1>3, BatchFacts DEF Orders, Place
  <1>6. /\ UNCHANGED <<payStatus, attOrder, attState, effectVars, onlineVars>> /\ status[o] = "NONE"
        /\ "placed" \notin Requesting
    BY DEF Place, Requesting
  <1>. QED  BY <1>2, <1>3, <1>4, <1>5, <1>6, GoodsStep, BatchFacts

LEMMA CancelInv ==
  ASSUME Inv, NEW h \in Handler, CancelWrite(h), UNCHANGED onlineVars
  PROVE  Inv'
  <1>1. /\ TypeOK /\ Orders /\ Knows(h) /\ Return(h)
        /\ ord[h] \in Order /\ status[ord[h]] # "NONE"
    BY DEF Inv, CancelWrite, Knows, Ordering
  <1>2. Acts(h) /\ pc'[h] = "idle"
    BY <1>1, ReturnFacts
  <1>3. /\ status' \in [Order -> {"NONE", "PENDING", "PAID", "CANCELLED"}]
        /\ \A p \in Order : status'[p] = IF p = ord[h] THEN "CANCELLED" ELSE status[p]
    BY <1>1 DEF CancelWrite, TypeOK, PaymentTypeOK
  <1>4. /\ goods' \in [Order -> [Batch -> Goods]]
        /\ \A p \in Order, b \in Batch :
             goods'[p][b] = IF p = ord[h] /\ goods[p][b] = "ACTIVE" THEN "RELEASED" ELSE goods[p][b]
    BY <1>1, TurnFacts DEF CancelWrite, Release, In, Goods
  <1>5. Knows(h)' /\ Orders'
    BY <1>1, <1>2, <1>3, <1>4, IdleKnows, BatchFacts DEF onlineVars, Knows, Orders
  <1>6. /\ UNCHANGED <<payStatus, attOrder, attState, effectVars, onlineVars>>
        /\ "idle" \notin Requesting
    BY DEF CancelWrite, Requesting
  <1>. QED  BY <1>2, <1>3, <1>4, <1>5, <1>6, GoodsStep, BatchFacts

LEMMA EditInv ==
  ASSUME Inv, NEW h \in Handler, EditWrite(h), UNCHANGED onlineVars
  PROVE  Inv'
  <1>. DEFINE o == ord[h]
  <1>1. TypeOK /\ Orders /\ Knows(h) /\ o \in Order /\ status[o] # "NONE" /\ pc[h] = "edit"
    BY DEF Inv, EditWrite, Knows, Ordering
  <1>2. /\ UNCHANGED <<status, payStatus, attOrder, attState, effectVars, onlineVars>>
        /\ session' = session /\ issued' = issued
    BY DEF EditWrite, onlineVars
  <1>3. Acts(h) /\ (pc'[h] = "idle" \/ (pc'[h] = "edited" /\ ord'[h] = o))
    BY <1>1, ReturnFacts, GotoFacts DEF EditWrite, Label, Ordering
  <1>4. Knows(h)'
    BY <1>1, <1>2, <1>3
       DEF Knows, Ordering, Starting, Requesting, Judging, Finalizing, Paying, Booking
  <1>5. /\ goods' \in [Order -> [Batch -> Goods]]
        /\ \A p \in Order, b \in Batch :
             /\ goods[p][b] # "NONE" => goods'[p][b] # "NONE"
             /\ goods[p][b] \notin {"NONE", "ACTIVE"} => goods'[p][b] = goods[p][b]
             /\ goods'[p][b] = "CONSUMED" => goods[p][b] = "CONSUMED"
             /\ p # o => goods'[p][b] = goods[p][b]
    <2>1. CASE UNCHANGED goods
      BY <1>1, <2>1 DEF TypeOK, PaymentTypeOK
    <2>2. CASE goods' # goods
      <3>1. PICK b \in Batch :
              /\ goods[o][b] = "NONE"
              /\ goods' = [goods EXCEPT ![o] =
                   [c \in Batch |-> IF c = b THEN "ACTIVE"
                                    ELSE IF @[c] = "ACTIVE" THEN "RELEASED" ELSE @[c]]]
        BY <2>2 DEF EditWrite
      <3>2. /\ goods' \in [Order -> [Batch -> Goods]]
            /\ \A p \in Order, c \in Batch : goods'[p][c] =
                 IF p # o THEN goods[p][c]
                 ELSE IF c = b THEN "ACTIVE"
                 ELSE IF goods[o][c] = "ACTIVE" THEN "RELEASED" ELSE goods[o][c]
        BY <1>1, <3>1 DEF TypeOK, PaymentTypeOK, Goods
      <3>. QED  BY <1>1, <3>1, <3>2
    <2>. QED  BY <2>1, <2>2
  <1>6. Orders' /\ status' \in [Order -> {"NONE", "PENDING", "PAID", "CANCELLED"}]
    BY <1>1, <1>2, <1>5, BatchFacts DEF Orders, TypeOK, PaymentTypeOK
  <1>7. pc'[h] \notin Requesting
    BY <1>3 DEF Requesting
  <1>. QED  BY <1>2, <1>3, <1>4, <1>5, <1>6, <1>7, GoodsStep, BatchFacts

LEMMA ConsumeInv ==
  ASSUME Inv, NEW h \in Handler, Consume(h), UNCHANGED onlineVars
  PROVE  Inv'
  <1>. DEFINE o == attOrder[work[h]]
  <1>1. TypeOK /\ Orders /\ Attempts /\ Knows(h) /\ pc[h] = "consume"
    BY DEF Inv, Consume
  <1>2. /\ UNCHANGED <<status, payStatus, attOrder, attState, effectVars, onlineVars>>
        /\ UNCHANGED <<bank, authority, session, issued>>
    BY DEF Consume, onlineVars, effectVars
  <1>3. /\ work[h] \in Attempt /\ o \in Order /\ status[o] # "NONE" /\ payStatus[o] = "PAID"
        /\ rows[h] \in SUBSET Batch
        /\ \A b \in rows[h] : goods[o][b] # "NONE"
        /\ 0 \in rows[h] \/ goods[o][0] # "ACTIVE"
    BY <1>1, AttemptFacts, LabelFacts DEF Knows, Attempts, Finalizing, Paying
  <1>4. CASE UNCHANGED goods /\ Return(h)
    <2>1. Acts(h) /\ pc'[h] = "idle"
      BY <1>1, <1>4, ReturnFacts
    <2>2. Knows(h)'
      BY <1>1, <1>2, <2>1, IdleKnows DEF Knows
    <2>3. UNCHANGED rowVars /\ issued' = issued /\ "idle" \notin Requesting
      BY <1>2, <1>4 DEF rowVars, orderVars, onlineVars, Requesting
    <2>. QED  BY <1>1, <2>1, <2>2, <2>3, KeepsFacts, ReadingStep
  <1>5. CASE ConsumeRows(h)
    <2>1. /\ goods' \in [Order -> [Batch -> Goods]]
          /\ \A p \in Order, b \in Batch :
               goods'[p][b] = IF p = o /\ b \in rows[h] THEN "CONSUMED" ELSE goods[p][b]
      BY <1>1, <1>3, <1>5, TurnFacts DEF ConsumeRows, Goods
    <2>2. Acts(h) /\ pc'[h] = "book" /\ work'[h] = work[h]
      BY <1>1, <1>5, LabelFacts DEF ConsumeRows, Acts, Label, Finalizing, Paying, Booking
    <2>3. Knows(h)'
      BY <1>1, <1>2, <1>3, <2>1, <2>2, BatchFacts
         DEF Knows, Ordering, Starting, Requesting, Judging, Finalizing, Paying, Booking
    <2>4. Orders' /\ status' \in [Order -> {"NONE", "PENDING", "PAID", "CANCELLED"}]
      BY <1>1, <1>2, <1>3, <2>1, BatchFacts DEF Orders, TypeOK, PaymentTypeOK
    <2>5. "book" \notin Requesting
      BY DEF Requesting
    <2>. QED  BY <1>2, <1>3, <2>1, <2>2, <2>3, <2>4, <2>5, GoodsStep, BatchFacts
  <1>. QED  BY <1>4, <1>5 DEF Consume

\* The transaction that makes the order paid: the session was captured.
LEMMA MarkPaidInv ==
  ASSUME Inv, NEW h \in Handler, MarkPaid(h), UNCHANGED onlineVars
  PROVE  Inv'
  <1>. DEFINE a == work[h]
              o == attOrder[work[h]]
  <1>1. TypeOK /\ Orders /\ Attempts /\ Knows(h) /\ pc[h] = "settle" /\ Goto(h, "reserved")
    BY DEF Inv, MarkPaid
  <1>2. UNCHANGED <<goods, attOrder, journal, outbox, authority, overdue, session, issued>>
    BY DEF MarkPaid, onlineVars
  <1>3. /\ a \in Attempt /\ o \in Order /\ o # None /\ status[o] # "NONE"
        /\ authority[a] # None /\ session[authority[a]] = "captured"
    BY <1>1, AttemptFacts DEF Knows, Attempts, Finalizing
  <1>4. Acts(h) /\ pc'[h] = "reserved" /\ work'[h] = a
    BY <1>1, GotoFacts DEF Label, Finalizing, Paying
  <1>5. /\ payStatus' \in [Order -> {"PENDING", "PAID"}]
        /\ status' \in [Order -> {"NONE", "PENDING", "PAID", "CANCELLED"}]
        /\ \A p \in Order : /\ payStatus'[p] = IF p = o THEN "PAID" ELSE payStatus[p]
                            /\ status'[p] # "NONE" <=> status[p] # "NONE"
    BY <1>1, <1>3 DEF MarkPaid, TypeOK, PaymentTypeOK
  <1>6. /\ attState' \in [Attempt -> AttemptState] /\ bank' \subseteq Attempt
        /\ bank' \subseteq bank \union {a}
        /\ \A b \in Attempt : attState'[b] = IF b = a THEN "PAID" ELSE attState[b]
    BY <1>1, <1>3 DEF MarkPaid, CreditBank, SetState, TypeOK, PaymentTypeOK, AttemptState
  <1>7. Knows(h)'
    BY <1>1, <1>2, <1>3, <1>4, <1>5, <1>6
       DEF Knows, Ordering, Starting, Requesting, Judging, Finalizing, Paying, Booking
  <1>8. TypeOK'
    BY <1>1, <1>2, <1>4, <1>5, <1>6 DEF TypeOK, PaymentTypeOK, Acts,
       Label, Ordering, Starting, Judging, Finalizing, Paying, Booking
  <1>9. Grows
    BY <1>1, <1>2, <1>5, <1>6 DEF Grows, TypeOK, PaymentTypeOK
  <1>10. (Orders /\ Attempts /\ AuthorityUnique)'
    BY <1>1, <1>2, <1>3, <1>5, <1>6 DEF Inv, TypeOK, PaymentTypeOK, Orders, Attempts, AuthorityUnique
  <1>11. (PaidOrderCaptured /\ EffectsAreCaptured /\ SoldOnlyIfPaid)'
    BY <1>2, <1>3, <1>5, <1>6 DEF Inv, PaidOrderCaptured, EffectsAreCaptured, Captured, SoldOnlyIfPaid, In
  <1>12. (PaidEventTruthful /\ \A b \in Attempt : <<"OrderPaid", b>> \in outbox => authority[b] # None)'
    <2>1. ASSUME NEW b \in Attempt, <<"OrderPaid", b>> \in outbox
          PROVE  /\ authority[b] # None /\ attOrder[b] \in Order
                 /\ payStatus[attOrder[b]] = "PAID"
                 /\ 0 \notin In(attOrder[b], "ACTIVE")
      BY <1>1, <2>1, AttemptFacts DEF Inv, PaidEventTruthful, TypeOK, PaymentTypeOK
    <2>. QED  BY <1>2, <1>5, <2>1 DEF PaidEventTruthful, In
  <1>13. "reserved" \notin Requesting
    BY DEF Requesting
  <1>. QED
    BY <1>4, <1>7, <1>8, <1>9, <1>10, <1>11, <1>12, <1>13, QuietOnline, HandlerStep DEF Data

-----------------------------------------------------------------------------
(* Steps that create attempts and sessions *)

LEMMA CreateInv ==
  ASSUME Inv, NEW h \in Handler, Create(h)
  PROVE  Inv'
  <1>. DEFINE a == work[h]
  <1>1. /\ TypeOK /\ Attempts /\ Knows(h) /\ pc[h] = "create" /\ a \in Attempt
        /\ ord[h] \in Order /\ status[ord[h]] # "NONE"
    BY DEF Inv, Create, Knows, Starting
  <1>2. CASE attState[a] # "NONE"
    <2>1. Goto(h, "poll") /\ UNCHANGED rowVars /\ issued' = issued
      BY <1>2 DEF Create, rowVars, onlineVars
    <2>2. Acts(h) /\ pc'[h] = "poll" /\ ord'[h] = ord[h] /\ work'[h] = a
      BY <1>1, <2>1, GotoFacts DEF Label, Starting
    <2>3. Knows(h)'
      BY <1>1, <2>1, <2>2
         DEF rowVars, orderVars, Knows, Ordering, Starting, Requesting, Judging, Finalizing, Paying, Booking
    <2>. QED  BY <1>1, <2>1, <2>2, <2>3, KeepsFacts, ReadingStep DEF Requesting
  <1>3. CASE attState[a] = "NONE"
    <2>1. /\ SetState(a, "CREATED") /\ attOrder' = [attOrder EXCEPT ![a] = ord[h]]
          /\ Goto(h, "request")
          /\ UNCHANGED <<status, payStatus, goods, bank, journal, outbox,
                         authority, overdue, session, issued>>
      BY <1>3 DEF Create, orderVars, effectVars, onlineVars
    <2>2. Acts(h) /\ pc'[h] = "request" /\ ord'[h] = ord[h] /\ work'[h] = a
      BY <1>1, <2>1, GotoFacts DEF Label, Starting
    <2>3. attOrder[a] = None /\ authority[a] = None
      BY <1>1, <1>3 DEF Attempts
    <2>4. /\ attOrder' \in [Attempt -> Order \union {None}] /\ attState' \in [Attempt -> AttemptState]
          /\ \A b \in Attempt : /\ attOrder'[b] = IF b = a THEN ord[h] ELSE attOrder[b]
                                /\ attState'[b] = IF b = a THEN "CREATED" ELSE attState[b]
      BY <1>1, <2>1 DEF SetState, TypeOK, PaymentTypeOK, AttemptState
    <2>5. ord[h] # None
      BY <1>1, OrderPaymentAssumption
    <2>6. Knows(h)'
      BY <1>1, <2>1, <2>2, <2>3, <2>4, <2>5
         DEF Knows, Ordering, Starting, Requesting, Judging, Finalizing, Paying, Booking
    <2>7. TypeOK'
      BY <1>1, <2>1, <2>2, <2>4 DEF TypeOK, PaymentTypeOK, Acts,
         Label, Ordering, Starting, Judging, Finalizing, Paying, Booking
    <2>8. Grows
      BY <2>1, <2>3, <2>4 DEF Grows
    <2>9. Attempts'
      BY <1>1, <2>1, <2>3, <2>4, <2>5 DEF Attempts
    <2>10. (Orders /\ AuthorityUnique /\ SoldOnlyIfPaid)'
      BY <2>1 DEF Inv, Orders, AuthorityUnique, SoldOnlyIfPaid, In
    <2>11. (PaidOrderCaptured /\ EffectsAreCaptured)'
      BY <1>1, <2>1, <2>3, <2>4 DEF Inv, PaidOrderCaptured, EffectsAreCaptured, Captured
    <2>12. (PaidEventTruthful /\ \A b \in Attempt : <<"OrderPaid", b>> \in outbox => authority[b] # None)'
      BY <1>1, <2>1, <2>3, <2>4 DEF Inv, PaidEventTruthful, In
    <2>13. Alone(h)
      BY <2>1, <2>2 DEF Inv, Alone, Acts, Knows
    <2>14. ASSUME NEW g \in Handler, pc[g] \in Requesting PROVE work[g] # a
      BY <2>3, <2>14 DEF Inv, Knows
    <2>15. Apart'
      BY <2>1, <2>2, <2>14 DEF Inv, Apart, Acts
    <2>. QED
      BY <2>6, <2>7, <2>8, <2>9, <2>10, <2>11, <2>12, <2>13, <2>15, HandlerStep DEF Data
  <1>. QED  BY <1>2, <1>3

\* Sessions change: none of an attempt's becomes or ceases to be captured.
LEMMA SessionRows ==
  ASSUME Inv, UNCHANGED <<orderVars, attOrder, attState, effectVars, authority>>,
         session' \in [Authority -> {"none", "issued", "open", "captured", "refused"}],
         \A x \in Authority :
            /\ session[x] = "captured" => session'[x] = "captured"
            /\ session[x] \notin {"none", "issued"} => session'[x] \notin {"none", "issued"}
  PROVE  Data' /\ Grows
  <1>1. UNCHANGED <<status, payStatus, goods, attOrder, attState, bank, journal, outbox, authority>>
    BY DEF orderVars, effectVars
  <1>2. \A a \in Attempt : authority[a] # None => authority[a] \in Authority
    BY DEF Inv, TypeOK
  <1>3. (Orders /\ AuthorityUnique /\ SoldOnlyIfPaid)' /\ Grows
    BY <1>1 DEF Inv, Orders, AuthorityUnique, SoldOnlyIfPaid, In, Grows
  <1>4. Attempts'
    BY <1>1, <1>2 DEF Inv, Attempts
  <1>5. (PaidOrderCaptured /\ EffectsAreCaptured)'
    BY <1>1, <1>2 DEF Inv, PaidOrderCaptured, EffectsAreCaptured, Captured
  <1>6. (PaidEventTruthful /\ \A a \in Attempt : <<"OrderPaid", a>> \in outbox => authority[a] # None)'
    BY <1>1 DEF Inv, PaidEventTruthful, In
  <1>. QED  BY <1>3, <1>4, <1>5, <1>6 DEF Data

LEMMA RequestAgainInv ==
  ASSUME Inv, NEW h \in Handler, RequestAgain(h)
  PROVE  Inv'
  <1>1. /\ TypeOK /\ Knows(h) /\ Return(h) /\ issued' = issued
        /\ UNCHANGED <<status, payStatus, goods, bank, journal, outbox,
                       attOrder, attState, authority, overdue>>
    BY DEF Inv, RequestAgain, orderVars, effectVars
  <1>2. Acts(h) /\ pc'[h] = "idle"
    BY <1>1, ReturnFacts
  <1>3. /\ session' \in [Authority -> {"none", "issued", "open", "captured", "refused"}]
        /\ \A x \in Authority : session[x] # "none" => session'[x] = session[x]
    BY <1>1 DEF RequestAgain, TypeOK
  <1>4. \A g \in Handler : issued[g] # None => issued[g] \in Authority /\ session'[issued[g]] = "issued"
    BY <1>3 DEF Inv, Knows, TypeOK
  <1>5. Data' /\ Grows
    BY <1>1, <1>3, SessionRows DEF RequestAgain
  <1>6. TypeOK'
    BY <1>1, <1>2, <1>3 DEF TypeOK, PaymentTypeOK, Acts,
       Label, Ordering, Starting, Judging, Finalizing, Paying, Booking
  <1>7. Knows(h)'
    BY <1>1, <1>2, <1>4, IdleKnows
  <1>8. Alone(h) /\ Apart'
    BY <1>1, <1>2, <1>4 DEF Inv, Alone, Apart, Acts, Knows, Requesting
  <1>. QED  BY <1>5, <1>6, <1>7, <1>8, HandlerStep

LEMMA RequestInv ==
  ASSUME Inv, NEW h \in Handler, Request(h)
  PROVE  Inv'
  <1>1. /\ TypeOK /\ Knows(h) /\ pc[h] = "request"
        /\ UNCHANGED <<status, payStatus, goods, bank, journal, outbox,
                       attOrder, attState, authority, overdue>>
    BY DEF Inv, Request, orderVars, effectVars
  <1>2. CASE Goto(h, "unrequested") /\ UNCHANGED <<session, issued>>
    <2>1. UNCHANGED rowVars /\ issued' = issued
      BY <1>2 DEF Request, rowVars
    <2>2. Acts(h) /\ pc'[h] = "unrequested" /\ ord'[h] = ord[h] /\ work'[h] = work[h]
      BY <1>1, <1>2, GotoFacts DEF Label, Starting
    <2>3. Knows(h)'
      BY <1>1, <1>2, <2>2
         DEF Knows, Ordering, Starting, Requesting, Judging, Finalizing, Paying, Booking
    <2>. QED  BY <1>1, <2>1, <2>2, <2>3, KeepsFacts, ReadingStep DEF Requesting
  <1>3. ASSUME NEW x \in Authority, session[x] = "none",
               session' = [session EXCEPT ![x] = "issued"],
               issued' = [issued EXCEPT ![h] = x], Goto(h, "redirect")
        PROVE  Inv'
    <2>1. Acts(h) /\ pc'[h] = "redirect" /\ ord'[h] = ord[h] /\ work'[h] = work[h]
      BY <1>1, <1>3, GotoFacts DEF Label, Starting
    <2>2. /\ session' \in [Authority -> {"none", "issued", "open", "captured", "refused"}]
          /\ \A y \in Authority : session'[y] = IF y = x THEN "issued" ELSE session[y]
          /\ issued' \in [Handler -> Authority \union {None}]
          /\ \A g \in Handler : issued'[g] = IF g = h THEN x ELSE issued[g]
      BY <1>1, <1>3 DEF TypeOK
    <2>3. \A g \in Handler : issued[g] # None =>
             issued[g] \in Authority /\ session[issued[g]] = "issued" /\ issued[g] # x
      BY <1>3 DEF Inv, Knows, TypeOK
    <2>4. Data' /\ Grows
      BY <1>1, <1>3, <2>2, SessionRows DEF Request
    <2>5. TypeOK'
      BY <1>1, <2>1, <2>2 DEF TypeOK, PaymentTypeOK, Acts,
         Label, Ordering, Starting, Judging, Finalizing, Paying, Booking
    <2>6. Knows(h)'
      BY <1>1, <2>1, <2>2, OnlinePaymentAssumption
         DEF Knows, Ordering, Starting, Requesting, Judging, Finalizing, Paying, Booking
    <2>7. Alone(h)
      BY <1>1, <2>1, <2>2, <2>3 DEF Inv, Alone, Acts, Knows
    <2>8. Apart'
      BY <1>1, <2>1, <2>2, <2>3 DEF Inv, Apart, Acts, Requesting
    <2>. QED  BY <2>4, <2>5, <2>6, <2>7, <2>8, HandlerStep
  <1>. QED  BY <1>2, <1>3 DEF Request

\* The attempt had no authority, and nobody else has this one.
LEMMA StoreAuthorityInv ==
  ASSUME Inv, NEW h \in Handler, StoreAuthority(h)
  PROVE  Inv'
  <1>. DEFINE a == work[h]
              x == issued[h]
  <1>1. /\ TypeOK /\ Attempts /\ Knows(h) /\ pc[h] = "store" /\ Return(h)
        /\ UNCHANGED <<status, payStatus, goods, bank, journal, outbox, attOrder, attState, overdue>>
    BY DEF Inv, StoreAuthority, orderVars, effectVars
  <1>2. /\ a \in Attempt /\ attOrder[a] # None /\ authority[a] = None
        /\ x \in Authority /\ session[x] = "issued"
    BY <1>1 DEF Knows, Starting, Requesting, TypeOK
  <1>3. /\ authority' \in [Attempt -> Authority \union {None}]
        /\ session' \in [Authority -> {"none", "issued", "open", "captured", "refused"}]
        /\ issued' \in [Handler -> Authority \union {None}]
        /\ \A b \in Attempt : authority'[b] = IF b = a THEN x ELSE authority[b]
        /\ \A y \in Authority : session'[y] = IF y = x THEN "open" ELSE session[y]
        /\ \A g \in Handler : issued'[g] = IF g = h THEN None ELSE issued[g]
    BY <1>1, <1>2 DEF StoreAuthority, TypeOK
  <1>4. Acts(h) /\ pc'[h] = "idle"
    BY <1>1, ReturnFacts
  <1>5. \A b \in Attempt : authority[b] # None => authority[b] \in Authority /\ authority[b] # x
    BY <1>1, <1>2 DEF Attempts, TypeOK
  <1>6. TypeOK'
    BY <1>1, <1>3, <1>4 DEF TypeOK, PaymentTypeOK, Acts,
       Label, Ordering, Starting, Judging, Finalizing, Paying, Booking
  <1>7. Grows
    BY <1>1, <1>2, <1>3 DEF Grows
  <1>8. (Orders /\ SoldOnlyIfPaid)'
    BY <1>1 DEF Inv, Orders, SoldOnlyIfPaid, In
  <1>9. (Attempts /\ AuthorityUnique)'
    BY <1>1, <1>2, <1>3, <1>5, OnlinePaymentAssumption DEF Inv, Attempts, AuthorityUnique
  <1>10. (PaidOrderCaptured /\ EffectsAreCaptured)'
    BY <1>1, <1>2, <1>3, <1>5 DEF Inv, PaidOrderCaptured, EffectsAreCaptured, Captured
  <1>11. (PaidEventTruthful /\ \A b \in Attempt : <<"OrderPaid", b>> \in outbox => authority[b] # None)'
    BY <1>1, <1>2, <1>3, OnlinePaymentAssumption DEF Inv, PaidEventTruthful, In
  <1>12. Knows(h)'
    BY <1>3, <1>4, IdleKnows
  <1>13. ASSUME NEW g \in Handler, g # h
         PROVE  /\ pc[g] \in Requesting => work[g] \in Attempt /\ work[g] # a /\ authority[work[g]] = None
                /\ issued[g] # None => issued[g] \in Authority /\ issued[g] # x /\ session[issued[g]] = "issued"
    BY <1>1, <1>13 DEF Inv, Apart, Knows, TypeOK, Requesting, Starting
  <1>14. Alone(h) /\ Apart'
    BY <1>1, <1>3, <1>4, <1>13 DEF Inv, Alone, Apart, Acts, Requesting
  <1>. QED
    BY <1>6, <1>7, <1>8, <1>9, <1>10, <1>11, <1>12, <1>14, HandlerStep DEF Data

-----------------------------------------------------------------------------
(* The gateway, the clock, and the whole *)

\* A step outside the handlers.
LEMMA OutsideStep ==
  ASSUME Inv, TypeOK', Data', Grows, UNCHANGED <<pc, ord, work, rows, authority, issued>>,
         \A g \in Handler : issued[g] # None => session'[issued[g]] = "issued"
  PROVE  Inv'
  <1>1. ASSUME NEW g \in Handler PROVE Knows(g)'
    BY Bystander DEF Inv, Knows
  <1>2. Apart'
    BY DEF Inv, Apart
  <1>. QED  BY <1>1, <1>2 DEF Inv, Data

LEMMA PayInv ==
  ASSUME Inv, NEW x \in Authority, Pay(x)
  PROVE  Inv'
  <1>1. /\ TypeOK /\ session[x] = "open"
        /\ UNCHANGED <<status, payStatus, goods, attOrder, attState, bank, journal, outbox,
                       pc, ord, work, rows, crashes, authority, overdue, issued>>
    BY DEF Inv, Pay, paymentVars, orderVars, effectVars, handlerVars
  <1>2. /\ session' \in [Authority -> {"none", "issued", "open", "captured", "refused"}]
        /\ \A y \in Authority : IF y = x THEN session'[y] \in {"captured", "refused"}
                                         ELSE session'[y] = session[y]
    BY <1>1 DEF Pay, TypeOK
  <1>3. Data' /\ Grows
    BY <1>1, <1>2, SessionRows DEF orderVars, effectVars
  <1>4. TypeOK'
    BY <1>1, <1>2 DEF TypeOK, PaymentTypeOK
  <1>5. \A g \in Handler : issued[g] # None => session'[issued[g]] = "issued"
    BY <1>1, <1>2 DEF Inv, Knows, TypeOK
  <1>. QED  BY <1>1, <1>3, <1>4, <1>5, OutsideStep

LEMMA OverdueInv ==
  ASSUME Inv, NEW a \in Attempt, Overdue(a)
  PROVE  Inv'
  <1>1. /\ TypeOK /\ overdue' = overdue \union {a}
        /\ UNCHANGED <<status, payStatus, goods, attOrder, attState, bank, journal, outbox,
                       pc, ord, work, rows, crashes, authority, session, issued>>
    BY DEF Inv, Overdue, paymentVars, orderVars, effectVars, handlerVars
  <1>2. Data' /\ Grows
    BY <1>1, SessionRows DEF orderVars, effectVars, TypeOK
  <1>3. TypeOK'
    BY <1>1 DEF TypeOK, PaymentTypeOK
  <1>4. \A g \in Handler : issued[g] # None => session'[issued[g]] = "issued"
    BY <1>1 DEF Inv, Knows
  <1>. QED  BY <1>1, <1>2, <1>3, <1>4, OutsideStep

LEMMA InitInv == Init => Inv
  <1>. SUFFICES ASSUME Init PROVE Inv
    OBVIOUS
  <1>. USE DEF Init, PaymentInit
  <1>1. TypeOK
    BY OrderPaymentAssumption DEF TypeOK, PaymentTypeOK, Goods, AttemptState, Event
  <1>2. Orders /\ Attempts /\ AuthorityUnique
    BY DEF Orders, Attempts, AuthorityUnique
  <1>3. PaidOrderCaptured /\ EffectsAreCaptured /\ SoldOnlyIfPaid /\ PaidEventTruthful
    BY DEF PaidOrderCaptured, EffectsAreCaptured, SoldOnlyIfPaid, PaidEventTruthful, In
  <1>4. Apart /\ \A h \in Handler : Knows(h)
    BY DEF Apart, Knows, Ordering, Starting, Requesting, Judging, Finalizing, Paying, Booking
  <1>. QED  BY <1>1, <1>2, <1>3, <1>4 DEF Inv

LEMMA StepInv == Inv /\ [Next]_vars => Inv'
  <1>. SUFFICES ASSUME Inv, [Next]_vars PROVE Inv'
    OBVIOUS
  <1>1. ASSUME NEW h \in Handler, OrderRequest(h), UNCHANGED onlineVars PROVE Inv'
    BY <1>1, PlaceInv, OrderReads DEF OrderRequest
  <1>2. ASSUME NEW h \in Handler, NEW o \in Order, NEW a \in Attempt, Start(h, o, a) PROVE Inv'
    BY <1>2, StartInv
  <1>3. ASSUME NEW h \in Handler, NEW a \in Attempt, Callback(h, a) \/ Verify(h, a) PROVE Inv'
    BY <1>3, AttemptReads
  <1>4. ASSUME NEW h \in Handler, OrderStep(h), UNCHANGED onlineVars PROVE Inv'
    BY <1>4, OrderEventInv, CancelInv, EditInv, MarkPaidInv, ReservationInv, ConsumeInv,
       JournalInv, RecordPaidInv, PublishPaidInv DEF OrderStep
  <1>5. ASSUME NEW h \in Handler, Step(h) PROVE Inv'
    BY <1>4, <1>5, CreateInv, RequestAgainInv, RequestInv, UnrequestedInv, RedirectInv,
       StoreAuthorityInv, JudgingReads, JudgingWrites DEF Step
  <1>6. ASSUME NEW h \in Handler, Die(h) PROVE Inv'
    BY <1>6, DieInv
  <1>7. ASSUME NEW x \in Authority, Pay(x) PROVE Inv'
    BY <1>7, PayInv
  <1>8. ASSUME NEW a \in Attempt, Overdue(a) PROVE Inv'
    BY <1>8, OverdueInv
  <1>9. CASE UNCHANGED vars
    <2>1. /\ UNCHANGED <<pc, ord, work, rows, authority, issued, session, overdue, crashes>>
          /\ UNCHANGED <<status, payStatus, goods, attOrder, attState, bank, journal, outbox>>
      BY <1>9 DEF vars, paymentVars, orderVars, effectVars, handlerVars, onlineVars
    <2>2. TypeOK'
      BY <2>1 DEF Inv, TypeOK, PaymentTypeOK
    <2>3. UNCHANGED rowVars
      BY <2>1 DEF rowVars, orderVars, effectVars
    <2>. QED  BY <2>1, <2>2, <2>3, SameRows, OutsideStep DEF Inv, Knows
  <1>. QED  BY <1>1, <1>2, <1>3, <1>5, <1>6, <1>7, <1>8, <1>9 DEF Next

THEOREM Invariant == Spec => []Inv
  BY InitInv, StepInv, PTL DEF Spec

\* TypeOK: the state keeps its types.
THEOREM OnlineTypeCorrect == Spec => []TypeOK
  <1>1. Inv => TypeOK
    BY DEF Inv
  <1>. QED  BY <1>1, Invariant, PTL

\* EffectsAreCaptured: an attempt is PAID, credited to the bank, entered as a
\* sale or announced only if the gateway captured the money of its own session.
THEOREM NothingUncaptured == Spec => []EffectsAreCaptured
  <1>1. Inv => EffectsAreCaptured
    BY DEF Inv
  <1>. QED  BY <1>1, Invariant, PTL

\* AuthorityUnique: no two attempts have the same authority.
THEOREM AuthoritiesDiffer == Spec => []AuthorityUnique
  <1>1. Inv => AuthorityUnique
    BY DEF Inv
  <1>. QED  BY <1>1, Invariant, PTL

\* PaidEventTruthful: when OrderPaid is announced the order is paid and what it
\* first reserved is no longer pending; of the bank it promises nothing.
THEOREM EventsAreTrue == Spec => []PaidEventTruthful
  <1>1. Inv => PaidEventTruthful
    BY DEF Inv
  <1>. QED  BY <1>1, Invariant, PTL

\* SoldOnlyIfPaid: goods leave only for an order that is paid.
THEOREM OnlineSoldOnlyIfPaid == Spec => []SoldOnlyIfPaid
  <1>1. Inv => SoldOnlyIfPaid
    BY DEF Inv
  <1>. QED  BY <1>1, Invariant, PTL

-----------------------------------------------------------------------------
(* The refinement: what Purchase sees of a step *)

Paid == {o \in Order : payStatus[o] = "PAID"}
Confirmed == {o \in Order : \E a \in Attempt : attOrder[a] = o /\ Captured(a)}
Shelf == [o \in Order |-> GoodsOf(o)]

\* Nothing of what Purchase sees changes.
LEMMA Unseen ==
  ASSUME Shelf' = Shelf, Confirmed' = Confirmed, Paid' = Paid
  PROVE  UNCHANGED Promise!vars
  BY DEF Promise!vars, Shelf, Confirmed, Paid

\* GoodsOf, told by the rows.
OfRows(g) ==
    IF \E b \in Batch : g[b] = "CONSUMED" THEN "CONSUMED"
    ELSE IF \E b \in Batch : g[b] = "ACTIVE" THEN "ACTIVE"
    ELSE IF \E b \in Batch : g[b] = "RELEASED" THEN "RELEASED" ELSE "NONE"
ToldByRows == \A o \in Order : GoodsOf(o) = OfRows(goods[o])

LEMMA GoodsTold == ToldByRows
  <1>. SUFFICES ASSUME NEW o \in Order PROVE GoodsOf(o) = OfRows(goods[o])
    BY DEF ToldByRows
  <1>1. CASE \E b \in Batch : goods[o][b] = "CONSUMED"
    BY <1>1 DEF GoodsOf, In, OfRows
  <1>2. CASE /\ ~\E b \in Batch : goods[o][b] = "CONSUMED"
             /\ \E b \in Batch : goods[o][b] = "ACTIVE"
    BY <1>2 DEF GoodsOf, In, OfRows
  <1>3. CASE /\ ~\E b \in Batch : goods[o][b] = "CONSUMED"
             /\ ~\E b \in Batch : goods[o][b] = "ACTIVE"
    BY <1>3 DEF GoodsOf, In, OfRows
  <1>. QED  BY <1>1, <1>2, <1>3

LEMMA GoodsOfFacts == ToldByRows /\ ToldByRows'
  BY GoodsTold, PTL

LEMMA OfRowsFacts ==
  ASSUME NEW g \in [Batch -> Goods]
  PROVE  /\ OfRows(g) \in Goods
         /\ (\E b \in Batch : g[b] # "NONE") => OfRows(g) \in {"ACTIVE", "RELEASED", "CONSUMED"}
  BY DEF OfRows, Goods

\* A step that changes neither goods nor payments is not seen.
LEMMA UnseenStep ==
  ASSUME UNCHANGED <<goods, payStatus>>, Confirmed' = Confirmed
  PROVE  UNCHANGED Promise!vars
  <1>1. Shelf' = Shelf /\ Paid' = Paid
    BY DEF Shelf, Paid, GoodsOf, In
  <1>. QED  BY <1>1, Unseen

\* Money becomes confirmed for at most one order at a time.
LEMMA ConfirmedFacts ==
  ASSUME UNCHANGED attOrder, UNCHANGED authority,
         \A a \in Attempt : authority[a] # None =>
             (session'[authority[a]] = "captured" <=> session[authority[a]] = "captured")
  PROVE  Confirmed' = Confirmed
  BY DEF Confirmed, Captured

\* The goods of one order change.
LEMMA ShelfSeen ==
  ASSUME TypeOK, TypeOK', NEW o \in Order, UNCHANGED <<payStatus, attOrder, authority, session>>,
         \A p \in Order : p # o => goods'[p] = goods[p],
         NEW before, NEW after, before = OfRows(goods[o]), after = OfRows(goods'[o]),
         \/ after = before
         \/ before \in {"NONE", "RELEASED"} /\ after = "ACTIVE"
         \/ before = "ACTIVE" /\ after = "RELEASED"
         \/ before \in {"ACTIVE", "RELEASED"} /\ after = "CONSUMED" /\ payStatus[o] = "PAID"
  PROVE  [Promise!Next]_(Promise!vars)
  <1>1. /\ Shelf = [p \in Order |-> OfRows(goods[p])]
        /\ Shelf' = [p \in Order |-> OfRows(goods'[p])]
    BY GoodsOfFacts DEF Shelf, ToldByRows
  <1>2. Shelf[o] = before /\ Shelf' = [Shelf EXCEPT ![o] = after]
    BY <1>1
  <1>3. Paid' = Paid /\ Confirmed' = Confirmed
    BY ConfirmedFacts DEF Paid
  <1>4. CASE after = before
    <2>1. Shelf' = Shelf
      BY <1>1, <1>2, <1>4
    <2>. QED  BY <1>3, <2>1, Unseen
  <1>5. CASE before \in {"NONE", "RELEASED"} /\ after = "ACTIVE"
    <2>1. Promise!SetAside(o)
      BY <1>2, <1>3, <1>5 DEF Promise!SetAside, Shelf, Confirmed, Paid
    <2>. QED  BY <2>1 DEF Promise!Next
  <1>6. CASE before = "ACTIVE" /\ after = "RELEASED"
    <2>1. Promise!GiveBack(o)
      BY <1>2, <1>3, <1>6 DEF Promise!GiveBack, Shelf, Confirmed, Paid
    <2>. QED  BY <2>1 DEF Promise!Next
  <1>7. CASE before \in {"ACTIVE", "RELEASED"} /\ after = "CONSUMED" /\ payStatus[o] = "PAID"
    <2>1. Promise!Sell(o)
      BY <1>2, <1>3, <1>7 DEF Promise!Sell, Shelf, Confirmed, Paid
    <2>. QED  BY <2>1 DEF Promise!Next
  <1>. QED  BY <1>4, <1>5, <1>6, <1>7

\* Placing sets aside, and so may an edit; a cancellation gives back.
LEMMA PlaceSeen ==
  ASSUME Inv, Inv', NEW h \in Handler, NEW o \in Order, Place(h, o), UNCHANGED onlineVars
  PROVE  [Promise!Next]_(Promise!vars)
  <1>1. /\ TypeOK /\ TypeOK' /\ Orders
        /\ UNCHANGED <<payStatus, attOrder, authority, session>>
    BY DEF Inv, Place, onlineVars
  <1>2. /\ \A p \in Order : p # o => goods'[p] = goods[p]
        /\ \A b \in Batch : goods[o][b] = "NONE"
        /\ \A b \in Batch : goods'[o][b] = IF b = 0 THEN "ACTIVE" ELSE "NONE"
    BY <1>1, BatchFacts DEF Place, Orders, TypeOK, PaymentTypeOK
  <1>3. OfRows(goods[o]) = "NONE" /\ OfRows(goods'[o]) = "ACTIVE"
    BY <1>2, BatchFacts DEF OfRows
  <1>. QED  BY <1>1, <1>2, <1>3, ShelfSeen

LEMMA CancelSeen ==
  ASSUME Inv, Inv', NEW h \in Handler, CancelWrite(h), UNCHANGED onlineVars
  PROVE  [Promise!Next]_(Promise!vars)
  <1>1. /\ TypeOK /\ TypeOK'
        /\ UNCHANGED <<payStatus, attOrder, authority, session>>
    BY DEF Inv, CancelWrite, onlineVars
  <1>2. PICK o \in Order : o = ord[h]
    BY DEF Inv, Knows, CancelWrite, Ordering
  <1>3. /\ \A p \in Order : p # o => goods'[p] = goods[p]
        /\ \A b \in Batch : goods'[o][b] = IF goods[o][b] = "ACTIVE" THEN "RELEASED" ELSE goods[o][b]
    BY <1>1, <1>2 DEF CancelWrite, Release, Turn, In, TypeOK, PaymentTypeOK
  <1>4. OfRows(goods'[o]) = IF OfRows(goods[o]) = "ACTIVE" THEN "RELEASED" ELSE OfRows(goods[o])
    BY <1>3 DEF OfRows
  <1>. QED  BY <1>1, <1>3, <1>4, ShelfSeen

LEMMA EditSeen ==
  ASSUME Inv, Inv', NEW h \in Handler, EditWrite(h), UNCHANGED onlineVars
  PROVE  [Promise!Next]_(Promise!vars)
  <1>1. /\ TypeOK /\ TypeOK' /\ Orders
        /\ UNCHANGED <<payStatus, attOrder, authority, session>>
    BY DEF Inv, EditWrite, onlineVars
  <1>2. PICK o \in Order : o = ord[h] /\ status[o] # "NONE"
    BY DEF Inv, Knows, EditWrite, Ordering
  <1>3. CASE UNCHANGED goods
    <2>1. Confirmed' = Confirmed
      BY <1>1, ConfirmedFacts
    <2>. QED  BY <1>1, <1>3, <2>1, UnseenStep
  <1>4. ASSUME NEW b \in Batch, goods[o][b] = "NONE",
               goods' = [goods EXCEPT ![o] =
                   [c \in Batch |-> IF c = b THEN "ACTIVE"
                                    ELSE IF @[c] = "ACTIVE" THEN "RELEASED" ELSE @[c]]]
        PROVE  [Promise!Next]_(Promise!vars)
    <2>1. /\ \A p \in Order : p # o => goods'[p] = goods[p]
          /\ \A c \in Batch : goods'[o][c] =
               IF c = b THEN "ACTIVE"
               ELSE IF goods[o][c] = "ACTIVE" THEN "RELEASED" ELSE goods[o][c]
      BY <1>1, <1>4 DEF TypeOK, PaymentTypeOK
    <2>2. goods[o] \in [Batch -> Goods] /\ goods[o][0] # "NONE"
      BY <1>1, <1>2 DEF Orders, TypeOK, PaymentTypeOK
    <2>3. OfRows(goods[o]) \in {"ACTIVE", "RELEASED", "CONSUMED"}
      BY <2>2, BatchFacts, OfRowsFacts
    <2>4. OfRows(goods'[o]) = IF OfRows(goods[o]) = "CONSUMED" THEN "CONSUMED" ELSE "ACTIVE"
      BY <1>4, <2>1 DEF OfRows
    <2>. QED  BY <1>1, <2>1, <2>3, <2>4, ShelfSeen
  <1>. QED  BY <1>2, <1>3, <1>4 DEF EditWrite

\* A consumption sells.
LEMMA ConsumeSeen ==
  ASSUME Inv, Inv', NEW h \in Handler, Consume(h), UNCHANGED onlineVars
  PROVE  [Promise!Next]_(Promise!vars)
  <1>1. /\ TypeOK /\ TypeOK' /\ Attempts /\ Knows(h) /\ pc[h] = "consume"
        /\ UNCHANGED <<payStatus, attOrder, authority, session>>
    BY DEF Inv, Consume, onlineVars
  <1>2. PICK o \in Order : /\ o = attOrder[work[h]] /\ payStatus[o] = "PAID"
                           /\ rows[h] \in SUBSET Batch /\ rows[h] # {}
                           /\ \A b \in rows[h] : goods[o][b] # "NONE"
    BY <1>1, AttemptFacts, LabelFacts DEF Knows, Attempts, Finalizing, Paying
  <1>3. CASE UNCHANGED goods
    <2>1. Confirmed' = Confirmed
      BY <1>1, ConfirmedFacts
    <2>. QED  BY <1>1, <1>3, <2>1, UnseenStep
  <1>4. CASE ConsumeRows(h)
    <2>1. /\ \A p \in Order : p # o => goods'[p] = goods[p]
          /\ \A b \in Batch : goods'[o][b] = IF b \in rows[h] THEN "CONSUMED" ELSE goods[o][b]
      BY <1>1, <1>2, <1>4 DEF ConsumeRows, Turn, TypeOK, PaymentTypeOK
    <2>2. OfRows(goods'[o]) = "CONSUMED"
      BY <1>2, <2>1 DEF OfRows
    <2>3. goods[o] \in [Batch -> Goods]
      BY <1>1 DEF TypeOK, PaymentTypeOK
    <2>4. OfRows(goods[o]) \in {"ACTIVE", "RELEASED", "CONSUMED"}
      BY <1>2, <2>3, OfRowsFacts
    <2>. QED  BY <1>1, <1>2, <2>1, <2>2, <2>4, ShelfSeen
  <1>. QED  BY <1>3, <1>4 DEF Consume

\* The order becomes paid: the session of its attempt was captured.
LEMMA MarkPaidSeen ==
  ASSUME Inv, NEW h \in Handler, MarkPaid(h), UNCHANGED onlineVars
  PROVE  [Promise!Next]_(Promise!vars)
  <1>1. /\ TypeOK /\ Attempts /\ Knows(h) /\ pc[h] = "settle"
        /\ UNCHANGED <<goods, attOrder, authority, session>>
    BY DEF Inv, MarkPaid, onlineVars
  <1>2. PICK o \in Order : o = attOrder[work[h]] /\ work[h] \in Attempt /\ Captured(work[h])
    BY <1>1, AttemptFacts DEF Knows, Attempts, Finalizing, Captured
  <1>3. payStatus' = [payStatus EXCEPT ![o] = "PAID"] /\ payStatus \in [Order -> {"PENDING", "PAID"}]
    BY <1>1, <1>2 DEF MarkPaid, TypeOK, PaymentTypeOK
  <1>4. Paid' = Paid \union {o} /\ o \in Confirmed
    BY <1>2, <1>3 DEF Paid, Confirmed
  <1>5. Shelf' = Shelf /\ Confirmed' = Confirmed
    BY <1>1, ConfirmedFacts DEF Shelf, GoodsOf, In
  <1>6. Promise!Pay(o)
    BY <1>4, <1>5 DEF Promise!Pay, Paid, Shelf, Confirmed
  <1>. QED  BY <1>6 DEF Promise!Next

\* A capture confirms the order of the one attempt that has the authority.
LEMMA PaySeen ==
  ASSUME Inv, NEW x \in Authority, Pay(x)
  PROVE  [Promise!Next]_(Promise!vars)
  <1>1. /\ TypeOK /\ Orders /\ Attempts /\ AuthorityUnique /\ session[x] = "open"
        /\ UNCHANGED <<goods, payStatus, attOrder, authority>>
        /\ \A y \in Authority : y # x => session'[y] = session[y]
    BY DEF Inv, Pay, paymentVars, orderVars, TypeOK
  <1>2. Shelf' = Shelf /\ Paid' = Paid
    BY <1>1 DEF Shelf, Paid, GoodsOf, In
  <1>3. CASE Confirmed' = Confirmed
    BY <1>1, <1>3, UnseenStep
  <1>4. ASSUME NEW a \in Attempt, authority[a] = x, authority[a] # None, Confirmed' # Confirmed
        PROVE  [Promise!Next]_(Promise!vars)
    <2>1. PICK o \in Order : o = attOrder[a] /\ goods[o][0] # "NONE"
      BY <1>1, <1>4, AttemptFacts DEF Orders, Attempts
    <2>2. /\ ~Captured(a)
          /\ \A b \in Attempt : b # a =>
               (authority'[b] # None /\ session'[authority'[b]] = "captured" <=> Captured(b))
      BY <1>1, <1>4 DEF Captured, AuthorityUnique, TypeOK
    <2>3. Confirmed' \subseteq Confirmed \union {o} /\ Confirmed \subseteq Confirmed'
      BY <1>1, <1>4, <2>1, <2>2 DEF Confirmed, Captured
    <2>4. Confirmed' = Confirmed \union {o}
      BY <1>4, <2>3
    <2>5. goods[o] \in [Batch -> Goods]
      BY <1>1 DEF TypeOK, PaymentTypeOK
    <2>6. OfRows(goods[o]) # "NONE"
      BY <2>1, <2>5, BatchFacts, OfRowsFacts
    <2>7. Shelf[o] # "NONE"
      BY <2>6, GoodsTold DEF Shelf, ToldByRows
    <2>8. Promise!Confirm(o)
      BY <1>2, <2>4, <2>7 DEF Promise!Confirm, Shelf, Confirmed, Paid
    <2>. QED  BY <2>8 DEF Promise!Next
  <1>5. CASE \A a \in Attempt : authority[a] # None => authority[a] # x
    <2>1. \A a \in Attempt : authority[a] # None => session'[authority[a]] = session[authority[a]]
      BY <1>1, <1>5 DEF TypeOK
    <2>2. Confirmed' = Confirmed
      BY <1>1, <2>1, ConfirmedFacts
    <2>. QED  BY <1>1, <2>2, UnseenStep
  <1>. QED  BY <1>3, <1>4, <1>5

\* Clicks, sessions and authorities confirm nothing.
LEMMA SessionUnseen ==
  ASSUME Inv, NEW h \in Handler,
         Create(h) \/ RequestAgain(h) \/ Request(h) \/ StoreAuthority(h)
  PROVE  UNCHANGED Promise!vars
  <1>1. /\ TypeOK /\ Attempts /\ Knows(h) /\ UNCHANGED <<goods, payStatus>>
    BY DEF Inv, Create, RequestAgain, Request, StoreAuthority, orderVars
  <1>2. CASE Create(h)
    <2>1. /\ authority' = authority /\ session' = session
          /\ \A a \in Attempt : attOrder'[a] # attOrder[a] => authority[a] = None
      BY <1>1, <1>2 DEF Create, onlineVars, Attempts, TypeOK, PaymentTypeOK
    <2>2. Confirmed' = Confirmed
      BY <2>1 DEF Confirmed, Captured
    <2>. QED  BY <1>1, <2>2, UnseenStep
  <1>3. CASE RequestAgain(h) \/ Request(h)
    <2>1. /\ authority' = authority /\ attOrder' = attOrder
          /\ \A x \in Authority : session'[x] = "captured" <=> session[x] = "captured"
      BY <1>1, <1>3 DEF RequestAgain, Request, TypeOK
    <2>2. \A a \in Attempt : authority[a] # None => authority[a] \in Authority
      BY <1>1 DEF TypeOK
    <2>3. Confirmed' = Confirmed
      BY <2>1, <2>2, ConfirmedFacts
    <2>. QED  BY <1>1, <2>3, UnseenStep
  <1>4. CASE StoreAuthority(h)
    <2>1. PICK a \in Attempt : a = work[h] /\ authority[a] = None
      BY <1>1, <1>4 DEF StoreAuthority, Knows, Starting, Requesting
    <2>2. PICK x \in Authority : x = issued[h] /\ session[x] = "issued"
      BY <1>1, <1>4 DEF StoreAuthority, Knows, TypeOK
    <2>3. /\ attOrder' = attOrder
          /\ \A b \in Attempt : authority'[b] = IF b = a THEN x ELSE authority[b]
          /\ \A y \in Authority : session'[y] = IF y = x THEN "open" ELSE session[y]
      BY <1>1, <1>4, <2>1, <2>2 DEF StoreAuthority, TypeOK
    <2>4. \A b \in Attempt : authority[b] # None => authority[b] \in Authority
      BY <1>1 DEF TypeOK
    <2>5. \A b \in Attempt : Captured(b) <=> authority'[b] # None /\ session'[authority'[b]] = "captured"
      BY <2>1, <2>2, <2>3, <2>4 DEF Captured
    <2>6. Confirmed' = Confirmed
      BY <2>3, <2>5 DEF Confirmed, Captured
    <2>. QED  BY <1>1, <2>6, UnseenStep
  <1>. QED  BY <1>2, <1>3, <1>4

\* Every other step of a handler leaves all that Purchase sees alone.
LEMMA QuietUnseen ==
  ASSUME UNCHANGED <<goods, payStatus, attOrder, authority, session>>
  PROVE  UNCHANGED Promise!vars
  <1>1. Confirmed' = Confirmed
    BY ConfirmedFacts
  <1>. QED  BY <1>1, UnseenStep

LEMMA OrderSeen ==
  ASSUME Inv, Inv', NEW h \in Handler, OrderStep(h) \/ OrderRequest(h), UNCHANGED onlineVars
  PROVE  [Promise!Next]_(Promise!vars)
  <1>1. UNCHANGED <<authority, session>>
    BY DEF onlineVars
  <1>2. CASE \/ PublishCreated(h) \/ PublishEdited(h) \/ ReadReservation(h)
             \/ PostSaleJournal(h) \/ RecordPaid(h) \/ PublishPaid(h)
             \/ \E o \in Order : CancelCheck(h, o) \/ EditCheck(h, o)
    <2>1. UNCHANGED <<goods, payStatus, attOrder>>
      BY <1>2 DEF PublishCreated, PublishEdited, ReadReservation, PostSaleJournal, RecordPaid,
         PublishPaid, CancelCheck, EditCheck, orderVars
    <2>. QED  BY <1>1, <2>1, QuietUnseen
  <1>3. CASE \E o \in Order : Place(h, o)
    BY <1>3, PlaceSeen
  <1>4. CASE CancelWrite(h) \/ EditWrite(h)
    BY <1>4, CancelSeen, EditSeen
  <1>5. CASE MarkPaid(h) \/ Consume(h)
    BY <1>5, MarkPaidSeen, ConsumeSeen
  <1>. QED  BY <1>2, <1>3, <1>4, <1>5 DEF OrderStep, OrderRequest

LEMMA PromiseInit == Init => Promise!Init
  <1>. SUFFICES ASSUME Init PROVE Promise!Init
    OBVIOUS
  <1>1. \A o \in Order : GoodsOf(o) = "NONE"
    BY GoodsTold DEF Init, PaymentInit, ToldByRows, OfRows
  <1>2. {o \in Order : payStatus[o] = "PAID"} = {}
    BY DEF Init, PaymentInit
  <1>3. {o \in Order : \E a \in Attempt : attOrder[a] = o /\ Captured(a)} = {}
    BY DEF Init, PaymentInit, Captured
  <1>. QED  BY <1>1, <1>2, <1>3 DEF Promise!Init

LEMMA PromiseStep == Inv /\ Inv' /\ [Next]_vars => [Promise!Next]_(Promise!vars)
  <1>. SUFFICES ASSUME Inv, Inv', [Next]_vars PROVE [Promise!Next]_(Promise!vars)
    OBVIOUS
  <1>1. ASSUME NEW h \in Handler, OrderStep(h) \/ OrderRequest(h), UNCHANGED onlineVars
        PROVE  [Promise!Next]_(Promise!vars)
    BY <1>1, OrderSeen
  <1>2. ASSUME NEW h \in Handler,
               Create(h) \/ RequestAgain(h) \/ Request(h) \/ StoreAuthority(h)
        PROVE  [Promise!Next]_(Promise!vars)
    BY <1>2, SessionUnseen
  <1>3. ASSUME NEW h \in Handler,
               \/ \E o \in Order, a \in Attempt : Start(h, o, a)
               \/ \E a \in Attempt : Callback(h, a) \/ Verify(h, a)
               \/ Poll(h) \/ Unrequested(h) \/ Redirect(h) \/ StoreFails(h)
               \/ WriteCallback(h) \/ Recheck(h) \/ ReadAttempt(h) \/ Expire(h)
               \/ MarkVerifying(h) \/ AskGateway(h) \/ Refuse(h)
               \/ NoReceivable(h) \/ Answer(h) \/ Die(h)
        PROVE  [Promise!Next]_(Promise!vars)
    <2>1. UNCHANGED <<goods, payStatus, attOrder, authority, session>>
      BY <1>3 DEF Start, Callback, Verify, Poll, Unrequested, Redirect, StoreFails,
         WriteCallback, Recheck, ReadAttempt, Expire, MarkVerifying, AskGateway, Refuse,
         NoReceivable, Answer, Die, Crash, orderVars, onlineVars
    <2>. QED  BY <2>1, QuietUnseen
  <1>4. ASSUME NEW x \in Authority, Pay(x)
        PROVE  [Promise!Next]_(Promise!vars)
    BY <1>4, PaySeen
  <1>5. ASSUME NEW a \in Attempt, Overdue(a)
        PROVE  [Promise!Next]_(Promise!vars)
    BY <1>5, QuietUnseen DEF Overdue, paymentVars, orderVars
  <1>6. CASE UNCHANGED vars
    BY <1>6, QuietUnseen DEF vars, paymentVars, orderVars, onlineVars
  <1>. QED  BY <1>1, <1>2, <1>3, <1>4, <1>5, <1>6 DEF Next, Step

\* KeepsPromise: paying through a gateway implements what the shop promises.
THEOREM PromiseKept == Spec => KeepsPromise
  BY PromiseInit, PromiseStep, Invariant, PTL DEF Spec, KeepsPromise, Promise!Spec

-----------------------------------------------------------------------------
(* Nothing paid or sold is taken back *)

\* Goods that were never consumed turn.
LEMMA TurnStays ==
  ASSUME NEW o \in Order, UNCHANGED payStatus, PaymentTypeOK,
         NEW to, goods' = [goods EXCEPT ![o] = to],
         \A b \in Batch : goods[o][b] = "CONSUMED" => to[b] = "CONSUMED"
  PROVE  PaidStays
  BY DEF PaidStays, In, PaymentTypeOK

LEMMA SameStays == UNCHANGED <<payStatus, goods>> => PaidStays
  BY DEF PaidStays, In

LEMMA OrderStepStays ==
  ASSUME Inv, NEW h \in Handler, OrderStep(h)
  PROVE  PaidStays
  <1>1. PaymentTypeOK
    BY DEF Inv, TypeOK
  <1>2. CASE CancelWrite(h)
    <2>1. PICK o \in Order : o = ord[h]
      BY <1>2 DEF CancelWrite, Inv, Knows, Ordering
    <2>. DEFINE to == [b \in Batch |-> IF b \in In(o, "ACTIVE") THEN "RELEASED" ELSE goods[o][b]]
    <2>2. goods' = [goods EXCEPT ![o] = to] /\ UNCHANGED payStatus
      BY <1>1, <1>2, <2>1 DEF CancelWrite, Release, Turn, PaymentTypeOK
    <2>3. \A b \in Batch : goods[o][b] = "CONSUMED" => to[b] = "CONSUMED"
      BY DEF In
    <2>. QED  BY <1>1, <2>2, <2>3, TurnStays
  <1>3. CASE EditWrite(h)
    <2>1. PICK o \in Order : o = ord[h]
      BY <1>3 DEF EditWrite, Inv, Knows, Ordering
    <2>2. UNCHANGED payStatus
      BY <1>3 DEF EditWrite
    <2>3. ASSUME NEW b \in Batch, goods[o][b] = "NONE",
                 goods' = [goods EXCEPT ![o] =
                     [c \in Batch |-> IF c = b THEN "ACTIVE"
                                      ELSE IF @[c] = "ACTIVE" THEN "RELEASED" ELSE @[c]]]
          PROVE  PaidStays
      <3>. DEFINE to == [c \in Batch |-> IF c = b THEN "ACTIVE"
                                        ELSE IF goods[o][c] = "ACTIVE" THEN "RELEASED" ELSE goods[o][c]]
      <3>1. goods' = [goods EXCEPT ![o] = to]
        BY <1>1, <2>3 DEF PaymentTypeOK
      <3>2. \A c \in Batch : goods[o][c] = "CONSUMED" => to[c] = "CONSUMED"
        BY <2>3
      <3>. QED  BY <1>1, <2>2, <3>1, <3>2, TurnStays
    <2>. QED  BY <1>3, <2>1, <2>2, <2>3, SameStays DEF EditWrite
  <1>4. CASE MarkPaid(h)
    BY <1>1, <1>4 DEF MarkPaid, PaidStays, In, PaymentTypeOK
  <1>5. CASE Consume(h)
    <2>1. PICK o \in Order : o = attOrder[work[h]]
      BY <1>5, AttemptFacts, OnlinePaymentAssumption DEF Consume, Inv, Knows, TypeOK, PaymentTypeOK, Finalizing, Paying
    <2>. DEFINE to == [b \in Batch |-> IF b \in rows[h] THEN "CONSUMED" ELSE goods[o][b]]
    <2>2. UNCHANGED payStatus /\ (UNCHANGED goods \/ goods' = [goods EXCEPT ![o] = to])
      BY <1>1, <1>5, <2>1 DEF Consume, ConsumeRows, Turn, PaymentTypeOK
    <2>3. \A b \in Batch : goods[o][b] = "CONSUMED" => to[b] = "CONSUMED"
      OBVIOUS
    <2>. QED  BY <1>1, <2>2, <2>3, TurnStays, SameStays
  <1>6. CASE \/ PublishCreated(h) \/ PublishEdited(h) \/ ReadReservation(h)
             \/ PostSaleJournal(h) \/ RecordPaid(h) \/ PublishPaid(h)
    BY <1>6, SameStays DEF PublishCreated, PublishEdited, ReadReservation, PostSaleJournal,
       RecordPaid, PublishPaid, orderVars
  <1>. QED  BY <1>2, <1>3, <1>4, <1>5, <1>6 DEF OrderStep

LEMMA OrderRequestStays ==
  ASSUME Inv, NEW h \in Handler, OrderRequest(h)
  PROVE  PaidStays
  <1>1. PaymentTypeOK /\ Orders
    BY DEF Inv, TypeOK
  <1>2. PICK o \in Order : Place(h, o) \/ CancelCheck(h, o) \/ EditCheck(h, o)
    BY DEF OrderRequest
  <1>3. CASE Place(h, o)
    <2>1. \A b \in Batch : goods[o][b] = "NONE"
      BY <1>1, <1>3 DEF Place, Orders
    <2>2. PICK to : goods' = [goods EXCEPT ![o] = to]
      BY <1>3 DEF Place
    <2>. QED  BY <1>1, <1>3, <2>1, <2>2, TurnStays DEF Place
  <1>. QED  BY <1>2, <1>3, SameStays DEF CancelCheck, EditCheck, orderVars

LEMMA OnlineStays == Inv /\ [Next]_vars => PaidStays
  <1>. SUFFICES ASSUME Inv, [Next]_vars PROVE PaidStays
    OBVIOUS
  <1>1. ASSUME NEW h \in Handler,
               \/ \E o \in Order, a \in Attempt : Start(h, o, a)
               \/ \E a \in Attempt : Callback(h, a) \/ Verify(h, a)
               \/ Create(h) \/ Poll(h) \/ RequestAgain(h) \/ Request(h) \/ Unrequested(h)
               \/ Redirect(h) \/ StoreAuthority(h) \/ StoreFails(h)
               \/ WriteCallback(h) \/ Recheck(h) \/ ReadAttempt(h) \/ Expire(h)
               \/ MarkVerifying(h) \/ AskGateway(h) \/ Refuse(h)
               \/ NoReceivable(h) \/ Answer(h) \/ Die(h)
        PROVE  PaidStays
    <2>1. UNCHANGED <<payStatus, goods>>
      BY <1>1 DEF Start, Callback, Verify, Create, Poll, RequestAgain, Request, Unrequested,
         Redirect, StoreAuthority, StoreFails, WriteCallback, Recheck, ReadAttempt, Expire,
         MarkVerifying, AskGateway, Refuse, NoReceivable, Answer, Die, Crash, orderVars
    <2>. QED  BY <2>1, SameStays
  <1>2. CASE (\E x \in Authority : Pay(x)) \/ (\E a \in Attempt : Overdue(a)) \/ UNCHANGED vars
    <2>1. UNCHANGED <<payStatus, goods>>
      BY <1>2 DEF Pay, Overdue, vars, paymentVars, orderVars
    <2>. QED  BY <2>1, SameStays
  <1>. QED  BY OrderStepStays, OrderRequestStays, <1>1, <1>2 DEF Next, Step

\* PaidStaysPaid: a paid order stays paid and goods once sold are not handed
\* back by a late cancellation or edit.
THEOREM OnlinePaidStaysPaid == Spec => PaidStaysPaid
  <1>1. Inv /\ [Next]_vars => [PaidStays]_orderVars
    BY OnlineStays
  <1>2. Spec => [][PaidStays]_orderVars
    BY <1>1, Invariant, PTL DEF Spec
  <1>. QED  BY <1>2 DEF PaidStaysPaid, PaidStays
=============================================================================
