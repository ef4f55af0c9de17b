---------------------------- MODULE Iap_proofs ----------------------------
(***************************************************************************)
(* The safety of the purchase path, for every number of tries and mishaps: *)
(* Inv is inductive, and gives PaidFor, BusyIsPending and PurchaseKept.    *)
(* What PaidFor lacks to be inductive is where a payment can be on its way *)
(* to the save: Backed says that each such place holds only what the       *)
(* account has.  UnlockedForGood needs InStep: a save writes what is saved *)
(* already.  At the end: who may lose a payment, and that no request is    *)
(* left without an answer under way.                                       *)
(***************************************************************************)
EXTENDS Iap, TLAPS

Backed ==
  /\ Queued("purchased") => store.bought
  /\ Queued("restored") => store.bought
  /\ restored => store.bought
  /\ store.paid > 0 => store.bought
  /\ store.found > 0 => store.bought

(* While the program runs, memory and save file agree. *)
InStep == scene # "off" => premium = saved

Inv == TypeOK /\ PaidFor /\ Backed /\ BusyIsPending /\ PurchaseKept /\ InStep

(* What bt_push and bt_iap_poll do to the queue. *)
LEMMA PushLemma ==
  ASSUME NEW q \in Seq(Event), NEW e \in Event
  PROVE  /\ Append(q, e) \in Seq(Event)
         /\ \A f : (\E i \in DOMAIN Append(q, e) : Append(q, e)[i] = f)
                     <=> (f = e \/ \E i \in DOMAIN q : q[i] = f)
<1>1. Append(q, e) \in Seq(Event)
  OBVIOUS
<1>2. ASSUME NEW f, f = e \/ \E i \in DOMAIN q : q[i] = f
      PROVE  \E i \in DOMAIN Append(q, e) : Append(q, e)[i] = f
  <2>1. CASE f = e
    <3>1. Len(q) + 1 \in DOMAIN Append(q, e) /\ Append(q, e)[Len(q) + 1] = f
      BY <2>1
    <3> QED BY <3>1
  <2>2. CASE \E i \in DOMAIN q : q[i] = f
    <3>1. PICK i \in DOMAIN q : q[i] = f
      BY <2>2
    <3>2. i \in DOMAIN Append(q, e) /\ Append(q, e)[i] = f
      BY <3>1
    <3> QED BY <3>2
  <2> QED BY <1>2, <2>1, <2>2
<1>3. ASSUME NEW f, \E i \in DOMAIN Append(q, e) : Append(q, e)[i] = f
      PROVE  f = e \/ \E i \in DOMAIN q : q[i] = f
  <2>1. PICK i \in DOMAIN Append(q, e) : Append(q, e)[i] = f
    BY <1>3
  <2>2. i \in 1 .. Len(q) \/ i = Len(q) + 1
    BY <2>1
  <2>3. CASE i = Len(q) + 1
    BY <2>1, <2>3
  <2>4. CASE i \in 1 .. Len(q)
    <3>1. i \in DOMAIN q /\ q[i] = f
      BY <2>1, <2>4
    <3> QED BY <3>1
  <2> QED BY <2>2, <2>3, <2>4
<1> QED BY <1>1, <1>2, <1>3

LEMMA PollLemma ==
  ASSUME NEW q \in Seq(Event), q # <<>>
  PROVE  /\ Head(q) \in Event
         /\ Tail(q) \in Seq(Event)
         /\ \A f : (\E i \in DOMAIN q : q[i] = f)
                     <=> (f = Head(q) \/ \E i \in DOMAIN Tail(q) : Tail(q)[i] = f)
<1>1. Head(q) \in Event /\ Tail(q) \in Seq(Event) /\ Len(q) \in Nat \ {0}
  OBVIOUS
<1>2. 1 \in DOMAIN q /\ q[1] = Head(q)
  BY <1>1
<1>3. \A i \in DOMAIN Tail(q) : i + 1 \in DOMAIN q /\ Tail(q)[i] = q[i + 1]
  BY <1>1
<1>4. \A i \in DOMAIN q : i # 1 => i - 1 \in DOMAIN Tail(q) /\ Tail(q)[i - 1] = q[i]
  BY <1>1
<1>5. ASSUME NEW f, \E i \in DOMAIN q : q[i] = f
      PROVE  f = Head(q) \/ \E i \in DOMAIN Tail(q) : Tail(q)[i] = f
  BY <1>2, <1>4, <1>5
<1>6. ASSUME NEW f, f = Head(q) \/ \E i \in DOMAIN Tail(q) : Tail(q)[i] = f
      PROVE  \E i \in DOMAIN q : q[i] = f
  BY <1>2, <1>3, <1>6
<1> QED BY <1>1, <1>5, <1>6

(* The same said of the queue of the model. *)
LEMMA QueuePush ==
  ASSUME events \in Seq(Event), NEW e \in Event, Push(e)
  PROVE  \A f : Queued(f)' <=> (f = e \/ Queued(f))
BY PushLemma DEF Push, Queued

LEMMA QueuePoll ==
  ASSUME events \in Seq(Event), events # <<>>, events' = Tail(events)
  PROVE  Head(events) \in Event /\ \A f : Queued(f) <=> (f = Head(events) \/ Queued(f)')
BY PollLemma DEF Queued

LEMMA QueueSame ==
  ASSUME UNCHANGED events PROVE \A f : Queued(f)' <=> Queued(f)
BY DEF Queued

-----------------------------------------------------------------------------
(* The types. *)
Stored ==
  [bought : BOOLEAN, asked : Nat, paid : Nat, declined : Nat, restores : Nat,
   found : Nat, owed : BOOLEAN]

LEMMA MishapType ==
  ASSUME mishaps \in 0 .. MaxMishaps, Mishap PROVE mishaps' \in 0 .. MaxMishaps
BY BoundAssumption DEF Mishap

LEMMA StepType == TypeOK /\ [Next]_ivars => TypeOK'
<1> SUFFICES ASSUME TypeOK, [Next]_ivars PROVE TypeOK'
  OBVIOUS
<1>1. Start => TypeOK'
  BY DEF TypeOK, Start
<1>8. ASSUME Ends, saved' \in BOOLEAN PROVE TypeOK'
  <2>1. 0 \in 0 .. GateTries - 1 /\ mishaps' \in 0 .. MaxMishaps
    BY <1>8, GateAssumption, MishapType DEF TypeOK, Ends
  <2>2. <<>> \in Seq(Event)
    OBVIOUS
  <2>3. (store.owed /\ store.paid > 0) \in BOOLEAN
    OBVIOUS
  <2>4. store' \in Stored
    BY <1>8, <2>3 DEF TypeOK, Stored, Ends
  <2> QED BY <1>8, <2>1, <2>2, <2>4 DEF TypeOK, Stored, Ends
<1>2. Enter \/ Leave \/ OpenCard \/ CloseCard \/ OpenGate \/ CloseGate \/ AnswerWrong
        => TypeOK'
  BY GateAssumption DEF TypeOK, Enter, Leave, OpenCard, CloseCard, OpenGate, CloseGate,
     AnswerWrong, ShowOffer, lua
<1>3. StartBuy \/ StartRestore => TypeOK'
  <2>1. ASSUME StartBuy \/ StartRestore
        PROVE  /\ UNCHANGED <<scene, tries, premium, saved>>
               /\ offer' = "busy" /\ pending' = TRUE /\ restored' \in BOOLEAN
               /\ mishaps' \in 0 .. MaxMishaps
    BY <2>1, MishapType DEF TypeOK, StartBuy, StartRestore, Request
  <2>2. ASSUME StartBuy \/ StartRestore PROVE events' \in Seq(Event)
    BY <2>2, PushLemma DEF TypeOK, StartBuy, StartRestore, Push, Event
  <2>3. ASSUME StartBuy \/ StartRestore PROVE store' \in Stored
    BY <2>3 DEF TypeOK, Stored, StartBuy, StartRestore
  <2> QED BY <2>1, <2>2, <2>3 DEF TypeOK, Stored
<1>4. Update => TypeOK'
  BY PollLemma DEF TypeOK, Update, OnEvent, Settle
<1>5. ASSUME Pay \/ Decline PROVE TypeOK'
  <2>1. UNCHANGED <<scene, offer, tries, pending, restored, premium, saved, events>>
    BY <1>5 DEF Pay, Decline, ui, lua
  <2>2. store' \in Stored
    <3>1. store \in Stored /\ TRUE \in BOOLEAN
      BY DEF TypeOK, Stored
    <3>2. CASE Pay
      <4>1. store.asked - 1 \in Nat /\ store.paid + 1 \in Nat
        BY <3>1, <3>2 DEF Stored, Pay
      <4> QED BY <3>1, <3>2, <4>1 DEF Stored, Pay
    <3>3. CASE Decline
      <4>1. store.asked - 1 \in Nat /\ store.declined + 1 \in Nat
        BY <3>1, <3>3 DEF Stored, Decline
      <4> QED BY <3>1, <3>3, <4>1 DEF Stored, Decline
    <3> QED BY <1>5, <3>2, <3>3
  <2>3. mishaps' \in 0 .. MaxMishaps
    BY <1>5, MishapType DEF TypeOK, Pay, Decline
  <2> QED BY <2>1, <2>2, <2>3 DEF TypeOK, Stored
<1>6. ASSUME DeliverPaid \/ DeliverDeclined \/ DeliverRestored \/ RestoreFinished
               \/ RestoreFailed
      PROVE  TypeOK'
  <2>1. store' \in Stored
    <3>1. CASE DeliverPaid \/ DeliverDeclined
      BY <3>1 DEF TypeOK, Stored, DeliverPaid, DeliverDeclined
    <3>3. CASE DeliverRestored
      <4>1. store \in Stored /\ store.restores - 1 \in Nat /\ store.found + 1 \in Nat
        BY <3>3 DEF TypeOK, Stored, DeliverRestored
      <4> QED BY <3>3, <4>1 DEF Stored, DeliverRestored
    <3>2. CASE RestoreFinished \/ RestoreFailed
      BY <3>2 DEF TypeOK, Stored, RestoreFinished, RestoreFailed
    <3> QED BY <1>6, <3>1, <3>2, <3>3
  <2>3. mishaps' \in 0 .. MaxMishaps
    BY <1>6, MishapType DEF TypeOK, DeliverPaid, DeliverDeclined, DeliverRestored,
       RestoreFinished, RestoreFailed
  <2>4. UNCHANGED <<scene, offer, tries, pending, restored, premium, saved>>
    BY <1>6 DEF DeliverPaid, DeliverDeclined, DeliverRestored, RestoreFinished,
       RestoreFailed, Observe, ui, lua
  <2>2. events' \in Seq(Event)
    BY <1>6, PushLemma DEF TypeOK, Event, DeliverPaid, DeliverDeclined, DeliverRestored,
       RestoreFinished, RestoreFailed, Observe, Push
  <2> QED BY <2>1, <2>2, <2>3, <2>4 DEF TypeOK, Stored
<1>7. UNCHANGED ivars => TypeOK'
  BY DEF TypeOK, ivars
<1>9. Kill \/ Escape => TypeOK'
  BY <1>8 DEF TypeOK, Kill, Escape
<1> QED BY <1>1, <1>9, <1>2, <1>3, <1>4, <1>5, <1>6, <1>7
     DEF Next, Player, Store

-----------------------------------------------------------------------------
(* The rest of the invariant, an action at a time. *)
LEMMA InitInv == Init => Inv
<1> SUFFICES ASSUME Init PROVE Inv
  OBVIOUS
<1>1. TypeOK
  <2>1. 0 \in 0 .. GateTries - 1 /\ 0 \in 0 .. MaxMishaps /\ <<>> \in Seq(Event)
    BY GateAssumption, BoundAssumption
  <2>2. store \in Stored
    <3>1. PICK b \in BOOLEAN :
            store = [bought |-> b, asked |-> 0, paid |-> 0, declined |-> 0,
                     restores |-> 0, found |-> 0, owed |-> FALSE]
      BY DEF Init
    <3>2. FALSE \in BOOLEAN /\ 0 \in Nat
      OBVIOUS
    <3> QED BY <3>1, <3>2 DEF Stored
  <2> QED BY <2>1, <2>2 DEF Init, TypeOK, Stored
<1>2. \A e : ~Queued(e)
  BY DEF Init, Queued
<1>3. PaidFor /\ Backed /\ BusyIsPending /\ PurchaseKept /\ InStep
  BY <1>1, <1>2 DEF Init, PaidFor, Backed, BusyIsPending, PurchaseKept, InStep
<1> QED BY <1>1, <1>3 DEF Inv

Rest == PaidFor /\ Backed /\ BusyIsPending /\ PurchaseKept /\ InStep

LEMMA StepInv == Inv /\ [Next]_ivars => Inv'
<1> SUFFICES ASSUME Inv, [Next]_ivars PROVE Rest'
  BY StepType DEF Inv, Rest
<1> USE DEF PaidFor, Backed, BusyIsPending, PurchaseKept, InStep
<1>0. TypeOK /\ Rest
  BY DEF Inv, Rest
<1>1. CASE Start
  BY <1>0, <1>1, QueueSame DEF TypeOK, Rest, Start
<1>2. CASE Kill \/ Escape
  <2>1. \A f : ~Queued(f)'
    BY <1>2 DEF Kill, Escape, Ends, Queued
  <2>2. saved' => saved \/ premium
    BY <1>2 DEF Kill, Escape
  <2>3. /\ store'.bought = store.bought /\ store'.paid = store.paid /\ store'.found = 0
        /\ store'.owed => store.paid > 0
    BY <1>0, <1>2 DEF TypeOK, Kill, Escape, Ends
  <2>4. scene' = "off" /\ ~pending' /\ ~restored' /\ ~premium'
    BY <1>2 DEF Kill, Escape, Ends
  <2> QED BY <1>0, <2>1, <2>2, <2>3, <2>4 DEF Rest
<1>3. CASE Enter
  BY <1>0, <1>3, QueueSame DEF TypeOK, Rest, Enter, lua
<1>4. CASE Leave \/ OpenCard \/ CloseCard \/ OpenGate \/ CloseGate \/ AnswerWrong
  BY <1>0, <1>4, QueueSame DEF TypeOK, Rest, lua,
     Leave, OpenCard, CloseCard, OpenGate, CloseGate, AnswerWrong, ShowOffer
<1>5. CASE StartBuy
  <2>1. \A f : f # "failed" => (Queued(f)' <=> Queued(f))
    BY <1>0, <1>5, QueueSame, QueuePush DEF TypeOK, StartBuy, Event
  <2>2. /\ store'.bought = store.bought /\ store'.paid = store.paid
        /\ store'.found = store.found /\ store'.owed = store.owed
    BY <1>0, <1>5 DEF TypeOK, StartBuy
  <2> QED BY <1>0, <1>5, <2>1, <2>2 DEF TypeOK, Rest, StartBuy, Request
<1>6. CASE StartRestore
  <2>1. /\ store'.bought = store.bought /\ store'.paid = store.paid
        /\ store'.found = store.found /\ store'.owed = store.owed
    BY <1>0, <1>6 DEF TypeOK, StartRestore
  <2> QED BY <1>0, <1>6, <2>1, QueueSame DEF TypeOK, Rest, StartRestore, Request
<1>7. CASE Update
  <2>1. \A f : Queued(f) <=> (f = Head(events) \/ Queued(f)')
    BY <1>0, <1>7, QueuePoll DEF TypeOK, Update
  <2>2. /\ UNCHANGED <<scene, tries, store, mishaps>>
        /\ scene = "boats" /\ pending /\ OnEvent(Head(events))
    BY <1>7 DEF Update
  <2>3. CASE Head(events) = "restored"
    <3>1. restored' /\ UNCHANGED <<offer, pending, premium, saved>>
      BY <2>2, <2>3 DEF OnEvent
    <3>2. store.bought
      BY <1>0, <2>1, <2>3 DEF Rest
    <3>3. Queued("purchased")' <=> Queued("purchased")
      BY <2>1, <2>3
    <3> QED BY <1>0, <2>1, <2>2, <3>1, <3>2, <3>3 DEF Rest
  <2>4. CASE Head(events) # "restored"
    <3>1. Settle(Head(events) = "purchased" \/ (Head(events) = "restoredone" /\ restored))
          /\ UNCHANGED restored
      BY <2>2, <2>4 DEF OnEvent
    <3>2. CASE Head(events) = "purchased" \/ (Head(events) = "restoredone" /\ restored)
      BY <1>0, <2>1, <2>2, <3>1, <3>2 DEF TypeOK, Rest, Settle
    <3>3. CASE ~(Head(events) = "purchased" \/ (Head(events) = "restoredone" /\ restored))
      BY <1>0, <2>1, <2>2, <3>1, <3>3 DEF TypeOK, Rest, Settle
    <3> QED BY <3>2, <3>3
  <2> QED BY <2>3, <2>4
<1>8. CASE Pay \/ Decline
  <2>1. UNCHANGED <<scene, offer, pending, restored, premium, saved, events>>
    BY <1>8 DEF Pay, Decline, ui, lua
  <2>2. CASE Pay
    <3>1. store'.bought /\ store'.paid > 0
      BY <1>0, <2>2 DEF TypeOK, Pay
    <3> QED BY <1>0, <2>1, <3>1, QueueSame DEF Rest
  <2>3. CASE Decline
    <3>1. /\ store'.bought = store.bought /\ store'.paid = store.paid
          /\ store'.found = store.found /\ store'.owed = store.owed
      BY <1>0, <2>3 DEF TypeOK, Decline
    <3> QED BY <1>0, <2>1, <3>1, QueueSame DEF Rest
  <2> QED BY <1>8, <2>2, <2>3
<1>9. CASE DeliverPaid
  <2>1. \A f : Queued(f)' <=> (f = "purchased" \/ Queued(f))
    BY <1>0, <1>9, QueuePush DEF TypeOK, DeliverPaid, Observe, Event
  <2> QED BY <1>0, <1>9, <2>1 DEF TypeOK, Rest, DeliverPaid, Observe, ui, lua
<1>10. CASE DeliverDeclined
  <2>1. \A f : Queued(f)' <=> (f = "failed" \/ Queued(f))
    BY <1>0, <1>10, QueuePush DEF TypeOK, DeliverDeclined, Observe, Event
  <2> QED BY <1>0, <1>10, <2>1 DEF TypeOK, Rest, DeliverDeclined, Observe, ui, lua
<1>11. CASE DeliverRestored
  <2>1. \A f : Queued(f)' <=> (f = "restored" \/ Queued(f))
    BY <1>0, <1>11, QueuePush DEF TypeOK, DeliverRestored, Observe, Event
  <2> QED BY <1>0, <1>11, <2>1 DEF TypeOK, Rest, DeliverRestored, Observe, ui, lua
<1>12. CASE RestoreFinished \/ RestoreFailed
  <2>1. \A f : f \notin {"restoredone", "restorefailed"} => (Queued(f)' <=> Queued(f))
    BY <1>0, <1>12, QueuePush DEF TypeOK, RestoreFinished, RestoreFailed, Observe, Event
  <2> QED
    BY <1>0, <1>12, <2>1 DEF TypeOK, Rest, RestoreFinished, RestoreFailed, Observe, ui, lua
<1>13. CASE UNCHANGED ivars
  BY <1>0, <1>13, QueueSame DEF TypeOK, Rest, ivars
<1> QED
  BY <1>1, <1>2, <1>3, <1>4, <1>5, <1>6, <1>7, <1>8, <1>9, <1>10, <1>11, <1>12, <1>13
     DEF Next, Player, Store

-----------------------------------------------------------------------------
LEMMA InvHolds == Spec => []Inv
BY InitInv, StepInv, PTL DEF Spec

(* The variables of the chooser, the request, the queue and the store keep
   their types. *)
THEOREM TypeCorrect == Spec => []TypeOK
<1>1. Inv => TypeOK
  BY DEF Inv
<1> QED BY <1>1, InvHolds, PTL

(* unlockPremium: nothing is unlocked or saved that was not paid for. *)
THEOREM NothingUnpaid == Spec => []PaidFor
<1>1. Inv => PaidFor
  BY DEF Inv
<1> QED BY <1>1, InvHolds, PTL

(* The offer is busy exactly while IAP has a callback, which IAP.update, pumped
   by the boat chooser, can still call. *)
THEOREM NeverBusyForNothing == Spec => []BusyIsPending
<1>1. Inv => BusyIsPending
  BY DEF Inv
<1> QED BY <1>1, InvHolds, PTL

(* A payment made here is at the store, in the queue, or in the save, but for a
   kill between finishTransaction and the poll. *)
THEOREM NoPurchaseDropped == Spec => []PurchaseKept
<1>1. Inv => PurchaseKept
  BY DEF Inv
<1> QED BY <1>1, InvHolds, PTL

(* What is unlocked stays unlocked, whichever save comes next (Game:save writes
   the flag each time, loadSave reads it). *)
THEOREM UnlocksLast == Spec => UnlockedForGood
<1>1. Inv /\ [Next]_ivars => [saved => saved']_ivars
  <2> SUFFICES ASSUME Inv, Next, saved PROVE saved'
    OBVIOUS
  <2>1. CASE Kill
    BY <2>1 DEF Kill
  <2>2. CASE Escape \/ Leave
    <3>1. scene # "off"
      BY <2>2 DEF Escape, Leave
    <3>2. premium = saved /\ saved' \in {saved, premium}
      BY <2>2, <3>1 DEF Escape, Leave, Inv, InStep
    <3> QED BY <3>2, Zenon
  <2>3. CASE Update
    BY <2>3 DEF Update, OnEvent, Settle
  <2>4. CASE UNCHANGED saved
    BY <2>4
  <2>5. CASE \/ Start \/ Enter \/ OpenCard \/ CloseCard \/ OpenGate \/ CloseGate
             \/ AnswerWrong \/ StartBuy \/ StartRestore
    BY <2>4, <2>5 DEF Start, Enter, OpenCard, CloseCard, OpenGate, CloseGate,
       AnswerWrong, ShowOffer, StartBuy, StartRestore, Request, lua
  <2>6. CASE Store
    BY <2>4, <2>6 DEF Store, Pay, Decline, DeliverPaid, DeliverDeclined, DeliverRestored,
       RestoreFinished, RestoreFailed, Observe, lua
  <2> QED BY <2>1, <2>2, <2>3, <2>5, <2>6 DEF Next, Player
<1> QED BY <1>1, InvHolds, PTL DEF Spec, UnlockedForGood

(* What PurchaseKept leaves unsaid: a payment made here ceases to be owed only
   when the program ends, with the event still in the queue or the pack
   unlocked; nothing the store or the player does writes it off. *)
OnlyAnEndLoses ==
  [][store.owed /\ ~store'.owed =>
       /\ scene # "off" /\ scene' = "off"
       /\ saved \/ Queued("purchased")]_ivars

(* The loss bt_iap.m leaves open (its queue is not persisted) is the only one. *)
THEOREM PaymentsOutlastAllElse == Spec => OnlyAnEndLoses
<1>1. ASSUME Inv, [Next]_ivars, store.owed, ~store'.owed
      PROVE  /\ scene # "off" /\ scene' = "off"
             /\ saved \/ Queued("purchased")
  <2>1. CASE Ends
    <3>1. /\ store' = [store EXCEPT !.restores = 0, !.found = 0,
                                     !.owed = store.owed /\ store.paid > 0]
          /\ scene # "off" /\ scene' = "off"
      BY <2>1 DEF Ends
    <3>2. ~(store.paid > 0)
      BY <1>1, <3>1 DEF Inv, TypeOK
    <3> QED BY <1>1, <3>1, <3>2 DEF Inv, PurchaseKept
  <2>2. CASE store'.owed = store.owed
    BY <1>1, <2>2
  <2>3. CASE Pay
    BY <1>1, <2>3 DEF Pay, Inv, TypeOK
  <2>4. CASE \/ Start \/ Enter \/ Leave \/ OpenCard \/ CloseCard \/ OpenGate \/ CloseGate
             \/ AnswerWrong \/ Update \/ UNCHANGED ivars
    BY <2>2, <2>4 DEF Start, Enter, Leave, OpenCard, CloseCard, OpenGate, CloseGate,
       AnswerWrong, ShowOffer, Update, ivars
  <2>5. CASE \/ StartBuy \/ StartRestore \/ Decline \/ DeliverPaid \/ DeliverDeclined
             \/ DeliverRestored \/ RestoreFinished \/ RestoreFailed
    <3>1. store'.owed = store.owed
      BY <1>1, <2>5 DEF StartBuy, StartRestore, Decline, DeliverPaid, DeliverDeclined,
         DeliverRestored, RestoreFinished, RestoreFailed, Inv, TypeOK
    <3> QED BY <2>2, <3>1
  <2> QED BY <1>1, <2>1, <2>3, <2>4, <2>5 DEF Next, Kill, Escape, Player, Store
<1>2. Inv /\ [Next]_ivars =>
        (store.owed /\ ~store'.owed =>
           /\ scene # "off" /\ scene' = "off"
           /\ saved \/ Queued("purchased"))
  BY <1>1
<1> QED BY <1>2, InvHolds, PTL DEF Spec, OnlyAnEndLoses
-----------------------------------------------------------------------------
(* The offer takes no input while it is busy, so something must be under way that
   can end it: a payment or a restore the store has not answered, or an event in
   the queue that settles the request (any but "restored", IAP.update). *)
Settling == Event \ {"restored"}

UnderWay ==
  \/ \E n \in {store.asked, store.paid, store.declined, store.restores, store.found} : n > 0
  \/ \E e \in Settling : Queued(e)

AnswerUnderWay == pending => UnderWay

LEMMA UnderWayInit == Init => AnswerUnderWay
BY DEF Init, AnswerUnderWay

(* Whatever the store does moves an answer on, or starts none and drops none. *)
LEMMA StoreMovesOn ==
  ASSUME TypeOK, UnderWay, Store PROVE UnderWay'
<1>0. \A f : Queued(f) => Queued(f)'
  <2>1. CASE UNCHANGED events
    BY <2>1, QueueSame
  <2>2. CASE \E e \in Event : Push(e)
    BY <2>2, QueuePush DEF TypeOK
  <2>3. UNCHANGED events \/ \E e \in Event : Push(e)
    BY DEF Store, Pay, Decline, DeliverPaid, DeliverDeclined, DeliverRestored,
       RestoreFinished, RestoreFailed, Observe, Event
  <2> QED BY <2>1, <2>2, <2>3
<1>1. ASSUME NEW e \in Settling, Push(e) PROVE UnderWay'
  BY <1>1, QueuePush DEF TypeOK, UnderWay, Settling
<1>2. CASE Pay \/ Decline \/ DeliverRestored
  <2>1. CASE Pay
    <3>1. store'.paid > 0
      BY <2>1 DEF TypeOK, Pay
    <3> QED BY <3>1 DEF UnderWay
  <2>2. CASE Decline
    <3>1. store'.declined > 0
      BY <2>2 DEF TypeOK, Decline
    <3> QED BY <3>1 DEF UnderWay
  <2>3. CASE DeliverRestored
    <3>1. store'.found > 0
      BY <2>3 DEF TypeOK, DeliverRestored
    <3> QED BY <3>1 DEF UnderWay
  <2> QED BY <1>2, <2>1, <2>2, <2>3
<1>3. CASE DeliverPaid \/ DeliverDeclined \/ RestoreFinished \/ RestoreFailed
  <2>1. \E e \in Settling : Push(e)
    BY <1>3 DEF DeliverPaid, DeliverDeclined, RestoreFinished, RestoreFailed, Observe,
       Settling, Event
  <2> QED BY <1>1, <2>1
<1> QED BY <1>2, <1>3 DEF Store

LEMMA UnderWayStep ==
  ASSUME Inv, AnswerUnderWay, [Next]_ivars PROVE AnswerUnderWay'
<1> SUFFICES ASSUME pending' PROVE UnderWay'
  BY DEF AnswerUnderWay
<1>0. TypeOK
  BY DEF Inv
<1>1. ASSUME UNCHANGED <<pending, events, store>> PROVE UnderWay'
  BY <1>1, QueueSame DEF AnswerUnderWay, UnderWay
<1>2. CASE Start \/ Enter \/ Leave \/ OpenCard \/ CloseCard \/ OpenGate \/ CloseGate
             \/ AnswerWrong \/ UNCHANGED ivars
  BY <1>1, <1>2 DEF Start, Enter, Leave, OpenCard, CloseCard, OpenGate, CloseGate,
     AnswerWrong, ShowOffer, lua, ivars
<1>3. CASE Kill \/ Escape
  BY <1>3 DEF Kill, Escape, Ends
<1>4. CASE StartBuy \/ StartRestore
  <2>1. ~pending
    BY <1>4 DEF StartBuy, StartRestore, Inv, BusyIsPending
  <2>2. CASE StartBuy /\ Push("failed")
    BY <1>0, <2>2, QueuePush DEF TypeOK, UnderWay, Settling, Event
  <2>3. CASE StartBuy /\ store' = [store EXCEPT !.asked = @ + 1]
    <3>1. store'.asked > 0
      BY <1>0, <2>3 DEF TypeOK
    <3> QED BY <3>1 DEF UnderWay
  <2>4. CASE StartRestore
    <3>1. store'.restores > 0
      BY <1>0, <2>1, <2>4 DEF TypeOK, StartRestore
    <3> QED BY <3>1 DEF UnderWay
  <2> QED BY <1>4, <2>1, <2>2, <2>3, <2>4 DEF StartBuy
<1>5. CASE Update
  <2>1. Head(events) = "restored" /\ pending /\ UNCHANGED store
    BY <1>5 DEF Update, OnEvent, Settle
  <2>2. \A f : Queued(f) <=> (f = Head(events) \/ Queued(f)')
    BY <1>0, <1>5, QueuePoll DEF TypeOK, Update
  <2> QED BY <2>1, <2>2 DEF AnswerUnderWay, UnderWay, Settling
<1>6. CASE Store
  <2>1. UNCHANGED pending
    BY <1>6 DEF Store, Pay, Decline, DeliverPaid, DeliverDeclined, DeliverRestored,
       RestoreFinished, RestoreFailed, Observe, lua
  <2> QED BY <1>0, <1>6, <2>1, StoreMovesOn DEF AnswerUnderWay
<1> QED BY <1>2, <1>3, <1>4, <1>5, <1>6 DEF Next, Player

(* The first half of RestoreWorks, and of "the offer is never busy for nothing":
   events settle requests they were not meant for, and still none is left that
   nothing can settle. *)
THEOREM NoRequestStranded == Spec => []AnswerUnderWay
<1> QED BY UnderWayInit, UnderWayStep, InvHolds, PTL DEF Spec
=============================================================================
