------------------------------- MODULE Iap -------------------------------
(***************************************************************************)
(* Kaptein-pakken, the one thing the game sells: the offer card of the     *)
(* boat chooser (src/scenes/boatselect.lua), the request it has with the   *)
(* store (src/systems/iap.lua), the bridge's queue of events               *)
(* (ios/storekit/bt_iap.m), and, as far as the bridge can tell, the store: *)
(* its payments outlive the program, and it answers when it likes.         *)
(*                                                                         *)
(* The build modelled is the one with the bridge linked in.  Without it    *)
(* every request fails after 1.2 s, as a refused one does here.            *)
(***************************************************************************)
EXTENDS Naturals, Sequences

CONSTANTS
  GateTries,    \* config.PREMIUM.GATE_TRIES
  MaxMishaps    \* bound: kills, and requests that fail

ASSUME GateAssumption == GateTries \in Nat \ {0}
ASSUME BoundAssumption == MaxMishaps \in Nat

VARIABLES
  scene,     \* "off", "boats" (the boat chooser), "elsewhere"
  offer,     \* BoatSelect.offer: "none" for false, "card", "gate", "busy"
  tries,     \* BoatSelect.gate.tries
  pending,   \* whether IAP._cb waits
  restored,  \* IAP._restored
  premium,   \* Game.state.premium
  saved,     \* the same in the save file
  events,    \* bt_events
  store,     \* what the store knows, see TypeOK
  mishaps

ui == <<scene, offer, tries>>
lua == <<pending, restored, premium, saved>>
ivars == <<scene, offer, tries, pending, restored, premium, saved, events,
           store, mishaps>>

Event == {"purchased", "failed", "restored", "restoredone", "restorefailed"}

(* `owed` is a history: a payment made here that no kill has orphaned. *)
TypeOK ==
  /\ scene \in {"off", "boats", "elsewhere"}
  /\ offer \in {"none", "card", "gate", "busy"}
  /\ tries \in 0 .. GateTries - 1
  /\ pending \in BOOLEAN /\ restored \in BOOLEAN
  /\ premium \in BOOLEAN /\ saved \in BOOLEAN
  /\ events \in Seq(Event)
  /\ store \in
       [bought : BOOLEAN,    \* the account has the pack
        asked : Nat,         \* payments on the way, deferred ones too
        paid : Nat,          \* ... and those made or
        declined : Nat,      \* ... given up, the observer not told yet
        restores : Nat,      \* restores asked for
        found : Nat,         \* ... and those whose purchase was delivered
        owed : BOOLEAN]
  /\ mishaps \in 0 .. MaxMishaps

(* A device that has not unlocked the pack; the account may have it. *)
Init ==
  /\ scene = "off"
  /\ offer = "none"
  /\ tries = 0
  /\ pending = FALSE
  /\ restored = FALSE
  /\ premium = FALSE
  /\ saved = FALSE
  /\ events = <<>>
  /\ store \in {[bought |-> b, asked |-> 0, paid |-> 0, declined |-> 0,
                 restores |-> 0, found |-> 0, owed |-> FALSE] : b \in BOOLEAN}
  /\ mishaps = 0

Mishap ==
  /\ mishaps < MaxMishaps
  /\ mishaps' = mishaps + 1

Queued(e) == \E i \in DOMAIN events : events[i] = e

Push(e) == events' = Append(events, e)

-----------------------------------------------------------------------------
(* The program starts and ends.  The save is read, the observer attached.  A
   kill takes the queue along, finished transactions and all. *)

StartLocked ==
  /\ scene = "off"
  /\ scene' = "elsewhere"
  /\ UNCHANGED <<lua, offer, tries, events, store, mishaps>>

Start ==
  /\ scene = "off"
  /\ scene' = "elsewhere"
  /\ premium' = saved
  /\ UNCHANGED <<offer, tries, pending, restored, saved, events, store, mishaps>>

Ends ==
  /\ scene # "off"
  /\ Mishap
  /\ scene' = "off"
  /\ offer' = "none" /\ tries' = 0
  /\ pending' = FALSE /\ restored' = FALSE /\ premium' = FALSE
  /\ events' = <<>>
  /\ store' = [store EXCEPT !.restores = 0, !.found = 0,
                            !.owed = @ /\ store.paid > 0]

Kill == Ends /\ UNCHANGED saved

(* Escape quits from the boat chooser, a busy one too: Game:keypressed takes
   the key before the scene sees it.  Game:quit saves. *)
Escape ==
  /\ scene = "boats"
  /\ Ends
  /\ saved' = premium

-----------------------------------------------------------------------------
(* The boat chooser. *)

(* BoatSelect:load: straight to the card from a locked map (MapSelect:pick). *)
Enter ==
  /\ scene = "elsewhere"
  /\ scene' = "boats"
  /\ offer' \in IF premium THEN {"none"} ELSE {"none", "card"}
  /\ UNCHANGED <<tries, lua, events, store, mishaps>>

LeaveAnyway ==
  /\ scene = "boats"
  /\ scene' = "elsewhere"
  /\ UNCHANGED <<offer, tries, lua, events, store, mishaps>>

(* setSail, which saves, and back, which does when the boat was renamed: both
   are behind the card. *)
Leave ==
  /\ scene = "boats" /\ offer = "none"
  /\ scene' = "elsewhere"
  /\ saved' \in {saved, premium}
  /\ UNCHANGED <<offer, tries, pending, restored, premium, events, store, mishaps>>

ShowOffer(o) ==
  /\ scene = "boats"
  /\ offer' = o
  /\ UNCHANGED <<scene, lua, events, store, mishaps>>

(* primary, with a boat of the pack chosen. *)
OpenCard ==
  /\ offer = "none" /\ ~premium
  /\ ShowOffer("card")
  /\ UNCHANGED tries

(* Tilbake, or a tap outside the card. *)
CloseCard ==
  /\ offer = "card"
  /\ ShowOffer("none")
  /\ UNCHANGED tries

OpenGate ==
  /\ offer = "card"
  /\ ShowOffer("gate")
  /\ tries' = 0

CloseGate ==
  /\ offer = "gate"
  /\ ShowOffer("card")
  /\ UNCHANGED tries

(* Another question, until the gate gives up. *)
AnswerWrong ==
  /\ offer = "gate"
  /\ IF tries + 1 < GateTries
     THEN ShowOffer("gate") /\ tries' = tries + 1
     ELSE ShowOffer("card") /\ UNCHANGED tries

-----------------------------------------------------------------------------
(* The requests.  IAP.buy and IAP.restore do nothing while one waits; the
   offer is busy all the same. *)

Request ==
  /\ scene = "boats"
  /\ offer' = "busy"
  /\ pending' = TRUE
  /\ UNCHANGED <<scene, tries, premium, saved>>

(* startBuy, the question answered.  bt_iap_buy hands a payment to the store,
   or refuses at once: payments not allowed, no product fetched. *)
StartBuy ==
  /\ offer = "gate"
  /\ Request
  /\ UNCHANGED restored
  /\ \/ pending /\ UNCHANGED <<events, store, mishaps>>
     \/ /\ ~pending
        /\ store' = [store EXCEPT !.asked = @ + 1]
        /\ UNCHANGED <<events, mishaps>>
     \/ /\ ~pending
        /\ Mishap
        /\ Push("failed")
        /\ UNCHANGED store

(* startRestore. *)
StartRestore ==
  /\ offer = "card"
  /\ Request
  /\ UNCHANGED <<events, mishaps>>
  /\ IF pending
     THEN UNCHANGED <<restored, store>>
     ELSE restored' = FALSE /\ store' = [store EXCEPT !.restores = @ + 1]

(* settle, and the callback: purchaseSucceeded with its unlockPremium, which
   saves; or back to the card. *)
Settle(ok) ==
  /\ pending' = FALSE
  /\ IF ok
     THEN offer' = "none" /\ premium' = TRUE /\ saved' = TRUE
     ELSE offer' = "card" /\ UNCHANGED <<premium, saved>>

OnEventTrusting(e) ==
  \/ /\ e = "restored"
     /\ restored' = TRUE
     /\ UNCHANGED <<offer, pending, premium, saved>>
  \/ /\ e # "restored"
     /\ Settle(e \in {"purchased", "restoredone"})
     /\ UNCHANGED restored

OnEventDeaf(e) ==
  \/ /\ e = "restored"
     /\ UNCHANGED <<offer, lua>>
  \/ /\ e # "restored"
     /\ Settle(e = "purchased" \/ (e = "restoredone" /\ restored))
     /\ UNCHANGED restored

OnEvent(e) ==
  \/ /\ e = "restored"
     /\ restored' = TRUE
     /\ UNCHANGED <<offer, pending, premium, saved>>
  \/ /\ e # "restored"
     /\ Settle(e = "purchased" \/ (e = "restoredone" /\ restored))
     /\ UNCHANGED restored

(* IAP.update: one event a frame, while a request waits. *)
UpdateAlways ==
  /\ scene = "boats"
  /\ events # <<>>
  /\ events' = Tail(events)
  /\ IF pending THEN OnEvent(Head(events)) ELSE UNCHANGED <<offer, lua>>
  /\ UNCHANGED <<scene, tries, store, mishaps>>

Update ==
  /\ scene = "boats"
  /\ pending
  /\ events # <<>>
  /\ events' = Tail(events)
  /\ OnEvent(Head(events))
  /\ UNCHANGED <<scene, tries, store, mishaps>>

-----------------------------------------------------------------------------
(* The store (external) decides, whether the program runs or not: a payment
   may wait for a parent ("ask to buy").  Paying for what the account has is
   free. *)

Pay ==
  /\ store.asked > 0
  /\ store' = [store EXCEPT !.asked = @ - 1, !.paid = @ + 1, !.bought = TRUE,
                            !.owed = TRUE]
  /\ UNCHANGED <<ui, lua, events, mishaps>>

Decline ==
  /\ store.asked > 0
  /\ Mishap
  /\ store' = [store EXCEPT !.asked = @ - 1, !.declined = @ + 1]
  /\ UNCHANGED <<ui, lua, events>>

(* ... and tells the observer when there is one: updatedTransactions queues
   the event and finishes the transaction. *)
Observe(e) ==
  /\ scene # "off"
  /\ Push(e)
  /\ UNCHANGED <<ui, lua>>

DeliverPaid ==
  /\ store.paid > 0
  /\ Observe("purchased")
  /\ store' = [store EXCEPT !.paid = @ - 1]
  /\ UNCHANGED mishaps

DeliverDeclined ==
  /\ store.declined > 0
  /\ Observe("failed")
  /\ store' = [store EXCEPT !.declined = @ - 1]
  /\ UNCHANGED mishaps

(* A restore delivers what the account has, and ends. *)
DeliverRestored ==
  /\ store.restores > 0 /\ store.bought
  /\ Observe("restored")
  /\ store' = [store EXCEPT !.restores = @ - 1, !.found = @ + 1]
  /\ UNCHANGED mishaps

RestoreFinished ==
  /\ Observe("restoredone")
  /\ \/ /\ store.found > 0
        /\ store' = [store EXCEPT !.found = @ - 1]
     \/ /\ store.restores > 0 /\ ~store.bought
        /\ store' = [store EXCEPT !.restores = @ - 1]
  /\ UNCHANGED mishaps

RestoreFailed ==
  /\ Mishap
  /\ Observe("restorefailed")
  /\ \/ /\ store.found > 0
        /\ store' = [store EXCEPT !.found = @ - 1]
     \/ /\ store.restores > 0
        /\ store' = [store EXCEPT !.restores = @ - 1]

-----------------------------------------------------------------------------
Player ==
  Enter \/ Leave \/ OpenCard \/ CloseCard \/ OpenGate \/ CloseGate
    \/ AnswerWrong \/ StartBuy \/ StartRestore

Store ==
  Pay \/ Decline \/ DeliverPaid \/ DeliverDeclined
    \/ DeliverRestored \/ RestoreFinished \/ RestoreFailed

Next == Start \/ Kill \/ Escape \/ Player \/ Update \/ Store

Spec == Init /\ [][Next]_ivars

(* Frames go on; the store and the parents answer in the end; the program is
   started again. *)
Answering ==
  /\ WF_ivars(Start)
  /\ WF_ivars(Update)
  /\ WF_ivars(Pay)
  /\ WF_ivars(DeliverPaid) /\ WF_ivars(DeliverDeclined)
  /\ WF_ivars(DeliverRestored) /\ WF_ivars(RestoreFinished)

(* The player comes back to "Gjenopprett kjop" again and again. *)
Insisting ==
  /\ WF_ivars(Enter) /\ WF_ivars(CloseGate)
  /\ SF_ivars(OpenCard) /\ SF_ivars(StartRestore)

FairSpec == Spec /\ Answering
InsistingSpec == FairSpec /\ Insisting

-----------------------------------------------------------------------------
(* "Call only once the store confirms" (Game:unlockPremium): whichever of its
   events settles whichever request, nothing is unlocked, or was ever saved,
   that the account has not paid for. *)
PaidFor == premium \/ saved => store.bought

(* A busy offer takes no input, and IAP.update is only called from the boat
   chooser: the screen is busy exactly while a callback waits that will end
   it, and no callback waits where nobody pumps the events. *)
BusyIsPending == pending <=> scene = "boats" /\ offer = "busy"

(* Every save writes the flag anew, from the copy the program then has (a new
   game puts it among what it keeps): what is unlocked stays unlocked on this
   device, through restarts and whatever becomes of later requests. *)
UnlockedForGood == [][saved => saved']_ivars

(* Polled events are gone (bt_iap_poll) and finished transactions do not come
   back: a payment made here is with the store, or queued, until it is
   unlocked and saved.  Only a kill while it is queued loses it. *)
PurchaseKept ==
  store.owed /\ ~saved => store.paid > 0 \/ Queued("purchased")

(* ... and then "Gjenopprett kjop" gets it: events of earlier requests settle
   later ones, refusals and kills come between, but a player who keeps asking
   ends up with what the account has paid for. *)
RestoreWorks == store.bought ~> saved

(* "StoreKit callbacks push short event strings onto a queue; Lua drains it
   once per frame" (bt_iap.m): a purchase that is queued is heard. *)
EventsDrained == Queued("purchased") ~> saved \/ ~Queued("purchased")
=============================================================================
