---------------------------- MODULE Taps_proofs ----------------------------
(***************************************************************************)
(* The properties of Taps for every debounce, frame length and queue.      *)
(* Two arguments carry them.  Fingers come down and up in turn, so each    *)
(* press in the queue, and the button held, has its release behind it or   *)
(* its finger still down (Lifts).  And every event waits for one Pump at   *)
(* most, so a press aimed at a scene that is gone is handled within two    *)
(* frames of the switch: within the debounce, as long as none of them has  *)
(* hung (Timely).                                                          *)
(***************************************************************************)
EXTENDS Taps, SequenceTheorems, TLAPS

Up(q, i) == q[i].kind = "up"

(* The finger is down, or comes up after the n-th event. *)
Lifts(q, t, n) ==
  t # NoTouch \/ \E i \in DOMAIN q : i > n /\ Up(q, i)

(* ... and it went down in the scene on show. *)
LiftsHere(q, t, n) ==
  /\ t = "past" => \E i \in DOMAIN q : i > n /\ Up(q, i)
  /\ \A i \in DOMAIN q :
       i > n /\ Up(q, i) /\ (\A j \in DOMAIN q : j > n /\ Up(q, j) => j >= i)
       => q[i].aim # "past"

Held == armed # NoButton => Lifts(queue, touch, 0)

Paired ==
  \A n \in DOMAIN queue : queue[n].kind = "down" => Lifts(queue, touch, n)

(* A frame that has hung may have let a stale press through. *)
HeldHere ==
  Scene[screen] # "world" /\ ~hitched /\ armed # NoButton => LiftsHere(queue, touch, 0)

PairedHere ==
  Scene[screen] # "world" =>
    \A n \in DOMAIN queue :
      queue[n].kind = "down" /\ queue[n].aim # "past" => LiftsHere(queue, touch, n)

StalePress(n) == queue[n].kind = "down" /\ queue[n].aim = "past"

(* A stale press came in the frame of the switch, or in the one before its
   Pump. *)
InTime(n) ==
  IF n > batch THEN since <= spent ELSE 2 * since < Debounce + 2 * spent

Timely ==
  Scene[screen] # "world" /\ ~hitched =>
    /\ 2 * spent < Debounce
    /\ drawn = "past" => since <= spent
    /\ drawn = "past" /\ ~polling => since = 0 /\ spent = 0
    /\ \A n \in DOMAIN queue : StalePress(n) => InTime(n)

Idle == ~polling => batch = 0

CardSeen ==
  screen \in Cards =>
    /\ drawn = "screen"
    /\ \A n \in DOMAIN queue :
         queue[n].kind # "up" /\ (cardT > 0 \/ (polling /\ n > batch))
         => queue[n].aim = "screen"

Inv ==
  /\ TypeOK /\ HeldIsHere
  /\ Held /\ Paired /\ HeldHere /\ PairedHere
  /\ Timely /\ Idle /\ CardSeen

-----------------------------------------------------------------------------
(* The tables. *)

LEMMA Tables ==
  /\ \A s \in Screens : ButtonsOn[s] \subseteq Buttons
  /\ NoButton \notin Buttons
  /\ \A s \in Screens : Scene[s] = "loading" => ButtonsOn[s] = {}
  /\ Scene["loading"] = "loading"
  /\ \A s \in Cards : s \in Screens /\ Scene[s] = "world" /\ ButtonsOn[s] = {}
  /\ "menu" \in Screens /\ Scene["menu"] = "menu"
<1>1. Screens = {"menu", "quitAsk", "info", "boats", "card", "gate", "busy", "naming",
                 "maps", "loading", "sea", "pause", "reveal", "finale", "off"}
  BY DEF Screens, Scene
<1>2. \A s \in Screens : ButtonsOn[s] \subseteq Buttons
  BY DEF Buttons
<1>3. \A s \in Screens : NoButton \notin ButtonsOn[s]
  BY <1>1 DEF ButtonsOn, NoButton
<1>4. \A s \in Screens : Scene[s] = "loading" => ButtonsOn[s] = {}
  BY <1>1 DEF Scene, ButtonsOn
<1>5. /\ Scene["loading"] = "loading" /\ Scene["menu"] = "menu"
      /\ "menu" \in Screens /\ "reveal" \in Screens /\ "finale" \in Screens
      /\ Scene["reveal"] = "world" /\ Scene["finale"] = "world"
      /\ ButtonsOn["reveal"] = {} /\ ButtonsOn["finale"] = {}
  BY <1>1 DEF Scene, ButtonsOn
<1> QED BY <1>2, <1>3, <1>4, <1>5 DEF Buttons, Cards

(* No event opens a card. *)
Leads(s, new) == new = s \/ (new \in Screens /\ new \notin Cards)

LEMMA Targets ==
  /\ \A s \in Screens : \A new \in Tapping[s] : Leads(s, new)
  /\ \A s \in Screens : \A new \in Typing[s] : Leads(s, new)
  /\ \A s \in Screens : \A b \in ButtonsOn[s] : \A new \in Releasing[b] : Leads(s, new)
<1>1. Screens = {"menu", "quitAsk", "info", "boats", "card", "gate", "busy", "naming",
                 "maps", "loading", "sea", "pause", "reveal", "finale", "off"}
  BY DEF Screens, Scene
<1>2. \A s \in Screens : \A new \in Tapping[s] : Leads(s, new)
  BY <1>1 DEF Tapping, Leads, Cards
<1>3. \A s \in Screens : \A new \in Typing[s] : Leads(s, new)
  BY <1>1 DEF Typing, Leads, Cards
<1>4. \A s \in Screens : \A b \in ButtonsOn[s] : \A new \in Releasing[b] : Leads(s, new)
  <2> SUFFICES ASSUME NEW s \in Screens, NEW b \in ButtonsOn[s], NEW new \in Releasing[b]
               PROVE  Leads(s, new)
    OBVIOUS
  <2>1. b \in Buttons
    BY Tables
  <2>2. b \in {"sign", "hjelp", "avslutt", "nei", "ja", "tilbake", "nytt", "sail", "back",
               "kjop", "restore", "cardback", "answer", "gateback", "kart", "mapback",
               "plaque", "fortsett", "ut"}
    BY <1>1 DEF ButtonsOn
  <2>3. new \in {"boats", "info", "quitAsk", "menu", "off", "maps", "card", "gate", "busy",
                 "loading", "pause", "sea"}
    BY <2>1, <2>2 DEF Releasing
  <2> QED BY <1>1, <2>3 DEF Leads, Cards
<1> QED BY <1>2, <1>3, <1>4

(* By itself the program stays in the scene, or leaves a loading one. *)
LEMMA Updates ==
  ASSUME NEW s \in Screens, NEW new \in Updating[s]
  PROVE  /\ new \in Screens
         /\ s # "loading" => Scene[new] = Scene[s]
         /\ s = "loading" => new = s \/ Scene[new] = "world"
<1>1. Screens = {"menu", "quitAsk", "info", "boats", "card", "gate", "busy", "naming",
                 "maps", "loading", "sea", "pause", "reveal", "finale", "off"}
  BY DEF Screens, Scene
<1>2. /\ new \in Screens
      /\ \/ new = s
         \/ s = "loading" /\ new \in {"sea", "finale"}
         \/ s = "sea" /\ new \in {"reveal", "finale"}
         \/ s = "busy" /\ new \in {"card", "boats"}
  BY <1>1 DEF Updating
<1> QED BY <1>2 DEF Scene

-----------------------------------------------------------------------------
(* Queues. *)

(* The events of `r` are those of `q` but the first k. *)
Behind(q, r, k) ==
  /\ q \in Seq(Event) /\ r \in Seq(Event)
  /\ Len(q) = Len(r) + k
  /\ \A i \in 1..Len(r) : r[i].kind = q[i + k].kind

(* ... and none was aimed at another scene meanwhile. *)
SameScene(q, r, k) ==
  \A i \in 1..Len(r) : r[i].aim = "past" <=> q[i + k].aim = "past"

LEMMA LiftsBehind ==
  ASSUME NEW q, NEW r, NEW k \in {0, 1}, Behind(q, r, k), NEW n \in Nat, NEW t, NEW u,
         t = NoTouch <=> u = NoTouch
  PROVE  Lifts(q, t, n + k) <=> Lifts(r, u, n)
<1>1. DOMAIN q = 1..Len(q) /\ DOMAIN r = 1..Len(r) /\ Len(q) \in Nat /\ Len(r) \in Nat
      /\ Len(q) = Len(r) + k
  BY DEF Behind
<1>2. ASSUME NEW i \in DOMAIN q, i > n + k, Up(q, i)
      PROVE  \E j \in DOMAIN r : j > n /\ Up(r, j)
  <2>1. i - k \in 1..Len(r) /\ i - k > n /\ (i - k) + k = i
    BY <1>1, <1>2
  <2> QED BY <1>1, <1>2, <2>1 DEF Behind, Up
<1>3. ASSUME NEW j \in DOMAIN r, j > n, Up(r, j)
      PROVE  \E i \in DOMAIN q : i > n + k /\ Up(q, i)
  <2>1. j + k \in 1..Len(q) /\ j + k > n + k /\ j \in 1..Len(r)
    BY <1>1, <1>3
  <2> QED BY <1>1, <1>3, <2>1 DEF Behind, Up
<1> QED BY <1>2, <1>3 DEF Lifts

LEMMA LiftsHereBehind ==
  ASSUME NEW q, NEW r, NEW k \in {0, 1}, Behind(q, r, k), SameScene(q, r, k),
         NEW n \in Nat, NEW t, NEW u, t = "past" <=> u = "past", LiftsHere(q, t, n + k)
  PROVE  LiftsHere(r, u, n)
<1>1. DOMAIN q = 1..Len(q) /\ DOMAIN r = 1..Len(r) /\ Len(q) \in Nat /\ Len(r) \in Nat
      /\ Len(q) = Len(r) + k
  BY DEF Behind
<1>2. ASSUME u = "past" PROVE \E j \in DOMAIN r : j > n /\ Up(r, j)
  <2>1. PICK i \in DOMAIN q : i > n + k /\ Up(q, i)
    BY <1>2 DEF LiftsHere
  <2>2. i - k \in 1..Len(r) /\ i - k > n /\ (i - k) + k = i
    BY <1>1, <2>1
  <2> QED BY <1>1, <2>1, <2>2 DEF Behind, Up
<1>3. ASSUME NEW j \in DOMAIN r, j > n, Up(r, j),
             \A l \in DOMAIN r : l > n /\ Up(r, l) => l >= j
      PROVE  r[j].aim # "past"
  <2>1. j + k \in DOMAIN q /\ j + k > n + k /\ Up(q, j + k) /\ j \in 1..Len(r)
    BY <1>1, <1>3 DEF Behind, Up
  <2>2. ASSUME NEW i \in DOMAIN q, i > n + k, Up(q, i) PROVE i >= j + k
    <3>1. i - k \in 1..Len(r) /\ i - k > n /\ (i - k) + k = i
      BY <1>1, <2>2
    <3>2. Up(r, i - k)
      BY <2>2, <3>1 DEF Behind, Up
    <3>3. i - k >= j
      BY <1>1, <1>3, <3>1, <3>2
    <3> QED BY <1>1, <3>1, <3>3
  <2>3. q[j + k].aim # "past"
    BY <2>1, <2>2 DEF LiftsHere
  <2> QED BY <2>1, <2>3 DEF SameScene
<1> QED BY <1>2, <1>3 DEF LiftsHere

(* Looking past the first event, when it is no release. *)
LEMMA LiftsPastHead ==
  ASSUME NEW q \in Seq(Event), q # <<>>, ~Up(q, 1), NEW t
  PROVE  /\ Lifts(q, t, 0) => Lifts(q, t, 1)
         /\ LiftsHere(q, t, 0) => LiftsHere(q, t, 1)
<1>1. DOMAIN q = 1..Len(q) /\ Len(q) \in Nat
  OBVIOUS
<1>2. \A i \in DOMAIN q : Up(q, i) => (i > 0 <=> i > 1)
  BY <1>1
<1>3. Lifts(q, t, 0) => Lifts(q, t, 1)
  BY <1>2 DEF Lifts
<1>4. LiftsHere(q, t, 0) => LiftsHere(q, t, 1)
  <2> HIDE DEF Up
  <2> QED BY <1>2 DEF LiftsHere
<1> QED BY <1>3, <1>4

(* Any event but a release may come up last, and a release of the finger that
   is down. *)
LEMMA LiftsAppended ==
  ASSUME NEW q \in Seq(Event), NEW e \in Event, NEW n \in 0..Len(q), NEW t, NEW u,
         Lifts(q, t, n),
         e.kind = "up" \/ (t # NoTouch => u # NoTouch)
  PROVE  Lifts(Append(q, e), u, n)
<1> DEFINE r == Append(q, e)
<1>1. /\ DOMAIN q = 1..Len(q) /\ Len(q) \in Nat /\ DOMAIN r = 1..(Len(q) + 1)
      /\ \A i \in 1..Len(q) : r[i] = q[i]
      /\ r[Len(q) + 1] = e
  OBVIOUS
<1> HIDE DEF r
<1>2. CASE e.kind = "up"
  <2>1. Len(q) + 1 \in DOMAIN r /\ Len(q) + 1 > n /\ Up(r, Len(q) + 1)
    BY <1>1, <1>2 DEF Up
  <2> QED BY <2>1 DEF Lifts, r
<1>3. CASE t # NoTouch /\ u # NoTouch
  BY <1>3 DEF Lifts
<1>4. CASE t = NoTouch
  <2>1. PICK i \in DOMAIN q : i > n /\ Up(q, i)
    BY <1>4 DEF Lifts
  <2>2. i \in DOMAIN r /\ Up(r, i)
    BY <1>1, <2>1 DEF Up
  <2> QED BY <2>1, <2>2 DEF Lifts, r
<1> QED BY <1>2, <1>3, <1>4

LEMMA LiftsHereAppended ==
  ASSUME NEW q \in Seq(Event), NEW e \in Event, NEW n \in 0..Len(q), NEW t, NEW u,
         LiftsHere(q, t, n), Lifts(q, t, n),
         \/ e.kind # "up" /\ (t # NoTouch => u = t)
         \/ e.kind = "up" /\ t # NoTouch /\ e.aim = t /\ u = NoTouch
  PROVE  LiftsHere(Append(q, e), u, n)
<1> DEFINE r == Append(q, e)
<1>1. /\ DOMAIN q = 1..Len(q) /\ Len(q) \in Nat /\ DOMAIN r = 1..(Len(q) + 1)
      /\ \A i \in 1..Len(q) : r[i] = q[i]
      /\ r[Len(q) + 1] = e
  OBVIOUS
<1> HIDE DEF r
<1>2. \A i \in DOMAIN q : i \in DOMAIN r /\ (Up(r, i) <=> Up(q, i)) /\ r[i].aim = q[i].aim
  BY <1>1 DEF Up
<1>3. u = "past" => \E i \in DOMAIN r : i > n /\ Up(r, i)
  <2> SUFFICES ASSUME u = "past" PROVE \E i \in DOMAIN q : i > n /\ Up(q, i)
    BY <1>2
  <2>1. u # NoTouch
    BY DEF NoTouch
  <2>2. CASE t = NoTouch
    BY <2>2 DEF Lifts
  <2>3. CASE t # NoTouch
    BY <2>1, <2>3 DEF LiftsHere
  <2> QED BY <2>2, <2>3
<1>4. ASSUME NEW i \in DOMAIN r, i > n, Up(r, i),
             \A j \in DOMAIN r : j > n /\ Up(r, j) => j >= i
      PROVE  r[i].aim # "past"
  <2>1. CASE i \in DOMAIN q
    <3>1. \A j \in DOMAIN q : j > n /\ Up(q, j) => j >= i
      BY <1>2, <1>4
    <3> QED BY <1>2, <1>4, <2>1, <3>1 DEF LiftsHere
  <2>2. CASE i = Len(q) + 1
    <3>1. e.kind = "up" /\ t # NoTouch /\ e.aim = t
      BY <1>1, <1>4, <2>2 DEF Up
    <3>2. ~\E j \in DOMAIN q : j > n /\ Up(q, j)
      BY <1>1, <1>2, <1>4, <2>2
    <3>3. t # "past"
      BY <3>2 DEF LiftsHere
    <3> QED BY <1>1, <2>2, <3>1, <3>3
  <2> QED BY <1>1, <1>4, <2>1, <2>2
<1> QED BY <1>3, <1>4 DEF LiftsHere, r

(* A switch ages the queue. *)
LEMMA AgedAim ==
  ASSUME NEW aim \in Aims, NEW new
  PROVE  /\ Aged(aim, new) \in Aims
         /\ Scene[new] = Scene[screen] => (Aged(aim, new) = "past" <=> aim = "past")
         /\ Scene[new] # Scene[screen] => Aged(aim, new) = "past"
         /\ new = screen => Aged(aim, new) = aim
BY DEF Aged, Aims

LEMMA AgedBehind ==
  ASSUME NEW q \in Seq(Event), NEW new
  PROVE  LET r == AgedQueue(q, new) IN
         /\ Behind(q, r, 0)
         /\ Scene[new] = Scene[screen] => SameScene(q, r, 0)
         /\ Scene[new] # Scene[screen] => \A i \in 1..Len(q) : r[i].aim = "past"
         /\ new = screen => \A i \in 1..Len(q) : r[i] = q[i]
<1> DEFINE r == AgedQueue(q, new)
<1>1. DOMAIN q = 1..Len(q) /\ Len(q) \in Nat /\ \A i \in 1..Len(q) : q[i] \in Event
  BY ElementOfSeq
<1>2. ASSUME NEW i \in 1..Len(q)
      PROVE  /\ r[i] \in Event /\ r[i].kind = q[i].kind /\ r[i].aim = Aged(q[i].aim, new)
             /\ q[i].aim \in Aims
             /\ Aged(q[i].aim, new) = q[i].aim => r[i] = q[i]
  <2>1. r[i] = [q[i] EXCEPT !.aim = Aged(q[i].aim, new)]
    BY <1>1, <1>2 DEF AgedQueue
  <2>2. q[i] \in [kind : {"down", "up", "key"}, aim : Aims]
    BY <1>1, <1>2 DEF Event
  <2>3. Aged(q[i].aim, new) \in Aims
    BY <2>2, AgedAim
  <2> HIDE DEF r
  <2> QED BY <2>1, <2>2, <2>3 DEF Event
<1>3. r = [i \in 1..Len(q) |-> [q[i] EXCEPT !.aim = Aged(q[i].aim, new)]]
  BY <1>1 DEF AgedQueue
<1> HIDE DEF r
<1>4. r \in Seq(Event) /\ Len(r) = Len(q)
  <2>1. r \in [1..Len(q) -> Event]
    BY <1>2, <1>3
  <2> QED BY <1>1, <2>1
<1>5. Behind(q, r, 0)
  <2>1. \A i \in 1..Len(r) : i + 0 = i
    BY <1>1, <1>4
  <2> QED BY <1>1, <1>2, <1>4, <2>1 DEF Behind
<1>6. ASSUME Scene[new] = Scene[screen] PROVE SameScene(q, r, 0)
  <2>1. \A i \in 1..Len(r) : i + 0 = i /\ i \in 1..Len(q)
    BY <1>1, <1>4
  <2> QED BY <1>2, <1>6, <2>1, AgedAim DEF SameScene
<1>7. ASSUME Scene[new] # Scene[screen], NEW i \in 1..Len(q) PROVE r[i].aim = "past"
  BY <1>2, <1>7, AgedAim
<1>8. ASSUME new = screen, NEW i \in 1..Len(q) PROVE r[i] = q[i]
  BY <1>2, <1>8, AgedAim
<1> QED BY <1>5, <1>6, <1>7, <1>8 DEF r

(* An event is taken off, and a switch ages the rest. *)
LEMMA HandledBehind ==
  ASSUME NEW q \in Seq(Event), q # <<>>, NEW new
  PROVE  LET r == AgedQueue(Tail(q), new) IN
         /\ Behind(q, r, 1)
         /\ Scene[new] = Scene[screen] => SameScene(q, r, 1)
         /\ Scene[new] # Scene[screen] => \A i \in 1..Len(r) : r[i].aim = "past"
         /\ new = screen => \A i \in 1..Len(r) : r[i] = q[i + 1]
<1> DEFINE l == Tail(q)  r == AgedQueue(l, new)
<1>1. l \in Seq(Event) /\ Len(q) = Len(l) + 1 /\ \A i \in 1..Len(l) : l[i] = q[i + 1]
  BY HeadTailProperties
<1> HIDE DEF l
<1>2. /\ Behind(l, r, 0)
      /\ Scene[new] = Scene[screen] => SameScene(l, r, 0)
      /\ Scene[new] # Scene[screen] => \A i \in 1..Len(l) : r[i].aim = "past"
      /\ new = screen => \A i \in 1..Len(l) : r[i] = l[i]
  BY <1>1, AgedBehind
<1> HIDE DEF r
<1>3. r \in Seq(Event) /\ Len(r) = Len(l) /\ Len(l) \in Nat
      /\ \A i \in 1..Len(r) : i + 0 = i
  BY <1>1, <1>2 DEF Behind
<1>4. Behind(q, r, 1)
  BY <1>1, <1>2, <1>3 DEF Behind
<1>5. Scene[new] = Scene[screen] => SameScene(q, r, 1)
  BY <1>1, <1>2, <1>3 DEF SameScene
<1> QED BY <1>1, <1>2, <1>3, <1>4, <1>5 DEF l, r

-----------------------------------------------------------------------------
LEMMA InitInv == Init => Inv
<1> SUFFICES ASSUME Init PROVE Inv
  OBVIOUS
<1> USE DEF Init
<1>1. queue \in Seq(Event) /\ Len(queue) = 0 /\ DOMAIN queue = {}
  OBVIOUS
<1>2. TypeOK
  <2>1. cardT \in 0..CardFrames /\ since \in 0..Debounce /\ spent \in 0..Debounce
        /\ batch \in 0..Len(queue) /\ Len(queue) <= MaxQueue
    BY <1>1, DebounceAssumption, CardAssumption, QueueAssumption
  <2>2. screen \in Screens /\ touch \in Aims \cup {NoTouch} /\ drawn \in Aims
    BY Tables DEF Aims
  <2> QED BY <1>1, <2>1, <2>2 DEF TypeOK
<1>3. HeldIsHere /\ Held /\ Paired /\ HeldHere /\ PairedHere
  BY <1>1 DEF HeldIsHere, Held, Paired, HeldHere, PairedHere
<1>4. Timely
  BY <1>1, DebounceAssumption DEF Timely
<1>5. screen \notin Cards
  BY DEF Cards
<1> QED BY <1>2, <1>3, <1>4, <1>5 DEF Inv, CardSeen, Idle

(* What the finger or the keyboard adds to the queue. *)
LEMMA ArrivesInv ==
  ASSUME Inv, NEW e \in Event, queue' = Append(queue, e), Len(queue) < MaxQueue,
         UNCHANGED <<screen, armed, cardT, clock, polling, batch, drawn>>,
         \/ /\ e.kind = "down" /\ touch = NoTouch /\ touch' = drawn /\ e.aim = drawn
         \/ /\ e.kind = "up" /\ touch # NoTouch /\ touch' = NoTouch /\ e.aim = touch
         \/ /\ e.kind = "key" /\ touch' = touch /\ e.aim = drawn
  PROVE  Inv'
<1>1. TypeOK /\ queue \in Seq(Event) /\ Len(queue) \in Nat /\ DOMAIN queue = 1..Len(queue)
  BY DEF Inv, TypeOK
<1>2. /\ queue' \in Seq(Event) /\ Len(queue') = Len(queue) + 1
      /\ DOMAIN queue' = 1..(Len(queue) + 1)
      /\ \A i \in 1..Len(queue) : queue'[i] = queue[i]
      /\ queue'[Len(queue) + 1] = e
  BY <1>1, AppendProperties
<1>3. TypeOK'
  BY <1>1, <1>2, QueueAssumption DEF TypeOK, clock
<1>4. HeldIsHere'
  BY DEF Inv, HeldIsHere
<1>5. drawn # NoTouch
  BY <1>1 DEF TypeOK, Aims, NoTouch
<1>6. /\ e.kind = "up" \/ (touch # NoTouch => touch' # NoTouch)
      /\ \/ e.kind # "up" /\ (touch # NoTouch => touch' = touch)
         \/ e.kind = "up" /\ touch # NoTouch /\ e.aim = touch /\ touch' = NoTouch
  OBVIOUS
<1>7. ASSUME NEW n \in 0..Len(queue), Lifts(queue, touch, n) PROVE Lifts(queue', touch', n)
  BY <1>1, <1>6, <1>7, LiftsAppended
<1>8. ASSUME NEW n \in 0..Len(queue), Lifts(queue, touch, n), LiftsHere(queue, touch, n)
      PROVE  LiftsHere(queue', touch', n)
  BY <1>1, <1>6, <1>8, LiftsHereAppended
<1>9. Held' /\ HeldHere'
  <2>1. 0 \in 0..Len(queue)
    BY <1>1
  <2> QED BY <1>7, <1>8, <2>1 DEF Inv, Held, HeldHere, clock
<1>10. ASSUME NEW n \in DOMAIN queue', queue'[n].kind = "down"
       PROVE  /\ Lifts(queue', touch', n)
              /\ Scene[screen] # "world" /\ queue'[n].aim # "past" => LiftsHere(queue', touch', n)
  <2>1. CASE n \in 1..Len(queue)
    BY <1>1, <1>2, <1>7, <1>8, <1>10, <2>1 DEF Inv, Paired, PairedHere
  <2>2. CASE n = Len(queue) + 1
    <3>1. e.kind = "down" /\ touch' = e.aim /\ touch' # NoTouch
      BY <1>2, <1>5, <1>10, <2>2
    <3>2. ~\E i \in DOMAIN queue' : i > n
      BY <1>1, <1>2, <2>2
    <3> QED BY <1>2, <2>2, <3>1, <3>2 DEF Lifts, LiftsHere
  <2> QED BY <1>1, <1>2, <2>1, <2>2
<1>11. Paired' /\ PairedHere'
  BY <1>10 DEF Paired, PairedHere
<1>12. since' = since /\ spent' = spent /\ hitched' = hitched
       /\ batch \in 0..Len(queue) /\ batch' = batch
  BY <1>1 DEF TypeOK, clock
<1>13. Timely'
  <2> SUFFICES ASSUME Scene[screen] # "world", ~hitched PROVE Timely'
    BY <1>12 DEF Timely
  <2>1. ASSUME NEW n \in DOMAIN queue', StalePress(n)' PROVE InTime(n)
    <3>1. CASE n \in 1..Len(queue)
      BY <1>1, <1>2, <2>1, <3>1 DEF Inv, Timely, StalePress
    <3>2. CASE n = Len(queue) + 1
      <4>1. drawn = "past" /\ n > batch
        BY <1>1, <1>2, <1>12, <2>1, <3>2 DEF StalePress
      <4> QED BY <4>1 DEF Inv, Timely, InTime
    <3> QED BY <1>1, <1>2, <3>1, <3>2
  <2> QED BY <1>12, <2>1 DEF Inv, Timely, InTime
<1>14. CardSeen'
  <2> SUFFICES ASSUME screen \in Cards PROVE CardSeen'
    BY DEF CardSeen
  <2>1. drawn = "screen"
    BY DEF Inv, CardSeen
  <2>2. ASSUME NEW n \in DOMAIN queue', queue'[n].kind # "up",
               cardT > 0 \/ (polling /\ n > batch)
        PROVE  queue'[n].aim = "screen"
    <3>1. CASE n \in 1..Len(queue)
      BY <1>1, <1>2, <2>2, <3>1 DEF Inv, CardSeen
    <3>2. CASE n = Len(queue) + 1
      BY <1>2, <2>1, <2>2, <3>2
    <3> QED BY <1>1, <1>2, <3>1, <3>2
  <2> QED BY <2>1, <2>2 DEF CardSeen
<1> QED BY <1>3, <1>4, <1>9, <1>11, <1>13, <1>14 DEF Inv, Idle

LEMMA InputInv == ASSUME Inv, FingerDown \/ FingerUp \/ Key PROVE Inv'
<1>1. drawn \in Aims /\ (touch # NoTouch => touch \in Aims)
  BY DEF Inv, TypeOK
<1>2. CASE FingerDown
  <2> DEFINE e == [kind |-> "down", aim |-> drawn]
  <2>1. e \in Event /\ e.kind = "down" /\ e.aim = drawn
    BY <1>1 DEF Event
  <2> HIDE DEF e
  <2>2. queue' = Append(queue, e)
    BY <1>2 DEF FingerDown, Arrives, e
  <2> QED BY <1>2, <2>1, <2>2, ArrivesInv DEF FingerDown, Arrives
<1>3. CASE FingerUp
  <2> DEFINE e == [kind |-> "up", aim |-> touch]
  <2>1. e \in Event /\ e.kind = "up" /\ e.aim = touch
    BY <1>1, <1>3 DEF Event, FingerUp
  <2> HIDE DEF e
  <2>2. queue' = Append(queue, e)
    BY <1>3 DEF FingerUp, Arrives, e
  <2> QED BY <1>3, <2>1, <2>2, ArrivesInv DEF FingerUp, Arrives
<1>4. CASE Key
  <2> DEFINE e == [kind |-> "key", aim |-> drawn]
  <2>1. e \in Event /\ e.kind = "key" /\ e.aim = drawn
    BY <1>1 DEF Event
  <2> HIDE DEF e
  <2>2. queue' = Append(queue, e)
    BY <1>4 DEF Key, Arrives, e
  <2> QED BY <1>4, <2>1, <2>2, ArrivesInv DEF Key, Arrives
<1> QED BY <1>2, <1>3, <1>4

LEMMA TickInv == ASSUME Inv, Tick PROVE Inv'
<1>1. /\ since \in 0..Debounce /\ spent \in 0..Debounce /\ Debounce \in Nat
      /\ polling \/ drawn # "past"
      /\ spent' = IF spent < Debounce THEN spent + 1 ELSE spent
      /\ since' = IF since < Debounce THEN since + 1 ELSE since
      /\ hitched' = (hitched \/ Hangs(spent'))
      /\ UNCHANGED <<screen, armed, cardT, polling, batch, queue, touch, drawn>>
  BY DebounceAssumption DEF Tick, input, Inv, TypeOK
<1>2. TypeOK'
  BY <1>1 DEF Inv, TypeOK
<1>3. HeldIsHere' /\ Held' /\ Paired' /\ HeldHere' /\ PairedHere' /\ CardSeen'
  <2>1. ~hitched' => ~hitched
    BY <1>1
  <2> QED BY <1>1, <2>1 DEF Inv, HeldIsHere, Held, Paired, HeldHere, PairedHere, CardSeen
<1>4. Timely'
  <2> SUFFICES ASSUME Scene[screen] # "world", ~hitched' PROVE Timely'
    BY <1>1 DEF Timely
  <2>1. ~hitched /\ 2 * spent' < Debounce
    <3>1. ~hitched /\ ~Hangs(spent')
      BY <1>1
    <3>2. spent' \in Nat
      BY <1>1
    <3> QED BY <1>1, <3>1, <3>2 DEF Hangs
  <2>2. spent' = spent + 1 /\ since' <= since + 1 /\ since' \in Nat
    BY <1>1, <2>1
  <2>3. drawn = "past" => since' <= spent'
    BY <1>1, <2>1, <2>2 DEF Inv, Timely
  <2>4. ASSUME NEW n \in DOMAIN queue, StalePress(n) PROVE InTime(n)'
    <3>1. InTime(n)
      BY <2>1, <2>4 DEF Inv, Timely
    <3> QED BY <1>1, <2>2, <3>1 DEF InTime
  <2> QED BY <1>1, <2>1, <2>3, <2>4 DEF Timely, StalePress
<1> QED BY <1>1, <1>2, <1>3, <1>4 DEF Inv, Idle

LEMMA PumpInv == ASSUME Inv, Pump PROVE Inv'
<1>1. /\ queue \in Seq(Event) /\ Len(queue) \in Nat /\ DOMAIN queue = 1..Len(queue)
      /\ since \in Nat /\ spent \in Nat /\ Debounce \in Nat \ {0} /\ batch \in Nat
      /\ ~polling /\ polling' = TRUE /\ batch' = Len(queue) /\ spent' = 0
      /\ UNCHANGED <<screen, armed, cardT, since, hitched, queue, touch, drawn>>
  BY DebounceAssumption DEF Pump, Pumped, input, Inv, TypeOK
<1>2. TypeOK'
  BY <1>1 DEF Inv, TypeOK
<1>3. HeldIsHere' /\ Held' /\ Paired' /\ HeldHere' /\ PairedHere'
  BY <1>1 DEF Inv, HeldIsHere, Held, Paired, HeldHere, PairedHere
<1>4. Timely'
  <2> SUFFICES ASSUME Scene[screen] # "world", ~hitched PROVE Timely'
    BY <1>1 DEF Timely
  <2>1. ASSUME NEW n \in DOMAIN queue, StalePress(n) PROVE InTime(n)'
    <3>1. n \in 1..Len(queue) /\ n > batch
      BY <1>1, <2>1 DEF Inv, Idle
    <3>2. since <= spent /\ 2 * spent < Debounce
      BY <2>1, <3>1 DEF Inv, Timely, InTime
    <3> QED BY <1>1, <3>1, <3>2 DEF InTime
  <2>2. drawn = "past" => since = 0
    BY <1>1 DEF Inv, Timely
  <2> QED BY <1>1, <2>1, <2>2 DEF Timely, StalePress
<1>5. CardSeen'
  BY <1>1 DEF Inv, CardSeen
<1> QED BY <1>1, <1>2, <1>3, <1>4, <1>5 DEF Inv, Idle

-----------------------------------------------------------------------------
(* An event is handled: no card opens, and what is held afterwards is nothing,
   or what it was, or a button that is on the screen and was just pressed. *)

HandledTo(new, held) ==
  /\ queue # <<>> /\ polling /\ batch > 0
  /\ batch' = batch - 1
  /\ queue' = AgedQueue(Tail(queue), new)
  /\ touch' = AgedTouch(new)
  /\ drawn' = Aged(drawn, new)
  /\ UNCHANGED <<cardT, polling>>
  /\ Switch(new, held)
  /\ Leads(screen, new)
  /\ \/ held = NoButton
     \/ held = armed /\ ~Up(queue, 1)
     \/ /\ held \in ButtonsOn[screen] /\ new = screen
        /\ queue[1].kind = "down"
        /\ Scene[screen] # "world" /\ ~hitched => queue[1].aim # "past"

LEMMA HandledInv ==
  ASSUME Inv, NEW new, NEW held, HandledTo(new, held)
  PROVE  Inv'
<1>1. /\ TypeOK /\ queue \in Seq(Event) /\ Len(queue) \in Nat
      /\ DOMAIN queue = 1..Len(queue) /\ queue # <<>> /\ 1 \in 1..Len(queue)
      /\ batch \in 0..Len(queue) /\ batch > 0 /\ batch' = batch - 1 /\ batch \in Nat
      /\ since \in Nat /\ spent \in Nat /\ Debounce \in Nat \ {0}
      /\ polling /\ UNCHANGED <<cardT, polling>>
  BY DebounceAssumption DEF HandledTo, Inv, TypeOK
<1>2. /\ Behind(queue, queue', 1)
      /\ Scene[new] = Scene[screen] => SameScene(queue, queue', 1)
      /\ Scene[new] # Scene[screen] => \A i \in 1..Len(queue') : queue'[i].aim = "past"
      /\ new = screen => \A i \in 1..Len(queue') : queue'[i] = queue[i + 1]
  BY <1>1, HandledBehind DEF HandledTo
<1>3. /\ queue' \in Seq(Event) /\ Len(queue') = Len(queue) - 1 /\ Len(queue') \in Nat
      /\ DOMAIN queue' = 1..Len(queue')
      /\ \A i \in 1..Len(queue') : i + 1 \in 1..Len(queue) /\ queue'[i].kind = queue[i + 1].kind
  BY <1>1, <1>2 DEF Behind
<1>4. /\ screen' = new /\ new \in Screens /\ (new \in Cards => new = screen)
      /\ armed' = IF Scene[new] = Scene[screen] THEN held ELSE NoButton
      /\ IF Scene[new] = Scene[screen]
         THEN since' = since /\ spent' = spent /\ hitched' = hitched
         ELSE since' = 0 /\ spent' = 0 /\ hitched' = FALSE
  BY <1>1 DEF HandledTo, Switch, SwitchClock, clock, Leads, TypeOK
<1>5. /\ touch' = NoTouch <=> touch = NoTouch
      /\ Scene[new] = Scene[screen] => (touch' = "past" <=> touch = "past")
      /\ touch' \in Aims \cup {NoTouch}
  <2>1. CASE touch = NoTouch
    BY <2>1 DEF HandledTo, AgedTouch, NoTouch
  <2>2. CASE touch # NoTouch
    <3>1. touch \in Aims /\ touch' = Aged(touch, new)
      BY <1>1, <2>2 DEF TypeOK, HandledTo, AgedTouch
    <3> QED BY <2>2, <3>1, AgedAim DEF Aims, NoTouch
  <2> QED BY <2>1, <2>2
<1>6. /\ drawn \in Aims /\ drawn' \in Aims
      /\ Scene[new] = Scene[screen] => (drawn' = "past" <=> drawn = "past")
      /\ new = screen => drawn' = drawn
  <2>1. drawn \in Aims /\ drawn' = Aged(drawn, new)
    BY <1>1 DEF TypeOK, HandledTo
  <2> QED BY <2>1, AgedAim
<1>7. TypeOK'
  <2>1. armed' \in Buttons \cup {NoButton}
    BY <1>1, <1>4, Tables DEF HandledTo, TypeOK
  <2>2. {since', spent'} \subseteq 0..Debounce
    <3>1. since \in 0..Debounce /\ spent \in 0..Debounce /\ 0 \in 0..Debounce
      BY <1>1 DEF TypeOK
    <3>2. since' \in 0..Debounce /\ spent' \in 0..Debounce
      BY <1>4, <3>1
    <3> QED BY <3>2
  <2>3. hitched' \in BOOLEAN
    BY <1>1, <1>4, Zenon DEF TypeOK
  <2>4. batch' \in 0..Len(queue') /\ Len(queue') <= MaxQueue
    BY <1>1, <1>3, QueueAssumption DEF TypeOK
  <2> QED BY <1>1, <1>3, <1>4, <1>5, <1>6, <2>1, <2>2, <2>3, <2>4 DEF TypeOK
<1>8. HeldIsHere'
  <2> SUFFICES ASSUME armed' # NoButton
               PROVE  \E s \in Screens : Scene[s] = Scene[screen'] /\ armed' \in ButtonsOn[s]
    BY DEF HeldIsHere
  <2>1. Scene[new] = Scene[screen] /\ armed' = held /\ held # NoButton
    BY <1>4
  <2>2. CASE held = armed
    BY <1>4, <2>1, <2>2 DEF Inv, HeldIsHere
  <2>3. CASE held \in ButtonsOn[screen]
    BY <1>1, <1>4, <2>1, <2>3 DEF TypeOK
  <2> QED BY <2>1, <2>2, <2>3 DEF HandledTo
<1>9. ASSUME NEW n \in Nat PROVE Lifts(queue, touch, n + 1) <=> Lifts(queue', touch', n)
  BY <1>2, <1>5, <1>9, LiftsBehind
<1>10. ASSUME NEW n \in Nat, Scene[new] = Scene[screen], LiftsHere(queue, touch, n + 1)
       PROVE  LiftsHere(queue', touch', n)
  BY <1>2, <1>5, <1>10, LiftsHereBehind
<1>11. Held' /\ HeldHere'
  <2> SUFFICES ASSUME armed' # NoButton
               PROVE  /\ Lifts(queue', touch', 0)
                      /\ Scene[screen'] # "world" /\ ~hitched' => LiftsHere(queue', touch', 0)
    BY DEF Held, HeldHere
  <2>1. Scene[new] = Scene[screen] /\ armed' = held /\ held # NoButton /\ hitched' = hitched
    BY <1>4
  <2>2. /\ Lifts(queue, touch, 1)
        /\ Scene[screen] # "world" /\ ~hitched => LiftsHere(queue, touch, 1)
    <3>1. CASE held = armed /\ ~Up(queue, 1)
      BY <1>1, <2>1, <3>1, LiftsPastHead DEF Inv, Held, HeldHere
    <3>2. CASE /\ queue[1].kind = "down"
               /\ Scene[screen] # "world" /\ ~hitched => queue[1].aim # "past"
      BY <1>1, <3>2 DEF Inv, Paired, PairedHere
    <3> QED BY <2>1, <3>1, <3>2 DEF HandledTo
  <2>3. 0 \in Nat /\ 0 + 1 = 1
    OBVIOUS
  <2> QED BY <1>4, <1>9, <1>10, <2>1, <2>2, <2>3
<1>12. Paired'
  <2> SUFFICES ASSUME NEW n \in DOMAIN queue', queue'[n].kind = "down"
               PROVE  Lifts(queue', touch', n)
    BY DEF Paired
  <2>1. n \in Nat /\ n + 1 \in DOMAIN queue /\ queue[n + 1].kind = "down"
    BY <1>1, <1>3
  <2> QED BY <1>9, <2>1 DEF Inv, Paired
<1>13. PairedHere'
  <2> SUFFICES ASSUME Scene[screen'] # "world", NEW n \in DOMAIN queue',
                      queue'[n].kind = "down", queue'[n].aim # "past"
               PROVE  LiftsHere(queue', touch', n)
    BY DEF PairedHere
  <2>1. n \in Nat /\ n + 1 \in DOMAIN queue /\ queue[n + 1].kind = "down" /\ n \in 1..Len(queue')
    BY <1>1, <1>3
  <2>2. Scene[new] = Scene[screen]
    BY <1>2, <2>1
  <2>3. queue[n + 1].aim # "past" /\ Scene[screen] # "world"
    BY <1>2, <1>4, <2>1, <2>2 DEF SameScene
  <2> QED BY <1>10, <2>1, <2>2, <2>3 DEF Inv, PairedHere
<1>14. Timely'
  <2> SUFFICES ASSUME Scene[screen'] # "world", ~hitched' PROVE Timely'
    BY DEF Timely
  <2>1. CASE Scene[new] = Scene[screen]
    <3>1. since' = since /\ spent' = spent /\ ~hitched /\ polling' /\ Scene[screen] # "world"
      BY <1>1, <1>4, <2>1
    <3>2. 2 * spent' < Debounce /\ (drawn' = "past" => since' <= spent')
      BY <1>6, <2>1, <3>1 DEF Inv, Timely
    <3>3. ASSUME NEW n \in DOMAIN queue', StalePress(n)' PROVE InTime(n)'
      <4>1. n \in 1..Len(queue') /\ n + 1 \in DOMAIN queue /\ StalePress(n + 1)
        BY <1>1, <1>2, <1>3, <2>1, <3>3 DEF StalePress, SameScene
      <4>2. InTime(n + 1)
        BY <3>1, <4>1 DEF Inv, Timely
      <4>3. n \in Nat /\ (n + 1 > batch <=> n > batch')
        BY <1>1, <1>3, <4>1
      <4> QED BY <3>1, <4>2, <4>3 DEF InTime
    <3> QED BY <3>1, <3>2, <3>3 DEF Timely
  <2>2. CASE Scene[new] # Scene[screen]
    <3>1. since' = 0 /\ spent' = 0 /\ polling'
      BY <1>1, <1>4, <2>2
    <3> QED BY <1>1, <3>1 DEF Timely, InTime
  <2> QED BY <2>1, <2>2
<1>15. Idle'
  BY <1>1 DEF Idle
<1>16. CardSeen'
  <2> SUFFICES ASSUME screen' \in Cards PROVE CardSeen'
    BY DEF CardSeen
  <2>1. new = screen /\ screen \in Cards /\ screen' = screen
    BY <1>4
  <2>2. drawn' = "screen"
    BY <1>6, <2>1 DEF Inv, CardSeen
  <2>3. ASSUME NEW n \in DOMAIN queue', queue'[n].kind # "up", cardT > 0 \/ n > batch'
        PROVE  queue'[n].aim = "screen"
    <3>1. n \in 1..Len(queue') /\ n + 1 \in DOMAIN queue /\ queue'[n] = queue[n + 1]
      BY <1>1, <1>2, <1>3, <2>1
    <3>2. queue[n + 1].kind # "up" /\ (cardT > 0 \/ n + 1 > batch)
      BY <1>1, <2>3, <3>1
    <3> QED BY <1>1, <2>1, <3>1, <3>2 DEF Inv, CardSeen
  <2> QED BY <1>1, <2>2, <2>3 DEF CardSeen
<1> QED BY <1>7, <1>8, <1>11, <1>12, <1>13, <1>14, <1>15, <1>16 DEF Inv

(* Unless a frame has hung, the debounce outlasts every press that was aimed at
   the scene before. *)
LEMMA StaleIsSwallowed ==
  ASSUME Inv, polling, batch > 0, queue # <<>>, StalePress(1), Scene[screen] # "world",
         ~hitched
  PROVE  Swallows
<1>1. 1 \in DOMAIN queue /\ batch \in Nat /\ since \in Nat /\ spent \in Nat /\ Debounce \in Nat
  BY DebounceAssumption DEF Inv, TypeOK
<1>2. 2 * spent < Debounce /\ 2 * since < Debounce + 2 * spent
  BY <1>1 DEF Inv, Timely, InTime
<1> QED BY <1>1, <1>2 DEF Swallows

(* Each handler, as HandledTo has it. *)
LEMMA HandlerFacts ==
  ASSUME Inv, NEW kind, NEW new, Handle(kind, new)
  PROVE  /\ queue # <<>> /\ polling /\ batch > 0
         /\ queue[1] = Head(queue) /\ queue[1].kind = kind
         /\ screen \in Screens /\ armed \in Buttons \cup {NoButton}
         /\ \A held :
              /\ Switch(new, held) /\ Leads(screen, new)
              /\ \/ held = NoButton
                 \/ held = armed /\ ~Up(queue, 1)
                 \/ /\ held \in ButtonsOn[screen] /\ new = screen
                    /\ queue[1].kind = "down"
                    /\ Scene[screen] # "world" /\ ~hitched => queue[1].aim # "past"
              => HandledTo(new, held)
<1>1. queue \in Seq(Event) /\ batch \in 0..Len(queue) /\ polling /\ batch > 0
      /\ Head(queue).kind = kind
      /\ screen \in Screens /\ armed \in Buttons \cup {NoButton}
  BY DEF Handle, Inv, TypeOK
<1>2. queue # <<>> /\ queue[1] = Head(queue)
  BY <1>1
<1> QED BY <1>1, <1>2 DEF Handle, HandledTo

LEMMA PressHandled ==
  ASSUME Inv, Press
  PROVE  \E new, held : HandledTo(new, held)
<1>1. CASE Swallows /\ Handle("down", screen) /\ UNCHANGED <<screen, armed, clock>>
  <2>1. Switch(screen, armed) /\ Leads(screen, screen)
    BY <1>1 DEF Switch, SwitchClock, Leads
  <2>2. ~Up(queue, 1)
    BY <1>1, HandlerFacts DEF Up
  <2> QED BY <1>1, <2>1, <2>2, HandlerFacts
<1>2. ASSUME ~Swallows, NEW b \in ButtonsOn[screen], Handle("down", screen), armed' = b,
             UNCHANGED <<screen, clock>>
      PROVE  HandledTo(screen, b)
  <2>1. Switch(screen, b) /\ Leads(screen, screen)
    BY <1>2 DEF Switch, SwitchClock, Leads
  <2>2. queue[1].kind = "down" /\ queue # <<>> /\ polling /\ batch > 0
    BY <1>2, HandlerFacts
  <2>3. Scene[screen] # "world" /\ ~hitched => queue[1].aim # "past"
    BY <1>2, <2>2, StaleIsSwallowed DEF StalePress
  <2> QED BY <1>2, <2>1, <2>2, <2>3, HandlerFacts
<1>3. ASSUME NEW new \in {screen} \cup (IF Seen THEN Tapping[screen] ELSE {}),
             Handle("down", new), Switch(new, armed)
      PROVE  HandledTo(new, armed)
  <2>1. Leads(screen, new)
    BY <1>3, Targets, HandlerFacts DEF Leads
  <2>2. ~Up(queue, 1)
    BY <1>3, HandlerFacts DEF Up
  <2> QED BY <1>3, <2>1, <2>2, HandlerFacts
<1> QED BY <1>1, <1>2, <1>3 DEF Press

LEMMA ReleaseHandled ==
  ASSUME Inv, NEW new \in {screen} \cup Fires, Handle("up", new), Switch(new, NoButton)
  PROVE  HandledTo(new, NoButton)
<1>1. Leads(screen, new)
  BY Targets, HandlerFacts DEF Fires, Leads
<1> QED BY <1>1, HandlerFacts

LEMMA TypeHandled ==
  ASSUME Inv, Type
  PROVE  \E new, held : HandledTo(new, held)
<1> DEFINE held == IF screen = "quitAsk" THEN NoButton ELSE armed
<1>1. PICK new \in {screen} \cup (IF Seen THEN Typing[screen] ELSE {}) :
        Handle("key", new) /\ Switch(new, held)
  BY DEF Type
<1>2. Leads(screen, new)
  BY <1>1, Targets, HandlerFacts DEF Leads
<1>3. ~Up(queue, 1)
  BY <1>1, HandlerFacts DEF Up
<1>4. held = NoButton \/ held = armed
  OBVIOUS
<1> HIDE DEF held
<1> QED BY <1>1, <1>2, <1>3, <1>4, HandlerFacts

LEMMA HandlingInv == ASSUME Inv, Handling PROVE Inv'
<1>1. CASE Press
  BY <1>1, PressHandled, HandledInv
<1>2. CASE Release
  BY <1>2, ReleaseHandled, HandledInv DEF Release
<1>3. CASE Type
  BY <1>3, TypeHandled, HandledInv
<1> QED BY <1>1, <1>2, <1>3 DEF Handling

-----------------------------------------------------------------------------
(* A frame: the queue ages in its place. *)
LEMMA FrameInv == ASSUME Inv, Frame PROVE Inv'
<1>1. PICK new \in Updating[screen] :
        /\ IF screen = "loading" THEN Install(new) ELSE Switch(new, armed)
        /\ queue' = AgedQueue(queue, new)
        /\ touch' = AgedTouch(new)
        /\ cardT' = IF new \notin Cards \/ new # screen THEN 0
                    ELSE IF cardT < CardFrames THEN cardT + 1 ELSE cardT
  BY DEF Frame
<1>2. /\ TypeOK /\ queue \in Seq(Event) /\ Len(queue) \in Nat /\ DOMAIN queue = 1..Len(queue)
      /\ polling /\ batch = 0 /\ batch' = 0 /\ polling' = FALSE /\ drawn' = "screen"
  BY DEF Frame, Inv, TypeOK
<1>3. /\ Behind(queue, queue', 0)
      /\ Scene[new] = Scene[screen] => SameScene(queue, queue', 0)
      /\ Scene[new] # Scene[screen] => \A i \in 1..Len(queue) : queue'[i].aim = "past"
      /\ new = screen => \A i \in 1..Len(queue) : queue'[i] = queue[i]
  BY <1>1, <1>2, AgedBehind
<1>4. /\ queue' \in Seq(Event) /\ Len(queue') = Len(queue) /\ DOMAIN queue' = 1..Len(queue)
      /\ \A i \in 1..Len(queue) : i + 0 = i /\ queue'[i].kind = queue[i].kind
  BY <1>2, <1>3 DEF Behind
<1>5. /\ new \in Screens /\ screen' = new
      /\ screen # "loading" => Scene[new] = Scene[screen]
      /\ screen = "loading" => new = screen \/ Scene[new] = "world"
      /\ armed' = armed /\ since' = since /\ spent' = spent /\ hitched' = hitched
  <2>1. /\ new \in Screens
        /\ screen # "loading" => Scene[new] = Scene[screen]
        /\ screen = "loading" => new = screen \/ Scene[new] = "world"
    BY <1>2, Updates DEF TypeOK
  <2> QED BY <1>1, <2>1 DEF Install, Switch, SwitchClock, clock
<1>6. Scene[new] # Scene[screen] => armed = NoButton /\ Scene[new] = "world"
  <2>1. SUFFICES ASSUME screen = "loading" PROVE armed = NoButton
    BY <1>5
  <2>2. \A s \in Screens : Scene[s] = Scene[screen] => ButtonsOn[s] = {}
    BY <2>1, Tables
  <2> QED BY <2>2 DEF Inv, HeldIsHere
<1>7. /\ touch' = NoTouch <=> touch = NoTouch
      /\ Scene[new] = Scene[screen] => (touch' = "past" <=> touch = "past")
      /\ touch' \in Aims \cup {NoTouch}
  <2>1. CASE touch = NoTouch
    BY <1>1, <2>1 DEF AgedTouch, NoTouch
  <2>2. CASE touch # NoTouch
    <3>1. touch \in Aims /\ touch' = Aged(touch, new)
      BY <1>1, <1>2, <2>2 DEF TypeOK, AgedTouch
    <3> QED BY <2>2, <3>1, AgedAim DEF Aims, NoTouch
  <2> QED BY <2>1, <2>2
<1>8. TypeOK'
  <2>1. cardT' \in 0..CardFrames
    BY <1>1, <1>2, CardAssumption DEF TypeOK
  <2>2. batch' \in 0..Len(queue') /\ drawn' \in Aims
    BY <1>2, <1>4 DEF Aims
  <2> QED BY <1>2, <1>4, <1>5, <1>7, <2>1, <2>2 DEF TypeOK
<1>9. HeldIsHere'
  BY <1>5, <1>6 DEF Inv, HeldIsHere
<1>10. ASSUME NEW n \in Nat PROVE Lifts(queue, touch, n) <=> Lifts(queue', touch', n)
  <2>1. n + 0 = n
    OBVIOUS
  <2> QED BY <1>3, <1>7, <2>1, LiftsBehind
<1>11. ASSUME NEW n \in Nat, Scene[new] = Scene[screen], LiftsHere(queue, touch, n)
       PROVE  LiftsHere(queue', touch', n)
  <2>1. n + 0 = n
    OBVIOUS
  <2> QED BY <1>3, <1>7, <1>11, <2>1, LiftsHereBehind
<1>12. Held' /\ HeldHere'
  BY <1>5, <1>6, <1>10, <1>11 DEF Inv, Held, HeldHere
<1>13. Paired'
  BY <1>2, <1>4, <1>10 DEF Inv, Paired
<1>14. PairedHere'
  <2> SUFFICES ASSUME Scene[screen'] # "world", NEW n \in DOMAIN queue',
                      queue'[n].kind = "down", queue'[n].aim # "past"
               PROVE  LiftsHere(queue', touch', n)
    BY DEF PairedHere
  <2>1. Scene[new] = Scene[screen] /\ Scene[screen] # "world"
    BY <1>5, <1>6
  <2>2. n \in 1..Len(queue) /\ n \in Nat /\ queue[n].kind = "down" /\ queue[n].aim # "past"
    BY <1>2, <1>3, <1>4, <2>1 DEF SameScene
  <2> QED BY <1>2, <1>11, <2>1, <2>2 DEF Inv, PairedHere
<1>15. Timely'
  <2> SUFFICES ASSUME Scene[screen'] # "world", ~hitched' PROVE Timely'
    BY DEF Timely
  <2>1. Scene[new] = Scene[screen] /\ Scene[screen] # "world" /\ ~hitched
    BY <1>5, <1>6
  <2>2. ASSUME NEW n \in DOMAIN queue', StalePress(n)' PROVE InTime(n)'
    <3>1. n \in 1..Len(queue) /\ StalePress(n)
      BY <1>3, <1>4, <2>1, <2>2 DEF StalePress, SameScene
    <3>2. InTime(n)
      BY <1>2, <2>1, <3>1 DEF Inv, Timely
    <3> QED BY <1>2, <1>5, <3>2 DEF InTime
  <2>3. 2 * spent < Debounce
    BY <2>1 DEF Inv, Timely
  <2> QED BY <1>2, <1>5, <2>2, <2>3 DEF Timely
<1>16. CardSeen'
  <2> SUFFICES ASSUME screen' \in Cards, NEW n \in DOMAIN queue', queue'[n].kind # "up",
                      cardT' > 0
               PROVE  queue'[n].aim = "screen"
    BY <1>2 DEF CardSeen
  <2>1. new = screen /\ screen \in Cards
    BY <1>1, <1>5
  <2>2. n \in 1..Len(queue) /\ n > batch /\ queue'[n] = queue[n]
    BY <1>2, <1>3, <1>4, <2>1
  <2> QED BY <1>2, <2>1, <2>2 DEF Inv, CardSeen
<1> QED BY <1>2, <1>8, <1>9, <1>12, <1>13, <1>14, <1>15, <1>16 DEF Inv, Idle

LEMMA NextInv == Inv /\ [Next]_vars => Inv'
<1> SUFFICES ASSUME Inv, [Next]_vars PROVE Inv'
  OBVIOUS
<1>1. CASE Next
  BY <1>1, InputInv, TickInv, PumpInv, HandlingInv, FrameInv DEF Next, Handling
<1>2. CASE UNCHANGED vars
  BY <1>2 DEF vars, clock, input, Inv, TypeOK, HeldIsHere, Held, Paired, HeldHere, PairedHere,
     Timely, InTime, StalePress, Idle, CardSeen
<1> QED BY <1>1, <1>2

LEMMA Invariance == Spec => []Inv
BY InitInv, NextInv, PTL DEF Spec

-----------------------------------------------------------------------------
LEMMA StaleTap ==
  ASSUME Inv, Handling, Head(queue).aim = "past", Head(queue).kind # "key",
         Scene[screen] # "world", ~hitched
  PROVE  UNCHANGED <<screen, armed>>
<1>1. CASE Press
  <2>1. \E new : Handle("down", new)
    BY <1>1 DEF Press
  <2>2. Swallows
    BY <2>1, HandlerFacts, StaleIsSwallowed DEF StalePress
  <2> QED BY <1>1, <2>2 DEF Press
<1>2. CASE Release
  <2>1. PICK new \in {screen} \cup Fires : Handle("up", new) /\ Switch(new, NoButton)
    BY <1>2 DEF Release
  <2>2. queue # <<>> /\ Up(queue, 1) /\ queue[1].aim = "past" /\ queue \in Seq(Event)
        /\ screen \in Screens
    BY <2>1, HandlerFacts DEF Up, Inv, TypeOK
  <2>3. armed = NoButton
    <3>1. 1 \in DOMAIN queue /\ 1 > 0 /\ \A j \in DOMAIN queue : j >= 1
      BY <2>2
    <3>2. ~LiftsHere(queue, touch, 0)
      BY <2>2, <3>1 DEF LiftsHere
    <3> QED BY <3>2 DEF Inv, HeldHere
  <2>4. armed \notin ButtonsOn[screen]
    BY <2>2, <2>3, Tables
  <2>5. new = screen
    BY <2>1, <2>4 DEF Fires
  <2> QED BY <2>1, <2>3, <2>5 DEF Switch
<1>3. CASE Type
  BY <1>3 DEF Type, Handle
<1> QED BY <1>1, <1>2, <1>3 DEF Handling

LEMMA CardTap ==
  ASSUME Inv, Handling, screen \in Cards, screen' # screen
  PROVE  Head(queue).aim = "screen"
<1>1. ~Release
  <2> SUFFICES ASSUME NEW new \in {screen} \cup Fires, Handle("up", new), Switch(new, NoButton)
               PROVE  FALSE
    BY DEF Release
  <2>1. new = screen
    BY Tables DEF Fires
  <2> QED BY <2>1 DEF Switch
<1>2. Seen /\ \E kind \in {"down", "key"} : \E new : Handle(kind, new)
  BY <1>1 DEF Handling, Press, Type, Switch
<1>3. PICK kind \in {"down", "key"} : \E new : Handle(kind, new)
  BY <1>2
<1>4. queue # <<>> /\ queue[1] = Head(queue) /\ queue[1].kind = kind
  BY <1>3, HandlerFacts
<1>5. cardT > 0 /\ 1 \in DOMAIN queue
  BY <1>2, <1>4, CardAssumption DEF Seen, Inv, TypeOK
<1> QED BY <1>4, <1>5 DEF Inv, CardSeen

(* Type correctness; among it, that a frame never handles an event that is not
   there (love.run). *)
THEOREM TapsTypeCorrect == Spec => []TypeOK
BY Invariance, PTL DEF Inv

(* The state of the held button can't get stuck (retro.lua). *)
THEOREM NoButtonStuck == Spec => []NeverStuck
<1>1. Inv => NeverStuck
  BY DEF Inv, Held, Lifts, NeverStuck, Up
<1> QED BY <1>1, Invariance, PTL

(* No button of one scene is held in another (setScene's cancelPress). *)
THEOREM NoButtonLeftBehind == Spec => []HeldIsHere
BY Invariance, PTL DEF Inv

(* The debounce and cancelPress together keep a tap in its scene until a frame
   has hung for half the debounce since the scene changed, whatever the queue
   holds: this, and no interleaving of frames, events and screens, is how one
   gets through (Game:mousepressed, Game:setScene). *)
THEOREM TapsStayInTheirScene == Spec => OnlyAHitchLetsThrough
<1>1. Inv /\ [Next]_vars =>
        [/\ Handling /\ Head(queue).aim = "past" /\ Head(queue).kind # "key"
         /\ Scene[screen] # "world"
         /\ ~hitched
         => UNCHANGED <<screen, armed>>]_vars
  BY StaleTap
<1> QED BY <1>1, Invariance, PTL DEF Spec, OnlyAHitchLetsThrough

(* A card is seen before it goes, for any length of frame and of its wait
   (MapReveal:mousepressed, WinScreen:mousepressed). *)
THEOREM CardsSeenFirst == Spec => CardsAreSeen
<1>1. Inv /\ [Next]_vars =>
        [Handling /\ screen \in Cards /\ screen' # screen => Head(queue).aim = "screen"]_vars
  BY CardTap
<1> QED BY <1>1, Invariance, PTL DEF Spec, CardsAreSeen
=============================================================================
