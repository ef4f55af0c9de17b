-------------------------- MODULE Harbour_proofs --------------------------
(***************************************************************************)
(* The safety properties of Harbour, for any maps, capacity and bounds.    *)
(* What the properties leave out and a step needs to know: a hold that     *)
(* offers a job is empty (Berthed), and no job aboard has the number of    *)
(* the next one (Manifest).  Then the jobs as a refinement, the variant    *)
(* behind GlideEnds, and the one cause of the dock that opens where the    *)
(* boat has not been (HarbourVisits).                                      *)
(***************************************************************************)
EXTENDS HarbourVisits, TLAPS, FiniteSetTheorems

(* OneModal, pair by pair. *)
Alone ==
  /\ pause => ~album /\ ~card /\ ~finale /\ ~Docked
  /\ album => ~card /\ ~finale /\ ~Docked
  /\ card => ~finale /\ ~Docked
  /\ finale => ~Docked

Berthed ==
  scene = "world" =>
    /\ Docked => dock.port \in Port
    /\ dock.mode = "offer" => cargo = {}

Manifest ==
  /\ IsFiniteSet(cargo)
  /\ \A j \in cargo : j.job <= taken

(* The screen is true, with no word on the scene. *)
TrueToWorld ==
  /\ dock.mode = "offer" => /\ dock.offer = offers[dock.port]
                            /\ dock.offer # NoPort
                            /\ HasRoom(cargo)
                            /\ ~hunt
  /\ dock.mode = "busy" => cargo # {} /\ \A j \in cargo : j.to # dock.port
  /\ dock.mode = "findfirst" => hunt
  /\ Docked => BoundFor(dock.port) = {}

Inv ==
  /\ TypeOK
  /\ scene = "world" => Alone
  /\ OneJob
  /\ scene = "world" => TrueToWorld
  /\ JobsAddUp
  /\ Berthed
  /\ Manifest

-----------------------------------------------------------------------------
LEMMA NoModalAlone == NoModal => Alone /\ ~Docked
BY DEF NoModal, Alone

LEMMA AloneIsOneModal == OneModal <=> (scene = "world" => Alone)
<1> DEFINE o == <<pause, album, card, finale, Docked>>
<1>1. /\ DOMAIN o = {1, 2, 3, 4, 5}
      /\ o[1] = pause /\ o[2] = album /\ o[3] = card /\ o[4] = finale /\ o[5] = Docked
  OBVIOUS
<1>2. OneModal <=>
        (scene = "world" => \A k, l \in DOMAIN o : o[k] /\ o[l] => k = l)
  BY DEF OneModal
<1> HIDE DEF o
<1>3. (\A k, l \in DOMAIN o : o[k] /\ o[l] => k = l) <=> Alone
  BY <1>1 DEF Alone
<1> QED BY <1>2, <1>3

LEMMA NoDockFacts == ~Docked => dock.mode = "none"
BY DEF Docked, NoDock

(* The jobs of a finite hold are counted by parts. *)
LEMMA Unloading ==
  ASSUME NEW load, IsFiniteSet(load), NEW part \in SUBSET load
  PROVE  /\ IsFiniteSet(load \ part)
         /\ Aboard(load) \in Nat /\ Aboard(part) \in Nat /\ Aboard(load \ part) \in Nat
         /\ Aboard(load \ part) + Aboard(part) = Aboard(load)
         /\ Aboard(load \ part) <= Aboard(load)
<1>1. load \cap part = part
  OBVIOUS
<1>2. /\ IsFiniteSet(load \ part)
      /\ Cardinality(load \ part) = Cardinality(load) - Cardinality(part)
  BY <1>1, FS_Difference
<1>3. IsFiniteSet(part)
  BY FS_Subset
<1> QED BY <1>2, <1>3, FS_CardinalityType DEF Aboard

(* What never changes once the counters are right: they stay below the bound. *)
LEMMA Counters ==
  ASSUME NEW t \in 0..MaxJobs, NEW a \in Nat, NEW p \in Nat, NEW d \in Nat, t = a + p + d
  PROVE  {t, p, d} \subseteq 0..MaxJobs
<1>1. MaxJobs \in Nat
  BY BoundsAssumption
<1>2. p <= t /\ d <= t /\ t <= MaxJobs
  BY <1>1
<1> QED BY <1>1, <1>2

LEMMA InitInv == Init => Inv
<1> SUFFICES ASSUME Init PROVE Inv
  OBVIOUS
<1> USE DEF Init
<1>1. TypeOK
  <2>1. 0 \in 0..LatchFrames /\ 0 \in 0..MaxJobs
    BY BoundsAssumption
  <2>2. dock \in [mode : {"none", "deliver", "busy", "offer", "visit", "findfirst"},
                  port : Somewhere, offer : Somewhere]
    BY DEF NoDock, Somewhere
  <2> QED BY <2>1, <2>2 DEF TypeOK, Somewhere
<1>2. Aboard(cargo) = 0 /\ IsFiniteSet(cargo)
  BY FS_EmptySet DEF Aboard
<1> QED BY <1>1, <1>2 DEF Inv, OneJob, JobsAddUp, Berthed, Manifest

-----------------------------------------------------------------------------
(* Steps that leave the jobs, the hunt and the dock alone. *)

Kept ==
  UNCHANGED <<ports, near, latching, latchT, suppress, offers, cargo, taken, paid, dropped,
              hunt, dock>>

LEMMA KeptInv ==
  ASSUME Inv, Kept, scene' \in {"menu", "world"}, scene' = "world" => scene = "world",
         {pending', pause', album', card', finale', armed'} \subseteq BOOLEAN,
         scene' = "world" => Alone'
  PROVE  Inv'
<1>1. TypeOK' /\ OneJob' /\ JobsAddUp' /\ Manifest'
  BY DEF Kept, Inv, TypeOK, OneJob, JobsAddUp, Manifest
<1>2. ASSUME scene' = "world" PROVE TrueToWorld' /\ Berthed'
  <2>1. TrueToWorld /\ Berthed /\ scene = "world"
    BY <1>2 DEF Inv
  <2> QED BY <2>1 DEF Kept, TrueToWorld, Berthed, Docked, BoundFor
<1>3. Berthed'
  BY <1>2 DEF Berthed
<1> QED BY <1>1, <1>2, <1>3 DEF Inv

LEMMA LeaveInv ==
  ASSUME Inv, ExitToMenu \/ CloseWinScreen
  PROVE  Inv'
<1>1. Kept /\ scene' = "menu"
  BY DEF ExitToMenu, CloseWinScreen, LeaveWorld, Kept, sea, jobs, treasure
<1>2. {pending', pause', album', card', finale', armed'} \subseteq BOOLEAN
  BY DEF ExitToMenu, CloseWinScreen, LeaveWorld, treasure, Inv, TypeOK
<1> QED BY <1>1, <1>2, KeptInv

LEMMA OverlayInv ==
  ASSUME Inv,
         Escape \/ ClosePause \/ PressPlaque \/ ReleasePlaque
           \/ OpenAlbum \/ CloseAlbum \/ CloseMapReveal
  PROVE  Inv'
<1> USE DEF Rest, sea, jobs, treasure
<1>1. Kept /\ scene' = scene /\ scene = "world" /\ pending' = pending /\ finale' = finale
      /\ (Docked <=> Docked')
  BY DEF Escape, ClosePause, PressPlaque, ReleasePlaque, OpenAlbum, CloseAlbum,
     CloseMapReveal, Kept, AtSea, Docked
<1>2. Alone /\ {pause, album, card, finale, armed, pending} \subseteq BOOLEAN
  BY <1>1 DEF Inv, TypeOK
<1>3. pause' \in BOOLEAN /\ album' \in BOOLEAN /\ card' \in BOOLEAN /\ armed' \in BOOLEAN
  <2>1. CASE Escape \/ ClosePause \/ ReleasePlaque
    BY <2>1, <1>2 DEF Escape, ClosePause, ReleasePlaque, OpenPause
  <2>2. CASE PressPlaque \/ OpenAlbum \/ CloseAlbum \/ CloseMapReveal
    BY <2>2, <1>2 DEF PressPlaque, OpenAlbum, CloseAlbum, CloseMapReveal
  <2> QED BY <2>1, <2>2
<1>4. /\ card' => card
      /\ album' => album \/ (NoModal /\ ~card' /\ ~pause')
      /\ pause' => pause \/ ~(Docked \/ album' \/ card' \/ finale)
  <2>1. CASE Escape
    <3>1. (album' <=> album) /\ (card' <=> card)
      BY <2>1, <1>2, <1>3 DEF Escape
    <3> QED BY <2>1, <3>1, Zenon DEF Escape, OpenPause
  <2>2. CASE ReleasePlaque
    <3>1. (album' <=> album) /\ (card' <=> card) /\ (OpenPause \/ (pause' <=> pause))
      BY <2>2, <1>2, <1>3 DEF ReleasePlaque
    <3> QED BY <2>2, <3>1, Zenon DEF OpenPause
  <2>3. CASE ClosePause \/ PressPlaque \/ CloseAlbum \/ CloseMapReveal
    <3>1. (album' => album) /\ (card' => card) /\ (pause' => pause)
      BY <2>3, <1>2, <1>3 DEF ClosePause, PressPlaque, CloseAlbum, CloseMapReveal
    <3> QED BY <3>1, Zenon
  <2>4. CASE OpenAlbum
    <3>1. (card' <=> card) /\ (pause' <=> pause)
      BY <2>4, <1>2, <1>3 DEF OpenAlbum
    <3> QED BY <2>4, <3>1, Zenon DEF OpenAlbum, AtSea, NoModal
  <2> QED BY <2>1, <2>2, <2>3, <2>4
<1>5. Alone'
  <2>1. ASSUME pause' PROVE ~album' /\ ~card' /\ ~finale' /\ ~Docked'
    BY <2>1, <1>1, <1>2, <1>4, Zenon DEF Alone, NoModal
  <2>2. ASSUME album' PROVE ~card' /\ ~finale' /\ ~Docked'
    BY <2>2, <1>1, <1>2, <1>4, Zenon DEF Alone, NoModal
  <2>3. (card' => ~finale' /\ ~Docked') /\ (finale' => ~Docked')
    BY <1>1, <1>2, <1>4, Zenon DEF Alone
  <2> QED BY <2>1, <2>2, <2>3, Zenon DEF Alone
<1> QED BY <1>1, <1>2, <1>3, <1>5, KeptInv DEF Inv, TypeOK

(* A frame that only shows the deferred card. *)
LEMMA ShowCardInv == ASSUME Inv, ShowCard PROVE Inv'
<1>1. Kept /\ scene' = "world" /\ scene = "world"
  BY DEF ShowCard, AtSea, Kept, sea, jobs
<1>2. {pause, album, card, finale, armed, pending} \subseteq BOOLEAN
  BY DEF Inv, TypeOK
<1>3. Alone' /\ {pending', pause', album', card', finale', armed'} \subseteq BOOLEAN
  BY <1>2 DEF ShowCard, AtSea, NoModal, Alone, Docked
<1> QED BY <1>1, <1>3, KeptInv

(* A map is loaded into an empty world; what was aboard is lost. *)
LEMMA LoadInv == ASSUME Inv, LoadWorld PROVE Inv'
<1> USE DEF LoadWorld
<1>1. PICK m \in Map :
        /\ ports' = PortsOf[m]
        /\ offers' \in {o \in [Port -> Somewhere] : \A p \in Port :
             IF p \in PortsOf[m] THEN o[p] \in MakeOffer(PortsOf[m], p)
             ELSE o[p] = NoPort}
  OBVIOUS
<1>2. ports' \in SUBSET Port /\ \A p \in ports' : offers'[p] \in ports' \ {p}
  BY <1>1, PortsAssumption DEF MakeOffer
<1>3. offers' \in [Port -> Somewhere]
  BY <1>1
<1>4. Aboard(cargo) \in Nat /\ Aboard(cargo') = 0 /\ IsFiniteSet(cargo')
  BY FS_EmptySet, FS_CardinalityType DEF Inv, Manifest, Aboard
<1>5. taken \in 0..MaxJobs /\ paid \in Nat /\ dropped \in Nat /\ dropped' \in Nat
      /\ taken' = taken /\ paid' = paid
  BY <1>4, BoundsAssumption DEF Inv, TypeOK
<1>6. JobsAddUp'
  BY <1>4, <1>5 DEF Inv, JobsAddUp
<1>7. {taken', paid', dropped'} \subseteq 0..MaxJobs
  <2>1. taken' = 0 + paid' + dropped'
    BY <1>4, <1>6 DEF JobsAddUp
  <2> QED BY <1>5, <2>1, Counters
<1>8. dock' = NoDock /\ NoDock.mode = "none" /\ ~Docked'
      /\ NoDock \in [mode : {"none", "deliver", "busy", "offer", "visit", "findfirst"},
                      port : Somewhere, offer : Somewhere]
  BY DEF NoDock, Somewhere, Docked
<1>9. TypeOK'
  BY <1>2, <1>3, <1>7, <1>8 DEF Inv, TypeOK, Somewhere
<1>10. Alone' /\ TrueToWorld' /\ Berthed'
  BY <1>8 DEF Alone, TrueToWorld, Berthed
<1>11. OneJob' /\ Manifest'
  BY <1>4 DEF OneJob, Manifest
<1> QED BY <1>6, <1>9, <1>10, <1>11 DEF Inv

-----------------------------------------------------------------------------
(* In harbour. *)

Ashore ==
  /\ OneJob' /\ JobsAddUp' /\ Manifest'
  /\ cargo' \in SUBSET Jobs
  /\ {taken', paid', dropped'} \subseteq 0..MaxJobs

Moored ==
  /\ dock' \in [mode : {"none", "deliver", "busy", "offer", "visit", "findfirst"},
               port : Somewhere, offer : Somewhere]
  /\ dock'.port \in Port
  /\ dock'.mode = "offer" => cargo' = {}
  /\ TrueToWorld'
  /\ hunt' \in BOOLEAN /\ pending' \in BOOLEAN
  /\ suppress' \in Somewhere

(* What is bound for the port comes ashore and is paid. *)
LEMMA DeliverAddsUp ==
  ASSUME Inv, NEW p, TryDeliver(p), taken' = taken, dropped' = dropped
  PROVE  Ashore
<1> DEFINE left == cargo \ BoundFor(p)
<1>1. IsFiniteSet(cargo) /\ BoundFor(p) \in SUBSET cargo
  BY DEF Inv, Manifest, BoundFor
<1>2. /\ IsFiniteSet(left)
      /\ Aboard(cargo) \in Nat /\ Aboard(BoundFor(p)) \in Nat /\ Aboard(left) \in Nat
      /\ Aboard(left) + Aboard(BoundFor(p)) = Aboard(cargo)
      /\ Aboard(left) <= Aboard(cargo)
  BY <1>1, Unloading
<1>3. cargo' = left /\ paid' = paid + Aboard(BoundFor(p)) /\ left \subseteq cargo
  BY DEF TryDeliver
<1> HIDE DEF left
<1>4. taken \in 0..MaxJobs /\ paid \in Nat /\ dropped \in Nat /\ paid' \in Nat
  BY <1>2, <1>3, BoundsAssumption DEF Inv, TypeOK
<1>5. taken' = Aboard(left) + paid' + dropped'
  BY <1>2, <1>3, <1>4 DEF Inv, JobsAddUp
<1>6. {taken', paid', dropped'} \subseteq 0..MaxJobs
  BY <1>2, <1>4, <1>5, Counters
<1>7. OneJob' /\ JobsAddUp'
  BY <1>2, <1>3, <1>5 DEF Inv, OneJob, JobsAddUp
<1>8. Manifest' /\ cargo' \in SUBSET Jobs
  BY <1>2, <1>3 DEF Inv, Manifest, TypeOK
<1> QED BY <1>6, <1>7, <1>8 DEF Ashore

(* The screen opens on the world as the delivery left it. *)
LEMMA OpenDockMoors ==
  ASSUME Inv, NEW p \in Port, OpenDock(p), offers' = offers
  PROVE  Moored
<1> DEFINE mode == DockMode(p)
<1>1. /\ cargo' = cargo \ BoundFor(p)
      /\ dock' = [mode |-> mode, port |-> p,
                  offer |-> IF mode = "offer" THEN offers[p] ELSE NoPort]
      /\ suppress' = p
      /\ \/ mode = "deliver" /\ ~hunt /\ hunt' = TRUE /\ pending' = TRUE
         \/ hunt' = hunt /\ pending' = pending
  BY DEF OpenDock, TryDeliver, treasure
<1>2. /\ mode \in {"deliver", "busy", "offer", "visit", "findfirst"}
      /\ mode = "offer" => /\ BoundFor(p) = {} /\ ~hunt /\ cargo' = {}
                           /\ offers[p] # NoPort /\ HasRoom(cargo')
      /\ mode = "busy" => cargo' # {} /\ BoundFor(p) = {}
      /\ mode = "findfirst" => hunt
  BY DEF DockMode
<1> HIDE DEF mode
<1>3. offers \in [Port -> Somewhere] /\ hunt \in BOOLEAN /\ pending \in BOOLEAN
  BY DEF Inv, TypeOK
<1>4. dock' \in [mode : {"none", "deliver", "busy", "offer", "visit", "findfirst"},
                port : Somewhere, offer : Somewhere]
      /\ dock'.port = p /\ dock'.mode = mode
      /\ (mode = "offer" => dock'.offer = offers[p])
  BY <1>1, <1>2, <1>3 DEF Somewhere
<1>5. BoundFor(p)' = {} /\ (BoundFor(p) = {} => \A j \in cargo' : j.to # p)
  BY <1>1 DEF BoundFor
<1>6. hunt' \in BOOLEAN /\ pending' \in BOOLEAN /\ (mode # "deliver" => hunt' = hunt)
  BY <1>1, <1>3
<1>7. mode = "offer" => ~hunt'
  BY <1>1, <1>2, <1>3
<1>8. mode = "findfirst" => hunt'
  BY <1>1, <1>2, <1>3
<1>9. HasRoom(cargo)' <=> HasRoom(cargo')
  BY DEF HasRoom, Aboard
<1>10. TrueToWorld'
  <2>1. dock'.mode = "offer" => /\ dock'.offer = offers'[dock'.port]
                                /\ dock'.offer # NoPort
                                /\ HasRoom(cargo')
                                /\ ~hunt'
    BY <1>2, <1>4, <1>7
  <2>2. dock'.mode = "busy" => cargo' # {} /\ \A j \in cargo' : j.to # dock'.port
    BY <1>2, <1>4, <1>5
  <2>3. dock'.mode = "findfirst" => hunt'
    BY <1>4, <1>8
  <2>4. BoundFor(dock.port)' = {}
    BY <1>4, <1>5 DEF BoundFor
  <2> QED BY <2>1, <2>2, <2>3, <2>4, <1>9 DEF TrueToWorld
<1> QED BY <1>1, <1>2, <1>4, <1>6, <1>10 DEF Moored, Somewhere

(* A screen is the only overlay, and the world behind it stays. *)
LEMMA MooredInv ==
  ASSUME Inv, Ashore, Moored, scene' = "world", ports' = ports, offers' = offers,
         near' \in Somewhere, latching' \in Somewhere, latchT' \in 0..LatchFrames,
         ~pause, ~album, ~card, ~finale,
         UNCHANGED <<pause, album, card, finale, armed>>
  PROVE  Inv'
<1>1. TypeOK'
  BY DEF Inv, TypeOK, Ashore, Moored
<1>2. Alone'
  <2>1. ~pause' /\ ~album' /\ ~card' /\ ~finale'
    OBVIOUS
  <2> QED BY <2>1, Zenon DEF Alone
<1> QED BY <1>1, <1>2 DEF Inv, Ashore, Moored, Berthed

(* The glide ends in a berth. *)
LEMMA ParkInv == ASSUME Inv, ParkAndDock PROVE Inv'
<1>1. /\ scene' = "world" /\ ports' = ports /\ offers' = offers /\ taken' = taken
      /\ dropped' = dropped
      /\ latching' \in Somewhere /\ latchT' \in 0..LatchFrames
      /\ OpenDock(latching) /\ latching \in Port
      /\ UNCHANGED <<pause, album, card, finale, armed>>
  BY BoundsAssumption DEF ParkAndDock, AtSea, Inv, TypeOK, Somewhere
<1>2. near' \in Somewhere
  BY DEF ParkAndDock, MovesLatched, Moves, Inv, TypeOK, Somewhere
<1>3. ~pause /\ ~album /\ ~card /\ ~finale
  BY DEF ParkAndDock, AtSea, NoModal
<1>4. Ashore /\ Moored
  BY <1>1, DeliverAddsUp, OpenDockMoors DEF OpenDock
<1> QED BY <1>1, <1>2, <1>3, <1>4, MooredInv

(* "Kast loss" and "Ta oppdrag". *)
LEMMA CastOffInv == ASSUME Inv, CastOff PROVE Inv'
<1>1. /\ scene = "world" /\ Docked
      /\ scene' = scene /\ ports' = ports /\ dropped' = dropped
      /\ UNCHANGED <<near, latching, latchT, pause, album, card, finale, armed>>
      /\ dock.mode = "offer" => taken < MaxJobs
      /\ ~pause /\ ~album /\ ~card /\ ~finale
  BY DEF CastOff, Focus
<1>2. TypeOK /\ Berthed /\ JobsAddUp /\ OneJob /\ Manifest /\ dock.port \in Port
  BY <1>1 DEF Inv, Berthed
<1>3. CASE OpenDock(dock.port) /\ UNCHANGED <<offers, taken>>
  <2>1. Ashore /\ Moored
    BY <1>1, <1>2, <1>3, DeliverAddsUp, OpenDockMoors DEF OpenDock
  <2> QED BY <1>1, <1>2, <1>3, <2>1, MooredInv DEF TypeOK
<1>4. CASE /\ dock' = NoDock /\ UNCHANGED <<paid, treasure, suppress>>
           /\ IF dock.mode = "offer" THEN TryPickup(dock.port)
              ELSE UNCHANGED <<cargo, offers, taken>>
  <2>1. ~Docked' /\ dock'.mode = "none"
        /\ dock' \in [mode : {"none", "deliver", "busy", "offer", "visit", "findfirst"},
                      port : Somewhere, offer : Somewhere]
    BY <1>4 DEF Docked, NoDock, Somewhere
  <2>2. /\ OneJob' /\ JobsAddUp' /\ Manifest' /\ cargo' \in SUBSET Jobs
        /\ taken' \in 0..MaxJobs /\ offers' \in [Port -> Somewhere]
        /\ \A p \in ports : offers'[p] \in ports \ {p}
    <3>1. CASE UNCHANGED <<cargo, offers, taken>>
      BY <3>1, <1>1, <1>2, <1>4 DEF TypeOK, OneJob, JobsAddUp, Manifest
    <3>2. CASE dock.mode = "offer" /\ ~UNCHANGED <<cargo, offers, taken>>
      <4> DEFINE new == [job |-> taken + 1, to |-> offers[dock.port]]
      <4>1. /\ cargo = {} /\ offers[dock.port] # NoPort
            /\ cargo' = cargo \cup {new} /\ taken' = taken + 1
            /\ \E d \in MakeOffer(ports, dock.port) :
                 offers' = [offers EXCEPT ![dock.port] = d]
        BY <3>2, <1>1, <1>2, <1>4 DEF TryPickup, Berthed
      <4>2. /\ taken \in 0..MaxJobs /\ taken < MaxJobs /\ MaxJobs \in Nat
            /\ offers \in [Port -> Somewhere] /\ offers[dock.port] \in Port
            /\ paid \in Nat /\ dropped \in Nat
        BY <3>2, <1>1, <1>2, <4>1, BoundsAssumption DEF TypeOK, Somewhere
      <4>3. new \in Jobs /\ taken' \in 0..MaxJobs /\ new.job = taken'
        BY <4>1, <4>2 DEF Jobs
      <4> HIDE DEF new
      <4>4. cargo' = {new}
        BY <4>1
      <4>5. IsFiniteSet(cargo') /\ Cardinality(cargo') = 1
        BY <4>4, FS_Singleton
      <4>6. OneJob' /\ JobsAddUp'
        <5>1. Cardinality(cargo) = 0
          BY <4>1, FS_EmptySet
        <5> QED BY <1>1, <1>2, <1>4, <4>1, <4>2, <4>5, <5>1 DEF OneJob, JobsAddUp, Aboard
      <4>7. Manifest' /\ cargo' \in SUBSET Jobs
        BY <4>2, <4>3, <4>4, <4>5 DEF Manifest
      <4>8. PICK d \in MakeOffer(ports, dock.port) :
              offers' = [offers EXCEPT ![dock.port] = d]
        BY <4>1
      <4>9. d \in ports \ {dock.port} /\ ports \subseteq Port
        BY <1>2 DEF MakeOffer, TypeOK
      <4>10. /\ offers' \in [Port -> Somewhere]
            /\ \A p \in ports : offers'[p] \in ports \ {p}
        BY <1>2, <4>2, <4>8, <4>9 DEF TypeOK, Somewhere
      <4> QED BY <4>3, <4>6, <4>7, <4>10
    <3> QED BY <1>4, <3>1, <3>2
  <2>3. {taken', paid', dropped'} \subseteq 0..MaxJobs
    BY <1>1, <1>2, <1>4, <2>2 DEF TypeOK
  <2>4. TypeOK'
    BY <1>1, <1>2, <1>4, <2>1, <2>2, <2>3 DEF TypeOK, treasure
  <2>5. Alone' /\ TrueToWorld' /\ Berthed'
    <3>1. ~pause' /\ ~album' /\ ~card' /\ ~finale'
      BY <1>1
    <3>2. Alone'
      BY <3>1, Zenon DEF Alone
    <3> QED BY <2>1, <3>2 DEF TrueToWorld, Berthed
  <2> QED BY <2>2, <2>4, <2>5 DEF Inv
<1> QED BY <1>3, <1>4 DEF CastOff

(* A frame under way touches neither the jobs nor the dock. *)
LEMMA SailInv == ASSUME Inv, SailOn PROVE Inv'
<1>1. /\ scene = "world" /\ scene' = scene /\ ports' = ports /\ dock' = dock
      /\ UNCHANGED <<offers, cargo, taken, paid, dropped, pending, pause, album, card, armed>>
      /\ ~pause /\ ~album /\ ~card /\ ~finale /\ ~Docked
  BY DEF SailOn, AtSea, NoModal, jobs
<1>2. near' \in Somewhere /\ latching' \in Somewhere /\ suppress' \in Somewhere
      /\ latchT' \in 0..LatchFrames /\ hunt' \in BOOLEAN /\ finale' \in BOOLEAN
  <2>1. TypeOK
    BY DEF Inv
  <2>2. PICK n \in IF latching = NoPort THEN Moves ELSE MovesLatched :
          /\ near' = n
          /\ IF latching # NoPort THEN
               /\ ~GlideTimesOut
               /\ latchT' = IF latchT < LatchFrames THEN latchT + 1 ELSE latchT
               /\ UNCHANGED <<latching, suppress>>
             ELSE IF n = NoPort THEN
               /\ suppress' = NoPort
               /\ UNCHANGED <<latching, latchT>>
             ELSE IF n # suppress THEN
               /\ latching' = n
               /\ latchT' = 0
               /\ UNCHANGED suppress
             ELSE UNCHANGED <<latching, latchT, suppress>>
    BY DEF SailOn
  <2>3. n \in Somewhere
    BY <2>1, <2>2 DEF Moves, MovesLatched, TypeOK, Somewhere
  <2>4. LatchFrames \in Nat /\ latchT \in 0..LatchFrames
    BY <2>1, BoundsAssumption DEF TypeOK
  <2>5. latchT' \in 0..LatchFrames
    BY <2>2, <2>4
  <2>6. latching' \in Somewhere /\ suppress' \in Somewhere
    BY <2>1, <2>2, <2>3 DEF TypeOK, Somewhere
  <2>7. hunt' \in BOOLEAN /\ finale' \in BOOLEAN
    BY DEF SailOn
  <2> QED BY <2>2, <2>3, <2>5, <2>6, <2>7
<1>3. TypeOK'
  BY <1>1, <1>2 DEF Inv, TypeOK
<1>4. Alone'
  <2>1. ~pause' /\ ~album' /\ ~card' /\ ~Docked'
    BY <1>1 DEF Docked
  <2> QED BY <2>1, Zenon DEF Alone
<1>5. TrueToWorld' /\ Berthed'
  <2>1. ~Docked' /\ dock'.mode = "none"
    BY <1>1, NoDockFacts DEF Docked
  <2> QED BY <2>1 DEF TrueToWorld, Berthed
<1>6. OneJob' /\ JobsAddUp' /\ Manifest'
  BY <1>1 DEF Inv, OneJob, JobsAddUp, Manifest
<1> QED BY <1>3, <1>4, <1>5, <1>6 DEF Inv

LEMMA NextInv == Inv /\ [Next]_vars => Inv'
<1> SUFFICES ASSUME Inv, [Next]_vars PROVE Inv'
  OBVIOUS
<1>1. CASE Next
  BY <1>1, LoadInv, LeaveInv, OverlayInv, ShowCardInv, CastOffInv, ParkInv, SailInv DEF Next
<1>2. CASE UNCHANGED vars
  BY <1>2 DEF vars, sea, jobs, treasure, Inv, TypeOK, Alone, Docked, OneJob, TrueToWorld,
     BoundFor, JobsAddUp, Berthed, Manifest
<1> QED BY <1>1, <1>2

LEMMA Invariance == Spec => []Inv
BY InitInv, NextInv, PTL DEF Spec

-----------------------------------------------------------------------------
(* Type correctness; among it, that no harbour of the map ever offers a job to
   itself (makeOffer), for any number of harbours. *)
THEOREM HarbourTypeCorrect == Spec => []TypeOK
BY Invariance, PTL DEF Inv

(* One overlay at a time, whichever of the ways to the pause menu is taken and
   whatever the world opens by itself meanwhile (World:openPause, World:update). *)
THEOREM NeverTwoOverlays == Spec => []OneModal
<1>1. Inv => OneModal
  BY AloneIsOneModal DEF Inv
<1> QED BY <1>1, Invariance, PTL

(* A single job aboard, for boats of any capacity (openDock, tryPickup). *)
THEOREM NeverTwoJobs == Spec => []OneJob
BY Invariance, PTL DEF Inv

(* The harbourmaster's screen never lies about the world (openDock). *)
THEOREM ScreensAreTrue == Spec => []ScreenIsTrue
<1>1. Inv => ScreenIsTrue
  BY DEF Inv, TrueToWorld, ScreenIsTrue
<1> QED BY <1>1, Invariance, PTL

(* No job is lost but with the boat, and none is paid twice (tryDeliver). *)
THEOREM EveryJobAccounted == Spec => []JobsAddUp
BY Invariance, PTL DEF Inv

-----------------------------------------------------------------------------
(* The jobs are those of DeliveryContract. *)

(* No harbour has a job for itself, those of other maps among them; and nobody
   leaves the world from a berth. *)
Served == \A p \in Port : offers[p] # NoPort => offers[p] \in Port \ {p}
NotInMenu == scene = "menu" => ~Docked

LEMMA ServedInit == Init => Served /\ NotInMenu
BY DEF Init, Served, NotInMenu, Docked

LEMMA ServedStep ==
  ASSUME Inv, Served, [Next]_vars PROVE Served'
<1>1. CASE LoadWorld
  <2>1. PICK m \in Map : \A p \in Port :
          IF p \in PortsOf[m] THEN offers'[p] \in MakeOffer(PortsOf[m], p)
          ELSE offers'[p] = NoPort
    BY <1>1 DEF LoadWorld
  <2> QED BY <2>1, PortsAssumption DEF MakeOffer, Served
<1>2. CASE CastOff
  <2>1. CASE UNCHANGED offers
    BY <2>1 DEF Served
  <2>2. CASE TryPickup(dock.port) /\ ~UNCHANGED offers
    <3>1. PICK d \in MakeOffer(ports, dock.port) : offers' = [offers EXCEPT ![dock.port] = d]
      BY <2>2 DEF TryPickup
    <3>2. d \in Port \ {dock.port} /\ offers \in [Port -> Somewhere]
      BY DEF MakeOffer, Inv, TypeOK
    <3> QED BY <3>1, <3>2 DEF Served
  <2> QED BY <1>2, <2>1, <2>2 DEF CastOff
<1>3. CASE UNCHANGED offers
  BY <1>3 DEF Served
<1>4. \/ LoadWorld \/ CastOff \/ UNCHANGED offers
  BY DEF Next, ExitToMenu, CloseWinScreen, LeaveWorld, Escape, ClosePause, PressPlaque,
     ReleasePlaque, OpenAlbum, CloseAlbum, CloseMapReveal, ShowCard, ParkAndDock, SailOn,
     Rest, jobs, vars
<1> QED BY <1>1, <1>2, <1>3, <1>4

LEMMA MenuStep ==
  ASSUME Inv, NotInMenu, [Next]_vars PROVE NotInMenu'
<1>1. CASE ExitToMenu
  BY <1>1 DEF ExitToMenu, LeaveWorld, Inv, Alone, NotInMenu, Docked
<1>2. CASE CloseWinScreen
  BY <1>2 DEF CloseWinScreen, LeaveWorld, Focus, Inv, Alone, NotInMenu, Docked
<1>3. CASE UNCHANGED vars
  BY <1>3 DEF vars, NotInMenu, Docked
<1>4. CASE Next /\ ~ExitToMenu /\ ~CloseWinScreen
  <2>1. scene' = "world"
    BY <1>4 DEF Next, LoadWorld, Escape, ClosePause, PressPlaque, ReleasePlaque, OpenAlbum,
       CloseAlbum, CloseMapReveal, CastOff, ShowCard, ParkAndDock, SailOn, AtSea, Rest
  <2> QED BY <2>1 DEF NotInMenu
<1> QED BY <1>1, <1>2, <1>3, <1>4

(* What is aboard is nothing, or one job, which says where the boat is bound. *)
LEMMA HoldOfOne ==
  ASSUME Inv PROVE cargo = {} \/ \E j \in Jobs : cargo = {j}
<1>1. IsFiniteSet(cargo) /\ Cardinality(cargo) <= 1 /\ cargo \subseteq Jobs
  BY DEF Inv, OneJob, Manifest, Aboard, TypeOK
<1>2. Cardinality(cargo) \in Nat
  BY <1>1, FS_CardinalityType
<1>3. CASE Cardinality(cargo) = 0
  BY <1>1, <1>3, FS_EmptySet
<1>4. CASE Cardinality(cargo) = 1
  <2>1. \E j : cargo = {j}
    BY <1>1, <1>4, FS_Singleton
  <2> QED BY <1>1, <2>1
<1> QED BY <1>1, <1>2, <1>3, <1>4

LEMMA Destinations ==
  /\ Destination({}) = NoPort
  /\ \A j : Destination({j}) = j.to
BY DEF Destination

LEMMA Counted == Aboard({}) = 0 /\ \A j : Aboard({j}) = 1
BY FS_EmptySet, FS_Singleton DEF Aboard

(* Between berths. *)
LEMMA BerthIsPort ==
  ASSUME Inv
  PROVE  /\ ~Docked => dock.port = NoPort
         /\ scene = "world" /\ Docked => dock.port \in Port /\ dock.port # NoPort
BY PortsAssumption DEF Inv, Berthed, Docked, NoDock

LEMMA LoadIsLose ==
  ASSUME Inv, NotInMenu, LoadWorld PROVE [Contract!Next]_Contract!dvars
<1>1. dock.port = NoPort /\ dock'.port = NoPort
  BY BerthIsPort DEF LoadWorld, NotInMenu, NoDock
<1>2. /\ cargo' = {} /\ dropped' = dropped + Aboard(cargo) /\ dropped \in Nat
      /\ taken' = taken /\ paid' = paid
  BY BoundsAssumption DEF LoadWorld, Inv, TypeOK
<1>3. CASE cargo = {}
  BY <1>1, <1>2, <1>3, Counted DEF Contract!dvars
<1>4. ASSUME NEW j \in Jobs, cargo = {j} PROVE Contract!Lose
  <2>1. Destination(cargo) = j.to /\ j.to # NoPort /\ Destination(cargo') = NoPort
    BY <1>2, <1>4, Destinations, PortsAssumption DEF Jobs
  <2> QED BY <1>1, <1>2, <1>4, <2>1, Counted DEF Contract!Lose
<1> QED BY <1>3, <1>4, HoldOfOne DEF Contract!Next

LEMMA ParkIsBerth ==
  ASSUME Inv, ParkAndDock PROVE Contract!Berth \/ Contract!Deliver
<1>1. /\ dock.port = NoPort /\ latching \in Port /\ latching # NoPort
      /\ dock'.port = latching
      /\ cargo' = cargo \ BoundFor(latching)
      /\ paid' = paid + Aboard(BoundFor(latching)) /\ paid \in Nat
      /\ taken' = taken /\ dropped' = dropped
  BY BerthIsPort, BoundsAssumption DEF ParkAndDock, AtSea, NoModal, OpenDock, TryDeliver,
     Inv, TypeOK, Somewhere
<1>2. CASE BoundFor(latching) = {}
  <2>1. cargo' = cargo /\ paid' = paid
    BY <1>1, <1>2, Counted
  <2>2. Destination(cargo) # latching
    <3>1. CASE cargo = {}
      BY <1>1, <3>1, Destinations
    <3>2. ASSUME NEW j \in Jobs, cargo = {j} PROVE Destination(cargo) # latching
      BY <1>2, <3>2, Destinations DEF BoundFor
    <3> QED BY <3>1, <3>2, HoldOfOne
  <2> QED BY <1>1, <2>1, <2>2 DEF Contract!Berth
<1>3. CASE BoundFor(latching) # {}
  <2>1. PICK j \in Jobs : cargo = {j}
    BY <1>3, HoldOfOne DEF BoundFor
  <2>2. j.to = latching /\ BoundFor(latching) = {j}
    BY <1>3, <2>1 DEF BoundFor
  <2>3. cargo' = {} /\ paid' = paid + 1
    BY <1>1, <2>1, <2>2, Counted
  <2> QED BY <1>1, <2>1, <2>2, <2>3, Destinations DEF Contract!Deliver
<1> QED BY <1>2, <1>3

LEMMA CastOffIsTaken ==
  ASSUME Inv, Served, CastOff PROVE [Contract!Next]_Contract!dvars
<1>1. /\ scene = "world" /\ Docked /\ dropped' = dropped
      /\ dock.port \in Port /\ dock.port # NoPort
      /\ BoundFor(dock.port) = {}
  BY BerthIsPort DEF CastOff, Focus, Inv, TrueToWorld
<1>2. CASE OpenDock(dock.port) /\ UNCHANGED <<offers, taken>>
  <2>1. dock'.port = dock.port /\ cargo' = cargo /\ paid' = paid
    BY <1>1, <1>2, Counted, BoundsAssumption DEF OpenDock, TryDeliver, Inv, TypeOK
  <2> QED BY <1>1, <1>2, <2>1 DEF Contract!dvars
<1>3. CASE dock' = NoDock /\ paid' = paid /\ UNCHANGED <<cargo, offers, taken>>
  BY <1>1, <1>3 DEF Contract!CastOff, Contract!Next, NoDock
<1>4. CASE /\ dock' = NoDock /\ paid' = paid /\ dock.mode = "offer"
           /\ TryPickup(dock.port)
  <2> DEFINE new == [job |-> taken + 1, to |-> offers[dock.port]]
  <2>1. cargo = {} /\ offers[dock.port] # NoPort /\ HasRoom(cargo)
    BY <1>1, <1>4 DEF Inv, Berthed, TrueToWorld
  <2>2. cargo' = {new} /\ taken' = taken + 1
    BY <1>4, <2>1 DEF TryPickup
  <2>3. new.to \in Port \ {dock.port}
    BY <1>1, <2>1 DEF Served
  <2> HIDE DEF new
  <2>4. Destination(cargo) = NoPort /\ Destination(cargo') = new.to
    BY <2>1, <2>2, Destinations
  <2> QED BY <1>1, <1>4, <2>2, <2>3, <2>4 DEF Contract!TakeOn, Contract!Next, NoDock
<1> QED BY <1>2, <1>3, <1>4 DEF CastOff

(* Whatever opens and closes on the way, and whichever harbour a glide ends in: a
   job is taken with none aboard, for another harbour, and paid for once, when
   the boat berths where it was bound, unless a new world takes the boat
   (openDock, tryPickup, tryDeliver). *)
THEOREM ImplementsContract == Spec => KeepsJobs
<1>1. Init => Contract!Init
  BY Destinations DEF Init, Contract!Init, NoDock
<1>2. Inv /\ Served /\ NotInMenu /\ [Next]_vars => [Contract!Next]_Contract!dvars
  <2> SUFFICES ASSUME Inv, Served, NotInMenu, [Next]_vars
               PROVE  [Contract!Next]_Contract!dvars
    OBVIOUS
  <2>1. CASE LoadWorld \/ CastOff
    BY <2>1, LoadIsLose, CastOffIsTaken
  <2>2. CASE ParkAndDock
    BY <2>2, ParkIsBerth DEF Contract!Next
  <2>3. CASE UNCHANGED <<dock, cargo, taken, paid, dropped>>
    BY <2>3 DEF Contract!dvars
  <2>4. \/ LoadWorld \/ CastOff \/ ParkAndDock
        \/ UNCHANGED <<dock, cargo, taken, paid, dropped>>
    BY DEF Next, ExitToMenu, CloseWinScreen, LeaveWorld, Escape, ClosePause, PressPlaque,
       ReleasePlaque, OpenAlbum, CloseAlbum, CloseMapReveal, ShowCard, SailOn,
       Rest, jobs, vars
  <2> QED BY <2>1, <2>2, <2>3, <2>4
<1>3. Spec => [](Served /\ NotInMenu)
  BY Invariance, ServedInit, ServedStep, MenuStep, PTL DEF Spec
<1> QED BY <1>1, <1>2, <1>3, Invariance, PTL DEF Spec, KeepsJobs, Contract!Spec
-----------------------------------------------------------------------------
(* The variant of a glide: a frame ends it, or stops for an overlay, or brings it
   one nearer to its last; and nothing but a frame touches it, so no number of
   overlays, clicks, menus and maps between two frames gives it more of them
   (World:update, _latchT). *)
GlideStep ==
  latching # NoPort =>
    IF Frame
    THEN \/ latching' = NoPort
         \/ ~AtSea'
         \/ latching' = latching /\ latchT' = latchT + 1 /\ latchT' <= LatchFrames
    ELSE UNCHANGED <<latching, latchT>>
GlideShortens == [][GlideStep]_vars

(* The bound behind GlideEnds: a glide lasts LatchFrames frames and one at most,
   not counting those that only show a card. *)
THEOREM GlidesShorten == Spec => GlideShortens
<1>1. ASSUME Inv, [Next]_vars, latching # NoPort, Frame
      PROVE  \/ latching' = NoPort
             \/ ~AtSea'
             \/ latching' = latching /\ latchT' = latchT + 1 /\ latchT' <= LatchFrames
  <2>1. CASE ShowCard
    BY <2>1 DEF ShowCard, AtSea, NoModal
  <2>2. CASE ParkAndDock
    BY <2>2 DEF ParkAndDock
  <2>3. CASE SailOn
    <3>1. latching' = latching /\ ~(latchT >= LatchFrames)
          /\ latchT' = IF latchT < LatchFrames THEN latchT + 1 ELSE latchT
      BY <1>1, <2>3 DEF SailOn, GlideTimesOut
    <3>2. latchT \in Nat /\ LatchFrames \in Nat
      BY <1>1, BoundsAssumption DEF Inv, TypeOK
    <3> QED BY <3>1, <3>2
  <2> QED BY <1>1, <2>1, <2>2, <2>3 DEF Frame
<1>2. ASSUME [Next]_vars, ~Frame PROVE UNCHANGED <<latching, latchT>>
  BY <1>2 DEF Next, Frame, LoadWorld, ExitToMenu, CloseWinScreen, LeaveWorld, Escape,
     ClosePause, PressPlaque, ReleasePlaque, OpenAlbum, CloseAlbum, CloseMapReveal, CastOff,
     Rest, sea, vars
<1>3. Inv /\ [Next]_vars => GlideStep
  BY <1>1, <1>2 DEF GlideStep
<1> QED BY <1>3, Invariance, PTL DEF Spec, GlideShortens

-----------------------------------------------------------------------------
(* What HarbourVisits finds has one cause: a world loaded while World.latching is
   still set.  If none ever is, a glide is towards a port the boat has been
   close to, and so is the berth it ends in. *)
Visited ==
  scene = "world" => /\ latching # NoPort => latching \in entered
                     /\ Docked => dock.port \in entered

LEMMA VisitedStep ==
  ASSUME Inv, Visited, [Next /\ Remember]_<<vars, entered>>,
         LoadWorld => latching = NoPort
  PROVE  Visited'
<1>1. CASE UNCHANGED <<vars, entered>>
  BY <1>1 DEF vars, sea, Visited, Docked
<1>2. CASE Next /\ Remember
  <2>1. CASE LoadWorld
    BY <2>1 DEF LoadWorld, Visited, Docked
  <2>2. CASE ExitToMenu \/ CloseWinScreen
    BY <2>2 DEF ExitToMenu, CloseWinScreen, LeaveWorld, Visited
  <2>3. ASSUME scene = "world" PROVE entered \subseteq entered'
    BY <1>2, <2>3 DEF Remember
  <2>4. CASE CastOff
    <3>1. scene = "world" /\ Docked /\ latching' = latching
      BY <2>4 DEF CastOff, Focus
    <3>2. Docked' => dock'.port = dock.port
      BY <2>4 DEF CastOff, OpenDock, Docked
    <3> QED BY <2>3, <3>1, <3>2 DEF Visited
  <2>5. CASE ParkAndDock
    <3>1. scene = "world" /\ latching' = NoPort /\ latching # NoPort
          /\ dock'.port = latching
      BY <2>5 DEF ParkAndDock, AtSea, OpenDock
    <3> QED BY <2>3, <3>1 DEF Visited
  <2>6. CASE SailOn
    <3>1. scene = "world" /\ ~Docked /\ dock' = dock
      BY <2>6 DEF SailOn, AtSea, NoModal
    <3>2. latching' = latching \/ (latching' = near' /\ near' # NoPort)
      BY <2>6 DEF SailOn
    <3>3. near' # NoPort => near' \in entered'
      BY <1>2, <3>1 DEF Remember
    <3> QED BY <2>3, <3>1, <3>2, <3>3 DEF Visited, Docked
  <2>7. CASE scene = "world" /\ UNCHANGED <<latching, dock>>
    BY <2>3, <2>7 DEF Visited, Docked
  <2>8. \/ LoadWorld \/ ExitToMenu \/ CloseWinScreen \/ CastOff \/ ParkAndDock \/ SailOn
        \/ scene = "world" /\ UNCHANGED <<latching, dock>>
    BY <1>2 DEF Next, Escape, ClosePause, PressPlaque, ReleasePlaque, OpenAlbum, CloseAlbum,
       CloseMapReveal, ShowCard, AtSea, Rest, sea
  <2> QED BY <2>1, <2>2, <2>4, <2>5, <2>6, <2>7, <2>8
<1> QED BY <1>1, <1>2

(* "the screen opens only when parked" (World:update) holds of every voyage on
   which no world is loaded with the glide of another one still on. *)
THEOREM OnlyALeftoverGlide ==
  VSpec /\ [][LoadWorld => latching = NoPort]_<<vars, entered>>
    => []OpensWhereItCameClose
<1>1. Init => Visited
  BY DEF Init, Visited
<1>2. [Next /\ Remember]_<<vars, entered>> => [Next]_vars
  BY DEF vars
<1>3. VSpec => []Inv
  BY <1>2, InitInv, NextInv, PTL DEF VSpec, VInit
<1>4. VSpec /\ [][LoadWorld => latching = NoPort]_<<vars, entered>> => []Visited
  <2>1. /\ Inv /\ Visited /\ [Next /\ Remember]_<<vars, entered>>
        /\ [LoadWorld => latching = NoPort]_<<vars, entered>>
        => Visited'
    <3>1. CASE UNCHANGED <<vars, entered>>
      BY <3>1 DEF vars, sea, Visited, Docked
    <3> QED BY <3>1, VisitedStep
  <2> QED BY <1>1, <1>3, <2>1, PTL DEF VSpec, VInit
<1>5. Visited => OpensWhereItCameClose
  BY DEF Visited, OpensWhereItCameClose
<1> QED BY <1>4, <1>5, PTL
===========================================================================
