------------------------- MODULE SaveStore_proofs -------------------------
(***************************************************************************)
(* Proofs about SaveStore, for every set of snapshots.                     *)
(*                                                                         *)
(* Invariant Inv holds of every behaviour, AnyStrike or not.  The promise  *)
(* of the comment above Game:save needs more: Shielded, which is inductive *)
(* only when strikes spare the saves that did not find both files in order.*)
(***************************************************************************)
EXTENDS SaveStore, TLAPS

(* How the two files stand to the saves made, whatever strikes. *)
Inv ==
  /\ TypeOK
  /\ FilesFollowSaves
  /\ pc = "down" => state = DefaultState
  /\ pc # "down" => lastGood = acked
  /\ acked = Nil => before = Nil
  /\ acked = Nil => \A f \in Files : ~Decodes(f)
  /\ pc \in {"backup", "rotated"} => NeedsRotation
  /\ pc = "backup" => ~missed
  /\ pc \in {"backup", "main"} =>
       ~Decodes(IF pc = "backup" THEN SaveBak ELSE SaveFile)
  /\ pc \in {"rotated", "main"} /\ NeedsRotation /\ Decodes(SaveBak) /\ ~missed =>
       file[SaveBak] = lastGood

(* Something decodes whenever the program may end, and it is not a backup that
   was never rotated. *)
Shielded ==
  /\ pc \in {"down", "ready", "rotated"} /\ acked # Nil =>
       Decodes(SaveFile) \/ (Decodes(SaveBak) /\ ~missed)
  /\ pc \in {"backup", "rotated"} /\ healthy => Decodes(SaveFile)
  /\ pc \in {"rotated", "main"} /\ healthy => Decodes(SaveBak) /\ ~missed

LEMMA FilesDistinct == SaveFile # SaveBak /\ Files = {SaveFile, SaveBak}
  BY DEF SaveFile, SaveBak, Files

(***************************************************************************)
(* Inv is inductive under any strikes.                                     *)
(***************************************************************************)
LEMMA InitInv == Init => Inv
  BY FilesDistinct, DefaultAssumption, DistinctAssumption
     DEF Init, Inv, TypeOK, FilesFollowSaves, Decodes

(* A start takes what a file holds, and so the last save or the one before. *)
LEMMA LoadKeepsInv == Inv /\ LoadSave => Inv'
<1> SUFFICES ASSUME Inv, LoadSave PROVE Inv'
  OBVIOUS
<1> USE FilesDistinct, DefaultAssumption, DistinctAssumption
<1>1. FirstDecodable \in Snapshot \cup {Nil}
  BY DEF FirstDecodable, Decodes
<1>2. FirstDecodable = Nil <=> \A f \in Files : ~Decodes(f)
  BY DEF FirstDecodable, Decodes
<1>3. FirstDecodable # Nil /\ (Decodes(SaveFile) \/ ~missed) =>
         FirstDecodable \in {acked, before}
  BY DEF Inv, FilesFollowSaves, FirstDecodable
<1>4. TypeOK'
  BY <1>1 DEF Inv, TypeOK, LoadSave
<1>5. FilesFollowSaves'
  BY <1>2, <1>3 DEF Inv, FilesFollowSaves, LoadSave, FirstDecodable, Decodes
<1> QED
  BY <1>1, <1>2, <1>4, <1>5 DEF Inv, LoadSave, Decodes

LEMMA NextKeepsInv == Inv /\ [Next]_vars => Inv'
<1> SUFFICES ASSUME Inv, [Next]_vars PROVE Inv'
  OBVIOUS
<1> USE FilesDistinct, DistinctAssumption DEF Inv, TypeOK, FilesFollowSaves, Decodes
<1>1. CASE LoadSave
  BY <1>1, LoadKeepsInv
<1>2. CASE Play
  BY <1>2 DEF Play
<1>3. CASE OpenBackup
  BY <1>3 DEF OpenBackup, NeedsRotation, InOrder
<1>4. CASE CloseBackup
  BY <1>4 DEF CloseBackup, NeedsRotation
<1>5. CASE BackupUnopened \/ BackupFails
  BY <1>5 DEF BackupUnopened, BackupFails, NeedsRotation
<1>6. CASE OpenMain
  BY <1>6 DEF OpenMain, NeedsRotation, InOrder
<1>7. CASE CloseMain
  BY <1>7 DEF CloseMain, NeedsRotation
<1>8. CASE MainUnopened \/ MainFails
  BY <1>8 DEF MainUnopened, MainFails
<1>9. CASE Kill
  BY <1>9, DefaultAssumption DEF Kill
<1>10. CASE UNCHANGED vars
  BY <1>10 DEF vars, NeedsRotation
<1> QED
  BY <1>1, <1>2, <1>3, <1>4, <1>5, <1>6, <1>7, <1>8, <1>9, <1>10 DEF Next

LEMMA InvAlways == Spec => []Inv
  BY InitInv, NextKeepsInv, PTL DEF Spec

(* Every value stays in its set: in particular loadSave never takes a torn
   file for a state, and save never rotates a missing one. *)
THEOREM TypeCorrect == Spec => []TypeOK
<1>1. Inv => TypeOK
  BY DEF Inv
<1> QED
  BY <1>1, InvAlways, PTL

(* A readable save file is the last completed save, and a readable backup at
   most one save older unless its last rotation could not open it, wherever
   kills and failed writes strike. *)
THEOREM FilesNeverOlder == Spec => []FilesFollowSaves
<1>1. Inv => FilesFollowSaves
  BY DEF Inv
<1> QED
  BY <1>1, InvAlways, PTL

(***************************************************************************)
(* With strikes that spare files out of order, nothing saved is lost.      *)
(***************************************************************************)
LEMMA ShieldedAlways ==
  ASSUME ~AnyStrike
  PROVE  Spec => []Shielded
<1>1. Init => Shielded
  BY DEF Init, Shielded
<1>2. Inv /\ Shielded /\ [Next]_vars => Shielded'
  <2> SUFFICES ASSUME Inv, Shielded, [Next]_vars PROVE Shielded'
    OBVIOUS
  <2> USE FilesDistinct DEF Inv, TypeOK, Shielded, Decodes
  <2>1. CASE LoadSave
    BY <2>1, DistinctAssumption DEF LoadSave, FirstDecodable
  <2>2. CASE Play
    BY <2>2 DEF Play
  <2>3. CASE OpenBackup
    BY <2>3 DEF OpenBackup, InOrder
  <2>4. CASE CloseBackup
    BY <2>4 DEF CloseBackup, NeedsRotation
  <2>5. CASE BackupUnopened \/ BackupFails
    BY <2>5, ~AnyStrike DEF BackupUnopened, BackupFails, InOrder, MayStrike
  <2>6. CASE OpenMain
    <3>1. healthy' => Decodes(SaveBak) /\ ~missed
      <4>1. CASE pc = "rotated" /\ healthy' = healthy
        BY <4>1
      <4>2. CASE healthy' = InOrder
        BY <4>2 DEF InOrder
      <4> QED
        BY <2>6, <4>1, <4>2 DEF OpenMain
    <3> QED
      BY <2>6, <3>1 DEF OpenMain
  <2>7. CASE CloseMain
    BY <2>7 DEF CloseMain
  <2>8. CASE MainUnopened \/ MainFails
    BY <2>8, ~AnyStrike DEF MainUnopened, MainFails, MayStrike
  <2>9. CASE Kill
    BY <2>9, ~AnyStrike DEF Kill, MayStrike
  <2>10. CASE UNCHANGED vars
    BY <2>10 DEF vars
  <2> QED
    BY <2>1, <2>2, <2>3, <2>4, <2>5, <2>6, <2>7, <2>8, <2>9, <2>10 DEF Next
<1> QED
  BY <1>1, <1>2, InvAlways, PTL DEF Spec

(* After the first completed save a start always finds a readable file. *)
THEOREM SavedIsRecoverable ==
  ASSUME ~AnyStrike
  PROVE  Spec => []Recoverable
<1>1. Inv /\ Shielded => Recoverable
  BY FilesDistinct, DistinctAssumption
     DEF Shielded, Inv, Recoverable, FirstDecodable, Decodes
<1> QED
  BY <1>1, InvAlways, ShieldedAlways, PTL

(***************************************************************************)
(* The two files implement the contract.                                   *)
(***************************************************************************)

(* Each step of the protocol is a step of SaveContract, or invisible in it:
   a start returns to the last save or the one before it, and a save counts
   exactly when its write completes. *)
THEOREM ImplementsContract ==
  ASSUME ~AnyStrike
  PROVE  Spec => KeepsContract
<1>1. Init => Contract!Init
  BY DEF Init, Contract!Init
<1>2. Inv /\ Shielded /\ [Next]_vars => [Contract!Next]_Contract!cvars
  <2> SUFFICES ASSUME Inv, Shielded, [Next]_vars
               PROVE  [Contract!Next]_Contract!cvars
    OBVIOUS
  <2> USE DEF Contract!Next, Contract!cvars
  <2>1. CASE LoadSave
    <3> USE FilesDistinct, DistinctAssumption, <2>1
    <3>1. CASE acked = Nil
      <4>1. FirstDecodable = Nil
        BY <3>1 DEF Inv, FirstDecodable
      <4> QED
        BY <3>1, <4>1 DEF LoadSave, Contract!StartFresh, Inv
    <3>2. CASE acked # Nil
      <4>1. /\ FirstDecodable # Nil
            /\ FirstDecodable \in {acked, before}
        BY <3>2 DEF Inv, Shielded, LoadSave, FilesFollowSaves, FirstDecodable, Decodes
      <4> QED
        BY <3>2, <4>1 DEF LoadSave, Contract!StartAgain
    <3> QED
      BY <3>1, <3>2
  <2>2. CASE Play
    BY <2>2 DEF Play, Contract!Play, Inv, TypeOK
  <2>3. CASE \/ OpenBackup \/ CloseBackup \/ BackupUnopened \/ BackupFails
             \/ OpenMain \/ MainUnopened \/ MainFails
    BY <2>3 DEF OpenBackup, CloseBackup, BackupUnopened, BackupFails, OpenMain,
                MainUnopened, MainFails
  <2>4. CASE CloseMain
    BY <2>4 DEF CloseMain, Contract!Commit
  <2>5. CASE Kill
    BY <2>5 DEF Kill, Contract!Stop
  <2>6. CASE UNCHANGED vars
    BY <2>6 DEF vars
  <2> QED
    BY <2>1, <2>2, <2>3, <2>4, <2>5, <2>6 DEF Next
<1> QED
  BY <1>1, <1>2, InvAlways, ShieldedAlways, PTL DEF Spec, KeepsContract, Contract!Spec
=============================================================================
