---------------------------- MODULE SaveStore ----------------------------
(***************************************************************************)
(* Game:save and Game:loadSave of src/game.lua: the save file, its         *)
(* last-known-good copy, and what a kill or a failed write in the middle   *)
(* of a save leaves on disk.                                               *)
(*                                                                         *)
(* love.filesystem.write opens the file, which truncates it, writes it and *)
(* closes it.  An open that fails leaves the file as it was.  A file whose *)
(* write did not finish holds a strict prefix of the JSON text, which      *)
(* json.decode rejects (the outermost brace is missing).  Such a file is   *)
(* Torn.  Encoding sorts its keys, so two encodings are equal exactly when *)
(* the states are: a snapshot stands for both.                             *)
(***************************************************************************)
CONSTANTS
  Snapshot,      \* the states the game can have, as the save file holds them
  DefaultState,  \* defaultState()
  Nil, Absent, Torn,
  AnyStrike      \* TRUE: a kill or a failed write may strike any save.
                 \* FALSE: at most one strikes a save, and only a save that
                 \* found both files in order (see InOrder).

ASSUME DefaultAssumption == DefaultState \in Snapshot
ASSUME DistinctAssumption ==
  /\ {Nil, Absent, Torn} \cap Snapshot = {}
  /\ Nil # Absent /\ Nil # Torn /\ Absent # Torn
ASSUME StrikeAssumption == AnyStrike \in BOOLEAN

VARIABLES
  pc,        \* where the program is: "down", "ready" (running, no save under
             \* way), "backup" (writing the .bak), "rotated" (.bak closed),
             \* "main" (writing the save file)
  state,     \* Game.state
  lastGood,  \* Game._lastGood
  file,      \* what the disk holds
  healthy,   \* the save under way found both files in order, and nothing
             \* has struck it yet
  missed,    \* history: the backup could not be opened by the last save that
             \* was to rotate it, and still holds what it held then
  acked,     \* as in SaveContract: the last state known to be saved ...
  before     \* ... and the different one saved before it

vars == <<pc, state, lastGood, file, healthy, missed, acked, before>>

SaveFile == "savegame.json"
SaveBak == "savegame.json.bak"
Files == {SaveFile, SaveBak}

Decodes(f) == file[f] \in Snapshot

TypeOK ==
  /\ pc \in {"down", "ready", "backup", "rotated", "main"}
  /\ state \in Snapshot
  /\ lastGood \in Snapshot \cup {Nil}
  /\ file \in [Files -> Snapshot \cup {Absent, Torn}]
  /\ healthy \in BOOLEAN
  /\ missed \in BOOLEAN
  /\ acked \in Snapshot \cup {Nil}
  /\ before \in Snapshot \cup {Nil}

(* A fresh install. *)
Init ==
  /\ pc = "down"
  /\ state = DefaultState
  /\ lastGood = Nil
  /\ file = [f \in Files |-> Absent]
  /\ healthy = FALSE
  /\ missed = FALSE
  /\ acked = Nil
  /\ before = Nil

-----------------------------------------------------------------------------
NoFallback == IF Decodes(SaveFile) THEN file[SaveFile] ELSE Nil

ExistingFile ==
  IF file[SaveFile] # Absent THEN file[SaveFile]
  ELSE IF Decodes(SaveBak) THEN file[SaveBak]
  ELSE Nil

(* The content a start takes: the save file, else the backup, else nothing. *)
FirstDecodable ==
  IF Decodes(SaveFile) THEN file[SaveFile]
  ELSE IF Decodes(SaveBak) THEN file[SaveBak]
  ELSE Nil

(* loadSave, from a new process: _lastGood is nil until a file decodes. *)
LoadSave ==
  /\ pc = "down"
  /\ pc' = "ready"
  /\ lastGood' = FirstDecodable
  /\ state' = IF FirstDecodable = Nil THEN DefaultState ELSE FirstDecodable
  /\ acked' = FirstDecodable
  /\ before' = IF FirstDecodable = acked THEN before ELSE FirstDecodable
  /\ UNCHANGED <<file, healthy, missed>>

(* Anything the game does between two saves. *)
Play ==
  /\ pc = "ready"
  /\ \E s \in Snapshot \ {state} : state' = s
  /\ UNCHANGED <<pc, lastGood, file, healthy, missed, acked, before>>

-----------------------------------------------------------------------------
(* Game:save.  No other Lua code runs until it returns. *)

NeedsRotation == lastGood # Nil /\ lastGood # state

(* Both files decode, and the backup is the one the last rotation meant. *)
InOrder == ~missed /\ \A f \in Files : Decodes(f)

(* The first write of a save opens, and so truncates, the backup ... *)
OpenBackup ==
  /\ pc = "ready"
  /\ NeedsRotation
  /\ file' = [file EXCEPT ![SaveBak] = Torn]
  /\ healthy' = InOrder
  /\ missed' = FALSE
  /\ pc' = "backup"
  /\ UNCHANGED <<state, lastGood, acked, before>>

(* ... and the last good contents reach it. *)
CloseBackup ==
  /\ pc = "backup"
  /\ file' = [file EXCEPT ![SaveBak] = lastGood]
  /\ pc' = "rotated"
  /\ UNCHANGED <<state, lastGood, healthy, missed, acked, before>>

(* The save file is opened: at once when there is nothing to rotate. *)
OpenMain ==
  /\ \/ /\ pc = "rotated"
        /\ healthy' = healthy
     \/ /\ pc = "ready"
        /\ ~NeedsRotation
        /\ healthy' = InOrder
  /\ file' = [file EXCEPT ![SaveFile] = Torn]
  /\ pc' = "main"
  /\ UNCHANGED <<state, lastGood, missed, acked, before>>

CloseMainKeepingLastGood ==
  /\ pc = "main"
  /\ file' = [file EXCEPT ![SaveFile] = state]
  /\ acked' = state
  /\ before' = IF state = acked THEN before ELSE acked
  /\ lastGood' = IF lastGood = Nil THEN state ELSE lastGood
  /\ pc' = "ready"
  /\ UNCHANGED <<state, healthy, missed>>

(* The write returns true: this is now the last good save. *)
CloseMain ==
  /\ pc = "main"
  /\ file' = [file EXCEPT ![SaveFile] = state]
  /\ lastGood' = state
  /\ acked' = state
  /\ before' = IF state = acked THEN before ELSE acked
  /\ pc' = "ready"
  /\ UNCHANGED <<state, healthy, missed>>

-----------------------------------------------------------------------------
(* What the system does to the program. *)

MayStrike == AnyStrike \/ healthy

(* The backup cannot be opened and keeps what it held.  save ignores the
   result and goes on to overwrite the save file. *)
BackupUnopened ==
  /\ pc = "ready"
  /\ NeedsRotation
  /\ AnyStrike \/ InOrder
  /\ healthy' = FALSE
  /\ missed' = TRUE
  /\ pc' = "rotated"
  /\ UNCHANGED <<state, lastGood, file, acked, before>>

(* The disk is full: the backup stays short, and again save goes on. *)
BackupFails ==
  /\ pc = "backup"
  /\ MayStrike
  /\ healthy' = FALSE
  /\ pc' = "rotated"
  /\ UNCHANGED <<state, lastGood, file, missed, acked, before>>

LastGoodTakenAnyway ==
  /\ pc = "main"
  /\ MayStrike
  /\ healthy' = FALSE
  /\ lastGood' = state
  /\ pc' = "ready"
  /\ UNCHANGED <<state, file, missed, acked, before>>

(* The save file cannot be opened: write returns nil, and both the file and
   _lastGood stay.  This harms nothing, so it may happen to any save.  (A save
   that rotates nothing and cannot open the file either changes nothing.) *)
MainUnopened ==
  /\ pc = "rotated"
  /\ pc' = "ready"
  /\ UNCHANGED <<state, lastGood, file, healthy, missed, acked, before>>

(* write returns nil: the save file stays short, _lastGood stays. *)
MainFails ==
  /\ pc = "main"
  /\ MayStrike
  /\ healthy' = FALSE
  /\ pc' = "ready"
  /\ UNCHANGED <<state, lastGood, file, missed, acked, before>>

(* The program ends: a quit after its save, or a kill at any point.  A file
   being written stays torn. *)
Kill ==
  /\ pc # "down"
  /\ pc = "ready" \/ MayStrike
  /\ pc' = "down"
  /\ state' = DefaultState
  /\ lastGood' = Nil
  /\ healthy' = FALSE
  /\ UNCHANGED <<file, missed, acked, before>>

-----------------------------------------------------------------------------
Next ==
  \/ LoadSave
  \/ Play
  \/ OpenBackup
  \/ CloseBackup
  \/ BackupUnopened
  \/ BackupFails
  \/ OpenMain
  \/ CloseMain
  \/ MainUnopened
  \/ MainFails
  \/ Kill

Spec == Init /\ [][Next]_vars

-----------------------------------------------------------------------------
(* "a write killed mid-flight is recoverable" (game.lua, above Game:save):
   once a save has completed, whatever a start finds on disk, one of the two
   files decodes. *)
Recoverable == pc = "down" /\ acked # Nil => FirstDecodable # Nil

(* The files follow the saves, in the middle of a save too: a save file that
   decodes is the last completed save, and a backup that decodes is that save
   or the one before it, never an older one, unless it could not be opened
   when it was to be rotated: save drops that failure. *)
FilesFollowSaves ==
  /\ Decodes(SaveFile) => file[SaveFile] = acked
  /\ Decodes(SaveBak) /\ ~missed => file[SaveBak] \in {acked, before}

(* The two files keep the promise of SaveContract: a start finds the last
   completed save or the one before it, whatever struck in between. *)
Contract == INSTANCE SaveContract WITH up <- pc # "down"
KeepsContract == Contract!Spec
=============================================================================
