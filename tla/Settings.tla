------------------------------ MODULE Settings ------------------------------
(***************************************************************************)
(* Settings persistence of settings.cpp.  EEPROM holds the configuration   *)
(* record conf_eep, whose `camera` part is the default camera's settings,  *)
(* and MAX_CAMERAS_SETTINGS per-camera records camera_settings_eep[],     *)
(* each tagged with the serial number of a PTP camera.  RAM holds the      *)
(* working copy conf and settings_camera_index (0: default camera, i + 1:  *)
(* slot i).  A record is abstracted to the fields that decide where       *)
(* settings go: the version tags, one value for the general settings, and *)
(* for a camera record its serial and one value for its settings.          *)
(*                                                                         *)
(* Each public function is one action; the functions it calls (save, load, *)
(* default) are operators over the whole memory `m` applied in code order. *)
(* The ghost field `saved` records, per camera (NoSerial for the default    *)
(* camera), the camera settings of the last save made for it.             *)
(***************************************************************************)
EXTENDS Naturals

CONSTANTS
    Serials,              \* serial numbers of PTP cameras
    NoSerial,             \* the empty string ""
    Vals,                 \* values a settings record can hold
    FACTORY,              \* the values settings_default() assigns
    ZERO,                 \* a record cleared with memset(0)
    MAX_CAMERAS_SETTINGS, \* number of per-camera EEPROM records
    MaxEdits,             \* bound on the menu edits of conf
    DefaultWithCamera     \* whether factory reset may run with a camera selected

ASSUME {FACTORY, ZERO} \subseteq Vals /\ NoSerial \notin Serials

CamIdx == 0 .. MAX_CAMERAS_SETTINGS - 1

(* settingsVersion / shutterVersion either match the firmware or not.     *)
Versions == {"current", "old"}

CamRec == [serial : Serials \cup {NoSerial}, val : Vals]

ConfRec == [settingsVersion : Versions, shutterVersion : Versions,
            general : Vals, camera : CamRec]

VARIABLES
    m,        \* RAM conf, conf_eep, camera_settings_eep, the selected index
    camera,   \* serial of the PTP camera connected, NoSerial when none
    edits     \* bound counter

vars == <<m, camera, edits>>

-----------------------------------------------------------------------------
(* The camera whose settings a save at the current index stores.         *)
SavedKey(mm) == IF mm.index > 0 THEN mm.conf.camera.serial ELSE NoSerial

SettingsSave_NoReload(mm) ==
    [mm EXCEPT !.slots = IF mm.index > 0 THEN [@ EXCEPT ![mm.index - 1] = mm.conf.camera]
                                         ELSE @,
               !.eep   = mm.conf,
               !.saved = [@ EXCEPT ![SavedKey(mm)] = mm.conf.camera.val]]

(* settings_save: with a camera selected, its record goes to that slot and *)
(* the default camera's record is read back into RAM before conf is       *)
(* written to conf_eep.                                                   *)
SettingsSave(mm) ==
    LET toSlot == mm.index > 0
        conf2  == IF toSlot THEN [mm.conf EXCEPT !.camera = mm.eep.camera]
                            ELSE mm.conf
    IN  [mm EXCEPT !.slots = IF toSlot THEN [@ EXCEPT ![mm.index - 1] = mm.conf.camera]
                                       ELSE @,
                   !.conf  = conf2,
                   !.eep   = conf2,
                   !.saved = [@ EXCEPT ![SavedKey(mm)] = mm.conf.camera.val]]

(* settings_load: conf from conf_eep, its camera part from the selected   *)
(* slot.  The range checks on the LCD and ramp fields do not touch the     *)
(* abstracted values.                                                     *)
SettingsLoad(mm) ==
    LET c == IF mm.index > 0 THEN [mm.eep EXCEPT !.camera = mm.slots[mm.index - 1]]
                             ELSE mm.eep
    IN  [mm EXCEPT !.conf = c]

SettingsUpdate(mm) == SettingsLoad(SettingsSave(mm))

SettingsDefault_KeepSlots(mm) ==
    SettingsLoad(SettingsSave([mm EXCEPT
        !.conf = [settingsVersion |-> "current", shutterVersion |-> "current",
                  general |-> FACTORY,
                  camera |-> [serial |-> mm.conf.camera.serial, val |-> FACTORY]]]))

(* settings_default: factory values in conf, every slot cleared, then     *)
(* save and load.  The camera part keeps its serial (only the settings    *)
(* fields are assigned).                                                  *)
SettingsDefault(mm) ==
    LET cleared == [mm EXCEPT
            !.conf  = [settingsVersion |-> "current", shutterVersion |-> "current",
                       general |-> FACTORY,
                       camera |-> [serial |-> mm.conf.camera.serial, val |-> FACTORY]],
            !.slots = [i \in CamIdx |-> [serial |-> NoSerial, val |-> ZERO]]]
    IN  SettingsLoad(SettingsSave(cleared))

(* settings_init: load, adopt a new shutter version (saving it), and      *)
(* restore the defaults when the settings version changed.               *)
SettingsInit(mm) ==
    LET l        == SettingsLoad(mm)
        needSave == l.conf.shutterVersion # "current"
        v        == [l EXCEPT !.conf.shutterVersion = "current"]
    IN  IF l.conf.settingsVersion # "current"
        THEN [SettingsDefault(v) EXCEPT !.reset = 1]
        ELSE IF needSave THEN SettingsSave(v) ELSE l

LoadCameraIndex_NoOffset(mm, index) == SettingsLoad([mm EXCEPT !.index = index])

(* settings_load_camera_index: select slot `index` and load.             *)
LoadCameraIndex(mm, index) == SettingsLoad([mm EXCEPT !.index = index + 1])

(* settings_setup_camera_index: select the slot holding this serial, or   *)
(* store the default camera's record under the serial in the last empty   *)
(* slot (slot MAX_CAMERAS_SETTINGS - 1 when none is empty) and select it. *)
SetupCameraIndex(mm, serial) ==
    LET known   == {i \in CamIdx : mm.slots[i].serial = serial}
        empty   == {i \in CamIdx : mm.slots[i].serial = NoSerial}
        last    == IF empty = {} THEN MAX_CAMERAS_SETTINGS - 1
                   ELSE CHOOSE i \in empty : \A j \in empty : j <= i
        first   == CHOOSE i \in known : \A j \in known : i <= j
        stored  == [mm EXCEPT !.slots[last] = [mm.eep.camera EXCEPT !.serial = serial],
                              !.saved[serial] = mm.eep.camera.val]
    IN  IF known # {} THEN LoadCameraIndex(mm, first) ELSE LoadCameraIndex(stored, last)

-----------------------------------------------------------------------------
(* Memory at power-up: EEPROM as left by earlier runs, RAM cleared.        *)
PowerOnMemory(eep, slots) ==
    [conf |-> eep, eep |-> eep, slots |-> slots, index |-> 0, reset |-> 0,
     saved |-> [k \in Serials \cup {NoSerial} |->
                  IF k = NoSerial THEN eep.camera.val
                  ELSE IF \E i \in CamIdx : slots[i].serial = k
                       THEN (CHOOSE r \in {slots[i] : i \in CamIdx} : r.serial = k).val
                       ELSE ZERO]]

(* Slots written by this code never hold one serial twice.               *)
DistinctSerials(slots) ==
    \A i, j \in CamIdx : i # j /\ slots[i].serial # NoSerial => slots[i].serial # slots[j].serial

Init ==
    /\ \E eep \in ConfRec, slots \in [CamIdx -> CamRec] :
          /\ DistinctSerials(slots)
          /\ m = SettingsInit(PowerOnMemory(eep, slots))
    /\ camera = NoSerial
    /\ edits = 0

(* A menu changes the general or the camera settings in RAM.             *)
Edit ==
    /\ edits < MaxEdits
    /\ \E v \in Vals :
          \/ m' = [m EXCEPT !.conf.general = v]
          \/ m' = [m EXCEPT !.conf.camera.val = v]
    /\ edits' = edits + 1
    /\ UNCHANGED camera

Update ==
    /\ m' = SettingsUpdate(m)
    /\ UNCHANGED <<camera, edits>>

Default ==
    /\ DefaultWithCamera \/ m.index = 0
    /\ m' = SettingsDefault(m)
    /\ UNCHANGED <<camera, edits>>

(* settings_load_camera_default: the camera was disconnected.            *)
LoadCameraDefault ==
    /\ m' = SettingsLoad([m EXCEPT !.index = 0])
    /\ camera' = NoSerial
    /\ UNCHANGED edits

(* A PTP camera with this serial connects (strlen(serial) == 0 returns). *)
CameraConnected ==
    /\ \E serial \in Serials : m' = SetupCameraIndex(m, serial) /\ camera' = serial
    /\ UNCHANGED edits

(* Power is lost and the firmware boots: RAM is cleared, settings_init.  *)
PowerCycle ==
    /\ m' = SettingsInit([PowerOnMemory(m.eep, m.slots) EXCEPT !.saved = m.saved])
    /\ camera' = NoSerial
    /\ UNCHANGED edits

Next == Edit \/ Update \/ Default \/ LoadCameraDefault \/ CameraConnected \/ PowerCycle

Spec == Init /\ [][Next]_vars

-----------------------------------------------------------------------------
TypeOK ==
    /\ m.conf \in ConfRec /\ m.eep \in ConfRec
    /\ m.slots \in [CamIdx -> CamRec]
    /\ m.index \in 0 .. MAX_CAMERAS_SETTINGS
    /\ m.reset \in {0, 1}
    /\ camera \in Serials \cup {NoSerial}
    /\ edits \in 0 .. MaxEdits

(* What was saved is what is stored: the default camera's record in       *)
(* conf_eep and every camera's slot hold the settings of the last save    *)
(* made while that camera was selected, across camera switches, new       *)
(* cameras taking slots, factory resets and power cycles.                 *)
SavedSettingsPersist ==
    /\ m.eep.camera.val = m.saved[NoSerial]
    /\ \A i \in CamIdx : m.slots[i].serial # NoSerial =>
                           m.slots[i].val = m.saved[m.slots[i].serial]

(* A camera that connects gets its own slot: RAM conf.camera is the slot  *)
(* of that serial, holding the settings last saved while it was selected  *)
(* if a slot still remembered it, and otherwise a copy of the default      *)
(* camera's settings from conf_eep (settings_setup_camera_index, lines     *)
(* 212-239, with settings_load_camera_index's index + 1).                  *)
CameraSettingsRestored ==
    [][CameraConnected =>
         LET remembered == \E i \in CamIdx : m.slots[i].serial = camera'
         IN  /\ m'.index > 0
             /\ m'.slots[m'.index - 1].serial = camera'
             /\ m'.conf.camera.serial = camera'
             /\ m'.conf.camera.val = IF remembered THEN m.saved[camera']
                                                  ELSE m.eep.camera.val]_vars

(* settings_default "restores factory defaults": afterwards conf_eep holds *)
(* the factory general settings and default camera settings.             *)
FactoryDefaultsRestored ==
    [][Default => m'.eep.general = FACTORY /\ m'.eep.camera.val = FACTORY]_vars

-----------------------------------------------------------------------------
(* The refinement mapping onto SettingsStore: the selected camera is the   *)
(* serial of the loaded record when settings_camera_index > 0, the stored  *)
(* settings are conf_eep and the occupied slots, the working copy is conf. *)
SelectedKey == IF m.index > 0 THEN m.conf.camera.serial ELSE NoSerial

StoredVals ==
    [k \in {NoSerial} \cup {m.slots[i].serial : i \in CamIdx} |->
        IF k = NoSerial THEN m.eep.camera.val
        ELSE (CHOOSE r \in {m.slots[i] : i \in CamIdx} : r.serial = k).val]

Store == INSTANCE SettingsStore WITH Capacity <- MAX_CAMERAS_SETTINGS,
             sel <- SelectedKey, work <- m.conf.camera.val, workGen <- m.conf.general,
             store <- StoredVals, storeGen <- m.eep.general

(* settings.cpp implements the settings store: every save, load, camera    *)
(* switch, eviction of a slot by a new camera, factory reset and power     *)
(* cycle is a step SettingsStore allows, so no camera's stored settings    *)
(* change except by a save made while it is selected or by eviction.      *)
StoreRefined == Store!Spec

====
