------------------------------ MODULE Storage ------------------------------
(***************************************************************************)
(* The pages that keep files, on the GUI thread: the SysEx Manager, which  *)
(* reads .syx files and writes selected frames to new ones, Settings,      *)
(* which saves and applies preferences, and Diagnostics, which writes a    *)
(* bundle.  Their writes go step by step (FileWrite), the program may end  *)
(* between any two of them and start again, and another program may make,  *)
(* change or delete .syx files.                                            *)
(*                                                                         *)
(* `meddled', `asked' and `raced' are kept to state properties.            *)
(* AppliedAtOnce is a plausible mistake they are tested against.           *)
(***************************************************************************)
EXTENDS FileWrite, SysExManager, Settings, FiniteSets

CONSTANTS
  SyxPaths,      \* the .syx files the user knows
  SettingsPath,  \* taureon-settings.v1
  BundlePath,    \* where the diagnostic bundle goes
  Disks,         \* what the disk may hold when all begins
  Foreign,       \* what another program may write
  Observed,      \* routes that may be connected
  Dials,         \* settings the controls may show, routes apart
  MaxClicks,     \* bound: what the user does
  MaxMeddling,   \* bound: what other programs do
  MaxStarts      \* bound: how often the program starts

(* What a .syx file holds is a sequence of bytes.                            *)
IsContent(content) == content.form = "syx" => content.raw \in Seq(Bytes)

ASSUME StorageAssumption ==
  /\ SettingsPath \notin SyxPaths /\ BundlePath \notin SyxPaths \cup {SettingsPath}
  /\ Paths = SyxPaths \cup {SettingsPath, BundlePath}
  /\ \A d \in Disks : d = [p \in Paths |-> d[p]] /\ \A p \in Paths : IsContent(d[p])
  /\ \A content \in Foreign : IsContent(content)
  /\ \A route \in Observed : IsIdentity(route) /\ IsValid(route)
  /\ \A dial \in Dials : InRange(dial) /\ \A path \in PathKeys : dial[path] # Garbled
  /\ MaxClicks \in Nat /\ MaxMeddling \in Nat /\ MaxStarts \in Nat \ {0}

VARIABLES
  running,       \* the program is
  settings,      \* settings_ of the SettingsPanel
  applied,       \* what runs with: the log, the bundle policy, history, pacing
  entries,       \* how many entries the BoundedLog holds
  manager,       \* manager_ of the SysExManagerPanel
  selected,      \* the items selected in its table
  current,       \* and the current one
  itemId,        \* selected_item_id_
  visible,       \* visible_frame_references_
  chosen,        \* the frames selected in the frame table
  dialog,        \* where the user lets which frames be saved, until that begins
  asked,         \* the user was asked whether to replace a file there (history)
  raced,         \* another program wrote there after the user answered (history)
  meddled,       \* how often another program changed the disk
  clicks, starts \* how much of the bounds is used

settingsVars == <<settings, applied, entries>>
panelVars    == <<manager, selected, current, itemId, visible, chosen>>
dialogVars   == <<dialog, asked, raced>>
bounds       == <<meddled, clicks, starts>>
vars         == <<fileVars, running, settingsVars, panelVars, dialogVars, bounds>>

NoItem == 0

NoDialog == [open |-> FALSE]

LiveKeys == {"log_level", "log_rotation_entries", "include_route_identity_in_bundle",
             "monitor_history_limit", "sysex_pacing_milliseconds"}
Live(record) == [key \in LiveKeys |-> record[key]]

Init ==
  /\ windows \in BOOLEAN
  /\ disk \in Disks
  /\ temp = [p \in Paths |-> Missing]
  /\ write = NoWrite
  /\ running = FALSE
  /\ settings = Defaults /\ applied = Live(Defaults) /\ entries = 0
  /\ manager = NewManager
  /\ selected = {} /\ current = NoItem /\ itemId = NoItem
  /\ visible = <<>> /\ chosen = {}
  /\ dialog = NoDialog /\ asked = FALSE /\ raced = FALSE
  /\ meddled = 0 /\ clicks = 0 /\ starts = 0

-----------------------------------------------------------------------------
(* The program's life. *)

(* The Settings page loads, which may end the program, configures the log    *)
(* and the bundle policy, and the window applies the rest.                   *)
Start ==
  /\ ~running /\ starts < MaxStarts
  /\ starts' = starts + 1
  /\ IF windows /\ LoadThrows(disk[SettingsPath])
     THEN UNCHANGED <<running, settingsVars>>
     ELSE /\ running' = TRUE
          /\ settings' = Load(disk[SettingsPath]).settings
          /\ applied' = Live(settings')
          /\ entries' = 0
  /\ UNCHANGED <<fileVars, panelVars, dialogVars, meddled, clicks>>

(* A crash, or the end: the workspace is in memory only.                     *)
Stop ==
  /\ running
  /\ running' = FALSE
  /\ write' = NoWrite
  /\ manager' = NewManager
  /\ selected' = {} /\ current' = NoItem /\ itemId' = NoItem
  /\ visible' = <<>> /\ chosen' = {}
  /\ dialog' = NoDialog /\ asked' = FALSE /\ raced' = FALSE
  /\ UNCHANGED <<windows, disk, temp, settingsVars, bounds>>

Meddle ==
  /\ meddled < MaxMeddling
  /\ \E p \in SyxPaths, content \in Foreign \cup {Missing} :
       /\ disk' = [disk EXCEPT ![p] = content]
       /\ raced' = (raced \/ (dialog.open /\ dialog.path = p))
  /\ meddled' = meddled + 1
  /\ UNCHANGED <<windows, temp, write, running, settingsVars, panelVars, dialog, asked, clicks,
                 starts>>

-----------------------------------------------------------------------------
(* The Settings page. *)

(* A write, and a dialog, keep the user from everything else.                *)
Ready == running /\ ~Writing /\ ~dialog.open
Click == Ready /\ clicks < MaxClicks /\ clicks' = clicks + 1

(* The routes of the connection, those there are.                            *)
CaptureRoutes ==
  /\ Click
  /\ \E connected \in SUBSET Observed \ {{}} :
       /\ \A p, q \in connected : p.direction = q.direction => p = q
       /\ settings' = [key \in Keys |->
            IF \E route \in connected : key \in DOMAIN Directions /\ route.direction = Directions[key]
            THEN CHOOSE route \in connected : route.direction = Directions[key]
            ELSE settings[key]]
  /\ UNCHANGED <<fileVars, running, applied, entries, panelVars, dialogVars, meddled, starts>>

ReadControls(dial) ==
  settings' = [key \in Keys |-> IF key \in DOMAIN Directions THEN settings[key] ELSE dial[key]]

AppliedAtOnce(dial) ==
  /\ ReadControls(dial)
  /\ Serializable(settings')
  /\ BeginWrite("settings", SettingsPath, Serialize(settings'), TRUE)
  /\ applied' = Live(settings')

SaveControls(dial) ==
  /\ ReadControls(dial)
  /\ IF Serializable(settings')
     THEN BeginWrite("settings", SettingsPath, Serialize(settings'), TRUE)
     ELSE UNCHANGED write
  /\ UNCHANGED applied

SaveSettings ==
  /\ Click
  /\ \E dial \in Dials : SaveControls(dial)
  /\ UNCHANGED <<windows, disk, temp, running, entries, panelVars, dialogVars, meddled, starts>>

(* configure() drops the oldest entries, append() adds one if the level lets *)
(* it and drops again.                                                       *)
Logged ==
  LET most  == settings["log_rotation_entries"]
      kept  == IF entries > most THEN most ELSE entries IN
  IF settings["log_level"] \notin {"info", "debug"} THEN kept
  ELSE IF kept = most THEN most ELSE kept + 1

(* What a write that has ended does for its page: applied if it was written. *)
WriteEnds ==
  /\ running
  /\ write.step \in {"written", "failed"}
  /\ IF write.kind = "settings" /\ write.step = "written"
     THEN applied' = Live(settings) /\ entries' = Logged
     ELSE UNCHANGED <<applied, entries>>
  /\ write' = NoWrite
  /\ asked' = FALSE /\ raced' = FALSE
  /\ UNCHANGED <<windows, disk, temp, running, settings, panelVars, dialog, bounds>>

(* The Diagnostics page: the routes are named, or left out.                  *)
ExportBundle ==
  /\ Click
  /\ BeginWrite("bundle", BundlePath,
                [form |-> "bundle", routes |-> applied.include_route_identity_in_bundle], TRUE)
  /\ UNCHANGED <<windows, disk, temp, running, settingsVars, panelVars, dialogVars, meddled, starts>>

FileStep == WriteStep /\ UNCHANGED <<running, settingsVars, panelVars, dialogVars, bounds>>

-----------------------------------------------------------------------------
(* The SysEx Manager page. *)

RefsOf(items, ids) ==
  LET refs == References(items) IN Those(refs, Len(refs), {r \in ToSet(refs) : r.item \in ids})

(* refresh_selection(): the frames of the selected items, the first selected. *)
ShowSelection(items, ids, now) ==
  /\ selected' = ids
  /\ current' = now
  /\ IF ids = {} THEN itemId' = NoItem /\ visible' = <<>> /\ chosen' = {}
     ELSE /\ itemId' = now
          /\ visible' = RefsOf(items, ids)
          /\ chosen' = IF visible' = <<>> THEN {} ELSE {Head(visible')}

(* refresh(): the item of this id, else the first.                           *)
Refresh(items, id) ==
  IF items = <<>>
  THEN /\ selected' = {} /\ current' = NoItem /\ itemId' = NoItem /\ chosen' = {}
       /\ UNCHANGED visible
  ELSE LET row == IF id \in Ids(items) THEN id ELSE items[1].id IN
       ShowSelection(items, {row}, row)

ManagerClick == Click /\ UNCHANGED <<windows, disk, temp, running, settingsVars, meddled, starts>>

AddFile(p) ==
  /\ ManagerClick
  /\ disk[p].form = "syx"
  /\ CanAdd(manager, disk[p].raw)
  /\ manager' = Added(manager, disk[p].raw)
  /\ Refresh(manager'.items, manager.next)
  /\ UNCHANGED <<write, dialogVars>>

RemoveItem ==
  /\ ManagerClick
  /\ itemId # NoItem
  /\ manager' = Removed(manager, itemId)
  /\ Refresh(manager'.items, NoItem)
  /\ UNCHANGED <<write, dialogVars>>

(* Selecting changes nothing but the page, so it is not bounded.             *)
Look == Ready /\ UNCHANGED <<fileVars, running, settingsVars, manager, dialogVars, bounds>>

(* A click selects one row; with the control key it is added or taken away,  *)
(* and is the current one either way.                                        *)
SelectItem(id) ==
  /\ Look
  /\ \E ids \in {{id}, selected \cup {id}, selected \ {id}} : ShowSelection(manager.items, ids, id)

SelectFrames(refs) ==
  /\ Look
  /\ chosen' = refs
  /\ UNCHANGED <<selected, current, itemId, visible>>

(* selected_frame_references(): by item, then by frame.                      *)
ChosenRefs ==
  LET refs == References(manager.items) IN Those(refs, Len(refs), chosen)

(* The dialog asks before it answers with a file that is there.              *)
ChooseDestination(p) ==
  /\ ManagerClick
  /\ ChosenRefs # <<>>
  /\ dialog' = [open |-> TRUE, path |-> p, refs |-> ChosenRefs]
  /\ asked' = (disk[p] # Missing)
  /\ raced' = FALSE
  /\ UNCHANGED <<write, panelVars>>

(* An export is from one item.                                               *)
ExportFrames(p) == ChooseDestination(p) /\ Cardinality({r.item : r \in chosen}) = 1
MergeFrames(p)  == ChooseDestination(p)

(* Whether a file is replaced is looked up once the dialog has closed.       *)
WriteFrames ==
  /\ dialog.open
  /\ IF CanWrite(manager, dialog.refs)
     THEN BeginWrite("syx", dialog.path,
                     [form |-> "syx", raw |-> BytesOf(FramesOf(manager, dialog.refs))],
                     disk[dialog.path] # Missing)
     ELSE UNCHANGED write
  /\ dialog' = NoDialog
  /\ UNCHANGED <<windows, disk, temp, running, settingsVars, panelVars, asked, raced, bounds>>

-----------------------------------------------------------------------------
Next ==
  \/ Start \/ Stop \/ Meddle
  \/ CaptureRoutes \/ SaveSettings \/ ExportBundle
  \/ FileStep \/ WriteEnds
  \/ RemoveItem \/ WriteFrames
  \/ \E p \in SyxPaths : AddFile(p) \/ ExportFrames(p) \/ MergeFrames(p)
  \/ \E id \in Ids(manager.items) : SelectItem(id)
  \/ \E refs \in SUBSET ToSet(visible) : refs # {} /\ chosen # {} /\ SelectFrames(refs)

Spec == Init /\ [][Next]_vars

-----------------------------------------------------------------------------
(* A save changes a file only from what was there to all that is saved, and  *)
(* a save that fails leaves it alone (write_atomic(), SyxFile.cpp:35,        *)
(* Settings.cpp:128).  A .syx file is replaced only if the user was asked;   *)
(* or another program made it after the user had chosen its name and before  *)
(* the program looked whether it is there (SysExManagerPanel.cpp:75).  One   *)
(* made later than that is not replaced by the Windows build; the other may  *)
(* replace it, and lose an old one.                                          *)
SavedWholeOrNotAtAll ==
  [][\A p \in Paths : disk'[p] # disk[p] /\ meddled' = meddled =>
       /\ p = write.path
       /\ \/ disk'[p] = write.content
          \/ ~windows /\ write.kind = "syx" /\ write.replace
       /\ disk[p] # Missing /\ windows => write.replace
       /\ write.kind = "syx" /\ write.replace => asked \/ raced]_vars

(* What the program runs with is what its next start will find, and that     *)
(* start is not ended by it: nothing is applied that was not saved, and      *)
(* whatever the controls can show is read back (SettingsPanel::save(), :225, *)
(* SettingsStore::deserialize(), :236).  So no bundle names a route that the *)
(* saved settings leave out.                                                 *)
AppliedIsStored ==
  LET stored == Live(Load(disk[SettingsPath]).settings) IN
  /\ running /\ ~(write.step = "written" /\ write.kind = "settings") => applied = stored
  /\ Writing /\ write.kind = "bundle" /\ write.content.routes =>
       stored.include_route_identity_in_bundle
  /\ running /\ windows => ~LoadThrows(disk[SettingsPath])

InOrder(p, q) == p.item < q.item \/ (p.item = q.item /\ p.frame < q.frame)

Lists(list, refs) ==
  /\ ToSet(list) = refs
  /\ \A m, n \in DOMAIN list : m < n => InOrder(list[m], list[n])

FramesIn(items) ==
  UNION {{[item |-> items[i].id, frame |-> k] : k \in DOMAIN items[i].frames} : i \in DOMAIN items}

FramesMarked(items) ==
  \A i \in DOMAIN items : \A k \in DOMAIN items[i].frames :
    LET frame == items[i].frames[k]
        same  == {q \in FramesIn(items) \ {[item |-> items[i].id, frame |-> k]} :
                    FrameOf(items, q).bytes = frame.bytes} IN
    /\ Lists(items[i].sameFrames[k], same)
    /\ Lists(items[i].samePayloads[k],
             {q \in same : HasPayload(frame) /\ HasPayload(FrameOf(items, q))})

FilesMarked(items) ==
  \A i \in DOMAIN items :
    LET copies == {j \in 1..(i - 1) : items[j].raw = items[i].raw} IN
    IF copies = {} THEN items[i].duplicateOf = 0
    ELSE \E j \in copies : items[i].duplicateOf = items[j].id /\ \A m \in copies : j <= m

(* Whatever was added and removed, every frame is marked as the same as all  *)
(* others with its bytes, or its payload, and a file as a copy of the first  *)
(* with its bytes, real-time bytes included, which no frame has; what the    *)
(* workspace holds is counted and within its limit                           *)
(* (refresh_duplicate_evidence(), SysExManager.cpp:328).                     *)
EvidenceTrue ==
  /\ FramesMarked(manager.items)
  /\ FilesMarked(manager.items)
  /\ manager.bytes = TotalOf([i \in DOMAIN manager.items |-> RawSize(manager.items[i].raw)])
  /\ manager.bytes <= MaxAggregate

=============================================================================
