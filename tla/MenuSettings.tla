----------------------------- MODULE MenuSettings -----------------------------
(***************************************************************************)
(* The settings of the viewer, from the widgets of the menu to the file    *)
(* and to the parts of the program that use them.                          *)
(*                                                                         *)
(* Everything here runs on the main thread, but for the thread that        *)
(* restarts the network.  What is hard is aliasing: a tab holds on to the  *)
(* sections of the Settings object it was shown with and edits them in     *)
(* place, the overlay reads the section of widgets it was given, load      *)
(* replaces all sections of an object, and a restart of the network puts   *)
(* off the exchange of the object while the menu can be opened again.      *)
(***************************************************************************)
EXTENDS Naturals, Sequences, SequencesExt, FiniteSets

CONSTANTS
  Ids,       \* what may be entered as the server and ID of a relay
  NoId,      \* the empty one; it need not be in Ids
  None,      \* no pending_settings
  Patient,   \* the user waits for a restart before mapping keys, saving, leaving and F11
  MaxEdits   \* changes made in the menu (a bound)

(* One field for each way a setting travels, by the tab that edits it.     *)
GeneralFields == {"fullscreen", "info"}
InputFields == {"keys"}
OsdFields == {"widgets"}
NetworkFields == {"transport", "ports", "enabled", "spectator", "id", "ttl"}
FrequencyFields == {"timing"}

Field == GeneralFields \cup InputFields \cup OsdFields \cup NetworkFields \cup FrequencyFields
Fields(page) == CASE page = "General" -> GeneralFields
                  [] page = "Input" -> InputFields
                  [] page = "OSD" -> OsdFields
                  [] page = "Network" -> NetworkFields
                  [] page = "Frequencies" -> FrequencyFields
Tabs == {"General", "Input", "OSD", "Network", "Frequencies"}

(* A tab keeps these by value; of the others it holds the section.         *)
Held == {"info", "transport", "ttl"}
Section == {"video", "widgets", "ports", "relay", "timing"}
SectionOf == [fullscreen |-> "video", widgets |-> "widgets", ports |-> "ports",
              enabled |-> "relay", spectator |-> "relay", id |-> "relay", timing |-> "timing"]
Sections(page) == {SectionOf[f] : f \in Fields(page) \cap DOMAIN SectionOf}

Values(f) == IF f = "id" THEN Ids ELSE BOOLEAN
IsContent(c) == DOMAIN c = Field /\ \A f \in Field : c[f] \in Values(f)

(* What is copied when settings are applied.  The rest of the program      *)
(* looks at the Settings object each time.                                 *)
Copied == {"fullscreen", "widgets", "keys", "timing", "ttl"}

VARIABLES
  file,       \* settings.toml
  current,    \* the Settings object of the program
  old,        \* old_settings: a deep copy of the one applied last
  tabs,       \* what the tabs hold and show; of no consequence while the menu is hidden
  shares,     \* the sections of the tabs that are those of current
  used,       \* what display, overlay, keys, timing and transmitter go by
  overlaid,   \* the overlay's section of widgets is that of current
  network,    \* the settings the network was set up with
  connected,  \* user_connected
  visible, tab,
  pending,    \* pending_settings
  restarts,   \* settings of the restart threads that run
  complete,   \* restart_complete is set
  edits

objects == <<file, current, old>>
menu == <<visible, tab, tabs, shares>>
using == <<used, overlaid, network>>
restarting == <<pending, restarts, complete>>
vars == <<objects, menu, using, connected, restarting, edits>>

TypeOK ==
  /\ \A c \in {file, current, old, tabs, network} : IsContent(c)
  /\ shares \subseteq Section /\ used \in [Copied -> BOOLEAN] /\ overlaid \in BOOLEAN
  /\ connected \in BOOLEAN /\ visible \in BOOLEAN /\ tab \in Tabs
  /\ (pending # None => IsContent(pending)) /\ (\A i \in DOMAIN restarts : IsContent(restarts[i])) /\ complete \in BOOLEAN
  /\ edits \in 0 .. MaxEdits

Init ==
  /\ \E i \in Ids, e \in BOOLEAN :
       file = [f \in Field |-> IF f = "id" THEN i ELSE f = "enabled" /\ e]
  /\ current = file /\ old = file /\ tabs = file /\ network = file
  /\ shares = Section /\ used = [f \in Copied |-> file[f]] /\ overlaid = TRUE
  /\ connected = FALSE /\ visible = FALSE /\ tab = "General"
  /\ pending = None /\ restarts = <<>> /\ complete = FALSE /\ edits = 0

Busy == pending # None \/ restarts # <<>> \/ complete
Waits == Patient => ~Busy

(* The file is read into new sections and written as a whole.              *)
load == current' = file /\ shares' = {}
save(settings) == file' = settings

set_fullscreen(v) == used' = [used EXCEPT !["fullscreen"] = v]

-----------------------------------------------------------------------------
(* Settings are applied.  *)

_needs_relay_restart(new) ==
  \/ old["enabled"] # new["enabled"] /\ new["id"] # NoId
  \/ new["enabled"] /\ (old["id"] # new["id"] \/ old["spectator"] # new["spectator"])
  \/ ~new["enabled"] /\ ~old["spectator"] /\ new["spectator"] /\ new["id"] # NoId

_transport_changed(new) == old["transport"] # new["transport"]

NeedsRestart(new) == old["ports"] # new["ports"] \/ _needs_relay_restart(new) \/ _transport_changed(new)

apply_settings(new) ==
  /\ current' = new /\ old' = new
  /\ used' = [f \in Copied |-> new[f]]
  /\ overlaid' = TRUE /\ shares' = {}
  /\ network' = IF connected THEN network ELSE new

(* A new object for what is to come, which a restart thread gets first     *)
(* when the network has to change.                                         *)
update_settings(new) ==
  IF connected /\ NeedsRestart(new)
  THEN /\ pending' = new /\ restarts' = Append(restarts, new)
       /\ set_fullscreen(new["fullscreen"])
       /\ UNCHANGED <<old, network, complete>>
  ELSE /\ apply_settings(new)
       /\ UNCHANGED restarting

RestartEnds ==
  \E i \in DOMAIN restarts :
    /\ network' = restarts[i]
    /\ used' = [used EXCEPT !["ttl"] = restarts[i]["ttl"]]
    /\ restarts' = RemoveAt(restarts, i) /\ complete' = TRUE
    /\ UNCHANGED <<objects, menu, overlaid, connected, pending, edits>>

check_network_restart_complete ==
  /\ complete /\ complete' = FALSE
  /\ IF pending # None
     THEN apply_settings(pending) /\ pending' = None
     ELSE UNCHANGED <<current, old, using, shares, pending>>
  /\ UNCHANGED <<file, visible, tab, tabs, restarts, connected, edits>>

Connect ==
  /\ ~connected /\ ~visible /\ connected' = TRUE
  /\ UNCHANGED <<objects, menu, using, restarting, edits>>

-----------------------------------------------------------------------------
(* The menu.  *)

(* Tabs take the values of the settings they have and hold its sections.   *)
Shown(settings) == tabs' = settings /\ shares' = Section

Show ==
  /\ ~visible /\ visible' = TRUE
  /\ Shown(current)
  /\ UNCHANGED <<objects, tab, using, connected, restarting, edits>>

ChooseTab ==
  /\ visible /\ tab' \in Tabs \ {tab}
  /\ UNCHANGED <<objects, visible, tabs, shares, using, connected, restarting, edits>>

(* A widget tells its tab, which writes what it holds.  A key is written   *)
(* to the settings the tab has then.                                       *)
Edit(f, v) ==
  LET here == f = "keys" \/ (f \notin Held /\ SectionOf[f] \in shares)
  IN /\ visible /\ f \in Fields(tab) /\ v # tabs[f] /\ edits < MaxEdits
     /\ edits' = edits + 1
     /\ tabs' = [tabs EXCEPT ![f] = v]
     /\ current' = IF here THEN [current EXCEPT ![f] = v] ELSE current
     /\ used' = IF f = "widgets" /\ here /\ overlaid THEN [used EXCEPT ![f] = v] ELSE used
     /\ UNCHANGED <<file, old, shares, overlaid, network, visible, tab, connected, restarting>>

Checkbox(f) == Edit(f, ~tabs[f])
NumberInput(f) == Edit(f, ~tabs[f])
TextInput(f) == \E v \in Values(f) : Edit(f, v)
Select(f) == Edit(f, ~tabs[f])
KeyMapping(f) == Waits /\ Edit(f, ~tabs[f])

GeneralTab == Checkbox("fullscreen") \/ Checkbox("info")
InputTab == KeyMapping("keys")
OsdTab == Checkbox("widgets")
NetworkTab ==
  \/ Select("transport") \/ NumberInput("ports") \/ NumberInput("ttl")
  \/ TextInput("id") \/ Checkbox("enabled") \/ Checkbox("spectator")
FrequenciesTab == NumberInput("timing")

(* The values of the active tab go into the settings, and all of these     *)
(* into the file.                                                          *)
Save ==
  LET saved == [f \in Field |-> IF f \in Fields(tab) \ {"keys"} THEN tabs[f] ELSE current[f]]
  IN /\ visible /\ Waits /\ current' = saved /\ save(saved)
     /\ shares' = shares \cup Sections(tab)
     /\ overlaid' = (overlaid /\ (tab = "OSD" => "widgets" \in shares))
     /\ UNCHANGED <<old, visible, tab, tabs, used, network, connected, restarting, edits>>

(* Back or Escape: what was not saved is undone by loading the object      *)
(* again, and a new one is made of the file.                               *)
Leave_NotLoaded ==
  /\ visible /\ Waits
  /\ visible' = FALSE /\ tab' = "General"
  /\ update_settings(file)
  /\ (connected /\ NeedsRestart(file)) => UNCHANGED <<current, shares, overlaid>>
  /\ tabs' = file
  /\ UNCHANGED <<file, connected, edits>>

Leave ==
  /\ visible /\ Waits
  /\ visible' = FALSE /\ tab' = "General"
  /\ load
  /\ update_settings(file)
  /\ overlaid' = ~(connected /\ NeedsRestart(file))
  /\ tabs' = file
  /\ UNCHANGED <<file, connected, edits>>

(* F11 *)
_on_toggle_fullscreen ==
  LET now == [current EXCEPT !["fullscreen"] = ~used["fullscreen"]]
  IN /\ Waits
     /\ set_fullscreen(~used["fullscreen"])
     /\ current' = now /\ save(now)
     /\ IF visible THEN Shown(now) ELSE tabs' = now /\ UNCHANGED shares
     /\ UNCHANGED <<old, visible, tab, overlaid, network, connected, restarting, edits>>

Widget == GeneralTab \/ InputTab \/ OsdTab \/ NetworkTab \/ FrequenciesTab
Next ==
  \/ Connect \/ Show \/ ChooseTab \/ Widget \/ Save \/ Leave \/ _on_toggle_fullscreen
  \/ RestartEnds \/ check_network_restart_complete

(* The restart thread ends, and the main loop goes round.                  *)
Fairness == WF_vars(RestartEnds) /\ WF_vars(check_network_restart_complete)
Spec == Init /\ [][Next]_vars
FairSpec == Spec /\ Fairness

-----------------------------------------------------------------------------
(* What a controller and its setup make of the settings.                   *)
Relayed(s) == s["enabled"] /\ s["id"] # NoId
Reaches(s) == [ports |-> s["ports"], transport |-> s["transport"],
               relay |-> IF Relayed(s) THEN s["id"] ELSE NoId,
               spectator |-> s["enabled"] /\ s["spectator"]]

(* With the menu left and no restart under way, every part of the program  *)
(* goes by what is in the file: the display, the overlay, the keys, the    *)
(* timing, the transmitter and the network (update_settings and            *)
(* apply_settings of SettingsController.py).                               *)
InStep ==
  ~visible /\ ~Busy =>
    /\ current = file
    /\ \A f \in Copied : used[f] = file[f]
    /\ Reaches(network) = Reaches(file)

(* The menu opens with what is in the file, also while the network is      *)
(* being restarted for it (show of Menu.py, load on leaving).              *)
ShownIsSaved == [][~visible /\ visible' => tabs' = file']_vars

(* What a tab shows is what is saved, whichever object its sections are of *)
(* by then (_save_button_callback of Menu.py).                             *)
SavedIsShown == [][Save => \A f \in Fields(tab) : file'[f] = tabs[f]]_vars

(* A restart comes to an end and its settings are applied.                 *)
Settles == Busy ~> ~Busy

(* Only the active tab is saved.  Not so: what other tabs have changed in  *)
(* place goes into the file with it, and with F11.                         *)
SavesItsTab == [][\A f \in Field \ Fields(tab) : Save => file'[f] = file[f]]_vars
=============================================================================
