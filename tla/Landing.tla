------------------------------ MODULE Landing ------------------------------
(***************************************************************************)
(* The battle landing page, pages/KanaBattleLandingPage.js: choosing       *)
(* groups, creating a room over HTTP, joining one by its code.  A request  *)
(* to create a room is a slot of "calls": it survives the page that sent   *)
(* it, and nothing keeps the user from sending a second one.  The duration *)
(* and the code field are chosen when the form is sent; whether the list   *)
(* of groups is open is left out.                                          *)
(***************************************************************************)
EXTENDS Practice

CONSTANTS
  Rooms,      \* rooms that may be created; a room stands for its code too
  NoRoom,     \* no room, and a code that leads to none
  Picked,     \* bound: the groups the user clicks
  Presets,    \* bound: the presets the user tries
  Calls       \* bound: one slot for each request to create a room

ASSUME RoomAssumption == NoRoom \notin Rooms
ASSUME PickAssumption == Picked \subseteq Groups /\ Presets \subseteq {"beginner", "standard", "all"}

VARIABLES
  selectedGroups,
  calls         \* the groups of each request to create a room that is on its way

landingVars == <<selectedGroups, calls>>

Durations == {30, 60, 90}

BEGINNER_GROUPS == {"hsingle", "hk", "hs", "ht", "ksingle", "kk", "ks", "kt"}
STANDARD_GROUPS == BEGINNER_GROUPS \cup
  {"hn", "hh", "hm", "hy", "hr", "kn", "kh", "km", "ky", "kr"}
ALL_GROUPS == Groups

PresetGroups == [beginner |-> BEGINNER_GROUPS, standard |-> STANDARD_GROUPS, all |-> ALL_GROUPS]

NoCall == {}

LandingInit ==
  /\ selectedGroups = {"hsingle"}
  /\ calls = [k \in Calls |-> NoCall]

handleToggleGroup ==
  /\ \E g \in Picked : selectedGroups' = Toggled(selectedGroups, g)
  /\ UNCHANGED calls

applyPreset ==
  /\ \E p \in Presets : selectedGroups' = PresetGroups[p]
  /\ UNCHANGED calls

(* handleCreateRoom up to its await, for a user who is signed in.  The     *)
(* button stays enabled, so a second click takes a second slot.            *)
handleCreateRoom(k) ==
  /\ selectedGroups # {}
  /\ calls[k] = NoCall
  /\ calls' = [calls EXCEPT ![k] = selectedGroups]
  /\ UNCHANGED selectedGroups
=============================================================================
