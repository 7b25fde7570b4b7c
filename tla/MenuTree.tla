------------------------------ MODULE MenuTree ------------------------------
(***************************************************************************)
(* What the menus promise the user: the pages form a tree, a button of a   *)
(* page opens one of its children, and Back returns to the parent.  There  *)
(* is no history and no limit to it.                                       *)
(***************************************************************************)

VARIABLE current  \* current_menu

(* menu_id_t                                                               *)
Page ==
  {"MENU_MAIN", "MENU_MEDIA_CONTROLLER", "MENU_SETTINGS", "MENU_DISPLAY",
   "MENU_AUDIO", "MENU_INPUT", "MENU_ABOUT", "MENU_HARDWARE_TESTS",
   "MENU_HW_DISPLAY", "MENU_HW_TOUCH", "MENU_HW_ENCODER", "MENU_HW_BACKLIGHT",
   "MENU_HW_MEMORY", "MENU_HW_SD", "MENU_HW_HAPTICS", "MENU_HW_AUDIO_MIC",
   "MENU_HW_BATTERY", "MENU_HW_UNAVAILABLE"}

(* The buttons of the pages that have children.                            *)
MainOpens ==
  {"MENU_MEDIA_CONTROLLER", "MENU_SETTINGS", "MENU_HARDWARE_TESTS",
   "MENU_ABOUT"}

SettingsOpens == {"MENU_DISPLAY", "MENU_AUDIO", "MENU_INPUT"}

HardwareTestsOpens ==
  {"MENU_HW_DISPLAY", "MENU_HW_TOUCH", "MENU_HW_ENCODER", "MENU_HW_BACKLIGHT",
   "MENU_HW_MEMORY", "MENU_HW_SD", "MENU_HW_HAPTICS", "MENU_HW_AUDIO_MIC",
   "MENU_HW_BATTERY", "MENU_HW_UNAVAILABLE"}

Opens(page) == IF page = "MENU_MAIN"                THEN MainOpens
               ELSE IF page = "MENU_SETTINGS"       THEN SettingsOpens
               ELSE IF page = "MENU_HARDWARE_TESTS" THEN HardwareTestsOpens
               ELSE {}

Parent(page) == IF page \in SettingsOpens           THEN "MENU_SETTINGS"
                ELSE IF page \in HardwareTestsOpens THEN "MENU_HARDWARE_TESTS"
                ELSE "MENU_MAIN"

Init == current = "MENU_MAIN"

Open == current' \in Opens(current)

(* Every page but the main menu has a Back button.                         *)
Back == current # "MENU_MAIN" /\ current' = Parent(current)

Spec == Init /\ [][Open \/ Back]_current
=============================================================================
