--------------------------- MODULE MenuNavigation ---------------------------
(***************************************************************************)
(* show_menu, push_menu and pop_menu: the router of the pages, its history *)
(* for Back, and the global pointers to widgets of the page that is shown. *)
(* All of it runs in the LVGL task, so a callback is one step.             *)
(***************************************************************************)
EXTENDS Naturals, Sequences

CONSTANT StackSize  \* MENU_STACK_SIZE

(* The pages are two levels below the main menu; the code has room for 12. *)
ASSUME StackAssumption == StackSize \in Nat /\ StackSize >= 2

VARIABLES
  current,   \* current_menu
  stack,     \* menu_stack up to menu_stack_top
  pointers,  \* the global widget pointers that are not NULL
  widgets    \* the widgets of the page which those pointers are for

navVars == <<current, stack, pointers, widgets>>

Tree == INSTANCE MenuTree

(* The pointers the constructor of a page sets.                            *)
Sets(page) ==
  CASE page = "MENU_MEDIA_CONTROLLER" -> {"media_status_label"}
    [] page = "MENU_HW_TOUCH"         -> {"touch_test_label"}
    [] page = "MENU_HW_ENCODER"       -> {"encoder_test_label"}
    [] page = "MENU_HW_SD"            -> {"sd_test_label"}
    [] page = "MENU_HW_AUDIO_MIC"     ->
         {"audio_mic_status_label", "audio_mic_level_bar",
          "audio_mic_peak_label", "audio_dac_info_label",
          "audio_loopback_status_label", "audio_loopback_gain_label",
          "audio_loopback_gain_slider"}
    [] page = "MENU_HW_BATTERY"       ->
         {"battery_adc_status_label", "battery_adc_detail_label",
          "battery_adc_level_bar"}
    [] OTHER                          -> {}

(* The pointers show_menu sets to NULL.                                    *)
Cleared ==
  {"touch_test_label", "encoder_test_label", "sd_test_label",
   "media_status_label", "audio_mic_status_label", "audio_mic_level_bar",
   "audio_mic_peak_label", "audio_dac_info_label",
   "audio_loopback_status_label", "audio_loopback_gain_label",
   "audio_loopback_gain_slider", "battery_adc_status_label",
   "battery_adc_detail_label", "battery_adc_level_bar"}

NavInit ==
  /\ current  = "MENU_MAIN"
  /\ stack    = <<>>
  /\ pointers = {}
  /\ widgets  = {}

(* Mutant of ShowMenu: one pointer was forgotten.                          *)
ShowMenuForgets(menu) ==
  /\ current'  = menu
  /\ pointers' = (pointers \ (Cleared \ {"sd_test_label"})) \cup Sets(menu)
  /\ widgets'  = Sets(menu)

(* show_menu: the old page is deleted with its widgets, the new one built. *)
ShowMenu(menu) ==
  /\ current'  = menu
  /\ pointers' = (pointers \ Cleared) \cup Sets(menu)
  /\ widgets'  = Sets(menu)

(* Mutant of PushMenu: the last slot stays unused.                         *)
PushMenuOffByOne(menu) ==
  /\ menu \in Tree!Opens(current)
  /\ stack' = IF Len(stack) < StackSize - 1 THEN Append(stack, current)
                                            ELSE stack
  /\ ShowMenu(menu)

(* push_menu from an open_..._cb; a full stack drops the page to return to.*)
PushMenu(menu) ==
  /\ menu \in Tree!Opens(current)
  /\ stack' = IF Len(stack) < StackSize THEN Append(stack, current) ELSE stack
  /\ ShowMenu(menu)

(* pop_menu from back_cb or audio_mic_back_cb.                             *)
PopMenu ==
  /\ current # "MENU_MAIN"
  /\ IF stack # <<>>
       THEN /\ stack' = SubSeq(stack, 1, Len(stack) - 1)
            /\ ShowMenu(stack[Len(stack)])
       ELSE ShowMenu("MENU_MAIN") /\ UNCHANGED stack

-----------------------------------------------------------------------------
NavTypeOK ==
  /\ current  \in Tree!Page
  /\ stack    \in Seq(Tree!Page) /\ Len(stack) <= StackSize
  /\ pointers \in SUBSET Cleared
  /\ widgets  \in SUBSET Cleared

(* The path from the main menu to a page, without the page.                *)
Path(page) == IF page = "MENU_MAIN"               THEN <<>>
              ELSE IF page \in Tree!MainOpens      THEN <<"MENU_MAIN">>
              ELSE <<"MENU_MAIN", Tree!Parent(page)>>

(* The history never overflows into a forgotten page and never runs dry:   *)
(* it is the way from the main menu to the page that is shown.             *)
StackIsPath == stack = Path(current)

(* A global pointer that is not NULL points to a widget of the page that   *)
(* is shown.  The timers and the SD and touch callbacks write through it.  *)
NoDanglingPointer == pointers \subseteq widgets

(* Back always undoes the button that opened the page: the router with its *)
(* bounded history implements the tree.                                    *)
TreeSpec == Tree!Spec
=============================================================================
