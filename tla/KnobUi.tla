------------------------------- MODULE KnobUi -------------------------------
(***************************************************************************)
(* The pages and the SD card together: the card is operated from its page  *)
(* only, opening the page mounts it, and the microphone, which runs on     *)
(* behind the user's back for a while, keeps it from being mounted.        *)
(* Of the microphone only its being active is kept: AudioWorkers has more. *)
(***************************************************************************)
EXTENDS MenuNavigation, SdCard

vars == <<navVars, sdVars>>

Init == NavInit /\ SdInit

(* create_hw_sd_test_menu mounts; other pages leave the card alone.        *)
OpenPage(menu) ==
  /\ PushMenu(menu)
  /\ IF menu = "MENU_HW_SD" THEN MountButton ELSE UNCHANGED sdVars

BackButton == PopMenu /\ UNCHANGED sdVars

SdButton ==
  /\ current = "MENU_HW_SD"
  /\ MountButton \/ UnmountButton \/ ListButton \/ TestBegins
  /\ UNCHANGED navVars

(* A callback that has begun goes on; nothing else happens in the task.    *)
Callback == Test /\ UNCHANGED navVars

(* The start button of the audio page, and the end of the worker.          *)
Microphone ==
  /\ micActive' = ~micActive
  /\ micActive' => current = "MENU_HW_AUDIO_MIC"
  /\ UNCHANGED <<navVars, mounted, driver, slot, file, sdPc, readBack, written,
                 message, noCleanUp>>

Hand == (PullCard \/ PushCard) /\ UNCHANGED navVars

Next ==
  \/ sdPc = "idle" /\ ((\E menu \in Tree!Page : OpenPage(menu)) \/ BackButton)
  \/ SdButton
  \/ Callback
  \/ Microphone
  \/ Hand

Spec == Init /\ [][Next]_vars

-----------------------------------------------------------------------------
(* Every variable stays in its type.                                       *)
TypeOK == NavTypeOK /\ SdTypeOK
=============================================================================
