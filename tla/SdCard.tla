------------------------------- MODULE SdCard -------------------------------
(***************************************************************************)
(* The microSD diagnostic: mount, unmount, the write-read-compare-delete   *)
(* test and the listing, run from the buttons of the SD page in the LVGL   *)
(* task.  A callback blocks that task, but not the user's hand: the card   *)
(* may be pulled out between any two calls into the file system.           *)
(*                                                                         *)
(* The FAT driver and the card are external: a call fails at will, and     *)
(* always if the card that was mounted has left the slot since.  sd_card   *)
(* and sd_card_mounted always change together and are one variable.        *)
(***************************************************************************)
EXTENDS Naturals

Card == {"card1", "card2"}

VARIABLES
  micActive,    \* the microphone worker is starting, running or stopping
  mounted,      \* sd_card_mounted, sd_card # NULL
  registered,   \* the driver has the mount point
  mountedCard,  \* the card it was mounted with
  usable,       \* that card is still, and has always been, in the slot
  slot,         \* the card in the slot
  file,         \* per card: the content of SD_TEST_FILE_PATH
  sdPc,         \* where the callback is
  readBack,     \* what the test read
  written,      \* history: what the test wrote
  message,      \* the second line of sd_test_label
  noCleanUp     \* history: cards whose test file could not be removed

sdVars == <<micActive, mounted, registered, mountedCard, usable, slot, file,
            sdPc, readBack, written, message, noCleanUp>>

driver == <<registered, mountedCard, usable>>

SdInit ==
  /\ micActive   = FALSE
  /\ mounted     = FALSE
  /\ registered  = FALSE
  /\ mountedCard = "none"
  /\ usable      = FALSE
  /\ slot        \in Card \cup {"none"}
  /\ file        = [c \in Card |-> "absent"]
  /\ sdPc        = "idle"
  /\ readBack    = "absent"
  /\ written     = "absent"
  /\ message     = "none"
  /\ noCleanUp   = {}

-----------------------------------------------------------------------------
(* sd_card_mount                                                           *)

(* Mutant of MountFresh: the flag is set although the driver failed.       *)
MountFreshHopes(err) ==
  /\ mounted' = TRUE
  /\ \/ /\ slot # "none" /\ ~registered /\ err = FALSE
        /\ registered' = TRUE
        /\ mountedCard' = slot /\ usable' = TRUE
     \/ err = TRUE /\ UNCHANGED driver

(* esp_vfs_fat_sdmmc_mount                                                 *)
MountFresh(err) ==
  \/ /\ slot # "none" /\ ~registered /\ err = FALSE
     /\ mounted' = TRUE /\ registered' = TRUE
     /\ mountedCard' = slot /\ usable' = TRUE
  \/ err = TRUE /\ mounted' = FALSE /\ UNCHANGED driver

(* The microphone's guard comes first, then what is mounted already.       *)
Mount(err) ==
  IF micActive THEN err = TRUE /\ UNCHANGED <<mounted, driver>>
  ELSE IF mounted THEN err = FALSE /\ UNCHANGED <<mounted, driver>>
  ELSE MountFresh(err)

(* Opening the page, and sd_mount_refresh_cb                               *)
MountButton ==
  /\ sdPc = "idle"
  /\ \E err \in BOOLEAN :
       Mount(err) /\ message' = IF err THEN "mountFail" ELSE "mountOk"
  /\ UNCHANGED <<micActive, slot, file, sdPc, readBack, written,
                 noCleanUp>>

(* sd_card_unmount.  The driver's unmount does not touch the card, and it  *)
(* cannot fail for one that is mounted; the code's branch for a failure,   *)
(* which keeps the flags, is never taken.                                  *)
Unmount ==
  /\ mounted' = FALSE
  /\ registered' = FALSE /\ usable' = FALSE /\ mountedCard' = "none"

UnmountButton ==
  /\ sdPc = "idle"
  /\ IF mounted THEN Unmount ELSE UNCHANGED <<mounted, driver>>
  /\ message' = "unmountOk"
  /\ UNCHANGED <<micActive, slot, file, sdPc, readBack, written,
                 noCleanUp>>

(* sd_card_list_root                                                       *)
ListButton ==
  /\ sdPc = "idle"
  /\ \E err \in BOOLEAN :
       /\ Mount(err)
       /\ \/ ~err /\ usable' /\ message' = "listOk"
          \/ message' = "listFail"
  /\ UNCHANGED <<micActive, slot, file, sdPc, readBack, written,
                 noCleanUp>>

-----------------------------------------------------------------------------
(* sd_card_read_write_test                                                 *)

Finish(outcome) == sdPc' = "idle" /\ message' = outcome

TestBegins ==
  /\ sdPc = "idle"
  /\ \E err \in BOOLEAN :
       /\ Mount(err)
       /\ IF err THEN Finish("rwFail")
                 ELSE sdPc' = "openWrite" /\ message' = "running"
  /\ readBack' = "absent" /\ written' = "absent"
  /\ UNCHANGED <<micActive, slot, file, noCleanUp>>

StoreFile(content) == file' = [file EXCEPT ![mountedCard] = content]

OpenWrite ==
  /\ sdPc = "openWrite"
  /\ \/ /\ usable
        /\ StoreFile("short")
        /\ noCleanUp' = noCleanUp \ {mountedCard}
        /\ sdPc' = "write" /\ UNCHANGED message
     \/ Finish("rwFail") /\ UNCHANGED <<file, noCleanUp>>
  /\ UNCHANGED <<micActive, mounted, driver, slot, readBack, written>>

(* fwrite and fclose.  The data may reach the card damaged, which neither  *)
(* notices; a short write and a failing fclose are noticed.                *)
Write ==
  /\ sdPc = "write"
  /\ \/ /\ usable
        /\ \E content \in {"damaged", "expected"} :
             StoreFile(content) /\ written' = content
        /\ sdPc' = "openRead"
     \/ sdPc' = "removeFailed" /\ UNCHANGED <<file, written>>
  /\ UNCHANGED <<micActive, mounted, driver, slot, readBack, message,
                 noCleanUp>>

OpenRead ==
  /\ sdPc = "openRead"
  /\ \/ usable /\ sdPc' = "read"
     \/ sdPc' = "removeFailed"
  /\ UNCHANGED <<micActive, mounted, driver, slot, file, readBack, written,
                 message, noCleanUp>>

(* fread stops early when the card fails; a failing fclose is only logged. *)
Read ==
  /\ sdPc = "read"
  /\ \/ usable /\ readBack' = file[mountedCard]
     \/ readBack' = "short"
  /\ sdPc' = "remove"
  /\ UNCHANGED <<micActive, mounted, driver, slot, file, written, message,
                 noCleanUp>>

(* remove; that it fails is logged at most.                                *)
RemoveFile ==
  \/ /\ usable
     /\ StoreFile("absent")
     /\ UNCHANGED noCleanUp
  \/ noCleanUp' = noCleanUp \cup {mountedCard} /\ UNCHANGED file

(* Mutants of Compare: any byte read will do; the file is left behind when *)
(* the comparison fails.                                                   *)
CompareNothing ==
  /\ sdPc = "remove"
  /\ RemoveFile
  /\ Finish(IF readBack # "absent" THEN "rwPass" ELSE "rwFail")
  /\ UNCHANGED <<micActive, mounted, driver, slot, readBack, written>>

CompareFirst ==
  /\ sdPc = "remove"
  /\ IF readBack = "expected"
       THEN RemoveFile /\ Finish("rwPass")
       ELSE Finish("rwFail") /\ UNCHANGED <<file, noCleanUp>>
  /\ UNCHANGED <<micActive, mounted, driver, slot, readBack, written>>

Compare ==
  /\ sdPc = "remove"
  /\ RemoveFile
  /\ Finish(IF readBack = "expected" THEN "rwPass" ELSE "rwFail")
  /\ UNCHANGED <<micActive, mounted, driver, slot, readBack, written>>

(* The three error paths after the file was created.                       *)
RemoveAfterFailure ==
  /\ sdPc = "removeFailed"
  /\ RemoveFile
  /\ Finish("rwFail")
  /\ UNCHANGED <<micActive, mounted, driver, slot, readBack, written>>

Test == OpenWrite \/ Write \/ OpenRead \/ Read \/ Compare \/ RemoveAfterFailure

-----------------------------------------------------------------------------
(* The user's hand (external).                                             *)
PullCard ==
  /\ slot # "none"
  /\ slot'   = "none"
  /\ usable' = FALSE
  /\ UNCHANGED <<micActive, mounted, registered, mountedCard, file, sdPc,
                 readBack, written, message, noCleanUp>>

PushCard ==
  /\ slot = "none"
  /\ slot' \in Card
  /\ UNCHANGED <<micActive, mounted, driver, file, sdPc, readBack, written,
                 message, noCleanUp>>

-----------------------------------------------------------------------------
SdTypeOK ==
  /\ micActive   \in BOOLEAN
  /\ mounted     \in BOOLEAN
  /\ registered  \in BOOLEAN
  /\ mountedCard \in Card \cup {"none"}
  /\ usable      \in BOOLEAN
  /\ slot        \in Card \cup {"none"}
  /\ file        \in [Card -> {"absent", "short", "damaged", "expected"}]
  /\ sdPc        \in {"idle", "openWrite", "write", "openRead", "read",
                      "remove", "removeFailed"}
  /\ readBack    \in {"absent", "short", "damaged", "expected"}
  /\ written     \in {"absent", "damaged", "expected"}
  /\ message     \in {"none", "mountOk", "mountFail", "unmountOk",
                      "listOk", "listFail", "running", "rwPass", "rwFail"}
  /\ noCleanUp   \in SUBSET Card

(* The flags tell what the driver holds, through failed mounts and cards   *)
(* that come and go: no mount is leaked and none is unmounted twice.       *)
FlagsFollowDriver == mounted = registered

(* A test passes only if its own data reached the card whole: neither a    *)
(* damaged write nor a file left by an earlier test lets it pass.          *)
PassIsEarned == message = "rwPass" => written = "expected"

(* "The diagnostic should clean up after itself whenever possible"         *)
(* (main.c:1671): a test file that is left on a card was refused by remove.*)
LeftoverHasCause == sdPc = "idle" =>
  \A c \in Card : file[c] # "absent" => c \in noCleanUp

=============================================================================
