---------------------------- MODULE KnobUi_proofs ----------------------------
(* Proofs about KnobUi.  Its invariant has two independent parts: the      *)
(* history is the path to the page that is shown and the pointers are      *)
(* those of that page; the mount flags mirror the driver.                  *)
EXTENDS KnobUi, SequenceTheorems, TLAPS

PageInv ==
  /\ current \in Tree!Page
  /\ StackIsPath
  /\ pointers = Sets(current) /\ widgets = Sets(current)

USE DEF Tree!Page, Tree!MainOpens, Tree!SettingsOpens,
        Tree!HardwareTestsOpens

(* The pointers a constructor sets are among those show_menu clears.       *)
LEMMA SetsCleared == \A page \in Tree!Page : Sets(page) \subseteq Cleared
  BY DEF Sets, Cleared

(* The path to a page, with the page, is the path to each of its children. *)
LEMMA PathToChild ==
  ASSUME NEW page \in Tree!Page, NEW child \in Tree!Opens(page)
  PROVE  /\ child \in Tree!Page
         /\ Path(child) = Append(Path(page), page)
         /\ Len(Path(page)) < StackSize
         /\ Tree!Parent(child) = page
  <1>1. CASE page = "MENU_MAIN"
    BY <1>1, StackAssumption DEF Tree!Opens, Path, Tree!Parent
  <1>2. CASE page = "MENU_SETTINGS"
    BY <1>2, StackAssumption DEF Tree!Opens, Path, Tree!Parent
  <1>3. CASE page = "MENU_HARDWARE_TESTS"
    BY <1>3, StackAssumption DEF Tree!Opens, Path, Tree!Parent
  <1>4. CASE page \notin {"MENU_MAIN", "MENU_SETTINGS", "MENU_HARDWARE_TESTS"}
    BY <1>4 DEF Tree!Opens
  <1> QED BY <1>1, <1>2, <1>3, <1>4

(* What is left of a pair without its last entry.                          *)
LEMMA FrontOfPair ==
  ASSUME NEW a \in Tree!Page, NEW b \in Tree!Page
  PROVE  SubSeq(<<a, b>>, 1, 1) = <<a>>
  <1> DEFINE s == <<a, b>>
  <1>1. \A i \in 1..1 : s[i] \in Tree!Page
    OBVIOUS
  <1>2. /\ SubSeq(s, 1, 1) \in Seq(Tree!Page)
        /\ Len(SubSeq(s, 1, 1)) = 1
        /\ SubSeq(s, 1, 1)[1] = a
    BY <1>1, SubSeqProperties
  <1>3. <<a>> \in Seq(Tree!Page) /\ Len(<<a>>) = 1 /\ <<a>>[1] = a
    OBVIOUS
  <1>4. \A i \in 1..Len(SubSeq(s, 1, 1)) : SubSeq(s, 1, 1)[i] = <<a>>[i]
    BY <1>2, <1>3
  <1> QED BY <1>2, <1>3, <1>4, SeqEqual

(* Below the main menu the last entry of the path is the parent, and the   *)
(* rest of it is the parent's own path.                                    *)
LEMMA PathToParent ==
  ASSUME NEW page \in Tree!Page \ {"MENU_MAIN"}
  PROVE  /\ Path(page) # <<>>
         /\ Path(page)[Len(Path(page))] = Tree!Parent(page)
         /\ SubSeq(Path(page), 1, Len(Path(page)) - 1)
              = Path(Tree!Parent(page))
         /\ Tree!Parent(page) \in Tree!Page
  <1>1. CASE page \in Tree!MainOpens
    <2>1. SubSeq(<<"MENU_MAIN">>, 1, 0) = <<>>
      BY SubSeqEmpty
    <2> QED BY <1>1, <2>1 DEF Path, Tree!Parent
  <1>2. CASE page \in Tree!SettingsOpens
    <2>1. SubSeq(<<"MENU_MAIN", "MENU_SETTINGS">>, 1, 1) = <<"MENU_MAIN">>
      BY FrontOfPair
    <2> QED BY <1>2, <2>1 DEF Path, Tree!Parent
  <1>3. CASE page \in Tree!HardwareTestsOpens
    <2>1. SubSeq(<<"MENU_MAIN", "MENU_HARDWARE_TESTS">>, 1, 1)
            = <<"MENU_MAIN">>
      BY FrontOfPair
    <2> QED BY <1>3, <2>1 DEF Path, Tree!Parent
  <1> QED BY <1>1, <1>2, <1>3

-----------------------------------------------------------------------------
LEMMA OpenKeepsPageInv ==
  ASSUME PageInv, NEW menu \in Tree!Page, PushMenu(menu)
  PROVE  PageInv' /\ Tree!Open
  <1>1. menu \in Tree!Opens(current) /\ current \in Tree!Page
    BY DEF PushMenu, PageInv
  <1>2. /\ Path(menu) = Append(Path(current), current)
        /\ Len(Path(current)) < StackSize
    BY <1>1, PathToChild
  <1>3. stack' = Path(menu)
    BY <1>2 DEF PushMenu, PageInv, StackIsPath
  <1>4. current' = menu /\ pointers' = Sets(menu) /\ widgets' = Sets(menu)
    BY SetsCleared DEF PushMenu, ShowMenu, PageInv
  <1> QED BY <1>1, <1>3, <1>4 DEF PageInv, StackIsPath, Tree!Open

LEMMA BackKeepsPageInv ==
  ASSUME PageInv, PopMenu
  PROVE  PageInv' /\ Tree!Back
  <1> DEFINE parent == Tree!Parent(current)
  <1>1. current \in Tree!Page \ {"MENU_MAIN"} /\ stack = Path(current)
    BY DEF PopMenu, PageInv, StackIsPath
  <1>2. /\ stack # <<>>
        /\ stack[Len(stack)] = parent
        /\ SubSeq(stack, 1, Len(stack) - 1) = Path(parent)
        /\ parent \in Tree!Page
    BY <1>1, PathToParent
  <1>3. stack' = Path(parent) /\ ShowMenu(parent)
    BY <1>2 DEF PopMenu
  <1>4. current' = parent /\ pointers' = Sets(parent) /\ widgets' = Sets(parent)
    BY <1>3, SetsCleared DEF ShowMenu, PageInv
  <1> QED BY <1>1, <1>2, <1>3, <1>4 DEF PageInv, StackIsPath, Tree!Back

(* A step of the composition moves between pages or leaves them alone.     *)
LEMMA StepNavigates ==
  ASSUME [Next]_vars
  PROVE  \/ \E menu \in Tree!Page : PushMenu(menu)
         \/ PopMenu
         \/ UNCHANGED navVars
  BY DEF Next, vars, OpenPage, BackButton, SdButton, Callback, Microphone, Hand

LEMMA PageInductive == PageInv /\ [Next]_vars => PageInv'
  <1> SUFFICES ASSUME PageInv, [Next]_vars PROVE PageInv'
    OBVIOUS
  <1>1. CASE \E menu \in Tree!Page : PushMenu(menu)
    BY <1>1, OpenKeepsPageInv
  <1>2. CASE PopMenu
    BY <1>2, BackKeepsPageInv
  <1>3. CASE UNCHANGED navVars
    BY <1>3 DEF PageInv, StackIsPath, navVars
  <1> QED BY <1>1, <1>2, <1>3, StepNavigates

LEMMA PageInitially == Init => PageInv
  BY DEF Init, NavInit, PageInv, StackIsPath, Path, Sets

LEMMA PageInvariant == Spec => []PageInv
  BY PageInitially, PageInductive, PTL DEF Spec

(* The history is always the path to the page that is shown (push_menu,    *)
(* pop_menu), for every size of the history from two on.                   *)
THEOREM HistoryIsPath == Spec => []StackIsPath
  <1>1. PageInv => StackIsPath
    BY DEF PageInv
  <1> QED BY <1>1, PageInvariant, PTL

(* No global widget pointer outlives its page (show_menu).                 *)
THEOREM PointersAlive == Spec => []NoDanglingPointer
  <1>1. PageInv => NoDanglingPointer
    BY DEF PageInv, NoDanglingPointer
  <1> QED BY <1>1, PageInvariant, PTL

(* The router with its bounded history implements the tree of pages.       *)
THEOREM Refinement == Spec => TreeSpec
  <1>1. Init => Tree!Init
    BY DEF Init, NavInit, Tree!Init
  <1>2. PageInv /\ [Next]_vars => [Tree!Open \/ Tree!Back]_current
    <2> SUFFICES ASSUME PageInv, [Next]_vars
                 PROVE  [Tree!Open \/ Tree!Back]_current
      OBVIOUS
    <2> QED BY StepNavigates, OpenKeepsPageInv, BackKeepsPageInv DEF navVars
  <1> QED BY <1>1, <1>2, PageInvariant, PTL DEF Spec, TreeSpec, Tree!Spec

-----------------------------------------------------------------------------
(* A mount keeps flags and driver together, whether it fails or not.       *)
FlagInv == mounted \in BOOLEAN /\ registered \in BOOLEAN /\ FlagsFollowDriver

LEMMA MountKeepsFlags ==
  ASSUME FlagInv, NEW err \in BOOLEAN, Mount(err)
  PROVE  FlagInv'
  <1>1. CASE UNCHANGED <<mounted, driver>>
    BY <1>1 DEF FlagInv, FlagsFollowDriver, driver
  <1>2. CASE ~mounted /\ MountFresh(err)
    BY <1>2 DEF FlagInv, FlagsFollowDriver, MountFresh, driver
  <1> QED BY <1>1, <1>2 DEF Mount

(* The mount flags mirror the driver (sd_card_mount, sd_card_unmount),     *)
(* whatever the card, the microphone and the user do.                      *)
THEOREM FlagsTruthful == Spec => []FlagsFollowDriver
  <1>1. Init => FlagInv
    BY DEF Init, SdInit, FlagInv, FlagsFollowDriver
  <1>2. FlagInv /\ [Next]_vars => FlagInv'
    <2> SUFFICES ASSUME FlagInv, [Next]_vars
                 PROVE  FlagInv'
      OBVIOUS
    <2>1. CASE \E err \in BOOLEAN : Mount(err)
      BY <2>1, MountKeepsFlags
    <2>2. CASE UnmountButton
      BY <2>2 DEF UnmountButton, Unmount, driver, FlagInv, FlagsFollowDriver
    <2>3. CASE UNCHANGED <<mounted, registered>>
      BY <2>3 DEF FlagInv, FlagsFollowDriver
    <2>4. \/ \E err \in BOOLEAN : Mount(err)
          \/ UnmountButton
          \/ UNCHANGED <<mounted, registered>>
      BY DEF Next, vars, sdVars, OpenPage, BackButton, SdButton, Callback,
             Microphone, Hand, MountButton, ListButton, TestBegins, Test,
             OpenWrite, Write, OpenRead, Read, Compare, RemoveAfterFailure,
             PullCard, PushCard, driver
    <2> QED BY <2>1, <2>2, <2>3, <2>4
  <1>3. FlagInv => FlagsFollowDriver
    BY DEF FlagInv
  <1> QED BY <1>1, <1>2, <1>3, PTL DEF Spec

-----------------------------------------------------------------------------
(* The test of the card.  While it runs, the card it writes to and reads   *)
(* from is the one that was mounted when it began.                         *)
CardInv ==
  /\ mounted \/ usable \/ sdPc # "idle" => mountedCard \in Card
  /\ sdPc # "idle" => mounted

(* What was read can only be right if what was written arrived.            *)
EarnInv ==
  /\ sdPc \in {"openRead", "read"} => file[mountedCard] = written
  /\ sdPc = "remove" /\ readBack = "expected" => written = "expected"
  /\ message = "rwPass" => sdPc = "idle" /\ written = "expected"

(* A test file is one the running test may still remove, or one it could   *)
(* not.                                                                    *)
LeftInv ==
  \A c \in Card : file[c] # "absent" =>
    c \in noCleanUp \/ (sdPc \notin {"idle", "openWrite"} /\ c = mountedCard)

SdInv == SdTypeOK /\ CardInv /\ EarnInv /\ LeftInv

LEMMA SdInitially ==
  ASSUME Init
  PROVE  SdInv
<1>1. SdTypeOK
  <2>1. (file \in [Card -> {"absent", "short", "damaged", "expected"}]
         /\ noCleanUp \in SUBSET Card)
    BY DEF Init, SdInit
  <2> QED BY <2>1 DEF Init, SdInit, SdTypeOK
<1>2. CardInv /\ EarnInv /\ LeftInv
  BY DEF Init, SdInit, CardInv, EarnInv, LeftInv
<1> QED BY <1>1, <1>2 DEF SdInv

(* What a call of sd_card_mount leaves behind.                             *)
LEMMA MountKeepsCard ==
  ASSUME SdInv, sdPc = "idle", NEW err \in BOOLEAN, Mount(err)
  PROVE  /\ mounted' \in BOOLEAN /\ registered' \in BOOLEAN
         /\ usable' \in BOOLEAN /\ mountedCard' \in Card \cup {"none"}
         /\ mounted' \/ usable' => mountedCard' \in Card
         /\ ~err => mounted'
<1> USE DEF SdInv, SdTypeOK, CardInv
<1>1. CASE UNCHANGED <<mounted, driver>>
  BY <1>1 DEF Mount, MountFresh, driver
<1>2. CASE ~mounted /\ MountFresh(err)
  <2>1. CASE err
    <3>1. (mounted' = FALSE /\ UNCHANGED driver)
      BY <1>2, <2>1 DEF MountFresh
    <3> QED BY <2>1, <3>1 DEF driver
  <2>2. CASE ~err
    <3>1. (/\ slot # "none" /\ mounted' = TRUE /\ registered' = TRUE
           /\ mountedCard' = slot /\ usable' = TRUE)
      BY <1>2, <2>2 DEF MountFresh
    <3> QED BY <3>1
  <2> QED BY <2>1, <2>2
<1> QED BY <1>1, <1>2 DEF Mount

(* The buttons of the page begin and end while no test runs.               *)
LEMMA ButtonKeepsSdInv ==
  ASSUME SdInv,
         MountButton \/ UnmountButton \/ ListButton \/ TestBegins
  PROVE  SdInv'
<1>1. CASE MountButton \/ ListButton
  <2>1. PICK err \in BOOLEAN : Mount(err)
    BY <1>1 DEF MountButton, ListButton
  <2>2. (/\ sdPc = "idle" /\ UNCHANGED <<micActive, slot, file, sdPc, readBack,
                                         written, noCleanUp>>
         /\ message' \in {"mountOk", "mountFail", "listOk", "listFail"})
    BY <1>1 DEF MountButton, ListButton
  <2>3. SdTypeOK'
    BY <2>1, <2>2, MountKeepsCard DEF SdInv, SdTypeOK
  <2>4. (CardInv /\ EarnInv /\ LeftInv)'
    BY <2>1, <2>2, MountKeepsCard DEF SdInv, CardInv, EarnInv, LeftInv
  <2> QED BY <2>3, <2>4 DEF SdInv
<1>2. CASE UnmountButton
  <2>1. (/\ sdPc = "idle" /\ UNCHANGED <<micActive, slot, file, sdPc, readBack,
                                         written, noCleanUp>>
         /\ message' = "unmountOk"
         /\ Unmount \/ UNCHANGED <<mounted, driver>>)
    BY <1>2 DEF UnmountButton
  <2>2. SdTypeOK'
    BY <2>1 DEF SdInv, SdTypeOK, Unmount, driver
  <2>3. (CardInv /\ EarnInv /\ LeftInv)'
    BY <2>1 DEF SdInv, CardInv, EarnInv, LeftInv, Unmount, driver
  <2> QED BY <2>2, <2>3 DEF SdInv
<1>3. CASE TestBegins
  <2>1. PICK err \in BOOLEAN :
          /\ Mount(err)
          /\ IF err THEN Finish("rwFail")
                    ELSE sdPc' = "openWrite" /\ message' = "running"
    BY <1>3 DEF TestBegins
  <2>2. (/\ sdPc = "idle" /\ readBack' = "absent" /\ written' = "absent"
         /\ UNCHANGED <<micActive, slot, file, noCleanUp>>)
    BY <1>3 DEF TestBegins
  <2>3. (sdPc' = "idle" \/ (sdPc' = "openWrite" /\ mounted'))
    BY <2>1, <2>2, MountKeepsCard DEF Finish
  <2>4. message' \in {"rwFail", "running"}
    BY <2>1 DEF Finish
  <2>5. SdTypeOK'
    BY <2>1, <2>2, <2>3, <2>4, MountKeepsCard DEF SdInv, SdTypeOK
  <2>6. (CardInv /\ EarnInv /\ LeftInv)'
    BY <2>1, <2>2, <2>3, <2>4, MountKeepsCard DEF SdInv, CardInv, EarnInv,
       LeftInv
  <2> QED BY <2>5, <2>6 DEF SdInv
<1> QED BY <1>1, <1>2, <1>3

(* A step of the running test.                                             *)
LEMMA TestKeepsSdInv ==
  ASSUME SdInv, Test
  PROVE  SdInv'
<1>0. (/\ UNCHANGED <<micActive, mounted, driver, slot>> /\ sdPc # "idle"
       /\ mountedCard \in Card /\ mounted
       /\ file \in [Card -> {"absent", "short", "damaged", "expected"}]
       /\ noCleanUp \in SUBSET Card)
  BY DEF Test, OpenWrite, Write, OpenRead, Read, Compare, RemoveAfterFailure,
     SdInv, CardInv, SdTypeOK
<1>a. ASSUME NEW content \in {"absent", "short", "damaged", "expected"},
             StoreFile(content)
      PROVE  /\ file' \in [Card -> {"absent", "short", "damaged", "expected"}]
             /\ file'[mountedCard] = content
             /\ \A c \in Card \ {mountedCard} : file'[c] = file[c]
  BY <1>0, <1>a DEF StoreFile
<1>b. ASSUME RemoveFile
      PROVE  /\ file' \in [Card -> {"absent", "short", "damaged", "expected"}]
             /\ noCleanUp' \in SUBSET Card /\ noCleanUp \subseteq noCleanUp'
             /\ \A c \in Card \ {mountedCard} : file'[c] = file[c]
             /\ file'[mountedCard] # "absent" => mountedCard \in noCleanUp'
  BY <1>0, <1>a, <1>b DEF RemoveFile
<1> USE DEF SdInv
<1>1. CASE OpenWrite
  <2>1. CASE Finish("rwFail") /\ UNCHANGED <<file, noCleanUp>>
    <3>1. SdTypeOK'
      BY <1>0, <1>1, <2>1 DEF OpenWrite, Finish, SdTypeOK, driver
    <3>2. (CardInv /\ EarnInv /\ LeftInv)'
      BY <1>0, <1>1, <2>1 DEF OpenWrite, Finish, CardInv, EarnInv, LeftInv,
         driver
    <3> QED BY <3>1, <3>2
  <2>2. CASE ~(Finish("rwFail") /\ UNCHANGED <<file, noCleanUp>>)
    <3>1. (/\ sdPc = "openWrite" /\ sdPc' = "write" /\ StoreFile("short")
           /\ noCleanUp' = noCleanUp \ {mountedCard}
           /\ UNCHANGED <<message, readBack, written>>)
      BY <1>1, <2>2 DEF OpenWrite
    <3>2. SdTypeOK'
      BY <1>0, <1>a, <3>1 DEF SdTypeOK, driver
    <3>3. (CardInv /\ EarnInv)'
      BY <1>0, <3>1 DEF CardInv, EarnInv, driver
    <3>4. LeftInv'
      BY <1>0, <1>a, <3>1 DEF LeftInv, driver
    <3> QED BY <3>2, <3>3, <3>4
  <2> QED BY <2>1, <2>2
<1>2. CASE Write
  <2>0. (sdPc = "write" /\ UNCHANGED <<readBack, message, noCleanUp>>)
    BY <1>2 DEF Write
  <2>1. CASE sdPc' = "removeFailed" /\ UNCHANGED <<file, written>>
    <3>1. SdTypeOK'
      BY <1>0, <2>0, <2>1 DEF SdTypeOK, driver
    <3>2. (CardInv /\ EarnInv /\ LeftInv)'
      BY <1>0, <2>0, <2>1 DEF CardInv, EarnInv, LeftInv, driver
    <3> QED BY <3>1, <3>2
  <2>2. CASE ~(sdPc' = "removeFailed" /\ UNCHANGED <<file, written>>)
    <3>1. PICK content \in {"damaged", "expected"} :
            StoreFile(content) /\ written' = content /\ sdPc' = "openRead"
      BY <1>2, <2>2 DEF Write
    <3>2. SdTypeOK'
      BY <1>0, <1>a, <2>0, <3>1 DEF SdTypeOK, driver
    <3>3. (CardInv /\ EarnInv)'
      BY <1>0, <1>a, <2>0, <3>1 DEF CardInv, EarnInv, driver
    <3>4. LeftInv'
      BY <1>0, <1>a, <2>0, <3>1 DEF LeftInv, driver
    <3> QED BY <3>2, <3>3, <3>4
  <2> QED BY <2>1, <2>2
<1>3. CASE OpenRead
  <2>1. (/\ sdPc = "openRead" /\ sdPc' \in {"read", "removeFailed"}
         /\ UNCHANGED <<file, readBack, written, message, noCleanUp>>)
    BY <1>3 DEF OpenRead
  <2>2. SdTypeOK'
    BY <1>0, <2>1 DEF SdTypeOK, driver
  <2>3. (CardInv /\ EarnInv /\ LeftInv)'
    BY <1>0, <2>1 DEF CardInv, EarnInv, LeftInv, driver
  <2> QED BY <2>2, <2>3
<1>4. CASE Read
  <2>1. (/\ sdPc = "read" /\ sdPc' = "remove"
         /\ readBack' \in {file[mountedCard], "short"}
         /\ UNCHANGED <<file, written, message, noCleanUp>>)
    BY <1>4 DEF Read
  <2>2. SdTypeOK'
    BY <1>0, <2>1 DEF SdTypeOK, driver
  <2>3. (CardInv /\ EarnInv /\ LeftInv)'
    BY <1>0, <2>1 DEF CardInv, EarnInv, LeftInv, driver
  <2> QED BY <2>2, <2>3
<1>5. CASE Compare \/ RemoveAfterFailure
  <2>1. (/\ sdPc' = "idle" /\ RemoveFile /\ UNCHANGED <<readBack, written>>
         /\ message' \in {"rwPass", "rwFail"}
         /\ message' = "rwPass" => sdPc = "remove" /\ readBack = "expected")
    BY <1>5 DEF Compare, RemoveAfterFailure, Finish
  <2>2. SdTypeOK'
    BY <1>0, <1>b, <2>1 DEF SdTypeOK, driver
  <2>3. (CardInv /\ EarnInv)'
    BY <1>0, <2>1 DEF CardInv, EarnInv, driver
  <2>4. LeftInv'
    BY <1>0, <1>b, <2>1 DEF LeftInv
  <2> QED BY <2>2, <2>3, <2>4
<1> QED BY <1>1, <1>2, <1>3, <1>4, <1>5 DEF Test

(* The user's hand, the microphone, and the pages that leave the card alone.*)
LEMMA HandKeepsSdInv ==
  ASSUME SdInv,
         \/ PullCard \/ PushCard \/ UNCHANGED sdVars
         \/ /\ micActive' \in BOOLEAN
            /\ UNCHANGED <<mounted, driver, slot, file, sdPc, readBack, written,
                           message, noCleanUp>>
  PROVE  SdInv'
<1>1. (/\ micActive' \in BOOLEAN /\ slot' \in Card \cup {"none"}
       /\ usable' \in BOOLEAN /\ (usable' => usable)
       /\ UNCHANGED <<mounted, registered, mountedCard, file, sdPc, readBack,
                      written, message, noCleanUp>>)
  <2>1. CASE PullCard
    BY <2>1 DEF PullCard, SdInv, SdTypeOK
  <2>2. CASE PushCard
    BY <2>2 DEF PushCard, driver, SdInv, SdTypeOK
  <2>3. CASE UNCHANGED sdVars
    BY <2>3 DEF sdVars, SdInv, SdTypeOK
  <2>4. CASE /\ micActive' \in BOOLEAN
             /\ UNCHANGED <<mounted, driver, slot, file, sdPc, readBack,
                            written, message, noCleanUp>>
    BY <2>4 DEF driver, SdInv, SdTypeOK
  <2> QED BY <2>1, <2>2, <2>3, <2>4
<1>2. SdTypeOK'
  BY <1>1 DEF SdInv, SdTypeOK
<1>3. (CardInv /\ EarnInv /\ LeftInv)'
  BY <1>1 DEF SdInv, CardInv, EarnInv, LeftInv
<1> QED BY <1>2, <1>3 DEF SdInv

LEMMA SdInductive ==
  ASSUME SdInv, [Next]_vars
  PROVE  SdInv'
<1>1. CASE MountButton \/ UnmountButton \/ ListButton \/ TestBegins
  BY <1>1, ButtonKeepsSdInv
<1>2. CASE Test
  BY <1>2, TestKeepsSdInv
<1>3. CASE PullCard \/ PushCard \/ Microphone \/ UNCHANGED sdVars
  <2>1. Microphone => micActive' \in BOOLEAN
    BY DEF Microphone, SdInv, SdTypeOK
  <2> QED BY <1>3, <2>1, HandKeepsSdInv DEF Microphone
<1> QED
  BY <1>1, <1>2, <1>3 DEF Next, vars, OpenPage, BackButton, SdButton, Callback,
     Hand

LEMMA SdInvariant == Spec => []SdInv
BY SdInitially, SdInductive, PTL DEF Spec

(* A test passes only if its own data reached the card whole, whenever the *)
(* card is pulled or exchanged (sd_card_read_write_test).                  *)
THEOREM PassesAreEarned == Spec => []PassIsEarned
<1>1. SdInv => PassIsEarned
  BY DEF SdInv, EarnInv, PassIsEarned
<1> QED BY <1>1, SdInvariant, PTL

(* A test file that is left on a card was refused by remove, on every path *)
(* through the test.                                                       *)
THEOREM LeftoversHaveCause == Spec => []LeftoverHasCause
<1>1. SdInv => LeftoverHasCause
  BY DEF SdInv, LeftInv, LeftoverHasCause
<1> QED BY <1>1, SdInvariant, PTL

(* Every variable of the pages and of the card stays in its type.          *)
THEOREM TypeCorrect == Spec => []TypeOK
<1>1. PageInv => NavTypeOK
  <2> SUFFICES ASSUME PageInv PROVE NavTypeOK
    OBVIOUS
  <2>1. (current \in Tree!Page /\ stack = Path(current))
    BY DEF PageInv, StackIsPath
  <2>2. (pointers \in SUBSET Cleared /\ widgets \in SUBSET Cleared)
    BY <2>1, SetsCleared DEF PageInv
  <2>3. (Path(current) \in Seq(Tree!Page) /\ Len(Path(current)) <= StackSize)
    <3>1. Tree!Parent(current) \in Tree!Page
      BY <2>1 DEF Tree!Parent
    <3>2. ASSUME NEW a \in Tree!Page, NEW b \in Tree!Page
          PROVE  /\ <<>> \in Seq(Tree!Page) /\ Len(<<>>) = 0
                 /\ <<a>> \in Seq(Tree!Page) /\ Len(<<a>>) = 1
                 /\ <<a, b>> \in Seq(Tree!Page) /\ Len(<<a, b>>) = 2
      OBVIOUS
    <3>3. "MENU_MAIN" \in Tree!Page
      OBVIOUS
    <3>4. CASE Path(current) = <<>>
      BY <3>2, <3>3, <3>4, StackAssumption
    <3>5. CASE Path(current) = <<"MENU_MAIN">>
      <4>1. <<"MENU_MAIN">> \in Seq(Tree!Page) /\ Len(<<"MENU_MAIN">>) = 1
        BY <3>2, <3>3
      <4> QED BY <3>5, <4>1, StackAssumption
    <3>6. CASE Path(current) = <<"MENU_MAIN", Tree!Parent(current)>>
      <4> DEFINE pair == <<"MENU_MAIN", Tree!Parent(current)>>
      <4>1. pair \in Seq(Tree!Page) /\ Len(pair) = 2
        BY <3>1, <3>2, <3>3
      <4> HIDE DEF pair
      <4>2. Path(current) = pair
        BY <3>6 DEF pair
      <4> QED BY <4>1, <4>2, StackAssumption
    <3> QED BY <3>4, <3>5, <3>6 DEF Path
  <2> QED BY <2>1, <2>2, <2>3 DEF NavTypeOK
<1>2. SdInv => SdTypeOK
  BY DEF SdInv
<1> QED BY <1>1, <1>2, PageInvariant, SdInvariant, PTL DEF TypeOK
=============================================================================
