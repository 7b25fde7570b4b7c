-------------------------- MODULE MediaAdvertising --------------------------
(***************************************************************************)
(* The connection side of main/media_controller_ble.c: when the knob       *)
(* advertises itself, and how its flags follow the radio.                  *)
(*                                                                         *)
(* Callbacks run in two tasks: GAP events in the task of the Bluetooth     *)
(* stack ("btc"), HID events in ble_hidd_events ("hid"), which gets them   *)
(* from the stack through a queue.  Both call media_try_start_advertising, *)
(* which tests and sets four unprotected flags.                            *)
(*                                                                         *)
(* The stack and the radio are external and modelled as the code uses      *)
(* them: a start request is a message to the stack, answered by an event,  *)
(* and a request made while the radio advertises may be accepted or not.   *)
(* Left out: the two STOP events, because nothing stops the profile or the *)
(* advertising, and pairing, which touches none of the flags.              *)
(***************************************************************************)
EXTENDS Naturals, Sequences

CONSTANT MaxPending  \* bound: events in flight when a host comes or goes

VARIABLES
  advDataReady,  \* s_adv_data_ready
  hidStarted,    \* s_hid_started, and s_ready, which is set with it
  connected,     \* s_connected
  advertising,   \* s_advertising
  pc,            \* per task, where it is in media_try_start_advertising
  booting,       \* what the stack has yet to report after the initialisation
  btcQueue,      \* messages to the Bluetooth stack's task
  hidQueue,      \* events posted to ble_hidd_events
  onAir,         \* the radio advertises
  link,          \* a host is connected to the radio
  devConnected,  \* esp_hidd_dev_connected: what the HID profile says of it
  refused        \* history: a start was refused since the last connection

vars == <<advDataReady, hidStarted, connected, advertising, pc, booting,
          btcQueue, hidQueue, onAir, link, devConnected, refused>>

flags == <<advDataReady, hidStarted, connected, advertising>>
radio == <<onAir, link, devConnected>>

Callback == {"btc", "hid"}

Init ==
  /\ advDataReady = FALSE /\ hidStarted = FALSE
  /\ connected = FALSE    /\ advertising = FALSE
  /\ pc = [t \in Callback |-> "idle"]
  /\ booting = {"advData", "gattStart"}
  /\ btcQueue = <<>> /\ hidQueue = <<>>
  /\ onAir = FALSE /\ link = FALSE /\ devConnected = FALSE
  /\ refused = FALSE

-----------------------------------------------------------------------------
(* media_try_start_advertising, called by task t.                          *)

Return(t) == pc' = [pc EXCEPT ![t] = "idle"]

(* Mutant of TestFlags: one prerequisite is enough.                        *)
TestFlagsEither(t) ==
  /\ pc[t] = "test"
  /\ IF (hidStarted \/ advDataReady) /\ ~connected
       THEN pc' = [pc EXCEPT ![t] = "testAdvertising"]
       ELSE Return(t)
  /\ UNCHANGED <<flags, booting, btcQueue, hidQueue, radio, refused>>

(* The first three flags.  Two of them are never reset, so reading the     *)
(* three one by one returns or goes on as one look at them does.           *)
TestFlags(t) ==
  /\ pc[t] = "test"
  /\ IF hidStarted /\ advDataReady /\ ~connected
       THEN pc' = [pc EXCEPT ![t] = "testAdvertising"]
       ELSE Return(t)
  /\ UNCHANGED <<flags, booting, btcQueue, hidQueue, radio, refused>>

TestAdvertising(t) ==
  /\ pc[t] = "testAdvertising"
  /\ IF advertising THEN Return(t) ELSE pc' = [pc EXCEPT ![t] = "request"]
  /\ UNCHANGED <<flags, booting, btcQueue, hidQueue, radio, refused>>

(* esp_ble_gap_start_advertising posts a message, or returns an error.     *)
RequestStart(t) ==
  /\ pc[t] = "request"
  /\ \/ /\ btcQueue' = Append(btcQueue, "startAdv")
        /\ pc' = [pc EXCEPT ![t] = "set"]
        /\ UNCHANGED refused
     \/ /\ Return(t)
        /\ refused' = TRUE
        /\ UNCHANGED btcQueue
  /\ UNCHANGED <<flags, booting, hidQueue, radio>>

SetAdvertising(t) ==
  /\ pc[t] = "set"
  /\ advertising' = TRUE
  /\ Return(t)
  /\ UNCHANGED <<advDataReady, hidStarted, connected, booting, btcQueue,
                 hidQueue, radio, refused>>

TryStart(t) == TestFlags(t) \/ TestAdvertising(t) \/ RequestStart(t)
                 \/ SetAdvertising(t)

-----------------------------------------------------------------------------
(* media_gap_event_handler in the stack's task, one event at a time.       *)

Handles(event) ==
  pc["btc"] = "idle" /\ btcQueue # <<>> /\ Head(btcQueue) = event

GapEvent(event) == Handles(event) /\ btcQueue' = Tail(btcQueue)

AdvDataSet ==
  /\ GapEvent("advData")
  /\ advDataReady' = TRUE
  /\ pc' = [pc EXCEPT !["btc"] = "test"]
  /\ UNCHANGED <<hidStarted, connected, advertising, booting, hidQueue, radio,
                 refused>>

(* Mutant of StartComplete: the status is taken the wrong way.             *)
StartCompleteSwapped(event) ==
  /\ GapEvent(event)
  /\ advertising' = (event = "startFail")
  /\ UNCHANGED <<advDataReady, hidStarted, connected, pc, booting, hidQueue,
                 radio, refused>>

(* ESP_GAP_BLE_ADV_START_COMPLETE_EVT                                      *)
StartComplete(event) ==
  /\ GapEvent(event)
  /\ advertising' = (event = "startOk")
  /\ UNCHANGED <<advDataReady, hidStarted, connected, pc, booting, hidQueue,
                 radio, refused>>

-----------------------------------------------------------------------------
(* media_hidd_event_handler in ble_hidd_events.                            *)

HidEvent(event) ==
  /\ pc["hid"] = "idle" /\ hidQueue # <<>> /\ Head(hidQueue) = event
  /\ hidQueue' = Tail(hidQueue)

HiddStart ==
  /\ HidEvent("START")
  /\ hidStarted' = TRUE
  /\ pc' = [pc EXCEPT !["hid"] = "test"]
  /\ UNCHANGED <<advDataReady, connected, advertising, booting, btcQueue,
                 radio, refused>>

(* The flags are written one by one.  Whatever the stack's task does       *)
(* between the two writes it could as well have done before or after both. *)
HiddConnect ==
  /\ HidEvent("CONNECT")
  /\ connected'   = TRUE
  /\ advertising' = FALSE
  /\ UNCHANGED <<advDataReady, hidStarted, pc, booting, btcQueue, radio,
                 refused>>

(* Mutants of HiddDisconnect: it does not advertise again; it forgets that *)
(* advertising ended with the connection.                                  *)
HiddDisconnectQuiet ==
  /\ HidEvent("DISCONNECT")
  /\ connected'   = FALSE
  /\ advertising' = FALSE
  /\ UNCHANGED <<advDataReady, hidStarted, pc, booting, btcQueue, radio,
                 refused>>

HiddDisconnectKeeps ==
  /\ HidEvent("DISCONNECT")
  /\ advertising' = FALSE
  /\ pc' = [pc EXCEPT !["hid"] = "test"]
  /\ UNCHANGED <<advDataReady, hidStarted, connected, booting, btcQueue, radio,
                 refused>>

HiddDisconnect ==
  /\ HidEvent("DISCONNECT")
  /\ connected'   = FALSE
  /\ advertising' = FALSE
  /\ pc' = [pc EXCEPT !["hid"] = "test"]
  /\ UNCHANGED <<advDataReady, hidStarted, booting, btcQueue, radio, refused>>

-----------------------------------------------------------------------------
(* The stack and the radio (external).                                     *)

(* After the initialisation both asynchronous results arrive, in any order.*)
StackReports(event) ==
  /\ event \in booting
  /\ booting'  = booting \ {event}
  /\ btcQueue' = Append(btcQueue, event)
  /\ UNCHANGED <<flags, pc, hidQueue, radio, refused>>

StackStartsAdvertising ==
  /\ Handles("startAdv")
  /\ \/ /\ btcQueue' = Append(Tail(btcQueue), "startOk")
        /\ onAir'    = TRUE
        /\ UNCHANGED refused
     \/ /\ btcQueue' = Append(Tail(btcQueue), "startFail")
        /\ refused'  = TRUE
        /\ UNCHANGED onAir
  /\ UNCHANGED <<flags, pc, booting, hidQueue, link, devConnected>>

(* The GATT server's events set the profile's own flag and are posted on   *)
(* to ble_hidd_events.                                                     *)
StackPosts(event, posted) ==
  /\ GapEvent(event)
  /\ hidQueue' = Append(hidQueue, posted)
  /\ devConnected' = IF posted = "START" THEN devConnected
                                         ELSE posted = "CONNECT"
  /\ UNCHANGED <<flags, pc, booting, onAir, link, refused>>

InFlight == Len(btcQueue) + Len(hidQueue)

(* A host connects to the advertising radio, which ends the advertising.   *)
HostConnects ==
  /\ onAir /\ ~link /\ InFlight < MaxPending
  /\ link'     = TRUE
  /\ onAir'    = FALSE
  /\ refused'  = FALSE
  /\ btcQueue' = Append(btcQueue, "gattConnect")
  /\ UNCHANGED <<flags, pc, booting, hidQueue, devConnected>>

HostLeaves ==
  /\ link /\ InFlight < MaxPending
  /\ link'     = FALSE
  /\ btcQueue' = Append(btcQueue, "gattDisconnect")
  /\ UNCHANGED <<flags, pc, booting, hidQueue, onAir, devConnected, refused>>

-----------------------------------------------------------------------------
Btc ==
  \/ AdvDataSet
  \/ \E event \in {"startOk", "startFail"} : StartComplete(event)
  \/ TryStart("btc")
  \/ StackStartsAdvertising
  \/ StackPosts("gattStart", "START")
  \/ StackPosts("gattConnect", "CONNECT")
  \/ StackPosts("gattDisconnect", "DISCONNECT")

Hid == HiddStart \/ HiddConnect \/ HiddDisconnect \/ TryStart("hid")

Boot == \E event \in {"advData", "gattStart"} : StackReports(event)

Next == Btc \/ Hid \/ Boot \/ HostConnects \/ HostLeaves

(* Both tasks run and the two asynchronous results arrive; a host may come *)
(* or go but need not.                                                     *)
Fairness ==
  /\ WF_vars(Btc) /\ WF_vars(Hid)
  /\ \A event \in {"advData", "gattStart"} : WF_vars(StackReports(event))

Spec     == Init /\ [][Next]_vars
FairSpec == Spec /\ Fairness

-----------------------------------------------------------------------------
Message == {"advData", "gattStart", "startAdv", "startOk", "startFail",
            "gattConnect", "gattDisconnect"}

(* Every variable stays in its type.                                       *)
TypeOK ==
  /\ advDataReady \in BOOLEAN /\ hidStarted \in BOOLEAN
  /\ connected \in BOOLEAN /\ advertising \in BOOLEAN
  /\ pc \in [Callback -> {"idle", "test", "testAdvertising", "request", "set"}]
  /\ booting \in SUBSET {"advData", "gattStart"}
  /\ btcQueue \in Seq(Message)
  /\ hidQueue \in Seq({"START", "CONNECT", "DISCONNECT"})
  /\ onAir \in BOOLEAN /\ link \in BOOLEAN /\ devConnected \in BOOLEAN
  /\ refused \in BOOLEAN

(* Nothing is in flight and no callback is running.                        *)
Quiet == InFlight = 0 /\ \A t \in Callback : pc[t] = "idle"

(* The flag that lets commands out agrees with the radio once the events   *)
(* of the connection are handled, in whatever order the tasks ran.         *)
ConnectedFollowsLink == Quiet => connected = link

(* The page says advertising exactly while the radio does, as long as no   *)
(* start was refused: neither a late answer to a start nor a late write by *)
(* media_try_start_advertising survives a connection.                      *)
AdvertisingFollowsRadio == Quiet /\ ~link /\ ~refused => advertising = onAir

(* Nothing goes on the air before the advertising data is configured and   *)
(* the HID service runs.                                                   *)
AirNeedsBoth == onAir => advDataReady /\ hidStarted

(* The knob never becomes unreachable: always again it is connected, or    *)
(* advertises, or the stack has refused to.  It covers the start-up, where *)
(* the two prerequisites arrive in either order in different tasks, and    *)
(* every disconnection.                                                    *)
Reachable == []<>(onAir \/ link \/ refused)
=============================================================================
