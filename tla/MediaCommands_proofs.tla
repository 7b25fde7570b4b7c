------------------------ MODULE MediaCommands_proofs ------------------------
(***************************************************************************)
(* Proofs about MediaCommands.  The commands need a strengthening of their *)
(* own, OrderInv: the numbers pressed, held by the task and queued follow  *)
(* one another.  The connection needs three: what stands behind a start    *)
(* request (AirInv); that the last word about the host, wherever it is     *)
(* still under way, is the radio's (LinkInv); and that, while the flag and *)
(* the radio disagree about advertising, something is still under way that *)
(* settles it (AdvertisingInv).  Spec states no fairness: what is proved   *)
(* holds of FairSpec too.                                                  *)
(***************************************************************************)
EXTENDS MediaCommands, TLAPS

-----------------------------------------------------------------------------
(* Queues of events.                                                       *)

(* No event of S waits in q.                                               *)
Silent(q, S) == \A i \in DOMAIN q : q[i] \notin S

(* The last event of S in q, if there is one, is yes exactly if b.         *)
Final(q, S, i)      == q[i] \in S /\ \A j \in DOMAIN q : j > i => q[j] \notin S
Says(q, S, yes, b)  == \A i \in DOMAIN q : Final(q, S, i) => (q[i] = yes <=> b)

LEMMA AppendedTo ==
  ASSUME NEW s, NEW S, s \in Seq(S), NEW e \in S
  PROVE  /\ Append(s, e) \in Seq(S)
         /\ DOMAIN Append(s, e) = 1..(Len(s) + 1)
         /\ Len(Append(s, e)) = Len(s) + 1
         /\ DOMAIN s = 1..Len(s) /\ Len(s) \in Nat
         /\ \A i \in 1..Len(s) : Append(s, e)[i] = s[i]
         /\ Append(s, e)[Len(s) + 1] = e
  OBVIOUS

LEMMA TailOf ==
  ASSUME NEW s, NEW S, s \in Seq(S), s # <<>>
  PROVE  /\ Tail(s) \in Seq(S) /\ Head(s) \in S /\ Head(s) = s[1]
         /\ DOMAIN Tail(s) = 1..(Len(s) - 1)
         /\ Len(Tail(s)) = Len(s) - 1
         /\ DOMAIN s = 1..Len(s) /\ Len(s) \in Nat \ {0}
         /\ \A i \in 1..(Len(s) - 1) : Tail(s)[i] = s[i + 1]
  OBVIOUS

LEMMA SilentTail ==
  ASSUME NEW T, NEW q \in Seq(T), q # <<>>, NEW S
  PROVE  Silent(q, S) <=> Head(q) \notin S /\ Silent(Tail(q), S)
<1> /\ DOMAIN q = 1..Len(q) /\ Len(q) \in Nat \ {0}
    /\ DOMAIN Tail(q) = 1..(Len(q) - 1)
    /\ Head(q) = q[1]
    /\ \A i \in 1..(Len(q) - 1) : Tail(q)[i] = q[i + 1]
  BY TailOf
<1>1. ASSUME Silent(q, S) PROVE Head(q) \notin S /\ Silent(Tail(q), S)
  BY <1>1 DEF Silent
<1>2. ASSUME Head(q) \notin S, Silent(Tail(q), S), NEW i \in DOMAIN q
      PROVE  q[i] \notin S
  <2>1. CASE i = 1
    BY <1>2, <2>1
  <2>2. CASE i # 1
    <3>1. i - 1 \in DOMAIN Tail(q) /\ Tail(q)[i - 1] = q[i]
      BY <2>2
    <3> QED BY <3>1, <1>2 DEF Silent
  <2> QED BY <2>1, <2>2
<1> QED BY <1>1, <1>2 DEF Silent

LEMMA SilentAppend ==
  ASSUME NEW T, NEW q \in Seq(T), NEW e \in T, NEW S
  PROVE  Silent(Append(q, e), S) <=> Silent(q, S) /\ e \notin S
BY AppendedTo DEF Silent

LEMMA SaysTail ==
  ASSUME NEW T, NEW q \in Seq(T), q # <<>>, NEW S, NEW yes, NEW b \in BOOLEAN,
         Says(q, S, yes, b)
  PROVE  /\ Says(Tail(q), S, yes, b)
         /\ Head(q) \in S /\ Silent(Tail(q), S) => (Head(q) = yes <=> b)
<1> /\ DOMAIN q = 1..Len(q) /\ Len(q) \in Nat \ {0}
    /\ DOMAIN Tail(q) = 1..(Len(q) - 1)
    /\ Head(q) = q[1]
    /\ \A i \in 1..(Len(q) - 1) : Tail(q)[i] = q[i + 1]
  BY TailOf
<1>1. ASSUME NEW i \in DOMAIN Tail(q), Final(Tail(q), S, i)
      PROVE  Tail(q)[i] = yes <=> b
  <2>1. ASSUME NEW j \in DOMAIN q, j > i + 1 PROVE q[j] \notin S
    <3>1. j - 1 \in DOMAIN Tail(q) /\ j - 1 > i /\ Tail(q)[j - 1] = q[j]
      BY <2>1
    <3> QED BY <3>1, <1>1 DEF Final
  <2>2. Final(q, S, i + 1)
    BY <1>1, <2>1 DEF Final
  <2> QED BY <2>2 DEF Says
<1>2. ASSUME Head(q) \in S, Silent(Tail(q), S) PROVE Head(q) = yes <=> b
  <2>1. ASSUME NEW j \in DOMAIN q, j > 1 PROVE q[j] \notin S
    <3>1. j - 1 \in DOMAIN Tail(q) /\ Tail(q)[j - 1] = q[j]
      BY <2>1
    <3> QED BY <3>1, <1>2 DEF Silent
  <2>2. Final(q, S, 1)
    BY <1>2, <2>1 DEF Final
  <2> QED BY <2>2 DEF Says
<1> QED BY <1>1, <1>2 DEF Says

LEMMA SaysAppend ==
  ASSUME NEW T, NEW q \in Seq(T), NEW e \in T, NEW S, NEW yes, NEW b \in BOOLEAN
  PROVE  /\ e \notin S /\ Says(q, S, yes, b) => Says(Append(q, e), S, yes, b)
         /\ e \in S /\ (e = yes <=> b) => Says(Append(q, e), S, yes, b)
<1> /\ DOMAIN Append(q, e) = 1..(Len(q) + 1)
    /\ DOMAIN q = 1..Len(q) /\ Len(q) \in Nat
    /\ \A i \in 1..Len(q) : Append(q, e)[i] = q[i]
    /\ Append(q, e)[Len(q) + 1] = e
  BY AppendedTo
<1>1. ASSUME e \notin S, Says(q, S, yes, b), NEW i \in DOMAIN Append(q, e),
             Final(Append(q, e), S, i)
      PROVE  Append(q, e)[i] = yes <=> b
  <2>1. i \in DOMAIN q /\ Append(q, e)[i] = q[i]
    BY <1>1 DEF Final
  <2>2. ASSUME NEW j \in DOMAIN q, j > i PROVE q[j] \notin S
    <3>1. j \in DOMAIN Append(q, e) /\ Append(q, e)[j] = q[j]
      OBVIOUS
    <3> QED BY <3>1, <2>2, <1>1 DEF Final
  <2>3. Final(q, S, i)
    BY <2>1, <2>2, <1>1 DEF Final
  <2> QED BY <2>1, <2>3, <1>1 DEF Says
<1>2. ASSUME e \in S, e = yes <=> b, NEW i \in DOMAIN Append(q, e),
             Final(Append(q, e), S, i)
      PROVE  Append(q, e)[i] = yes <=> b
  <2>1. i = Len(q) + 1
    BY <1>2 DEF Final
  <2> QED BY <2>1, <1>2
<1> QED BY <1>1, <1>2 DEF Says

(* An event e waits in q; wherever e waits in q, f waits behind it.        *)
Waits(q, e) == \E i \in DOMAIN q : q[i] = e
Followed(q, e, f) ==
  \A i \in DOMAIN q : q[i] = e => \E j \in DOMAIN q : j > i /\ q[j] = f

LEMMA WaitsTail ==
  ASSUME NEW T, NEW q \in Seq(T), q # <<>>
  PROVE  /\ \A e : Waits(q, e) <=> Head(q) = e \/ Waits(Tail(q), e)
         /\ \A e, f : Followed(q, e, f) =>
              Followed(Tail(q), e, f) /\ (Head(q) = e => Waits(Tail(q), f))
<1> /\ DOMAIN q = 1..Len(q) /\ Len(q) \in Nat \ {0}
    /\ DOMAIN Tail(q) = 1..(Len(q) - 1)
    /\ Head(q) = q[1]
    /\ \A i \in 1..(Len(q) - 1) : Tail(q)[i] = q[i + 1]
  BY TailOf
<1>1. ASSUME NEW e PROVE Waits(q, e) <=> Head(q) = e \/ Waits(Tail(q), e)
  <2>1. ASSUME NEW i \in DOMAIN q, q[i] = e, i # 1 PROVE Waits(Tail(q), e)
    <3>1. i - 1 \in DOMAIN Tail(q) /\ Tail(q)[i - 1] = q[i]
      BY <2>1
    <3> QED BY <2>1, <3>1 DEF Waits
  <2>2. ASSUME NEW i \in DOMAIN Tail(q) PROVE i + 1 \in DOMAIN q
    OBVIOUS
  <2> QED BY <2>1, <2>2 DEF Waits
<1>2. ASSUME NEW e, NEW f, Followed(q, e, f)
      PROVE  Followed(Tail(q), e, f) /\ (Head(q) = e => Waits(Tail(q), f))
  <2>1. ASSUME NEW i \in DOMAIN q, q[i] = e
        PROVE  \E j \in DOMAIN Tail(q) : j + 1 > i /\ Tail(q)[j] = f
    <3>1. PICK j \in DOMAIN q : j > i /\ q[j] = f
      BY <1>2, <2>1 DEF Followed
    <3>2. j - 1 \in DOMAIN Tail(q) /\ (j - 1) + 1 = j /\ Tail(q)[j - 1] = q[j]
      BY <3>1
    <3> QED BY <3>1, <3>2
  <2>2. ASSUME NEW i \in DOMAIN Tail(q), Tail(q)[i] = e
        PROVE  \E j \in DOMAIN Tail(q) : j > i /\ Tail(q)[j] = f
    <3>1. i + 1 \in DOMAIN q /\ q[i + 1] = e
      BY <2>2
    <3>2. PICK j \in DOMAIN Tail(q) : j + 1 > i + 1 /\ Tail(q)[j] = f
      BY <2>1, <3>1
    <3> QED BY <3>2
  <2>3. ASSUME Head(q) = e PROVE Waits(Tail(q), f)
    <3>1. 1 \in DOMAIN q /\ q[1] = e
      BY <2>3
    <3> QED BY <2>1, <3>1 DEF Waits
  <2> QED BY <2>2, <2>3 DEF Followed
<1> QED BY <1>1, <1>2

LEMMA WaitsAppend ==
  ASSUME NEW T, NEW q \in Seq(T), NEW x \in T
  PROVE  /\ \A e : Waits(Append(q, x), e) <=> Waits(q, e) \/ x = e
         /\ \A e, f : Followed(q, e, f) /\ x # e => Followed(Append(q, x), e, f)
         /\ \A e, f : x = f /\ f # e => Followed(Append(q, x), e, f)
<1> /\ DOMAIN Append(q, x) = 1..(Len(q) + 1)
    /\ DOMAIN q = 1..Len(q) /\ Len(q) \in Nat
    /\ \A i \in 1..Len(q) : Append(q, x)[i] = q[i]
    /\ Append(q, x)[Len(q) + 1] = x
  BY AppendedTo
<1>1. /\ \A i \in DOMAIN q : i \in DOMAIN Append(q, x) /\ i < Len(q) + 1
      /\ \A i \in DOMAIN Append(q, x) : i \in DOMAIN q \/ i = Len(q) + 1
      /\ Len(q) + 1 \in DOMAIN Append(q, x)
  OBVIOUS
<1>2. ASSUME NEW e PROVE Waits(Append(q, x), e) <=> Waits(q, e) \/ x = e
  BY <1>1 DEF Waits
<1>3. ASSUME NEW e, NEW f, Followed(q, e, f), x # e
      PROVE  Followed(Append(q, x), e, f)
  BY <1>1, <1>3 DEF Followed
<1>4. ASSUME NEW e, x # e PROVE Followed(Append(q, x), e, x)
  BY <1>1, <1>4 DEF Followed
<1> QED BY <1>2, <1>3, <1>4

-----------------------------------------------------------------------------
(* The connection.                                                         *)

Requesting(t) == pc[t] \in {"testAdvertising", "request", "set"}

(* A start request has both prerequisites behind it, from the test of the  *)
(* flags until the radio is on the air.                                    *)
AirInv ==
  \/ onAir
  \/ ~Silent(btcQueue, {"startAdv"})
  \/ \E t \in Radio!Callback : Requesting(t)
  => advDataReady /\ hidStarted

BtcLink == {"gattConnect", "gattDisconnect"}
HidLink == {"CONNECT", "DISCONNECT"}

(* The last word about the host is with the stack's task, or else with     *)
(* ble_hidd_events, or else in the flag.                                   *)
LinkInv ==
  /\ Says(btcQueue, BtcLink, "gattConnect", link)
  /\ Silent(btcQueue, BtcLink) => Says(hidQueue, HidLink, "CONNECT", link)
  /\ Silent(btcQueue, BtcLink) /\ Silent(hidQueue, HidLink)
       => (connected <=> link)

HidMessage == {"START", "CONNECT", "DISCONNECT"}

(* The steps of the connection, one disjunct for each.                     *)
LEMMA RadioSteps ==
  ASSUME Radio!Next
  PROVE  \/ \E t \in Radio!Callback : Radio!TestFlags(t)
         \/ \E t \in Radio!Callback : Radio!TestAdvertising(t)
         \/ \E t \in Radio!Callback : Radio!RequestStart(t)
         \/ \E t \in Radio!Callback : Radio!SetAdvertising(t)
         \/ Radio!AdvDataSet
         \/ \E e \in {"startOk", "startFail"} : Radio!StartComplete(e)
         \/ Radio!StackStartsAdvertising
         \/ Radio!StackPosts("gattStart", "START")
         \/ Radio!StackPosts("gattConnect", "CONNECT")
         \/ Radio!StackPosts("gattDisconnect", "DISCONNECT")
         \/ Radio!HiddStart \/ Radio!HiddConnect \/ Radio!HiddDisconnect
         \/ \E e \in {"advData", "gattStart"} : Radio!StackReports(e)
         \/ Radio!HostConnects \/ Radio!HostLeaves
BY DEF Radio!Next, Radio!Btc, Radio!Hid, Radio!Boot, Radio!TryStart,
       Radio!Callback

LEMMA RadioType ==
  ASSUME Radio!TypeOK, Radio!Next
  PROVE  Radio!TypeOK'
<1> USE DEF Radio!TypeOK, Radio!Message, Radio!Callback
<1>1. ASSUME NEW t \in Radio!Callback, Radio!TestFlags(t)
      PROVE  Radio!TypeOK'
  BY <1>1 DEF Radio!TestFlags, Radio!Return, Radio!flags, Radio!radio
<1>2. ASSUME NEW t \in Radio!Callback, Radio!TestAdvertising(t)
      PROVE  Radio!TypeOK'
  BY <1>2 DEF Radio!TestAdvertising, Radio!Return, Radio!flags, Radio!radio
<1>3. ASSUME NEW t \in Radio!Callback, Radio!RequestStart(t)
      PROVE  Radio!TypeOK'
  <2>1. btcQueue' \in Seq(Radio!Message)
    BY <1>3, AppendedTo DEF Radio!RequestStart
  <2> QED
    BY <1>3, <2>1 DEF Radio!RequestStart, Radio!Return, Radio!flags, Radio!radio
<1>4. ASSUME NEW t \in Radio!Callback, Radio!SetAdvertising(t)
      PROVE  Radio!TypeOK'
  BY <1>4 DEF Radio!SetAdvertising, Radio!Return, Radio!radio
<1>5. CASE Radio!AdvDataSet
  <2>1. btcQueue' \in Seq(Radio!Message)
    BY <1>5, TailOf DEF Radio!AdvDataSet, Radio!GapEvent, Radio!Handles
  <2> QED BY <1>5, <2>1 DEF Radio!AdvDataSet, Radio!radio
<1>6. ASSUME NEW e \in {"startOk", "startFail"}, Radio!StartComplete(e)
      PROVE  Radio!TypeOK'
  <2>1. btcQueue' \in Seq(Radio!Message)
    BY <1>6, TailOf DEF Radio!StartComplete, Radio!GapEvent, Radio!Handles
  <2> QED BY <1>6, <2>1 DEF Radio!StartComplete, Radio!radio
<1>7. CASE Radio!StackStartsAdvertising
  <2>1. Tail(btcQueue) \in Seq(Radio!Message)
    BY <1>7, TailOf DEF Radio!StackStartsAdvertising, Radio!Handles
  <2>2. ASSUME NEW e \in {"startOk", "startFail"}
        PROVE  Append(Tail(btcQueue), e) \in Seq(Radio!Message)
    BY <2>1
  <2>3. btcQueue' \in Seq(Radio!Message)
    BY <1>7, <2>2 DEF Radio!StackStartsAdvertising
  <2> QED BY <1>7, <2>3 DEF Radio!StackStartsAdvertising, Radio!flags
<1>8. ASSUME NEW e, NEW posted \in HidMessage, Radio!StackPosts(e, posted)
      PROVE  Radio!TypeOK'
  <2>1. btcQueue' \in Seq(Radio!Message)
    BY <1>8, TailOf DEF Radio!StackPosts, Radio!GapEvent, Radio!Handles
  <2>2. hidQueue' \in Seq({"START", "CONNECT", "DISCONNECT"})
    BY <1>8, AppendedTo DEF Radio!StackPosts, HidMessage
  <2> QED BY <1>8, <2>1, <2>2 DEF Radio!StackPosts, Radio!flags
<1>9. ASSUME NEW e, Radio!HidEvent(e)
      PROVE  hidQueue' \in Seq({"START", "CONNECT", "DISCONNECT"})
  BY <1>9, TailOf DEF Radio!HidEvent
<1>10. CASE Radio!HiddStart
  BY <1>10, <1>9 DEF Radio!HiddStart, Radio!radio
<1>11. CASE Radio!HiddConnect
  BY <1>11, <1>9 DEF Radio!HiddConnect, Radio!radio
<1>12. CASE Radio!HiddDisconnect
  BY <1>12, <1>9 DEF Radio!HiddDisconnect, Radio!radio
<1>13. ASSUME NEW e \in {"advData", "gattStart"}, Radio!StackReports(e)
       PROVE  Radio!TypeOK'
  <2>1. btcQueue' \in Seq(Radio!Message)
    BY <1>13, AppendedTo DEF Radio!StackReports
  <2> QED BY <1>13, <2>1 DEF Radio!StackReports, Radio!flags, Radio!radio
<1>14. CASE Radio!HostConnects
  <2>1. btcQueue' \in Seq(Radio!Message)
    BY <1>14, AppendedTo DEF Radio!HostConnects
  <2> QED BY <1>14, <2>1 DEF Radio!HostConnects, Radio!flags
<1>15. CASE Radio!HostLeaves
  <2>1. btcQueue' \in Seq(Radio!Message)
    BY <1>15, AppendedTo DEF Radio!HostLeaves
  <2> QED BY <1>15, <2>1 DEF Radio!HostLeaves, Radio!flags
<1> QED
  BY RadioSteps, <1>1, <1>2, <1>3, <1>4, <1>5, <1>6, <1>7, <1>8, <1>10, <1>11,
     <1>12, <1>13, <1>14, <1>15 DEF HidMessage

(* A message taken from the stack's queue, and one put in.                 *)
LEMMA BtcTakes ==
  ASSUME Radio!TypeOK, NEW e, Radio!Handles(e)
  PROVE  /\ btcQueue \in Seq(Radio!Message) /\ btcQueue # <<>>
         /\ Head(btcQueue) = e /\ Tail(btcQueue) \in Seq(Radio!Message)
         /\ \A S : Silent(btcQueue, S) <=> e \notin S /\ Silent(Tail(btcQueue), S)
<1>1. btcQueue \in Seq(Radio!Message) /\ btcQueue # <<>> /\ Head(btcQueue) = e
  BY DEF Radio!TypeOK, Radio!Handles
<1> QED BY <1>1, SilentTail, TailOf

LEMMA BtcPuts ==
  ASSUME NEW q \in Seq(Radio!Message), NEW e \in Radio!Message
  PROVE  /\ Append(q, e) \in Seq(Radio!Message)
         /\ \A S : Silent(Append(q, e), S) <=> Silent(q, S) /\ e \notin S
BY SilentAppend, AppendedTo

LEMMA RadioAir ==
  ASSUME Radio!TypeOK, AirInv, Radio!Next
  PROVE  AirInv'
<1> USE DEF AirInv, Requesting, Radio!Callback
<1>0. (/\ btcQueue \in Seq(Radio!Message)
       /\ pc \in [Radio!Callback ->
                    {"idle", "test", "testAdvertising", "request", "set"}])
  BY DEF Radio!TypeOK
<1>1. ASSUME NEW t \in Radio!Callback, Radio!TestFlags(t) PROVE AirInv'
  BY <1>0, <1>1 DEF Radio!TestFlags, Radio!Return, Radio!flags, Radio!radio
<1>2. ASSUME NEW t \in Radio!Callback, Radio!TestAdvertising(t) PROVE AirInv'
  BY <1>0, <1>2 DEF Radio!TestAdvertising, Radio!Return, Radio!flags,
     Radio!radio
<1>3. ASSUME NEW t \in Radio!Callback, Radio!RequestStart(t) PROVE AirInv'
  <2>1. advDataReady /\ hidStarted
    BY <1>3 DEF Radio!RequestStart
  <2> QED BY <1>3, <2>1 DEF Radio!RequestStart, Radio!flags
<1>4. ASSUME NEW t \in Radio!Callback, Radio!SetAdvertising(t) PROVE AirInv'
  <2>1. advDataReady /\ hidStarted
    BY <1>4 DEF Radio!SetAdvertising
  <2> QED BY <1>4, <2>1 DEF Radio!SetAdvertising
<1>5. CASE Radio!AdvDataSet
  <2>1. Silent(btcQueue, {"startAdv"}) <=> Silent(btcQueue', {"startAdv"})
    BY <1>5, BtcTakes DEF Radio!AdvDataSet, Radio!GapEvent
  <2> QED BY <1>0, <1>5, <2>1 DEF Radio!AdvDataSet, Radio!radio
<1>6. ASSUME NEW e \in {"startOk", "startFail"}, Radio!StartComplete(e)
      PROVE  AirInv'
  <2>1. Silent(btcQueue, {"startAdv"}) <=> Silent(btcQueue', {"startAdv"})
    BY <1>6, BtcTakes DEF Radio!StartComplete, Radio!GapEvent
  <2> QED BY <1>0, <1>6, <2>1 DEF Radio!StartComplete, Radio!radio
<1>7. CASE Radio!StackStartsAdvertising
  <2>1. ~Silent(btcQueue, {"startAdv"})
    BY <1>7, BtcTakes DEF Radio!StackStartsAdvertising
  <2> QED BY <1>7, <2>1 DEF Radio!StackStartsAdvertising, Radio!flags
<1>8. ASSUME NEW e \in {"gattStart", "gattConnect", "gattDisconnect"},
             NEW posted, Radio!StackPosts(e, posted)
      PROVE  AirInv'
  <2>1. Silent(btcQueue, {"startAdv"}) <=> Silent(btcQueue', {"startAdv"})
    BY <1>8, BtcTakes DEF Radio!StackPosts, Radio!GapEvent
  <2> QED BY <1>8, <2>1 DEF Radio!StackPosts, Radio!flags
<1>9. CASE Radio!HiddStart
  BY <1>0, <1>9 DEF Radio!HiddStart, Radio!radio
<1>10. CASE Radio!HiddConnect
  BY <1>10 DEF Radio!HiddConnect, Radio!radio
<1>11. CASE Radio!HiddDisconnect
  BY <1>0, <1>11 DEF Radio!HiddDisconnect, Radio!radio
<1>12. ASSUME NEW e \in {"advData", "gattStart"}, Radio!StackReports(e)
       PROVE  AirInv'
  <2>1. Silent(btcQueue, {"startAdv"}) <=> Silent(btcQueue', {"startAdv"})
    BY <1>0, <1>12, BtcPuts DEF Radio!StackReports, Radio!Message
  <2> QED BY <1>12, <2>1 DEF Radio!StackReports, Radio!flags, Radio!radio
<1>13. CASE Radio!HostConnects
  BY <1>13 DEF Radio!HostConnects, Radio!flags
<1>14. CASE Radio!HostLeaves
  <2>1. Silent(btcQueue, {"startAdv"}) <=> Silent(btcQueue', {"startAdv"})
    BY <1>0, <1>14, BtcPuts DEF Radio!HostLeaves, Radio!Message
  <2> QED BY <1>14, <2>1 DEF Radio!HostLeaves, Radio!flags
<1> QED
  BY RadioSteps, <1>1, <1>2, <1>3, <1>4, <1>5, <1>6, <1>7, <1>8, <1>9, <1>10,
     <1>11, <1>12, <1>13, <1>14

(* A step that puts no word about the host into the stack's queue, takes   *)
(* none from it, and leaves the rest of LinkInv alone.                     *)
LEMMA LinkKept ==
  ASSUME LinkInv,
         Says(btcQueue', BtcLink, "gattConnect", link),
         Silent(btcQueue', BtcLink) => Silent(btcQueue, BtcLink),
         UNCHANGED <<hidQueue, connected, link>>
  PROVE  LinkInv'
BY DEF LinkInv

(* An event taken from the queue of ble_hidd_events.                       *)
LEMMA HidTakes ==
  ASSUME Radio!TypeOK, LinkInv, NEW e, Radio!HidEvent(e)
  PROVE  /\ Head(hidQueue) = e
         /\ Silent(hidQueue, HidLink)
              <=> e \notin HidLink /\ Silent(hidQueue', HidLink)
         /\ Silent(btcQueue, BtcLink)
              => /\ Says(hidQueue', HidLink, "CONNECT", link)
                 /\ e \in HidLink /\ Silent(hidQueue', HidLink)
                      => (e = "CONNECT" <=> link)
<1> /\ hidQueue \in Seq(HidMessage) /\ hidQueue # <<>>
    /\ Head(hidQueue) = e /\ hidQueue' = Tail(hidQueue) /\ link \in BOOLEAN
  BY DEF Radio!TypeOK, Radio!HidEvent, HidMessage
<1> QED BY SilentTail, SaysTail DEF LinkInv

LEMMA RadioLink ==
  ASSUME Radio!TypeOK, LinkInv, Radio!Next
  PROVE  LinkInv'
<1>0. (btcQueue \in Seq(Radio!Message) /\ hidQueue \in Seq(HidMessage)
       /\ link \in BOOLEAN)
  BY DEF Radio!TypeOK, HidMessage
<1>a. ASSUME NEW e, Radio!GapEvent(e), e \notin BtcLink,
             UNCHANGED <<hidQueue, connected, link>>
      PROVE  LinkInv'
  <2>1. (btcQueue' = Tail(btcQueue) /\ btcQueue # <<>> /\ Radio!Handles(e))
    BY <1>a DEF Radio!GapEvent, Radio!Handles
  <2>2. Says(btcQueue', BtcLink, "gattConnect", link)
    BY <1>0, <2>1, SaysTail DEF LinkInv
  <2>3. Silent(btcQueue', BtcLink) => Silent(btcQueue, BtcLink)
    BY <1>a, <2>1, BtcTakes
  <2> QED BY <1>a, <2>2, <2>3, LinkKept
<1>b. ASSUME NEW e \in Radio!Message \ BtcLink, btcQueue' = Append(btcQueue, e),
             UNCHANGED <<hidQueue, connected, link>>
      PROVE  LinkInv'
  <2>1. Says(btcQueue', BtcLink, "gattConnect", link)
    BY <1>0, <1>b, SaysAppend DEF LinkInv
  <2>2. Silent(btcQueue', BtcLink) => Silent(btcQueue, BtcLink)
    BY <1>0, <1>b, BtcPuts
  <2> QED BY <1>b, <2>1, <2>2, LinkKept
<1>c. ASSUME NEW e \in BtcLink, btcQueue' = Append(btcQueue, e),
             link' \in BOOLEAN, e = "gattConnect" <=> link'
      PROVE  LinkInv'
  <2>0. e \in Radio!Message
    BY <1>c DEF BtcLink, Radio!Message
  <2>1. Says(Append(btcQueue, e), BtcLink, "gattConnect", link')
    BY <1>0, <1>c, <2>0, SaysAppend
  <2>2. ~Silent(Append(btcQueue, e), BtcLink)
    BY <1>0, <1>c, <2>0, BtcPuts
  <2> QED BY <1>c, <2>1, <2>2 DEF LinkInv
<1>1. ASSUME UNCHANGED <<btcQueue, hidQueue, connected, link>> PROVE LinkInv'
  BY <1>1 DEF LinkInv
<1>2. ASSUME NEW t \in Radio!Callback,
             \/ Radio!TestFlags(t) \/ Radio!TestAdvertising(t)
             \/ Radio!SetAdvertising(t)
      PROVE  LinkInv'
  BY <1>1, <1>2 DEF Radio!TestFlags, Radio!TestAdvertising,
     Radio!SetAdvertising, Radio!flags, Radio!radio
<1>3. ASSUME NEW t \in Radio!Callback, Radio!RequestStart(t) PROVE LinkInv'
  <2>1. "startAdv" \in Radio!Message \ BtcLink
    BY DEF Radio!Message, BtcLink
  <2> QED BY <1>1, <1>b, <1>3, <2>1 DEF Radio!RequestStart, Radio!flags,
             Radio!radio
<1>4. CASE Radio!AdvDataSet
  BY <1>a, <1>4 DEF Radio!AdvDataSet, Radio!radio, BtcLink
<1>5. ASSUME NEW e \in {"startOk", "startFail"}, Radio!StartComplete(e)
      PROVE  LinkInv'
  BY <1>a, <1>5 DEF Radio!StartComplete, Radio!radio, BtcLink
<1>6. CASE Radio!StackStartsAdvertising
  <2>1. PICK e \in {"startOk", "startFail"} :
          btcQueue' = Append(Tail(btcQueue), e)
    BY <1>6 DEF Radio!StackStartsAdvertising
  <2>2. (/\ Radio!Handles("startAdv")
         /\ UNCHANGED <<hidQueue, connected, link>>)
    BY <1>6 DEF Radio!StackStartsAdvertising, Radio!flags
  <2>3. (e \in Radio!Message /\ e \notin BtcLink /\ "startAdv" \notin BtcLink)
    BY DEF Radio!Message, BtcLink
  <2>4. Says(Tail(btcQueue), BtcLink, "gattConnect", link)
    BY <1>0, <2>2, BtcTakes, SaysTail DEF LinkInv
  <2>5. Says(btcQueue', BtcLink, "gattConnect", link)
    <3>1. Tail(btcQueue) \in Seq(Radio!Message)
      BY <2>2, BtcTakes
    <3>2. Says(Append(Tail(btcQueue), e), BtcLink, "gattConnect", link)
      BY <1>0, <2>3, <2>4, <3>1, SaysAppend
    <3> QED BY <2>1, <3>2
  <2>6. Silent(btcQueue', BtcLink) => Silent(btcQueue, BtcLink)
    BY <2>1, <2>2, <2>3, BtcTakes, BtcPuts
  <2> QED BY <2>2, <2>5, <2>6, LinkKept
<1>7. CASE Radio!StackPosts("gattStart", "START")
  <2>1. (/\ Radio!GapEvent("gattStart") /\ hidQueue' = Append(hidQueue, "START")
         /\ UNCHANGED <<connected, link>> /\ btcQueue' = Tail(btcQueue))
    BY <1>7 DEF Radio!StackPosts, Radio!flags, Radio!GapEvent
  <2>2. (/\ Says(btcQueue', BtcLink, "gattConnect", link)
         /\ Silent(btcQueue', BtcLink) <=> Silent(btcQueue, BtcLink))
    BY <1>0, <2>1, BtcTakes, SaysTail DEF LinkInv, Radio!GapEvent, BtcLink
  <2>3. (/\ Says(hidQueue, HidLink, "CONNECT", link)
              => Says(hidQueue', HidLink, "CONNECT", link)
         /\ Silent(hidQueue', HidLink) <=> Silent(hidQueue, HidLink))
    <3>1. ("START" \in HidMessage /\ "START" \notin HidLink)
      BY DEF HidMessage, HidLink
    <3> QED BY <1>0, <2>1, <3>1, SaysAppend, SilentAppend
  <2> QED BY <2>1, <2>2, <2>3 DEF LinkInv
<1>8. ASSUME NEW e \in BtcLink, NEW posted \in HidLink,
             Radio!StackPosts(e, posted),
             e = "gattConnect" <=> posted = "CONNECT"
      PROVE  LinkInv'
  <2>1. (/\ Radio!Handles(e) /\ hidQueue' = Append(hidQueue, posted)
         /\ UNCHANGED <<connected, link>> /\ btcQueue' = Tail(btcQueue))
    BY <1>8 DEF Radio!StackPosts, Radio!flags, Radio!GapEvent
  <2>2. (/\ Says(Tail(btcQueue), BtcLink, "gattConnect", link)
         /\ Silent(Tail(btcQueue), BtcLink) => (e = "gattConnect" <=> link))
    BY <1>0, <1>8, <2>1, BtcTakes, SaysTail DEF LinkInv
  <2>3. posted \in HidMessage
    BY <1>8 DEF HidLink, HidMessage
  <2>4. Silent(Tail(btcQueue), BtcLink)
          => Says(Append(hidQueue, posted), HidLink, "CONNECT", link)
    BY <1>0, <1>8, <2>2, <2>3, SaysAppend
  <2>5. ~Silent(Append(hidQueue, posted), HidLink)
    BY <1>0, <1>8, <2>3, SilentAppend
  <2> QED BY <2>1, <2>2, <2>4, <2>5 DEF LinkInv
<1>9. CASE Radio!HiddStart
  <2>1. (Radio!HidEvent("START") /\ UNCHANGED <<btcQueue, connected, link>>)
    BY <1>9 DEF Radio!HiddStart, Radio!radio
  <2>2. "START" \notin HidLink
    BY DEF HidLink
  <2> QED BY <2>1, <2>2, HidTakes DEF LinkInv
<1>10. CASE Radio!HiddConnect
  <2>1. (/\ Radio!HidEvent("CONNECT") /\ UNCHANGED <<btcQueue, link>>
         /\ connected' = TRUE)
    BY <1>10 DEF Radio!HiddConnect, Radio!radio
  <2>2. "CONNECT" \in HidLink
    BY DEF HidLink
  <2> QED BY <2>1, <2>2, HidTakes DEF LinkInv
<1>11. CASE Radio!HiddDisconnect
  <2>1. (/\ Radio!HidEvent("DISCONNECT") /\ UNCHANGED <<btcQueue, link>>
         /\ connected' = FALSE)
    BY <1>11 DEF Radio!HiddDisconnect, Radio!radio
  <2>2. "DISCONNECT" \in HidLink
    BY DEF HidLink
  <2> QED BY <2>1, <2>2, HidTakes DEF LinkInv
<1>12. ASSUME NEW e \in {"advData", "gattStart"}, Radio!StackReports(e)
       PROVE  LinkInv'
  <2>1. e \in Radio!Message \ BtcLink
    BY DEF Radio!Message, BtcLink
  <2> QED BY <1>b, <1>12, <2>1 DEF Radio!StackReports, Radio!flags, Radio!radio
<1>13. CASE Radio!HostConnects
  BY <1>c, <1>13 DEF Radio!HostConnects, BtcLink
<1>14. CASE Radio!HostLeaves
  BY <1>c, <1>14 DEF Radio!HostLeaves, BtcLink
<1> QED
  BY RadioSteps, <1>2, <1>3, <1>4, <1>5, <1>6, <1>7, <1>8, <1>9, <1>10, <1>11,
     <1>12, <1>13, <1>14 DEF BtcLink, HidLink

-----------------------------------------------------------------------------
(* The advertising flag.                                                   *)

(* The answers to start requests that a host has made stale wait before    *)
(* the word of its connection, and so are handled before it.               *)
AnswerInv ==
  /\ onAir   \/ Followed(btcQueue, "startOk", "gattConnect")
  /\ refused \/ Followed(btcQueue, "startFail", "gattConnect")

(* When the host is gone, the word of its leaving waits behind that of its *)
(* coming.                                                                 *)
LeaveInv ==
  link \/ /\ Followed(btcQueue, "gattConnect", "gattDisconnect")
          /\ \/ Waits(btcQueue, "gattDisconnect")
             \/ Followed(hidQueue, "CONNECT", "DISCONNECT")

(* While the flag is set, or about to be, and the radio is silent, there   *)
(* is a request to be answered, or a connection to clear the flag.         *)
FlagHasAir ==
  /\ advertising \/ pc["hid"] = "set" =>
       \/ onAir \/ refused
       \/ Waits(btcQueue, "startAdv") \/ Waits(btcQueue, "gattConnect")
       \/ Waits(hidQueue, "CONNECT")
  /\ pc["btc"] = "set" => Waits(btcQueue, "startAdv")

(* While the radio advertises and the flag is clear, an answer is under    *)
(* way that sets it, or ble_hidd_events has yet to ask once more.          *)
AirHasFlag ==
  onAir /\ ~refused /\ ~link =>
    \/ advertising
    \/ Waits(btcQueue, "startOk") \/ Waits(btcQueue, "startAdv")
    \/ Waits(btcQueue, "gattDisconnect") \/ Waits(hidQueue, "DISCONNECT")
    \/ pc["hid"] \in {"test", "testAdvertising", "request"}

AdvertisingInv == AnswerInv /\ LeaveInv /\ FlagHasAir /\ AirHasFlag

(* What is known of a queue r that is q without its first event e, and of  *)
(* one that is q with an event e more.                                     *)
Removed(q, r, e) ==
  /\ \A x : Waits(q, x) <=> x = e \/ Waits(r, x)
  /\ \A x, y : Followed(q, x, y) => Followed(r, x, y) /\ (x = e => Waits(r, y))

Added(q, r, e) ==
  /\ \A x : Waits(r, x) <=> Waits(q, x) \/ x = e
  /\ \A x, y : Followed(q, x, y) /\ x # e => Followed(r, x, y)
  /\ \A x : x # e => Followed(r, x, e)

LEMMA BtcRemoved ==
  ASSUME Radio!TypeOK, NEW e, Radio!Handles(e)
  PROVE  /\ Removed(btcQueue, Tail(btcQueue), e)
         /\ Tail(btcQueue) \in Seq(Radio!Message)
<1>1. btcQueue \in Seq(Radio!Message) /\ btcQueue # <<>> /\ Head(btcQueue) = e
  BY DEF Radio!TypeOK, Radio!Handles
<1> QED BY <1>1, WaitsTail, TailOf DEF Removed

LEMMA HidRemoved ==
  ASSUME Radio!TypeOK, NEW e, Radio!HidEvent(e)
  PROVE  Removed(hidQueue, hidQueue', e)
<1>1. /\ hidQueue \in Seq(HidMessage) /\ hidQueue # <<>>
      /\ Head(hidQueue) = e /\ hidQueue' = Tail(hidQueue)
  BY DEF Radio!TypeOK, Radio!HidEvent, HidMessage
<1> QED BY <1>1, WaitsTail DEF Removed

LEMMA BtcAdded ==
  ASSUME NEW q \in Seq(Radio!Message), NEW e \in Radio!Message
  PROVE  Added(q, Append(q, e), e)
BY WaitsAppend DEF Added

LEMMA HidAdded ==
  ASSUME Radio!TypeOK, NEW e \in HidMessage, hidQueue' = Append(hidQueue, e)
  PROVE  Added(hidQueue, hidQueue', e)
<1>1. hidQueue \in Seq(HidMessage)
  BY DEF Radio!TypeOK, HidMessage
<1> QED BY <1>1, WaitsAppend DEF Added

(* With the host gone and the flag still set, word of its leaving waits.   *)
LEMMA LeavingWaits ==
  ASSUME LinkInv, LeaveInv, ~link, connected
  PROVE  Waits(btcQueue, "gattDisconnect") \/ Waits(hidQueue, "DISCONNECT")
<1>1. ~Silent(btcQueue, BtcLink) \/ ~Silent(hidQueue, HidLink)
  BY DEF LinkInv
<1>2. CASE ~Silent(btcQueue, BtcLink)
  BY <1>2 DEF Silent, BtcLink, LeaveInv, Followed, Waits
<1>3. CASE ~Silent(hidQueue, HidLink)
  BY <1>3 DEF Silent, HidLink, LeaveInv, Followed, Waits
<1> QED BY <1>1, <1>2, <1>3

LEMMA RadioAdvertising ==
  ASSUME Radio!TypeOK, AirInv, LinkInv, AdvertisingInv, Radio!Next
  PROVE  AdvertisingInv'
<1> USE DEF AdvertisingInv, AnswerInv, LeaveInv, FlagHasAir, AirHasFlag,
            Radio!flags, Radio!radio
<1>0. /\ btcQueue \in Seq(Radio!Message)
      /\ pc \in [{"btc", "hid"} ->
                   {"idle", "test", "testAdvertising", "request", "set"}]
      /\ connected \in BOOLEAN /\ advertising \in BOOLEAN
      /\ {"startAdv", "startOk", "startFail", "advData", "gattStart",
          "gattConnect", "gattDisconnect"} \subseteq Radio!Message
  BY DEF Radio!TypeOK, Radio!Message, Radio!Callback
<1>1. ASSUME NEW t \in Radio!Callback, Radio!TestFlags(t)
      PROVE  AdvertisingInv'
  <2>1. UNCHANGED <<advertising, connected, btcQueue, hidQueue, onAir, link, refused>>
    BY <1>1 DEF Radio!TestFlags
  <2>2. /\ pc'["hid"] # "set" \/ pc["hid"] = "set"
        /\ pc'["btc"] # "set" \/ pc["btc"] = "set"
    BY <1>0, <1>1 DEF Radio!TestFlags, Radio!Return, Radio!Callback
  <2>3. AirHasFlag'
    <3>1. CASE t = "hid" /\ onAir /\ ~link /\ ~connected
      BY <1>0, <1>1, <3>1 DEF Radio!TestFlags, AirInv
    <3>2. CASE t = "hid" /\ onAir /\ ~link /\ connected
      BY <2>1, <3>2, LeavingWaits
    <3>3. CASE t = "btc"
      <4>1. pc'["hid"] = pc["hid"]
        BY <1>0, <1>1, <3>3 DEF Radio!TestFlags, Radio!Return
      <4> QED BY <2>1, <4>1
    <3>4. CASE ~onAir \/ link
      BY <2>1, <3>4
    <3> QED BY <3>1, <3>2, <3>3, <3>4 DEF Radio!Callback
  <2> QED BY <2>1, <2>2, <2>3
<1>2. ASSUME NEW t \in Radio!Callback, Radio!TestAdvertising(t)
      PROVE  AdvertisingInv'
  <2>1. UNCHANGED <<advertising, btcQueue, hidQueue, onAir, link, refused>>
    BY <1>2 DEF Radio!TestAdvertising
  <2>2. /\ pc'["hid"] # "set" \/ pc["hid"] = "set"
        /\ pc'["btc"] # "set" \/ pc["btc"] = "set"
        /\ advertising \/ pc'["hid"] = pc["hid"] \/ pc'["hid"] = "request"
    BY <1>0, <1>2 DEF Radio!TestAdvertising, Radio!Return, Radio!Callback
  <2> QED BY <2>1, <2>2
<1>3. ASSUME NEW t \in Radio!Callback, Radio!RequestStart(t)
      PROVE  AdvertisingInv'
  <2>1. UNCHANGED <<advertising, hidQueue, onAir, link>>
    BY <1>3 DEF Radio!RequestStart
  <2>2. CASE btcQueue' = Append(btcQueue, "startAdv") /\ UNCHANGED refused
    <3>1. Added(btcQueue, btcQueue', "startAdv")
      BY <1>0, <2>2, BtcAdded
    <3> QED BY <2>1, <2>2, <3>1 DEF Added
  <2>3. CASE refused' /\ UNCHANGED btcQueue /\ Radio!Return(t)
    <3>1. pc'["btc"] # "set" \/ pc["btc"] = "set"
      BY <1>0, <2>3 DEF Radio!Return, Radio!Callback
    <3> QED BY <2>1, <2>3, <3>1
  <2> QED BY <1>3, <2>2, <2>3 DEF Radio!RequestStart
<1>4. ASSUME NEW t \in Radio!Callback, Radio!SetAdvertising(t)
      PROVE  AdvertisingInv'
  <2>1. UNCHANGED <<btcQueue, hidQueue, onAir, link, refused>> /\ advertising'
    BY <1>4 DEF Radio!SetAdvertising
  <2>2. pc'["btc"] # "set" \/ pc["btc"] = "set"
    BY <1>0, <1>4 DEF Radio!SetAdvertising, Radio!Return, Radio!Callback
  <2>3. pc["btc"] = "set" \/ pc["hid"] = "set"
    BY <1>4 DEF Radio!SetAdvertising, Radio!Callback
  <2> QED BY <2>1, <2>2, <2>3
<1>5. CASE Radio!AdvDataSet
  <2>1. /\ UNCHANGED <<advertising, hidQueue, onAir, link, refused>>
        /\ Radio!Handles("advData") /\ btcQueue' = Tail(btcQueue)
    BY <1>5 DEF Radio!AdvDataSet, Radio!GapEvent
  <2>2. Removed(btcQueue, btcQueue', "advData")
    BY <2>1, BtcRemoved
  <2>3. pc'["btc"] = "test" /\ pc'["hid"] = pc["hid"]
    BY <1>0, <1>5 DEF Radio!AdvDataSet
  <2> QED BY <2>1, <2>2, <2>3 DEF Removed
<1>6. ASSUME NEW e \in {"startOk", "startFail"}, Radio!StartComplete(e)
      PROVE  AdvertisingInv'
  <2>1. /\ UNCHANGED <<pc, hidQueue, onAir, link, refused>>
        /\ Radio!Handles(e) /\ btcQueue' = Tail(btcQueue)
        /\ advertising' = (e = "startOk")
    BY <1>6 DEF Radio!StartComplete, Radio!GapEvent
  <2>2. Removed(btcQueue, btcQueue', e)
    BY <2>1, BtcRemoved
  <2>3. CASE e = "startOk"
    BY <2>1, <2>2, <2>3 DEF Removed
  <2>4. CASE e = "startFail"
    <3>1. AirHasFlag'
      <4>1. onAir /\ ~refused /\ ~link => Waits(btcQueue', "gattConnect")
        BY <2>2, <2>4 DEF Removed
      <4>2. ~link => Followed(btcQueue', "gattConnect", "gattDisconnect")
        BY <2>2 DEF Removed
      <4>3. onAir /\ ~refused /\ ~link => Waits(btcQueue', "gattDisconnect")
        BY <4>1, <4>2 DEF Waits, Followed
      <4> QED BY <2>1, <4>3
    <3>2. (AnswerInv /\ LeaveInv /\ FlagHasAir)'
      BY <2>1, <2>2, <2>4 DEF Removed
    <3> QED BY <3>1, <3>2
  <2> QED BY <2>3, <2>4
<1>7. CASE Radio!StackStartsAdvertising
  <2>1. UNCHANGED <<advertising, pc, hidQueue, link>> /\ pc["btc"] = "idle"
    BY <1>7 DEF Radio!StackStartsAdvertising, Radio!Handles
  <2>2. /\ Removed(btcQueue, Tail(btcQueue), "startAdv")
        /\ Tail(btcQueue) \in Seq(Radio!Message)
    BY <1>7, BtcRemoved DEF Radio!StackStartsAdvertising
  <2>3. CASE /\ btcQueue' = Append(Tail(btcQueue), "startOk")
             /\ onAir' /\ UNCHANGED refused
    <3>1. Added(Tail(btcQueue), btcQueue', "startOk")
      BY <1>0, <2>2, <2>3, BtcAdded
    <3> QED BY <2>1, <2>2, <2>3, <3>1 DEF Removed, Added
  <2>4. CASE /\ btcQueue' = Append(Tail(btcQueue), "startFail")
             /\ refused' /\ UNCHANGED onAir
    <3>1. Added(Tail(btcQueue), btcQueue', "startFail")
      BY <1>0, <2>2, <2>4, BtcAdded
    <3> QED BY <2>1, <2>2, <2>4, <3>1 DEF Removed, Added
  <2> QED BY <1>7, <2>3, <2>4 DEF Radio!StackStartsAdvertising
<1>8. ASSUME NEW e, NEW posted \in HidMessage, Radio!StackPosts(e, posted),
             <<e, posted>> \in {<<"gattStart", "START">>,
                                <<"gattConnect", "CONNECT">>,
                                <<"gattDisconnect", "DISCONNECT">>}
      PROVE  AdvertisingInv'
  <2>1. /\ UNCHANGED <<advertising, pc, onAir, link, refused>>
        /\ Radio!Handles(e) /\ btcQueue' = Tail(btcQueue)
        /\ hidQueue' = Append(hidQueue, posted) /\ pc["btc"] = "idle"
    BY <1>8 DEF Radio!StackPosts, Radio!GapEvent, Radio!Handles
  <2>2. Removed(btcQueue, btcQueue', e) /\ Added(hidQueue, hidQueue', posted)
    BY <2>1, BtcRemoved, HidAdded
  <2>3. CASE e = "gattStart" /\ posted = "START"
    BY <2>1, <2>2, <2>3 DEF Removed, Added
  <2>4. CASE e = "gattConnect" /\ posted = "CONNECT"
    BY <2>1, <2>2, <2>4 DEF Removed, Added
  <2>5. CASE e = "gattDisconnect" /\ posted = "DISCONNECT"
    BY <2>1, <2>2, <2>5 DEF Removed, Added
  <2> QED BY <1>8, <2>3, <2>4, <2>5
<1>9. CASE Radio!HiddStart
  <2>1. /\ UNCHANGED <<advertising, btcQueue, onAir, link, refused>>
        /\ Removed(hidQueue, hidQueue', "START")
        /\ pc'["hid"] = "test" /\ pc'["btc"] = pc["btc"]
    BY <1>0, <1>9, HidRemoved DEF Radio!HiddStart
  <2> QED BY <2>1 DEF Removed
<1>10. CASE Radio!HiddConnect
  <2>1. /\ UNCHANGED <<btcQueue, onAir, link, refused, pc>>
        /\ Removed(hidQueue, hidQueue', "CONNECT")
        /\ pc["hid"] = "idle" /\ ~advertising'
    BY <1>10, HidRemoved DEF Radio!HiddConnect, Radio!HidEvent
  <2> QED BY <2>1 DEF Removed
<1>11. CASE Radio!HiddDisconnect
  <2>1. /\ UNCHANGED <<btcQueue, onAir, link, refused>>
        /\ Removed(hidQueue, hidQueue', "DISCONNECT") /\ ~advertising'
        /\ pc'["hid"] = "test" /\ pc'["btc"] = pc["btc"]
    BY <1>0, <1>11, HidRemoved DEF Radio!HiddDisconnect
  <2> QED BY <2>1 DEF Removed
<1>12. ASSUME NEW e \in {"advData", "gattStart"}, Radio!StackReports(e)
       PROVE  AdvertisingInv'
  <2>1. /\ UNCHANGED <<advertising, pc, hidQueue, onAir, link, refused>>
        /\ btcQueue' = Append(btcQueue, e)
    BY <1>12 DEF Radio!StackReports
  <2>2. Added(btcQueue, btcQueue', e)
    BY <1>0, <2>1, BtcAdded
  <2> QED BY <2>1, <2>2 DEF Added
<1>13. CASE Radio!HostConnects
  <2>1. /\ UNCHANGED <<advertising, pc, hidQueue>> /\ link' /\ ~onAir' /\ ~refused'
        /\ btcQueue' = Append(btcQueue, "gattConnect")
    BY <1>13 DEF Radio!HostConnects
  <2>2. Added(btcQueue, btcQueue', "gattConnect")
    BY <1>0, <2>1, BtcAdded
  <2> QED BY <2>1, <2>2 DEF Added
<1>14. CASE Radio!HostLeaves
  <2>1. /\ UNCHANGED <<advertising, pc, hidQueue, onAir, refused>> /\ ~link'
        /\ btcQueue' = Append(btcQueue, "gattDisconnect")
    BY <1>14 DEF Radio!HostLeaves
  <2>2. Added(btcQueue, btcQueue', "gattDisconnect")
    BY <1>0, <2>1, BtcAdded
  <2> QED BY <2>1, <2>2 DEF Added
<1> QED
  BY RadioSteps, <1>1, <1>2, <1>3, <1>4, <1>5, <1>6, <1>7, <1>8, <1>9, <1>10,
     <1>11, <1>12, <1>13, <1>14 DEF HidMessage

-----------------------------------------------------------------------------
(* At rest the knob can be reached.                                        *)

Asking(t) == pc[t] \in {"test", "testAdvertising", "request"}

(* A prerequisite of advertising that is missing is still to be reported.  *)
StartInv ==
  /\ advDataReady \/ "advData" \in booting \/ Waits(btcQueue, "advData")
  /\ \/ hidStarted \/ "gattStart" \in booting
     \/ Waits(btcQueue, "gattStart") \/ Waits(hidQueue, "START")

(* Something is under way that will ask for an advertising start, unless   *)
(* one has come about.                                                     *)
Coming ==
  \/ booting # {} \/ Waits(btcQueue, "advData")
  \/ Waits(btcQueue, "gattStart") \/ Waits(hidQueue, "START")
  \/ Waits(btcQueue, "startAdv")
  \/ Waits(btcQueue, "gattDisconnect") \/ Waits(hidQueue, "DISCONNECT")
  \/ Asking("btc") \/ Asking("hid")

ReachInv == StartInv /\ (onAir \/ link \/ refused \/ Coming)

(* A callback that does not ask has nothing to ask for: the flag that holds*)
(* it back is true, or an event is on its way that brings another callback.*)
LEMMA ReturnsForCause ==
  ASSUME LinkInv, AdvertisingInv, StartInv, ~link, ~onAir, ~refused,
         ~(hidStarted /\ advDataReady /\ ~connected) \/ advertising
  PROVE  \/ booting # {} \/ Waits(btcQueue, "advData")
         \/ Waits(btcQueue, "gattStart") \/ Waits(hidQueue, "START")
         \/ Waits(btcQueue, "startAdv")
         \/ Waits(btcQueue, "gattDisconnect") \/ Waits(hidQueue, "DISCONNECT")
<1>1. CASE ~hidStarted \/ ~advDataReady
  BY <1>1 DEF StartInv
<1>2. CASE connected
  BY <1>2, LeavingWaits DEF AdvertisingInv
<1>3. CASE advertising
  <2>1. \/ Waits(btcQueue, "startAdv") \/ Waits(btcQueue, "gattConnect")
        \/ Waits(hidQueue, "CONNECT")
    BY <1>3 DEF AdvertisingInv, FlagHasAir
  <2>2. Waits(btcQueue, "gattConnect") => Waits(btcQueue, "gattDisconnect")
    BY DEF AdvertisingInv, LeaveInv, Waits, Followed
  <2>3. Waits(hidQueue, "CONNECT")
          => Waits(btcQueue, "gattDisconnect") \/ Waits(hidQueue, "DISCONNECT")
    BY DEF AdvertisingInv, LeaveInv, Waits, Followed
  <2> QED BY <2>1, <2>2, <2>3
<1> QED BY <1>1, <1>2, <1>3

LEMMA RadioReach ==
  ASSUME Radio!TypeOK, LinkInv, AdvertisingInv, ReachInv, Radio!Next
  PROVE  ReachInv'
<1> USE DEF ReachInv, StartInv, Coming, Asking, Radio!flags, Radio!radio
<1>0. /\ btcQueue \in Seq(Radio!Message)
      /\ pc \in [{"btc", "hid"} ->
                   {"idle", "test", "testAdvertising", "request", "set"}]
      /\ {"startAdv", "startOk", "startFail", "advData", "gattStart",
          "gattConnect", "gattDisconnect"} \subseteq Radio!Message
  BY DEF Radio!TypeOK, Radio!Message, Radio!Callback
<1>1. ASSUME NEW t \in Radio!Callback,
             Radio!TestFlags(t) \/ Radio!TestAdvertising(t)
      PROVE  ReachInv'
  <2>1. UNCHANGED <<advDataReady, hidStarted, booting, btcQueue, hidQueue,
                    onAir, link, refused>>
    BY <1>1 DEF Radio!TestFlags, Radio!TestAdvertising
  <2>2. \/ pc'[t] \in {"testAdvertising", "request"}
        \/ ~(hidStarted /\ advDataReady /\ ~connected) \/ advertising
    BY <1>0, <1>1 DEF Radio!TestFlags, Radio!TestAdvertising, Radio!Callback
  <2>3. CASE pc'[t] \in {"testAdvertising", "request"}
    BY <2>1, <2>3 DEF Radio!Callback
  <2>4. CASE ~(hidStarted /\ advDataReady /\ ~connected) \/ advertising
    BY <2>1, <2>4, ReturnsForCause
  <2> QED BY <2>2, <2>3, <2>4
<1>2. ASSUME NEW t \in Radio!Callback, Radio!RequestStart(t)
      PROVE  ReachInv'
  <2>1. UNCHANGED <<advDataReady, hidStarted, booting, hidQueue, onAir, link>>
    BY <1>2 DEF Radio!RequestStart
  <2>2. CASE btcQueue' = Append(btcQueue, "startAdv")
    <3>1. Added(btcQueue, btcQueue', "startAdv")
      BY <1>0, <2>2, BtcAdded
    <3> QED BY <2>1, <3>1 DEF Added
  <2>3. CASE refused' /\ UNCHANGED btcQueue
    BY <2>1, <2>3
  <2> QED BY <1>2, <2>2, <2>3 DEF Radio!RequestStart
<1>3. ASSUME NEW t \in Radio!Callback, Radio!SetAdvertising(t)
      PROVE  ReachInv'
  <2>1. UNCHANGED <<advDataReady, hidStarted, booting, btcQueue, hidQueue,
                    onAir, link, refused>>
    BY <1>3 DEF Radio!SetAdvertising
  <2>2. Asking("btc")' = Asking("btc") /\ Asking("hid")' = Asking("hid")
    BY <1>0, <1>3 DEF Radio!SetAdvertising, Radio!Return, Radio!Callback
  <2> QED BY <2>1, <2>2
<1>4. CASE Radio!AdvDataSet
  <2>1. /\ UNCHANGED <<hidStarted, booting, hidQueue, onAir, link, refused>>
        /\ advDataReady' /\ Radio!Handles("advData") /\ btcQueue' = Tail(btcQueue)
    BY <1>4 DEF Radio!AdvDataSet, Radio!GapEvent
  <2>2. Removed(btcQueue, btcQueue', "advData")
    BY <2>1, BtcRemoved
  <2>3. Asking("btc")'
    BY <1>0, <1>4 DEF Radio!AdvDataSet
  <2> QED BY <2>1, <2>2, <2>3 DEF Removed
<1>5. ASSUME NEW e \in {"startOk", "startFail"}, Radio!StartComplete(e)
      PROVE  ReachInv'
  <2>1. /\ UNCHANGED <<advDataReady, hidStarted, booting, pc, hidQueue, onAir,
                       link, refused>>
        /\ Radio!Handles(e) /\ btcQueue' = Tail(btcQueue)
    BY <1>5 DEF Radio!StartComplete, Radio!GapEvent
  <2>2. Removed(btcQueue, btcQueue', e)
    BY <2>1, BtcRemoved
  <2> QED BY <2>1, <2>2 DEF Removed
<1>6. CASE Radio!StackStartsAdvertising
  <2>1. /\ UNCHANGED <<advDataReady, hidStarted, booting, pc, hidQueue, link>>
        /\ (onAir' /\ UNCHANGED refused) \/ (refused' /\ UNCHANGED onAir)
    BY <1>6 DEF Radio!StackStartsAdvertising
  <2>2. /\ Removed(btcQueue, Tail(btcQueue), "startAdv")
        /\ Tail(btcQueue) \in Seq(Radio!Message)
    BY <1>6, BtcRemoved DEF Radio!StackStartsAdvertising
  <2>3. \E e \in {"startOk", "startFail"} : Added(Tail(btcQueue), btcQueue', e)
    BY <1>0, <1>6, <2>2, BtcAdded DEF Radio!StackStartsAdvertising
  <2>4. \A e \in {"advData", "gattStart"} :
          Waits(btcQueue, e) => Waits(btcQueue', e)
    BY <2>2, <2>3 DEF Removed, Added
  <2> QED BY <2>1, <2>4
<1>7. ASSUME NEW e, NEW posted \in HidMessage, Radio!StackPosts(e, posted),
             <<e, posted>> \in {<<"gattStart", "START">>,
                                <<"gattConnect", "CONNECT">>,
                                <<"gattDisconnect", "DISCONNECT">>}
      PROVE  ReachInv'
  <2>1. /\ UNCHANGED <<advDataReady, hidStarted, booting, pc, onAir, link,
                       refused>>
        /\ Radio!Handles(e) /\ btcQueue' = Tail(btcQueue)
        /\ hidQueue' = Append(hidQueue, posted)
    BY <1>7 DEF Radio!StackPosts, Radio!GapEvent, Radio!Handles
  <2>2. Removed(btcQueue, btcQueue', e) /\ Added(hidQueue, hidQueue', posted)
    BY <2>1, BtcRemoved, HidAdded
  <2>3. CASE e = "gattStart" /\ posted = "START"
    BY <2>1, <2>2, <2>3 DEF Removed, Added
  <2>4. CASE e = "gattConnect" /\ posted = "CONNECT"
    BY <2>1, <2>2, <2>4 DEF Removed, Added
  <2>5. CASE e = "gattDisconnect" /\ posted = "DISCONNECT"
    BY <2>1, <2>2, <2>5 DEF Removed, Added
  <2> QED BY <1>7, <2>3, <2>4, <2>5
<1>8. CASE Radio!HiddStart
  <2>1. /\ UNCHANGED <<advDataReady, booting, btcQueue, onAir, link, refused>>
        /\ Removed(hidQueue, hidQueue', "START") /\ hidStarted'
        /\ Asking("hid")'
    BY <1>0, <1>8, HidRemoved DEF Radio!HiddStart
  <2> QED BY <2>1 DEF Removed
<1>9. CASE Radio!HiddConnect
  <2>1. /\ UNCHANGED <<advDataReady, hidStarted, booting, btcQueue, onAir,
                       link, refused, pc>>
        /\ Removed(hidQueue, hidQueue', "CONNECT")
    BY <1>9, HidRemoved DEF Radio!HiddConnect
  <2> QED BY <2>1 DEF Removed
<1>10. CASE Radio!HiddDisconnect
  <2>1. /\ UNCHANGED <<advDataReady, hidStarted, booting, btcQueue, onAir,
                       link, refused>>
        /\ Removed(hidQueue, hidQueue', "DISCONNECT") /\ Asking("hid")'
    BY <1>0, <1>10, HidRemoved DEF Radio!HiddDisconnect
  <2> QED BY <2>1 DEF Removed
<1>11. ASSUME NEW e \in {"advData", "gattStart"}, Radio!StackReports(e)
       PROVE  ReachInv'
  <2>1. /\ UNCHANGED <<advDataReady, hidStarted, pc, hidQueue, onAir, link,
                       refused>>
        /\ btcQueue' = Append(btcQueue, e) /\ booting' = booting \ {e}
    BY <1>11 DEF Radio!StackReports
  <2>2. Added(btcQueue, btcQueue', e)
    BY <1>0, <2>1, BtcAdded
  <2> QED BY <2>1, <2>2 DEF Added
<1>12. CASE Radio!HostConnects
  <2>1. /\ UNCHANGED <<advDataReady, hidStarted, booting, hidQueue>> /\ link'
        /\ btcQueue' = Append(btcQueue, "gattConnect")
    BY <1>12 DEF Radio!HostConnects
  <2>2. Added(btcQueue, btcQueue', "gattConnect")
    BY <1>0, <2>1, BtcAdded
  <2> QED BY <2>1, <2>2 DEF Added
<1>13. CASE Radio!HostLeaves
  <2>1. /\ UNCHANGED <<advDataReady, hidStarted, booting, hidQueue>>
        /\ btcQueue' = Append(btcQueue, "gattDisconnect")
    BY <1>13 DEF Radio!HostLeaves
  <2>2. Added(btcQueue, btcQueue', "gattDisconnect")
    BY <1>0, <2>1, BtcAdded
  <2> QED BY <2>1, <2>2 DEF Added
<1> QED
  BY RadioSteps, <1>1, <1>2, <1>3, <1>4, <1>5, <1>6, <1>7, <1>8, <1>9, <1>10,
     <1>11, <1>12, <1>13 DEF HidMessage

-----------------------------------------------------------------------------
(* The commands.                                                           *)

(* What has been pressed, what the task holds, what is queued: the numbers *)
(* follow one another, and a command is accepted only below the bound.     *)
OrderInv ==
  /\ lastPress <= accepted
  /\ \A i \in DOMAIN queue : lastPress < queue[i] /\ queue[i] <= accepted
  /\ \A i, j \in DOMAIN queue : i < j => queue[i] < queue[j]
  /\ taskPc \in {"check", "press"} =>
       /\ lastPress < command /\ command <= accepted
       /\ \A i \in DOMAIN queue : command < queue[i]
  /\ taskPc = "release" => command = lastPress
  /\ uiPc = "send" => accepted < MaxCommands

CommandTypeOK ==
  /\ queueReady    \in BOOLEAN
  /\ uiPc          \in {"idle", "send"}
  /\ accepted      \in 0..MaxCommands
  /\ queue         \in Seq(1..MaxCommands) /\ Len(queue) <= QueueLength
  /\ taskPc        \in {"receive", "check", "press", "release"}
  /\ command       \in 0..MaxCommands
  /\ lastPress     \in 0..MaxCommands
  /\ down          \in 0..MaxCommands
  /\ releaseFailed \in BOOLEAN

CommandInv == CommandTypeOK /\ OrderInv /\ DownHasCause

IInv == Radio!TypeOK /\ AirInv /\ LinkInv /\ AdvertisingInv /\ CommandInv

(* Steps that leave the connection alone.                                  *)
LEMMA RadioKept ==
  ASSUME Radio!TypeOK, AirInv, LinkInv, AdvertisingInv, UNCHANGED radioVars
  PROVE  (Radio!TypeOK /\ AirInv /\ LinkInv /\ AdvertisingInv)'
<1>1. Radio!TypeOK'
  BY DEF radioVars, Radio!TypeOK
<1>2. AirInv'
  BY DEF radioVars, AirInv, Requesting
<1>3. LinkInv'
  BY DEF radioVars, LinkInv
<1>4. AdvertisingInv'
  BY DEF radioVars, AdvertisingInv, AnswerInv, LeaveInv, FlagHasAir, AirHasFlag
<1> QED BY <1>1, <1>2, <1>3, <1>4

LEMMA InitIInv ==
  ASSUME Init
  PROVE  IInv
<1>1. Radio!TypeOK
  <2>1. pc \in [Radio!Callback ->
                  {"idle", "test", "testAdvertising", "request", "set"}]
    BY DEF Init, Radio!Init
  <2>2. (btcQueue \in Seq(Radio!Message)
         /\ hidQueue \in Seq({"START", "CONNECT", "DISCONNECT"}))
    BY DEF Init, Radio!Init
  <2> QED BY <2>1, <2>2 DEF Init, Radio!Init, Radio!TypeOK
<1>2. AirInv
  BY DEF Init, Radio!Init, AirInv, Silent, Requesting
<1>3. LinkInv
  BY DEF Init, Radio!Init, LinkInv, Says, Silent
<1>a. AdvertisingInv
  BY DEF Init, Radio!Init, AdvertisingInv, AnswerInv, LeaveInv, FlagHasAir,
     AirHasFlag, Followed, Radio!Callback
<1>4. CommandTypeOK
  <2>1. (/\ queue \in Seq(1..MaxCommands) /\ Len(queue) <= QueueLength
         /\ accepted \in 0..MaxCommands /\ command \in 0..MaxCommands
         /\ lastPress \in 0..MaxCommands /\ down \in 0..MaxCommands)
    BY BoundAssumption DEF Init
  <2> QED BY <2>1 DEF Init, CommandTypeOK
<1>5. OrderInv /\ DownHasCause
  BY DEF Init, OrderInv, DownHasCause
<1> QED BY <1>1, <1>2, <1>3, <1>a, <1>4, <1>5 DEF IInv, CommandInv

(* The flags of the connection are no business of the command steps.       *)
LEMMA CommandStep ==
  ASSUME IInv, Send \/ Task
  PROVE  (Radio!TypeOK /\ AirInv /\ LinkInv /\ AdvertisingInv)' /\ CommandInv'
<1>1. UNCHANGED radioVars
  BY DEF Send, SendTests, SendQueues, Task, Receive, Check, Press, Release
<1>2. (Radio!TypeOK /\ AirInv /\ LinkInv /\ AdvertisingInv)'
  BY <1>1, RadioKept DEF IInv
<1>3. CommandInv'
  <2> USE BoundAssumption DEF CommandInv
  <2>0. CommandInv
    BY DEF IInv
  <2>1. CASE SendTests
    BY <2>0, <2>1 DEF SendTests, CommandTypeOK, OrderInv, DownHasCause
  <2>2. CASE SendQueues
    <3>1. CASE Len(queue) < QueueLength
      <4>1. accepted + 1 \in 1..MaxCommands
        BY <2>0, <2>2 DEF SendQueues, CommandTypeOK, OrderInv
      <4>2. (/\ queue' = Append(queue, accepted + 1)
             /\ accepted' = accepted + 1 /\ uiPc' = "idle"
             /\ UNCHANGED <<queueReady, taskPc, command, lastPress, down,
                            releaseFailed>>)
        BY <2>2, <3>1 DEF SendQueues
      <4>3. (/\ queue' \in Seq(1..MaxCommands)
             /\ DOMAIN queue' = 1..(Len(queue) + 1)
             /\ Len(queue') = Len(queue) + 1
             /\ DOMAIN queue = 1..Len(queue) /\ Len(queue) \in Nat
             /\ \A i \in 1..Len(queue) : queue'[i] = queue[i]
             /\ queue'[Len(queue) + 1] = accepted + 1)
        BY <2>0, <4>1, <4>2, AppendedTo DEF CommandTypeOK
      <4>4. CommandTypeOK'
        BY <2>0, <3>1, <4>1, <4>2, <4>3 DEF CommandTypeOK
      <4>5. \A i \in DOMAIN queue : queue[i] \in 1..MaxCommands
        BY <2>0 DEF CommandTypeOK
      <4>6. OrderInv'
        BY <2>0, <4>1, <4>2, <4>3, <4>5 DEF OrderInv, CommandTypeOK
      <4> QED BY <2>0, <4>2, <4>4, <4>6 DEF DownHasCause
    <3>2. CASE ~(Len(queue) < QueueLength)
      BY <2>0, <2>2, <3>2 DEF SendQueues, CommandTypeOK, OrderInv, DownHasCause
    <3> QED BY <3>1, <3>2
  <2>3. CASE Receive
    <3>1. (/\ queue # <<>> /\ taskPc = "receive" /\ taskPc' = "check"
           /\ command' = Head(queue) /\ queue' = Tail(queue)
           /\ UNCHANGED <<queueReady, uiPc, accepted, lastPress, down,
                          releaseFailed>>)
      BY <2>3 DEF Receive
    <3>2. (/\ queue' \in Seq(1..MaxCommands) /\ command' \in 1..MaxCommands
           /\ command' = queue[1] /\ DOMAIN queue' = 1..(Len(queue) - 1)
           /\ Len(queue') = Len(queue) - 1
           /\ DOMAIN queue = 1..Len(queue) /\ Len(queue) \in Nat \ {0}
           /\ \A i \in 1..(Len(queue) - 1) : queue'[i] = queue[i + 1])
      BY <2>0, <3>1, TailOf DEF CommandTypeOK
    <3>3. CommandTypeOK'
      BY <2>0, <3>1, <3>2 DEF CommandTypeOK
    <3>4. \A i \in DOMAIN queue : queue[i] \in 1..MaxCommands
      BY <2>0 DEF CommandTypeOK
    <3>5. OrderInv'
      <4>0. \A i \in DOMAIN queue' :
              /\ i \in Nat /\ i + 1 \in DOMAIN queue /\ 1 < i + 1
              /\ queue'[i] = queue[i + 1]
        BY <3>2
      <4>1. \A i \in DOMAIN queue' : lastPress < queue'[i] /\ queue'[i] <= accepted
        BY <2>0, <3>2, <4>0 DEF OrderInv
      <4>2. ASSUME NEW i \in DOMAIN queue', NEW j \in DOMAIN queue', i < j
            PROVE  queue'[i] < queue'[j]
        <5>1. i + 1 < j + 1
          BY <4>0, <4>2
        <5> QED BY <2>0, <4>0, <5>1 DEF OrderInv
      <4>3. ASSUME NEW i \in DOMAIN queue' PROVE command' < queue'[i]
        <5>1. 1 \in DOMAIN queue
          BY <3>2
        <5> QED BY <2>0, <3>2, <4>0, <5>1 DEF OrderInv
      <4>4. lastPress < command' /\ command' <= accepted
        BY <2>0, <3>2 DEF OrderInv
      <4>5. lastPress <= accepted /\ (uiPc = "send" => accepted < MaxCommands)
        BY <2>0 DEF OrderInv
      <4> QED BY <3>1, <4>1, <4>2, <4>3, <4>4, <4>5 DEF OrderInv
    <3> QED BY <2>0, <3>1, <3>3, <3>5 DEF DownHasCause
  <2>4. CASE Check
    BY <2>0, <2>4 DEF Check, CommandTypeOK, OrderInv, DownHasCause
  <2>5. CASE Press
    <3>1. \A i \in DOMAIN queue : queue[i] \in 1..MaxCommands
      BY <2>0 DEF CommandTypeOK
    <3>2. CommandTypeOK'
      <4>1. (down' \in 0..MaxCommands /\ lastPress' \in 0..MaxCommands)
        BY <2>0, <2>5 DEF Press, Taken, CommandTypeOK
      <4>2. releaseFailed' \in BOOLEAN
        BY <2>0, <2>5 DEF Press, CommandTypeOK
      <4>3. taskPc' \in {"receive", "release"}
        BY <2>5 DEF Press
      <4> QED BY <2>0, <2>5, <4>1, <4>2, <4>3 DEF Press, CommandTypeOK
    <3>3. OrderInv'
      BY <2>0, <2>5, <3>1 DEF Press, Taken, CommandTypeOK, OrderInv
    <3>4. DownHasCause'
      BY <2>0, <2>5 DEF Press, Taken, CommandTypeOK, OrderInv, DownHasCause
    <3> QED BY <3>2, <3>3, <3>4
  <2>6. CASE Release
    <3>1. (down' \in {0, down} /\ (down' # 0 => releaseFailed'))
      BY <2>6 DEF Release, Taken
    <3>2. releaseFailed' \in BOOLEAN
      BY <2>0, <2>6 DEF Release, CommandTypeOK
    <3>3. (/\ taskPc' = "receive"
           /\ UNCHANGED <<queueReady, uiPc, accepted, queue, command,
                          lastPress>>)
      BY <2>6 DEF Release
    <3>4. (down' \in 0..MaxCommands)
      BY <2>0, <3>1 DEF CommandTypeOK
    <3>5. CommandTypeOK'
      BY <2>0, <3>2, <3>3, <3>4 DEF CommandTypeOK
    <3>6. (OrderInv /\ DownHasCause)'
      BY <2>0, <3>1, <3>3 DEF OrderInv, DownHasCause
    <3> QED BY <3>5, <3>6
  <2> QED BY <2>1, <2>2, <2>3, <2>4, <2>5, <2>6 DEF Send, Task
<1> QED BY <1>2, <1>3

(* A host that leaves lets the keys up, and the connection's steps touch   *)
(* nothing else of the commands.                                           *)
LEMMA ConnectionStep ==
  ASSUME IInv, Connection
  PROVE  IInv'
<1>1. (Radio!TypeOK /\ AirInv /\ LinkInv /\ AdvertisingInv)'
  BY RadioType, RadioAir, RadioLink, RadioAdvertising DEF IInv, Connection
<1>2. (/\ down' \in {down, 0}
       /\ UNCHANGED <<queueReady, uiPc, accepted, queue, taskPc, command,
                      lastPress, releaseFailed>>)
  BY DEF Connection
<1>3. CommandInv'
  BY <1>2, BoundAssumption DEF IInv, CommandInv, CommandTypeOK, OrderInv,
     DownHasCause
<1> QED BY <1>1, <1>3 DEF IInv

LEMMA NextIInv ==
  ASSUME IInv, [Next]_vars
  PROVE  IInv'
<1>1. CASE UNCHANGED vars
  <2>1. (Radio!TypeOK /\ AirInv /\ LinkInv /\ AdvertisingInv)'
    BY <1>1, RadioKept DEF vars, IInv
  <2>2. CommandInv'
    BY <1>1 DEF vars, cmdVars, IInv, CommandInv, CommandTypeOK, OrderInv,
       DownHasCause
  <2> QED BY <2>1, <2>2 DEF IInv
<1>2. CASE Send \/ Task
  BY <1>2, CommandStep DEF IInv
<1>3. CASE Connection
  BY <1>3, ConnectionStep
<1> QED BY <1>1, <1>2, <1>3 DEF Next

-----------------------------------------------------------------------------
THEOREM IInvariant == Spec => []IInv
BY InitIInv, NextIInv, PTL DEF Spec

(* Every variable stays in its type, and the queue in its length.          *)
THEOREM TypeCorrect == Spec => []TypeOK
<1>1. IInv => TypeOK
  BY DEF IInv, CommandInv, CommandTypeOK, TypeOK
<1> QED BY <1>1, IInvariant, PTL

(* A key that is down on the host is the one last pressed, and is being    *)
(* held or could not be released, whatever the connection does meanwhile.  *)
THEOREM KeysDownHaveCause == Spec => []DownHasCause
<1>1. IInv => DownHasCause
  BY DEF IInv, CommandInv
<1> QED BY <1>1, IInvariant, PTL

(* No command is pressed twice or out of order, for any length of the      *)
(* queue and any course of the connection.                                 *)
THEOREM PressesInOrder == Spec => PressedInOrder
<1>1. ASSUME IInv, [Next]_vars PROVE lastPress' # lastPress => lastPress' > lastPress
  <2>1. CASE Press
    BY <1>1, <2>1 DEF Press, IInv, CommandInv, OrderInv
  <2>2. CASE ~Press
    <3>1. lastPress' = lastPress
      BY <1>1, <2>2 DEF Next, Send, SendTests, SendQueues, Task, Receive,
         Check, Release, Connection, vars, cmdVars
    <3> QED BY <3>1
  <2> QED BY <2>1, <2>2
<1>2. ASSUME IInv, [Next]_vars PROVE [lastPress' # lastPress => lastPress' > lastPress]_vars
  BY <1>1, <1>2
<1> QED BY <1>2, IInvariant, PTL DEF Spec, PressedInOrder

(* Once the events are handled, the flag that lets commands out agrees     *)
(* with the radio, however many hosts came and went meanwhile.             *)
THEOREM FlagIsTrue == Spec => []ConnectedFollowsLink
<1>1. IInv => ConnectedFollowsLink
  <2> SUFFICES ASSUME IInv, Radio!Quiet PROVE connected = link
    BY DEF ConnectedFollowsLink, Radio!ConnectedFollowsLink
  <2>1. (btcQueue = <<>> /\ hidQueue = <<>>)
    BY DEF IInv, Radio!TypeOK, Radio!Quiet, Radio!InFlight
  <2>2. (Silent(btcQueue, BtcLink) /\ Silent(hidQueue, HidLink))
    BY <2>1 DEF Silent
  <2>3. connected <=> link
    BY <2>2 DEF IInv, LinkInv
  <2>4. (connected \in BOOLEAN /\ link \in BOOLEAN)
    BY DEF IInv, Radio!TypeOK
  <2> QED BY <2>3, <2>4
<1> QED BY <1>1, IInvariant, PTL

(* Once the events are handled, the flag says advertising exactly while    *)
(* the radio does, unless a start was refused since the last connection.   *)
THEOREM FlagFollowsRadio == Spec => []AdvertisingFollowsRadio
<1>1. IInv => AdvertisingFollowsRadio
  <2> SUFFICES ASSUME IInv, Radio!Quiet, ~link, ~refused
               PROVE  advertising = onAir
    BY DEF AdvertisingFollowsRadio, Radio!AdvertisingFollowsRadio
  <2>1. (/\ btcQueue = <<>> /\ hidQueue = <<>> /\ pc["hid"] = "idle"
         /\ advertising \in BOOLEAN /\ onAir \in BOOLEAN)
    BY DEF IInv, Radio!TypeOK, Radio!Quiet, Radio!InFlight, Radio!Callback
  <2>2. \A e : ~Waits(btcQueue, e) /\ ~Waits(hidQueue, e)
    BY <2>1 DEF Waits
  <2>3. advertising <=> onAir
    BY <2>1, <2>2 DEF IInv, AdvertisingInv, FlagHasAir, AirHasFlag
  <2> QED BY <2>1, <2>3
<1> QED BY <1>1, IInvariant, PTL

(* Once everything is handled and the start-up is over, a host is there,   *)
(* or can find the knob, unless the stack refused a start: no order of     *)
(* events and callbacks leaves the knob stranded.  It is what Reachable    *)
(* says, without the promise that things come to rest.                     *)
NeverStranded ==
  Radio!Quiet /\ booting = {} => onAir \/ link \/ refused

THEOREM RestIsReachable == Spec => []NeverStranded
<1>1. Init => ReachInv
  BY DEF Init, Radio!Init, ReachInv, StartInv, Coming
<1>2. IInv /\ ReachInv /\ [Next]_vars => ReachInv'
  <2> SUFFICES ASSUME IInv, ReachInv, [Next]_vars PROVE ReachInv'
    OBVIOUS
  <2>1. CASE UNCHANGED radioVars
    BY <2>1 DEF radioVars, ReachInv, StartInv, Coming, Asking
  <2>2. CASE Connection
    BY <2>2, RadioReach DEF IInv, Connection
  <2>3. Send \/ Task \/ UNCHANGED vars => UNCHANGED radioVars
    BY DEF Send, SendTests, SendQueues, Task, Receive, Check, Press, Release,
       vars
  <2> QED BY <2>1, <2>2, <2>3 DEF Next
<1>3. IInv /\ ReachInv => NeverStranded
  <2> SUFFICES ASSUME IInv, ReachInv, Radio!Quiet, booting = {}
               PROVE  onAir \/ link \/ refused
    BY DEF NeverStranded
  <2>1. (/\ btcQueue = <<>> /\ hidQueue = <<>>
         /\ pc["btc"] = "idle" /\ pc["hid"] = "idle")
    BY DEF IInv, Radio!TypeOK, Radio!Quiet, Radio!InFlight, Radio!Callback
  <2>2. \A e : ~Waits(btcQueue, e) /\ ~Waits(hidQueue, e)
    BY <2>1 DEF Waits
  <2> QED BY <2>1, <2>2 DEF ReachInv, Coming, Asking
<1> QED BY <1>1, <1>2, <1>3, IInvariant, PTL DEF Spec

(* Nothing is on the air before its data is configured and HID runs.       *)
THEOREM AirIsPrepared == Spec => []AirNeedsBoth
<1>1. IInv => AirNeedsBoth
  BY DEF IInv, AirInv, AirNeedsBoth, Radio!AirNeedsBoth
<1> QED BY <1>1, IInvariant, PTL
=============================================================================
