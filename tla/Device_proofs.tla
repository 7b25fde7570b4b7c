--------------------------- MODULE Device_proofs ----------------------------
(***************************************************************************)
(* Proofs about Device.  Its parts change different variables, so each has *)
(* an inductive invariant of its own: DisplayInv follows a flush from      *)
(* drawing to the interrupt after its last chunk, HapticInv a script from  *)
(* its call to its last access.  Spec states no fairness: what is proved   *)
(* holds of FairSpec too.                                                  *)
(***************************************************************************)
EXTENDS Device, Integers, TLAPS

(* Where the LVGL task is in a flush, and what it then knows.              *)
PhaseInv ==
  /\ ReadyMeansSent
  /\ lvglPc \in {"swap", "command", "chunk"} => flushing
  /\ lvglPc \in {"swap", "command"} => queue = <<>>
  /\ lvglPc \in {"draw", "swap", "command", "chunk", "return"} => areas > 0
  /\ lvglPc = "chunk" => chunksLeft > 0

(* Only the buffer of the last flush is being sent.                        *)
BufferInv ==
  \A i \in DOMAIN queue :
    queue[i].buffer = IF lvglPc \in {"chunk", "return"} THEN active
                                                        ELSE Other(active)

OrderInv ==
  /\ SentInPanelOrder
  /\ lvglPc \in {"command", "chunk", "return"} => order[active] = "panel"
  /\ lvglPc \in {"draw", "swap"} => order[active] = "lvgl"

(* The end of a flush is still to be reported by the last transaction, and *)
(* by no other.                                                            *)
LastInv ==
  /\ \A i \in DOMAIN queue : queue[i].last => i = Len(queue)
  /\ lvglPc = "chunk" => \A i \in DOMAIN queue : ~queue[i].last
  /\ flushing /\ lvglPc \notin {"swap", "command", "chunk"}
       => transferRefused \/ (queue # <<>> /\ queue[Len(queue)].last)

(* While chunks are queued, the descriptors held are those below the count. *)
DescInv ==
  /\ DescriptorsDistinct
  /\ lvglPc = "chunk" =>
       /\ \A i \in DOMAIN queue : queue[i].desc < inflight
       /\ \A i \in DOMAIN finished : finished[i] < inflight

DisplayInv ==
  DisplayTypeOK /\ PhaseInv /\ BufferInv /\ OrderInv /\ LastInv /\ DescInv

LEMMA InitDisplay ==
  ASSUME DisplayInit PROVE DisplayInv
<1>1. IoTypeOK
  BY DisplayAssumption DEF DisplayInit, IoTypeOK, Descriptor
<1>2. DisplayTypeOK
  <2>1. (order \in [Buffer -> {"lvgl", "panel"}])
    BY DEF DisplayInit
  <2>2. (areas \in 0..MaxAreas /\ chunksLeft \in 0..MaxChunks)
    BY DisplayAssumption DEF DisplayInit
  <2> QED BY <1>1, <2>1, <2>2 DEF DisplayInit, DisplayTypeOK, Buffer
<1>3. (PhaseInv /\ BufferInv /\ OrderInv /\ LastInv)
  BY DEF DisplayInit, PhaseInv, BufferInv, OrderInv, LastInv, ReadyMeansSent,
         SentInPanelOrder
<1>4. DescInv
  BY DEF DisplayInit, DescInv, DescriptorsDistinct
<1> QED BY <1>2, <1>3, <1>4 DEF DisplayInv

LEMMA ResetDisplay ==
  ASSUME DisplayReset PROVE DisplayInv'
<1>1. IoTypeOK'
  BY DisplayAssumption DEF DisplayReset, IoTypeOK, Descriptor
<1>2. DisplayTypeOK'
  <2>1. (order \in [Buffer -> {"lvgl", "panel"}])'
    BY DEF DisplayReset
  <2>2. (areas \in 0..MaxAreas /\ chunksLeft \in 0..MaxChunks)'
    BY DisplayAssumption DEF DisplayReset
  <2> QED BY <1>1, <2>1, <2>2 DEF DisplayReset, DisplayTypeOK, Buffer
<1>3. (PhaseInv /\ BufferInv /\ OrderInv /\ LastInv)'
  BY DEF DisplayReset, PhaseInv, BufferInv, OrderInv, LastInv, ReadyMeansSent,
         SentInPanelOrder
<1>4. DescInv'
  BY DEF DisplayReset, DescInv, DescriptorsDistinct
<1> QED BY <1>2, <1>3, <1>4 DEF DisplayInv

(* Steps that leave the transactions alone.                                *)
LEMMA StepOfLvgl ==
  ASSUME DisplayInv,
         \/ HandlerBegins \/ HandlerEnds \/ InputRead \/ CallbacksEnd
         \/ Draw \/ SwapBytes \/ AppLocks \/ AppUnlocks
  PROVE  DisplayInv'
<1> USE DEF DisplayInv
<1>1. CASE HandlerBegins
  <2>1. IoTypeOK' /\ UNCHANGED io
    BY <1>1 DEF HandlerBegins, Lock, DisplayTypeOK, IoTypeOK, io
  <2>2. DisplayTypeOK' /\ PhaseInv'
    BY <1>1, <2>1, DisplayAssumption DEF HandlerBegins, Lock, DisplayTypeOK, PhaseInv,
       ReadyMeansSent, lvgl, io, Buffer, Other
  <2>3. BufferInv' /\ OrderInv'
    BY <1>1, <2>1 DEF HandlerBegins, Lock, DisplayTypeOK, PhaseInv, BufferInv,
       OrderInv, SentInPanelOrder, ReadyMeansSent, lvgl, io, Buffer, Other
  <2>4. LastInv'
    BY <1>1, <2>1 DEF HandlerBegins, Lock, PhaseInv, LastInv, ReadyMeansSent, io
  <2>5. DescInv'
    BY <1>1, <2>1 DEF HandlerBegins, Lock, DescInv, DescriptorsDistinct, PoolHasNext, io
  <2> QED BY <2>2, <2>3, <2>4, <2>5
<1>2. CASE HandlerEnds
  <2>1. IoTypeOK' /\ UNCHANGED io
    BY <1>2 DEF HandlerEnds, Unlock, Goto, DisplayTypeOK, IoTypeOK, io
  <2>2. DisplayTypeOK' /\ PhaseInv'
    BY <1>2, <2>1, DisplayAssumption DEF HandlerEnds, Unlock, Goto, DisplayTypeOK, PhaseInv,
       ReadyMeansSent, lvgl, io, Buffer, Other
  <2>3. BufferInv' /\ OrderInv'
    BY <1>2, <2>1 DEF HandlerEnds, Unlock, Goto, DisplayTypeOK, PhaseInv, BufferInv,
       OrderInv, SentInPanelOrder, ReadyMeansSent, lvgl, io, Buffer, Other
  <2>4. LastInv'
    BY <1>2, <2>1 DEF HandlerEnds, Unlock, Goto, PhaseInv, LastInv, ReadyMeansSent, io
  <2>5. DescInv'
    BY <1>2, <2>1 DEF HandlerEnds, Unlock, Goto, DescInv, DescriptorsDistinct, PoolHasNext, io
  <2> QED BY <2>2, <2>3, <2>4, <2>5
<1>3. CASE InputRead \/ CallbacksEnd
  <2>1. IoTypeOK' /\ UNCHANGED io
    BY <1>3 DEF InputRead, CallbacksEnd, Goto, DisplayTypeOK, IoTypeOK, io
  <2>2. DisplayTypeOK' /\ PhaseInv'
    BY <1>3, <2>1, DisplayAssumption DEF InputRead, CallbacksEnd, Goto, DisplayTypeOK, PhaseInv,
       ReadyMeansSent, lvgl, io, Buffer, Other
  <2>3. BufferInv' /\ OrderInv'
    BY <1>3, <2>1 DEF InputRead, CallbacksEnd, Goto, DisplayTypeOK, PhaseInv, BufferInv,
       OrderInv, SentInPanelOrder, ReadyMeansSent, lvgl, io, Buffer, Other
  <2>4. LastInv'
    BY <1>3, <2>1 DEF InputRead, CallbacksEnd, Goto, PhaseInv, LastInv, ReadyMeansSent, io
  <2>5. DescInv'
    BY <1>3, <2>1 DEF InputRead, CallbacksEnd, Goto, DescInv, DescriptorsDistinct, PoolHasNext, io
  <2> QED BY <2>2, <2>3, <2>4, <2>5
<1>4. CASE DrawBegins
  <2>1. IoTypeOK' /\ UNCHANGED io
    BY <1>4 DEF DrawBegins, Goto, DisplayTypeOK, IoTypeOK, io
  <2>2. DisplayTypeOK' /\ PhaseInv'
    BY <1>4, <2>1, DisplayAssumption DEF DrawBegins, Goto, DisplayTypeOK, PhaseInv,
       ReadyMeansSent, lvgl, io, Buffer, Other
  <2>3. BufferInv' /\ OrderInv'
    BY <1>4, <2>1 DEF DrawBegins, Goto, DisplayTypeOK, PhaseInv, BufferInv,
       OrderInv, SentInPanelOrder, ReadyMeansSent, lvgl, io, Buffer, Other
  <2>4. LastInv'
    BY <1>4, <2>1 DEF DrawBegins, Goto, PhaseInv, LastInv, ReadyMeansSent, io
  <2>5. DescInv'
    BY <1>4, <2>1 DEF DrawBegins, Goto, DescInv, DescriptorsDistinct, PoolHasNext, io
  <2> QED BY <2>2, <2>3, <2>4, <2>5
<1>5. CASE FlushBegins
  <2>1. IoTypeOK' /\ UNCHANGED io
    BY <1>5 DEF FlushBegins, Goto, DisplayTypeOK, IoTypeOK, io
  <2>2. DisplayTypeOK' /\ PhaseInv'
    BY <1>5, <2>1, DisplayAssumption DEF FlushBegins, Goto, DisplayTypeOK, PhaseInv,
       ReadyMeansSent, lvgl, io, Buffer, Other
  <2>3. BufferInv' /\ OrderInv'
    BY <1>5, <2>1 DEF FlushBegins, Goto, DisplayTypeOK, PhaseInv, BufferInv,
       OrderInv, SentInPanelOrder, ReadyMeansSent, lvgl, io, Buffer, Other
  <2>4. LastInv'
    BY <1>5, <2>1 DEF FlushBegins, Goto, PhaseInv, LastInv, ReadyMeansSent, io
  <2>5. DescInv'
    BY <1>5, <2>1 DEF FlushBegins, Goto, DescInv, DescriptorsDistinct, PoolHasNext, io
  <2> QED BY <2>2, <2>3, <2>4, <2>5
<1>6. CASE FlushReturns
  <2>1. IoTypeOK' /\ UNCHANGED io
    BY <1>6 DEF FlushReturns, Goto, DisplayTypeOK, IoTypeOK, io
  <2>2. DisplayTypeOK' /\ PhaseInv'
    BY <1>6, <2>1, DisplayAssumption DEF FlushReturns, Goto, DisplayTypeOK, PhaseInv,
       ReadyMeansSent, lvgl, io, Buffer, Other
  <2>3. BufferInv' /\ OrderInv'
    BY <1>6, <2>1 DEF FlushReturns, Goto, DisplayTypeOK, PhaseInv, BufferInv,
       OrderInv, SentInPanelOrder, ReadyMeansSent, lvgl, io, Buffer, Other
  <2>4. LastInv'
    BY <1>6, <2>1 DEF FlushReturns, Goto, PhaseInv, LastInv, ReadyMeansSent, io
  <2>5. DescInv'
    BY <1>6, <2>1 DEF FlushReturns, Goto, DescInv, DescriptorsDistinct, PoolHasNext, io
  <2> QED BY <2>2, <2>3, <2>4, <2>5
<1>7. CASE SwapBytes
  <2>1. IoTypeOK' /\ UNCHANGED io
    BY <1>7 DEF SwapBytes, Goto, DisplayTypeOK, IoTypeOK, io
  <2>2. DisplayTypeOK' /\ PhaseInv'
    BY <1>7, <2>1, DisplayAssumption DEF SwapBytes, Goto, DisplayTypeOK, PhaseInv,
       ReadyMeansSent, lvgl, io, Buffer, Other
  <2>3. BufferInv' /\ OrderInv'
    BY <1>7, <2>1 DEF SwapBytes, Goto, DisplayTypeOK, PhaseInv, BufferInv,
       OrderInv, SentInPanelOrder, ReadyMeansSent, lvgl, io, Buffer, Other
  <2>4. LastInv'
    BY <1>7, <2>1 DEF SwapBytes, Goto, PhaseInv, LastInv, ReadyMeansSent, io
  <2>5. DescInv'
    BY <1>7, <2>1 DEF SwapBytes, Goto, DescInv, DescriptorsDistinct, PoolHasNext, io
  <2> QED BY <2>2, <2>3, <2>4, <2>5
<1>8. CASE AppLocks \/ AppUnlocks
  <2>1. IoTypeOK' /\ UNCHANGED io
    BY <1>8 DEF AppLocks, AppUnlocks, Lock, Unlock, DisplayTypeOK, IoTypeOK, io
  <2>2. DisplayTypeOK' /\ PhaseInv'
    BY <1>8, <2>1, DisplayAssumption DEF AppLocks, AppUnlocks, Lock, Unlock, DisplayTypeOK, PhaseInv,
       ReadyMeansSent, lvgl, io, Buffer, Other
  <2>3. BufferInv' /\ OrderInv'
    BY <1>8, <2>1 DEF AppLocks, AppUnlocks, Lock, Unlock, DisplayTypeOK, PhaseInv, BufferInv,
       OrderInv, SentInPanelOrder, ReadyMeansSent, lvgl, io, Buffer, Other
  <2>4. LastInv'
    BY <1>8, <2>1 DEF AppLocks, AppUnlocks, Lock, Unlock, PhaseInv, LastInv, ReadyMeansSent, io
  <2>5. DescInv'
    BY <1>8, <2>1 DEF AppLocks, AppUnlocks, Lock, Unlock, DescInv, DescriptorsDistinct, PoolHasNext, io
  <2> QED BY <2>2, <2>3, <2>4, <2>5
<1> QED BY <1>1, <1>2, <1>3, <1>4, <1>5, <1>6, <1>7, <1>8 DEF Draw

LEMMA RestOf ==
  ASSUME NEW s, NEW S, s \in Seq(S), NEW k \in 0..Len(s)
  PROVE  LET rest == SubSeq(s, k + 1, Len(s))
         IN  /\ rest \in Seq(S) /\ Len(rest) = Len(s) - k
             /\ DOMAIN rest = 1..(Len(s) - k)
             /\ \A i \in 1..(Len(s) - k) : rest[i] = s[i + k]
  OBVIOUS

(* Of the finished transactions the first k are recycled; none is queued.  *)
LEMMA StepOfRecycle ==
  ASSUME IoTypeOK, DescriptorsDistinct, queue = <<>>, UNCHANGED queue,
         NEW k \in 0..Len(finished), RecycleFirst(k)
  PROVE  /\ IoTypeOK'
         /\ inflight' = Len(finished') /\ Len(finished') = Len(finished) - k
         /\ \A i, j \in DOMAIN finished' : finished'[i] = finished'[j] => i = j
<1>1. /\ inflight = Len(finished) /\ Len(finished) \in Nat
      /\ inflight \in 0..QueueDepth /\ DOMAIN finished = 1..Len(finished)
      /\ \A i, j \in DOMAIN finished : finished[i] = finished[j] => i = j
  BY DEF IoTypeOK, DescriptorsDistinct
<1>2. /\ finished' \in Seq(Descriptor) /\ Len(finished') = Len(finished) - k
      /\ DOMAIN finished' = 1..(Len(finished) - k)
      /\ \A i \in 1..(Len(finished) - k) : finished'[i] = finished[i + k]
  BY RestOf DEF RecycleFirst, IoTypeOK
<1>3. inflight' = Len(finished') /\ inflight' \in 0..QueueDepth
  BY <1>1, <1>2, DisplayAssumption DEF RecycleFirst
<1>4. ASSUME NEW i \in DOMAIN finished', NEW j \in DOMAIN finished',
             finished'[i] = finished'[j]
      PROVE  i = j
  <2>1. i + k \in DOMAIN finished /\ j + k \in DOMAIN finished
    BY <1>1, <1>2
  <2>2. i + k = j + k
    BY <1>1, <1>2, <1>4, <2>1
  <2> QED BY <1>2, <2>2
<1> QED BY <1>2, <1>3, <1>4 DEF IoTypeOK

LEMMA StepOfCommand ==
  ASSUME DisplayInv, SendCommand PROVE DisplayInv'
<1> USE DEF DisplayInv, SendCommand, Accept, Refuse
<1>1. queue = <<>> /\ UNCHANGED queue
  BY DEF PhaseInv
<1>2. PICK k \in 0..Len(finished) :
        /\ RecycleFirst(k)
        /\ \/ lvglPc' = "chunk" /\ k = Len(finished)
           \/ lvglPc' = "return"
  BY DEF DisplayTypeOK, IoTypeOK
<1>3. /\ IoTypeOK'
      /\ inflight' = Len(finished') /\ Len(finished') = Len(finished) - k
      /\ \A i, j \in DOMAIN finished' : finished'[i] = finished'[j] => i = j
  BY <1>1, <1>2, StepOfRecycle DEF DisplayTypeOK, DescInv
<1>4. DisplayTypeOK' /\ PhaseInv'
  <2>1. chunksLeft' \in 0..MaxChunks /\ (lvglPc' = "chunk" => chunksLeft' > 0)
    BY DisplayAssumption
  <2>2. lvglPc' \in {"chunk", "return"} /\ transferRefused' \in BOOLEAN
    BY DEF DisplayTypeOK
  <2> QED BY <1>1, <1>3, <2>1, <2>2 DEF DisplayTypeOK, PhaseInv,
             ReadyMeansSent, lvgl
<1>5. BufferInv' /\ OrderInv'
  BY <1>1 DEF BufferInv, OrderInv, SentInPanelOrder, lvgl
<1>6. LastInv'
  BY <1>1 DEF LastInv, PhaseInv
<1>7. DescInv'
  <2>1. CASE lvglPc' = "return"
    BY <1>1, <1>3, <2>1 DEF DescInv, DescriptorsDistinct
  <2>2. CASE lvglPc' = "chunk" /\ k = Len(finished)
    <3>1. /\ inflight' = 0 /\ DOMAIN finished' = {}
          /\ DOMAIN queue' = {} /\ Len(queue') = 0
      BY <1>1, <1>3, <2>2 DEF IoTypeOK
    <3> QED BY <1>3, <3>1 DEF DescInv, DescriptorsDistinct
  <2> QED BY <1>2, <2>1, <2>2
<1> QED BY <1>4, <1>5, <1>6, <1>7

-----------------------------------------------------------------------------
(* A chunk is queued, or refused.                                          *)
LEMMA AppendedTo ==
  ASSUME NEW s, NEW S, s \in Seq(S), NEW e \in S
  PROVE  /\ Append(s, e) \in Seq(S)
         /\ DOMAIN Append(s, e) = 1..(Len(s) + 1)
         /\ Len(Append(s, e)) = Len(s) + 1
         /\ DOMAIN s = 1..Len(s) /\ Len(s) \in Nat
         /\ \A i \in 1..Len(s) : Append(s, e)[i] = s[i]
         /\ Append(s, e)[Len(s) + 1] = e
  OBVIOUS

LEMMA TailOf ==
  ASSUME NEW s, NEW S, s \in Seq(S), s # <<>>
  PROVE  /\ Tail(s) \in Seq(S) /\ Head(s) \in S /\ Head(s) = s[1]
         /\ DOMAIN Tail(s) = 1..(Len(s) - 1)
         /\ Len(Tail(s)) = Len(s) - 1
         /\ DOMAIN s = 1..Len(s) /\ Len(s) \in Nat \ {0}
         /\ \A i \in 1..(Len(s) - 1) : Tail(s)[i] = s[i + 1]
  OBVIOUS

LEMMA StepOfChunk ==
  ASSUME DisplayInv, lvglPc = "chunk",
         NEW d \in Descriptor, NEW count \in 0..(QueueDepth - 1),
         QueueChunk(d, count), finished' \in Seq(Descriptor),
         UNCHANGED <<mux, lvgl, order, flushing>>
  PROVE  (DisplayTypeOK /\ PhaseInv /\ BufferInv /\ OrderInv /\ LastInv)'
<1> USE DEF DisplayInv
<1>1. flushing /\ UNCHANGED <<mux, areas, active, order, flushing>>
  BY DEF PhaseInv, lvgl
<1>2. CASE Refuse /\ inflight' = count /\ UNCHANGED queue
  <2> USE <1>1, <1>2 DEF Refuse
  <2>1. inflight' \in 0..QueueDepth /\ 0 \in 0..MaxChunks
    BY DisplayAssumption
  <2>2. DisplayTypeOK'
    BY <2>1 DEF DisplayTypeOK, IoTypeOK
  <2>3. (PhaseInv /\ BufferInv /\ OrderInv /\ LastInv)'
    BY DEF PhaseInv, BufferInv, OrderInv, LastInv, ReadyMeansSent,
           SentInPanelOrder
  <2> QED BY <2>2, <2>3
<1>3. CASE /\ Accept(IF chunksLeft = 1 THEN "return" ELSE "chunk")
           /\ queue'      = Append(queue, Chunk(d))
           /\ inflight'   = count + 1
           /\ chunksLeft' = chunksLeft - 1
  <2> USE <1>1, <1>3
  <2> DEFINE n == Len(queue)
  <2>1. /\ Chunk(d) \in Transaction
        /\ Chunk(d).buffer = active
        /\ Chunk(d).last <=> chunksLeft = 1
    BY DEF Chunk, Transaction, DisplayTypeOK
  <2>2. /\ queue' \in Seq(Transaction) /\ DOMAIN queue' = 1..(n + 1)
        /\ Len(queue') = n + 1 /\ n \in Nat /\ DOMAIN queue = 1..n
        /\ \A i \in 1..n : queue'[i] = queue[i]
        /\ queue'[n + 1] = Chunk(d)
    BY <2>1, AppendedTo DEF DisplayTypeOK, IoTypeOK
  <2> HIDE DEF n
  <2>3. /\ inflight' \in 0..QueueDepth /\ chunksLeft' \in 0..MaxChunks
        /\ lvglPc' \in {"chunk", "return"} /\ UNCHANGED transferRefused
        /\ (lvglPc' = "chunk" <=> chunksLeft # 1)
    BY DisplayAssumption DEF DisplayTypeOK, PhaseInv, Accept
  <2>4. DisplayTypeOK'
    BY <2>2, <2>3 DEF DisplayTypeOK, IoTypeOK
  <2>5. PhaseInv'
    BY <2>3 DEF PhaseInv, ReadyMeansSent, DisplayTypeOK
  <2>6. BufferInv'
    BY <2>1, <2>2, <2>3 DEF BufferInv
  <2>7. OrderInv'
    BY <2>1, <2>2, <2>3 DEF OrderInv, SentInPanelOrder
  <2>8. /\ \A i \in 1..n : ~queue'[i].last
        /\ queue'[n + 1].last <=> lvglPc' = "return"
    BY <2>1, <2>2, <2>3 DEF LastInv
  <2>9. LastInv'
    BY <2>2, <2>3, <2>8 DEF LastInv
  <2> QED BY <2>4, <2>5, <2>6, <2>7, <2>9
<1> QED BY <1>2, <1>3 DEF QueueChunk

LEMMA IoFacts ==
  ASSUME IoTypeOK
  PROVE  /\ inflight \in 0..QueueDepth /\ inflight \in Nat
         /\ Len(queue) \in Nat /\ DOMAIN queue = 1..Len(queue)
         /\ Len(finished) \in Nat /\ DOMAIN finished = 1..Len(finished)
         /\ \A i \in DOMAIN queue : queue[i].desc \in 0..(QueueDepth - 1)
         /\ \A i \in DOMAIN finished : finished[i] \in 0..(QueueDepth - 1)
<1>1. inflight \in 0..QueueDepth /\ inflight \in Nat
  BY DisplayAssumption DEF IoTypeOK
<1>2. \A i \in DOMAIN queue : queue[i] \in Transaction
  BY DEF IoTypeOK
<1>3. \A i \in DOMAIN queue : queue[i].desc \in 0..(QueueDepth - 1)
  BY <1>2 DEF Transaction, Descriptor
<1>4. \A i \in DOMAIN finished : finished[i] \in Descriptor
  BY DEF IoTypeOK
<1> QED BY <1>1, <1>3, <1>4 DEF IoTypeOK, Descriptor

LEMMA StepOfFresh ==
  ASSUME DisplayInv, QueueFresh PROVE DisplayInv'
<1>1. IoTypeOK /\ DescInv /\ lvglPc = "chunk" /\ UNCHANGED finished
  BY DEF DisplayInv, DisplayTypeOK, QueueFresh
<1>2. inflight \in Descriptor
  BY <1>1, IoFacts, DisplayAssumption DEF QueueFresh, Descriptor, PoolHasNext
<1>3. (DisplayTypeOK /\ PhaseInv /\ BufferInv /\ OrderInv /\ LastInv)'
  BY <1>1, <1>2, StepOfChunk DEF QueueFresh, IoTypeOK, Descriptor
<1>4. ASSUME Refuse, UNCHANGED <<inflight, queue, finished>> PROVE DescInv'
  BY <1>1, <1>4 DEF DescInv, DescriptorsDistinct, Refuse
<1>5. ASSUME inflight' = inflight + 1, queue' = Append(queue, Chunk(inflight))
      PROVE  DescInv'
  <2> DEFINE n == Len(queue)
  <2>1. Chunk(inflight) \in Transaction /\ Chunk(inflight).desc = inflight
    BY <1>2 DEF Chunk, Transaction, DisplayInv, DisplayTypeOK
  <2>2. /\ DOMAIN queue' = 1..(n + 1) /\ Len(queue') = n + 1 /\ n \in Nat
        /\ \A i \in 1..n : queue'[i] = queue[i] /\ i \in DOMAIN queue
        /\ queue'[n + 1].desc = inflight
    BY <1>1, <1>5, <2>1, AppendedTo DEF IoTypeOK
  <2>3. /\ \A i \in 1..n : queue[i].desc < inflight /\ queue[i].desc \in Int
        /\ \A i \in DOMAIN finished :
             finished[i] < inflight /\ finished[i] \in Int
        /\ inflight \in Nat /\ Len(finished) \in Nat
    BY <1>1, <2>2, IoFacts DEF DescInv
  <2> HIDE DEF n
  <2>4. /\ \A i \in DOMAIN queue' : queue'[i].desc < inflight + 1
        /\ \A i \in DOMAIN finished' : finished'[i] < inflight + 1
    BY <1>1, <2>2, <2>3
  <2>5. \A i, j \in DOMAIN queue' : queue'[i].desc = queue'[j].desc => i = j
    <3>1. \A i \in 1..n : queue'[i].desc < queue'[n + 1].desc
      BY <2>2, <2>3
    <3>2. \A i, j \in 1..n : queue'[i].desc = queue'[j].desc => i = j
      BY <1>1, <2>2 DEF DescInv, DescriptorsDistinct
    <3>3. DOMAIN queue' = 1..n \cup {n + 1}
      BY <2>2
    <3>4. \A i \in 1..n : queue'[i].desc # queue'[n + 1].desc
      BY <2>2, <2>3, <3>1
    <3> QED BY <3>2, <3>3, <3>4
  <2>6. \A i \in DOMAIN queue', j \in DOMAIN finished' :
          queue'[i].desc # finished'[j]
    BY <1>1, <2>2, <2>3 DEF DescInv, DescriptorsDistinct
  <2>7. inflight' = Len(queue') + Len(finished')
    BY <1>1, <1>5, <2>2, <2>3 DEF DescInv, DescriptorsDistinct, n
  <2>8. /\ \A i \in DOMAIN queue' : queue'[i].desc # inflight'
        /\ \A i \in DOMAIN finished' : finished'[i] # inflight'
    BY <1>1, <1>5, <2>2, <2>3, <2>4
  <2> QED BY <1>1, <1>5, <2>4, <2>5, <2>6, <2>7, <2>8
          DEF DescInv, DescriptorsDistinct
<1> QED BY <1>1, <1>3, <1>4, <1>5 DEF QueueFresh, QueueChunk, DisplayInv

LEMMA StepOfRecycled ==
  ASSUME DisplayInv, QueueRecycled PROVE DisplayInv'
<1> DEFINE d == Head(finished)
<1>1. /\ IoTypeOK /\ DescInv /\ lvglPc = "chunk" /\ ~PoolHasNext
      /\ finished # <<>> /\ finished' = Tail(finished)
  BY DEF DisplayInv, DisplayTypeOK, QueueRecycled
<1>2. /\ finished' \in Seq(Descriptor) /\ d \in Descriptor /\ d = finished[1]
      /\ DOMAIN finished' = 1..(Len(finished) - 1)
      /\ Len(finished') = Len(finished) - 1
      /\ DOMAIN finished = 1..Len(finished) /\ Len(finished) \in Nat \ {0}
      /\ \A i \in 1..(Len(finished) - 1) : finished'[i] = finished[i + 1]
  BY <1>1, TailOf DEF IoTypeOK
<1>3. inflight = QueueDepth /\ inflight - 1 \in 0..(QueueDepth - 1)
  BY <1>1, IoFacts, DisplayAssumption DEF PoolHasNext
<1> HIDE DEF d
<1>4. (DisplayTypeOK /\ PhaseInv /\ BufferInv /\ OrderInv /\ LastInv)'
  BY <1>1, <1>2, <1>3, StepOfChunk DEF QueueRecycled, d
<1>5. /\ \A i, j \in DOMAIN finished' : finished'[i] = finished'[j] => i = j
      /\ \A i \in DOMAIN finished' : finished'[i] # d
      /\ \A i \in DOMAIN queue : queue[i].desc # d
      /\ \A i \in DOMAIN queue, j \in DOMAIN finished' :
           queue[i].desc # finished'[j]
  BY <1>1, <1>2 DEF DescInv, DescriptorsDistinct
<1>6. inflight - 1 = Len(queue) + Len(finished')
  BY <1>1, <1>2, <1>3, IoFacts DEF DescInv, DescriptorsDistinct
<1>7. ASSUME Refuse, inflight' = inflight - 1, UNCHANGED queue PROVE DescInv'
  BY <1>1, <1>5, <1>6, <1>7 DEF DescInv, DescriptorsDistinct, Refuse
<1>8. ASSUME inflight' = inflight - 1 + 1, queue' = Append(queue, Chunk(d))
      PROVE  DescInv'
  <2> DEFINE n == Len(queue)
  <2>1. Chunk(d) \in Transaction /\ Chunk(d).desc = d
    BY <1>2 DEF Chunk, Transaction, DisplayInv, DisplayTypeOK
  <2>2. /\ DOMAIN queue' = 1..(n + 1) /\ Len(queue') = n + 1 /\ n \in Nat
        /\ \A i \in 1..n : queue'[i] = queue[i] /\ i \in DOMAIN queue
        /\ queue'[n + 1].desc = d
    BY <1>1, <1>8, <2>1, AppendedTo DEF IoTypeOK
  <2>3. inflight' = inflight /\ inflight \in Nat /\ ~PoolHasNext'
    BY <1>3, <1>8, DisplayAssumption DEF PoolHasNext
  <2>4. /\ \A i \in 1..n : queue[i].desc < inflight
        /\ \A i \in DOMAIN finished' : finished'[i] < inflight
        /\ d < inflight
    BY <1>1, <1>2, <1>3, <2>2, IoFacts DEF DescInv
  <2> HIDE DEF n
  <2>5. DOMAIN queue' = 1..n \cup {n + 1}
    BY <2>2
  <2>6. /\ \A i \in DOMAIN queue' : queue'[i].desc < inflight'
        /\ \A i \in DOMAIN finished' : finished'[i] < inflight'
    BY <2>2, <2>3, <2>4, <2>5
  <2>7. \A i, j \in DOMAIN queue' : queue'[i].desc = queue'[j].desc => i = j
    <3>1. \A i, j \in 1..n : queue'[i].desc = queue'[j].desc => i = j
      BY <1>1, <2>2 DEF DescInv, DescriptorsDistinct
    <3>2. \A i \in 1..n : queue'[i].desc # queue'[n + 1].desc
      BY <1>5, <2>2
    <3> QED BY <2>5, <3>1, <3>2
  <2>8. \A i \in DOMAIN queue', j \in DOMAIN finished' :
          queue'[i].desc # finished'[j]
    BY <1>5, <2>2, <2>5
  <2>9. inflight' = Len(queue') + Len(finished')
    BY <1>2, <1>6, <2>2, <2>3 DEF n
  <2> QED BY <1>5, <2>3, <2>6, <2>7, <2>8, <2>9
          DEF DescInv, DescriptorsDistinct
<1> QED BY <1>4, <1>7, <1>8 DEF QueueRecycled, QueueChunk, DisplayInv, d

-----------------------------------------------------------------------------
(* The oldest transaction ends.                                            *)
LEMMA StepOfTransfer ==
  ASSUME DisplayInv, TransferDone PROVE DisplayInv'
<1> DEFINE n == Len(queue)
           d == Head(queue).desc
<1>1. /\ IoTypeOK /\ queue # <<>>
      /\ queue' = Tail(queue) /\ finished' = Append(finished, d)
      /\ flushing' = (flushing /\ ~Head(queue).last)
      /\ UNCHANGED <<mux, lvglPc, areas, active, order, chunksLeft, inflight,
                     transferRefused>>
  BY DEF DisplayInv, DisplayTypeOK, TransferDone, lvgl
<1>2. /\ queue' \in Seq(Transaction) /\ Head(queue) \in Transaction
      /\ Head(queue) = queue[1]
      /\ DOMAIN queue' = 1..(n - 1) /\ Len(queue') = n - 1
      /\ DOMAIN queue = 1..n /\ n \in Nat \ {0}
      /\ \A i \in 1..(n - 1) : queue'[i] = queue[i + 1]
  BY <1>1, TailOf DEF IoTypeOK
<1>3. d \in Descriptor
  BY <1>2 DEF Transaction
<1>4. /\ finished' \in Seq(Descriptor)
      /\ DOMAIN finished' = 1..(Len(finished) + 1)
      /\ Len(finished') = Len(finished) + 1
      /\ DOMAIN finished = 1..Len(finished) /\ Len(finished) \in Nat
      /\ \A i \in 1..Len(finished) : finished'[i] = finished[i]
      /\ finished'[Len(finished) + 1] = d
  BY <1>1, <1>3, AppendedTo DEF IoTypeOK
<1> HIDE DEF n, d
<1>5. DisplayTypeOK'
  BY <1>1, <1>2, <1>4 DEF DisplayInv, DisplayTypeOK, IoTypeOK
<1>6. /\ \A i \in 1..n : queue[i].last => i = n
      /\ lvglPc \notin {"swap", "command"}
      /\ lvglPc = "chunk" => ~queue[1].last
      /\ flushing
  <2>1. flushing /\ lvglPc \notin {"swap", "command"}
    BY <1>1 DEF DisplayInv, PhaseInv, ReadyMeansSent
  <2>2. 1 \in DOMAIN queue
    BY <1>2
  <2> QED BY <1>2, <2>1, <2>2 DEF DisplayInv, LastInv, n
<1>7. ~flushing' => queue[1].last /\ n = 1
  <2>1. queue[1].last \in BOOLEAN /\ 1 \in 1..n
    BY <1>2 DEF Transaction
  <2>2. ~flushing' => queue[1].last
    BY <1>1, <1>2, <1>6, <2>1
  <2> QED BY <1>6, <2>1, <2>2
<1>8. ~flushing' => queue' = <<>>
  BY <1>2, <1>7
<1>9. PhaseInv'
  BY <1>1, <1>6, <1>7, <1>8 DEF DisplayInv, PhaseInv, ReadyMeansSent
<1>10. BufferInv' /\ OrderInv'
  BY <1>1, <1>2 DEF DisplayInv, BufferInv, OrderInv, SentInPanelOrder
<1>11. LastInv'
  <2>1. /\ \A i \in DOMAIN queue' : queue'[i].last => i = Len(queue')
        /\ lvglPc' = "chunk" => \A i \in DOMAIN queue' : ~queue'[i].last
    BY <1>1, <1>2, <1>6 DEF DisplayInv, LastInv
  <2>2. ASSUME flushing', lvglPc \notin {"swap", "command", "chunk"},
               ~transferRefused
        PROVE  queue' # <<>> /\ queue'[Len(queue')].last
    <3>1. queue[n].last /\ ~queue[1].last
      BY <1>1, <1>2, <2>2 DEF DisplayInv, LastInv, n
    <3>2. n - 1 \in 1..(n - 1)
      BY <1>2, <3>1
    <3> QED BY <1>2, <3>1, <3>2
  <2> QED BY <1>1, <2>1, <2>2 DEF LastInv
<1>12. DescInv'
  <2>1. /\ \A i, j \in 1..n : queue[i].desc = queue[j].desc => i = j
        /\ \A i, j \in 1..Len(finished) : finished[i] = finished[j] => i = j
        /\ \A i \in 1..n, j \in 1..Len(finished) : queue[i].desc # finished[j]
        /\ inflight = n + Len(finished)
    BY <1>2, <1>4 DEF DisplayInv, DescInv, DescriptorsDistinct, n
  <2>2. d = queue[1].desc /\ 1 \in 1..n
    BY <1>2 DEF d
  <2>3. DOMAIN finished' = 1..Len(finished) \cup {Len(finished) + 1}
    BY <1>4
  <2>4. \A i \in 1..(n - 1) : i + 1 \in 1..n /\ i + 1 # 1
    BY <1>2
  <2>5. \A i, j \in DOMAIN queue' : queue'[i].desc = queue'[j].desc => i = j
    <3> SUFFICES ASSUME NEW i \in 1..(n - 1), NEW j \in 1..(n - 1),
                        queue[i + 1].desc = queue[j + 1].desc
                 PROVE  i = j
      BY <1>2
    <3>1. i + 1 = j + 1
      BY <2>1, <2>4
    <3> QED BY <1>2, <3>1
  <2>6. \A i, j \in DOMAIN finished' : finished'[i] = finished'[j] => i = j
    BY <1>4, <2>1, <2>2, <2>3
  <2>7. \A i \in DOMAIN queue' : queue'[i].desc # d
    BY <1>2, <2>1, <2>2, <2>4
  <2>8. \A i \in DOMAIN queue', j \in DOMAIN finished' :
          queue'[i].desc # finished'[j]
    <3>1. \A i \in DOMAIN queue', j \in 1..Len(finished) :
            queue'[i].desc # finished'[j]
      BY <1>2, <1>4, <2>1, <2>4
    <3> QED BY <1>4, <2>3, <2>7, <3>1
  <2>9. inflight' = Len(queue') + Len(finished')
    <3>1. Len(queue') = n - 1 /\ Len(finished') = Len(finished) + 1
      BY <1>2, <1>4
    <3>2. inflight' = n + Len(finished)
      BY <1>1, <2>1
    <3> QED BY <1>2, <1>4, <3>1, <3>2
  <2>10. ASSUME lvglPc = "chunk"
         PROVE  /\ \A i \in DOMAIN queue' : queue'[i].desc < inflight
                /\ \A i \in DOMAIN finished' : finished'[i] < inflight
    <3>1. /\ \A i \in 1..n : queue[i].desc < inflight
          /\ \A i \in 1..Len(finished) : finished[i] < inflight
      BY <1>2, <1>4, <2>10 DEF DisplayInv, DescInv
    <3> QED BY <1>2, <1>4, <2>2, <2>3, <2>4, <3>1
  <2>11. ASSUME lvglPc = "chunk"
         PROVE  /\ \A i \in DOMAIN queue' : queue'[i].desc # inflight
                /\ \A i \in DOMAIN finished' : finished'[i] # inflight
    BY <1>1, <1>5, <2>10, <2>11, IoFacts
  <2> QED BY <1>1, <2>5, <2>6, <2>8, <2>9, <2>10, <2>11
          DEF DescInv, DescriptorsDistinct
<1> QED BY <1>5, <1>9, <1>10, <1>11, <1>12 DEF DisplayInv

LEMMA StepOfDisplay ==
  ASSUME DisplayInv,
         \/ HandlerBegins \/ HandlerEnds \/ InputRead \/ CallbacksEnd
         \/ Draw \/ Flush \/ TransferDone \/ AppLocks \/ AppUnlocks
         \/ DisplayReset \/ UNCHANGED displayVars
  PROVE  DisplayInv'
<1>1. CASE UNCHANGED displayVars
  BY <1>1 DEF displayVars, DisplayInv, DisplayTypeOK, IoTypeOK, PhaseInv,
     BufferInv, OrderInv, LastInv, DescInv, ReadyMeansSent, SentInPanelOrder,
     DescriptorsDistinct, PoolHasNext
<1> QED BY <1>1, StepOfLvgl, StepOfCommand, StepOfFresh, StepOfRecycled,
           StepOfTransfer, ResetDisplay DEF Flush

LEMMA DisplayInvImplies ==
  ASSUME DisplayInv
  PROVE  SentIntact /\ DescriptorsDistinct /\ FlushEndsWithTransfer
<1>1. NotDrawnWhileSent
  BY DEF DisplayInv, DisplayTypeOK, PhaseInv, BufferInv, NotDrawnWhileSent,
     BufferIdle, Other, Buffer
<1>2. HangHasCause
  BY DEF DisplayInv, LastInv, HangHasCause
<1> QED BY <1>1, <1>2 DEF DisplayInv, OrderInv, PhaseInv, DescInv, SentIntact,
           FlushEndsWithTransfer

-----------------------------------------------------------------------------
(* A script ends in GO if it plays an effect, and then each register it    *)
(* has written holds what the effect needs.                                *)
PlayInv ==
  \A i \in DOMAIN script : script[i] = Write("go", 1) =>
    LET n == Len(script)
    IN  /\ i = n /\ n <= 4
        /\ IF n >= 4 THEN script[n - 3] = Write("mode", Trigger)
                     ELSE chip["mode"] = Trigger
        /\ IF n >= 3 THEN script[n - 2] = Write("seq1", requested)
                     ELSE chip["seq1"] = requested
        /\ IF n >= 2 THEN script[n - 1] = Write("seq2", 0)
                     ELSE chip["seq2"] = 0

(* Only the script of the RTP test starts RTP.                             *)
DriveInv ==
  /\ Driving => abandoned \/ Testing
  /\ ~Testing => \A i \in DOMAIN script :
       /\ script[i] # Write("mode", Rtp)
       /\ script[i].reg = "rtpin" => script[i].val = 0

(* LVGL stays with the button a touch has pressed, until it is misread.    *)
TouchInv ==
  /\ ~finger => presses = 0
  /\ misread \/ presses = 0 \/ (presses = 1 /\ held)

HapticInv == HapticTypeOK /\ PlayInv /\ DriveInv /\ TouchInv

Access == [reg : Register, val : Nat]

LEMMA Scripts ==
  /\ InitScript \in Seq(Access)
  /\ \A i \in DOMAIN InitScript :
       InitScript[i] # Write("go", 1) /\ InitScript[i] # Write("mode", Rtp)
       /\ (InitScript[i].reg = "rtpin" => InitScript[i].val = 0)
  /\ \A e \in Nat : /\ PlayEffect(e) \in Seq(Access) /\ Len(PlayEffect(e)) = 4
                    /\ DOMAIN PlayEffect(e) = 1..4
                    /\ PlayEffect(e)[1] = Write("mode", Trigger)
                    /\ PlayEffect(e)[2] = Write("seq1", e)
                    /\ PlayEffect(e)[3] = Write("seq2", 0)
                    /\ PlayEffect(e)[4] = Write("go", 1)
  /\ Stop \in Seq(Access) /\ DOMAIN Stop = {1} /\ Len(Stop) = 1
  /\ Stop[1] = Write("go", 0)
  /\ RtpTest \in Seq(Access) /\ DOMAIN RtpTest = 1..4 /\ Len(RtpTest) = 4
  /\ RtpTest[1] = Write("mode", Rtp)   /\ RtpTest[2] = Write("rtpin", Strongest)
  /\ RtpTest[3] = Write("rtpin", 0)    /\ RtpTest[4] = Write("mode", Trigger)
<1> USE DEF Access, Write, Register, Stored, Trigger, Rtp, Strongest, Click
<1>1. /\ InitScript \in Seq(Access)
      /\ \A i \in DOMAIN InitScript :
           InitScript[i] # Write("go", 1) /\ InitScript[i] # Write("mode", Rtp)
           /\ (InitScript[i].reg = "rtpin" => InitScript[i].val = 0)
  BY DEF InitScript
<1>2. ASSUME NEW e \in Nat
      PROVE  /\ PlayEffect(e) \in Seq(Access) /\ Len(PlayEffect(e)) = 4
             /\ DOMAIN PlayEffect(e) = 1..4
             /\ PlayEffect(e)[1] = Write("mode", Trigger)
             /\ PlayEffect(e)[2] = Write("seq1", e)
             /\ PlayEffect(e)[3] = Write("seq2", 0)
             /\ PlayEffect(e)[4] = Write("go", 1)
  BY DEF PlayEffect
<1>3. Stop \in Seq(Access) /\ DOMAIN Stop = {1} /\ Len(Stop) = 1
      /\ Stop[1] = Write("go", 0)
  BY DEF Stop
<1>4. /\ RtpTest \in Seq(Access) /\ DOMAIN RtpTest = 1..4 /\ Len(RtpTest) = 4
      /\ RtpTest[1] = Write("mode", Rtp)
      /\ RtpTest[2] = Write("rtpin", Strongest)
      /\ RtpTest[3] = Write("rtpin", 0) /\ RtpTest[4] = Write("mode", Trigger)
  BY DEF RtpTest, RtpStart, RtpStop
<1> QED BY <1>1, <1>2, <1>3, <1>4

LEMMA InitHaptics ==
  ASSUME HapticInit PROVE HapticInv
<1>1. chip \in [Stored -> Nat] /\ script \in Seq(Access) /\ DOMAIN script = {}
  BY DEF HapticInit, Access
<1>2. ~Driving
  BY DEF HapticInit, Driving, Stored, Rtp
<1>3. HapticTypeOK
  <2>1. requested \in Nat /\ presses \in 0..2
    BY DEF HapticInit
  <2>2. /\ abandoned \in BOOLEAN /\ finger \in BOOLEAN
        /\ held \in BOOLEAN /\ misread \in BOOLEAN
    BY Zenon DEF HapticInit
  <2> QED BY <1>1, <2>1, <2>2 DEF HapticTypeOK, Access
<1>4. PlayInv /\ DriveInv /\ TouchInv
  BY <1>1, <1>2 DEF HapticInit, PlayInv, DriveInv, TouchInv
<1> QED BY <1>3, <1>4 DEF HapticInv

(* What a write does to the registers, and when it can start the motor.    *)
LEMMA Stores ==
  ASSUME HapticTypeOK, script # <<>>, Store(Head(script))
  PROVE  /\ chip' \in [Stored -> Nat]
         /\ \A r \in Stored : chip'[r] = IF r = script[1].reg THEN script[1].val
                                                           ELSE chip[r]
         /\ script[1] \in Access
<1> script \in Seq(Access)
  BY DEF HapticTypeOK, Access
<1>1. Head(script) = script[1] /\ script[1] \in Access
  BY TailOf
<1>2. script[1].val \in Nat
  BY <1>1 DEF Access
<1> QED BY <1>1, <1>2 DEF Store, HapticTypeOK

LEMMA DriveStarts ==
  ASSUME HapticInv, script # <<>>, Store(Head(script)), Driving', ~Testing
  PROVE  Driving /\ script[1] # Write("mode", Trigger)
<1>1. /\ \A r \in Stored : chip'[r] = IF r = script[1].reg THEN script[1].val
                                                         ELSE chip[r]
      /\ script[1] \in Access
  BY Stores DEF HapticInv
<1>2. 1 \in DOMAIN script
  BY TailOf DEF HapticInv, HapticTypeOK
<1>3. /\ script[1] # Write("mode", Rtp)
      /\ script[1].reg = "rtpin" => script[1].val = 0
  BY <1>2 DEF HapticInv, DriveInv
<1>4. script[1] = [reg |-> script[1].reg, val |-> script[1].val]
  BY <1>1 DEF Access
<1>5. script[1].reg = "mode" => script[1].val # Rtp
  BY <1>3, <1>4 DEF Write
<1> QED BY <1>1, <1>3, <1>5 DEF Driving, Stored, Write, Rtp, Trigger

LEMMA StepOfAccepted ==
  ASSUME HapticInv, WriteAccepted PROVE HapticInv'
<1> DEFINE n == Len(script)
<1>1. /\ script # <<>> /\ Store(Head(script)) /\ script' = Tail(script)
      /\ requested' = IF Tail(script) = <<>> THEN 0 ELSE requested
      /\ abandoned' = (abandoned /\ Head(script) # Write("mode", Trigger))
      /\ UNCHANGED <<finger, held, presses, misread>>
      /\ HapticTypeOK /\ PlayInv /\ DriveInv /\ TouchInv
  BY DEF WriteAccepted, HapticInv, touchVars
<1>2. /\ script' \in Seq(Access) /\ Head(script) = script[1]
      /\ DOMAIN script' = 1..(n - 1) /\ Len(script') = n - 1
      /\ DOMAIN script = 1..n /\ n \in Nat \ {0}
      /\ \A i \in 1..(n - 1) : script'[i] = script[i + 1]
  BY <1>1, TailOf DEF HapticTypeOK, Access
<1>3. /\ chip' \in [Stored -> Nat]
      /\ \A r \in Stored : chip'[r] = IF r = script[1].reg THEN script[1].val
                                                        ELSE chip[r]
      /\ script[1] \in Access
  BY <1>1, Stores
<1>4. HapticTypeOK'
  BY <1>1, <1>2, <1>3 DEF HapticTypeOK, Access
<1>5. script' = <<>> <=> n = 1
  BY <1>2
<1> HIDE DEF n
<1>6. PlayInv'
  <2> DEFINE m == Len(script')
  <2> SUFFICES ASSUME NEW i \in DOMAIN script', script'[i] = Write("go", 1)
               PROVE  /\ i = m /\ m <= 4
                      /\ IF m >= 4 THEN script'[m - 3] = Write("mode", Trigger)
                                   ELSE chip'["mode"] = Trigger
                      /\ IF m >= 3 THEN script'[m - 2] = Write("seq1", requested')
                                   ELSE chip'["seq1"] = requested'
                      /\ IF m >= 2 THEN script'[m - 1] = Write("seq2", 0)
                                   ELSE chip'["seq2"] = 0
    BY Zenon DEF PlayInv
  <2> i \in 1..(n - 1) /\ script[i + 1] = Write("go", 1) /\ m = n - 1
    BY <1>2
  <2> HIDE DEF m
  <2>1. i + 1 \in 1..n /\ requested' = requested /\ n > 1
    BY <1>1, <1>2, <1>5
  <2>2. /\ i + 1 = n /\ n <= 4
        /\ IF n >= 4 THEN script[n - 3] = Write("mode", Trigger)
                     ELSE chip["mode"] = Trigger
        /\ IF n >= 3 THEN script[n - 2] = Write("seq1", requested)
                     ELSE chip["seq1"] = requested
        /\ IF n >= 2 THEN script[n - 1] = Write("seq2", 0)
                     ELSE chip["seq2"] = 0
    BY <1>1, <1>2, <2>1 DEF PlayInv, n
  <2>3. n \in {2, 3, 4}
    BY <1>2, <2>1, <2>2
  <2>4. CASE n = 2
    BY <1>3, <2>1, <2>2, <2>4 DEF Write, Stored
  <2>5. CASE n = 3
    BY <1>2, <1>3, <2>1, <2>2, <2>5 DEF Write, Stored
  <2>6. CASE n = 4
    BY <1>2, <1>3, <2>1, <2>2, <2>6 DEF Write, Stored, Trigger
  <2> QED BY <2>3, <2>4, <2>5, <2>6
<1>7. n > 1 => (Testing' <=> Testing)
  BY <1>1, <1>2, <1>5 DEF Testing, n
<1>8. Driving' => abandoned' \/ Testing'
  <2>1. CASE ~Testing
    BY <1>1, <1>2, <2>1, DriveStarts DEF HapticInv, DriveInv
  <2>2. CASE Testing /\ n > 1
    BY <1>7, <2>2
  <2>3. CASE Testing /\ n = 1
    <3>1. script[1] = Write("mode", Trigger)
      BY <2>3 DEF Testing, n
    <3> QED BY <1>3, <3>1 DEF Driving, Write, Stored, Trigger, Rtp
  <2> QED BY <1>2, <2>1, <2>2, <2>3
<1>9. ~Testing' => \A i \in DOMAIN script' :
        /\ script'[i] # Write("mode", Rtp)
        /\ script'[i].reg = "rtpin" => script'[i].val = 0
  <2> SUFFICES ASSUME ~Testing', NEW i \in 1..(n - 1)
               PROVE  /\ script[i + 1] # Write("mode", Rtp)
                      /\ script[i + 1].reg = "rtpin" => script[i + 1].val = 0
    BY <1>2
  <2>1. ~Testing /\ i + 1 \in DOMAIN script
    BY <1>2, <1>7
  <2> QED BY <1>1, <2>1 DEF DriveInv
<1>10. TouchInv'
  BY <1>1 DEF TouchInv
<1> QED BY <1>4, <1>6, <1>8, <1>9, <1>10 DEF HapticInv, DriveInv

(* An error or a reset drops the script; the write may have happened.      *)
LEMMA StepOfDrop ==
  ASSUME HapticInv, Drops,
         \/ UNCHANGED chip
         \/ script # <<>> /\ Store(Head(script)),
         \/ UNCHANGED touchVars
         \/ held' = FALSE /\ misread' = finger /\ UNCHANGED <<finger, presses>>
  PROVE  HapticInv'
<1>1. script' = <<>> /\ requested' = 0 /\ abandoned' = (abandoned \/ Testing)
  BY DEF Drops
<1>2. chip' \in [Stored -> Nat]
  BY Stores DEF HapticInv, HapticTypeOK
<1>3. HapticTypeOK'
  <2>1. script' \in Seq([reg : Register, val : Nat]) /\ requested' \in Nat
    BY <1>1
  <2>2. abandoned' \in BOOLEAN
    BY <1>1, Zenon DEF HapticInv, HapticTypeOK, Testing
  <2>3. /\ finger' \in BOOLEAN /\ held' \in BOOLEAN
        /\ presses' \in 0..2 /\ misread' \in BOOLEAN
    BY DEF HapticInv, HapticTypeOK, touchVars
  <2> QED BY <1>2, <2>1, <2>2, <2>3 DEF HapticTypeOK
<1>4. PlayInv' /\ (~Testing' => \A i \in DOMAIN script' :
                                /\ script'[i] # Write("mode", Rtp)
                                /\ script'[i].reg = "rtpin" => script'[i].val = 0)
  BY <1>1 DEF PlayInv
<1>5. Driving' => abandoned'
  <2>1. CASE UNCHANGED chip
    BY <1>1, <2>1 DEF HapticInv, DriveInv, Driving
  <2>2. CASE script # <<>> /\ Store(Head(script))
    BY <1>1, <2>2, DriveStarts DEF HapticInv, DriveInv
  <2> QED BY <2>1, <2>2
<1>6. TouchInv'
  BY DEF HapticInv, TouchInv, touchVars
<1> QED BY <1>3, <1>4, <1>5, <1>6 DEF HapticInv, DriveInv
(* The script of a callback.                                               *)
LEMMA CalledScript ==
  ASSUME HapticInv, script = <<>>, Press,
         UNCHANGED <<chip, abandoned>>
  PROVE  /\ script' \in Seq(Access) /\ requested' \in Nat
         /\ PlayInv' /\ DriveInv'
<1>1. Driving' => abandoned'
  <2>1. ~Testing
    BY DEF Testing
  <2> QED BY <2>1 DEF HapticInv, DriveInv, Driving
<1>2. ASSUME NEW e \in Nat, Calls(PlayEffect(e), e)
      PROVE  /\ script' \in Seq(Access) /\ requested' \in Nat
             /\ PlayInv' /\ DriveInv'
  <2>1. /\ script' \in Seq(Access) /\ Len(script') = 4
        /\ DOMAIN script' = 1..4
        /\ script'[1] = Write("mode", Trigger) /\ script'[2] = Write("seq1", e)
        /\ script'[3] = Write("seq2", 0) /\ script'[4] = Write("go", 1)
        /\ requested' = e
    BY <1>2, Scripts DEF Calls
  <2>2. PlayInv'
    BY <2>1 DEF PlayInv, Write
  <2>3. DriveInv'
    BY <1>1, <2>1 DEF DriveInv, Write, Trigger, Rtp
  <2> QED BY <2>1, <2>2, <2>3
<1>3. ASSUME Calls(Stop, 0)
      PROVE  /\ script' \in Seq(Access) /\ requested' \in Nat
             /\ PlayInv' /\ DriveInv'
  <2>1. /\ script' \in Seq(Access) /\ DOMAIN script' = {1}
        /\ script'[1] = Write("go", 0) /\ requested' = 0
    BY <1>3, Scripts DEF Calls
  <2> QED BY <1>1, <2>1 DEF PlayInv, DriveInv, Write
<1>4. ASSUME Calls(RtpTest, 0)
      PROVE  /\ script' \in Seq(Access) /\ requested' \in Nat
             /\ PlayInv' /\ DriveInv'
  <2>1. /\ script' \in Seq(Access) /\ DOMAIN script' = 1..4 /\ Len(script') = 4
        /\ script'[1] = Write("mode", Rtp)
        /\ script'[2] = Write("rtpin", Strongest)
        /\ script'[3] = Write("rtpin", 0) /\ script'[4] = Write("mode", Trigger)
        /\ requested' = 0
    BY <1>4, Scripts DEF Calls
  <2>2. PlayInv'
    BY <2>1 DEF PlayInv, Write
  <2>3. script' # <<>>
    <3>1. DOMAIN <<>> # 1..4
      OBVIOUS
    <3> QED BY <2>1, <3>1, Zenon
  <2>4. Testing'
    BY <2>1, <2>3, Zenon DEF Testing
  <2> QED BY <2>1, <2>2, <2>4 DEF DriveInv
<1>5. ASSUME Calls(<<>>, 0)
      PROVE  /\ script' \in Seq(Access) /\ requested' \in Nat
             /\ PlayInv' /\ DriveInv'
  BY <1>1, <1>5 DEF Calls, PlayInv, DriveInv
<1> QED BY <1>2, <1>3, <1>4, <1>5, EffectAssumption
       DEF Press, HitsNothing, HitsButton, HitsPageChange, Click

LEMMA StepOfRead ==
  ASSUME HapticInv, ReadTouch PROVE HapticInv'
<1>1. script = <<>> /\ UNCHANGED <<chip, abandoned, finger>>
  BY DEF ReadTouch
<1>2. PICK seen \in BOOLEAN :
        /\ LvglTold(seen)
        /\ \/ seen = finger /\ UNCHANGED misread
           \/ seen = FALSE /\ misread' = finger
  BY DEF ReadTouch, HapticInv, HapticTypeOK
<1>3. /\ script' \in Seq(Access) /\ requested' \in Nat
      /\ PlayInv' /\ DriveInv'
  <2>1. CASE Press
    BY <1>1, <2>1, CalledScript
  <2>2. CASE UNCHANGED <<script, requested>>
    BY <1>1, <2>2 DEF HapticInv, HapticTypeOK, Access, PlayInv, DriveInv,
       Driving, Testing
  <2> QED BY <1>2, <2>1, <2>2 DEF LvglTold
<1>4. TouchInv' /\ held' \in BOOLEAN /\ misread' \in BOOLEAN
      /\ presses' \in 0..2
  <2>1. misread \in BOOLEAN /\ finger \in BOOLEAN /\ presses \in 0..2 /\ TouchInv
    BY DEF HapticInv, HapticTypeOK
  <2>2. misread' \in BOOLEAN /\ (seen => UNCHANGED misread /\ finger)
    <3>1. CASE seen = finger /\ UNCHANGED misread
      BY <2>1, <3>1
    <3>2. CASE seen = FALSE /\ misread' = finger
      BY <2>1, <3>2
    <3> QED BY <1>2, <3>1, <3>2
  <2>3. CASE seen /\ ~held /\ HitsNothing
    BY <1>1, <2>1, <2>2, <2>3 DEF HitsNothing, TouchInv
  <2>4. CASE seen /\ ~held /\ HitsButton
    <3>1. held' = TRUE /\ presses' = IF presses = 2 THEN 2 ELSE presses + 1
      BY <2>4 DEF HitsButton
    <3>2. misread \/ presses = 0
      BY <2>1, <2>4 DEF TouchInv
    <3>3. finger' /\ UNCHANGED misread
      BY <1>1, <2>2, <2>4
    <3>4. presses' \in 0..2 /\ (misread' \/ presses' = 1)
      BY <2>1, <3>1, <3>2, <3>3
    <3>5. TouchInv'
      BY <3>1, <3>3, <3>4, Zenon DEF TouchInv
    <3>6. held' \in BOOLEAN
      BY <3>1
    <3> QED BY <2>2, <3>4, <3>5, <3>6
  <2>5. CASE seen /\ ~held /\ HitsPageChange
    <3>1. held' = FALSE /\ presses' = 0
      BY <2>5 DEF HitsPageChange
    <3>2. TouchInv'
      BY <3>1 DEF TouchInv
    <3>3. held' \in BOOLEAN
      BY <3>1
    <3>4. presses' \in 0..2
      BY <3>1
    <3> QED BY <2>2, <3>2, <3>3, <3>4
  <2>6. CASE ~(seen /\ ~held) /\ held' = seen /\ UNCHANGED presses
    BY <1>1, <1>2, <2>1, <2>2, <2>6 DEF TouchInv
  <2> QED BY <1>2, <2>3, <2>4, <2>5, <2>6 DEF LvglTold, PressedEvent, Press
<1> QED BY <1>1, <1>3, <1>4 DEF HapticInv, HapticTypeOK, Access

LEMMA StepOfFinger ==
  ASSUME HapticInv, FingerComesDown \/ FingerGoesUp PROVE HapticInv'
<1>1. UNCHANGED chipVars
  BY DEF FingerComesDown, FingerGoesUp
<1>2. PlayInv' /\ DriveInv'
  BY <1>1 DEF chipVars, HapticInv, PlayInv, DriveInv, Driving, Testing
<1>3. TouchInv'
  BY DEF FingerComesDown, FingerGoesUp, HapticInv, HapticTypeOK, TouchInv
<1>4. HapticTypeOK'
  <2>1. /\ chip' \in [Stored -> Nat] /\ script' \in Seq(Access)
        /\ requested' \in Nat /\ abandoned' \in BOOLEAN
    BY <1>1 DEF chipVars, HapticInv, HapticTypeOK, Access
  <2>2. presses' \in 0..2
    BY DEF FingerComesDown, FingerGoesUp, HapticInv, HapticTypeOK
  <2>3. finger' \in BOOLEAN /\ held' \in BOOLEAN /\ misread' \in BOOLEAN
    BY Zenon DEF FingerComesDown, FingerGoesUp, HapticInv, HapticTypeOK
  <2> QED BY <2>1, <2>2, <2>3 DEF HapticTypeOK, Access
<1> QED BY <1>2, <1>3, <1>4 DEF HapticInv

LEMMA HapticInvImplies ==
  ASSUME HapticInv
  PROVE  DriveHasCause /\ GoFindsEffect /\ TouchPressesPageOnce
<1>1. DriveHasCause
  BY DEF HapticInv, DriveInv, DriveHasCause, Testing
<1>2. GoFindsEffect
  <2> SUFFICES ASSUME script # <<>>, Head(script) = Write("go", 1)
               PROVE  /\ chip["mode"] = Trigger
                      /\ chip["seq1"] = requested /\ chip["seq2"] = 0
    BY DEF GoFindsEffect
  <2>1. /\ Head(script) = script[1] /\ 1 \in DOMAIN script
        /\ Len(script) \in Nat
    BY TailOf DEF HapticInv, HapticTypeOK
  <2>2. Len(script) = 1
    BY <2>1 DEF HapticInv, PlayInv
  <2> QED BY <2>1, <2>2 DEF HapticInv, PlayInv
<1>3. TouchPressesPageOnce
  BY DEF HapticInv, TouchInv, TouchPressesPageOnce
<1> QED BY <1>1, <1>2, <1>3
-----------------------------------------------------------------------------
(* Where each part stands in app_main.                                     *)
LEMMA BootOrder ==
  /\ Len(Order) = 26 /\ DOMAIN Order = 1..26
  /\ Order[1]  = "backlight"  /\ Order[2]  = "spi"
  /\ Order[3]  = "panelIo"    /\ Order[4]  = "panel"
  /\ Order[5]  = "i2c"        /\ Order[6]  = "haptic"
  /\ Order[7]  = "touch"      /\ Order[8]  = "nvs"
  /\ Order[9]  = "stack"      /\ Order[10] = "gap"
  /\ Order[11] = "gatts"      /\ Order[12] = "hidDevice"
  /\ Order[13] = "queue"      /\ Order[14] = "mediaTask"
  /\ Order[15] = "lvglLib"    /\ Order[16] = "buffers"
  /\ Order[17] = "display"    /\ Order[18] = "flushCallback"
  /\ Order[19] = "tick"       /\ Order[20] = "indev"
  /\ Order[21] = "mutex"      /\ Order[22] = "lvglTask"
  /\ Order[23] = "eventGroup" /\ Order[24] = "encoder"
  /\ Order[25] = "encoderTask" /\ Order[26] = "menu"
  BY DEF Order

(* No part is made at two places.                                          *)
LEMMA OrderInjective ==
  ASSUME NEW i \in 1..26, NEW j \in 1..26, Order[i] = Order[j] PROVE i = j
  BY BootOrder

LEMMA PartAt ==
  ASSUME NEW part \in Part PROVE \E i \in 1..26 : part = Order[i]
  BY BootOrder DEF Part

(* The places of the optional and of the unchecked parts.                  *)
LEMMA PartKinds ==
  ASSUME NEW i \in 1..26
  PROVE  /\ Order[i] \in MediaPart <=> i \in 8..14
         /\ Order[i] \in Unchecked <=> i \in {1, 22, 23, 25}
         /\ Order[i] \in Mandatory <=> i \notin 8..14 \cup {1, 22, 23, 25, 26}
<1>1. Order[i] \in Part
  BY BootOrder DEF Part
<1>2. Order[i] \in MediaPart <=> i \in 8..14
  BY BootOrder DEF MediaPart
<1>3. Order[i] \in Unchecked <=> i \in {1, 22, 23, 25}
  BY BootOrder DEF Unchecked
<1>4. Order[i] = "menu" <=> i = 26
  BY BootOrder
<1> QED BY <1>1, <1>2, <1>3, <1>4 DEF Mandatory

LEMMA UsersAt ==
  ASSUME NEW i \in 1..26
  PROVE  /\ Order[i] = "flushCallback" <=> i = 18
         /\ Order[i] = "tick" <=> i = 19
         /\ Order[i] = "indev" <=> i = 20
         /\ Order[i] = "lvglTask" <=> i = 22
         /\ Order[i] = "menu" <=> i = 26
         /\ Order[i] \in {"encoder", "encoderTask"} => i > 23
  BY BootOrder

LEMMA LvglNext ==
  (CHOOSE i \in DOMAIN Order : Order[i] = "lvglLib") = 15
<1>1. 15 \in DOMAIN Order /\ Order[15] = "lvglLib"
  BY BootOrder
<1>2. ASSUME NEW i \in DOMAIN Order, Order[i] = "lvglLib" PROVE i = 15
  BY <1>1, <1>2, BootOrder, OrderInjective
<1> QED BY <1>1, <1>2

(* What app_main has passed was made, unless it was allowed to fail; while *)
(* Bluetooth starts nothing of it has failed yet.  The script of           *)
(* drv2605_init is written before the LVGL task exists: an RTP test, which *)
(* ends with MODE, cannot be cut short by it.                              *)
PartsInv ==
  /\ \A i \in 1..26 : Order[i] \in made => i < step
  /\ \A i \in 1..26 : i < step /\ Order[i] \in Mandatory => Order[i] \in made
  /\ step <= 14 => \A i \in 8..14 : i < step => Order[i] \in made
  /\ "hidDevice" \in made => {"nvs", "stack", "gap", "gatts"} \subseteq made
  /\ "mediaTask" \in made => {"queue", "hidDevice"} \subseteq made
  /\ "queue" \in made => "mediaTask" \in made \/ step = 14
  /\ step > 23 => "eventGroup" \in made \cup Asserted

BootInv ==
  /\ BootTypeOK /\ FaultTypeOK
  /\ PartsInv
  /\ Testing => LvglRuns

LEMMA StepOfMake ==
  ASSUME BootInv, NEW part \in Part, Booting(part), Make(part),
         FaultTypeOK', Testing' => LvglRuns
  PROVE  BootInv'
<1>1. /\ step \in 1..26 /\ Order[step] = part
      /\ step' = step + 1 /\ made' = made \cup {part}
  BY BootOrder DEF Booting, BootInv, BootTypeOK, Make
<1>2. BootTypeOK'
  BY <1>1, BootOrder DEF Make, BootInv, BootTypeOK
<1>3. ASSUME NEW i \in 1..26
      PROVE  Order[i] \in made' <=> Order[i] \in made \/ i = step
  BY <1>1, <1>3, OrderInjective
<1>4. \A i \in 1..26 : Order[i] \in made' => i < step'
  BY <1>1, <1>3 DEF BootInv, PartsInv
<1>5. \A i \in 1..26 : i < step' /\ Order[i] \in Mandatory => Order[i] \in made'
  BY <1>1, <1>3 DEF BootInv, PartsInv
<1>6. step' <= 14 => \A i \in 8..14 : i < step' => Order[i] \in made'
  BY <1>1, <1>3 DEF BootInv, PartsInv
<1>7. "hidDevice" \in made' => {"nvs", "stack", "gap", "gatts"} \subseteq made'
  <2>1. CASE step = 12
    BY <1>1, <2>1, BootOrder DEF BootInv, PartsInv
  <2>2. CASE step # 12
    BY <1>1, <1>3, <2>2, BootOrder DEF BootInv, PartsInv
  <2> QED BY <2>1, <2>2
<1>8. "mediaTask" \in made' => {"queue", "hidDevice"} \subseteq made'
  <2>1. CASE step = 14
    BY <1>1, <2>1, BootOrder DEF BootInv, PartsInv
  <2>2. CASE step # 14
    BY <1>1, <1>3, <2>2, BootOrder DEF BootInv, PartsInv
  <2> QED BY <2>1, <2>2
<1>9. "queue" \in made' => "mediaTask" \in made' \/ step' = 14
  <2>1. CASE step = 13
    BY <1>1, <2>1
  <2>2. CASE step = 14
    BY <1>1, <2>2, BootOrder
  <2>3. CASE step \notin {13, 14}
    BY <1>1, <1>3, <2>3, BootOrder DEF BootInv, PartsInv
  <2> QED BY <2>1, <2>2, <2>3
<1>10. Testing' => LvglRuns'
  BY <1>1 DEF LvglRuns
<1>11. step' > 23 => "eventGroup" \in made' \cup Asserted'
  <2>1. CASE step = 23
    BY <1>1, <2>1, BootOrder
  <2>2. CASE step # 23
    BY <1>1, <2>2 DEF Make, Asserted, BootInv, PartsInv
  <2> QED BY <2>1, <2>2
<1> QED BY <1>2, <1>4, <1>5, <1>6, <1>7, <1>8, <1>9, <1>10, <1>11
        DEF BootInv, PartsInv

LEMMA StepOfUnchecked ==
  ASSUME BootInv, NEW part \in Part, UncheckedFails(part), UNCHANGED script
  PROVE  BootInv'
<1>1. /\ step \in 1..26 /\ Order[step] = part
      /\ step' = step + 1 /\ UNCHANGED <<made, broken, faults>>
  BY BootOrder DEF UncheckedFails, CannotBeMade, Booting, Works, BootInv,
     BootTypeOK
<1>2. step \in {1, 22, 23, 25} /\ Order[step] \notin Mandatory
  BY <1>1, PartKinds DEF UncheckedFails
<1>3. BootTypeOK' /\ FaultTypeOK'
  BY <1>1, BootOrder DEF BootInv, BootTypeOK, FaultTypeOK
<1>4. ASSUME NEW i \in 1..26, i < step' PROVE i < step \/ i = step
  BY <1>1, <1>4
<1>5. PartsInv'
  <2>1. step' > 23 => "eventGroup" \in made' \cup Asserted'
    <3>1. Asserted' = Asserted /\ UNCHANGED made
      BY <1>1 DEF Asserted
    <3>2. CASE step = 23
      <4>1. Order[step] = "eventGroup" /\ Order[step] = broken
        BY <1>1, <3>2, BootOrder DEF UncheckedFails, CannotBeMade
      <4> QED BY <3>1, <4>1 DEF Asserted
    <3>3. CASE step # 23
      BY <1>1, <3>1, <3>3 DEF BootInv, PartsInv
    <3> QED BY <3>2, <3>3
  <2> QED BY <1>1, <1>2, <1>4, <2>1 DEF BootInv, PartsInv
<1>6. Testing' => LvglRuns'
  BY <1>1 DEF Testing, LvglRuns, BootInv
<1> QED BY <1>3, <1>5, <1>6 DEF BootInv

LEMMA StepOfMediaFailure ==
  ASSUME BootInv, NEW part \in Part, MediaFails(part), UNCHANGED script
  PROVE  BootInv'
<1>1. /\ step \in 1..26 /\ Order[step] = part
      /\ made' = Kept(part) /\ UNCHANGED <<broken, faults>>
  BY BootOrder DEF MediaFails, CannotBeMade, Booting, Works, BootInv, BootTypeOK
<1>2. step \in 8..14 /\ step' = 15
  BY <1>1, PartKinds, LvglNext DEF MediaFails
<1>3. /\ made' \subseteq made
      /\ \A p \in made : p # "queue" => p \in made'
  BY <1>1 DEF Kept
<1>4. BootTypeOK'
  BY <1>1, <1>2, <1>3, BootOrder DEF BootInv, BootTypeOK
<1>5. FaultTypeOK' /\ (Testing' => LvglRuns')
  BY <1>1, <1>3 DEF BootInv, FaultTypeOK, Testing, LvglRuns
<1>6. "mediaTask" \notin made
  BY <1>2, BootOrder DEF BootInv, PartsInv
<1>7. "queue" \notin made'
  <2>1. CASE step = 14
    BY <1>1, <2>1, BootOrder DEF Kept
  <2>2. CASE step # 14
    BY <1>3, <1>6, <2>2 DEF BootInv, PartsInv
  <2> QED BY <2>1, <2>2
<1>8. \A i \in 1..26 : Order[i] \in made' => i < step'
  BY <1>2, <1>3 DEF BootInv, PartsInv
<1>9. ASSUME NEW i \in 1..26, i < step', Order[i] \in Mandatory
      PROVE  Order[i] \in made'
  <2>1. i < step
    BY <1>2, <1>9, PartKinds
  <2>2. Order[i] \in made
    BY <1>9, <2>1 DEF BootInv, PartsInv
  <2>3. Order[i] # "queue"
    BY <1>9 DEF Mandatory, MediaPart
  <2> QED BY <1>3, <2>2, <2>3
<1>10. PartsInv'
  BY <1>2, <1>3, <1>6, <1>7, <1>8, <1>9 DEF BootInv, PartsInv
<1> QED BY <1>4, <1>5, <1>10 DEF BootInv

LEMMA StepOfFail ==
  ASSUME BootInv, NEW part \in Part,
         UncheckedFails(part) \/ MediaFails(part), UNCHANGED script
  PROVE  BootInv'
  BY StepOfUnchecked, StepOfMediaFailure

LEMMA NothingMade ==
  ASSUME step = 1, made = {}, broken \in Breakable \cup {"none"}
  PROVE  BootTypeOK /\ PartsInv /\ ~LvglRuns
  BY BootOrder DEF BootTypeOK, PartsInv, LvglRuns

LEMMA StepOfRestart ==
  ASSUME BootInv, Forget, script' = <<>>, FaultTypeOK' PROVE BootInv'
<1>1. ~Testing'
  BY DEF Testing
<1>2. step' = 1 /\ made' = {} /\ broken' \in Breakable \cup {"none"}
  BY DEF Forget, BootInv, BootTypeOK
<1>3. BootTypeOK' /\ PartsInv'
  BY <1>2, BootOrder DEF BootTypeOK, PartsInv
<1> QED BY <1>1, <1>3 DEF BootInv

(* All other steps leave the parts alone, and start tests in LVGL's task.  *)
LEMMA StepOfUse ==
  ASSUME BootInv, UNCHANGED bootVars, FaultTypeOK',
         Testing' => Testing \/ LvglRuns
  PROVE  BootInv'
  BY DEF BootInv, BootTypeOK, PartsInv, Asserted, bootVars, LvglRuns

(* The parts that are in use were made before their users, or are optional *)
(* and then were made with all that they need.                             *)
LEMMA PartsInvImplies ==
  ASSUME BootInv PROVE ActivityHasItsParts
<1>1. ASSUME NEW part \in made
      PROVE  Needs(part) \subseteq made \cup Asserted
  <2>1. PICK k \in 1..26 : part = Order[k]
    BY PartAt DEF BootInv, BootTypeOK
  <2>2. k < step /\ step \in Nat
    BY <2>1, BootOrder DEF BootInv, BootTypeOK, PartsInv
  <2>3. ASSUME NEW i \in 1..26, i < k, i \notin 8..14 \cup {1, 22, 23, 25, 26}
        PROVE  Order[i] \in made
    BY <2>2, <2>3, PartKinds DEF BootInv, PartsInv
  <2>4. CASE part = "tick"
    <3>1. k = 19
      BY <2>1, <2>4, UsersAt
    <3> QED BY <2>3, <2>4, <3>1, BootOrder DEF Needs
  <2>5. CASE part = "lvglTask"
    <3>1. k = 22
      BY <2>1, <2>5, UsersAt
    <3>2. \A i \in {4, 5, 6, 7, 15, 16, 17, 18, 20, 21} : Order[i] \in made
      BY <2>3, <3>1
    <3> QED BY <2>5, <3>2, BootOrder DEF Needs
  <2>6. CASE part = "flushCallback"
    <3>1. k = 18
      BY <2>1, <2>6, UsersAt
    <3>2. Order[3] \in made /\ Order[17] \in made
      BY <2>3, <3>1
    <3> QED BY <2>6, <3>2, BootOrder DEF Needs
  <2>7. CASE part = "indev"
    <3>1. k = 20
      BY <2>1, <2>7, UsersAt
    <3>2. Order[5] \in made /\ Order[7] \in made /\ Order[17] \in made
      BY <2>3, <3>1
    <3> QED BY <2>7, <3>2, BootOrder DEF Needs
  <2>8. CASE part = "menu"
    <3>1. k = 26
      BY <2>1, <2>8, UsersAt
    <3>2. Order[21] \in made /\ Order[17] \in made
      BY <2>3, <3>1
    <3> QED BY <2>8, <3>2, BootOrder DEF Needs
  <2>9. CASE part \in {"hidDevice", "mediaTask"}
    BY <1>1, <2>9 DEF Needs, BootInv, PartsInv
  <2>10. CASE part \in {"encoder", "encoderTask"}
    <3>1. step > 23
      BY <2>1, <2>2, <2>10, UsersAt
    <3> QED BY <2>10, <3>1 DEF Needs, BootInv, PartsInv
  <2>11. CASE part \notin {"tick", "lvglTask", "flushCallback", "indev", "menu",
                           "hidDevice", "mediaTask", "encoder", "encoderTask"}
    BY <2>11 DEF Needs
  <2> QED BY <2>4, <2>5, <2>6, <2>7, <2>8, <2>9, <2>10, <2>11
<1>2. step = 14 => Booting("mediaTask")
  BY BootOrder DEF Booting
<1> QED BY <1>1, <1>2 DEF ActivityHasItsParts, BootInv, PartsInv

LEMMA FaultsCount ==
  ASSUME FaultTypeOK, Fails \/ Works PROVE FaultTypeOK'
  BY FaultAssumption DEF FaultTypeOK, Fails, Works

-----------------------------------------------------------------------------
IInv == DisplayInv /\ HapticInv /\ BootInv

LEMMA InitIInv ==
  ASSUME Init PROVE IInv
<1>1. BootTypeOK /\ PartsInv /\ ~LvglRuns
  BY NothingMade DEF Init, BootInit
<1>2. ~Testing
  BY DEF Init, HapticInit, Testing
<1>3. FaultTypeOK
  BY FaultAssumption DEF Init, FaultInit, FaultTypeOK
<1> QED BY <1>1, <1>2, <1>3, InitDisplay, InitHaptics DEF Init, IInv, BootInv

(* A step that leaves the haptic driver and the finger alone.              *)
LEMMA HapticsAlone ==
  ASSUME HapticInv, UNCHANGED hapticVars
  PROVE  HapticInv' /\ (Testing' => Testing)
<1>1. UNCHANGED <<chip, script, requested, abandoned, finger, held, presses,
                  misread>>
  BY DEF hapticVars, chipVars, touchVars
<1> QED BY <1>1 DEF HapticInv, HapticTypeOK, PlayInv, DriveInv, TouchInv,
           Driving, Testing

LEMMA AcceptedEndsSame ==
  ASSUME HapticInv, WriteAccepted, Testing' PROVE Testing
<1>1. /\ Len(script') = Len(script) - 1 /\ Len(script) \in Nat \ {0}
      /\ \A i \in 1..(Len(script) - 1) : script'[i] = script[i + 1]
  BY TailOf DEF WriteAccepted, HapticInv, HapticTypeOK
<1>2. script' # <<>> /\ script'[Len(script')] = Write("mode", Trigger)
  BY DEF Testing
<1>3. Len(script) > 1
  BY <1>1, <1>2, TailOf DEF WriteAccepted, HapticInv, HapticTypeOK
<1>4. Len(script) - 1 \in 1..(Len(script) - 1)
  BY <1>1, <1>3
<1> QED BY <1>1, <1>2, <1>4 DEF Testing, WriteAccepted
LEMMA StepOfAppMain ==
  ASSUME IInv, AppMain PROVE IInv'
<1> USE DEF IInv
<1>1. CASE I2cMade
  <2>1. PartMade("i2c") /\ script' = InitScript /\ UNCHANGED displayVars
        /\ UNCHANGED <<chip, requested, abandoned, touchVars>>
    BY <1>1 DEF I2cMade
  <2>2. step = 5 /\ "i2c" \in Part /\ Booting("i2c")
    BY <2>1, BootOrder DEF PartMade, Booting, BootInv, BootTypeOK, Part
  <2>3. ~Testing
    BY <2>2, BootOrder DEF BootInv, PartsInv, LvglRuns
  <2>4. ~Testing'
    BY <2>1 DEF Testing, InitScript, Write
  <2>5. FaultTypeOK'
    BY <2>1, FaultsCount DEF PartMade, BootInv
  <2>6. BootInv'
    BY <2>1, <2>2, <2>4, <2>5, StepOfMake DEF PartMade
  <2>7. HapticTypeOK' /\ TouchInv'
    BY <2>1, Scripts DEF HapticInv, HapticTypeOK, TouchInv, touchVars, Access
  <2>8. PlayInv' /\ DriveInv'
    BY <2>1, <2>3, Scripts DEF HapticInv, PlayInv, DriveInv, Driving
  <2> QED BY <2>1, <2>6, <2>7, <2>8, StepOfDisplay DEF HapticInv
<1>2. ASSUME NEW part \in Part,
             PartMade(part) \/ UncheckedFails(part) \/ MediaFails(part),
             UNCHANGED Others
      PROVE  IInv'
  <2>1. UNCHANGED displayVars /\ UNCHANGED hapticVars /\ UNCHANGED script
    BY <1>2 DEF Others, hapticVars, chipVars
  <2>2. DisplayInv' /\ HapticInv' /\ (Testing' => LvglRuns)
    BY <2>1, StepOfDisplay, HapticsAlone DEF BootInv
  <2>3. BootInv'
    BY <1>2, <2>1, <2>2, StepOfMake, StepOfFail, FaultsCount
       DEF PartMade, BootInv
  <2> QED BY <2>2, <2>3
<1>3. CASE HapticMade
  <2>1. "haptic" \in Part
    BY <1>3 DEF HapticMade, PartMade, Booting, Part, BootInv, BootTypeOK
  <2> QED BY <1>2, <1>3, <2>1 DEF HapticMade
<1>4. CASE OtherPartMade
  BY <1>2, <1>4 DEF OtherPartMade
<1>5. CASE MenuBegins
  <2>1. AppLocks /\ UNCHANGED bootVars /\ UNCHANGED hapticVars /\ UNCHANGED faults
    BY <1>5 DEF MenuBegins, AppLocks
  <2>2. DisplayInv' /\ HapticInv' /\ (Testing' => Testing)
    BY <2>1, StepOfDisplay, HapticsAlone
  <2> QED BY <2>1, <2>2, StepOfUse, FaultsCount DEF BootInv, Works
<1>6. CASE MenuBuilt
  <2>1. Booting("menu") /\ AppUnlocks /\ Make("menu") /\ UNCHANGED hapticVars
        /\ Works
    BY <1>6 DEF MenuBuilt, AppUnlocks, Works
  <2>2. DisplayInv' /\ HapticInv' /\ (Testing' => LvglRuns)
    BY <2>1, StepOfDisplay, HapticsAlone DEF BootInv
  <2>3. "menu" \in Part
    BY <2>1 DEF Booting, Part, BootInv, BootTypeOK
  <2> QED BY <2>1, <2>2, <2>3, StepOfMake, FaultsCount DEF BootInv
<1> QED BY <1>1, <1>3, <1>4, <1>5, <1>6 DEF AppMain

LEMMA StepOfReset ==
  ASSUME IInv, CheckFails \/ InitRefused \/ Reset PROVE IInv'
<1> USE DEF IInv
<1>1. Forget /\ DisplayReset
  BY DEF CheckFails, InitRefused, Reset, Restart
<1>2. /\ Drops
      /\ \/ UNCHANGED chip
         \/ script # <<>> /\ Store(Head(script))
      /\ \/ UNCHANGED touchVars
         \/ held' = FALSE /\ misread' = finger /\ UNCHANGED <<finger, presses>>
  BY DEF CheckFails, InitRefused, Reset, HapticReset, WriteRefused
<1>3. script' = <<>>
  BY <1>2 DEF Drops
<1>4. Fails \/ Works
  BY DEF CheckFails, InitRefused, Reset, WriteRefused, MustReset, CannotBeMade
<1> QED BY <1>1, <1>2, <1>3, <1>4, StepOfDrop, StepOfRestart, StepOfDisplay,
           FaultsCount DEF BootInv

LEMMA StepOfUser ==
  ASSUME IInv, LvglTask \/ HapticInitStep \/ Panel \/ Finger PROVE IInv'
<1> USE DEF IInv
<1>1. UNCHANGED bootVars
  BY DEF LvglTask, Port, ReadInput, Callback, HapticInitStep, Panel, Finger
<1>2. CASE Port \/ Panel
  <2>1. UNCHANGED hapticVars
    BY <1>2 DEF Port, Panel
  <2>2. DisplayInv'
    BY <1>2, StepOfDisplay DEF Port, Panel
  <2>3. Fails \/ Works
    BY <1>2 DEF Port, Panel, HandlerBegins, HandlerEnds, Draw, DrawBegins,
       FlushBegins, FlushReturns, Flush, SwapBytes, SendCommand, QueueFresh,
       QueueRecycled, QueueChunk, Accept, Refuse, TransferDone, Works
  <2> QED BY <1>1, <2>1, <2>2, <2>3, HapticsAlone, StepOfUse, FaultsCount
          DEF BootInv
<1>3. CASE ReadInput
  <2>1. LvglRuns /\ InputRead /\ ReadTouch /\ (Fails \/ Works)
    BY <1>3 DEF ReadInput, ReadTouch
  <2> QED BY <1>1, <2>1, StepOfDisplay, StepOfRead, StepOfUse, FaultsCount
          DEF BootInv
<1>4. CASE LvglRuns /\ Haptics /\ UNCHANGED displayVars
  <2>1. HapticInv'
    BY <1>4, StepOfAccepted, StepOfDrop DEF Haptics, WriteRefused
  <2>2. Fails \/ Works
    BY <1>4 DEF Haptics, WriteAccepted, WriteRefused
  <2> QED BY <1>1, <1>4, <2>1, <2>2, StepOfDisplay, StepOfUse, FaultsCount
          DEF BootInv
<1>5. CASE CallbacksEnd /\ UNCHANGED hapticVars
  BY <1>1, <1>5, StepOfDisplay, HapticsAlone, StepOfUse, FaultsCount
     DEF BootInv, CallbacksEnd, Works
<1>6. CASE HapticInitStep
  <2>1. WriteAccepted /\ UNCHANGED displayVars /\ Works
    BY <1>6 DEF HapticInitStep, WriteAccepted
  <2> QED BY <1>1, <2>1, StepOfDisplay, StepOfAccepted, AcceptedEndsSame,
             StepOfUse, FaultsCount DEF BootInv
<1>7. CASE Finger
  <2>1. /\ FingerComesDown \/ FingerGoesUp
        /\ UNCHANGED displayVars /\ Works /\ UNCHANGED script
    BY <1>7 DEF Finger, FingerComesDown, FingerGoesUp, chipVars, Works
  <2>2. Testing' => Testing
    BY <2>1 DEF Testing
  <2> QED BY <1>1, <2>1, <2>2, StepOfDisplay, StepOfFinger, StepOfUse,
             FaultsCount DEF BootInv
<1> QED BY <1>2, <1>3, <1>4, <1>5, <1>6, <1>7 DEF LvglTask, Callback

LEMMA NextIInv ==
  ASSUME IInv, [Next]_vars PROVE IInv'
<1>1. CASE UNCHANGED vars
  <2>1. UNCHANGED displayVars /\ UNCHANGED hapticVars /\ UNCHANGED bootVars /\ Works
    BY <1>1 DEF vars, Works
  <2> QED BY <2>1, StepOfDisplay, HapticsAlone, StepOfUse, FaultsCount
          DEF IInv, BootInv
<1> QED BY <1>1, StepOfAppMain, StepOfReset, StepOfUser DEF Next

-----------------------------------------------------------------------------
THEOREM IInvariant == Spec => []IInv
BY InitIInv, NextIInv, PTL DEF Spec

(* Every variable of the composition keeps its type: among others, no more *)
(* descriptors are in flight than the pool has.                            *)
THEOREM TypeCorrect == Spec => []TypeOK
<1>1. IInv => TypeOK
  BY DEF IInv, DisplayInv, HapticInv, BootInv, TypeOK
<1> QED BY <1>1, IInvariant, PTL

(* The panel is sent what LVGL has drawn, in the panel's byte order, for   *)
(* any number of chunks and any depth of the queue.                        *)
THEOREM PanelGetsWhatWasDrawn == Spec => []SentIntact
<1>1. IInv => SentIntact
  BY DisplayInvImplies DEF IInv
<1> QED BY <1>1, IInvariant, PTL

(* No descriptor of the SPI transactions is used twice at a time, though   *)
(* the next one is found by a count.                                       *)
THEOREM DescriptorsStayDistinct == Spec => []DescriptorsDistinct
<1>1. IInv => DescriptorsDistinct
  BY DisplayInvImplies DEF IInv
<1> QED BY <1>1, IInvariant, PTL

(* A flush ends with its last byte, and LVGL is kept waiting by a refused  *)
(* transfer only.                                                          *)
THEOREM FlushEnds == Spec => []FlushEndsWithTransfer
<1>1. IInv => FlushEndsWithTransfer
  BY DisplayInvImplies DEF IInv
<1> QED BY <1>1, IInvariant, PTL

(* The motor is left running by a test that broke off, and by nothing else. *)
THEOREM MotorHasCause == Spec => []DriveHasCause
<1>1. IInv => DriveHasCause
  BY HapticInvImplies DEF IInv
<1> QED BY <1>1, IInvariant, PTL

(* GO is written only when the chip holds the effect that was asked for.   *)
THEOREM EffectIsComplete == Spec => []GoFindsEffect
<1>1. IInv => GoFindsEffect
  BY HapticInvImplies DEF IInv
<1> QED BY <1>1, IInvariant, PTL

(* However a touch walks through the pages that change under it, it does   *)
(* not press a second button of a page, but for a misread or a reset.      *)
THEOREM PagePressedOnce == Spec => []TouchPressesPageOnce
<1>1. IInv => TouchPressesPageOnce
  BY HapticInvImplies DEF IInv
<1> QED BY <1>1, IInvariant, PTL

(* Whatever runs finds what it refers to, whichever parts are out of order *)
(* and however often app_main begins anew.                                 *)
THEOREM UsersFindTheirParts == Spec => []ActivityHasItsParts
<1>1. IInv => ActivityHasItsParts
  BY PartsInvImplies DEF IInv
<1> QED BY <1>1, IInvariant, PTL

(* What two tasks share is used by one at a time: LVGL and its mutex, and  *)
(* the registers of the haptic driver, which drv2605_init writes before    *)
(* the LVGL task exists and the callbacks of LVGL write after that.  Who   *)
(* holds the mutex is at work, so it is given back, also by a reset.       *)
TakenInTurn ==
  /\ mux = "lvgl" <=> lvglPc # "sleep"
  /\ mux = "app_main" => Booting("menu")
  /\ script # <<>> => \/ Booting("haptic") /\ ~LvglRuns
                      \/ lvglPc = "callback" /\ LvglRuns

LEMMA HapticBeforeLvgl ==
  ASSUME BootInv, Booting("haptic") PROVE ~LvglRuns
<1>1. step = 6
  BY BootOrder, OrderInjective DEF BootInv, BootTypeOK, Booting
<1> QED BY <1>1, BootOrder DEF BootInv, PartsInv, LvglRuns

LEMMA TurnOfAppMain ==
  ASSUME IInv, TakenInTurn, AppMain PROVE TakenInTurn'
<1>1. BootInv /\ BootInv'
  BY StepOfAppMain DEF IInv
<1>2. ASSUME NEW part \in Part, Booting(part), part \notin {"haptic", "menu"},
             UNCHANGED Others, LvglRuns => LvglRuns'
      PROVE  TakenInTurn'
  <2>1. ~Booting("haptic") /\ ~Booting("menu")
    BY <1>2 DEF Booting
  <2> QED BY <1>2, <2>1 DEF TakenInTurn, Others, displayVars, hapticVars, chipVars
<1>3. CASE I2cMade
  <2>1. Booting("i2c") /\ step' = step + 1 /\ UNCHANGED <<mux, lvglPc>>
    BY <1>3 DEF I2cMade, PartMade, Make, displayVars
  <2>2. step = 5
    BY <1>1, <2>1, BootOrder DEF BootInv, BootTypeOK, Booting
  <2>3. Booting("haptic")' /\ ~Booting("menu")
    BY <2>1, <2>2, BootOrder DEF Booting
  <2>4. ~LvglRuns'
    BY <1>1, <2>1, <2>2, BootOrder DEF BootInv, PartsInv, LvglRuns
  <2> QED BY <2>1, <2>3, <2>4 DEF TakenInTurn
<1>4. CASE HapticMade
  <2>1. /\ Booting("haptic") /\ script = <<>>
        /\ UNCHANGED <<mux, lvglPc, script>>
    BY <1>4 DEF HapticMade, PartMade, Others, displayVars, hapticVars, chipVars
  <2>2. ~Booting("menu")
    BY <2>1 DEF Booting
  <2> QED BY <2>1, <2>2 DEF TakenInTurn
<1>5. CASE OtherPartMade
  <2>1. ASSUME NEW part \in Part \ {"i2c", "haptic", "menu"}, PartMade(part),
               UNCHANGED Others
        PROVE  TakenInTurn'
    <3>1. Booting(part) /\ (LvglRuns => LvglRuns')
      BY <2>1 DEF PartMade, Make, LvglRuns
    <3> QED BY <1>2, <2>1, <3>1
  <2>2. ASSUME NEW part \in Part, UncheckedFails(part), UNCHANGED Others
        PROVE  TakenInTurn'
    <3>1. Booting(part) /\ part \in Unchecked /\ UNCHANGED made
      BY <2>2 DEF UncheckedFails, CannotBeMade
    <3> QED BY <1>2, <2>2, <3>1 DEF Unchecked, LvglRuns
  <2>3. ASSUME NEW part \in Part, MediaFails(part), UNCHANGED Others
        PROVE  TakenInTurn'
    <3>1. /\ Booting(part) /\ part \in MediaPart
          /\ LvglRuns => LvglRuns'
      BY <2>3 DEF MediaFails, CannotBeMade, Kept, LvglRuns
    <3> QED BY <1>2, <2>3, <3>1 DEF MediaPart
  <2> QED BY <1>5, <2>1, <2>2, <2>3 DEF OtherPartMade
<1>6. CASE MenuBegins
  <2>1. /\ Booting("menu") /\ mux = "none" /\ mux' = "app_main"
        /\ UNCHANGED <<step, made, lvglPc, script>>
    BY <1>6 DEF MenuBegins, AppLocks, Lock, bootVars, hapticVars, chipVars
  <2> QED BY <2>1 DEF TakenInTurn, Booting, LvglRuns
<1>7. CASE MenuBuilt
  <2>1. /\ Booting("menu") /\ mux = "app_main" /\ mux' = "none"
        /\ made' = made \cup {"menu"} /\ UNCHANGED <<lvglPc, script>>
    BY <1>7 DEF MenuBuilt, AppUnlocks, Unlock, Make, hapticVars, chipVars
  <2>2. ~Booting("haptic") /\ (LvglRuns => LvglRuns')
    BY <2>1 DEF Booting, LvglRuns
  <2> QED BY <2>1, <2>2 DEF TakenInTurn
<1> QED BY <1>3, <1>4, <1>5, <1>6, <1>7 DEF AppMain

(* A step of a task or an interrupt, while app_main stands where it stands. *)
LEMMA TurnOfUser ==
  ASSUME IInv, TakenInTurn, LvglTask \/ HapticInitStep \/ Panel \/ Finger
  PROVE  TakenInTurn'
<1>1. /\ UNCHANGED <<step, made>> /\ BootInv
      /\ \A part : Booting(part)' <=> Booting(part)
      /\ LvglRuns' <=> LvglRuns
  BY DEF IInv, LvglTask, Port, ReadInput, Callback, HapticInitStep, Panel,
     Finger, bootVars, Booting, LvglRuns
<1>2. CASE Port
  <2>1. LvglRuns /\ UNCHANGED script
    BY <1>2 DEF Port, hapticVars, chipVars
  <2>2. CASE HandlerBegins
    <3>1. lvglPc = "sleep" /\ lvglPc' # "sleep" /\ mux' = "lvgl"
      BY <2>2 DEF HandlerBegins, Lock
    <3> QED BY <1>1, <2>1, <3>1 DEF TakenInTurn
  <2>3. CASE HandlerEnds
    <3>1. lvglPc = "handler" /\ lvglPc' = "sleep" /\ mux' = "none"
      BY <2>3 DEF HandlerEnds, Goto, Unlock
    <3> QED BY <1>1, <2>1, <3>1 DEF TakenInTurn
  <2>4. CASE Draw \/ Flush
    <3>1. lvglPc \notin {"sleep", "callback"} /\ lvglPc' # "sleep" /\ UNCHANGED mux
      BY <2>4 DEF Draw, DrawBegins, FlushBegins, FlushReturns, Flush, SwapBytes,
         SendCommand, QueueFresh, QueueRecycled, QueueChunk, Accept, Refuse,
         Goto
    <3> QED BY <1>1, <2>1, <3>1 DEF TakenInTurn
  <2> QED BY <1>2, <2>2, <2>3, <2>4 DEF Port
<1>3. CASE ReadInput
  <2>1. LvglRuns /\ lvglPc = "input" /\ lvglPc' = "callback" /\ UNCHANGED mux
    BY <1>3 DEF ReadInput, InputRead, Goto
  <2> QED BY <1>1, <2>1 DEF TakenInTurn
<1>4. CASE LvglRuns /\ lvglPc = "callback" /\ Haptics /\ UNCHANGED displayVars
  <2>1. UNCHANGED <<mux, lvglPc>>
    BY <1>4 DEF displayVars
  <2> QED BY <1>1, <1>4, <2>1 DEF TakenInTurn
<1>5. CASE CallbacksEnd /\ script = <<>> /\ UNCHANGED hapticVars
  <2>1. /\ lvglPc = "callback" /\ lvglPc' = "handler"
        /\ UNCHANGED mux /\ script' = <<>>
    BY <1>5 DEF CallbacksEnd, Goto, hapticVars, chipVars
  <2> QED BY <1>1, <2>1 DEF TakenInTurn
<1>6. CASE HapticInitStep
  <2>1. Booting("haptic") /\ UNCHANGED <<mux, lvglPc>>
    BY <1>6 DEF HapticInitStep, displayVars
  <2>2. ~LvglRuns
    BY <1>1, <2>1, HapticBeforeLvgl
  <2> QED BY <1>1, <2>1, <2>2 DEF TakenInTurn
<1>7. CASE Panel \/ Finger
  <2>1. UNCHANGED <<mux, lvglPc, script>>
    BY <1>7 DEF Panel, TransferDone, Finger, FingerComesDown, FingerGoesUp,
       displayVars, hapticVars, chipVars
  <2> QED BY <1>1, <2>1 DEF TakenInTurn
<1> QED BY <1>2, <1>3, <1>4, <1>5, <1>6, <1>7 DEF LvglTask, Callback

THEOREM SharedInTurn == Spec => []TakenInTurn
<1>1. Init => TakenInTurn
  BY BootOrder DEF Init, DisplayInit, HapticInit, TakenInTurn
<1>2. IInv /\ TakenInTurn /\ [Next]_vars => TakenInTurn'
  <2> SUFFICES ASSUME IInv, TakenInTurn, [Next]_vars PROVE TakenInTurn'
    OBVIOUS
  <2>1. CASE CheckFails \/ InitRefused \/ Reset
    <3>1. mux' = "none" /\ lvglPc' = "sleep" /\ script' = <<>>
      BY <2>1 DEF CheckFails, InitRefused, Reset, Restart, DisplayReset,
         HapticReset, WriteRefused, Drops
    <3> QED BY <3>1 DEF TakenInTurn
  <2>2. CASE UNCHANGED vars
    BY <2>2 DEF vars, bootVars, displayVars, hapticVars, chipVars, TakenInTurn,
       Booting, LvglRuns
  <2> QED BY <2>1, <2>2, TurnOfAppMain, TurnOfUser DEF Next
<1> QED BY <1>1, <1>2, IInvariant, PTL DEF Spec
=============================================================================
