---------------------------- MODULE DisplayFlush ----------------------------
(***************************************************************************)
(* How pixels get from LVGL to the panel: lvgl_port_task runs LVGL under   *)
(* lvgl_mux, LVGL draws an area into one of two buffers and calls          *)
(* lvgl_flush_cb, which swaps the bytes of the pixels in place and hands   *)
(* the buffer to the panel IO of esp_lcd.  The panel IO sends a command,   *)
(* then queues the pixels in chunks as SPI transactions with descriptors   *)
(* of a pool; after the last chunk the DMA interrupt calls                 *)
(* notify_lvgl_flush_ready.                                                *)
(*                                                                         *)
(* LVGL, the SH8601 driver and the SPI driver are external.  LVGL draws    *)
(* into one buffer while the other is sent, waits for the end of a flush   *)
(* before it begins the next, and changes buffers after each.              *)
(***************************************************************************)
EXTENDS Naturals, Sequences, Faults

CONSTANTS
  QueueDepth,  \* trans_queue_depth, the size of the pool of descriptors
  MaxChunks,   \* bound: chunks of one area
  MaxAreas     \* bound: areas drawn in one call of lv_timer_handler

ASSUME DisplayAssumption ==
  /\ QueueDepth \in Nat \ {0}
  /\ MaxChunks \in Nat \ {0}
  /\ MaxAreas \in Nat

Buffer == {"buf1", "buf2"}

(* Mutant of Other: the same buffer twice.                                 *)
SameBuffer(b) == b

(* app_main gives LVGL two buffers, which it uses in turn.                 *)
Other(b) == IF b = "buf1" THEN "buf2" ELSE "buf1"

VARIABLES
  mux,         \* who holds lvgl_mux
  lvglPc,      \* where the LVGL task is
  areas,       \* areas still to be drawn in this call
  active,      \* the buffer LVGL draws into
  order,       \* per buffer: whose byte order its pixels are in
  flushing,    \* LVGL has yet to see for lv_display_flush_ready
  chunksLeft,  \* chunks of the area not yet queued
  inflight,    \* num_trans_inflight
  queue,       \* transactions the SPI driver has yet to finish
  finished,    \* descriptors of finished ones, not yet recycled
  transferRefused  \* history: a call into the SPI driver failed

displayVars == <<mux, lvglPc, areas, active, order, flushing, chunksLeft,
                 inflight, queue, finished, transferRefused>>

lvgl == <<areas, active>>
io   == <<inflight, queue, finished>>

Descriptor  == 0..(QueueDepth - 1)
Transaction == [desc : Descriptor, buffer : Buffer, last : BOOLEAN]

IoTypeOK ==
  /\ inflight \in 0..QueueDepth
  /\ queue \in Seq(Transaction)
  /\ finished \in Seq(Descriptor)

DisplayTypeOK ==
  /\ mux \in {"none", "lvgl", "app_main"}
  /\ lvglPc \in {"sleep", "input", "callback", "handler", "draw", "swap",
                 "command", "chunk", "return"}
  /\ areas \in 0..MaxAreas
  /\ active \in Buffer
  /\ order \in [Buffer -> {"lvgl", "panel"}]
  /\ flushing \in BOOLEAN
  /\ chunksLeft \in 0..MaxChunks
  /\ transferRefused \in BOOLEAN
  /\ IoTypeOK

DisplayInit ==
  /\ mux      = "none"
  /\ lvglPc   = "sleep"
  /\ areas    = 0
  /\ active   = "buf1"
  /\ order    = [b \in Buffer |-> "lvgl"]
  /\ flushing = FALSE
  /\ chunksLeft = 0
  /\ inflight = 0
  /\ queue    = <<>>
  /\ finished = <<>>
  /\ transferRefused = FALSE

Goto(from, to) == lvglPc = from /\ lvglPc' = to

-----------------------------------------------------------------------------
(* lvgl_lock(-1) and lvgl_unlock, here and in app_main.                    *)
Lock(task)   == mux = "none" /\ mux' = task
Unlock(task) == mux = task /\ mux' = "none"

AppLocks ==
  /\ Lock("app_main")
  /\ UNCHANGED <<lvglPc, lvgl, order, flushing, chunksLeft, io,
                 transferRefused, faults>>

AppUnlocks ==
  /\ Unlock("app_main")
  /\ UNCHANGED <<lvglPc, lvgl, order, flushing, chunksLeft, io,
                 transferRefused, faults>>

(* lvgl_port_task: lv_timer_handler reads the touch panel when that is     *)
(* due, and draws what has become invalid.                                 *)
HandlerBegins ==
  /\ lvglPc = "sleep" /\ lvglPc' \in {"input", "handler"}
  /\ Lock("lvgl")
  /\ areas' \in 0..MaxAreas
  /\ UNCHANGED <<active, order, flushing, chunksLeft, io, transferRefused,
                 faults>>

HandlerEnds ==
  /\ areas = 0
  /\ Goto("handler", "sleep")
  /\ Unlock("lvgl")
  /\ UNCHANGED <<lvgl, order, flushing, chunksLeft, io, transferRefused,
                 faults>>

(* The touch callback, and the callbacks of the widget it hits, run here.  *)
InputRead ==
  /\ Goto("input", "callback")
  /\ UNCHANGED <<mux, lvgl, order, flushing, chunksLeft, io, transferRefused>>

CallbacksEnd ==
  /\ Goto("callback", "handler")
  /\ UNCHANGED <<mux, lvgl, order, flushing, chunksLeft, io, transferRefused,
                 faults>>

-----------------------------------------------------------------------------
(* LVGL (external): it draws for a while, during which the other buffer    *)
(* may be on its way to the panel, and waits for the end of that.          *)
DrawBegins ==
  /\ areas > 0
  /\ Goto("handler", "draw")
  /\ order' = [order EXCEPT ![active] = "lvgl"]
  /\ UNCHANGED <<mux, lvgl, flushing, chunksLeft, io, transferRefused, faults>>

FlushBegins ==
  /\ Goto("draw", "swap")
  /\ ~flushing /\ flushing' = TRUE
  /\ UNCHANGED <<mux, lvgl, order, chunksLeft, io, transferRefused, faults>>

FlushReturns ==
  /\ Goto("return", "handler")
  /\ active' = Other(active)
  /\ areas'  = areas - 1
  /\ UNCHANGED <<mux, order, flushing, chunksLeft, io, transferRefused, faults>>

-----------------------------------------------------------------------------
(* lvgl_flush_cb: each pixel's bytes are swapped, whatever order they are  *)
(* in, ...                                                                 *)
SwapBytes ==
  /\ Goto("swap", "command")
  /\ order' = [order EXCEPT ![active] =
                 IF @ = "lvgl" THEN "panel" ELSE "lvgl"]
  /\ UNCHANGED <<mux, lvgl, flushing, chunksLeft, io, transferRefused, faults>>

(* ... and the result of esp_lcd_panel_draw_bitmap is ignored.             *)
Refuse ==
  /\ Fails
  /\ transferRefused' = TRUE
  /\ lvglPc' = "return"
  /\ chunksLeft' = 0

Accept(pc) == Works /\ UNCHANGED transferRefused /\ lvglPc' = pc

(* The commands for the window and for the pixels are polled: they go out  *)
(* when all queued transactions have finished and are recycled, one result *)
(* after the other, any of which may be refused.                           *)
RecycleFirst(k) ==
  /\ inflight' = inflight - k
  /\ finished' = SubSeq(finished, k + 1, Len(finished))

SendCommand ==
  /\ lvglPc = "command"
  /\ \/ /\ queue = <<>> /\ RecycleFirst(Len(finished))
        /\ Accept("chunk") /\ chunksLeft' \in 1..MaxChunks
     \/ Refuse /\ \E k \in 0..Len(finished) : RecycleFirst(k)
  /\ UNCHANGED <<mux, lvgl, order, flushing, queue>>

(* panel_io_spi_tx_color: the next descriptor of the pool is taken ...     *)
PoolHasNext == inflight < QueueDepth

(* Mutant of Chunk: the last is taken for one with more to come.           *)
ChunkNeverLast(d) == [desc |-> d, buffer |-> active, last |-> chunksLeft = 0]

(* ... and queued with a chunk; the last chunk has en_trans_done_cb set.   *)
Chunk(d) == [desc |-> d, buffer |-> active, last |-> chunksLeft = 1]

QueueChunk(d, held) ==
  \/ /\ Accept(IF chunksLeft = 1 THEN "return" ELSE "chunk")
     /\ queue'      = Append(queue, Chunk(d))
     /\ inflight'   = held + 1
     /\ chunksLeft' = chunksLeft - 1
  \/ Refuse /\ inflight' = held /\ UNCHANGED queue

QueueFresh ==
  /\ lvglPc = "chunk" /\ PoolHasNext
  /\ QueueChunk(inflight, inflight)
  /\ UNCHANGED <<mux, lvgl, order, flushing, finished>>

(* Mutant of QueueRecycled: the descriptor is found by the count again.    *)
QueueRecycledByCount ==
  /\ lvglPc = "chunk" /\ ~PoolHasNext
  /\ finished # <<>> /\ finished' = Tail(finished)
  /\ QueueChunk(inflight - 1, inflight - 1)
  /\ UNCHANGED <<mux, lvgl, order, flushing>>

(* When the pool is used up, the oldest finished descriptor is recycled.   *)
QueueRecycled ==
  /\ lvglPc = "chunk" /\ ~PoolHasNext
  /\ finished # <<>> /\ finished' = Tail(finished)
  /\ QueueChunk(Head(finished), inflight - 1)
  /\ UNCHANGED <<mux, lvgl, order, flushing>>

(* A transaction has been sent: lcd_spi_post_trans_color_cb and, after the *)
(* last chunk, notify_lvgl_flush_ready in the interrupt.                   *)
TransferDone ==
  /\ queue # <<>>
  /\ queue'    = Tail(queue)
  /\ finished' = Append(finished, Head(queue).desc)
  /\ flushing' = (flushing /\ ~Head(queue).last)
  /\ UNCHANGED <<mux, lvglPc, lvgl, order, chunksLeft, inflight,
                 transferRefused, faults>>

(* A reset of the ESP32 ends its transfers.                                *)
DisplayReset ==
  /\ mux'      = "none"
  /\ lvglPc'   = "sleep"
  /\ areas'    = 0
  /\ active'   = "buf1"
  /\ order'    = [b \in Buffer |-> "lvgl"]
  /\ flushing' = FALSE
  /\ chunksLeft' = 0
  /\ inflight' = 0
  /\ queue'    = <<>>
  /\ finished' = <<>>
  /\ transferRefused' = FALSE

Draw  == DrawBegins \/ FlushBegins \/ FlushReturns
Flush == SwapBytes \/ SendCommand \/ QueueFresh \/ QueueRecycled

-----------------------------------------------------------------------------
BufferIdle(b) == \A i \in DOMAIN queue : queue[i].buffer # b

NotDrawnWhileSent == lvglPc \in {"draw", "swap"} => BufferIdle(active)

SentInPanelOrder == \A i \in DOMAIN queue : order[queue[i].buffer] = "panel"

(* What the panel is sent is what LVGL has drawn, in the panel's byte      *)
(* order: no buffer is drawn into, or swapped, while a transaction reads   *)
(* it, and each is swapped once between drawing and sending.               *)
SentIntact == NotDrawnWhileSent /\ SentInPanelOrder

(* The descriptors of the pool that the SPI driver holds are distinct, and *)
(* the one taken next is not among them, though it is found by a count.    *)
DescriptorsDistinct ==
  /\ inflight = Len(queue) + Len(finished)
  /\ \A i, j \in DOMAIN queue : queue[i].desc = queue[j].desc => i = j
  /\ \A i, j \in DOMAIN finished : finished[i] = finished[j] => i = j
  /\ \A i \in DOMAIN queue, j \in DOMAIN finished : queue[i].desc # finished[j]
  /\ lvglPc = "chunk" /\ PoolHasNext =>
       /\ \A i \in DOMAIN queue : queue[i].desc # inflight
       /\ \A i \in DOMAIN finished : finished[i] # inflight

(* LVGL is told that a flush is over after its last byte only, and it      *)
(* waits for ever only because a transfer was refused: when nothing is     *)
(* being sent, the end of the last flush has been reported.                *)
ReadyMeansSent == ~flushing => queue = <<>>

HangHasCause == lvglPc = "draw" /\ flushing /\ queue = <<>> => transferRefused

FlushEndsWithTransfer == ReadyMeansSent /\ HangHasCause
=============================================================================
