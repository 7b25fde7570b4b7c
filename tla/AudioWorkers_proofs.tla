------------------------ MODULE AudioWorkers_proofs ------------------------
(* Proofs about AudioWorkers, for every number of hand-off polls and every *)
(* set of Start buttons.                                                   *)
EXTENDS AudioWorkers, TLAPS

(* What Uses says of each worker.                                          *)
LEMMA UsesFacts ==
  /\ Uses["mic"] = {"I2S0"}
  /\ Uses["dac"] = {"I2S1"}
  /\ Uses["loop"] = Controller
  BY DEF Uses, Worker, Controller

-----------------------------------------------------------------------------
(* Type correctness.                                                       *)

LEMMA RequestStopType ==
  ASSUME TypeOK, NEW r \in Requester, RequestStop(r)
  PROVE  TypeOK'
<1>1. ASSUME toStop[r] # <<>>
      PROVE  Target(r) \in Worker /\ Tail(toStop[r]) \in Seq(Worker)
  BY <1>1 DEF TypeOK, Target
<1>2. CASE RequestStopCheck(r)
  BY <1>1, <1>2 DEF RequestStopCheck, TypeOK, Step
<1>3. CASE RequestStopIdle(r)
  BY <1>1, <1>3 DEF RequestStopIdle, CallReturns, TypeOK, Step, TestState
<1>4. CASE RequestStopMark(r)
  BY <1>1, <1>4 DEF RequestStopMark, TypeOK, Step, TestState
<1>5. CASE RequestStopFlag(r)
  BY <1>1, <1>5 DEF RequestStopFlag, CallReturns, TypeOK, Step
<1> QED BY <1>2, <1>3, <1>4, <1>5 DEF RequestStop

LEMMA LaunchType ==
  ASSUME TypeOK, NEW w \in Worker, NEW s \in TestState, Launch(w, s)
  PROVE  TypeOK'
<1>1. "ERROR" \in TestState /\ {"OK", "NO_MEM"} \subseteq ErrorCode
      /\ "begin" \in PC
  BY DEF TestState, ErrorCode, PC
<1>2. testState' \in [Worker -> TestState] /\ lastError' \in [Worker -> ErrorCode]
  BY <1>1 DEF TypeOK, Launch
<1>3. taskHandle' \in [Worker -> BOOLEAN] /\ stopReq' \in [Worker -> BOOLEAN]
  BY DEF TypeOK, Launch
<1>4. pc' \in [Worker -> PC]
  BY <1>1 DEF TypeOK, Launch
<1> QED BY <1>2, <1>3, <1>4 DEF TypeOK, Launch, ui

LEMMA UserType ==
  ASSUME TypeOK, User \/ BackDone
  PROVE  TypeOK'
<1>1. CASE MicStart
  BY <1>1, LaunchType DEF MicStart, Worker, TestState
<1>2. CASE DacStart
  BY <1>2, LaunchType DEF DacStart, Worker, TestState
<1>3. CASE LoopbackStart
  BY <1>3, LaunchType DEF LoopbackStart, Worker, TestState
<1>4. ASSUME NEW w \in Worker, StopButton(w)
      PROVE  TypeOK'
  <2>1. <<w>> \in Seq(Worker)
    OBVIOUS
  <2> QED BY <1>4, <2>1 DEF StopButton, TypeOK
<1>5. CASE Back
  <2>1. <<"mic", "dac", "loop", "mic">> \in Seq(Worker)
    BY DEF Worker
  <2> QED BY <1>5, <2>1 DEF Back, TypeOK
<1>6. CASE OpenPage
  BY <1>6 DEF OpenPage, TypeOK
<1>7. CASE BackDone
  BY <1>7 DEF BackDone, TypeOK
<1> QED BY <1>1, <1>2, <1>3, <1>4, <1>5, <1>6, <1>7 DEF User

LEMMA OpenChannelType ==
  ASSUME TypeOK, NEW w \in Worker, NEW p \in Controller,
         NEW from, NEW to \in PC, OpenChannel(w, p, from, to)
  PROVE  TypeOK'
  BY DEF TypeOK, OpenChannel, Goto, ui

LEMMA FailType ==
  ASSUME TypeOK, NEW w \in Worker, NEW from, Fail(w, from)
  PROVE  TypeOK'
  BY DEF TypeOK, Fail, Goto, ui, TestState, ErrorCode, PC

LEMMA StreamType ==
  ASSUME TypeOK, NEW w \in Worker, NEW e \in ErrorCode,
         Publish(w, e) \/ SeeStop(w) \/ TransferFails(w)
  PROVE  TypeOK'
<1>1. CASE Publish(w, e)
  BY <1>1 DEF Publish, TypeOK, Goto, ui, TestState, PC
<1>2. CASE SeeStop(w)
  BY <1>2 DEF SeeStop, TypeOK, Goto, ui, PC
<1>3. CASE TransferFails(w)
  BY <1>3, FailType DEF TransferFails
<1> QED BY <1>1, <1>2, <1>3

LEMMA DeleteChannelType ==
  ASSUME TypeOK, NEW w \in Worker, NEW p \in Controller,
         NEW from, NEW to \in PC, DeleteChannel(w, p, from, to)
  PROVE  TypeOK'
  BY DEF TypeOK, DeleteChannel, Goto, ui

LEMMA FinishType ==
  ASSUME TypeOK, NEW w \in Worker, Finish(w)
  PROVE  TypeOK'
<1> USE DEF TypeOK, Goto, ui, PC
<1>1. CASE Settle(w)
  BY <1>1 DEF Settle, TestState, ErrorCode
<1>2. CASE ClearStop(w)
  BY <1>2 DEF ClearStop
<1>3. CASE ClearHandle(w)
  BY <1>3 DEF ClearHandle
<1> QED BY <1>1, <1>2, <1>3 DEF Finish

LEMMA MicType == ASSUME TypeOK, Mic PROVE TypeOK'
<1> USE DEF Worker, Controller, PC
<1>1. CASE MicOpen
  BY <1>1, OpenChannelType, FailType DEF MicOpen
<1>2. CASE MicCapture
  BY <1>2, StreamType DEF MicCapture, ErrorCode
<1>3. CASE MicCleanup
  BY <1>3, DeleteChannelType, FinishType DEF MicCleanup
<1> QED BY <1>1, <1>2, <1>3 DEF Mic

LEMMA DacType == ASSUME TypeOK, Dac PROVE TypeOK'
<1> USE DEF Worker, Controller, PC
<1>1. CASE DacBegin
  BY <1>1 DEF DacBegin, TypeOK, Goto, ui, TestState, ErrorCode
<1>2. CASE DacOpen
  BY <1>2, OpenChannelType, FailType DEF DacOpen
<1>3. CASE DacTone
  <2>1. lastError["dac"] \in ErrorCode
    BY DEF TypeOK
  <2> QED BY <1>3, <2>1, StreamType DEF DacTone
<1>4. CASE DacCleanup
  BY <1>4, DeleteChannelType, FinishType DEF DacCleanup
<1> QED BY <1>1, <1>2, <1>3, <1>4 DEF Dac

LEMMA LoopbackHandOffType == ASSUME TypeOK, LoopbackHandOff PROVE TypeOK'
<1> USE MaxWaitAssumption
    DEF TypeOK, Goto, ui, Worker, PC, TestState, ErrorCode
<1>1. CASE LoopbackRequested
  BY <1>1 DEF LoopbackRequested
<1>2. CASE LoopbackWait
  BY <1>2 DEF LoopbackWait
<1>3. CASE LoopbackStopped
  BY <1>3 DEF LoopbackStopped
<1>4. CASE LoopbackTimeout
  BY <1>4 DEF LoopbackTimeout
<1>5. CASE LoopbackTakeOver
  BY <1>5 DEF LoopbackTakeOver
<1> QED BY <1>1, <1>2, <1>3, <1>4, <1>5 DEF LoopbackHandOff

LEMMA LoopbackType == ASSUME TypeOK, Loopback PROVE TypeOK'
<1> USE DEF Worker, Controller, PC
<1>1. CASE LoopbackBegin
  <2>1. <<"mic", "dac">> \in Seq(Worker)
    OBVIOUS
  <2> QED BY <1>1, <2>1
      DEF LoopbackBegin, TypeOK, Goto, TestState, ErrorCode
<1>2. CASE LoopbackHandOff
  BY <1>2, LoopbackHandOffType
<1>3. CASE LoopbackOpenTx
  BY <1>3, OpenChannelType, FailType DEF LoopbackOpenTx
<1>4. CASE LoopbackOpenRx
  BY <1>4, OpenChannelType, FailType DEF LoopbackOpenRx
<1>5. CASE LoopbackStream
  <2>1. lastError["loop"] \in ErrorCode
    BY DEF TypeOK
  <2> QED BY <1>5, <2>1, StreamType DEF LoopbackStream
<1>6. CASE LoopbackCleanup
  BY <1>6, DeleteChannelType, FinishType DEF LoopbackCleanup
<1> QED BY <1>1, <1>2, <1>3, <1>4, <1>5, <1>6 DEF Loopback

LEMMA InitType == Init => TypeOK
  BY MaxWaitAssumption
     DEF Init, TypeOK, Worker, Controller, PC, TestState, ErrorCode, NoOwner,
         Requester, Step

LEMMA NextType == TypeOK /\ [Next]_vars => TypeOK'
<1> SUFFICES ASSUME TypeOK, [Next]_vars PROVE TypeOK'
  OBVIOUS
<1>1. CASE User \/ BackDone
  BY <1>1, UserType
<1>2. CASE Mic
  BY <1>2, MicType
<1>3. CASE Dac
  BY <1>3, DacType
<1>4. CASE Loopback
  BY <1>4, LoopbackType
<1>5. ASSUME NEW r \in Requester, RequestStop(r) PROVE TypeOK'
  BY <1>5, RequestStopType
<1>6. CASE UNCHANGED vars
  BY <1>6 DEF vars, TypeOK
<1> QED BY <1>1, <1>2, <1>3, <1>4, <1>5, <1>6 DEF Next

(* Every variable of the audio workers stays in its type.                  *)
THEOREM TypeCorrect == Spec => []TypeOK
  BY InitType, NextType, PTL DEF Spec

-----------------------------------------------------------------------------
(* The inductive invariant.  It speaks of the handles, the program         *)
(* counters, the channel pointers and the driver only, so the actions that *)
(* leave those alone keep it.                                              *)

core == <<taskHandle, pc, chan, owner>>

LEMMA CoreUnchanged ==
  ASSUME IInv, TypeOK', UNCHANGED core
  PROVE  IInv'
  BY DEF core, IInv, HandleInv, ChanInv, OwnerInv, HandOffInv

LEMMA RequestStopInv ==
  ASSUME IInv, TypeOK', NEW r \in Requester, RequestStop(r)
  PROVE  IInv'
<1>1. UNCHANGED core
  BY DEF RequestStop, RequestStopCheck, RequestStopIdle, RequestStopMark,
         RequestStopFlag, core
<1> QED BY <1>1, CoreUnchanged

(* A worker is launched while nothing of it is left, and the meters only   *)
(* while there is no loopback worker.                                      *)
LEMMA LaunchInv ==
  ASSUME IInv, TypeOK', NEW w \in Worker, NEW s, Launch(w, s),
         ~taskHandle[w], w # "loop" => ~taskHandle["loop"]
  PROVE  IInv'
<1> USE DEF IInv
<1>1. CASE UNCHANGED <<taskHandle, pc>>
  BY <1>1, CoreUnchanged DEF Launch, core
<1>2. CASE /\ taskHandle' = [taskHandle EXCEPT ![w] = TRUE]
           /\ pc' = [pc EXCEPT ![w] = "begin"]
  <2>1. pc[w] = "none" /\ chan[w] = {} /\ UNCHANGED <<chan, owner>>
    BY DEF HandleInv, ChanInv, Channelless, Launch
  <2>2. w # "loop" => pc["loop"] = "none" /\ chan["loop"] = {}
    BY DEF HandleInv, ChanInv, Channelless, Worker
  <2>3. HandleInv'
    BY <1>2 DEF HandleInv, TypeOK
  <2>4. ChanInv'
    BY <1>2, <2>1 DEF ChanInv, TypeOK, Worker, Channelless
  <2>5. OwnerInv'
    BY <2>1 DEF OwnerInv
  <2>6. HandOffInv'
    BY <1>2, <2>1, <2>2 DEF HandOffInv, TypeOK, Worker, WorkingPC
  <2> QED BY <2>3, <2>4, <2>5, <2>6
<1> QED BY <1>1, <1>2 DEF Launch

LEMMA UserInv ==
  ASSUME IInv, TypeOK', User \/ BackDone
  PROVE  IInv'
<1>1. CASE MicStart
  BY <1>1, LaunchInv DEF MicStart, Inactive, Worker
<1>2. CASE DacStart
  BY <1>2, LaunchInv DEF DacStart, Inactive, Worker
<1>3. CASE LoopbackStart
  BY <1>3, LaunchInv DEF LoopbackStart, Inactive, Worker
<1>4. CASE (\E w \in Worker : StopButton(w)) \/ Back \/ OpenPage \/ BackDone
  BY <1>4, CoreUnchanged DEF StopButton, Back, OpenPage, BackDone, core
<1> QED BY <1>1, <1>2, <1>3, <1>4 DEF User

-----------------------------------------------------------------------------
(* A step of worker w that moves its program counter and leaves handles,   *)
(* channels and driver alone.                                              *)
LEMMA MoveInv ==
  ASSUME IInv, TypeOK', NEW w \in Worker, NEW from, NEW to,
         Goto(w, from, to), UNCHANGED <<taskHandle, chan, owner>>,
         from # "none", to # "none",
         to \in Channelless => chan[w] = {},
         to \notin {"openRx", "releaseTx"},
         (w = "loop" /\ to \in WorkingPC)
           => from \in WorkingPC \/ (pc["mic"] = "none" /\ pc["dac"] = "none")
  PROVE  IInv'
<1> USE DEF IInv
<1>1. HandleInv'
  BY DEF HandleInv, Goto, TypeOK
<1>2. ChanInv'
  BY DEF ChanInv, Goto, TypeOK, Worker
<1>3. OwnerInv'
  BY DEF OwnerInv
<1>4. HandOffInv'
  BY DEF HandOffInv, Goto, TypeOK, Worker
<1> QED BY <1>1, <1>2, <1>3, <1>4

LEMMA OpenChannelInv ==
  ASSUME IInv, TypeOK', NEW w \in Worker, NEW p \in Uses[w],
         NEW from \in {"begin", "open", "openRx"},
         NEW to \in {"configure", "openRx"},
         OpenChannel(w, p, from, to),
         w = "loop" => from \in WorkingPC,
         to = "openRx" => w = "loop" /\ from = "open" /\ p = "I2S1"
  PROVE  IInv'
<1> USE DEF IInv
<1>0. p \in Controller
  BY UsesFacts DEF Worker, Controller
<1>1. HandleInv'
  BY DEF HandleInv, OpenChannel, Goto, TypeOK
<1>2. ChanInv'
  BY DEF ChanInv, OpenChannel, Goto, TypeOK, Worker, Channelless
<1>3. OwnerInv'
  <2>1. NoOwner \notin Worker
    BY DEF NoOwner, Worker
  <2> QED BY <1>0, <2>1 DEF OwnerInv, OpenChannel, TypeOK
<1>4. HandOffInv'
  BY DEF HandOffInv, OpenChannel, Goto, TypeOK, Worker, WorkingPC
<1> QED BY <1>1, <1>2, <1>3, <1>4

LEMMA DeleteChannelInv ==
  ASSUME IInv, TypeOK', NEW w \in Worker, NEW p \in Controller,
         NEW from \in {"release", "releaseTx"},
         NEW to \in {"releaseTx", "settle"},
         DeleteChannel(w, p, from, to),
         to = "settle" => chan[w] \subseteq {p},
         to = "releaseTx" => w = "loop" /\ p = "I2S0"
  PROVE  IInv'
<1> USE DEF IInv
<1>1. HandleInv'
  BY DEF HandleInv, DeleteChannel, Goto, TypeOK
<1>2. ChanInv'
  <2>1. /\ chan' = [chan EXCEPT ![w] = @ \ {p}]
        /\ pc' = [pc EXCEPT ![w] = to]
    BY DEF DeleteChannel, Goto
  <2>2. w = "loop" /\ to = "releaseTx" => chan'["loop"] \subseteq {"I2S1"}
    BY <2>1, UsesFacts DEF ChanInv, TypeOK, Worker, Controller
  <2> QED BY <2>1, <2>2 DEF ChanInv, TypeOK, Worker, Channelless
<1>3. OwnerInv'
  <2>1. NoOwner \notin Worker
    BY DEF NoOwner, Worker
  <2> QED BY <2>1 DEF OwnerInv, DeleteChannel, TypeOK
<1>4. HandOffInv'
  BY DEF HandOffInv, DeleteChannel, Goto, TypeOK, Worker, WorkingPC
<1> QED BY <1>1, <1>2, <1>3, <1>4

LEMMA FailInv ==
  ASSUME IInv, TypeOK', NEW w \in Worker, NEW from, from # "none",
         Fail(w, from)
  PROVE  IInv'
<1>1. Goto(w, from, "release") /\ UNCHANGED <<taskHandle, chan, owner>>
  BY DEF Fail
<1> QED BY <1>1, MoveInv DEF Channelless, WorkingPC

LEMMA StreamInv ==
  ASSUME IInv, TypeOK', NEW w \in Worker, NEW e,
         Publish(w, e) \/ SeeStop(w) \/ TransferFails(w)
  PROVE  IInv'
<1>1. CASE Publish(w, e)
  <2>1. Goto(w, "configure", "poll") /\ UNCHANGED <<taskHandle, chan, owner>>
    BY <1>1 DEF Publish
  <2> QED BY <2>1, MoveInv DEF Channelless, WorkingPC
<1>2. CASE SeeStop(w)
  <2>1. Goto(w, "poll", "release") /\ UNCHANGED <<taskHandle, chan, owner>>
    BY <1>2 DEF SeeStop
  <2> QED BY <2>1, MoveInv DEF Channelless, WorkingPC
<1>3. CASE TransferFails(w)
  BY <1>3, FailInv DEF TransferFails
<1> QED BY <1>1, <1>2, <1>3

LEMMA FinishInv ==
  ASSUME IInv, TypeOK', NEW w \in Worker, Finish(w)
  PROVE  IInv'
<1> USE DEF IInv
<1>1. CASE Settle(w) \/ ClearStop(w)
  <2>1. chan[w] = {}
    BY <1>1 DEF Settle, ClearStop, Goto, ChanInv, Channelless
  <2>2. UNCHANGED <<taskHandle, chan, owner>>
    BY <1>1 DEF Settle, ClearStop
  <2>3. CASE Goto(w, "settle", "clearStop")
    BY <2>1, <2>2, <2>3, MoveInv DEF WorkingPC
  <2>4. CASE Goto(w, "clearStop", "clearHandle")
    BY <2>1, <2>2, <2>4, MoveInv DEF WorkingPC
  <2> QED BY <1>1, <2>3, <2>4 DEF Settle, ClearStop
<1>2. CASE ClearHandle(w)
  <2>1. HandleInv'
    BY <1>2 DEF HandleInv, ClearHandle, Goto, TypeOK
  <2>2. ChanInv'
    BY <1>2 DEF ChanInv, ClearHandle, Goto, TypeOK, Worker, Channelless
  <2>3. OwnerInv'
    BY <1>2 DEF OwnerInv, ClearHandle
  <2>4. HandOffInv'
    BY <1>2 DEF HandOffInv, ClearHandle, Goto, TypeOK, Worker, WorkingPC
  <2> QED BY <2>1, <2>2, <2>3, <2>4
<1> QED BY <1>1, <1>2 DEF Finish

LEMMA MicInv == ASSUME IInv, TypeOK', Mic PROVE IInv'
<1> USE DEF Worker, Controller
<1>1. CASE MicOpen
  BY <1>1, UsesFacts, OpenChannelInv, FailInv DEF MicOpen
<1>2. CASE MicCapture
  BY <1>2, StreamInv DEF MicCapture
<1>3. CASE MicCleanup
  <2>1. chan["mic"] \subseteq {"I2S0"}
    BY UsesFacts DEF IInv, ChanInv
  <2> QED BY <1>3, <2>1, DeleteChannelInv, FinishInv DEF MicCleanup
<1> QED BY <1>1, <1>2, <1>3 DEF Mic

LEMMA DacInv == ASSUME IInv, TypeOK', Dac PROVE IInv'
<1> USE DEF Worker, Controller
<1>1. CASE DacBegin
  <2>1. /\ Goto("dac", "begin", "open")
        /\ UNCHANGED <<taskHandle, chan, owner>>
    BY <1>1 DEF DacBegin
  <2>2. chan["dac"] = {}
    BY <2>1 DEF Goto, IInv, ChanInv, Channelless
  <2> QED BY <2>1, <2>2, MoveInv DEF WorkingPC
<1>2. CASE DacOpen
  BY <1>2, UsesFacts, OpenChannelInv, FailInv DEF DacOpen
<1>3. CASE DacTone
  BY <1>3, StreamInv DEF DacTone
<1>4. CASE DacCleanup
  <2>1. chan["dac"] \subseteq {"I2S1"}
    BY UsesFacts DEF IInv, ChanInv
  <2> QED BY <1>4, <2>1, DeleteChannelInv, FinishInv DEF DacCleanup
<1> QED BY <1>1, <1>2, <1>3, <1>4 DEF Dac

LEMMA LoopbackHandOffInv ==
  ASSUME IInv, TypeOK', LoopbackHandOff
  PROVE  IInv'
<1>1. "loop" \in Worker
  BY DEF Worker
<1>2. CASE LoopbackWait
  BY <1>2, CoreUnchanged DEF LoopbackWait, core
<1>3. CASE LoopbackRequested
  <2>1. /\ Goto("loop", "request", "wait") /\ chan["loop"] = {}
        /\ UNCHANGED <<taskHandle, chan, owner>>
    BY <1>1, <1>3 DEF LoopbackRequested, Goto, IInv, ChanInv, Channelless
  <2> QED BY <1>1, <2>1, MoveInv DEF WorkingPC
<1>4. CASE LoopbackStopped \/ LoopbackTimeout
  <2>1. /\ Goto("loop", "wait", "release")
        /\ UNCHANGED <<taskHandle, chan, owner>>
    BY <1>4 DEF LoopbackStopped, LoopbackTimeout
  <2> QED BY <1>1, <2>1, MoveInv DEF Channelless, WorkingPC
<1>5. CASE LoopbackTakeOver
  <2>1. /\ Goto("loop", "wait", "open") /\ chan["loop"] = {}
        /\ UNCHANGED <<taskHandle, chan, owner>>
    BY <1>1, <1>5 DEF LoopbackTakeOver, Goto, IInv, ChanInv, Channelless
  <2>2. pc["mic"] = "none" /\ pc["dac"] = "none"
    BY <1>5 DEF LoopbackTakeOver, OthersBusy, IInv, HandleInv, Worker
  <2> QED BY <1>1, <2>1, <2>2, MoveInv DEF WorkingPC
<1> QED BY <1>2, <1>3, <1>4, <1>5 DEF LoopbackHandOff

LEMMA LoopbackInv == ASSUME IInv, TypeOK', Loopback PROVE IInv'
<1> USE DEF Worker, Controller
<1>1. CASE LoopbackBegin
  <2>1. /\ Goto("loop", "begin", "request") /\ chan["loop"] = {}
        /\ UNCHANGED <<taskHandle, chan, owner>>
    BY <1>1 DEF LoopbackBegin, Goto, IInv, ChanInv, Channelless
  <2> QED BY <2>1, MoveInv DEF WorkingPC
<1>2. CASE LoopbackHandOff
  BY <1>2, LoopbackHandOffInv
<1>3. CASE LoopbackOpenTx
  BY <1>3, UsesFacts, OpenChannelInv, FailInv DEF LoopbackOpenTx, WorkingPC
<1>4. CASE LoopbackOpenRx
  BY <1>4, UsesFacts, OpenChannelInv, FailInv DEF LoopbackOpenRx, WorkingPC
<1>5. CASE LoopbackStream
  BY <1>5, StreamInv DEF LoopbackStream
<1>6. CASE LoopbackCleanup
  <2>1. CASE DeleteChannel("loop", "I2S0", "release", "releaseTx")
    BY <2>1, DeleteChannelInv
  <2>2. CASE DeleteChannel("loop", "I2S1", "releaseTx", "settle")
    <3>1. chan["loop"] \subseteq {"I2S1"}
      BY <2>2 DEF DeleteChannel, Goto, IInv, ChanInv
    <3> QED BY <2>2, <3>1, DeleteChannelInv
  <2> QED BY <1>6, <2>1, <2>2, FinishInv DEF LoopbackCleanup
<1> QED BY <1>1, <1>2, <1>3, <1>4, <1>5, <1>6 DEF Loopback

LEMMA InitInv == Init => IInv
<1> SUFFICES ASSUME Init PROVE IInv
  OBVIOUS
<1>1. TypeOK
  BY InitType
<1>2. HandleInv /\ ChanInv /\ HandOffInv
  BY DEF Init, HandleInv, ChanInv, HandOffInv, Channelless, WorkingPC, Worker
<1>3. OwnerInv
  BY DEF Init, OwnerInv, NoOwner, Worker
<1> QED BY <1>1, <1>2, <1>3 DEF IInv

LEMMA NextInv == IInv /\ [Next]_vars => IInv'
<1> SUFFICES ASSUME IInv, [Next]_vars PROVE IInv'
  OBVIOUS
<1>1. TypeOK'
  BY NextType DEF IInv
<1>2. CASE User \/ BackDone
  BY <1>1, <1>2, UserInv
<1>3. CASE Mic
  BY <1>1, <1>3, MicInv
<1>4. CASE Dac
  BY <1>1, <1>4, DacInv
<1>5. CASE Loopback
  BY <1>1, <1>5, LoopbackInv
<1>6. ASSUME NEW r \in Requester, RequestStop(r) PROVE IInv'
  BY <1>1, <1>6, RequestStopInv
<1>7. CASE UNCHANGED vars
  BY <1>1, <1>7, CoreUnchanged DEF vars, core
<1> QED BY <1>2, <1>3, <1>4, <1>5, <1>6, <1>7 DEF Next

(* The inductive invariant holds in every reachable state.                 *)
THEOREM InvariantHolds == Spec => []IInv
  BY InitInv, NextInv, PTL DEF Spec

-----------------------------------------------------------------------------
(* What it gives.                                                          *)

LoopbackAlone ==
  Claims("loop") # {} => Claims("mic") = {} /\ Claims("dac") = {}

LEMMA ClaimsFacts ==
  IInv => LoopbackAlone /\ \A w \in Worker : Claims(w) \subseteq Uses[w]
<1> SUFFICES ASSUME IInv
             PROVE  LoopbackAlone
                      /\ \A w \in Worker : Claims(w) \subseteq Uses[w]
  OBVIOUS
<1>1. \A w \in Worker : Claims(w) \subseteq Uses[w]
  BY DEF IInv, ChanInv, Claims
<1>2. ASSUME Claims("loop") # {}
      PROVE  Claims("mic") = {} /\ Claims("dac") = {}
  <2>1. pc["mic"] = "none" /\ pc["dac"] = "none"
    BY <1>2 DEF Claims, IInv, HandOffInv
  <2>2. chan["mic"] = {} /\ chan["dac"] = {}
    BY <2>1 DEF IInv, ChanInv, Channelless, Worker
  <2> QED BY <2>1, <2>2 DEF Claims, WorkingPC
<1> QED BY <1>1, <1>2 DEF LoopbackAlone

LEMMA ClaimsFactsNext == IInv' => LoopbackAlone'
  BY ClaimsFacts, PTL

(* Two audio tasks never configure or drive the same I2S controller at the *)
(* same time, however long the hand-off polls.                             *)
THEOREM MutualExclusion == Spec => []ControllerExclusive
<1>1. IInv => ControllerExclusive
  BY ClaimsFacts, UsesFacts DEF ControllerExclusive, LoopbackAlone, Worker
<1> QED BY <1>1, InvariantHolds, PTL

(* Whoever opens a channel finds the controller free.                      *)
THEOREM NoRefusal == Spec => []OpenFindsControllerFree
<1>1. IInv => OpenFindsControllerFree
  <2> SUFFICES ASSUME IInv PROVE OpenFindsControllerFree
    OBVIOUS
  <2>1. ASSUME NEW p \in Controller, \A w \in Worker : p \notin chan[w]
        PROVE  owner[p] = NoOwner
    BY <2>1 DEF IInv, OwnerInv, TypeOK
  <2>2. ASSUME pc["loop"] \in WorkingPC
        PROVE  chan["mic"] = {} /\ chan["dac"] = {}
    BY <2>2 DEF IInv, HandOffInv, ChanInv, Channelless, Worker
  <2>3. chan["loop"] # {} => pc["mic"] = "none" /\ pc["dac"] = "none"
    BY DEF IInv, HandOffInv
  <2>4. chan["mic"] \subseteq {"I2S0"} /\ chan["dac"] \subseteq {"I2S1"}
    BY UsesFacts DEF IInv, ChanInv, Worker
  <2>5. pc["mic"] = "begin" => owner["I2S0"] = NoOwner
    BY <2>1, <2>3, <2>4 DEF IInv, ChanInv, Channelless, Worker, Controller
  <2>6. pc["dac"] = "open" => owner["I2S1"] = NoOwner
    BY <2>1, <2>3, <2>4 DEF IInv, ChanInv, Channelless, Worker, Controller
  <2>7. pc["loop"] = "open" => owner["I2S1"] = NoOwner
    BY <2>1, <2>2 DEF IInv, ChanInv, Channelless, Worker, Controller, WorkingPC
  <2>8. pc["loop"] = "openRx" => owner["I2S0"] = NoOwner
    BY <2>1, <2>2 DEF IInv, ChanInv, Worker, Controller, WorkingPC
  <2> QED BY <2>5, <2>6, <2>7, <2>8 DEF OpenFindsControllerFree
<1> QED BY <1>1, InvariantHolds, PTL

(* A worker whose handle is NULL left no channel behind.                   *)
THEOREM NothingLeftBehind == Spec => []NoOrphanedChannel
<1>1. IInv => NoOrphanedChannel
  BY DEF IInv, HandleInv, ChanInv, OwnerInv, Channelless, NoOrphanedChannel
<1> QED BY <1>1, InvariantHolds, PTL

-----------------------------------------------------------------------------
(* Errors.                                                                 *)

LEMMA ErrorStep ==
  ASSUME TypeOK, ErrorHasCause, [Next]_vars
  PROVE  ErrorHasCause'
<1> USE DEF ErrorHasCause, TypeOK
<1>1. ASSUME NEW w \in Worker, NEW s, Launch(w, s), s # "ERROR"
      PROVE  ErrorHasCause'
  BY <1>1 DEF Launch
<1>2. ASSUME NEW w \in Worker, NEW from, Fail(w, from)
      PROVE  ErrorHasCause'
  BY <1>2 DEF Fail
<1>3. ASSUME NEW w \in Worker, Finish(w)
      PROVE  ErrorHasCause'
  BY <1>3 DEF Finish, Settle, ClearStop, ClearHandle
<1>4. ASSUME NEW w \in Worker, NEW e,
             Publish(w, e) \/ SeeStop(w) \/ TransferFails(w)
      PROVE  ErrorHasCause'
  BY <1>2, <1>4 DEF Publish, SeeStop, TransferFails
<1>5. ASSUME UNCHANGED <<testState, lastError>> PROVE ErrorHasCause'
  BY <1>5
<1>6. CASE User \/ BackDone
  BY <1>1, <1>5, <1>6 DEF User, MicStart, DacStart, LoopbackStart, StopButton,
                          Back, OpenPage, BackDone, Worker
<1>7. CASE Mic
  BY <1>2, <1>3, <1>4, <1>5, <1>7
     DEF Mic, MicOpen, MicCapture, MicCleanup, OpenChannel, DeleteChannel,
         Worker
<1>8. CASE Dac
  <2>1. CASE DacBegin
    BY <2>1 DEF DacBegin
  <2> QED BY <1>2, <1>3, <1>4, <1>5, <1>8, <2>1
          DEF Dac, DacOpen, DacTone, DacCleanup, OpenChannel, DeleteChannel,
              Worker
<1>9. CASE Loopback
  <2>1. CASE LoopbackBegin
    BY <2>1 DEF LoopbackBegin
  <2>2. CASE LoopbackTimeout
    BY <2>2 DEF LoopbackTimeout
  <2>3. CASE LoopbackTakeOver
    BY <2>3 DEF LoopbackTakeOver
  <2>4. CASE LoopbackRequested \/ LoopbackWait \/ LoopbackStopped
    BY <1>5, <2>4 DEF LoopbackRequested, LoopbackWait, LoopbackStopped
  <2>5. CASE LoopbackOpenTx \/ LoopbackOpenRx
    BY <1>2, <1>5, <2>5 DEF LoopbackOpenTx, LoopbackOpenRx, OpenChannel, Worker
  <2>6. CASE LoopbackStream \/ LoopbackCleanup
    BY <1>3, <1>4, <1>5, <2>6
       DEF LoopbackStream, LoopbackCleanup, DeleteChannel, Worker
  <2> QED BY <1>9, <2>1, <2>2, <2>3, <2>4, <2>5, <2>6
          DEF Loopback, LoopbackHandOff
<1>10. ASSUME NEW r \in Requester, RequestStop(r) PROVE ErrorHasCause'
  <2>1. CASE RequestStopIdle(r)
    BY <1>10, <2>1 DEF RequestStopIdle, Target
  <2>2. CASE RequestStopMark(r)
    BY <1>10, <2>2 DEF RequestStopMark, Target
  <2> QED BY <1>5, <1>10, <2>1, <2>2
          DEF RequestStop, RequestStopCheck, RequestStopFlag
<1>11. CASE UNCHANGED vars
  BY <1>5, <1>11 DEF vars
<1> QED BY <1>6, <1>7, <1>8, <1>9, <1>10, <1>11 DEF Next

(* A worker that reads ERROR still has the code of the error.              *)
THEOREM ErrorKeepsCause == Spec => []ErrorHasCause
<1>1. Init => ErrorHasCause
  BY DEF Init, ErrorHasCause
<1> QED BY <1>1, ErrorStep, TypeCorrect, PTL DEF Spec

-----------------------------------------------------------------------------
(* Stop requests.                                                          *)

(* A worker that lives has been told to stop, or is past looking.          *)
Asked(w) == taskHandle[w] => stopReq[w] \/ pc[w] = "clearHandle"

Listed(r, w) == \E i \in DOMAIN toStop[r] : toStop[r][i] = w

(* A call that found a handle NULL finds it NULL until it returns.         *)
CallInv ==
  \A r \in Requester :
    /\ callStep[r] # "check" => toStop[r] # <<>>
    /\ callStep[r] = "idle"  => ~taskHandle[Target(r)]

(* Whoever is to be stopped before the page is left, or before the hand-off*)
(* begins to wait, has been asked or is still on the list.                 *)
AskInv ==
  /\ CallInv
  /\ toStop["loop"] # <<>> => pc["loop"] = "request"
  /\ ~Listed("loop", "loop")
  /\ page = "leaving" => \A w \in Worker : Asked(w) \/ Listed("ui", w)
  /\ page = "other" => toStop["ui"] = <<>> /\ \A w \in Worker : Asked(w)
  /\ pc["loop"] = "request" =>
       \A w \in {"mic", "dac"} : Asked(w) \/ Listed("loop", w)
  /\ pc["loop"] = "wait" => \A w \in {"mic", "dac"} : Asked(w)

LEMMA ListedOnce ==
  ASSUME NEW s \in Seq(Worker), s # <<>>, NEW w
  PROVE  (\E i \in DOMAIN s : s[i] = w)
           <=> w = Head(s) \/ \E i \in DOMAIN Tail(s) : Tail(s)[i] = w
<1>1. /\ Len(s) \in Nat \ {0} /\ DOMAIN s = 1..Len(s) /\ Head(s) = s[1]
      /\ DOMAIN Tail(s) = 1..(Len(s) - 1)
      /\ \A i \in 1..(Len(s) - 1) : Tail(s)[i] = s[i + 1]
  OBVIOUS
<1>2. ASSUME NEW i \in DOMAIN s, s[i] = w, i # 1
      PROVE  \E j \in DOMAIN Tail(s) : Tail(s)[j] = w
  <2>1. i - 1 \in DOMAIN Tail(s) /\ Tail(s)[i - 1] = w
    BY <1>1, <1>2
  <2> QED BY <2>1
<1>3. ASSUME NEW j \in DOMAIN Tail(s), Tail(s)[j] = w
      PROVE  \E i \in DOMAIN s : s[i] = w
  <2>1. j + 1 \in DOMAIN s /\ s[j + 1] = w
    BY <1>1, <1>3
  <2> QED BY <2>1
<1>4. 1 \in DOMAIN s
  BY <1>1
<1> QED BY <1>1, <1>2, <1>3, <1>4

(* Most steps have no part in this: they end tasks and start none.         *)
Aside ==
  /\ UNCHANGED <<toStop, callStep, page>>
  /\ \A v \in Worker : (taskHandle'[v] => taskHandle[v]) /\ (Asked(v) => Asked(v)')
  /\ pc["loop"] = "request" => pc'["loop"] = "request"
  /\ pc'["loop"] \in {"request", "wait"} => pc'["loop"] = pc["loop"]

LEMMA AsideKeeps == ASSUME TypeOK, AskInv, Aside PROVE AskInv'
<1>1. \A r \in Requester : toStop[r] # <<>> => Target(r) \in Worker
  BY DEF TypeOK, Target
<1>2. CallInv'
  BY <1>1 DEF AskInv, CallInv, Aside, Target
<1>3. \A r, w : Listed(r, w)' <=> Listed(r, w)
  BY DEF Aside, Listed
<1> QED BY <1>2, <1>3 DEF AskInv, Aside, Worker

(* What all workers have in common.                                        *)
LEMMA MoveAside ==
  ASSUME TypeOK, NEW w \in Worker, NEW from, NEW to, Goto(w, from, to),
         from \notin {"request", "clearHandle"}, to \notin {"request", "wait"},
         UNCHANGED <<stopReq, taskHandle, toStop, callStep, page>>
  PROVE  Aside
<1>1. \A v \in Worker : pc'[v] = IF v = w THEN to ELSE pc[v]
  BY DEF Goto, TypeOK
<1>2. pc[w] = from
  BY DEF Goto
<1>3. \A v \in Worker : Asked(v) => Asked(v)'
  BY <1>1, <1>2 DEF Asked
<1>4. "loop" \in Worker
  BY DEF Worker
<1> QED BY <1>1, <1>2, <1>3, <1>4 DEF Aside

LEMMA FinishAside == ASSUME TypeOK, NEW w \in Worker, Finish(w) PROVE Aside
<1>1. CASE Settle(w)
  BY <1>1, MoveAside DEF Settle, ui
<1>2. CASE ClearStop(w)
  BY <1>2 DEF ClearStop, Goto, TypeOK, Aside, Asked, ui
<1>3. CASE ClearHandle(w)
  BY <1>3 DEF ClearHandle, Goto, TypeOK, Aside, Asked, ui
<1> QED BY <1>1, <1>2, <1>3 DEF Finish

LEMMA WorkerAside ==
  ASSUME TypeOK, Mic \/ Dac \/ Loopback, ~LoopbackBegin, ~LoopbackRequested
  PROVE  Aside
<1>1. ASSUME NEW w \in Worker, NEW from, from \notin {"request", "clearHandle"},
             Fail(w, from)
      PROVE  Aside
  BY <1>1, MoveAside DEF Fail, ui
<1>2. ASSUME NEW w \in Worker, NEW e,
             Publish(w, e) \/ SeeStop(w) \/ TransferFails(w)
      PROVE  Aside
  <2>1. CASE Publish(w, e)
    BY <2>1, MoveAside DEF Publish, ui
  <2>2. CASE SeeStop(w)
    BY <2>2, MoveAside DEF SeeStop, ui
  <2>3. CASE TransferFails(w)
    BY <1>1, <2>3 DEF TransferFails
  <2> QED BY <1>2, <2>1, <2>2, <2>3
<1>3. ASSUME NEW w \in Worker, NEW p, NEW from, NEW to,
             from \notin {"request", "clearHandle"}, to \notin {"request", "wait"},
             OpenChannel(w, p, from, to) \/ DeleteChannel(w, p, from, to)
      PROVE  Aside
  BY <1>3, MoveAside DEF OpenChannel, DeleteChannel, ui
<1>4. {"mic", "dac", "loop"} \subseteq Worker
  BY DEF Worker
<1>5. CASE Mic
  BY <1>1, <1>2, <1>3, <1>4, <1>5, FinishAside
     DEF Mic, MicOpen, MicCapture, MicCleanup
<1>6. CASE Dac
  <2>1. CASE DacBegin
    BY <1>4, <2>1, MoveAside DEF DacBegin, ui
  <2> QED BY <1>1, <1>2, <1>3, <1>4, <1>6, <2>1, FinishAside
          DEF Dac, DacOpen, DacTone, DacCleanup
<1>7. CASE Loopback
  <2>1. CASE LoopbackStopped \/ LoopbackTimeout \/ LoopbackTakeOver
    BY <1>4, <2>1, MoveAside
       DEF LoopbackStopped, LoopbackTimeout, LoopbackTakeOver, ui
  <2>2. CASE LoopbackWait
    BY <2>2 DEF LoopbackWait, Aside, Asked, ui
  <2>3. CASE LoopbackOpenTx \/ LoopbackOpenRx
    BY <1>1, <1>3, <1>4, <2>3 DEF LoopbackOpenTx, LoopbackOpenRx
  <2>4. CASE LoopbackStream \/ LoopbackCleanup
    BY <1>2, <1>3, <1>4, <2>4, FinishAside DEF LoopbackStream, LoopbackCleanup
  <2> QED BY <1>7, <2>1, <2>2, <2>3, <2>4 DEF Loopback, LoopbackHandOff
<1> QED BY <1>5, <1>6, <1>7

(* A worker is launched only while nobody is inside a stop request: the    *)
(* LVGL task starts it, and the loopback worker is not there.              *)
LEMMA LaunchAsks ==
  ASSUME IInv, AskInv, NEW w \in Worker, NEW s, Launch(w, s), UiIdle,
         ~taskHandle["loop"]
  PROVE  AskInv'
<1>1. pc["loop"] = "none"
  BY DEF IInv, HandleInv, Worker
<1>2. /\ toStop["loop"] = <<>> /\ toStop["ui"] = <<>> /\ page = "audio"
      /\ UNCHANGED <<toStop, callStep, page>>
  BY <1>1 DEF AskInv, UiIdle, Launch, ui
<1>3. pc'["loop"] \in {"none", "begin"}
  BY <1>1 DEF Launch, IInv, TypeOK, Worker
<1>4. \A r \in Requester : callStep[r] = "check"
  BY <1>2 DEF AskInv, CallInv, Requester
<1> QED BY <1>2, <1>3, <1>4 DEF AskInv, CallInv, Listed

LEMMA UserAsks ==
  ASSUME IInv, AskInv, User \/ BackDone
  PROVE  AskInv'
<1> USE DEF IInv, TypeOK
<1>1. CASE MicStart \/ DacStart \/ LoopbackStart
  BY <1>1, LaunchAsks DEF MicStart, DacStart, LoopbackStart, Inactive, Worker
<1>2. ASSUME NEW w \in Worker, StopButton(w) PROVE AskInv'
  <2>1. /\ toStop["ui"] = <<>> /\ page = "audio" /\ toStop'["loop"] = toStop["loop"]
        /\ UNCHANGED <<stopReq, taskHandle, pc, callStep, page>>
    BY <1>2 DEF StopButton, UiIdle, Requester
  <2>2. callStep["ui"] = "check"
    BY <2>1 DEF AskInv, CallInv, Requester
  <2> QED BY <2>1, <2>2 DEF AskInv, CallInv, Listed, Asked, Target, Requester
<1>3. CASE Back
  <2>1. /\ toStop["ui"] = <<>> /\ toStop'["loop"] = toStop["loop"]
        /\ toStop'["ui"] = <<"mic", "dac", "loop", "mic">> /\ page' = "leaving"
        /\ UNCHANGED <<stopReq, taskHandle, pc, callStep>>
    BY <1>3 DEF Back, UiIdle, Requester
  <2>2. callStep["ui"] = "check"
    BY <2>1 DEF AskInv, CallInv, Requester
  <2>3. \A w \in Worker : Listed("ui", w)'
    <3>1. /\ DOMAIN toStop'["ui"] = 1..4
          /\ toStop'["ui"][1] = "mic" /\ toStop'["ui"][2] = "dac"
          /\ toStop'["ui"][3] = "loop"
      BY <2>1
    <3> QED BY <3>1 DEF Listed, Worker
  <2>4. CallInv'
    BY <2>1, <2>2 DEF AskInv, CallInv, Target, Requester
  <2>5. \A w : (Asked(w)' <=> Asked(w)) /\ (Listed("loop", w)' <=> Listed("loop", w))
    BY <2>1 DEF Asked, Listed
  <2> QED BY <2>1, <2>3, <2>4, <2>5 DEF AskInv
<1>4. CASE BackDone
  <2>1. /\ page = "leaving" /\ toStop["ui"] = <<>>
        /\ UNCHANGED <<stopReq, taskHandle, pc, toStop, callStep>>
    BY <1>4 DEF BackDone
  <2>2. \A w : ~Listed("ui", w)
    BY <2>1 DEF Listed
  <2> QED BY <1>4, <2>1, <2>2 DEF BackDone, AskInv, CallInv, Listed, Asked,
                                  Target
<1>5. CASE OpenPage
  BY <1>5 DEF OpenPage, AskInv, CallInv, Listed, Asked, Target
<1> QED BY <1>1, <1>2, <1>3, <1>4, <1>5 DEF User

LEMMA RequestStopAsks ==
  ASSUME IInv, AskInv, NEW r \in Requester, RequestStop(r)
  PROVE  AskInv'
<1>0. /\ UNCHANGED <<taskHandle, pc, page>>
      /\ toStop \in [Requester -> Seq(Worker)] /\ callStep \in [Requester -> Step]
      /\ stopReq \in [Worker -> BOOLEAN]
  BY DEF RequestStop, RequestStopCheck, RequestStopIdle, RequestStopMark,
         RequestStopFlag, IInv, TypeOK
<1>1. CASE RequestStopCheck(r) \/ RequestStopMark(r)
  <2>1. /\ UNCHANGED <<toStop, stopReq>> /\ toStop[r] # <<>>
        /\ \A q \in Requester \ {r} : callStep'[q] = callStep[q]
        /\ callStep'[r] = "idle" => ~taskHandle[Target(r)]
    BY <1>0, <1>1 DEF RequestStopCheck, RequestStopMark, Step
  <2>2. CallInv'
    BY <1>0, <2>1 DEF AskInv, CallInv, Target
  <2> QED BY <1>0, <2>1, <2>2 DEF AskInv, Listed, Asked
<1>2. CASE RequestStopIdle(r) \/ RequestStopFlag(r)
  <2>1. /\ toStop[r] # <<>> /\ toStop'[r] = Tail(toStop[r])
        /\ \A q \in Requester \ {r} :
             toStop'[q] = toStop[q] /\ callStep'[q] = callStep[q]
        /\ callStep'[r] = "check"
    BY <1>0, <1>2 DEF RequestStopIdle, RequestStopFlag, CallReturns
  <2>a. PICK v \in Worker : v = Target(r)
    BY <1>0, <2>1 DEF Target
  <2>2. Asked(v)' /\ \A w \in Worker : Asked(w) => Asked(w)'
    <3>1. CASE RequestStopIdle(r)
      <4>1. UNCHANGED stopReq /\ ~taskHandle[v]
        BY <2>a, <3>1 DEF RequestStopIdle, AskInv, CallInv
      <4> QED BY <1>0, <4>1 DEF Asked
    <3>2. CASE RequestStopFlag(r)
      <4>1. stopReq' = [stopReq EXCEPT ![v] = TRUE]
        BY <2>a, <3>2 DEF RequestStopFlag
      <4> QED BY <1>0, <4>1 DEF Asked
    <3> QED BY <1>2, <3>1, <3>2
  <2>3. CallInv'
    BY <1>0, <2>1 DEF AskInv, CallInv, Target
  <2>4. ASSUME NEW w PROVE Listed(r, w) <=> w = v \/ Listed(r, w)'
    <3>1. toStop[r] \in Seq(Worker) /\ toStop[r] # <<>>
      BY <1>0, <2>1
    <3>2. (\E i \in DOMAIN toStop[r] : toStop[r][i] = w)
            <=> \/ w = Head(toStop[r])
                \/ \E i \in DOMAIN Tail(toStop[r]) : Tail(toStop[r])[i] = w
      BY <3>1, ListedOnce
    <3> QED BY <2>1, <2>a, <3>2 DEF Listed, Target
  <2>5. \A q \in Requester \ {r} : \A w : Listed(q, w)' <=> Listed(q, w)
    BY <2>1 DEF Listed
  <2>6. toStop["loop"] = <<>> => toStop'["loop"] = <<>>
    BY <2>1 DEF Requester
  <2>7. toStop["ui"] = <<>> => toStop'["ui"] = <<>>
    BY <2>1 DEF Requester
  <2>8. ~Listed("loop", "loop")'
    BY <2>4, <2>5 DEF AskInv, Requester
  <2>9. \A q \in Requester : \A w \in Worker :
          Asked(w) \/ Listed(q, w) => Asked(w)' \/ Listed(q, w)'
    BY <2>2, <2>4, <2>5
  <2> QED BY <1>0, <2>2, <2>3, <2>6, <2>7, <2>8, <2>9
          DEF AskInv, Requester, Worker
<1> QED BY <1>1, <1>2 DEF RequestStop

LEMMA LoopbackAsks ==
  ASSUME IInv, AskInv, LoopbackBegin \/ LoopbackRequested
  PROVE  AskInv'
<1> USE DEF IInv, TypeOK
<1>1. CASE LoopbackBegin
  <2>1. /\ pc["loop"] = "begin" /\ pc'["loop"] = "request"
        /\ toStop'["loop"] = <<"mic", "dac">> /\ toStop'["ui"] = toStop["ui"]
        /\ \A w \in Worker \ {"loop"} : pc'[w] = pc[w]
        /\ UNCHANGED <<stopReq, taskHandle, callStep, page>>
    BY <1>1 DEF LoopbackBegin, Goto, Requester, Worker
  <2>2. callStep["loop"] = "check"
    BY <2>1 DEF AskInv, CallInv, Requester
  <2>3. CallInv'
    BY <2>1, <2>2 DEF AskInv, CallInv, Requester, Target
  <2>4. Listed("loop", "mic")' /\ Listed("loop", "dac")' /\ ~Listed("loop", "loop")'
    <3>1. /\ DOMAIN toStop'["loop"] = 1..2
          /\ toStop'["loop"][1] = "mic" /\ toStop'["loop"][2] = "dac"
      BY <2>1
    <3> QED BY <3>1 DEF Listed
  <2>5. /\ \A w \in Worker : Asked(w) => Asked(w)'
        /\ \A w : Listed("ui", w)' <=> Listed("ui", w)
    BY <2>1 DEF Asked, Listed
  <2> QED BY <2>1, <2>3, <2>4, <2>5 DEF AskInv
<1>2. CASE LoopbackRequested
  <2>1. /\ pc["loop"] = "request" /\ pc'["loop"] = "wait" /\ toStop["loop"] = <<>>
        /\ \A w \in Worker \ {"loop"} : pc'[w] = pc[w]
        /\ UNCHANGED <<stopReq, taskHandle, toStop, callStep, page>>
    BY <1>2 DEF LoopbackRequested, Goto, Worker, ui
  <2>2. \A w : ~Listed("loop", w)
    BY <2>1 DEF Listed
  <2>3. /\ \A w \in Worker : Asked(w) => Asked(w)'
        /\ \A r, w : Listed(r, w)' <=> Listed(r, w)
    BY <2>1 DEF Asked, Listed
  <2>4. CallInv'
    BY <2>1 DEF AskInv, CallInv, Target
  <2> QED BY <2>1, <2>2, <2>3, <2>4 DEF AskInv, Worker
<1> QED BY <1>1, <1>2

LEMMA NextAsks == ASSUME IInv, AskInv, [Next]_vars PROVE AskInv'
<1>0. TypeOK
  BY DEF IInv
<1>1. CASE User \/ BackDone
  BY <1>1, UserAsks
<1>2. CASE (Mic \/ Dac \/ Loopback) /\ ~LoopbackBegin /\ ~LoopbackRequested
  BY <1>0, <1>2, WorkerAside, AsideKeeps
<1>3. CASE LoopbackBegin \/ LoopbackRequested
  BY <1>3, LoopbackAsks
<1>4. ASSUME NEW r \in Requester, RequestStop(r) PROVE AskInv'
  BY <1>4, RequestStopAsks
<1>5. CASE UNCHANGED vars
  <2>1. Aside
    BY <1>5 DEF vars, Aside, Asked
  <2> QED BY <1>0, <2>1, AsideKeeps
<1> QED BY <1>1, <1>2, <1>3, <1>4, <1>5 DEF Next

THEOREM AskInvariant == Spec => []AskInv
<1>1. Init => AskInv
  BY DEF Init, AskInv, CallInv, Asked, Listed, Requester, Worker
<1> QED BY <1>1, NextAsks, InvariantHolds, PTL DEF Spec

(* Once the page is left, no audio worker lives that has not been told to  *)
(* stop (main.c:3632-3633), and the hand-off waits only for workers that   *)
(* have been: what LeavingEndsAudio and HandOffEnds rest on.               *)
NobodyForgotten ==
  /\ page = "other" => \A w \in Worker : Asked(w)
  /\ pc["loop"] = "wait" => \A w \in {"mic", "dac"} : Asked(w)

THEOREM RequestsReachWorkers == Spec => []NobodyForgotten
<1>1. AskInv => NobodyForgotten
  BY DEF AskInv, NobodyForgotten
<1> QED BY <1>1, AskInvariant, PTL

(* A request that has reached a worker is not lost again: no other task,   *)
(* and no earlier point of the worker, resets the flag it still has to see.*)
RequestsLast ==
  [][\A w \in Worker : taskHandle[w] /\ Asked(w) => Asked(w)']_vars

THEOREM RequestsStay == Spec => RequestsLast
<1>1. ASSUME IInv, [Next]_vars, NEW w \in Worker, taskHandle[w], Asked(w)
      PROVE  Asked(w)'
  <2>1. ASSUME NEW v \in Worker, NEW s, Launch(v, s), ~taskHandle[v]
        PROVE  Asked(w)'
    BY <1>1, <2>1 DEF Launch, Asked, IInv, TypeOK
  <2>2. CASE User \/ BackDone
    BY <1>1, <2>1, <2>2 DEF User, BackDone, MicStart, DacStart, LoopbackStart,
       Inactive, StopButton, Back, OpenPage, Asked, Worker
  <2>3. CASE (Mic \/ Dac \/ Loopback) /\ ~LoopbackBegin /\ ~LoopbackRequested
    BY <1>1, <2>3, WorkerAside DEF IInv, Aside
  <2>4. CASE LoopbackBegin \/ LoopbackRequested
    BY <1>1, <2>4 DEF LoopbackBegin, LoopbackRequested, Goto, Asked, IInv,
       TypeOK
  <2>5. ASSUME NEW r \in Requester, RequestStop(r) PROVE Asked(w)'
    BY <1>1, <2>5 DEF RequestStop, RequestStopCheck, RequestStopIdle,
       RequestStopMark, RequestStopFlag, Asked, IInv, TypeOK
  <2>6. CASE UNCHANGED vars
    BY <1>1, <2>6 DEF vars, Asked
  <2> QED BY <1>1, <2>2, <2>3, <2>4, <2>5, <2>6 DEF Next
<1>2. IInv /\ [Next]_vars
        => [\A w \in Worker : taskHandle[w] /\ Asked(w) => Asked(w)']_vars
  BY <1>1
<1> QED BY <1>2, InvariantHolds, PTL DEF Spec, RequestsLast

-----------------------------------------------------------------------------
(* Refinement of the arbiter.  No step moves two workers, and a worker     *)
(* whose claims become nonempty finds nobody in conflict with it.          *)

OnlyMoves(w) ==
  \A v \in Worker \ {w} : pc'[v] = pc[v] /\ chan'[v] = chan[v]

LEMMA OneWorkerMoves ==
  ASSUME TypeOK, [Next]_vars
  PROVE  \E w \in Worker : OnlyMoves(w)
<1> USE DEF TypeOK
<1>1. ASSUME UNCHANGED <<pc, chan>> PROVE OnlyMoves("mic")
  BY <1>1 DEF OnlyMoves
<1>2. ASSUME NEW w \in Worker, NEW s, Launch(w, s) PROVE OnlyMoves(w)
  BY <1>2 DEF Launch, OnlyMoves
<1>3. ASSUME NEW w \in Worker, NEW from, Fail(w, from) PROVE OnlyMoves(w)
  BY <1>3 DEF Fail, Goto, OnlyMoves
<1>4. ASSUME NEW w \in Worker, Finish(w) PROVE OnlyMoves(w)
  BY <1>4 DEF Finish, Settle, ClearStop, ClearHandle, Goto, OnlyMoves
<1>5. ASSUME NEW w \in Worker, NEW e,
             Publish(w, e) \/ SeeStop(w) \/ TransferFails(w)
      PROVE  OnlyMoves(w)
  BY <1>3, <1>5 DEF Publish, SeeStop, TransferFails, Goto, OnlyMoves
<1>6. ASSUME NEW w \in Worker, NEW p, NEW from, NEW to,
             OpenChannel(w, p, from, to) \/ DeleteChannel(w, p, from, to)
      PROVE  OnlyMoves(w)
  BY <1>6 DEF OpenChannel, DeleteChannel, Goto, OnlyMoves
<1>7. CASE User \/ BackDone
  BY <1>1, <1>2, <1>7 DEF User, MicStart, DacStart, LoopbackStart, StopButton,
                          Back, OpenPage, BackDone, Worker
<1>8. CASE Mic
  BY <1>3, <1>4, <1>5, <1>6, <1>8 DEF Mic, MicOpen, MicCapture, MicCleanup,
                                      Worker
<1>9. CASE Dac
  <2>1. CASE DacBegin
    <3>1. OnlyMoves("dac")
      BY <2>1 DEF DacBegin, Goto, OnlyMoves
    <3> QED BY <3>1 DEF Worker
  <2> QED BY <1>3, <1>4, <1>5, <1>6, <1>9, <2>1
          DEF Dac, DacOpen, DacTone, DacCleanup, Worker
<1>10. CASE Loopback
  <2>1. CASE LoopbackBegin \/ LoopbackHandOff
    <3>1. OnlyMoves("loop")
      BY <2>1 DEF LoopbackBegin, LoopbackHandOff, LoopbackRequested,
                  LoopbackWait, LoopbackStopped, LoopbackTimeout,
                  LoopbackTakeOver, Goto, OnlyMoves
    <3> QED BY <3>1 DEF Worker
  <2>2. CASE LoopbackOpenTx \/ LoopbackOpenRx
    BY <1>3, <1>6, <2>2 DEF LoopbackOpenTx, LoopbackOpenRx, Worker
  <2>3. CASE LoopbackStream \/ LoopbackCleanup
    BY <1>4, <1>5, <1>6, <2>3 DEF LoopbackStream, LoopbackCleanup, Worker
  <2> QED BY <1>10, <2>1, <2>2, <2>3 DEF Loopback
<1>11. ASSUME NEW r \in Requester, RequestStop(r)
       PROVE  UNCHANGED <<pc, chan>>
  BY <1>11 DEF RequestStop, RequestStopCheck, RequestStopIdle,
               RequestStopMark, RequestStopFlag
<1>12. CASE UNCHANGED vars
  BY <1>1, <1>12 DEF vars, Worker
<1> QED BY <1>1, <1>7, <1>8, <1>9, <1>10, <1>11, <1>12 DEF Next, Worker

LEMMA ArbiterStep ==
  ASSUME IInv, IInv', NEW w \in Worker, OnlyMoves(w)
  PROVE  \/ Arbiter!Next
         \/ UNCHANGED {v \in Worker : Claims(v) # {}}
<1> DEFINE H == {v \in Worker : Claims(v) # {}}
<1>1. \A v \in Worker \ {w} : Claims(v)' = Claims(v)
  BY DEF OnlyMoves, Claims
<1>2. \A v \in Worker \ {w} : v \in H' <=> v \in H
  BY <1>1
<1>3. CASE w \in H <=> w \in H'
  <2>1. H' = H
    BY <1>2, <1>3
  <2> QED BY <2>1
<1>4. CASE w \in H /\ w \notin H'
  <2>1. H' = H \ {w}
    BY <1>2, <1>4
  <2>2. Arbiter!Release(w)
    BY <1>4, <2>1 DEF Arbiter!Release
  <2> QED BY <2>2 DEF Arbiter!Next
<1>5. CASE w \notin H /\ w \in H'
  <2>1. H' = H \cup {w}
    BY <1>2, <1>5
  <2>2. ASSUME NEW v \in H PROVE ~Arbiter!Conflict(v, w)
    <3>1. v \in H' /\ v # w
      BY <1>5, <2>1
    <3>2. Claims("loop")' # {} => Claims("mic")' = {} /\ Claims("dac")' = {}
      BY ClaimsFactsNext DEF LoopbackAlone
    <3> QED BY <1>5, <3>1, <3>2, UsesFacts DEF Arbiter!Conflict, Worker
  <2>3. Arbiter!Grant(w)
    BY <1>5, <2>1, <2>2 DEF Arbiter!Grant
  <2> QED BY <2>3 DEF Arbiter!Next
<1> QED BY <1>3, <1>4, <1>5

(* The audio workers implement the arbiter of the two controllers.         *)
THEOREM Refinement == Spec => ArbiterSpec
<1>1. Init => Arbiter!Init
  BY DEF Init, Arbiter!Init, Claims, WorkingPC, Worker
<1>2. IInv /\ IInv' /\ [Next]_vars
        => [Arbiter!Next]_{w \in Worker : Claims(w) # {}}
  BY OneWorkerMoves, ArbiterStep DEF IInv
<1> QED BY <1>1, <1>2, InvariantHolds, PTL DEF Spec, ArbiterSpec, Arbiter!Spec
=============================================================================
