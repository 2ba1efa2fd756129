------------------------------ MODULE TransSend ------------------------------
(***************************************************************************)
(* One SDU's way from the application's socket to the DTAP channel, over   *)
(* three threads (nearlink_sle_datatransfer_service.cpp, transport.c,      *)
(* nlstk_schedule.c, sdf_worker.c):                                        *)
(*   - the port thread reads the socket and waits for a promise;           *)
(*   - the data transfer thread calls TRANS_SendData, which posts a task   *)
(*     to the stack thread and waits 500 ms on a semaphore;                *)
(*   - the stack thread runs the task on the channel (DtapTxWindow) and    *)
(*     posts the semaphore; an acknowledgement may make it call the        *)
(*     service back.                                                       *)
(* In DtapTxWindow and DtapReliable a write is one step.  Here it is the   *)
(* steps the threads really take, with the objects they share: the counted *)
(* TRANS_Data_S, its buffer, and the semaphore.  Traffic is one-way, so    *)
(* frames are simplex.                                                     *)
(***************************************************************************)
EXTENDS DtapSeq, SequencesExt, FiniteSets

CONSTANTS WindowSize, MaxTx, MaxFragNum, Sdus, FrameCnt, NoSdu, RxSeqs,
          Environments \* what surrounds a write, one of these per behaviour:
                       \* [toSend, what the application writes: distinct SDUs;
                       \*  timeouts, may a wait of 500 ms end before the task ran;
                       \*  postResults, outcomes of SDF_AddWork;
                       \*  linkResults, outcomes of CM_GetLogicLinkByAddr;
                       \*  sendOutcomes, outcomes of DTAP_SendFrame for a
                       \*                retransmission;
                       \*  disables, may the stack be shut down (ScheduleDisable)]

VARIABLES env,         \* the environment of this behaviour
          reader,      \* port thread: polling, in ReceivedData's loop, or waiting
          read,        \* messages taken from the socket
          dtQueue,     \* tasks of the data transfer thread
          dt,          \* what that thread is doing, and for which SDU
          busy,        \* transState = TRANSFER_BUSY
          stackQueue,  \* the stack thread's worker: SDF_Worker_S
          posting,     \* the SDU whose task has run but not posted its semaphore
          stack,       \* "running", "stopped" (thread joined), "destroyed" (worker gone)
          call,        \* call[s]: the objects of TRANS_SendData for s
          tx,          \* the channel's sending half
          sent         \* the SDUs that have entered the window

portVars == <<reader, read>>
serviceVars == <<dtQueue, dt, busy>>
stackVars == <<stackQueue, posting, stack>>
channelVars == <<tx, sent>>
vars == <<env, portVars, serviceVars, stackVars, call, channelVars>>

Write(s) == [do |-> "write", sdu |-> s]
Update == [do |-> "update", sdu |-> NoSdu]
Send(s) == [do |-> "send", sdu |-> s]
FreeSem(s) == [do |-> "freeSem", sdu |-> s]
Idle == [at |-> "idle", sdu |-> NoSdu]

NoCall == [ref |-> 0, sem |-> "none", semPosted |-> FALSE, buffFrees |-> 0,
           result |-> "NONE", answer |-> "NONE"]

\* What a caller that acted at once on every answer and call-back would know: the
\* refinement mapping for the service's state.
ToldBusy ==
    /\ busy \/ (dt.at # "idle" /\ call[dt.sdu].result = "TX_WINDOW_FULL")
    /\ ~ Contains(dtQueue, Update)

W == INSTANCE DtapTxWindow WITH busy <- ToldBusy

\* What DtapTxWindow assumes, and environments as described above.
ASSUME TransAssumption ==
    /\ WindowSize \in 1 .. (SeqHalf - 1)
    /\ MaxTx \in Nat /\ MaxFragNum \in Nat
    /\ NoSdu \notin Sdus
    /\ FrameCnt \in [Sdus -> [BOOLEAN -> Nat \ {0}]]
    /\ RxSeqs \subseteq FrameSeq /\ 0 \in RxSeqs
    /\ \A e \in Environments :
          /\ e.toSend \in Seq(Sdus)
          /\ \A i, j \in 1 .. Len(e.toSend) : e.toSend[i] = e.toSend[j] => i = j
          /\ e.postResults \subseteq BOOLEAN
          /\ e.linkResults \subseteq BOOLEAN /\ e.sendOutcomes \subseteq BOOLEAN

Init ==
    /\ env \in Environments
    /\ reader = "poll" /\ read = 0
    /\ dtQueue = <<>> /\ dt = Idle /\ busy = FALSE
    /\ stackQueue = <<>> /\ posting = NoSdu /\ stack = "running"
    /\ call = [s \in Sdus |-> NoCall]
    /\ tx = W!InitTxWindow /\ sent = {}

-----------------------------------------------------------------------------
(* The port thread: SleDataTransferService::ReceivedData.                  *)

\* Mutant: the transfer state is not looked at.
MayReadAlways == read < Len(env.toSend)

\* The socket is polled level-triggered: data left in it wakes the thread again.
MayRead == ~ busy /\ read < Len(env.toSend)

ReceivedData ==
    /\ reader = "poll" /\ MayRead
    /\ reader' = "loop"
    /\ UNCHANGED <<env, read, serviceVars, stackVars, call, channelVars>>

\* A message is read and handed to the data transfer thread.
ReadMessage ==
    /\ reader = "loop" /\ read < Len(env.toSend)
    /\ read' = read + 1
    /\ dtQueue' = Append(dtQueue, Write(env.toSend[read + 1]))
    /\ reader' = "wait"
    /\ UNCHANGED <<env, dt, busy, stackVars, call, channelVars>>

\* The application has not written more yet: the short read ends the loop.
ReadNothing ==
    /\ reader = "loop"
    /\ reader' = "poll"
    /\ UNCHANGED <<env, read, serviceVars, stackVars, call, channelVars>>

\* Mutant: the loop goes on after TRANS_BUSY.
LoopOnBusy(answer) == "loop"
AfterAnswer(answer) == IF answer = "TRANS_BUSY" THEN "poll" ELSE "loop"

TakeAnswer ==
    /\ reader = "wait" /\ call[env.toSend[read]].answer # "NONE"
    /\ reader' = AfterAnswer(call[env.toSend[read]].answer)
    /\ UNCHANGED <<env, read, serviceVars, stackVars, call, channelVars>>

-----------------------------------------------------------------------------
(* The data transfer thread: WriteData, TRANS_SendData,                    *)
(* SchedulePostTaskBlocked.                                                *)

NextIs(do) == dt = Idle /\ dtQueue # <<>> /\ Head(dtQueue).do = do

\* SendDataStateCallback's task: UpdateTransferState(TRANSFER_AVAILABLE).
UpdateTransferState ==
    /\ NextIs("update")
    /\ dtQueue' = Tail(dtQueue)
    /\ busy' = FALSE
    /\ UNCHANGED <<env, dt, portVars, stackVars, call, channelVars>>

\* Outcomes of SchedulePostTask: the worker may refuse a task.  ScheduleDisable clears
\* the event handle, and then the worker, after the thread has been joined.
PostResults ==
    CASE stack = "running" -> env.postResults
      [] stack = "stopped" -> env.postResults \cup {FALSE}
      [] stack = "destroyed" -> {FALSE}

\* Mutant: the task is posted without a reference of its own.
RefsNotRetained == 1
\* One reference of the caller's and, retained before the post, one of the task's.
RefsAtPost == 2

\* TRANS_SendData up to SDF_SemTimeWait.
PostSend ==
    /\ NextIs("write") /\ TRUE \in PostResults
    /\ LET s == Head(dtQueue).sdu
       IN  /\ call' = [call EXCEPT ![s].ref = RefsAtPost, ![s].sem = "live"]
           /\ stackQueue' = Append(stackQueue, Send(s))
           /\ dt' = [at |-> "wait", sdu |-> s]
    /\ dtQueue' = Tail(dtQueue)
    /\ UNCHANGED <<env, busy, portVars, posting, stack, channelVars>>

\* Mutant: the reference retained for the task is forgotten.
PostFailedNoRelease(c) ==
    [c EXCEPT !.ref = 1, !.sem = "freed", !.buffFrees = @ + 1, !.answer = "TRANS_FAIL"]
\* TRANS_PostTaskToSendDataFailed, the task not posted: both references go, and the
\* buffer.
PostFailed(c) ==
    [c EXCEPT !.ref = 0, !.sem = "freed", !.buffFrees = @ + 1, !.answer = "TRANS_FAIL"]

PostSendFails ==
    /\ NextIs("write") /\ FALSE \in PostResults
    /\ call' = [call EXCEPT ![Head(dtQueue).sdu] = PostFailed(@)]
    /\ dtQueue' = Tail(dtQueue)
    /\ UNCHANGED <<env, dt, busy, portVars, stackVars, channelVars>>

\* TRANS_CovertDtapErrorCode, then the cases WriteData tells apart.
Answer(result) ==
    CASE result = "TX_WINDOW_FULL" -> "TRANS_BUSY"
      [] result = "SUCCESS" -> "TRANS_SUCCESS"
      [] OTHER -> "TRANS_FAIL"

\* The semaphore was posted: it is freed, the result read, the reference dropped.
SendReturns ==
    /\ dt.at = "wait" /\ call[dt.sdu].semPosted
    /\ call' = [call EXCEPT ![dt.sdu].sem = "freed", ![dt.sdu].ref = @ - 1,
                            ![dt.sdu].answer = Answer(call[dt.sdu].result)]
    /\ busy' = (busy \/ call[dt.sdu].result = "TX_WINDOW_FULL")
    /\ dt' = Idle
    /\ UNCHANGED <<env, dtQueue, portVars, stackVars, channelVars>>

\* SDF_SemTimeWait gives up.  The task may still post before the next step.
SendTimesOut ==
    /\ env.timeouts
    /\ dt.at = "wait" /\ ~ call[dt.sdu].semPosted
    /\ dt' = [dt EXCEPT !.at = "late"]
    /\ UNCHANGED <<env, dtQueue, busy, portVars, stackVars, call, channelVars>>

\* Mutant: the caller frees the semaphore itself.
FreeSemNow(s) == {[queue |-> stackQueue, sem |-> "freed"]}
\* The semaphore is freed by the stack thread, behind the task that posts it; but when
\* that task is refused SchedulePostTask frees the semaphore at once, on this thread.
FreeSemLater(s) ==
    {IF posted THEN [queue |-> Append(stackQueue, FreeSem(s)), sem |-> call[s].sem]
     ELSE [queue |-> stackQueue, sem |-> "refused"] : posted \in PostResults}

\* TRANS_PostTaskToSendDataFailed, the wait timed out: only the caller's reference goes.
SendAbandoned ==
    /\ dt.at = "late"
    /\ \E f \in FreeSemLater(dt.sdu) :
         /\ stackQueue' = f.queue
         /\ call' = [call EXCEPT ![dt.sdu].sem = f.sem, ![dt.sdu].ref = @ - 1,
                                 ![dt.sdu].answer = "TRANS_FAIL"]
    /\ dt' = Idle
    /\ UNCHANGED <<env, dtQueue, busy, portVars, posting, stack, channelVars>>

-----------------------------------------------------------------------------
(* The stack thread: SDF_WorkerRunOnce, and the channel's events.          *)

StackFree == stack = "running" /\ posting = NoSdu
NextTask(do) == StackFree /\ stackQueue # <<>> /\ Head(stackQueue).do = do

EnterWindow(t) == sent' = sent \cup {t.txList[i].sdu : i \in 1 .. Len(t.txList)}

\* TRANS_SendDataProc: the buffer is freed on every path, by DTAP or here.
SendDataProc ==
    /\ NextTask("send")
    /\ \E linked \in env.linkResults, ok \in env.sendOutcomes :
         LET s == Head(stackQueue).sdu
             r == IF linked THEN W!SendEnhanceFrame(tx, s, FALSE, 0, ok)
                  ELSE W!Result(tx, <<>>, "LOGIC_LINK_NOT_FOUND")
         IN  /\ tx' = r.tx /\ EnterWindow(r.tx)
             /\ call' = [call EXCEPT ![s].result = r.ret, ![s].ref = @ - 1,
                                     ![s].buffFrees = @ + 1]
             /\ posting' = s
    /\ stackQueue' = Tail(stackQueue)
    /\ UNCHANGED <<env, stack, portVars, serviceVars>>

\* Mutant: the semaphore is posted on success only.
PostOnSuccess(c) == [c EXCEPT !.semPosted = (c.result = "SUCCESS")]
PostSem(c) == [c EXCEPT !.semPosted = TRUE]

\* The rest of RunTaskBlocked.
RunTaskBlocked ==
    /\ posting # NoSdu
    /\ call' = [call EXCEPT ![posting] = PostSem(@)]
    /\ posting' = NoSdu
    /\ UNCHANGED <<env, stackQueue, stack, portVars, serviceVars, channelVars>>

FreeSemTask ==
    /\ NextTask("freeSem")
    /\ call' = [call EXCEPT ![Head(stackQueue).sdu].sem = "freed"]
    /\ stackQueue' = Tail(stackQueue)
    /\ UNCHANGED <<env, posting, stack, portVars, serviceVars, channelVars>>

\* Mutant: the call-back sets the state itself, on the stack thread.
StateCallbackDirect(cbk) == busy' = (busy /\ ~ cbk) /\ UNCHANGED dtQueue
\* TRANS_ChannelStatusChangeCbk, SendDataStateCallback: the call-back posts a task.
SendDataStateCallback(cbk) ==
    dtQueue' = (IF cbk THEN Append(dtQueue, Update) ELSE dtQueue) /\ UNCHANGED busy

\* An answer of the peer.
RecvReqSeq ==
    /\ StackFree
    /\ \E reqSeq \in FrameSeq, sBit \in BOOLEAN, ok \in env.sendOutcomes :
         LET r == W!RecvAck(tx, reqSeq, sBit, FALSE, 0, ok)
         IN  tx' = r.tx /\ EnterWindow(r.tx) /\ SendDataStateCallback(r.cbk)
    /\ UNCHANGED <<env, dt, portVars, stackVars, call>>

RetransTimer ==
    /\ StackFree /\ tx.retransTimer
    /\ \E ok \in env.sendOutcomes : tx' = W!RetransTimerExpire(tx, ok).tx
    /\ UNCHANGED <<env, portVars, serviceVars, stackVars, call, sent>>

\* ScheduleDisable: the thread is joined first, and the worker destroyed with what was
\* posted to it meanwhile.  FreeBlockTask has no freeCb to call for a queued send.
ScheduleStop ==
    /\ env.disables /\ StackFree
    /\ stack' = "stopped"
    /\ UNCHANGED <<env, stackQueue, posting, portVars, serviceVars, call, channelVars>>

DestroyWorker ==
    /\ stack = "stopped"
    /\ stack' = "destroyed"
    /\ call' = [s \in Sdus |-> IF Contains(stackQueue, FreeSem(s))
                               THEN [call[s] EXCEPT !.sem = "freed"] ELSE call[s]]
    /\ stackQueue' = <<>>
    /\ UNCHANGED <<env, posting, portVars, serviceVars, channelVars>>

-----------------------------------------------------------------------------
PortThread == ReceivedData \/ ReadMessage \/ ReadNothing \/ TakeAnswer
DtThread == UpdateTransferState \/ PostSend \/ PostSendFails
               \/ SendReturns \/ SendTimesOut \/ SendAbandoned
Worker == SendDataProc \/ RunTaskBlocked \/ FreeSemTask
StackThread == Worker \/ RecvReqSeq \/ RetransTimer
Shutdown == ScheduleStop \/ DestroyWorker

Next == PortThread \/ DtThread \/ StackThread \/ Shutdown

\* Each thread serves its own queue; nothing is assumed of the peer's answers.
Fairness == WF_vars(TakeAnswer) /\ WF_vars(DtThread) /\ WF_vars(Worker)

Spec == Init /\ [][Next]_vars
FairSpec == Spec /\ Fairness

-----------------------------------------------------------------------------
(* Properties.                                                             *)

\* The threads that still use s's TRANS_Data_S.
Holders(s) ==
    {h \in {"caller", "task"} :
        \/ h = "caller" /\ dt.at # "idle" /\ dt.sdu = s
        \/ h = "task" /\ Contains(stackQueue, Send(s))}

\* Whoever finishes last frees a TRANS_Data_S (TRANS_TransportDataFree): while the
\* caller or the task still uses it, it has a reference for each of them, also when
\* the wait times out before, while or after the task runs.
NoUseAfterFree == \A s \in Sdus : Cardinality(Holders(s)) <= call[s].ref

\* A semaphore outlives every thread that may still touch it, however the time-out
\* and the task's post are ordered (SchedulePostTaskBlocked, RunTaskBlocked).  There is
\* one exception: if the worker refuses the FreeSem task after a time-out, the semaphore
\* is gone although the first task, still queued or running, will post it.
SemOutlivesUse ==
    \A s \in Sdus :
        /\ (dt.at # "idle" /\ dt.sdu = s) \/ Contains(stackQueue, FreeSem(s))
               => call[s].sem = "live"
        /\ posting = s \/ Contains(stackQueue, Send(s))
               => call[s].sem \in {"live", "refused"}

\* Once no thread uses a call's objects any more, the TRANS_Data_S and the semaphore
\* are freed and the buffer has been freed exactly once.
Freed(s) ==
    \/ call[s] = NoCall
    \/ Holders(s) # {} \/ posting = s \/ Contains(stackQueue, FreeSem(s))
    \/ call[s].ref = 0 /\ call[s].sem \in {"freed", "refused"} /\ call[s].buffFrees = 1

\* Nothing is leaked, whichever of the caller and the task is last, while the stack has
\* its worker (TRANS_TransportDataFree, TRANS_PostTaskToSendDataFailed, FreeSem).
NoLeak == stack # "destroyed" => \A s \in Sdus : Freed(s)

\* No wake-up is lost between the threads: a service that holds its reader back is
\* still owed the channel's call-back, or has its task in the queue.
BusyIsOwedUpdate == busy => tx.isTxWindowFull \/ Contains(dtQueue, Update)

\* An SDU the service took for sent or kept (TRANS_SUCCESS, TRANS_BUSY) is in the
\* window, has been there, or is kept in cacheBuff, unless the channel has given up.
\* (Not so when a wait may time out: a late "full" answer is lost, and the SDU written
\* next is dropped although it was answered with "full".)
AcceptedIsSentOrKept ==
    \/ tx.release \/ env.timeouts
    \/ \A s \in Sdus : call[s].answer \in {"TRANS_SUCCESS", "TRANS_BUSY"}
                          => s \in sent \/ tx.cacheBuff = s

\* Until the channel gives up, and as long as no wait times out, the threads' steps
\* implement the one-step write of DtapTxWindow: what is proved of that module holds
\* of the real, split write.  (A channel that gives up in the middle of a write stays marked full while its caller is
\* not busy, and the call-back that then comes can undo the next "busy".)
ImplementsTxWindow == W!Init /\ [][env.timeouts \/ tx'.release \/ W!Next]_(W!vars)

\* The port thread never waits for ever for its promise.
WriteReturns == (reader = "wait") ~> (reader # "wait")
=============================================================================
