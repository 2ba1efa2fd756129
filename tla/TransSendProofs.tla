--------------------------- MODULE TransSendProofs ---------------------------
(***************************************************************************)
(* The objects that the threads of a write share, for every window, every  *)
(* sequence of SDUs and every interleaving of time-outs, failures and      *)
(* shutdown.                                                               *)
(***************************************************************************)
EXTENDS TransSend, ListLemmas, FiniteSetTheorems

-----------------------------------------------------------------------------
(* The inductive invariant.                                                *)

\* Who may still touch the objects of s: the caller, its queued task, the queued free.
Caller(s) == dt.at # "idle" /\ dt.sdu = s
Queued(s) == Contains(stackQueue, Send(s))
FreeQueued(s) == Contains(stackQueue, FreeSem(s))
One(b) == IF b THEN 1 ELSE 0

\* Nobody has begun with s.
Untouched(s) ==
    /\ call[s] = NoCall
    /\ ~ Caller(s) /\ ~ Queued(s) /\ ~ FreeQueued(s) /\ posting # s

\* What becomes of the objects of s once TRANS_SendData has been called for it.
Alive(s) ==
    /\ IF Caller(s) \/ FreeQueued(s) THEN call[s].sem = "live"
       ELSE call[s].sem \in {"freed", "refused"}
    /\ Queued(s) \/ posting = s => Caller(s) \/ FreeQueued(s) \/ call[s].sem = "refused"
    /\ ~ (Caller(s) /\ FreeQueued(s))
    /\ ~ (Queued(s) /\ posting = s)
    /\ Queued(s) \/ posting = s => ~ call[s].semPosted
    /\ call[s].ref >= One(Caller(s)) + One(Queued(s))
    /\ stack # "destroyed" =>
          /\ call[s].ref = One(Caller(s)) + One(Queued(s))
          /\ call[s].buffFrees = One(~ Queued(s))

\* The channel's sending half as the proofs of DtapTxWindow see it.
P == INSTANCE DtapTxWindowProofs WITH busy <- ToldBusy

SemState == {"none", "live", "freed", "refused"}
Results == P!ResultCodes \cup {"NONE", "LOGIC_LINK_NOT_FOUND"}
Answers == {"NONE", "TRANS_SUCCESS", "TRANS_BUSY", "TRANS_FAIL"}
CallState == [ref : Int, sem : SemState, semPosted : BOOLEAN, buffFrees : Nat,
              result : Results, answer : Answers]

Task == [do : {"send", "freeSem"}, sdu : Sdus]
Post == [do : {"write", "update"}, sdu : Sdus \cup {NoSdu}]

\* The types.
SharedTypeOK ==
    /\ env \in Environments
    /\ reader \in {"poll", "loop", "wait"} /\ read \in 0 .. Len(env.toSend)
    /\ dtQueue \in Seq(Post) /\ stackQueue \in Seq(Task)
    /\ dt \in [at : {"idle", "wait", "late"}, sdu : Sdus \cup {NoSdu}]
    /\ posting \in Sdus \cup {NoSdu} /\ stack \in {"running", "stopped", "destroyed"}
    /\ call \in [Sdus -> CallState]
    /\ busy \in BOOLEAN /\ P!WindowOK(tx)

\* One write at a time: the port thread waits for the answer.
OneWrite ==
    /\ reader = "wait" => read > 0
    /\ \A i \in 1 .. Len(dtQueue) :
          dtQueue[i] # Update => /\ reader = "wait" /\ dtQueue[i] = Write(env.toSend[read])
                                 /\ dt = Idle /\ Untouched(env.toSend[read])
    /\ \A i, j \in 1 .. Len(dtQueue) : dtQueue[i] # Update /\ dtQueue[j] # Update => i = j
    /\ dt # Idle => /\ dt.at # "idle" /\ reader = "wait" /\ dt.sdu = env.toSend[read]
                    /\ call[dt.sdu].answer = "NONE"

\* The stack thread's queue: no task twice, and a semaphore is freed behind the task
\* that posts it; what remains when the thread has stopped.
StackQueueOK ==
    /\ \A i, j \in 1 .. Len(stackQueue) : stackQueue[i] = stackQueue[j] => i = j
    /\ \A i, j \in 1 .. Len(stackQueue), s \in Sdus :
          stackQueue[i] = FreeSem(s) /\ stackQueue[j] = Send(s) => j < i
    /\ stack # "running" => posting = NoSdu
    /\ stack = "destroyed" => stackQueue = <<>>

CallsOK ==
    \A s \in Sdus : \/ Untouched(s)
                    \/ Alive(s) /\ \E i \in 1 .. read : env.toSend[i] = s

SharedInv == SharedTypeOK /\ OneWrite /\ StackQueueOK /\ CallsOK

-----------------------------------------------------------------------------
(* Frame conditions.                                                       *)

\* Tasks of different kinds or SDUs are different.
LEMMA TaskKinds ==
    /\ \A s \in Sdus : Send(s) \in Task /\ FreeSem(s) \in Task
    /\ \A s, u \in Sdus : /\ Send(s) = Send(u) => s = u
                          /\ FreeSem(s) = FreeSem(u) => s = u
                          /\ Send(s) # FreeSem(u)
    /\ \A t \in Task : t.sdu \in Sdus /\ (t = Send(t.sdu) \/ t = FreeSem(t.sdu))
    /\ \A t \in Task : /\ t.do = "send" => t = Send(t.sdu)
                       /\ t.do = "freeSem" => t = FreeSem(t.sdu)
BY DEF Task, Send, FreeSem

\* The values that the fields of a call take.
LEMMA FieldValues ==
    /\ "none" \in SemState /\ "live" \in SemState /\ "freed" \in SemState
    /\ "refused" \in SemState
    /\ "NONE" \in Results /\ "LOGIC_LINK_NOT_FOUND" \in Results
    /\ "NONE" \in Answers /\ "TRANS_SUCCESS" \in Answers /\ "TRANS_BUSY" \in Answers
    /\ "TRANS_FAIL" \in Answers /\ P!ResultCodes \subseteq Results
BY DEF SemState, Results, Answers

\* The updates of a call's objects: the caller leaves, the post fails, the task runs.
Leaves(c, sem, ref, answer) == [c EXCEPT !.sem = sem, !.ref = ref, !.answer = answer]
Fails(c, ref, sem, frees, answer) ==
    [c EXCEPT !.ref = ref, !.sem = sem, !.buffFrees = frees, !.answer = answer]
Runs(c, result, ref, frees) == [c EXCEPT !.result = result, !.ref = ref, !.buffFrees = frees]

\* The caller changes the semaphore, its reference and the answer.
LEMMA LeavesOK ==
    ASSUME NEW c \in CallState, NEW sem \in SemState, NEW ref \in Int, NEW answer \in Answers
    PROVE  LET d == Leaves(c, sem, ref, answer)
           IN  /\ d \in CallState /\ d.sem = sem /\ d.ref = ref /\ d.answer = answer
               /\ d.semPosted = c.semPosted /\ d.buffFrees = c.buffFrees
               /\ d.result = c.result
BY DEF CallState, Leaves

\* A failed post frees the buffer too.
LEMMA FailsOK ==
    ASSUME NEW c \in CallState, NEW ref \in Int, NEW sem \in SemState, NEW frees \in Nat,
           NEW answer \in Answers
    PROVE  LET d == Fails(c, ref, sem, frees, answer)
           IN  /\ d \in CallState /\ d.sem = sem /\ d.ref = ref /\ d.answer = answer
               /\ d.semPosted = c.semPosted /\ d.buffFrees = frees
               /\ d.result = c.result
BY DEF CallState, Fails

\* The task sets the result, frees the buffer and drops its reference.
LEMMA RunsOK ==
    ASSUME NEW c \in CallState, NEW result \in Results, NEW ref \in Int, NEW frees \in Nat
    PROVE  LET d == Runs(c, result, ref, frees)
           IN  /\ d \in CallState /\ d.sem = c.sem /\ d.ref = ref /\ d.answer = c.answer
               /\ d.semPosted = c.semPosted /\ d.buffFrees = frees
               /\ d.result = result
BY DEF CallState, Runs

\* An SDU none of whose objects or holders changes stays what it was.
LEMMA NotConcerned ==
    ASSUME NEW s \in Sdus, call'[s] = call[s], Caller(s)' <=> Caller(s),
           Queued(s)' <=> Queued(s), FreeQueued(s)' <=> FreeQueued(s),
           posting' = s <=> posting = s, stack' = "destroyed" <=> stack = "destroyed"
    PROVE  (Untouched(s)' <=> Untouched(s)) /\ (Alive(s)' <=> Alive(s))
BY DEF Untouched, Alive, One

\* The steps of the port thread and of the channel leave all objects as they are.
LEMMA ObjectsKept ==
    ASSUME SharedInv, UNCHANGED <<env, call, dt, stackQueue, posting, stack>>
    PROVE  /\ \A s \in Sdus : (Untouched(s)' <=> Untouched(s)) /\ (Alive(s)' <=> Alive(s))
           /\ StackQueueOK'
BY DEF Untouched, Alive, Caller, Queued, FreeQueued, SharedInv, StackQueueOK

\* No write is queued and no call under way unless the port thread waits.
LEMMA ReaderAlone ==
    ASSUME SharedInv,
           reader # "wait" \/ call[env.toSend[read]].answer # "NONE"
    PROVE  dt = Idle /\ \A i \in 1 .. Len(dtQueue) : dtQueue[i] = Update
BY DEF SharedInv, OneWrite, Untouched, NoCall

-----------------------------------------------------------------------------
(* The port thread.                                                        *)

\* Polling, reading and taking an answer: a message is read only when no call is under
\* way, and it is one that has not been read before.
LEMMA PortKeeps ==
    ASSUME SharedInv, PortThread
    PROVE  SharedInv'
<1> USE DEF SharedInv
<1>0. UNCHANGED <<env, call, dt, stackQueue, posting, stack, busy, tx>>
  BY DEF PortThread, ReceivedData, ReadMessage, ReadNothing, TakeAnswer, serviceVars,
         stackVars, channelVars
<1>1. /\ \A s \in Sdus : (Untouched(s)' <=> Untouched(s)) /\ (Alive(s)' <=> Alive(s))
      /\ StackQueueOK'
  BY <1>0, ObjectsKept
<1>2. CASE ReceivedData \/ ReadNothing \/ TakeAnswer
  <2>1. /\ UNCHANGED <<read, dtQueue>> /\ reader' \in {"poll", "loop"}
        /\ reader # "wait" \/ call[env.toSend[read]].answer # "NONE"
    BY <1>2 DEF ReceivedData, ReadNothing, TakeAnswer, AfterAnswer, serviceVars
  <2>2. dt = Idle /\ \A i \in 1 .. Len(dtQueue) : dtQueue[i] = Update
    BY <2>1, ReaderAlone
  <2>3. SharedTypeOK'
    BY <1>0, <2>1 DEF SharedTypeOK
  <2>4. OneWrite'
    BY <1>0, <2>1, <2>2 DEF OneWrite
  <2>5. CallsOK'
    BY <1>0, <1>1, <2>1 DEF CallsOK
  <2> QED BY <1>1, <2>3, <2>4, <2>5
<1>3. CASE ReadMessage
  <2>0. PICK s0 : s0 = env.toSend[read + 1]
    OBVIOUS
  <2> DEFINE w == Write(s0)
  <2>1. /\ read' = read + 1 /\ dtQueue' = Append(dtQueue, w) /\ reader' = "wait"
        /\ reader = "loop" /\ read < Len(env.toSend)
    BY <1>3, <2>0 DEF ReadMessage
  <2>2. dt = Idle /\ \A i \in 1 .. Len(dtQueue) : dtQueue[i] = Update
    BY <2>1, ReaderAlone
  <2>3. /\ env \in Environments /\ env.toSend \in Seq(Sdus) /\ Len(env.toSend) \in Nat
        /\ \A i, j \in 1 .. Len(env.toSend) : env.toSend[i] = env.toSend[j] => i = j
        /\ read \in 0 .. Len(env.toSend) /\ read \in Nat
    <3>1. env \in Environments /\ read \in 0 .. Len(env.toSend)
      BY DEF SharedTypeOK
    <3>2. /\ env.toSend \in Seq(Sdus)
          /\ \A i, j \in 1 .. Len(env.toSend) : env.toSend[i] = env.toSend[j] => i = j
      BY <3>1, TransAssumption, Zenon
    <3>3. Len(env.toSend) \in Nat
      BY <3>2, LenProperties
    <3> QED BY <3>1, <3>2, <3>3
  <2>4. /\ read + 1 \in 1 .. Len(env.toSend) /\ s0 \in Sdus
    BY <2>0, <2>1, <2>3, ElementOfSeq
  <2>5. Untouched(s0)
    <3>1. ~ \E i \in 1 .. read : env.toSend[i] = s0
      <4> SUFFICES ASSUME NEW i \in 1 .. read, env.toSend[i] = s0 PROVE FALSE
        OBVIOUS
      <4>1. i \in 1 .. Len(env.toSend) /\ i # read + 1
        BY <2>3
      <4> QED BY <2>0, <2>3, <2>4, <4>1
    <3> QED BY <2>4, <3>1 DEF CallsOK
  <2>6. w \in Post /\ w # Update
    BY <2>4, TransAssumption DEF Post, Write, Update
  <2>7. dtQueue \in Seq(Post)
    BY DEF SharedTypeOK
  <2> HIDE DEF w
  <2>8. /\ dtQueue' \in Seq(Post) /\ Len(dtQueue') = Len(dtQueue) + 1 /\ Len(dtQueue) \in Nat
        /\ \A i \in 1 .. Len(dtQueue) + 1 :
              dtQueue'[i] = IF i \in 1 .. Len(dtQueue) THEN dtQueue[i] ELSE w
    BY <2>1, <2>6, <2>7, AppendElements
  <2>9. SharedTypeOK'
    BY <1>0, <2>1, <2>3, <2>4, <2>8 DEF SharedTypeOK
  <2>10. OneWrite'
    <3>1. \A i \in 1 .. Len(dtQueue') : dtQueue'[i] # Update => i = Len(dtQueue) + 1 /\ dtQueue'[i] = w
      BY <2>2, <2>8
    <3>2. w = Write(env'.toSend[read']) /\ dt' = Idle /\ Untouched(s0)' /\ s0 = env'.toSend[read']
      BY <1>0, <1>1, <2>0, <2>1, <2>2, <2>4, <2>5 DEF w
    <3>3. \A i \in 1 .. Len(dtQueue') : dtQueue'[i] # Update =>
             /\ reader' = "wait" /\ dtQueue'[i] = Write(env'.toSend[read'])
             /\ dt' = Idle /\ Untouched(env.toSend[read])'
      <4>1. Untouched(env.toSend[read])'
        BY <1>0, <2>1, <3>2 DEF Untouched, Caller, Queued, FreeQueued
      <4> QED BY <2>1, <3>1, <3>2, <4>1
    <3> QED BY <2>1, <2>3, <3>1, <3>2, <3>3 DEF OneWrite
  <2>11. CallsOK'
    <3> SUFFICES ASSUME NEW s \in Sdus
                 PROVE  (\/ Untouched(s)
                         \/ Alive(s) /\ \E i \in 1 .. read : env.toSend[i] = s)'
      BY DEF CallsOK
    <3>1. 1 .. read \subseteq 1 .. read'
      BY <2>1, <2>3
    <3> QED BY <1>0, <1>1, <3>1 DEF CallsOK
  <2> QED BY <1>1, <2>9, <2>10, <2>11
<1> QED BY <1>2, <1>3 DEF PortThread

-----------------------------------------------------------------------------
(* The data transfer thread.                                               *)

\* The head of the thread's queue, and what is behind it.
LEMMA PostAtHead ==
    ASSUME SharedInv, dtQueue # <<>>
    PROVE  /\ Tail(dtQueue) \in Seq(Post) /\ Len(dtQueue) \in Nat \ {0}
           /\ Len(Tail(dtQueue)) = Len(dtQueue) - 1 /\ Head(dtQueue) = dtQueue[1]
           /\ \A i \in 1 .. Len(dtQueue) - 1 : Tail(dtQueue)[i] = dtQueue[i + 1]
BY TailElements DEF SharedInv, SharedTypeOK

\* A write at the head is the one the port thread waits for, nobody has begun with
\* it, and no other write is queued.
LEMMA WriteAtHead ==
    ASSUME SharedInv, NextIs("write")
    PROVE  /\ Head(dtQueue) = Write(env.toSend[read]) /\ Head(dtQueue).sdu = env.toSend[read]
           /\ dt = Idle /\ reader = "wait" /\ env.toSend[read] \in Sdus
           /\ Untouched(env.toSend[read]) /\ \E i \in 1 .. read : env.toSend[i] = env.toSend[read]
           /\ Tail(dtQueue) \in Seq(Post)
           /\ \A i \in 1 .. Len(Tail(dtQueue)) : Tail(dtQueue)[i] = Update
<1> USE DEF SharedInv
<1>1. dtQueue # <<>> /\ Head(dtQueue).do = "write" /\ dt = Idle
  BY DEF NextIs
<1>2. /\ Tail(dtQueue) \in Seq(Post) /\ Len(dtQueue) \in Nat \ {0}
      /\ Len(Tail(dtQueue)) = Len(dtQueue) - 1 /\ Head(dtQueue) = dtQueue[1]
      /\ \A i \in 1 .. Len(dtQueue) - 1 : Tail(dtQueue)[i] = dtQueue[i + 1]
  BY <1>1, PostAtHead
<1>3. 1 \in 1 .. Len(dtQueue) /\ dtQueue[1] # Update
  BY <1>1, <1>2 DEF Update
<1>4. /\ reader = "wait" /\ Head(dtQueue) = Write(env.toSend[read])
      /\ Untouched(env.toSend[read]) /\ read > 0
  BY <1>2, <1>3 DEF OneWrite
<1>5. ASSUME NEW i \in 1 .. Len(Tail(dtQueue)) PROVE Tail(dtQueue)[i] = Update
  <2>1. i + 1 \in 1 .. Len(dtQueue) /\ i + 1 # 1 /\ Tail(dtQueue)[i] = dtQueue[i + 1]
    BY <1>2
  <2> QED BY <1>3, <2>1 DEF OneWrite
<1>6. read \in 1 .. read /\ read \in 1 .. Len(env.toSend) /\ env.toSend \in Seq(Sdus)
  BY <1>4, TransAssumption, LenProperties DEF SharedTypeOK
<1>7. env.toSend[read] \in Sdus
  BY <1>6, ElementOfSeq
<1> QED BY <1>1, <1>2, <1>4, <1>5, <1>6, <1>7 DEF Write

\* UpdateTransferState takes an update from the queue.
LEMMA UpdateKeeps ==
    ASSUME SharedInv, UpdateTransferState
    PROVE  SharedInv'
<1> USE DEF SharedInv
<1>0. /\ UNCHANGED <<env, call, dt, stackQueue, posting, stack, reader, read, tx>>
      /\ dtQueue # <<>> /\ dtQueue' = Tail(dtQueue) /\ busy' \in BOOLEAN
  BY DEF UpdateTransferState, NextIs, portVars, stackVars, channelVars
<1>1. /\ \A s \in Sdus : (Untouched(s)' <=> Untouched(s)) /\ (Alive(s)' <=> Alive(s))
      /\ StackQueueOK'
  BY <1>0, ObjectsKept
<1>2. /\ dtQueue' \in Seq(Post) /\ Len(dtQueue) \in Nat \ {0}
      /\ Len(dtQueue') = Len(dtQueue) - 1
      /\ \A i \in 1 .. Len(dtQueue) - 1 : dtQueue'[i] = dtQueue[i + 1]
  BY <1>0, PostAtHead
<1>3. SharedTypeOK'
  BY <1>0, <1>2 DEF SharedTypeOK
<1>4. \A i \in 1 .. Len(dtQueue') : i + 1 \in 1 .. Len(dtQueue) /\ dtQueue'[i] = dtQueue[i + 1]
  BY <1>2
<1>5. Untouched(env.toSend[read])' <=> Untouched(env.toSend[read])
  BY <1>0 DEF Untouched, Caller, Queued, FreeQueued
<1>6. OneWrite'
  <2>1. \A i \in 1 .. Len(dtQueue') :
          dtQueue'[i] # Update => /\ reader' = "wait" /\ dtQueue'[i] = Write(env'.toSend[read'])
                                  /\ dt' = Idle /\ Untouched(env.toSend[read])'
    BY <1>0, <1>4, <1>5 DEF OneWrite
  <2>2. \A i, j \in 1 .. Len(dtQueue') : dtQueue'[i] # Update /\ dtQueue'[j] # Update => i = j
    <3> SUFFICES ASSUME NEW i \in 1 .. Len(dtQueue'), NEW j \in 1 .. Len(dtQueue'),
                        dtQueue'[i] # Update, dtQueue'[j] # Update
                 PROVE  i = j
      OBVIOUS
    <3>1. i + 1 = j + 1
      BY <1>4 DEF OneWrite
    <3> QED BY <1>2, <3>1
  <2> QED BY <1>0, <2>1, <2>2 DEF OneWrite
<1>7. CallsOK'
  BY <1>0, <1>1 DEF CallsOK
<1> QED BY <1>1, <1>3, <1>6, <1>7

\* A step that concerns the objects of s0 only.
LEMMA OthersKept ==
    ASSUME SharedInv, NEW s0 \in Sdus, UNCHANGED <<env, read, stack>>,
           \A s \in Sdus : s # s0 => /\ call'[s] = call[s] /\ (Caller(s)' <=> Caller(s))
                                     /\ Queued(s)' <=> Queued(s)
                                     /\ FreeQueued(s)' <=> FreeQueued(s)
                                     /\ posting' = s <=> posting = s,
           Alive(s0)', \E i \in 1 .. read : env.toSend[i] = s0
    PROVE  CallsOK'
<1> SUFFICES ASSUME NEW s \in Sdus
             PROVE  (\/ Untouched(s)
                     \/ Alive(s) /\ \E i \in 1 .. read : env.toSend[i] = s)'
  BY DEF CallsOK
<1>1. CASE s = s0
  BY <1>1
<1>2. CASE s # s0
  <2>1. (Untouched(s)' <=> Untouched(s)) /\ (Alive(s)' <=> Alive(s))
    BY <1>2, NotConcerned
  <2> QED BY <2>1 DEF SharedInv, CallsOK
<1> QED BY <1>1, <1>2

\* A task is posted behind the others: it is not there yet, and no free for the same
\* SDU is.
LEMMA AddTask ==
    ASSUME SharedInv, NEW e0 \in Task, ~ Contains(stackQueue, e0),
           \A s \in Sdus : e0 = Send(s) => ~ FreeQueued(s),
           stackQueue' = Append(stackQueue, e0), UNCHANGED <<posting, stack>>,
           stack # "destroyed"
    PROVE  /\ stackQueue' \in Seq(Task) /\ StackQueueOK'
           /\ \A e : Contains(stackQueue', e) <=> Contains(stackQueue, e) \/ e = e0
<1> USE DEF SharedInv
<1>1. /\ stackQueue' \in Seq(Task) /\ Len(stackQueue') = Len(stackQueue) + 1
      /\ Len(stackQueue) \in Nat
      /\ \A i \in 1 .. Len(stackQueue) + 1 :
            stackQueue'[i] = IF i \in 1 .. Len(stackQueue) THEN stackQueue[i] ELSE e0
      /\ \A e : Contains(stackQueue', e) <=> Contains(stackQueue, e) \/ e = e0
  BY AppendElements DEF SharedTypeOK
<1>2. \A i \in 1 .. Len(stackQueue) : stackQueue[i] # e0
  BY DEF Contains
<1>3. \A i, j \in 1 .. Len(stackQueue') : stackQueue'[i] = stackQueue'[j] => i = j
  BY <1>1, <1>2 DEF StackQueueOK
<1>4. ASSUME NEW i \in 1 .. Len(stackQueue'), NEW j \in 1 .. Len(stackQueue'), NEW s \in Sdus,
             stackQueue'[i] = FreeSem(s), stackQueue'[j] = Send(s)
      PROVE  j < i
  <2>1. CASE j \in 1 .. Len(stackQueue) /\ i \in 1 .. Len(stackQueue)
    BY <1>1, <1>4, <2>1 DEF StackQueueOK
  <2>2. CASE j \notin 1 .. Len(stackQueue)
    <3>1. e0 = Send(s)
      BY <1>1, <1>4, <2>2
    <3>2. i \in 1 .. Len(stackQueue) /\ stackQueue[i] = FreeSem(s)
      BY <1>1, <1>4, <3>1, TaskKinds
    <3> QED BY <3>1, <3>2 DEF FreeQueued, Contains
  <2>3. CASE j \in 1 .. Len(stackQueue) /\ i \notin 1 .. Len(stackQueue)
    BY <1>1, <2>3
  <2> QED BY <2>1, <2>2, <2>3
<1> QED BY <1>1, <1>3, <1>4 DEF StackQueueOK

\* The first task is taken.
LEMMA TakeTask ==
    ASSUME SharedInv, stackQueue # <<>>, stackQueue' = Tail(stackQueue),
           stack = "running", stack' = stack
    PROVE  /\ stackQueue' \in Seq(Task) /\ StackQueueOK' /\ Head(stackQueue) \in Task
           /\ Contains(stackQueue, Head(stackQueue))
           /\ \A e : Contains(stackQueue', e)
                        <=> Contains(stackQueue, e) /\ e # Head(stackQueue)
<1> USE DEF SharedInv
<1>1. /\ stackQueue' \in Seq(Task) /\ Len(stackQueue') = Len(stackQueue) - 1
      /\ Len(stackQueue) \in Nat \ {0} /\ Head(stackQueue) \in Task
      /\ Contains(stackQueue, Head(stackQueue))
      /\ \A i \in 1 .. Len(stackQueue) - 1 : stackQueue'[i] = stackQueue[i + 1]
      /\ \A e : Contains(stackQueue', e)
                   <=> Contains(stackQueue, e) /\ e # Head(stackQueue)
  BY TailElements DEF SharedTypeOK, StackQueueOK
<1>2. \A i \in 1 .. Len(stackQueue') : /\ i + 1 \in 1 .. Len(stackQueue) /\ i \in Nat
                                       /\ stackQueue'[i] = stackQueue[i + 1]
  BY <1>1
<1>3. \A i, j \in 1 .. Len(stackQueue') : stackQueue'[i] = stackQueue'[j] => i = j
  <2> SUFFICES ASSUME NEW i \in 1 .. Len(stackQueue'), NEW j \in 1 .. Len(stackQueue'),
                      stackQueue'[i] = stackQueue'[j]
               PROVE  i = j
    OBVIOUS
  <2>1. i + 1 = j + 1
    BY <1>2 DEF StackQueueOK
  <2> QED BY <1>2, <2>1
<1>4. ASSUME NEW i \in 1 .. Len(stackQueue'), NEW j \in 1 .. Len(stackQueue'), NEW s \in Sdus,
             stackQueue'[i] = FreeSem(s), stackQueue'[j] = Send(s)
      PROVE  j < i
  <2>1. j + 1 < i + 1
    BY <1>2, <1>4 DEF StackQueueOK
  <2> QED BY <1>2, <2>1
<1> QED BY <1>1, <1>3, <1>4 DEF StackQueueOK

\* The call under way is the one the port thread waits for.
LEMMA CallUnderWay ==
    ASSUME SharedInv, dt.at # "idle"
    PROVE  /\ reader = "wait" /\ dt.sdu \in Sdus /\ dt.sdu = env.toSend[read]
           /\ Alive(dt.sdu) /\ Caller(dt.sdu) /\ call[dt.sdu].answer = "NONE"
           /\ \E i \in 1 .. read : env.toSend[i] = dt.sdu
           /\ \A i \in 1 .. Len(dtQueue) : dtQueue[i] = Update
           /\ \A s \in Sdus : Caller(s) <=> s = dt.sdu
<1> USE DEF SharedInv
<1>1. dt # Idle
  BY DEF Idle
<1>2. /\ reader = "wait" /\ dt.sdu = env.toSend[read] /\ call[dt.sdu].answer = "NONE"
      /\ read > 0
  BY <1>1 DEF OneWrite
<1>3. read \in 1 .. read /\ read \in 1 .. Len(env.toSend) /\ env.toSend \in Seq(Sdus)
  BY <1>2, TransAssumption, LenProperties DEF SharedTypeOK
<1>4. dt.sdu \in Sdus
  BY <1>2, <1>3, ElementOfSeq
<1>5. Alive(dt.sdu) /\ Caller(dt.sdu)
  BY <1>4 DEF CallsOK, Untouched, Caller
<1>6. \A i \in 1 .. Len(dtQueue) : dtQueue[i] = Update
  BY <1>1 DEF OneWrite
<1> QED BY <1>2, <1>3, <1>4, <1>5, <1>6 DEF Caller

\* TRANS_SendData posts the task with a reference of its own.
LEMMA PostSendKeeps ==
    ASSUME SharedInv, PostSend
    PROVE  SharedInv'
<1> USE DEF SharedInv
<1>0. PICK s0 : s0 = env.toSend[read]
  OBVIOUS
<1>1. /\ Head(dtQueue).sdu = s0 /\ dt = Idle /\ reader = "wait" /\ s0 \in Sdus
      /\ Untouched(s0) /\ \E i \in 1 .. read : env.toSend[i] = s0
      /\ Tail(dtQueue) \in Seq(Post)
      /\ \A i \in 1 .. Len(Tail(dtQueue)) : Tail(dtQueue)[i] = Update
  BY <1>0, WriteAtHead DEF PostSend
<1>2. /\ call' = [call EXCEPT ![s0].ref = 2, ![s0].sem = "live"]
      /\ stackQueue' = Append(stackQueue, Send(s0))
      /\ dt' = [at |-> "wait", sdu |-> s0] /\ dtQueue' = Tail(dtQueue)
      /\ UNCHANGED <<env, reader, read, posting, stack, busy, tx>> /\ stack # "destroyed"
  BY <1>1 DEF PostSend, PostResults, RefsAtPost, portVars, channelVars
<1>3. ~ Queued(s0) /\ ~ FreeQueued(s0) /\ posting # s0
  BY <1>1 DEF Untouched
<1>4. /\ stackQueue' \in Seq(Task) /\ StackQueueOK'
      /\ \A e : Contains(stackQueue', e) <=> Contains(stackQueue, e) \/ e = Send(s0)
  <2>1. /\ Send(s0) \in Task /\ ~ Contains(stackQueue, Send(s0))
        /\ \A s \in Sdus : Send(s0) = Send(s) => ~ FreeQueued(s)
    BY <1>1, <1>3, TaskKinds DEF Queued
  <2> QED BY <1>2, <2>1, AddTask
<1> DEFINE c0 == [ref |-> 2, sem |-> "live", semPosted |-> FALSE, buffFrees |-> 0,
                  result |-> "NONE", answer |-> "NONE"]
<1>5. /\ call'[s0] = c0
      /\ \A s \in Sdus : s # s0 => call'[s] = call[s]
      /\ call' \in [Sdus -> CallState]
  <2>1. call \in [Sdus -> CallState] /\ call[s0] = NoCall
    BY <1>1 DEF SharedTypeOK, Untouched
  <2>2. c0 \in CallState
    BY FieldValues DEF CallState
  <2>3. call' = [call EXCEPT ![s0] = c0]
    BY <1>1, <1>2, <2>1 DEF NoCall
  <2> QED BY <1>1, <2>1, <2>2, <2>3
<1>6. SharedTypeOK'
  <2>2. dt' \in [at : {"idle", "wait", "late"}, sdu : Sdus \cup {NoSdu}]
    BY <1>1, <1>2
  <2> QED BY <1>1, <1>2, <1>4, <1>5, <2>2 DEF SharedTypeOK
<1>7. OneWrite'
  <2>1. \A i \in 1 .. Len(dtQueue') : dtQueue'[i] = Update
    BY <1>1, <1>2
  <2>2. dt'.at # "idle" /\ dt'.sdu = s0
    BY <1>2
  <2>3. call'[dt'.sdu].answer = "NONE"
    BY <1>5, <2>2
  <2>4. (reader = "wait" => read > 0)'
    BY <1>2 DEF OneWrite
  <2> QED BY <1>0, <1>1, <1>2, <2>1, <2>2, <2>3, <2>4 DEF OneWrite
<1>8. Caller(s0)' /\ Queued(s0)' /\ ~ FreeQueued(s0)' /\ posting' # s0
  BY <1>1, <1>2, <1>3, <1>4, TaskKinds DEF Caller, Queued, FreeQueued
<1>9. Alive(s0)'
  <2>1. /\ call'[s0].sem = "live" /\ call'[s0].ref = 2 /\ call'[s0].buffFrees = 0
        /\ ~ call'[s0].semPosted
    BY <1>5
  <2> QED BY <1>8, <2>1 DEF Alive, One
<1>10. \A s \in Sdus : s # s0 => /\ Caller(s)' <=> Caller(s)
                                 /\ Queued(s)' <=> Queued(s)
                                 /\ FreeQueued(s)' <=> FreeQueued(s)
  BY <1>1, <1>2, <1>4, TaskKinds DEF Caller, Queued, FreeQueued, Idle
<1>11. CallsOK'
  BY <1>1, <1>2, <1>5, <1>9, <1>10, OthersKept
<1> QED BY <1>4, <1>6, <1>7, <1>11

\* A post that fails frees everything at once.
LEMMA PostSendFailsKeeps ==
    ASSUME SharedInv, PostSendFails
    PROVE  SharedInv'
<1> USE DEF SharedInv
<1>0. PICK s0 : s0 = env.toSend[read]
  OBVIOUS
<1>1. /\ Head(dtQueue).sdu = s0 /\ dt = Idle /\ reader = "wait" /\ s0 \in Sdus
      /\ Untouched(s0) /\ \E i \in 1 .. read : env.toSend[i] = s0
      /\ Tail(dtQueue) \in Seq(Post)
      /\ \A i \in 1 .. Len(Tail(dtQueue)) : Tail(dtQueue)[i] = Update
  BY <1>0, WriteAtHead DEF PostSendFails
<1>2. /\ call' = [call EXCEPT ![s0] = PostFailed(@)] /\ dtQueue' = Tail(dtQueue)
      /\ UNCHANGED <<env, reader, read, dt, busy, stackQueue, posting, stack, tx>>
  BY <1>1 DEF PostSendFails, portVars, stackVars, channelVars
<1> DEFINE c0 == Fails(NoCall, 0, "freed", 1, "TRANS_FAIL")
<1>3. /\ call' \in [Sdus -> CallState]
      /\ call'[s0].sem = "freed" /\ call'[s0].ref = 0 /\ call'[s0].buffFrees = 1
      /\ \A s \in Sdus : s # s0 => call'[s] = call[s]
  <2>1. call \in [Sdus -> CallState] /\ call[s0] = NoCall
    BY <1>1 DEF SharedTypeOK, Untouched
  <2>2. NoCall \in CallState /\ NoCall.buffFrees = 0
    BY FieldValues DEF CallState, NoCall
  <2>3. c0 \in CallState /\ c0.sem = "freed" /\ c0.ref = 0 /\ c0.buffFrees = 1
    BY <2>2, FieldValues, FailsOK
  <2>4. call' = [call EXCEPT ![s0] = c0]
    BY <1>1, <1>2, <2>1, <2>2 DEF Fails, PostFailed
  <2> HIDE DEF c0
  <2> QED BY <1>1, <2>1, <2>3, <2>4
<1>4. SharedTypeOK'
  BY <1>1, <1>2, <1>3 DEF SharedTypeOK
<1>5. OneWrite'
  <2>1. \A i \in 1 .. Len(dtQueue') : dtQueue'[i] = Update
    BY <1>1, <1>2
  <2> QED BY <1>1, <1>2, <2>1 DEF OneWrite
<1>6. StackQueueOK'
  BY <1>2 DEF StackQueueOK
<1>7. \A s \in Sdus : /\ Caller(s)' <=> Caller(s)
                      /\ Queued(s)' <=> Queued(s)
                      /\ FreeQueued(s)' <=> FreeQueued(s)
                      /\ posting' = s <=> posting = s
  BY <1>2 DEF Caller, Queued, FreeQueued
<1>8. Alive(s0)'
  <2>1. ~ Caller(s0)' /\ ~ Queued(s0)' /\ ~ FreeQueued(s0)' /\ posting' # s0
    BY <1>1, <1>7 DEF Untouched
  <2> QED BY <1>3, <2>1 DEF Alive, One
<1>9. CallsOK'
  BY <1>1, <1>2, <1>3, <1>7, <1>8, OthersKept
<1> QED BY <1>4, <1>5, <1>6, <1>9

\* SDF_SemTimeWait gives up: nothing is freed yet.
LEMMA TimesOutKeeps ==
    ASSUME SharedInv, SendTimesOut
    PROVE  SharedInv'
<1> USE DEF SharedInv
<1>1. dt.at = "wait" /\ dt' = [dt EXCEPT !.at = "late"]
  BY DEF SendTimesOut
<1>2. UNCHANGED <<env, reader, read, dtQueue, busy, stackQueue, posting, stack, call, tx>>
  BY DEF SendTimesOut, portVars, stackVars, channelVars
<1>3. /\ dt \in [at : {"idle", "wait", "late"}, sdu : Sdus \cup {NoSdu}]
      /\ dt'.at = "late" /\ dt'.sdu = dt.sdu
      /\ dt' \in [at : {"idle", "wait", "late"}, sdu : Sdus \cup {NoSdu}]
  BY <1>1 DEF SharedTypeOK
<1>4. \A s \in Sdus : /\ Caller(s)' <=> Caller(s)
                      /\ Queued(s)' <=> Queued(s)
                      /\ FreeQueued(s)' <=> FreeQueued(s)
  BY <1>1, <1>2, <1>3 DEF Caller, Queued, FreeQueued
<1>5. \A s \in Sdus : (Untouched(s)' <=> Untouched(s)) /\ (Alive(s)' <=> Alive(s))
  BY <1>2, <1>4, NotConcerned
<1>6. SharedTypeOK'
  BY <1>2, <1>3 DEF SharedTypeOK
<1>7. OneWrite'
  <2>1. /\ reader = "wait" /\ dt.sdu = env.toSend[read] /\ call[dt.sdu].answer = "NONE"
        /\ \A i \in 1 .. Len(dtQueue) : dtQueue[i] = Update
    BY <1>1, CallUnderWay
  <2> QED BY <1>2, <1>3, <2>1 DEF OneWrite
<1>8. StackQueueOK'
  BY <1>2 DEF StackQueueOK
<1>9. CallsOK'
  BY <1>2, <1>5 DEF CallsOK
<1> QED BY <1>6, <1>7, <1>8, <1>9

\* The answer comes in time: the caller frees the semaphore, which nobody else uses.
LEMMA ReturnsKeeps ==
    ASSUME SharedInv, SendReturns
    PROVE  SharedInv'
<1> USE DEF SharedInv
<1>0. PICK s0 : s0 = dt.sdu
  OBVIOUS
<1>1. /\ reader = "wait" /\ s0 \in Sdus /\ Alive(s0) /\ Caller(s0)
      /\ \E i \in 1 .. read : env.toSend[i] = s0
      /\ \A i \in 1 .. Len(dtQueue) : dtQueue[i] = Update
      /\ \A s \in Sdus : Caller(s) <=> s = s0
  BY <1>0, CallUnderWay DEF SendReturns
<1>2. PICK ans : ans = Answer(call[s0].result)
  OBVIOUS
<1>3. /\ call[s0].semPosted /\ dt' = Idle
      /\ call' = [call EXCEPT ![s0].sem = "freed", ![s0].ref = @ - 1, ![s0].answer = ans]
      /\ UNCHANGED <<env, reader, read, dtQueue, stackQueue, posting, stack, tx>>
      /\ busy' = (busy \/ call[s0].result = "TX_WINDOW_FULL")
  BY <1>0, <1>2 DEF SendReturns, portVars, stackVars, channelVars
<1>4. ans \in Answers
  BY <1>2, FieldValues DEF Answer
<1>5. /\ call' \in [Sdus -> CallState]
      /\ call'[s0].sem = "freed" /\ call'[s0].ref = call[s0].ref - 1
      /\ call'[s0].semPosted = call[s0].semPosted
      /\ call'[s0].buffFrees = call[s0].buffFrees
      /\ call[s0].ref \in Int /\ call[s0].buffFrees \in Nat
      /\ \A s \in Sdus : s # s0 => call'[s] = call[s]
  <2> DEFINE c == call[s0]
             d == Leaves(c, "freed", c.ref - 1, ans)
  <2>1. c \in CallState
    BY <1>1 DEF SharedTypeOK
  <2>2. c.ref \in Int /\ c.ref - 1 \in Int /\ c.buffFrees \in Nat
    BY <2>1 DEF CallState
  <2>3. /\ d \in CallState /\ d.sem = "freed" /\ d.ref = c.ref - 1
        /\ d.semPosted = c.semPosted /\ d.buffFrees = c.buffFrees
    BY <1>4, <2>1, <2>2, FieldValues, LeavesOK
  <2>4. call' = [call EXCEPT ![s0] = d]
    BY <1>1, <1>3 DEF Leaves
  <2> HIDE DEF d
  <2> QED BY <1>1, <2>2, <2>3, <2>4 DEF SharedTypeOK
<1>6. SharedTypeOK'
  BY <1>3, <1>5 DEF SharedTypeOK, Idle
<1>7. OneWrite'
  BY <1>1, <1>3 DEF OneWrite
<1>8. StackQueueOK'
  BY <1>3 DEF StackQueueOK
<1>9. /\ \A s \in Sdus : /\ Queued(s)' <=> Queued(s)
                         /\ FreeQueued(s)' <=> FreeQueued(s)
                         /\ posting' = s <=> posting = s
                         /\ ~ Caller(s)'
  BY <1>3 DEF Caller, Queued, FreeQueued, Idle
<1>10. Alive(s0)'
  <2>1. ~ Queued(s0) /\ posting # s0 /\ ~ FreeQueued(s0)
    BY <1>1, <1>3 DEF Alive
  <2> QED BY <1>1, <1>3, <1>5, <1>9, <2>1 DEF Alive, One
<1>11. CallsOK'
  BY <1>1, <1>3, <1>5, <1>9, <1>10, OthersKept
<1> QED BY <1>6, <1>7, <1>8, <1>11

\* The caller leaves first: the semaphore is freed behind the task that posts it, or at
\* once when the stack refuses to do that.
LEMMA AbandonedKeeps ==
    ASSUME SharedInv, SendAbandoned
    PROVE  SharedInv'
<1> USE DEF SharedInv
<1>0. PICK s0 : s0 = dt.sdu
  OBVIOUS
<1>1. /\ reader = "wait" /\ s0 \in Sdus /\ Alive(s0) /\ Caller(s0)
      /\ \E i \in 1 .. read : env.toSend[i] = s0
      /\ \A i \in 1 .. Len(dtQueue) : dtQueue[i] = Update
      /\ \A s \in Sdus : Caller(s) <=> s = s0
  BY <1>0, CallUnderWay DEF SendAbandoned
<1>2. /\ call[s0] \in CallState /\ call[s0].sem = "live" /\ ~ FreeQueued(s0)
  BY <1>1 DEF SharedTypeOK, Alive
<1>3. PICK f \in FreeSemLater(s0) :
        /\ dt' = Idle /\ stackQueue' = f.queue
        /\ call' = [call EXCEPT ![s0].sem = f.sem, ![s0].ref = @ - 1,
                                ![s0].answer = "TRANS_FAIL"]
        /\ UNCHANGED <<env, reader, read, dtQueue, busy, posting, stack, tx>>
  BY <1>0 DEF SendAbandoned, portVars, channelVars
<1>4. PICK m : m = f.sem
  OBVIOUS
<1>5. \/ m = "refused" /\ f.queue = stackQueue
      \/ /\ m = "live" /\ f.queue = Append(stackQueue, FreeSem(s0))
         /\ stack # "destroyed"
  <2>1. PICK posted \in PostResults :
          f = IF posted THEN [queue |-> Append(stackQueue, FreeSem(s0)), sem |-> call[s0].sem]
              ELSE [queue |-> stackQueue, sem |-> "refused"]
    BY <1>3 DEF FreeSemLater
  <2>2. posted \in BOOLEAN
    BY TransAssumption DEF PostResults, SharedTypeOK
  <2>3. posted => stack # "destroyed"
    BY <2>1, <2>2 DEF PostResults
  <2>4. CASE posted
    BY <1>2, <1>4, <2>1, <2>3, <2>4
  <2>5. CASE ~ posted
    BY <1>4, <2>1, <2>5
  <2> QED BY <2>4, <2>5
<1>6. /\ call' \in [Sdus -> CallState]
      /\ call'[s0].sem = m /\ call'[s0].ref = call[s0].ref - 1
      /\ call'[s0].semPosted = call[s0].semPosted
      /\ call'[s0].buffFrees = call[s0].buffFrees
      /\ call[s0].ref \in Int /\ call[s0].buffFrees \in Nat
      /\ \A s \in Sdus : s # s0 => call'[s] = call[s]
  <2> DEFINE c == call[s0]
             d == Leaves(c, m, c.ref - 1, "TRANS_FAIL")
  <2>1. c \in CallState
    BY <1>1 DEF SharedTypeOK
  <2>2. m \in SemState
    BY <1>5, FieldValues
  <2>3. c.ref \in Int /\ c.ref - 1 \in Int /\ c.buffFrees \in Nat
    BY <2>1 DEF CallState
  <2>4. /\ d \in CallState /\ d.sem = m /\ d.ref = c.ref - 1
        /\ d.semPosted = c.semPosted /\ d.buffFrees = c.buffFrees
    BY <2>1, <2>2, <2>3, FieldValues, LeavesOK
  <2>5. call' = [call EXCEPT ![s0] = d]
    BY <1>1, <1>3, <1>4 DEF Leaves
  <2> HIDE DEF d
  <2> QED BY <1>1, <2>3, <2>4, <2>5 DEF SharedTypeOK
<1>7. OneWrite'
  BY <1>1, <1>3 DEF OneWrite
<1>8. \A s \in Sdus : ~ Caller(s)'
  BY <1>3 DEF Caller, Idle
<1>9. CASE m = "refused" /\ f.queue = stackQueue
  <2>1. stackQueue' = stackQueue
    BY <1>3, <1>9
  <2>2. SharedTypeOK'
    BY <1>3, <1>6, <2>1 DEF SharedTypeOK, Idle
  <2>3. StackQueueOK'
    BY <1>3, <2>1 DEF StackQueueOK
  <2>4. \A s \in Sdus : /\ Queued(s)' <=> Queued(s)
                        /\ FreeQueued(s)' <=> FreeQueued(s)
                        /\ posting' = s <=> posting = s
    BY <1>3, <2>1 DEF Queued, FreeQueued
  <2>5. Alive(s0)'
    BY <1>1, <1>2, <1>3, <1>6, <1>8, <1>9, <2>4 DEF Alive, One
  <2>6. CallsOK'
    BY <1>1, <1>3, <1>6, <1>8, <2>4, <2>5, OthersKept
  <2> QED BY <1>7, <2>2, <2>3, <2>6
<1>10. CASE /\ m = "live" /\ f.queue = Append(stackQueue, FreeSem(s0))
            /\ stack # "destroyed"
  <2>1. stackQueue' = Append(stackQueue, FreeSem(s0))
    BY <1>3, <1>10
  <2>2. /\ stackQueue' \in Seq(Task) /\ StackQueueOK'
        /\ \A e : Contains(stackQueue', e) <=> Contains(stackQueue, e) \/ e = FreeSem(s0)
    <3>1. /\ FreeSem(s0) \in Task /\ ~ Contains(stackQueue, FreeSem(s0))
          /\ \A s \in Sdus : FreeSem(s0) # Send(s)
      BY <1>1, <1>2, TaskKinds DEF FreeQueued
    <3> QED BY <1>3, <1>10, <2>1, <3>1, AddTask
  <2>3. SharedTypeOK'
    BY <1>3, <1>6, <2>2 DEF SharedTypeOK, Idle
  <2>4. \A s \in Sdus : /\ Queued(s)' <=> Queued(s)
                        /\ FreeQueued(s)' <=> FreeQueued(s) \/ s = s0
                        /\ posting' = s <=> posting = s
    BY <1>1, <1>3, <2>2, TaskKinds DEF Queued, FreeQueued
  <2>5. Alive(s0)'
    BY <1>1, <1>3, <1>6, <1>8, <1>10, <2>4 DEF Alive, One
  <2>6. CallsOK'
    BY <1>1, <1>3, <1>6, <1>8, <2>4, <2>5, OthersKept
  <2> QED BY <1>7, <2>2, <2>3, <2>6
<1> QED BY <1>5, <1>9, <1>10

-----------------------------------------------------------------------------
(* The stack thread's channel, by the lemmas of DtapTxWindowProofs.        *)

\* The assumptions of the sending half.
LEMMA ChannelAssumption == P!SeqHalfAssumption /\ P!TxAssumption /\ 0 \in P!FrameSeq
BY SeqHalfAssumption, TransAssumption
   DEF P!SeqHalfAssumption, P!TxAssumption, FrameSeq, SeqModulus, P!FrameSeq, P!SeqModulus

\* Its operators are those of the instance the model uses.
LEMMA SameSend ==
    ASSUME NEW t, NEW s, NEW ok
    PROVE  W!SendEnhanceFrame(t, s, FALSE, 0, ok) = P!SendEnhanceFrame(t, s, FALSE, 0, ok)
BY DEF W!SendEnhanceFrame, P!SendEnhanceFrame, W!Result, P!Result,
       W!SendEnhanceFrameInner, P!SendEnhanceFrameInner, W!RetransEnhanceFrame,
       P!RetransEnhanceFrame, W!FindFrameBySeq, P!FindFrameBySeq, W!PackEnhanceFrames,
       P!PackEnhanceFrames, W!PollPeriod, P!PollPeriod, W!SeqPlus, P!SeqPlus, W!SeqInit,
       P!SeqInit, W!SeqModulus, P!SeqModulus, W!IsFrameSeqSmaller, P!IsFrameSeqSmaller,
       W!SeqDiff, P!SeqDiff

\* The same for the retransmission timer.
LEMMA SameTimer ==
    ASSUME NEW t, NEW ok
    PROVE  W!RetransTimerExpire(t, ok) = P!RetransTimerExpire(t, ok)
BY DEF W!RetransTimerExpire, P!RetransTimerExpire, W!Result, P!Result,
       W!RetransEnhanceFrame, P!RetransEnhanceFrame, W!FindFrameBySeq, P!FindFrameBySeq

\* The same for an answer of the peer.
LEMMA SameRecv ==
    ASSUME NEW t, NEW reqSeq, NEW sBit, NEW ok
    PROVE  W!RecvAck(t, reqSeq, sBit, FALSE, 0, ok) = P!RecvAck(t, reqSeq, sBit, FALSE, 0, ok)
<1>1. \A u, x : W!SendEnhanceFrame(u, x, FALSE, 0, ok) = P!SendEnhanceFrame(u, x, FALSE, 0, ok)
  BY SameSend
<1>2. W!RecvNackFrame(t, reqSeq, sBit, ok) = P!RecvNackFrame(t, reqSeq, sBit, ok)
  BY DEF W!RecvNackFrame, P!RecvNackFrame, W!Result, P!Result, W!RetransEnhanceFrame,
         P!RetransEnhanceFrame, W!FindFrameBySeq, P!FindFrameBySeq
<1>3. \A u : W!SlideTxWindow(u, reqSeq) = P!SlideTxWindow(u, reqSeq)
  BY DEF W!SlideTxWindow, P!SlideTxWindow, W!SeqInit, P!SeqInit, W!SeqModulus,
         P!SeqModulus, W!Acknowledges, P!Acknowledges, W!TimerAfterAck, P!TimerAfterAck,
         W!FreeAcked, P!FreeAcked, W!IsFrameSeqSmaller, P!IsFrameSeqSmaller, W!SeqDiff,
         P!SeqDiff
<1>4. \A u : W!TransChannelStatusChange(u, FALSE, 0, ok)
                = P!TransChannelStatusChange(u, FALSE, 0, ok)
  BY <1>1 DEF W!TransChannelStatusChange, P!TransChannelStatusChange, W!Result, P!Result
<1> QED BY <1>2, <1>3, <1>4 DEF W!RecvAck, P!RecvAck

\* A write on the channel.
LEMMA ChannelSend ==
    ASSUME NEW t, P!WindowOK(t), NEW s \in Sdus, NEW ok \in BOOLEAN
    PROVE  LET r == W!SendEnhanceFrame(t, s, FALSE, 0, ok)
           IN  /\ P!WindowOK(r.tx) /\ r.ret \in P!ResultCodes
               /\ P!SendStatusOK(t, s, FALSE, r) /\ P!SduOK(t, s, FALSE, r)
<1> DEFINE r == P!SendEnhanceFrame(t, s, FALSE, 0, ok)
<1>1. P!IsResult(r) /\ P!WindowOK(r.tx) /\ P!SendStatusOK(t, s, FALSE, r) /\ P!SduOK(t, s, FALSE, r)
  BY ChannelAssumption, P!SendOK
<1>2. r.ret \in P!ResultCodes
  BY <1>1 DEF P!IsResult
<1> QED BY <1>1, <1>2, SameSend

\* The timer.
LEMMA ChannelTimer ==
    ASSUME NEW t, P!WindowOK(t), NEW ok \in BOOLEAN
    PROVE  LET u == W!RetransTimerExpire(t, ok).tx
           IN  P!WindowOK(u) /\ P!SameStatus(t, u)
BY ChannelAssumption, SameTimer, P!RetransTimerOK

\* An answer of the peer.
LEMMA ChannelRecv ==
    ASSUME NEW t, P!WindowOK(t), NEW reqSeq \in FrameSeq, NEW sBit \in BOOLEAN,
           NEW ok \in BOOLEAN
    PROVE  LET r == W!RecvAck(t, reqSeq, sBit, FALSE, 0, ok)
           IN  /\ P!WindowOK(r.tx) /\ r.cbk \in BOOLEAN
               /\ P!StatusOK(t, FrameCnt[t.cacheBuff][FALSE], r)
<1> DEFINE r == P!RecvAck(t, reqSeq, sBit, FALSE, 0, ok)
<1>1. reqSeq \in P!FrameSeq
  BY DEF FrameSeq, P!FrameSeq, SeqModulus, P!SeqModulus
<1>2. /\ P!WindowOK(r.tx) /\ r.cbk \in BOOLEAN
      /\ P!StatusOK(t, FrameCnt[t.cacheBuff][FALSE], r)
  BY <1>1, ChannelAssumption, P!RecvAckOK
<1> QED BY <1>2, SameRecv

-----------------------------------------------------------------------------
(* The stack thread.                                                       *)

\* A task in the queue concerns an SDU for which TRANS_SendData was called.
LEMMA TaskIsAlive ==
    ASSUME SharedInv, NEW s \in Sdus, Queued(s) \/ FreeQueued(s) \/ posting = s
    PROVE  Alive(s) /\ \E i \in 1 .. read : env.toSend[i] = s
BY DEF SharedInv, CallsOK, Untouched

\* What is queued at the data transfer thread is not touched by the stack thread:
\* only objects of an SDU that has been begun with change, and not its answer.
LEMMA OneWriteKept ==
    ASSUME SharedInv, UNCHANGED <<env, reader, read, dtQueue, dt>>,
           \A s \in Sdus : Untouched(s) => Untouched(s)',
           \A s \in Sdus : call'[s].answer = call[s].answer
    PROVE  OneWrite'
<1> USE DEF SharedInv
<1>1. ASSUME NEW i \in 1 .. Len(dtQueue), dtQueue[i] # Update
      PROVE  Untouched(env.toSend[read])'
  <2>1. reader = "wait" /\ read > 0 /\ Untouched(env.toSend[read])
    BY <1>1 DEF OneWrite
  <2>2. read \in 1 .. Len(env.toSend) /\ env.toSend \in Seq(Sdus)
    BY <2>1, TransAssumption, LenProperties DEF SharedTypeOK
  <2>3. PICK s0 : s0 = env.toSend[read]
    OBVIOUS
  <2>4. s0 \in Sdus
    BY <2>2, <2>3, ElementOfSeq
  <2>5. Untouched(s0)'
    BY <2>1, <2>3, <2>4
  <2>6. s0 = env'.toSend[read']
    BY <2>3
  <2> QED BY <2>5, <2>6 DEF Untouched, Caller, Queued, FreeQueued
<1>2. dt # Idle => dt.sdu \in Sdus
  BY CallUnderWay DEF OneWrite
<1>3. dt # Idle => call'[dt.sdu].answer = "NONE"
  BY <1>2 DEF OneWrite
<1> QED BY <1>1, <1>3 DEF OneWrite

\* TRANS_SendDataProc.
LEMMA SendDataProcKeeps ==
    ASSUME SharedInv, SendDataProc
    PROVE  SharedInv'
<1> USE DEF SharedInv
<1>0. PICK s0 : s0 = Head(stackQueue).sdu
  OBVIOUS
<1>1. /\ stack = "running" /\ posting = NoSdu /\ stackQueue # <<>>
      /\ Head(stackQueue).do = "send" /\ stackQueue' = Tail(stackQueue) /\ posting' = s0
      /\ UNCHANGED <<env, stack, reader, read, dtQueue, dt, busy>>
  BY <1>0 DEF SendDataProc, NextTask, StackFree, portVars, serviceVars
<1>2. /\ stackQueue' \in Seq(Task) /\ StackQueueOK' /\ Head(stackQueue) \in Task
      /\ Contains(stackQueue, Head(stackQueue))
      /\ \A e : Contains(stackQueue', e) <=> Contains(stackQueue, e) /\ e # Head(stackQueue)
  BY <1>1, TakeTask
<1>3. Head(stackQueue) = Send(s0) /\ s0 \in Sdus /\ Queued(s0)
  BY <1>0, <1>1, <1>2, TaskKinds DEF Queued
<1>4. Alive(s0) /\ \E i \in 1 .. read : env.toSend[i] = s0
  BY <1>3, TaskIsAlive
<1>5. PICK ret, u : /\ ret \in Results /\ P!WindowOK(u) /\ tx' = u
                    /\ call' = [call EXCEPT ![s0].result = ret, ![s0].ref = @ - 1,
                                            ![s0].buffFrees = @ + 1]
  <2>1. PICK linked \in env.linkResults, ok \in env.sendOutcomes :
            LET r == IF linked THEN W!SendEnhanceFrame(tx, s0, FALSE, 0, ok)
                     ELSE W!Result(tx, <<>>, "LOGIC_LINK_NOT_FOUND")
            IN  /\ tx' = r.tx
                /\ call' = [call EXCEPT ![s0].result = r.ret, ![s0].ref = @ - 1,
                                        ![s0].buffFrees = @ + 1]
    BY <1>0 DEF SendDataProc
  <2> DEFINE r == IF linked THEN W!SendEnhanceFrame(tx, s0, FALSE, 0, ok)
                  ELSE W!Result(tx, <<>>, "LOGIC_LINK_NOT_FOUND")
  <2>2. P!WindowOK(tx) /\ ok \in BOOLEAN
    BY TransAssumption DEF SharedTypeOK
  <2>3. P!WindowOK(r.tx) /\ r.ret \in Results
    <3>1. CASE linked
      BY <1>3, <2>2, <3>1, ChannelSend, FieldValues
    <3>2. CASE ~ linked
      BY <2>2, <3>2, FieldValues DEF W!Result
    <3> QED BY <3>1, <3>2
  <2>4. /\ tx' = r.tx
        /\ call' = [call EXCEPT ![s0].result = r.ret, ![s0].ref = @ - 1,
                                ![s0].buffFrees = @ + 1]
    BY <2>1
  <2> HIDE DEF r
  <2> QED BY <2>3, <2>4
<1>6. /\ call' \in [Sdus -> CallState]
      /\ call'[s0].sem = call[s0].sem /\ call'[s0].ref = call[s0].ref - 1
      /\ call'[s0].semPosted = call[s0].semPosted /\ call'[s0].answer = call[s0].answer
      /\ call'[s0].buffFrees = call[s0].buffFrees + 1
      /\ call[s0].ref \in Int /\ call[s0].buffFrees \in Nat
      /\ \A s \in Sdus : s # s0 => call'[s] = call[s]
  <2> DEFINE c == call[s0]
             d == Runs(c, ret, c.ref - 1, c.buffFrees + 1)
  <2>0. ret \in Results
    BY <1>5
  <2>1. c \in CallState
    BY <1>3 DEF SharedTypeOK
  <2>2. /\ c.ref \in Int /\ c.ref - 1 \in Int /\ c.buffFrees \in Nat /\ c.buffFrees + 1 \in Nat
    BY <2>1 DEF CallState
  <2>3. /\ d \in CallState /\ d.sem = c.sem /\ d.ref = c.ref - 1 /\ d.answer = c.answer
        /\ d.semPosted = c.semPosted /\ d.buffFrees = c.buffFrees + 1
    BY <2>0, <2>1, <2>2, RunsOK
  <2>4. call' = [call EXCEPT ![s0] = d]
    BY <1>3, <1>5 DEF Runs
  <2> HIDE DEF d
  <2> QED BY <1>3, <2>2, <2>3, <2>4 DEF SharedTypeOK
<1>7. SharedTypeOK'
  BY <1>1, <1>2, <1>3, <1>5, <1>6 DEF SharedTypeOK
<1>8. \A s \in Sdus : /\ Caller(s)' <=> Caller(s)
                      /\ Queued(s)' <=> Queued(s) /\ s # s0
                      /\ FreeQueued(s)' <=> FreeQueued(s)
                      /\ posting' = s <=> s = s0
                      /\ posting # s
  BY <1>1, <1>2, <1>3, TaskKinds, TransAssumption DEF Caller, Queued, FreeQueued
<1>9. Alive(s0)'
  BY <1>1, <1>3, <1>4, <1>6, <1>8 DEF Alive, One
<1>10. CallsOK'
  BY <1>1, <1>3, <1>4, <1>6, <1>8, <1>9, OthersKept
<1>11. OneWrite'
  <2>1. \A s \in Sdus : Untouched(s) => Untouched(s)'
    BY <1>3, <1>6, <1>8 DEF Untouched
  <2> QED BY <1>1, <1>6, <2>1, OneWriteKept
<1> QED BY <1>2, <1>7, <1>10, <1>11

\* The task posts the semaphore, which is still there.
LEMMA RunTaskBlockedKeeps ==
    ASSUME SharedInv, RunTaskBlocked
    PROVE  SharedInv'
<1> USE DEF SharedInv
<1>0. PICK s0 : s0 = posting
  OBVIOUS
<1>1. /\ s0 \in Sdus /\ posting' = NoSdu /\ call' = [call EXCEPT ![s0] = PostSem(@)]
      /\ UNCHANGED <<env, stackQueue, stack, reader, read, dtQueue, dt, busy, tx>>
  BY <1>0 DEF RunTaskBlocked, portVars, serviceVars, channelVars, SharedTypeOK
<1>2. Alive(s0) /\ \E i \in 1 .. read : env.toSend[i] = s0
  BY <1>0, <1>1, TaskIsAlive
<1>3. /\ call' \in [Sdus -> CallState]
      /\ call'[s0].sem = call[s0].sem /\ call'[s0].ref = call[s0].ref
      /\ call'[s0].answer = call[s0].answer /\ call'[s0].buffFrees = call[s0].buffFrees
      /\ \A s \in Sdus : s # s0 => call'[s] = call[s]
  <2> DEFINE c == call[s0]
             d == PostSem(c)
  <2>1. c \in CallState
    BY <1>1 DEF SharedTypeOK
  <2>2. /\ d \in CallState /\ d.sem = c.sem /\ d.ref = c.ref /\ d.answer = c.answer
        /\ d.buffFrees = c.buffFrees
    BY <2>1 DEF CallState, PostSem
  <2>3. call' = [call EXCEPT ![s0] = d]
    BY <1>1
  <2> HIDE DEF d
  <2> QED BY <1>1, <2>2, <2>3 DEF SharedTypeOK
<1>4. SharedTypeOK'
  BY <1>1, <1>3 DEF SharedTypeOK
<1>5. \A s \in Sdus : /\ Caller(s)' <=> Caller(s)
                      /\ Queued(s)' <=> Queued(s)
                      /\ FreeQueued(s)' <=> FreeQueued(s)
                      /\ posting' # s
                      /\ posting = s <=> s = s0
  BY <1>0, <1>1, TransAssumption DEF Caller, Queued, FreeQueued
<1>6. Alive(s0)'
  <2>1. posting = s0 /\ ~ Queued(s0)
    BY <1>0, <1>2 DEF Alive
  <2> QED BY <1>1, <1>2, <1>3, <1>5, <2>1 DEF Alive, One
<1>7. CallsOK'
  BY <1>1, <1>2, <1>3, <1>5, <1>6, OthersKept
<1>8. OneWrite'
  <2>1. \A s \in Sdus : Untouched(s) => Untouched(s)'
    BY <1>1, <1>3, <1>5 DEF Untouched
  <2> QED BY <1>1, <1>3, <2>1, OneWriteKept
<1>9. StackQueueOK'
  BY <1>1 DEF StackQueueOK
<1> QED BY <1>4, <1>7, <1>8, <1>9

\* The queued free: the task that posts the semaphore was before it.
LEMMA FreeSemTaskKeeps ==
    ASSUME SharedInv, FreeSemTask
    PROVE  SharedInv'
<1> USE DEF SharedInv
<1>0. PICK s0 : s0 = Head(stackQueue).sdu
  OBVIOUS
<1>1. /\ stack = "running" /\ posting = NoSdu /\ stackQueue # <<>>
      /\ Head(stackQueue).do = "freeSem" /\ stackQueue' = Tail(stackQueue)
      /\ call' = [call EXCEPT ![s0].sem = "freed"]
      /\ UNCHANGED <<env, posting, stack, reader, read, dtQueue, dt, busy, tx>>
  BY <1>0 DEF FreeSemTask, NextTask, StackFree, portVars, serviceVars, channelVars
<1>2. /\ stackQueue' \in Seq(Task) /\ StackQueueOK' /\ Head(stackQueue) \in Task
      /\ Contains(stackQueue, Head(stackQueue))
      /\ \A e : Contains(stackQueue', e) <=> Contains(stackQueue, e) /\ e # Head(stackQueue)
  BY <1>1, TakeTask
<1>3. Head(stackQueue) = FreeSem(s0) /\ s0 \in Sdus /\ FreeQueued(s0)
  BY <1>0, <1>1, <1>2, TaskKinds DEF FreeQueued
<1>4. Alive(s0) /\ \E i \in 1 .. read : env.toSend[i] = s0
  BY <1>3, TaskIsAlive
<1>5. ~ Queued(s0)
  <2>1. 1 \in 1 .. Len(stackQueue) /\ stackQueue[1] = FreeSem(s0)
    BY <1>1, <1>3, TailElements DEF SharedTypeOK
  <2>2. ~ \E j \in 1 .. Len(stackQueue) : stackQueue[j] = Send(s0)
    BY <1>3, <2>1 DEF StackQueueOK
  <2> QED BY <2>2 DEF Queued, Contains
<1>6. /\ call' \in [Sdus -> CallState]
      /\ call'[s0].sem = "freed" /\ call'[s0].ref = call[s0].ref
      /\ call'[s0].answer = call[s0].answer /\ call'[s0].buffFrees = call[s0].buffFrees
      /\ \A s \in Sdus : s # s0 => call'[s] = call[s]
  <2> DEFINE c == call[s0]
             d == [c EXCEPT !.sem = "freed"]
  <2>1. c \in CallState
    BY <1>3 DEF SharedTypeOK
  <2>2. /\ d \in CallState /\ d.sem = "freed" /\ d.ref = c.ref /\ d.answer = c.answer
        /\ d.buffFrees = c.buffFrees
    BY <2>1, FieldValues DEF CallState
  <2>3. call' = [call EXCEPT ![s0] = d]
    BY <1>1
  <2> HIDE DEF d
  <2> QED BY <1>3, <2>2, <2>3 DEF SharedTypeOK
<1>7. SharedTypeOK'
  BY <1>1, <1>2, <1>6 DEF SharedTypeOK
<1>8. \A s \in Sdus : /\ Caller(s)' <=> Caller(s)
                      /\ Queued(s)' <=> Queued(s)
                      /\ FreeQueued(s)' <=> FreeQueued(s) /\ s # s0
                      /\ posting' = s <=> posting = s
                      /\ posting # s
  BY <1>1, <1>2, <1>3, TaskKinds, TransAssumption DEF Caller, Queued, FreeQueued
<1>9. Alive(s0)'
  BY <1>1, <1>3, <1>4, <1>5, <1>6, <1>8 DEF Alive, One
<1>10. CallsOK'
  BY <1>1, <1>3, <1>4, <1>6, <1>8, <1>9, OthersKept
<1>11. OneWrite'
  <2>1. \A s \in Sdus : Untouched(s) => Untouched(s)'
    BY <1>3, <1>6, <1>8 DEF Untouched
  <2> QED BY <1>1, <1>6, <2>1, OneWriteKept
<1> QED BY <1>2, <1>7, <1>10, <1>11

\* The channel's own events change no object; a call-back is queued as an update.
LEMMA ChannelKeeps ==
    ASSUME SharedInv, RecvReqSeq \/ RetransTimer
    PROVE  SharedInv'
<1> USE DEF SharedInv
<1>1. UNCHANGED <<env, call, dt, stackQueue, posting, stack, reader, read, busy>>
  BY DEF RecvReqSeq, RetransTimer, SendDataStateCallback, portVars, serviceVars, stackVars
<1>2. /\ \A s \in Sdus : (Untouched(s)' <=> Untouched(s)) /\ (Alive(s)' <=> Alive(s))
      /\ StackQueueOK'
  BY <1>1, ObjectsKept
<1>3. dtQueue \in Seq(Post) /\ Update \in Post
  BY DEF SharedTypeOK, Post, Update
<1>4. P!WindowOK(tx') /\ (dtQueue' = dtQueue \/ dtQueue' = Append(dtQueue, Update))
  <2>1. P!WindowOK(tx) /\ env.sendOutcomes \subseteq BOOLEAN
    BY TransAssumption DEF SharedTypeOK
  <2>2. CASE RecvReqSeq
    <3>1. PICK reqSeq \in FrameSeq, sBit \in BOOLEAN, ok \in env.sendOutcomes :
              LET r == W!RecvAck(tx, reqSeq, sBit, FALSE, 0, ok)
              IN  tx' = r.tx /\ SendDataStateCallback(r.cbk)
      BY <2>2 DEF RecvReqSeq
    <3> DEFINE r == W!RecvAck(tx, reqSeq, sBit, FALSE, 0, ok)
    <3>2. P!WindowOK(r.tx)
      BY <2>1, ChannelRecv
    <3> HIDE DEF r
    <3>3. tx' = r.tx /\ SendDataStateCallback(r.cbk)
      BY <3>1 DEF r
    <3> QED BY <3>2, <3>3 DEF SendDataStateCallback
  <2>3. CASE RetransTimer
    <3>1. PICK ok \in env.sendOutcomes : tx' = W!RetransTimerExpire(tx, ok).tx
      BY <2>3 DEF RetransTimer
    <3>2. P!WindowOK(W!RetransTimerExpire(tx, ok).tx)
      BY <2>1, ChannelTimer
    <3> QED BY <2>3, <3>1, <3>2 DEF RetransTimer, serviceVars
  <2> QED BY <2>2, <2>3
<1>5. /\ dtQueue' \in Seq(Post) /\ Len(dtQueue) \in Nat
      /\ \A i \in 1 .. Len(dtQueue') : dtQueue'[i] # Update =>
            i \in 1 .. Len(dtQueue) /\ dtQueue'[i] = dtQueue[i]
  <2>1. CASE dtQueue' = dtQueue
    BY <1>3, <2>1, LenProperties
  <2>2. CASE dtQueue' = Append(dtQueue, Update)
    <3>1. /\ dtQueue' \in Seq(Post) /\ Len(dtQueue') = Len(dtQueue) + 1 /\ Len(dtQueue) \in Nat
          /\ \A i \in 1 .. Len(dtQueue) + 1 :
                dtQueue'[i] = IF i \in 1 .. Len(dtQueue) THEN dtQueue[i] ELSE Update
      BY <1>3, <2>2, AppendElements
    <3> QED BY <3>1
  <2> QED BY <1>4, <2>1, <2>2
<1>6. SharedTypeOK'
  BY <1>1, <1>4, <1>5 DEF SharedTypeOK
<1>7. OneWrite'
  <2>1. Untouched(env.toSend[read])' <=> Untouched(env.toSend[read])
    BY <1>1 DEF Untouched, Caller, Queued, FreeQueued
  <2>2. \A i \in 1 .. Len(dtQueue') :
          dtQueue'[i] # Update => /\ reader' = "wait" /\ dtQueue'[i] = Write(env'.toSend[read'])
                                  /\ dt' = Idle /\ Untouched(env.toSend[read])'
    BY <1>1, <1>5, <2>1 DEF OneWrite
  <2>3. \A i, j \in 1 .. Len(dtQueue') : dtQueue'[i] # Update /\ dtQueue'[j] # Update => i = j
    BY <1>5 DEF OneWrite
  <2> QED BY <1>1, <2>2, <2>3 DEF OneWrite
<1>8. CallsOK'
  BY <1>1, <1>2 DEF CallsOK
<1> QED BY <1>2, <1>6, <1>7, <1>8

\* The thread stops between two tasks.
LEMMA StopKeeps ==
    ASSUME SharedInv, ScheduleStop
    PROVE  SharedInv'
<1> USE DEF SharedInv
<1>1. /\ stack = "running" /\ posting = NoSdu /\ stack' = "stopped"
      /\ UNCHANGED <<env, stackQueue, posting, reader, read, dtQueue, dt, busy, call, tx>>
  BY DEF ScheduleStop, StackFree, portVars, serviceVars, channelVars
<1>2. \A s \in Sdus : /\ Caller(s)' <=> Caller(s)
                      /\ Queued(s)' <=> Queued(s)
                      /\ FreeQueued(s)' <=> FreeQueued(s)
  BY <1>1 DEF Caller, Queued, FreeQueued
<1>3. \A s \in Sdus : (Untouched(s)' <=> Untouched(s)) /\ (Alive(s)' <=> Alive(s))
  BY <1>1, <1>2, NotConcerned
<1>4. SharedTypeOK' /\ StackQueueOK'
  BY <1>1 DEF SharedTypeOK, StackQueueOK
<1>5. OneWrite'
  BY <1>1, <1>3, OneWriteKept
<1>6. CallsOK'
  BY <1>1, <1>3 DEF CallsOK
<1> QED BY <1>4, <1>5, <1>6

\* The worker is destroyed: the queued frees are done, the queued sends are lost.
LEMMA DestroyKeeps ==
    ASSUME SharedInv, DestroyWorker
    PROVE  SharedInv'
<1> USE DEF SharedInv
<1>1. /\ stack = "stopped" /\ stack' = "destroyed" /\ stackQueue' = <<>>
      /\ call' = [s \in Sdus |-> IF FreeQueued(s) THEN [call[s] EXCEPT !.sem = "freed"]
                                 ELSE call[s]]
      /\ UNCHANGED <<env, posting, reader, read, dtQueue, dt, busy, tx>>
  BY DEF DestroyWorker, FreeQueued, portVars, serviceVars, channelVars
<1>2. posting = NoSdu /\ \A s \in Sdus : posting # s
  BY <1>1, TransAssumption DEF StackQueueOK
<1>3. \A s \in Sdus : (Caller(s)' <=> Caller(s)) /\ ~ Queued(s)' /\ ~ FreeQueued(s)'
  <2>1. \A e : ~ Contains(stackQueue', e)
    BY <1>1, EmptySeq DEF Contains
  <2> QED BY <1>1, <2>1 DEF Caller, Queued, FreeQueued
<1>4. ASSUME NEW s \in Sdus
      PROVE  /\ call'[s] \in CallState /\ call'[s].ref = call[s].ref
             /\ call'[s].answer = call[s].answer
             /\ call'[s].sem = IF FreeQueued(s) THEN "freed" ELSE call[s].sem
             /\ ~ FreeQueued(s) => call'[s] = call[s]
             /\ call[s].ref \in Int
  <2>1. call[s] \in CallState
    BY DEF SharedTypeOK
  <2>2. CASE FreeQueued(s)
    <3>1. call'[s] = [call[s] EXCEPT !.sem = "freed"]
      BY <1>1, <2>2
    <3> QED BY <2>1, <2>2, <3>1, FieldValues DEF CallState
  <2>3. CASE ~ FreeQueued(s)
    BY <1>1, <2>1, <2>3 DEF CallState
  <2> QED BY <2>2, <2>3
<1>5. SharedTypeOK'
  <2>1. stackQueue' \in Seq(Task)
    BY <1>1
  <2>2. call' \in [Sdus -> CallState]
    BY <1>1, <1>4
  <2> QED BY <1>1, <2>1, <2>2 DEF SharedTypeOK
<1>6. StackQueueOK'
  BY <1>1, <1>2, EmptySeq DEF StackQueueOK
<1>7. \A s \in Sdus : Untouched(s) => Untouched(s)'
  BY <1>1, <1>2, <1>3, <1>4 DEF Untouched
<1>8. \A s \in Sdus : Alive(s) => Alive(s)'
  <2> SUFFICES ASSUME NEW s \in Sdus, Alive(s) PROVE Alive(s)'
    OBVIOUS
  <2>1. IF Caller(s) THEN call'[s].sem = "live" ELSE call'[s].sem \in {"freed", "refused"}
    BY <1>4 DEF Alive
  <2>2. call'[s].ref >= One(Caller(s)) + One(FALSE)
    BY <1>4 DEF Alive, One
  <2> QED BY <1>1, <1>2, <1>3, <2>1, <2>2 DEF Alive, One
<1>9. OneWrite'
  BY <1>1, <1>4, <1>7, OneWriteKept
<1>10. CallsOK'
  BY <1>1, <1>7, <1>8 DEF CallsOK
<1> QED BY <1>5, <1>6, <1>9, <1>10

-----------------------------------------------------------------------------
(* The specification.                                                      *)

\* The channel is created with a window in order.
LEMMA NewChannelOK == P!WindowOK(W!InitTxWindow)
<1> DEFINE t == W!InitTxWindow
<1>1. /\ t \in P!TxState /\ t.txList = <<>> /\ t.nextTxSeq = 0 /\ t.expectedAckSeq = 0
      /\ t.retransTimer = FALSE
  BY ChannelAssumption, EmptySeq DEF W!InitTxWindow, P!TxState
<1>2. Len(t.txList) = 0 /\ WindowSize \in Nat
  BY <1>1, EmptySeq, TransAssumption, SeqHalfAssumption
<1>3. P!SeqPlus(0, 0) = 0
  BY SeqHalfAssumption DEF P!SeqPlus, P!SeqModulus
<1> HIDE DEF t
<1>4. P!Consecutive(t.txList, t.expectedAckSeq)
  BY <1>2 DEF P!Consecutive
<1>5. P!WindowOK(t)
  BY <1>1, <1>2, <1>3, <1>4 DEF P!WindowOK
<1> QED BY <1>5 DEF t

\* Nobody has begun with anything.
LEMMA SharedInit == Init => SharedInv
<1> SUFFICES ASSUME Init PROVE SharedInv
  OBVIOUS
<1> USE DEF Init
<1>1. SharedTypeOK
  <2>1. read \in 0 .. Len(env.toSend)
    BY TransAssumption, LenProperties
  <2>2. call \in [Sdus -> CallState]
    BY FieldValues DEF CallState, NoCall
  <2>3. P!WindowOK(tx)
    BY NewChannelOK
  <2>4. dt \in [at : {"idle", "wait", "late"}, sdu : Sdus \cup {NoSdu}]
    BY DEF Idle
  <2>5. dtQueue \in Seq(Post) /\ stackQueue \in Seq(Task)
    OBVIOUS
  <2> QED BY <2>1, <2>2, <2>3, <2>4, <2>5 DEF SharedTypeOK
<1>2. OneWrite
  BY EmptySeq DEF OneWrite
<1>3. StackQueueOK
  BY EmptySeq DEF StackQueueOK
<1>4. CallsOK
  <2>1. \A e : ~ Contains(stackQueue, e)
    BY EmptySeq DEF Contains
  <2> QED BY <2>1, TransAssumption DEF CallsOK, Untouched, Caller, Queued, FreeQueued, Idle
<1> QED BY <1>1, <1>2, <1>3, <1>4 DEF SharedInv

\* Every step of every thread preserves the invariant.
LEMMA SharedStep == SharedInv /\ [Next]_vars => SharedInv'
<1> SUFFICES ASSUME SharedInv, [Next]_vars PROVE SharedInv'
  OBVIOUS
<1>1. CASE PortThread
  BY <1>1, PortKeeps
<1>2. CASE DtThread
  BY <1>2, UpdateKeeps, PostSendKeeps, PostSendFailsKeeps, ReturnsKeeps, TimesOutKeeps,
     AbandonedKeeps DEF DtThread
<1>3. CASE StackThread
  BY <1>3, SendDataProcKeeps, RunTaskBlockedKeeps, FreeSemTaskKeeps, ChannelKeeps
     DEF StackThread, Worker
<1>4. CASE Shutdown
  BY <1>4, StopKeeps, DestroyKeeps DEF Shutdown
<1>5. CASE UNCHANGED vars
  <2>1. /\ UNCHANGED <<env, call, dt, stackQueue, posting, stack, reader, read, dtQueue>>
        /\ UNCHANGED <<busy, tx>>
    BY <1>5 DEF vars, portVars, serviceVars, stackVars, channelVars
  <2>2. /\ \A s \in Sdus : (Untouched(s)' <=> Untouched(s)) /\ (Alive(s)' <=> Alive(s))
        /\ StackQueueOK'
    BY <2>1, ObjectsKept
  <2>3. SharedTypeOK'
    BY <2>1 DEF SharedInv, SharedTypeOK
  <2>4. OneWrite'
    BY <2>1, <2>2, OneWriteKept
  <2>5. CallsOK'
    BY <2>1, <2>2 DEF SharedInv, CallsOK
  <2> QED BY <2>2, <2>3, <2>4, <2>5 DEF SharedInv
<1> QED BY <1>1, <1>2, <1>3, <1>4, <1>5 DEF Next

\* The objects of a write are in the states that the invariant allows, whatever times
\* out, fails or is shut down, and in whatever order the threads run.
THEOREM SharedInvHolds == Spec => []SharedInv
<1> QED BY SharedInit, SharedStep, PTL DEF Spec

\* The number of threads that hold a TRANS_Data_S.
LEMMA HoldersCount ==
    ASSUME NEW s \in Sdus
    PROVE  Cardinality(Holders(s)) = One(Caller(s)) + One(Queued(s))
<1>1. /\ \A h \in Holders(s) : h \in {"caller", "task"}
      /\ "caller" \in Holders(s) <=> Caller(s)
      /\ "task" \in Holders(s) <=> Queued(s)
  BY DEF Holders, Caller, Queued
<1>2. /\ Cardinality({}) = 0
      /\ Cardinality({"caller"}) = 1 /\ Cardinality({"task"}) = 1
      /\ Cardinality({"caller", "task"}) = 2
  <2>1. Cardinality({}) = 0
    BY FS_EmptySet
  <2>2. /\ Cardinality({"caller"}) = 1 /\ Cardinality({"task"}) = 1
        /\ IsFiniteSet({"caller"})
    BY FS_Singleton
  <2>3. Cardinality({"caller"} \cup {"task"}) = Cardinality({"caller"}) + 1
    BY <2>2, FS_AddElement
  <2>4. {"caller"} \cup {"task"} = {"caller", "task"}
    OBVIOUS
  <2> QED BY <2>1, <2>2, <2>3, <2>4
<1>3. CASE Caller(s) /\ Queued(s)
  <2>1. Holders(s) = {"caller", "task"}
    BY <1>1, <1>3
  <2> QED BY <1>2, <1>3, <2>1 DEF One
<1>4. CASE Caller(s) /\ ~ Queued(s)
  <2>1. Holders(s) = {"caller"}
    BY <1>1, <1>4
  <2> QED BY <1>2, <1>4, <2>1 DEF One
<1>5. CASE ~ Caller(s) /\ Queued(s)
  <2>1. Holders(s) = {"task"}
    BY <1>1, <1>5
  <2> QED BY <1>2, <1>5, <2>1 DEF One
<1>6. CASE ~ Caller(s) /\ ~ Queued(s)
  <2>1. Holders(s) = {}
    BY <1>1, <1>6
  <2> QED BY <1>2, <1>6, <2>1 DEF One
<1> QED BY <1>3, <1>4, <1>5, <1>6

\* A TRANS_Data_S has a reference for everyone who still uses it: neither the caller
\* nor the task ever finds it freed by the other (TRANS_TransportDataFree).
THEOREM NeverUsedAfterFree == Spec => []NoUseAfterFree
<1>1. SharedInv => NoUseAfterFree
  <2> SUFFICES ASSUME SharedInv, NEW s \in Sdus PROVE Cardinality(Holders(s)) <= call[s].ref
    BY DEF NoUseAfterFree
  <2>1. CASE Untouched(s)
    <3>1. call[s].ref = 0 /\ ~ Caller(s) /\ ~ Queued(s)
      BY <2>1 DEF Untouched, NoCall
    <3> QED BY <3>1, HoldersCount DEF One
  <2>2. CASE Alive(s)
    BY <2>2, HoldersCount DEF Alive
  <2> QED BY <2>1, <2>2 DEF SharedInv, CallsOK
<1> QED BY <1>1, SharedInvHolds, PTL

\* The semaphore is there for everyone who may still wait on it or free it, and for the
\* task that posts it, unless the stack refused the task that frees it.
THEOREM SemaphoreOutlivesUse == Spec => []SemOutlivesUse
<1>1. SharedInv => SemOutlivesUse
  <2> SUFFICES ASSUME SharedInv, NEW s \in Sdus
               PROVE  /\ Caller(s) \/ FreeQueued(s) => call[s].sem = "live"
                      /\ posting = s \/ Queued(s) => call[s].sem \in {"live", "refused"}
    BY DEF SemOutlivesUse, Caller, Queued, FreeQueued
  <2>1. CASE Untouched(s)
    BY <2>1 DEF Untouched
  <2>2. CASE Alive(s)
    BY <2>2 DEF Alive
  <2> QED BY <2>1, <2>2 DEF SharedInv, CallsOK
<1> QED BY <1>1, SharedInvHolds, PTL

\* Nothing of a call is left when nobody uses it any more, and its buffer has been
\* freed once, as long as the worker has not been destroyed with a task in it.
THEOREM NothingLeaked == Spec => []NoLeak
<1>1. SharedInv => NoLeak
  <2> SUFFICES ASSUME SharedInv, stack # "destroyed", NEW s \in Sdus PROVE Freed(s)
    BY DEF NoLeak
  <2>1. CASE Untouched(s)
    BY <2>1 DEF Untouched, Freed
  <2>2. CASE Alive(s)
    <3>1. Holders(s) = {} => ~ Caller(s) /\ ~ Queued(s)
      BY DEF Holders, Caller, Queued
    <3> QED BY <2>2, <3>1 DEF Alive, One, Freed, FreeQueued
  <2> QED BY <2>1, <2>2 DEF SharedInv, CallsOK
<1> QED BY <1>1, SharedInvHolds, PTL

-----------------------------------------------------------------------------
(* What the service and the channel know of each other.                    *)

\* The answer "full" has been given and not been taken back.
Told == busy \/ (dt.at # "idle" /\ call[dt.sdu].result = "TX_WINDOW_FULL")
Pending == Contains(dtQueue, Update)

\* Whoever was told "full" is owed an update; what is kept was answered with "full".
Owed ==
    /\ Told => tx.isTxWindowFull \/ Pending
    /\ tx.cacheBuff # NoSdu => /\ tx.isTxWindowFull
                               /\ FrameCnt[tx.cacheBuff][FALSE] <= MaxFragNum

\* Without time-outs nothing is abandoned; the answer is the one of the task that ran;
\* the service is not busy while the reader reads or waits for an answer.
InTime ==
    /\ ~ env.timeouts => /\ dt.at # "late"
                         /\ \A s \in Sdus : ~ FreeQueued(s) /\ call[s].sem # "refused"
    /\ busy => \/ reader = "poll"
               \/ reader = "wait" /\ call[env.toSend[read]].answer = "TRANS_BUSY"
    /\ \A s \in Sdus : Queued(s) => call[s].result = "NONE"
    /\ \A s \in Sdus : call[s].answer \in {"TRANS_SUCCESS", "TRANS_BUSY"}
                          => call[s].result \in {"SUCCESS", "TX_WINDOW_FULL"}

\* Until the channel gives up: it is marked full exactly while the service has been told
\* so and no update is under way, and no SDU is lost.
InStep ==
    env.timeouts \/ tx.release \/
        /\ tx.isTxWindowFull => Told
        /\ Pending => Told /\ ~ tx.isTxWindowFull
        /\ \A i, j \in 1 .. Len(dtQueue) : dtQueue[i] = Update /\ dtQueue[j] = Update => i = j
        /\ \A s \in Sdus : call[s].result \in {"SUCCESS", "TX_WINDOW_FULL"}
                              => s \in sent \/ tx.cacheBuff = s

ServiceInv == Owed /\ InTime /\ InStep

\* A step that DtapTxWindow does not see.
Unseen == tx' = tx /\ ((Told /\ ~ Pending)' <=> (Told /\ ~ Pending))

\* The SDU the port thread waits for.
LEMMA AwaitedSdu ==
    ASSUME SharedInv, reader = "wait"
    PROVE  env.toSend[read] \in Sdus
<1>1. read \in 1 .. Len(env.toSend) /\ env.toSend \in Seq(Sdus)
  BY TransAssumption, LenProperties DEF SharedInv, SharedTypeOK, OneWrite
<1> QED BY <1>1, ElementOfSeq

\* Steps that change neither the channel nor what was answered.
LEMMA QuietKeeps ==
    ASSUME SharedInv, ServiceInv,
           UNCHANGED <<env, reader, read, dtQueue, dt, busy, tx, sent>>,
           \A s \in Sdus : /\ call'[s].result = call[s].result
                           /\ call'[s].answer = call[s].answer
                           /\ call'[s].sem = "refused" => call[s].sem = "refused"
                           /\ Queued(s)' => Queued(s)
                           /\ FreeQueued(s)' => FreeQueued(s)
    PROVE  ServiceInv' /\ Unseen
<1> USE DEF ServiceInv
<1>1. dt.at # "idle" => dt.sdu \in Sdus
  BY CallUnderWay
<1>2. reader = "wait" => env.toSend[read] \in Sdus
  BY AwaitedSdu
<1>3. (Told' <=> Told) /\ (Pending' <=> Pending)
  BY <1>1 DEF Told, Pending
<1>4. Owed'
  BY <1>3 DEF Owed
<1>5. InTime'
  BY <1>2 DEF InTime
<1>6. InStep'
  BY <1>3 DEF InStep
<1> QED BY <1>3, <1>4, <1>5, <1>6 DEF Unseen

\* Polling, reading and taking an answer.
LEMMA PortTold ==
    ASSUME SharedInv, ServiceInv, PortThread
    PROVE  ServiceInv' /\ Unseen
<1> USE DEF ServiceInv
<1>0. UNCHANGED <<env, call, dt, stackQueue, busy, tx, sent>>
  BY DEF PortThread, ReceivedData, ReadMessage, ReadNothing, TakeAnswer, serviceVars,
         stackVars, channelVars
<1>1. /\ Told' <=> Told
      /\ \A s \in Sdus : (Queued(s)' <=> Queued(s)) /\ (FreeQueued(s)' <=> FreeQueued(s))
  BY <1>0 DEF Told, Queued, FreeQueued
<1>2. CASE ReceivedData \/ ReadNothing \/ TakeAnswer
  <2>1. /\ UNCHANGED <<read, dtQueue>> /\ (busy => reader' = "poll")
    BY <1>2 DEF ReceivedData, MayRead, ReadNothing, TakeAnswer, AfterAnswer, serviceVars,
                InTime
  <2>2. Pending' <=> Pending
    BY <2>1 DEF Pending
  <2>3. Owed' /\ InTime' /\ InStep'
    BY <1>0, <1>1, <2>1, <2>2 DEF Owed, InTime, InStep
  <2> QED BY <1>0, <1>1, <2>2, <2>3 DEF Unseen
<1>3. CASE ReadMessage
  <2>0. PICK w : w = Write(env.toSend[read + 1])
    OBVIOUS
  <2>1. dtQueue' = Append(dtQueue, w) /\ reader = "loop" /\ ~ busy
    BY <1>3, <2>0 DEF ReadMessage, InTime
  <2>2. w \in Post /\ w # Update
    <3>1. read + 1 \in 1 .. Len(env.toSend) /\ env.toSend \in Seq(Sdus)
      BY <1>3, TransAssumption, LenProperties DEF ReadMessage, SharedInv, SharedTypeOK
    <3>2. env.toSend[read + 1] \in Sdus
      BY <3>1, ElementOfSeq
    <3> QED BY <2>0, <3>2, TransAssumption DEF Post, Write, Update
  <2>3. /\ Len(dtQueue') = Len(dtQueue) + 1 /\ Len(dtQueue) \in Nat
        /\ \A i \in 1 .. Len(dtQueue) + 1 :
              dtQueue'[i] = IF i \in 1 .. Len(dtQueue) THEN dtQueue[i] ELSE w
        /\ Pending' <=> Pending
    BY <2>1, <2>2, AppendElements DEF SharedInv, SharedTypeOK, Pending
  <2>4. \A i \in 1 .. Len(dtQueue') :
           dtQueue'[i] = Update => i \in 1 .. Len(dtQueue) /\ dtQueue[i] = Update
    BY <2>2, <2>3
  <2>5. Owed' /\ InTime'
    BY <1>0, <1>1, <2>1, <2>3 DEF Owed, InTime
  <2>6. InStep'
    BY <1>0, <1>1, <2>3, <2>4 DEF InStep
  <2> QED BY <1>0, <1>1, <2>3, <2>5, <2>6 DEF Unseen
<1> QED BY <1>2, <1>3 DEF PortThread

\* The update that was owed arrives.
LEMMA UpdateTold ==
    ASSUME SharedInv, ServiceInv, UpdateTransferState
    PROVE  ServiceInv' /\ Unseen
<1> USE DEF ServiceInv
<1>1. /\ dt = Idle /\ dtQueue # <<>> /\ Head(dtQueue).do = "update"
      /\ dtQueue' = Tail(dtQueue) /\ ~ busy'
      /\ UNCHANGED <<env, dt, reader, read, stackQueue, call, tx, sent>>
  BY DEF UpdateTransferState, NextIs, portVars, stackVars, channelVars
<1>2. /\ Len(dtQueue') = Len(dtQueue) - 1 /\ Len(dtQueue) \in Nat \ {0}
      /\ \A i \in 1 .. Len(dtQueue) - 1 : dtQueue'[i] = dtQueue[i + 1]
      /\ Head(dtQueue) = dtQueue[1] /\ Contains(dtQueue, Head(dtQueue))
  BY <1>1, TailElements DEF SharedInv, SharedTypeOK
<1>3. Head(dtQueue) = Update
  <2>1. dtQueue[1] # Update => dtQueue[1].do = "write"
    BY <1>2 DEF SharedInv, OneWrite, Write
  <2> QED BY <1>1, <1>2, <2>1
<1>4. Pending /\ ~ Told'
  BY <1>1, <1>2, <1>3 DEF Pending, Told, Idle
<1>5. \A i \in 1 .. Len(dtQueue') : i + 1 \in 1 .. Len(dtQueue) /\ dtQueue'[i] = dtQueue[i + 1]
  BY <1>2
<1>6. Owed' /\ InTime'
  BY <1>1, <1>4 DEF Owed, InTime, Queued, FreeQueued
<1>7. InStep'
  <2> SUFFICES ASSUME ~ env.timeouts, ~ tx.release PROVE InStep'
    BY <1>1 DEF InStep
  <2>1. /\ ~ tx.isTxWindowFull
        /\ \A i, j \in 1 .. Len(dtQueue) : dtQueue[i] = Update /\ dtQueue[j] = Update => i = j
        /\ \A s \in Sdus : call[s].result \in {"SUCCESS", "TX_WINDOW_FULL"}
                              => s \in sent \/ tx.cacheBuff = s
    BY <1>4 DEF InStep
  <2>2. \A i \in 1 .. Len(dtQueue') : dtQueue'[i] # Update
    <3> SUFFICES ASSUME NEW i \in 1 .. Len(dtQueue'), dtQueue'[i] = Update PROVE FALSE
      OBVIOUS
    <3>1. i + 1 = 1
      <4>1. 1 \in 1 .. Len(dtQueue) /\ dtQueue[1] = Update
        BY <1>2, <1>3
      <4> QED BY <1>5, <2>1, <4>1
    <3> QED BY <1>2, <3>1
  <2>3. ~ Pending'
    BY <2>2 DEF Pending, Contains
  <2> QED BY <1>1, <2>1, <2>2, <2>3 DEF InStep
<1> QED BY <1>1, <1>4, <1>6, <1>7 DEF Unseen

\* A write at the head of the queue: the service is not busy, and is owed nothing new.
LEMMA WriteTold ==
    ASSUME SharedInv, ServiceInv, NextIs("write"), dtQueue' = Tail(dtQueue)
    PROVE  /\ ~ busy /\ ~ Told /\ (Pending' <=> Pending)
           /\ \A i \in 1 .. Len(dtQueue') : /\ i + 1 \in 1 .. Len(dtQueue)
                                            /\ dtQueue'[i] = dtQueue[i + 1]
<1> USE DEF ServiceInv
<1>1. /\ dt = Idle /\ reader = "wait" /\ Untouched(env.toSend[read])
      /\ Head(dtQueue) = Write(env.toSend[read]) /\ dtQueue # <<>>
      /\ env.toSend[read] \in Sdus
  BY WriteAtHead DEF NextIs
<1>2. ~ busy
  BY <1>1 DEF InTime, Untouched, NoCall
<1>3. Head(dtQueue) # Update
  BY <1>1 DEF Write, Update
<1>4. /\ Len(dtQueue') = Len(dtQueue) - 1 /\ Len(dtQueue) \in Nat \ {0}
      /\ \A i \in 1 .. Len(dtQueue) - 1 : dtQueue'[i] = dtQueue[i + 1]
      /\ \A e : Contains(dtQueue', e) => Contains(dtQueue, e)
      /\ \A e : Contains(dtQueue, e) /\ e # Head(dtQueue) => Contains(dtQueue', e)
  BY <1>1, TailElements DEF SharedInv, SharedTypeOK
<1>5. Pending' <=> Pending
  BY <1>3, <1>4 DEF Pending
<1>6. ~ Told
  BY <1>1, <1>2 DEF Told, Idle
<1> QED BY <1>2, <1>4, <1>5, <1>6

\* The post of a write, successful or not.
LEMMA PostTold ==
    ASSUME SharedInv, SharedInv', ServiceInv, PostSend \/ PostSendFails
    PROVE  ServiceInv' /\ Unseen
<1> USE DEF ServiceInv
<1>0. PICK s0 : s0 = env.toSend[read]
  OBVIOUS
<1>1. NextIs("write") /\ dtQueue' = Tail(dtQueue)
  BY DEF PostSend, PostSendFails
<1>2. /\ Head(dtQueue).sdu = s0 /\ dt = Idle /\ s0 \in Sdus /\ Untouched(s0)
      /\ reader = "wait"
  BY <1>0, <1>1, WriteAtHead
<1>3. /\ ~ busy /\ ~ Told /\ (Pending' <=> Pending) /\ Len(dtQueue) \in Nat
      /\ \A i \in 1 .. Len(dtQueue') : i \in Nat /\ i + 1 \in 1 .. Len(dtQueue)
                                       /\ dtQueue'[i] = dtQueue[i + 1]
  BY <1>1, WriteTold, LenProperties DEF SharedInv, SharedTypeOK
<1>4. UNCHANGED <<env, reader, read, busy, tx, sent>>
  BY DEF PostSend, PostSendFails, portVars, channelVars
<1>5. /\ \A s \in Sdus : s # s0 => call'[s] = call[s]
      /\ call'[s0].result = "NONE" /\ call'[s0].answer \in {"NONE", "TRANS_FAIL"}
      /\ call'[s0].sem # "refused"
  <2>1. call \in [Sdus -> CallState] /\ call[s0] = NoCall
    BY <1>2 DEF SharedInv, SharedTypeOK, Untouched
  <2>2. CASE PostSend
    <3>1. call' = [call EXCEPT ![s0].ref = RefsAtPost, ![s0].sem = "live"]
      BY <1>2, <2>2 DEF PostSend
    <3> QED BY <1>2, <2>1, <3>1 DEF NoCall
  <2>3. CASE PostSendFails
    <3>1. call' = [call EXCEPT ![s0] = PostFailed(call[s0])]
      BY <1>2, <2>3 DEF PostSendFails
    <3>2. /\ PostFailed(NoCall).result = "NONE" /\ PostFailed(NoCall).answer = "TRANS_FAIL"
          /\ PostFailed(NoCall).sem = "freed"
      BY DEF PostFailed, NoCall
    <3> QED BY <1>2, <2>1, <3>1, <3>2
  <2> QED BY <2>2, <2>3
<1>6. \A s \in Sdus : /\ Queued(s)' => Queued(s) \/ s = s0
                      /\ FreeQueued(s)' => FreeQueued(s)
  <2>1. CASE PostSend
    <3>1. stackQueue' = Append(stackQueue, Send(s0))
      BY <1>2, <2>1 DEF PostSend
    <3>2. \A e : Contains(stackQueue', e) <=> Contains(stackQueue, e) \/ e = Send(s0)
      BY <1>2, <3>1, AppendElements, TaskKinds DEF SharedInv, SharedTypeOK
    <3> QED BY <1>2, <3>2, TaskKinds DEF Queued, FreeQueued
  <2>2. CASE PostSendFails
    BY <2>2 DEF PostSendFails, stackVars, Queued, FreeQueued
  <2> QED BY <2>1, <2>2
<1>7. ~ Told' /\ dt'.at # "late"
  <2>1. CASE PostSend
    <3>1. dt' = [at |-> "wait", sdu |-> s0]
      BY <1>2, <2>1 DEF PostSend
    <3> QED BY <1>3, <1>4, <1>5, <3>1 DEF Told
  <2>2. CASE PostSendFails
    BY <1>2, <1>3, <1>4, <2>2 DEF PostSendFails, Told, Idle
  <2> QED BY <2>1, <2>2
<1>8. Owed'
  BY <1>4, <1>7 DEF Owed
<1>9. InTime'
  BY <1>2, <1>3, <1>4, <1>5, <1>6, <1>7 DEF InTime
<1>10. InStep'
  <2> SUFFICES ASSUME ~ env.timeouts, ~ tx.release PROVE InStep'
    BY <1>4 DEF InStep
  <2>1. /\ ~ tx.isTxWindowFull /\ ~ Pending
        /\ \A i, j \in 1 .. Len(dtQueue) : dtQueue[i] = Update /\ dtQueue[j] = Update => i = j
        /\ \A s \in Sdus : call[s].result \in {"SUCCESS", "TX_WINDOW_FULL"}
                              => s \in sent \/ tx.cacheBuff = s
    BY <1>3 DEF InStep
  <2>2. \A i, j \in 1 .. Len(dtQueue') : dtQueue'[i] = Update /\ dtQueue'[j] = Update => i = j
    <3> SUFFICES ASSUME NEW i \in 1 .. Len(dtQueue'), NEW j \in 1 .. Len(dtQueue'),
                        dtQueue'[i] = Update, dtQueue'[j] = Update
                 PROVE  i = j
      OBVIOUS
    <3>1. i + 1 = j + 1
      BY <1>3, <2>1
    <3> QED BY <1>3, <3>1
  <2> QED BY <1>3, <1>4, <1>5, <2>1, <2>2 DEF InStep
<1> QED BY <1>3, <1>4, <1>7, <1>8, <1>9, <1>10 DEF Unseen

\* The caller learns the result.
LEMMA ReturnsTold ==
    ASSUME SharedInv, ServiceInv, SendReturns
    PROVE  ServiceInv' /\ Unseen
<1> USE DEF ServiceInv
<1>0. PICK s0 : s0 = dt.sdu
  OBVIOUS
<1>1. /\ reader = "wait" /\ s0 \in Sdus /\ s0 = env.toSend[read] /\ dt.at # "idle"
      /\ call[s0].answer = "NONE"
  BY <1>0, CallUnderWay DEF SendReturns
<1>2. /\ dt' = Idle /\ busy' = (busy \/ call[s0].result = "TX_WINDOW_FULL")
      /\ call' = [call EXCEPT ![s0].sem = "freed", ![s0].ref = @ - 1,
                              ![s0].answer = Answer(call[s0].result)]
      /\ UNCHANGED <<env, reader, read, dtQueue, stackQueue, tx, sent>>
  BY <1>0 DEF SendReturns, portVars, stackVars, channelVars
<1>3. /\ \A s \in Sdus : call'[s].result = call[s].result
      /\ \A s \in Sdus : s # s0 => call'[s].answer = call[s].answer
      /\ call'[s0].answer = Answer(call[s0].result) /\ call'[s0].sem # "refused"
      /\ \A s \in Sdus : s # s0 => call'[s].sem = call[s].sem
  <2>1. call \in [Sdus -> CallState] /\ call[s0] \in CallState
    BY <1>1 DEF SharedInv, SharedTypeOK
  <2>2. PICK a : a = Answer(call[s0].result)
    OBVIOUS
  <2>3. call' = [call EXCEPT ![s0] = Leaves(call[s0], "freed", call[s0].ref - 1, a)]
    BY <1>1, <1>2, <2>2 DEF Leaves
  <2>4. /\ Leaves(call[s0], "freed", call[s0].ref - 1, a).result = call[s0].result
        /\ Leaves(call[s0], "freed", call[s0].ref - 1, a).answer = a
        /\ Leaves(call[s0], "freed", call[s0].ref - 1, a).sem = "freed"
    BY <2>1 DEF Leaves, CallState
  <2> QED BY <1>1, <2>1, <2>2, <2>3, <2>4
<1>4. ~ busy
  BY <1>1 DEF InTime
<1>5. (Told' <=> Told) /\ (Pending' <=> Pending)
  BY <1>0, <1>1, <1>2 DEF Told, Idle, Pending
<1>6. \A s \in Sdus : (Queued(s)' <=> Queued(s)) /\ (FreeQueued(s)' <=> FreeQueued(s))
  BY <1>2 DEF Queued, FreeQueued
<1>7. Owed'
  BY <1>2, <1>5 DEF Owed
<1>8. InTime'
  <2>1. call[s0].result = "TX_WINDOW_FULL" <=> call'[s0].answer = "TRANS_BUSY"
    BY <1>3 DEF Answer
  <2>2. call'[s0].answer \in {"TRANS_SUCCESS", "TRANS_BUSY"}
           => call[s0].result \in {"SUCCESS", "TX_WINDOW_FULL"}
    BY <1>3 DEF Answer
  <2>3. dt'.at # "late"
    BY <1>2 DEF Idle
  <2> QED BY <1>1, <1>2, <1>3, <1>4, <1>6, <2>1, <2>2, <2>3, ZenonT(60) DEF InTime
<1>9. InStep'
  BY <1>2, <1>3, <1>5 DEF InStep
<1> QED BY <1>2, <1>5, <1>7, <1>8, <1>9 DEF Unseen

\* The caller gives up waiting, and then leaves.
LEMMA LateTold ==
    ASSUME SharedInv, ServiceInv, SendTimesOut \/ SendAbandoned
    PROVE  ServiceInv'
<1> USE DEF ServiceInv
<1>0. PICK s0 : s0 = dt.sdu
  OBVIOUS
<1>1. /\ reader = "wait" /\ s0 \in Sdus /\ s0 = env.toSend[read] /\ dt.at # "idle"
      /\ call[s0].answer = "NONE"
  BY <1>0, CallUnderWay DEF SendTimesOut, SendAbandoned
<1>2. UNCHANGED <<env, reader, read, dtQueue, busy, tx, sent>> /\ env.timeouts
  BY DEF SendTimesOut, SendAbandoned, portVars, channelVars, InTime
<1>3. ~ busy
  BY <1>1 DEF InTime
<1>4. /\ \A s \in Sdus : call'[s].result = call[s].result
      /\ \A s \in Sdus : s # s0 => call'[s].answer = call[s].answer
      /\ call'[s0].answer \in {"NONE", "TRANS_FAIL"}
  <2>1. call \in [Sdus -> CallState] /\ call[s0] \in CallState
    BY <1>1 DEF SharedInv, SharedTypeOK
  <2>2. CASE SendTimesOut
    BY <1>1, <2>2 DEF SendTimesOut
  <2>3. CASE SendAbandoned
    <3>1. PICK m : call' = [call EXCEPT ![s0].sem = m, ![s0].ref = @ - 1,
                                        ![s0].answer = "TRANS_FAIL"]
      BY <1>0, <2>3 DEF SendAbandoned
    <3>2. call' = [call EXCEPT ![s0] = Leaves(call[s0], m, call[s0].ref - 1, "TRANS_FAIL")]
      BY <1>1, <3>1 DEF Leaves
    <3>3. /\ Leaves(call[s0], m, call[s0].ref - 1, "TRANS_FAIL").result = call[s0].result
          /\ Leaves(call[s0], m, call[s0].ref - 1, "TRANS_FAIL").answer = "TRANS_FAIL"
      BY <2>1 DEF Leaves, CallState
    <3> QED BY <1>1, <2>1, <3>2, <3>3
  <2> QED BY <2>2, <2>3
<1>5. (Told' => Told) /\ (Pending' <=> Pending)
  <2>1. dt'.at # "idle" => dt.at # "idle" /\ dt'.sdu = dt.sdu
    <3>1. CASE SendTimesOut
      BY <3>1 DEF SendTimesOut, SharedInv, SharedTypeOK
    <3>2. CASE SendAbandoned
      BY <3>2 DEF SendAbandoned, Idle
    <3> QED BY <3>1, <3>2
  <2> QED BY <1>0, <1>1, <1>2, <1>4, <2>1 DEF Told, Pending
<1>6. \A s \in Sdus : Queued(s)' => Queued(s)
  <2>1. CASE stackQueue' = stackQueue
    BY <2>1 DEF Queued
  <2>2. CASE stackQueue' = Append(stackQueue, FreeSem(s0))
    <3>1. \A e : Contains(stackQueue', e) <=> Contains(stackQueue, e) \/ e = FreeSem(s0)
      BY <1>1, <2>2, AppendElements, TaskKinds DEF SharedInv, SharedTypeOK
    <3> QED BY <1>1, <3>1, TaskKinds DEF Queued
  <2>3. CASE SendTimesOut
    BY <2>1, <2>3 DEF SendTimesOut, stackVars
  <2>4. CASE SendAbandoned
    <3>1. PICK f \in FreeSemLater(s0) : stackQueue' = f.queue
      BY <1>0, <2>4 DEF SendAbandoned
    <3>2. f.queue = stackQueue \/ f.queue = Append(stackQueue, FreeSem(s0))
      BY DEF FreeSemLater
    <3> QED BY <2>1, <2>2, <3>1, <3>2
  <2> QED BY <2>3, <2>4
<1>7. Owed'
  BY <1>2, <1>5 DEF Owed
<1>8. InTime'
  BY <1>1, <1>2, <1>3, <1>4, <1>6 DEF InTime
<1>9. InStep'
  BY <1>2 DEF InStep
<1> QED BY <1>7, <1>8, <1>9

\* What TRANS_SendDataProc does to the SDU and to the channel.
Processed(s, ret, u) ==
    /\ tx' = u
    /\ call' = [call EXCEPT ![s].result = ret, ![s].ref = @ - 1, ![s].buffFrees = @ + 1]
    /\ ret = "TX_WINDOW_FULL" => u.isTxWindowFull
    /\ tx.isTxWindowFull => u.isTxWindowFull
    /\ tx.release => u.release
    /\ u.isTxWindowFull => tx.isTxWindowFull \/ ret = "TX_WINDOW_FULL" \/ u.release
    /\ u.cacheBuff # tx.cacheBuff => /\ tx.cacheBuff = NoSdu /\ u.cacheBuff = s
                                     /\ FrameCnt[s][FALSE] <= MaxFragNum
                                     /\ ret = "TX_WINDOW_FULL"
    /\ ret \in {"SUCCESS", "TX_WINDOW_FULL"} =>
          \/ u.release \/ s \in sent'
          \/ tx.cacheBuff # NoSdu \/ u.cacheBuff = s
    /\ sent \subseteq sent'

Written(s, ret, u) ==
    \E ok \in BOOLEAN : LET r == W!SendEnhanceFrame(tx, s, FALSE, 0, ok)
                        IN  u = r.tx /\ ret = r.ret

\* It is a write of DTAP_SendEnhanceFrame, or finds no link and leaves the channel alone.
LEMMA SendDataProcStep ==
    ASSUME SharedInv, SendDataProc
    PROVE  /\ Head(stackQueue) = Send(Head(stackQueue).sdu) /\ Head(stackQueue).sdu \in Sdus
           /\ Queued(Head(stackQueue).sdu)
           /\ \E ret, u : /\ Processed(Head(stackQueue).sdu, ret, u)
                          /\ \/ u = tx /\ ret # "TX_WINDOW_FULL"
                             \/ Written(Head(stackQueue).sdu, ret, u)
<1> USE DEF SharedInv
<1>0. PICK s0 : s0 = Head(stackQueue).sdu
  OBVIOUS
<1>1. /\ stackQueue # <<>> /\ Head(stackQueue).do = "send"
  BY DEF SendDataProc, NextTask
<1>2. Head(stackQueue) \in Task /\ Contains(stackQueue, Head(stackQueue))
  BY <1>1, TailElements DEF SharedTypeOK
<1>3. Head(stackQueue) = Send(s0) /\ s0 \in Sdus /\ Queued(s0)
  BY <1>0, <1>1, <1>2, TaskKinds DEF Queued
<1>4. P!WindowOK(tx) /\ env.sendOutcomes \subseteq BOOLEAN
  BY TransAssumption DEF SharedTypeOK
<1>5. PICK linked \in env.linkResults, ok \in env.sendOutcomes :
          LET r == IF linked THEN W!SendEnhanceFrame(tx, s0, FALSE, 0, ok)
                   ELSE W!Result(tx, <<>>, "LOGIC_LINK_NOT_FOUND")
          IN  /\ tx' = r.tx /\ EnterWindow(r.tx)
              /\ call' = [call EXCEPT ![s0].result = r.ret, ![s0].ref = @ - 1,
                                      ![s0].buffFrees = @ + 1]
  BY <1>0 DEF SendDataProc
<1>6. CASE linked
  <2> DEFINE r == W!SendEnhanceFrame(tx, s0, FALSE, 0, ok)
  <2>1. /\ P!SendStatusOK(tx, s0, FALSE, r) /\ P!SduOK(tx, s0, FALSE, r)
    BY <1>3, <1>4, ChannelSend
  <2>2. /\ tx' = r.tx /\ EnterWindow(r.tx)
        /\ call' = [call EXCEPT ![s0].result = r.ret, ![s0].ref = @ - 1,
                                ![s0].buffFrees = @ + 1]
    BY <1>5, <1>6
  <2> HIDE DEF r
  <2>3. sent \subseteq sent'
    BY <2>2 DEF EnterWindow
  <2>4. ASSUME NEW f, P!Holds(r.tx, f), f.sdu = s0 PROVE s0 \in sent'
    BY <2>2, <2>4 DEF EnterWindow, P!Holds
  <2>5. /\ r.ret = "TX_WINDOW_FULL" => r.tx.isTxWindowFull
        /\ tx.isTxWindowFull => r.tx.isTxWindowFull
        /\ tx.release => r.tx.release
        /\ r.tx.isTxWindowFull => tx.isTxWindowFull \/ r.ret = "TX_WINDOW_FULL" \/ r.tx.release
        /\ r.tx.cacheBuff # tx.cacheBuff => r.ret = "TX_WINDOW_FULL"
    BY <2>1 DEF P!SendStatusOK, P!AnsweredFull
  <2>6. /\ r.tx.cacheBuff # tx.cacheBuff => /\ tx.cacheBuff = NoSdu /\ r.tx.cacheBuff = s0
                                            /\ FrameCnt[s0][FALSE] <= MaxFragNum
        /\ r.ret \in {"SUCCESS", "TX_WINDOW_FULL"} =>
              \/ r.tx.release \/ s0 \in sent'
              \/ tx.cacheBuff # NoSdu \/ r.tx.cacheBuff = s0
    BY <2>1, <2>4 DEF P!SduOK
  <2>7. Processed(s0, r.ret, r.tx)
    BY <2>2, <2>3, <2>5, <2>6 DEF Processed
  <2>8. Written(s0, r.ret, r.tx)
    BY <1>4 DEF Written, r
  <2> QED BY <1>0, <1>3, <2>7, <2>8
<1>7. CASE ~ linked
  <2>1. /\ tx' = tx /\ EnterWindow(tx)
        /\ call' = [call EXCEPT ![s0].result = "LOGIC_LINK_NOT_FOUND", ![s0].ref = @ - 1,
                                ![s0].buffFrees = @ + 1]
    BY <1>5, <1>7 DEF W!Result
  <2>2. Processed(s0, "LOGIC_LINK_NOT_FOUND", tx)
    BY <2>1 DEF Processed, EnterWindow
  <2> QED BY <1>0, <1>3, <2>2
<1> QED BY <1>6, <1>7

\* The task answers "full" exactly when it marks the window, and the SDU finds the
\* cacheBuff free.
LEMMA SendDataProcTold ==
    ASSUME SharedInv, SharedInv', ServiceInv, SendDataProc
    PROVE  ServiceInv'
<1> USE DEF ServiceInv
<1>0. PICK s0 : s0 = Head(stackQueue).sdu
  OBVIOUS
<1>1. Head(stackQueue) = Send(s0) /\ s0 \in Sdus /\ Queued(s0)
  BY <1>0, SendDataProcStep
<1>2. PICK ret, u : Processed(s0, ret, u)
  BY <1>0, SendDataProcStep
<1>3. /\ stackQueue # <<>> /\ stackQueue' = Tail(stackQueue)
      /\ UNCHANGED <<env, reader, read, dtQueue, dt, busy>>
  BY DEF SendDataProc, NextTask, portVars, serviceVars
<1>4. /\ \A s \in Sdus : s # s0 => call'[s] = call[s]
      /\ call'[s0].result = ret /\ call'[s0].answer = call[s0].answer
      /\ call[s0].result = "NONE" /\ call'[s0].sem = call[s0].sem
  <2>1. call \in [Sdus -> CallState] /\ call[s0] \in CallState
    BY <1>1 DEF SharedInv, SharedTypeOK
  <2>2. call' = [call EXCEPT ![s0] = Runs(call[s0], ret, call[s0].ref - 1, call[s0].buffFrees + 1)]
    BY <1>1, <1>2 DEF Processed, Runs
  <2>3. /\ Runs(call[s0], ret, call[s0].ref - 1, call[s0].buffFrees + 1).result = ret
        /\ Runs(call[s0], ret, call[s0].ref - 1, call[s0].buffFrees + 1).answer = call[s0].answer
        /\ Runs(call[s0], ret, call[s0].ref - 1, call[s0].buffFrees + 1).sem = call[s0].sem
    BY <2>1 DEF Runs, CallState
  <2>4. call[s0].result = "NONE"
    BY <1>1 DEF InTime
  <2> QED BY <1>1, <2>1, <2>2, <2>3, <2>4
<1>5. \A s \in Sdus : /\ Queued(s)' => Queued(s) /\ s # s0
                      /\ FreeQueued(s)' => FreeQueued(s)
  <2>1. \A e : Contains(stackQueue', e) => Contains(stackQueue, e) /\ e # Send(s0)
    BY <1>1, <1>3, TailElements DEF SharedInv, SharedTypeOK, StackQueueOK
  <2> QED BY <2>1 DEF Queued, FreeQueued
<1>6. call[s0].answer \notin {"TRANS_SUCCESS", "TRANS_BUSY"}
  BY <1>1, <1>4 DEF InTime
<1>7. Pending' <=> Pending
  BY <1>3 DEF Pending
<1>8. dt.at # "idle" => dt.sdu \in Sdus
  BY CallUnderWay
<1>9. Owed'
  <2>1. Told' => Told \/ ret = "TX_WINDOW_FULL"
    BY <1>3, <1>4, <1>8 DEF Told
  <2> QED BY <1>2, <1>7, <2>1 DEF Owed, Processed
<1>10. InTime'
  <2>1. reader = "wait" => env.toSend[read] \in Sdus
    BY AwaitedSdu
  <2>2. \A s \in Sdus : call'[s].answer = call[s].answer /\ call'[s].sem = call[s].sem
    BY <1>4
  <2> QED BY <1>3, <1>4, <1>5, <1>6, <2>1, <2>2 DEF InTime
<1>11. InStep'
  <2> SUFFICES ASSUME ~ env.timeouts, ~ u.release PROVE InStep'
    BY <1>2, <1>3 DEF InStep, Processed
  <2>1. ~ tx.release /\ tx' = u
    BY <1>2 DEF Processed
  <2>2. Caller(s0)
    BY <1>1, TaskIsAlive DEF Alive, InTime
  <2>3. dt.at # "idle" /\ dt.sdu = s0 /\ ~ Told
    <3>1. dt.at # "idle" /\ dt.sdu = s0
      BY <2>2 DEF Caller
    <3>2. ~ busy
      BY <3>1, CallUnderWay DEF InTime
    <3> QED BY <1>4, <3>1, <3>2 DEF Told
  <2>4. /\ ~ Pending /\ ~ tx.isTxWindowFull /\ tx.cacheBuff = NoSdu
        /\ \A i, j \in 1 .. Len(dtQueue) : dtQueue[i] = Update /\ dtQueue[j] = Update => i = j
        /\ \A s \in Sdus : call[s].result \in {"SUCCESS", "TX_WINDOW_FULL"}
                              => s \in sent \/ tx.cacheBuff = s
    BY <2>1, <2>3 DEF InStep, Owed
  <2>5. Told' <=> ret = "TX_WINDOW_FULL"
    BY <1>3, <1>4, <2>3 DEF Told
  <2>6. ASSUME NEW s \in Sdus, call'[s].result \in {"SUCCESS", "TX_WINDOW_FULL"}
        PROVE  s \in sent' \/ u.cacheBuff = s
    <3>1. CASE s = s0
      BY <1>2, <1>4, <2>4, <2>6, <3>1 DEF Processed
    <3>2. CASE s # s0
      <4>1. s \in sent
        BY <1>4, <2>4, <2>6, <3>2, TransAssumption
      <4> QED BY <1>2, <4>1 DEF Processed
    <3> QED BY <3>1, <3>2
  <2>7. u.isTxWindowFull => Told'
    BY <1>2, <2>4, <2>5 DEF Processed
  <2> QED BY <1>3, <1>7, <2>1, <2>4, <2>6, <2>7 DEF InStep
<1> QED BY <1>9, <1>10, <1>11

\* The channel's own events: the window opens with an update for the service.
LEMMA RecvTold ==
    ASSUME SharedInv, ServiceInv, RecvReqSeq
    PROVE  ServiceInv'
<1> USE DEF ServiceInv
<1>1. UNCHANGED <<env, call, dt, stackQueue, reader, read, busy>>
  BY DEF RecvReqSeq, SendDataStateCallback, portVars, stackVars
<1>2. PICK reqSeq \in FrameSeq, sBit \in BOOLEAN, ok \in env.sendOutcomes :
          LET r == W!RecvAck(tx, reqSeq, sBit, FALSE, 0, ok)
          IN  tx' = r.tx /\ EnterWindow(r.tx) /\ SendDataStateCallback(r.cbk)
  BY DEF RecvReqSeq
<1> DEFINE r == W!RecvAck(tx, reqSeq, sBit, FALSE, 0, ok)
<1>3. r.cbk \in BOOLEAN /\ P!StatusOK(tx, FrameCnt[tx.cacheBuff][FALSE], r)
  <2>1. P!WindowOK(tx) /\ ok \in BOOLEAN
    BY TransAssumption DEF SharedInv, SharedTypeOK
  <2> QED BY <2>1, ChannelRecv
<1>4. tx' = r.tx /\ EnterWindow(r.tx) /\ SendDataStateCallback(r.cbk)
  BY <1>2
<1> HIDE DEF r
<1>5. sent \subseteq sent' /\ \A f : P!Holds(r.tx, f) => f.sdu \in sent'
  BY <1>4 DEF EnterWindow, P!Holds
<1>6. /\ Told' <=> Told
      /\ \A s \in Sdus : (Queued(s)' <=> Queued(s)) /\ (FreeQueued(s)' <=> FreeQueued(s))
  BY <1>1 DEF Told, Queued, FreeQueued
<1>7. InTime'
  BY <1>1, <1>6 DEF InTime
<1>8. CASE ~ r.cbk
  <2>1. /\ tx'.isTxWindowFull = tx.isTxWindowFull /\ tx'.cacheBuff = tx.cacheBuff
        /\ tx.release => tx'.release
    BY <1>3, <1>4, <1>8 DEF P!StatusOK, P!SameStatus
  <2>2. dtQueue' = dtQueue
    BY <1>4, <1>8 DEF SendDataStateCallback
  <2>3. Pending' <=> Pending
    BY <2>2 DEF Pending
  <2>4. Owed'
    BY <1>6, <2>1, <2>3 DEF Owed
  <2>5. InStep'
    BY <1>1, <1>5, <1>6, <2>1, <2>2, <2>3 DEF InStep
  <2> QED BY <1>7, <2>4, <2>5
<1>9. CASE r.cbk
  <2>1. /\ tx.isTxWindowFull /\ ~ tx'.isTxWindowFull /\ tx'.cacheBuff = NoSdu
        /\ tx.release => tx'.release
        /\ \/ tx.cacheBuff = NoSdu
           \/ FrameCnt[tx.cacheBuff][FALSE] > MaxFragNum
           \/ tx'.release
           \/ tx.cacheBuff \in sent'
    BY <1>3, <1>4, <1>5, <1>9 DEF P!StatusOK
  <2>2. dtQueue' = Append(dtQueue, Update)
    BY <1>4, <1>9 DEF SendDataStateCallback
  <2>3. /\ Len(dtQueue') = Len(dtQueue) + 1 /\ Len(dtQueue) \in Nat
        /\ \A i \in 1 .. Len(dtQueue) + 1 :
              dtQueue'[i] = IF i \in 1 .. Len(dtQueue) THEN dtQueue[i] ELSE Update
        /\ Pending'
    <3>1. dtQueue \in Seq(Post) /\ Update \in Post
      BY DEF SharedInv, SharedTypeOK, Post, Update
    <3> QED BY <2>2, <3>1, AppendElements DEF Pending
  <2>4. Owed'
    BY <2>1, <2>3 DEF Owed
  <2>5. InStep'
    <3> SUFFICES ASSUME ~ env.timeouts, ~ tx'.release PROVE InStep'
      BY <1>1 DEF InStep
    <3>1. /\ Told /\ ~ Pending
          /\ \A s \in Sdus : call[s].result \in {"SUCCESS", "TX_WINDOW_FULL"}
                                => s \in sent \/ tx.cacheBuff = s
      BY <2>1 DEF InStep
    <3>2. \A i \in 1 .. Len(dtQueue) : dtQueue[i] # Update
      BY <3>1 DEF Pending, Contains
    <3>3. \A i, j \in 1 .. Len(dtQueue') : dtQueue'[i] = Update /\ dtQueue'[j] = Update => i = j
      BY <2>3, <3>2
    <3>4. tx.cacheBuff # NoSdu => tx.cacheBuff \in sent'
      <4> SUFFICES ASSUME tx.cacheBuff # NoSdu PROVE tx.cacheBuff \in sent'
        OBVIOUS
      <4>1. tx.cacheBuff \in Sdus
        BY DEF SharedInv, SharedTypeOK, P!WindowOK, P!TxState
      <4>2. PICK n : n = FrameCnt[tx.cacheBuff][FALSE]
        OBVIOUS
      <4>3. n \in Nat /\ MaxFragNum \in Nat
        BY <4>1, <4>2, TransAssumption
      <4>4. n <= MaxFragNum
        BY <4>2 DEF Owed
      <4>5. ~ (n > MaxFragNum)
        BY <4>3, <4>4
      <4> QED BY <2>1, <4>2, <4>5
    <3>5. \A s \in Sdus : call'[s].result \in {"SUCCESS", "TX_WINDOW_FULL"} => s \in sent'
      BY <1>1, <1>5, <3>1, <3>4, TransAssumption
    <3> QED BY <1>6, <2>1, <3>1, <3>3, <3>5 DEF InStep
  <2> QED BY <1>7, <2>4, <2>5
<1> QED BY <1>3, <1>8, <1>9

\* The retransmission timer changes nothing the service knows of.
LEMMA TimerTold ==
    ASSUME SharedInv, ServiceInv, RetransTimer
    PROVE  ServiceInv'
<1> USE DEF ServiceInv
<1>1. UNCHANGED <<env, call, dt, dtQueue, stackQueue, reader, read, busy, sent>>
  BY DEF RetransTimer, portVars, stackVars, serviceVars
<1>2. PICK ok \in env.sendOutcomes : tx' = W!RetransTimerExpire(tx, ok).tx
  BY DEF RetransTimer
<1>3. P!SameStatus(tx, tx')
  <2>1. P!WindowOK(tx) /\ ok \in BOOLEAN
    BY TransAssumption DEF SharedInv, SharedTypeOK
  <2> QED BY <1>2, <2>1, ChannelTimer
<1>4. /\ tx'.isTxWindowFull = tx.isTxWindowFull /\ tx'.cacheBuff = tx.cacheBuff
      /\ tx.release => tx'.release
  BY <1>3 DEF P!SameStatus
<1>5. /\ Told' <=> Told
      /\ Pending' <=> Pending
      /\ \A s \in Sdus : (Queued(s)' <=> Queued(s)) /\ (FreeQueued(s)' <=> FreeQueued(s))
  BY <1>1 DEF Told, Pending, Queued, FreeQueued
<1>6. Owed' /\ InTime' /\ InStep'
  BY <1>1, <1>4, <1>5 DEF Owed, InTime, InStep
<1> QED BY <1>6

\* Posting or freeing a semaphore, and the shutdown.
LEMMA RestTold ==
    ASSUME SharedInv, ServiceInv,
           RunTaskBlocked \/ FreeSemTask \/ ScheduleStop \/ DestroyWorker \/ UNCHANGED vars
    PROVE  ServiceInv' /\ Unseen
<1>1. UNCHANGED <<env, reader, read, dtQueue, dt, busy, tx, sent>>
  BY DEF RunTaskBlocked, FreeSemTask, ScheduleStop, DestroyWorker, vars, portVars, serviceVars,
         stackVars, channelVars
<1>2. call \in [Sdus -> CallState] /\ stackQueue \in Seq(Task)
  BY DEF SharedInv, SharedTypeOK
<1>3. ASSUME NEW s \in Sdus
      PROVE  /\ call'[s].result = call[s].result /\ call'[s].answer = call[s].answer
             /\ call'[s].sem = "refused" => call[s].sem = "refused"
  <2>1. call[s] \in CallState
    BY <1>2
  <2>2. CASE RunTaskBlocked
    <3>1. call'[s] = call[s] \/ call'[s] = PostSem(call[s])
      BY <1>2, <2>2 DEF RunTaskBlocked
    <3> QED BY <2>1, <3>1 DEF PostSem, CallState
  <2>3. CASE FreeSemTask
    <3>1. call'[s] = call[s] \/ call'[s] = [call[s] EXCEPT !.sem = "freed"]
      BY <1>2, <2>3 DEF FreeSemTask
    <3> QED BY <2>1, <3>1 DEF CallState
  <2>4. CASE DestroyWorker
    <3>1. call'[s] = call[s] \/ call'[s] = [call[s] EXCEPT !.sem = "freed"]
      BY <2>4 DEF DestroyWorker
    <3> QED BY <2>1, <3>1 DEF CallState
  <2>5. CASE ScheduleStop \/ UNCHANGED vars
    BY <2>5 DEF ScheduleStop, vars
  <2> QED BY <2>2, <2>3, <2>4, <2>5
<1>4. \A e : Contains(stackQueue', e) => Contains(stackQueue, e)
  <2>1. CASE stackQueue' = stackQueue
    BY <2>1
  <2>2. CASE stackQueue # <<>> /\ stackQueue' = Tail(stackQueue)
    BY <1>2, <2>2, TailElements
  <2>3. CASE stackQueue' = <<>>
    BY <2>3, EmptySeq DEF Contains
  <2> QED BY <2>1, <2>2, <2>3 DEF RunTaskBlocked, FreeSemTask, NextTask, ScheduleStop,
                                  DestroyWorker, vars, stackVars
<1>5. \A s \in Sdus : (Queued(s)' => Queued(s)) /\ (FreeQueued(s)' => FreeQueued(s))
  BY <1>4 DEF Queued, FreeQueued
<1> QED BY <1>1, <1>3, <1>5, QuietKeeps

\* Every step preserves what the service and the channel know of each other.
LEMMA ServiceStep == SharedInv /\ SharedInv' /\ ServiceInv /\ [Next]_vars => ServiceInv'
<1> SUFFICES ASSUME SharedInv, SharedInv', ServiceInv, [Next]_vars PROVE ServiceInv'
  OBVIOUS
<1> QED BY PortTold, UpdateTold, PostTold, ReturnsTold, LateTold, SendDataProcTold, RecvTold,
           TimerTold, RestTold
        DEF Next, PortThread, DtThread, StackThread, Worker, Shutdown

\* At the start nothing has been said.
LEMMA ServiceInit == Init => ServiceInv
<1> SUFFICES ASSUME Init PROVE ServiceInv
  OBVIOUS
<1> USE DEF Init
<1>1. /\ tx.isTxWindowFull = FALSE /\ tx.cacheBuff = NoSdu
  BY DEF W!InitTxWindow
<1>2. ~ Told /\ ~ Pending
  <2>1. ~ Pending
    BY EmptySeq DEF Pending, Contains
  <2> QED BY <2>1 DEF Told, Idle
<1>3. Owed
  BY <1>1, <1>2 DEF Owed
<1>4. InTime
  <2>1. \A s \in Sdus : ~ Queued(s) /\ ~ FreeQueued(s)
    BY EmptySeq DEF Queued, FreeQueued, Contains
  <2> QED BY <2>1 DEF InTime, Idle, NoCall
<1>5. InStep
  BY <1>1, <1>2, EmptySeq DEF InStep, NoCall
<1> QED BY <1>3, <1>4, <1>5 DEF ServiceInv

\* What the threads know of the channel agrees with the channel in every behaviour.
THEOREM ServiceInvHolds == Spec => [](SharedInv /\ ServiceInv)
<1>1. Init => SharedInv /\ ServiceInv
  BY SharedInit, ServiceInit
<1>2. (SharedInv /\ ServiceInv) /\ [Next]_vars => (SharedInv /\ ServiceInv)'
  BY SharedStep, ServiceStep
<1> QED BY <1>1, <1>2, PTL DEF Spec

\* No wake-up is lost between the threads, also with time-outs and failures.
THEOREM BusyAlwaysOwed == Spec => []BusyIsOwedUpdate
<1>1. ServiceInv => BusyIsOwedUpdate
  BY DEF ServiceInv, Owed, Told, Pending, BusyIsOwedUpdate
<1> QED BY <1>1, ServiceInvHolds, PTL

\* What was answered with success or "full" has been sent or is kept.
THEOREM AcceptedNeverLost == Spec => []AcceptedIsSentOrKept
<1>1. ServiceInv => AcceptedIsSentOrKept
  BY DEF ServiceInv, InTime, InStep, AcceptedIsSentOrKept
<1> QED BY <1>1, ServiceInvHolds, PTL

-----------------------------------------------------------------------------
(* The split write implements the one-step write of DtapTxWindow.          *)

\* The task's run is the write.
LEMMA SendDataProcImplements ==
    ASSUME SharedInv, ServiceInv, SendDataProc, ~ env.timeouts, ~ tx'.release
    PROVE  W!WriteData \/ Unseen
<1>0. PICK s0 : s0 = Head(stackQueue).sdu
  OBVIOUS
<1>1. Head(stackQueue) = Send(s0) /\ s0 \in Sdus /\ Queued(s0)
  BY <1>0, SendDataProcStep
<1>2. PICK ret, u : /\ Processed(s0, ret, u)
                    /\ (u = tx /\ ret # "TX_WINDOW_FULL") \/ Written(s0, ret, u)
  BY <1>0, SendDataProcStep
<1>3. UNCHANGED <<env, dtQueue, dt, busy>>
  BY DEF SendDataProc, serviceVars
<1>4. call'[s0].result = ret /\ call[s0].result = "NONE"
  <2>1. call \in [Sdus -> CallState] /\ call[s0] \in CallState
    BY <1>1 DEF SharedInv, SharedTypeOK
  <2>2. call' = [call EXCEPT ![s0] = Runs(call[s0], ret, call[s0].ref - 1, call[s0].buffFrees + 1)]
    BY <1>1, <1>2 DEF Processed, Runs
  <2>3. Runs(call[s0], ret, call[s0].ref - 1, call[s0].buffFrees + 1).result = ret
    BY <2>1 DEF Runs, CallState
  <2>4. call[s0].result = "NONE"
    BY <1>1 DEF ServiceInv, InTime
  <2> QED BY <1>1, <2>1, <2>2, <2>3, <2>4
<1>5. dt.at # "idle" /\ dt.sdu = s0 /\ ~ busy
  <2>1. Caller(s0)
    BY <1>1, TaskIsAlive DEF Alive, ServiceInv, InTime
  <2> QED BY <2>1, CallUnderWay DEF Caller, ServiceInv, InTime
<1>6. ~ Told /\ (Told' <=> ret = "TX_WINDOW_FULL")
  BY <1>3, <1>4, <1>5 DEF Told
<1>7. ~ Pending /\ ~ Pending'
  <2>1. ~ tx.release
    BY <1>2 DEF Processed
  <2> QED BY <1>3, <1>6, <2>1 DEF ServiceInv, InStep, Pending
<1>8. CASE u = tx /\ ret # "TX_WINDOW_FULL"
  BY <1>2, <1>6, <1>7, <1>8 DEF Unseen, Processed
<1>9. CASE Written(s0, ret, u)
  <2>1. PICK ok \in BOOLEAN : LET r == W!SendEnhanceFrame(tx, s0, FALSE, 0, ok)
                              IN  u = r.tx /\ ret = r.ret
    BY <1>9 DEF Written
  <2> DEFINE r == W!SendEnhanceFrame(tx, s0, FALSE, 0, ok)
  <2>2. ~ ToldBusy /\ (ToldBusy' <=> r.ret = "TX_WINDOW_FULL") /\ tx' = r.tx
    <3>1. u = r.tx /\ ret = r.ret
      BY <2>1
    <3> HIDE DEF r
    <3> QED BY <1>2, <1>6, <1>7, <3>1 DEF ToldBusy, Told, Pending, Processed
  <2>3. ToldBusy' = (r.ret = "TX_WINDOW_FULL")
    <3> HIDE DEF r
    <3> QED BY <2>2 DEF ToldBusy
  <2>4. 0 \in RxSeqs /\ FALSE \in BOOLEAN
    BY TransAssumption
  <2> QED BY <1>1, <2>2, <2>3, <2>4 DEF W!WriteData
<1> QED BY <1>2, <1>8, <1>9

\* An answer of the peer is one there.
LEMMA RecvImplements ==
    ASSUME SharedInv, ServiceInv, RecvReqSeq
    PROVE  W!RecvReqSeq
<1>1. UNCHANGED <<call, dt, busy>>
  BY DEF RecvReqSeq, SendDataStateCallback
<1>2. PICK reqSeq \in FrameSeq, sBit \in BOOLEAN, ok \in env.sendOutcomes :
          LET r == W!RecvAck(tx, reqSeq, sBit, FALSE, 0, ok)
          IN  tx' = r.tx /\ EnterWindow(r.tx) /\ SendDataStateCallback(r.cbk)
  BY DEF RecvReqSeq
<1> DEFINE r == W!RecvAck(tx, reqSeq, sBit, FALSE, 0, ok)
<1>3. ok \in BOOLEAN /\ P!WindowOK(tx)
  BY TransAssumption DEF SharedInv, SharedTypeOK
<1>4. r.cbk \in BOOLEAN
  BY <1>3, ChannelRecv
<1>5. tx' = r.tx /\ SendDataStateCallback(r.cbk)
  BY <1>2
<1>6. ToldBusy' = (ToldBusy /\ ~ r.cbk)
  <2> HIDE DEF r
  <2>1. Told' <=> Told
    BY <1>1 DEF Told
  <2>2. CASE r.cbk
    <3>1. dtQueue' = Append(dtQueue, Update) /\ dtQueue \in Seq(Post) /\ Update \in Post
      BY <1>5, <2>2 DEF SendDataStateCallback, SharedInv, SharedTypeOK, Post, Update
    <3>2. Pending'
      BY <3>1, AppendElements DEF Pending
    <3> QED BY <2>2, <3>2 DEF ToldBusy, Pending
  <2>3. CASE ~ r.cbk
    <3>1. dtQueue' = dtQueue
      BY <1>5, <2>3 DEF SendDataStateCallback
    <3>2. ToldBusy' <=> ToldBusy
      BY <1>1, <3>1 DEF ToldBusy
    <3> QED BY <2>3, <3>2 DEF ToldBusy
  <2> QED BY <1>4, <2>2, <2>3
<1>7. reqSeq \in W!FrameSeq \cup {W!SeqInit} /\ (sBit => reqSeq # W!SeqInit)
  <2>1. reqSeq \in 0 .. (2 * SeqHalf - 1)
    BY DEF FrameSeq, SeqModulus
  <2> QED BY <2>1, SeqHalfAssumption DEF W!FrameSeq, W!SeqModulus, W!SeqInit
<1>8. 0 \in RxSeqs /\ FALSE \in BOOLEAN
  BY TransAssumption
<1> QED BY <1>3, <1>5, <1>6, <1>7, <1>8 DEF W!RecvReqSeq

\* So is an expiry of the retransmission timer.
LEMMA TimerImplements ==
    ASSUME SharedInv, RetransTimer
    PROVE  W!RetransTimer
<1>1. UNCHANGED <<call, dt, busy, dtQueue>> /\ tx.retransTimer
  BY DEF RetransTimer, serviceVars
<1>2. PICK ok \in env.sendOutcomes : tx' = W!RetransTimerExpire(tx, ok).tx
  BY DEF RetransTimer
<1>3. ok \in BOOLEAN
  BY TransAssumption DEF SharedInv, SharedTypeOK
<1>4. UNCHANGED ToldBusy
  BY <1>1 DEF ToldBusy
<1> QED BY <1>1, <1>2, <1>3, <1>4 DEF W!RetransTimer

\* Until the channel gives up, and as long as no wait times out, each step of the
\* threads is a step of DtapTxWindow or one it does not see: the split write implements
\* the one-step write.
THEOREM SplitWriteImplements == Spec => ImplementsTxWindow
<1>1. Init => W!Init
  <2> SUFFICES ASSUME Init PROVE W!Init
    OBVIOUS
  <2>1. ~ ToldBusy
    BY DEF Init, ToldBusy, Idle
  <2>2. ToldBusy = FALSE
    BY <2>1 DEF ToldBusy
  <2> QED BY <2>2 DEF Init, W!Init
<1>2. SharedInv /\ SharedInv' /\ ServiceInv /\ [Next]_vars
         => [env.timeouts \/ tx'.release \/ W!Next]_(W!vars)
  <2> SUFFICES ASSUME SharedInv, SharedInv', ServiceInv, [Next]_vars,
                      ~ env.timeouts, ~ tx'.release
               PROVE  W!Next \/ UNCHANGED W!vars
    OBVIOUS
  <2>1. Unseen => UNCHANGED W!vars
    <3> SUFFICES ASSUME Unseen PROVE UNCHANGED W!vars
      OBVIOUS
    <3>1. tx' = tx /\ (ToldBusy' <=> ToldBusy)
      BY DEF Unseen, ToldBusy, Told, Pending
    <3>2. ToldBusy' = ToldBusy
      BY <3>1 DEF ToldBusy
    <3> QED BY <3>1, <3>2 DEF W!vars
  <2>2. CASE PortThread \/ UpdateTransferState \/ PostSend \/ PostSendFails \/ SendReturns
    BY <2>1, <2>2, PortTold, UpdateTold, PostTold, ReturnsTold
  <2>3. CASE SendTimesOut \/ SendAbandoned
    BY <2>3 DEF SendTimesOut, SendAbandoned, ServiceInv, InTime
  <2>4. CASE SendDataProc
    BY <2>1, <2>4, SendDataProcImplements DEF W!Next
  <2>5. CASE RecvReqSeq
    BY <2>5, RecvImplements DEF W!Next
  <2>6. CASE RetransTimer
    BY <2>6, TimerImplements DEF W!Next
  <2>7. CASE RunTaskBlocked \/ FreeSemTask \/ Shutdown \/ UNCHANGED vars
    BY <2>1, <2>7, RestTold DEF Shutdown
  <2> QED BY <2>2, <2>3, <2>4, <2>5, <2>6, <2>7 DEF Next, DtThread, StackThread, Worker
<1> QED BY <1>1, <1>2, ServiceInvHolds, PTL DEF Spec, ImplementsTxWindow
=============================================================================
