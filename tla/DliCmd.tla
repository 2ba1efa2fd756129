------------------------------- MODULE DliCmd -------------------------------
(***************************************************************************)
(* The command queue of the DLI layer (dli_layer.c, dli_layer_utils.c,     *)
(* dli_event.c, dli_cmd.c).  Two threads take tasks from FIFO queues:      *)
(*   - the DLI thread owns the list cmdTx of commands not yet answered,    *)
(*     sends them while the controller's command credit g_cmdNum lasts,    *)
(*     matches events to commands and runs the 10 s timers;                *)
(*   - the CP thread issues commands and runs their callbacks; it is there *)
(*     that the credit is set, from the number an event reports.           *)
(* The credit is an atomic: the CP thread may set it between the DLI       *)
(* thread's test (DLI_IsCmdAllow) and its decrement (DLI_CmdNumSubOne).    *)
(* The controller (external) has room for some commands, answers them in   *)
(* order, reports some of the room it has left, and may lose an event or   *)
(* give it after the timer.  A command is the index of its opcode in       *)
(* ToSend.                                                                 *)
(***************************************************************************)
EXTENDS Integers, Sequences, SequencesExt, FiniteSets

CONSTANTS
  ToSend,       \* the opcodes of the commands the CP thread issues, in order
  Complete,     \* the opcodes answered by a complete event; the others are
                \* answered by a status event and then a final event
  Mapped,       \* the opcodes of g_evtRegOpcodeMappingTable
  MaxCnt,       \* DLI_DATA_MAX_CNT
  Environments  \* what is around the layer, one of these per behaviour:
                \* [cmds, the most commands issued;
                \*  cap, commands the controller can hold;
                \*  lost, events the controller loses;
                \*  late, timers that fire although the answer is on its way;
                \*  refused, sends the HAL refuses]

ASSUME BoundsAssumption ==
  /\ ToSend \in Seq(Range(ToSend))
  /\ MaxCnt \in Nat
  /\ Environments \subseteq
       [cmds : Nat, cap : Nat \ {0}, lost : Nat, late : Nat, refused : Nat]

VARIABLES
  issued,       \* number of commands issued
  dliQ, cpQ,    \* the task queues of the two threads
  inited,       \* g_info.inited
  num,          \* g_cmdNum, 16 bits
  cmdTx,        \* g_info.cmdTx: [cmd, isSent, isRecvStatusEvt]
  rest,         \* commands DLI_CmdListSend has still to visit
  subDue,       \* it has sent a command and not yet taken the credit
  regs,         \* g_eventCbkListHead: registrations per opcode
  ctl, fin,     \* controller: commands held, commands owing a final event
  ended,        \* what became of commands: <<cmd, how, of which command>>
  faults        \* [left, the environment, with the faults still to come;
                \*  stopped, the last send was refused; overtaken, a timer has
                \*  fired before the answer; lossy, an event has been lost;
                \*  several, the controller has reported room for another number
                \*  of commands than one; crossed, a command has been sent while
                \*  a report was on its way]

dliVars == <<inited, cmdTx, rest, subDue>>
ctlVars == <<ctl, fin>>
vars == <<issued, dliQ, cpQ, num, regs, ended, faults, dliVars, ctlVars>>

Cmds == DOMAIN ToSend
Op(c) == ToSend[c]
Task(t) == [type |-> t]
SendTask(c) == [type |-> "Send", cmd |-> c]
CpTask(t, c) == [type |-> t, cmd |-> c]

\* An event: its kind, the opcode it carries (final events carry none and
\* match by event, written here as the opcode they end), the status, the
\* number of commands the controller will take, and the command answered.
Event(k, c, ok, n) ==
  [type |-> "Event", kind |-> k, op |-> Op(c), ok |-> ok, n |-> n, of |-> c]

Node(c) == [cmd |-> c, isSent |-> FALSE, isRecvStatusEvt |-> FALSE]
NoNode == [cmd |-> 0, isSent |-> FALSE, isRecvStatusEvt |-> FALSE]
Position(c) == CHOOSE i \in DOMAIN cmdTx : cmdTx[i].cmd = c

\* DLI_LayerInfoInit: one credit (DLI_DEFAULT_CMD_NUM)
Init ==
  /\ issued = 0 /\ dliQ = <<>> /\ cpQ = <<>>
  /\ inited = TRUE /\ num = 1 /\ cmdTx = <<>> /\ rest = <<>> /\ subDue = FALSE
  /\ regs = [o \in Range(ToSend) |-> 0]
  /\ ctl = <<>> /\ fin = <<>> /\ ended = <<>>
  /\ \E env \in Environments :
       faults = [left |-> env, stopped |-> FALSE, overtaken |-> FALSE,
                 lossy |-> FALSE, several |-> FALSE, crossed |-> FALSE]

-----------------------------------------------------------------------------
(* CP thread. *)

\* DLI_ExecuteCommand: the callback of a complete event is registered by a
\* task of the CP thread, the command is posted to the DLI thread.
ExecuteCommand ==
  /\ issued < Len(ToSend) /\ issued < faults.left.cmds
  /\ issued' = issued + 1
  /\ dliQ' = Append(dliQ, SendTask(issued'))
  /\ cpQ' = IF Op(issued') \in Complete
            THEN Append(cpQ, CpTask("Reg", issued')) ELSE cpQ
  /\ UNCHANGED <<num, regs, ended, faults, dliVars, ctlVars>>

CmdNumSet(n) == num' = n

\* DLI_PostNextTask
PostNextTask(q) == IF inited THEN Append(q, Task("Next")) ELSE q

Ended(c, how, of) == ended' = Append(ended, <<c, how, of>>)

RegisterOnce(n) == 1  \* mutant: an opcode is registered once

\* DLI_InnerEventCbkRegInner: an entry for every command, though alike
Register(n) == n + 1

\* DLI_InnerEventCbkRegInner and DLI_InnerEventCbkUnRegInner
CpReg ==
  /\ cpQ # <<>> /\ Head(cpQ).type \in {"Reg", "UnReg"}
  /\ LET o == Op(Head(cpQ).cmd)
     IN  regs' = [regs EXCEPT ![o] = IF Head(cpQ).type = "Reg" THEN Register(@)
                                     ELSE IF @ > 0 THEN @ - 1 ELSE 0]
  /\ cpQ' = Tail(cpQ)
  /\ UNCHANGED <<issued, dliQ, num, ended, faults, dliVars, ctlVars>>

\* DLI_EventTask, RecvEventHandler: a complete event without its command is
\* dropped; complete and status events set the credit; the first callback
\* registered for the event runs, and that of a complete event posts the end
\* of its registration; the next command is asked for.  A failed status event
\* reaches the module only when its opcode is mapped.
CpEvent ==
  /\ cpQ # <<>> /\ Head(cpQ).type = "Event"
  /\ LET e == Head(cpQ).event
         c == Head(cpQ).node.cmd
         called == e.kind = "Complete" /\ regs[e.op] > 0
     IN  \/ /\ e.kind = "Complete" /\ c = 0
            /\ cpQ' = Tail(cpQ)
            /\ UNCHANGED <<num, dliQ, ended>>
         \/ /\ ~(e.kind = "Complete" /\ c = 0)
            /\ IF e.kind \in {"Complete", "Status"} THEN CmdNumSet(e.n) ELSE UNCHANGED num
            /\ cpQ' = IF called THEN Append(Tail(cpQ), CpTask("UnReg", c)) ELSE Tail(cpQ)
            /\ IF c = 0 THEN UNCHANGED ended
               ELSE Ended(c, IF called \/ e.kind = "Final" \/ (e.kind = "Status" /\ e.op \in Mapped)
                             THEN "answered" ELSE "unheard", e.of)
            /\ dliQ' = PostNextTask(dliQ)
  /\ UNCHANGED <<issued, regs, faults, dliVars, ctlVars>>

\* TimeoutCallback: the credit comes back unless the status event, which
\* carries it, has been seen.  The module is told through the error event, and
\* that only when the opcode is mapped (DLI_CommandErrorCbk).
CreditAlways(node) == TRUE  \* mutant: also after the status event
CreditOfComplete(node) == Op(node.cmd) \in Complete  \* mutant: not for a lost status

CreditAfterTimeout(node) == Op(node.cmd) \in Complete \/ ~node.isRecvStatusEvt

CpTimeout ==
  /\ cpQ # <<>> /\ Head(cpQ).type = "Timeout"
  /\ LET node == Head(cpQ).node
     IN  /\ IF CreditAfterTimeout(node) THEN CmdNumSet(1) ELSE UNCHANGED num
         /\ Ended(node.cmd, IF Op(node.cmd) \in Mapped THEN "timeout" ELSE "unheard", node.cmd)
  /\ cpQ' = Tail(cpQ)
  /\ dliQ' = PostNextTask(dliQ)
  /\ UNCHANGED <<issued, regs, faults, dliVars, ctlVars>>

-----------------------------------------------------------------------------
(* DLI thread. *)

DliIdle == rest = <<>> /\ ~subDue
DliTask(t) == DliIdle /\ dliQ # <<>> /\ Head(dliQ).type = t
ListOf(list) == [i \in DOMAIN list |-> list[i].cmd]

\* DLI_CmdSendInner, DLI_CmdAddToList: a full list refuses the command; the
\* second attempt, after DLI_CmdListSend has run, finds the list as it was.
DliSend ==
  /\ DliTask("Send")
  /\ LET c == Head(dliQ).cmd
         admit == inited /\ Len(cmdTx) <= MaxCnt
     IN  /\ cmdTx' = IF admit THEN Append(cmdTx, Node(c)) ELSE cmdTx
         /\ rest' = IF inited THEN ListOf(cmdTx') ELSE <<>>
         /\ IF admit THEN UNCHANGED ended ELSE Ended(c, "dropped", c)
  /\ dliQ' = Tail(dliQ)
  /\ UNCHANGED <<issued, cpQ, num, regs, faults, inited, subDue, ctlVars>>

\* DLI_CmdWorkCallback
DliNext ==
  /\ DliTask("Next")
  /\ dliQ' = Tail(dliQ)
  /\ rest' = ListOf(cmdTx)
  /\ UNCHANGED <<issued, cpQ, num, regs, ended, faults, inited, cmdTx, subDue, ctlVars>>

\* a report of the controller has not reached g_cmdNum yet
ReportOnTheWay ==
  \/ \E i \in DOMAIN dliQ : dliQ[i].type = "Event" /\ dliQ[i].kind # "Final"
  \/ \E i \in DOMAIN cpQ : cpQ[i].type = "Event" /\ cpQ[i].event.kind # "Final"

\* DLI_CmdListSend, one turn of its loop: no credit ends it, a command already
\* sent is passed over, a refused send ends it.
Visit ==
  /\ rest # <<>> /\ ~subDue
  /\ LET i == Position(Head(rest))
     IN  \/ /\ num = 0
            /\ rest' = <<>>
            /\ UNCHANGED <<cmdTx, subDue, ctl, faults>>
         \/ /\ num > 0 /\ cmdTx[i].isSent
            /\ rest' = Tail(rest)
            /\ UNCHANGED <<cmdTx, subDue, ctl, faults>>
         \/ /\ num > 0 /\ ~cmdTx[i].isSent
            /\ rest' = Tail(rest)
            /\ cmdTx' = [cmdTx EXCEPT ![i].isSent = TRUE]
            /\ subDue' = TRUE
            /\ ctl' = Append(ctl, Head(rest))
            /\ faults' = [faults EXCEPT !.stopped = FALSE, !.crossed = @ \/ ReportOnTheWay]
         \/ /\ num > 0 /\ ~cmdTx[i].isSent /\ faults.left.refused > 0
            /\ rest' = <<>>
            /\ faults' = [faults EXCEPT !.left.refused = @ - 1, !.stopped = TRUE]
            /\ UNCHANGED <<cmdTx, subDue, ctl>>
  /\ UNCHANGED <<issued, dliQ, cpQ, num, regs, ended, inited, fin>>

\* DLI_CmdNumSubOne
SubOne ==
  /\ subDue
  /\ subDue' = FALSE
  /\ num' = (num + 65535) % 65536
  /\ UNCHANGED <<issued, dliQ, cpQ, regs, ended, faults, inited, cmdTx, rest, ctlVars>>

\* DLI_CmdNodeFind, DLI_CmdNodeFindByOpcode, DLI_CmdNodeFindNotRecvStatus: the
\* first command of the list that matches, or none.  A final event never
\* matches a command that a complete event answers, and the other way round.
CmdNodeFind(op) == SelectInSeq(cmdTx, LAMBDA n : Op(n.cmd) = op)
CmdNodeFindNotRecvStatus(op) ==
  SelectInSeq(cmdTx, LAMBDA n : Op(n.cmd) = op /\ ~n.isRecvStatusEvt)

\* DLI_CmdNodeRemove: the command an event takes from the list, 0 if none.  A
\* good status event takes none, a good final event only one whose status has
\* been seen; a command that was never sent stays.
CmdNodeRemove(e) ==
  LET i == IF e.kind = "Status" THEN CmdNodeFindNotRecvStatus(e.op) ELSE CmdNodeFind(e.op)
  IN  IF \/ i = 0
         \/ e.kind = "Status" /\ e.ok
         \/ e.kind = "Final" /\ ~cmdTx[i].isRecvStatusEvt
         \/ ~cmdTx[i].isSent
      THEN 0 ELSE i

\* the command a good status event marks, 0 if none
StatusMarks(e) ==
  IF e.kind = "Status" /\ e.ok THEN CmdNodeFindNotRecvStatus(e.op) ELSE 0

\* DLI_EventPacketReceived
DliEvent ==
  /\ DliTask("Event")
  /\ LET e == Head(dliQ)
         i == CmdNodeRemove(e)
         j == StatusMarks(e)
     IN  /\ cmdTx' = IF i # 0 THEN RemoveAt(cmdTx, i)
                     ELSE IF j # 0 THEN [cmdTx EXCEPT ![j].isRecvStatusEvt = TRUE]
                     ELSE cmdTx
         /\ cpQ' = Append(cpQ, [type |-> "Event", event |-> e,
                                node |-> IF i # 0 THEN cmdTx[i] ELSE NoNode])
  /\ dliQ' = Tail(dliQ)
  /\ UNCHANGED <<issued, num, regs, ended, faults, inited, rest, subDue, ctlVars>>

\* events of command c the host has not yet matched, or that may still come
OnTheWay(c) ==
  \/ c \in Range(ctl) \cup Range(fin)
  \/ \E i \in DOMAIN dliQ : dliQ[i].type = "Event" /\ dliQ[i].of = c

TimedOutKept(i) == cmdTx  \* mutant: the command stays in the list
TimedOutRemoved(i) == RemoveAt(cmdTx, i)

TimersRun == DliIdle

\* DLI_CmdTimerCallback, on the DLI thread between two tasks
CmdTimer ==
  /\ TimersRun
  /\ \E i \in DOMAIN cmdTx :
       /\ cmdTx[i].isSent
       /\ OnTheWay(cmdTx[i].cmd) => faults.left.late > 0
       /\ faults' = IF OnTheWay(cmdTx[i].cmd)
                    THEN [faults EXCEPT !.left.late = @ - 1, !.overtaken = TRUE] ELSE faults
       /\ cmdTx' = TimedOutRemoved(i)
       /\ cpQ' = Append(cpQ, [type |-> "Timeout", node |-> cmdTx[i]])
  /\ dliQ' = PostNextTask(dliQ)
  /\ UNCHANGED <<issued, num, regs, ended, inited, rest, subDue, ctlVars>>

\* DLI_LayerDisable, a task of the DLI thread: the HAL is closed (the controller
\* forgets its commands), the credit reset, the commands and their timers freed.
LayerDisable ==
  /\ DliIdle /\ inited
  /\ inited' = FALSE
  /\ num' = 1
  /\ cmdTx' = <<>>
  /\ ended' = ended \o [i \in DOMAIN cmdTx |-> <<cmdTx[i].cmd, "dropped", cmdTx[i].cmd>>]
  /\ ctl' = <<>> /\ fin' = <<>>
  /\ UNCHANGED <<issued, dliQ, cpQ, regs, faults, rest, subDue>>

-----------------------------------------------------------------------------
(* The controller, external: answers in order. *)

\* the room it has once it has answered a command, and the numbers it may report
Cap == faults.left.cap
Free == IF Cap >= Len(ctl) THEN Cap + 1 - Len(ctl) ELSE 0
Reports == IF Free = 0 THEN {0} ELSE 1 .. Free

\* an event is delivered to the DLI thread (DLI_PacketReceived) or lost; f, the
\* faults so far
Emit(e, f) ==
  \/ dliQ' = Append(dliQ, e) /\ faults' = f
  \/ /\ f.left.lost > 0
     /\ faults' = [f EXCEPT !.left.lost = @ - 1, !.lossy = TRUE]
     /\ UNCHANGED dliQ

CtlAnswer ==
  /\ ctl # <<>>
  /\ LET c == Head(ctl)
     IN  \E ok \in BOOLEAN, n \in Reports :
           /\ Emit(Event(IF Op(c) \in Complete THEN "Complete" ELSE "Status", c, ok, n),
                   [faults EXCEPT !.several = @ \/ n # 1])
           /\ fin' = IF ok /\ Op(c) \notin Complete THEN Append(fin, c) ELSE fin
  /\ ctl' = Tail(ctl)
  /\ UNCHANGED <<issued, cpQ, num, regs, ended, dliVars>>

CtlFinal ==
  /\ fin # <<>>
  /\ Emit(Event("Final", Head(fin), TRUE, 0), faults)
  /\ fin' = Tail(fin)
  /\ UNCHANGED <<issued, cpQ, num, regs, ended, dliVars, ctl>>

-----------------------------------------------------------------------------
DliThread == DliSend \/ DliNext \/ DliEvent \/ Visit \/ SubOne
CpThread == CpReg \/ CpEvent \/ CpTimeout

Next ==
  \/ ExecuteCommand \/ CpReg \/ CpEvent \/ CpTimeout
  \/ DliSend \/ DliNext \/ Visit \/ SubOne \/ DliEvent \/ CmdTimer \/ LayerDisable
  \/ CtlAnswer \/ CtlFinal

\* Both threads run their queues, the controller works, a timer that is due fires.
Fairness ==
  /\ WF_vars(CpThread) /\ WF_vars(DliThread)
  /\ WF_vars(CtlAnswer) /\ WF_vars(CtlFinal) /\ WF_vars(CmdTimer)

Spec == Init /\ [][Next]_vars
LiveSpec == Spec /\ Fairness
-----------------------------------------------------------------------------
(* Properties. *)

\* Commands whose credit has been taken and not yet given back: the controller
\* holds it, the event that carries the credit is on its way through the two
\* queues, or nothing is on its way and only the timer can give it back.
Owing ==
  {c \in Cmds :
     \/ c \in Range(ctl)
     \/ \E i \in DOMAIN dliQ :
          dliQ[i].type = "Event" /\ dliQ[i].of = c /\ dliQ[i].kind # "Final"
     \/ \E i \in DOMAIN cpQ :
          \/ cpQ[i].type = "Event" /\ cpQ[i].event.of = c /\ cpQ[i].event.kind # "Final"
          \/ cpQ[i].type = "Timeout" /\ cpQ[i].node.cmd = c /\ CreditAfterTimeout(cpQ[i].node)
     \/ \E i \in DOMAIN cmdTx :
          cmdTx[i].cmd = c /\ cmdTx[i].isSent /\ ~cmdTx[i].isRecvStatusEvt}

\* Over the test and the decrement of one thread, the setting by the other, lost
\* events and time-outs (DLI_CmdListSend, DLI_CommandStatusCbk, RecvEventHandler,
\* TimeoutCallback):
\*   - while the controller reports room for one command, the credit is never lost
\*     and never doubled;
\*   - whatever it reports, the layer's credit and the commands the controller holds
\*     are together no more than it has room for, so that it is never overrun.
\* The number reported replaces the credit.  Both exempt a time-out that overtakes
\* the answer: it gives the credit back, and so does the answer.  The second exempts
\* a command sent while a report is on its way, which does not count that command,
\* and a lost event, whose time-out sets the credit to one whatever is out.
CreditConserved ==
  inited /\ ~faults.overtaken =>
    LET untaken == IF subDue THEN 1 ELSE 0
    IN  /\ ~faults.several => num + Cardinality(Owing) = 1 + untaken
        /\ ~faults.lossy /\ ~faults.crossed => num + Len(ctl) <= Cap + untaken

\* A command ends once, also when its time-out and its answer cross: by an answer,
\* by its time-out, or dropped when the list is full or the layer is disabled.  And
\* as long as no time-out has overtaken an answer, a command that a complete event
\* answers gets its own, never that of another command of its opcode
\* (DLI_CmdNodeRemove against DLI_CmdTimerCallback).  Events are matched by opcode:
\* with several commands out and one's event lost, another's event takes its place.
EndsOnce ==
  \A i \in DOMAIN ended :
    /\ \A j \in DOMAIN ended : ended[j][1] = ended[i][1] => j = i
    /\ Op(ended[i][1]) \in Complete /\ ~faults.overtaken /\ ~(faults.lossy /\ faults.several) =>
         ended[i][3] = ended[i][1]

\* When a complete event reaches the CP thread with its command, the callback
\* that the command registered is there, whatever the registrations and
\* removals of other commands of its opcode queued before it.
CallbackIsThere ==
  cpQ # <<>> /\ Head(cpQ).type = "Event" =>
    (Head(cpQ).event.kind = "Complete" /\ Head(cpQ).node.cmd # 0 => regs[Head(cpQ).event.op] > 0)

\* Every command issued ends, whatever is lost (DLI_PostNextTask after every event and
\* time-out), unless the HAL refused the last send, so that the command waits for
\* another event or command (DLI_CmdListSend), or a time-out that overtook its answer
\* has upset the credit.
EveryCommandEnds ==
  \A c \in Cmds :
    (issued >= c) ~> \/ faults.stopped \/ faults.overtaken
                     \/ \E i \in DOMAIN ended : ended[i][1] = c
=============================================================================
