---------------------------- MODULE DliCmdProofs ----------------------------
(***************************************************************************)
(* Proofs about the command queue of the DLI layer (DliCmd), for any list  *)
(* of commands, any bound of the list, any room of the controller and any  *)
(* faults: a command ends at most once, and its callback is registered     *)
(* when its complete event reaches the CP thread (CallbackIsThere); the    *)
(* credit is conserved (CreditConserved) and a command ends by its own     *)
(* answer (EndsOnce), but for what these exempt.                           *)
(*                                                                         *)
(* The invariant has these parts.  A command is in one place at a time: in *)
(* a task, in the list, in an event or time-out on its way to the CP       *)
(* thread, or ended (Placed).  Commands are sent in the order of the list  *)
(* (ListInOrder), which is that of their numbers (InTurn).  A command's    *)
(* callback is registered from its "Reg" to its "UnReg" task (RegsOK), and *)
(* the first precedes its event.  While the controller reports room for    *)
(* one command, the credit is with the layer (Idle), out with one command  *)
(* (Out) or on its way back through the CP queue (Back).  While nothing is *)
(* lost, the commands that wait in the list are those of the answers on    *)
(* their way and those the controller holds, in one order (Queued): an     *)
(* answer so finds its own command (OwnAnswer).  While no command is sent  *)
(* with a report on its way, the credit, and every report on its way, are  *)
(* no more than the controller's room (RoomOK).                            *)
(***************************************************************************)
EXTENDS DliCmd, ListLemmas, FiniteSetTheorems

Kinds == {"Complete", "Status", "Final"}
Events ==
  {e \in [type : {"Event"}, kind : Kinds, op : Range(ToSend), ok : BOOLEAN, n : Nat, of : Cmds] :
     e.op = Op(e.of) /\ (e.kind = "Complete" <=> e.op \in Complete)}
DliTasks == [type : {"Send"}, cmd : Cmds] \cup [type : {"Next"}] \cup Events
Nodes == [cmd : Cmds, isSent : BOOLEAN, isRecvStatusEvt : BOOLEAN]
CpEvents ==
  {t \in [type : {"Event"}, event : Events, node : Nodes \cup {NoNode}] :
     t.node.cmd # 0 => Op(t.node.cmd) = t.event.op}
CpTasks == [type : {"Reg", "UnReg"}, cmd : Cmds] \cup CpEvents \cup [type : {"Timeout"}, node : Nodes]
Endings == Cmds \X {"answered", "unheard", "timeout", "dropped"} \X Cmds
Surroundings == [cmds : Nat, cap : Nat \ {0}, lost : Nat, late : Nat, refused : Nat]
Faults ==
  [left : Surroundings, stopped : BOOLEAN, overtaken : BOOLEAN,
   lossy : BOOLEAN, several : BOOLEAN, crossed : BOOLEAN]

\* What has happened stays so, and the controller keeps its room.
Grow(f, g) ==
  /\ f.overtaken => g.overtaken
  /\ f.lossy => g.lossy
  /\ f.several => g.several
  /\ f.crossed => g.crossed
  /\ g.left.cap = f.left.cap

CmdTypeOK ==
  /\ issued \in 0 .. Len(ToSend)
  /\ dliQ \in Seq(DliTasks) /\ cpQ \in Seq(CpTasks)
  /\ inited \in BOOLEAN /\ num \in Nat
  /\ cmdTx \in Seq(Nodes) /\ rest \in Seq(Cmds) /\ subDue \in BOOLEAN
  /\ regs \in [Range(ToSend) -> Nat]
  /\ ctl \in Seq(Cmds) /\ fin \in Seq({c \in Cmds : Op(c) \notin Complete})
  /\ ended \in Seq(Endings) /\ faults \in Faults

-----------------------------------------------------------------------------
(* Where a command is. *)

\* the command a task, an entry of the list or an ending holds, 0 if none
SendKeys(q) == [i \in DOMAIN q |-> IF q[i].type = "Send" THEN q[i].cmd ELSE 0]
CpKeys(q) == [i \in DOMAIN q |-> IF q[i].type \in {"Event", "Timeout"} THEN q[i].node.cmd ELSE 0]
EndKeys(l) == [i \in DOMAIN l |-> l[i][1]]

\* No number but 0 is twice in s; the numbers in s but 0.
Once(s) == \A i, j \in DOMAIN s : s[i] # 0 /\ s[i] = s[j] => i = j
Held(s) == {s[i] : i \in DOMAIN s} \ {0}

\* The sets of commands of the four places do not meet.
Apart(A, B, C, D) ==
  /\ A \cap B = {} /\ A \cap C = {} /\ A \cap D = {}
  /\ B \cap C = {} /\ B \cap D = {} /\ C \cap D = {}

Placed ==
  /\ Once(SendKeys(dliQ)) /\ Once(ListOf(cmdTx)) /\ Once(CpKeys(cpQ)) /\ Once(EndKeys(ended))
  /\ Apart(Held(SendKeys(dliQ)), Held(ListOf(cmdTx)), Held(CpKeys(cpQ)), Held(EndKeys(ended)))
  /\ Held(SendKeys(dliQ)) \subseteq 1 .. issued /\ Held(ListOf(cmdTx)) \subseteq 1 .. issued
  /\ Held(CpKeys(cpQ)) \subseteq 1 .. issued /\ Held(EndKeys(ended)) \subseteq 1 .. issued

-----------------------------------------------------------------------------
(* The order of the list. *)

\* The commands sent come first in the list; DLI_CmdListSend has passed over
\* commands that were sent and has the others before it.
ListInOrder ==
  /\ \A i, j \in DOMAIN cmdTx : i < j /\ cmdTx[j].isSent => cmdTx[i].isSent
  /\ Len(rest) <= Len(cmdTx)
  /\ \A j \in DOMAIN rest : rest[j] = cmdTx[Len(cmdTx) - Len(rest) + j].cmd
  /\ rest # <<>> => \A i \in 1 .. Len(cmdTx) - Len(rest) : cmdTx[i].isSent
  /\ ~inited => cmdTx = <<>>

-----------------------------------------------------------------------------
(* The credit. *)

\* the command at i waits for the event that carries the credit, and no other
Waits(l, i) == l[i].isSent /\ ~l[i].isRecvStatusEvt
NoneWaits(l) == \A i \in DOMAIN l : ~Waits(l, i)
WaitsAt(l, i) == i \in DOMAIN l /\ \A j \in DOMAIN l : Waits(l, j) <=> j = i
\* a task of the DLI thread that carries the credit; there is none, or one at
\* most, for the command c, and gives back one
Carries(t) == t.type = "Event" /\ t.kind # "Final"
NoAnswer(q) == \A i \in DOMAIN q : ~Carries(q[i])
AnswersFor(q, c) ==
  /\ \A j \in DOMAIN q : Carries(q[j]) => q[j].of = c /\ q[j].n = 1
  /\ \A j, k \in DOMAIN q : Carries(q[j]) /\ Carries(q[k]) => j = k
\* a task of the CP thread that gives the credit back; the one at k, and no other
Gives(t) ==
  \/ t.type = "Event" /\ t.event.kind # "Final"
  \/ t.type = "Timeout" /\ CreditAfterTimeout(t.node)
NoCredit(q) == \A i \in DOMAIN q : ~Gives(q[i])
GivesAt(q, k) == k \in DOMAIN q /\ \A j \in DOMAIN q : Gives(q[j]) <=> j = k

Idle == num = 1 /\ ~subDue /\ NoneWaits(cmdTx) /\ ctl = <<>> /\ NoAnswer(dliQ) /\ NoCredit(cpQ)

\* The command at i has the credit: the controller holds it, its answer is on its
\* way, or both are lost.
Out(i) ==
  /\ num = (IF subDue THEN 1 ELSE 0) /\ NoCredit(cpQ) /\ WaitsAt(cmdTx, i)
  /\ ctl = <<>> \/ (ctl = <<cmdTx[i].cmd>> /\ NoAnswer(dliQ))
  /\ AnswersFor(dliQ, cmdTx[i].cmd)

\* The task t is sure to set the credit to one.
Restores(t) ==
  t.type = "Event" => t.event.n = 1 /\ (t.event.kind = "Complete" => t.node.cmd # 0)

\* The task of the CP thread at k brings the credit back.
Back(k) ==
  /\ num = 0 /\ ~subDue /\ NoneWaits(cmdTx) /\ ctl = <<>> /\ NoAnswer(dliQ)
  /\ GivesAt(cpQ, k) /\ Restores(cpQ[k])

\* A status event is only for a command that was sent and that it answers.
Marked(l) == \A i \in DOMAIN l :
  l[i].isRecvStatusEvt => l[i].isSent /\ Op(l[i].cmd) \notin Complete

CreditState == Idle \/ (\E i : Out(i)) \/ (\E k : Back(k))

\* As long as the controller takes one command at a time.
OneAtATime == inited /\ ~faults.overtaken /\ ~faults.several

CreditInv == OneAtATime => Marked(cmdTx) /\ CreditState

\* A complete event takes its own command from the list.
Own(t) == t.type = "Event" /\ t.event.kind = "Complete" /\ t.node.cmd # 0 => t.node.cmd = t.event.of
OwnEnd(x) == Op(x[1]) \in Complete => x[3] = x[1]

\* Answers are matched as they should as long as no time-out overtakes an answer and
\* no event is lost while several commands are out.
Matched(f) == ~f.overtaken /\ ~(f.lossy /\ f.several)

OwnAnswer ==
  Matched(faults) => (\A k \in DOMAIN cpQ : Own(cpQ[k])) /\ (\A i \in DOMAIN ended : OwnEnd(ended[i]))

-----------------------------------------------------------------------------
(* The turns. *)

\* The commands to be sent ascend in the queue of the DLI thread, those of the list
\* ascend, and the first come after the second.
SendsAscend(q) == \A i, j \in DOMAIN q :
  i < j /\ q[i].type = "Send" /\ q[j].type = "Send" => q[i].cmd < q[j].cmd
SendsAfter(q, c) == \A j \in DOMAIN q : q[j].type = "Send" => c < q[j].cmd
ListAscends(l) == \A i, j \in DOMAIN l : i < j => l[i].cmd < l[j].cmd

InTurn ==
  /\ SendsAscend(dliQ) /\ ListAscends(cmdTx)
  /\ \A i \in DOMAIN cmdTx : SendsAfter(dliQ, cmdTx[i].cmd)

\* the commands of the list that wait for the event that carries the credit, those
\* whose event is on its way to the DLI thread
Waiting(l) == {l[i].cmd : i \in {j \in DOMAIN l : Waits(l, j)}}
Answers(q) == {q[k].of : k \in {j \in DOMAIN q : Carries(q[j])}}
AnswersAscend(q) == \A j, k \in DOMAIN q :
  j < k /\ Carries(q[j]) /\ Carries(q[k]) => q[j].of < q[k].of
Ascends(s) == \A i, j \in DOMAIN s : i < j => s[i] < s[j]

\* The controller holds the commands that wait, or their events are on their way,
\* all in turn.
Queued ==
  /\ Marked(cmdTx)
  /\ Waiting(cmdTx) = Answers(dliQ) \cup Range(ctl)
  /\ AnswersAscend(dliQ) /\ Ascends(ctl)
  /\ \A a \in Answers(dliQ), c \in Range(ctl) : a < c

NothingLost == inited /\ ~faults.overtaken /\ ~faults.lossy

QueueInv == NothingLost => Queued

-----------------------------------------------------------------------------
(* The room. *)

\* Tasks that set the credit to no more than m.
DliFit(m) == {t \in DliTasks : Carries(t) => t.n <= m}
CpFit(m) == {t \in CpTasks : Gives(t) => t.type = "Event" /\ t.event.n <= m}

\* the room the controller has left
LeftOver == Cap - Len(ctl)

RoomOK ==
  /\ num <= LeftOver + (IF subDue THEN 1 ELSE 0)
  /\ subDue => num > 0 /\ NoCredit(cpQ)
  /\ \A k \in DOMAIN dliQ : dliQ[k] \in DliFit(LeftOver)
  /\ \A k \in DOMAIN cpQ : cpQ[k] \in CpFit(LeftOver)

RoomInv == NothingLost /\ ~faults.crossed => RoomOK

-----------------------------------------------------------------------------
(* The callbacks. *)

Pending(q, type, c) == \E i \in DOMAIN q : q[i].type = type /\ q[i].cmd = c
Answered(l, c) == \E i \in DOMAIN l : l[i][1] = c /\ l[i][2] = "answered"

\* the commands of opcode o whose callback is registered
Registered(q, l, n, o) ==
  {c \in 1 .. n : /\ Op(c) = o /\ o \in Complete /\ ~Pending(q, "Reg", c)
                  /\ Answered(l, c) => Pending(q, "UnReg", c)}

\* A command is registered and unregistered once, the first before its event.
RegsApart(q) == \A i, j \in DOMAIN q :
  q[i].type \in {"Reg", "UnReg"} /\ q[j].type = q[i].type /\ q[j].cmd = q[i].cmd => i = j
RegFirst(q) == \A i, j \in DOMAIN q :
  q[i].type = "Reg" /\ q[j].type \in {"Event", "Timeout"} /\ q[j].node.cmd = q[i].cmd => i < j

RegsOK ==
  /\ \A o \in Range(ToSend) : regs[o] = Cardinality(Registered(cpQ, ended, issued, o))
  /\ RegsApart(cpQ) /\ RegFirst(cpQ)
  /\ \A c \in Cmds : Pending(cpQ, "Reg", c) => c <= issued /\ Op(c) \in Complete /\ ~Answered(ended, c)
  /\ \A c \in Cmds : Pending(cpQ, "UnReg", c) => c <= issued /\ Op(c) \in Complete /\ Answered(ended, c)

-----------------------------------------------------------------------------
(* Types. *)

\* Commands are numbered from 1.
LEMMA CmdNumbers ==
    /\ Cmds = 1 .. Len(ToSend) /\ Len(ToSend) \in Nat /\ 0 \notin Cmds
    /\ \A c \in Cmds : Op(c) \in Range(ToSend)
<1>1. ToSend \in Seq(Range(ToSend))
  BY BoundsAssumption
<1>2. Len(ToSend) \in Nat /\ DOMAIN ToSend = 1 .. Len(ToSend)
  BY <1>1
<1> QED BY <1>2 DEF Cmds, Op, Range

\* The tasks, events and entries the actions make.
LEMMA MadeTypes ==
    /\ Task("Next") \in DliTasks
    /\ \A c \in Cmds : SendTask(c) \in DliTasks /\ Node(c) \in Nodes
    /\ \A c \in Cmds : CpTask("Reg", c) \in CpTasks /\ CpTask("UnReg", c) \in CpTasks
    /\ \A n \in Nodes : [type |-> "Timeout", node |-> n] \in CpTasks
<1>1. Task("Next") \in DliTasks
  BY DEF Task, DliTasks
<1>2. \A c \in Cmds : SendTask(c) \in DliTasks
  BY DEF SendTask, DliTasks
<1>3. \A c \in Cmds : Node(c) \in Nodes
  BY DEF Node, Nodes
<1>4. \A c \in Cmds : CpTask("Reg", c) \in CpTasks /\ CpTask("UnReg", c) \in CpTasks
  BY DEF CpTask, CpTasks
<1>5. \A n \in Nodes : [type |-> "Timeout", node |-> n] \in CpTasks
  BY DEF CpTasks
<1> QED BY <1>1, <1>2, <1>3, <1>4, <1>5

\* An event the controller makes.
LEMMA EventType ==
    ASSUME NEW c \in Cmds, NEW k \in Kinds, NEW ok \in BOOLEAN, NEW n \in Nat,
           k = "Complete" <=> Op(c) \in Complete
    PROVE  /\ Event(k, c, ok, n) \in Events /\ Event(k, c, ok, n) \in DliTasks
           /\ Event(k, c, ok, n).type = "Event" /\ Event(k, c, ok, n).kind = k
           /\ Event(k, c, ok, n).of = c /\ Event(k, c, ok, n).n = n /\ Event(k, c, ok, n).ok = ok
BY CmdNumbers DEF Event, Events, DliTasks

\* What the type of a task of the DLI thread tells.
LEMMA DliTaskIs ==
    ASSUME NEW t \in DliTasks
    PROVE  /\ t.type \in {"Send", "Next", "Event"}
           /\ t.type = "Send" => t.cmd \in Cmds
           /\ t.type = "Event" => t \in Events
BY DEF DliTasks, Events

\* An event: its opcode is that of the command it answers.
LEMMA EventIs ==
    ASSUME NEW e \in Events
    PROVE  /\ e.type = "Event" /\ e.kind \in Kinds /\ e.ok \in BOOLEAN /\ e.n \in Nat /\ e.of \in Cmds
           /\ e.op = Op(e.of) /\ e.op \in Range(ToSend) /\ (e.kind = "Complete" <=> e.op \in Complete)
BY DEF Events

\* What the type of a task of the CP thread tells.
LEMMA CpTaskIs ==
    ASSUME NEW t \in CpTasks
    PROVE  /\ t.type \in {"Reg", "UnReg", "Event", "Timeout"}
           /\ t.type \in {"Reg", "UnReg"} => t.cmd \in Cmds
           /\ t.type = "Timeout" => t.node \in Nodes /\ t.node.cmd \in Cmds
           /\ t.type = "Event" => /\ t.event \in Events /\ t.node.cmd \in Cmds \cup {0}
                                  /\ t.node.cmd # 0 => t.node \in Nodes /\ Op(t.node.cmd) = t.event.op
<1>1. CASE t \in [type : {"Reg", "UnReg"}, cmd : Cmds]
  BY <1>1
<1>2. CASE t \in [type : {"Timeout"}, node : Nodes]
  BY <1>2 DEF Nodes
<1>3. CASE t \in CpEvents
  BY <1>3 DEF CpEvents, Nodes, NoNode
<1> QED BY <1>1, <1>2, <1>3 DEF CpTasks

\* An event on its way to the CP thread, with its command or none.
LEMMA CpEventType ==
    ASSUME NEW e \in Events, NEW n, n = NoNode \/ (n \in Nodes /\ Op(n.cmd) = e.op)
    PROVE  [type |-> "Event", event |-> e, node |-> n] \in CpTasks
BY DEF CpTasks, CpEvents, NoNode

\* DLI_CmdNodeFindByOpcode: the first command of the opcode, if there is one.
LEMMA NodeFound ==
    ASSUME cmdTx \in Seq(Nodes), NEW op
    PROVE  LET i == CmdNodeFind(op)
           IN  /\ i = 0 \/ i \in DOMAIN cmdTx
               /\ i # 0 => Op(cmdTx[i].cmd) = op
               /\ \A j \in DOMAIN cmdTx : Op(cmdTx[j].cmd) = op => i # 0 /\ i <= j
<1> DEFINE I == {j \in 1 .. Len(cmdTx) : Op(cmdTx[j].cmd) = op}
<1>1. CmdNodeFind(op) = IF I # {} THEN Min(I) ELSE 0
  BY DEF CmdNodeFind, SelectInSeq
<1>2. I \subseteq Nat /\ DOMAIN cmdTx = 1 .. Len(cmdTx)
  OBVIOUS
<1>3. I # {} => Min(I) \in I /\ \A j \in I : Min(I) <= j
  BY <1>2, MinProperties
<1>4. \A j \in DOMAIN cmdTx : j \in I <=> Op(cmdTx[j].cmd) = op
  BY <1>2
<1>5. CASE I = {}
  BY <1>1, <1>4, <1>5
<1>6. CASE I # {}
  <2>1. PICK m : m = Min(I)
    OBVIOUS
  <2>2. m \in I /\ (\A j \in I : m <= j) /\ m # 0 /\ m \in DOMAIN cmdTx
    BY <1>2, <1>3, <1>6, <2>1
  <2> QED BY <1>1, <1>4, <1>6, <2>1, <2>2
<1> QED BY <1>5, <1>6

\* DLI_CmdNodeFindNotRecvStatus: the first without its status event.
LEMMA NotRecvStatusFound ==
    ASSUME cmdTx \in Seq(Nodes), NEW op
    PROVE  LET i == CmdNodeFindNotRecvStatus(op)
           IN  /\ i = 0 \/ i \in DOMAIN cmdTx
               /\ i # 0 => Op(cmdTx[i].cmd) = op /\ ~cmdTx[i].isRecvStatusEvt
               /\ \A j \in DOMAIN cmdTx :
                    Op(cmdTx[j].cmd) = op /\ ~cmdTx[j].isRecvStatusEvt => i # 0 /\ i <= j
<1> DEFINE I == {j \in 1 .. Len(cmdTx) : Op(cmdTx[j].cmd) = op /\ ~cmdTx[j].isRecvStatusEvt}
<1>1. CmdNodeFindNotRecvStatus(op) = IF I # {} THEN Min(I) ELSE 0
  BY DEF CmdNodeFindNotRecvStatus, SelectInSeq
<1>2. I \subseteq Nat /\ DOMAIN cmdTx = 1 .. Len(cmdTx)
  OBVIOUS
<1>3. I # {} => Min(I) \in I /\ \A j \in I : Min(I) <= j
  BY <1>2, MinProperties
<1>4. \A j \in DOMAIN cmdTx : j \in I <=> Op(cmdTx[j].cmd) = op /\ ~cmdTx[j].isRecvStatusEvt
  BY <1>2
<1>5. CASE I = {}
  BY <1>1, <1>4, <1>5
<1>6. CASE I # {}
  <2>1. PICK m : m = Min(I)
    OBVIOUS
  <2>2. m \in I /\ (\A j \in I : m <= j) /\ m # 0 /\ m \in DOMAIN cmdTx
    BY <1>2, <1>3, <1>6, <2>1
  <2> QED BY <1>1, <1>4, <1>6, <2>1, <2>2
<1> QED BY <1>5, <1>6

\* DLI_CmdNodeRemove: what it takes from the list was sent and has the opcode.
LEMMA NodeRemoved ==
    ASSUME cmdTx \in Seq(Nodes), NEW e \in Events
    PROVE  LET i == CmdNodeRemove(e)
           IN  /\ i = 0 \/ i \in DOMAIN cmdTx
               /\ i # 0 => /\ cmdTx[i].isSent /\ Op(cmdTx[i].cmd) = e.op
                           /\ e.kind = "Final" => cmdTx[i].isRecvStatusEvt
                           /\ e.kind = "Complete" => i = CmdNodeFind(e.op)
                           /\ e.kind = "Status" => i = CmdNodeFindNotRecvStatus(e.op) /\ ~e.ok
<1>1. e.kind \in Kinds
  BY EventIs
<1>2. PICK f : f = CmdNodeFind(e.op)
  OBVIOUS
<1>3. PICK g : g = CmdNodeFindNotRecvStatus(e.op)
  OBVIOUS
<1>4. (f = 0 \/ f \in DOMAIN cmdTx) /\ (f # 0 => Op(cmdTx[f].cmd) = e.op)
  BY <1>2, NodeFound
<1>5. (g = 0 \/ g \in DOMAIN cmdTx) /\ (g # 0 => Op(cmdTx[g].cmd) = e.op)
  BY <1>3, NotRecvStatusFound
<1> QED BY <1>1, <1>2, <1>3, <1>4, <1>5 DEF CmdNodeRemove, Kinds

\* A fault is taken from those that are left.
LEMMA FaultsLeft ==
    ASSUME NEW f \in Faults
    PROVE  /\ f.left.refused > 0 => [f.left EXCEPT !.refused = @ - 1] \in Surroundings
           /\ f.left.late > 0 => [f.left EXCEPT !.late = @ - 1] \in Surroundings
           /\ f.left.lost > 0 => [f.left EXCEPT !.lost = @ - 1] \in Surroundings
           /\ [f.left EXCEPT !.refused = @ - 1].cap = f.left.cap
           /\ [f.left EXCEPT !.late = @ - 1].cap = f.left.cap
           /\ [f.left EXCEPT !.lost = @ - 1].cap = f.left.cap
<1>1. f.left \in Surroundings
  BY DEF Faults
<1> QED BY <1>1 DEF Surroundings

\* The HAL refuses a command.
LEMMA FaultsRefused ==
    ASSUME NEW f \in Faults, f.left.refused > 0, NEW g, g = [f EXCEPT !.left.refused = @ - 1, !.stopped = TRUE]
    PROVE  g \in Faults /\ Grow(f, g) /\ g.overtaken = f.overtaken
BY FaultsLeft DEF Faults, Grow

\* A time-out overtakes the answer.
LEMMA FaultsLate ==
    ASSUME NEW f \in Faults, f.left.late > 0, NEW g, g = [f EXCEPT !.left.late = @ - 1, !.overtaken = TRUE]
    PROVE  g \in Faults /\ Grow(f, g) /\ g.overtaken
BY FaultsLeft DEF Faults, Grow

\* The controller reports.
LEMMA FaultsReport ==
    ASSUME NEW f \in Faults, NEW b \in BOOLEAN, NEW g, g = [f EXCEPT !.several = @ \/ b]
    PROVE  g \in Faults /\ Grow(f, g) /\ g.overtaken = f.overtaken /\ (~g.several => ~b)
BY DEF Faults, Grow

\* An event is lost.
LEMMA FaultsLost ==
    ASSUME NEW f \in Faults, f.left.lost > 0, NEW g, g = [f EXCEPT !.left.lost = @ - 1, !.lossy = TRUE]
    PROVE  g \in Faults /\ Grow(f, g) /\ g.overtaken = f.overtaken /\ g.lossy
BY FaultsLeft DEF Faults, Grow

\* Faults grow from step to step.
LEMMA GrowOn ==
    ASSUME NEW f, NEW g, NEW h, Grow(f, g), Grow(g, h)
    PROVE  Grow(f, h)
BY DEF Grow

\* DLI_PostNextTask
LEMMA NextPosted ==
    ASSUME NEW q \in Seq(DliTasks)
    PROVE  /\ PostNextTask(q) \in Seq(DliTasks)
           /\ PostNextTask(q) = q \/ PostNextTask(q) = Append(q, Task("Next"))
<1>1. Append(q, Task("Next")) \in Seq(DliTasks)
  BY MadeTypes, AppendElements
<1> QED BY <1>1 DEF PostNextTask

\* An event of the controller is delivered or lost.
LEMMA Emitted ==
    ASSUME CmdTypeOK, NEW e \in Events, NEW f \in Faults, Emit(e, f)
    PROVE  /\ dliQ' \in Seq(DliTasks) /\ faults' \in Faults
           /\ Grow(f, faults') /\ faults'.overtaken = f.overtaken
           /\ dliQ' = dliQ \/ dliQ' = Append(dliQ, e)
           /\ ~faults'.lossy => dliQ' = Append(dliQ, e)
<1>1. e \in DliTasks
  BY DEF DliTasks
<1>2. Append(dliQ, e) \in Seq(DliTasks)
  BY <1>1, AppendElements DEF CmdTypeOK
<1>3. CASE dliQ' = Append(dliQ, e) /\ faults' = f
  BY <1>2, <1>3 DEF CmdTypeOK, Grow
<1>4. CASE /\ f.left.lost > 0
           /\ faults' = [f EXCEPT !.left.lost = @ - 1, !.lossy = TRUE]
           /\ UNCHANGED dliQ
  <2>1. faults' \in Faults /\ Grow(f, faults') /\ faults'.overtaken = f.overtaken /\ faults'.lossy
    BY <1>4, FaultsLost
  <2> QED BY <1>4, <2>1 DEF CmdTypeOK
<1> QED BY <1>3, <1>4 DEF Emit

\* A command ends.
LEMMA EndedType ==
    ASSUME CmdTypeOK, NEW c \in Cmds, NEW how \in {"answered", "unheard", "timeout", "dropped"},
           NEW of \in Cmds
    PROVE  <<c, how, of>> \in Endings /\ Append(ended, <<c, how, of>>) \in Seq(Endings)
<1>1. <<c, how, of>> \in Endings
  BY DEF Endings
<1> QED BY <1>1, AppendElements DEF CmdTypeOK

\* The place of a command in the list.
LEMMA PositionIs ==
    ASSUME cmdTx \in Seq(Nodes), NEW i \in DOMAIN cmdTx,
           \A j \in DOMAIN cmdTx : cmdTx[j].cmd = cmdTx[i].cmd => j = i
    PROVE  Position(cmdTx[i].cmd) = i
BY DEF Position

\* The first command of `rest', in the list.
LEMMA RestHead ==
    ASSUME CmdTypeOK, Placed, ListInOrder, rest # <<>>
    PROVE  LET i == Len(cmdTx) - Len(rest) + 1
           IN  i \in DOMAIN cmdTx /\ Head(rest) = cmdTx[i].cmd /\ Position(Head(rest)) = i
<1> DEFINE i == Len(cmdTx) - Len(rest) + 1
<1>1. /\ Len(rest) \in Nat \ {0} /\ Head(rest) = rest[1] /\ 1 \in DOMAIN rest
      /\ Len(cmdTx) \in Nat /\ DOMAIN cmdTx = 1 .. Len(cmdTx) /\ cmdTx \in Seq(Nodes)
  <2>1. Len(rest) \in Nat \ {0} /\ Head(rest) = rest[1]
    BY TailElements DEF CmdTypeOK
  <2> QED BY <2>1 DEF CmdTypeOK
<1>2. i \in DOMAIN cmdTx /\ Head(rest) = cmdTx[i].cmd
  BY <1>1 DEF ListInOrder
<1> HIDE DEF i
<1>3. ASSUME NEW j \in DOMAIN cmdTx, cmdTx[j].cmd = cmdTx[i].cmd PROVE j = i
  <2>2. DOMAIN ListOf(cmdTx) = DOMAIN cmdTx
    BY DEF ListOf
  <2>3. ListOf(cmdTx)[j] = cmdTx[j].cmd /\ ListOf(cmdTx)[i] = cmdTx[i].cmd
    BY <1>2 DEF ListOf
  <2>6. cmdTx[j] \in Nodes
    BY <1>1
  <2>4. cmdTx[j].cmd \in Cmds
    BY <2>6 DEF Nodes
  <2>5. cmdTx[j].cmd # 0
    BY <2>4, CmdNumbers
  <2> QED BY <1>2, <1>3, <2>2, <2>3, <2>5 DEF Placed, Once
<1>4. Position(cmdTx[i].cmd) = i
  BY <1>1, <1>2, <1>3, PositionIs
<1> QED BY <1>2, <1>4 DEF i

\* The list after a change of an entry's marks.
LEMMA MarkType ==
    ASSUME cmdTx \in Seq(Nodes), NEW i \in DOMAIN cmdTx
    PROVE  /\ [cmdTx EXCEPT ![i].isSent = TRUE] \in Seq(Nodes)
           /\ [cmdTx EXCEPT ![i].isRecvStatusEvt = TRUE] \in Seq(Nodes)
<1>1. cmdTx[i] \in Nodes
  OBVIOUS
<1>2. [cmdTx[i] EXCEPT !.isSent = TRUE] \in Nodes /\ [cmdTx[i] EXCEPT !.isRecvStatusEvt = TRUE] \in Nodes
  BY <1>1 DEF Nodes
<1>3. [cmdTx EXCEPT ![i] = [cmdTx[i] EXCEPT !.isSent = TRUE]] \in Seq(Nodes)
  BY <1>2
<1>4. [cmdTx EXCEPT ![i] = [cmdTx[i] EXCEPT !.isRecvStatusEvt = TRUE]] \in Seq(Nodes)
  BY <1>2
<1> QED BY <1>3, <1>4

\* Steps of the CP thread keep the types.
LEMMA TypeCp ==
    ASSUME CmdTypeOK, ExecuteCommand \/ CpReg \/ CpEvent \/ CpTimeout
    PROVE  CmdTypeOK'
<1>1. CASE ExecuteCommand
  <2>1. issued \in Nat /\ issued < Len(ToSend) /\ issued' = issued + 1
    BY <1>1, CmdNumbers DEF CmdTypeOK, ExecuteCommand
  <2>2. issued' \in Cmds /\ issued' \in 0 .. Len(ToSend)
    BY <2>1, CmdNumbers
  <2>3. Append(dliQ, SendTask(issued')) \in Seq(DliTasks)
    BY <2>2, MadeTypes, AppendElements DEF CmdTypeOK
  <2>4. Append(cpQ, CpTask("Reg", issued')) \in Seq(CpTasks)
    BY <2>2, MadeTypes, AppendElements DEF CmdTypeOK
  <2> QED BY <1>1, <2>2, <2>3, <2>4 DEF CmdTypeOK, ExecuteCommand, dliVars, ctlVars
<1>2. CASE CpReg
  <2>1. cpQ \in Seq(CpTasks) /\ cpQ # <<>>
    BY <1>2 DEF CpReg, CmdTypeOK
  <2>2. Tail(cpQ) \in Seq(CpTasks) /\ Head(cpQ) \in CpTasks
    BY <2>1, TailElements
  <2>3. Head(cpQ).cmd \in Cmds
    BY <1>2, <2>2, CpTaskIs DEF CpReg
  <2>4. PICK o : o = Op(Head(cpQ).cmd)
    OBVIOUS
  <2>5. o \in Range(ToSend)
    BY <2>3, <2>4, CmdNumbers
  <2>6. regs' = [regs EXCEPT ![o] = IF Head(cpQ).type = "Reg" THEN Register(@)
                                    ELSE IF @ > 0 THEN @ - 1 ELSE 0]
    BY <1>2, <2>4 DEF CpReg
  <2>7. regs' \in [Range(ToSend) -> Nat]
    BY <2>5, <2>6 DEF CmdTypeOK, Register
  <2> QED BY <1>2, <2>2, <2>7 DEF CmdTypeOK, CpReg, dliVars, ctlVars
<1>3. CASE CpEvent
  <2>1. cpQ \in Seq(CpTasks) /\ cpQ # <<>>
    BY <1>3 DEF CpEvent, CmdTypeOK
  <2>2. Tail(cpQ) \in Seq(CpTasks) /\ Head(cpQ) \in CpTasks
    BY <2>1, TailElements
  <2>3. PICK e : e = Head(cpQ).event
    OBVIOUS
  <2>4. PICK c : c = Head(cpQ).node.cmd
    OBVIOUS
  <2>5. e \in Events /\ c \in Cmds \cup {0}
    BY <1>3, <2>2, <2>3, <2>4, CpTaskIs DEF CpEvent
  <2>6. e.n \in Nat /\ e.of \in Cmds
    BY <2>5, EventIs
  <2>7. PostNextTask(dliQ) \in Seq(DliTasks)
    BY NextPosted DEF CmdTypeOK
  <2>8. CASE c = 0
    <3>2. /\ num' = num \/ num' = e.n
          /\ dliQ' = dliQ \/ dliQ' = PostNextTask(dliQ)
          /\ ended' = ended
          /\ cpQ' = Tail(cpQ)
      BY <1>3, <2>3, <2>4, <2>8 DEF CpEvent, CmdNumSet
    <3> QED BY <1>3, <2>2, <2>6, <2>7, <3>2 DEF CmdTypeOK, CpEvent, dliVars, ctlVars
  <2>9. CASE c \in Cmds
    <3>1. c # 0
      BY <2>9, CmdNumbers
    <3>2. /\ num' = num \/ num' = e.n
          /\ dliQ' = PostNextTask(dliQ)
          /\ cpQ' = Tail(cpQ) \/ cpQ' = Append(Tail(cpQ), CpTask("UnReg", c))
          /\ ended' = Append(ended, <<c, "answered", e.of>>) \/ ended' = Append(ended, <<c, "unheard", e.of>>)
      BY <1>3, <2>3, <2>4, <3>1 DEF CpEvent, CmdNumSet, Ended
    <3>3. Append(Tail(cpQ), CpTask("UnReg", c)) \in Seq(CpTasks)
      BY <2>2, <2>9, MadeTypes, AppendElements
    <3>4. ended' \in Seq(Endings)
      BY <2>6, <2>9, <3>2, EndedType
    <3> QED BY <1>3, <2>2, <2>6, <2>7, <3>2, <3>3, <3>4 DEF CmdTypeOK, CpEvent, dliVars, ctlVars
  <2> QED BY <2>5, <2>8, <2>9
<1>4. CASE CpTimeout
  <2>1. cpQ \in Seq(CpTasks) /\ cpQ # <<>>
    BY <1>4 DEF CpTimeout, CmdTypeOK
  <2>2. Tail(cpQ) \in Seq(CpTasks) /\ Head(cpQ) \in CpTasks
    BY <2>1, TailElements
  <2>3. PICK c : c = Head(cpQ).node.cmd
    OBVIOUS
  <2>4. c \in Cmds
    BY <1>4, <2>2, <2>3, CpTaskIs DEF CpTimeout
  <2>5. PostNextTask(dliQ) \in Seq(DliTasks)
    BY NextPosted DEF CmdTypeOK
  <2>6. /\ num' = num \/ num' = 1
        /\ ended' = Append(ended, <<c, "timeout", c>>) \/ ended' = Append(ended, <<c, "unheard", c>>)
    BY <1>4, <2>3 DEF CpTimeout, CmdNumSet, Ended
  <2>7. ended' \in Seq(Endings)
    BY <2>4, <2>6, EndedType
  <2> QED BY <1>4, <2>2, <2>5, <2>6, <2>7, SMTT(30) DEF CmdTypeOK, CpTimeout, dliVars, ctlVars
<1> QED BY <1>1, <1>2, <1>3, <1>4

\* The commands of the list.
LEMMA ListOfType ==
    ASSUME NEW l \in Seq(Nodes)
    PROVE  /\ ListOf(l) \in Seq(Cmds) /\ Len(ListOf(l)) = Len(l) /\ DOMAIN ListOf(l) = DOMAIN l
           /\ \A i \in DOMAIN l : ListOf(l)[i] = l[i].cmd /\ l[i].cmd \in Cmds
<1>1. \A i \in DOMAIN l : l[i] \in Nodes
  OBVIOUS
<1>2. \A i \in DOMAIN l : l[i].cmd \in Cmds
  BY <1>1 DEF Nodes
<1>3. DOMAIN l = 1 .. Len(l) /\ Len(l) \in Nat
  OBVIOUS
<1> QED BY <1>2, <1>3 DEF ListOf

\* What DliSend does: the command joins the list or is dropped.
LEMMA SendEffect ==
    ASSUME CmdTypeOK, DliSend
    PROVE  LET c == Head(dliQ).cmd
           IN  /\ dliQ # <<>> /\ Head(dliQ) \in DliTasks /\ Head(dliQ).type = "Send" /\ c \in Cmds
               /\ dliQ' = Tail(dliQ) /\ dliQ' \in Seq(DliTasks) /\ rest = <<>> /\ ~subDue
               /\ \/ /\ inited /\ cmdTx' = Append(cmdTx, Node(c)) /\ ended' = ended
                     /\ cmdTx' \in Seq(Nodes)
                  \/ /\ cmdTx' = cmdTx /\ ended' = Append(ended, <<c, "dropped", c>>)
                     /\ ended' \in Seq(Endings)
               /\ rest' = ListOf(cmdTx') \/ rest' = <<>>
               /\ UNCHANGED <<issued, cpQ, num, regs, faults, inited, subDue, ctl, fin>>
<1>1. dliQ \in Seq(DliTasks) /\ dliQ # <<>> /\ Head(dliQ).type = "Send"
  BY DEF DliSend, DliTask, CmdTypeOK
<1>2. Head(dliQ) \in DliTasks /\ Tail(dliQ) \in Seq(DliTasks)
  BY <1>1, TailElements
<1>3. PICK c : c = Head(dliQ).cmd
  OBVIOUS
<1>4. c \in Cmds
  BY <1>1, <1>2, <1>3, DliTaskIs
<1>5. Append(cmdTx, Node(c)) \in Seq(Nodes)
  BY <1>4, MadeTypes, AppendElements DEF CmdTypeOK
<1>6. Append(ended, <<c, "dropped", c>>) \in Seq(Endings)
  BY <1>4, EndedType
<1>7. \/ inited /\ cmdTx' = Append(cmdTx, Node(c)) /\ ended' = ended
      \/ cmdTx' = cmdTx /\ ended' = Append(ended, <<c, "dropped", c>>)
  BY <1>3 DEF DliSend, Ended
<1>8. rest' = ListOf(cmdTx') \/ rest' = <<>>
  BY DEF DliSend
<1> QED BY <1>1, <1>2, <1>3, <1>4, <1>5, <1>6, <1>7, <1>8 DEF DliSend, DliTask, DliIdle, ctlVars

\* What DliEvent does: the event goes on with the command it takes from the list.
LEMMA EventEffect ==
    ASSUME CmdTypeOK, DliEvent
    PROVE  LET e == Head(dliQ)
               i == CmdNodeRemove(e)
               j == StatusMarks(e)
           IN  /\ dliQ # <<>> /\ e \in Events
               /\ dliQ' = Tail(dliQ) /\ dliQ' \in Seq(DliTasks) /\ rest = <<>> /\ ~subDue
               /\ i = 0 \/ i \in DOMAIN cmdTx
               /\ j = 0 \/ j \in DOMAIN cmdTx
               /\ cmdTx' = IF i # 0 THEN RemoveAt(cmdTx, i)
                           ELSE IF j # 0 THEN [cmdTx EXCEPT ![j].isRecvStatusEvt = TRUE] ELSE cmdTx
               /\ cpQ' = Append(cpQ, [type |-> "Event", event |-> e,
                                      node |-> IF i # 0 THEN cmdTx[i] ELSE NoNode])
               /\ [type |-> "Event", event |-> e, node |-> IF i # 0 THEN cmdTx[i] ELSE NoNode] \in CpTasks
               /\ cmdTx' \in Seq(Nodes) /\ cpQ' \in Seq(CpTasks)
               /\ UNCHANGED <<issued, num, regs, ended, faults, inited, rest, subDue, ctl, fin>>
<1>1. dliQ \in Seq(DliTasks) /\ dliQ # <<>> /\ Head(dliQ).type = "Event" /\ cmdTx \in Seq(Nodes)
  BY DEF DliEvent, DliTask, CmdTypeOK
<1>2. Head(dliQ) \in DliTasks /\ Tail(dliQ) \in Seq(DliTasks)
  BY <1>1, TailElements
<1>3. PICK e : e = Head(dliQ)
  OBVIOUS
<1>4. e \in Events
  BY <1>1, <1>2, <1>3, DliTaskIs
<1>5. PICK i : i = CmdNodeRemove(e)
  OBVIOUS
<1>6. PICK j : j = StatusMarks(e)
  OBVIOUS
<1>7. (i = 0 \/ i \in DOMAIN cmdTx) /\ (i # 0 => Op(cmdTx[i].cmd) = e.op)
  BY <1>1, <1>4, <1>5, NodeRemoved
<1>8. j = 0 \/ j \in DOMAIN cmdTx
  BY <1>1, <1>6, NotRecvStatusFound DEF StatusMarks
<1> DEFINE n == IF i # 0 THEN cmdTx[i] ELSE NoNode
           t == [type |-> "Event", event |-> e, node |-> n]
<1>9. n = NoNode \/ (n \in Nodes /\ Op(n.cmd) = e.op)
  BY <1>1, <1>7
<1>10. t \in CpTasks
  <2> HIDE DEF n
  <2> QED BY <1>4, <1>9, CpEventType
<1>11. cmdTx' = IF i # 0 THEN RemoveAt(cmdTx, i)
                ELSE IF j # 0 THEN [cmdTx EXCEPT ![j].isRecvStatusEvt = TRUE] ELSE cmdTx
  BY <1>3, <1>5, <1>6 DEF DliEvent
<1>12. cpQ' = Append(cpQ, t)
  BY <1>3, <1>5 DEF DliEvent
<1>13. cmdTx' \in Seq(Nodes)
  <2>1. CASE i # 0
    <3>1. i \in 1 .. Len(cmdTx)
      BY <1>1, <1>7, <2>1
    <3> QED BY <1>1, <1>11, <2>1, <3>1, RemoveAtProperties
  <2>2. CASE i = 0
    BY <1>1, <1>8, <1>11, <2>2, MarkType
  <2> QED BY <2>1, <2>2
<1>14. cpQ' \in Seq(CpTasks)
  <2> HIDE DEF t
  <2> QED BY <1>10, <1>12, AppendElements DEF CmdTypeOK
<1>15. rest = <<>> /\ ~subDue /\ dliQ' = Tail(dliQ)
  BY DEF DliEvent, DliTask, DliIdle
<1>16. UNCHANGED <<issued, num, regs, ended, faults, inited, rest, subDue, ctl, fin>>
  BY DEF DliEvent, ctlVars
<1> QED BY <1>1, <1>2, <1>3, <1>4, <1>5, <1>6, <1>7, <1>8, <1>10, <1>11, <1>12, <1>13, <1>14, <1>15, <1>16

\* What CmdTimer does, at the command at i.
LEMMA TimerEffect ==
    ASSUME CmdTypeOK, CmdTimer
    PROVE  \E i \in DOMAIN cmdTx :
             /\ cmdTx[i].isSent /\ i \in 1 .. Len(cmdTx) /\ cmdTx[i] \in Nodes
             /\ cmdTx' = RemoveAt(cmdTx, i) /\ cmdTx' \in Seq(Nodes)
             /\ cpQ' = Append(cpQ, [type |-> "Timeout", node |-> cmdTx[i]])
             /\ [type |-> "Timeout", node |-> cmdTx[i]] \in CpTasks /\ cpQ' \in Seq(CpTasks)
             /\ dliQ' = PostNextTask(dliQ) /\ dliQ' \in Seq(DliTasks)
             /\ faults' \in Faults /\ Grow(faults, faults') /\ (faults.overtaken => faults'.overtaken)
             /\ ~faults'.overtaken => ~OnTheWay(cmdTx[i].cmd)
             /\ rest = <<>> /\ ~subDue
             /\ UNCHANGED <<issued, num, regs, ended, inited, rest, subDue, ctl, fin>>
<1>1. PICK i \in DOMAIN cmdTx :
        /\ cmdTx[i].isSent
        /\ OnTheWay(cmdTx[i].cmd) => faults.left.late > 0
        /\ faults' = IF OnTheWay(cmdTx[i].cmd)
                     THEN [faults EXCEPT !.left.late = @ - 1, !.overtaken = TRUE] ELSE faults
        /\ cmdTx' = TimedOutRemoved(i)
        /\ cpQ' = Append(cpQ, [type |-> "Timeout", node |-> cmdTx[i]])
  BY DEF CmdTimer
<1>2. cmdTx \in Seq(Nodes) /\ i \in 1 .. Len(cmdTx) /\ cmdTx[i] \in Nodes
  BY DEF CmdTypeOK
<1>3. cmdTx' = RemoveAt(cmdTx, i) /\ cmdTx' \in Seq(Nodes)
  BY <1>1, <1>2, RemoveAtProperties DEF TimedOutRemoved
<1>4. PICK t : t = [type |-> "Timeout", node |-> cmdTx[i]]
  OBVIOUS
<1>5. t \in CpTasks
  BY <1>2, <1>4, MadeTypes
<1>6. cpQ' = Append(cpQ, t) /\ cpQ' \in Seq(CpTasks)
  BY <1>1, <1>4, <1>5, AppendElements DEF CmdTypeOK
<1>7. dliQ' = PostNextTask(dliQ) /\ dliQ' \in Seq(DliTasks)
  BY NextPosted DEF CmdTypeOK, CmdTimer
<1>8. /\ faults' \in Faults /\ Grow(faults, faults')
      /\ ~faults'.overtaken => ~OnTheWay(cmdTx[i].cmd)
  <2>1. CASE OnTheWay(cmdTx[i].cmd)
    <3>1. faults \in Faults
      BY DEF CmdTypeOK
    <3>2. faults' \in Faults /\ Grow(faults, faults') /\ faults'.overtaken
      BY <1>1, <2>1, <3>1, FaultsLate
    <3> QED BY <2>1, <3>2
  <2>2. CASE ~OnTheWay(cmdTx[i].cmd)
    BY <1>1, <2>2 DEF CmdTypeOK, Grow
  <2> QED BY <2>1, <2>2
<1>10. faults.overtaken => faults'.overtaken
  BY <1>8 DEF Grow
<1>9. rest = <<>> /\ ~subDue /\ UNCHANGED <<issued, num, regs, ended, inited, rest, subDue, ctl, fin>>
  BY DEF CmdTimer, TimersRun, DliIdle, ctlVars
<1> QED BY <1>1, <1>2, <1>3, <1>4, <1>5, <1>6, <1>7, <1>8, <1>9, <1>10

\* What Visit does at the command it has come to.
LEMMA VisitEffect ==
    ASSUME CmdTypeOK, Placed, ListInOrder, Visit
    PROVE  LET i == Len(cmdTx) - Len(rest) + 1
           IN  /\ rest # <<>> /\ ~subDue /\ i \in DOMAIN cmdTx /\ Head(rest) = cmdTx[i].cmd
               /\ rest' \in Seq(Cmds) /\ (rest' = <<>> \/ rest' = Tail(rest))
               /\ faults' \in Faults /\ Grow(faults, faults') /\ faults'.overtaken = faults.overtaken
               /\ \/ /\ rest' = <<>> \/ cmdTx[i].isSent
                     /\ UNCHANGED <<cmdTx, subDue, ctl>>
                  \/ /\ num > 0 /\ ~cmdTx[i].isSent /\ rest' = Tail(rest)
                     /\ cmdTx' = [cmdTx EXCEPT ![i].isSent = TRUE] /\ cmdTx' \in Seq(Nodes)
                     /\ subDue' = TRUE /\ ctl' = Append(ctl, cmdTx[i].cmd) /\ ctl' \in Seq(Cmds)
                     /\ ~faults'.crossed => ~ReportOnTheWay
               /\ UNCHANGED <<issued, dliQ, cpQ, num, regs, ended, inited, fin>>
<1>1. rest # <<>> /\ ~subDue /\ UNCHANGED <<issued, dliQ, cpQ, num, regs, ended, inited, fin>>
  BY DEF Visit
<1>2. PICK i : i = Len(cmdTx) - Len(rest) + 1
  OBVIOUS
<1>3. i \in DOMAIN cmdTx /\ Head(rest) = cmdTx[i].cmd /\ Position(Head(rest)) = i
  BY <1>1, <1>2, RestHead
<1>4. Tail(rest) \in Seq(Cmds) /\ <<>> \in Seq(Cmds)
  BY <1>1, TailElements DEF CmdTypeOK
<1>5. [cmdTx EXCEPT ![i].isSent = TRUE] \in Seq(Nodes)
  BY <1>3, MarkType DEF CmdTypeOK
<1>6. cmdTx[i] \in Nodes
  BY <1>3 DEF CmdTypeOK
<1>7. cmdTx[i].cmd \in Cmds
  BY <1>6 DEF Nodes
<1>8. Append(ctl, cmdTx[i].cmd) \in Seq(Cmds)
  BY <1>7, AppendElements DEF CmdTypeOK
<1>9. \/ rest' = <<>> /\ UNCHANGED <<cmdTx, subDue, ctl, faults>>
      \/ cmdTx[i].isSent /\ rest' = Tail(rest) /\ UNCHANGED <<cmdTx, subDue, ctl, faults>>
      \/ /\ num > 0 /\ ~cmdTx[i].isSent /\ rest' = Tail(rest)
         /\ cmdTx' = [cmdTx EXCEPT ![i].isSent = TRUE]
         /\ subDue' = TRUE /\ ctl' = Append(ctl, cmdTx[i].cmd)
         /\ faults' = [faults EXCEPT !.stopped = FALSE, !.crossed = @ \/ ReportOnTheWay]
      \/ /\ faults.left.refused > 0 /\ rest' = <<>>
         /\ faults' = [faults EXCEPT !.left.refused = @ - 1, !.stopped = TRUE]
         /\ UNCHANGED <<cmdTx, subDue, ctl>>
  BY <1>3 DEF Visit
<1>f. faults \in Faults /\ ReportOnTheWay \in BOOLEAN
  BY DEF CmdTypeOK, ReportOnTheWay
<1>10. CASE (rest' = <<>> \/ (cmdTx[i].isSent /\ rest' = Tail(rest))) /\ UNCHANGED <<cmdTx, subDue, ctl, faults>>
  <2>2. faults' \in Faults /\ Grow(faults, faults') /\ faults'.overtaken = faults.overtaken
    BY <1>f, <1>10 DEF Grow
  <2> QED BY <1>1, <1>2, <1>3, <1>4, <1>10, <2>2
<1>11. CASE /\ num > 0 /\ ~cmdTx[i].isSent /\ rest' = Tail(rest)
            /\ cmdTx' = [cmdTx EXCEPT ![i].isSent = TRUE]
            /\ subDue' = TRUE /\ ctl' = Append(ctl, cmdTx[i].cmd)
            /\ faults' = [faults EXCEPT !.stopped = FALSE, !.crossed = @ \/ ReportOnTheWay]
  <2>2. /\ faults' \in Faults /\ Grow(faults, faults') /\ faults'.overtaken = faults.overtaken
        /\ ~faults'.crossed => ~ReportOnTheWay
    <3>1. PICK b \in BOOLEAN : b = ReportOnTheWay
      BY <1>f
    <3>2. faults' = [faults EXCEPT !.stopped = FALSE, !.crossed = @ \/ b]
      BY <1>11, <3>1
    <3>3. PICK g : g = faults'
      OBVIOUS
    <3>4. g \in Faults /\ Grow(faults, g) /\ g.overtaken = faults.overtaken /\ (~g.crossed => ~b)
      BY <1>f, <3>2, <3>3 DEF Faults, Grow
    <3> QED BY <3>1, <3>3, <3>4
  <2> QED BY <1>1, <1>2, <1>3, <1>4, <1>5, <1>8, <1>11, <2>2
<1>12. CASE /\ faults.left.refused > 0 /\ rest' = <<>>
            /\ faults' = [faults EXCEPT !.left.refused = @ - 1, !.stopped = TRUE]
            /\ UNCHANGED <<cmdTx, subDue, ctl>>
  <2>2. faults' \in Faults /\ Grow(faults, faults') /\ faults'.overtaken = faults.overtaken
    BY <1>f, <1>12, FaultsRefused
  <2> QED BY <1>1, <1>2, <1>3, <1>4, <1>12, <2>2
<1> QED BY <1>9, <1>10, <1>11, <1>12

\* What LayerDisable does.
LEMMA DisableEffect ==
    ASSUME CmdTypeOK, LayerDisable
    PROVE  LET d == [i \in DOMAIN cmdTx |-> <<cmdTx[i].cmd, "dropped", cmdTx[i].cmd>>]
           IN  /\ d \in Seq(Endings) /\ Len(d) = Len(cmdTx) /\ DOMAIN d = DOMAIN cmdTx
               /\ ended' = ended \o d /\ ended' \in Seq(Endings)
               /\ inited' = FALSE /\ num' = 1 /\ cmdTx' = <<>> /\ ctl' = <<>> /\ fin' = <<>>
               /\ rest = <<>> /\ ~subDue
               /\ UNCHANGED <<issued, dliQ, cpQ, regs, faults, rest, subDue>>
<1> DEFINE d == [i \in DOMAIN cmdTx |-> <<cmdTx[i].cmd, "dropped", cmdTx[i].cmd>>]
<1>1. cmdTx \in Seq(Nodes) /\ DOMAIN cmdTx = 1 .. Len(cmdTx) /\ Len(cmdTx) \in Nat
  BY DEF CmdTypeOK
<1>2. \A i \in DOMAIN cmdTx : cmdTx[i].cmd \in Cmds
  BY <1>1, ListOfType
<1>3. \A i \in DOMAIN cmdTx : <<cmdTx[i].cmd, "dropped", cmdTx[i].cmd>> \in Endings
  BY <1>2 DEF Endings
<1>4. d \in Seq(Endings) /\ Len(d) = Len(cmdTx) /\ DOMAIN d = DOMAIN cmdTx
  BY <1>1, <1>3
<1>5. ended' = ended \o d
  BY DEF LayerDisable
<1> HIDE DEF d
<1>6. ended \o d \in Seq(Endings)
  BY <1>4, ConcatProperties DEF CmdTypeOK
<1>7. /\ inited' = FALSE /\ num' = 1 /\ cmdTx' = <<>> /\ ctl' = <<>> /\ fin' = <<>>
      /\ rest = <<>> /\ ~subDue
      /\ UNCHANGED <<issued, dliQ, cpQ, regs, faults, rest, subDue>>
  BY DEF LayerDisable, DliIdle
<1> QED BY <1>4, <1>5, <1>6, <1>7 DEF d

\* What the controller does when it answers.
LEMMA AnswerEffect ==
    ASSUME CmdTypeOK, CtlAnswer
    PROVE  \E e \in Events :
             /\ ctl # <<>> /\ e.of = Head(ctl) /\ e.kind # "Final" /\ e.n \in Reports
             /\ dliQ' = dliQ \/ dliQ' = Append(dliQ, e)
             /\ ~faults'.lossy => dliQ' = Append(dliQ, e)
             /\ ~faults'.several => e.n = 1
             /\ dliQ' \in Seq(DliTasks)
             /\ faults' \in Faults /\ Grow(faults, faults') /\ faults'.overtaken = faults.overtaken
             /\ ctl' = Tail(ctl) /\ ctl' \in Seq(Cmds)
             /\ fin' \in Seq({c \in Cmds : Op(c) \notin Complete})
             /\ UNCHANGED <<issued, cpQ, num, regs, ended, inited, cmdTx, rest, subDue>>
<1>1. ctl # <<>> /\ ctl \in Seq(Cmds)
  BY DEF CtlAnswer, CmdTypeOK
<1>2. Tail(ctl) \in Seq(Cmds) /\ Head(ctl) \in Cmds /\ Len(ctl) \in Nat
  BY <1>1, TailElements
<1>3. PICK c : c = Head(ctl)
  OBVIOUS
<1>4. PICK k : k = IF Op(c) \in Complete THEN "Complete" ELSE "Status"
  OBVIOUS
<1>5. faults \in Faults /\ Cap \in Nat
  <2>1. faults \in Faults
    BY DEF CmdTypeOK
  <2> QED BY <2>1 DEF Cap, Faults, Surroundings
<1>6. \A n \in Reports : n \in Nat
  <2>1. Free \in Nat
    BY <1>2, <1>5 DEF Free
  <2> QED BY <2>1 DEF Reports
<1>7. k \in Kinds /\ k # "Final" /\ (k = "Complete" <=> Op(c) \in Complete)
  BY <1>4 DEF Kinds
<1>8. PICK ok \in BOOLEAN, n \in Reports :
        /\ Emit(Event(k, c, ok, n), [faults EXCEPT !.several = @ \/ n # 1])
        /\ fin' = IF ok /\ Op(c) \notin Complete THEN Append(fin, c) ELSE fin
  BY <1>3, <1>4 DEF CtlAnswer
<1>9. PICK e : e = Event(k, c, ok, n)
  OBVIOUS
<1>10. e \in Events /\ e.of = c /\ e.kind = k /\ e.n = n
  BY <1>2, <1>3, <1>6, <1>7, <1>8, <1>9, EventType
<1>f. PICK f : f = [faults EXCEPT !.several = @ \/ n # 1]
  OBVIOUS
<1>g. f \in Faults /\ Grow(faults, f) /\ f.overtaken = faults.overtaken /\ (~f.several => n = 1)
  <2>1. (n # 1) \in BOOLEAN
    OBVIOUS
  <2> QED BY <1>5, <1>f, <2>1, FaultsReport
<1>h. /\ dliQ' \in Seq(DliTasks) /\ faults' \in Faults /\ Grow(f, faults') /\ faults'.overtaken = f.overtaken
      /\ dliQ' = dliQ \/ dliQ' = Append(dliQ, e)
      /\ ~faults'.lossy => dliQ' = Append(dliQ, e)
  BY <1>8, <1>9, <1>10, <1>f, <1>g, Emitted
<1>11. /\ dliQ' \in Seq(DliTasks) /\ faults' \in Faults /\ Grow(faults, faults')
       /\ faults'.overtaken = faults.overtaken
       /\ dliQ' = dliQ \/ dliQ' = Append(dliQ, e)
       /\ ~faults'.lossy => dliQ' = Append(dliQ, e)
       /\ ~faults'.several => e.n = 1
  <2>1. Grow(faults, faults')
    BY <1>g, <1>h, GrowOn
  <2>2. ~faults'.several => e.n = 1
    BY <1>10, <1>g, <1>h DEF Grow
  <2> QED BY <1>g, <1>h, <2>1, <2>2
<1>12. fin' \in Seq({d \in Cmds : Op(d) \notin Complete})
  <2> DEFINE S == {d \in Cmds : Op(d) \notin Complete}
  <2>1. fin \in Seq(S)
    BY DEF CmdTypeOK
  <2>2. CASE Op(c) \notin Complete
    <3>1. c \in S
      BY <1>2, <1>3, <2>2
    <3> HIDE DEF S
    <3>2. Append(fin, c) \in Seq(S)
      BY <2>1, <3>1, AppendElements
    <3>3. fin' \in Seq(S)
      BY <1>8, <2>1, <3>2
    <3> QED BY <3>3 DEF S
  <2>3. CASE Op(c) \in Complete
    BY <1>8, <2>1, <2>3
  <2> QED BY <2>2, <2>3
<1>13. ctl' = Tail(ctl) /\ UNCHANGED <<issued, cpQ, num, regs, ended, inited, cmdTx, rest, subDue>>
  BY DEF CtlAnswer, dliVars
<1> QED BY <1>1, <1>2, <1>3, <1>7, <1>8, <1>10, <1>11, <1>12, <1>13

\* What the controller does when it sends a final event.
LEMMA FinalEffect ==
    ASSUME CmdTypeOK, CtlFinal
    PROVE  \E e \in Events :
             /\ e.kind = "Final"
             /\ dliQ' = dliQ \/ dliQ' = Append(dliQ, e)
             /\ dliQ' \in Seq(DliTasks)
             /\ faults' \in Faults /\ Grow(faults, faults') /\ faults'.overtaken = faults.overtaken
             /\ fin' \in Seq({c \in Cmds : Op(c) \notin Complete})
             /\ UNCHANGED <<issued, cpQ, num, regs, ended, inited, cmdTx, rest, subDue, ctl>>
<1> DEFINE S == {c \in Cmds : Op(c) \notin Complete}
<1>1. fin # <<>> /\ fin \in Seq(S)
  BY DEF CtlFinal, CmdTypeOK
<1> HIDE DEF S
<1>2. Tail(fin) \in Seq(S) /\ Head(fin) \in S
  BY <1>1, TailElements
<1>3. PICK c : c = Head(fin)
  OBVIOUS
<1>4. c \in Cmds /\ Op(c) \notin Complete
  BY <1>2, <1>3 DEF S
<1>5. PICK e : e = Event("Final", c, TRUE, 0)
  OBVIOUS
<1>6. e \in Events /\ e.kind = "Final"
  <2>1. "Final" \in Kinds /\ "Final" # "Complete" /\ 0 \in Nat
    BY DEF Kinds
  <2> QED BY <1>4, <1>5, <2>1, CmdNumbers DEF Event, Events
<1>7. /\ dliQ' \in Seq(DliTasks) /\ faults' \in Faults
      /\ Grow(faults, faults') /\ faults'.overtaken = faults.overtaken
      /\ dliQ' = dliQ \/ dliQ' = Append(dliQ, e)
  <2>1. faults \in Faults
    BY DEF CmdTypeOK
  <2> QED BY <1>3, <1>5, <1>6, <2>1, Emitted DEF CtlFinal
<1>8. fin' = Tail(fin) /\ UNCHANGED <<issued, cpQ, num, regs, ended, inited, cmdTx, rest, subDue, ctl>>
  BY DEF CtlFinal, dliVars
<1> QED BY <1>2, <1>6, <1>7, <1>8 DEF S

\* Steps of the DLI thread and of the controller keep the types.
LEMMA TypeDli ==
    ASSUME CmdTypeOK, Placed, ListInOrder,
           \/ DliSend \/ DliNext \/ Visit \/ SubOne \/ DliEvent \/ CmdTimer \/ LayerDisable
           \/ CtlAnswer \/ CtlFinal
    PROVE  CmdTypeOK'
<1>1. CASE DliSend
  <2>1. rest' \in Seq(Cmds)
    <3>1. cmdTx' \in Seq(Nodes)
      BY <1>1, SendEffect DEF CmdTypeOK
    <3>2. ListOf(cmdTx') \in Seq(Cmds)
      BY <3>1, ListOfType
    <3>3. rest' = ListOf(cmdTx') \/ rest' = <<>>
      BY <1>1, SendEffect
    <3>4. <<>> \in Seq(Cmds)
      OBVIOUS
    <3> QED BY <3>2, <3>3, <3>4
  <2> QED BY <1>1, <2>1, SendEffect DEF CmdTypeOK
<1>2. CASE DliNext
  <2>1. dliQ \in Seq(DliTasks) /\ dliQ # <<>>
    BY <1>2 DEF DliNext, DliTask, CmdTypeOK
  <2>2. Tail(dliQ) \in Seq(DliTasks)
    BY <2>1, TailElements
  <2>3. ListOf(cmdTx) \in Seq(Cmds)
    BY ListOfType DEF CmdTypeOK
  <2> QED BY <1>2, <2>2, <2>3 DEF DliNext, CmdTypeOK, ctlVars
<1>3. CASE Visit
  BY <1>3, VisitEffect DEF CmdTypeOK
<1>4. CASE SubOne
  <2>1. num' = (num + 65535) % 65536 /\ num \in Nat
    BY <1>4 DEF SubOne, CmdTypeOK
  <2>2. num' \in Nat
    BY <2>1
  <2>3. subDue' = FALSE /\ UNCHANGED <<issued, dliQ, cpQ, regs, ended, faults, inited, cmdTx, rest, ctl, fin>>
    BY <1>4 DEF SubOne, ctlVars
  <2> QED BY <2>2, <2>3 DEF CmdTypeOK
<1>5. CASE DliEvent
  BY <1>5, EventEffect DEF CmdTypeOK
<1>6. CASE CmdTimer
  BY <1>6, TimerEffect DEF CmdTypeOK
<1>7. CASE LayerDisable
  <2>1. <<>> \in Seq(Nodes) /\ <<>> \in Seq(Cmds) /\ <<>> \in Seq({c \in Cmds : Op(c) \notin Complete})
    OBVIOUS
  <2>2. /\ ended' \in Seq(Endings)
        /\ inited' = FALSE /\ num' = 1 /\ cmdTx' = <<>> /\ ctl' = <<>> /\ fin' = <<>>
        /\ UNCHANGED <<issued, dliQ, cpQ, regs, faults, rest, subDue>>
    BY <1>7, DisableEffect
  <2> QED BY <2>1, <2>2 DEF CmdTypeOK
<1>8. CASE CtlAnswer
  BY <1>8, AnswerEffect DEF CmdTypeOK
<1>9. CASE CtlFinal
  BY <1>9, FinalEffect DEF CmdTypeOK
<1> QED BY <1>1, <1>2, <1>3, <1>4, <1>5, <1>6, <1>7, <1>8, <1>9

-----------------------------------------------------------------------------
(* Places. *)

\* A list without its element at p.
LEMMA OnceRemoved ==
    ASSUME NEW s, NEW t, NEW n \in Nat, NEW p \in 1 .. n, DOMAIN s = 1 .. n, DOMAIN t = 1 .. n - 1,
           \A i \in 1 .. n - 1 : t[i] = IF i < p THEN s[i] ELSE s[i + 1], Once(s)
    PROVE  Once(t) /\ Held(t) \subseteq Held(s) /\ s[p] \notin Held(t)
<1> DEFINE at(i) == IF i < p THEN i ELSE i + 1
<1>1. \A i \in DOMAIN t : at(i) \in DOMAIN s /\ at(i) # p /\ t[i] = s[at(i)]
  OBVIOUS
<1>2. \A i, j \in DOMAIN t : at(i) = at(j) => i = j
  OBVIOUS
<1>3. p \in DOMAIN s
  OBVIOUS
<1> HIDE DEF at
<1> QED BY <1>1, <1>2, <1>3 DEF Once, Held

\* A list with one more element.
LEMMA OnceAdded ==
    ASSUME NEW s, NEW t, NEW n \in Nat, NEW k, DOMAIN s = 1 .. n, DOMAIN t = 1 .. n + 1,
           \A i \in 1 .. n + 1 : t[i] = IF i \in 1 .. n THEN s[i] ELSE k, Once(s), k \notin Held(s)
    PROVE  Once(t) /\ Held(t) \subseteq Held(s) \cup ({k} \ {0})
<1>1. \A i \in DOMAIN t : (i \in DOMAIN s /\ t[i] = s[i]) \/ (i = n + 1 /\ t[i] = k)
  OBVIOUS
<1> QED BY <1>1 DEF Once, Held

\* The commands in the tasks of the DLI thread.
LEMMA SendKeysStep ==
    ASSUME NEW q \in Seq(DliTasks), Once(SendKeys(q))
    PROVE  /\ q # <<>> => /\ Once(SendKeys(Tail(q))) /\ Held(SendKeys(Tail(q))) \subseteq Held(SendKeys(q))
                          /\ Head(q).type = "Send" /\ Head(q).cmd \in Cmds =>
                               /\ Head(q).cmd \in Held(SendKeys(q))
                               /\ Head(q).cmd \notin Held(SendKeys(Tail(q)))
           /\ \A t \in DliTasks :
                /\ t.type # "Send" => /\ Once(SendKeys(Append(q, t)))
                                      /\ Held(SendKeys(Append(q, t))) \subseteq Held(SendKeys(q))
                /\ t.type = "Send" /\ t.cmd \notin Held(SendKeys(q)) =>
                     /\ Once(SendKeys(Append(q, t)))
                     /\ Held(SendKeys(Append(q, t))) \subseteq Held(SendKeys(q)) \cup {t.cmd}
<1>0. Len(q) \in Nat /\ DOMAIN q = 1 .. Len(q)
  OBVIOUS
<1> DEFINE s == SendKeys(q)
<1>s. DOMAIN s = 1 .. Len(q) /\ \A i \in 1 .. Len(q) : s[i] = IF q[i].type = "Send" THEN q[i].cmd ELSE 0
  BY <1>0 DEF SendKeys
<1>1. ASSUME q # <<>>
      PROVE  /\ Once(SendKeys(Tail(q))) /\ Held(SendKeys(Tail(q))) \subseteq Held(s)
             /\ Head(q).type = "Send" /\ Head(q).cmd \in Cmds =>
                  Head(q).cmd \in Held(s) /\ Head(q).cmd \notin Held(SendKeys(Tail(q)))
  <2> DEFINE u == SendKeys(Tail(q))
  <2>1. /\ Len(Tail(q)) = Len(q) - 1 /\ Len(q) \in Nat \ {0} /\ Tail(q) \in Seq(DliTasks)
        /\ \A i \in 1 .. Len(q) - 1 : Tail(q)[i] = q[i + 1]
        /\ Head(q) = q[1]
    BY <1>1, TailElements
  <2>2. DOMAIN Tail(q) = 1 .. Len(q) - 1
    BY <2>1
  <2>3. DOMAIN u = 1 .. Len(q) - 1 /\ \A i \in 1 .. Len(q) - 1 : u[i] = s[i + 1]
    BY <2>1, <2>2, <1>s DEF SendKeys
  <2> HIDE DEF s, u
  <2>5. 1 \in 1 .. Len(q) /\ \A i \in 1 .. Len(q) - 1 : ~ (i < 1)
    BY <2>1
  <2>6. Once(s)
    BY DEF s
  <2>4. Once(u) /\ Held(u) \subseteq Held(s) /\ s[1] \notin Held(u)
    BY <1>0, <1>s, <2>3, <2>5, <2>6, OnceRemoved, ZenonT(60)
  <2>7. Head(q).type = "Send" => s[1] = Head(q).cmd
    BY <1>s, <2>1, <2>5
  <2>8. s[1] # 0 => s[1] \in Held(s)
    BY <1>s, <2>5 DEF Held
  <2> QED BY <2>4, <2>7, <2>8, CmdNumbers DEF s, u
<1>2. ASSUME NEW t \in DliTasks, NEW k, k = IF t.type = "Send" THEN t.cmd ELSE 0, k \notin Held(s)
      PROVE  Once(SendKeys(Append(q, t))) /\ Held(SendKeys(Append(q, t))) \subseteq Held(s) \cup ({k} \ {0})
  <2> DEFINE u == SendKeys(Append(q, t))
  <2>1. /\ Append(q, t) \in Seq(DliTasks) /\ Len(Append(q, t)) = Len(q) + 1
        /\ \A i \in 1 .. Len(q) + 1 : Append(q, t)[i] = IF i \in 1 .. Len(q) THEN q[i] ELSE t
    BY AppendElements
  <2>2. DOMAIN Append(q, t) = 1 .. Len(q) + 1
    BY <1>0, <2>1
  <2>3. DOMAIN u = 1 .. Len(q) + 1 /\ \A i \in 1 .. Len(q) + 1 : u[i] = IF i \in 1 .. Len(q) THEN s[i] ELSE k
    BY <1>2, <2>1, <2>2, <1>s DEF SendKeys
  <2>6. Once(s)
    OBVIOUS
  <2> HIDE DEF s, u
  <2>4. Once(u) /\ Held(u) \subseteq Held(s) \cup ({k} \ {0})
    BY <1>0, <1>2, <1>s, <2>3, <2>6, OnceAdded, ZenonT(60)
  <2> QED BY <2>4 DEF u
<1>3. 0 \notin Held(s)
  BY DEF Held
<1>4. ASSUME NEW t \in DliTasks, t.type # "Send"
      PROVE  Once(SendKeys(Append(q, t))) /\ Held(SendKeys(Append(q, t))) \subseteq Held(s)
  BY <1>2, <1>3, <1>4
<1>5. ASSUME NEW t \in DliTasks, t.type = "Send", t.cmd \notin Held(s)
      PROVE  Once(SendKeys(Append(q, t))) /\ Held(SendKeys(Append(q, t))) \subseteq Held(s) \cup {t.cmd}
  BY <1>2, <1>5
<1> QED BY <1>1, <1>4, <1>5

\* The commands on their way to the CP thread.
LEMMA CpKeysStep ==
    ASSUME NEW q \in Seq(CpTasks), Once(CpKeys(q))
    PROVE  /\ q # <<>> => /\ Once(CpKeys(Tail(q))) /\ Held(CpKeys(Tail(q))) \subseteq Held(CpKeys(q))
                          /\ Head(q).type \in {"Event", "Timeout"} /\ Head(q).node.cmd # 0 =>
                               /\ Head(q).node.cmd \in Held(CpKeys(q))
                               /\ Head(q).node.cmd \notin Held(CpKeys(Tail(q)))
           /\ \A t \in CpTasks :
                /\ t.type \notin {"Event", "Timeout"} \/ t.node.cmd = 0 =>
                     /\ Once(CpKeys(Append(q, t)))
                     /\ Held(CpKeys(Append(q, t))) \subseteq Held(CpKeys(q))
                /\ t.type \in {"Event", "Timeout"} /\ t.node.cmd \notin Held(CpKeys(q)) =>
                     /\ Once(CpKeys(Append(q, t)))
                     /\ Held(CpKeys(Append(q, t))) \subseteq Held(CpKeys(q)) \cup {t.node.cmd}
<1>0. Len(q) \in Nat /\ DOMAIN q = 1 .. Len(q)
  OBVIOUS
<1> DEFINE key(t) == IF t.type \in {"Event", "Timeout"} THEN t.node.cmd ELSE 0
           s == CpKeys(q)
<1>s. DOMAIN s = 1 .. Len(q) /\ \A i \in 1 .. Len(q) : s[i] = key(q[i])
  BY <1>0 DEF CpKeys
<1>1. ASSUME q # <<>>
      PROVE  /\ Once(CpKeys(Tail(q))) /\ Held(CpKeys(Tail(q))) \subseteq Held(s)
             /\ key(Head(q)) # 0 =>
                  key(Head(q)) \in Held(s) /\ key(Head(q)) \notin Held(CpKeys(Tail(q)))
  <2> DEFINE u == CpKeys(Tail(q))
  <2>1. /\ Len(Tail(q)) = Len(q) - 1 /\ Len(q) \in Nat \ {0} /\ Tail(q) \in Seq(CpTasks)
        /\ \A i \in 1 .. Len(q) - 1 : Tail(q)[i] = q[i + 1]
        /\ Head(q) = q[1]
    BY <1>1, TailElements
  <2>2. DOMAIN Tail(q) = 1 .. Len(q) - 1
    BY <2>1
  <2>3. DOMAIN u = 1 .. Len(q) - 1 /\ \A i \in 1 .. Len(q) - 1 : u[i] = key(Tail(q)[i])
    BY <2>2 DEF CpKeys
  <2> HIDE DEF key, s, u
  <2>9. \A i \in 1 .. Len(q) - 1 : u[i] = s[i + 1]
    BY <2>1, <2>3, <1>s
  <2>5. 1 \in 1 .. Len(q) /\ \A i \in 1 .. Len(q) - 1 : ~ (i < 1)
    BY <2>1
  <2>6. Once(s)
    BY DEF s
  <2>4. Once(u) /\ Held(u) \subseteq Held(s) /\ s[1] \notin Held(u)
    BY <1>0, <1>s, <2>3, <2>5, <2>6, <2>9, OnceRemoved
  <2>7. s[1] = key(Head(q))
    BY <1>s, <2>1, <2>5
  <2>8. s[1] # 0 => s[1] \in Held(s)
    BY <1>s, <2>5 DEF Held
  <2> QED BY <2>4, <2>7, <2>8 DEF u
<1>2. ASSUME NEW t \in CpTasks, key(t) \notin Held(s)
      PROVE  Once(CpKeys(Append(q, t))) /\ Held(CpKeys(Append(q, t))) \subseteq Held(s) \cup ({key(t)} \ {0})
  <2> DEFINE u == CpKeys(Append(q, t))
  <2>1. /\ Append(q, t) \in Seq(CpTasks) /\ Len(Append(q, t)) = Len(q) + 1
        /\ \A i \in 1 .. Len(q) + 1 : Append(q, t)[i] = IF i \in 1 .. Len(q) THEN q[i] ELSE t
    BY AppendElements
  <2>2. DOMAIN Append(q, t) = 1 .. Len(q) + 1
    BY <1>0, <2>1
  <2>3. DOMAIN u = 1 .. Len(q) + 1 /\ \A i \in 1 .. Len(q) + 1 : u[i] = key(Append(q, t)[i])
    BY <2>2 DEF CpKeys
  <2>6. Once(s)
    OBVIOUS
  <2> HIDE DEF key, s, u
  <2>9. \A i \in 1 .. Len(q) + 1 : u[i] = IF i \in 1 .. Len(q) THEN s[i] ELSE key(t)
    BY <2>1, <2>3, <1>s
  <2>4. Once(u) /\ Held(u) \subseteq Held(s) \cup ({key(t)} \ {0})
    BY <1>0, <1>2, <1>s, <2>3, <2>6, <2>9, OnceAdded
  <2> QED BY <2>4 DEF u
<1>3. 0 \notin Held(s)
  BY DEF Held
<1> HIDE DEF s
<1>4. ASSUME NEW t \in CpTasks, t.type \notin {"Event", "Timeout"} \/ t.node.cmd = 0
      PROVE  Once(CpKeys(Append(q, t))) /\ Held(CpKeys(Append(q, t))) \subseteq Held(s)
  <2>1. key(t) = 0
    BY <1>4
  <2> HIDE DEF key
  <2> QED BY <1>2, <1>3, <2>1
<1>5. ASSUME NEW t \in CpTasks, t.type \in {"Event", "Timeout"}, t.node.cmd \notin Held(s)
      PROVE  Once(CpKeys(Append(q, t))) /\ Held(CpKeys(Append(q, t))) \subseteq Held(s) \cup {t.node.cmd}
  <2>1. key(t) = t.node.cmd
    BY <1>5
  <2> HIDE DEF key
  <2> QED BY <1>2, <1>5, <2>1
<1> QED BY <1>1, <1>4, <1>5 DEF s

\* The commands of the list.
LEMMA ListKeysStep ==
    ASSUME NEW l \in Seq(Nodes), Once(ListOf(l))
    PROVE  /\ \A i \in 1 .. Len(l) :
                /\ Once(ListOf(RemoveAt(l, i))) /\ Held(ListOf(RemoveAt(l, i))) \subseteq Held(ListOf(l))
                /\ l[i].cmd \in Held(ListOf(l)) /\ l[i].cmd \notin Held(ListOf(RemoveAt(l, i)))
           /\ \A n \in Nodes : n.cmd \notin Held(ListOf(l)) =>
                /\ Once(ListOf(Append(l, n)))
                /\ Held(ListOf(Append(l, n))) \subseteq Held(ListOf(l)) \cup {n.cmd}
<1>0. Len(l) \in Nat /\ DOMAIN l = 1 .. Len(l)
  OBVIOUS
<1> DEFINE s == ListOf(l)
<1>s. DOMAIN s = 1 .. Len(l) /\ \A i \in 1 .. Len(l) : s[i] = l[i].cmd /\ s[i] # 0
  BY <1>0, ListOfType, CmdNumbers
<1>6. Once(s)
  OBVIOUS
<1>1. ASSUME NEW i \in 1 .. Len(l)
      PROVE  /\ Once(ListOf(RemoveAt(l, i))) /\ Held(ListOf(RemoveAt(l, i))) \subseteq Held(s)
             /\ l[i].cmd \in Held(s) /\ l[i].cmd \notin Held(ListOf(RemoveAt(l, i)))
  <2> DEFINE u == ListOf(RemoveAt(l, i))
  <2>1. /\ RemoveAt(l, i) \in Seq(Nodes) /\ Len(RemoveAt(l, i)) = Len(l) - 1
        /\ \A j \in 1 .. Len(l) - 1 : RemoveAt(l, i)[j] = IF j < i THEN l[j] ELSE l[j + 1]
    BY RemoveAtProperties
  <2>2. DOMAIN RemoveAt(l, i) = 1 .. Len(l) - 1
    BY <1>0, <2>1
  <2>3. DOMAIN u = 1 .. Len(l) - 1 /\ \A j \in 1 .. Len(l) - 1 : u[j] = RemoveAt(l, i)[j].cmd
    BY <2>1, <2>2, ListOfType
  <2> HIDE DEF s, u
  <2>4. \A j \in 1 .. Len(l) - 1 : u[j] = IF j < i THEN s[j] ELSE s[j + 1]
    BY <1>0, <1>s, <2>1, <2>3, SMTT(30)
  <2>5. Once(u) /\ Held(u) \subseteq Held(s) /\ s[i] \notin Held(u)
    BY <1>0, <1>s, <1>6, <2>3, <2>4, OnceRemoved
  <2>6. s[i] \in Held(s)
    BY <1>s DEF Held
  <2> QED BY <1>s, <2>5, <2>6 DEF u
<1>2. ASSUME NEW n \in Nodes, n.cmd \notin Held(s)
      PROVE  Once(ListOf(Append(l, n))) /\ Held(ListOf(Append(l, n))) \subseteq Held(s) \cup {n.cmd}
  <2> DEFINE u == ListOf(Append(l, n))
  <2>1. /\ Append(l, n) \in Seq(Nodes) /\ Len(Append(l, n)) = Len(l) + 1
        /\ \A i \in 1 .. Len(l) + 1 : Append(l, n)[i] = IF i \in 1 .. Len(l) THEN l[i] ELSE n
    BY AppendElements
  <2>2. DOMAIN Append(l, n) = 1 .. Len(l) + 1
    BY <1>0, <2>1
  <2>3. DOMAIN u = 1 .. Len(l) + 1 /\ \A j \in 1 .. Len(l) + 1 : u[j] = Append(l, n)[j].cmd
    BY <2>1, <2>2, ListOfType
  <2> HIDE DEF s, u
  <2>4. \A i \in 1 .. Len(l) + 1 : u[i] = IF i \in 1 .. Len(l) THEN s[i] ELSE n.cmd
    BY <1>0, <1>s, <2>1, <2>3
  <2>5. Once(u) /\ Held(u) \subseteq Held(s) \cup ({n.cmd} \ {0})
    BY <1>0, <1>2, <1>s, <1>6, <2>3, <2>4, OnceAdded
  <2> QED BY <2>5 DEF u
<1> QED BY <1>1, <1>2

\* The commands that have ended.
LEMMA EndKeysStep ==
    ASSUME NEW l \in Seq(Endings), Once(EndKeys(l)), NEW x \in Endings, x[1] \notin Held(EndKeys(l))
    PROVE  /\ Once(EndKeys(Append(l, x)))
           /\ Held(EndKeys(Append(l, x))) \subseteq Held(EndKeys(l)) \cup {x[1]}
<1>0. Len(l) \in Nat /\ DOMAIN l = 1 .. Len(l)
  OBVIOUS
<1> DEFINE s == EndKeys(l)
           u == EndKeys(Append(l, x))
<1>s. DOMAIN s = 1 .. Len(l) /\ \A i \in 1 .. Len(l) : s[i] = l[i][1]
  BY <1>0 DEF EndKeys
<1>6. Once(s)
  OBVIOUS
<1>1. /\ Append(l, x) \in Seq(Endings) /\ Len(Append(l, x)) = Len(l) + 1
      /\ \A i \in 1 .. Len(l) + 1 : Append(l, x)[i] = IF i \in 1 .. Len(l) THEN l[i] ELSE x
  BY AppendElements
<1>2. DOMAIN Append(l, x) = 1 .. Len(l) + 1
  BY <1>0, <1>1
<1>3. DOMAIN u = 1 .. Len(l) + 1 /\ \A j \in 1 .. Len(l) + 1 : u[j] = Append(l, x)[j][1]
  BY <1>2 DEF EndKeys
<1>7. x[1] \notin Held(s)
  OBVIOUS
<1> HIDE DEF s, u
<1>4. \A i \in 1 .. Len(l) + 1 : u[i] = IF i \in 1 .. Len(l) THEN s[i] ELSE x[1]
  BY <1>0, <1>s, <1>1, <1>3
<1>5. Once(u) /\ Held(u) \subseteq Held(s) \cup ({x[1]} \ {0})
  BY <1>0, <1>s, <1>6, <1>7, <1>3, <1>4, OnceAdded
<1> QED BY <1>5 DEF s, u

\* The commands of the list end together.
LEMMA EndKeysAll ==
    ASSUME NEW l \in Seq(Endings), Once(EndKeys(l)), NEW m \in Seq(Nodes), Once(ListOf(m)),
           Held(EndKeys(l)) \cap Held(ListOf(m)) = {},
           NEW d \in Seq(Endings), Len(d) = Len(m), \A i \in DOMAIN m : d[i][1] = m[i].cmd
    PROVE  /\ Once(EndKeys(l \o d))
           /\ Held(EndKeys(l \o d)) \subseteq Held(EndKeys(l)) \cup Held(ListOf(m))
<1> DEFINE s == EndKeys(l)
           r == ListOf(m)
           u == EndKeys(l \o d)
<1>0. /\ Len(l) \in Nat /\ DOMAIN l = 1 .. Len(l) /\ Len(m) \in Nat /\ DOMAIN m = 1 .. Len(m)
  OBVIOUS
<1>1. /\ l \o d \in Seq(Endings) /\ Len(l \o d) = Len(l) + Len(m)
      /\ \A i \in 1 .. Len(l) + Len(m) : (l \o d)[i] = IF i <= Len(l) THEN l[i] ELSE d[i - Len(l)]
  <2>1. /\ l \o d \in Seq(Endings) /\ Len(l \o d) = Len(l) + Len(d)
        /\ \A i \in 1 .. Len(l) + Len(d) : (l \o d)[i] = IF i <= Len(l) THEN l[i] ELSE d[i - Len(l)]
    BY ConcatProperties, ZenonT(60)
  <2> QED BY <2>1
<1>2. DOMAIN (l \o d) = 1 .. Len(l) + Len(m)
  BY <1>0, <1>1
<1>3. DOMAIN s = 1 .. Len(l) /\ \A i \in 1 .. Len(l) : s[i] = l[i][1]
  BY <1>0 DEF EndKeys
<1>4. DOMAIN r = 1 .. Len(m) /\ \A i \in 1 .. Len(m) : r[i] = m[i].cmd
  BY <1>0, ListOfType
<1>5. DOMAIN u = 1 .. Len(l) + Len(m) /\ \A i \in 1 .. Len(l) + Len(m) : u[i] = (l \o d)[i][1]
  BY <1>2 DEF EndKeys
<1>6. Once(s) /\ Once(r) /\ Held(s) \cap Held(r) = {}
  OBVIOUS
<1> HIDE DEF s, r, u
<1>7. \A i \in DOMAIN u : \/ i \in DOMAIN s /\ u[i] = s[i]
                          \/ i - Len(l) \in DOMAIN r /\ u[i] = r[i - Len(l)]
  <2> SUFFICES ASSUME NEW i \in DOMAIN u
               PROVE  \/ i \in DOMAIN s /\ u[i] = s[i]
                      \/ i - Len(l) \in DOMAIN r /\ u[i] = r[i - Len(l)]
    OBVIOUS
  <2>1. CASE i <= Len(l)
    BY <1>0, <1>1, <1>3, <1>5, <2>1
  <2>2. CASE ~ (i <= Len(l))
    <3>1. i - Len(l) \in 1 .. Len(m)
      BY <1>0, <1>5, <2>2
    <3> QED BY <1>0, <1>1, <1>4, <1>5, <2>2, <3>1
  <2> QED BY <2>1, <2>2
<1>8. Held(u) \subseteq Held(s) \cup Held(r)
  BY <1>7 DEF Held
<1>9. ASSUME NEW i \in DOMAIN u, NEW j \in DOMAIN u, u[i] # 0, u[i] = u[j] PROVE i = j
  <2>1. CASE i \in DOMAIN s /\ u[i] = s[i] /\ j \in DOMAIN s /\ u[j] = s[j]
    BY <1>6, <1>9, <2>1 DEF Once
  <2>2. CASE i - Len(l) \in DOMAIN r /\ u[i] = r[i - Len(l)] /\ j - Len(l) \in DOMAIN r /\ u[j] = r[j - Len(l)]
    <3>1. i - Len(l) = j - Len(l)
      BY <1>6, <1>9, <2>2 DEF Once
    <3> QED BY <1>0, <1>5, <3>1
  <2>3. CASE i \in DOMAIN s /\ u[i] = s[i] /\ j - Len(l) \in DOMAIN r /\ u[j] = r[j - Len(l)]
    BY <1>6, <1>9, <2>3 DEF Held
  <2>4. CASE j \in DOMAIN s /\ u[j] = s[j] /\ i - Len(l) \in DOMAIN r /\ u[i] = r[i - Len(l)]
    BY <1>6, <1>9, <2>4 DEF Held
  <2> QED BY <1>7, <2>1, <2>2, <2>3, <2>4
<1> QED BY <1>8, <1>9 DEF Once, s, r, u

\* What CpEvent does: without a command, and with the command c.
LEMMA CpEventEffect ==
    ASSUME CmdTypeOK, CpEvent
    PROVE  \E e \in Events, c \in Cmds \cup {0} :
             /\ cpQ # <<>> /\ Head(cpQ) \in CpTasks /\ Head(cpQ).type = "Event"
             /\ e = Head(cpQ).event /\ c = Head(cpQ).node.cmd /\ Tail(cpQ) \in Seq(CpTasks)
             /\ c # 0 => Op(c) = e.op
             /\ num' = IF e.kind = "Final" \/ (e.kind = "Complete" /\ c = 0) THEN num ELSE e.n
             /\ dliQ' = dliQ \/ dliQ' = Append(dliQ, Task("Next"))
             /\ c = 0 => cpQ' = Tail(cpQ) /\ ended' = ended
             /\ c # 0 => \E how \in {"answered", "unheard"} :
                  /\ ended' = Append(ended, <<c, how, e.of>>) /\ <<c, how, e.of>> \in Endings
                  /\ e.kind = "Complete" => (how = "answered" <=> regs[e.op] > 0)
                  /\ cpQ' = IF e.kind = "Complete" /\ regs[e.op] > 0
                            THEN Append(Tail(cpQ), CpTask("UnReg", c)) ELSE Tail(cpQ)
             /\ UNCHANGED <<issued, regs, faults, inited, cmdTx, rest, subDue, ctl, fin>>
<1>1. cpQ \in Seq(CpTasks) /\ cpQ # <<>> /\ Head(cpQ).type = "Event"
  BY DEF CpEvent, CmdTypeOK
<1>2. Tail(cpQ) \in Seq(CpTasks) /\ Head(cpQ) \in CpTasks
  BY <1>1, TailElements
<1>3. PICK e : e = Head(cpQ).event
  OBVIOUS
<1>4. PICK c : c = Head(cpQ).node.cmd
  OBVIOUS
<1>5. e \in Events /\ c \in Cmds \cup {0} /\ (c # 0 => Op(c) = e.op)
  BY <1>1, <1>2, <1>3, <1>4, CpTaskIs
<1>6. e.n \in Nat /\ e.of \in Cmds /\ e.kind \in {"Complete", "Status", "Final"}
  BY <1>5, EventIs DEF Kinds
<1>7. dliQ' = dliQ \/ dliQ' = Append(dliQ, Task("Next"))
  <2>1. dliQ' = dliQ \/ dliQ' = PostNextTask(dliQ)
    BY DEF CpEvent
  <2> QED BY <2>1 DEF PostNextTask
<1>8. num' = IF e.kind = "Final" \/ (e.kind = "Complete" /\ c = 0) THEN num ELSE e.n
  BY <1>3, <1>4, <1>6 DEF CpEvent, CmdNumSet
<1>9. c = 0 => cpQ' = Tail(cpQ) /\ ended' = ended
  BY <1>3, <1>4, <1>6 DEF CpEvent
<1>10. ASSUME c # 0
       PROVE  \E how \in {"answered", "unheard"} :
                /\ ended' = Append(ended, <<c, how, e.of>>) /\ <<c, how, e.of>> \in Endings
                /\ e.kind = "Complete" => (how = "answered" <=> regs[e.op] > 0)
                /\ cpQ' = IF e.kind = "Complete" /\ regs[e.op] > 0
                          THEN Append(Tail(cpQ), CpTask("UnReg", c)) ELSE Tail(cpQ)
  <2>1. PICK called \in BOOLEAN : called <=> (e.kind = "Complete" /\ regs[e.op] > 0)
    OBVIOUS
  <2>2. PICK how : how = IF called \/ e.kind = "Final" \/ (e.kind = "Status" /\ e.op \in Mapped)
                         THEN "answered" ELSE "unheard"
    OBVIOUS
  <2>3. ended' = Append(ended, <<c, how, e.of>>)
    BY <1>3, <1>4, <1>10, <2>1, <2>2 DEF CpEvent, Ended
  <2>4. cpQ' = IF called THEN Append(Tail(cpQ), CpTask("UnReg", c)) ELSE Tail(cpQ)
    BY <1>3, <1>4, <1>10, <2>1 DEF CpEvent
  <2>5. how \in {"answered", "unheard"} /\ (e.kind = "Complete" => (how = "answered" <=> called))
    BY <2>2
  <2>6. <<c, how, e.of>> \in Endings
    BY <1>5, <1>6, <1>10, <2>5, EndedType
  <2> QED BY <2>1, <2>3, <2>4, <2>5, <2>6
<1>11. UNCHANGED <<issued, regs, faults, inited, cmdTx, rest, subDue, ctl, fin>>
  BY DEF CpEvent, dliVars, ctlVars
<1> QED BY <1>1, <1>2, <1>3, <1>4, <1>5, <1>7, <1>8, <1>9, <1>10, <1>11

\* What CpTimeout does with the command c.
LEMMA CpTimeoutEffect ==
    ASSUME CmdTypeOK, CpTimeout
    PROVE  \E c \in Cmds, how \in {"timeout", "unheard"} :
             /\ cpQ # <<>> /\ Head(cpQ) \in CpTasks /\ Head(cpQ).type = "Timeout"
             /\ c = Head(cpQ).node.cmd /\ cpQ' = Tail(cpQ)
             /\ num' = IF CreditAfterTimeout(Head(cpQ).node) THEN 1 ELSE num
             /\ ended' = Append(ended, <<c, how, c>>) /\ <<c, how, c>> \in Endings
             /\ dliQ' = dliQ \/ dliQ' = Append(dliQ, Task("Next"))
             /\ UNCHANGED <<issued, regs, faults, inited, cmdTx, rest, subDue, ctl, fin>>
<1>1. cpQ \in Seq(CpTasks) /\ cpQ # <<>> /\ Head(cpQ).type = "Timeout"
  BY DEF CpTimeout, CmdTypeOK
<1>2. Head(cpQ) \in CpTasks
  BY <1>1, TailElements
<1>3. PICK c : c = Head(cpQ).node.cmd
  OBVIOUS
<1>4. c \in Cmds
  BY <1>1, <1>2, <1>3, CpTaskIs
<1>5. PICK how : how = IF Op(c) \in Mapped THEN "timeout" ELSE "unheard"
  OBVIOUS
<1>6. how \in {"timeout", "unheard"} /\ <<c, how, c>> \in Endings
  BY <1>4, <1>5, EndedType
<1>7. ended' = Append(ended, <<c, how, c>>) /\ cpQ' = Tail(cpQ)
  BY <1>3, <1>5 DEF CpTimeout, Ended
<1>8. num' = IF CreditAfterTimeout(Head(cpQ).node) THEN 1 ELSE num
  BY DEF CpTimeout, CmdNumSet
<1>9. dliQ' = dliQ \/ dliQ' = Append(dliQ, Task("Next"))
  BY DEF CpTimeout, PostNextTask
<1>10. UNCHANGED <<issued, regs, faults, inited, cmdTx, rest, subDue, ctl, fin>>
  BY DEF CpTimeout, dliVars, ctlVars
<1> QED BY <1>1, <1>2, <1>3, <1>4, <1>6, <1>7, <1>8, <1>9, <1>10

\* Steps of the CP thread keep every command in one place.
LEMMA PlacedCp ==
    ASSUME CmdTypeOK, Placed, ExecuteCommand \/ CpReg \/ CpEvent \/ CpTimeout
    PROVE  Placed'
<1> DEFINE A == Held(SendKeys(dliQ))
           B == Held(ListOf(cmdTx))
           C == Held(CpKeys(cpQ))
           D == Held(EndKeys(ended))
<1>0. /\ dliQ \in Seq(DliTasks) /\ cpQ \in Seq(CpTasks) /\ cmdTx \in Seq(Nodes) /\ ended \in Seq(Endings)
      /\ issued \in Nat
  BY CmdNumbers DEF CmdTypeOK
<1>p. /\ Once(SendKeys(dliQ)) /\ Once(ListOf(cmdTx)) /\ Once(CpKeys(cpQ)) /\ Once(EndKeys(ended))
      /\ Apart(A, B, C, D)
      /\ A \subseteq 1 .. issued /\ B \subseteq 1 .. issued /\ C \subseteq 1 .. issued /\ D \subseteq 1 .. issued
  BY DEF Placed
<1>n. /\ Once(SendKeys(Append(dliQ, Task("Next"))))
      /\ Held(SendKeys(Append(dliQ, Task("Next")))) \subseteq A
  <2>1. Task("Next") \in DliTasks /\ Task("Next").type # "Send"
    BY MadeTypes DEF Task
  <2> QED BY <1>0, <1>p, <2>1, SendKeysStep
<1> HIDE DEF A, B, C, D
<1>1. CASE ExecuteCommand
  <2>1. issued' = issued + 1 /\ issued' \in Cmds /\ issued' \notin 1 .. issued /\ 1 .. issued \subseteq 1 .. issued'
    BY <1>0, <1>1, CmdNumbers DEF ExecuteCommand
  <2>2. PICK c : c = issued'
    OBVIOUS
  <2>3. PICK t : t = SendTask(c)
    OBVIOUS
  <2>4. t \in DliTasks /\ t.type = "Send" /\ t.cmd = c
    BY <2>1, <2>2, <2>3, MadeTypes DEF SendTask
  <2>5. dliQ' = Append(dliQ, t)
    BY <1>1, <2>2, <2>3 DEF ExecuteCommand
  <2>6. Once(SendKeys(dliQ')) /\ Held(SendKeys(dliQ')) \subseteq A \cup {c}
    BY <1>0, <1>p, <2>1, <2>2, <2>4, <2>5, SendKeysStep DEF A
  <2>7. PICK r : r = CpTask("Reg", c)
    OBVIOUS
  <2>8. r \in CpTasks /\ r.type \notin {"Event", "Timeout"}
    BY <2>1, <2>2, <2>7, MadeTypes DEF CpTask
  <2>9. cpQ' = cpQ \/ cpQ' = Append(cpQ, r)
    BY <1>1, <2>2, <2>7 DEF ExecuteCommand
  <2>10. Once(CpKeys(cpQ')) /\ Held(CpKeys(cpQ')) \subseteq C
    BY <1>0, <1>p, <2>8, <2>9, CpKeysStep DEF C
  <2>11. UNCHANGED <<cmdTx, ended>>
    BY <1>1 DEF ExecuteCommand, dliVars
  <2>12. Held(SendKeys(dliQ')) \subseteq A \cup {c} /\ Held(ListOf(cmdTx')) = B /\ Held(EndKeys(ended')) = D
         /\ Once(ListOf(cmdTx')) /\ Once(EndKeys(ended'))
    BY <1>p, <2>6, <2>11 DEF B, D
  <2>13. c \notin B /\ c \notin C /\ c \notin D /\ {c} \subseteq 1 .. issued'
    BY <1>0, <1>p, <2>1, <2>2
  <2>14. Apart(Held(SendKeys(dliQ')), Held(ListOf(cmdTx')), Held(CpKeys(cpQ')), Held(EndKeys(ended')))
    BY <1>p, <2>10, <2>12, <2>13 DEF Apart
  <2> QED BY <1>p, <2>1, <2>6, <2>10, <2>12, <2>13, <2>14 DEF Placed
<1>2. CASE CpReg
  <2>1. cpQ # <<>> /\ cpQ' = Tail(cpQ) /\ UNCHANGED <<issued, dliQ, cmdTx, ended>>
    BY <1>2 DEF CpReg, dliVars
  <2>2. Once(CpKeys(cpQ')) /\ Held(CpKeys(cpQ')) \subseteq C
    BY <1>0, <1>p, <2>1, CpKeysStep DEF C
  <2>3. /\ Held(SendKeys(dliQ')) = A /\ Held(ListOf(cmdTx')) = B /\ Held(EndKeys(ended')) = D
        /\ Once(SendKeys(dliQ')) /\ Once(ListOf(cmdTx')) /\ Once(EndKeys(ended'))
    BY <1>p, <2>1 DEF A, B, D
  <2>4. Apart(Held(SendKeys(dliQ')), Held(ListOf(cmdTx')), Held(CpKeys(cpQ')), Held(EndKeys(ended')))
    BY <1>p, <2>2, <2>3 DEF Apart
  <2> QED BY <1>p, <2>1, <2>2, <2>3, <2>4 DEF Placed
<1>3. ASSUME NEW c \in Cmds \cup {0}, NEW x, NEW r,
             cpQ # <<>>, Head(cpQ).type \in {"Event", "Timeout"}, c = Head(cpQ).node.cmd,
             x \in Endings, x[1] = c, r \in CpTasks, r.type = "UnReg",
             dliQ' = dliQ \/ dliQ' = Append(dliQ, Task("Next")),
             cpQ' = Tail(cpQ) \/ cpQ' = Append(Tail(cpQ), r),
             IF c = 0 THEN ended' = ended ELSE ended' = Append(ended, x),
             UNCHANGED <<issued, cmdTx>>
      PROVE  Placed'
  <2>1. Once(SendKeys(dliQ')) /\ Held(SendKeys(dliQ')) \subseteq A
    BY <1>p, <1>n, <1>3 DEF A
  <2>2. /\ Once(CpKeys(Tail(cpQ))) /\ Held(CpKeys(Tail(cpQ))) \subseteq C /\ Tail(cpQ) \in Seq(CpTasks)
        /\ c # 0 => c \in C /\ c \notin Held(CpKeys(Tail(cpQ)))
    BY <1>0, <1>p, <1>3, CpKeysStep, TailElements DEF C
  <2>3. /\ Once(CpKeys(cpQ')) /\ Held(CpKeys(cpQ')) \subseteq Held(CpKeys(Tail(cpQ)))
    BY <1>3, <2>2, CpKeysStep
  <2>4. /\ Once(EndKeys(ended')) /\ Held(EndKeys(ended')) \subseteq D \cup {c}
        /\ c = 0 => Held(EndKeys(ended')) = D
    <3>1. CASE c = 0
      BY <1>p, <1>3, <3>1 DEF D
    <3>2. CASE c # 0
      <4>1. c \notin D
        BY <1>p, <2>2, <3>2 DEF Apart
      <4> QED BY <1>0, <1>p, <1>3, <3>2, <4>1, EndKeysStep DEF D
    <3> QED BY <3>1, <3>2
  <2>5. Held(ListOf(cmdTx')) = B /\ Once(ListOf(cmdTx'))
    BY <1>p, <1>3 DEF B
  <2>6. Apart(Held(SendKeys(dliQ')), Held(ListOf(cmdTx')), Held(CpKeys(cpQ')), Held(EndKeys(ended')))
    BY <1>p, <2>1, <2>2, <2>3, <2>4, <2>5 DEF Apart
  <2>7. Held(EndKeys(ended')) \subseteq 1 .. issued
    BY <1>p, <2>2, <2>4
  <2> QED BY <1>p, <1>3, <2>1, <2>2, <2>3, <2>4, <2>5, <2>6, <2>7 DEF Placed
<1>4. CASE CpEvent
  <2>1. PICK e \in Events, c \in Cmds \cup {0} :
          /\ cpQ # <<>> /\ Head(cpQ) \in CpTasks /\ Head(cpQ).type = "Event"
          /\ e = Head(cpQ).event /\ c = Head(cpQ).node.cmd /\ Tail(cpQ) \in Seq(CpTasks)
          /\ dliQ' = dliQ \/ dliQ' = Append(dliQ, Task("Next"))
          /\ c = 0 => cpQ' = Tail(cpQ) /\ ended' = ended
          /\ c # 0 => \E how \in {"answered", "unheard"} :
               /\ ended' = Append(ended, <<c, how, e.of>>) /\ <<c, how, e.of>> \in Endings
               /\ cpQ' = Tail(cpQ) \/ cpQ' = Append(Tail(cpQ), CpTask("UnReg", c))
          /\ UNCHANGED <<issued, cmdTx>>
    BY <1>4, CpEventEffect, ZenonT(60)
  <2>2. CASE c = 0
    <3>1. Once(SendKeys(dliQ')) /\ Held(SendKeys(dliQ')) \subseteq A
      BY <1>p, <1>n, <2>1 DEF A
    <3>2. /\ Once(CpKeys(cpQ')) /\ Held(CpKeys(cpQ')) \subseteq C
      BY <1>0, <1>p, <2>1, <2>2, CpKeysStep DEF C
    <3>3. /\ Held(ListOf(cmdTx')) = B /\ Held(EndKeys(ended')) = D /\ Once(ListOf(cmdTx')) /\ Once(EndKeys(ended'))
      BY <1>p, <2>1, <2>2 DEF B, D
    <3>4. Apart(Held(SendKeys(dliQ')), Held(ListOf(cmdTx')), Held(CpKeys(cpQ')), Held(EndKeys(ended')))
      BY <1>p, <3>1, <3>2, <3>3 DEF Apart
    <3> QED BY <1>p, <2>1, <3>1, <3>2, <3>3, <3>4 DEF Placed
  <2>3. CASE c # 0
    <3>1. PICK how \in {"answered", "unheard"} :
            /\ ended' = Append(ended, <<c, how, e.of>>) /\ <<c, how, e.of>> \in Endings
            /\ cpQ' = Tail(cpQ) \/ cpQ' = Append(Tail(cpQ), CpTask("UnReg", c))
      BY <2>1, <2>3
    <3>2. PICK x : x = <<c, how, e.of>>
      OBVIOUS
    <3>3. PICK r : r = CpTask("UnReg", c)
      OBVIOUS
    <3>4. r \in CpTasks /\ r.type = "UnReg" /\ x[1] = c
      BY <2>3, <3>2, <3>3, MadeTypes DEF CpTask
    <3> QED BY <1>3, <2>1, <2>3, <3>1, <3>2, <3>3, <3>4
  <2> QED BY <2>2, <2>3
<1>5. CASE CpTimeout
  <2>1. PICK c \in Cmds, how \in {"timeout", "unheard"} :
          /\ cpQ # <<>> /\ Head(cpQ).type = "Timeout"
          /\ c = Head(cpQ).node.cmd /\ cpQ' = Tail(cpQ)
          /\ ended' = Append(ended, <<c, how, c>>) /\ <<c, how, c>> \in Endings
          /\ dliQ' = dliQ \/ dliQ' = Append(dliQ, Task("Next"))
          /\ UNCHANGED <<issued, cmdTx>>
    BY <1>5, CpTimeoutEffect
  <2>2. PICK x : x = <<c, how, c>>
    OBVIOUS
  <2>3. PICK r : r = CpTask("UnReg", c)
    OBVIOUS
  <2>4. r \in CpTasks /\ r.type = "UnReg" /\ x[1] = c /\ c # 0
    BY <2>2, <2>3, MadeTypes, CmdNumbers DEF CpTask
  <2> QED BY <1>3, <2>1, <2>2, <2>4
<1> QED BY <1>1, <1>2, <1>4, <1>5

\* An entry's marks do not change the commands of the list.
LEMMA MarkKeys ==
    ASSUME cmdTx \in Seq(Nodes), NEW i \in DOMAIN cmdTx
    PROVE  /\ ListOf([cmdTx EXCEPT ![i].isSent = TRUE]) = ListOf(cmdTx)
           /\ ListOf([cmdTx EXCEPT ![i].isRecvStatusEvt = TRUE]) = ListOf(cmdTx)
<1>1. cmdTx[i] \in Nodes
  OBVIOUS
<1>2. /\ [cmdTx[i] EXCEPT !.isSent = TRUE].cmd = cmdTx[i].cmd
      /\ [cmdTx[i] EXCEPT !.isRecvStatusEvt = TRUE].cmd = cmdTx[i].cmd
  BY <1>1 DEF Nodes
<1>3. PICK a : a = [cmdTx[i] EXCEPT !.isSent = TRUE]
  OBVIOUS
<1>4. PICK b : b = [cmdTx[i] EXCEPT !.isRecvStatusEvt = TRUE]
  OBVIOUS
<1>5. ListOf([cmdTx EXCEPT ![i] = a]) = ListOf(cmdTx) /\ ListOf([cmdTx EXCEPT ![i] = b]) = ListOf(cmdTx)
  BY <1>2, <1>3, <1>4 DEF ListOf
<1> QED BY <1>3, <1>4, <1>5

\* Steps of the DLI thread and of the controller keep every command in one place.
LEMMA PlacedDli ==
    ASSUME CmdTypeOK, Placed, ListInOrder,
           \/ DliSend \/ DliNext \/ Visit \/ SubOne \/ DliEvent \/ CmdTimer \/ LayerDisable
           \/ CtlAnswer \/ CtlFinal
    PROVE  Placed'
<1> DEFINE A == Held(SendKeys(dliQ))
           B == Held(ListOf(cmdTx))
           C == Held(CpKeys(cpQ))
           D == Held(EndKeys(ended))
<1>0. /\ dliQ \in Seq(DliTasks) /\ cpQ \in Seq(CpTasks) /\ cmdTx \in Seq(Nodes) /\ ended \in Seq(Endings)
      /\ issued \in Nat
  BY CmdNumbers DEF CmdTypeOK
<1>p. /\ Once(SendKeys(dliQ)) /\ Once(ListOf(cmdTx)) /\ Once(CpKeys(cpQ)) /\ Once(EndKeys(ended))
      /\ Apart(A, B, C, D)
      /\ A \subseteq 1 .. issued /\ B \subseteq 1 .. issued /\ C \subseteq 1 .. issued /\ D \subseteq 1 .. issued
  BY DEF Placed
<1>n. /\ Once(SendKeys(Append(dliQ, Task("Next"))))
      /\ Held(SendKeys(Append(dliQ, Task("Next")))) \subseteq A
  <2>1. Task("Next") \in DliTasks /\ Task("Next").type # "Send"
    BY MadeTypes DEF Task
  <2> QED BY <1>0, <1>p, <2>1, SendKeysStep
<1> HIDE DEF A, B, C, D
<1>a. ASSUME Once(SendKeys(dliQ')), Held(SendKeys(dliQ')) \subseteq A, ListOf(cmdTx') = ListOf(cmdTx),
             UNCHANGED <<issued, cpQ, ended>>
      PROVE  Placed'
  <2>1. /\ Held(ListOf(cmdTx')) = B /\ Held(CpKeys(cpQ')) = C /\ Held(EndKeys(ended')) = D
        /\ Once(ListOf(cmdTx')) /\ Once(CpKeys(cpQ')) /\ Once(EndKeys(ended'))
    BY <1>p, <1>a DEF B, C, D
  <2>2. Apart(Held(SendKeys(dliQ')), Held(ListOf(cmdTx')), Held(CpKeys(cpQ')), Held(EndKeys(ended')))
    BY <1>p, <1>a, <2>1 DEF Apart
  <2> QED BY <1>p, <1>a, <2>1, <2>2 DEF Placed
<1>b. ASSUME NEW i \in 1 .. Len(cmdTx), NEW t \in CpTasks, t.type \in {"Event", "Timeout"}, t.node = cmdTx[i],
             Once(SendKeys(dliQ')), Held(SendKeys(dliQ')) \subseteq A, cmdTx' = RemoveAt(cmdTx, i),
             cpQ' = Append(cpQ, t), UNCHANGED <<issued, ended>>
      PROVE  Placed'
  <2>1. PICK c : c = cmdTx[i].cmd
    OBVIOUS
  <2>2. Once(ListOf(cmdTx')) /\ Held(ListOf(cmdTx')) \subseteq B /\ c \in B /\ c \notin Held(ListOf(cmdTx'))
    BY <1>0, <1>p, <1>b, <2>1, ListKeysStep DEF B
  <2>3. c \notin C
    BY <1>p, <2>2 DEF Apart
  <2>4. Once(CpKeys(cpQ')) /\ Held(CpKeys(cpQ')) \subseteq C \cup {c}
    BY <1>0, <1>p, <1>b, <2>1, <2>3, CpKeysStep DEF C
  <2>5. Held(EndKeys(ended')) = D /\ Once(EndKeys(ended'))
    BY <1>p, <1>b DEF D
  <2>6. Apart(Held(SendKeys(dliQ')), Held(ListOf(cmdTx')), Held(CpKeys(cpQ')), Held(EndKeys(ended')))
    BY <1>p, <1>b, <2>2, <2>4, <2>5, ZenonT(60) DEF Apart
  <2> QED BY <1>p, <1>b, <2>2, <2>4, <2>5, <2>6 DEF Placed
<1>1. CASE DliSend
  <2>1. PICK c : c = Head(dliQ).cmd
    OBVIOUS
  <2>2. /\ dliQ # <<>> /\ Head(dliQ).type = "Send" /\ c \in Cmds /\ dliQ' = Tail(dliQ)
        /\ \/ cmdTx' = Append(cmdTx, Node(c)) /\ ended' = ended
           \/ cmdTx' = cmdTx /\ ended' = Append(ended, <<c, "dropped", c>>)
        /\ UNCHANGED <<issued, cpQ>>
    BY <1>1, <2>1, SendEffect
  <2>3. Once(SendKeys(dliQ')) /\ Held(SendKeys(dliQ')) \subseteq A /\ c \in A /\ c \notin Held(SendKeys(dliQ'))
    BY <1>0, <1>p, <2>1, <2>2, SendKeysStep DEF A
  <2>4. c \notin B /\ c \notin C /\ c \notin D
    BY <1>p, <2>3 DEF Apart
  <2>5. Held(CpKeys(cpQ')) = C /\ Once(CpKeys(cpQ'))
    BY <1>p, <2>2 DEF C
  <2>6. CASE cmdTx' = Append(cmdTx, Node(c)) /\ ended' = ended
    <3>1. Node(c) \in Nodes /\ Node(c).cmd = c
      BY <2>2, MadeTypes DEF Node
    <3>2. Once(ListOf(cmdTx')) /\ Held(ListOf(cmdTx')) \subseteq B \cup {c}
      BY <1>0, <1>p, <2>4, <2>6, <3>1, ListKeysStep DEF B
    <3>3. Held(EndKeys(ended')) = D /\ Once(EndKeys(ended'))
      BY <1>p, <2>6 DEF D
    <3>4. Apart(Held(SendKeys(dliQ')), Held(ListOf(cmdTx')), Held(CpKeys(cpQ')), Held(EndKeys(ended')))
      BY <1>p, <2>3, <2>4, <2>5, <3>2, <3>3 DEF Apart
    <3> QED BY <1>p, <2>2, <2>3, <2>5, <3>2, <3>3, <3>4 DEF Placed
  <2>7. CASE cmdTx' = cmdTx /\ ended' = Append(ended, <<c, "dropped", c>>)
    <3>1. PICK x : x = <<c, "dropped", c>>
      OBVIOUS
    <3>2. x \in Endings /\ x[1] = c
      BY <2>2, <3>1, EndedType
    <3>3. Once(EndKeys(ended')) /\ Held(EndKeys(ended')) \subseteq D \cup {c}
      BY <1>0, <1>p, <2>4, <2>7, <3>1, <3>2, EndKeysStep DEF D
    <3>4. Held(ListOf(cmdTx')) = B /\ Once(ListOf(cmdTx'))
      BY <1>p, <2>7 DEF B
    <3>5. Apart(Held(SendKeys(dliQ')), Held(ListOf(cmdTx')), Held(CpKeys(cpQ')), Held(EndKeys(ended')))
      BY <1>p, <2>3, <2>4, <2>5, <3>3, <3>4 DEF Apart
    <3> QED BY <1>p, <2>2, <2>3, <2>5, <3>3, <3>4, <3>5 DEF Placed
  <2> QED BY <2>2, <2>6, <2>7
<1>2. CASE DliNext
  <2>1. dliQ # <<>> /\ dliQ' = Tail(dliQ) /\ UNCHANGED <<issued, cpQ, ended, cmdTx>>
    BY <1>2 DEF DliNext, DliTask
  <2>2. Once(SendKeys(dliQ')) /\ Held(SendKeys(dliQ')) \subseteq A
    BY <1>0, <1>p, <2>1, SendKeysStep DEF A
  <2> QED BY <1>a, <2>1, <2>2
<1>3. CASE Visit
  <2>1. PICK i : i = Len(cmdTx) - Len(rest) + 1
    OBVIOUS
  <2>2. /\ i \in DOMAIN cmdTx /\ UNCHANGED <<issued, dliQ, cpQ, ended>>
        /\ cmdTx' = cmdTx \/ cmdTx' = [cmdTx EXCEPT ![i].isSent = TRUE]
    BY <1>3, <2>1, VisitEffect
  <2>3. ListOf(cmdTx') = ListOf(cmdTx)
    <3>1. CASE cmdTx' = [cmdTx EXCEPT ![i].isSent = TRUE]
      BY <1>0, <2>2, <3>1, MarkKeys
    <3> QED BY <2>2, <3>1
  <2>4. Once(SendKeys(dliQ')) /\ Held(SendKeys(dliQ')) \subseteq A
    BY <1>p, <2>2 DEF A
  <2> QED BY <1>a, <2>2, <2>3, <2>4
<1>4. CASE SubOne
  <2>1. UNCHANGED <<issued, dliQ, cpQ, ended, cmdTx>>
    BY <1>4 DEF SubOne
  <2>2. Once(SendKeys(dliQ')) /\ Held(SendKeys(dliQ')) \subseteq A
    BY <1>p, <2>1 DEF A
  <2> QED BY <1>a, <2>1, <2>2
<1>5. CASE DliEvent
  <2>1. PICK e : e = Head(dliQ)
    OBVIOUS
  <2>2. PICK i : i = CmdNodeRemove(e)
    OBVIOUS
  <2>3. PICK j : j = StatusMarks(e)
    OBVIOUS
  <2>4. PICK t : t = [type |-> "Event", event |-> e, node |-> IF i # 0 THEN cmdTx[i] ELSE NoNode]
    OBVIOUS
  <2>5. /\ dliQ # <<>> /\ dliQ' = Tail(dliQ)
        /\ i = 0 \/ i \in DOMAIN cmdTx
        /\ j = 0 \/ j \in DOMAIN cmdTx
        /\ cmdTx' = IF i # 0 THEN RemoveAt(cmdTx, i)
                    ELSE IF j # 0 THEN [cmdTx EXCEPT ![j].isRecvStatusEvt = TRUE] ELSE cmdTx
        /\ cpQ' = Append(cpQ, t) /\ t \in CpTasks
        /\ UNCHANGED <<issued, ended>>
    BY <1>5, <2>1, <2>2, <2>3, <2>4, EventEffect
  <2>6. Once(SendKeys(dliQ')) /\ Held(SendKeys(dliQ')) \subseteq A
    BY <1>0, <1>p, <2>5, SendKeysStep DEF A
  <2>7. CASE i # 0
    <3>1. i \in 1 .. Len(cmdTx) /\ cmdTx' = RemoveAt(cmdTx, i)
      BY <1>0, <2>5, <2>7
    <3>2. t.type = "Event" /\ t.node = cmdTx[i]
      BY <2>4, <2>7
    <3> QED BY <1>b, <2>5, <2>6, <3>1, <3>2
  <2>8. CASE i = 0
    <3>1. ListOf(cmdTx') = ListOf(cmdTx)
      <4>1. CASE j # 0
        BY <1>0, <2>5, <2>8, <4>1, MarkKeys
      <4> QED BY <2>5, <2>8, <4>1
    <3>2. t.node.cmd = 0
      BY <2>4, <2>8 DEF NoNode
    <3>3. Once(CpKeys(cpQ')) /\ Held(CpKeys(cpQ')) \subseteq C
      BY <1>0, <1>p, <2>5, <3>2, CpKeysStep DEF C
    <3>4. /\ Held(ListOf(cmdTx')) = B /\ Held(EndKeys(ended')) = D
          /\ Once(ListOf(cmdTx')) /\ Once(EndKeys(ended'))
      BY <1>p, <2>5, <3>1 DEF B, D
    <3>5. Apart(Held(SendKeys(dliQ')), Held(ListOf(cmdTx')), Held(CpKeys(cpQ')), Held(EndKeys(ended')))
      BY <1>p, <2>6, <3>3, <3>4 DEF Apart
    <3> QED BY <1>p, <2>5, <2>6, <3>3, <3>4, <3>5 DEF Placed
  <2> QED BY <2>7, <2>8
<1>6. CASE CmdTimer
  <2>1. PICK i \in DOMAIN cmdTx :
          /\ i \in 1 .. Len(cmdTx) /\ cmdTx' = RemoveAt(cmdTx, i)
          /\ cpQ' = Append(cpQ, [type |-> "Timeout", node |-> cmdTx[i]])
          /\ [type |-> "Timeout", node |-> cmdTx[i]] \in CpTasks
          /\ dliQ' = PostNextTask(dliQ)
          /\ UNCHANGED <<issued, ended>>
    BY <1>6, TimerEffect
  <2>2. Once(SendKeys(dliQ')) /\ Held(SendKeys(dliQ')) \subseteq A
    <3>1. dliQ' = dliQ \/ dliQ' = Append(dliQ, Task("Next"))
      BY <2>1 DEF PostNextTask
    <3> QED BY <1>p, <1>n, <3>1 DEF A
  <2>3. PICK t : t = [type |-> "Timeout", node |-> cmdTx[i]]
    OBVIOUS
  <2>4. t.type = "Timeout" /\ t.node = cmdTx[i] /\ t \in CpTasks /\ cpQ' = Append(cpQ, t)
    BY <2>1, <2>3
  <2> QED BY <1>b, <2>1, <2>2, <2>4
<1>7. CASE LayerDisable
  <2>1. PICK d : d = [i \in DOMAIN cmdTx |-> <<cmdTx[i].cmd, "dropped", cmdTx[i].cmd>>]
    OBVIOUS
  <2>2. /\ d \in Seq(Endings) /\ Len(d) = Len(cmdTx) /\ DOMAIN d = DOMAIN cmdTx
        /\ ended' = ended \o d /\ cmdTx' = <<>> /\ UNCHANGED <<issued, dliQ, cpQ>>
    BY <1>7, <2>1, DisableEffect
  <2>3. \A i \in DOMAIN cmdTx : d[i][1] = cmdTx[i].cmd
    BY <2>1
  <2>4. D \cap B = {}
    BY <1>p DEF Apart
  <2>5. Once(EndKeys(ended')) /\ Held(EndKeys(ended')) \subseteq D \cup B
    BY <1>0, <1>p, <2>2, <2>3, <2>4, EndKeysAll DEF B, D
  <2>6. Once(ListOf(cmdTx')) /\ Held(ListOf(cmdTx')) = {}
    BY <2>2 DEF ListOf, Once, Held
  <2>7. /\ Held(SendKeys(dliQ')) = A /\ Held(CpKeys(cpQ')) = C
        /\ Once(SendKeys(dliQ')) /\ Once(CpKeys(cpQ'))
    BY <1>p, <2>2 DEF A, C
  <2>8. Apart(Held(SendKeys(dliQ')), Held(ListOf(cmdTx')), Held(CpKeys(cpQ')), Held(EndKeys(ended')))
    BY <1>p, <2>5, <2>6, <2>7 DEF Apart
  <2> QED BY <1>p, <2>2, <2>5, <2>6, <2>7, <2>8 DEF Placed
<1>8. ASSUME NEW e \in Events, dliQ' = dliQ \/ dliQ' = Append(dliQ, e), UNCHANGED <<issued, cpQ, ended, cmdTx>>
      PROVE  Placed'
  <2>1. e \in DliTasks /\ e.type # "Send"
    BY EventIs DEF DliTasks
  <2>2. Once(SendKeys(dliQ')) /\ Held(SendKeys(dliQ')) \subseteq A
    BY <1>0, <1>p, <1>8, <2>1, SendKeysStep DEF A
  <2> QED BY <1>a, <1>8, <2>2
<1>9. CASE CtlAnswer
  BY <1>8, <1>9, AnswerEffect
<1>10. CASE CtlFinal
  BY <1>8, <1>10, FinalEffect
<1> QED BY <1>1, <1>2, <1>3, <1>4, <1>5, <1>6, <1>7, <1>9, <1>10

-----------------------------------------------------------------------------
(* The order of the list. *)

\* A command that leaves the list or is marked leaves the order of the others.
LEMMA SentFirstKept ==
    ASSUME cmdTx \in Seq(Nodes), NEW p \in 1 .. Len(cmdTx),
           \A i, j \in DOMAIN cmdTx : i < j /\ cmdTx[j].isSent => cmdTx[i].isSent
    PROVE  /\ LET l == RemoveAt(cmdTx, p)
              IN  \A i, j \in DOMAIN l : i < j /\ l[j].isSent => l[i].isSent
           /\ LET l == [cmdTx EXCEPT ![p].isRecvStatusEvt = TRUE]
              IN  \A i, j \in DOMAIN l : i < j /\ l[j].isSent => l[i].isSent
<1>1. Len(cmdTx) \in Nat /\ DOMAIN cmdTx = 1 .. Len(cmdTx)
  OBVIOUS
<1>2. PICK l : l = RemoveAt(cmdTx, p)
  OBVIOUS
<1>3. /\ l \in Seq(Nodes) /\ Len(l) = Len(cmdTx) - 1
      /\ \A j \in 1 .. Len(cmdTx) - 1 : l[j] = IF j < p THEN cmdTx[j] ELSE cmdTx[j + 1]
  BY <1>2, RemoveAtProperties
<1>4. DOMAIN l = 1 .. Len(cmdTx) - 1
  BY <1>3
<1>5. \A i, j \in DOMAIN l : i < j /\ l[j].isSent => l[i].isSent
  <2> DEFINE at(i) == IF i < p THEN i ELSE i + 1
  <2>1. \A i \in DOMAIN l : at(i) \in DOMAIN cmdTx /\ l[i] = cmdTx[at(i)]
    BY <1>1, <1>3, <1>4
  <2>2. \A i, j \in DOMAIN l : i < j => at(i) < at(j)
    BY <1>1, <1>4
  <2> HIDE DEF at
  <2> QED BY <2>1, <2>2
<1>6. PICK n : n = [cmdTx[p] EXCEPT !.isRecvStatusEvt = TRUE]
  OBVIOUS
<1>7. cmdTx[p] \in Nodes
  OBVIOUS
<1>8. n.isSent = cmdTx[p].isSent
  BY <1>6, <1>7 DEF Nodes
<1>9. PICK m : m = [cmdTx EXCEPT ![p] = n]
  OBVIOUS
<1>10. DOMAIN m = DOMAIN cmdTx /\ \A i \in DOMAIN m : m[i].isSent = cmdTx[i].isSent
  BY <1>8, <1>9
<1>11. \A i, j \in DOMAIN m : i < j /\ m[j].isSent => m[i].isSent
  BY <1>10
<1> QED BY <1>2, <1>5, <1>6, <1>9, <1>11

\* Every step keeps the order of the list.
LEMMA ListInOrderStep ==
    ASSUME CmdTypeOK, Placed, ListInOrder, Next
    PROVE  ListInOrder'
<1>0. /\ cmdTx \in Seq(Nodes) /\ Len(cmdTx) \in Nat /\ DOMAIN cmdTx = 1 .. Len(cmdTx)
      /\ rest \in Seq(Cmds) /\ Len(rest) \in Nat /\ DOMAIN rest = 1 .. Len(rest)
  BY DEF CmdTypeOK
<1>s. \A i, j \in DOMAIN cmdTx : i < j /\ cmdTx[j].isSent => cmdTx[i].isSent
  BY DEF ListInOrder
<1>a. ASSUME UNCHANGED <<cmdTx, rest, inited>> PROVE ListInOrder'
  BY <1>a DEF ListInOrder
<1>b. ASSUME cmdTx' \in Seq(Nodes), rest' = <<>>,
             \A i, j \in DOMAIN cmdTx' : i < j /\ cmdTx'[j].isSent => cmdTx'[i].isSent,
             ~inited' => cmdTx' = <<>>
      PROVE  ListInOrder'
  <2>1. Len(rest') = 0 /\ DOMAIN rest' = {} /\ Len(cmdTx') \in Nat
    BY <1>b
  <2> QED BY <1>b, <2>1 DEF ListInOrder
<1>c. ASSUME cmdTx' \in Seq(Nodes), rest' = ListOf(cmdTx'),
             \A i, j \in DOMAIN cmdTx' : i < j /\ cmdTx'[j].isSent => cmdTx'[i].isSent,
             ~inited' => cmdTx' = <<>>
      PROVE  ListInOrder'
  <2>1. /\ Len(rest') = Len(cmdTx') /\ DOMAIN rest' = DOMAIN cmdTx' /\ Len(cmdTx') \in Nat
        /\ \A i \in DOMAIN cmdTx' : rest'[i] = cmdTx'[i].cmd
        /\ DOMAIN cmdTx' = 1 .. Len(cmdTx')
    BY <1>c, ListOfType
  <2>2. \A j \in DOMAIN cmdTx' : Len(cmdTx') - Len(rest') + j = j
    BY <2>1
  <2>3. 1 .. Len(cmdTx') - Len(rest') = {}
    BY <2>1
  <2>4. Len(rest') <= Len(cmdTx')
    BY <2>1
  <2> QED BY <1>c, <2>1, <2>2, <2>3, <2>4 DEF ListInOrder
<1>1. CASE ExecuteCommand \/ CpReg \/ CpEvent \/ CpTimeout \/ SubOne \/ CtlAnswer \/ CtlFinal
  <2>1. UNCHANGED <<cmdTx, rest, inited>>
    <3>1. CASE ExecuteCommand \/ CpReg \/ CpTimeout
      BY <3>1 DEF ExecuteCommand, CpReg, CpTimeout, dliVars
    <3>2. CASE CpEvent
      BY <3>2 DEF CpEvent, dliVars
    <3>3. CASE SubOne
      BY <3>3 DEF SubOne
    <3>4. CASE CtlAnswer
      BY <3>4 DEF CtlAnswer, dliVars
    <3>5. CASE CtlFinal
      BY <3>5 DEF CtlFinal, dliVars
    <3> QED BY <1>1, <3>1, <3>2, <3>3, <3>4, <3>5
  <2> QED BY <1>a, <2>1
<1>2. CASE DliSend
  <2>1. PICK c : c = Head(dliQ).cmd
    OBVIOUS
  <2>2. /\ c \in Cmds /\ inited' = inited
        /\ \/ inited /\ cmdTx' = Append(cmdTx, Node(c))
           \/ cmdTx' = cmdTx
        /\ rest' = ListOf(cmdTx') \/ rest' = <<>>
    BY <1>2, <2>1, SendEffect
  <2>3. cmdTx' \in Seq(Nodes) /\ (~inited' => cmdTx' = <<>>)
    <3>1. Append(cmdTx, Node(c)) \in Seq(Nodes)
      BY <1>0, <2>2, MadeTypes, AppendElements
    <3> QED BY <1>0, <2>2, <3>1 DEF ListInOrder
  <2>4. \A i, j \in DOMAIN cmdTx' : i < j /\ cmdTx'[j].isSent => cmdTx'[i].isSent
    <3>1. CASE cmdTx' = Append(cmdTx, Node(c))
      <4>1. PICK n : n = Node(c)
        OBVIOUS
      <4>2. n \in Nodes /\ ~n.isSent
        BY <2>2, <4>1, MadeTypes DEF Node
      <4>3. /\ cmdTx' \in Seq(Nodes) /\ Len(cmdTx') = Len(cmdTx) + 1
            /\ \A i \in 1 .. Len(cmdTx) + 1 : cmdTx'[i] = IF i \in 1 .. Len(cmdTx) THEN cmdTx[i] ELSE n
        BY <1>0, <3>1, <4>1, <4>2, AppendElements
      <4>4. DOMAIN cmdTx' = 1 .. Len(cmdTx) + 1
        BY <4>3
      <4> QED BY <1>0, <1>s, <4>2, <4>3, <4>4
    <3>2. CASE cmdTx' = cmdTx
      BY <1>s, <3>2
    <3> QED BY <2>2, <3>1, <3>2
  <2> QED BY <1>b, <1>c, <2>2, <2>3, <2>4
<1>3. CASE DliNext
  <2>1. rest' = ListOf(cmdTx') /\ UNCHANGED <<cmdTx, inited>>
    BY <1>3 DEF DliNext
  <2>2. ~inited' => cmdTx' = <<>>
    BY <2>1 DEF ListInOrder
  <2> QED BY <1>0, <1>s, <1>c, <2>1, <2>2
<1>4. CASE Visit
  <2>1. PICK p : p = Len(cmdTx) - Len(rest) + 1
    OBVIOUS
  <2>2. /\ rest # <<>> /\ p \in DOMAIN cmdTx /\ inited' = inited
        /\ rest' = <<>> \/ rest' = Tail(rest)
        /\ \/ (rest' = <<>> \/ cmdTx[p].isSent) /\ cmdTx' = cmdTx
           \/ rest' = Tail(rest) /\ cmdTx' = [cmdTx EXCEPT ![p].isSent = TRUE] /\ cmdTx' \in Seq(Nodes)
    BY <1>4, <2>1, VisitEffect
  <2>3. PICK n : n = [cmdTx[p] EXCEPT !.isSent = TRUE]
    OBVIOUS
  <2>4. n.isSent /\ n.cmd = cmdTx[p].cmd
    <3>1. cmdTx[p] \in Nodes
      BY <1>0, <2>2
    <3> QED BY <2>3, <3>1 DEF Nodes
  <2>5. /\ Len(cmdTx') = Len(cmdTx) /\ DOMAIN cmdTx' = DOMAIN cmdTx /\ cmdTx' \in Seq(Nodes)
        /\ \A i \in DOMAIN cmdTx : cmdTx'[i].cmd = cmdTx[i].cmd
        /\ \A i \in DOMAIN cmdTx : i # p => cmdTx'[i].isSent = cmdTx[i].isSent
    <3>1. CASE cmdTx' = cmdTx
      BY <1>0, <3>1
    <3>2. CASE cmdTx' = [cmdTx EXCEPT ![p] = n] /\ cmdTx' \in Seq(Nodes)
      BY <1>0, <2>2, <2>4, <3>2
    <3> QED BY <2>2, <2>3, <3>1, <3>2
  <2>6. rest' # <<>> => cmdTx'[p].isSent
    BY <2>2, <2>3, <2>4
  <2>7. cmdTx'[p].isSent = cmdTx[p].isSent \/ (rest' = Tail(rest) /\ cmdTx'[p].isSent)
    BY <2>2, <2>3, <2>4
  <2>8. \A i \in 1 .. p - 1 : cmdTx[i].isSent
    BY <1>0, <2>1, <2>2 DEF ListInOrder
  <2>9. \A i, j \in DOMAIN cmdTx' : i < j /\ cmdTx'[j].isSent => cmdTx'[i].isSent
    BY <1>0, <1>s, <2>2, <2>5, <2>7, <2>8, SMTT(30)
  <2>10. ~inited' => cmdTx' = <<>>
    BY <1>0, <2>2 DEF ListInOrder
  <2>11. CASE rest' = <<>>
    BY <1>b, <2>2, <2>5, <2>9, <2>10, <2>11
  <2>12. CASE rest' = Tail(rest) /\ rest' # <<>>
    <3>1. /\ rest' \in Seq(Cmds) /\ Len(rest') = Len(rest) - 1 /\ Len(rest) \in Nat \ {0}
          /\ \A i \in 1 .. Len(rest) - 1 : rest'[i] = rest[i + 1]
      BY <1>0, <2>2, <2>12, TailElements
    <3>2. Len(cmdTx') - Len(rest') = p /\ Len(rest') <= Len(cmdTx') /\ DOMAIN rest' = 1 .. Len(rest) - 1
      BY <1>0, <2>1, <2>5, <3>1 DEF ListInOrder
    <3>3. \A j \in DOMAIN rest' : rest'[j] = cmdTx'[Len(cmdTx') - Len(rest') + j].cmd
      <4> SUFFICES ASSUME NEW j \in DOMAIN rest'
                   PROVE  rest'[j] = cmdTx'[p + j].cmd
        BY <3>2
      <4>1. j + 1 \in DOMAIN rest /\ rest'[j] = rest[j + 1]
        BY <1>0, <3>1, <3>2
      <4>2. rest[j + 1] = cmdTx[Len(cmdTx) - Len(rest) + (j + 1)].cmd /\ Len(rest) <= Len(cmdTx)
        BY <4>1 DEF ListInOrder
      <4>3. Len(cmdTx) - Len(rest) + (j + 1) = p + j /\ p + j \in DOMAIN cmdTx
        BY <1>0, <2>1, <3>1, <3>2, <4>2
      <4> QED BY <2>5, <4>1, <4>2, <4>3
    <3>4. \A i \in 1 .. Len(cmdTx') - Len(rest') : cmdTx'[i].isSent
      <4> SUFFICES ASSUME NEW i \in 1 .. p PROVE cmdTx'[i].isSent
        BY <3>2
      <4>1. i \in DOMAIN cmdTx /\ (i = p \/ i \in 1 .. p - 1)
        BY <1>0, <2>2
      <4> QED BY <2>5, <2>6, <2>8, <2>12, <4>1
    <3> QED BY <2>9, <2>10, <3>2, <3>3, <3>4 DEF ListInOrder
  <2> QED BY <2>2, <2>11, <2>12
<1>5. CASE DliEvent
  <2>1. PICK e : e = Head(dliQ)
    OBVIOUS
  <2>2. PICK i : i = CmdNodeRemove(e)
    OBVIOUS
  <2>3. PICK j : j = StatusMarks(e)
    OBVIOUS
  <2>4. /\ i = 0 \/ i \in DOMAIN cmdTx
        /\ j = 0 \/ j \in DOMAIN cmdTx
        /\ cmdTx' = IF i # 0 THEN RemoveAt(cmdTx, i)
                    ELSE IF j # 0 THEN [cmdTx EXCEPT ![j].isRecvStatusEvt = TRUE] ELSE cmdTx
        /\ cmdTx' \in Seq(Nodes) /\ rest = <<>> /\ rest' = rest /\ inited' = inited
    BY <1>5, <2>1, <2>2, <2>3, EventEffect
  <2>5. i \in 1 .. Len(cmdTx) \/ j \in 1 .. Len(cmdTx) => cmdTx # <<>>
    BY <1>0
  <2>6. ~inited' => cmdTx' = <<>>
    BY <1>0, <2>4, <2>5 DEF ListInOrder
  <2>7. \A a, b \in DOMAIN cmdTx' : a < b /\ cmdTx'[b].isSent => cmdTx'[a].isSent
    <3>1. CASE i # 0
      <4>1. i \in 1 .. Len(cmdTx) /\ cmdTx' = RemoveAt(cmdTx, i)
        BY <1>0, <2>4, <3>1
      <4> QED BY <1>0, <1>s, <4>1, SentFirstKept
    <3>2. CASE i = 0 /\ j # 0
      <4>1. j \in 1 .. Len(cmdTx) /\ cmdTx' = [cmdTx EXCEPT ![j].isRecvStatusEvt = TRUE]
        BY <1>0, <2>4, <3>2
      <4> QED BY <1>0, <1>s, <4>1, SentFirstKept
    <3>3. CASE i = 0 /\ j = 0
      BY <1>s, <2>4, <3>3
    <3> QED BY <3>1, <3>2, <3>3
  <2> QED BY <1>b, <2>4, <2>6, <2>7
<1>6. CASE CmdTimer
  <2>1. PICK i \in DOMAIN cmdTx :
          /\ i \in 1 .. Len(cmdTx) /\ cmdTx' = RemoveAt(cmdTx, i) /\ cmdTx' \in Seq(Nodes)
          /\ rest = <<>> /\ UNCHANGED <<inited, rest>>
    BY <1>6, TimerEffect
  <2>2. \A a, b \in DOMAIN cmdTx' : a < b /\ cmdTx'[b].isSent => cmdTx'[a].isSent
    BY <1>0, <1>s, <2>1, SentFirstKept
  <2>3. inited
    BY <1>0, <2>1 DEF ListInOrder
  <2> QED BY <1>b, <2>1, <2>2, <2>3
<1>7. CASE LayerDisable
  <2>1. cmdTx' = <<>> /\ rest' = <<>> /\ inited' = FALSE
    BY <1>7 DEF LayerDisable, DliIdle
  <2>2. cmdTx' \in Seq(Nodes) /\ DOMAIN cmdTx' = {}
    <3>1. <<>> \in Seq(Nodes)
      OBVIOUS
    <3> QED BY <2>1, <3>1
  <2> QED BY <1>b, <2>1, <2>2
<1> QED BY <1>1, <1>2, <1>3, <1>4, <1>5, <1>6, <1>7 DEF Next

-----------------------------------------------------------------------------
(* The callbacks. *)

\* The registrations that are pending without the first task of the queue.
LEMMA PendingTail ==
    ASSUME NEW q \in Seq(CpTasks), q # <<>>
    PROVE  /\ \A type, c : Pending(q, type, c) <=>
                (Head(q).type = type /\ Head(q).cmd = c) \/ Pending(Tail(q), type, c)
           /\ RegsApart(q) => /\ RegsApart(Tail(q))
                              /\ Head(q).type \in {"Reg", "UnReg"} => ~Pending(Tail(q), Head(q).type, Head(q).cmd)
           /\ RegFirst(q) => /\ RegFirst(Tail(q))
                             /\ Head(q).type \in {"Event", "Timeout"} => ~Pending(q, "Reg", Head(q).node.cmd)
<1> DEFINE n == Len(q)
<1>1. PICK u : u = Tail(q)
  OBVIOUS
<1>2. PICK h : h = Head(q)
  OBVIOUS
<1>3. n \in Nat \ {0} /\ Len(u) = n - 1 /\ u \in Seq(CpTasks) /\ h = q[1] /\ \A i \in 1 .. n - 1 : u[i] = q[i + 1]
  BY <1>1, <1>2, TailElements
<1>4. DOMAIN q = 1 .. n
  OBVIOUS
<1>5. DOMAIN u = 1 .. n - 1
  BY <1>3
<1> HIDE DEF n
<1>6. \A i \in DOMAIN u : i + 1 \in DOMAIN q /\ u[i] = q[i + 1] /\ i + 1 # 1
  BY <1>3, <1>4, <1>5
<1>7. \A i \in DOMAIN q : i = 1 \/ (i - 1 \in DOMAIN u /\ u[i - 1] = q[i])
  BY <1>3, <1>4, <1>5
<1>8. 1 \in DOMAIN q
  BY <1>3, <1>4
<1>9. ASSUME NEW type, NEW c
      PROVE  Pending(q, type, c) <=> (h.type = type /\ h.cmd = c) \/ Pending(u, type, c)
  BY <1>3, <1>6, <1>7, <1>8 DEF Pending
<1>10. ASSUME RegsApart(q)
       PROVE  RegsApart(u) /\ (h.type \in {"Reg", "UnReg"} => ~Pending(u, h.type, h.cmd))
  <2>1. RegsApart(u)
    <3> SUFFICES ASSUME NEW i \in DOMAIN u, NEW j \in DOMAIN u,
                        u[i].type \in {"Reg", "UnReg"}, u[j].type = u[i].type, u[j].cmd = u[i].cmd
                 PROVE  i = j
      BY DEF RegsApart
    <3>1. i + 1 = j + 1
      BY <1>6, <1>10 DEF RegsApart
    <3> QED BY <1>3, <1>5, <3>1
  <2>2. h.type \in {"Reg", "UnReg"} => ~Pending(u, h.type, h.cmd)
    BY <1>3, <1>6, <1>8, <1>10 DEF RegsApart, Pending
  <2> QED BY <2>1, <2>2
<1>11. ASSUME RegFirst(q)
       PROVE  RegFirst(u) /\ (h.type \in {"Event", "Timeout"} => ~Pending(q, "Reg", h.node.cmd))
  <2>1. RegFirst(u)
    <3> SUFFICES ASSUME NEW i \in DOMAIN u, NEW j \in DOMAIN u,
                        u[i].type = "Reg", u[j].type \in {"Event", "Timeout"}, u[j].node.cmd = u[i].cmd
                 PROVE  i < j
      BY DEF RegFirst
    <3>1. i + 1 < j + 1
      BY <1>6, <1>11 DEF RegFirst
    <3> QED BY <1>3, <1>5, <3>1
  <2>2. h.type \in {"Event", "Timeout"} => ~Pending(q, "Reg", h.node.cmd)
    <3> SUFFICES ASSUME h.type \in {"Event", "Timeout"}, NEW i \in DOMAIN q,
                        q[i].type = "Reg", q[i].cmd = h.node.cmd
                 PROVE  FALSE
      BY DEF Pending
    <3>1. i < 1
      BY <1>3, <1>8, <1>11 DEF RegFirst
    <3> QED BY <1>3, <1>4, <3>1
  <2> QED BY <2>1, <2>2
<1> QED BY <1>1, <1>2, <1>9, <1>10, <1>11

\* The registrations that are pending with a task more.
LEMMA PendingAppend ==
    ASSUME NEW q \in Seq(CpTasks), NEW t \in CpTasks
    PROVE  /\ \A type, c : Pending(Append(q, t), type, c) <=>
                Pending(q, type, c) \/ (t.type = type /\ t.cmd = c)
           /\ RegsApart(q) /\ (t.type \in {"Reg", "UnReg"} => ~Pending(q, t.type, t.cmd))
                => RegsApart(Append(q, t))
           /\ RegFirst(q) /\ (t.type = "Reg" => t.cmd \notin Held(CpKeys(q)) /\ t.cmd # 0)
                => RegFirst(Append(q, t))
<1> DEFINE n == Len(q)
<1>1. PICK u : u = Append(q, t)
  OBVIOUS
<1>2. /\ n \in Nat /\ Len(u) = n + 1 /\ u \in Seq(CpTasks)
      /\ \A i \in 1 .. n + 1 : u[i] = IF i \in 1 .. n THEN q[i] ELSE t
  BY <1>1, AppendElements
<1>3. DOMAIN q = 1 .. n
  OBVIOUS
<1>4. DOMAIN u = 1 .. n + 1
  BY <1>2
<1> HIDE DEF n
<1>5. \A i \in DOMAIN q : i \in DOMAIN u /\ u[i] = q[i] /\ i < n + 1
  BY <1>2, <1>3, <1>4
<1>6. \A i \in DOMAIN u : i = n + 1 \/ i \in DOMAIN q
  BY <1>2, <1>3, <1>4
<1>7. n + 1 \in DOMAIN u /\ u[n + 1] = t
  BY <1>2, <1>4
<1>8. ASSUME NEW type, NEW c
      PROVE  Pending(u, type, c) <=> Pending(q, type, c) \/ (t.type = type /\ t.cmd = c)
  BY <1>5, <1>6, <1>7 DEF Pending
<1>9. ASSUME RegsApart(q), t.type \in {"Reg", "UnReg"} => ~Pending(q, t.type, t.cmd)
      PROVE  RegsApart(u)
  <2> SUFFICES ASSUME NEW i \in DOMAIN u, NEW j \in DOMAIN u,
                      u[i].type \in {"Reg", "UnReg"}, u[j].type = u[i].type, u[j].cmd = u[i].cmd
               PROVE  i = j
    BY DEF RegsApart
  <2>1. CASE i \in DOMAIN q /\ j \in DOMAIN q
    BY <1>5, <1>9, <2>1 DEF RegsApart
  <2>2. CASE i = n + 1 /\ j \in DOMAIN q
    BY <1>5, <1>7, <1>9, <2>2 DEF Pending
  <2>3. CASE i \in DOMAIN q /\ j = n + 1
    BY <1>5, <1>7, <1>9, <2>3 DEF Pending
  <2> QED BY <1>6, <2>1, <2>2, <2>3
<1>10. ASSUME RegFirst(q), t.type = "Reg" => t.cmd \notin Held(CpKeys(q)) /\ t.cmd # 0
       PROVE  RegFirst(u)
  <2> SUFFICES ASSUME NEW i \in DOMAIN u, NEW j \in DOMAIN u,
                      u[i].type = "Reg", u[j].type \in {"Event", "Timeout"}, u[j].node.cmd = u[i].cmd
               PROVE  i < j
    BY DEF RegFirst
  <2>1. CASE i \in DOMAIN q /\ j \in DOMAIN q
    BY <1>5, <1>10, <2>1 DEF RegFirst
  <2>2. CASE i \in DOMAIN q /\ j = n + 1
    BY <1>5, <2>2
  <2>3. CASE i = n + 1 /\ j \in DOMAIN q
    <3>1. CpKeys(q)[j] = t.cmd /\ j \in DOMAIN CpKeys(q)
      BY <1>5, <1>7, <2>3 DEF CpKeys
    <3>2. t.type = "Reg"
      BY <1>7, <2>3
    <3> QED BY <1>10, <3>1, <3>2 DEF Held
  <2>4. CASE i = n + 1 /\ j = n + 1
    BY <1>7, <2>4
  <2> QED BY <1>6, <2>1, <2>2, <2>3, <2>4
<1> QED BY <1>1, <1>8, <1>9, <1>10

\* The answers, with an ending more.
LEMMA AnsweredAppend ==
    ASSUME NEW l \in Seq(Endings), NEW x \in Endings
    PROVE  \A c : Answered(Append(l, x), c) <=> Answered(l, c) \/ (x[1] = c /\ x[2] = "answered")
<1>1. PICK u : u = Append(l, x)
  OBVIOUS
<1>2. /\ Len(l) \in Nat /\ Len(u) = Len(l) + 1 /\ u \in Seq(Endings)
      /\ \A i \in 1 .. Len(l) + 1 : u[i] = IF i \in 1 .. Len(l) THEN l[i] ELSE x
  BY <1>1, AppendElements
<1>3. DOMAIN l = 1 .. Len(l)
  OBVIOUS
<1>4. DOMAIN u = 1 .. Len(l) + 1
  BY <1>2
<1>5. \A i \in DOMAIN l : i \in DOMAIN u /\ u[i] = l[i]
  BY <1>2, <1>3, <1>4
<1>6. \A i \in DOMAIN u : (i \in DOMAIN l /\ u[i] = l[i]) \/ u[i] = x
  BY <1>2, <1>3, <1>4
<1>7. \E i \in DOMAIN u : u[i] = x
  <2>1. Len(l) + 1 \in DOMAIN u /\ u[Len(l) + 1] = x
    BY <1>2, <1>4
  <2> QED BY <2>1
<1>8. ASSUME NEW c PROVE Answered(u, c) <=> Answered(l, c) \/ (x[1] = c /\ x[2] = "answered")
  BY <1>5, <1>6, <1>7 DEF Answered
<1> QED BY <1>1, <1>8

\* The commands whose callback is registered are finitely many.
LEMMA RegisteredFinite ==
    ASSUME NEW q, NEW l, NEW n \in Nat, NEW o
    PROVE  IsFiniteSet(Registered(q, l, n, o)) /\ Registered(q, l, n, o) \subseteq 1 .. n
<1>1. IsFiniteSet(1 .. n)
  BY FS_Interval
<1>2. Registered(q, l, n, o) \subseteq 1 .. n
  BY DEF Registered
<1> QED BY <1>1, <1>2, FS_Subset

\* A complete event that reaches the CP thread finds its callback.
LEMMA CallbackFound ==
    ASSUME CmdTypeOK, Placed, RegsOK, cpQ # <<>>, Head(cpQ).type = "Event",
           Head(cpQ).event.kind = "Complete", Head(cpQ).node.cmd # 0
    PROVE  regs[Head(cpQ).event.op] > 0 /\ ~Answered(ended, Head(cpQ).node.cmd)
<1>1. PICK e : e = Head(cpQ).event
  OBVIOUS
<1>2. PICK c : c = Head(cpQ).node.cmd
  OBVIOUS
<1>3. cpQ \in Seq(CpTasks) /\ issued \in Nat /\ ended \in Seq(Endings)
  BY CmdNumbers DEF CmdTypeOK
<1>4. Head(cpQ) \in CpTasks
  BY <1>3, TailElements
<1>5. e \in Events /\ c \in Cmds /\ Op(c) = e.op
  BY <1>1, <1>2, <1>4, CpTaskIs
<1>6. e.op \in Range(ToSend) /\ e.op \in Complete
  BY <1>1, <1>5, EventIs
<1>7. c \in Held(CpKeys(cpQ))
  BY <1>2, <1>3, CpKeysStep DEF Placed
<1>8. c \in 1 .. issued /\ c \notin Held(EndKeys(ended))
  BY <1>7 DEF Placed, Apart
<1>9. ~Answered(ended, c)
  <2> SUFFICES ASSUME NEW i \in DOMAIN ended, ended[i][1] = c PROVE FALSE
    BY DEF Answered
  <2>1. i \in DOMAIN EndKeys(ended) /\ EndKeys(ended)[i] = c
    BY DEF EndKeys
  <2>2. c # 0
    BY <1>5, CmdNumbers
  <2> QED BY <1>8, <2>1, <2>2 DEF Held
<1>10. ~Pending(cpQ, "Reg", c)
  BY <1>2, <1>3, PendingTail DEF RegsOK
<1> DEFINE R == Registered(cpQ, ended, issued, e.op)
<1>11. c \in R
  BY <1>5, <1>6, <1>8, <1>9, <1>10 DEF Registered
<1>12. IsFiniteSet(R) /\ regs[e.op] = Cardinality(R)
  BY <1>3, <1>6, RegisteredFinite DEF RegsOK
<1> HIDE DEF R
<1>13. Cardinality(R) \in Nat /\ Cardinality(R) # 0
  BY <1>11, <1>12, FS_CardinalityType, FS_EmptySet
<1> QED BY <1>1, <1>2, <1>9, <1>12, <1>13

\* A step that neither registers, unregisters nor answers.
LEMMA RegsSame ==
    ASSUME RegsOK, UNCHANGED <<regs, issued>>, RegsApart(cpQ'), RegFirst(cpQ'),
           \A c : Pending(cpQ', "Reg", c) <=> Pending(cpQ, "Reg", c),
           \A c : Pending(cpQ', "UnReg", c) <=> Pending(cpQ, "UnReg", c),
           \A c : Answered(ended', c) <=> Answered(ended, c)
    PROVE  RegsOK'
<1>1. \A o : Registered(cpQ', ended', issued', o) = Registered(cpQ, ended, issued, o)
  BY DEF Registered
<1> QED BY <1>1 DEF RegsOK

\* Steps of the CP thread keep the registrations right.
LEMMA RegsCp ==
    ASSUME CmdTypeOK, Placed, RegsOK, ExecuteCommand \/ CpReg \/ CpEvent \/ CpTimeout
    PROVE  RegsOK'
<1>0. cpQ \in Seq(CpTasks) /\ issued \in Nat /\ ended \in Seq(Endings) /\ regs \in [Range(ToSend) -> Nat]
  BY CmdNumbers DEF CmdTypeOK
<1>r. RegsApart(cpQ) /\ RegFirst(cpQ)
  BY DEF RegsOK
<1>n. \A c : Answered(ended, c) /\ c # 0 => c \in 1 .. issued
  <2> SUFFICES ASSUME NEW i \in DOMAIN ended, ended[i][1] # 0 PROVE ended[i][1] \in 1 .. issued
    BY DEF Answered
  <2>1. i \in DOMAIN EndKeys(ended) /\ EndKeys(ended)[i] = ended[i][1]
    BY DEF EndKeys
  <2>2. ended[i][1] \in Held(EndKeys(ended))
    BY <2>1 DEF Held
  <2> QED BY <2>2 DEF Placed
<1>1. CASE ExecuteCommand
  <2>1. issued' = issued + 1 /\ issued' \in Cmds /\ issued' # 0
    BY <1>0, <1>1, CmdNumbers DEF ExecuteCommand
  <2>2. PICK c : c = issued'
    OBVIOUS
  <2>3. PICK t : t = CpTask("Reg", c)
    OBVIOUS
  <2>4. t \in CpTasks /\ t.type = "Reg" /\ t.cmd = c
    BY <2>1, <2>2, <2>3, MadeTypes DEF CpTask
  <2>5. /\ IF Op(c) \in Complete THEN cpQ' = Append(cpQ, t) ELSE cpQ' = cpQ
        /\ UNCHANGED <<regs, ended>>
    BY <1>1, <2>2, <2>3 DEF ExecuteCommand
  <2>6. c \notin 1 .. issued /\ c \in Cmds /\ c # 0
    BY <1>0, <2>1, <2>2
  <2>7. ~Pending(cpQ, "Reg", c) /\ ~Pending(cpQ, "UnReg", c) /\ ~Answered(ended, c)
    BY <1>0, <1>n, <2>1, <2>2, <2>6, CmdNumbers DEF RegsOK
  <2>8. c \notin Held(CpKeys(cpQ))
    BY <2>6 DEF Placed
  <2>9. /\ \A type, d :
             Pending(cpQ', type, d) <=> Pending(cpQ, type, d) \/ (Op(c) \in Complete /\ type = "Reg" /\ d = c)
        /\ RegsApart(cpQ') /\ RegFirst(cpQ')
    <3>1. CASE Op(c) \in Complete
      <4>1. cpQ' = Append(cpQ, t)
        BY <2>5, <3>1
      <4>2. \A type, d : Pending(cpQ', type, d) <=> Pending(cpQ, type, d) \/ (t.type = type /\ t.cmd = d)
        BY <1>0, <2>4, <4>1, PendingAppend
      <4>3. RegsApart(cpQ')
        BY <1>0, <1>r, <2>4, <2>7, <4>1, PendingAppend
      <4>4. RegFirst(cpQ')
        BY <1>0, <1>r, <2>4, <2>6, <2>8, <4>1, PendingAppend
      <4> QED BY <2>4, <3>1, <4>2, <4>3, <4>4
    <3>2. CASE Op(c) \notin Complete
      BY <1>r, <2>5, <3>2
    <3> QED BY <3>1, <3>2
  <2>10. ASSUME NEW o PROVE Registered(cpQ', ended', issued', o) = Registered(cpQ, ended, issued, o)
    <3>1. \A d \in 1 .. issued' : d = c \/ d \in 1 .. issued
      BY <1>0, <2>1, <2>2
    <3>2. \A d \in 1 .. issued : d \in 1 .. issued' /\ d # c
      BY <1>0, <2>1, <2>2
    <3>3. c \notin Registered(cpQ', ended', issued', o)
      BY <2>9 DEF Registered
    <3>4. \A d \in 1 .. issued : /\ Pending(cpQ', "Reg", d) <=> Pending(cpQ, "Reg", d)
                                 /\ Pending(cpQ', "UnReg", d) <=> Pending(cpQ, "UnReg", d)
      BY <2>9, <3>2
    <3> QED BY <2>5, <3>1, <3>2, <3>3, <3>4 DEF Registered
  <2>11. \A d \in Cmds : d <= issued => d <= issued'
    BY <1>0, <2>1, CmdNumbers
  <2>12. c <= issued'
    BY <1>0, <2>1, <2>2
  <2>13. \A d \in Cmds : Pending(cpQ', "Reg", d) => d <= issued' /\ Op(d) \in Complete /\ ~Answered(ended', d)
    BY <2>5, <2>7, <2>9, <2>11, <2>12 DEF RegsOK
  <2>14. \A d \in Cmds : Pending(cpQ', "UnReg", d) => d <= issued' /\ Op(d) \in Complete /\ Answered(ended', d)
    BY <2>5, <2>9, <2>11 DEF RegsOK
  <2> QED BY <2>5, <2>9, <2>10, <2>13, <2>14 DEF RegsOK
<1>2. CASE CpReg
  <2>1. cpQ # <<>> /\ cpQ' = Tail(cpQ) /\ Head(cpQ).type \in {"Reg", "UnReg"} /\ UNCHANGED <<issued, ended>>
    BY <1>2 DEF CpReg
  <2>2. PICK c : c = Head(cpQ).cmd
    OBVIOUS
  <2>3. PICK o : o = Op(c)
    OBVIOUS
  <2>4. Head(cpQ) \in CpTasks
    BY <1>0, <2>1, TailElements
  <2>5. c \in Cmds /\ o \in Range(ToSend)
    BY <2>1, <2>2, <2>3, <2>4, CpTaskIs, CmdNumbers
  <2>6. /\ \A type, d : Pending(cpQ, type, d) <=> (Head(cpQ).type = type /\ c = d) \/ Pending(cpQ', type, d)
        /\ RegsApart(cpQ') /\ RegFirst(cpQ') /\ ~Pending(cpQ', Head(cpQ).type, c)
    BY <1>0, <1>r, <2>1, <2>2, PendingTail
  <2>7. PICK A : A = [p \in Range(ToSend) |-> Registered(cpQ, ended, issued, p)]
    OBVIOUS
  <2>8. PICK B : B = [p \in Range(ToSend) |-> Registered(cpQ', ended', issued', p)]
    OBVIOUS
  <2>9. \A p \in Range(ToSend) : p # o => B[p] = A[p]
    <3> SUFFICES ASSUME NEW p \in Range(ToSend), p # o PROVE B[p] = A[p]
      OBVIOUS
    <3>1. \A d \in 1 .. issued : Op(d) = p => d # c
      BY <2>3
    <3> QED BY <2>1, <2>6, <2>7, <2>8, <3>1 DEF Registered
  <2>10. \A p \in Range(ToSend) : regs[p] = Cardinality(A[p]) /\ IsFiniteSet(A[p])
    BY <1>0, <2>7, RegisteredFinite DEF RegsOK
  <2>11. c <= issued /\ c \in 1 .. issued /\ o \in Complete
    <3>1. Pending(cpQ, "Reg", c) \/ Pending(cpQ, "UnReg", c)
      BY <2>1, <2>6
    <3>2. c <= issued /\ o \in Complete
      BY <2>3, <2>5, <3>1 DEF RegsOK
    <3>3. c \in Nat /\ c >= 1
      BY <2>5, CmdNumbers
    <3> QED BY <1>0, <3>2, <3>3
  <2>12. ASSUME Head(cpQ).type = "Reg"
         PROVE  /\ regs' = [regs EXCEPT ![o] = @ + 1]
                /\ c \notin A[o] /\ B[o] = A[o] \cup {c}
    <3>1. regs' = [regs EXCEPT ![o] = @ + 1]
      BY <1>2, <2>2, <2>3, <2>12 DEF CpReg, Register
    <3>2. Pending(cpQ, "Reg", c) /\ ~Pending(cpQ', "Reg", c) /\ ~Answered(ended, c)
      BY <2>5, <2>6, <2>12 DEF RegsOK
    <3>3. c \notin A[o]
      BY <2>5, <2>7, <3>2 DEF Registered
    <3>4. c \in B[o]
      BY <2>1, <2>3, <2>5, <2>8, <2>11, <3>2 DEF Registered
    <3>5. \A d \in 1 .. issued : d # c => (d \in B[o] <=> d \in A[o])
      BY <2>1, <2>5, <2>6, <2>7, <2>8 DEF Registered
    <3>6. A[o] \subseteq 1 .. issued /\ B[o] \subseteq 1 .. issued
      BY <2>1, <2>5, <2>7, <2>8 DEF Registered
    <3> QED BY <3>1, <3>3, <3>4, <3>5, <3>6
  <2>13. ASSUME Head(cpQ).type = "UnReg"
         PROVE  /\ regs' = [regs EXCEPT ![o] = IF @ > 0 THEN @ - 1 ELSE 0]
                /\ c \in A[o] /\ B[o] = A[o] \ {c}
    <3>1. regs' = [regs EXCEPT ![o] = IF @ > 0 THEN @ - 1 ELSE 0]
      BY <1>2, <2>2, <2>3, <2>13 DEF CpReg
    <3>2. Pending(cpQ, "UnReg", c) /\ ~Pending(cpQ', "UnReg", c) /\ Answered(ended, c) /\ ~Pending(cpQ, "Reg", c)
      BY <2>5, <2>6, <2>13 DEF RegsOK
    <3>3. c \in A[o]
      BY <2>3, <2>5, <2>7, <2>11, <3>2 DEF Registered
    <3>4. c \notin B[o]
      BY <2>1, <2>5, <2>8, <3>2 DEF Registered
    <3>5. \A d \in 1 .. issued : d # c => (d \in B[o] <=> d \in A[o])
      BY <2>1, <2>5, <2>6, <2>7, <2>8 DEF Registered
    <3>6. A[o] \subseteq 1 .. issued /\ B[o] \subseteq 1 .. issued
      BY <2>1, <2>5, <2>7, <2>8 DEF Registered
    <3> QED BY <3>1, <3>3, <3>4, <3>5, <3>6
  <2>14. regs'[o] = Cardinality(B[o])
    <3>1. CASE Head(cpQ).type = "Reg"
      <4>1. Cardinality(A[o] \cup {c}) = Cardinality(A[o]) + 1
        BY <2>5, <2>10, <2>12, <3>1, FS_AddElement
      <4>2. regs'[o] = regs[o] + 1
        BY <1>0, <2>5, <2>12, <3>1
      <4> QED BY <2>5, <2>10, <2>12, <3>1, <4>1, <4>2
    <3>2. CASE Head(cpQ).type = "UnReg"
      <4>1. Cardinality(A[o] \ {c}) = Cardinality(A[o]) - 1
        BY <2>5, <2>10, <2>13, <3>2, FS_RemoveElement
      <4>2. Cardinality(A[o]) \in Nat /\ Cardinality(A[o]) # 0
        BY <2>5, <2>10, <2>13, <3>2, FS_CardinalityType, FS_EmptySet
      <4>3. regs'[o] = IF regs[o] > 0 THEN regs[o] - 1 ELSE 0
        BY <1>0, <2>5, <2>13, <3>2
      <4>4. B[o] = A[o] \ {c} /\ regs[o] = Cardinality(A[o])
        BY <2>5, <2>10, <2>13, <3>2
      <4>5. regs'[o] = Cardinality(A[o]) - 1
        BY <4>2, <4>3, <4>4
      <4> QED BY <4>1, <4>4, <4>5
    <3> QED BY <2>1, <3>1, <3>2
  <2>15. \A p \in Range(ToSend) : p # o => regs'[p] = regs[p]
    BY <1>0, <2>1, <2>12, <2>13
  <2>16. \A p \in Range(ToSend) : regs'[p] = Cardinality(Registered(cpQ', ended', issued', p))
    BY <2>8, <2>9, <2>10, <2>14, <2>15
  <2>17. \A d \in Cmds : Pending(cpQ', "Reg", d) => d <= issued' /\ Op(d) \in Complete /\ ~Answered(ended', d)
    BY <2>1, <2>6 DEF RegsOK
  <2>18. \A d \in Cmds : Pending(cpQ', "UnReg", d) => d <= issued' /\ Op(d) \in Complete /\ Answered(ended', d)
    BY <2>1, <2>6 DEF RegsOK
  <2> QED BY <2>6, <2>16, <2>17, <2>18 DEF RegsOK
<1>3. CASE CpEvent
  <2>1. PICK e \in Events, c \in Cmds \cup {0} :
          /\ cpQ # <<>> /\ Head(cpQ) \in CpTasks /\ Head(cpQ).type = "Event"
          /\ e = Head(cpQ).event /\ c = Head(cpQ).node.cmd /\ Tail(cpQ) \in Seq(CpTasks)
          /\ c # 0 => Op(c) = e.op
          /\ c = 0 => cpQ' = Tail(cpQ) /\ ended' = ended
          /\ c # 0 => \E how \in {"answered", "unheard"} :
               /\ ended' = Append(ended, <<c, how, e.of>>) /\ <<c, how, e.of>> \in Endings
               /\ e.kind = "Complete" => (how = "answered" <=> regs[e.op] > 0)
               /\ cpQ' = IF e.kind = "Complete" /\ regs[e.op] > 0
                         THEN Append(Tail(cpQ), CpTask("UnReg", c)) ELSE Tail(cpQ)
          /\ UNCHANGED <<issued, regs>>
    BY <1>3, CpEventEffect
  <2>2. PICK u : u = Tail(cpQ)
    OBVIOUS
  <2>3. /\ \A d : Pending(cpQ, "Reg", d) <=> Pending(u, "Reg", d)
        /\ \A d : Pending(cpQ, "UnReg", d) <=> Pending(u, "UnReg", d)
        /\ RegsApart(u) /\ RegFirst(u) /\ u \in Seq(CpTasks)
    BY <1>0, <1>r, <2>1, <2>2, PendingTail
  <2>4. CASE c = 0
    BY <2>1, <2>2, <2>3, <2>4, RegsSame
  <2>5. CASE c # 0
    <3>1. PICK how \in {"answered", "unheard"} :
            /\ ended' = Append(ended, <<c, how, e.of>>) /\ <<c, how, e.of>> \in Endings
            /\ e.kind = "Complete" => (how = "answered" <=> regs[e.op] > 0)
            /\ cpQ' = IF e.kind = "Complete" /\ regs[e.op] > 0
                      THEN Append(Tail(cpQ), CpTask("UnReg", c)) ELSE Tail(cpQ)
      BY <2>1, <2>5
    <3>2. PICK x : x = <<c, how, e.of>>
      OBVIOUS
    <3>3. x \in Endings /\ x[1] = c /\ x[2] = how /\ ended' = Append(ended, x)
      BY <3>1, <3>2
    <3>4. \A d : Answered(ended', d) <=> Answered(ended, d) \/ (c = d /\ how = "answered")
      BY <1>0, <3>3, AnsweredAppend
    <3>5. c \in Cmds /\ Op(c) = e.op /\ (e.kind = "Complete" <=> e.op \in Complete)
      BY <2>1, <2>5, EventIs
    <3>6. ~Pending(cpQ, "Reg", c)
      BY <1>0, <1>r, <2>1, PendingTail
    <3>7. c \in 1 .. issued
      <4>1. c \in Held(CpKeys(cpQ))
        BY <1>0, <2>1, <2>5, CpKeysStep DEF Placed
      <4> QED BY <4>1 DEF Placed
    <3>8. CASE e.kind = "Complete"
      <4>1. regs[e.op] > 0 /\ ~Answered(ended, c)
        BY <2>1, <2>5, <3>8, CallbackFound
      <4>2. PICK t : t = CpTask("UnReg", c)
        OBVIOUS
      <4>3. t \in CpTasks /\ t.type = "UnReg" /\ t.cmd = c
        BY <3>5, <4>2, MadeTypes DEF CpTask
      <4>4. cpQ' = Append(u, t) /\ how = "answered"
        BY <2>2, <3>1, <3>8, <4>1, <4>2
      <4>5. ~Pending(cpQ, "UnReg", c)
        BY <3>5, <4>1 DEF RegsOK
      <4>6. /\ \A type, d : Pending(cpQ', type, d) <=> Pending(u, type, d) \/ (type = "UnReg" /\ d = c)
            /\ RegsApart(cpQ') /\ RegFirst(cpQ')
        BY <2>3, <4>3, <4>4, <4>5, PendingAppend
      <4>7. ASSUME NEW o PROVE Registered(cpQ', ended', issued', o) = Registered(cpQ, ended, issued, o)
        <5>1. \A d : Pending(cpQ', "Reg", d) <=> Pending(cpQ, "Reg", d)
          BY <2>3, <4>6
        <5>2. \A d : (Answered(ended', d) => Pending(cpQ', "UnReg", d))
                       <=> (Answered(ended, d) => Pending(cpQ, "UnReg", d))
          BY <2>3, <3>4, <4>1, <4>4, <4>6
        <5> QED BY <2>1, <5>1, <5>2 DEF Registered
      <4>8. \A d \in Cmds : Pending(cpQ', "Reg", d) => d <= issued' /\ Op(d) \in Complete /\ ~Answered(ended', d)
        BY <2>1, <2>3, <3>4, <3>6, <4>6 DEF RegsOK
      <4>9. \A d \in Cmds : Pending(cpQ', "UnReg", d) => d <= issued' /\ Op(d) \in Complete /\ Answered(ended', d)
        <5>1. c <= issued'
          BY <1>0, <2>1, <3>7
        <5> QED BY <2>1, <2>3, <3>4, <3>5, <3>8, <4>4, <4>6, <5>1 DEF RegsOK
      <4> QED BY <2>1, <4>6, <4>7, <4>8, <4>9 DEF RegsOK
    <3>9. CASE e.kind # "Complete"
      <4>1. cpQ' = u /\ Op(c) \notin Complete
        BY <2>2, <3>1, <3>5, <3>9
      <4>2. ASSUME NEW o PROVE Registered(cpQ', ended', issued', o) = Registered(cpQ, ended, issued, o)
        <5>1. \A d : Op(d) = o /\ o \in Complete => (Answered(ended', d) <=> Answered(ended, d))
          BY <3>4, <4>1
        <5>2. \A d : /\ Pending(cpQ', "Reg", d) <=> Pending(cpQ, "Reg", d)
                     /\ Pending(cpQ', "UnReg", d) <=> Pending(cpQ, "UnReg", d)
          BY <2>3, <4>1
        <5> QED BY <2>1, <5>1, <5>2 DEF Registered
      <4>3. \A d \in Cmds : Pending(cpQ', "Reg", d) => d <= issued' /\ Op(d) \in Complete /\ ~Answered(ended', d)
        BY <2>1, <2>3, <3>4, <3>6, <4>1 DEF RegsOK
      <4>4. \A d \in Cmds : Pending(cpQ', "UnReg", d) => d <= issued' /\ Op(d) \in Complete /\ Answered(ended', d)
        BY <2>1, <2>3, <3>4, <4>1 DEF RegsOK
      <4> QED BY <2>1, <2>3, <4>1, <4>2, <4>3, <4>4 DEF RegsOK
    <3> QED BY <3>8, <3>9
  <2> QED BY <2>4, <2>5
<1>4. CASE CpTimeout
  <2>1. PICK c \in Cmds, how \in {"timeout", "unheard"} :
          /\ cpQ # <<>> /\ Head(cpQ).type = "Timeout" /\ cpQ' = Tail(cpQ)
          /\ ended' = Append(ended, <<c, how, c>>) /\ <<c, how, c>> \in Endings
          /\ UNCHANGED <<issued, regs>>
    BY <1>4, CpTimeoutEffect
  <2>2. /\ \A d : Pending(cpQ, "Reg", d) <=> Pending(cpQ', "Reg", d)
        /\ \A d : Pending(cpQ, "UnReg", d) <=> Pending(cpQ', "UnReg", d)
        /\ RegsApart(cpQ') /\ RegFirst(cpQ')
    BY <1>0, <1>r, <2>1, PendingTail
  <2>3. PICK x : x = <<c, how, c>>
    OBVIOUS
  <2>4. x \in Endings /\ x[2] # "answered" /\ ended' = Append(ended, x)
    BY <2>1, <2>3
  <2>5. \A d : Answered(ended', d) <=> Answered(ended, d)
    BY <1>0, <2>4, AnsweredAppend
  <2> QED BY <2>1, <2>2, <2>5, RegsSame
<1> QED BY <1>1, <1>2, <1>3, <1>4

\* Steps of the DLI thread and of the controller keep the registrations right.
LEMMA RegsDli ==
    ASSUME CmdTypeOK, Placed, ListInOrder, RegsOK,
           \/ DliSend \/ DliNext \/ Visit \/ SubOne \/ DliEvent \/ CmdTimer \/ LayerDisable
           \/ CtlAnswer \/ CtlFinal
    PROVE  RegsOK'
<1>0. cpQ \in Seq(CpTasks) /\ ended \in Seq(Endings) /\ cmdTx \in Seq(Nodes)
  BY DEF CmdTypeOK
<1>r. RegsApart(cpQ) /\ RegFirst(cpQ)
  BY DEF RegsOK
<1>a. ASSUME UNCHANGED <<cpQ, ended, regs, issued>> PROVE RegsOK'
  BY <1>r, <1>a, RegsSame
<1>b. ASSUME NEW t \in CpTasks, t.type \in {"Event", "Timeout"}, cpQ' = Append(cpQ, t),
             UNCHANGED <<ended, regs, issued>>
      PROVE  RegsOK'
  <2>1. /\ \A d : Pending(cpQ', "Reg", d) <=> Pending(cpQ, "Reg", d)
        /\ \A d : Pending(cpQ', "UnReg", d) <=> Pending(cpQ, "UnReg", d)
        /\ RegsApart(cpQ') /\ RegFirst(cpQ')
    BY <1>0, <1>r, <1>b, PendingAppend
  <2> QED BY <1>b, <2>1, RegsSame
<1>1. CASE DliSend
  <2>1. PICK c : c = Head(dliQ).cmd
    OBVIOUS
  <2>2. /\ c \in Cmds /\ UNCHANGED <<issued, cpQ, regs>>
        /\ ended' = ended \/ ended' = Append(ended, <<c, "dropped", c>>)
    BY <1>1, <2>1, SendEffect
  <2>3. PICK x : x = <<c, "dropped", c>>
    OBVIOUS
  <2>4. x \in Endings /\ x[2] # "answered"
    BY <2>2, <2>3, EndedType
  <2>5. \A d : Answered(Append(ended, x), d) <=> Answered(ended, d)
    BY <1>0, <2>4, AnsweredAppend
  <2>6. \A d : Answered(ended', d) <=> Answered(ended, d)
    BY <2>2, <2>3, <2>5
  <2> QED BY <1>r, <2>2, <2>6, RegsSame
<1>2. CASE DliNext \/ SubOne
  <2>1. UNCHANGED <<cpQ, ended, regs, issued>>
    BY <1>2 DEF DliNext, SubOne
  <2> QED BY <1>a, <2>1
<1>3. CASE Visit
  <2>1. UNCHANGED <<cpQ, ended, regs, issued>>
    BY <1>3 DEF Visit
  <2> QED BY <1>a, <2>1
<1>4. CASE DliEvent
  <2>1. PICK t : t = [type |-> "Event", event |-> Head(dliQ),
                      node |-> IF CmdNodeRemove(Head(dliQ)) # 0 THEN cmdTx[CmdNodeRemove(Head(dliQ))] ELSE NoNode]
    OBVIOUS
  <2>2. cpQ' = Append(cpQ, t) /\ t \in CpTasks /\ UNCHANGED <<issued, regs, ended>>
    BY <1>4, <2>1, EventEffect
  <2>3. t.type = "Event"
    BY <2>1
  <2> QED BY <1>b, <2>2, <2>3
<1>5. CASE CmdTimer
  <2>1. PICK i \in DOMAIN cmdTx :
          /\ cpQ' = Append(cpQ, [type |-> "Timeout", node |-> cmdTx[i]])
          /\ [type |-> "Timeout", node |-> cmdTx[i]] \in CpTasks
          /\ UNCHANGED <<issued, regs, ended>>
    BY <1>5, TimerEffect
  <2>2. PICK t : t = [type |-> "Timeout", node |-> cmdTx[i]]
    OBVIOUS
  <2>3. t.type = "Timeout" /\ t \in CpTasks /\ cpQ' = Append(cpQ, t)
    BY <2>1, <2>2
  <2> QED BY <1>b, <2>1, <2>3
<1>6. CASE LayerDisable
  <2>1. PICK d : d = [i \in DOMAIN cmdTx |-> <<cmdTx[i].cmd, "dropped", cmdTx[i].cmd>>]
    OBVIOUS
  <2>2. /\ d \in Seq(Endings) /\ DOMAIN d = DOMAIN cmdTx
        /\ ended' = ended \o d /\ UNCHANGED <<issued, cpQ, regs>>
    BY <1>6, <2>1, DisableEffect
  <2>3. \A i \in DOMAIN d : d[i][2] # "answered"
    BY <2>1, <2>2
  <2>4. \A c : Answered(ended', c) <=> Answered(ended, c)
    <3>1. /\ ended' \in Seq(Endings) /\ Len(ended') = Len(ended) + Len(d)
          /\ \A i \in 1 .. Len(ended) + Len(d) : ended'[i] = IF i <= Len(ended) THEN ended[i] ELSE d[i - Len(ended)]
      BY <1>0, <2>2, ConcatProperties
    <3>2. /\ DOMAIN ended' = 1 .. Len(ended) + Len(d) /\ DOMAIN ended = 1 .. Len(ended) /\ DOMAIN d = 1 .. Len(d)
          /\ Len(ended) \in Nat /\ Len(d) \in Nat
      <4>1. Len(ended) \in Nat /\ Len(d) \in Nat /\ DOMAIN ended = 1 .. Len(ended) /\ DOMAIN d = 1 .. Len(d)
        BY <1>0, <2>2
      <4>2. DOMAIN ended' = 1 .. Len(ended')
        BY <3>1
      <4> QED BY <3>1, <4>1, <4>2
    <3>3. \A i \in DOMAIN ended : i \in DOMAIN ended' /\ ended'[i] = ended[i]
      BY <3>1, <3>2
    <3>4. \A i \in DOMAIN ended' : (i \in DOMAIN ended /\ ended'[i] = ended[i]) \/ ended'[i][2] # "answered"
      <4> SUFFICES ASSUME NEW i \in DOMAIN ended', i \notin DOMAIN ended PROVE ended'[i][2] # "answered"
        BY <3>3
      <4>1. i - Len(ended) \in DOMAIN d /\ ended'[i] = d[i - Len(ended)]
        BY <3>1, <3>2
      <4> QED BY <2>3, <4>1
    <3> QED BY <3>3, <3>4 DEF Answered
  <2> QED BY <1>r, <2>2, <2>4, RegsSame
<1>7. CASE CtlAnswer
  <2>1. UNCHANGED <<cpQ, ended, regs, issued>>
    BY <1>7 DEF CtlAnswer
  <2> QED BY <1>a, <2>1
<1>8. CASE CtlFinal
  <2>1. UNCHANGED <<cpQ, ended, regs, issued>>
    BY <1>8 DEF CtlFinal
  <2> QED BY <1>a, <2>1
<1> QED BY <1>1, <1>2, <1>3, <1>4, <1>5, <1>6, <1>7, <1>8

-----------------------------------------------------------------------------
(* The credit. *)

\* The answers on their way to the DLI thread, with a task more.
LEMMA AnswersAppend ==
    ASSUME NEW q \in Seq(DliTasks), NEW t \in DliTasks
    PROVE  /\ ~Carries(t) => /\ NoAnswer(q) => NoAnswer(Append(q, t))
                             /\ \A c : AnswersFor(q, c) => AnswersFor(Append(q, t), c)
           /\ Carries(t) /\ t.n = 1 /\ NoAnswer(q) => AnswersFor(Append(q, t), t.of)
<1>1. PICK u : u = Append(q, t)
  OBVIOUS
<1>2. PICK n : n = Len(q)
  OBVIOUS
<1>3. /\ n \in Nat /\ Len(u) = n + 1 /\ u \in Seq(DliTasks)
      /\ \A i \in 1 .. n + 1 : u[i] = IF i \in 1 .. n THEN q[i] ELSE t
  BY <1>1, <1>2, AppendElements
<1>4. DOMAIN q = 1 .. n
  BY <1>2
<1>5. DOMAIN u = 1 .. n + 1
  BY <1>3
<1>6. \A i \in DOMAIN u : (i \in DOMAIN q /\ u[i] = q[i]) \/ (i = n + 1 /\ u[i] = t)
  BY <1>3, <1>4, <1>5
<1>7. ~Carries(t) /\ NoAnswer(q) => NoAnswer(u)
  BY <1>6 DEF NoAnswer
<1>8. ASSUME NEW c, ~Carries(t), AnswersFor(q, c) PROVE AnswersFor(u, c)
  <2>1. \A i \in DOMAIN u : Carries(u[i]) => i \in DOMAIN q /\ u[i] = q[i]
    BY <1>6, <1>8
  <2> QED BY <1>8, <2>1 DEF AnswersFor
<1>9. ASSUME Carries(t), t.n = 1, NoAnswer(q) PROVE AnswersFor(u, t.of)
  <2>1. \A i \in DOMAIN u : Carries(u[i]) => i = n + 1 /\ u[i] = t
    BY <1>6, <1>9 DEF NoAnswer
  <2> QED BY <1>9, <2>1 DEF AnswersFor
<1> QED BY <1>1, <1>7, <1>8, <1>9

\* The answers on their way to the DLI thread, without the first task.
LEMMA AnswersTail ==
    ASSUME NEW q \in Seq(DliTasks), q # <<>>
    PROVE  /\ NoAnswer(q) => NoAnswer(Tail(q)) /\ ~Carries(Head(q))
           /\ \A c : AnswersFor(q, c) => AnswersFor(Tail(q), c)
           /\ \A c : AnswersFor(q, c) /\ Carries(Head(q)) =>
                NoAnswer(Tail(q)) /\ Head(q).of = c /\ Head(q).n = 1
<1>1. PICK u : u = Tail(q)
  OBVIOUS
<1>2. PICK n : n = Len(q)
  OBVIOUS
<1>3. PICK h : h = Head(q)
  OBVIOUS
<1>4. n \in Nat \ {0} /\ Len(u) = n - 1 /\ u \in Seq(DliTasks) /\ h = q[1] /\ \A i \in 1 .. n - 1 : u[i] = q[i + 1]
  BY <1>1, <1>2, <1>3, TailElements
<1>5. DOMAIN q = 1 .. n
  BY <1>2
<1>6. DOMAIN u = 1 .. n - 1
  BY <1>4
<1>7. \A i \in DOMAIN u : i + 1 \in DOMAIN q /\ u[i] = q[i + 1] /\ i + 1 # 1
  BY <1>4, <1>5, <1>6
<1>8. 1 \in DOMAIN q
  BY <1>4, <1>5
<1>9. NoAnswer(q) => NoAnswer(u) /\ ~Carries(h)
  BY <1>4, <1>7, <1>8 DEF NoAnswer
<1>10. ASSUME NEW c, AnswersFor(q, c) PROVE AnswersFor(u, c)
  <2>1. \A j \in DOMAIN u : Carries(u[j]) => u[j].of = c /\ u[j].n = 1
    BY <1>7, <1>10 DEF AnswersFor
  <2>2. ASSUME NEW j \in DOMAIN u, NEW k \in DOMAIN u, Carries(u[j]), Carries(u[k]) PROVE j = k
    <3>1. j + 1 = k + 1
      BY <1>7, <1>10, <2>2 DEF AnswersFor
    <3> QED BY <1>4, <1>6, <3>1
  <2> QED BY <2>1, <2>2 DEF AnswersFor
<1>11. ASSUME NEW c, AnswersFor(q, c), Carries(h) PROVE NoAnswer(u) /\ h.of = c /\ h.n = 1
  BY <1>4, <1>7, <1>8, <1>11 DEF AnswersFor, NoAnswer
<1> QED BY <1>1, <1>3, <1>9, <1>10, <1>11

\* The credit on its way through the CP thread, with a task more.
LEMMA CreditAppend ==
    ASSUME NEW q \in Seq(CpTasks), NEW t \in CpTasks
    PROVE  /\ ~Gives(t) => /\ NoCredit(q) => NoCredit(Append(q, t))
                           /\ \A k : GivesAt(q, k) => GivesAt(Append(q, t), k) /\ Append(q, t)[k] = q[k]
           /\ Gives(t) /\ NoCredit(q) => GivesAt(Append(q, t), Len(q) + 1) /\ Append(q, t)[Len(q) + 1] = t
<1>1. PICK u : u = Append(q, t)
  OBVIOUS
<1>2. PICK n : n = Len(q)
  OBVIOUS
<1>3. /\ n \in Nat /\ Len(u) = n + 1 /\ u \in Seq(CpTasks)
      /\ \A i \in 1 .. n + 1 : u[i] = IF i \in 1 .. n THEN q[i] ELSE t
  BY <1>1, <1>2, AppendElements
<1>4. DOMAIN q = 1 .. n
  BY <1>2
<1>5. DOMAIN u = 1 .. n + 1
  BY <1>3
<1>6. \A i \in DOMAIN u : (i \in DOMAIN q /\ u[i] = q[i] /\ i # n + 1) \/ (i = n + 1 /\ u[i] = t)
  BY <1>3, <1>4, <1>5
<1>7. \A i \in DOMAIN q : i \in DOMAIN u /\ u[i] = q[i] /\ i # n + 1
  BY <1>3, <1>4, <1>5
<1>8. n + 1 \in DOMAIN u /\ u[n + 1] = t
  BY <1>3, <1>5
<1>9. ~Gives(t) /\ NoCredit(q) => NoCredit(u)
  BY <1>6 DEF NoCredit
<1>10. ASSUME NEW k, ~Gives(t), GivesAt(q, k) PROVE GivesAt(u, k) /\ u[k] = q[k]
  BY <1>6, <1>7, <1>10 DEF GivesAt
<1>11. ASSUME Gives(t), NoCredit(q) PROVE GivesAt(u, n + 1)
  BY <1>6, <1>8, <1>11 DEF GivesAt, NoCredit
<1> QED BY <1>1, <1>2, <1>8, <1>9, <1>10, <1>11

\* The credit on its way through the CP thread, without the first task.
LEMMA CreditTail ==
    ASSUME NEW q \in Seq(CpTasks), q # <<>>
    PROVE  /\ NoCredit(q) => NoCredit(Tail(q)) /\ ~Gives(Head(q))
           /\ \A k : GivesAt(q, k) /\ ~Gives(Head(q)) => GivesAt(Tail(q), k - 1) /\ Tail(q)[k - 1] = q[k]
           /\ \A k : GivesAt(q, k) /\ Gives(Head(q)) => NoCredit(Tail(q)) /\ q[k] = Head(q)
<1>1. PICK u : u = Tail(q)
  OBVIOUS
<1>2. PICK n : n = Len(q)
  OBVIOUS
<1>3. PICK h : h = Head(q)
  OBVIOUS
<1>4. n \in Nat \ {0} /\ Len(u) = n - 1 /\ u \in Seq(CpTasks) /\ h = q[1] /\ \A i \in 1 .. n - 1 : u[i] = q[i + 1]
  BY <1>1, <1>2, <1>3, TailElements
<1>5. DOMAIN q = 1 .. n
  BY <1>2
<1>6. DOMAIN u = 1 .. n - 1
  BY <1>4
<1>7. \A i \in DOMAIN u : i + 1 \in DOMAIN q /\ u[i] = q[i + 1] /\ i + 1 # 1
  BY <1>4, <1>5, <1>6
<1>8. 1 \in DOMAIN q
  BY <1>4, <1>5
<1>9. NoCredit(q) => NoCredit(u) /\ ~Gives(h)
  BY <1>4, <1>7, <1>8 DEF NoCredit
<1>10. ASSUME NEW k, GivesAt(q, k), ~Gives(h) PROVE GivesAt(u, k - 1) /\ u[k - 1] = q[k]
  <2>1. k \in DOMAIN q /\ k # 1
    BY <1>4, <1>8, <1>10 DEF GivesAt
  <2>2. k - 1 \in DOMAIN u /\ u[k - 1] = q[k]
    BY <1>4, <1>5, <1>6, <2>1
  <2>3. \A j \in DOMAIN u : j + 1 = k <=> j = k - 1
    BY <1>4, <1>5, <1>6, <2>1
  <2> QED BY <1>7, <1>10, <2>2, <2>3 DEF GivesAt
<1>11. ASSUME NEW k, GivesAt(q, k), Gives(h) PROVE NoCredit(u) /\ q[k] = h
  BY <1>4, <1>7, <1>8, <1>11 DEF GivesAt, NoCredit
<1> QED BY <1>1, <1>3, <1>9, <1>10, <1>11

\* The commands that wait and the marks, when a command joins the list.
LEMMA WaitsAppend ==
    ASSUME NEW l \in Seq(Nodes), NEW c \in Cmds
    PROVE  LET m == Append(l, Node(c))
           IN  /\ NoneWaits(l) => NoneWaits(m)
               /\ \A i : WaitsAt(l, i) => WaitsAt(m, i) /\ m[i] = l[i]
               /\ Marked(l) => Marked(m)
<1>1. PICK t : t = Node(c)
  OBVIOUS
<1>2. t \in Nodes /\ ~t.isSent /\ ~t.isRecvStatusEvt
  BY <1>1, MadeTypes DEF Node
<1>3. PICK m : m = Append(l, t)
  OBVIOUS
<1>4. PICK n : n = Len(l)
  OBVIOUS
<1>5. /\ n \in Nat /\ Len(m) = n + 1 /\ m \in Seq(Nodes)
      /\ \A i \in 1 .. n + 1 : m[i] = IF i \in 1 .. n THEN l[i] ELSE t
  BY <1>2, <1>3, <1>4, AppendElements
<1>6. DOMAIN l = 1 .. n
  BY <1>4
<1>7. DOMAIN m = 1 .. n + 1
  BY <1>5
<1>8. \A i \in DOMAIN m : (i \in DOMAIN l /\ m[i] = l[i]) \/ (i \notin DOMAIN l /\ m[i] = t)
  BY <1>5, <1>6, <1>7
<1>9. \A i \in DOMAIN l : i \in DOMAIN m /\ m[i] = l[i]
  BY <1>5, <1>6, <1>7
<1>10. NoneWaits(l) => NoneWaits(m)
  BY <1>2, <1>8 DEF NoneWaits, Waits
<1>11. ASSUME NEW i, WaitsAt(l, i) PROVE WaitsAt(m, i) /\ m[i] = l[i]
  BY <1>2, <1>8, <1>9, <1>11 DEF WaitsAt, Waits
<1>12. Marked(l) => Marked(m)
  BY <1>2, <1>8 DEF Marked
<1> QED BY <1>1, <1>3, <1>10, <1>11, <1>12

\* The commands that wait and the marks, when the command at p leaves the list.
LEMMA WaitsRemove ==
    ASSUME NEW l \in Seq(Nodes), NEW p \in 1 .. Len(l)
    PROVE  LET m == RemoveAt(l, p)
           IN  /\ NoneWaits(l) => NoneWaits(m)
               /\ WaitsAt(l, p) => NoneWaits(m)
               /\ \A i : WaitsAt(l, i) /\ i # p => \E j : WaitsAt(m, j) /\ m[j] = l[i]
               /\ Marked(l) => Marked(m)
<1>1. PICK m : m = RemoveAt(l, p)
  OBVIOUS
<1>2. PICK n : n = Len(l)
  OBVIOUS
<1>3. /\ n \in Nat /\ m \in Seq(Nodes) /\ Len(m) = n - 1
      /\ \A j \in 1 .. n - 1 : m[j] = IF j < p THEN l[j] ELSE l[j + 1]
  <2>1. /\ m \in Seq(Nodes) /\ Len(m) = Len(l) - 1
        /\ \A j \in 1 .. Len(l) - 1 : m[j] = IF j < p THEN l[j] ELSE l[j + 1]
    BY <1>1, RemoveAtProperties
  <2>2. n \in Nat
    BY <1>2
  <2> QED BY <1>2, <2>1, <2>2
<1>4. DOMAIN l = 1 .. n /\ p \in 1 .. n
  BY <1>2
<1>5. DOMAIN m = 1 .. n - 1
  BY <1>3
<1> DEFINE at(i) == IF i < p THEN i ELSE i + 1
<1>6. \A i \in DOMAIN m : at(i) \in DOMAIN l /\ m[i] = l[at(i)] /\ at(i) # p
  BY <1>3, <1>4, <1>5
<1>7. \A i \in DOMAIN l : i # p => \E j \in DOMAIN m : at(j) = i
  <2> SUFFICES ASSUME NEW i \in DOMAIN l, i # p PROVE \E j \in DOMAIN m : at(j) = i
    OBVIOUS
  <2>1. CASE i < p
    <3>1. i \in DOMAIN m /\ at(i) = i
      BY <1>3, <1>4, <1>5, <2>1
    <3> QED BY <3>1
  <2>2. CASE i > p
    <3>1. i - 1 \in DOMAIN m /\ at(i - 1) = i
      BY <1>3, <1>4, <1>5, <2>2
    <3> QED BY <3>1
  <2> QED BY <1>3, <1>4, <2>1, <2>2
<1>8. \A i, j \in DOMAIN m : at(i) = at(j) => i = j
  BY <1>3, <1>4, <1>5
<1> HIDE DEF at
<1>9. NoneWaits(l) \/ WaitsAt(l, p) => NoneWaits(m)
  BY <1>6 DEF NoneWaits, WaitsAt, Waits
<1>10. ASSUME NEW i, WaitsAt(l, i), i # p PROVE \E j : WaitsAt(m, j) /\ m[j] = l[i]
  <2>1. PICK j \in DOMAIN m : at(j) = i
    BY <1>7, <1>10 DEF WaitsAt
  <2>2. \A k \in DOMAIN m : Waits(m, k) <=> at(k) = i
    BY <1>6, <1>10 DEF WaitsAt, Waits
  <2>3. WaitsAt(m, j)
    BY <1>8, <2>1, <2>2 DEF WaitsAt
  <2> QED BY <1>6, <2>1, <2>3
<1>11. Marked(l) => Marked(m)
  BY <1>6 DEF Marked
<1> QED BY <1>1, <1>9, <1>10, <1>11

\* The commands that wait and the marks, when the one at p is sent or gets its status.
LEMMA WaitsMark ==
    ASSUME NEW l \in Seq(Nodes), NEW p \in DOMAIN l
    PROVE  /\ LET m == [l EXCEPT ![p].isSent = TRUE]
              IN  /\ NoneWaits(l) /\ ~l[p].isRecvStatusEvt => WaitsAt(m, p) /\ m[p].cmd = l[p].cmd
                  /\ Marked(l) => Marked(m)
           /\ LET m == [l EXCEPT ![p].isRecvStatusEvt = TRUE]
              IN  /\ NoneWaits(l) \/ WaitsAt(l, p) => NoneWaits(m)
                  /\ Marked(l) /\ l[p].isSent /\ Op(l[p].cmd) \notin Complete => Marked(m)
<1>1. l[p] \in Nodes
  OBVIOUS
<1>2. PICK s : s = [l[p] EXCEPT !.isSent = TRUE]
  OBVIOUS
<1>3. PICK r : r = [l[p] EXCEPT !.isRecvStatusEvt = TRUE]
  OBVIOUS
<1>4. s.isSent /\ s.isRecvStatusEvt = l[p].isRecvStatusEvt /\ s.cmd = l[p].cmd
  BY <1>1, <1>2 DEF Nodes
<1>5. r.isRecvStatusEvt /\ r.isSent = l[p].isSent /\ r.cmd = l[p].cmd
  BY <1>1, <1>3 DEF Nodes
<1>6. PICK m : m = [l EXCEPT ![p] = s]
  OBVIOUS
<1>7. PICK v : v = [l EXCEPT ![p] = r]
  OBVIOUS
<1>8. /\ DOMAIN m = DOMAIN l /\ m[p] = s /\ \A i \in DOMAIN l : i # p => m[i] = l[i]
      /\ DOMAIN v = DOMAIN l /\ v[p] = r /\ \A i \in DOMAIN l : i # p => v[i] = l[i]
  BY <1>6, <1>7
<1>9. NoneWaits(l) /\ ~l[p].isRecvStatusEvt => WaitsAt(m, p) /\ m[p].cmd = l[p].cmd
  BY <1>4, <1>8 DEF NoneWaits, WaitsAt, Waits
<1>10. Marked(l) => Marked(m)
  BY <1>4, <1>8 DEF Marked
<1>11. NoneWaits(l) \/ WaitsAt(l, p) => NoneWaits(v)
  BY <1>5, <1>8 DEF NoneWaits, WaitsAt, Waits
<1>12. Marked(l) /\ l[p].isSent /\ Op(l[p].cmd) \notin Complete => Marked(v)
  BY <1>5, <1>8 DEF Marked
<1> QED BY <1>2, <1>3, <1>6, <1>7, <1>9, <1>10, <1>11, <1>12

\* A step that leaves the credit where it is.
LEMMA CreditKept ==
    ASSUME CreditState, UNCHANGED <<num, subDue, ctl>>,
           NoneWaits(cmdTx) => NoneWaits(cmdTx'),
           \A i : WaitsAt(cmdTx, i) => \E j : WaitsAt(cmdTx', j) /\ cmdTx'[j].cmd = cmdTx[i].cmd,
           NoAnswer(dliQ) => NoAnswer(dliQ'),
           \A c : AnswersFor(dliQ, c) => AnswersFor(dliQ', c),
           NoCredit(cpQ) => NoCredit(cpQ'),
           \A k : GivesAt(cpQ, k) => \E m : GivesAt(cpQ', m) /\ cpQ'[m] = cpQ[k]
    PROVE  CreditState'
<1>1. CASE Idle
  <2>1. Idle'
    BY <1>1 DEF Idle
  <2> QED BY <2>1 DEF CreditState
<1>2. ASSUME NEW i, Out(i) PROVE CreditState'
  <2>1. PICK j : WaitsAt(cmdTx', j) /\ cmdTx'[j].cmd = cmdTx[i].cmd
    BY <1>2 DEF Out
  <2>2. Out(j)'
    BY <1>2, <2>1 DEF Out
  <2> QED BY <2>2 DEF CreditState
<1>3. ASSUME NEW k, Back(k) PROVE CreditState'
  <2>1. PICK m : GivesAt(cpQ', m) /\ cpQ'[m] = cpQ[k]
    BY <1>3 DEF Back
  <2>2. Back(m)'
    BY <1>3, <2>1 DEF Back
  <2> QED BY <2>2 DEF CreditState
<1> QED BY <1>1, <1>2, <1>3 DEF CreditState

\* The request for the next command carries no credit.
LEMMA NextIsNeutral ==
    ASSUME CmdTypeOK, dliQ' = dliQ \/ dliQ' = Append(dliQ, Task("Next"))
    PROVE  /\ NoAnswer(dliQ) => NoAnswer(dliQ')
           /\ \A c : AnswersFor(dliQ, c) => AnswersFor(dliQ', c)
<1>1. PICK t : t = Task("Next")
  OBVIOUS
<1>2. t \in DliTasks /\ ~Carries(t) /\ dliQ \in Seq(DliTasks)
  BY <1>1, MadeTypes DEF Task, Carries, CmdTypeOK
<1>3. /\ NoAnswer(dliQ) => NoAnswer(Append(dliQ, t))
      /\ \A c : AnswersFor(dliQ, c) => AnswersFor(Append(dliQ, t), c)
  BY <1>2, AnswersAppend
<1> QED BY <1>1, <1>3

\* Steps of the CP thread: the credit comes back with the task that brings it.
LEMMA CreditCp ==
    ASSUME CmdTypeOK, CreditState, ExecuteCommand \/ CpReg \/ CpEvent \/ CpTimeout
    PROVE  CreditState' /\ UNCHANGED <<cmdTx, inited, faults>>
<1>0. dliQ \in Seq(DliTasks) /\ cpQ \in Seq(CpTasks) /\ issued \in Nat
  BY CmdNumbers DEF CmdTypeOK
<1>1. CASE ExecuteCommand
  <2>1. issued' \in Cmds
    BY <1>0, <1>1, CmdNumbers DEF ExecuteCommand
  <2>2. PICK t : t = SendTask(issued')
    OBVIOUS
  <2>3. PICK r : r = CpTask("Reg", issued')
    OBVIOUS
  <2>4. t \in DliTasks /\ ~Carries(t) /\ r \in CpTasks /\ ~Gives(r)
    BY <2>1, <2>2, <2>3, MadeTypes DEF SendTask, CpTask, Carries, Gives
  <2>5. /\ dliQ' = Append(dliQ, t) /\ (cpQ' = cpQ \/ cpQ' = Append(cpQ, r))
        /\ UNCHANGED <<num, subDue, ctl, cmdTx, inited, faults>>
    BY <1>1, <2>2, <2>3 DEF ExecuteCommand, dliVars, ctlVars
  <2>6. /\ NoAnswer(dliQ) => NoAnswer(dliQ')
        /\ \A c : AnswersFor(dliQ, c) => AnswersFor(dliQ', c)
    BY <1>0, <2>4, <2>5, AnswersAppend
  <2>7. /\ NoCredit(cpQ) => NoCredit(cpQ')
        /\ \A k : GivesAt(cpQ, k) => GivesAt(cpQ', k) /\ cpQ'[k] = cpQ[k]
    <3>1. /\ NoCredit(cpQ) => NoCredit(Append(cpQ, r))
          /\ \A k : GivesAt(cpQ, k) => GivesAt(Append(cpQ, r), k) /\ Append(cpQ, r)[k] = cpQ[k]
      BY <1>0, <2>4, CreditAppend
    <3>2. CASE cpQ' = Append(cpQ, r)
      BY <3>1, <3>2, Zenon
    <3> QED BY <2>5, <3>2
  <2>8. \A i : WaitsAt(cmdTx, i) => \E j : WaitsAt(cmdTx', j) /\ cmdTx'[j].cmd = cmdTx[i].cmd
    BY <2>5
  <2>9. NoneWaits(cmdTx) => NoneWaits(cmdTx')
    BY <2>5
  <2>10. \A k : GivesAt(cpQ, k) => \E m : GivesAt(cpQ', m) /\ cpQ'[m] = cpQ[k]
    BY <2>7
  <2> QED BY <2>5, <2>6, <2>7, <2>8, <2>9, <2>10, CreditKept
<1>2. CASE CpReg
  <2>1. /\ cpQ # <<>> /\ Head(cpQ).type \in {"Reg", "UnReg"} /\ cpQ' = Tail(cpQ)
        /\ UNCHANGED <<num, subDue, ctl, cmdTx, dliQ, inited, faults>>
    BY <1>2 DEF CpReg, dliVars, ctlVars
  <2>2. ~Gives(Head(cpQ))
    BY <2>1 DEF Gives
  <2>3. NoCredit(cpQ) => NoCredit(cpQ')
    BY <1>0, <2>1, CreditTail
  <2>4. \A k : GivesAt(cpQ, k) => GivesAt(cpQ', k - 1) /\ cpQ'[k - 1] = cpQ[k]
    BY <1>0, <2>1, <2>2, CreditTail
  <2>5. \A k : GivesAt(cpQ, k) => \E m : GivesAt(cpQ', m) /\ cpQ'[m] = cpQ[k]
    BY <2>4
  <2>6. \A i : WaitsAt(cmdTx, i) => \E j : WaitsAt(cmdTx', j) /\ cmdTx'[j].cmd = cmdTx[i].cmd
    BY <2>1
  <2>7. /\ NoneWaits(cmdTx) => NoneWaits(cmdTx')
        /\ NoAnswer(dliQ) => NoAnswer(dliQ')
        /\ \A c : AnswersFor(dliQ, c) => AnswersFor(dliQ', c)
    BY <2>1
  <2> QED BY <2>1, <2>3, <2>5, <2>6, <2>7, CreditKept
<1>3. ASSUME NEW r \in CpTasks, r.type = "UnReg", cpQ # <<>>,
             cpQ' = Tail(cpQ) \/ cpQ' = Append(Tail(cpQ), r),
             dliQ' = dliQ \/ dliQ' = Append(dliQ, Task("Next")),
             ~Gives(Head(cpQ)) => num' = num,
             Gives(Head(cpQ)) /\ Restores(Head(cpQ)) => num' = 1,
             UNCHANGED <<subDue, ctl, cmdTx>>
      PROVE  CreditState'
  <2>1. PICK u : u = Tail(cpQ)
    OBVIOUS
  <2>2. u \in Seq(CpTasks)
    BY <1>0, <1>3, <2>1, TailElements
  <2>3. ~Gives(r)
    BY <1>3 DEF Gives
  <2>4. /\ NoCredit(u) => NoCredit(cpQ')
        /\ \A k : GivesAt(u, k) => GivesAt(cpQ', k) /\ cpQ'[k] = u[k]
    <3>1. /\ NoCredit(u) => NoCredit(Append(u, r))
          /\ \A k : GivesAt(u, k) => GivesAt(Append(u, r), k) /\ Append(u, r)[k] = u[k]
      BY <2>2, <2>3, CreditAppend
    <3>2. CASE cpQ' = Append(u, r)
      BY <3>1, <3>2, Zenon
    <3> QED BY <1>3, <2>1, <3>2
  <2>5. /\ NoAnswer(dliQ) => NoAnswer(dliQ')
        /\ \A c : AnswersFor(dliQ, c) => AnswersFor(dliQ', c)
    BY <1>3, NextIsNeutral
  <2>6. CASE ~Gives(Head(cpQ))
    <3>1. NoCredit(cpQ) => NoCredit(cpQ')
      BY <1>0, <1>3, <2>1, <2>4, CreditTail
    <3>2. \A k : GivesAt(cpQ, k) => GivesAt(u, k - 1) /\ u[k - 1] = cpQ[k]
      BY <1>0, <1>3, <2>1, <2>6, CreditTail
    <3>3. \A k : GivesAt(cpQ, k) => GivesAt(cpQ', k - 1) /\ cpQ'[k - 1] = cpQ[k]
      BY <2>4, <3>2
    <3>4. \A k : GivesAt(cpQ, k) => \E m : GivesAt(cpQ', m) /\ cpQ'[m] = cpQ[k]
      BY <3>3
    <3>5. \A i : WaitsAt(cmdTx, i) => \E j : WaitsAt(cmdTx', j) /\ cmdTx'[j].cmd = cmdTx[i].cmd
      BY <1>3
    <3>6. NoneWaits(cmdTx) => NoneWaits(cmdTx')
      BY <1>3
    <3>7. UNCHANGED <<num, subDue, ctl>>
      BY <1>3, <2>6
    <3> QED BY <2>5, <3>1, <3>4, <3>5, <3>6, <3>7, CreditKept
  <2>7. CASE Gives(Head(cpQ))
    <3>1. ~NoCredit(cpQ)
      BY <1>0, <1>3, <2>7, CreditTail
    <3>2. PICK k : Back(k)
      BY <3>1 DEF CreditState, Idle, Out
    <3>3. NoCredit(u) /\ cpQ[k] = Head(cpQ)
      BY <1>0, <1>3, <2>1, <2>7, <3>2, CreditTail DEF Back
    <3>4. Restores(Head(cpQ))
      BY <3>2, <3>3 DEF Back
    <3>5. NoCredit(cpQ') /\ num' = 1
      BY <1>3, <2>4, <2>7, <3>3, <3>4
    <3>6. Idle'
      BY <1>3, <2>5, <3>2, <3>5 DEF Idle, Back
    <3> QED BY <3>6 DEF CreditState
  <2> QED BY <2>6, <2>7
<1>4. CASE CpEvent
  <2>1. PICK e \in Events, c \in Cmds \cup {0} :
          /\ cpQ # <<>> /\ Head(cpQ) \in CpTasks /\ Head(cpQ).type = "Event"
          /\ e = Head(cpQ).event /\ c = Head(cpQ).node.cmd /\ Tail(cpQ) \in Seq(CpTasks)
          /\ num' = IF e.kind = "Final" \/ (e.kind = "Complete" /\ c = 0) THEN num ELSE e.n
          /\ dliQ' = dliQ \/ dliQ' = Append(dliQ, Task("Next"))
          /\ c = 0 => cpQ' = Tail(cpQ)
          /\ c # 0 => cpQ' = Tail(cpQ) \/ cpQ' = Append(Tail(cpQ), CpTask("UnReg", c))
          /\ UNCHANGED <<faults, inited, cmdTx, subDue, ctl>>
    BY <1>4, CpEventEffect
  <2>2. Gives(Head(cpQ)) <=> e.kind # "Final"
    BY <2>1 DEF Gives
  <2>3. Restores(Head(cpQ)) <=> (e.n = 1 /\ (e.kind = "Complete" => c # 0))
    BY <2>1 DEF Restores
  <2>4. ~Gives(Head(cpQ)) => num' = num
    BY <2>1, <2>2
  <2>5. Gives(Head(cpQ)) /\ Restores(Head(cpQ)) => num' = 1
    BY <2>1, <2>2, <2>3
  <2>6. PICK r \in CpTasks : r.type = "UnReg" /\ (cpQ' = Tail(cpQ) \/ cpQ' = Append(Tail(cpQ), r))
    <3>1. CASE c = 0
      <4>1. PICK e0 \in Events : TRUE
        BY <2>1
      <4>2. CpTask("UnReg", e0.of) \in CpTasks /\ CpTask("UnReg", e0.of).type = "UnReg"
        BY EventIs, MadeTypes DEF CpTask
      <4> QED BY <2>1, <3>1, <4>2
    <3>2. CASE c # 0
      <4>1. CpTask("UnReg", c) \in CpTasks /\ CpTask("UnReg", c).type = "UnReg"
        BY <3>2, MadeTypes DEF CpTask
      <4> QED BY <2>1, <3>2, <4>1
    <3> QED BY <3>1, <3>2
  <2> QED BY <1>3, <2>1, <2>4, <2>5, <2>6
<1>5. CASE CpTimeout
  <2>1. PICK c \in Cmds, how \in {"timeout", "unheard"} :
          /\ cpQ # <<>> /\ Head(cpQ).type = "Timeout" /\ cpQ' = Tail(cpQ)
          /\ num' = IF CreditAfterTimeout(Head(cpQ).node) THEN 1 ELSE num
          /\ dliQ' = dliQ \/ dliQ' = Append(dliQ, Task("Next"))
          /\ UNCHANGED <<faults, inited, cmdTx, subDue, ctl>>
    BY <1>5, CpTimeoutEffect
  <2>2. Gives(Head(cpQ)) <=> CreditAfterTimeout(Head(cpQ).node)
    BY <2>1 DEF Gives
  <2>3. PICK r : r = CpTask("UnReg", c)
    OBVIOUS
  <2>4. r \in CpTasks /\ r.type = "UnReg"
    BY <2>3, MadeTypes DEF CpTask
  <2>5. ~Gives(Head(cpQ)) => num' = num
    BY <2>1, <2>2
  <2>6. Gives(Head(cpQ)) => num' = 1
    BY <2>1, <2>2
  <2> QED BY <1>3, <2>1, <2>4, <2>5, <2>6
<1> QED BY <1>1, <1>2, <1>4, <1>5

\* DliSend, DliNext, DLI_CmdListSend: the credit goes out with the command sent.
LEMMA CreditSend ==
    ASSUME CmdTypeOK, Placed, ListInOrder, Marked(cmdTx), CreditState, DliSend \/ DliNext \/ Visit \/ SubOne
    PROVE  CreditState' /\ Marked(cmdTx')
<1>0. dliQ \in Seq(DliTasks) /\ cpQ \in Seq(CpTasks) /\ cmdTx \in Seq(Nodes) /\ num \in Nat
  BY DEF CmdTypeOK
<1>1. ASSUME dliQ # <<>>, dliQ' = Tail(dliQ)
      PROVE  /\ NoAnswer(dliQ) => NoAnswer(dliQ')
             /\ \A c : AnswersFor(dliQ, c) => AnswersFor(dliQ', c)
  BY <1>0, <1>1, AnswersTail
<1>2. ASSUME cpQ' = cpQ
      PROVE  /\ NoCredit(cpQ) => NoCredit(cpQ')
             /\ \A k : GivesAt(cpQ, k) => \E m : GivesAt(cpQ', m) /\ cpQ'[m] = cpQ[k]
  BY <1>2
<1>3. ASSUME cmdTx' = cmdTx
      PROVE  /\ NoneWaits(cmdTx) => NoneWaits(cmdTx')
             /\ \A i : WaitsAt(cmdTx, i) => \E j : WaitsAt(cmdTx', j) /\ cmdTx'[j].cmd = cmdTx[i].cmd
             /\ Marked(cmdTx')
  BY <1>3
<1>4. CASE DliSend
  <2>1. PICK c : c = Head(dliQ).cmd
    OBVIOUS
  <2>2. /\ dliQ # <<>> /\ c \in Cmds /\ dliQ' = Tail(dliQ)
        /\ cmdTx' = Append(cmdTx, Node(c)) \/ cmdTx' = cmdTx
        /\ UNCHANGED <<cpQ, num, subDue, ctl>>
    BY <1>4, <2>1, SendEffect
  <2>3. PICK m : m = Append(cmdTx, Node(c))
    OBVIOUS
  <2>4. /\ NoneWaits(cmdTx) => NoneWaits(m)
        /\ \A i : WaitsAt(cmdTx, i) => WaitsAt(m, i) /\ m[i] = cmdTx[i]
        /\ Marked(m)
    BY <1>0, <2>2, <2>3, WaitsAppend
  <2>5. CASE cmdTx' = m
    <3>1. /\ NoneWaits(cmdTx) => NoneWaits(cmdTx')
          /\ \A i : WaitsAt(cmdTx, i) => \E j : WaitsAt(cmdTx', j) /\ cmdTx'[j].cmd = cmdTx[i].cmd
          /\ Marked(cmdTx')
      BY <2>4, <2>5
    <3> QED BY <1>1, <1>2, <2>2, <3>1, CreditKept
  <2>6. CASE cmdTx' = cmdTx
    BY <1>1, <1>2, <1>3, <2>2, <2>6, CreditKept
  <2> QED BY <2>2, <2>3, <2>5, <2>6
<1>5. CASE DliNext
  <2>1. dliQ # <<>> /\ dliQ' = Tail(dliQ) /\ UNCHANGED <<cpQ, num, subDue, ctl, cmdTx>>
    BY <1>5 DEF DliNext, DliTask, ctlVars
  <2> QED BY <1>1, <1>2, <1>3, <2>1, CreditKept
<1>6. CASE Visit
  <2>1. PICK p : p = Len(cmdTx) - Len(rest) + 1
    OBVIOUS
  <2>2. /\ ~subDue /\ p \in DOMAIN cmdTx /\ UNCHANGED <<dliQ, cpQ, num>>
        /\ \/ UNCHANGED <<cmdTx, subDue, ctl>>
           \/ /\ num > 0 /\ ~cmdTx[p].isSent /\ cmdTx' = [cmdTx EXCEPT ![p].isSent = TRUE]
              /\ subDue' = TRUE /\ ctl' = Append(ctl, cmdTx[p].cmd)
    BY <1>6, <2>1, VisitEffect
  <2>3. CASE UNCHANGED <<cmdTx, subDue, ctl>>
    <3>1. /\ NoAnswer(dliQ) => NoAnswer(dliQ')
          /\ \A c : AnswersFor(dliQ, c) => AnswersFor(dliQ', c)
      BY <2>2
    <3> QED BY <1>2, <1>3, <2>2, <2>3, <3>1, CreditKept
  <2>4. CASE /\ num > 0 /\ ~cmdTx[p].isSent /\ cmdTx' = [cmdTx EXCEPT ![p].isSent = TRUE]
             /\ subDue' = TRUE /\ ctl' = Append(ctl, cmdTx[p].cmd)
    <3>1. Idle
      <4>1. num # 0
        BY <1>0, <2>4
      <4> QED BY <2>2, <4>1 DEF CreditState, Out, Back
    <3>2. ~cmdTx[p].isRecvStatusEvt
      BY <2>2, <2>4 DEF Marked
    <3>3. WaitsAt(cmdTx', p) /\ cmdTx'[p].cmd = cmdTx[p].cmd /\ Marked(cmdTx')
      BY <1>0, <2>2, <2>4, <3>1, <3>2, WaitsMark DEF Idle
    <3>4. ctl' = <<cmdTx'[p].cmd>>
      BY <2>4, <3>1, <3>3 DEF Idle
    <3>5. NoAnswer(dliQ') /\ AnswersFor(dliQ', cmdTx'[p].cmd)
      BY <2>2, <3>1 DEF Idle, AnswersFor, NoAnswer
    <3>6. Out(p)'
      BY <2>2, <2>4, <3>1, <3>3, <3>4, <3>5 DEF Out, Idle
    <3> QED BY <3>3, <3>6 DEF CreditState
  <2> QED BY <2>2, <2>3, <2>4
<1>7. CASE SubOne
  <2>1. subDue /\ subDue' = FALSE /\ num' = (num + 65535) % 65536 /\ UNCHANGED <<dliQ, cpQ, cmdTx, ctl>>
    BY <1>7 DEF SubOne, ctlVars
  <2>2. PICK i : Out(i)
    BY <2>1 DEF CreditState, Idle, Back
  <2>3. num = 1
    BY <2>1, <2>2 DEF Out
  <2>4. num' = 0
    BY <2>1, <2>3
  <2>5. Out(i)'
    BY <2>1, <2>2, <2>4 DEF Out
  <2> QED BY <1>3, <2>1, <2>5 DEF CreditState
<1> QED BY <1>4, <1>5, <1>6, <1>7

\* The event that carries the credit finds the command it answers, and only that.
LEMMA AnswerFindsOwn ==
    ASSUME CmdTypeOK, ListInOrder, Marked(cmdTx), CreditState, ~subDue,
           dliQ # <<>>, NEW e \in Events, e = Head(dliQ), e.kind # "Final"
    PROVE  \E i \in DOMAIN cmdTx :
             /\ Out(i) /\ ctl = <<>> /\ num = 0 /\ NoAnswer(Tail(dliQ))
             /\ cmdTx[i].cmd = e.of /\ e.n = 1 /\ cmdTx[i].isSent /\ Op(cmdTx[i].cmd) = e.op
             /\ IF e.kind = "Status" /\ e.ok
                THEN CmdNodeRemove(e) = 0 /\ StatusMarks(e) = i
                ELSE CmdNodeRemove(e) = i
<1>0. dliQ \in Seq(DliTasks) /\ cmdTx \in Seq(Nodes)
  BY DEF CmdTypeOK
<1>1. Carries(Head(dliQ))
  BY EventIs DEF Carries
<1>2. ~NoAnswer(dliQ)
  BY <1>0, <1>1, AnswersTail
<1>3. PICK i : Out(i)
  BY <1>2 DEF CreditState, Idle, Back
<1>4. ctl = <<>> /\ num = 0 /\ i \in DOMAIN cmdTx /\ WaitsAt(cmdTx, i)
  BY <1>2, <1>3 DEF Out, WaitsAt
<1>5. NoAnswer(Tail(dliQ)) /\ e.of = cmdTx[i].cmd /\ e.n = 1
  BY <1>0, <1>1, <1>3, AnswersTail DEF Out
<1>6. e.kind \in {"Complete", "Status"} /\ Op(cmdTx[i].cmd) = e.op /\ (e.kind = "Complete" <=> e.op \in Complete)
  BY <1>5, EventIs DEF Kinds
<1>7. cmdTx[i].isSent /\ ~cmdTx[i].isRecvStatusEvt
  BY <1>4 DEF WaitsAt, Waits
<1>8. ASSUME NEW j \in DOMAIN cmdTx, j <= i, ~cmdTx[j].isRecvStatusEvt PROVE j = i
  <2>1. j < i \/ j = i
    BY <1>0, <1>4, <1>8
  <2>2. cmdTx[j].isSent
    BY <1>4, <1>7, <2>1 DEF ListInOrder
  <2> QED BY <1>4, <1>8, <2>2 DEF WaitsAt, Waits
<1>9. PICK f : f = CmdNodeFind(e.op)
  OBVIOUS
<1>10. PICK g : g = CmdNodeFindNotRecvStatus(e.op)
  OBVIOUS
<1>11. CASE e.kind = "Complete"
  <2>1. f \in DOMAIN cmdTx /\ f <= i /\ f # 0 /\ Op(cmdTx[f].cmd) = e.op
    BY <1>0, <1>4, <1>6, <1>9, NodeFound
  <2>2. ~cmdTx[f].isRecvStatusEvt
    BY <1>6, <1>11, <2>1 DEF Marked
  <2>3. f = i
    BY <1>8, <2>1, <2>2
  <2>4. CmdNodeRemove(e) = i
    BY <1>7, <1>9, <1>11, <2>1, <2>3 DEF CmdNodeRemove
  <2> QED BY <1>3, <1>4, <1>5, <1>6, <1>7, <1>11, <2>4
<1>12. CASE e.kind = "Status"
  <2>1. g \in DOMAIN cmdTx /\ g <= i /\ g # 0 /\ ~cmdTx[g].isRecvStatusEvt
    BY <1>0, <1>4, <1>6, <1>7, <1>10, NotRecvStatusFound
  <2>2. g = i
    BY <1>8, <2>1
  <2>3. e.ok => CmdNodeRemove(e) = 0 /\ StatusMarks(e) = i
    BY <1>10, <1>12, <2>2 DEF CmdNodeRemove, StatusMarks
  <2>4. ~e.ok => CmdNodeRemove(e) = i
    BY <1>7, <1>10, <1>12, <2>1, <2>2 DEF CmdNodeRemove
  <2> QED BY <1>3, <1>4, <1>5, <1>6, <1>7, <1>12, <2>3, <2>4
<1> QED BY <1>6, <1>11, <1>12

\* An event at the DLI thread: the credit goes on to the CP thread.
LEMMA CreditEvent ==
    ASSUME CmdTypeOK, ListInOrder, Marked(cmdTx), CreditState, DliEvent
    PROVE  CreditState' /\ Marked(cmdTx')
<1>0. dliQ \in Seq(DliTasks) /\ cpQ \in Seq(CpTasks) /\ cmdTx \in Seq(Nodes)
  BY DEF CmdTypeOK
<1>1. PICK e : e = Head(dliQ)
  OBVIOUS
<1>2. PICK i : i = CmdNodeRemove(e)
  OBVIOUS
<1>3. PICK j : j = StatusMarks(e)
  OBVIOUS
<1>4. PICK n : n = IF i # 0 THEN cmdTx[i] ELSE NoNode
  OBVIOUS
<1>5. PICK t : t = [type |-> "Event", event |-> e, node |-> n]
  OBVIOUS
<1>6. /\ dliQ # <<>> /\ e \in Events /\ dliQ' = Tail(dliQ) /\ ~subDue
      /\ i = 0 \/ i \in DOMAIN cmdTx
      /\ j = 0 \/ j \in DOMAIN cmdTx
      /\ cmdTx' = IF i # 0 THEN RemoveAt(cmdTx, i)
                  ELSE IF j # 0 THEN [cmdTx EXCEPT ![j].isRecvStatusEvt = TRUE] ELSE cmdTx
      /\ cpQ' = Append(cpQ, t) /\ t \in CpTasks
      /\ UNCHANGED <<num, subDue, ctl>>
  BY <1>1, <1>2, <1>3, <1>4, <1>5, EventEffect
<1>7. t.type = "Event" /\ t.event = e /\ t.node = n
  BY <1>5
<1>8. i # 0 => i \in 1 .. Len(cmdTx)
  BY <1>0, <1>6
<1>9. CASE e.kind = "Final"
  <2>1. ~Gives(t)
    BY <1>7, <1>9 DEF Gives
  <2>2. NoCredit(cpQ) => NoCredit(cpQ')
    BY <1>0, <1>6, <2>1, CreditAppend
  <2>3. \A k : GivesAt(cpQ, k) => GivesAt(Append(cpQ, t), k) /\ Append(cpQ, t)[k] = cpQ[k]
    BY <1>0, <1>6, <2>1, CreditAppend
  <2>4. \A k : GivesAt(cpQ, k) => \E m : GivesAt(cpQ', m) /\ cpQ'[m] = cpQ[k]
    BY <1>6, <2>3
  <2>5. /\ NoAnswer(dliQ) => NoAnswer(dliQ')
        /\ \A c : AnswersFor(dliQ, c) => AnswersFor(dliQ', c)
    BY <1>0, <1>6, AnswersTail
  <2>6. j = 0
    BY <1>3, <1>9 DEF StatusMarks
  <2>7. /\ NoneWaits(cmdTx) => NoneWaits(cmdTx')
        /\ \A p : WaitsAt(cmdTx, p) => \E q : WaitsAt(cmdTx', q) /\ cmdTx'[q].cmd = cmdTx[p].cmd
        /\ Marked(cmdTx')
    <3>1. CASE i = 0
      BY <1>6, <2>6, <3>1
    <3>2. CASE i # 0
      <4>1. cmdTx[i].isRecvStatusEvt
        BY <1>0, <1>2, <1>6, <1>9, <3>2, NodeRemoved
      <4>2. \A p : WaitsAt(cmdTx, p) => p # i
        BY <4>1 DEF WaitsAt, Waits
      <4>3. PICK m : m = RemoveAt(cmdTx, i)
        OBVIOUS
      <4>4. /\ NoneWaits(cmdTx) => NoneWaits(m)
            /\ \A p : WaitsAt(cmdTx, p) /\ p # i => \E q : WaitsAt(m, q) /\ m[q] = cmdTx[p]
            /\ Marked(m)
        BY <1>0, <1>8, <3>2, <4>3, WaitsRemove
      <4>5. cmdTx' = m
        BY <1>6, <3>2, <4>3
      <4> QED BY <4>2, <4>4, <4>5
    <3> QED BY <3>1, <3>2
  <2> QED BY <1>6, <2>2, <2>4, <2>5, <2>7, CreditKept
<1>10. CASE e.kind # "Final"
  <2>1. PICK p \in DOMAIN cmdTx :
          /\ Out(p) /\ ctl = <<>> /\ num = 0 /\ NoAnswer(Tail(dliQ))
          /\ cmdTx[p].cmd = e.of /\ e.n = 1 /\ cmdTx[p].isSent /\ Op(cmdTx[p].cmd) = e.op
          /\ IF e.kind = "Status" /\ e.ok THEN i = 0 /\ j = p ELSE i = p
    BY <1>1, <1>2, <1>3, <1>6, <1>10, AnswerFindsOwn
  <2>2. WaitsAt(cmdTx, p) /\ NoCredit(cpQ)
    BY <2>1 DEF Out
  <2>3. p \in 1 .. Len(cmdTx) /\ p # 0 /\ cmdTx[p].cmd # 0
    <3>1. p \in 1 .. Len(cmdTx)
      BY <1>0
    <3>2. cmdTx[p].cmd # 0
      BY <1>0, ListOfType, CmdNumbers
    <3> QED BY <3>1, <3>2
  <2>4. NoneWaits(cmdTx') /\ Marked(cmdTx')
    <3>1. CASE e.kind = "Status" /\ e.ok
      <4>1. cmdTx' = [cmdTx EXCEPT ![p].isRecvStatusEvt = TRUE]
        BY <1>6, <2>1, <2>3, <3>1
      <4>2. Op(cmdTx[p].cmd) \notin Complete
        BY <1>6, <2>1, <3>1, EventIs
      <4> QED BY <1>0, <2>1, <2>2, <4>1, <4>2, WaitsMark
    <3>2. CASE ~ (e.kind = "Status" /\ e.ok)
      <4>1. cmdTx' = RemoveAt(cmdTx, p)
        BY <1>6, <2>1, <2>3, <3>2
      <4> QED BY <1>0, <2>2, <2>3, <4>1, WaitsRemove
    <3> QED BY <3>1, <3>2
  <2>5. Gives(t)
    BY <1>7, <1>10 DEF Gives
  <2>6. GivesAt(cpQ', Len(cpQ) + 1) /\ cpQ'[Len(cpQ) + 1] = t
    BY <1>0, <1>6, <2>2, <2>5, CreditAppend
  <2>7. Restores(t)
    <3>1. e.kind = "Complete" => n.cmd # 0
      BY <1>4, <2>1, <2>3
    <3> QED BY <1>7, <2>1, <3>1 DEF Restores
  <2>8. PICK k : k = Len(cpQ) + 1
    OBVIOUS
  <2>9. Back(k)'
    BY <1>6, <2>1, <2>4, <2>6, <2>7, <2>8 DEF Back
  <2> QED BY <2>4, <2>9 DEF CreditState
<1> QED BY <1>9, <1>10

\* A time-out that overtakes no answer brings back the credit that nothing else would.
LEMMA CreditTimer ==
    ASSUME CmdTypeOK, Marked(cmdTx), CreditState, CmdTimer, ~faults'.overtaken
    PROVE  CreditState' /\ Marked(cmdTx')
<1>0. dliQ \in Seq(DliTasks) /\ cpQ \in Seq(CpTasks) /\ cmdTx \in Seq(Nodes)
  BY DEF CmdTypeOK
<1>1. PICK i \in DOMAIN cmdTx :
        /\ cmdTx[i].isSent /\ i \in 1 .. Len(cmdTx) /\ cmdTx[i] \in Nodes
        /\ cmdTx' = RemoveAt(cmdTx, i)
        /\ cpQ' = Append(cpQ, [type |-> "Timeout", node |-> cmdTx[i]])
        /\ [type |-> "Timeout", node |-> cmdTx[i]] \in CpTasks
        /\ dliQ' = PostNextTask(dliQ)
        /\ ~faults'.overtaken => ~OnTheWay(cmdTx[i].cmd)
        /\ ~subDue /\ UNCHANGED <<num, subDue, ctl>>
  BY TimerEffect
<1>2. PICK t : t = [type |-> "Timeout", node |-> cmdTx[i]]
  OBVIOUS
<1>3. t.type = "Timeout" /\ t.node = cmdTx[i] /\ t \in CpTasks /\ cpQ' = Append(cpQ, t)
  BY <1>1, <1>2
<1>4. Gives(t) <=> CreditAfterTimeout(cmdTx[i])
  BY <1>3 DEF Gives
<1>5. PICK m : m = RemoveAt(cmdTx, i)
  OBVIOUS
<1>6. /\ NoneWaits(cmdTx) \/ WaitsAt(cmdTx, i) => NoneWaits(m)
      /\ \A p : WaitsAt(cmdTx, p) /\ p # i => \E q : WaitsAt(m, q) /\ m[q] = cmdTx[p]
      /\ Marked(m) /\ cmdTx' = m
  BY <1>0, <1>1, <1>5, WaitsRemove
<1>7. /\ NoAnswer(dliQ) => NoAnswer(dliQ')
      /\ \A c : AnswersFor(dliQ, c) => AnswersFor(dliQ', c)
  <2>1. dliQ' = dliQ \/ dliQ' = Append(dliQ, Task("Next"))
    BY <1>1 DEF PostNextTask
  <2> QED BY <2>1, NextIsNeutral
<1>8. CASE ~cmdTx[i].isRecvStatusEvt
  <2>1. Gives(t)
    BY <1>4, <1>8 DEF CreditAfterTimeout
  <2>2. Waits(cmdTx, i)
    BY <1>1, <1>8 DEF Waits
  <2>3. PICK p : Out(p)
    BY <2>2 DEF CreditState, Idle, Back, NoneWaits
  <2>4. p = i
    BY <2>2, <2>3 DEF Out, WaitsAt
  <2>5. ~OnTheWay(cmdTx[i].cmd)
    BY <1>1
  <2>6. ctl = <<>>
    <3>1. ctl # <<cmdTx[i].cmd>>
      <4> SUFFICES ASSUME ctl = <<cmdTx[i].cmd>> PROVE FALSE
        OBVIOUS
      <4>1. 1 \in DOMAIN ctl /\ ctl[1] = cmdTx[i].cmd
        OBVIOUS
      <4>2. cmdTx[i].cmd \in Range(ctl)
        BY <4>1 DEF Range
      <4> QED BY <2>5, <4>2 DEF OnTheWay
    <3> QED BY <2>3, <2>4, <3>1 DEF Out
  <2>7. NoAnswer(dliQ)
    BY <2>3, <2>4, <2>5 DEF Out, AnswersFor, NoAnswer, Carries, OnTheWay
  <2>8. GivesAt(Append(cpQ, t), Len(cpQ) + 1) /\ Append(cpQ, t)[Len(cpQ) + 1] = t
    BY <1>0, <1>3, <2>1, <2>3, CreditAppend DEF Out
  <2>9. PICK k : k = Len(cpQ) + 1
    OBVIOUS
  <2>10. GivesAt(cpQ', k) /\ cpQ'[k] = t /\ Restores(t)
    BY <1>3, <2>8, <2>9 DEF Restores
  <2>11. num = 0 /\ WaitsAt(cmdTx, i)
    BY <1>1, <2>3, <2>4 DEF Out
  <2>12. Back(k)'
    BY <1>1, <1>6, <1>7, <2>6, <2>7, <2>10, <2>11 DEF Back
  <2> QED BY <1>6, <2>12 DEF CreditState
<1>9. CASE cmdTx[i].isRecvStatusEvt
  <2>1. ~Gives(t)
    BY <1>4, <1>9 DEF CreditAfterTimeout, Marked
  <2>2. \A k : GivesAt(cpQ, k) => GivesAt(Append(cpQ, t), k) /\ Append(cpQ, t)[k] = cpQ[k]
    BY <1>0, <1>3, <2>1, CreditAppend
  <2>3. \A k : GivesAt(cpQ, k) => \E n : GivesAt(cpQ', n) /\ cpQ'[n] = cpQ[k]
    BY <1>3, <2>2
  <2>4. NoCredit(cpQ) => NoCredit(cpQ')
    BY <1>0, <1>3, <2>1, CreditAppend
  <2>5. \A p : WaitsAt(cmdTx, p) => p # i
    BY <1>9 DEF WaitsAt, Waits
  <2>6. \A p : WaitsAt(cmdTx, p) => \E q : WaitsAt(cmdTx', q) /\ cmdTx'[q].cmd = cmdTx[p].cmd
    BY <1>6, <2>5
  <2>7. NoneWaits(cmdTx) => NoneWaits(cmdTx')
    BY <1>6
  <2> QED BY <1>1, <1>6, <1>7, <2>3, <2>4, <2>6, <2>7, CreditKept
<1> QED BY <1>8, <1>9

\* The controller that takes one command answers it with the one credit.
LEMMA CreditCtl ==
    ASSUME CmdTypeOK, CreditState, CtlAnswer \/ CtlFinal, ~faults'.several
    PROVE  CreditState' /\ UNCHANGED <<cmdTx, inited>> /\ faults'.overtaken = faults.overtaken
<1>0. dliQ \in Seq(DliTasks)
  BY DEF CmdTypeOK
<1>1. CASE CtlAnswer
  <2>1. PICK e \in Events :
          /\ ctl # <<>> /\ e.of = Head(ctl) /\ e.kind # "Final" /\ e.n = 1
          /\ dliQ' = dliQ \/ dliQ' = Append(dliQ, e)
          /\ faults'.overtaken = faults.overtaken
          /\ ctl' = Tail(ctl) /\ UNCHANGED <<cpQ, num, inited, cmdTx, subDue>>
    BY <1>1, AnswerEffect
  <2>2. PICK i : Out(i)
    BY <2>1 DEF CreditState, Idle, Back
  <2>3. ctl = <<cmdTx[i].cmd>> /\ NoAnswer(dliQ)
    BY <2>1, <2>2 DEF Out
  <2>4. Len(ctl) = 1 /\ Head(ctl) = cmdTx[i].cmd /\ Tail(ctl) = <<>>
    BY <2>3
  <2>5. e.n = 1 /\ e.of = cmdTx[i].cmd /\ e \in DliTasks /\ Carries(e)
    BY <2>1, <2>4, EventIs DEF DliTasks, Carries
  <2>6. AnswersFor(dliQ', cmdTx'[i].cmd)
    <3>1. AnswersFor(Append(dliQ, e), cmdTx[i].cmd)
      BY <1>0, <2>3, <2>5, AnswersAppend
    <3> QED BY <2>1, <2>2, <3>1 DEF Out
  <2>7. Out(i)'
    BY <2>1, <2>2, <2>4, <2>6 DEF Out
  <2> QED BY <2>1, <2>7 DEF CreditState
<1>2. CASE CtlFinal
  <2>1. PICK e \in Events :
          /\ e.kind = "Final"
          /\ dliQ' = dliQ \/ dliQ' = Append(dliQ, e)
          /\ faults'.overtaken = faults.overtaken
          /\ UNCHANGED <<cpQ, num, inited, cmdTx, subDue, ctl>>
    BY <1>2, FinalEffect
  <2>2. e \in DliTasks /\ ~Carries(e)
    BY <2>1 DEF DliTasks, Carries
  <2>3. /\ NoAnswer(dliQ) => NoAnswer(Append(dliQ, e))
        /\ \A c : AnswersFor(dliQ, c) => AnswersFor(Append(dliQ, e), c)
    BY <1>0, <2>2, AnswersAppend
  <2>4. /\ NoAnswer(dliQ) => NoAnswer(dliQ')
        /\ \A c : AnswersFor(dliQ, c) => AnswersFor(dliQ', c)
    BY <2>1, <2>3
  <2>5. \A k : GivesAt(cpQ, k) => \E m : GivesAt(cpQ', m) /\ cpQ'[m] = cpQ[k]
    BY <2>1
  <2>6. \A i : WaitsAt(cmdTx, i) => \E j : WaitsAt(cmdTx', j) /\ cmdTx'[j].cmd = cmdTx[i].cmd
    BY <2>1
  <2>7. (NoneWaits(cmdTx) => NoneWaits(cmdTx')) /\ (NoCredit(cpQ) => NoCredit(cpQ'))
    BY <2>1
  <2> QED BY <2>1, <2>4, <2>5, <2>6, <2>7, CreditKept
<1> QED BY <1>1, <1>2

\* Taking the credit away touches neither the switch of the layer nor the faults.
LEMMA SubOneKeeps == ASSUME SubOne PROVE inited' = inited /\ faults' = faults
BY DEF SubOne

\* The faults grow with every step.
LEMMA FaultsStep ==
    ASSUME CmdTypeOK, Placed, ListInOrder, Next
    PROVE  Grow(faults, faults')
<1>1. CASE UNCHANGED faults
  BY <1>1 DEF Grow
<1>2. CASE Visit
  BY <1>2, VisitEffect
<1>3. CASE CmdTimer
  BY <1>3, TimerEffect
<1>4. CASE CtlAnswer
  BY <1>4, AnswerEffect
<1>5. CASE CtlFinal
  BY <1>5, FinalEffect
<1>6. CASE ExecuteCommand \/ CpReg \/ CpTimeout
  BY <1>1, <1>6 DEF ExecuteCommand, CpReg, CpTimeout
<1>7. CASE CpEvent
  BY <1>1, <1>7 DEF CpEvent
<1>8. CASE DliSend \/ DliNext \/ SubOne
  BY <1>1, <1>8 DEF DliSend, DliNext, SubOne
<1>9. CASE DliEvent \/ LayerDisable
  BY <1>1, <1>9 DEF DliEvent, LayerDisable
<1> QED BY <1>2, <1>3, <1>4, <1>5, <1>6, <1>7, <1>8, <1>9 DEF Next

\* Every step keeps the credit in its place.
LEMMA CreditStep ==
    ASSUME CmdTypeOK, Placed, ListInOrder, CreditInv, Next
    PROVE  CreditInv'
<1> SUFFICES ASSUME inited', ~faults'.overtaken, ~faults'.several
             PROVE  Marked(cmdTx') /\ CreditState'
  BY DEF CreditInv, OneAtATime
<1>0. ~faults.overtaken /\ ~faults.several
  BY FaultsStep DEF Grow
<1>1. CASE LayerDisable
  BY <1>1 DEF LayerDisable
<1>2. ASSUME inited PROVE Marked(cmdTx) /\ CreditState
  BY <1>0, <1>2 DEF CreditInv, OneAtATime
<1>3. CASE ExecuteCommand \/ CpReg \/ CpEvent \/ CpTimeout
  <2>1. UNCHANGED <<cmdTx, inited, faults>>
    <3>1. CASE ExecuteCommand \/ CpReg \/ CpTimeout
      BY <3>1 DEF ExecuteCommand, CpReg, CpTimeout, dliVars
    <3>2. CASE CpEvent
      BY <3>2 DEF CpEvent, dliVars
    <3> QED BY <1>3, <3>1, <3>2
  <2>2. Marked(cmdTx) /\ CreditState
    BY <1>2, <2>1
  <2> QED BY <1>3, <2>1, <2>2, CreditCp
<1>4. CASE DliSend \/ DliNext \/ Visit \/ SubOne
  <2>1. inited' = inited /\ faults'.overtaken = faults.overtaken
    <3>1. CASE DliSend
      BY <3>1 DEF DliSend
    <3>2. CASE DliNext
      BY <3>2 DEF DliNext
    <3>3. CASE SubOne
      BY <3>3, SubOneKeeps
    <3>4. CASE Visit
      BY <3>4, VisitEffect
    <3> QED BY <1>4, <3>1, <3>2, <3>3, <3>4
  <2>2. Marked(cmdTx) /\ CreditState
    BY <1>2, <2>1
  <2> QED BY <1>4, <2>2, CreditSend
<1>5. CASE DliEvent
  <2>1. inited' = inited /\ faults' = faults
    BY <1>5 DEF DliEvent
  <2>2. Marked(cmdTx) /\ CreditState
    BY <1>2, <2>1
  <2> QED BY <1>5, <2>2, CreditEvent
<1>6. CASE CmdTimer
  <2>1. inited' = inited /\ ~faults.overtaken
    BY <1>6, TimerEffect
  <2>2. Marked(cmdTx) /\ CreditState
    BY <1>2, <2>1
  <2> QED BY <1>6, <2>2, CreditTimer
<1>7. CASE CtlAnswer \/ CtlFinal
  <2>1. UNCHANGED <<inited, cmdTx>> /\ faults'.overtaken = faults.overtaken
    <3>1. CASE CtlAnswer
      BY <3>1, AnswerEffect
    <3>2. CASE CtlFinal
      BY <3>2, FinalEffect
    <3> QED BY <1>7, <3>1, <3>2
  <2>2. Marked(cmdTx) /\ CreditState
    BY <1>2, <2>1
  <2> QED BY <1>7, <2>1, <2>2, CreditCtl
<1> QED BY <1>1, <1>3, <1>4, <1>5, <1>6, <1>7 DEF Next

-----------------------------------------------------------------------------
(* The turns. *)

\* A sequence with one more element, whose elements are all in P.
LEMMA AppendedAll ==
    ASSUME NEW S, NEW P, NEW s \in Seq(S), NEW x \in S, \A i \in DOMAIN s : s[i] \in P, x \in P
    PROVE  \A i \in DOMAIN Append(s, x) : Append(s, x)[i] \in P
<1>1. PICK u : u = Append(s, x)
  OBVIOUS
<1>2. /\ Len(s) \in Nat /\ Len(u) = Len(s) + 1 /\ u \in Seq(S)
      /\ \A i \in 1 .. Len(s) + 1 : u[i] = IF i \in 1 .. Len(s) THEN s[i] ELSE x
  BY <1>1, AppendElements
<1>3. DOMAIN s = 1 .. Len(s)
  OBVIOUS
<1>4. DOMAIN u = 1 .. Len(s) + 1
  BY <1>2
<1>5. \A i \in DOMAIN u : u[i] \in P
  BY <1>2, <1>3, <1>4
<1> QED BY <1>1, <1>5

\* A sequence without its first element, whose elements are all in P.
LEMMA TailedAll ==
    ASSUME NEW S, NEW P, NEW s \in Seq(S), s # <<>>, \A i \in DOMAIN s : s[i] \in P
    PROVE  (\A i \in DOMAIN Tail(s) : Tail(s)[i] \in P) /\ Head(s) \in P
<1>1. PICK u : u = Tail(s)
  OBVIOUS
<1>2. /\ Len(s) \in Nat \ {0} /\ Len(u) = Len(s) - 1 /\ u \in Seq(S) /\ Head(s) = s[1]
      /\ \A i \in 1 .. Len(s) - 1 : u[i] = s[i + 1]
  BY <1>1, TailElements
<1>3. DOMAIN s = 1 .. Len(s)
  OBVIOUS
<1>4. DOMAIN u = 1 .. Len(s) - 1
  BY <1>2
<1>5. (\A i \in DOMAIN u : u[i] \in P) /\ s[1] \in P
  BY <1>2, <1>3, <1>4
<1> QED BY <1>1, <1>2, <1>5

\* The places of a sequence with one more element.
LEMMA AppendedAt ==
    ASSUME NEW S, NEW s \in Seq(S), NEW x \in S
    PROVE  LET u == Append(s, x)
           IN  /\ Len(s) + 1 \in DOMAIN u /\ u[Len(s) + 1] = x
               /\ \A i \in DOMAIN s : i \in DOMAIN u /\ u[i] = s[i] /\ i < Len(s) + 1
               /\ \A i \in DOMAIN u : (i \in DOMAIN s /\ u[i] = s[i]) \/ (i = Len(s) + 1 /\ u[i] = x)
<1>1. PICK u : u = Append(s, x)
  OBVIOUS
<1>2. /\ Len(s) \in Nat /\ Len(u) = Len(s) + 1 /\ u \in Seq(S)
      /\ \A i \in 1 .. Len(s) + 1 : u[i] = IF i \in 1 .. Len(s) THEN s[i] ELSE x
  BY <1>1, AppendElements
<1>3. DOMAIN s = 1 .. Len(s)
  OBVIOUS
<1>4. DOMAIN u = 1 .. Len(s) + 1
  BY <1>2
<1>5. Len(s) + 1 \in DOMAIN u /\ u[Len(s) + 1] = x
  BY <1>2, <1>4
<1>6. \A i \in DOMAIN s : i \in DOMAIN u /\ u[i] = s[i] /\ i < Len(s) + 1
  BY <1>2, <1>3, <1>4
<1>7. \A i \in DOMAIN u : (i \in DOMAIN s /\ u[i] = s[i]) \/ (i = Len(s) + 1 /\ u[i] = x)
  BY <1>2, <1>3, <1>4
<1> QED BY <1>1, <1>5, <1>6, <1>7

\* The places of a sequence without its first element.
LEMMA TailedAt ==
    ASSUME NEW S, NEW s \in Seq(S), s # <<>>
    PROVE  LET u == Tail(s)
           IN  /\ 1 \in DOMAIN s /\ Head(s) = s[1]
               /\ \A i \in DOMAIN u : i + 1 \in DOMAIN s /\ u[i] = s[i + 1] /\ i \in Nat /\ 1 < i + 1
               /\ \A i \in DOMAIN s : i # 1 => i - 1 \in DOMAIN u /\ u[i - 1] = s[i]
<1>1. PICK u : u = Tail(s)
  OBVIOUS
<1>2. /\ Len(s) \in Nat \ {0} /\ Len(u) = Len(s) - 1 /\ u \in Seq(S) /\ Head(s) = s[1]
      /\ \A i \in 1 .. Len(s) - 1 : u[i] = s[i + 1]
  BY <1>1, TailElements
<1>3. DOMAIN s = 1 .. Len(s)
  OBVIOUS
<1>4. DOMAIN u = 1 .. Len(s) - 1
  BY <1>2
<1>5. 1 \in DOMAIN s
  BY <1>2, <1>3
<1>6. \A i \in DOMAIN u : i + 1 \in DOMAIN s /\ u[i] = s[i + 1] /\ i \in Nat /\ 1 < i + 1
  BY <1>2, <1>3, <1>4
<1>7. \A i \in DOMAIN s : i # 1 => i - 1 \in DOMAIN u /\ u[i - 1] = s[i]
  BY <1>2, <1>3, <1>4
<1> QED BY <1>1, <1>2, <1>5, <1>6, <1>7

\* The places of a list without the entry at p.
LEMMA RemovedAt ==
    ASSUME NEW l \in Seq(Nodes), NEW p \in 1 .. Len(l)
    PROVE  LET m == RemoveAt(l, p)
           IN  /\ \A i \in DOMAIN m : \E j \in DOMAIN l : j # p /\ m[i] = l[j]
               /\ \A j \in DOMAIN l : j # p => \E i \in DOMAIN m : m[i] = l[j]
               /\ ListAscends(l) => ListAscends(m)
<1>0. /\ RemoveAt(l, p) \in Seq(Nodes) /\ Len(RemoveAt(l, p)) = Len(l) - 1
      /\ \A j \in 1 .. Len(l) - 1 : RemoveAt(l, p)[j] = IF j < p THEN l[j] ELSE l[j + 1]
  BY RemoveAtProperties
<1>1. PICK m : m = RemoveAt(l, p)
  OBVIOUS
<1>2. /\ m \in Seq(Nodes) /\ Len(m) = Len(l) - 1 /\ Len(l) \in Nat
      /\ \A j \in 1 .. Len(l) - 1 : m[j] = IF j < p THEN l[j] ELSE l[j + 1]
  BY <1>0, <1>1
<1>3. DOMAIN l = 1 .. Len(l)
  OBVIOUS
<1>4. DOMAIN m = 1 .. Len(l) - 1
  BY <1>2
<1> DEFINE at(i) == IF i < p THEN i ELSE i + 1
<1>5. \A i \in DOMAIN m : at(i) \in DOMAIN l /\ m[i] = l[at(i)] /\ at(i) # p
  BY <1>2, <1>3, <1>4
<1>6. \A j \in DOMAIN l : j # p => \E i \in DOMAIN m : m[i] = l[j]
  <2> SUFFICES ASSUME NEW j \in DOMAIN l, j # p PROVE \E i \in DOMAIN m : m[i] = l[j]
    OBVIOUS
  <2>1. CASE j < p
    <3>1. j \in DOMAIN m /\ m[j] = l[j]
      BY <1>2, <1>3, <1>4, <2>1
    <3> QED BY <3>1
  <2>2. CASE j > p
    <3>1. j - 1 \in DOMAIN m /\ m[j - 1] = l[j]
      BY <1>2, <1>3, <1>4, <2>2
    <3> QED BY <3>1
  <2> QED BY <1>2, <1>3, <2>1, <2>2
<1>7. \A i, j \in DOMAIN m : i < j => at(i) < at(j)
  BY <1>2, <1>4
<1> HIDE DEF at
<1>8. \A i \in DOMAIN m : \E j \in DOMAIN l : j # p /\ m[i] = l[j]
  BY <1>5
<1>9. ListAscends(l) => ListAscends(m)
  BY <1>5, <1>7 DEF ListAscends
<1> QED BY <1>1, <1>6, <1>8, <1>9

\* The entries of a list when the one at p is sent or gets its status.
LEMMA MarkedAt ==
    ASSUME NEW l \in Seq(Nodes), NEW p \in DOMAIN l
    PROVE  /\ LET m == [l EXCEPT ![p].isSent = TRUE]
              IN  /\ DOMAIN m = DOMAIN l /\ \A i \in DOMAIN l : m[i].cmd = l[i].cmd
                  /\ m[p].isSent /\ m[p].isRecvStatusEvt = l[p].isRecvStatusEvt
                  /\ \A i \in DOMAIN l : i # p => m[i] = l[i]
           /\ LET m == [l EXCEPT ![p].isRecvStatusEvt = TRUE]
              IN  /\ DOMAIN m = DOMAIN l /\ \A i \in DOMAIN l : m[i].cmd = l[i].cmd
                  /\ m[p].isRecvStatusEvt
                  /\ \A i \in DOMAIN l : i # p => m[i] = l[i]
<1>1. l[p] \in Nodes
  OBVIOUS
<1>2. PICK s : s = [l[p] EXCEPT !.isSent = TRUE]
  OBVIOUS
<1>3. PICK r : r = [l[p] EXCEPT !.isRecvStatusEvt = TRUE]
  OBVIOUS
<1>4. s.isSent /\ s.isRecvStatusEvt = l[p].isRecvStatusEvt /\ s.cmd = l[p].cmd
  BY <1>1, <1>2 DEF Nodes
<1>5. r.isRecvStatusEvt /\ r.cmd = l[p].cmd
  BY <1>1, <1>3 DEF Nodes
<1>6. PICK m : m = [l EXCEPT ![p] = s]
  OBVIOUS
<1>7. PICK v : v = [l EXCEPT ![p] = r]
  OBVIOUS
<1>8. /\ DOMAIN m = DOMAIN l /\ m[p] = s /\ \A i \in DOMAIN l : i # p => m[i] = l[i]
      /\ DOMAIN v = DOMAIN l /\ v[p] = r /\ \A i \in DOMAIN l : i # p => v[i] = l[i]
  BY <1>6, <1>7
<1> QED BY <1>2, <1>3, <1>4, <1>5, <1>6, <1>7, <1>8

\* The commands of the list: numbers, and each once.
LEMMA ListNumbers ==
    ASSUME NEW l \in Seq(Nodes), ListAscends(l)
    PROVE  /\ \A i \in DOMAIN l : l[i].cmd \in Nat /\ i \in Nat
           /\ \A i, j \in DOMAIN l : l[i].cmd = l[j].cmd => i = j
           /\ \A i, j \in DOMAIN l : l[i].cmd < l[j].cmd => i < j
<1>1. \A i \in DOMAIN l : l[i].cmd \in Cmds
  BY ListOfType
<1>2. \A i \in DOMAIN l : l[i].cmd \in Nat
  BY <1>1, CmdNumbers
<1>3. DOMAIN l = 1 .. Len(l) /\ Len(l) \in Nat
  OBVIOUS
<1>4. \A i, j \in DOMAIN l : i < j \/ i = j \/ j < i
  BY <1>3
<1>5. \A i, j \in DOMAIN l : l[i].cmd = l[j].cmd => i = j
  BY <1>2, <1>4 DEF ListAscends
<1>6. \A i, j \in DOMAIN l : l[i].cmd < l[j].cmd => i < j
  BY <1>2, <1>4 DEF ListAscends
<1> QED BY <1>2, <1>3, <1>5, <1>6

\* The commands in the queue of the DLI thread, with a task more.
LEMMA SendsAppend ==
    ASSUME NEW q \in Seq(DliTasks), NEW t \in DliTasks, SendsAscend(q),
           t.type = "Send" => \A j \in DOMAIN q : q[j].type = "Send" => q[j].cmd < t.cmd
    PROVE  /\ SendsAscend(Append(q, t))
           /\ \A c : SendsAfter(q, c) /\ (t.type = "Send" => c < t.cmd) => SendsAfter(Append(q, t), c)
<1>1. PICK u : u = Append(q, t)
  OBVIOUS
<1>2. PICK n : n = Len(q) + 1
  OBVIOUS
<1>3. \A i \in DOMAIN u : (i \in DOMAIN q /\ u[i] = q[i]) \/ (i = n /\ u[i] = t)
  BY <1>1, <1>2, AppendedAt
<1>4. n \in Nat /\ \A i \in DOMAIN q : i < n /\ i \in Nat
  BY <1>2
<1>5. SendsAscend(u)
  <2> SUFFICES ASSUME NEW i \in DOMAIN u, NEW j \in DOMAIN u, i < j, u[i].type = "Send", u[j].type = "Send"
               PROVE  u[i].cmd < u[j].cmd
    BY DEF SendsAscend
  <2>1. CASE j = n /\ u[j] = t
    <3>1. i \in DOMAIN q /\ u[i] = q[i]
      BY <1>3, <1>4, <2>1
    <3> QED BY <2>1, <3>1
  <2>2. CASE j \in DOMAIN q /\ u[j] = q[j]
    <3>1. i \in DOMAIN q /\ u[i] = q[i]
      BY <1>3, <1>4, <2>2
    <3> QED BY <2>2, <3>1 DEF SendsAscend
  <2> QED BY <1>3, <2>1, <2>2
<1>6. \A c : SendsAfter(q, c) /\ (t.type = "Send" => c < t.cmd) => SendsAfter(u, c)
  BY <1>3 DEF SendsAfter
<1> QED BY <1>1, <1>5, <1>6

\* The commands in the queue of the DLI thread, without the first task.
LEMMA SendsTail ==
    ASSUME NEW q \in Seq(DliTasks), q # <<>>, SendsAscend(q)
    PROVE  /\ SendsAscend(Tail(q)) /\ \A c : SendsAfter(q, c) => SendsAfter(Tail(q), c)
           /\ Head(q).type = "Send" => /\ SendsAfter(Tail(q), Head(q).cmd)
                                       /\ \A c : SendsAfter(q, c) => c < Head(q).cmd
<1>1. PICK u : u = Tail(q)
  OBVIOUS
<1>2. /\ 1 \in DOMAIN q /\ Head(q) = q[1]
      /\ \A i \in DOMAIN u : i + 1 \in DOMAIN q /\ u[i] = q[i + 1] /\ i \in Nat /\ 1 < i + 1
  BY <1>1, TailedAt
<1>3. SendsAscend(u)
  <2>1. \A i, j \in DOMAIN u : i < j => i + 1 < j + 1
    BY <1>2
  <2> QED BY <1>2, <2>1 DEF SendsAscend
<1>4. \A c : SendsAfter(q, c) => SendsAfter(u, c)
  BY <1>2 DEF SendsAfter
<1>5. Head(q).type = "Send" => SendsAfter(u, Head(q).cmd)
  BY <1>2 DEF SendsAfter, SendsAscend
<1>6. Head(q).type = "Send" => \A c : SendsAfter(q, c) => c < Head(q).cmd
  BY <1>2 DEF SendsAfter
<1> QED BY <1>1, <1>3, <1>4, <1>5, <1>6

\* Every step keeps the commands in turn.
LEMMA InTurnStep ==
    ASSUME CmdTypeOK, Placed, ListInOrder, InTurn, Next
    PROVE  InTurn'
<1>0. dliQ \in Seq(DliTasks) /\ cmdTx \in Seq(Nodes) /\ issued \in Nat
  BY CmdNumbers DEF CmdTypeOK
<1>1. /\ SendsAscend(dliQ) /\ ListAscends(cmdTx)
      /\ \A i \in DOMAIN cmdTx : SendsAfter(dliQ, cmdTx[i].cmd)
  BY DEF InTurn
<1>2. ASSUME NEW t \in DliTasks, dliQ' = dliQ \/ dliQ' = Append(dliQ, t), t.type # "Send", cmdTx' = cmdTx
      PROVE  InTurn'
  <2>1. /\ SendsAscend(Append(dliQ, t))
        /\ \A c : SendsAfter(dliQ, c) => SendsAfter(Append(dliQ, t), c)
    BY <1>0, <1>1, <1>2, SendsAppend
  <2> QED BY <1>1, <1>2, <2>1 DEF InTurn
<1>3. ASSUME UNCHANGED <<dliQ, cmdTx>> PROVE InTurn'
  BY <1>1, <1>3 DEF InTurn
<1>4. Task("Next") \in DliTasks /\ Task("Next").type # "Send"
  BY MadeTypes DEF Task
<1>5. CASE ExecuteCommand
  <2>1. issued + 1 \in Cmds /\ dliQ' = Append(dliQ, SendTask(issued + 1)) /\ cmdTx' = cmdTx
    BY <1>0, <1>5, CmdNumbers DEF ExecuteCommand, dliVars
  <2>2. PICK t : t = SendTask(issued + 1)
    OBVIOUS
  <2>3. t \in DliTasks /\ t.type = "Send" /\ t.cmd = issued + 1
    BY <2>1, <2>2, MadeTypes DEF SendTask
  <2>4. ASSUME NEW j \in DOMAIN dliQ, dliQ[j].type = "Send" PROVE dliQ[j].cmd < issued + 1
    <3>1. j \in DOMAIN SendKeys(dliQ) /\ SendKeys(dliQ)[j] = dliQ[j].cmd
      BY <2>4 DEF SendKeys
    <3>2. dliQ[j] \in DliTasks
      BY <1>0
    <3>3. dliQ[j].cmd \in Cmds
      BY <2>4, <3>2, DliTaskIs
    <3>4. dliQ[j].cmd \in Held(SendKeys(dliQ))
      BY <3>1, <3>3, CmdNumbers DEF Held
    <3>5. dliQ[j].cmd \in 1 .. issued
      BY <3>4 DEF Placed
    <3> QED BY <1>0, <3>5
  <2>5. ASSUME NEW i \in DOMAIN cmdTx PROVE cmdTx[i].cmd < issued + 1
    <3>1. i \in DOMAIN ListOf(cmdTx) /\ ListOf(cmdTx)[i] = cmdTx[i].cmd /\ cmdTx[i].cmd \in Cmds
      BY <1>0, ListOfType
    <3>2. cmdTx[i].cmd \in Held(ListOf(cmdTx))
      BY <3>1, CmdNumbers DEF Held
    <3>3. cmdTx[i].cmd \in 1 .. issued
      BY <3>2 DEF Placed
    <3> QED BY <1>0, <3>3
  <2>6. /\ SendsAscend(Append(dliQ, t))
        /\ \A c : SendsAfter(dliQ, c) /\ c < issued + 1 => SendsAfter(Append(dliQ, t), c)
    BY <1>0, <1>1, <2>3, <2>4, SendsAppend
  <2> QED BY <1>1, <2>1, <2>2, <2>5, <2>6 DEF InTurn
<1>6. CASE CpReg \/ SubOne
  <2>1. UNCHANGED <<dliQ, cmdTx>>
    BY <1>6 DEF CpReg, SubOne, dliVars
  <2> QED BY <1>3, <2>1
<1>7. CASE CpEvent
  <2>1. (dliQ' = dliQ \/ dliQ' = Append(dliQ, Task("Next"))) /\ cmdTx' = cmdTx
    BY <1>7, CpEventEffect
  <2> QED BY <1>2, <1>4, <2>1
<1>8. CASE CpTimeout
  <2>1. (dliQ' = dliQ \/ dliQ' = Append(dliQ, Task("Next"))) /\ cmdTx' = cmdTx
    BY <1>8, CpTimeoutEffect
  <2> QED BY <1>2, <1>4, <2>1
<1>9. CASE DliSend
  <2>1. PICK c : c = Head(dliQ).cmd
    OBVIOUS
  <2>2. /\ dliQ # <<>> /\ Head(dliQ).type = "Send" /\ c \in Cmds /\ dliQ' = Tail(dliQ)
        /\ cmdTx' = Append(cmdTx, Node(c)) \/ cmdTx' = cmdTx
    BY <1>9, <2>1, SendEffect
  <2>3. /\ SendsAscend(dliQ') /\ \A d : SendsAfter(dliQ, d) => SendsAfter(dliQ', d) /\ d < c
        /\ SendsAfter(dliQ', c)
    BY <1>0, <1>1, <2>1, <2>2, SendsTail
  <2>4. CASE cmdTx' = cmdTx
    BY <1>1, <2>3, <2>4 DEF InTurn
  <2>5. CASE cmdTx' = Append(cmdTx, Node(c))
    <3>1. PICK n : n = Node(c)
      OBVIOUS
    <3>2. n \in Nodes /\ n.cmd = c
      BY <2>2, <3>1, MadeTypes DEF Node
    <3>3. \A i \in DOMAIN cmdTx' : (i \in DOMAIN cmdTx /\ cmdTx'[i] = cmdTx[i]) \/ (i = Len(cmdTx) + 1 /\ cmdTx'[i] = n)
      BY <1>0, <2>5, <3>1, <3>2, AppendedAt
    <3>4. Len(cmdTx) \in Nat /\ \A i \in DOMAIN cmdTx : i \in Nat /\ i < Len(cmdTx) + 1
      BY <1>0
    <3>5. \A i \in DOMAIN cmdTx' : SendsAfter(dliQ', cmdTx'[i].cmd)
      BY <1>1, <2>3, <3>2, <3>3
    <3>6. ListAscends(cmdTx')
      <4> SUFFICES ASSUME NEW i \in DOMAIN cmdTx', NEW j \in DOMAIN cmdTx', i < j
                   PROVE  cmdTx'[i].cmd < cmdTx'[j].cmd
        BY DEF ListAscends
      <4>1. i \in DOMAIN cmdTx /\ cmdTx'[i] = cmdTx[i]
        BY <3>3, <3>4
      <4>2. CASE j \in DOMAIN cmdTx /\ cmdTx'[j] = cmdTx[j]
        BY <1>1, <4>1, <4>2 DEF ListAscends
      <4>3. CASE cmdTx'[j] = n
        BY <1>1, <2>3, <3>2, <4>1, <4>3
      <4> QED BY <3>3, <4>2, <4>3
    <3> QED BY <2>3, <3>5, <3>6 DEF InTurn
  <2> QED BY <2>2, <2>4, <2>5
<1>10. CASE DliNext
  <2>1. dliQ # <<>> /\ dliQ' = Tail(dliQ) /\ cmdTx' = cmdTx
    BY <1>10 DEF DliNext, DliTask
  <2>2. SendsAscend(dliQ') /\ \A d : SendsAfter(dliQ, d) => SendsAfter(dliQ', d)
    BY <1>0, <1>1, <2>1, SendsTail
  <2> QED BY <1>1, <2>1, <2>2 DEF InTurn
<1>11. ASSUME NEW p \in DOMAIN cmdTx, cmdTx' = RemoveAt(cmdTx, p)
       PROVE  ListAscends(cmdTx') /\ \A i \in DOMAIN cmdTx' : SendsAfter(dliQ, cmdTx'[i].cmd)
  <2>1. p \in 1 .. Len(cmdTx)
    BY <1>0
  <2>2. /\ \A i \in DOMAIN cmdTx' : \E j \in DOMAIN cmdTx : j # p /\ cmdTx'[i] = cmdTx[j]
        /\ ListAscends(cmdTx')
    BY <1>0, <1>1, <1>11, <2>1, RemovedAt
  <2> QED BY <1>1, <2>2
<1>12. ASSUME NEW m, DOMAIN m = DOMAIN cmdTx, \A i \in DOMAIN cmdTx : m[i].cmd = cmdTx[i].cmd
       PROVE  ListAscends(m) /\ \A i \in DOMAIN m : SendsAfter(dliQ, m[i].cmd)
  BY <1>1, <1>12 DEF ListAscends
<1>13. CASE Visit
  <2>1. PICK p : p = Len(cmdTx) - Len(rest) + 1
    OBVIOUS
  <2>2. /\ p \in DOMAIN cmdTx /\ dliQ' = dliQ
        /\ cmdTx' = cmdTx \/ cmdTx' = [cmdTx EXCEPT ![p].isSent = TRUE]
    BY <1>13, <2>1, VisitEffect
  <2>3. DOMAIN cmdTx' = DOMAIN cmdTx /\ \A i \in DOMAIN cmdTx : cmdTx'[i].cmd = cmdTx[i].cmd
    <3>1. CASE cmdTx' = cmdTx
      BY <3>1
    <3>2. CASE cmdTx' = [cmdTx EXCEPT ![p].isSent = TRUE]
      BY <1>0, <2>2, <3>2, MarkedAt
    <3> QED BY <2>2, <3>1, <3>2
  <2>4. ListAscends(cmdTx') /\ \A i \in DOMAIN cmdTx' : SendsAfter(dliQ, cmdTx'[i].cmd)
    BY <1>12, <2>3
  <2> QED BY <1>1, <2>2, <2>4 DEF InTurn
<1>14. CASE DliEvent
  <2>1. PICK e : e = Head(dliQ)
    OBVIOUS
  <2>2. PICK i : i = CmdNodeRemove(e)
    OBVIOUS
  <2>3. PICK j : j = StatusMarks(e)
    OBVIOUS
  <2>4. /\ dliQ # <<>> /\ dliQ' = Tail(dliQ)
        /\ i = 0 \/ i \in DOMAIN cmdTx
        /\ j = 0 \/ j \in DOMAIN cmdTx
        /\ cmdTx' = IF i # 0 THEN RemoveAt(cmdTx, i)
                    ELSE IF j # 0 THEN [cmdTx EXCEPT ![j].isRecvStatusEvt = TRUE] ELSE cmdTx
    BY <1>14, <2>1, <2>2, <2>3, EventEffect
  <2>5. ListAscends(cmdTx') /\ \A k \in DOMAIN cmdTx' : SendsAfter(dliQ, cmdTx'[k].cmd)
    <3>1. CASE i # 0
      BY <1>11, <2>4, <3>1
    <3>2. CASE i = 0 /\ j # 0
      <4>1. DOMAIN cmdTx' = DOMAIN cmdTx /\ \A k \in DOMAIN cmdTx : cmdTx'[k].cmd = cmdTx[k].cmd
        BY <1>0, <2>4, <3>2, MarkedAt
      <4> QED BY <1>12, <4>1
    <3>3. CASE i = 0 /\ j = 0
      BY <1>1, <2>4, <3>3
    <3> QED BY <3>1, <3>2, <3>3
  <2>6. SendsAscend(dliQ') /\ \A d : SendsAfter(dliQ, d) => SendsAfter(dliQ', d)
    BY <1>0, <1>1, <2>4, SendsTail
  <2> QED BY <2>5, <2>6 DEF InTurn
<1>15. CASE CmdTimer
  <2>1. PICK i \in DOMAIN cmdTx : cmdTx' = RemoveAt(cmdTx, i) /\ dliQ' = PostNextTask(dliQ)
    BY <1>15, TimerEffect
  <2>2. ListAscends(cmdTx') /\ \A k \in DOMAIN cmdTx' : SendsAfter(dliQ, cmdTx'[k].cmd)
    BY <1>11, <2>1
  <2>3. dliQ' = dliQ \/ dliQ' = Append(dliQ, Task("Next"))
    BY <1>0, <2>1, NextPosted
  <2>4. SendsAscend(dliQ') /\ \A d : SendsAfter(dliQ, d) => SendsAfter(dliQ', d)
    <3>1. PICK t : t = Task("Next")
      OBVIOUS
    <3>2. /\ SendsAscend(Append(dliQ, t))
          /\ \A d : SendsAfter(dliQ, d) => SendsAfter(Append(dliQ, t), d)
      BY <1>0, <1>1, <1>4, <3>1, SendsAppend
    <3> QED BY <1>1, <2>3, <3>1, <3>2
  <2> QED BY <2>2, <2>4 DEF InTurn
<1>16. CASE LayerDisable
  <2>1. cmdTx' = <<>> /\ dliQ' = dliQ
    BY <1>16, DisableEffect
  <2>2. DOMAIN cmdTx' = {}
    BY <2>1
  <2> QED BY <1>1, <2>1, <2>2 DEF InTurn, ListAscends
<1>17. CASE CtlAnswer
  <2>1. PICK e \in Events : (dliQ' = dliQ \/ dliQ' = Append(dliQ, e)) /\ cmdTx' = cmdTx
    BY <1>17, AnswerEffect
  <2>2. e \in DliTasks /\ e.type # "Send"
    BY EventIs DEF DliTasks
  <2> QED BY <1>2, <2>1, <2>2
<1>18. CASE CtlFinal
  <2>1. PICK e \in Events : (dliQ' = dliQ \/ dliQ' = Append(dliQ, e)) /\ cmdTx' = cmdTx
    BY <1>18, FinalEffect
  <2>2. e \in DliTasks /\ e.type # "Send"
    BY EventIs DEF DliTasks
  <2> QED BY <1>2, <2>1, <2>2
<1> QED BY <1>5, <1>6, <1>7, <1>8, <1>9, <1>10, <1>13, <1>14, <1>15, <1>16, <1>17, <1>18 DEF Next

-----------------------------------------------------------------------------
(* What waits, and what answers it. *)

\* The events on their way to the DLI thread, with a task more.
LEMMA AnsweringAppend ==
    ASSUME NEW q \in Seq(DliTasks), NEW t \in DliTasks, AnswersAscend(q)
    PROVE  /\ ~Carries(t) => Answers(Append(q, t)) = Answers(q) /\ AnswersAscend(Append(q, t))
           /\ Carries(t) => Answers(Append(q, t)) = Answers(q) \cup {t.of}
           /\ Carries(t) /\ (\A a \in Answers(q) : a < t.of) => AnswersAscend(Append(q, t))
<1>1. PICK u : u = Append(q, t)
  OBVIOUS
<1>2. PICK n : n = Len(q) + 1
  OBVIOUS
<1>3. /\ n \in DOMAIN u /\ u[n] = t
      /\ \A i \in DOMAIN q : i \in DOMAIN u /\ u[i] = q[i] /\ i < n
      /\ \A i \in DOMAIN u : (i \in DOMAIN q /\ u[i] = q[i]) \/ (i = n /\ u[i] = t)
  BY <1>1, <1>2, AppendedAt
<1>4. n \in Nat /\ \A i \in DOMAIN q : i \in Nat
  BY <1>2
<1>5. Answers(u) = Answers(q) \cup (IF Carries(t) THEN {t.of} ELSE {})
  BY <1>3 DEF Answers
<1>6. ASSUME Carries(t) => \A a \in Answers(q) : a < t.of PROVE AnswersAscend(u)
  <2> SUFFICES ASSUME NEW j \in DOMAIN u, NEW k \in DOMAIN u, j < k, Carries(u[j]), Carries(u[k])
               PROVE  u[j].of < u[k].of
    BY DEF AnswersAscend
  <2>1. j \in DOMAIN q /\ u[j] = q[j]
    BY <1>3, <1>4
  <2>2. CASE k \in DOMAIN q /\ u[k] = q[k]
    BY <2>1, <2>2 DEF AnswersAscend
  <2>3. CASE u[k] = t
    <3>1. q[j].of \in Answers(q)
      BY <2>1 DEF Answers
    <3> QED BY <1>6, <2>1, <2>3, <3>1
  <2> QED BY <1>3, <2>2, <2>3
<1> QED BY <1>1, <1>5, <1>6

\* The events on their way to the DLI thread, without the first task.
LEMMA AnsweringTail ==
    ASSUME NEW q \in Seq(DliTasks), q # <<>>, AnswersAscend(q)
    PROVE  /\ AnswersAscend(Tail(q))
           /\ ~Carries(Head(q)) => Answers(Tail(q)) = Answers(q)
           /\ Carries(Head(q)) => /\ Answers(q) = Answers(Tail(q)) \cup {Head(q).of}
                                  /\ \A a \in Answers(Tail(q)) : Head(q).of < a
<1>1. PICK u : u = Tail(q)
  OBVIOUS
<1>2. /\ 1 \in DOMAIN q /\ Head(q) = q[1]
      /\ \A i \in DOMAIN u : i + 1 \in DOMAIN q /\ u[i] = q[i + 1] /\ i \in Nat /\ 1 < i + 1
      /\ \A i \in DOMAIN q : i # 1 => i - 1 \in DOMAIN u /\ u[i - 1] = q[i]
  BY <1>1, TailedAt
<1>3. AnswersAscend(u)
  <2>1. \A i, j \in DOMAIN u : i < j => i + 1 < j + 1
    BY <1>2
  <2> QED BY <1>2, <2>1 DEF AnswersAscend
<1>4. Answers(u) \subseteq Answers(q)
  BY <1>2 DEF Answers
<1>5. ASSUME NEW a \in Answers(q) PROVE a \in Answers(u) \/ (Carries(Head(q)) /\ a = Head(q).of)
  <2>1. PICK i \in DOMAIN q : Carries(q[i]) /\ a = q[i].of
    BY DEF Answers
  <2>2. CASE i = 1
    BY <1>2, <2>1, <2>2
  <2>3. CASE i # 1
    <3>1. i - 1 \in DOMAIN u /\ u[i - 1] = q[i]
      BY <1>2, <2>3
    <3> QED BY <2>1, <3>1 DEF Answers
  <2> QED BY <2>2, <2>3
<1>6. Carries(Head(q)) => Head(q).of \in Answers(q)
  BY <1>2 DEF Answers
<1>7. Carries(Head(q)) => \A a \in Answers(u) : Head(q).of < a
  BY <1>2 DEF Answers, AnswersAscend
<1> QED BY <1>1, <1>3, <1>4, <1>5, <1>6, <1>7

\* A command more waits, one no longer does, or the same do.
LEMMA WaitingList ==
    ASSUME NEW l \in Seq(Nodes), ListAscends(l)
    PROVE  /\ \A c \in Cmds : Waiting(Append(l, Node(c))) = Waiting(l)
           /\ \A p \in DOMAIN l : Waits(l, p) => Waiting(RemoveAt(l, p)) = Waiting(l) \ {l[p].cmd}
           /\ \A p \in DOMAIN l : ~Waits(l, p) => Waiting(RemoveAt(l, p)) = Waiting(l)
           /\ \A p \in DOMAIN l : ~l[p].isRecvStatusEvt =>
                Waiting([l EXCEPT ![p].isSent = TRUE]) = Waiting(l) \cup {l[p].cmd}
           /\ \A p \in DOMAIN l :
                Waiting([l EXCEPT ![p].isRecvStatusEvt = TRUE]) = Waiting(l) \ {l[p].cmd}
<1>0. \A i, j \in DOMAIN l : l[i].cmd = l[j].cmd => i = j
  BY ListNumbers
<1>1. ASSUME NEW c \in Cmds PROVE Waiting(Append(l, Node(c))) = Waiting(l)
  <2>1. PICK x : x = Node(c)
    OBVIOUS
  <2>2. x \in Nodes /\ ~x.isSent
    BY <2>1, MadeTypes DEF Node
  <2>3. PICK u : u = Append(l, x)
    OBVIOUS
  <2>4. /\ \A i \in DOMAIN l : i \in DOMAIN u /\ u[i] = l[i]
        /\ \A i \in DOMAIN u : (i \in DOMAIN l /\ u[i] = l[i]) \/ u[i] = x
    BY <2>2, <2>3, AppendedAt
  <2>5. Waiting(u) = Waiting(l)
    BY <2>2, <2>4 DEF Waiting, Waits
  <2> QED BY <2>1, <2>3, <2>5
<1>2. ASSUME NEW p \in DOMAIN l
      PROVE  /\ Waits(l, p) => Waiting(RemoveAt(l, p)) = Waiting(l) \ {l[p].cmd}
             /\ ~Waits(l, p) => Waiting(RemoveAt(l, p)) = Waiting(l)
  <2>1. PICK m : m = RemoveAt(l, p)
    OBVIOUS
  <2>2. p \in 1 .. Len(l)
    OBVIOUS
  <2>3. /\ \A i \in DOMAIN m : \E j \in DOMAIN l : j # p /\ m[i] = l[j]
        /\ \A j \in DOMAIN l : j # p => \E i \in DOMAIN m : m[i] = l[j]
    BY <2>1, <2>2, RemovedAt
  <2>4. Waits(l, p) => Waiting(m) = Waiting(l) \ {l[p].cmd}
    BY <1>0, <2>3 DEF Waiting, Waits
  <2>5. ~Waits(l, p) => Waiting(m) = Waiting(l)
    BY <2>3 DEF Waiting, Waits
  <2> QED BY <2>1, <2>4, <2>5
<1>3. ASSUME NEW p \in DOMAIN l, ~l[p].isRecvStatusEvt
      PROVE  Waiting([l EXCEPT ![p].isSent = TRUE]) = Waiting(l) \cup {l[p].cmd}
  <2>1. PICK m : m = [l EXCEPT ![p].isSent = TRUE]
    OBVIOUS
  <2>2. /\ DOMAIN m = DOMAIN l /\ \A i \in DOMAIN l : m[i].cmd = l[i].cmd
        /\ m[p].isSent /\ m[p].isRecvStatusEvt = l[p].isRecvStatusEvt
        /\ \A i \in DOMAIN l : i # p => m[i] = l[i]
    BY <2>1, MarkedAt
  <2>3. Waiting(m) = Waiting(l) \cup {l[p].cmd}
    BY <1>3, <2>2 DEF Waiting, Waits
  <2> QED BY <2>1, <2>3
<1>4. ASSUME NEW p \in DOMAIN l
      PROVE  Waiting([l EXCEPT ![p].isRecvStatusEvt = TRUE]) = Waiting(l) \ {l[p].cmd}
  <2>1. PICK m : m = [l EXCEPT ![p].isRecvStatusEvt = TRUE]
    OBVIOUS
  <2>2. /\ DOMAIN m = DOMAIN l /\ \A i \in DOMAIN l : m[i].cmd = l[i].cmd
        /\ m[p].isRecvStatusEvt
        /\ \A i \in DOMAIN l : i # p => m[i] = l[i]
    BY <2>1, MarkedAt
  <2>3. Waiting(m) = Waiting(l) \ {l[p].cmd}
    BY <1>0, <2>2 DEF Waiting, Waits
  <2> QED BY <2>1, <2>3
<1> QED BY <1>1, <1>2, <1>3, <1>4

\* The commands the controller holds, with one more and without the first.
LEMMA HeldByController ==
    ASSUME NEW s \in Seq(Cmds), Ascends(s)
    PROVE  /\ \A c \in Cmds : /\ Range(Append(s, c)) = Range(s) \cup {c}
                              /\ (\A d \in Range(s) : d < c) => Ascends(Append(s, c))
           /\ s # <<>> => /\ Ascends(Tail(s)) /\ Range(s) = Range(Tail(s)) \cup {Head(s)}
                          /\ \A d \in Range(Tail(s)) : Head(s) < d
<1>1. ASSUME NEW c \in Cmds
      PROVE  /\ Range(Append(s, c)) = Range(s) \cup {c}
             /\ (\A d \in Range(s) : d < c) => Ascends(Append(s, c))
  <2>1. PICK u : u = Append(s, c)
    OBVIOUS
  <2>2. PICK n : n = Len(s) + 1
    OBVIOUS
  <2>3. /\ n \in DOMAIN u /\ u[n] = c
        /\ \A i \in DOMAIN s : i \in DOMAIN u /\ u[i] = s[i] /\ i < n
        /\ \A i \in DOMAIN u : (i \in DOMAIN s /\ u[i] = s[i]) \/ (i = n /\ u[i] = c)
    BY <2>1, <2>2, AppendedAt
  <2>4. n \in Nat /\ \A i \in DOMAIN s : i \in Nat
    BY <2>2
  <2>5. Range(u) = Range(s) \cup {c}
    BY <2>3 DEF Range
  <2>6. ASSUME \A d \in Range(s) : d < c PROVE Ascends(u)
    <3> SUFFICES ASSUME NEW i \in DOMAIN u, NEW j \in DOMAIN u, i < j PROVE u[i] < u[j]
      BY DEF Ascends
    <3>1. i \in DOMAIN s /\ u[i] = s[i]
      BY <2>3, <2>4
    <3>2. CASE j \in DOMAIN s /\ u[j] = s[j]
      BY <3>1, <3>2 DEF Ascends
    <3>3. CASE u[j] = c
      BY <2>6, <3>1, <3>3 DEF Range
    <3> QED BY <2>3, <3>2, <3>3
  <2> QED BY <2>1, <2>5, <2>6
<1>2. ASSUME s # <<>>
      PROVE  /\ Ascends(Tail(s)) /\ Range(s) = Range(Tail(s)) \cup {Head(s)}
             /\ \A d \in Range(Tail(s)) : Head(s) < d
  <2>1. PICK u : u = Tail(s)
    OBVIOUS
  <2>2. /\ 1 \in DOMAIN s /\ Head(s) = s[1]
        /\ \A i \in DOMAIN u : i + 1 \in DOMAIN s /\ u[i] = s[i + 1] /\ i \in Nat /\ 1 < i + 1
        /\ \A i \in DOMAIN s : i # 1 => i - 1 \in DOMAIN u /\ u[i - 1] = s[i]
    BY <1>2, <2>1, TailedAt
  <2>3. \A i, j \in DOMAIN u : i < j => i + 1 < j + 1
    BY <2>2
  <2>4. Ascends(u)
    BY <2>2, <2>3 DEF Ascends
  <2>5. \A d \in Range(u) : Head(s) < d
    BY <2>2 DEF Range, Ascends
  <2>6. Range(u) \subseteq Range(s) /\ Head(s) \in Range(s)
    BY <2>2 DEF Range
  <2>7. ASSUME NEW d \in Range(s) PROVE d \in Range(u) \/ d = Head(s)
    <3>1. PICK i \in DOMAIN s : d = s[i]
      BY DEF Range
    <3>2. CASE i = 1
      BY <2>2, <3>1, <3>2
    <3>3. CASE i # 1
      <4>1. i - 1 \in DOMAIN u /\ u[i - 1] = s[i]
        BY <2>2, <3>3
      <4> QED BY <3>1, <4>1 DEF Range
    <3> QED BY <3>2, <3>3
  <2> QED BY <2>1, <2>4, <2>5, <2>6, <2>7
<1> QED BY <1>1, <1>2

\* As long as nothing is lost, the event that carries the credit finds the command it
\* answers: the first that waits.
LEMMA QueueFindsOwn ==
    ASSUME CmdTypeOK, ListInOrder, InTurn, Queued,
           dliQ # <<>>, NEW e \in Events, e = Head(dliQ), e.kind # "Final"
    PROVE  \E p \in DOMAIN cmdTx :
             /\ cmdTx[p].cmd = e.of /\ Waits(cmdTx, p) /\ Op(cmdTx[p].cmd) = e.op
             /\ IF e.kind = "Status" /\ e.ok
                THEN CmdNodeRemove(e) = 0 /\ StatusMarks(e) = p
                ELSE CmdNodeRemove(e) = p
<1>0. dliQ \in Seq(DliTasks) /\ cmdTx \in Seq(Nodes) /\ ListAscends(cmdTx) /\ Marked(cmdTx)
  BY DEF CmdTypeOK, InTurn, Queued
<1>1. Carries(Head(dliQ))
  BY EventIs DEF Carries
<1>2. Answers(dliQ) = Answers(Tail(dliQ)) \cup {e.of} /\ \A a \in Answers(Tail(dliQ)) : e.of < a
  BY <1>0, <1>1, AnsweringTail DEF Queued
<1>3. e.of \in Waiting(cmdTx)
  BY <1>2 DEF Queued
<1>4. PICK p \in DOMAIN cmdTx : cmdTx[p].cmd = e.of /\ Waits(cmdTx, p)
  BY <1>3 DEF Waiting
<1>5. \A c \in Waiting(cmdTx) : c = e.of \/ e.of < c
  <2>1. \A c \in Range(ctl) : e.of < c
    BY <1>2 DEF Queued
  <2> QED BY <1>2, <2>1 DEF Queued
<1>6. cmdTx[p].isSent /\ ~cmdTx[p].isRecvStatusEvt
  BY <1>4 DEF Waits
<1>7. /\ e.kind \in {"Complete", "Status"} /\ Op(cmdTx[p].cmd) = e.op
      /\ e.kind = "Complete" <=> e.op \in Complete
  BY <1>4, EventIs DEF Kinds
<1>8. ASSUME NEW j \in DOMAIN cmdTx, j <= p, ~cmdTx[j].isRecvStatusEvt PROVE j = p
  <2>1. j < p \/ j = p
    BY <1>0, <1>4, <1>8
  <2>2. cmdTx[j].isSent
    BY <1>6, <2>1 DEF ListInOrder
  <2>3. cmdTx[j].cmd \in Waiting(cmdTx)
    BY <1>8, <2>2 DEF Waiting, Waits
  <2>4. cmdTx[j].cmd = cmdTx[p].cmd \/ cmdTx[p].cmd < cmdTx[j].cmd
    BY <1>4, <1>5, <2>3
  <2>5. j = p \/ p < j
    BY <1>0, <2>4, ListNumbers
  <2>6. j \in Nat /\ p \in Nat
    BY <1>0, ListNumbers
  <2> QED BY <1>8, <2>5, <2>6
<1>9. PICK f : f = CmdNodeFind(e.op)
  OBVIOUS
<1>10. PICK g : g = CmdNodeFindNotRecvStatus(e.op)
  OBVIOUS
<1>11. CASE e.kind = "Complete"
  <2>1. f \in DOMAIN cmdTx /\ f <= p /\ f # 0 /\ Op(cmdTx[f].cmd) = e.op
    BY <1>0, <1>4, <1>7, <1>9, NodeFound
  <2>2. ~cmdTx[f].isRecvStatusEvt
    BY <1>0, <1>7, <1>11, <2>1 DEF Marked
  <2>3. f = p
    BY <1>8, <2>1, <2>2
  <2>4. CmdNodeRemove(e) = p
    BY <1>6, <1>9, <1>11, <2>1, <2>3 DEF CmdNodeRemove
  <2> QED BY <1>4, <1>7, <1>11, <2>4
<1>12. CASE e.kind = "Status"
  <2>1. g \in DOMAIN cmdTx /\ g <= p /\ g # 0 /\ ~cmdTx[g].isRecvStatusEvt
    BY <1>0, <1>4, <1>6, <1>7, <1>10, NotRecvStatusFound
  <2>2. g = p
    BY <1>8, <2>1
  <2>3. e.ok => CmdNodeRemove(e) = 0 /\ StatusMarks(e) = p
    BY <1>10, <1>12, <2>2 DEF CmdNodeRemove, StatusMarks
  <2>4. ~e.ok => CmdNodeRemove(e) = p
    BY <1>6, <1>10, <1>12, <2>1, <2>2 DEF CmdNodeRemove
  <2> QED BY <1>4, <1>7, <1>12, <2>3, <2>4
<1> QED BY <1>7, <1>11, <1>12

\* A layer once disabled stays so.
LEMMA StaysDisabled == ASSUME Next PROVE inited' => inited
<1>1. CASE ExecuteCommand \/ CpReg \/ CpTimeout
  BY <1>1 DEF ExecuteCommand, CpReg, CpTimeout, dliVars
<1>2. CASE CpEvent
  BY <1>2 DEF CpEvent, dliVars
<1>3. CASE DliSend \/ DliNext
  BY <1>3 DEF DliSend, DliNext
<1>8. CASE SubOne
  BY <1>8, SubOneKeeps
<1>4. CASE Visit
  BY <1>4 DEF Visit
<1>5. CASE DliEvent \/ LayerDisable
  BY <1>5 DEF DliEvent, LayerDisable
<1>6. CASE CmdTimer
  BY <1>6 DEF CmdTimer
<1>7. CASE CtlAnswer \/ CtlFinal
  BY <1>7 DEF CtlAnswer, CtlFinal, dliVars
<1> QED BY <1>1, <1>2, <1>3, <1>4, <1>5, <1>6, <1>7, <1>8 DEF Next

\* Every step keeps the commands that wait with the controller or their answers.
LEMMA QueueStep ==
    ASSUME CmdTypeOK, Placed, ListInOrder, InTurn, QueueInv, Next
    PROVE  QueueInv'
<1> SUFFICES ASSUME NothingLost' PROVE Queued'
  BY DEF QueueInv
<1>0. dliQ \in Seq(DliTasks) /\ cmdTx \in Seq(Nodes) /\ ctl \in Seq(Cmds) /\ ListAscends(cmdTx)
  BY DEF CmdTypeOK, InTurn
<1>1. inited /\ ~faults.overtaken /\ ~faults.lossy
  BY FaultsStep, StaysDisabled DEF NothingLost, Grow
<1>2. Queued
  BY <1>1 DEF QueueInv, NothingLost
<1>3. /\ Marked(cmdTx) /\ Waiting(cmdTx) = Answers(dliQ) \cup Range(ctl)
      /\ AnswersAscend(dliQ) /\ Ascends(ctl)
      /\ \A a \in Answers(dliQ), c \in Range(ctl) : a < c
  BY <1>2 DEF Queued
<1>4. ASSUME Marked(cmdTx'), Waiting(cmdTx') = Waiting(cmdTx), Answers(dliQ') = Answers(dliQ),
             AnswersAscend(dliQ'), ctl' = ctl
      PROVE  Queued'
  BY <1>3, <1>4 DEF Queued
<1>5. ASSUME NEW x \in DliTasks, ~Carries(x), dliQ' = dliQ \/ dliQ' = Append(dliQ, x)
      PROVE  Answers(dliQ') = Answers(dliQ) /\ AnswersAscend(dliQ')
  <2>1. Answers(Append(dliQ, x)) = Answers(dliQ) /\ AnswersAscend(Append(dliQ, x))
    BY <1>0, <1>3, <1>5, AnsweringAppend
  <2> QED BY <1>3, <1>5, <2>1
<1>6. ASSUME dliQ # <<>>, dliQ' = Tail(dliQ), ~Carries(Head(dliQ))
      PROVE  Answers(dliQ') = Answers(dliQ) /\ AnswersAscend(dliQ')
  BY <1>0, <1>3, <1>6, AnsweringTail
<1>7. Task("Next") \in DliTasks /\ ~Carries(Task("Next"))
  BY MadeTypes DEF Task, Carries
<1>8. CASE ExecuteCommand
  <2>1. issued + 1 \in Cmds /\ dliQ' = Append(dliQ, SendTask(issued + 1)) /\ cmdTx' = cmdTx /\ ctl' = ctl
    <3>1. issued \in Nat
      BY CmdNumbers DEF CmdTypeOK
    <3> QED BY <1>8, <3>1, CmdNumbers DEF ExecuteCommand, dliVars, ctlVars
  <2>2. SendTask(issued + 1) \in DliTasks /\ ~Carries(SendTask(issued + 1))
    BY <2>1, MadeTypes DEF SendTask, Carries
  <2> QED BY <1>3, <1>4, <1>5, <2>1, <2>2
<1>9. CASE CpReg \/ SubOne
  <2>1. UNCHANGED <<dliQ, cmdTx, ctl>>
    BY <1>9 DEF CpReg, SubOne, dliVars, ctlVars
  <2> QED BY <1>3, <1>4, <2>1
<1>10. CASE CpEvent
  <2>1. (dliQ' = dliQ \/ dliQ' = Append(dliQ, Task("Next"))) /\ cmdTx' = cmdTx /\ ctl' = ctl
    BY <1>10, CpEventEffect
  <2> QED BY <1>3, <1>4, <1>5, <1>7, <2>1
<1>11. CASE CpTimeout
  <2>1. (dliQ' = dliQ \/ dliQ' = Append(dliQ, Task("Next"))) /\ cmdTx' = cmdTx /\ ctl' = ctl
    BY <1>11, CpTimeoutEffect
  <2> QED BY <1>3, <1>4, <1>5, <1>7, <2>1
<1>12. CASE DliSend
  <2>1. PICK c : c = Head(dliQ).cmd
    OBVIOUS
  <2>2. /\ dliQ # <<>> /\ Head(dliQ).type = "Send" /\ c \in Cmds /\ dliQ' = Tail(dliQ) /\ ctl' = ctl
        /\ cmdTx' = Append(cmdTx, Node(c)) \/ cmdTx' = cmdTx
    BY <1>12, <2>1, SendEffect
  <2>3. Answers(dliQ') = Answers(dliQ) /\ AnswersAscend(dliQ')
    <3>1. ~Carries(Head(dliQ))
      BY <2>2 DEF Carries
    <3> QED BY <1>6, <2>2, <3>1
  <2>4. Marked(cmdTx') /\ Waiting(cmdTx') = Waiting(cmdTx)
    <3>1. CASE cmdTx' = cmdTx
      BY <1>3, <3>1
    <3>2. CASE cmdTx' = Append(cmdTx, Node(c))
      <4>1. Marked(Append(cmdTx, Node(c)))
        BY <1>0, <1>3, <2>2, WaitsAppend
      <4>2. Waiting(Append(cmdTx, Node(c))) = Waiting(cmdTx)
        BY <1>0, <2>2, WaitingList
      <4> QED BY <3>2, <4>1, <4>2
    <3> QED BY <2>2, <3>1, <3>2
  <2> QED BY <1>4, <2>2, <2>3, <2>4
<1>13. CASE DliNext
  <2>1. dliQ # <<>> /\ Head(dliQ).type = "Next" /\ dliQ' = Tail(dliQ) /\ cmdTx' = cmdTx /\ ctl' = ctl
    BY <1>13 DEF DliNext, DliTask, ctlVars
  <2>2. ~Carries(Head(dliQ))
    BY <2>1 DEF Carries
  <2> QED BY <1>3, <1>4, <1>6, <2>1, <2>2
<1>14. CASE Visit
  <2>1. PICK p : p = Len(cmdTx) - Len(rest) + 1
    OBVIOUS
  <2>2. /\ p \in DOMAIN cmdTx /\ dliQ' = dliQ
        /\ \/ UNCHANGED <<cmdTx, ctl>>
           \/ /\ ~cmdTx[p].isSent /\ cmdTx' = [cmdTx EXCEPT ![p].isSent = TRUE]
              /\ ctl' = Append(ctl, cmdTx[p].cmd)
    BY <1>14, <2>1, VisitEffect
  <2>3. CASE UNCHANGED <<cmdTx, ctl>>
    BY <1>3, <1>4, <2>2, <2>3
  <2>4. CASE ~cmdTx[p].isSent /\ cmdTx' = [cmdTx EXCEPT ![p].isSent = TRUE] /\ ctl' = Append(ctl, cmdTx[p].cmd)
    <3>1. PICK c : c = cmdTx[p].cmd
      OBVIOUS
    <3>2. c \in Cmds /\ ~cmdTx[p].isRecvStatusEvt
      BY <1>0, <1>3, <2>2, <2>4, <3>1, ListOfType DEF Marked
    <3>3. Marked(cmdTx')
      BY <1>0, <1>3, <2>2, <2>4, WaitsMark
    <3>4. Waiting(cmdTx') = Waiting(cmdTx) \cup {c}
      BY <1>0, <2>2, <2>4, <3>1, <3>2, WaitingList
    <3>5. ASSUME NEW d \in Waiting(cmdTx) PROVE d < c
      <4>1. PICK q \in DOMAIN cmdTx : d = cmdTx[q].cmd /\ Waits(cmdTx, q)
        BY DEF Waiting
      <4>2. cmdTx[q].isSent
        BY <4>1 DEF Waits
      <4>3. q \in Nat /\ p \in Nat /\ q # p
        BY <1>0, <2>2, <2>4, <4>2, ListNumbers
      <4>4. ~(p < q)
        BY <2>2, <2>4, <4>2 DEF ListInOrder
      <4>5. q < p
        BY <4>3, <4>4
      <4> QED BY <1>0, <2>2, <3>1, <4>1, <4>5 DEF ListAscends
    <3>6. Range(ctl') = Range(ctl) \cup {c} /\ Ascends(ctl')
      <4>1. \A d \in Range(ctl) : d < c
        BY <1>3, <3>5
      <4> QED BY <1>0, <1>3, <2>4, <3>1, <3>2, <4>1, HeldByController
    <3>7. \A a \in Answers(dliQ'), d \in Range(ctl') : a < d
      BY <1>3, <2>2, <3>5, <3>6
    <3> QED BY <1>3, <2>2, <3>3, <3>4, <3>6, <3>7 DEF Queued
  <2> QED BY <2>2, <2>3, <2>4
<1>15. CASE DliEvent
  <2>1. PICK e : e = Head(dliQ)
    OBVIOUS
  <2>2. PICK i : i = CmdNodeRemove(e)
    OBVIOUS
  <2>3. PICK j : j = StatusMarks(e)
    OBVIOUS
  <2>4. /\ dliQ # <<>> /\ e \in Events /\ dliQ' = Tail(dliQ) /\ ctl' = ctl
        /\ i = 0 \/ i \in DOMAIN cmdTx
        /\ cmdTx' = IF i # 0 THEN RemoveAt(cmdTx, i)
                    ELSE IF j # 0 THEN [cmdTx EXCEPT ![j].isRecvStatusEvt = TRUE] ELSE cmdTx
    BY <1>15, <2>1, <2>2, <2>3, EventEffect
  <2>5. ASSUME i # 0 PROVE i \in 1 .. Len(cmdTx) /\ Marked(cmdTx')
    <3>1. i \in 1 .. Len(cmdTx)
      BY <1>0, <2>4, <2>5
    <3>2. Marked(RemoveAt(cmdTx, i))
      BY <1>0, <1>3, <3>1, WaitsRemove
    <3> QED BY <2>4, <2>5, <3>1, <3>2
  <2>6. CASE e.kind = "Final"
    <3>1. ~Carries(Head(dliQ))
      BY <2>1, <2>6 DEF Carries
    <3>2. j = 0
      BY <2>3, <2>6 DEF StatusMarks
    <3>3. Marked(cmdTx') /\ Waiting(cmdTx') = Waiting(cmdTx)
      <4>1. CASE i = 0
        BY <1>3, <2>4, <3>2, <4>1
      <4>2. CASE i # 0
        <5>1. cmdTx[i].isRecvStatusEvt
          BY <1>0, <2>2, <2>4, <2>6, <4>2, NodeRemoved
        <5>2. ~Waits(cmdTx, i) /\ i \in DOMAIN cmdTx
          BY <2>4, <4>2, <5>1 DEF Waits
        <5>3. Waiting(RemoveAt(cmdTx, i)) = Waiting(cmdTx)
          BY <1>0, <5>2, WaitingList
        <5> QED BY <2>4, <2>5, <4>2, <5>3
      <4> QED BY <4>1, <4>2
    <3> QED BY <1>4, <1>6, <2>4, <3>1, <3>3
  <2>7. CASE e.kind # "Final"
    <3>1. PICK p \in DOMAIN cmdTx :
            /\ cmdTx[p].cmd = e.of /\ Waits(cmdTx, p) /\ Op(cmdTx[p].cmd) = e.op
            /\ IF e.kind = "Status" /\ e.ok THEN i = 0 /\ j = p ELSE i = p
      BY <1>2, <2>1, <2>2, <2>3, <2>4, <2>7, QueueFindsOwn
    <3>2. p # 0
      BY <1>0
    <3>3. Marked(cmdTx') /\ Waiting(cmdTx') = Waiting(cmdTx) \ {e.of}
      <4>1. CASE e.kind = "Status" /\ e.ok
        <5>1. cmdTx' = [cmdTx EXCEPT ![p].isRecvStatusEvt = TRUE]
          BY <2>4, <3>1, <3>2, <4>1
        <5>2. Op(cmdTx[p].cmd) \notin Complete /\ cmdTx[p].isSent
          BY <2>4, <3>1, <4>1, EventIs DEF Waits
        <5>3. Marked([cmdTx EXCEPT ![p].isRecvStatusEvt = TRUE])
          BY <1>0, <1>3, <5>2, WaitsMark
        <5>4. Waiting([cmdTx EXCEPT ![p].isRecvStatusEvt = TRUE]) = Waiting(cmdTx) \ {cmdTx[p].cmd}
          BY <1>0, WaitingList
        <5> QED BY <3>1, <5>1, <5>3, <5>4
      <4>2. CASE ~(e.kind = "Status" /\ e.ok)
        <5>1. i = p /\ cmdTx' = RemoveAt(cmdTx, p)
          BY <2>4, <3>1, <3>2, <4>2
        <5>2. Waiting(RemoveAt(cmdTx, p)) = Waiting(cmdTx) \ {cmdTx[p].cmd}
          BY <1>0, <3>1, WaitingList
        <5> QED BY <2>5, <3>1, <3>2, <5>1, <5>2
      <4> QED BY <4>1, <4>2
    <3>4. Carries(Head(dliQ))
      BY <2>1, <2>4, <2>7, EventIs DEF Carries
    <3>5. /\ Answers(dliQ) = Answers(dliQ') \cup {e.of} /\ AnswersAscend(dliQ')
          /\ \A a \in Answers(dliQ') : e.of < a
      BY <1>0, <1>3, <2>1, <2>4, <3>4, AnsweringTail
    <3>6. e.of \in Nat
      BY <2>4, EventIs, CmdNumbers
    <3>7. e.of \notin Answers(dliQ') /\ e.of \notin Range(ctl)
      <4>1. ~(e.of < e.of)
        BY <3>6
      <4> QED BY <1>3, <3>5, <4>1
    <3>8. Waiting(cmdTx') = Answers(dliQ') \cup Range(ctl')
      BY <1>3, <2>4, <3>3, <3>5, <3>7
    <3> QED BY <1>3, <2>4, <3>3, <3>5, <3>8 DEF Queued
  <2> QED BY <2>6, <2>7
<1>16. CASE CmdTimer
  <2>1. PICK i \in DOMAIN cmdTx :
          /\ i \in 1 .. Len(cmdTx) /\ cmdTx' = RemoveAt(cmdTx, i) /\ dliQ' = PostNextTask(dliQ)
          /\ ~faults'.overtaken => ~OnTheWay(cmdTx[i].cmd)
          /\ ctl' = ctl
    BY <1>16, TimerEffect
  <2>2. ~OnTheWay(cmdTx[i].cmd)
    BY <2>1 DEF NothingLost
  <2>3. cmdTx[i].cmd \notin Answers(dliQ) /\ cmdTx[i].cmd \notin Range(ctl)
    BY <2>2 DEF OnTheWay, Answers, Carries
  <2>4. ~Waits(cmdTx, i)
    BY <1>3, <2>3 DEF Waiting
  <2>5. Marked(RemoveAt(cmdTx, i))
    BY <1>0, <1>3, <2>1, WaitsRemove
  <2>6. Waiting(RemoveAt(cmdTx, i)) = Waiting(cmdTx)
    BY <1>0, <2>4, WaitingList
  <2>7. dliQ' = dliQ \/ dliQ' = Append(dliQ, Task("Next"))
    BY <1>0, <2>1, NextPosted
  <2> QED BY <1>4, <1>5, <1>7, <2>1, <2>5, <2>6, <2>7
<1>17. CASE LayerDisable
  BY <1>17, DisableEffect DEF NothingLost
<1>18. CASE CtlAnswer
  <2>1. PICK e \in Events :
          /\ ctl # <<>> /\ e.of = Head(ctl) /\ e.kind # "Final"
          /\ ~faults'.lossy => dliQ' = Append(dliQ, e)
          /\ ctl' = Tail(ctl) /\ cmdTx' = cmdTx
    BY <1>18, AnswerEffect
  <2>2. dliQ' = Append(dliQ, e) /\ e \in DliTasks /\ Carries(e)
    BY <2>1, EventIs DEF NothingLost, DliTasks, Carries
  <2>3. /\ Ascends(ctl') /\ Range(ctl) = Range(ctl') \cup {e.of}
        /\ \A d \in Range(ctl') : e.of < d
    BY <1>0, <1>3, <2>1, HeldByController
  <2>4. \A a \in Answers(dliQ) : a < e.of
    BY <1>3, <2>3
  <2>5. Answers(dliQ') = Answers(dliQ) \cup {e.of} /\ AnswersAscend(dliQ')
    BY <1>0, <1>3, <2>2, <2>4, AnsweringAppend
  <2>6. \A a \in Answers(dliQ'), c \in Range(ctl') : a < c
    BY <1>3, <2>3, <2>5
  <2>7. Marked(cmdTx') /\ Waiting(cmdTx') = Answers(dliQ') \cup Range(ctl')
    BY <1>3, <2>1, <2>3, <2>5
  <2> QED BY <2>3, <2>5, <2>6, <2>7 DEF Queued
<1>19. CASE CtlFinal
  <2>1. PICK e \in Events :
          e.kind = "Final" /\ (dliQ' = dliQ \/ dliQ' = Append(dliQ, e)) /\ UNCHANGED <<cmdTx, ctl>>
    BY <1>19, FinalEffect
  <2>2. e \in DliTasks /\ ~Carries(e)
    BY <2>1 DEF DliTasks, Carries
  <2> QED BY <1>3, <1>4, <1>5, <2>1, <2>2
<1> QED BY <1>8, <1>9, <1>10, <1>11, <1>12, <1>13, <1>14, <1>15, <1>16, <1>17, <1>18, <1>19 DEF Next

-----------------------------------------------------------------------------
(* The room. *)

\* The reports in the queue of the DLI thread, with a task more or less and with more room.
LEMMA DliFits ==
    ASSUME NEW q \in Seq(DliTasks), NEW m \in Int, \A k \in DOMAIN q : q[k] \in DliFit(m)
    PROVE  /\ \A t \in DliTasks : (Carries(t) => t.n <= m) =>
                \A k \in DOMAIN Append(q, t) : Append(q, t)[k] \in DliFit(m)
           /\ q # <<>> => (\A k \in DOMAIN Tail(q) : Tail(q)[k] \in DliFit(m)) /\ Head(q) \in DliFit(m)
           /\ \A n \in Int : m <= n => \A k \in DOMAIN q : q[k] \in DliFit(n)
<1>1. ASSUME NEW t \in DliTasks, Carries(t) => t.n <= m
      PROVE  \A k \in DOMAIN Append(q, t) : Append(q, t)[k] \in DliFit(m)
  <2>1. t \in DliFit(m)
    BY <1>1 DEF DliFit
  <2> QED BY <2>1, AppendedAll
<1>2. q # <<>> => (\A k \in DOMAIN Tail(q) : Tail(q)[k] \in DliFit(m)) /\ Head(q) \in DliFit(m)
  BY TailedAll
<1>3. ASSUME NEW n \in Int, m <= n, NEW k \in DOMAIN q PROVE q[k] \in DliFit(n)
  <2>1. PICK t : t = q[k]
    OBVIOUS
  <2>2. t \in DliTasks /\ (Carries(t) => t.n <= m)
    BY <2>1 DEF DliFit
  <2>3. Carries(t) => t.n \in Nat
    BY <2>2, DliTaskIs, EventIs DEF Carries
  <2>4. Carries(t) => t.n <= n
    BY <1>3, <2>2, <2>3
  <2> QED BY <2>1, <2>2, <2>4 DEF DliFit
<1> QED BY <1>1, <1>2, <1>3

\* The reports in the queue of the CP thread, with a task more or less and with more room.
LEMMA CpFits ==
    ASSUME NEW q \in Seq(CpTasks), NEW m \in Int, \A k \in DOMAIN q : q[k] \in CpFit(m)
    PROVE  /\ \A t \in CpTasks : (Gives(t) => t.type = "Event" /\ t.event.n <= m) =>
                \A k \in DOMAIN Append(q, t) : Append(q, t)[k] \in CpFit(m)
           /\ q # <<>> => (\A k \in DOMAIN Tail(q) : Tail(q)[k] \in CpFit(m)) /\ Head(q) \in CpFit(m)
           /\ \A n \in Int : m <= n => \A k \in DOMAIN q : q[k] \in CpFit(n)
<1>1. ASSUME NEW t \in CpTasks, Gives(t) => t.type = "Event" /\ t.event.n <= m
      PROVE  \A k \in DOMAIN Append(q, t) : Append(q, t)[k] \in CpFit(m)
  <2>1. t \in CpFit(m)
    BY <1>1 DEF CpFit
  <2> QED BY <2>1, AppendedAll
<1>2. q # <<>> => (\A k \in DOMAIN Tail(q) : Tail(q)[k] \in CpFit(m)) /\ Head(q) \in CpFit(m)
  BY TailedAll
<1>3. ASSUME NEW n \in Int, m <= n, NEW k \in DOMAIN q PROVE q[k] \in CpFit(n)
  <2>1. PICK t : t = q[k]
    OBVIOUS
  <2>2. t \in CpTasks /\ (Gives(t) => t.type = "Event" /\ t.event.n <= m)
    BY <2>1 DEF CpFit
  <2>3. Gives(t) => t.event.n \in Nat
    BY <2>2, CpTaskIs, EventIs
  <2>4. Gives(t) => t.type = "Event" /\ t.event.n <= n
    BY <1>3, <2>2, <2>3
  <2> QED BY <2>1, <2>2, <2>4 DEF CpFit
<1> QED BY <1>1, <1>2, <1>3

\* Every step keeps the credit and the reports within the room of the controller.
LEMMA RoomStep ==
    ASSUME CmdTypeOK, Placed, ListInOrder, InTurn, QueueInv, RoomInv, Next
    PROVE  RoomInv'
<1> SUFFICES ASSUME NothingLost', ~faults'.crossed PROVE RoomOK'
  BY DEF RoomInv
<1>0. /\ dliQ \in Seq(DliTasks) /\ cpQ \in Seq(CpTasks) /\ cmdTx \in Seq(Nodes) /\ ctl \in Seq(Cmds)
      /\ num \in Nat /\ subDue \in BOOLEAN /\ Len(ctl) \in Nat
  BY DEF CmdTypeOK
<1>1. Cap \in Nat \ {0} /\ Cap' = Cap
  <2>1. faults \in Faults
    BY DEF CmdTypeOK
  <2>2. faults'.left.cap = faults.left.cap
    BY FaultsStep DEF Grow
  <2> QED BY <2>1, <2>2 DEF Cap, Faults, Surroundings
<1>2. inited /\ ~faults.overtaken /\ ~faults.lossy /\ ~faults.crossed
  BY FaultsStep, StaysDisabled DEF NothingLost, Grow
<1>3. Queued
  BY <1>2 DEF QueueInv, NothingLost
<1>4. PICK m \in Int : m = LeftOver /\ m = Cap - Len(ctl)
  BY <1>0, <1>1 DEF LeftOver
<1>5. /\ num <= m + (IF subDue THEN 1 ELSE 0)
      /\ subDue => num > 0 /\ NoCredit(cpQ)
      /\ \A k \in DOMAIN dliQ : dliQ[k] \in DliFit(m)
      /\ \A k \in DOMAIN cpQ : cpQ[k] \in CpFit(m)
  BY <1>2, <1>4 DEF RoomInv, NothingLost, RoomOK
<1>6. m >= 0
  BY <1>0, <1>5
<1>7. ASSUME ctl' = ctl, num' <= m + (IF subDue' THEN 1 ELSE 0), subDue' => num' > 0 /\ NoCredit(cpQ'),
             \A k \in DOMAIN dliQ' : dliQ'[k] \in DliFit(m), \A k \in DOMAIN cpQ' : cpQ'[k] \in CpFit(m)
      PROVE  RoomOK'
  <2>1. LeftOver' = m
    BY <1>1, <1>4, <1>7 DEF LeftOver
  <2> QED BY <1>7, <2>1 DEF RoomOK
<1>8. ASSUME NEW x \in DliTasks, ~Carries(x), dliQ' = dliQ \/ dliQ' = Append(dliQ, x)
      PROVE  \A k \in DOMAIN dliQ' : dliQ'[k] \in DliFit(m)
  <2>1. \A k \in DOMAIN Append(dliQ, x) : Append(dliQ, x)[k] \in DliFit(m)
    BY <1>0, <1>5, <1>8, DliFits
  <2> QED BY <1>5, <1>8, <2>1
<1>9. Task("Next") \in DliTasks /\ ~Carries(Task("Next"))
  BY MadeTypes DEF Task, Carries
<1>10. dliQ # <<>> => (\A k \in DOMAIN Tail(dliQ) : Tail(dliQ)[k] \in DliFit(m)) /\ Head(dliQ) \in DliFit(m)
  BY <1>0, <1>5, DliFits
<1>11. ASSUME NEW q \in Seq(CpTasks), \A k \in DOMAIN q : q[k] \in CpFit(m), NEW t \in CpTasks, ~Gives(t)
       PROVE  /\ \A k \in DOMAIN Append(q, t) : Append(q, t)[k] \in CpFit(m)
              /\ NoCredit(q) => NoCredit(Append(q, t))
  BY <1>11, CpFits, CreditAppend
<1>12. cpQ # <<>> => /\ (\A k \in DOMAIN Tail(cpQ) : Tail(cpQ)[k] \in CpFit(m)) /\ Head(cpQ) \in CpFit(m)
                     /\ NoCredit(cpQ) => NoCredit(Tail(cpQ)) /\ ~Gives(Head(cpQ))
                     /\ Tail(cpQ) \in Seq(CpTasks)
  <2>1. cpQ # <<>> => (\A k \in DOMAIN Tail(cpQ) : Tail(cpQ)[k] \in CpFit(m)) /\ Head(cpQ) \in CpFit(m)
    BY <1>0, <1>5, CpFits
  <2>2. cpQ # <<>> => (NoCredit(cpQ) => NoCredit(Tail(cpQ)) /\ ~Gives(Head(cpQ)))
    BY <1>0, CreditTail
  <2>3. cpQ # <<>> => Tail(cpQ) \in Seq(CpTasks)
    BY <1>0, TailElements
  <2> QED BY <2>1, <2>2, <2>3
<1>13. \A c \in Cmds, r \in {"Reg", "UnReg"} : CpTask(r, c) \in CpTasks /\ ~Gives(CpTask(r, c))
  BY MadeTypes DEF CpTask, Gives
<1>14. CASE ExecuteCommand
  <2>1. issued + 1 \in Cmds /\ dliQ' = Append(dliQ, SendTask(issued + 1))
    <3>1. issued \in Nat
      BY CmdNumbers DEF CmdTypeOK
    <3> QED BY <1>14, <3>1, CmdNumbers DEF ExecuteCommand
  <2>2. cpQ' = cpQ \/ cpQ' = Append(cpQ, CpTask("Reg", issued + 1))
    BY <1>14 DEF ExecuteCommand
  <2>3. UNCHANGED <<num, subDue, ctl>>
    BY <1>14 DEF ExecuteCommand, dliVars, ctlVars
  <2>4. \A k \in DOMAIN dliQ' : dliQ'[k] \in DliFit(m)
    <3>1. SendTask(issued + 1) \in DliTasks /\ ~Carries(SendTask(issued + 1))
      BY <2>1, MadeTypes DEF SendTask, Carries
    <3> QED BY <1>8, <2>1, <3>1
  <2>5. (\A k \in DOMAIN cpQ' : cpQ'[k] \in CpFit(m)) /\ (NoCredit(cpQ) => NoCredit(cpQ'))
    <3>1. PICK t : t = CpTask("Reg", issued + 1)
      OBVIOUS
    <3>2. t \in CpTasks /\ ~Gives(t)
      BY <1>13, <2>1, <3>1
    <3>3. /\ \A k \in DOMAIN Append(cpQ, t) : Append(cpQ, t)[k] \in CpFit(m)
          /\ NoCredit(cpQ) => NoCredit(Append(cpQ, t))
      BY <1>0, <1>5, <1>11, <3>2
    <3> QED BY <1>5, <2>2, <3>1, <3>3
  <2> QED BY <1>5, <1>7, <2>3, <2>4, <2>5
<1>15. CASE CpReg
  <2>1. cpQ # <<>> /\ cpQ' = Tail(cpQ) /\ UNCHANGED <<dliQ, num, subDue, ctl>>
    BY <1>15 DEF CpReg, dliVars, ctlVars
  <2> QED BY <1>5, <1>7, <1>12, <2>1
<1>16. CASE CpEvent
  <2>1. PICK e \in Events, c \in Cmds \cup {0} :
          /\ cpQ # <<>> /\ Head(cpQ).type = "Event" /\ e = Head(cpQ).event
          /\ num' = IF e.kind = "Final" \/ (e.kind = "Complete" /\ c = 0) THEN num ELSE e.n
          /\ dliQ' = dliQ \/ dliQ' = Append(dliQ, Task("Next"))
          /\ c = 0 => cpQ' = Tail(cpQ)
          /\ c # 0 => cpQ' = Tail(cpQ) \/ cpQ' = Append(Tail(cpQ), CpTask("UnReg", c))
          /\ UNCHANGED <<subDue, ctl>>
    BY <1>16, CpEventEffect, ZenonT(60)
  <2>2. \A k \in DOMAIN dliQ' : dliQ'[k] \in DliFit(m)
    BY <1>8, <1>9, <2>1
  <2>3. (\A k \in DOMAIN cpQ' : cpQ'[k] \in CpFit(m)) /\ (NoCredit(cpQ) => NoCredit(cpQ'))
    <3>1. CASE cpQ' = Tail(cpQ)
      BY <1>12, <2>1, <3>1
    <3>2. CASE c # 0 /\ cpQ' = Append(Tail(cpQ), CpTask("UnReg", c))
      <4>1. PICK t : t = CpTask("UnReg", c)
        OBVIOUS
      <4>2. t \in CpTasks /\ ~Gives(t)
        BY <1>13, <3>2, <4>1
      <4>3. /\ \A k \in DOMAIN Append(Tail(cpQ), t) : Append(Tail(cpQ), t)[k] \in CpFit(m)
            /\ NoCredit(Tail(cpQ)) => NoCredit(Append(Tail(cpQ), t))
        BY <1>11, <1>12, <2>1, <4>2
      <4> QED BY <1>12, <2>1, <3>2, <4>1, <4>3
    <3> QED BY <2>1, <3>1, <3>2
  <2>4. /\ num' <= m + (IF subDue' THEN 1 ELSE 0)
        /\ subDue' => num' > 0 /\ NoCredit(cpQ')
    <3>1. CASE num' = num
      BY <1>5, <2>1, <2>3, <3>1
    <3>2. CASE num' = e.n /\ e.kind # "Final"
      <4>1. Gives(Head(cpQ))
        BY <2>1, <3>2 DEF Gives
      <4>2. e.n <= m /\ ~subDue
        BY <1>5, <1>12, <2>1, <4>1 DEF CpFit
      <4> QED BY <2>1, <3>2, <4>2
    <3> QED BY <2>1, <3>1, <3>2
  <2> QED BY <1>7, <2>1, <2>2, <2>3, <2>4
<1>17. CASE CpTimeout
  <2>1. /\ cpQ # <<>> /\ Head(cpQ).type = "Timeout" /\ cpQ' = Tail(cpQ)
        /\ num' = IF CreditAfterTimeout(Head(cpQ).node) THEN 1 ELSE num
        /\ dliQ' = dliQ \/ dliQ' = Append(dliQ, Task("Next"))
        /\ UNCHANGED <<subDue, ctl>>
    BY <1>17, CpTimeoutEffect
  <2>2. ~CreditAfterTimeout(Head(cpQ).node)
    BY <1>12, <2>1 DEF CpFit, Gives
  <2>3. \A k \in DOMAIN dliQ' : dliQ'[k] \in DliFit(m)
    BY <1>8, <1>9, <2>1
  <2> QED BY <1>5, <1>7, <1>12, <2>1, <2>2, <2>3
<1>18. CASE DliSend
  <2>1. dliQ # <<>> /\ dliQ' = Tail(dliQ) /\ UNCHANGED <<cpQ, num, subDue, ctl>>
    BY <1>18, SendEffect
  <2> QED BY <1>5, <1>7, <1>10, <2>1
<1>19. CASE DliNext
  <2>1. dliQ # <<>> /\ dliQ' = Tail(dliQ) /\ UNCHANGED <<cpQ, num, subDue, ctl>>
    BY <1>19 DEF DliNext, DliTask, ctlVars
  <2> QED BY <1>5, <1>7, <1>10, <2>1
<1>20. CASE Visit
  <2>1. /\ ~subDue /\ UNCHANGED <<dliQ, cpQ, num>>
        /\ \/ UNCHANGED <<subDue, ctl>>
           \/ /\ num > 0 /\ subDue' = TRUE /\ \E c \in Cmds : ctl' = Append(ctl, c)
              /\ ~faults'.crossed => ~ReportOnTheWay
    <3>1. PICK i : i = Len(cmdTx) - Len(rest) + 1
      OBVIOUS
    <3>2. /\ ~subDue /\ UNCHANGED <<dliQ, cpQ, num>> /\ i \in DOMAIN cmdTx
          /\ \/ UNCHANGED <<subDue, ctl>>
             \/ /\ num > 0 /\ subDue' = TRUE /\ ctl' = Append(ctl, cmdTx[i].cmd)
                /\ ~faults'.crossed => ~ReportOnTheWay
      BY <1>20, <3>1, VisitEffect
    <3>3. cmdTx[i].cmd \in Cmds
      BY <1>0, <3>2, ListOfType
    <3> QED BY <3>2, <3>3
  <2>2. CASE UNCHANGED <<subDue, ctl>>
    BY <1>5, <1>7, <2>1, <2>2
  <2>3. CASE num > 0 /\ subDue' = TRUE /\ (\E c \in Cmds : ctl' = Append(ctl, c)) /\ ~ReportOnTheWay
    <3>1. Len(ctl') = Len(ctl) + 1
      BY <1>0, <2>3, AppendElements
    <3>2. LeftOver' = m - 1
      BY <1>0, <1>1, <1>4, <3>1 DEF LeftOver
    <3>3. NoAnswer(dliQ)
      BY <2>3 DEF ReportOnTheWay, NoAnswer, Carries
    <3>4. NoCredit(cpQ)
      <4> SUFFICES ASSUME NEW k \in DOMAIN cpQ, Gives(cpQ[k]) PROVE FALSE
        BY DEF NoCredit
      <4>1. cpQ[k].type = "Event"
        BY <1>5 DEF CpFit
      <4> QED BY <2>3, <4>1 DEF Gives, ReportOnTheWay
    <3>5. \A k \in DOMAIN dliQ' : dliQ'[k] \in DliFit(m - 1)
      BY <1>0, <2>1, <3>3 DEF NoAnswer, DliFit
    <3>6. \A k \in DOMAIN cpQ' : cpQ'[k] \in CpFit(m - 1)
      BY <1>0, <2>1, <3>4 DEF NoCredit, CpFit
    <3>7. num' <= (m - 1) + 1 /\ num' > 0 /\ NoCredit(cpQ')
      BY <1>0, <1>5, <2>1, <2>3, <3>4
    <3> QED BY <2>3, <3>2, <3>5, <3>6, <3>7 DEF RoomOK
  <2> QED BY <2>1, <2>2, <2>3
<1>21. CASE SubOne
  <2>1. subDue /\ subDue' = FALSE /\ num' = (num + 65535) % 65536 /\ UNCHANGED <<dliQ, cpQ, ctl>>
    BY <1>21 DEF SubOne, ctlVars
  <2>2. num > 0 /\ num <= m + 1
    BY <1>5, <2>1
  <2>3. num' <= num - 1
    BY <1>0, <2>1, <2>2
  <2>4. num' \in Nat
    BY <1>0, <2>1
  <2>5. num' <= m
    BY <1>0, <2>2, <2>3, <2>4
  <2> QED BY <1>5, <1>7, <2>1, <2>5
<1>22. CASE DliEvent
  <2>1. PICK e : e = Head(dliQ)
    OBVIOUS
  <2>2. PICK n : n = IF CmdNodeRemove(e) # 0 THEN cmdTx[CmdNodeRemove(e)] ELSE NoNode
    OBVIOUS
  <2>3. PICK t : t = [type |-> "Event", event |-> e, node |-> n]
    OBVIOUS
  <2>4. /\ dliQ # <<>> /\ e \in Events /\ dliQ' = Tail(dliQ) /\ ~subDue
        /\ cpQ' = Append(cpQ, t) /\ t \in CpTasks /\ UNCHANGED <<num, subDue, ctl>>
    BY <1>22, <2>1, <2>2, <2>3, EventEffect
  <2>5. Gives(t) => t.type = "Event" /\ t.event.n <= m
    <3>1. t.type = "Event" /\ t.event = e
      BY <2>3
    <3>2. Gives(t) => Carries(e)
      BY <2>4, <3>1, EventIs DEF Gives, Carries
    <3>3. Carries(e) => e.n <= m
      BY <1>10, <2>1, <2>4 DEF DliFit
    <3> QED BY <3>1, <3>2, <3>3
  <2>6. \A k \in DOMAIN cpQ' : cpQ'[k] \in CpFit(m)
    BY <1>0, <1>5, <2>4, <2>5, CpFits
  <2> QED BY <1>5, <1>7, <1>10, <2>4, <2>6
<1>23. CASE CmdTimer
  <2>1. PICK i \in DOMAIN cmdTx :
          /\ cmdTx[i].isSent
          /\ cpQ' = Append(cpQ, [type |-> "Timeout", node |-> cmdTx[i]])
          /\ [type |-> "Timeout", node |-> cmdTx[i]] \in CpTasks
          /\ dliQ' = PostNextTask(dliQ)
          /\ ~faults'.overtaken => ~OnTheWay(cmdTx[i].cmd)
          /\ ~subDue /\ UNCHANGED <<num, subDue, ctl>>
    BY <1>23, TimerEffect
  <2>2. ~OnTheWay(cmdTx[i].cmd)
    BY <2>1 DEF NothingLost
  <2>3. cmdTx[i].cmd \notin Answers(dliQ) /\ cmdTx[i].cmd \notin Range(ctl)
    BY <2>2 DEF OnTheWay, Answers, Carries
  <2>4. ~Waits(cmdTx, i)
    BY <1>3, <2>3 DEF Queued, Waiting
  <2>5. cmdTx[i].isRecvStatusEvt /\ Op(cmdTx[i].cmd) \notin Complete
    BY <1>3, <2>1, <2>4 DEF Queued, Waits, Marked
  <2>6. PICK t : t = [type |-> "Timeout", node |-> cmdTx[i]]
    OBVIOUS
  <2>7. t \in CpTasks /\ ~Gives(t) /\ cpQ' = Append(cpQ, t)
    BY <2>1, <2>5, <2>6 DEF Gives, CreditAfterTimeout
  <2>8. \A k \in DOMAIN cpQ' : cpQ'[k] \in CpFit(m)
    BY <1>0, <1>5, <1>11, <2>7
  <2>9. dliQ' = dliQ \/ dliQ' = Append(dliQ, Task("Next"))
    BY <1>0, <2>1, NextPosted
  <2>10. \A k \in DOMAIN dliQ' : dliQ'[k] \in DliFit(m)
    BY <1>8, <1>9, <2>9
  <2> QED BY <1>5, <1>7, <2>1, <2>8, <2>10
<1>24. CASE LayerDisable
  BY <1>24, DisableEffect DEF NothingLost
<1>25. CASE CtlAnswer
  <2>1. PICK e \in Events :
          /\ ctl # <<>> /\ e.n \in Reports
          /\ dliQ' = dliQ \/ dliQ' = Append(dliQ, e)
          /\ ctl' = Tail(ctl) /\ UNCHANGED <<cpQ, num, subDue>>
    BY <1>25, AnswerEffect
  <2>2. Len(ctl') = Len(ctl) - 1
    BY <1>0, <2>1, TailElements
  <2>3. LeftOver' = m + 1 /\ m + 1 \in Int
    BY <1>0, <1>1, <1>4, <2>2 DEF LeftOver
  <2>4. e.n <= m + 1
    <3>1. Free = m + 1
      BY <1>0, <1>1, <1>4, <1>6 DEF Free
    <3>2. e.n \in 1 .. m + 1
      BY <1>6, <2>1, <3>1 DEF Reports
    <3> QED BY <3>2
  <2>5. e \in DliTasks
    BY DEF DliTasks
  <2>6. m <= m + 1
    OBVIOUS
  <2>7. (\A k \in DOMAIN dliQ : dliQ[k] \in DliFit(m + 1)) /\ (\A k \in DOMAIN cpQ : cpQ[k] \in CpFit(m + 1))
    BY <1>0, <1>5, <2>3, <2>6, DliFits, CpFits
  <2>8. \A k \in DOMAIN Append(dliQ, e) : Append(dliQ, e)[k] \in DliFit(m + 1)
    BY <1>0, <2>3, <2>4, <2>5, <2>7, DliFits
  <2>9. \A k \in DOMAIN dliQ' : dliQ'[k] \in DliFit(m + 1)
    BY <2>1, <2>7, <2>8
  <2>10. num' <= (m + 1) + (IF subDue' THEN 1 ELSE 0)
    BY <1>0, <1>5, <2>1
  <2> QED BY <1>5, <2>1, <2>3, <2>7, <2>9, <2>10 DEF RoomOK
<1>26. CASE CtlFinal
  <2>1. PICK e \in Events :
          /\ e.kind = "Final" /\ (dliQ' = dliQ \/ dliQ' = Append(dliQ, e))
          /\ UNCHANGED <<cpQ, num, subDue, ctl>>
    BY <1>26, FinalEffect
  <2>2. e \in DliTasks /\ ~Carries(e)
    BY <2>1 DEF DliTasks, Carries
  <2>3. \A k \in DOMAIN dliQ' : dliQ'[k] \in DliFit(m)
    BY <1>8, <2>1, <2>2
  <2> QED BY <1>5, <1>7, <2>1, <2>3
<1> QED BY <1>14, <1>15, <1>16, <1>17, <1>18, <1>19, <1>20, <1>21, <1>22, <1>23, <1>24, <1>25, <1>26 DEF Next

-----------------------------------------------------------------------------
(* Its own answer. *)

\* Every step keeps a command's answer its own.
LEMMA OwnAnswerStep ==
    ASSUME CmdTypeOK, Placed, ListInOrder, InTurn, CreditInv, QueueInv, OwnAnswer, Next
    PROVE  OwnAnswer'
<1> SUFFICES ASSUME Matched(faults')
             PROVE  (\A k \in DOMAIN cpQ' : Own(cpQ'[k])) /\ (\A i \in DOMAIN ended' : OwnEnd(ended'[i]))
  BY DEF OwnAnswer
<1> DEFINE P == {t \in CpTasks : Own(t)}
           Q == {x \in Endings : OwnEnd(x)}
<1>0. /\ cpQ \in Seq(CpTasks) /\ ended \in Seq(Endings) /\ cmdTx \in Seq(Nodes)
      /\ \A k \in DOMAIN cpQ : cpQ[k] \in CpTasks
      /\ \A k \in DOMAIN ended : ended[k] \in Endings
  BY DEF CmdTypeOK
<1>m. Matched(faults)
  BY FaultsStep DEF Matched, Grow
<1>1. (\A k \in DOMAIN cpQ : cpQ[k] \in P) /\ (\A i \in DOMAIN ended : ended[i] \in Q)
  BY <1>0, <1>m DEF OwnAnswer
<1>2. ASSUME NEW t \in CpTasks, NEW x \in Endings, Own(t), OwnEnd(x)
      PROVE  /\ \A k \in DOMAIN Append(cpQ, t) : Append(cpQ, t)[k] \in P
             /\ \A k \in DOMAIN Append(ended, x) : Append(ended, x)[k] \in Q
  <2>1. t \in P /\ x \in Q /\ (\A k \in DOMAIN cpQ : cpQ[k] \in P) /\ (\A i \in DOMAIN ended : ended[i] \in Q)
    BY <1>1, <1>2
  <2> HIDE DEF P, Q
  <2> QED BY <1>0, <1>2, <2>1, AppendedAll
<1>3. ASSUME NEW q \in Seq(CpTasks), q # <<>>, \A k \in DOMAIN q : q[k] \in P
      PROVE  \A k \in DOMAIN Tail(q) : Tail(q)[k] \in P
  <2>1. /\ Tail(q) \in Seq(CpTasks) /\ Len(Tail(q)) = Len(q) - 1 /\ Len(q) \in Nat \ {0}
        /\ \A i \in 1 .. Len(q) - 1 : Tail(q)[i] = q[i + 1]
    BY <1>3, TailElements
  <2>2. DOMAIN Tail(q) = 1 .. Len(q) - 1 /\ DOMAIN q = 1 .. Len(q)
    BY <2>1
  <2>3. \A i \in 1 .. Len(q) - 1 : i + 1 \in 1 .. Len(q)
    BY <2>1
  <2> HIDE DEF P
  <2> QED BY <1>3, <2>1, <2>2, <2>3
<1>4. CASE UNCHANGED <<cpQ, ended>>
  BY <1>1, <1>4
<1>5. CASE ExecuteCommand
  <2>1. issued' \in Cmds
    <3>1. issued \in Nat
      BY CmdNumbers DEF CmdTypeOK
    <3> QED BY <1>5, <3>1, CmdNumbers DEF ExecuteCommand
  <2>2. PICK t : t = CpTask("Reg", issued')
    OBVIOUS
  <2>3. t \in CpTasks /\ Own(t)
    BY <2>1, <2>2, MadeTypes DEF CpTask, Own
  <2>4. (cpQ' = cpQ \/ cpQ' = Append(cpQ, t)) /\ UNCHANGED <<ended, faults>>
    BY <1>5, <2>2 DEF ExecuteCommand
  <2>5. PICK x : x = <<issued', "dropped", issued'>>
    OBVIOUS
  <2>6. x \in Endings /\ OwnEnd(x)
    BY <2>1, <2>5, EndedType DEF OwnEnd
  <2>7. \A k \in DOMAIN Append(cpQ, t) : Append(cpQ, t)[k] \in P
    BY <1>2, <2>3, <2>4, <2>6
  <2> QED BY <1>1, <2>4, <2>7
<1>6. CASE CpReg
  <2>1. cpQ # <<>> /\ cpQ' = Tail(cpQ) /\ UNCHANGED <<ended, faults>>
    BY <1>6 DEF CpReg
  <2>2. \A k \in DOMAIN Tail(cpQ) : Tail(cpQ)[k] \in P
    BY <1>0, <1>1, <1>3, <2>1
  <2> QED BY <1>1, <2>1, <2>2
<1>7. CASE CpEvent
  <2>1. PICK e \in Events, c \in Cmds \cup {0} :
          /\ cpQ # <<>> /\ Head(cpQ) \in CpTasks /\ Head(cpQ).type = "Event"
          /\ e = Head(cpQ).event /\ c = Head(cpQ).node.cmd /\ Tail(cpQ) \in Seq(CpTasks)
          /\ c # 0 => Op(c) = e.op
          /\ c = 0 => cpQ' = Tail(cpQ) /\ ended' = ended
          /\ c # 0 => \E how \in {"answered", "unheard"} :
               /\ ended' = Append(ended, <<c, how, e.of>>) /\ <<c, how, e.of>> \in Endings
               /\ cpQ' = Tail(cpQ) \/ cpQ' = Append(Tail(cpQ), CpTask("UnReg", c))
          /\ faults' = faults
    BY <1>7, CpEventEffect, ZenonT(60)
  <2>2. PICK u : u = Tail(cpQ)
    OBVIOUS
  <2>3. u \in Seq(CpTasks) /\ \A k \in DOMAIN u : u[k] \in P
    BY <1>0, <1>1, <1>3, <2>1, <2>2
  <2>4. CASE c = 0
    BY <1>1, <2>1, <2>2, <2>3, <2>4
  <2>5. CASE c # 0
    <3>1. PICK how \in {"answered", "unheard"} :
            /\ ended' = Append(ended, <<c, how, e.of>>) /\ <<c, how, e.of>> \in Endings
            /\ cpQ' = Tail(cpQ) \/ cpQ' = Append(Tail(cpQ), CpTask("UnReg", c))
      BY <2>1, <2>5
    <3>2. PICK x : x = <<c, how, e.of>>
      OBVIOUS
    <3>3. x \in Endings /\ x[1] = c /\ x[3] = e.of /\ ended' = Append(ended, x)
      BY <3>1, <3>2
    <3>4. PICK t : t = CpTask("UnReg", c)
      OBVIOUS
    <3>5. t \in CpTasks /\ Own(t) /\ t \in P
      BY <2>5, <3>4, MadeTypes DEF CpTask, Own
    <3>6. OwnEnd(x)
      <4>1. Own(Head(cpQ))
        <5>1. 1 \in DOMAIN cpQ /\ Head(cpQ) = cpQ[1]
          <6>1. Len(cpQ) \in Nat \ {0} /\ Head(cpQ) = cpQ[1]
            BY <1>0, <2>1, TailElements
          <6> QED BY <1>0, <6>1
        <5> QED BY <1>1, <2>1, <5>1
      <4>2. e.kind = "Complete" <=> e.op \in Complete
        BY EventIs
      <4> QED BY <2>1, <2>5, <3>3, <4>1, <4>2 DEF Own, OwnEnd
    <3>7. \A k \in DOMAIN Append(ended, x) : Append(ended, x)[k] \in Q
      BY <1>2, <2>1, <3>3, <3>5, <3>6
    <3>8. \A k \in DOMAIN Append(u, t) : Append(u, t)[k] \in P
      <4> HIDE DEF P
      <4> QED BY <2>3, <3>5, AppendedAll
    <3> QED BY <2>2, <2>3, <3>1, <3>3, <3>4, <3>7, <3>8
  <2> QED BY <2>4, <2>5
<1>8. CASE CpTimeout
  <2>1. PICK c \in Cmds, how \in {"timeout", "unheard"} :
          /\ cpQ # <<>> /\ cpQ' = Tail(cpQ)
          /\ ended' = Append(ended, <<c, how, c>>) /\ <<c, how, c>> \in Endings
          /\ faults' = faults
    BY <1>8, CpTimeoutEffect
  <2>2. PICK x : x = <<c, how, c>>
    OBVIOUS
  <2>3. x \in Endings /\ OwnEnd(x) /\ ended' = Append(ended, x)
    BY <2>1, <2>2 DEF OwnEnd
  <2>4. PICK t : t = CpTask("UnReg", c)
    OBVIOUS
  <2>5. t \in CpTasks /\ Own(t)
    BY <2>4, MadeTypes DEF CpTask, Own
  <2>6. \A k \in DOMAIN Append(ended, x) : Append(ended, x)[k] \in Q
    BY <1>2, <2>1, <2>3, <2>5
  <2>7. \A k \in DOMAIN Tail(cpQ) : Tail(cpQ)[k] \in P
    BY <1>0, <1>1, <1>3, <2>1
  <2> QED BY <2>1, <2>3, <2>6, <2>7
<1>9. CASE DliSend
  <2>1. PICK c : c = Head(dliQ).cmd
    OBVIOUS
  <2>2. /\ c \in Cmds /\ cpQ' = cpQ /\ faults' = faults
        /\ ended' = ended \/ ended' = Append(ended, <<c, "dropped", c>>)
    BY <1>9, <2>1, SendEffect
  <2>3. PICK x : x = <<c, "dropped", c>>
    OBVIOUS
  <2>4. x \in Endings /\ OwnEnd(x)
    BY <2>2, <2>3, EndedType DEF OwnEnd
  <2>5. PICK t : t = CpTask("UnReg", c)
    OBVIOUS
  <2>6. t \in CpTasks /\ Own(t)
    BY <2>2, <2>5, MadeTypes DEF CpTask, Own
  <2>7. \A k \in DOMAIN Append(ended, x) : Append(ended, x)[k] \in Q
    BY <1>2, <2>2, <2>4, <2>6
  <2> QED BY <1>1, <2>2, <2>3, <2>7
<1>10. CASE DliEvent
  <2>1. PICK e : e = Head(dliQ)
    OBVIOUS
  <2>2. PICK i : i = CmdNodeRemove(e)
    OBVIOUS
  <2>3. PICK n : n = IF i # 0 THEN cmdTx[i] ELSE NoNode
    OBVIOUS
  <2>4. PICK t : t = [type |-> "Event", event |-> e, node |-> n]
    OBVIOUS
  <2>5. /\ dliQ # <<>> /\ e \in Events /\ ~subDue
        /\ i = 0 \/ i \in DOMAIN cmdTx
        /\ cpQ' = Append(cpQ, t) /\ t \in CpTasks /\ UNCHANGED <<ended, faults>>
    BY <1>10, <2>1, <2>2, <2>3, <2>4, EventEffect
  <2>6. Own(t)
    <3> SUFFICES ASSUME e.kind = "Complete", n.cmd # 0 PROVE n.cmd = e.of
      BY <2>4 DEF Own
    <3>1. i # 0 /\ n = cmdTx[i]
      BY <2>3 DEF NoNode
    <3>2. cmdTx # <<>>
      BY <2>5, <3>1
    <3>3. inited /\ ~faults.overtaken /\ (~faults.several \/ ~faults.lossy)
      BY <1>m, <3>2 DEF ListInOrder, Matched
    <3>4. e.kind # "Final" /\ e.kind # "Status"
      OBVIOUS
    <3>5. ASSUME ~faults.several
          PROVE  \E p \in DOMAIN cmdTx : cmdTx[p].cmd = e.of /\ CmdNodeRemove(e) = p
      <4>1. Marked(cmdTx) /\ CreditState
        BY <3>3, <3>5 DEF CreditInv, OneAtATime
      <4> QED BY <2>1, <2>5, <3>4, <4>1, AnswerFindsOwn
    <3>6. ASSUME ~faults.lossy
          PROVE  \E p \in DOMAIN cmdTx : cmdTx[p].cmd = e.of /\ CmdNodeRemove(e) = p
      <4>1. Queued
        BY <3>3, <3>6 DEF QueueInv, NothingLost
      <4> QED BY <2>1, <2>5, <3>4, <4>1, QueueFindsOwn
    <3>7. \E p \in DOMAIN cmdTx : cmdTx[p].cmd = e.of /\ CmdNodeRemove(e) = p
      BY <3>3, <3>5, <3>6
    <3> QED BY <2>2, <3>1, <3>7
  <2>7. t \in P
    BY <2>5, <2>6
  <2>8. \A k \in DOMAIN Append(cpQ, t) : Append(cpQ, t)[k] \in P
    <3>1. \A k \in DOMAIN cpQ : cpQ[k] \in P
      BY <1>1, <2>5
    <3> HIDE DEF P
    <3> QED BY <1>0, <2>5, <2>7, <3>1, AppendedAll
  <2> QED BY <1>1, <2>5, <2>8
<1>11. CASE CmdTimer
  <2>1. PICK i \in DOMAIN cmdTx :
          /\ cpQ' = Append(cpQ, [type |-> "Timeout", node |-> cmdTx[i]])
          /\ [type |-> "Timeout", node |-> cmdTx[i]] \in CpTasks
          /\ ended' = ended
    BY <1>11, TimerEffect
  <2>2. PICK t : t = [type |-> "Timeout", node |-> cmdTx[i]]
    OBVIOUS
  <2>3. t \in CpTasks /\ Own(t) /\ t \in P /\ cpQ' = Append(cpQ, t)
    BY <2>1, <2>2 DEF Own
  <2>4. \A k \in DOMAIN Append(cpQ, t) : Append(cpQ, t)[k] \in P
    <3>1. \A k \in DOMAIN cpQ : cpQ[k] \in P
      BY <1>1, <2>1
    <3> HIDE DEF P
    <3> QED BY <1>0, <2>3, <3>1, AppendedAll
  <2> QED BY <1>1, <2>1, <2>3, <2>4
<1>12. CASE LayerDisable
  <2>1. PICK d : d = [i \in DOMAIN cmdTx |-> <<cmdTx[i].cmd, "dropped", cmdTx[i].cmd>>]
    OBVIOUS
  <2>2. /\ d \in Seq(Endings) /\ DOMAIN d = DOMAIN cmdTx
        /\ ended' = ended \o d /\ UNCHANGED <<cpQ, faults>>
    BY <1>12, <2>1, DisableEffect
  <2>3. \A i \in DOMAIN d : OwnEnd(d[i])
    BY <2>1, <2>2 DEF OwnEnd
  <2>4. /\ ended' \in Seq(Endings) /\ Len(ended') = Len(ended) + Len(d)
        /\ \A i \in 1 .. Len(ended) + Len(d) : ended'[i] = IF i <= Len(ended) THEN ended[i] ELSE d[i - Len(ended)]
    BY <1>0, <2>2, ConcatProperties
  <2>5. /\ DOMAIN ended' = 1 .. Len(ended) + Len(d) /\ DOMAIN ended = 1 .. Len(ended) /\ DOMAIN d = 1 .. Len(d)
        /\ Len(ended) \in Nat /\ Len(d) \in Nat
    <3>1. Len(ended) \in Nat /\ Len(d) \in Nat /\ DOMAIN ended = 1 .. Len(ended) /\ DOMAIN d = 1 .. Len(d)
      BY <1>0, <2>2
    <3>2. DOMAIN ended' = 1 .. Len(ended')
      BY <2>4
    <3> QED BY <2>4, <3>1, <3>2
  <2>6. ASSUME NEW i \in DOMAIN ended' PROVE OwnEnd(ended'[i])
    <3>1. CASE i <= Len(ended)
      <4>1. i \in DOMAIN ended /\ ended'[i] = ended[i]
        BY <2>4, <2>5, <3>1
      <4> QED BY <1>1, <2>2, <4>1
    <3>2. CASE ~ (i <= Len(ended))
      <4>1. i - Len(ended) \in DOMAIN d /\ ended'[i] = d[i - Len(ended)]
        BY <2>4, <2>5, <3>2
      <4> QED BY <2>3, <4>1
    <3> QED BY <3>1, <3>2
  <2> QED BY <1>1, <2>2, <2>6
<1>13. CASE DliNext \/ SubOne
  BY <1>4, <1>13 DEF DliNext, SubOne
<1>14. CASE Visit
  BY <1>4, <1>14, VisitEffect
<1>15. CASE CtlAnswer
  BY <1>4, <1>15, AnswerEffect
<1>16. CASE CtlFinal
  BY <1>4, <1>16, FinalEffect
<1> QED BY <1>5, <1>6, <1>7, <1>8, <1>9, <1>10, <1>11, <1>12, <1>13, <1>14, <1>15, <1>16 DEF Next

-----------------------------------------------------------------------------
(* Theorems. *)

\* What holds whatever is lost and overtaken.
CmdInv == CmdTypeOK /\ Placed /\ ListInOrder /\ RegsOK

\* The turns, the credit and the answers, as long as nothing upsets them.
AnswerInv == InTurn /\ CreditInv /\ QueueInv /\ RoomInv /\ OwnAnswer

\* The initial states.
LEMMA CmdInvInit == Init => CmdInv /\ AnswerInv
<1> SUFFICES ASSUME Init PROVE CmdInv /\ AnswerInv
  OBVIOUS
<1>1. /\ issued = 0 /\ dliQ = <<>> /\ cpQ = <<>> /\ inited = TRUE /\ num = 1 /\ cmdTx = <<>> /\ rest = <<>>
      /\ subDue = FALSE /\ regs = [o \in Range(ToSend) |-> 0] /\ ctl = <<>> /\ fin = <<>> /\ ended = <<>>
  BY DEF Init
<1>2. PICK env \in Environments :
        faults = [left |-> env, stopped |-> FALSE, overtaken |-> FALSE,
                  lossy |-> FALSE, several |-> FALSE, crossed |-> FALSE]
  BY DEF Init
<1>3. faults \in Faults /\ Cap \in Nat \ {0}
  <2>1. env \in Surroundings
    BY BoundsAssumption DEF Surroundings
  <2>2. env.cap \in Nat \ {0}
    BY <2>1 DEF Surroundings
  <2> QED BY <1>2, <2>1, <2>2 DEF Faults, Cap
<1>4. CmdTypeOK
  <2>1. /\ <<>> \in Seq(DliTasks) /\ <<>> \in Seq(CpTasks) /\ <<>> \in Seq(Nodes) /\ <<>> \in Seq(Cmds)
        /\ <<>> \in Seq({c \in Cmds : Op(c) \notin Complete}) /\ <<>> \in Seq(Endings)
    OBVIOUS
  <2>2. issued \in 0 .. Len(ToSend) /\ num \in Nat
    BY <1>1, CmdNumbers
  <2>3. regs \in [Range(ToSend) -> Nat]
    BY <1>1
  <2> QED BY <1>1, <1>3, <2>1, <2>2, <2>3 DEF CmdTypeOK
<1>5. Placed
  <2>1. /\ DOMAIN SendKeys(dliQ) = {} /\ DOMAIN ListOf(cmdTx) = {}
        /\ DOMAIN CpKeys(cpQ) = {} /\ DOMAIN EndKeys(ended) = {}
    BY <1>1 DEF SendKeys, ListOf, CpKeys, EndKeys
  <2>2. \A s : DOMAIN s = {} => Once(s) /\ Held(s) = {}
    BY DEF Once, Held
  <2>3. /\ Held(SendKeys(dliQ)) = {} /\ Held(ListOf(cmdTx)) = {}
        /\ Held(CpKeys(cpQ)) = {} /\ Held(EndKeys(ended)) = {}
        /\ Once(SendKeys(dliQ)) /\ Once(ListOf(cmdTx)) /\ Once(CpKeys(cpQ)) /\ Once(EndKeys(ended))
    BY <2>1, <2>2
  <2> QED BY <2>3 DEF Placed, Apart
<1>6. ListInOrder
  BY <1>1 DEF ListInOrder
<1>7. RegsOK
  <2>1. \A type, c : ~Pending(cpQ, type, c)
    BY <1>1 DEF Pending
  <2>2. \A o : Registered(cpQ, ended, issued, o) = {}
    <3>1. 1 .. issued = {}
      BY <1>1
    <3> QED BY <3>1 DEF Registered
  <2>3. Cardinality({}) = 0
    BY FS_EmptySet
  <2>4. RegsApart(cpQ) /\ RegFirst(cpQ)
    BY <1>1 DEF RegsApart, RegFirst
  <2> QED BY <1>1, <2>1, <2>2, <2>3, <2>4 DEF RegsOK
<1>8. CreditInv
  <2>1. Idle
    BY <1>1 DEF Idle, NoneWaits, NoAnswer, NoCredit
  <2>2. Marked(cmdTx)
    BY <1>1 DEF Marked
  <2> QED BY <2>1, <2>2 DEF CreditInv, CreditState
<1>9. OwnAnswer
  BY <1>1 DEF OwnAnswer
<1>10. InTurn
  BY <1>1 DEF InTurn, SendsAscend, ListAscends
<1>11. QueueInv
  <2>1. Waiting(cmdTx) = {} /\ Answers(dliQ) = {} /\ Range(ctl) = {}
    BY <1>1 DEF Waiting, Answers, Range
  <2>2. Marked(cmdTx) /\ AnswersAscend(dliQ) /\ Ascends(ctl)
    BY <1>1 DEF Marked, AnswersAscend, Ascends
  <2> QED BY <2>1, <2>2 DEF QueueInv, Queued
<1>12. RoomInv
  <2>1. LeftOver = Cap
    BY <1>1, <1>3 DEF LeftOver
  <2>2. num <= Cap /\ ~subDue
    BY <1>1, <1>3
  <2>3. num <= LeftOver + (IF subDue THEN 1 ELSE 0)
    BY <1>1, <1>3, <2>1, <2>2
  <2> QED BY <1>1, <2>2, <2>3 DEF RoomInv, RoomOK
<1> QED BY <1>4, <1>5, <1>6, <1>7, <1>8, <1>9, <1>10, <1>11, <1>12 DEF CmdInv, AnswerInv

\* Every step keeps CmdInv.
LEMMA CmdInvStep == CmdInv /\ [Next]_vars => CmdInv'
<1> SUFFICES ASSUME CmdInv, [Next]_vars PROVE CmdInv'
  OBVIOUS
<1>0. CmdTypeOK /\ Placed /\ ListInOrder /\ RegsOK
  BY DEF CmdInv
<1>1. CASE ExecuteCommand \/ CpReg \/ CpEvent \/ CpTimeout
  <2>1. ListInOrder'
    BY <1>0, <1>1, ListInOrderStep DEF Next
  <2> QED BY <1>0, <1>1, <2>1, TypeCp, PlacedCp, RegsCp DEF CmdInv
<1>2. CASE \/ DliSend \/ DliNext \/ Visit \/ SubOne \/ DliEvent \/ CmdTimer \/ LayerDisable
           \/ CtlAnswer \/ CtlFinal
  <2>1. ListInOrder'
    BY <1>0, <1>2, ListInOrderStep DEF Next
  <2> QED BY <1>0, <1>2, <2>1, TypeDli, PlacedDli, RegsDli DEF CmdInv
<1>3. CASE UNCHANGED vars
  <2>1. UNCHANGED <<issued, dliQ, cpQ, inited, num, cmdTx, rest, subDue, regs, ctl, fin, ended, faults>>
    BY <1>3 DEF vars, dliVars, ctlVars
  <2>2. CmdTypeOK'
    BY <1>0, <2>1 DEF CmdTypeOK
  <2>3. Placed'
    BY <1>0, <2>1 DEF Placed
  <2>4. ListInOrder'
    BY <1>0, <2>1 DEF ListInOrder
  <2>5. RegsOK'
    BY <1>0, <2>1 DEF RegsOK
  <2> QED BY <2>2, <2>3, <2>4, <2>5 DEF CmdInv
<1> QED BY <1>1, <1>2, <1>3 DEF Next

\* For any controller: a command is in one place at a time, the list is sent in its
\* order and the registrations are those of the commands that still need them.
THEOREM CmdInvHolds == Spec => []CmdInv
<1>1. Init => CmdInv
  BY CmdInvInit
<1>2. CmdInv /\ [Next]_vars => CmdInv'
  BY CmdInvStep
<1> QED BY <1>1, <1>2, PTL DEF Spec

\* For any controller: when a complete event reaches the CP thread with its command,
\* the callback the command registered is there (RecvEventHandler).
THEOREM CallbackAlwaysThere == Spec => []CallbackIsThere
<1>1. CmdInv => CallbackIsThere
  BY CallbackFound DEF CmdInv, CallbackIsThere
<1> QED BY <1>1, CmdInvHolds, PTL

\* For any controller: no command ends twice, whatever crosses (DLI_CmdNodeRemove,
\* DLI_CmdTimerCallback, DLI_LayerDisable).
THEOREM NoneEndsTwice ==
    Spec => [](\A i, j \in DOMAIN ended : ended[i][1] = ended[j][1] => i = j)
<1> DEFINE I == \A i, j \in DOMAIN ended : ended[i][1] = ended[j][1] => i = j
<1>1. CmdInv => I
  <2> SUFFICES ASSUME CmdInv, NEW i \in DOMAIN ended, NEW j \in DOMAIN ended, ended[i][1] = ended[j][1]
               PROVE  i = j
    OBVIOUS
  <2>1. ended[i] \in Endings
    BY DEF CmdInv, CmdTypeOK
  <2>2. ended[i][1] \in Cmds
    BY <2>1 DEF Endings
  <2>3. ended[i][1] # 0
    BY <2>2, CmdNumbers
  <2>4. /\ i \in DOMAIN EndKeys(ended) /\ EndKeys(ended)[i] = ended[i][1]
        /\ j \in DOMAIN EndKeys(ended) /\ EndKeys(ended)[j] = ended[j][1]
    BY DEF EndKeys
  <2> QED BY <2>3, <2>4 DEF CmdInv, Placed, Once
<1> HIDE DEF I
<1>2. Spec => []I
  BY <1>1, CmdInvHolds, PTL
<1> QED BY <1>2 DEF I

\* For any controller.  As long as no time-out has overtaken an answer: while the
\* controller reports room for one command, the credit is with the layer, out with one
\* command or on its way back; while nothing is lost, the commands that wait are those
\* the controller holds and those whose answers are on their way, in one order; and
\* while no command crosses a report, the credit and every report fit its room.
THEOREM AnswerInvHolds == Spec => [](CmdInv /\ AnswerInv)
<1> DEFINE I == CmdInv /\ AnswerInv
<1>1. Init => I
  BY CmdInvInit
<1>2. ASSUME I, [Next]_vars PROVE I'
  <2>0. CmdTypeOK /\ Placed /\ ListInOrder /\ InTurn /\ CreditInv /\ QueueInv /\ RoomInv /\ OwnAnswer
    BY <1>2 DEF CmdInv, AnswerInv
  <2>1. CmdInv'
    BY <1>2, CmdInvStep
  <2>2. CASE Next
    <3>1. InTurn'
      BY <2>0, <2>2, InTurnStep
    <3>2. CreditInv'
      BY <2>0, <2>2, CreditStep
    <3>3. QueueInv'
      BY <2>0, <2>2, QueueStep
    <3>4. RoomInv'
      BY <2>0, <2>2, RoomStep
    <3>5. OwnAnswer'
      BY <2>0, <2>2, OwnAnswerStep
    <3> QED BY <2>1, <3>1, <3>2, <3>3, <3>4, <3>5 DEF AnswerInv
  <2>3. CASE UNCHANGED vars
    <3>1. UNCHANGED <<issued, dliQ, cpQ, inited, num, cmdTx, rest, subDue, regs, ctl, fin, ended, faults>>
      BY <2>3 DEF vars, dliVars, ctlVars
    <3>2. CreditState => CreditState'
      BY <3>1 DEF CreditState, Idle, Out, Back
    <3>3. CreditInv'
      BY <2>0, <3>1, <3>2 DEF CreditInv, OneAtATime
    <3>4. OwnAnswer'
      BY <2>0, <3>1 DEF OwnAnswer
    <3>5. InTurn'
      BY <2>0, <3>1 DEF InTurn
    <3>6. QueueInv'
      BY <2>0, <3>1 DEF QueueInv, NothingLost, Queued
    <3>7. RoomInv'
      <4>1. LeftOver' = LeftOver
        BY <3>1 DEF LeftOver, Cap
      <4> QED BY <2>0, <3>1, <4>1 DEF RoomInv, NothingLost, RoomOK
    <3> QED BY <2>1, <3>3, <3>4, <3>5, <3>6, <3>7 DEF AnswerInv
  <2> QED BY <1>2, <2>2, <2>3
<1> HIDE DEF I
<1>3. Spec => []I
  BY <1>1, <1>2, PTL DEF Spec
<1> QED BY <1>3 DEF I

\* For any controller: a command ends once; and as long as no time-out has overtaken an
\* answer and no event was lost with several commands out, by its own complete event
\* (DLI_CmdNodeRemove, DLI_CmdTimerCallback).
THEOREM EndsAlwaysOnce == Spec => []EndsOnce
<1> DEFINE I == \A i, j \in DOMAIN ended : ended[i][1] = ended[j][1] => i = j
<1>1. I /\ OwnAnswer => EndsOnce
  BY DEF OwnAnswer, Matched, OwnEnd, EndsOnce
<1>2. Spec => []I
  BY NoneEndsTwice
<1> HIDE DEF I
<1>3. CmdInv /\ AnswerInv => OwnAnswer
  BY DEF AnswerInv
<1> QED BY <1>1, <1>2, <1>3, AnswerInvHolds, PTL

\* While the layer has the credit nobody owes it.
LEMMA IdleOwes == ASSUME CmdTypeOK, Idle PROVE Owing = {}
<1>1. ctl = <<>> /\ Range(ctl) = {}
  BY DEF Idle, Range
<1> QED BY <1>1 DEF Idle, Owing, NoneWaits, Waits, NoAnswer, Carries, NoCredit, Gives

\* While a command has the credit it is the one that owes it.
LEMMA OutOwes == ASSUME CmdTypeOK, NEW i, Out(i) PROVE Owing = {cmdTx[i].cmd}
<1> DEFINE c == cmdTx[i].cmd
<1>1. i \in DOMAIN cmdTx /\ Waits(cmdTx, i) /\ \A j \in DOMAIN cmdTx : Waits(cmdTx, j) => j = i
  BY DEF Out, WaitsAt
<1>2. c \in Cmds
  <2>1. cmdTx[i] \in Nodes
    BY <1>1 DEF CmdTypeOK
  <2> QED BY <2>1 DEF Nodes
<1>3. c \in Owing
  BY <1>1, <1>2 DEF Owing, Waits
<1>4. ASSUME NEW d \in Owing PROVE d = c
  <2>1. CASE d \in Range(ctl)
    <3>1. PICK k \in DOMAIN ctl : d = ctl[k]
      BY <2>1 DEF Range
    <3>2. ctl = <<c>>
      BY <3>1 DEF Out
    <3> QED BY <3>1, <3>2
  <2>2. CASE \E k \in DOMAIN dliQ : dliQ[k].type = "Event" /\ dliQ[k].of = d /\ dliQ[k].kind # "Final"
    BY <2>2 DEF Out, AnswersFor, Carries
  <2>3. CASE \E k \in DOMAIN cpQ :
               \/ cpQ[k].type = "Event" /\ cpQ[k].event.of = d /\ cpQ[k].event.kind # "Final"
               \/ cpQ[k].type = "Timeout" /\ cpQ[k].node.cmd = d /\ CreditAfterTimeout(cpQ[k].node)
    BY <2>3 DEF Out, NoCredit, Gives
  <2>4. CASE \E k \in DOMAIN cmdTx :
               cmdTx[k].cmd = d /\ cmdTx[k].isSent /\ ~cmdTx[k].isRecvStatusEvt
    BY <1>1, <2>4 DEF Waits
  <2> QED BY <1>4, <2>1, <2>2, <2>3, <2>4 DEF Owing
<1> QED BY <1>3, <1>4

\* While a task of the CP thread brings the credit back one command owes it.
LEMMA BackOwes == ASSUME CmdTypeOK, NEW k, Back(k) PROVE \E c : Owing = {c}
<1> DEFINE t == cpQ[k]
           c == IF t.type = "Event" THEN t.event.of ELSE t.node.cmd
<1>1. k \in DOMAIN cpQ /\ Gives(t) /\ \A j \in DOMAIN cpQ : Gives(cpQ[j]) => j = k
  BY DEF Back, GivesAt
<1>2. t \in CpTasks
  BY <1>1 DEF CmdTypeOK
<1>3. c \in Cmds
  <2>1. CASE t.type = "Event"
    <3>1. t \in CpEvents
      BY <1>2, <2>1 DEF CpTasks
    <3>2. t.event \in Events
      BY <3>1 DEF CpEvents
    <3> QED BY <2>1, <3>2 DEF Events
  <2>2. CASE t.type = "Timeout"
    <3>1. t \in [type : {"Timeout"}, node : Nodes]
      BY <1>2, <2>2 DEF CpTasks, CpEvents
    <3> QED BY <2>2, <3>1 DEF Nodes
  <2> QED BY <1>1, <2>1, <2>2 DEF Gives
<1>4. c \in Owing
  BY <1>1, <1>3 DEF Owing, Gives
<1>5. ASSUME NEW d \in Owing PROVE d = c
  <2>1. d \notin Range(ctl)
    BY DEF Back, Range
  <2>2. ~ \E j \in DOMAIN dliQ : dliQ[j].type = "Event" /\ dliQ[j].of = d /\ dliQ[j].kind # "Final"
    BY DEF Back, NoAnswer, Carries
  <2>3. ~ \E j \in DOMAIN cmdTx : cmdTx[j].cmd = d /\ cmdTx[j].isSent /\ ~cmdTx[j].isRecvStatusEvt
    BY DEF Back, NoneWaits, Waits
  <2>4. PICK j \in DOMAIN cpQ :
               \/ cpQ[j].type = "Event" /\ cpQ[j].event.of = d /\ cpQ[j].event.kind # "Final"
               \/ cpQ[j].type = "Timeout" /\ cpQ[j].node.cmd = d /\ CreditAfterTimeout(cpQ[j].node)
    BY <1>5, <2>1, <2>2, <2>3 DEF Owing
  <2>5. j = k
    BY <1>1, <2>4 DEF Gives
  <2> QED BY <2>4, <2>5
<1>6. Owing = {c}
  BY <1>4, <1>5
<1> HIDE DEF c
<1> QED BY <1>6

\* For any controller, as long as no time-out has overtaken an answer: while it reports
\* room for one command the credit is neither lost nor doubled; while nothing is lost and
\* no command crosses a report, the credit and the commands out fit the controller's room
\* (DLI_CmdListSend, DLI_CommandStatusCbk, RecvEventHandler, TimeoutCallback).
THEOREM CreditAlwaysConserved == Spec => []CreditConserved
<1>1. ASSUME CmdTypeOK, AnswerInv PROVE CreditConserved
  <2> SUFFICES ASSUME inited, ~faults.overtaken
               PROVE  /\ ~faults.several => num + Cardinality(Owing) = 1 + (IF subDue THEN 1 ELSE 0)
                      /\ ~faults.lossy /\ ~faults.crossed =>
                           num + Len(ctl) <= Cap + (IF subDue THEN 1 ELSE 0)
    BY DEF CreditConserved
  <2>0. subDue \in BOOLEAN /\ num \in Nat /\ ctl \in Seq(Cmds) /\ faults \in Faults
    BY <1>1 DEF CmdTypeOK
  <2>1. ASSUME ~faults.several PROVE num + Cardinality(Owing) = 1 + (IF subDue THEN 1 ELSE 0)
    <3>1. CreditState
      BY <1>1, <2>1 DEF AnswerInv, CreditInv, OneAtATime
    <3>2. CASE Idle
      <4>1. Cardinality(Owing) = 0
        BY <1>1, <3>2, IdleOwes, FS_EmptySet
      <4> QED BY <3>2, <4>1 DEF Idle
    <3>3. ASSUME NEW i, Out(i) PROVE num + Cardinality(Owing) = 1 + (IF subDue THEN 1 ELSE 0)
      <4>1. Cardinality(Owing) = 1
        BY <1>1, <3>3, OutOwes, FS_Singleton
      <4> QED BY <2>0, <3>3, <4>1 DEF Out
    <3>4. ASSUME NEW k, Back(k) PROVE num + Cardinality(Owing) = 1 + (IF subDue THEN 1 ELSE 0)
      <4>1. Cardinality(Owing) = 1
        BY <1>1, <3>4, BackOwes, FS_Singleton
      <4> QED BY <3>4, <4>1 DEF Back
    <3> QED BY <3>1, <3>2, <3>3, <3>4 DEF CreditState
  <2>2. ASSUME ~faults.lossy, ~faults.crossed PROVE num + Len(ctl) <= Cap + (IF subDue THEN 1 ELSE 0)
    <3>1. num <= LeftOver + (IF subDue THEN 1 ELSE 0)
      BY <1>1, <2>2 DEF AnswerInv, RoomInv, NothingLost, RoomOK
    <3>2. Cap \in Nat /\ Len(ctl) \in Nat
      BY <2>0 DEF Cap, Faults, Surroundings
    <3> QED BY <2>0, <3>1, <3>2 DEF LeftOver
  <2> QED BY <2>1, <2>2
<1>2. CmdInv /\ AnswerInv => CreditConserved
  BY <1>1 DEF CmdInv
<1> QED BY <1>2, AnswerInvHolds, PTL
=============================================================================
