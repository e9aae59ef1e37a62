---------------------------- MODULE RtwCmdProofs ----------------------------
(***************************************************************************)
(* Theorems about RtwCmd for any number of clients and command objects:    *)
(* the pointers between commands and contexts stay paired over timeouts,   *)
(* late answers, stops and restarts, and the thread never sleeps on        *)
(* commands nobody is about to wake it for.                                *)
(***************************************************************************)
EXTENDS RtwCmd, SequenceTheorems, TLAPS

\* The thread has a command in its hands exactly while it executes it, and a
\* client in a call has one.
HandInv ==
  /\ thread = "run" <=> pcmd # NULL
  /\ \A k \in Clients : cpc[k] # "idle" => cmdobj[k] # NULL

\* NoLostWakeup for a thread that sleeps or that is gone: a new thread starts
\* with the semaphore the old one has left.
WakeInv ==
  thread \in {"down", "end", "none"} /\ cmd_queue_sema = 0 /\ cmd_queue # <<>>
    => \E k \in Clients : cpc[k] = "up"

IInv == CmdTypeOK /\ HandInv /\ ContextPaired /\ WakeInv

-----------------------------------------------------------------------------
(***************************************************************************)
(* The two operations on the queue.                                        *)
(***************************************************************************)
In(q, o) == \E i \in 1..Len(q) : q[i] = o

\* _rtw_enqueue_cmd() at the tail adds its command and nothing else.
LEMMA InAppend ==
  ASSUME NEW q \in Seq(Cmds), NEW c \in Cmds
  PROVE  /\ Append(q, c) \in Seq(Cmds)
         /\ Append(q, c) # <<>>
         /\ \A o : In(Append(q, c), o) <=> In(q, o) \/ o = c
<1> DEFINE r == Append(q, c)
<1>1. /\ r \in Seq(Cmds) /\ Len(r) = Len(q) + 1 /\ Len(q) \in Nat
      /\ \A i \in 1..Len(q) : r[i] = q[i]
      /\ r[Len(q) + 1] = c
  OBVIOUS
<1>2. r # <<>>
  BY <1>1
<1> HIDE DEF r
<1>3. ASSUME NEW o PROVE In(r, o) <=> In(q, o) \/ o = c
  <2>1. ASSUME In(r, o), o # c PROVE In(q, o)
    BY <1>1, <2>1 DEF In
  <2>2. ASSUME In(q, o) PROVE In(r, o)
    BY <1>1, <2>2 DEF In
  <2>3. In(r, c)
    BY <1>1 DEF In
  <2>. QED
    BY <2>1, <2>2, <2>3
<1>. QED
  BY <1>1, <1>2, <1>3 DEF r

\* rtw_dequeue_cmd() takes the head and nothing else.
LEMMA InTail ==
  ASSUME NEW q \in Seq(Cmds), q # <<>>
  PROVE  /\ Head(q) \in Cmds
         /\ Tail(q) \in Seq(Cmds)
         /\ In(q, Head(q))
         /\ \A o : In(Tail(q), o) => In(q, o)
         /\ \A o : In(q, o) => In(Tail(q), o) \/ o = Head(q)
<1> DEFINE t == Tail(q)
<1>1. /\ t \in Seq(Cmds) /\ Len(q) \in Nat \ {0} /\ Len(t) = Len(q) - 1
      /\ \A i \in 1..Len(t) : t[i] = q[i + 1]
      /\ Head(q) = q[1] /\ Head(q) \in Cmds
  OBVIOUS
<1> HIDE DEF t
<1>2. In(q, Head(q))
  BY <1>1 DEF In
<1>3. ASSUME NEW o, In(t, o) PROVE In(q, o)
  <2>1. PICK i \in 1..Len(t) : t[i] = o
    BY <1>3 DEF In
  <2>2. i + 1 \in 1..Len(q) /\ q[i + 1] = o
    BY <1>1, <2>1
  <2>. QED
    BY <2>2 DEF In
<1>4. ASSUME NEW o, In(q, o), o # Head(q) PROVE In(t, o)
  <2>1. PICK i \in 1..Len(q) : q[i] = o
    BY <1>4 DEF In
  <2>2. i # 1
    BY <1>1, <1>4, <2>1
  <2>3. i - 1 \in 1..Len(t) /\ t[i - 1] = o
    BY <1>1, <2>1, <2>2
  <2>. QED
    BY <2>3 DEF In
<1>. QED
  BY <1>1, <1>2, <1>3, <1>4 DEF t

LEMMA QueuedIn == \A o : Queued(o) <=> In(cmd_queue, o)
  BY DEF Queued, In

-----------------------------------------------------------------------------
(***************************************************************************)
(* The inductive invariant.                                                *)
(***************************************************************************)
LEMMA InitIInv == CmdInit => IInv
<1>. SUFFICES ASSUME CmdInit PROVE IInv
  OBVIOUS
<1>. USE CmdAssumption DEF CmdInit
<1>1. CmdTypeOK
  <2>1. cmd_queue \in Seq(Cmds) /\ cmd_queue_sema \in Nat
    OBVIOUS
  <2>2. /\ sctx \in [Cmds -> Clients \cup {NULL}]
        /\ cmdobj \in [Clients -> Cmds \cup {NULL}]
    BY Zenon
  <2>3. /\ cpc \in [Clients -> {"idle", "enqueue", "up", "wait", "leave"}]
        /\ status \in [Clients -> {"none", "submitted", "success", "error", "drop"}]
    OBVIOUS
  <2>. QED
    BY <2>1, <2>2, <2>3, Zenon DEF CmdTypeOK
<1>2. HandInv
  BY DEF HandInv
<1>3. ContextPaired
  BY DEF ContextPaired, Unanswered
<1>4. WakeInv
  BY DEF WakeInv
<1>. QED
  BY <1>1, <1>2, <1>3, <1>4 DEF IInv

\* A step of a client.
LEMMA ClientStep ==
  ASSUME IInv, NEW k \in Clients, CmdIssue(k) \/ CmdGoesOn(k)
  PROVE  IInv'
<1>. USE CmdAssumption DEF IInv, CmdTypeOK
<1>1. ASSUME NEW o \in Cmds, NEW ack \in BOOLEAN, CmdAdmit(k, o, ack) PROVE IInv'
  <2>. USE <1>1 DEF CmdAdmit, threadVars
  <2>1. CmdTypeOK'
    OBVIOUS
  <2>2. HandInv'
    BY DEF HandInv
  <2>3. \A p : Alive(p)' <=> Alive(p) \/ p = o
    BY DEF Alive, Queued
  <2>4. ContextPaired'
    <3>1. ASSUME NEW p \in Cmds, sctx'[p] # NULL
          PROVE  Unanswered(sctx[p])' /\ cmdobj'[sctx'[p]] = p
      <4>1. CASE p = o
        BY <3>1, <4>1 DEF Unanswered
      <4>2. CASE p # o
        BY <3>1, <4>2 DEF ContextPaired, Unanswered
      <4>. QED
        BY <4>1, <4>2
    <3>2. ASSUME NEW j \in Clients, Unanswered(j)'
          PROVE  Alive(cmdobj[j])' /\ sctx'[cmdobj'[j]] = j
      <4>1. CASE j = k
        BY <2>3, <3>2, <4>1 DEF Unanswered
      <4>2. CASE j # k
        <5>1. Unanswered(j) /\ cmdobj'[j] = cmdobj[j]
          BY <3>2, <4>2 DEF Unanswered
        <5>2. Alive(cmdobj[j]) /\ sctx[cmdobj[j]] = j
          BY <5>1 DEF ContextPaired
        <5>3. cmdobj[j] # o
          BY <5>2
        <5>. QED
          BY <2>3, <5>1, <5>2, <5>3
      <4>. QED
        BY <4>1, <4>2
    <3>. QED
      BY <3>1, <3>2 DEF ContextPaired
  <2>5. WakeInv'
    BY DEF WakeInv
  <2>. QED
    BY <2>1, <2>2, <2>4, <2>5
<1>2. CASE CmdEnqueue(k)
  <2>. USE <1>2 DEF CmdEnqueue, threadVars
  <2>1. cmdobj[k] \in Cmds
    BY DEF HandInv
  <2>2. /\ cmd_queue' \in Seq(Cmds)
        /\ \A o : In(cmd_queue', o) <=> In(cmd_queue, o) \/ o = cmdobj[k]
    BY <2>1, InAppend
  <2>3. CmdTypeOK'
    BY <2>2
  <2>4. HandInv'
    BY DEF HandInv
  <2>5. \A o : Queued(o)' <=> Queued(o) \/ o = cmdobj[k]
    BY <2>2 DEF Queued, In
  <2>6. \A o : Alive(o) => Alive(o)'
    BY <2>5 DEF Alive
  <2>7. ContextPaired'
    BY <2>6 DEF ContextPaired, Unanswered
  <2>8. WakeInv'
    BY DEF WakeInv
  <2>. QED
    BY <2>3, <2>4, <2>7, <2>8
<1>3. CASE CmdUp(k)
  <2>. USE <1>3 DEF CmdUp, threadVars
  <2>1. CmdTypeOK'
    OBVIOUS
  <2>2. HandInv'
    BY DEF HandInv
  <2>3. \A o : Alive(o) => Alive(o)'
    BY DEF Alive, Queued
  <2>4. ContextPaired'
    BY <2>3 DEF ContextPaired, Unanswered
  <2>5. WakeInv'
    BY DEF WakeInv
  <2>. QED
    BY <2>1, <2>2, <2>4, <2>5
<1>4. CASE CmdWait(k)
  <2>. USE <1>4 DEF CmdWait, threadVars
  <2>1. CmdTypeOK'
    OBVIOUS
  <2>2. HandInv'
    BY DEF HandInv
  <2>3. \A o : Alive(o) => Alive(o)'
    BY DEF Alive, Queued
  <2>4. ContextPaired'
    BY <2>3 DEF ContextPaired, Unanswered
  <2>5. WakeInv'
    BY DEF WakeInv
  <2>. QED
    BY <2>1, <2>2, <2>4, <2>5
<1>5. CASE CmdLeave(k)
  <2>. USE <1>5 DEF CmdLeave, threadVars
  <2>1. CmdTypeOK'
    OBVIOUS
  <2>2. HandInv'
    BY DEF HandInv
  <2>3. \A o : Alive(o) => Alive(o)'
    BY DEF Alive, Queued
  <2>4. ContextPaired'
    <3>1. ASSUME NEW p \in Cmds, sctx'[p] # NULL
          PROVE  Unanswered(sctx[p])' /\ cmdobj'[sctx'[p]] = p
      <4>1. sctx[p] # NULL /\ sctx'[p] = sctx[p]
        BY <3>1
      <4>2. Unanswered(sctx[p]) /\ cmdobj[sctx[p]] = p
        BY <4>1 DEF ContextPaired
      <4>3. sctx[p] # k
        BY <3>1, <4>1, <4>2 DEF Unanswered
      <4>. QED
        BY <4>1, <4>2, <4>3 DEF Unanswered
    <3>2. ASSUME NEW j \in Clients, Unanswered(j)'
          PROVE  Alive(cmdobj[j])' /\ sctx'[cmdobj'[j]] = j
      <4>1. j # k /\ Unanswered(j) /\ cmdobj'[j] = cmdobj[j]
        BY <3>2 DEF Unanswered
      <4>2. Alive(cmdobj[j]) /\ sctx[cmdobj[j]] = j
        BY <4>1 DEF ContextPaired
      <4>3. sctx'[cmdobj[j]] = j
        <5>1. CASE status[k] = "submitted"
          <6>1. sctx[cmdobj[k]] = k
            BY <5>1 DEF ContextPaired, Unanswered
          <6>2. cmdobj[j] # cmdobj[k]
            BY <6>1, <4>1, <4>2
          <6>. QED
            BY <4>2, <6>2, <5>1
        <5>2. CASE status[k] # "submitted"
          BY <4>2, <5>2
        <5>. QED
          BY <5>1, <5>2
      <4>. QED
        BY <2>3, <4>1, <4>2, <4>3
    <3>. QED
      BY <3>1, <3>2 DEF ContextPaired
  <2>5. WakeInv'
    BY DEF WakeInv
  <2>. QED
    BY <2>1, <2>2, <2>4, <2>5
<1>. QED
  BY <1>1, <1>2, <1>3, <1>4, <1>5 DEF CmdIssue, CmdGoesOn

\* A context that is answered and the command that loses it leave the others
\* paired; only this command may be freed by the same step.
LEMMA AnswerPaired ==
  ASSUME IInv, NEW o \in Cmds, NEW res \in {"success", "error", "drop"}, Answer(o, res),
         \A p : Alive(p) => Alive(p)' \/ p = o
  PROVE  /\ ContextPaired'
         /\ sctx' \in [Cmds -> Clients \cup {NULL}]
         /\ status' \in [Clients -> {"none", "submitted", "success", "error", "drop"}]
<1>. USE CmdAssumption DEF IInv, CmdTypeOK, Answer
<1>1. /\ sctx' \in [Cmds -> Clients \cup {NULL}]
      /\ status' \in [Clients -> {"none", "submitted", "success", "error", "drop"}]
  OBVIOUS
<1>2. ASSUME NEW p \in Cmds, sctx'[p] # NULL
      PROVE  Unanswered(sctx[p])' /\ cmdobj'[sctx'[p]] = p
  <2>1. p # o /\ sctx'[p] = sctx[p] /\ sctx[p] \in Clients
    BY <1>2
  <2>2. Unanswered(sctx[p]) /\ cmdobj[sctx[p]] = p
    BY <1>2, <2>1 DEF ContextPaired
  <2>3. sctx[o] # sctx[p]
    BY <2>1, <2>2 DEF ContextPaired
  <2>4. status'[sctx[p]] = status[sctx[p]]
    BY <2>1, <2>3
  <2>. QED
    BY <2>1, <2>2, <2>4 DEF Unanswered
<1>3. ASSUME NEW j \in Clients, Unanswered(j)'
      PROVE  Alive(cmdobj[j])' /\ sctx'[cmdobj'[j]] = j
  <2>1. Unanswered(j) /\ sctx[o] # j
    BY <1>3 DEF Unanswered
  <2>2. Alive(cmdobj[j]) /\ sctx[cmdobj[j]] = j
    BY <2>1 DEF ContextPaired
  <2>3. cmdobj[j] # o
    BY <2>1, <2>2
  <2>4. Alive(cmdobj[j])'
    BY <2>2, <2>3
  <2>. QED
    BY <2>2, <2>3, <2>4
<1>. QED
  BY <1>1, <1>2, <1>3 DEF ContextPaired

\* A step of the thread.
LEMMA ThreadStepInv == ASSUME IInv, ThreadStep PROVE IInv'
<1>. USE CmdAssumption DEF IInv, CmdTypeOK, Thread
<1>1. CASE ThreadDown \/ ThreadStopped \/ ThreadEmpty \/ ThreadWoken
           \/ ThreadExit \/ ThreadDrained
  <2>1. UNCHANGED <<cmd_queue, pcmd, cannot_run, sctx, cpc, cmdobj, status, stopper>>
    BY <1>1 DEF ThreadDown, ThreadStopped, ThreadEmpty, ThreadWoken, ThreadExit,
                ThreadDrained, clientVars
  <2>2. CmdTypeOK'
    <3>1. cmd_queue_sema' \in Nat
      BY <1>1, <2>1 DEF ThreadDown, ThreadStopped, ThreadEmpty, ThreadWoken, ThreadExit,
                        ThreadDrained
    <3>2. cmdthd_running' \in BOOLEAN
      BY <1>1, <2>1 DEF ThreadDown, ThreadStopped, ThreadEmpty, ThreadWoken, ThreadExit,
                        ThreadDrained
    <3>3. thread' \in {"woken", "exit", "down", "next", "drain", "end"}
      BY <1>1, <2>1 DEF ThreadDown, ThreadStopped, ThreadEmpty, ThreadWoken, ThreadExit,
                        ThreadDrained
    <3>. QED
      BY <2>1, <3>1, <3>2, <3>3, Zenon
  <2>3. HandInv'
    BY <1>1, <2>1 DEF HandInv, ThreadDown, ThreadStopped, ThreadEmpty, ThreadWoken,
                      ThreadExit, ThreadDrained
  <2>4. \A o : Alive(o)' <=> Alive(o)
    BY <2>1 DEF Alive, Queued
  <2>5. ContextPaired'
    BY <2>1, <2>4 DEF ContextPaired, Unanswered
  <2>6. WakeInv'
    BY <1>1, <2>1 DEF WakeInv, ThreadDown, ThreadStopped, ThreadEmpty, ThreadWoken,
                      ThreadExit, ThreadDrained
  <2>. QED
    BY <2>2, <2>3, <2>5, <2>6
<1>2. CASE ThreadNext
  <2>. USE <1>2 DEF ThreadNext, clientVars
  <2>1. /\ pcmd' \in Cmds /\ cmd_queue' \in Seq(Cmds)
        /\ \A o : In(cmd_queue, o) => In(cmd_queue', o) \/ o = pcmd'
    BY InTail
  <2>2. CmdTypeOK'
    BY <2>1
  <2>3. HandInv'
    BY <2>1 DEF HandInv
  <2>4. ASSUME NEW o \in Cmds, Alive(o) PROVE Alive(o)'
    <3>1. pcmd = NULL
      BY DEF HandInv
    <3>2. Queued(o) => Queued(o)' \/ pcmd' = o
      BY <2>1 DEF Queued, In
    <3>. QED
      BY <2>4, <3>1, <3>2 DEF Alive
  <2>5. ContextPaired'
    <3>1. \A j \in Clients : Unanswered(j) => cmdobj[j] \in Cmds
      BY DEF Unanswered, HandInv
    <3>. QED
      BY <2>4, <3>1 DEF ContextPaired, Unanswered
  <2>6. WakeInv'
    BY DEF WakeInv
  <2>. QED
    BY <2>2, <2>3, <2>5, <2>6
<1>3. CASE ThreadRun
  <2>. USE <1>3 DEF ThreadRun
  <2>1. pcmd \in Cmds
    BY DEF HandInv
  <2>2. PICK res \in {"success", "error"} : Answer(pcmd, res)
    OBVIOUS
  <2>3. UNCHANGED <<cpc, cmdobj>>
    BY <2>2 DEF Answer
  <2>4. \A p : Alive(p) => Alive(p)' \/ p = pcmd
    BY <2>3 DEF Alive, Queued
  <2>5. /\ ContextPaired'
        /\ sctx' \in [Cmds -> Clients \cup {NULL}]
        /\ status' \in [Clients -> {"none", "submitted", "success", "error", "drop"}]
    BY <2>1, <2>2, <2>4, AnswerPaired
  <2>6. CmdTypeOK'
    BY <2>3, <2>5
  <2>7. HandInv'
    BY <2>3 DEF HandInv
  <2>8. WakeInv'
    BY DEF WakeInv
  <2>. QED
    BY <2>5, <2>6, <2>7, <2>8
<1>4. CASE ThreadDrop
  <2>. USE <1>4 DEF ThreadDrop, threadVars
  <2>1. /\ Head(cmd_queue) \in Cmds /\ cmd_queue' \in Seq(Cmds)
        /\ \A o : In(cmd_queue, o) => In(cmd_queue', o) \/ o = Head(cmd_queue)
    BY InTail
  <2>2. Answer(Head(cmd_queue), "drop") /\ UNCHANGED <<cpc, cmdobj>>
    BY DEF Answer
  <2>3. \A p : Alive(p) => Alive(p)' \/ p = Head(cmd_queue)
    BY <2>1, <2>2 DEF Alive, Queued, In
  <2>4. /\ ContextPaired'
        /\ sctx' \in [Cmds -> Clients \cup {NULL}]
        /\ status' \in [Clients -> {"none", "submitted", "success", "error", "drop"}]
    BY <2>1, <2>2, <2>3, AnswerPaired
  <2>5. CmdTypeOK'
    BY <2>1, <2>2, <2>4
  <2>6. HandInv'
    BY <2>2 DEF HandInv
  <2>7. WakeInv'
    BY DEF WakeInv
  <2>. QED
    BY <2>4, <2>5, <2>6, <2>7
<1>. QED
  BY <1>1, <1>2, <1>3, <1>4 DEF ThreadStep

\* A step of the device, the stopper or the starter, or none at all.
LEMMA DeviceStepInv == ASSUME IInv, DeviceStep \/ UNCHANGED cmdVars PROVE IInv'
<1>. USE CmdAssumption DEF IInv, CmdTypeOK, Thread, DeviceStep, SurpriseRemoved, ThreadInterrupted,
         StopBegin, StopUp, StopDone, Start, cmdVars, threadVars, clientVars
<1>1. UNCHANGED <<cmd_queue, pcmd, sctx, cpc, cmdobj, status>>
  OBVIOUS
<1>2. CmdTypeOK'
  <2>1. cmd_queue_sema' \in Nat
    OBVIOUS
  <2>2. cmdthd_running' \in BOOLEAN /\ cannot_run' \in BOOLEAN
    BY Zenon
  <2>3. thread' \in {thread, "none", "down", "exit"} /\ stopper' \in {"none", "up", "stop"}
    OBVIOUS
  <2>. QED
    BY <1>1, <2>1, <2>2, <2>3, Zenon
<1>3. HandInv'
  BY DEF HandInv
<1>4. \A o : Alive(o)' <=> Alive(o)
  BY <1>1 DEF Alive, Queued
<1>5. ContextPaired'
  BY <1>1, <1>4 DEF ContextPaired, Unanswered
<1>6. WakeInv'
  BY DEF WakeInv
<1>. QED
  BY <1>2, <1>3, <1>5, <1>6

LEMMA InductiveIInv == CmdSpec => []IInv
<1>1. IInv /\ [CmdNext]_cmdVars => IInv'
  BY ClientStep, ThreadStepInv, DeviceStepInv DEF CmdNext
<1>. QED
  BY <1>1, InitIInv, PTL DEF CmdSpec

-----------------------------------------------------------------------------
\* rtw_cmd.c keeps its state in its types: the semaphore is never taken below
\* zero, and the thread executes and drops only command objects.
THEOREM CmdTypeCorrect == CmdSpec => []CmdTypeOK
<1>1. IInv => CmdTypeOK
  BY DEF IInv
<1>. QED
  BY <1>1, InductiveIInv, PTL

\* Timeouts and answers: neither rtw_cmd_thread() nor a client that leaves
\* rtw_setopmode_cmd() follows a pointer to a context or a command that is gone.
THEOREM ContextsStayPaired == CmdSpec => []ContextPaired
<1>1. IInv => ContextPaired
  BY DEF IInv
<1>. QED
  BY <1>1, InductiveIInv, PTL

\* The thread sleeps on a queue with commands in it only while a client of
\* rtw_enqueue_cmd() is about to raise the semaphore, also after a restart.
THEOREM WakeupsAreNotLost == CmdSpec => []NoLostWakeup
<1>1. IInv => NoLostWakeup
  BY DEF IInv, WakeInv, NoLostWakeup
<1>. QED
  BY <1>1, InductiveIInv, PTL
=============================================================================
