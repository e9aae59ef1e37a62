------------------------------- MODULE RtwCmd -------------------------------
(***************************************************************************)
(* The command queue of one device and its thread (core/rtw_cmd.c): what   *)
(* touches the hardware is queued as a command object and executed by      *)
(* rtw_cmd_thread(), one at a time.  A caller that wants the result waits  *)
(* for at most two seconds on a submit context on its own stack, which the *)
(* command object points to.  The thread is stopped when the device is     *)
(* suspended, closed or removed, and a new one is started on resume.       *)
(*                                                                         *)
(* Command objects are addresses: one that has been freed may be handed    *)
(* out again while an old pointer to it is still around.                   *)
(***************************************************************************)
EXTENDS Integers, Sequences, FiniteSets

CONSTANTS
  Clients,   \* the contexts that enqueue commands
  Cmds,      \* the addresses of command objects
  NULL,
  SemaMax    \* bound: no new command and no new thread above this count

ASSUME CmdAssumption ==
  /\ NULL \notin Clients \cup Cmds
  /\ SemaMax \in Nat \ {0}

VARIABLES
  cmd_queue,        \* cmdpriv.cmd_queue
  cmd_queue_sema,   \* its semaphore
  cmdthd_running,   \* atomic, what rtw_cmd_filter() looks at
  cannot_run,       \* RTW_CANNOT_RUN(padapter)
  thread, pcmd,     \* the command thread: where it is, and its command
  sctx,             \* cmd_obj->sctx: whose context, or NULL
  cpc, cmdobj,      \* the clients: where they are, and their command
  status,           \* status of their submit context, or "none" for no context
  stopper           \* rtw_stop_cmd_thread() and rtw_start_drv_threads()

threadVars == <<cmdthd_running, thread, pcmd>>
clientVars == <<cpc, cmdobj, status>>
cmdVars == <<cmd_queue, cmd_queue_sema, threadVars, cannot_run, sctx, clientVars, stopper>>

Queued(o) == \E i \in 1..Len(cmd_queue) : cmd_queue[i] = o

\* Between its allocation and its free.  A client that waits has given it away.
Alive(o) ==
  Queued(o) \/ pcmd = o \/ \E k \in Clients : cpc[k] = "enqueue" /\ cmdobj[k] = o

-----------------------------------------------------------------------------
(***************************************************************************)
(* A client: rtw_setopmode_cmd() (ack: it waits) and its likes.            *)
(***************************************************************************)

\* rtw_cmd_filter() lets the command through; the check and the enqueue are two
\* steps.  A refused command is freed on the spot, and its client does not wait.
CmdAdmit(k, o, ack) ==
  /\ cpc[k] = "idle" /\ ~Alive(o)
  /\ cmd_queue_sema < SemaMax
  /\ cmdthd_running
  /\ cmdobj' = [cmdobj EXCEPT ![k] = o]
  /\ sctx' = [sctx EXCEPT ![o] = IF ack THEN k ELSE NULL]
  /\ status' = [status EXCEPT ![k] = IF ack THEN "submitted" ELSE "none"]
  /\ cpc' = [cpc EXCEPT ![k] = "enqueue"]
  /\ UNCHANGED <<cmd_queue, cmd_queue_sema, threadVars, cannot_run, stopper>>

CmdEnqueue(k) ==
  /\ cpc[k] = "enqueue"
  /\ cmd_queue' = Append(cmd_queue, cmdobj[k])
  /\ cpc' = [cpc EXCEPT ![k] = "up"]
  /\ UNCHANGED <<cmd_queue_sema, threadVars, cannot_run, sctx, cmdobj, status, stopper>>

\* Faulty variant: only the first command in the queue wakes the thread.
CmdUpFirst(k) ==
  /\ cpc[k] = "up"
  /\ cmd_queue_sema' = IF Len(cmd_queue) = 1 THEN cmd_queue_sema + 1 ELSE cmd_queue_sema
  /\ cpc' = [cpc EXCEPT ![k] = IF status[k] = "none" THEN "idle" ELSE "wait"]
  /\ UNCHANGED <<cmd_queue, threadVars, cannot_run, sctx, cmdobj, status, stopper>>

CmdUp(k) ==
  /\ cpc[k] = "up"
  /\ cmd_queue_sema' = cmd_queue_sema + 1
  /\ cpc' = [cpc EXCEPT ![k] = IF status[k] = "none" THEN "idle" ELSE "wait"]
  /\ UNCHANGED <<cmd_queue, threadVars, cannot_run, sctx, cmdobj, status, stopper>>

\* Faulty variant: a wait without a timeout.
CmdWaitForEver(k) ==
  /\ cpc[k] = "wait" /\ status[k] # "submitted"
  /\ cpc' = [cpc EXCEPT ![k] = "leave"]
  /\ UNCHANGED <<cmd_queue, cmd_queue_sema, threadVars, cannot_run, sctx, cmdobj, status, stopper>>

\* rtw_sctx_wait(): completed, or two seconds have passed.
CmdWait(k) ==
  /\ cpc[k] = "wait"
  /\ cpc' = [cpc EXCEPT ![k] = "leave"]
  /\ UNCHANGED <<cmd_queue, cmd_queue_sema, threadVars, cannot_run, sctx, cmdobj, status, stopper>>

\* Faulty variant: the command keeps its pointer to the context.
CmdLeaveBare(k) ==
  /\ cpc[k] = "leave"
  /\ cpc' = [cpc EXCEPT ![k] = "idle"]
  /\ cmdobj' = [cmdobj EXCEPT ![k] = NULL]
  /\ UNCHANGED <<sctx, cmd_queue, cmd_queue_sema, threadVars, cannot_run, status, stopper>>

\* Under sctx_mutex: an unanswered command loses its context, which is gone
\* when the caller returns.
CmdLeave(k) ==
  /\ cpc[k] = "leave"
  /\ sctx' = IF status[k] = "submitted" THEN [sctx EXCEPT ![cmdobj[k]] = NULL] ELSE sctx
  /\ cpc' = [cpc EXCEPT ![k] = "idle"]
  /\ cmdobj' = [cmdobj EXCEPT ![k] = NULL]
  /\ UNCHANGED <<cmd_queue, cmd_queue_sema, threadVars, cannot_run, status, stopper>>

-----------------------------------------------------------------------------
(***************************************************************************)
(* rtw_cmd_thread().                                                       *)
(***************************************************************************)
Thread(from, to) == thread = from /\ thread' = to

\* Faulty variant: the semaphore is taken without waiting for it.
ThreadDownUnchecked ==
  /\ cmd_queue_sema' = cmd_queue_sema - 1
  /\ Thread("down", "woken")
  /\ UNCHANGED <<cmd_queue, cmdthd_running, pcmd, cannot_run, sctx, clientVars, stopper>>

ThreadDown ==
  /\ cmd_queue_sema > 0
  /\ cmd_queue_sema' = cmd_queue_sema - 1
  /\ Thread("down", "woken")
  /\ UNCHANGED <<cmd_queue, cmdthd_running, pcmd, cannot_run, sctx, clientVars, stopper>>

\* External: a SIGTERM, which thread_enter() allows, ends the sleep on the
\* semaphore, and the thread leaves its loop although nobody has stopped it.
ThreadInterrupted ==
  /\ cmd_queue_sema = 0
  /\ Thread("down", "exit")
  /\ UNCHANGED <<cmd_queue, cmd_queue_sema, cmdthd_running, pcmd, cannot_run, sctx, clientVars, stopper>>

\* RTW_CANNOT_RUN() is looked at after every wakeup and before every command.
ThreadStopped ==
  /\ cannot_run
  /\ Thread("woken", "exit") \/ Thread("next", "exit")
  /\ UNCHANGED <<cmd_queue, cmd_queue_sema, cmdthd_running, pcmd, cannot_run, sctx, clientVars, stopper>>

ThreadEmpty ==
  /\ ~cannot_run /\ cmd_queue = <<>>
  /\ Thread("woken", "down") \/ Thread("next", "down")
  /\ UNCHANGED <<cmd_queue, cmd_queue_sema, cmdthd_running, pcmd, cannot_run, sctx, clientVars, stopper>>

ThreadWoken ==
  /\ ~cannot_run /\ cmd_queue # <<>>
  /\ Thread("woken", "next")
  /\ UNCHANGED <<cmd_queue, cmd_queue_sema, cmdthd_running, pcmd, cannot_run, sctx, clientVars, stopper>>

ThreadNext ==
  /\ ~cannot_run /\ cmd_queue # <<>>
  /\ Thread("next", "run")
  /\ pcmd' = Head(cmd_queue)
  /\ cmd_queue' = Tail(cmd_queue)
  /\ UNCHANGED <<cmd_queue_sema, cmdthd_running, cannot_run, sctx, clientVars, stopper>>

\* The context of o, if it has one, gets its status and is let go (under
\* sctx_mutex); the object is freed.
Answer(o, res) ==
  /\ status' = IF sctx[o] = NULL THEN status ELSE [status EXCEPT ![sctx[o]] = res]
  /\ sctx' = [sctx EXCEPT ![o] = NULL]
  /\ UNCHANGED <<cpc, cmdobj>>

\* The handler has run, or rtw_cmd_filter() dropped the command.
ThreadRun ==
  /\ Thread("run", "next")
  /\ \E res \in {"success", "error"} : Answer(pcmd, res)
  /\ pcmd' = NULL
  /\ UNCHANGED <<cmd_queue, cmd_queue_sema, cmdthd_running, cannot_run, stopper>>

ThreadExit ==
  /\ Thread("exit", "drain")
  /\ cmdthd_running' = FALSE
  /\ UNCHANGED <<cmd_queue, cmd_queue_sema, pcmd, cannot_run, sctx, clientVars, stopper>>

\* What is left is dropped, one command after the other ...
ThreadDrop ==
  /\ thread = "drain" /\ cmd_queue # <<>>
  /\ Answer(Head(cmd_queue), "drop")
  /\ cmd_queue' = Tail(cmd_queue)
  /\ UNCHANGED <<cmd_queue_sema, threadVars, cannot_run, stopper>>

\* ... and with the queue empty the thread waits for kthread_stop().  A client
\* that was let through before ThreadExit may still enqueue.
ThreadDrained ==
  /\ cmd_queue = <<>>
  /\ Thread("drain", "end")
  /\ UNCHANGED <<cmd_queue, cmd_queue_sema, cmdthd_running, pcmd, cannot_run, sctx, clientVars, stopper>>

-----------------------------------------------------------------------------
(***************************************************************************)
(* The device: stopped, started, unplugged.                                *)
(***************************************************************************)

\* External: an I/O error shows that the device is gone; nobody wakes the thread.
SurpriseRemoved ==
  /\ ~cannot_run
  /\ cannot_run' = TRUE
  /\ UNCHANGED <<cmd_queue, cmd_queue_sema, threadVars, sctx, clientVars, stopper>>

StopBegin ==
  /\ stopper = "none" /\ thread # "none"
  /\ cannot_run' = TRUE
  /\ stopper' = "up"
  /\ UNCHANGED <<cmd_queue, cmd_queue_sema, threadVars, sctx, clientVars>>

\* Faulty variant: the sleeping thread is not woken.
StopUpForgotten ==
  /\ stopper = "up"
  /\ stopper' = "stop"
  /\ UNCHANGED <<cmd_queue, cmd_queue_sema, threadVars, cannot_run, sctx, clientVars>>

StopUp ==
  /\ stopper = "up"
  /\ cmd_queue_sema' = cmd_queue_sema + 1
  /\ stopper' = "stop"
  /\ UNCHANGED <<cmd_queue, threadVars, cannot_run, sctx, clientVars>>

\* kthread_stop() and the thread that waited for it.
StopDone ==
  /\ stopper = "stop"
  /\ Thread("end", "none")
  /\ stopper' = "none"
  /\ UNCHANGED <<cmd_queue, cmd_queue_sema, cmdthd_running, pcmd, cannot_run, sctx, clientVars>>

\* netdev_open(), resume: the flags are cleared, a thread is started and waited
\* for.  The queue and its semaphore are what they were.
Start ==
  /\ stopper = "none" /\ thread = "none"
  /\ cmd_queue_sema < SemaMax
  /\ cannot_run' = FALSE
  /\ cmdthd_running' = TRUE
  /\ thread' = "down"
  /\ UNCHANGED <<cmd_queue, cmd_queue_sema, pcmd, sctx, clientVars, stopper>>

CmdInit ==
  /\ cmd_queue = <<>> /\ cmd_queue_sema = 0
  /\ cmdthd_running = FALSE /\ cannot_run = FALSE
  /\ thread = "none" /\ pcmd = NULL
  /\ sctx = [o \in Cmds |-> NULL]
  /\ cpc = [k \in Clients |-> "idle"]
  /\ cmdobj = [k \in Clients |-> NULL]
  /\ status = [k \in Clients |-> "none"]
  /\ stopper = "none"

\* A client that issues commands whenever it likes, waiting for them or not.
CmdIssue(k) == \E o \in Cmds, ack \in BOOLEAN : CmdAdmit(k, o, ack)

CmdGoesOn(k) == CmdEnqueue(k) \/ CmdUp(k) \/ CmdWait(k) \/ CmdLeave(k)

ThreadStep ==
  \/ ThreadDown \/ ThreadStopped \/ ThreadEmpty \/ ThreadWoken \/ ThreadNext
  \/ ThreadRun \/ ThreadExit \/ ThreadDrop \/ ThreadDrained

DeviceStep ==
  \/ SurpriseRemoved \/ ThreadInterrupted
  \/ StopBegin \/ StopUp \/ StopDone \/ Start

CmdNext ==
  \/ \E k \in Clients : CmdIssue(k) \/ CmdGoesOn(k)
  \/ ThreadStep
  \/ DeviceStep

CmdSpec == CmdInit /\ [][CmdNext]_cmdVars

(***************************************************************************)
(* The scheduler runs the thread, a client that is in a call and whoever   *)
(* has begun to stop the thread, handlers return, and the two seconds of a *)
(* wait pass.  Nothing is assumed of the hardware, of signals, of new      *)
(* commands or of a thread being started again.                            *)
(***************************************************************************)
CmdFairness ==
  /\ WF_cmdVars(ThreadStep)
  /\ WF_cmdVars(StopUp \/ StopDone)
  /\ \A k \in Clients : WF_cmdVars(CmdGoesOn(k))

CmdFairSpec == CmdSpec /\ CmdFairness

-----------------------------------------------------------------------------
(***************************************************************************)
(* Properties.                                                             *)
(***************************************************************************)
CmdTypeOK ==
  /\ cmd_queue \in Seq(Cmds)
  /\ cmd_queue_sema \in Nat
  /\ cmdthd_running \in BOOLEAN /\ cannot_run \in BOOLEAN
  /\ thread \in {"none", "down", "woken", "next", "run", "exit", "drain", "end"}
  /\ pcmd \in Cmds \cup {NULL}
  /\ sctx \in [Cmds -> Clients \cup {NULL}]
  /\ cpc \in [Clients -> {"idle", "enqueue", "up", "wait", "leave"}]
  /\ cmdobj \in [Clients -> Cmds \cup {NULL}]
  /\ status \in [Clients -> {"none", "submitted", "success", "error", "drop"}]
  /\ stopper \in {"none", "up", "stop"}

\* The stack context a command points to belongs to a client that is still in
\* its call, and the command an unanswered client will write to has not been
\* freed: whichever of the two, the two-second timeout or the answer, comes
\* first, neither side follows a dead pointer.
Unanswered(k) == cpc[k] # "idle" /\ status[k] = "submitted"

ContextPaired ==
  /\ \A o \in Cmds : sctx[o] # NULL => Unanswered(sctx[o]) /\ cmdobj[sctx[o]] = o
  /\ \A k \in Clients : Unanswered(k) => Alive(cmdobj[k]) /\ sctx[cmdobj[k]] = k

\* The thread does not sleep on a queue with commands in it: whoever enqueued
\* the last one is about to wake it.
NoLostWakeup ==
  thread = "down" /\ cmd_queue_sema = 0 /\ cmd_queue # <<>>
    => \E k \in Clients : cpc[k] = "up"

\* A command leaves the queue, executed or dropped, unless the thread has ended
\* with the command behind it; it then stays until the next thread executes it.
\* The flag is cleared before the queue is drained "to avoid enqueue cmd after
\* free all cmd_obj", but a client reads it one step before it enqueues.
CommandLeaves ==
  \A o \in Cmds : Queued(o) ~> (~Queued(o) \/ thread \in {"end", "none"})

\* A client that waits for its command gets out of the call, also when the
\* command was left behind by the thread.
CallReturns == \A k \in Clients : cpc[k] = "wait" ~> cpc[k] = "idle"

\* rtw_stop_cmd_thread() returns, whatever the clients do.
StopCompletes == stopper = "up" ~> stopper = "none"
=============================================================================
