--------------------------- MODULE VNCServerWin32 ---------------------------
(***************************************************************************)
(* The Windows server around VNCServerST: other threads hand their         *)
(* commands to the host thread through one slot, guarded by one mutex and  *)
(* one condition variable (queueCommand(), processEvent()), and the host   *)
(* thread joins two of them when the server is destroyed.                  *)
(*                                                                         *)
(* Every section that holds commandLock is one action.  The Condition of   *)
(* Threading.h is a stack: wait() pushes the caller, signal() pops one     *)
(* thread and sets its event; the popped thread is "woken" until it has    *)
(* entered the mutex again.  signal() is only ever called under the mutex. *)
(***************************************************************************)
EXTENDS Integers, Sequences

CONSTANTS
  Callers,   \* threads that call addNewClient(), getClientsInfo() and so on
  Tray,      \* the one of them that the server starts and joins
  Dialog,    \* the thread of QueryConnectDialog
  MaxCalls   \* bound: the calls of a thread

ASSUME ThreadsAssumption ==
  /\ Tray \in Callers
  /\ Dialog \notin Callers
  /\ MaxCalls \in Nat

Threads == Callers \cup {Dialog}

None == "none"
ASSUME NoneAssumption == None \notin Threads

VARIABLES
  command,       \* whose command is queued (command, commandData)
  commandEvent,
  waiting,       \* commandSig.waiting, the top first
  woken,         \* threads whose cond_event is set
  call,          \* where a thread is inside queueCommand()
  calls,         \* how many calls it has begun
  performed,     \* history: how many commands of a thread were performed
  host,          \* where the host thread is
  runServer,
  quit,          \* WM_QUIT is in the host thread's message queue
  tray,          \* the tray icon's thread: absent, running, told to stop, stopped
  dialog,        \* queryConnectDialog: none, its thread runs, its thread is over
  stopAsked      \* history: stop() has been called

sync == <<command, commandEvent, waiting, woken, call>>
life == <<host, runServer, quit, tray, dialog, stopAsked>>
vars == <<sync, calls, performed, life>>

InRun      == {"loop", "check", "perform", "join", "clear"}  \* hostThread is set
Performing == {"perform", "join", "clear"}

(* A thread has one link field for the stack, so it is in there once, and  *)
(* a thread inside a call is in the stack or on its way out of it.         *)
Members(s)  == {s[i] : i \in 1..Len(s)}
Distinct(s) == \A i, j \in 1..Len(s) : s[i] = s[j] => i = j
WaitsOnce ==
  /\ Distinct(waiting)
  /\ \A t \in Threads : call[t] # "idle" <=> t \in woken \cup Members(waiting)
  /\ woken \cap Members(waiting) = {}

(* The fields have their types, and the waiters form a proper stack.       *)
TypeOK ==
  /\ WaitsOnce
  /\ command \in Threads \cup {None}
  /\ commandEvent \in BOOLEAN
  /\ waiting \in Seq(Threads)
  /\ woken \in SUBSET Threads
  /\ call \in [Threads -> {"idle", "slot", "done"}]
  /\ calls \in [Threads -> Nat]
  /\ performed \in [Threads -> Nat]
  /\ host \in {"new"} \cup InRun \cup {"left", "joinTray", "joinDialog", "gone"}
  /\ runServer \in BOOLEAN /\ quit \in BOOLEAN /\ stopAsked \in BOOLEAN
  /\ tray \in {"absent", "running", "told", "stopped"}
  /\ dialog \in {"none", "open", "calling", "over"}

Init ==
  /\ command = None /\ commandEvent = FALSE
  /\ waiting = <<>> /\ woken = {}
  /\ call = [t \in Threads |-> "idle"]
  /\ calls = [t \in Threads |-> 0] /\ performed = [t \in Threads |-> 0]
  /\ host = "new" /\ runServer = FALSE /\ quit = FALSE
  /\ tray = "absent" /\ dialog = "none" /\ stopAsked = FALSE

-----------------------------------------------------------------------------
(* Condition.  "awake" is what is left of woken.                           *)

Signal(awake) ==
  /\ waiting' = IF waiting = <<>> THEN <<>> ELSE Tail(waiting)
  /\ woken' = awake \cup (IF waiting = <<>> THEN {} ELSE {Head(waiting)})

Wait(t, awake) ==
  /\ waiting' = <<t>> \o waiting
  /\ woken' = awake

-----------------------------------------------------------------------------
(* queueCommand().  The dialog's thread does not wait for completion.      *)

Fill(t, awake) ==
  /\ command' = t
  /\ commandEvent' = TRUE
  /\ \/ /\ t # Dialog
        /\ call' = [call EXCEPT ![t] = "done"]
        /\ Wait(t, awake)
     \/ /\ t = Dialog
        /\ call' = [call EXCEPT ![t] = "idle"]
        /\ woken' = awake /\ UNCHANGED waiting

WaitForSlot(t, awake) ==
  /\ call' = [call EXCEPT ![t] = "slot"]
  /\ Wait(t, awake)
  /\ UNCHANGED <<command, commandEvent>>

TakeSlot(t, awake) ==
  \/ command = None /\ Fill(t, awake)
  \/ command # None /\ WaitForSlot(t, awake)

(* What the dialog's thread does next: run() ends after the call.          *)
DialogAfter(t) ==
  dialog' = IF t # Dialog THEN dialog
            ELSE IF call'[t] = "idle" THEN "over" ELSE "calling"

CallerAlive(t) == t = Tray => tray = "running"

QueueCommand(t) ==
  /\ call[t] = "idle" /\ calls[t] < MaxCalls
  /\ host # "gone"
  /\ IF t = Dialog THEN dialog = "open" ELSE host # "new" /\ CallerAlive(t)
  /\ calls' = [calls EXCEPT ![t] = @ + 1]
  /\ TakeSlot(t, woken)
  /\ DialogAfter(t)
  /\ UNCHANGED <<performed, host, runServer, quit, tray, stopAsked>>

WakeForSlot(t) ==
  /\ t \in woken /\ call[t] = "slot"
  /\ TakeSlot(t, woken \ {t})
  /\ DialogAfter(t)
  /\ UNCHANGED <<calls, performed, host, runServer, quit, tray, stopAsked>>

\* Mutants: a call that returns passes no signal on; it takes the first signal for its own.
WakeForCompletionQuietly(t) ==
  /\ t \in woken /\ call[t] = "done"
  /\ \/ /\ command = None
        /\ call' = [call EXCEPT ![t] = "idle"]
        /\ woken' = woken \ {t} /\ UNCHANGED waiting
     \/ /\ command # None
        /\ Wait(t, woken \ {t})
        /\ UNCHANGED call
  /\ UNCHANGED <<command, commandEvent, calls, performed, life>>
WakeForCompletionOnce(t) ==
  /\ t \in woken /\ call[t] = "done"
  /\ call' = [call EXCEPT ![t] = "idle"]
  /\ Signal(woken \ {t})
  /\ UNCHANGED <<command, commandEvent, calls, performed, life>>

WakeForCompletion(t) ==
  /\ t \in woken /\ call[t] = "done"
  /\ \/ /\ command = None
        /\ call' = [call EXCEPT ![t] = "idle"]
        /\ Signal(woken \ {t})
     \/ /\ command # None
        /\ Wait(t, woken \ {t})
        /\ UNCHANGED call
  /\ UNCHANGED <<command, commandEvent, calls, performed, life>>

-----------------------------------------------------------------------------
(* The host thread.                                                        *)

Run ==
  /\ host = "new"
  /\ host' = "loop" /\ runServer' = TRUE
  /\ tray' = "running"
  /\ UNCHANGED <<sync, calls, performed, quit, dialog, stopAsked>>

(* A connection is queried while the host handles a socket.  While a       *)
(* dialog is open another connection is refused, which changes nothing.    *)
QueryConnection ==
  /\ host = "loop" /\ dialog = "none"
  /\ calls[Dialog] < MaxCalls
  /\ dialog' = "open"
  /\ UNCHANGED <<sync, calls, performed, host, runServer, quit, tray, stopAsked>>

(* getMessage() finds commandEvent set; processEvent() resets it first.    *)
ResetCommandEvent ==
  /\ host = "loop" /\ commandEvent
  /\ commandEvent' = FALSE
  /\ host' = "check"
  /\ UNCHANGED <<command, waiting, woken, call, calls, performed, runServer, quit, tray, dialog, stopAsked>>

CheckCommand ==
  /\ host = "check"
  /\ host' = IF command = None THEN "loop" ELSE "perform"
  /\ UNCHANGED <<sync, calls, performed, runServer, quit, tray, dialog, stopAsked>>

(* The command and its data are read without the lock.                     *)
Perform ==
  /\ host = "perform"
  /\ host' = IF command = Dialog THEN "join" ELSE "clear"
  /\ performed' = [performed EXCEPT ![command] = @ + 1]
  /\ UNCHANGED <<sync, calls, runServer, quit, tray, dialog, stopAsked>>

JoinDialogThread ==
  /\ host = "join" /\ dialog = "over"
  /\ host' = "clear" /\ dialog' = "none"
  /\ UNCHANGED <<sync, calls, performed, runServer, quit, tray, stopAsked>>

\* Mutant: completion is not signalled.
ClearCommandQuietly ==
  /\ host = "clear"
  /\ host' = "loop"
  /\ command' = None
  /\ UNCHANGED <<commandEvent, waiting, woken, call, calls, performed, runServer, quit, tray, dialog, stopAsked>>

ClearCommand ==
  /\ host = "clear"
  /\ host' = "loop"
  /\ command' = None
  /\ Signal(woken)
  /\ UNCHANGED <<commandEvent, call, calls, performed, runServer, quit, tray, dialog, stopAsked>>

(* Called by the tray menu or by the service control handler.              *)
Stop ==
  /\ host # "gone" /\ ~stopAsked
  /\ stopAsked' = TRUE
  /\ runServer' = FALSE
  /\ quit' = (host \in InRun)
  /\ UNCHANGED <<sync, calls, performed, host, tray, dialog>>

(* An event takes precedence over WM_QUIT.                                 *)
LeaveRun ==
  /\ host = "loop" /\ ~commandEvent
  /\ quit
  /\ host' = "left" /\ runServer' = FALSE /\ quit' = FALSE
  /\ UNCHANGED <<sync, calls, performed, tray, dialog, stopAsked>>

(* The destructor joins the tray icon's thread, then the dialog's.         *)
\* Mutant: the tray icon's thread is joined without being told to stop.
DeleteTrayIconUntold ==
  /\ host = "left"
  /\ host' = "joinTray"
  /\ UNCHANGED <<sync, calls, performed, runServer, quit, tray, dialog, stopAsked>>

DeleteTrayIcon ==
  /\ host = "left"
  /\ host' = "joinTray" /\ tray' = "told"
  /\ UNCHANGED <<sync, calls, performed, runServer, quit, dialog, stopAsked>>

TrayStops ==
  /\ tray = "told" /\ call[Tray] = "idle"
  /\ tray' = "stopped"
  /\ UNCHANGED <<sync, calls, performed, host, runServer, quit, dialog, stopAsked>>

JoinTray ==
  /\ host = "joinTray" /\ tray = "stopped"
  /\ host' = "joinDialog"
  /\ UNCHANGED <<sync, calls, performed, runServer, quit, tray, dialog, stopAsked>>

Destroyed ==
  /\ host = "joinDialog" /\ dialog \in {"none", "over"}
  /\ host' = "gone" /\ dialog' = "none"
  /\ UNCHANGED <<sync, calls, performed, runServer, quit, tray, stopAsked>>

-----------------------------------------------------------------------------
HostStep ==
  \/ ResetCommandEvent \/ CheckCommand \/ Perform \/ JoinDialogThread \/ ClearCommand
  \/ LeaveRun \/ DeleteTrayIcon \/ JoinTray \/ Destroyed

Next ==
  \/ \E t \in Threads : QueueCommand(t) \/ WakeForSlot(t) \/ WakeForCompletion(t)
  \/ Run \/ QueryConnection \/ Stop \/ TrayStops
  \/ HostStep

Spec == Init /\ [][Next]_vars

(* Running threads run on, and a dialog counts down and closes.  Nobody    *)
(* has to call, to query or to stop.                                       *)
Fairness ==
  /\ WF_vars(HostStep)
  /\ WF_vars(TrayStops)
  /\ WF_vars(QueueCommand(Dialog))
  /\ \A t \in Threads : WF_vars(WakeForSlot(t)) /\ WF_vars(WakeForCompletion(t))

FairSpec == Spec /\ Fairness

-----------------------------------------------------------------------------
(* Properties.                                                             *)

(* signal() wakes one thread, which may be one that finds its condition    *)
(* false: as long as anybody waits while the slot is free, somebody is on  *)
(* the way who will take the slot or pass the signal on.                   *)
NoLostSignal == command = None /\ waiting # <<>> => woken # {}

(* The event is reset before the command is looked at, so that a command   *)
(* queued meanwhile is either seen now or leaves the event set.            *)
CommandSeen ==
  command # None /\ host \notin Performing \cup {"check"} => commandEvent

(* A waiting call returns only after its own command was performed, and no *)
(* command is performed twice, whichever thread was woken.                 *)
Pending(t) == IF command = t /\ host \notin {"join", "clear"} THEN 1 ELSE 0
EachCallPerformedOnce ==
  \A t \in Callers :
    performed[t] = CASE call[t] = "idle" -> calls[t]
                     [] call[t] = "slot" -> calls[t] - 1
                     [] call[t] = "done" -> calls[t] - Pending(t)

(* queueCommand() is the service it promises, however the threads meet.    *)
StageOf(t) ==
  CASE call[t] = "idle" /\ performed[t] = calls[t]     -> "idle"
    [] call[t] # "idle" /\ performed[t] = calls[t]     -> "done"
    [] call[t] # "idle" /\ performed[t] + 1 = calls[t] -> "asked"
    [] OTHER -> "wrong"
Service == INSTANCE CommandService WITH stage <- [t \in Callers |-> StageOf(t)]
ServesCommands == Service!Spec

(* Nobody sleeps over work: neither a thread over a slot that is free, nor *)
(* the host over a command that is queued.                                 *)
NoLostWakeup == NoLostSignal /\ CommandSeen

(* commandData points into the caller's frame: while a caller's command is *)
(* queued or performed, the caller is still inside its call.               *)
DataAlive == command \in Callers => call[command] = "done"

(* The host reads the command outside the lock: nobody replaces a queued   *)
(* command before the host has cleared it.                                 *)
StableUnlocked == [][command # None => command' = command \/ (host = "clear" /\ command' = None)]_vars

(* While the server runs every call comes back, although signals go to the *)
(* latest waiter and new callers may take the slot first: the number of    *)
(* calls is finite.                                                        *)
CallsReturn ==
  \A t \in Callers :
    (call[t] # "idle" /\ host \in InRun) ~> (call[t] = "idle" \/ host \notin InRun)

(* Once told to quit, the server is destroyed, unless a thread was inside  *)
(* queueCommand() when the host left its loop: nobody performs its command *)
(* any more, and the destructor joins that very thread.                    *)
Joining ==
  IF host = "joinTray" THEN {Tray} ELSE IF host = "joinDialog" THEN {Dialog} ELSE {}
StopsUnlessCalling ==
  quit ~> (host = "gone" \/ [](\E t \in Joining : call[t] # "idle" /\ command # None))

(* VNCServerWin32.h says that stop() causes the run() call to return.      *)
StopIsObeyed == stopAsked ~> (host \notin InRun)
=============================================================================
