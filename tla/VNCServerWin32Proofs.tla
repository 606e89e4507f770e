------------------------ MODULE VNCServerWin32Proofs ------------------------
(***************************************************************************)
(* Proofs about the command queue of VNCServerWin32, for any set of        *)
(* threads and any number of calls.                                        *)
(***************************************************************************)
EXTENDS VNCServerWin32, TLAPS

(* What the host does outside the lock it does to a queued command.        *)
HostBusy ==
  /\ host \in Performing => command # None
  /\ host = "join" => command = Dialog

IInv ==
  /\ TypeOK
  /\ HostBusy
  /\ CommandSeen
  /\ NoLostSignal
  /\ EachCallPerformedOnce
  /\ DataAlive

-----------------------------------------------------------------------------
(* The stack of a Condition.                                               *)

(* wait() links a thread in front of the stack.                            *)
LEMMA Pushed ==
  ASSUME NEW S, NEW s \in Seq(S), NEW t \in S
  PROVE  /\ <<t>> \o s \in Seq(S)
         /\ <<t>> \o s # <<>>
         /\ Members(<<t>> \o s) = Members(s) \cup {t}
         /\ Distinct(s) /\ t \notin Members(s) => Distinct(<<t>> \o s)
<1> DEFINE w == <<t>> \o s
<1>1. w \in Seq(S) /\ Len(w) = Len(s) + 1 /\ w[1] = t /\ \A i \in 2..Len(w) : w[i] = s[i - 1]
  OBVIOUS
<1> HIDE DEF w
<1>2. w # <<>>
  BY <1>1
<1>3. Len(s) \in Nat
  OBVIOUS
<1>4. \A i \in 1..Len(s) : i + 1 \in 2..Len(w) /\ w[i + 1] = s[i]
  BY <1>1, <1>3
<1>5. Members(w) = Members(s) \cup {t}
  <2>1. ASSUME NEW x \in Members(w) PROVE x \in Members(s) \cup {t}
    <3>1. PICK i \in 1..Len(w) : x = w[i]
      BY DEF Members
    <3>2. i = 1 \/ (i \in 2..Len(w) /\ i - 1 \in 1..Len(s))
      BY <1>1, <1>3
    <3> QED BY <1>1, <3>1, <3>2 DEF Members
  <2>2. ASSUME NEW x \in Members(s) PROVE x \in Members(w)
    <3>1. PICK i \in 1..Len(s) : x = s[i]
      BY DEF Members
    <3>2. i + 1 \in 1..Len(w) /\ w[i + 1] = x
      BY <1>1, <1>3, <1>4, <3>1
    <3> QED BY <3>2 DEF Members
  <2>3. t \in Members(w)
    <3>1. 1 \in 1..Len(w)
      BY <1>1, <1>3
    <3> QED BY <1>1, <3>1 DEF Members
  <2> QED BY <2>1, <2>2, <2>3
<1>6. ASSUME Distinct(s), t \notin Members(s) PROVE Distinct(w)
  <2> SUFFICES ASSUME NEW i \in 1..Len(w), NEW j \in 1..Len(w), w[i] = w[j] PROVE i = j
    BY DEF Distinct
  <2>1. \A k \in 2..Len(w) : k - 1 \in 1..Len(s) /\ w[k] = s[k - 1] /\ w[k] # t
    BY <1>1, <1>3, <1>6 DEF Members
  <2>2. (i = 1 \/ i \in 2..Len(w)) /\ (j = 1 \/ j \in 2..Len(w))
    BY <1>1, <1>3
  <2>3. CASE i \in 2..Len(w) /\ j \in 2..Len(w)
    <3>1. i - 1 = j - 1
      BY <1>6, <2>1, <2>3 DEF Distinct
    <3> QED BY <1>1, <1>3, <2>3, <3>1
  <2> QED BY <1>1, <2>1, <2>2, <2>3
<1> QED BY <1>1, <1>2, <1>5, <1>6 DEF w

(* signal() unlinks the first thread of the stack.                         *)
LEMMA Popped ==
  ASSUME NEW S, NEW s \in Seq(S), s # <<>>
  PROVE  /\ Tail(s) \in Seq(S)
         /\ Head(s) \in S /\ Head(s) \in Members(s)
         /\ Distinct(s) => /\ Distinct(Tail(s))
                           /\ Members(Tail(s)) = Members(s) \ {Head(s)}
<1> DEFINE w == Tail(s)
<1>1. w \in Seq(S) /\ Len(w) = Len(s) - 1 /\ Head(s) = s[1] /\ s[1] \in S
      /\ Len(s) \in Nat /\ Len(s) >= 1 /\ \A i \in 1..Len(w) : w[i] = s[i + 1]
  OBVIOUS
<1> HIDE DEF w
<1>2. Head(s) \in Members(s)
  BY <1>1 DEF Members
<1>3. \A i \in 1..Len(w) : i + 1 \in 1..Len(s) /\ i + 1 # 1
  BY <1>1
<1>4. ASSUME Distinct(s) PROVE Distinct(w)
  <2> SUFFICES ASSUME NEW i \in 1..Len(w), NEW j \in 1..Len(w), w[i] = w[j] PROVE i = j
    BY DEF Distinct
  <2>1. i + 1 = j + 1
    BY <1>1, <1>3, <1>4 DEF Distinct
  <2> QED BY <1>1, <2>1
<1>5. ASSUME Distinct(s) PROVE Members(w) = Members(s) \ {Head(s)}
  <2>1. ASSUME NEW x \in Members(w) PROVE x \in Members(s) \ {Head(s)}
    <3>1. PICK i \in 1..Len(w) : x = s[i + 1]
      BY <1>1 DEF Members
    <3>2. 1 \in 1..Len(s)
      BY <1>1
    <3>3. s[i + 1] # s[1]
      BY <1>3, <1>5, <3>2 DEF Distinct
    <3> QED BY <1>1, <1>3, <3>1, <3>3 DEF Members
  <2>2. ASSUME NEW x \in Members(s), x # Head(s) PROVE x \in Members(w)
    <3>1. PICK i \in 1..Len(s) : x = s[i]
      BY DEF Members
    <3>2. i - 1 \in 1..Len(w) /\ (i - 1) + 1 = i
      BY <1>1, <2>2, <3>1
    <3> QED BY <1>1, <3>1, <3>2 DEF Members
  <2> QED BY <2>1, <2>2
<1> QED BY <1>1, <1>2, <1>4, <1>5 DEF w

-----------------------------------------------------------------------------
(* Waiting and signalling keep every waiter either in the stack or woken.  *)

LEMMA WaitKeeps ==
  ASSUME NEW t \in Threads, NEW awake \in SUBSET Threads,
         waiting \in Seq(Threads), Distinct(waiting), t \notin Members(waiting),
         awake \cap (Members(waiting) \cup {t}) = {},
         Wait(t, awake)
  PROVE  /\ waiting' \in Seq(Threads) /\ woken' \in SUBSET Threads
         /\ Distinct(waiting')
         /\ woken' \cap Members(waiting') = {}
         /\ woken' \cup Members(waiting') = awake \cup Members(waiting) \cup {t}
<1>1. waiting' = <<t>> \o waiting /\ woken' = awake
  BY DEF Wait
<1> QED BY <1>1, Pushed

LEMMA SignalKeeps1 ==
  ASSUME NEW awake \in SUBSET Threads,
         waiting \in Seq(Threads), Distinct(waiting), awake \cap Members(waiting) = {},
         Signal(awake)
  PROVE  /\ waiting' \in Seq(Threads) /\ woken' \in SUBSET Threads
         /\ Distinct(waiting')
         /\ woken' \cap Members(waiting') = {}
         /\ woken' \cup Members(waiting') = awake \cup Members(waiting)
         /\ waiting' # <<>> => woken' # {}
<1>1. CASE waiting = <<>>
  BY <1>1 DEF Signal
<1>2. CASE waiting # <<>>
  <2>1. waiting' = Tail(waiting) /\ woken' = awake \cup {Head(waiting)}
    BY <1>2 DEF Signal
  <2> QED BY <1>2, <2>1, Popped
<1> QED BY <1>1, <1>2

(* Taking the slot, or waiting for it.                                     *)
LEMMA TakeSlotKeeps ==
  ASSUME TypeOK, NEW t \in Threads, call[t] \in {"idle", "slot"},
         TakeSlot(t, woken \ {t}),
         call[t] = "slot" => t \in woken
  PROVE  /\ command' \in Threads /\ commandEvent' \in BOOLEAN
         /\ waiting' \in Seq(Threads) /\ woken' \in SUBSET Threads
         /\ call' \in [Threads -> {"idle", "slot", "done"}]
         /\ WaitsOnce'
         /\ command = None => command' = t /\ commandEvent' = TRUE
         /\ command # None => command' = command /\ commandEvent' = commandEvent
         /\ \A u \in Threads \ {t} : call'[u] = call[u]
         /\ command # None => call'[t] = "slot"
         /\ command = None => call'[t] = IF t = Dialog THEN "idle" ELSE "done"
<1> USE DEF TypeOK, WaitsOnce
<1>1. t \notin Members(waiting)
  <2>1. CASE call[t] = "idle"
    BY <2>1
  <2>2. CASE call[t] = "slot"
    BY <2>2
  <2> QED BY <2>1, <2>2
<1>2. (woken \ {t}) \cap (Members(waiting) \cup {t}) = {}
  BY <1>1
<1>3. CASE command = None
  <2>1. command' = t /\ commandEvent' = TRUE
    BY <1>3 DEF TakeSlot, Fill
  <2>2. CASE t # Dialog
    <3>1. call' = [call EXCEPT ![t] = "done"] /\ Wait(t, woken \ {t})
      BY <1>3, <2>2 DEF TakeSlot, Fill
    <3>2. /\ waiting' \in Seq(Threads) /\ woken' \in SUBSET Threads
          /\ Distinct(waiting')
          /\ woken' \cap Members(waiting') = {}
          /\ woken' \cup Members(waiting') = (woken \ {t}) \cup Members(waiting) \cup {t}
      BY <1>1, <1>2, <3>1, WaitKeeps
    <3>3. \A u \in Threads : call'[u] # "idle" <=> u \in woken' \cup Members(waiting')
      BY <3>1, <3>2
    <3> QED BY <1>3, <2>1, <2>2, <3>1, <3>2, <3>3
  <2>3. CASE t = Dialog
    <3>1. call' = [call EXCEPT ![t] = "idle"] /\ woken' = woken \ {t} /\ waiting' = waiting
      BY <1>3, <2>3 DEF TakeSlot, Fill
    <3>2. \A u \in Threads : call'[u] # "idle" <=> u \in woken' \cup Members(waiting')
      BY <1>1, <3>1
    <3> QED BY <1>3, <2>1, <2>3, <3>1, <3>2
  <2> QED BY <2>2, <2>3
<1>4. CASE command # None
  <2>1. /\ command' = command /\ commandEvent' = commandEvent
        /\ call' = [call EXCEPT ![t] = "slot"] /\ Wait(t, woken \ {t})
    BY <1>4 DEF TakeSlot, WaitForSlot
  <2>2. /\ waiting' \in Seq(Threads) /\ woken' \in SUBSET Threads
        /\ Distinct(waiting')
        /\ woken' \cap Members(waiting') = {}
        /\ woken' \cup Members(waiting') = (woken \ {t}) \cup Members(waiting) \cup {t}
    BY <1>1, <1>2, <2>1, WaitKeeps
  <2>3. \A u \in Threads : call'[u] # "idle" <=> u \in woken' \cup Members(waiting')
    BY <2>1, <2>2
  <2> QED BY <1>4, <2>1, <2>2, <2>3
<1> QED BY <1>3, <1>4

-----------------------------------------------------------------------------
(* IInv holds initially and each action keeps it.                          *)

LEMMA InitIInv == Init => IInv
<1> SUFFICES ASSUME Init PROVE IInv
  OBVIOUS
<1> USE DEF Init
<1>1. Members(waiting) = {} /\ Distinct(waiting) /\ waiting \in Seq(Threads)
  BY DEF Members, Distinct
<1>2. TypeOK
  BY <1>1 DEF TypeOK, WaitsOnce
<1>3. HostBusy /\ CommandSeen /\ NoLostSignal /\ DataAlive
  BY NoneAssumption DEF HostBusy, CommandSeen, NoLostSignal, DataAlive, Performing, Threads
<1>4. EachCallPerformedOnce
  BY DEF EachCallPerformedOnce, Threads
<1> QED BY <1>2, <1>3, <1>4 DEF IInv

(* A thread that begins its call, or is woken while it waits for the slot. *)
LEMMA SlotIInv ==
  ASSUME IInv, NEW t \in Threads, call[t] \in {"idle", "slot"},
         TakeSlot(t, woken \ {t}), call[t] = "slot" => t \in woken,
         calls' = IF call[t] = "idle" THEN [calls EXCEPT ![t] = @ + 1] ELSE calls,
         dialog' \in {"none", "open", "calling", "over"},
         UNCHANGED <<performed, host, runServer, quit, tray, stopAsked>>
  PROVE  IInv'
<1> USE DEF IInv
<1>1. /\ command' \in Threads /\ commandEvent' \in BOOLEAN
      /\ waiting' \in Seq(Threads) /\ woken' \in SUBSET Threads
      /\ call' \in [Threads -> {"idle", "slot", "done"}]
      /\ WaitsOnce'
      /\ command = None => command' = t /\ commandEvent' = TRUE
      /\ command # None => command' = command /\ commandEvent' = commandEvent
      /\ \A u \in Threads \ {t} : call'[u] = call[u]
      /\ command # None => call'[t] = "slot"
      /\ command = None => call'[t] = IF t = Dialog THEN "idle" ELSE "done"
  BY TakeSlotKeeps
<1>2. TypeOK'
  BY <1>1 DEF TypeOK
<1>3. command' # None
  BY <1>1, NoneAssumption
<1>4. HostBusy' /\ NoLostSignal'
  BY <1>1, <1>3 DEF HostBusy, NoLostSignal, Performing
<1>5. CommandSeen'
  BY <1>1 DEF CommandSeen
<1>6. EachCallPerformedOnce'
  <2> SUFFICES ASSUME NEW u \in Callers
               PROVE performed'[u] = CASE call'[u] = "idle" -> calls'[u]
                                       [] call'[u] = "slot" -> calls'[u] - 1
                                       [] call'[u] = "done" -> calls'[u] - Pending(u)'
    BY DEF EachCallPerformedOnce
  <2> USE DEF Threads
  <2>1. /\ performed' = performed /\ performed[u] \in Nat /\ calls[u] \in Nat
        /\ performed[u] = CASE call[u] = "idle" -> calls[u]
                            [] call[u] = "slot" -> calls[u] - 1
                            [] call[u] = "done" -> calls[u] - Pending(u)
        /\ u # Dialog
    BY ThreadsAssumption DEF EachCallPerformedOnce, TypeOK
  <2>2. CASE u # t
    <3>1. calls'[u] = calls[u] /\ call'[u] = call[u]
      BY <1>1, <2>2 DEF TypeOK
    <3>2. Pending(u)' = Pending(u)
      <4>1. (command' = u /\ host' \notin {"join", "clear"}) <=> (command = u /\ host \notin {"join", "clear"})
        <5>1. CASE command = None
          BY <1>1, <2>2, <5>1, NoneAssumption
        <5>2. CASE command # None
          BY <1>1, <5>2
        <5> QED BY <5>1, <5>2
      <4> QED BY <4>1 DEF Pending
    <3> QED BY <2>1, <3>1, <3>2
  <2>3. CASE u = t
    <3>1. performed[u] = calls'[u] - 1 /\ calls'[u] \in Nat
      BY <2>1, <2>3 DEF TypeOK
    <3>2. CASE command # None
      BY <1>1, <2>1, <2>3, <3>1, <3>2
    <3>3. CASE command = None
      <4>1. host \notin {"join", "clear"}
        BY <3>3 DEF HostBusy, Performing
      <4>2. Pending(u)' = 1
        BY <1>1, <2>3, <3>3, <4>1 DEF Pending
      <4>3. call'[u] = "done"
        BY <1>1, <2>1, <2>3, <3>3
      <4> QED BY <2>1, <3>1, <4>2, <4>3
    <3> QED BY <3>2, <3>3
  <2> QED BY <2>2, <2>3
<1>7. DataAlive'
  <2>1. CASE command = None
    BY <1>1, <2>1, ThreadsAssumption DEF DataAlive
  <2>2. CASE command # None
    <3>1. command \in Callers => command # t
      BY DEF DataAlive
    <3> QED BY <1>1, <2>2, <3>1 DEF DataAlive, Threads
  <2> QED BY <2>1, <2>2
<1> QED BY <1>2, <1>4, <1>5, <1>6, <1>7

LEMMA QueueCommandIInv == ASSUME IInv, NEW t \in Threads, QueueCommand(t) PROVE IInv'
<1>1. /\ call[t] = "idle" /\ TakeSlot(t, woken) /\ DialogAfter(t)
      /\ calls' = [calls EXCEPT ![t] = @ + 1]
      /\ UNCHANGED <<performed, host, runServer, quit, tray, stopAsked>>
  BY DEF QueueCommand
<1>2. woken \ {t} = woken
  BY <1>1 DEF IInv, TypeOK, WaitsOnce
<1>3. dialog' \in {"none", "open", "calling", "over"}
  BY <1>1 DEF DialogAfter, IInv, TypeOK
<1> QED BY <1>1, <1>2, <1>3, SlotIInv

LEMMA WakeForSlotIInv == ASSUME IInv, NEW t \in Threads, WakeForSlot(t) PROVE IInv'
<1>1. /\ call[t] = "slot" /\ t \in woken /\ TakeSlot(t, woken \ {t}) /\ DialogAfter(t)
      /\ calls' = calls
      /\ UNCHANGED <<performed, host, runServer, quit, tray, stopAsked>>
  BY DEF WakeForSlot
<1>2. dialog' \in {"none", "open", "calling", "over"}
  BY <1>1 DEF DialogAfter, IInv, TypeOK
<1> QED BY <1>1, <1>2, SlotIInv

LEMMA WakeForCompletionIInv == ASSUME IInv, NEW t \in Threads, WakeForCompletion(t) PROVE IInv'
<1> USE DEF IInv
<1>1. /\ t \in woken /\ call[t] = "done"
      /\ UNCHANGED <<command, commandEvent, calls, performed, life>>
  BY DEF WakeForCompletion
<1>2. /\ waiting \in Seq(Threads) /\ woken \in SUBSET Threads /\ Distinct(waiting)
      /\ woken \cap Members(waiting) = {} /\ call \in [Threads -> {"idle", "slot", "done"}]
      /\ \A u \in Threads : call[u] # "idle" <=> u \in woken \cup Members(waiting)
  BY DEF TypeOK, WaitsOnce
<1>3. HostBusy' /\ CommandSeen'
  BY <1>1 DEF HostBusy, CommandSeen, life
<1>4. CASE command = None /\ call' = [call EXCEPT ![t] = "idle"] /\ Signal(woken \ {t})
  <2>1. /\ waiting' \in Seq(Threads) /\ woken' \in SUBSET Threads
        /\ Distinct(waiting')
        /\ woken' \cap Members(waiting') = {}
        /\ woken' \cup Members(waiting') = (woken \ {t}) \cup Members(waiting)
        /\ waiting' # <<>> => woken' # {}
    BY <1>2, <1>4, SignalKeeps1
  <2>2. TypeOK'
    <3>1. \A u \in Threads : call'[u] # "idle" <=> u \in woken' \cup Members(waiting')
      BY <1>1, <1>2, <1>4, <2>1
    <3>2. WaitsOnce'
      BY <2>1, <3>1 DEF WaitsOnce
    <3> QED BY <1>1, <1>2, <1>4, <2>1, <3>2 DEF TypeOK, life
  <2>3. NoLostSignal'
    BY <2>1 DEF NoLostSignal
  <2>4. DataAlive'
    BY <1>1, <1>4, NoneAssumption DEF DataAlive, Threads
  <2>5. EachCallPerformedOnce'
    <3> SUFFICES ASSUME NEW u \in Callers
                 PROVE performed'[u] = CASE call'[u] = "idle" -> calls'[u]
                                         [] call'[u] = "slot" -> calls'[u] - 1
                                         [] call'[u] = "done" -> calls'[u] - Pending(u)'
      BY DEF EachCallPerformedOnce
    <3>1. Pending(u)' = Pending(u) /\ Pending(u) = 0
      BY <1>1, <1>4, NoneAssumption DEF Pending, life, Threads
    <3>2. calls[u] \in Nat /\ performed[u] = CASE call[u] = "idle" -> calls[u]
                            [] call[u] = "slot" -> calls[u] - 1
                            [] call[u] = "done" -> calls[u] - Pending(u)
      BY DEF EachCallPerformedOnce, TypeOK, Threads
    <3>3. call'[u] = IF u = t THEN "idle" ELSE call[u]
      BY <1>2, <1>4 DEF Threads
    <3>4. calls' = calls /\ performed' = performed
      BY <1>1
    <3>5. CASE u = t
      BY <1>1, <3>1, <3>2, <3>3, <3>4, <3>5
    <3>6. CASE u # t
      <4>1. call'[u] = call[u] /\ Pending(u)' = Pending(u)
        BY <3>1, <3>3, <3>6
      <4> QED BY <3>2, <3>4, <4>1
    <3> QED BY <3>5, <3>6
  <2> QED BY <1>3, <2>2, <2>3, <2>4, <2>5
<1>5. CASE command # None /\ Wait(t, woken \ {t}) /\ call' = call
  <2>1. /\ waiting' \in Seq(Threads) /\ woken' \in SUBSET Threads
        /\ Distinct(waiting')
        /\ woken' \cap Members(waiting') = {}
        /\ woken' \cup Members(waiting') = (woken \ {t}) \cup Members(waiting) \cup {t}
    BY <1>1, <1>2, <1>5, WaitKeeps
  <2>2. TypeOK'
    <3>1. WaitsOnce'
      BY <1>1, <1>2, <1>5, <2>1 DEF WaitsOnce
    <3> QED BY <1>1, <1>5, <2>1, <3>1 DEF TypeOK, life
  <2>3. NoLostSignal' /\ DataAlive'
    BY <1>1, <1>5 DEF NoLostSignal, DataAlive
  <2>4. EachCallPerformedOnce'
    BY <1>1, <1>5 DEF EachCallPerformedOnce, Pending, life
  <2> QED BY <1>3, <2>2, <2>3, <2>4
<1> QED BY <1>4, <1>5 DEF WakeForCompletion

LEMMA PerformIInv == ASSUME IInv, Perform PROVE IInv'
<1> USE DEF IInv
<1>1. /\ host = "perform" /\ host' = IF command = Dialog THEN "join" ELSE "clear"
      /\ performed' = [performed EXCEPT ![command] = @ + 1]
      /\ UNCHANGED <<command, commandEvent, waiting, woken, call, calls, runServer, quit, tray, dialog, stopAsked>>
  BY DEF Perform, sync
<1>2. command \in Threads
  BY <1>1 DEF HostBusy, Performing, TypeOK
<1>3. TypeOK'
  BY <1>1, <1>2 DEF TypeOK, WaitsOnce, InRun
<1>4. HostBusy' /\ CommandSeen' /\ NoLostSignal' /\ DataAlive'
  BY <1>1, <1>2, NoneAssumption DEF HostBusy, CommandSeen, NoLostSignal, DataAlive, Performing
<1>5. EachCallPerformedOnce'
  <2> SUFFICES ASSUME NEW u \in Callers
               PROVE performed'[u] = CASE call'[u] = "idle" -> calls'[u]
                                       [] call'[u] = "slot" -> calls'[u] - 1
                                       [] call'[u] = "done" -> calls'[u] - Pending(u)'
    BY DEF EachCallPerformedOnce
  <2>1. /\ calls[u] \in Nat /\ performed[u] \in Nat
        /\ performed[u] = CASE call[u] = "idle" -> calls[u]
                            [] call[u] = "slot" -> calls[u] - 1
                            [] call[u] = "done" -> calls[u] - Pending(u)
    BY DEF EachCallPerformedOnce, TypeOK, Threads
  <2>2. CASE u = command
    <3>1. call[u] = "done" /\ Pending(u) = 1 /\ Pending(u)' = 0
      BY <1>1, <2>2, ThreadsAssumption DEF DataAlive, Pending
    <3>2. performed'[u] = performed[u] + 1
      BY <1>1, <2>2 DEF TypeOK, Threads
    <3> QED BY <1>1, <2>1, <3>1, <3>2
  <2>3. CASE u # command
    <3>1. Pending(u) = 0 /\ Pending(u)' = 0
      BY <1>1, <2>3 DEF Pending
    <3>2. performed'[u] = performed[u]
      BY <1>1, <2>3 DEF TypeOK, Threads
    <3>3. Pending(u)' = Pending(u) /\ call'[u] = call[u] /\ calls'[u] = calls[u]
      BY <1>1, <3>1
    <3> QED BY <2>1, <3>2, <3>3
  <2> QED BY <2>2, <2>3
<1> QED BY <1>3, <1>4, <1>5

LEMMA ClearCommandIInv == ASSUME IInv, ClearCommand PROVE IInv'
<1> USE DEF IInv
<1>1. /\ host = "clear" /\ host' = "loop" /\ command' = None /\ Signal(woken)
      /\ UNCHANGED <<commandEvent, call, calls, performed, runServer, quit, tray, dialog, stopAsked>>
  BY DEF ClearCommand
<1>2. /\ waiting' \in Seq(Threads) /\ woken' \in SUBSET Threads
      /\ Distinct(waiting')
      /\ woken' \cap Members(waiting') = {}
      /\ woken' \cup Members(waiting') = woken \cup Members(waiting)
      /\ waiting' # <<>> => woken' # {}
  BY <1>1, SignalKeeps1 DEF TypeOK, WaitsOnce
<1>3. TypeOK'
  BY <1>1, <1>2 DEF TypeOK, WaitsOnce, InRun
<1>4. HostBusy' /\ CommandSeen' /\ NoLostSignal' /\ DataAlive'
  BY <1>1, <1>2, NoneAssumption DEF HostBusy, CommandSeen, NoLostSignal, DataAlive, Performing, Threads
<1>5. EachCallPerformedOnce'
  <2>1. \A u \in Callers : Pending(u) = 0 /\ Pending(u)' = 0
    BY <1>1, NoneAssumption DEF Pending, Threads
  <2>2. \A u \in Callers : Pending(u)' = Pending(u) /\ call'[u] = call[u] /\ calls'[u] = calls[u] /\ performed'[u] = performed[u]
    BY <1>1, <2>1
  <2> QED BY <2>2 DEF EachCallPerformedOnce
<1> QED BY <1>3, <1>4, <1>5

(* The steps that leave the queue alone.                                   *)
LEMMA OtherIInv ==
  ASSUME IInv,
         \/ Run \/ QueryConnection \/ Stop \/ TrayStops
         \/ ResetCommandEvent \/ CheckCommand \/ JoinDialogThread
         \/ LeaveRun \/ DeleteTrayIcon \/ JoinTray \/ Destroyed
         \/ UNCHANGED vars
  PROVE  IInv'
<1> USE DEF IInv
<1>1. /\ UNCHANGED <<command, waiting, woken, call, calls, performed>>
      /\ commandEvent' \in BOOLEAN
      /\ commandEvent' = commandEvent \/ host' = "check"
      /\ host' \in {"new"} \cup InRun \cup {"left", "joinTray", "joinDialog", "gone"}
      /\ runServer' \in BOOLEAN /\ quit' \in BOOLEAN /\ stopAsked' \in BOOLEAN
      /\ tray' \in {"absent", "running", "told", "stopped"}
      /\ dialog' \in {"none", "open", "calling", "over"}
  <2> USE DEF TypeOK, sync, life, InRun
  <2>1. CASE Run
    BY <2>1 DEF Run
  <2>2. CASE QueryConnection
    BY <2>2 DEF QueryConnection
  <2>3. CASE Stop
    <3>1. (host \in InRun) \in BOOLEAN
      OBVIOUS
    <3>2. quit' \in BOOLEAN
      BY <2>3, <3>1, Zenon DEF Stop
    <3> QED BY <2>3, <3>2 DEF Stop
  <2>4. CASE TrayStops
    BY <2>4 DEF TrayStops
  <2>5. CASE ResetCommandEvent
    BY <2>5 DEF ResetCommandEvent
  <2>6. CASE CheckCommand
    BY <2>6 DEF CheckCommand
  <2>7. CASE JoinDialogThread
    BY <2>7 DEF JoinDialogThread
  <2>8. CASE LeaveRun
    BY <2>8 DEF LeaveRun
  <2>9. CASE DeleteTrayIcon
    BY <2>9 DEF DeleteTrayIcon
  <2>10. CASE JoinTray
    BY <2>10 DEF JoinTray
  <2>11. CASE Destroyed
    BY <2>11 DEF Destroyed
  <2>12. CASE UNCHANGED vars
    BY <2>12 DEF vars
  <2> QED BY <2>1, <2>2, <2>3, <2>4, <2>5, <2>6, <2>7, <2>8, <2>9, <2>10, <2>11, <2>12
<1>2. /\ host' \in Performing => command # None
      /\ host' = "join" => command = Dialog
      /\ host' \in {"join", "clear"} <=> host \in {"join", "clear"}
      /\ (command # None /\ host' \notin Performing \cup {"check"}) => host \notin Performing \cup {"check"}
  BY DEF Run, QueryConnection, Stop, TrayStops, ResetCommandEvent, CheckCommand, JoinDialogThread,
         LeaveRun, DeleteTrayIcon, JoinTray, Destroyed, vars, sync, life, HostBusy, Performing
<1>3. TypeOK'
  BY <1>1 DEF TypeOK, WaitsOnce
<1>4. HostBusy' /\ CommandSeen' /\ NoLostSignal' /\ DataAlive'
  BY <1>1, <1>2 DEF HostBusy, CommandSeen, NoLostSignal, DataAlive, Performing
<1>5. EachCallPerformedOnce'
  <2>1. \A u \in Callers : Pending(u)' = Pending(u)
    BY <1>1, <1>2 DEF Pending
  <2> QED BY <1>1, <2>1 DEF EachCallPerformedOnce
<1> QED BY <1>3, <1>4, <1>5

LEMMA NextIInv == IInv /\ [Next]_vars => IInv'
<1> SUFFICES ASSUME IInv, [Next]_vars PROVE IInv'
  OBVIOUS
<1>1. CASE \E t \in Threads : QueueCommand(t) \/ WakeForSlot(t) \/ WakeForCompletion(t)
  BY <1>1, QueueCommandIInv, WakeForSlotIInv, WakeForCompletionIInv
<1>2. CASE Perform
  BY <1>2, PerformIInv
<1>3. CASE ClearCommand
  BY <1>3, ClearCommandIInv
<1>4. CASE \/ Run \/ QueryConnection \/ Stop \/ TrayStops
           \/ ResetCommandEvent \/ CheckCommand \/ JoinDialogThread
           \/ LeaveRun \/ DeleteTrayIcon \/ JoinTray \/ Destroyed
           \/ UNCHANGED vars
  BY <1>4, OtherIInv
<1> QED BY <1>1, <1>2, <1>3, <1>4 DEF Next, HostStep

LEMMA Invariance == Spec => []IInv
  BY InitIInv, NextIInv, PTL DEF Spec

-----------------------------------------------------------------------------
(* What follows for every execution.                                       *)

(* The fields keep their types, and each thread inside a call is exactly   *)
(* once in the stack of the condition variable or on its way out of it.    *)
THEOREM QueueTyped == Spec => []TypeOK
  BY Invariance, PTL DEF IInv

(* One signal() per completion and one per return are enough: the slot is  *)
(* never free while all the threads that want it sleep.                    *)
THEOREM SignalsSuffice == Spec => []NoLostSignal
  BY Invariance, PTL DEF IInv

(* The host never sleeps over a queued command.                            *)
THEOREM HostSeesCommand == Spec => []CommandSeen
  BY Invariance, PTL DEF IInv

(* No wake-up is lost in either direction.                                 *)
THEOREM WakeupsSuffice == Spec => []NoLostWakeup
  BY SignalsSuffice, HostSeesCommand, PTL DEF NoLostWakeup

(* The data a queued command points to belongs to a call still in progress. *)
THEOREM DataOutlivesCommand == Spec => []DataAlive
  BY Invariance, PTL DEF IInv

(* A queued command changes only when the host clears it.                  *)
LEMMA StableStep ==
  IInv /\ [Next]_vars => (command # None => command' = command \/ (host = "clear" /\ command' = None))
<1> SUFFICES ASSUME IInv, [Next]_vars, command # None
             PROVE command' = command \/ (host = "clear" /\ command' = None)
  OBVIOUS
<1>1. CASE \E t \in Threads : QueueCommand(t) \/ WakeForSlot(t) \/ WakeForCompletion(t)
  <2>1. PICK t \in Threads : QueueCommand(t) \/ WakeForSlot(t) \/ WakeForCompletion(t)
    BY <1>1
  <2>2. CASE QueueCommand(t)
    BY <2>2 DEF QueueCommand, TakeSlot, WaitForSlot
  <2>3. CASE WakeForSlot(t)
    BY <2>3 DEF WakeForSlot, TakeSlot, WaitForSlot
  <2>4. CASE WakeForCompletion(t)
    BY <2>4 DEF WakeForCompletion
  <2> QED BY <2>1, <2>2, <2>3, <2>4
<1>2. CASE ClearCommand
  BY <1>2 DEF ClearCommand
<1>3. CASE \/ Run \/ QueryConnection \/ Stop \/ TrayStops
           \/ ResetCommandEvent \/ CheckCommand \/ Perform \/ JoinDialogThread
           \/ LeaveRun \/ DeleteTrayIcon \/ JoinTray \/ Destroyed
           \/ UNCHANGED vars
  BY <1>3 DEF Run, QueryConnection, Stop, TrayStops, ResetCommandEvent, CheckCommand, Perform,
         JoinDialogThread, LeaveRun, DeleteTrayIcon, JoinTray, Destroyed, vars, sync
<1> QED BY <1>1, <1>2, <1>3 DEF Next, HostStep

THEOREM UnlockedReadsStable == Spec => StableUnlocked
<1>1. IInv /\ [Next]_vars
        => [command # None => command' = command \/ (host = "clear" /\ command' = None)]_vars
  BY StableStep
<1> QED BY <1>1, Invariance, PTL DEF Spec, StableUnlocked

-----------------------------------------------------------------------------
(* The queue implements CommandService.                                    *)

(* Where a caller's command is follows from its place in queueCommand().   *)
Stage(t) ==
  IF call[t] = "idle" THEN "idle"
  ELSE IF call[t] = "done" /\ Pending(t) = 0 THEN "done" ELSE "asked"

AllStaged == \A t \in Callers : StageOf(t) = Stage(t)

LEMMA Staged == IInv => AllStaged
<1> SUFFICES ASSUME IInv, NEW t \in Callers PROVE StageOf(t) = Stage(t)
  BY DEF AllStaged
<1> USE DEF Stage
<1>1. /\ calls[t] \in Nat /\ performed[t] \in Nat /\ call[t] \in {"idle", "slot", "done"}
      /\ performed[t] = CASE call[t] = "idle" -> calls[t]
                          [] call[t] = "slot" -> calls[t] - 1
                          [] call[t] = "done" -> calls[t] - Pending(t)
  BY DEF EachCallPerformedOnce, TypeOK, Threads, IInv
<1>2. Pending(t) = 0 \/ Pending(t) = 1
  BY DEF Pending
<1>3. CASE call[t] = "idle"
  BY <1>1, <1>3 DEF StageOf
<1>4. CASE call[t] = "slot"
  BY <1>1, <1>4 DEF StageOf
<1>5. CASE call[t] = "done"
  BY <1>1, <1>2, <1>5 DEF StageOf
<1> QED BY <1>1, <1>3, <1>4, <1>5

LEMMA StagedNext == IInv' => AllStaged'
  BY Staged, PTL

stages == [t \in Callers |-> StageOf(t)]

(* Beginning a call asks; a wake-up that finds the slot taken or free does *)
(* not move the command.                                                   *)
LEMMA SlotStage ==
  ASSUME IInv, NEW t \in Threads, call[t] \in {"idle", "slot"},
         TakeSlot(t, woken \ {t}), call[t] = "slot" => t \in woken, UNCHANGED host
  PROVE  /\ \A u \in Callers \ {t} : Stage(u)' = Stage(u)
         /\ t \in Callers => Stage(t)' = "asked"
<1> USE DEF Stage
<1>1. /\ command = None => command' = t
      /\ command # None => command' = command
      /\ \A u \in Threads \ {t} : call'[u] = call[u]
      /\ command # None => call'[t] = "slot"
      /\ command = None => call'[t] = IF t = Dialog THEN "idle" ELSE "done"
  BY TakeSlotKeeps DEF IInv
<1>2. command = None => host \notin {"join", "clear"}
  BY DEF IInv, HostBusy, Performing
<1>3. ASSUME NEW u \in Callers \ {t} PROVE Stage(u)' = Stage(u)
  <2>1. (command' = u) <=> (command = u)
    BY <1>1, NoneAssumption DEF Threads
  <2>2. Pending(u)' = Pending(u)
    BY <2>1 DEF Pending
  <2> QED BY <1>1, <2>2 DEF Threads
<1>4. ASSUME t \in Callers PROVE Stage(t)' = "asked"
  <2>1. CASE command # None
    BY <1>1, <2>1
  <2>2. CASE command = None
    <3>1. call'[t] = "done" /\ command' = t /\ host' \notin {"join", "clear"}
      BY <1>1, <1>2, <1>4, <2>2, ThreadsAssumption
    <3>2. Pending(t)' = 1
      BY <3>1 DEF Pending
    <3> QED BY <3>1, <3>2
  <2> QED BY <2>1, <2>2
<1> QED BY <1>3, <1>4

(* Changing one caller's stage is an update of the abstract function.      *)
LEMMA OneStage ==
  ASSUME AllStaged, AllStaged', NEW t \in Callers, NEW v, Stage(t)' = v,
         \A u \in Callers \ {t} : Stage(u)' = Stage(u)
  PROVE  stages' = [stages EXCEPT ![t] = v] /\ stages[t] = Stage(t)
  BY DEF stages, AllStaged

LEMMA SameStages ==
  ASSUME AllStaged, AllStaged', \A u \in Callers : Stage(u)' = Stage(u)
  PROVE  stages' = stages
  BY DEF stages, AllStaged

(* Every step is a step of the service or leaves it alone.                 *)
LEMMA ServiceStep == IInv /\ IInv' /\ [Next]_vars => [Service!Next]_stages
<1> SUFFICES ASSUME IInv, IInv', [Next]_vars PROVE Service!Next \/ stages' = stages
  OBVIOUS
<1>1. AllStaged /\ AllStaged'
  BY Staged, StagedNext
<1>2. ASSUME NEW t \in Threads, QueueCommand(t) PROVE Service!Next \/ stages' = stages
  <2>1. call[t] = "idle" /\ TakeSlot(t, woken) /\ UNCHANGED host
    BY <1>2 DEF QueueCommand
  <2>2. woken \ {t} = woken
    BY <2>1 DEF IInv, TypeOK, WaitsOnce
  <2>3. /\ \A u \in Callers \ {t} : Stage(u)' = Stage(u)
        /\ t \in Callers => Stage(t)' = "asked"
    BY <2>1, <2>2, SlotStage
  <2>4. CASE t \in Callers
    <3>1. stages' = [stages EXCEPT ![t] = "asked"] /\ stages[t] = "idle"
      BY <1>1, <2>1, <2>3, <2>4, OneStage DEF Stage
    <3> QED BY <2>4, <3>1 DEF Service!Next, Service!Ask, stages
  <2>5. CASE t \notin Callers
    BY <1>1, <2>3, <2>5, SameStages
  <2> QED BY <2>4, <2>5
<1>3. ASSUME NEW t \in Threads, WakeForSlot(t) PROVE stages' = stages
  <2>1. call[t] = "slot" /\ t \in woken /\ TakeSlot(t, woken \ {t}) /\ UNCHANGED host
    BY <1>3 DEF WakeForSlot
  <2>2. /\ \A u \in Callers \ {t} : Stage(u)' = Stage(u)
        /\ t \in Callers => Stage(t)' = "asked"
    BY <2>1, SlotStage
  <2>3. t \in Callers => Stage(t) = "asked"
    BY <2>1 DEF Stage
  <2> QED BY <1>1, <2>2, <2>3, SameStages
<1>4. ASSUME NEW t \in Threads, WakeForCompletion(t) PROVE Service!Next \/ stages' = stages
  <2>1. /\ call[t] = "done" /\ UNCHANGED <<command, host>>
        /\ call' = call \/ (command = None /\ call' = [call EXCEPT ![t] = "idle"])
    BY <1>4 DEF WakeForCompletion, life
  <2>2. \A u \in Callers : Pending(u)' = Pending(u)
    BY <2>1 DEF Pending
  <2>3. CASE call' = call
    BY <1>1, <2>2, <2>3, SameStages DEF Stage
  <2>4. CASE command = None /\ call' = [call EXCEPT ![t] = "idle"]
    <3>1. call'[t] = "idle" /\ \A u \in Threads \ {t} : call'[u] = call[u]
      BY <2>4 DEF IInv, TypeOK
    <3>2. \A u \in Callers \ {t} : Stage(u)' = Stage(u)
      BY <2>2, <3>1 DEF Stage, Threads
    <3>3. CASE t \in Callers
      <4>1. Pending(t) = 0
        BY <2>4, <3>3, NoneAssumption DEF Pending, Threads
      <4>2. Stage(t) = "done" /\ Stage(t)' = "idle"
        BY <2>1, <3>1, <4>1 DEF Stage
      <4>3. stages' = [stages EXCEPT ![t] = "idle"] /\ stages[t] = "done"
        BY <1>1, <3>2, <3>3, <4>2, OneStage
      <4> QED BY <3>3, <4>3 DEF Service!Next, Service!Return, stages
    <3>4. CASE t \notin Callers
      BY <1>1, <3>2, <3>4, SameStages
    <3> QED BY <3>3, <3>4
  <2> QED BY <2>1, <2>3, <2>4
<1>5. ASSUME Perform PROVE Service!Next \/ stages' = stages
  <2>1. /\ host = "perform" /\ UNCHANGED <<command, call>>
        /\ host' = IF command = Dialog THEN "join" ELSE "clear"
    BY <1>5 DEF Perform, sync
  <2>2. \A u \in Callers : u # command => Pending(u) = 0 /\ Pending(u)' = 0
    BY <2>1 DEF Pending
  <2>3. \A u \in Callers \ {command} : Stage(u)' = Stage(u)
    BY <2>1, <2>2 DEF Stage
  <2>4. CASE command \in Callers
    <3>1. call[command] = "done" /\ Pending(command) = 1 /\ Pending(command)' = 0
      BY <2>1, <2>4 DEF IInv, DataAlive, Pending
    <3>2. Stage(command) = "asked" /\ Stage(command)' = "done"
      BY <2>1, <3>1 DEF Stage
    <3>3. PICK t \in Callers : t = command
      BY <2>4
    <3>4. Stage(t) = "asked" /\ Stage(t)' = "done"
      BY <2>1, <3>2, <3>3 DEF Stage, Pending
    <3>5. stages' = [stages EXCEPT ![t] = "done"] /\ stages[t] = "asked"
      BY <1>1, <2>3, <3>3, <3>4, OneStage
    <3> QED BY <3>3, <3>5 DEF Service!Next, Service!Do, stages
  <2>5. CASE command \notin Callers
    BY <1>1, <2>3, <2>5, SameStages
  <2> QED BY <2>4, <2>5
<1>6. ASSUME ClearCommand PROVE stages' = stages
  <2>1. host = "clear" /\ command' = None /\ call' = call
    BY <1>6 DEF ClearCommand
  <2>2. \A u \in Callers : Pending(u) = 0 /\ Pending(u)' = 0
    BY <2>1, NoneAssumption DEF Pending, Threads
  <2> QED BY <1>1, <2>1, <2>2, SameStages DEF Stage
<1>7. ASSUME \/ Run \/ QueryConnection \/ Stop \/ TrayStops
             \/ ResetCommandEvent \/ CheckCommand \/ JoinDialogThread
             \/ LeaveRun \/ DeleteTrayIcon \/ JoinTray \/ Destroyed
             \/ UNCHANGED vars
      PROVE  stages' = stages
  <2>1. UNCHANGED <<command, call>> /\ (host' \in {"join", "clear"} <=> host \in {"join", "clear"})
    BY <1>7 DEF Run, QueryConnection, Stop, TrayStops, ResetCommandEvent, CheckCommand, JoinDialogThread,
         LeaveRun, DeleteTrayIcon, JoinTray, Destroyed, vars, sync, life
  <2>2. \A u \in Callers : Pending(u)' = Pending(u)
    BY <2>1 DEF Pending
  <2> QED BY <1>1, <2>1, <2>2, SameStages DEF Stage
<1> QED BY <1>2, <1>3, <1>4, <1>5, <1>6, <1>7 DEF Next, HostStep

(* queueCommand() is the service its callers expect: asked, performed once *)
(* by the host, returned, whichever thread each signal happens to wake.    *)
THEOREM QueueImplementsService == Spec => ServesCommands
<1>1. Init => Service!Init
  <2> SUFFICES ASSUME Init PROVE Service!Init
    OBVIOUS
  <2>1. \A t \in Callers : StageOf(t) = "idle"
    BY DEF Init, StageOf, Threads
  <2> QED BY <2>1 DEF Service!Init
<1>2. IInv /\ IInv' /\ [Next]_vars => [Service!Next]_([t \in Callers |-> StageOf(t)])
  BY ServiceStep DEF stages
<1> QED BY <1>1, <1>2, Invariance, PTL DEF Spec, ServesCommands, Service!Spec
=============================================================================
