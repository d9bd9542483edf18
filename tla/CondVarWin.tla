----------------------------- MODULE CondVarWin -----------------------------
(***************************************************************************)
(* port::CondVar of port/port_win.cc: a condition variable made of a       *)
(* counter and two semaphores, used by threads that share *mu_.  DBImpl    *)
(* uses one per queued Writer (one waiter, Signal) and bg_cv_ (any number  *)
(* of waiters, SignalAll); every caller holds *mu_.                        *)
(***************************************************************************)
EXTENDS Naturals, FiniteSets

CONSTANTS
  Threads,
  NULL,        \* nobody holds the mutex
  Configs      \* possible values of config

\* waitable: do the handles of sem1_ and sem2_ carry the SYNCHRONIZE right?
\* signal and all: which of Signal and SignalAll the users call; max is
\* lMaximumCount of CreateSemaphoreEx; waits and signals bound the calls.
ASSUME CondVarAssumption ==
  /\ NULL \notin Threads
  /\ Configs \subseteq [waitable : BOOLEAN, signal : BOOLEAN, all : BOOLEAN,
                        max : Nat, waits : Nat, signals : Nat]

VARIABLES
  config,        \* the one of Configs
  mu, waitMtx,   \* holders of *mu_ and wait_mtx_
  waiting,       \* waiting_
  sem1, sem2,    \* semaphore counts
  pc,            \* where each thread is
  i,             \* per thread: the loop counter of SignalAll
  owed,          \* history: who was in Wait when a Signal or SignalAll began
  waits, signals \* calls left

vars == <<config, mu, waitMtx, waiting, sem1, sem2, pc, i, owed, waits, signals>>

Init ==
  /\ config \in Configs
  /\ mu = NULL /\ waitMtx = NULL
  /\ waiting = 0 /\ sem1 = 0 /\ sem2 = 0
  /\ pc = [t \in Threads |-> "out"]
  /\ i = [t \in Threads |-> 0]
  /\ owed = {}
  /\ waits = config.waits /\ signals = config.signals
-----------------------------------------------------------------------------
Goto(t, label) == pc' = [pc EXCEPT ![t] = label]

\* A variant of Released: two tokens.
ReleasedTwice(s) == s + 2

\* ReleaseSemaphore(s, 1, NULL) fails, unnoticed, at the maximum count.
Released(s) == IF s < config.max THEN s + 1 ELSE s

\* WaitForSingleObjectEx(s, INFINITE, FALSE), whose result nobody looks at:
\* it blocks while the count is zero, or fails at once without SYNCHRONIZE.
Passes(s) == config.waitable => s > 0
Taken(s) == IF config.waitable THEN s - 1 ELSE s

\* mu_->Lock() by a thread about to call Wait, Signal or SignalAll.
Lock(t) ==
  /\ pc[t] = "out" /\ mu = NULL
  /\ waits > 0 \/ signals > 0
  /\ mu' = t /\ Goto(t, "in")
  /\ UNCHANGED <<config, waitMtx, waiting, sem1, sem2, i, owed, waits, signals>>

Unlock(t) ==
  /\ pc[t] = "done"
  /\ mu' = NULL /\ Goto(t, "out")
  /\ UNCHANGED <<config, waitMtx, waiting, sem1, sem2, i, owed, waits, signals>>
-----------------------------------------------------------------------------
(***************************************************************************)
(* Wait.                                                                   *)
(***************************************************************************)
WaitCount(t) ==
  /\ pc[t] = "in" /\ waits > 0 /\ waitMtx = NULL
  /\ waits' = waits - 1
  /\ waiting' = waiting + 1
  /\ Goto(t, "counted")
  /\ UNCHANGED <<config, mu, waitMtx, sem1, sem2, i, owed, signals>>

WaitUnlock(t) ==
  /\ pc[t] = "counted"
  /\ mu' = NULL /\ Goto(t, "asleep")
  /\ UNCHANGED <<config, waitMtx, waiting, sem1, sem2, i, owed, waits, signals>>

WaitSem1(t) ==
  /\ pc[t] = "asleep" /\ Passes(sem1)
  /\ sem1' = Taken(sem1)
  /\ Goto(t, "awake")
  /\ UNCHANGED <<config, mu, waitMtx, waiting, sem2, i, owed, waits, signals>>

WaitHandshake(t) ==
  /\ pc[t] = "awake"
  /\ sem2' = Released(sem2)
  /\ Goto(t, "relock")
  /\ UNCHANGED <<config, mu, waitMtx, waiting, sem1, i, owed, waits, signals>>

WaitReturn(t) ==
  /\ pc[t] = "relock" /\ mu = NULL
  /\ mu' = t /\ Goto(t, "done")
  /\ owed' = owed \ {t}
  /\ UNCHANGED <<config, waitMtx, waiting, sem1, sem2, i, waits, signals>>
-----------------------------------------------------------------------------
(***************************************************************************)
(* Signal and SignalAll: wait_mtx_ is held throughout.                     *)
(***************************************************************************)
InWait == {t \in Threads : pc[t] \in {"counted", "asleep", "awake", "relock"}}

SignalNobody(t) ==
  /\ pc[t] = "in" /\ config.signal /\ signals > 0 /\ waitMtx = NULL /\ waiting = 0
  /\ signals' = signals - 1
  /\ Goto(t, "done")
  /\ UNCHANGED <<config, mu, waitMtx, waiting, sem1, sem2, i, owed, waits>>

SignalOne(t) ==
  /\ pc[t] = "in" /\ config.signal /\ signals > 0 /\ waitMtx = NULL /\ waiting > 0
  /\ signals' = signals - 1
  /\ waitMtx' = t
  /\ waiting' = waiting - 1
  /\ sem1' = Released(sem1)
  /\ owed' = owed \cup InWait
  /\ Goto(t, "signal")
  /\ UNCHANGED <<config, mu, sem2, i, waits>>

SignalFinish(t) ==
  /\ pc[t] = "signal" /\ Passes(sem2)
  /\ sem2' = Taken(sem2)
  /\ waitMtx' = NULL /\ Goto(t, "done")
  /\ UNCHANGED <<config, mu, waiting, sem1, i, owed, waits, signals>>

SignalAllBegin(t) ==
  /\ pc[t] = "in" /\ config.all /\ signals > 0 /\ waitMtx = NULL
  /\ signals' = signals - 1
  /\ waitMtx' = t
  /\ i' = [i EXCEPT ![t] = 0]
  /\ owed' = owed \cup InWait
  /\ Goto(t, "all")
  /\ UNCHANGED <<config, mu, waiting, sem1, sem2, waits>>

\* The condition of the for loop, and its first statement.
SignalAllLoop(t) ==
  /\ pc[t] = "all"
  /\ IF i[t] < waiting
     THEN sem1' = Released(sem1) /\ Goto(t, "drain") /\ UNCHANGED waitMtx
     ELSE waitMtx' = NULL /\ Goto(t, "done") /\ UNCHANGED sem1
  /\ UNCHANGED <<config, mu, waiting, sem2, i, owed, waits, signals>>

\* A variant of Drained without the decrement.
NotDrained == waiting

\* --waiting_ in the inner loop of SignalAll.
Drained == waiting - 1

\* while (waiting_ > 0) { --waiting_; wait for sem2_ }, then ++i
SignalAllDrain(t) ==
  /\ pc[t] = "drain"
  /\ \/ /\ waiting > 0
        /\ waiting' = Drained
        /\ Goto(t, "handshake")
        /\ UNCHANGED i
     \/ /\ waiting = 0
        /\ i' = [i EXCEPT ![t] = @ + 1]
        /\ Goto(t, "all")
        /\ UNCHANGED waiting
  /\ UNCHANGED <<config, mu, waitMtx, sem1, sem2, owed, waits, signals>>

SignalAllHandshake(t) ==
  /\ pc[t] = "handshake" /\ Passes(sem2)
  /\ sem2' = Taken(sem2)
  /\ Goto(t, "drain")
  /\ UNCHANGED <<config, mu, waitMtx, waiting, sem1, i, owed, waits, signals>>
-----------------------------------------------------------------------------
WaitStep(t) ==
  WaitUnlock(t) \/ WaitSem1(t) \/ WaitHandshake(t) \/ WaitReturn(t) \/ Unlock(t)
SignalStep(t) ==
  SignalFinish(t) \/ SignalAllLoop(t) \/ SignalAllDrain(t) \/ SignalAllHandshake(t)
Call(t) == WaitCount(t) \/ SignalNobody(t) \/ SignalOne(t) \/ SignalAllBegin(t)

\* Every call has been made and has returned.
Finished == /\ \A t \in Threads : pc[t] = "out"
            /\ waits = 0 /\ signals = 0
            /\ UNCHANGED vars

Next ==
  \/ \E t \in Threads : Lock(t) \/ Call(t) \/ WaitStep(t) \/ SignalStep(t)
  \/ Finished

Spec == Init /\ [][Next]_vars

\* A thread that has locked *mu_ makes its call, and goes on inside it when it
\* can; nobody is obliged to lock *mu_.
FairSpec ==
  Spec /\ \A t \in Threads : WF_vars(Call(t) \/ WaitStep(t) \/ SignalStep(t))
-----------------------------------------------------------------------------
(***************************************************************************)
(* Properties.                                                             *)
(***************************************************************************)
Signalling == {"signal", "all", "drain", "handshake"}

\* CondVar::Wait as port_example.h describes it: "block on this condition
\* variable until either a call to SignalAll(), or a call to Signal() that picks
\* this thread to wakeup".
WaitBlocks ==
  \A t \in Threads : pc[t] \in {"awake", "relock"} => t \in owed

\* With handles that can be waited for, Wait and Signal are a condition variable:
\* nobody returns from Wait before a signal that came after it.
BlocksUntilSignalled == config.waitable => WaitBlocks

\* Signal and SignalAll return: their callers hold DBImpl::mutex_ meanwhile.
SignalReturns == \A t \in Threads : pc[t] \in Signalling ~> pc[t] = "done"

=============================================================================
