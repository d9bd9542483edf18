-------------------------- MODULE CondVarWinProofs ---------------------------
(***************************************************************************)
(* BlocksUntilSignalled of CondVarWin for any number of threads and any    *)
(* maximum count: with handles that can be waited for, Signal and          *)
(* SignalAll have at most one token under way, which only threads that     *)
(* were already waiting can take.                                          *)
(***************************************************************************)
EXTENDS CondVarWin, TLAPS

\* Zenon is the prover of the steps that name no other.
USE ZenonT(60)

Holding == {"in", "counted", "done"} \cup Signalling
Labels == Holding \cup {"out", "asleep", "awake", "relock"}

TypeOK ==
  /\ config \in Configs
  /\ mu \in Threads \cup {NULL}
  /\ waiting \in Nat /\ sem1 \in Nat /\ sem2 \in Nat
  /\ pc \in [Threads -> Labels]
  /\ i \in [Threads -> Nat]

\* The token of a signal: in sem1_, with a thread that woke up, or in sem2_.
TokenOut == sem1 > 0 \/ sem2 > 0 \/ \E t \in Threads : pc[t] = "awake"

\* Only one token is out, and only during Signal or before the handshake of
\* SignalAll; while somebody signals nobody new is waiting.
TokenInv ==
  /\ sem1 <= 1 /\ sem2 <= 1
  /\ sem1 > 0 => sem2 = 0 /\ \A t \in Threads : pc[t] # "awake"
  /\ sem2 > 0 => \A t \in Threads : pc[t] # "awake"
  /\ \A t, u \in Threads : pc[t] = "awake" /\ pc[u] = "awake" => t = u
  /\ TokenOut => \E t \in Threads : /\ pc[t] \in {"signal", "drain", "handshake"}
                                    /\ pc[t] = "drain" => waiting > 0
  /\ \A t \in Threads : pc[t] \in Signalling => InWait \subseteq owed

CondVarInv ==
  /\ TypeOK
  /\ \A t \in Threads : pc[t] \in Holding => mu = t
  /\ config.waitable => TokenInv /\ WaitBlocks

\* Every step is one thread's, or nothing happens.
LEMMA Steps ==
  ASSUME [Next]_vars
  PROVE  \/ UNCHANGED vars
         \/ \E t \in Threads : \/ Lock(t) \/ Unlock(t)
                               \/ WaitCount(t) \/ WaitUnlock(t) \/ WaitSem1(t)
                               \/ WaitHandshake(t) \/ WaitReturn(t)
                               \/ SignalNobody(t) \/ SignalOne(t) \/ SignalFinish(t)
                               \/ SignalAllBegin(t) \/ SignalAllLoop(t)
                               \/ SignalAllDrain(t) \/ SignalAllHandshake(t)
BY DEF Next, Call, WaitStep, SignalStep, Finished

\* A semaphore that is released and waited for.
LEMMA Semaphores ==
  ASSUME TypeOK, NEW s \in Nat
  PROVE  /\ Released(s) \in Nat /\ Released(s) <= s + 1
         /\ Passes(s) => Taken(s) \in Nat
         /\ config.waitable /\ Passes(s) => s > 0 /\ Taken(s) = s - 1
<1>1. config \in [waitable : BOOLEAN, signal : BOOLEAN, all : BOOLEAN,
                  max : Nat, waits : Nat, signals : Nat]
  BY CondVarAssumption DEF TypeOK
<1> QED BY SMTT(30), <1>1 DEF Released, Passes, Taken

\* The mutex is only taken when free, and only its holder gives it up.
LEMMA TypeStep ==
  ASSUME CondVarInv, [Next]_vars
  PROVE  TypeOK' /\ config' = config /\ \A t \in Threads : pc'[t] \in Holding => mu' = t
<1>0. TypeOK /\ NULL \notin Threads /\ \A u \in Threads : pc[u] \in Holding => mu = u
  BY CondVarAssumption DEF CondVarInv
<1>1. CASE UNCHANGED vars
  BY <1>0, <1>1 DEF vars, TypeOK
<1>2. ASSUME NEW t \in Threads, Lock(t) \/ WaitReturn(t)
      PROVE  TypeOK' /\ config' = config /\ \A u \in Threads : pc'[u] \in Holding => mu' = u
  BY <1>0, <1>2 DEF Lock, WaitReturn, Goto, TypeOK, Labels, Holding
<1>3. ASSUME NEW t \in Threads, Unlock(t) \/ WaitUnlock(t)
      PROVE  TypeOK' /\ config' = config /\ \A u \in Threads : pc'[u] \in Holding => mu' = u
  BY <1>0, <1>3 DEF Unlock, WaitUnlock, Goto, TypeOK, Labels, Holding, Signalling
<1>4. ASSUME NEW t \in Threads, WaitCount(t) \/ SignalNobody(t) \/ SignalAllBegin(t)
      PROVE  TypeOK' /\ config' = config /\ \A u \in Threads : pc'[u] \in Holding => mu' = u
  BY SMTT(30), <1>0, <1>4 DEF WaitCount, SignalNobody, SignalAllBegin, Goto, TypeOK, Labels, Holding, Signalling
<1>5. ASSUME NEW t \in Threads, WaitSem1(t) \/ WaitHandshake(t)
      PROVE  TypeOK' /\ config' = config /\ \A u \in Threads : pc'[u] \in Holding => mu' = u
  <2>1. sem1' \in Nat /\ sem2' \in Nat
    BY <1>0, <1>5, Semaphores DEF WaitSem1, WaitHandshake, TypeOK
  <2> QED BY <1>0, <1>5, <2>1 DEF WaitSem1, WaitHandshake, Goto, TypeOK, Labels, Holding, Signalling
<1>6. ASSUME NEW t \in Threads, SignalOne(t) \/ SignalFinish(t)
      PROVE  TypeOK' /\ config' = config /\ \A u \in Threads : pc'[u] \in Holding => mu' = u
  <2>1. sem1' \in Nat /\ sem2' \in Nat /\ waiting' \in Nat
    BY SMTT(30), <1>0, <1>6, Semaphores DEF SignalOne, SignalFinish, TypeOK
  <2> QED BY <1>0, <1>6, <2>1 DEF SignalOne, SignalFinish, Goto, TypeOK, Labels, Holding, Signalling
<1>7. ASSUME NEW t \in Threads, SignalAllLoop(t) \/ SignalAllHandshake(t)
      PROVE  TypeOK' /\ config' = config /\ \A u \in Threads : pc'[u] \in Holding => mu' = u
  <2>1. sem1' \in Nat /\ sem2' \in Nat
    BY <1>0, <1>7, Semaphores DEF SignalAllLoop, SignalAllHandshake, TypeOK
  <2> QED BY <1>0, <1>7, <2>1 DEF SignalAllLoop, SignalAllHandshake, Goto, TypeOK, Labels, Holding, Signalling
<1>8. ASSUME NEW t \in Threads, SignalAllDrain(t)
      PROVE  TypeOK' /\ config' = config /\ \A u \in Threads : pc'[u] \in Holding => mu' = u
  BY SMTT(30), <1>0, <1>8 DEF SignalAllDrain, Drained, Goto, TypeOK, Labels, Holding, Signalling
<1> QED BY <1>1, <1>2, <1>3, <1>4, <1>5, <1>6, <1>7, <1>8, Steps

\* Who holds the mutex and is not past the first half of a signal: no token.
LEMMA NoToken ==
  ASSUME CondVarInv, config.waitable, NEW t \in Threads, pc[t] \in Holding,
         pc[t] \notin {"signal", "drain", "handshake"}
  PROVE  sem1 = 0 /\ sem2 = 0 /\ \A u \in Threads : pc[u] # "awake"
<1>1. ~TokenOut
  <2>1. \A u \in Threads : pc[u] \in {"signal", "drain", "handshake"} => pc[u] \in Holding
    BY DEF Holding, Signalling
  <2> QED BY <2>1 DEF CondVarInv, TokenInv
<1> QED BY SMTT(30), <1>1 DEF TokenOut, CondVarInv, TypeOK

\* The one signaller.
LEMMA OneHolder ==
  ASSUME CondVarInv, NEW t \in Threads, NEW u \in Threads, pc[t] \in Holding, pc[u] \in Holding
  PROVE  t = u
BY DEF CondVarInv

\* A step of t that moves no token.
LEMMA TokenKept ==
  ASSUME CondVarInv, config.waitable, NEW t \in Threads, NEW label,
         pc' = [pc EXCEPT ![t] = label], UNCHANGED <<sem1, sem2>>,
         pc[t] # "awake", label # "awake",
         TokenOut => /\ pc[t] \in {"signal", "drain", "handshake"} => label \in {"signal", "handshake"}
                     /\ waiting' = waiting \/ pc[t] = "drain",
         label = "relock" => t \in owed',
         \A u \in Threads : u # t => (u \in owed => u \in owed'),
         \A u \in Threads : pc'[u] \in Signalling => InWait' \subseteq owed'
  PROVE  TokenInv' /\ WaitBlocks'
<1>0. TokenInv /\ WaitBlocks /\ pc \in [Threads -> Labels] /\ sem1 \in Nat /\ sem2 \in Nat
  BY DEF CondVarInv, TypeOK
<1>1. \A u \in Threads : pc'[u] = IF u = t THEN label ELSE pc[u]
  BY <1>0
<1>2. \A u \in Threads : pc'[u] = "awake" <=> pc[u] = "awake"
  BY <1>1
<1>3. TokenOut' => \E u \in Threads : /\ pc'[u] \in {"signal", "drain", "handshake"}
                                      /\ pc'[u] = "drain" => waiting' > 0
  <2> SUFFICES ASSUME TokenOut'
               PROVE  \E u \in Threads : /\ pc'[u] \in {"signal", "drain", "handshake"}
                                         /\ pc'[u] = "drain" => waiting' > 0
    OBVIOUS
  <2>1. TokenOut
    BY <1>2 DEF TokenOut
  <2>2. PICK u \in Threads : pc[u] \in {"signal", "drain", "handshake"} /\ (pc[u] = "drain" => waiting > 0)
    BY <1>0, <2>1 DEF TokenInv
  <2>3. CASE u = t
    <3>1. pc'[u] \in {"signal", "handshake"}
      BY <1>1, <2>1, <2>2, <2>3
    <3> QED BY <3>1
  <2>4. CASE u # t
    <3>1. pc'[u] = pc[u]
      BY <1>1, <2>4
    <3>2. CASE pc[t] = "drain"
      BY <2>2, <2>4, <3>2, OneHolder DEF Holding, Signalling
    <3> QED BY <2>1, <2>2, <3>1, <3>2
  <2> QED BY <2>3, <2>4
<1>4. TokenInv'
  <2>1. /\ sem1' <= 1 /\ sem2' <= 1
        /\ sem1' > 0 => sem2' = 0 /\ \A u \in Threads : pc'[u] # "awake"
        /\ sem2' > 0 => \A u \in Threads : pc'[u] # "awake"
        /\ \A u, v \in Threads : pc'[u] = "awake" /\ pc'[v] = "awake" => u = v
    BY <1>0, <1>2 DEF TokenInv
  <2>2. \A u \in Threads : pc'[u] \in Signalling => (InWait \subseteq owed)'
    OBVIOUS
  <2> QED BY <1>3, <2>1, <2>2 DEF TokenInv, Signalling
<1>5. WaitBlocks'
  BY <1>0, <1>1 DEF WaitBlocks
<1> QED BY <1>4, <1>5

LEMMA TokenStep ==
  ASSUME CondVarInv, config.waitable, [Next]_vars
  PROVE  TokenInv' /\ WaitBlocks'
<1>0. /\ TokenInv /\ WaitBlocks /\ pc \in [Threads -> Labels] /\ sem1 \in Nat /\ sem2 \in Nat /\ waiting \in Nat
      /\ i \in [Threads -> Nat]
  BY DEF CondVarInv, TypeOK
<1>1. CASE UNCHANGED vars
  BY <1>0, <1>1 DEF vars, TokenInv, TokenOut, InWait, WaitBlocks
\* Outside of a signal nobody signals, so nothing is said of InWait.
<1>2. ASSUME NEW t \in Threads, pc[t] \in Holding, pc[t] \notin Signalling
      PROVE  \A u \in Threads : pc[u] \notin Signalling
  BY <1>2, OneHolder DEF Holding
<1>3. ASSUME NEW t \in Threads, mu = NULL PROVE pc[t] \notin Holding
  BY <1>3, CondVarAssumption DEF CondVarInv
<1>4. ASSUME NEW t \in Threads, Lock(t) PROVE TokenInv' /\ WaitBlocks'
  <2>1. \A u \in Threads : pc'[u] \notin Signalling
    BY <1>0, <1>3, <1>4 DEF Lock, Goto, Holding, Signalling
  <2> QED BY <1>4, <2>1, TokenKept DEF Lock, Goto
<1>5. ASSUME NEW t \in Threads, Unlock(t) PROVE TokenInv' /\ WaitBlocks'
  <2>1. \A u \in Threads : pc'[u] \notin Signalling
    BY <1>0, <1>2, <1>5 DEF Unlock, Goto, Holding, Signalling
  <2> QED BY <1>5, <2>1, TokenKept DEF Unlock, Goto
<1>6. ASSUME NEW t \in Threads, WaitCount(t) PROVE TokenInv' /\ WaitBlocks'
  <2>1. \A u \in Threads : pc'[u] \notin Signalling
    BY <1>0, <1>2, <1>6 DEF WaitCount, Goto, Holding, Signalling
  <2>2. ~TokenOut
    BY SMTT(30), <1>6, NoToken DEF TokenOut, WaitCount, Holding
  <2> QED BY <1>6, <2>1, <2>2, TokenKept DEF WaitCount, Goto
<1>7. ASSUME NEW t \in Threads, WaitUnlock(t) PROVE TokenInv' /\ WaitBlocks'
  <2>1. \A u \in Threads : pc'[u] \notin Signalling
    BY <1>0, <1>2, <1>7 DEF WaitUnlock, Goto, Holding, Signalling
  <2> QED BY <1>7, <2>1, TokenKept DEF WaitUnlock, Goto
<1>8. ASSUME NEW t \in Threads, WaitSem1(t) PROVE TokenInv' /\ WaitBlocks'
  <2>1. sem1 > 0 /\ sem1' = sem1 - 1
    BY <1>8, Semaphores DEF WaitSem1, CondVarInv, TypeOK
  <2>2. sem1' = 0 /\ sem2' = 0 /\ \A u \in Threads : pc[u] # "awake"
    BY SMTT(30), <1>0, <1>8, <2>1 DEF TokenInv, WaitSem1
  <2>3. PICK s \in Threads : pc[s] \in {"signal", "drain", "handshake"} /\ (pc[s] = "drain" => waiting > 0)
    BY <1>0, <2>1 DEF TokenInv, TokenOut
  <2>4. /\ \A u \in Threads : pc'[u] = IF u = t THEN "awake" ELSE pc[u]
        /\ pc[t] = "asleep" /\ waiting' = waiting /\ owed' = owed
    BY <1>0, <1>8 DEF WaitSem1, Goto
  <2>5. InWait \subseteq owed /\ t \in InWait /\ InWait' = InWait
    BY <1>0, <2>3, <2>4 DEF TokenInv, InWait, Signalling
  <2>6. WaitBlocks'
    BY <1>0, <2>4, <2>5 DEF WaitBlocks
  <2> QED BY SMTT(30), <2>2, <2>3, <2>4, <2>5, <2>6 DEF TokenInv, TokenOut
<1>9. ASSUME NEW t \in Threads, WaitHandshake(t) PROVE TokenInv' /\ WaitBlocks'
  <2>1. sem1 = 0 /\ sem2 = 0 /\ \A u \in Threads : u # t => pc[u] # "awake"
    BY SMTT(30), <1>0, <1>9 DEF TokenInv, WaitHandshake
  <2>2. sem1' = 0 /\ sem2' \in Nat /\ sem2' <= 1
    BY SMTT(30), <1>9, <2>1, Semaphores DEF WaitHandshake, CondVarInv, TypeOK
  <2>3. PICK s \in Threads : pc[s] \in {"signal", "drain", "handshake"} /\ (pc[s] = "drain" => waiting > 0)
    BY <1>0, <1>9 DEF TokenInv, TokenOut, WaitHandshake
  <2>4. /\ \A u \in Threads : pc'[u] = IF u = t THEN "relock" ELSE pc[u]
        /\ pc[t] = "awake" /\ waiting' = waiting /\ owed' = owed
    BY <1>0, <1>9 DEF WaitHandshake, Goto
  <2>5. InWait \subseteq owed /\ t \in InWait /\ InWait' = InWait
    BY <1>0, <2>3, <2>4 DEF TokenInv, InWait, Signalling
  <2>6. WaitBlocks'
    BY <1>0, <2>4, <2>5 DEF WaitBlocks
  <2>7. \A u \in Threads : pc'[u] # "awake"
    BY <2>1, <2>4
  <2> QED BY SMTT(30), <2>2, <2>3, <2>4, <2>5, <2>6, <2>7 DEF TokenInv
<1>10. ASSUME NEW t \in Threads, WaitReturn(t) PROVE TokenInv' /\ WaitBlocks'
  <2>1. \A u \in Threads : pc'[u] \notin Signalling
    BY <1>0, <1>3, <1>10 DEF WaitReturn, Goto, Holding, Signalling
  <2> QED BY <1>10, <2>1, TokenKept DEF WaitReturn, Goto
<1>11. ASSUME NEW t \in Threads, SignalNobody(t) PROVE TokenInv' /\ WaitBlocks'
  <2>1. \A u \in Threads : pc'[u] \notin Signalling
    BY <1>0, <1>2, <1>11 DEF SignalNobody, Goto, Holding, Signalling
  <2> QED BY <1>11, <2>1, TokenKept DEF SignalNobody, Goto
<1>12. ASSUME NEW t \in Threads, SignalOne(t) PROVE TokenInv' /\ WaitBlocks'
  <2>1. sem1 = 0 /\ sem2 = 0 /\ \A u \in Threads : pc[u] # "awake"
    BY <1>12, NoToken DEF SignalOne, Holding
  <2>2. sem2' = 0 /\ sem1' \in Nat /\ sem1' <= 1
    BY SMTT(30), <1>12, <2>1, Semaphores DEF SignalOne, CondVarInv, TypeOK
  <2>3. /\ \A u \in Threads : pc'[u] = IF u = t THEN "signal" ELSE pc[u]
        /\ pc[t] = "in" /\ owed' = owed \cup InWait
    BY <1>0, <1>12 DEF SignalOne, Goto
  <2>4. InWait' = InWait
    BY <2>3 DEF InWait
  <2>5. WaitBlocks'
    BY <1>0, <2>3 DEF WaitBlocks
  <2> QED BY SMTT(30), <2>1, <2>2, <2>3, <2>4, <2>5 DEF TokenInv
<1>13. ASSUME NEW t \in Threads, SignalFinish(t) \/ SignalAllHandshake(t) PROVE TokenInv' /\ WaitBlocks'
  <2>1. sem2 > 0 /\ sem2' = sem2 - 1 /\ sem1' = sem1
    BY <1>13, Semaphores DEF SignalFinish, SignalAllHandshake, CondVarInv, TypeOK
  <2>2. sem2' = 0 /\ sem1' = 0 /\ \A u \in Threads : pc[u] # "awake"
    BY SMTT(30), <1>0, <2>1 DEF TokenInv
  <2>3. PICK label \in {"done", "drain"} : \A u \in Threads : pc'[u] = IF u = t THEN label ELSE pc[u]
    BY <1>0, <1>13 DEF SignalFinish, SignalAllHandshake, Goto
  <2>4. pc[t] \in {"signal", "handshake"} /\ owed' = owed
    BY <1>13 DEF SignalFinish, SignalAllHandshake
  <2>5. InWait \subseteq owed /\ InWait' = InWait
    BY <1>0, <2>3, <2>4 DEF TokenInv, InWait, Signalling
  <2>6. WaitBlocks'
    BY <1>0, <2>3, <2>4 DEF WaitBlocks
  <2> QED BY SMTT(30), <2>2, <2>3, <2>4, <2>5, <2>6 DEF TokenInv, TokenOut
<1>14. ASSUME NEW t \in Threads, SignalAllBegin(t) PROVE TokenInv' /\ WaitBlocks'
  <2>1. InWait' = InWait /\ owed' = owed \cup InWait
    BY <1>0, <1>14 DEF InWait, SignalAllBegin, Goto
  <2> QED BY <1>14, <2>1, TokenKept DEF SignalAllBegin, Goto
<1>15. ASSUME NEW t \in Threads, SignalAllLoop(t) PROVE TokenInv' /\ WaitBlocks'
  <2>1. sem1 = 0 /\ sem2 = 0 /\ \A u \in Threads : pc[u] # "awake"
    BY <1>15, NoToken DEF SignalAllLoop, Holding, Signalling
  <2>2. pc[t] = "all" /\ owed' = owed /\ waiting' = waiting /\ sem2' = 0
    BY <1>15, <2>1 DEF SignalAllLoop
  <2>3. PICK label \in {"done", "drain"} :
          /\ \A u \in Threads : pc'[u] = IF u = t THEN label ELSE pc[u]
          /\ label = "done" => sem1' = 0
          /\ label = "drain" => waiting > 0
    BY SMTT(30), <1>0, <1>15, <2>1 DEF SignalAllLoop, Goto
  <2>4. sem1' \in Nat /\ sem1' <= 1
    BY SMTT(30), <1>15, <2>1, Semaphores DEF SignalAllLoop, CondVarInv, TypeOK
  <2>5. InWait \subseteq owed /\ InWait' = InWait
    BY <1>0, <2>2, <2>3 DEF TokenInv, InWait, Signalling
  <2>6. WaitBlocks'
    BY <1>0, <2>2, <2>3 DEF WaitBlocks
  <2> QED BY SMTT(30), <2>1, <2>2, <2>3, <2>4, <2>5, <2>6 DEF TokenInv, TokenOut
<1>16. ASSUME NEW t \in Threads, SignalAllDrain(t) PROVE TokenInv' /\ WaitBlocks'
  <2>1. InWait' = InWait /\ owed' = owed /\ InWait \subseteq owed
    BY <1>0, <1>16 DEF InWait, SignalAllDrain, Goto, TokenInv, Signalling
  <2>2. CASE waiting > 0
    BY SMTT(30), <1>0, <1>16, <2>1, <2>2, TokenKept DEF SignalAllDrain, Goto
  <2>3. CASE waiting = 0
    <3>1. ~TokenOut
      <4>1. \A u \in Threads : pc[u] \in {"signal", "drain", "handshake"} => u = t
        BY <1>16, OneHolder DEF SignalAllDrain, Holding, Signalling
      <4>2. pc[t] = "drain"
        BY <1>16 DEF SignalAllDrain
      <4> QED BY SMTT(30), <1>0, <2>3, <4>1, <4>2 DEF TokenInv
    <3> QED BY <1>0, <1>16, <2>1, <2>3, <3>1, TokenKept DEF SignalAllDrain, Goto
  <2> QED BY SMTT(30), <1>0, <2>2, <2>3
<1> QED BY <1>1, <1>4, <1>5, <1>6, <1>7, <1>8, <1>9, <1>10, <1>11, <1>12, <1>13, <1>14, <1>15, <1>16, Steps

LEMMA CondVarInvariance == Spec => []CondVarInv
<1>1. ASSUME Init PROVE CondVarInv
  <2>1. TypeOK
    BY <1>1 DEF Init, TypeOK, Labels
  <2>2. \A t \in Threads : pc[t] = "out"
    BY <1>1 DEF Init
  <2> QED BY SMTT(30), <1>1, <2>1, <2>2 DEF Init, CondVarInv, TokenInv, TokenOut, WaitBlocks, Holding, Signalling
<1>2. CondVarInv /\ [Next]_vars => CondVarInv'
  <2> SUFFICES ASSUME CondVarInv, [Next]_vars PROVE CondVarInv'
    OBVIOUS
  <2>1. TypeOK' /\ config' = config /\ \A t \in Threads : pc'[t] \in Holding => mu' = t
    BY TypeStep
  <2>2. config.waitable => TokenInv' /\ WaitBlocks'
    BY TokenStep
  <2> QED BY <2>1, <2>2 DEF CondVarInv
<1> QED BY <1>1, <1>2, PTL DEF Spec

\* With semaphore handles that can be waited for, nobody returns from Wait before
\* a Signal or SignalAll that began after it: any number of threads, calls of both
\* kinds, and any maximum count of the semaphores.
THEOREM WaitsBlock == Spec => []BlocksUntilSignalled
<1>1. CondVarInv => BlocksUntilSignalled
  BY DEF CondVarInv, BlocksUntilSignalled
<1> QED BY <1>1, CondVarInvariance, PTL
=============================================================================
