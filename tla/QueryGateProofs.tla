-------------------------- MODULE QueryGateProofs --------------------------
(* The query gate keeps warm-ups and queries apart, admits a query only when *)
(* its caches are built, and strands no ticket, for any number of callers,   *)
(* cache parts and limits, and without a bound on calls or failures.         *)
EXTENDS QueryGate, FiniteSetTheorems, TLAPS

Places == Inside \cup {"idle", "active", "error"}
Active == {q \in Callers : pc[q] = "active"}

\* The counter counts the admitted queries.
Counted == active_query_count = Cardinality(Active)

\* Whoever is in the locked part of the loop holds the mutex, and nobody else.
MutexOwner ==
    \A q \in Callers : pc[q] \in {"loop", "turn_test", "turn_sleep"} <=> mutex = q

\* warmup_inflight is set for as long as anyone is in a warm-up.
InflightCovers ==
    \A q \in Callers : pc[q] \in Warming =>
        /\ warmup_inflight
        /\ active_query_count = 0
        /\ \A r \in Callers : pc[r] \in Warming => r = q

\* A caller that asks for no warm-up has what it needs: parts stay built.
NeedKnown ==
    \A q \in Callers : pc[q] \in Inside /\ ~warmup_pending[q] => required[q] \subseteq ready

\* A ticket is held by one caller, inside the gate, and was drawn before now.
TicketsHeld ==
    /\ \A q \in Callers : ticket[q] # 0 => pc[q] \in Inside /\ ticket[q] < next_ticket
    /\ \A q, r \in Callers : ticket[q] # 0 /\ ticket[q] = ticket[r] => q = r
    /\ \A i \in 1..Len(wait_queue) : wait_queue[i] < next_ticket

GateInv == TypeOK /\ Counted /\ MutexOwner /\ InflightCovers /\ NeedKnown /\ ReadyWhenActive
QueueInv == TicketsHeld /\ QueueIsLive

-----------------------------------------------------------------------------
\* The set of admitted queries is finite.
LEMMA ActiveFinite == IsFiniteSet(Active)
<1>1. IsFiniteSet(Callers)
  BY GateAssumption
<1>2. Active \in SUBSET Callers
  BY DEF Active
<1> QED BY <1>1, <1>2, FS_Subset

\* Admitting a query adds one to the count.
LEMMA ActiveAdmit ==
    ASSUME NEW q \in Callers, pc \in [Callers -> Places], pc[q] # "active",
           pc' = [pc EXCEPT ![q] = "active"]
    PROVE  Cardinality(Active') = Cardinality(Active) + 1
<1>1. Active' = Active \cup {q} /\ q \notin Active
  BY DEF Active
<1> QED BY <1>1, ActiveFinite, FS_AddElement

\* A query that leaves takes one from it, and there was one to take.
LEMMA ActiveLeave ==
    ASSUME NEW q \in Callers, pc \in [Callers -> Places], pc[q] = "active",
           pc' = [pc EXCEPT ![q] = "idle"]
    PROVE  /\ Cardinality(Active') = Cardinality(Active) - 1
           /\ Cardinality(Active) \in Nat \ {0}
<1>1. Active' = Active \ {q} /\ q \in Active
  BY DEF Active
<1>2. Cardinality(Active) \in Nat
  BY ActiveFinite, FS_CardinalityType
<1>3. Cardinality(Active) # 0
  BY <1>1, ActiveFinite, FS_EmptySet
<1> QED BY <1>1, <1>2, <1>3, ActiveFinite, FS_RemoveElement

\* Every other move of a caller leaves it alone.
LEMMA ActiveSame ==
    ASSUME NEW q \in Callers, NEW v, pc \in [Callers -> Places],
           pc[q] # "active", v # "active", pc' = [pc EXCEPT ![q] = v]
    PROVE  Active' = Active
BY DEF Active

\* Nobody is active exactly when the count is zero.
LEMMA NoneActive ==
    ASSUME Counted, active_query_count = 0
    PROVE  \A q \in Callers : pc[q] # "active"
<1>1. Active = {}
  BY ActiveFinite, FS_EmptySet DEF Counted
<1> QED BY <1>1 DEF Active

\* Dropping a ticket from the queue leaves a queue of tickets.
LEMMA WithoutType ==
    ASSUME NEW t, wait_queue \in Seq(Nat \ {0})
    PROVE  Without(t) \in Seq(Nat \ {0})
<1>1. CASE \E i \in 1..Len(wait_queue) : wait_queue[i] = t
  <2> DEFINE at == CHOOSE i \in 1..Len(wait_queue) : wait_queue[i] = t
  <2>1. at \in 1..Len(wait_queue)
    BY <1>1
  <2>2. Without(t) = [i \in 1..(Len(wait_queue) - 1) |->
                         wait_queue[IF i < at THEN i ELSE i + 1]]
    BY <1>1 DEF Without
  <2> HIDE DEF at
  <2> QED BY <2>1, <2>2
<1>2. CASE ~ \E i \in 1..Len(wait_queue) : wait_queue[i] = t
  BY <1>2 DEF Without
<1> QED BY <1>1, <1>2

-----------------------------------------------------------------------------
(* The gate invariant, action by action. *)

\* The invariant holds when the session is created.
LEMMA InitGate == Init => GateInv
<1> SUFFICES ASSUME Init PROVE GateInv
  OBVIOUS
<1>1. Active = {}
  BY DEF Init, Active
<1>2. Counted
  BY <1>1, FS_EmptySet DEF Init, Counted
<1>3. pc \in [Callers -> Inside \cup {"idle", "active", "error"}]
  BY DEF Init
<1>4. wait_queue \in Seq(Nat \ {0})
  BY DEF Init
<1>5. /\ mutex \in Callers \cup {NoCaller}
      /\ active_query_count \in Nat /\ next_ticket \in Nat \ {0}
      /\ max_concurrent_queries \in Nat
      /\ calls \in Nat /\ changes \in Nat /\ shortages \in Nat
      /\ pending_warmup_flags \subseteq Flags /\ ready \subseteq Flags /\ failed \subseteq Flags
  BY DEF Init
<1>6. /\ warmup_inflight \in BOOLEAN /\ setter \in BOOLEAN
      /\ asleep \in [Callers -> BOOLEAN] /\ warmup_pending \in [Callers -> BOOLEAN]
  BY DEF Init
<1>7. required \in [Callers -> SUBSET Flags] /\ local \in [Callers -> SUBSET Flags]
  BY DEF Init
<1>8. ticket \in [Callers -> Nat] /\ seen \in [Callers -> Nat]
  BY DEF Init
<1>9. TypeOK
  BY <1>3, <1>4, <1>5, <1>6, <1>7, <1>8 DEF TypeOK
<1> QED BY <1>2, <1>9, GateAssumption
        DEF Init, GateInv, MutexOwner, InflightCovers, NeedKnown, ReadyWhenActive, Inside,
            Waits, Warming

\* Every step keeps it.
LEMMA NextGate == GateInv /\ [Next]_vars => GateInv'
<1> SUFFICES ASSUME GateInv, [Next]_vars PROVE GateInv'
  OBVIOUS
<1> USE GateAssumption, BrokenAssumption DEF GateInv
<1>0. pc \in [Callers -> Places]
  BY DEF TypeOK, Places
<1>1. ASSUME NEW q \in Callers, NEW flags \in Needs, Enter(q, flags) PROVE GateInv'
  <2>1. Active' = Active
    BY <1>0, <1>1, ActiveSame DEF Enter
  <2>2. Counted'
    BY <1>1, <2>1 DEF Enter, Counted
  <2>3. TypeOK'
    BY <1>1 DEF Enter, RefreshAndTrack, NeedWarmUp, queue, cache, TypeOK, Inside
  <2>4. MutexOwner'
    BY <1>1 DEF Enter, TypeOK, MutexOwner
  <2>5. InflightCovers'
    BY <1>1 DEF Enter, InflightCovers, Warming
  <2>6. NeedKnown' /\ ReadyWhenActive'
    BY <1>1 DEF Enter, RefreshAndTrack, NeedWarmUp, cache, TypeOK, NeedKnown,
       ReadyWhenActive
  <2> QED BY <2>2, <2>3, <2>4, <2>5, <2>6
<1>2. ASSUME NEW q \in Callers, WaitForWarmUp(q) PROVE GateInv'
  <2>1. Active' = Active
    BY <1>0, <1>2, ActiveSame DEF WaitForWarmUp, InLoop, Sleep
  <2>2. Counted'
    BY <1>2, <2>1 DEF WaitForWarmUp, gate, Counted
  <2>3. TypeOK'
    BY <1>2 DEF WaitForWarmUp, Sleep, gate, queue, cache, bounds, TypeOK, Inside, Waits
  <2>4. MutexOwner'
    BY <1>2 DEF WaitForWarmUp, InLoop, Sleep, TypeOK, MutexOwner
  <2>5. InflightCovers'
    BY <1>2 DEF WaitForWarmUp, Sleep, gate, InflightCovers, Warming
  <2>6. NeedKnown' /\ ReadyWhenActive'
    BY <1>2 DEF WaitForWarmUp, InLoop, Sleep, cache, TypeOK, NeedKnown, ReadyWhenActive
  <2> QED BY <2>2, <2>3, <2>4, <2>5, <2>6
<1>3. ASSUME NEW q \in Callers, StartWarmUp(q) PROVE GateInv'
  <2>1. Active' = Active
    BY <1>0, <1>3, ActiveSame DEF StartWarmUp, InLoop
  <2>2. Counted'
    BY <1>3, <2>1 DEF StartWarmUp, Counted
  <2>3. TypeOK'
    BY <1>3 DEF StartWarmUp, queue, cache, bounds, TypeOK, Inside
  <2>4. MutexOwner'
    BY <1>3 DEF StartWarmUp, InLoop, TypeOK, MutexOwner
  <2>5. InflightCovers'
    BY <1>3 DEF StartWarmUp, InflightCovers
  <2>6. NeedKnown' /\ ReadyWhenActive'
    BY <1>3 DEF StartWarmUp, InLoop, cache, TypeOK, NeedKnown, ReadyWhenActive
  <2> QED BY <2>2, <2>3, <2>4, <2>5, <2>6
<1>4. ASSUME NEW q \in Callers, WaitForDrain(q) PROVE GateInv'
  <2>1. Active' = Active
    BY <1>0, <1>4, ActiveSame DEF WaitForDrain, InLoop, Sleep
  <2>2. Counted'
    BY <1>4, <2>1 DEF WaitForDrain, gate, Counted
  <2>3. TypeOK'
    BY <1>4 DEF WaitForDrain, Sleep, gate, queue, cache, bounds, TypeOK, Inside, Waits
  <2>4. MutexOwner'
    BY <1>4 DEF WaitForDrain, InLoop, Sleep, TypeOK, MutexOwner
  <2>5. InflightCovers'
    BY <1>4 DEF WaitForDrain, Sleep, InflightCovers, Warming
  <2>6. NeedKnown' /\ ReadyWhenActive'
    BY <1>4 DEF WaitForDrain, InLoop, Sleep, cache, TypeOK, NeedKnown, ReadyWhenActive
  <2> QED BY <2>2, <2>3, <2>4, <2>5, <2>6
<1>5. ASSUME NEW q \in Callers, AskAgain(q) PROVE GateInv'
  <2>1. Active' = Active
    BY <1>5 DEF AskAgain, Active
  <2>2. Counted'
    BY <1>5, <2>1 DEF AskAgain, Counted
  <2>3. TypeOK'
    BY <1>5 DEF AskAgain, queue, cache, bounds, TypeOK
  <2>4. MutexOwner'
    BY <1>5 DEF AskAgain, MutexOwner
  <2>5. InflightCovers'
    BY <1>5 DEF AskAgain, InflightCovers
  <2>6. NeedKnown' /\ ReadyWhenActive'
    BY <1>5 DEF AskAgain, cache, NeedKnown, ReadyWhenActive
  <2> QED BY <2>2, <2>3, <2>4, <2>5, <2>6
<1>6. ASSUME NEW q \in Callers, AdmitUnlimited(q) PROVE GateInv'
  <2>1. active_query_count' = Cardinality(Active')
    BY <1>0, <1>6, ActiveAdmit, ActiveFinite, FS_CardinalityType DEF AdmitUnlimited,
       MayBeAdmitted, InLoop, Counted
  <2>2. Counted'
    BY <2>1 DEF Counted
  <2>3. TypeOK'
    <3>1. Without(ticket[q]) \in Seq(Nat \ {0})
      BY WithoutType DEF TypeOK
    <3>2. asleep' \in [Callers -> BOOLEAN]
      BY <1>6 DEF AdmitUnlimited, NotifyAll, TypeOK
    <3>3. pc' \in [Callers -> Inside \cup {"idle", "active", "error"}]
      BY <1>6 DEF AdmitUnlimited, TypeOK
    <3> QED
      BY <1>6, <3>1, <3>2, <3>3 DEF AdmitUnlimited, cache, bounds, TypeOK
  <2>4. MutexOwner'
    BY <1>6 DEF AdmitUnlimited, MayBeAdmitted, InLoop, TypeOK, MutexOwner
  <2>5. InflightCovers'
    BY <1>6 DEF AdmitUnlimited, MayBeAdmitted, InflightCovers, Warming
  <2>6. NeedKnown' /\ ReadyWhenActive'
    BY <1>6 DEF AdmitUnlimited, MayBeAdmitted, InLoop, cache, TypeOK, NeedKnown,
       ReadyWhenActive
  <2> QED BY <2>2, <2>3, <2>4, <2>5, <2>6
<1>7. ASSUME NEW q \in Callers, AdmitAtOnce(q) PROVE GateInv'
  <2>1. active_query_count' = Cardinality(Active')
    BY <1>0, <1>7, ActiveAdmit, ActiveFinite, FS_CardinalityType DEF AdmitAtOnce,
       MayBeAdmitted, InLoop, Counted
  <2>2. Counted'
    BY <2>1 DEF Counted
  <2>3. TypeOK'
    BY <1>7 DEF AdmitAtOnce, queue, cache, bounds, TypeOK
  <2>4. MutexOwner'
    BY <1>7 DEF AdmitAtOnce, MayBeAdmitted, InLoop, TypeOK, MutexOwner
  <2>5. InflightCovers'
    BY <1>7 DEF AdmitAtOnce, MayBeAdmitted, InflightCovers, Warming
  <2>6. NeedKnown' /\ ReadyWhenActive'
    BY <1>7 DEF AdmitAtOnce, MayBeAdmitted, InLoop, cache, TypeOK, NeedKnown,
       ReadyWhenActive
  <2> QED BY <2>2, <2>3, <2>4, <2>5, <2>6
<1>8. ASSUME NEW q \in Callers, AdmitTicket(q) PROVE GateInv'
  <2>1. active_query_count' = Cardinality(Active')
    BY <1>0, <1>8, ActiveAdmit, ActiveFinite, FS_CardinalityType DEF AdmitTicket,
       MayBeAdmitted, InLoop, Counted
  <2>2. Counted'
    BY <2>1 DEF Counted
  <2>3. TypeOK'
    BY <1>8 DEF AdmitTicket, NotifyAll, IsTicketTurn, cache, bounds, TypeOK
  <2>4. MutexOwner'
    BY <1>8 DEF AdmitTicket, MayBeAdmitted, InLoop, TypeOK, MutexOwner
  <2>5. InflightCovers'
    BY <1>8 DEF AdmitTicket, MayBeAdmitted, InflightCovers, Warming
  <2>6. NeedKnown' /\ ReadyWhenActive'
    BY <1>8 DEF AdmitTicket, MayBeAdmitted, InLoop, cache, TypeOK, NeedKnown,
       ReadyWhenActive
  <2> QED BY <2>2, <2>3, <2>4, <2>5, <2>6
<1>9. ASSUME NEW q \in Callers, TakeTicket(q) PROVE GateInv'
  <2>1. Active' = Active
    BY <1>0, <1>9, ActiveSame DEF TakeTicket, MayBeAdmitted, InLoop
  <2>2. Counted'
    BY <1>9, <2>1 DEF TakeTicket, gate, Counted
  <2>3. TypeOK'
    <3>1. wait_queue' \in Seq(Nat \ {0})
      <4>1. wait_queue \in Seq(Nat \ {0}) /\ next_ticket \in Nat \ {0}
        BY DEF TypeOK
      <4>2. Append(wait_queue, next_ticket) \in Seq(Nat \ {0})
        BY <4>1
      <4>3. wait_queue' = Append(wait_queue, next_ticket) \/ wait_queue' = wait_queue
        BY <1>9 DEF TakeTicket
      <4> QED BY <4>1, <4>2, <4>3
    <3>2. ticket' \in [Callers -> Nat] /\ next_ticket' \in Nat \ {0}
      BY <1>9 DEF TakeTicket, TypeOK
    <3>3. pc' \in [Callers -> Inside \cup {"idle", "active", "error"}]
      BY <1>9 DEF TakeTicket, TypeOK, Inside
    <3>4. seen' \in [Callers -> Nat]
      BY <1>9 DEF TakeTicket, TypeOK
    <3> QED
      BY <1>9, <3>1, <3>2, <3>3, <3>4 DEF TakeTicket, gate, cache, bounds, TypeOK
  <2>4. MutexOwner'
    BY <1>9 DEF TakeTicket, MayBeAdmitted, InLoop, MutexOwner
  <2>5. InflightCovers'
    BY <1>9 DEF TakeTicket, MayBeAdmitted, InflightCovers, Warming
  <2>6. NeedKnown' /\ ReadyWhenActive'
    BY <1>9 DEF TakeTicket, MayBeAdmitted, InLoop, cache, TypeOK, NeedKnown, ReadyWhenActive
  <2> QED BY <2>2, <2>3, <2>4, <2>5, <2>6
<1>10. ASSUME NEW q \in Callers, TestTurn(q) PROVE GateInv'
  <2>1. Active' = Active
    BY <1>0, <1>10, ActiveSame DEF TestTurn
  <2>2. Counted'
    BY <1>10, <2>1 DEF TestTurn, gate, Counted
  <2>3. TypeOK'
    BY <1>10 DEF TestTurn, gate, queue, cache, bounds, TypeOK, Inside
  <2>4. MutexOwner'
    BY <1>10 DEF TestTurn, MutexOwner
  <2>5. InflightCovers'
    BY <1>10 DEF TestTurn, gate, InflightCovers, Warming
  <2>6. NeedKnown' /\ ReadyWhenActive'
    BY <1>10 DEF TestTurn, cache, TypeOK, NeedKnown, ReadyWhenActive
  <2> QED BY <2>2, <2>3, <2>4, <2>5, <2>6
<1>11. ASSUME NEW q \in Callers, SleepForTurn(q) PROVE GateInv'
  <2>1. Active' = Active
    BY <1>0, <1>11, ActiveSame DEF SleepForTurn, Sleep
  <2>2. Counted'
    BY <1>11, <2>1 DEF SleepForTurn, gate, Counted
  <2>3. TypeOK'
    BY <1>11 DEF SleepForTurn, Sleep, gate, queue, cache, bounds, TypeOK, Inside, Waits
  <2>4. MutexOwner'
    BY <1>11 DEF SleepForTurn, Sleep, TypeOK, MutexOwner
  <2>5. InflightCovers'
    BY <1>11 DEF SleepForTurn, Sleep, gate, InflightCovers, Warming
  <2>6. NeedKnown' /\ ReadyWhenActive'
    BY <1>11 DEF SleepForTurn, Sleep, cache, TypeOK, NeedKnown, ReadyWhenActive
  <2> QED BY <2>2, <2>3, <2>4, <2>5, <2>6
<1>12. ASSUME NEW q \in Callers, WakeAfterWarmUp(q) PROVE GateInv'
  <2>1. Active' = Active
    BY <1>0, <1>12 DEF WakeAfterWarmUp, Woken, Sleep, Active
  <2>2. Counted'
    BY <1>12, <2>1 DEF WakeAfterWarmUp, Counted
  <2>3. TypeOK'
    BY <1>12 DEF WakeAfterWarmUp, Woken, Sleep, RefreshAndTrack, NeedWarmUp, queue,
       cache, bounds, TypeOK, Inside
  <2>4. MutexOwner'
    BY <1>12 DEF WakeAfterWarmUp, Woken, Sleep, TypeOK, MutexOwner
  <2>5. InflightCovers'
    BY <1>12 DEF WakeAfterWarmUp, Sleep, TypeOK, InflightCovers, Warming
  <2>6. NeedKnown' /\ ReadyWhenActive'
    BY <1>12 DEF WakeAfterWarmUp, Woken, Sleep, RefreshAndTrack, NeedWarmUp, cache,
       TypeOK, NeedKnown, ReadyWhenActive
  <2> QED BY <2>2, <2>3, <2>4, <2>5, <2>6
<1>13. ASSUME NEW q \in Callers, WakeAfterDrain(q) PROVE GateInv'
  <2>1. Active' = Active
    BY <1>0, <1>13 DEF WakeAfterDrain, Woken, Sleep, Active
  <2>2. Counted'
    BY <1>13, <2>1 DEF WakeAfterDrain, Counted
  <2>3. TypeOK'
    BY <1>13 DEF WakeAfterDrain, Woken, Sleep, RefreshAndTrack, NeedWarmUp, queue, cache,
       bounds, TypeOK, Inside
  <2>4. MutexOwner'
    BY <1>13 DEF WakeAfterDrain, Woken, Sleep, TypeOK, MutexOwner
  <2>5. InflightCovers'
    BY <1>13 DEF WakeAfterDrain, Sleep, TypeOK, InflightCovers, Warming
  <2>6. NeedKnown' /\ ReadyWhenActive'
    <3>1. CASE ~warmup_inflight /\ active_query_count # 0
      BY <1>13, <3>1 DEF WakeAfterDrain, Woken, Sleep, cache, TypeOK, NeedKnown,
         ReadyWhenActive, Inside, Waits
    <3>2. CASE ~(~warmup_inflight /\ active_query_count # 0)
      BY <1>13, <3>2 DEF WakeAfterDrain, Woken, RefreshAndTrack, NeedWarmUp, cache, TypeOK,
         NeedKnown, ReadyWhenActive, Inside, Waits
    <3> QED BY <3>1, <3>2
  <2> QED BY <2>2, <2>3, <2>4, <2>5, <2>6
<1>14. ASSUME NEW q \in Callers, WakeForTurn(q) PROVE GateInv'
  <2>1. Active' = Active
    BY <1>0, <1>14, ActiveSame DEF WakeForTurn, Woken
  <2>2. Counted'
    BY <1>14, <2>1 DEF WakeForTurn, gate, Counted
  <2>3. TypeOK'
    BY <1>14 DEF WakeForTurn, gate, queue, cache, bounds, TypeOK, Inside
  <2>4. MutexOwner'
    BY <1>14 DEF WakeForTurn, Woken, TypeOK, MutexOwner
  <2>5. InflightCovers'
    BY <1>14 DEF WakeForTurn, gate, InflightCovers, Warming
  <2>6. NeedKnown' /\ ReadyWhenActive'
    BY <1>14 DEF WakeForTurn, Woken, cache, TypeOK, NeedKnown, ReadyWhenActive
  <2> QED BY <2>2, <2>3, <2>4, <2>5, <2>6
<1>15. ASSUME NEW q \in Callers, WarmUpProgress(q) PROVE GateInv'
  <2>1. Active' = Active
    BY <1>15 DEF WarmUpProgress, Active
  <2>2. Counted'
    BY <1>15, <2>1 DEF WarmUpProgress, gate, Counted
  <2>3. TypeOK'
    BY <1>15 DEF WarmUpProgress, gate, queue, bounds, TypeOK
  <2>4. MutexOwner'
    BY <1>15 DEF WarmUpProgress, MutexOwner
  <2>5. InflightCovers'
    BY <1>15 DEF WarmUpProgress, gate, InflightCovers
  <2>6. NeedKnown' /\ ReadyWhenActive'
    BY <1>15 DEF WarmUpProgress, NeedKnown, ReadyWhenActive
  <2> QED BY <2>2, <2>3, <2>4, <2>5, <2>6
<1>16. ASSUME NEW q \in Callers, InitDexCache(q) PROVE GateInv'
  <2>1. Active' = Active
    BY <1>0, <1>16, ActiveSame DEF InitDexCache
  <2>2. Counted'
    BY <1>16, <2>1 DEF InitDexCache, gate, Counted
  <2>3. TypeOK'
    BY <1>16 DEF InitDexCache, gate, queue, cache, bounds, TypeOK, Inside
  <2>4. MutexOwner'
    BY <1>16 DEF InitDexCache, MutexOwner
  <2>5. InflightCovers'
    BY <1>16 DEF InitDexCache, gate, InflightCovers, Warming
  <2>6. NeedKnown' /\ ReadyWhenActive'
    BY <1>16 DEF InitDexCache, cache, TypeOK, NeedKnown, ReadyWhenActive
  <2> QED BY <2>2, <2>3, <2>4, <2>5, <2>6
<1>17. ASSUME NEW q \in Callers, EndWarmUp(q) PROVE GateInv'
  <2>1. Active' = Active
    BY <1>0, <1>17, ActiveSame DEF EndWarmUp
  <2>2. Counted'
    BY <1>17, <2>1 DEF EndWarmUp, Counted
  <2>3. TypeOK'
    BY <1>17 DEF EndWarmUp, NotifyAll, RefreshAndTrack, NeedWarmUp, queue, cache, bounds,
       TypeOK, Inside
  <2>4. MutexOwner'
    BY <1>17 DEF EndWarmUp, TypeOK, MutexOwner
  <2>5. InflightCovers'
    BY <1>17 DEF EndWarmUp, TypeOK, InflightCovers, Warming
  <2>6. NeedKnown' /\ ReadyWhenActive'
    BY <1>17 DEF EndWarmUp, RefreshAndTrack, NeedWarmUp, cache, TypeOK, NeedKnown,
       ReadyWhenActive
  <2> QED BY <2>2, <2>3, <2>4, <2>5, <2>6
<1>18. ASSUME NEW q \in Callers, FailWarmUp(q) PROVE GateInv'
  <2>1. Active' = Active
    BY <1>0, <1>18, ActiveSame DEF FailWarmUp
  <2>2. Counted'
    BY <1>18, <2>1 DEF FailWarmUp, Counted
  <2>3. TypeOK'
    BY WithoutType, <1>18 DEF FailWarmUp, NotifyAll, cache, bounds, TypeOK
  <2>4. MutexOwner'
    BY <1>18 DEF FailWarmUp, MutexOwner
  <2>5. InflightCovers'
    BY <1>18 DEF FailWarmUp, TypeOK, InflightCovers, Warming
  <2>6. NeedKnown' /\ ReadyWhenActive'
    BY <1>18 DEF FailWarmUp, cache, TypeOK, NeedKnown, ReadyWhenActive
  <2> QED BY <2>2, <2>3, <2>4, <2>5, <2>6
<1>19. ASSUME NEW q \in Callers, InitDexCacheShortage(q) PROVE GateInv'
  <2>1. Active' = Active
    BY <1>0, <1>19, ActiveSame DEF InitDexCacheShortage
  <2>2. Counted'
    BY <1>19, <2>1 DEF InitDexCacheShortage, gate, Counted
  <2>3. TypeOK'
    BY <1>19 DEF InitDexCacheShortage, gate, queue, cache, TypeOK, Inside
  <2>4. MutexOwner'
    BY <1>19 DEF InitDexCacheShortage, MutexOwner
  <2>5. InflightCovers'
    BY <1>19 DEF InitDexCacheShortage, gate, InflightCovers, Warming
  <2>6. NeedKnown' /\ ReadyWhenActive'
    BY <1>19 DEF InitDexCacheShortage, cache, TypeOK, NeedKnown, ReadyWhenActive
  <2> QED BY <2>2, <2>3, <2>4, <2>5, <2>6
<1>20. ASSUME NEW q \in Callers, LeaveQueryExecution(q) PROVE GateInv'
  <2>1. active_query_count' = Cardinality(Active')
    BY <1>0, <1>20, ActiveLeave, ActiveFinite,
       FS_CardinalityType DEF LeaveQueryExecution, Counted
  <2>2. Counted'
    BY <2>1 DEF Counted
  <2>3. TypeOK'
    <3>1. Cardinality(Active) \in Nat \ {0}
      BY <1>0, <1>20, ActiveLeave DEF LeaveQueryExecution
    <3>2. active_query_count' \in Nat
      BY <1>20, <3>1 DEF LeaveQueryExecution, Counted
    <3> QED
      BY <1>20, <3>2 DEF LeaveQueryExecution, NotifyAll, queue, cache, bounds, TypeOK
  <2>4. MutexOwner'
    BY <1>20 DEF LeaveQueryExecution, MutexOwner
  <2>5. InflightCovers'
    <3>1. active_query_count # 0
      BY <1>20, NoneActive DEF LeaveQueryExecution
    <3> QED
      BY <1>20, <3>1 DEF LeaveQueryExecution, InflightCovers, Warming
  <2>6. NeedKnown' /\ ReadyWhenActive'
    BY <1>20 DEF LeaveQueryExecution, cache, NeedKnown, ReadyWhenActive
  <2> QED BY <2>2, <2>3, <2>4, <2>5, <2>6
<1>21. ASSUME NEW q \in Callers, Report(q) PROVE GateInv'
  <2>1. Active' = Active
    BY <1>0, <1>21, ActiveSame DEF Report
  <2>2. Counted'
    BY <1>21, <2>1 DEF Report, gate, Counted
  <2>3. TypeOK'
    BY <1>21 DEF Report, gate, queue, cache, bounds, TypeOK
  <2>4. MutexOwner'
    BY <1>21 DEF Report, MutexOwner
  <2>5. InflightCovers'
    BY <1>21 DEF Report, gate, InflightCovers, Warming
  <2>6. NeedKnown' /\ ReadyWhenActive'
    BY <1>21 DEF Report, cache, NeedKnown, ReadyWhenActive, Inside, Waits
  <2> QED BY <2>2, <2>3, <2>4, <2>5, <2>6
<1>22. ASSUME NEW limit \in Limits, SetMaxConcurrentQueries(limit) PROVE GateInv'
  <2>1. Active' = Active
    BY <1>22 DEF SetMaxConcurrentQueries, Active
  <2>2. Counted'
    BY <1>22, <2>1 DEF SetMaxConcurrentQueries, gate, Counted
  <2>3. TypeOK'
    BY <1>22 DEF SetMaxConcurrentQueries, gate, queue, cache, TypeOK
  <2>4. MutexOwner'
    BY <1>22 DEF SetMaxConcurrentQueries, MutexOwner
  <2>5. InflightCovers'
    BY <1>22 DEF SetMaxConcurrentQueries, gate, InflightCovers
  <2>6. NeedKnown' /\ ReadyWhenActive'
    BY <1>22 DEF SetMaxConcurrentQueries, cache, NeedKnown, ReadyWhenActive
  <2> QED BY <2>2, <2>3, <2>4, <2>5, <2>6
<1>23. ASSUME NotifyLimit PROVE GateInv'
  <2>1. Active' = Active
    BY <1>23 DEF NotifyLimit, Active
  <2>2. Counted'
    BY <1>23, <2>1 DEF NotifyLimit, gate, Counted
  <2>3. TypeOK'
    BY <1>23 DEF NotifyLimit, NotifyAll, gate, queue, cache, bounds, TypeOK
  <2>4. MutexOwner'
    BY <1>23 DEF NotifyLimit, MutexOwner
  <2>5. InflightCovers'
    BY <1>23 DEF NotifyLimit, gate, InflightCovers
  <2>6. NeedKnown' /\ ReadyWhenActive'
    BY <1>23 DEF NotifyLimit, cache, NeedKnown, ReadyWhenActive
  <2> QED BY <2>2, <2>3, <2>4, <2>5, <2>6
<1>24. CASE UNCHANGED vars
  <2>1. Active' = Active
    BY <1>24 DEF vars, Active
  <2> QED
    BY <1>24, <2>1 DEF vars, gate, queue, cache, bounds, TypeOK, Counted, MutexOwner,
       InflightCovers, NeedKnown,
       ReadyWhenActive
<1> QED
  BY <1>1, <1>2, <1>3, <1>4, <1>5, <1>6, <1>7, <1>8, <1>9, <1>10, <1>11, <1>12, <1>13,
     <1>14, <1>15, <1>16, <1>17, <1>18, <1>19, <1>20, <1>21, <1>22, <1>23,
     <1>24 DEF Next, Step

-----------------------------------------------------------------------------
(* The admission queue. *)

\* A strictly increasing queue of tickets.
Sorted(s) == \A i, j \in 1..Len(s) : i < j => s[i] < s[j]

\* "after" is "before" without the ticket t.
Dropped(before, after, t) ==
    /\ \A i \in 1..Len(after) :
          /\ after[i] # t
          /\ \E j \in 1..Len(before) : after[i] = before[j]
    /\ Sorted(after)
    /\ \A j \in 1..Len(before) :
          before[j] # t => \E i \in 1..Len(after) : after[i] = before[j]

\* Erasing the element at one position of a sorted queue drops that ticket only.
LEMMA EraseDrops ==
    ASSUME NEW s \in Seq(Nat \ {0}), Sorted(s), NEW k \in 1..Len(s),
           NEW r \in Seq(Nat \ {0}), Len(r) = Len(s) - 1,
           \A i \in 1..Len(r) : IF i < k THEN r[i] = s[i] ELSE r[i] = s[i + 1]
    PROVE  Dropped(s, r, s[k])
<1>1. Len(s) \in Nat /\ Len(r) = Len(s) - 1
  OBVIOUS
<1>2. \A i \in 1..Len(r) : IF i < k THEN r[i] = s[i] ELSE r[i] = s[i + 1]
  OBVIOUS
<1>3. \A i \in 1..Len(r) : r[i] # s[k] /\ \E j \in 1..Len(s) : r[i] = s[j]
  <2> SUFFICES ASSUME NEW i \in 1..Len(r)
               PROVE  r[i] # s[k] /\ \E j \in 1..Len(s) : r[i] = s[j]
    OBVIOUS
  <2>1. CASE i < k
    <3>1. i \in 1..Len(s) /\ r[i] = s[i]
      BY <1>1, <1>2, <2>1
    <3>2. s[i] < s[k] /\ s[i] \in Nat /\ s[k] \in Nat
      BY <2>1, <3>1 DEF Sorted
    <3> QED BY <3>1, <3>2
  <2>2. CASE ~(i < k)
    <3>1. i + 1 \in 1..Len(s) /\ k < i + 1
      BY <1>1, <2>2
    <3>2. r[i] = s[i + 1]
      BY <1>2, <2>2
    <3>3. s[k] < s[i + 1] /\ s[k] \in Nat /\ s[i + 1] \in Nat
      BY <3>1 DEF Sorted
    <3> QED BY <3>1, <3>2, <3>3
  <2> QED BY <2>1, <2>2
<1>4. Sorted(r)
  <2> SUFFICES ASSUME NEW i \in 1..Len(r), NEW j \in 1..Len(r), i < j PROVE r[i] < r[j]
    BY DEF Sorted
  <2> DEFINE a == IF i < k THEN i ELSE i + 1
  <2> DEFINE b == IF j < k THEN j ELSE j + 1
  <2>1. a \in 1..Len(s) /\ b \in 1..Len(s) /\ a < b
    BY <1>1
  <2>2. r[i] = s[a] /\ r[j] = s[b]
    BY <1>2
  <2> HIDE DEF a, b
  <2> QED BY <2>1, <2>2 DEF Sorted
<1>5. \A j \in 1..Len(s) : s[j] # s[k] => \E i \in 1..Len(r) : r[i] = s[j]
  <2> SUFFICES ASSUME NEW j \in 1..Len(s), s[j] # s[k]
               PROVE  \E i \in 1..Len(r) : r[i] = s[j]
    OBVIOUS
  <2>1. CASE j < k
    <3>1. j \in 1..Len(r) /\ r[j] = s[j]
      BY <1>1, <1>2, <2>1
    <3> QED BY <3>1
  <2>2. CASE ~(j < k)
    <3>1. j > k
      BY <2>2
    <3>2. j - 1 \in 1..Len(r) /\ ~(j - 1 < k) /\ (j - 1) + 1 = j
      BY <1>1, <3>1
    <3>3. r[j - 1] = s[j]
      BY <1>2, <3>2
    <3> QED BY <3>2, <3>3
  <2> QED BY <2>1, <2>2
<1> QED BY <1>3, <1>4, <1>5 DEF Dropped

\* find and erase drop the ticket, wherever it is, and nothing if it is absent.
LEMMA WithoutDrops ==
    ASSUME NEW t, wait_queue \in Seq(Nat \ {0}), Sorted(wait_queue)
    PROVE  Dropped(wait_queue, Without(t), t)
<1>1. CASE \E i \in 1..Len(wait_queue) : wait_queue[i] = t
  <2> DEFINE at == CHOOSE i \in 1..Len(wait_queue) : wait_queue[i] = t
  <2>1. at \in 1..Len(wait_queue) /\ wait_queue[at] = t
    BY <1>1
  <2>2. Without(t) = [i \in 1..(Len(wait_queue) - 1) |->
                         wait_queue[IF i < at THEN i ELSE i + 1]]
    BY <1>1 DEF Without
  <2> HIDE DEF at
  <2>3. /\ Without(t) \in Seq(Nat \ {0}) /\ Len(Without(t)) = Len(wait_queue) - 1
        /\ \A i \in 1..Len(Without(t)) :
              IF i < at THEN Without(t)[i] = wait_queue[i]
                        ELSE Without(t)[i] = wait_queue[i + 1]
    BY <2>1, <2>2, WithoutType
  <2> QED BY <2>1, <2>3, EraseDrops
<1>2. CASE ~ \E i \in 1..Len(wait_queue) : wait_queue[i] = t
  BY <1>2 DEF Without, Dropped
<1> QED BY <1>1, <1>2

\* pop_front drops the first ticket.
LEMMA TailDrops ==
    ASSUME wait_queue \in Seq(Nat \ {0}), Sorted(wait_queue), wait_queue # <<>>
    PROVE  Dropped(wait_queue, Tail(wait_queue), Head(wait_queue))
<1>1. 1 \in 1..Len(wait_queue) /\ Head(wait_queue) = wait_queue[1]
  OBVIOUS
<1>2. Tail(wait_queue) \in Seq(Nat \ {0}) /\ Len(Tail(wait_queue)) = Len(wait_queue) - 1
  OBVIOUS
<1>3. \A i \in 1..Len(Tail(wait_queue)) :
         IF i < 1 THEN Tail(wait_queue)[i] = wait_queue[i]
                  ELSE Tail(wait_queue)[i] = wait_queue[i + 1]
  BY <1>2
<1> QED BY <1>1, <1>2, <1>3, EraseDrops

\* A caller that gives its ticket back leaves the queue of the others in order.
LEMMA GiveBack ==
    ASSUME TypeOK, QueueInv, NEW q \in Callers, NEW v, Sorted(wait_queue),
           Dropped(wait_queue, wait_queue', ticket[q]),
           ticket' = [ticket EXCEPT ![q] = 0], next_ticket' = next_ticket,
           pc' = [pc EXCEPT ![q] = v]
    PROVE  QueueInv'
<1>0. /\ ticket \in [Callers -> Nat] /\ pc \in [Callers -> Places]
      /\ wait_queue \in Seq(Nat \ {0}) /\ next_ticket \in Nat
  BY DEF TypeOK, Places
<1>1. \A r \in Callers : ticket'[r] # 0 =>
         r # q /\ ticket'[r] = ticket[r] /\ pc'[r] = pc[r]
  BY <1>0
<1>2. \A i \in 1..Len(wait_queue') : wait_queue'[i] < next_ticket'
  BY DEF Dropped, QueueInv, TicketsHeld
<1>3. TicketsHeld'
  BY <1>0, <1>1, <1>2 DEF QueueInv, TicketsHeld
<1>4. ASSUME NEW i \in 1..Len(wait_queue')
      PROVE  \E r \in Callers : pc'[r] \in Inside /\ ticket'[r] = wait_queue'[i]
  <2>1. wait_queue'[i] # ticket[q]
    BY <1>4 DEF Dropped
  <2>2. PICK j \in 1..Len(wait_queue) : wait_queue'[i] = wait_queue[j]
    BY <1>4 DEF Dropped
  <2>3. PICK r \in Callers : pc[r] \in Inside /\ ticket[r] = wait_queue[j]
    BY <2>2 DEF QueueInv, QueueIsLive
  <2>4. r # q
    BY <2>1, <2>2, <2>3
  <2>5. pc'[r] \in Inside /\ ticket'[r] = wait_queue'[i]
    BY <1>0, <2>2, <2>3, <2>4
  <2> QED BY <2>5
<1>5. ASSUME NEW r \in Callers, ticket'[r] # 0
      PROVE  \E i \in 1..Len(wait_queue') : wait_queue'[i] = ticket'[r]
  <2>1. r # q /\ ticket'[r] = ticket[r] /\ ticket[r] # 0
    BY <1>1, <1>5
  <2>2. ticket[r] # ticket[q]
    BY <2>1 DEF QueueInv, TicketsHeld
  <2>3. PICK j \in 1..Len(wait_queue) : wait_queue[j] = ticket[r]
    BY <2>1 DEF QueueInv, QueueIsLive
  <2> QED BY <2>1, <2>2, <2>3 DEF Dropped
<1>6. Sorted(wait_queue')
  BY DEF Dropped
<1> QED BY <1>3, <1>4, <1>5, <1>6 DEF QueueInv, QueueIsLive, Sorted, Inside, Waits

\* A step that leaves the queue alone keeps it, unless a ticket holder walks out.
LEMMA QueueSame ==
    ASSUME TypeOK, QueueInv, UNCHANGED queue,
           \A r \in Callers : ticket[r] # 0 => pc'[r] \in Inside
    PROVE  QueueInv'
<1>1. UNCHANGED <<wait_queue, next_ticket, ticket>>
  BY DEF queue
<1>2. TicketsHeld'
  BY <1>1 DEF QueueInv, TicketsHeld, Inside, Waits
<1>3. ASSUME NEW i \in 1..Len(wait_queue)
      PROVE  \E r \in Callers : pc'[r] \in Inside /\ ticket[r] = wait_queue[i]
  <2>1. PICK r \in Callers : pc[r] \in Inside /\ ticket[r] = wait_queue[i]
    BY <1>3 DEF QueueInv, QueueIsLive
  <2>2. ticket[r] # 0
    BY <2>1 DEF TypeOK
  <2> QED BY <2>1, <2>2
<1> QED BY <1>1, <1>2, <1>3 DEF QueueInv, QueueIsLive, Inside, Waits

\* The queue is empty when the session is created.
LEMMA InitQueue == Init => QueueInv
BY DEF Init, QueueInv, TicketsHeld, QueueIsLive

\* A ticket that is drawn goes to the end of the queue.
LEMMA DrawTicket ==
    ASSUME TypeOK, QueueInv, NEW q \in Callers, ticket[q] = 0,
           wait_queue' = Append(wait_queue, next_ticket),
           ticket' = [ticket EXCEPT ![q] = next_ticket],
           next_ticket' = next_ticket + 1,
           pc' = [pc EXCEPT ![q] = "turn_test"]
    PROVE  QueueInv'
<1> DEFINE n == Len(wait_queue)
<1>0. /\ ticket \in [Callers -> Nat] /\ pc \in [Callers -> Places]
      /\ wait_queue \in Seq(Nat \ {0}) /\ next_ticket \in Nat \ {0}
  BY DEF TypeOK, Places
<1>1. /\ n \in Nat /\ Len(wait_queue') = n + 1 /\ wait_queue'[n + 1] = next_ticket
      /\ \A i \in 1..n : wait_queue'[i] = wait_queue[i] /\ wait_queue[i] \in Nat
  BY <1>0
<1> HIDE DEF n
<1>2. \A i \in 1..(n + 1) : i \in 1..n \/ i = n + 1
  BY <1>1
<1>3. \A i \in 1..n : wait_queue[i] < next_ticket
  BY DEF QueueInv, TicketsHeld, n
<1>4. \A r \in Callers : ticket[r] # 0 => ticket[r] < next_ticket
  BY DEF QueueInv, TicketsHeld
<1>5. \A r \in Callers : pc'[r] \in Inside \/ ticket'[r] = 0
  BY <1>0 DEF QueueInv, TicketsHeld, Inside
<1>6. /\ ticket'[q] = next_ticket
      /\ \A r \in Callers \ {q} : ticket'[r] = ticket[r] /\ pc'[r] = pc[r]
  BY <1>0
<1>7. \A r \in Callers : ticket'[r] # 0 => pc'[r] \in Inside /\ ticket'[r] < next_ticket'
  BY <1>0, <1>4, <1>5, <1>6
<1>8. \A a, b \in Callers : ticket'[a] # 0 /\ ticket'[a] = ticket'[b] => a = b
  BY <1>0, <1>4, <1>6 DEF QueueInv, TicketsHeld
<1>9. \A i \in 1..Len(wait_queue') : wait_queue'[i] < next_ticket'
  BY <1>0, <1>1, <1>2, <1>3
<1>10. TicketsHeld'
  BY <1>7, <1>8, <1>9 DEF TicketsHeld, Inside, Waits
<1>11. ASSUME NEW i \in 1..Len(wait_queue')
       PROVE  \E r \in Callers : pc'[r] \in Inside /\ ticket'[r] = wait_queue'[i]
  <2>1. CASE i \in 1..n
    <3>1. PICK r \in Callers : pc[r] \in Inside /\ ticket[r] = wait_queue[i]
      BY <2>1 DEF QueueInv, QueueIsLive, n
    <3>2. r # q
      BY <1>0, <2>1, <3>1 DEF n
    <3> QED BY <1>1, <1>6, <2>1, <3>1, <3>2
  <2>2. CASE i = n + 1
    BY <1>0, <1>1, <1>5, <1>6, <2>2
  <2> QED BY <1>1, <1>2, <1>11, <2>1, <2>2
<1>12. ASSUME NEW i \in 1..Len(wait_queue'), NEW j \in 1..Len(wait_queue'), i < j
       PROVE  wait_queue'[i] < wait_queue'[j]
  <2>1. CASE j \in 1..n
    <3>1. i \in 1..n
      BY <1>1, <1>12, <2>1
    <3> QED BY <1>1, <1>12, <2>1, <3>1 DEF QueueInv, QueueIsLive, n
  <2>2. CASE j = n + 1
    <3>1. i \in 1..n
      BY <1>1, <1>12, <2>2
    <3> QED BY <1>1, <1>3, <2>2, <3>1
  <2> QED BY <1>1, <1>2, <1>12, <2>1, <2>2
<1>13. ASSUME NEW r \in Callers, ticket'[r] # 0
       PROVE  \E i \in 1..Len(wait_queue') : wait_queue'[i] = ticket'[r]
  <2>1. CASE r = q
    BY <1>1, <1>6, <2>1
  <2>2. CASE r # q
    <3>1. PICK i \in 1..n : wait_queue[i] = ticket[r]
      BY <1>6, <1>13, <2>2 DEF QueueInv, QueueIsLive, n
    <3>2. i \in 1..Len(wait_queue')
      BY <1>1, <3>1
    <3> QED BY <1>1, <1>6, <2>2, <3>1, <3>2
  <2> QED BY <2>1, <2>2
<1> QED BY <1>10, <1>11, <1>12, <1>13 DEF QueueInv, QueueIsLive, Inside, Waits

\* Every step keeps the queue invariant.
LEMMA NextQueue == GateInv /\ QueueInv /\ [Next]_vars => QueueInv'
<1> SUFFICES ASSUME GateInv, QueueInv, [Next]_vars PROVE QueueInv'
  OBVIOUS
<1> USE DEF GateInv
<1>0. pc \in [Callers -> Places] /\ ticket \in [Callers -> Nat]
  BY DEF TypeOK, Places
<1>a. Sorted(wait_queue) /\ wait_queue \in Seq(Nat \ {0})
  BY DEF QueueInv, QueueIsLive, Sorted, TypeOK
<1>b. \A r \in Callers : ticket[r] # 0 => pc[r] \in Inside
  BY DEF QueueInv, TicketsHeld
<1>1. ASSUME NEW q \in Callers, NEW flags \in Needs, Enter(q, flags) PROVE QueueInv'
  <2>1. UNCHANGED queue
    BY <1>1 DEF Enter
  <2>2. \A r \in Callers : ticket[r] # 0 => pc'[r] \in Inside
    BY <1>0, <1>b, <1>1 DEF Enter, Inside, Waits
  <2> QED BY <2>1, <2>2, QueueSame
<1>2. ASSUME NEW q \in Callers, WaitForWarmUp(q) PROVE QueueInv'
  <2>1. UNCHANGED queue
    BY <1>2 DEF WaitForWarmUp
  <2>2. \A r \in Callers : ticket[r] # 0 => pc'[r] \in Inside
    BY <1>0, <1>b, <1>2 DEF WaitForWarmUp, Sleep, Inside, Waits
  <2> QED BY <2>1, <2>2, QueueSame
<1>3. ASSUME NEW q \in Callers, StartWarmUp(q) PROVE QueueInv'
  <2>1. UNCHANGED queue
    BY <1>3 DEF StartWarmUp
  <2>2. \A r \in Callers : ticket[r] # 0 => pc'[r] \in Inside
    BY <1>0, <1>b, <1>3 DEF StartWarmUp, Inside, Waits
  <2> QED BY <2>1, <2>2, QueueSame
<1>4. ASSUME NEW q \in Callers, WaitForDrain(q) PROVE QueueInv'
  <2>1. UNCHANGED queue
    BY <1>4 DEF WaitForDrain
  <2>2. \A r \in Callers : ticket[r] # 0 => pc'[r] \in Inside
    BY <1>0, <1>b, <1>4 DEF WaitForDrain, Sleep, Inside, Waits
  <2> QED BY <2>1, <2>2, QueueSame
<1>5. ASSUME NEW q \in Callers, AskAgain(q) PROVE QueueInv'
  <2>1. UNCHANGED queue
    BY <1>5 DEF AskAgain
  <2>2. \A r \in Callers : ticket[r] # 0 => pc'[r] \in Inside
    BY <1>0, <1>b, <1>5 DEF AskAgain, Inside, Waits
  <2> QED BY <2>1, <2>2, QueueSame
<1>6. ASSUME NEW q \in Callers, AdmitUnlimited(q) PROVE QueueInv'
  <2>1. Dropped(wait_queue, wait_queue', ticket[q])
    BY <1>a, <1>6, WithoutDrops DEF AdmitUnlimited
  <2> QED BY <1>a, <1>6, <2>1, GiveBack DEF AdmitUnlimited
<1>7. ASSUME NEW q \in Callers, AdmitAtOnce(q) PROVE QueueInv'
  <2>1. UNCHANGED queue
    BY <1>7 DEF AdmitAtOnce
  <2>2. \A r \in Callers : ticket[r] # 0 => pc'[r] \in Inside
    BY <1>0, <1>b, <1>7 DEF AdmitAtOnce, Inside, Waits
  <2> QED BY <2>1, <2>2, QueueSame
<1>8. ASSUME NEW q \in Callers, AdmitTicket(q) PROVE QueueInv'
  <2>1. wait_queue # <<>> /\ Head(wait_queue) = ticket[q] /\ wait_queue' = Tail(wait_queue)
    BY <1>8 DEF AdmitTicket, IsTicketTurn
  <2>2. Dropped(wait_queue, wait_queue', ticket[q])
    BY <1>a, <2>1, TailDrops
  <2> QED BY <1>a, <1>8, <2>2, GiveBack DEF AdmitTicket
<1>9. ASSUME NEW q \in Callers, TakeTicket(q) PROVE QueueInv'
  <2>1. CASE ticket[q] = 0
    BY <1>9, <2>1, DrawTicket DEF TakeTicket
  <2>2. CASE ticket[q] # 0
    <3>1. UNCHANGED queue
      BY <1>0, <1>9, <2>2 DEF TakeTicket, queue
    <3>2. \A r \in Callers : ticket[r] # 0 => pc'[r] \in Inside
      BY <1>0, <1>b, <1>9 DEF TakeTicket, Inside
    <3> QED BY <3>1, <3>2, QueueSame
  <2> QED BY <2>1, <2>2
<1>10. ASSUME NEW q \in Callers, TestTurn(q) PROVE QueueInv'
  <2>1. UNCHANGED queue
    BY <1>10 DEF TestTurn
  <2>2. \A r \in Callers : ticket[r] # 0 => pc'[r] \in Inside
    BY <1>0, <1>b, <1>10 DEF TestTurn, Inside, Waits
  <2> QED BY <2>1, <2>2, QueueSame
<1>11. ASSUME NEW q \in Callers, SleepForTurn(q) PROVE QueueInv'
  <2>1. UNCHANGED queue
    BY <1>11 DEF SleepForTurn
  <2>2. \A r \in Callers : ticket[r] # 0 => pc'[r] \in Inside
    BY <1>0, <1>b, <1>11 DEF SleepForTurn, Sleep, Inside, Waits
  <2> QED BY <2>1, <2>2, QueueSame
<1>12. ASSUME NEW q \in Callers, WakeAfterWarmUp(q) PROVE QueueInv'
  <2>1. UNCHANGED queue
    BY <1>12 DEF WakeAfterWarmUp
  <2>2. \A r \in Callers : ticket[r] # 0 => pc'[r] \in Inside
    BY <1>0, <1>b, <1>12 DEF WakeAfterWarmUp, Sleep, Inside, Waits
  <2> QED BY <2>1, <2>2, QueueSame
<1>13. ASSUME NEW q \in Callers, WakeAfterDrain(q) PROVE QueueInv'
  <2>1. UNCHANGED queue
    BY <1>13 DEF WakeAfterDrain
  <2>2. \A r \in Callers : ticket[r] # 0 => pc'[r] \in Inside
    BY <1>0, <1>b, <1>13 DEF WakeAfterDrain, Sleep, Inside, Waits
  <2> QED BY <2>1, <2>2, QueueSame
<1>14. ASSUME NEW q \in Callers, WakeForTurn(q) PROVE QueueInv'
  <2>1. UNCHANGED queue
    BY <1>14 DEF WakeForTurn
  <2>2. \A r \in Callers : ticket[r] # 0 => pc'[r] \in Inside
    BY <1>0, <1>b, <1>14 DEF WakeForTurn, Inside, Waits
  <2> QED BY <2>1, <2>2, QueueSame
<1>15. ASSUME NEW q \in Callers, WarmUpProgress(q) PROVE QueueInv'
  <2>1. UNCHANGED queue
    BY <1>15 DEF WarmUpProgress
  <2>2. \A r \in Callers : ticket[r] # 0 => pc'[r] \in Inside
    BY <1>0, <1>b, <1>15 DEF WarmUpProgress, Inside, Waits
  <2> QED BY <2>1, <2>2, QueueSame
<1>16. ASSUME NEW q \in Callers, InitDexCache(q) PROVE QueueInv'
  <2>1. UNCHANGED queue
    BY <1>16 DEF InitDexCache
  <2>2. \A r \in Callers : ticket[r] # 0 => pc'[r] \in Inside
    BY <1>0, <1>b, <1>16 DEF InitDexCache, Inside, Waits
  <2> QED BY <2>1, <2>2, QueueSame
<1>17. ASSUME NEW q \in Callers, EndWarmUp(q) PROVE QueueInv'
  <2>1. UNCHANGED queue
    BY <1>17 DEF EndWarmUp
  <2>2. \A r \in Callers : ticket[r] # 0 => pc'[r] \in Inside
    BY <1>0, <1>b, <1>17 DEF EndWarmUp, Inside, Waits
  <2> QED BY <2>1, <2>2, QueueSame
<1>18. ASSUME NEW q \in Callers, FailWarmUp(q) PROVE QueueInv'
  <2>1. Dropped(wait_queue, wait_queue', ticket[q])
    BY <1>a, <1>18, WithoutDrops DEF FailWarmUp
  <2> QED BY <1>a, <1>18, <2>1, GiveBack DEF FailWarmUp
<1>19. ASSUME NEW q \in Callers, InitDexCacheShortage(q) PROVE QueueInv'
  <2>1. UNCHANGED queue
    BY <1>19 DEF InitDexCacheShortage
  <2>2. \A r \in Callers : ticket[r] # 0 => pc'[r] \in Inside
    BY <1>0, <1>b, <1>19 DEF InitDexCacheShortage, Inside, Waits
  <2> QED BY <2>1, <2>2, QueueSame
<1>20. ASSUME NEW q \in Callers, LeaveQueryExecution(q) PROVE QueueInv'
  <2>1. UNCHANGED queue
    BY <1>20 DEF LeaveQueryExecution
  <2>2. \A r \in Callers : ticket[r] # 0 => pc'[r] \in Inside
    BY <1>0, <1>b, <1>20 DEF LeaveQueryExecution, Inside, Waits
  <2> QED BY <2>1, <2>2, QueueSame
<1>21. ASSUME NEW q \in Callers, Report(q) PROVE QueueInv'
  <2>1. UNCHANGED queue
    BY <1>21 DEF Report
  <2>2. \A r \in Callers : ticket[r] # 0 => pc'[r] \in Inside
    BY <1>0, <1>b, <1>21 DEF Report, Inside, Waits
  <2> QED BY <2>1, <2>2, QueueSame
<1>22. ASSUME NEW limit \in Limits, SetMaxConcurrentQueries(limit) PROVE QueueInv'
  <2>1. UNCHANGED queue
    BY <1>22 DEF SetMaxConcurrentQueries
  <2>2. \A r \in Callers : ticket[r] # 0 => pc'[r] \in Inside
    BY <1>0, <1>b, <1>22 DEF SetMaxConcurrentQueries, Inside, Waits
  <2> QED BY <2>1, <2>2, QueueSame
<1>23. ASSUME NotifyLimit PROVE QueueInv'
  <2>1. UNCHANGED queue
    BY <1>23 DEF NotifyLimit
  <2>2. \A r \in Callers : ticket[r] # 0 => pc'[r] \in Inside
    BY <1>0, <1>b, <1>23 DEF NotifyLimit, Inside, Waits
  <2> QED BY <2>1, <2>2, QueueSame
<1>24. CASE UNCHANGED vars
  BY <1>b, <1>24, QueueSame DEF vars
<1> QED
  BY <1>1, <1>2, <1>3, <1>4, <1>5, <1>6, <1>7, <1>8, <1>9, <1>10, <1>11, <1>12, <1>13,
     <1>14, <1>15, <1>16, <1>17, <1>18, <1>19, <1>20, <1>21, <1>22, <1>23, <1>24
     DEF Next, Step

-----------------------------------------------------------------------------
(* What the gate promises. *)

\* The two invariants hold in every state.
LEMMA AlwaysGate == Spec => [](GateInv /\ QueueInv)
<1>1. Init => GateInv /\ QueueInv
  BY InitGate, InitQueue
<1>2. GateInv /\ QueueInv /\ [Next]_vars => (GateInv /\ QueueInv)'
  BY NextGate, NextQueue
<1> QED BY <1>1, <1>2, PTL DEF Spec

\* The gate is well typed; in particular active_query_count, which
\* LeaveQueryExecution decrements without a test, is never negative.
THEOREM GateTypeCorrect == Spec => []TypeOK
<1>1. GateInv => TypeOK
  BY DEF GateInv
<1> QED BY <1>1, AlwaysGate, PTL

\* InitDexCache runs in one thread at a time and never beside an admitted query:
\* StartWarmUp tests the count under the mutex and every admission tests
\* warmup_inflight under it.
THEOREM WarmUpsRunAlone == Spec => []WarmUpAlone
<1>1. GateInv => WarmUpAlone
  <2> SUFFICES ASSUME GateInv, NEW q \in Callers, pc[q] \in Warming
               PROVE  /\ active_query_count = 0
                      /\ \A r \in Callers \ {q} : pc[r] \notin Warming \cup {"active"}
    BY DEF WarmUpAlone
  <2>1. active_query_count = 0 /\ \A r \in Callers : pc[r] \in Warming => r = q
    BY DEF GateInv, InflightCovers
  <2>2. \A r \in Callers : pc[r] # "active"
    BY <2>1, NoneActive DEF GateInv
  <2> QED BY <2>1, <2>2
<1> QED BY <1>1, AlwaysGate, PTL

\* A query that EnterQueryExecution has let in finds every part it asked for.
THEOREM AdmittedQueriesAreServed == Spec => []ReadyWhenActive
<1>1. GateInv => ReadyWhenActive
  BY DEF GateInv
<1> QED BY <1>1, AlwaysGate, PTL

\* No ticket is stranded in the admission queue, whoever throws or leaves.
THEOREM NoStrandedTicket == Spec => []QueueIsLive
<1>1. QueueInv => QueueIsLive
  BY DEF QueueInv
<1> QED BY <1>1, AlwaysGate, PTL

\* While the queries are limited, admission follows the tickets and the limit.
THEOREM AdmissionIsOrderly == Spec => NoOvertaking
<1> DEFINE Orderly ==
        \A q \in Callers :
            pc[q] # "active" /\ pc'[q] = "active" /\ max_concurrent_queries # 0 =>
                /\ wait_queue = <<>> \/ Head(wait_queue) = ticket[q]
                /\ active_query_count' <= max_concurrent_queries
<1>1. TypeOK /\ [Next]_vars => Orderly
  <2> SUFFICES ASSUME TypeOK, [Next]_vars, NEW q \in Callers,
                      pc[q] # "active", pc'[q] = "active", max_concurrent_queries # 0
               PROVE  /\ wait_queue = <<>> \/ Head(wait_queue) = ticket[q]
                      /\ active_query_count' <= max_concurrent_queries
    OBVIOUS
  <2>0. /\ pc \in [Callers -> Places]
        /\ active_query_count \in Nat /\ max_concurrent_queries \in Nat
    BY DEF TypeOK, Places
  <2>1. PICK r \in Callers : AdmitUnlimited(r) \/ AdmitAtOnce(r) \/ AdmitTicket(r)
    <3>1. CASE UNCHANGED vars
      BY <3>1 DEF vars
    <3>2. CASE \E limit \in Limits : SetMaxConcurrentQueries(limit)
      BY <3>2 DEF SetMaxConcurrentQueries
    <3>3. CASE NotifyLimit
      BY <3>3 DEF NotifyLimit
    <3>4. ASSUME NEW r \in Callers,
                 \/ \E flags \in Needs : Enter(r, flags)
                 \/ WaitForWarmUp(r) \/ StartWarmUp(r) \/ WaitForDrain(r) \/ AskAgain(r)
                 \/ TakeTicket(r) \/ TestTurn(r) \/ SleepForTurn(r)
                 \/ WakeAfterWarmUp(r) \/ WakeAfterDrain(r) \/ WakeForTurn(r)
          PROVE  FALSE
      BY <2>0, <3>4 DEF Enter, WaitForWarmUp, StartWarmUp, WaitForDrain, AskAgain,
         TakeTicket, TestTurn, SleepForTurn, WakeAfterWarmUp, WakeAfterDrain, WakeForTurn,
         Sleep
    <3>5. ASSUME NEW r \in Callers,
                 \/ WarmUpProgress(r) \/ InitDexCache(r) \/ EndWarmUp(r) \/ FailWarmUp(r)
                 \/ InitDexCacheShortage(r) \/ LeaveQueryExecution(r) \/ Report(r)
          PROVE  FALSE
      BY <2>0, <3>5 DEF WarmUpProgress, InitDexCache, EndWarmUp, FailWarmUp,
         InitDexCacheShortage, LeaveQueryExecution, Report
    <3> QED BY <3>1, <3>2, <3>3, <3>4, <3>5 DEF Next, Step
  <2>2. r = q
    BY <2>0, <2>1 DEF AdmitUnlimited, AdmitAtOnce, AdmitTicket
  <2>3. CASE AdmitAtOnce(q)
    BY <2>0, <2>3 DEF AdmitAtOnce
  <2>4. CASE AdmitTicket(q)
    BY <2>0, <2>4 DEF AdmitTicket, IsTicketTurn
  <2>5. ~AdmitUnlimited(q)
    BY DEF AdmitUnlimited
  <2> QED BY <2>1, <2>2, <2>3, <2>4, <2>5
<1> QED BY <1>1, GateTypeCorrect, PTL DEF Spec, NoOvertaking
=============================================================================
