------------------------- MODULE LoginLockoutProofs -------------------------
(***************************************************************************)
(* Proofs about LoginLockout, for any number of workers: what holds        *)
(* however the logins overlap, and what holds of logins on their own: until*)
(* two overlap, and again from one that is accepted alone.                 *)
(***************************************************************************)
EXTENDS LoginLockout, TLAPS

(* The facts about the constants that every step uses.                     *)
LEMMA LockoutFacts ==
  /\ MaxFailed \in Nat /\ MaxFailed >= 1
  /\ LockTime \in Nat /\ LockTime >= 1
  /\ MaxTime \in Nat /\ MaxAttempts \in Nat
  /\ None \notin Nat
BY LockoutConstants

(* A free worker's record.                                                 *)
LEMMA IdleFacts == Idle \in Task /\ Idle.pc = "idle"
BY DEF Idle, Task, NewAccount, Account

(* Any login, failure, reset or crash keeps the types, whatever was read.  *)
LEMMA TypeStep == TypeOK /\ [Next]_vars => TypeOK'
<1> SUFFICES ASSUME TypeOK, [Next]_vars PROVE TypeOK'
  OBVIOUS
<1> USE LockoutFacts
<1>1. ASSUME NEW w \in Workers, NEW right \in BOOLEAN, LoginSelect(w, right)
      PROVE  TypeOK'
  <2>1. [pc |-> "verify", seen |-> row, at |-> 0,
         ok |-> right /\ row.status = "active"] \in Task
    BY DEF TypeOK, Task
  <2>2. task' \in [Workers -> Task]
    BY <1>1, <2>1 DEF TypeOK, LoginSelect, Begin
  <2>3. /\ started' \in 0..MaxAttempts /\ overlapped' \in BOOLEAN
        /\ crowded' \subseteq Workers
    BY <1>1 DEF TypeOK, LoginSelect, Begin, Busy
  <2> QED
    BY <1>1, <2>2, <2>3 DEF TypeOK, LoginSelect, Begin
<1>2. ASSUME NEW w \in Workers, LoginFail(w)
      PROVE  TypeOK'
  <2>1. [pc |-> "record", seen |-> task[w].seen, ok |-> FALSE, at |-> now] \in Task
    BY DEF TypeOK, Task
  <2>2. task' \in [Workers -> Task]
    BY <1>2, <2>1 DEF TypeOK, LoginFail
  <2> QED
    BY <1>2, <2>2 DEF TypeOK, LoginFail
<1>3. ASSUME NEW w \in Workers, FailCommit(w)
      PROVE  TypeOK'
  <2>1. /\ task[w].seen.count + 1 \in Nat
        /\ task[w].at \in Nat /\ task[w].at + LockTime \in Nat
    BY DEF TypeOK, Task, Account
  <2>2. row' \in Account
    BY <1>3, <2>1 DEF TypeOK, FailCommit, Account
  <2>3. racing' \subseteq Workers
    BY <1>3 DEF TypeOK, FailCommit, Busy
  <2> QED
    BY <1>3, <2>1, <2>2, <2>3, IdleFacts DEF TypeOK, FailCommit, Leave
<1>4. ASSUME NEW w \in Workers, LoginSucceed(w)
      PROVE  TypeOK'
  <2>1. row' \in Account
    BY <1>4 DEF TypeOK, LoginSucceed, Reset, Account
  <2>2. overlapped' \in BOOLEAN /\ since' \in Nat
    BY <1>4 DEF TypeOK, LoginSucceed
  <2> QED
    BY <1>4, <2>1, <2>2, IdleFacts DEF TypeOK, LoginSucceed, Leave
<1>5. ASSUME NEW w \in Workers, Disconnect(w)
      PROVE  TypeOK'
  BY <1>5, IdleFacts DEF TypeOK, Disconnect, Leave
<1>6. ASSUME NEW st \in {"active", "disabled"}, SetStatus(st)
      PROVE  TypeOK'
  BY <1>6 DEF TypeOK, SetStatus, Account
<1>7. CASE Tick
  BY <1>7 DEF TypeOK, Tick
<1>8. CASE UNCHANGED vars
  BY <1>8 DEF TypeOK, vars
<1> QED
  BY <1>1, <1>2, <1>3, <1>4, <1>5, <1>6, <1>7, <1>8 DEF Next

(* A new account: nothing counted, nothing locked, nobody at work.         *)
LEMMA LockoutStart == Init => OverlapInv /\ SerialInv
<1> SUFFICES ASSUME Init PROVE OverlapInv /\ SerialInv
  OBVIOUS
<1> USE LockoutFacts
<1>1. TypeOK
  <2>1. NewAccount \in Account
    BY DEF NewAccount, Account
  <2>2. task \in [Workers -> Task] /\ overlapped \in BOOLEAN
    BY IdleFacts DEF Init
  <2> QED
    BY <2>1, <2>2 DEF Init, TypeOK
<1>2. Busy = {}
  BY IdleFacts DEF Init, Busy
<1>3. CountsBacked /\ NoPrematureLock /\ LocksTimely
  BY <1>2 DEF Init, CountsBacked, NoPrematureLock, LocksTimely, Locked, NewAccount
<1>4. OneBusy /\ ReadIsCurrent /\ CountIsExact /\ LockedAfterMax
  BY <1>2 DEF Init, OneBusy, ReadIsCurrent, Lone, CountIsExact, LockedAfterMax,
              NewAccount
<1> QED
  BY <1>1, <1>3, <1>4 DEF OverlapInv, SerialInv

-----------------------------------------------------------------------------
(* A login that begins is the only busy one more.                          *)
LEMMA OneMore ==
  ASSUME NEW w \in Workers, NEW right \in BOOLEAN, TypeOK, LoginSelect(w, right)
  PROVE  /\ Busy' = Busy \cup {w} /\ w \notin Busy
         /\ \A v \in Busy : task'[v] = task[v]
         /\ task'[w].seen = row /\ task'[w].at = 0
BY DEF TypeOK, LoginSelect, Begin, Busy

(* A login that ends is the only busy one less.                            *)
LEMMA OneLess ==
  ASSUME NEW w \in Workers, TypeOK, Leave(w)
  PROVE  /\ Busy' = Busy \ {w}
         /\ \A v \in Busy' : task'[v] = task[v]
BY IdleFacts DEF TypeOK, Leave, Busy

(* A login that takes its verdict stays busy, and keeps what it has read.  *)
LEMMA StillBusy ==
  ASSUME NEW w \in Workers, TypeOK, LoginFail(w)
  PROVE  /\ Busy' = Busy
         /\ \A v \in Workers : task'[v].seen = task[v].seen
         /\ \A v \in Workers : task'[v].at \in {task[v].at, now}
<1>1. \A v \in Workers :
        task'[v] = IF v = w THEN [pc |-> "record", seen |-> task[w].seen,
                                  ok |-> FALSE, at |-> now]
                            ELSE task[v]
  BY DEF TypeOK, LoginFail
<1>2. task[w] \in Task /\ task[w].pc = "verify"
  BY DEF TypeOK, LoginFail
<1> QED
  BY <1>1, <1>2 DEF Busy, Task

(* A login that ends leaves nobody on their own: whoever else is busy was  *)
(* overlapped by it.                                                       *)
LEMMA NobodyLone ==
  ASSUME NEW w \in Busy, TypeOK, OneBusy, Leave(w),
         overlapped /\ w \in crowded => overlapped'
  PROVE  /\ OneBusy'
         /\ \A v \in Workers : ~Lone(v)'
<1>1. w \in Workers
  BY DEF Busy
<1>2. Busy' = Busy \ {w}
  BY <1>1, OneLess
<1>3. crowded' = crowded \ {w}
  BY DEF Leave
<1>4. \A v \in Workers : ~Lone(v)'
  BY <1>2, <1>3 DEF OneBusy, Lone
<1>5. crowded' # {} => overlapped'
  BY <1>3 DEF OneBusy, Lone
<1> QED
  BY <1>2, <1>3, <1>4, <1>5 DEF OneBusy, Lone, Busy

(* Nothing moves under a login that no other overlaps.                     *)
LEMMA LoneStep ==
  TypeOK /\ OneBusy /\ ReadIsCurrent /\ [Next]_vars => OneBusy' /\ ReadIsCurrent'
<1> SUFFICES ASSUME TypeOK, OneBusy, ReadIsCurrent, [Next]_vars
             PROVE  OneBusy' /\ ReadIsCurrent'
  OBVIOUS
<1> USE LockoutFacts
<1>1. ASSUME NEW w \in Workers, NEW right \in BOOLEAN, LoginSelect(w, right)
      PROVE  OneBusy' /\ ReadIsCurrent'
  <2>1. Busy' = Busy \cup {w} /\ task'[w].seen = row
    BY <1>1, OneMore
  <2>2. CASE Busy # {}
    <3>1. overlapped' /\ crowded' = Busy'
      BY <1>1, <2>1, <2>2 DEF LoginSelect, Begin
    <3> QED
      BY <3>1 DEF OneBusy, ReadIsCurrent, Lone
  <2>3. CASE Busy = {}
    <3>1. crowded' = {} /\ Busy' = {w}
      BY <1>1, <2>1, <2>3 DEF LoginSelect, Begin
    <3>2. row' = row /\ now' = now /\ ~Locked(row)
      BY <1>1 DEF LoginSelect, Begin
    <3> QED
      BY <2>1, <3>1, <3>2 DEF OneBusy, ReadIsCurrent, Lone, Locked
  <2> QED
    BY <2>2, <2>3
<1>2. ASSUME NEW w \in Workers, LoginFail(w)
      PROVE  OneBusy' /\ ReadIsCurrent'
  <2>1. /\ Busy' = Busy
        /\ \A v \in Workers : task'[v].seen = task[v].seen
    BY <1>2, StillBusy
  <2>2. /\ row' = row /\ now' = now /\ crowded' = crowded
        /\ overlapped' = overlapped
    BY <1>2 DEF LoginFail
  <2> QED
    BY <2>1, <2>2 DEF OneBusy, ReadIsCurrent, Lone, Locked
<1>3. ASSUME NEW w \in Workers,
             FailCommit(w) \/ LoginSucceed(w) \/ Disconnect(w)
      PROVE  OneBusy' /\ ReadIsCurrent'
  <2>1. w \in Busy /\ Leave(w)
    BY <1>3 DEF FailCommit, LoginSucceed, Disconnect, Busy
  <2>2. overlapped /\ w \in crowded => overlapped'
    BY <1>3 DEF FailCommit, LoginSucceed, Disconnect
  <2> QED
    BY <2>1, <2>2, NobodyLone DEF ReadIsCurrent
<1>4. ASSUME NEW st \in {"active", "disabled"}, SetStatus(st)
      PROVE  OneBusy' /\ ReadIsCurrent'
  <2>1. row'.count = row.count /\ row'.lock = row.lock
    BY <1>4 DEF TypeOK, Account, SetStatus
  <2> QED
    BY <1>4, <2>1 DEF SetStatus, OneBusy, ReadIsCurrent, Lone, Locked, Busy
<1>5. CASE Tick
  <2>1. ~Locked(row) => ~Locked(row)'
    BY <1>5 DEF Tick, Locked, TypeOK, Account
  <2> QED
    BY <1>5, <2>1 DEF Tick, OneBusy, ReadIsCurrent, Lone, Busy
<1>6. CASE UNCHANGED vars
  BY <1>6 DEF vars, OneBusy, ReadIsCurrent, Lone, Locked, Busy
<1> QED
  BY <1>1, <1>2, <1>3, <1>4, <1>5, <1>6 DEF Next

-----------------------------------------------------------------------------
(* A lock that is set ends at most LockTime ahead, a login reads none that *)
(* still runs, and nobody begins while one runs; the clock only moves on.  *)
LEMMA TimelyStep == TypeOK /\ LocksTimely /\ [Next]_vars => LocksTimely'
<1> SUFFICES ASSUME TypeOK, LocksTimely, [Next]_vars PROVE LocksTimely'
  OBVIOUS
<1> USE LockoutFacts
<1>1. /\ TypeOK' /\ now \in Nat /\ now' \in Nat
      /\ row.lock \in Nat \cup {None} /\ row'.lock \in Nat \cup {None}
  BY TypeStep DEF TypeOK, Account
<1>2. \A v \in Workers : task[v].at \in Nat /\ task[v].seen.lock \in Nat \cup {None}
  BY DEF TypeOK, Task, Account
<1>3. ASSUME NEW w \in Workers, NEW right \in BOOLEAN, LoginSelect(w, right)
      PROVE  LocksTimely'
  <2>1. /\ Busy' = Busy \cup {w}
        /\ \A v \in Busy : task'[v] = task[v]
        /\ task'[w].seen = row /\ task'[w].at = 0
    BY <1>3, OneMore
  <2>2. row' = row /\ now' = now /\ ~Locked(row)
    BY <1>3 DEF LoginSelect, Begin
  <2>3. ~Locked(row)' /\ (row.lock # None => row.lock <= now)
    BY <1>1, <2>2 DEF Locked
  <2> QED
    BY <1>1, <2>1, <2>2, <2>3 DEF LocksTimely
<1>4. ASSUME NEW w \in Workers, LoginFail(w)
      PROVE  LocksTimely'
  <2>1. row' = row /\ now' = now /\ racing' = racing
    BY <1>4 DEF LoginFail
  <2>2. /\ Busy' = Busy /\ Busy \subseteq Workers
        /\ \A v \in Workers : /\ task'[v].seen = task[v].seen
                              /\ task'[v].at \in {task[v].at, now}
    BY <1>4, StillBusy DEF Busy
  <2> QED
    BY <1>1, <2>1, <2>2 DEF LocksTimely, Locked
<1>5. ASSUME NEW w \in Workers,
             FailCommit(w) \/ LoginSucceed(w) \/ Disconnect(w)
      PROVE  LocksTimely'
  <2>1. Leave(w) /\ now' = now /\ w \in Busy
    BY <1>5 DEF FailCommit, LoginSucceed, Disconnect, Busy
  <2>2. Busy' = Busy \ {w} /\ \A v \in Busy' : task'[v] = task[v]
    BY <2>1, OneLess
  <2>3. /\ row'.lock # None => row'.lock <= now + LockTime
        /\ Locked(row)' => Busy' \subseteq racing'
    <3>1. CASE FailCommit(w) /\ LockDue(task[w].seen.count + 1)
      <4>1. row'.lock = task[w].at + LockTime /\ racing' = Busy \ {w}
        BY <3>1 DEF FailCommit, TypeOK, Account
      <4>2. task[w].at <= now /\ task[w].at \in Nat
        BY <1>2, <2>1 DEF LocksTimely
      <4> QED
        BY <1>1, <2>2, <4>1, <4>2
    <3>2. CASE ~(FailCommit(w) /\ LockDue(task[w].seen.count + 1))
      <4>1. racing' = racing \ {w} /\ row'.lock \in {None, row.lock}
        BY <1>5, <3>2 DEF FailCommit, LoginSucceed, Reset, Disconnect, TypeOK,
                          Account
      <4> QED
        BY <1>1, <2>1, <2>2, <4>1 DEF LocksTimely, Locked
    <3> QED
      BY <3>1, <3>2
  <2> QED
    BY <1>1, <2>1, <2>2, <2>3 DEF LocksTimely
<1>6. ASSUME NEW st \in {"active", "disabled"}, SetStatus(st)
      PROVE  LocksTimely'
  <2>1. row'.lock = row.lock
    BY <1>6 DEF TypeOK, Account, SetStatus
  <2> QED
    BY <1>6, <2>1 DEF SetStatus, LocksTimely, Locked, Busy
<1>7. CASE Tick
  <2>1. /\ row' = row /\ now' = now + 1 /\ racing' = racing
        /\ task' = task /\ Busy' = Busy /\ Busy \subseteq Workers
    BY <1>7 DEF Tick, Busy
  <2>2. row.lock # None => row.lock <= now' + LockTime
    BY <1>1, <2>1 DEF LocksTimely
  <2>3. \A v \in Busy : /\ task[v].at <= now'
                        /\ task[v].seen.lock # None => task[v].seen.lock <= now'
    BY <1>1, <1>2, <2>1 DEF LocksTimely
  <2>4. Locked(row)' => Locked(row)
    BY <1>1, <2>1 DEF Locked
  <2> QED
    BY <2>1, <2>2, <2>3, <2>4 DEF LocksTimely
<1>8. CASE UNCHANGED vars
  BY <1>8 DEF vars, LocksTimely, Locked, Busy
<1> QED
  BY <1>3, <1>4, <1>5, <1>6, <1>7, <1>8 DEF Next

(* A counter value, in the row or in a handler's copy, was counted up by   *)
(* that many failures since a login was accepted alone, so a lock is never *)
(* set before MaxFailed of them.                                           *)
LEMMA OverlapStep == OverlapInv /\ [Next]_vars => OverlapInv'
<1> SUFFICES ASSUME OverlapInv, [Next]_vars PROVE OverlapInv'
  OBVIOUS
<1> USE LockoutFacts
<1> DEFINE Backed == CountsBacked /\ NoPrematureLock
<1>0. /\ TypeOK /\ TypeOK' /\ OneBusy /\ ReadIsCurrent /\ Backed
      /\ LocksTimely' /\ OneBusy' /\ ReadIsCurrent'
  BY TypeStep, TimelyStep, LoneStep DEF OverlapInv
<1>1. /\ since \in Nat /\ row.count \in Nat /\ Busy \subseteq Workers
      /\ \A v \in Workers : task[v].seen.count \in Nat
  BY <1>0 DEF TypeOK, Task, Account, Busy
<1>2. ASSUME NEW w \in Workers, NEW right \in BOOLEAN, LoginSelect(w, right)
      PROVE  Backed'
  BY <1>0, <1>2, OneMore DEF CountsBacked, NoPrematureLock, LoginSelect, Begin
<1>3. ASSUME NEW w \in Workers, LoginFail(w)
      PROVE  Backed'
  <2>1. /\ Busy' = Busy
        /\ \A v \in Workers : task'[v].seen = task[v].seen
    BY <1>0, <1>3, StillBusy
  <2> QED
    BY <1>0, <1>1, <1>3, <2>1 DEF CountsBacked, NoPrematureLock, LoginFail
<1>4. ASSUME NEW w \in Workers, FailCommit(w)
      PROVE  Backed'
  <2> DEFINE count == task[w].seen.count + 1
  <2>1. /\ Busy' = Busy \ {w} /\ w \in Busy
        /\ \A v \in Busy' : task'[v] = task[v]
    BY <1>0, <1>4, OneLess DEF FailCommit, Busy
  <2>2. since' = since + 1 /\ count <= since' /\ count \in Nat
    BY <1>0, <1>1, <1>4, <2>1 DEF CountsBacked, FailCommit
  <2>3. row'.count = count
    BY <1>0, <1>4 DEF TypeOK, Account, FailCommit
  <2>4. CountsBacked'
    BY <1>0, <1>1, <2>1, <2>2, <2>3 DEF CountsBacked
  <2>5. NoPrematureLock'
    <3>1. CASE LockDue(count)
      BY <2>2, <3>1 DEF LockDue, NoPrematureLock
    <3>2. CASE ~LockDue(count)
      <4>1. row'.lock = row.lock
        BY <1>0, <1>4, <3>2 DEF TypeOK, Account, FailCommit
      <4> QED
        BY <1>0, <1>1, <2>2, <4>1 DEF NoPrematureLock
    <3> QED
      BY <3>1, <3>2
  <2> QED
    BY <2>4, <2>5
<1>5. ASSUME NEW w \in Workers, LoginSucceed(w)
      PROVE  Backed'
  <2>1. /\ Busy' = Busy \ {w} /\ w \in Busy
        /\ \A v \in Busy' : task'[v] = task[v]
    BY <1>0, <1>5, OneLess DEF LoginSucceed, Busy
  <2>2. CASE w \in crowded
    <3>1. /\ row'.count \in {0, row.count} /\ since' = since
          /\ row'.lock \in {None, row.lock}
      BY <1>0, <1>5, <2>2 DEF LoginSucceed, Reset, TypeOK, Account
    <3> QED
      BY <1>0, <1>1, <2>1, <3>1 DEF CountsBacked, NoPrematureLock
  <2>3. CASE w \notin crowded
    <3>1. Busy = {w} /\ Lone(w)
      BY <1>0, <2>1, <2>3 DEF OneBusy, Lone
    <3>2. row'.count = 0 /\ row'.lock = None
      BY <1>0, <1>5, <3>1 DEF LoginSucceed, Reset, ReadIsCurrent, TypeOK, Account
    <3>3. since' = 0 /\ Busy' = {}
      BY <1>5, <2>1, <2>3, <3>1 DEF LoginSucceed
    <3> QED
      BY <3>2, <3>3 DEF CountsBacked, NoPrematureLock
  <2> QED
    BY <2>2, <2>3
<1>6. ASSUME NEW w \in Workers, Disconnect(w)
      PROVE  Backed'
  <2>1. Busy' = Busy \ {w} /\ \A v \in Busy' : task'[v] = task[v]
    BY <1>0, <1>6, OneLess DEF Disconnect
  <2> QED
    BY <1>0, <1>6, <2>1 DEF CountsBacked, NoPrematureLock, Disconnect
<1>7. ASSUME NEW st \in {"active", "disabled"}, SetStatus(st)
      PROVE  Backed'
  <2>1. row'.lock = row.lock /\ row'.count = row.count
    BY <1>0, <1>7 DEF TypeOK, Account, SetStatus
  <2> QED
    BY <1>0, <1>7, <2>1 DEF CountsBacked, NoPrematureLock, SetStatus, Busy
<1>8. ASSUME Tick PROVE Backed'
  BY <1>0, <1>8 DEF CountsBacked, NoPrematureLock, Tick, Busy
<1>9. ASSUME UNCHANGED vars PROVE Backed'
  BY <1>0, <1>9 DEF CountsBacked, NoPrematureLock, vars, Busy
<1> QED
  BY <1>0, <1>2, <1>3, <1>4, <1>5, <1>6, <1>7, <1>8, <1>9 DEF Next, OverlapInv

(* What holds however many logins of the account overlap.                  *)
THEOREM OverlapInvariant == Spec => []OverlapInv
<1>1. Init => OverlapInv
  BY LockoutStart
<1>2. OverlapInv /\ [Next]_vars => OverlapInv'
  BY OverlapStep
<1> QED
  BY <1>1, <1>2, PTL DEF Spec

(* The login handler keeps the types of the account row and of its own     *)
(* variables.                                                              *)
THEOREM LockoutTypeCorrect == Spec => []TypeOK
<1>1. OverlapInv => TypeOK
  BY DEF OverlapInv
<1> QED
  BY <1>1, OverlapInvariant, PTL

(* However many workers and overlapping logins there are, an account is    *)
(* never locked before max_failed_logins wrong answers since the last      *)
(* login that was accepted with no other beside it.                        *)
THEOREM NeverLockedEarly == Spec => []NoPrematureLock
<1>1. OverlapInv => NoPrematureLock
  BY DEF OverlapInv
<1> QED
  BY <1>1, OverlapInvariant, PTL

(* However many logins overlap, a running lock is shortened or lifted only *)
(* by a login that was past the lock check before the lock was set: lifted *)
(* by a right password that had read an earlier lock, run out by then, and *)
(* shortened by a due failure that commits an earlier reading of the clock.*)
THEOREM LocksOutliveReads == Spec => LockOutlivesReads
<1> USE LockoutFacts
<1>1. ASSUME OverlapInv, [Next]_vars PROVE EndsLock
  <2>0. TypeOK /\ LocksTimely /\ Busy \subseteq Workers
    BY <1>1 DEF OverlapInv, Busy
  <2> SUFFICES ASSUME Locked(row), row'.lock # row.lock PROVE EndsLock
    BY <2>0 DEF EndsLock, Locked, TypeOK, Account
  <2>1. Busy \subseteq racing
    BY <2>0 DEF LocksTimely
  <2>2. PICK w \in Workers : FailCommit(w) \/ LoginSucceed(w)
    BY <1>1, <2>0 DEF Next, vars, LoginSelect, Begin, LoginFail, Disconnect, SetStatus,
                      Tick, TypeOK, Account
  <2>3. w \in Busy /\ w \in racing
    BY <2>1, <2>2 DEF FailCommit, LoginSucceed, Busy
  <2>4. CASE FailCommit(w)
    <3>1. LockDue(task[w].seen.count + 1) /\ row'.lock = task[w].at + LockTime
      BY <2>0, <2>4 DEF FailCommit, TypeOK, Account
    <3>2. StoredLate(w)
      BY <2>4, <3>1 DEF StoredLate, FailCommit, LockDue
    <3> QED
      BY <2>3, <3>2 DEF EndsLock
  <2>5. CASE LoginSucceed(w)
    <3>1. row'.lock = None /\ task[w].seen.lock # None
      BY <2>0, <2>5 DEF LoginSucceed, Reset, TypeOK, Account
    <3>2. LiftedLate(w)
      BY <2>0, <2>3, <2>5, <3>1 DEF LoginSucceed, LiftedLate, LocksTimely
    <3> QED
      BY <2>3, <3>2 DEF EndsLock
  <2> QED
    BY <2>2, <2>4, <2>5
<1> QED
  BY <1>1, OverlapInvariant, PTL DEF Spec, LockOutlivesReads

-----------------------------------------------------------------------------
(* A login that no other overlaps writes back an exact count and sets the  *)
(* lock on time, if the count was exact when it began; one that is         *)
(* accepted makes it exact.                                                *)
LEMMA SerialStep == SerialInv /\ [Next]_vars => SerialInv'
<1> SUFFICES ASSUME SerialInv, [Next]_vars PROVE SerialInv'
  OBVIOUS
<1> USE LockoutFacts
<1> DEFINE Exact == CountIsExact /\ LockedAfterMax
<1>0. /\ TypeOK /\ TypeOK' /\ OneBusy /\ ReadIsCurrent /\ Exact
      /\ OneBusy' /\ ReadIsCurrent'
  BY TypeStep, LoneStep DEF SerialInv
<1>1. ASSUME NEW w \in Workers, NEW right \in BOOLEAN, LoginSelect(w, right)
      PROVE  Exact'
  BY <1>0, <1>1 DEF LoginSelect, Begin, CountIsExact, LockedAfterMax
<1>2. ASSUME NEW w \in Workers, LoginFail(w)
      PROVE  Exact'
  BY <1>0, <1>2 DEF LoginFail, CountIsExact, LockedAfterMax
<1>3. ASSUME NEW w \in Workers, FailCommit(w)
      PROVE  Exact'
  <2> DEFINE count == task[w].seen.count + 1
  <2>1. ASSUME ~overlapped
        PROVE  /\ row'.count = wrong'
               /\ row'.lock = IF wrong' >= MaxFailed THEN lastWrong' + LockTime
                                                     ELSE None
    <3>1. Lone(w)
      BY <1>0, <1>3, <2>1 DEF OneBusy, Lone, FailCommit, Busy
    <3>2. count = wrong + 1 /\ wrong \in Nat /\ wrong' = wrong + 1
      BY <1>0, <1>3, <2>1, <3>1 DEF ReadIsCurrent, CountIsExact, FailCommit, TypeOK
    <3>3. row'.count = wrong'
      BY <1>0, <1>3, <3>2 DEF TypeOK, Account, FailCommit
    <3>4. row'.lock = IF LockDue(count) THEN lastWrong' + LockTime ELSE row.lock
      BY <1>0, <1>3 DEF TypeOK, Account, FailCommit
    <3>5. ~LockDue(count) => row.lock = None
      BY <1>0, <2>1, <3>2 DEF LockDue, LockedAfterMax
    <3> QED
      BY <3>2, <3>3, <3>4, <3>5 DEF LockDue
  <2>2. overlapped' = overlapped
    BY <1>3 DEF FailCommit
  <2> QED
    BY <2>1, <2>2 DEF CountIsExact, LockedAfterMax
<1>4. ASSUME NEW w \in Workers, LoginSucceed(w)
      PROVE  Exact'
  <2>1. ~overlapped' => row'.count = 0 /\ row'.lock = None
    <3>1. ~overlapped' => Lone(w)
      BY <1>0, <1>4 DEF LoginSucceed, OneBusy, Lone, Busy
    <3> QED
      BY <1>0, <1>4, <3>1 DEF LoginSucceed, Reset, ReadIsCurrent, TypeOK, Account
  <2>2. wrong' = 0
    BY <1>4 DEF LoginSucceed
  <2> QED
    BY <2>1, <2>2 DEF CountIsExact, LockedAfterMax
<1>5. ASSUME NEW w \in Workers, Disconnect(w)
      PROVE  Exact'
  BY <1>0, <1>5 DEF Disconnect, CountIsExact, LockedAfterMax
<1>6. ASSUME NEW st \in {"active", "disabled"}, SetStatus(st)
      PROVE  Exact'
  <2>1. row'.count = row.count /\ row'.lock = row.lock
    BY <1>0, <1>6 DEF TypeOK, Account, SetStatus
  <2> QED
    BY <1>0, <1>6, <2>1 DEF SetStatus, CountIsExact, LockedAfterMax
<1>7. ASSUME Tick PROVE Exact'
  BY <1>0, <1>7 DEF Tick, CountIsExact, LockedAfterMax
<1>8. ASSUME UNCHANGED vars PROVE Exact'
  BY <1>0, <1>8 DEF vars, CountIsExact, LockedAfterMax
<1> QED
  BY <1>0, <1>1, <1>2, <1>3, <1>4, <1>5, <1>6, <1>7, <1>8 DEF Next, SerialInv

(* What holds of logins on their own, for any number of workers.           *)
THEOREM SerialInvariant == Spec => []SerialInv
<1>1. Init => SerialInv
  BY LockoutStart
<1> QED
  BY <1>1, SerialStep, PTL DEF Spec

(* Until two logins overlap, and again from one that is accepted alone,    *)
(* the stored counter is the number of wrong answers since the last        *)
(* accepted login.                                                         *)
THEOREM SerialCount == Spec => []CountIsExact
<1>1. SerialInv => CountIsExact
  BY DEF SerialInv
<1> QED
  BY <1>1, SerialInvariant, PTL

(* As long, MaxFailed wrong answers since the last accepted login always   *)
(* lock the account, for LockTime from the last one, and fewer never do.   *)
THEOREM SerialLock == Spec => []LockedAfterMax
<1>1. SerialInv => LockedAfterMax
  BY DEF SerialInv
<1> QED
  BY <1>1, SerialInvariant, PTL

(* As long, nothing shortens or lifts a lock before its time.              *)
THEOREM SerialLockRuns == Spec => LockRunsItsTime
<1>1. SerialInv /\ [Next]_vars => [KeepsLock]_vars
  <2> SUFFICES ASSUME SerialInv, Next, ~overlapped, Locked(row)
               PROVE  row'.lock = row.lock
    BY LockoutFacts DEF SerialInv, TypeOK, Account, KeepsLock, Locked
  <2>1. Busy = {}
    BY DEF SerialInv, OneBusy, ReadIsCurrent, Lone, Busy
  <2> QED
    BY <2>1 DEF Next, LoginSelect, Begin, LoginFail, FailCommit, LoginSucceed, Disconnect,
                SetStatus, Tick, SerialInv, TypeOK, Account, Busy
<1> QED
  BY <1>1, SerialInvariant, PTL DEF Spec, LockRunsItsTime
=============================================================================
