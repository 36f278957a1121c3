------------------------- MODULE PngValidatorProofs -------------------------
(***************************************************************************)
(* Proofs about PngValidator, for any number of threads: the verdict does  *)
(* not depend on how the calls interleave; the bomb guard and the restored *)
(* ceiling hold until two calls overlap.                                   *)
(***************************************************************************)
EXTENDS PngValidator, TLAPS

(* The facts about the constants that the steps use.                       *)
LEMMA ValidatorFacts ==
  /\ \A u \in Uploads : Pixels(u) \in Nat
  /\ MaxPixels \in Nat /\ DefaultCeiling \in Nat
  /\ MaxPixels <= DefaultCeiling
  /\ None \notin Uploads /\ None \notin Ceilings
BY ValidatorConstants DEF Ceilings

(* An upload has Boolean marks.                                            *)
LEMMA UploadMarks ==
  ASSUME NEW u \in Uploads
  PROVE  /\ u.header \in BOOLEAN /\ u.sound \in BOOLEAN
         /\ u.decodes \in BOOLEAN /\ u.mode \in BOOLEAN
BY ValidatorConstants DEF Upload

(* Whatever the ceiling is, an upload it stops is over the limit.          *)
LEMMA BombIsOverLimit ==
  ASSUME NEW u \in Uploads, TypeOK, Bomb(u)
  PROVE  Pixels(u) > 2 * MaxPixels
<1>1. ceiling \in Nat /\ ceiling >= MaxPixels
  BY ValidatorFacts DEF TypeOK, Ceilings
<1> QED
  BY <1>1, ValidatorFacts DEF Bomb

(* One more answer that agrees with a call that runs alone.                *)
LEMMA AnswerAdded ==
  ASSUME NEW u \in Uploads, NEW b \in BOOLEAN, TypeOK, SameVerdict,
         b <=> Acceptable(u), answers' = answers \cup {<<u, b>>}
  PROVE  SameVerdict' /\ answers' \subseteq Uploads \X BOOLEAN
<1>1. <<u, b>> \in Uploads \X BOOLEAN
  OBVIOUS
<1>2. answers' \subseteq Uploads \X BOOLEAN
  BY <1>1 DEF TypeOK
<1>3. \A a \in answers' : a[2] <=> Acceptable(a[1])
  <2> SUFFICES ASSUME NEW a \in answers' PROVE a[2] <=> Acceptable(a[1])
    OBVIOUS
  <2>1. CASE a \in answers
    BY <2>1 DEF SameVerdict
  <2>2. CASE a = <<u, b>>
    <3>1. a[1] = u /\ a[2] = b
      BY <2>2
    <3> QED
      BY <3>1, Zenon
  <2> QED
    BY <2>1, <2>2
<1> QED
  BY <1>2, <1>3 DEF SameVerdict, Acceptable, Check

(* A worker's statement changes that worker's variables only; its upload,  *)
(* saved value and exception keep their types, and what is known of the    *)
(* upload grows.  The answers given agree with a call that runs alone.     *)
LEMMA OverlapStep == OverlapInv /\ [Next]_vars => OverlapInv'
<1> SUFFICES ASSUME OverlapInv, [Next]_vars PROVE OverlapInv'
  OBVIOUS
<1> USE ValidatorFacts
<1>0. TypeOK /\ Progress /\ SameVerdict
  BY DEF OverlapInv
<1>1. Idle \in Task
  BY DEF Idle, Task
<1>2. ASSUME NEW w \in Workers, NEW u \in Uploads, RefuseEarly(w, u)
      PROVE  OverlapInv'
  <2>1. ~Acceptable(u) /\ answers' = answers \cup {<<u, FALSE>>}
    BY <1>2 DEF RefuseEarly, Acceptable
  <2>2. SameVerdict' /\ answers' \subseteq Uploads \X BOOLEAN
    BY <1>0, <2>1, AnswerAdded
  <2>3. TypeOK' /\ Progress'
    BY <1>0, <1>2, <2>2 DEF RefuseEarly, TypeOK, Progress
  <2> QED
    BY <2>2, <2>3 DEF OverlapInv
<1>3. ASSUME NEW w \in Workers, NEW u \in Uploads, SaveCeiling(w, u)
      PROVE  OverlapInv'
  <2> DEFINE t == [Idle EXCEPT !.pc = "set", !.img = u, !.saved = ceiling]
  <2>1. t \in Task /\ t.pc = "set" /\ t.img = u /\ t.saved = ceiling
    BY <1>0 DEF Idle, Task, TypeOK
  <2>2. task' = [task EXCEPT ![w] = t]
    BY <1>3 DEF SaveCeiling
  <2> HIDE DEF t
  <2>3. TypeOK'
    BY <1>0, <1>3, <2>1, <2>2 DEF SaveCeiling, TypeOK
  <2>4. Progress'
    BY <1>0, <1>3, <2>1, <2>2 DEF SaveCeiling, TypeOK, Progress
  <2> QED
    BY <1>0, <1>3, <2>3, <2>4 DEF SaveCeiling, SameVerdict, OverlapInv
<1>4. ASSUME NEW w \in Workers, SetCeiling(w)
      PROVE  OverlapInv'
  <2>1. TypeOK'
    BY <1>0, <1>4 DEF SetCeiling, TypeOK, Task, Ceilings
  <2>2. Progress'
    BY <1>0, <1>4 DEF SetCeiling, TypeOK, Task, Progress
  <2> QED
    BY <1>0, <1>4, <2>1, <2>2 DEF SetCeiling, SameVerdict, OverlapInv
<1>5. ASSUME NEW w \in Workers, Probe(w)
      PROVE  OverlapInv'
  <2> DEFINE u == task[w].img
             stop == Bomb(u) \/ ~u.sound
  <2>1. u \in Uploads /\ u.header /\ task[w].saved \in Ceilings
    BY <1>0, <1>5 DEF Probe, Progress
  <2>2. stop => ~u.sound \/ Pixels(u) > 2 * MaxPixels
    BY <1>0, <2>1, BombIsOverLimit
  <2>3. stop \in BOOLEAN
    OBVIOUS
  <2>4. task' = [task EXCEPT ![w].pc = IF stop THEN "restore" ELSE "load",
                             ![w].bad = stop]
    BY <1>5 DEF Probe
  <2>5. TypeOK'
    <3>1. CASE stop
      <4>1. task' = [task EXCEPT ![w].pc = "restore", ![w].bad = TRUE]
        BY <2>4, <3>1
      <4>2. task' \in [Workers -> Task]
        BY <1>0, <4>1 DEF TypeOK, Task
      <4> QED
        BY <1>0, <1>5, <4>2 DEF Probe, TypeOK
    <3>2. CASE ~stop
      <4>1. task' = [task EXCEPT ![w].pc = "load", ![w].bad = FALSE]
        BY <2>4, <3>2
      <4>2. task' \in [Workers -> Task]
        BY <1>0, <4>1 DEF TypeOK, Task
      <4> QED
        BY <1>0, <1>5, <4>2 DEF Probe, TypeOK
    <3> QED
      BY <3>1, <3>2
  <2>6. Progress'
    <3> SUFFICES ASSUME NEW v \in Workers
                 PROVE  LET t == task'[v] IN
                   /\ t.pc # "idle" => t.img \in Uploads /\ t.img.header
                                         /\ t.saved \in Ceilings
                   /\ t.pc \in {"load", "check"} => t.img.sound
                   /\ t.pc = "check" => t.img.decodes
                   /\ t.pc = "restore" /\ ~t.bad => t.img.sound /\ t.img.decodes
                   /\ t.pc = "restore" /\ t.bad =>
                        \/ ~t.img.sound \/ ~t.img.decodes
                        \/ Pixels(t.img) > 2 * MaxPixels
      BY DEF Progress
    <3>1. CASE v # w
      BY <1>0, <2>4, <3>1 DEF TypeOK, Progress
    <3>2. CASE v = w
      <4>1. /\ task'[w].img = u /\ task'[w].saved = task[w].saved
            /\ task'[w].pc = (IF stop THEN "restore" ELSE "load")
            /\ task'[w].bad = stop
        BY <1>0, <2>4 DEF TypeOK, Task
      <4> QED
        BY <2>1, <2>2, <3>2, <4>1
    <3> QED
      BY <3>1, <3>2
  <2> QED
    BY <1>0, <1>5, <2>5, <2>6 DEF Probe, SameVerdict, OverlapInv
<1>6. ASSUME NEW w \in Workers, Load(w)
      PROVE  OverlapInv'
  <2> DEFINE u == task[w].img
             stop == Bomb(u) \/ ~u.decodes
  <2>1. u \in Uploads /\ u.header /\ u.sound /\ task[w].saved \in Ceilings
    BY <1>0, <1>6 DEF Load, Progress
  <2>2. stop => ~u.decodes \/ Pixels(u) > 2 * MaxPixels
    BY <1>0, <2>1, BombIsOverLimit
  <2>3. stop \in BOOLEAN
    OBVIOUS
  <2>4. task' = [task EXCEPT ![w].pc = "restore", ![w].bad = stop]
    BY <1>6 DEF Load
  <2>5. TypeOK'
    <3>1. decoded' \subseteq Uploads
      BY <1>0, <1>6, <2>1 DEF Load, TypeOK
    <3>2. task' \in [Workers -> Task]
      <4>1. CASE stop
        <5>1. task' = [task EXCEPT ![w].pc = "restore", ![w].bad = TRUE]
          BY <2>4, <4>1
        <5> QED
          BY <1>0, <5>1 DEF TypeOK, Task
      <4>2. CASE ~stop
        <5>0. stop = FALSE
          BY <2>3, <4>2
        <5>1. task' = [task EXCEPT ![w].pc = "restore", ![w].bad = FALSE]
          BY <2>4, <5>0
        <5> QED
          BY <1>0, <5>1 DEF TypeOK, Task
      <4> QED
        BY <4>1, <4>2
    <3> QED
      BY <1>0, <1>6, <3>1, <3>2 DEF Load, TypeOK
  <2>6. Progress'
    <3>1. /\ task'[w].img = u /\ task'[w].saved = task[w].saved
          /\ task'[w].pc = "restore" /\ task'[w].bad = stop
      BY <1>0, <2>4 DEF TypeOK, Task
    <3>2. \A v \in Workers : v # w => task'[v] = task[v]
      BY <1>0, <2>4 DEF TypeOK
    <3> QED
      BY <1>0, <2>1, <2>2, <3>1, <3>2 DEF Progress
  <2> QED
    BY <1>0, <1>6, <2>5, <2>6 DEF Load, SameVerdict, OverlapInv
<1>7. ASSUME NEW w \in Workers, Restore(w)
      PROVE  OverlapInv'
  <2> DEFINE u == task[w].img
  <2>1. u \in Uploads /\ u.header /\ task[w].saved \in Ceilings
    BY <1>0, <1>7 DEF Restore, Progress
  <2>2. CASE task[w].bad
    <3>1. ~Acceptable(u)
      <4>1. ~u.sound \/ ~u.decodes \/ Pixels(u) > 2 * MaxPixels
        BY <1>0, <1>7, <2>2 DEF Restore, Progress
      <4>2. Pixels(u) > 2 * MaxPixels => ~(Pixels(u) <= MaxPixels)
        BY <2>1
      <4> QED
        BY <4>1, <4>2 DEF Acceptable, Check
    <3>2. answers' = answers \cup {<<u, FALSE>>} /\ task' = [task EXCEPT ![w] = Idle]
          /\ ceiling' = task[w].saved /\ decoded' = decoded
          /\ overlapped' = overlapped
      BY <1>7, <2>2 DEF Restore, Answer
    <3>3. SameVerdict' /\ answers' \subseteq Uploads \X BOOLEAN
      BY <1>0, <2>1, <3>1, <3>2, AnswerAdded
    <3>4. TypeOK'
      BY <1>0, <1>1, <2>1, <3>2, <3>3 DEF TypeOK
    <3>5. Progress'
      BY <1>0, <3>2 DEF TypeOK, Progress, Idle
    <3> QED
      BY <3>3, <3>4, <3>5 DEF OverlapInv
  <2>3. CASE ~task[w].bad
    <3>1. u.sound /\ u.decodes
      BY <1>0, <1>7, <2>3 DEF Restore, Progress
    <3>2. task' = [task EXCEPT ![w].pc = "check"] /\ answers' = answers
          /\ ceiling' = task[w].saved /\ decoded' = decoded
          /\ overlapped' = overlapped
      BY <1>7, <2>3 DEF Restore
    <3>3. TypeOK'
      BY <1>0, <2>1, <3>2 DEF TypeOK, Task
    <3>4. Progress'
      <4>1. /\ task'[w].img = u /\ task'[w].saved = task[w].saved
            /\ task'[w].pc = "check"
        BY <1>0, <3>2 DEF TypeOK, Task
      <4>2. \A v \in Workers : v # w => task'[v] = task[v]
        BY <1>0, <3>2 DEF TypeOK
      <4> QED
        BY <1>0, <2>1, <3>1, <4>1, <4>2 DEF Progress
    <3> QED
      BY <1>0, <3>2, <3>3, <3>4 DEF SameVerdict, OverlapInv
  <2> QED
    BY <2>2, <2>3
<1>8. ASSUME NEW w \in Workers, FinalCheck(w)
      PROVE  OverlapInv'
  <2> DEFINE u == task[w].img
  <2>1. u \in Uploads /\ u.header /\ u.sound /\ u.decodes
    BY <1>0, <1>8 DEF FinalCheck, Progress
  <2>2. Check(u) \in BOOLEAN /\ (Acceptable(u) <=> Check(u))
    BY <2>1, UploadMarks DEF Acceptable, Check
  <2>3. answers' = answers \cup {<<u, Check(u)>>} /\ task' = [task EXCEPT ![w] = Idle]
        /\ ceiling' = ceiling /\ decoded' = decoded /\ overlapped' = overlapped
    BY <1>8 DEF FinalCheck, Answer
  <2>4. SameVerdict' /\ answers' \subseteq Uploads \X BOOLEAN
    <3> HIDE DEF u
    <3> DEFINE b == Check(u)
    <3>1. b \in BOOLEAN /\ (b <=> Acceptable(u)) /\ answers' = answers \cup {<<u, b>>}
      BY <2>2, <2>3
    <3> HIDE DEF b
    <3> QED
      BY <1>0, <2>1, <3>1, AnswerAdded
  <2>5. TypeOK'
    BY <1>0, <1>1, <2>3, <2>4 DEF TypeOK
  <2>6. Progress'
    BY <1>0, <2>3 DEF TypeOK, Progress, Idle
  <2> QED
    BY <2>4, <2>5, <2>6 DEF OverlapInv
<1>9. CASE UNCHANGED vars
  BY <1>0, <1>9 DEF vars, OverlapInv, TypeOK, Progress, SameVerdict, Acceptable, Check
<1> QED
  BY <1>2, <1>3, <1>4, <1>5, <1>6, <1>7, <1>8, <1>9 DEF Next

(* A fresh process: Pillow's own ceiling, nothing answered or decoded.     *)
LEMMA ValidatorStart == Init => OverlapInv /\ SerialInv
<1> SUFFICES ASSUME Init PROVE OverlapInv /\ SerialInv
  OBVIOUS
<1>1. Idle \in Task /\ ~Holds(Idle) /\ Idle.pc = "idle"
  BY DEF Idle, Task, Holds
<1>2. task \in [Workers -> Task] /\ overlapped \in BOOLEAN
  BY <1>1 DEF Init
<1>3. TypeOK
  BY <1>2 DEF Init, TypeOK, Ceilings
<1>4. \A w \in Workers : task[w].pc = "idle" /\ ~Holds(task[w])
  BY <1>1 DEF Init
<1>5. Progress /\ SameVerdict
  BY <1>4 DEF Init, Progress, SameVerdict
<1>6. OneHolds /\ CeilingMine /\ CeilingRestored /\ GuardUntilOverlap
  BY <1>4 DEF Init, OneHolds, CeilingMine, CeilingRestored, GuardUntilOverlap,
              NoBombDecoded
<1> QED
  BY <1>3, <1>5, <1>6 DEF OverlapInv, SerialInv

(* What holds however the calls interleave.                                *)
THEOREM ValidatorInvariant == Spec => []OverlapInv
BY ValidatorStart, OverlapStep, PTL DEF Spec

(* The validator keeps the types of the ceiling and of its own variables.  *)
THEOREM ValidatorTypeCorrect == Spec => []TypeOK
<1>1. OverlapInv => TypeOK
  BY DEF OverlapInv
<1> QED
  BY <1>1, ValidatorInvariant, PTL

(* However many calls interleave, each upload gets the verdict of a call   *)
(* that runs alone.                                                        *)
THEOREM VerdictIndependent == Spec => []SameVerdict
<1>1. OverlapInv => SameVerdict
  BY DEF OverlapInv
<1> QED
  BY <1>1, ValidatorInvariant, PTL

-----------------------------------------------------------------------------
(* A worker other than the one that moves keeps its variables.             *)
Only(w) == \A v \in Workers : v # w => task'[v] = task[v]

(* A call that goes on holding the ceiling leaves at most one holder.      *)
LEMMA StillOne ==
  ASSUME NEW w \in Workers, OneHolds, Holds(task[w]), Only(w),
         overlapped' = overlapped
  PROVE  OneHolds'
BY DEF OneHolds, Only

(* While no two calls have overlapped, the call that holds the ceiling     *)
(* saved Pillow's own value, opens the upload under the ceiling it set,    *)
(* and puts Pillow's value back before it answers.                         *)
LEMMA SerialStep == SerialInv /\ [Next]_vars /\ OverlapInv => SerialInv'
<1> DEFINE Kept == OneHolds /\ CeilingMine /\ CeilingRestored /\ GuardUntilOverlap
<1> SUFFICES ASSUME SerialInv, [Next]_vars, OverlapInv PROVE Kept'
  BY OverlapStep DEF SerialInv, OverlapInv
<1> USE ValidatorFacts
<1>0. TypeOK /\ TypeOK' /\ Progress /\ Kept
  BY OverlapStep DEF SerialInv, OverlapInv
<1>1. CASE overlapped'
  BY <1>1 DEF OneHolds, CeilingMine, CeilingRestored, GuardUntilOverlap
<1>2. ASSUME NEW w \in Workers, NEW u \in Uploads, RefuseEarly(w, u)
      PROVE  Kept'
  BY <1>0, <1>2 DEF RefuseEarly, OneHolds, CeilingMine, CeilingRestored,
                    GuardUntilOverlap, NoBombDecoded
<1>3. ASSUME NEW w \in Workers, NEW u \in Uploads, SaveCeiling(w, u), ~overlapped'
      PROVE  Kept'
  <2>1. ~overlapped /\ ~(\E v \in Workers : Holds(task[v]))
    BY <1>3 DEF SaveCeiling
  <2>2. ceiling = DefaultCeiling
    BY <1>0, <2>1 DEF CeilingRestored
  <2>3. /\ task'[w].pc = "set" /\ task'[w].saved = DefaultCeiling
        /\ Only(w)
    BY <1>0, <1>3, <2>2 DEF SaveCeiling, TypeOK, Idle, Only
  <2>4. \A v \in Workers : Holds(task'[v]) => v = w
    BY <2>1, <2>3 DEF Only
  <2>5. OneHolds' /\ CeilingRestored'
    BY <2>3, <2>4 DEF OneHolds, CeilingRestored, Holds
  <2>6. CeilingMine'
    BY <2>3, <2>4 DEF CeilingMine, Holds
  <2> QED
    BY <1>0, <1>3, <2>1, <2>5, <2>6 DEF SaveCeiling, GuardUntilOverlap, NoBombDecoded
<1>4. ASSUME NEW w \in Workers, SetCeiling(w), ~overlapped'
      PROVE  Kept'
  <2>1. /\ ~overlapped /\ overlapped' = overlapped /\ Holds(task[w])
        /\ ceiling' = MaxPixels
    BY <1>4 DEF SetCeiling, Holds
  <2>2. /\ task'[w].pc = "probe" /\ task'[w].saved = DefaultCeiling
        /\ Only(w)
    BY <1>0, <1>4, <2>1 DEF SetCeiling, TypeOK, Task, CeilingMine, Only
  <2>3. OneHolds'
    BY <1>0, <2>1, <2>2, StillOne
  <2>4. CeilingMine' /\ CeilingRestored'
    BY <1>0, <2>1, <2>2, <2>3 DEF CeilingMine, CeilingRestored, OneHolds, Holds, Only
  <2> QED
    BY <1>0, <1>4, <2>1, <2>3, <2>4 DEF SetCeiling, GuardUntilOverlap, NoBombDecoded
<1>5. ASSUME NEW w \in Workers, Probe(w), ~overlapped'
      PROVE  Kept'
  <2>1. /\ ~overlapped /\ overlapped' = overlapped /\ Holds(task[w])
        /\ ceiling' = MaxPixels
    BY <1>0, <1>5 DEF Probe, Holds, CeilingMine
  <2>2. /\ task'[w].pc \in {"load", "restore"} /\ task'[w].saved = DefaultCeiling
        /\ Only(w)
    BY <1>0, <1>5, <2>1 DEF Probe, TypeOK, Task, CeilingMine, Only
  <2>3. OneHolds'
    BY <1>0, <2>1, <2>2, StillOne
  <2>4. CeilingMine' /\ CeilingRestored'
    BY <1>0, <2>1, <2>2, <2>3 DEF CeilingMine, CeilingRestored, OneHolds, Holds, Only
  <2> QED
    BY <1>0, <1>5, <2>1, <2>3, <2>4 DEF Probe, GuardUntilOverlap, NoBombDecoded
<1>6. ASSUME NEW w \in Workers, Load(w), ~overlapped'
      PROVE  Kept'
  <2>1. /\ ~overlapped /\ overlapped' = overlapped /\ Holds(task[w])
        /\ ceiling = MaxPixels /\ ceiling' = ceiling
    BY <1>0, <1>6 DEF Load, Holds, CeilingMine
  <2>2. /\ task'[w].pc = "restore" /\ task'[w].saved = DefaultCeiling
        /\ Only(w)
    BY <1>0, <1>6, <2>1 DEF Load, TypeOK, Task, CeilingMine, Only
  <2>3. OneHolds'
    BY <1>0, <2>1, <2>2, StillOne
  <2>4. CeilingMine' /\ CeilingRestored'
    BY <1>0, <2>1, <2>2, <2>3 DEF CeilingMine, CeilingRestored, OneHolds, Holds, Only
  <2>5. ~Bomb(task[w].img) => Pixels(task[w].img) <= 2 * MaxPixels
    BY <1>0, <1>6, <2>1 DEF Load, Progress, Bomb
  <2>6. GuardUntilOverlap'
    BY <1>0, <1>6, <2>1, <2>5 DEF Load, GuardUntilOverlap, NoBombDecoded
  <2> QED
    BY <2>3, <2>4, <2>6
<1>7. ASSUME NEW w \in Workers, Restore(w), ~overlapped'
      PROVE  Kept'
  <2>1. /\ ~overlapped /\ overlapped' = overlapped /\ Holds(task[w])
        /\ ceiling' = DefaultCeiling /\ decoded' = decoded
    BY <1>0, <1>7 DEF Restore, Holds, CeilingMine
  <2>2. ~Holds(task'[w]) /\ Only(w)
    <3>1. CASE task[w].bad
      BY <1>0, <1>7, <3>1 DEF Restore, Answer, TypeOK, Idle, Holds, Only
    <3>2. CASE ~task[w].bad
      <4>1. task' = [task EXCEPT ![w].pc = "check"]
        BY <1>7, <3>2 DEF Restore
      <4> QED
        BY <1>0, <4>1 DEF TypeOK, Task, Holds, Only
    <3> QED
      BY <3>1, <3>2
  <2>3. \A v \in Workers : ~Holds(task'[v])
    BY <1>0, <2>1, <2>2 DEF OneHolds, Only
  <2>4. OneHolds' /\ CeilingMine' /\ CeilingRestored'
    BY <2>1, <2>3 DEF OneHolds, CeilingMine, CeilingRestored, Holds
  <2> QED
    BY <1>0, <2>1, <2>4 DEF GuardUntilOverlap, NoBombDecoded
<1>8. ASSUME NEW w \in Workers, FinalCheck(w), ~overlapped'
      PROVE  Kept'
  <2>1. /\ overlapped' = overlapped /\ ceiling' = ceiling /\ decoded' = decoded
        /\ ~Holds(task[w])
    BY <1>8 DEF FinalCheck, Holds
  <2>2. ~Holds(task'[w]) /\ Only(w)
    BY <1>0, <1>8 DEF FinalCheck, Answer, TypeOK, Idle, Holds, Only
  <2>3. \A v \in Workers : Holds(task'[v]) => Holds(task[v]) /\ task'[v] = task[v]
    BY <2>2 DEF Only
  <2>4. \A v \in Workers : Holds(task[v]) => Holds(task'[v])
    BY <2>1, <2>2 DEF Only
  <2>5. OneHolds' /\ CeilingMine' /\ CeilingRestored'
    BY <1>0, <2>1, <2>3, <2>4 DEF OneHolds, CeilingMine, CeilingRestored, Holds
  <2> QED
    BY <1>0, <2>1, <2>5 DEF GuardUntilOverlap, NoBombDecoded
<1>9. CASE UNCHANGED vars
  BY <1>0, <1>9 DEF vars, OneHolds, CeilingMine, CeilingRestored,
                    GuardUntilOverlap, NoBombDecoded
<1> QED
  BY <1>1, <1>2, <1>3, <1>4, <1>5, <1>6, <1>7, <1>8, <1>9 DEF Next

(* What holds until two calls overlap, for any number of threads.          *)
THEOREM SerialInvariant == Spec => []SerialInv
BY ValidatorStart, SerialStep, ValidatorInvariant, PTL DEF Spec

(* Until two calls overlap, no upload past twice the configured ceiling is *)
(* decoded.                                                                *)
THEOREM SerialGuard == Spec => []GuardUntilOverlap
<1>1. SerialInv => GuardUntilOverlap
  BY DEF SerialInv
<1> QED
  BY <1>1, SerialInvariant, PTL

(* Until two calls overlap, Pillow's own ceiling is back whenever no call  *)
(* holds it.                                                               *)
THEOREM SerialRestore == Spec => []CeilingRestored
<1>1. SerialInv => CeilingRestored
  BY DEF SerialInv
<1> QED
  BY <1>1, SerialInvariant, PTL
=============================================================================
