------------------------- MODULE TokenFamiliesProofs -------------------------
(* Proofs about the atomic scheme of TokenFamilies, for every SessionIds.  *)
EXTENDS TokenFamilies, TLAPS

(* AInv is inductive: it holds initially and every operation of the scheme *)
(* (login, refresh, logout, burn, account deletion) keeps it.              *)
THEOREM FamiliesInvariant == ASpec => []AInv
<1>1. AInit => AInv
  BY DEF AInit, AInv, ATypeOK, FamilyPromise
<1>2. AInv /\ [ANext]_avars => AInv'
  <2> SUFFICES ASSUME AInv, [ANext]_avars PROVE AInv'
    OBVIOUS
  <2> USE DEF AInv, ATypeOK, FamilyPromise
  <2>1. ASSUME NEW f \in SessionIds, Login(f) PROVE AInv'
    BY <2>1 DEF Login
  <2>2. ASSUME NEW f \in SessionIds, Revoke(f) PROVE AInv'
    BY <2>2 DEF Revoke
  <2>3. ASSUME NEW f \in SessionIds, Burn(f) PROVE AInv'
    BY <2>3 DEF Burn
  <2>4. ASSUME NEW f \in SessionIds, NEW n \in SessionIds, Rotate(f, n) PROVE AInv'
    BY <2>4 DEF Rotate
  <2>5. ASSUME NEW F \in SUBSET SessionIds, Erase(F) PROVE AInv'
    BY <2>5 DEF Erase
  <2>6. ASSUME NEW n \in SessionIds, Spend(n) PROVE AInv'
    BY <2>6 DEF Spend
  <2>7. CASE UNCHANGED avars
    BY <2>7 DEF avars
  <2> QED
    BY <2>1, <2>2, <2>3, <2>4, <2>5, <2>6, <2>7 DEF ANext
<1> QED
  BY <1>1, <1>2, PTL DEF ASpec

(* The scheme keeps its promise: one accepted token per login, none after  *)
(* a detected replay.                                                      *)
THEOREM FamiliesKeepPromise == ASpec => []FamilyPromise
<1>1. AInv => FamilyPromise
  BY DEF AInv
<1> QED
  BY <1>1, FamiliesInvariant, PTL
=============================================================================
