---------------------------- MODULE TokenFamilies ----------------------------
(***************************************************************************)
(* What the refresh-token scheme promises, with every operation atomic     *)
(* (the design stated at the top of app/auth/refresh_tokens.py).  A login  *)
(* opens a family holding one live token; a refresh trades the live token  *)
(* for a new one; a logout leaves none; a detected replay kills the family *)
(* for good; deleting an account erases all its families.                  *)
(***************************************************************************)
CONSTANT SessionIds

VARIABLES
  live,    \* live[f]: the tokens of family f that a refresh would accept
  burned,  \* the families in which a replay was detected
  used     \* the identifiers handed out so far (uuid4: never reused)

avars == <<live, burned, used>>

ATypeOK ==
  /\ live \in [SessionIds -> SUBSET SessionIds]
  /\ burned \subseteq SessionIds
  /\ used \subseteq SessionIds

AInit ==
  /\ live = [f \in SessionIds |-> {}]
  /\ burned = {}
  /\ used = {}

Login(f) ==
  /\ f \notin used
  /\ used' = used \cup {f}
  /\ live' = [live EXCEPT ![f] = {f}]
  /\ UNCHANGED burned

(* An id handed out to a login that is promised nothing here.              *)
Spend(n) ==
  /\ n \notin used
  /\ used' = used \cup {n}
  /\ UNCHANGED <<live, burned>>

Rotate(f, n) ==
  /\ live[f] # {}
  /\ n \notin used
  /\ used' = used \cup {n}
  /\ live' = [live EXCEPT ![f] = {n}]
  /\ UNCHANGED burned

Revoke(f) ==
  /\ live[f] # {}
  /\ live' = [live EXCEPT ![f] = {}]
  /\ UNCHANGED <<burned, used>>

Burn(f) ==
  /\ f \in used
  /\ live' = [live EXCEPT ![f] = {}]
  /\ burned' = burned \cup {f}
  /\ UNCHANGED used

Erase(F) ==
  /\ live' = [f \in SessionIds |-> IF f \in F THEN {} ELSE live[f]]
  /\ UNCHANGED <<burned, used>>

ANext ==
  \/ \E f \in SessionIds : Login(f) \/ Spend(f) \/ Revoke(f) \/ Burn(f)
  \/ \E f, n \in SessionIds : Rotate(f, n)
  \/ \E F \in SUBSET SessionIds : Erase(F)

ASpec == AInit /\ [][ANext]_avars

(* A family never has two tokens that would both be accepted, and a family *)
(* in which a replay was detected never has one again.                     *)
FamilyPromise ==
  \A f \in SessionIds :
    /\ \A s, t \in live[f] : s = t
    /\ f \in burned => live[f] = {}

(* The inductive form: only identifiers that were handed out are families  *)
(* of anything, so a fresh login cannot land in a burned family.           *)
AInv ==
  /\ ATypeOK
  /\ burned \subseteq used
  /\ FamilyPromise
=============================================================================
