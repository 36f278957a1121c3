-------------------------- MODULE StegoImageProofs --------------------------
(***************************************************************************)
(* Proofs about StegoImage, for pictures, payloads and headers of any size *)
(* and any permutation of the region behind the header.                    *)
(***************************************************************************)
EXTENDS StegoImage, FiniteSetTheorems, TLAPS

(* Sizes are natural numbers, and a saved picture has the size of the one  *)
(* it was made from.                                                       *)
LEMMA Sizes ==
  ASSUME NEW c \in Carriers
  PROVE  /\ FlatSize(c) \in Nat
         /\ FlatSize(Converted(c)) = FlatSize(c)
         /\ Converted(Converted(c)) = Converted(c)
<1>1. /\ c \in Picture /\ c.width \in Nat /\ c.height \in Nat
      /\ c.mode \in {"RGB", "RGBA", "L", "P"}
  BY StegoConstants DEF Picture
<1>2. ConvertedMode(ConvertedMode(c.mode)) = ConvertedMode(c.mode)
  BY DEF ConvertedMode
<1>3. /\ Converted(c).width = c.width /\ Converted(c).height = c.height
      /\ Converted(c).mode = ConvertedMode(c.mode)
  BY <1>1 DEF Converted, Picture
<1>4. FlatSize(Converted(c)) = FlatSize(c)
  BY <1>2, <1>3 DEF FlatSize
<1>5. c.width * c.height \in Nat
  BY <1>1
<1>6. FlatSize(c) \in Nat
  BY <1>5 DEF FlatSize
<1>7. Converted(Converted(c)) = Converted(c)
  BY <1>1, <1>2, <1>3 DEF Converted, Picture
<1> QED
  BY <1>4, <1>6, <1>7

(* The same of the picture in the client's hands.                          *)
LEMMA PictureSize ==
  ASSUME TypeOK
  PROVE  /\ Size \in Nat
         /\ \E c \in Carriers : Size = FlatSize(c)
         /\ FlatSize(Converted(carrier)) = Size
         /\ Converted(carrier) \in Carriers \cup {Converted(c) : c \in Carriers}
BY Sizes DEF TypeOK, Size

(* The header is not empty, and lengths are natural numbers.               *)
LEMMA HeaderFacts ==
  /\ HeaderBits \in Nat
  /\ \A f \in Fields : \E i \in HeaderPositions : FieldOf[i] = f
  /\ HeaderBits > 0
  /\ \A len \in Nat : CipherLen(len) \in Nat /\ CipherBits(len) \in Nat
<1>1. HeaderBits \in Nat
  BY StegoConstants DEF HeaderBits
<1>2. \A len \in Nat : CipherLen(len) \in Nat /\ CipherBits(len) \in Nat
  BY StegoConstants DEF CipherLen, CipherBits
<1>3. \A f \in Fields : \E i \in HeaderPositions : FieldOf[i] = f
  BY HeaderLayout
<1>4. HeaderBits > 0
  BY <1>1, <1>3 DEF Fields, HeaderPositions
<1> QED
  BY <1>1, <1>2, <1>3, <1>4

(* The positions the permutation gives are behind the header, in the       *)
(* picture, and different.                                                 *)
LEMMA OrderFacts ==
  ASSUME TypeOK, NEW e \in Envelopes, NEW n \in Nat,
         HeaderBits + n <= Size
  PROVE  /\ \A k \in 0..(n - 1) :
              /\ Order(e, Size)[k] \in 0..(Size - 1)
              /\ Order(e, Size)[k] \notin HeaderPositions
         /\ \A k, l \in 0..(n - 1) :
              Order(e, Size)[k] = Order(e, Size)[l] => k = l
<1>1. PICK c \in Carriers : Size = FlatSize(c)
  BY PictureSize
<1> DEFINE after == 0..(FlatSize(c) - HeaderBits - 1)
<1>2. /\ \A k \in after : Order(e, FlatSize(c))[k] \in HeaderBits..(FlatSize(c) - 1)
      /\ \A k, l \in after :
           Order(e, FlatSize(c))[k] = Order(e, FlatSize(c))[l] => k = l
  BY OrderPermutes
<1>3. Size \in Nat /\ HeaderBits \in Nat
  BY PictureSize, HeaderFacts
<1>4. 0..(n - 1) \subseteq after
  BY <1>1, <1>3
<1>5. \A k \in 0..(n - 1) : Order(e, Size)[k] \in HeaderBits..(Size - 1)
  BY <1>1, <1>2, <1>4
<1>6. \A k, l \in 0..(n - 1) : Order(e, Size)[k] = Order(e, Size)[l] => k = l
  BY <1>1, <1>2, <1>4
<1>7. \A x \in HeaderBits..(Size - 1) : x \in 0..(Size - 1) /\ x \notin HeaderPositions
  BY <1>3 DEF HeaderPositions
<1> QED
  BY <1>5, <1>6, <1>7

(* What the embedder writes: every header bit in place, every ciphertext   *)
(* bit where the permutation puts it.                                      *)
LEMMA WrittenBits ==
  ASSUME TypeOK, NEW e \in Envelopes, NEW len \in Nat,
         HeaderBits + CipherBits(len) <= Size
  PROVE  /\ Written(e, len) \in [0..(Size - 1) -> Bit]
         /\ \A i \in HeaderPositions : Written(e, len)[i] = HeaderBit(e, i)
         /\ \A k \in 0..(CipherBits(len) - 1) :
              Written(e, len)[Order(e, Size)[k]] = CipherBit(e, k)
<1> DEFINE n == CipherBits(len)
           at(i) == CHOOSE k \in 0..(n - 1) : Order(e, Size)[k] = i
           hit(i) == \E k \in 0..(n - 1) : Order(e, Size)[k] = i
<1>1. n \in Nat /\ HeaderBits \in Nat /\ Size \in Nat
  BY HeaderFacts, PictureSize
<1>2. HeaderPositions \subseteq 0..(Size - 1) /\ HeaderPositions \subseteq Nat
  BY <1>1 DEF HeaderPositions
<1>3. /\ \A k \in 0..(n - 1) : /\ Order(e, Size)[k] \in 0..(Size - 1)
                               /\ Order(e, Size)[k] \notin HeaderPositions
      /\ \A k, l \in 0..(n - 1) : Order(e, Size)[k] = Order(e, Size)[l] => k = l
  BY <1>1, OrderFacts
<1>4. \A i : hit(i) => at(i) \in 0..(n - 1) /\ Order(e, Size)[at(i)] = i
  OBVIOUS
<1>5. \A k \in 0..(n - 1) : hit(Order(e, Size)[k]) /\ at(Order(e, Size)[k]) = k
  BY <1>3, <1>4
<1>6. \A i \in Nat : HeaderBit(e, i) \in Bit /\ CipherBit(e, i) \in Bit
  BY DEF HeaderBit, CipherBit, Bit
<1>7. \A i : hit(i) => CipherBit(e, at(i)) \in Bit
  BY <1>1, <1>4, <1>6
<1>8. Written(e, len) =
        [i \in 0..(Size - 1) |->
           IF i \in HeaderPositions THEN HeaderBit(e, i)
           ELSE IF hit(i) THEN CipherBit(e, at(i)) ELSE lsb[i]]
  BY DEF Written
<1>9. \A i \in 0..(Size - 1) : lsb[i] \in Bit
  BY DEF TypeOK
<1> HIDE DEF n, at, hit
<1>10. Written(e, len) \in [0..(Size - 1) -> Bit]
  BY <1>2, <1>6, <1>7, <1>8, <1>9
<1>11. \A i \in HeaderPositions : Written(e, len)[i] = HeaderBit(e, i)
  BY <1>2, <1>8
<1>12. \A k \in 0..(n - 1) : Written(e, len)[Order(e, Size)[k]] = CipherBit(e, k)
  BY <1>3, <1>5, <1>8
<1> QED
  BY <1>10, <1>11, <1>12 DEF n

(* A noise bit is a bit.                                                   *)
LEMMA NoiseIsBit == Noise \in Bit
BY DEF Noise, Bit

(* A picture that carries nothing.                                         *)
LEMMA BlankPicture ==
  ASSUME NEW c \in Carriers, envs \in [Envelopes -> Envelope \cup {Fresh}],
         carrier = c, lsb = Blank(c), last = None, damaged = {}, harm = NoHarm
  PROVE  StegoInv
<1>1. FlatSize(c) \in Nat /\ Size = FlatSize(c)
  BY Sizes DEF Size
<1>2. lsb \in [0..(Size - 1) -> Bit] /\ \A i \in 0..(Size - 1) : lsb[i] = Noise
  BY <1>1, NoiseIsBit DEF Blank
<1>3. harm \in Harm
  BY DEF NoHarm, Harm
<1> QED
  BY <1>1, <1>2, <1>3 DEF StegoInv, TypeOK, LastWritten, BlankBefore

(* Every step keeps the invariant: an embedding puts the whole envelope in *)
(* the picture, and damage is remembered in damaged.                       *)
LEMMA StegoStep == StegoInv /\ [Next]_vars => StegoInv'
<1> SUFFICES ASSUME StegoInv, [Next]_vars PROVE StegoInv'
  OBVIOUS
<1>0. TypeOK /\ LastWritten /\ BlankBefore
  BY DEF StegoInv
<1>s. Size \in Nat /\ HeaderBits \in Nat
  BY <1>0, PictureSize, HeaderFacts
<1>1. ASSUME NEW c \in Carriers, TakePicture(c)
      PROVE  StegoInv'
  <2>1. envs' \in [Envelopes -> Envelope \cup {Fresh}]
    BY <1>0, <1>1 DEF TakePicture, TypeOK
  <2>2. FlatSize(c) \in Nat /\ Size' = FlatSize(c)
    BY <1>1, Sizes DEF Size, TakePicture
  <2>3. lsb' \in [0..(Size' - 1) -> Bit] /\ \A i \in 0..(Size' - 1) : lsb'[i] = Noise
    BY <1>1, <2>2, NoiseIsBit DEF Blank, TakePicture
  <2>4. harm' \in Harm
    BY <1>1 DEF NoHarm, Harm, TakePicture
  <2> QED
    BY <1>1, <2>1, <2>2, <2>3, <2>4
       DEF StegoInv, TypeOK, LastWritten, BlankBefore, TakePicture
<1>2. ASSUME NEW e \in Envelopes, NEW p \in Passphrases, NEW len \in PayloadLens,
             NEW h \in Harms, Embed(e, p, len, h)
      PROVE  StegoInv'
  <2>1. len \in Nat /\ e # None
    BY StegoConstants
  <2>2. HeaderBits + CipherBits(len) <= Size
    BY <1>s, <1>2, <2>1, HeaderFacts DEF Embed, TooLong, Size
  <2>3. /\ Written(e, len) \in [0..(Size - 1) -> Bit]
        /\ \A i \in HeaderPositions : Written(e, len)[i] = HeaderBit(e, i)
        /\ \A k \in 0..(CipherBits(len) - 1) :
             Written(e, len)[Order(e, Size)[k]] = CipherBit(e, k)
    BY <1>0, <2>1, <2>2, WrittenBits
  <2>4. /\ Size' = Size
        /\ carrier' \in Carriers \cup {Converted(c) : c \in Carriers}
    BY <1>0, <1>2, PictureSize DEF Embed, Size
  <2>5. /\ envs' \in [Envelopes -> Envelope \cup {Fresh}]
        /\ envs'[e] = [pass |-> p, len |-> len] /\ envs'[e] # Fresh
        /\ envs'[e].len = len
    BY <1>0, <1>2, <2>1, StegoConstants DEF Embed, TypeOK, Envelope
  <2>6. harm' \in Harm
    BY <1>2, StegoConstants DEF Embed, Harms, Harm
  <2>7. /\ lsb' = Written(e, len) /\ last' = e /\ damaged' = {} /\ harm' = h
        /\ h.length # CipherLen(len)
    BY <1>2 DEF Embed
  <2>8. TypeOK'
    BY <2>3, <2>4, <2>5, <2>6, <2>7 DEF TypeOK
  <2>9. LastWritten'
    BY <2>2, <2>3, <2>4, <2>5, <2>7 DEF LastWritten, HeaderBit, CipherBit
  <2>10. BlankBefore'
    BY <2>1, <2>7 DEF BlankBefore
  <2> QED
    BY <2>8, <2>9, <2>10 DEF StegoInv
<1>3. ASSUME NEW i \in 0..(Size - 1), Damage(i)
      PROVE  StegoInv'
  <2>1. /\ lsb' = [lsb EXCEPT ![i] = Noise] /\ damaged' = damaged \cup {i}
        /\ UNCHANGED <<carrier, envs, last, harm>> /\ Size' = Size
    BY <1>3 DEF Damage, Size
  <2>2. \A j \in 0..(Size - 1) : lsb'[j] = IF j = i THEN Noise ELSE lsb[j]
    BY <1>0, <2>1 DEF TypeOK
  <2>3. TypeOK'
    BY <1>0, <2>1, NoiseIsBit DEF TypeOK
  <2>4. ASSUME last # None
        PROVE  /\ HeaderPositions \subseteq 0..(Size - 1)
               /\ \A k \in 0..(CipherBits(envs[last].len) - 1) :
                    Order(last, Size)[k] \in 0..(Size - 1)
    <3>1. /\ last \in Envelopes /\ envs[last] \in Envelope
          /\ HeaderBits + CipherBits(envs[last].len) <= Size
      BY <1>0, <2>4 DEF TypeOK, LastWritten
    <3>2. CipherBits(envs[last].len) \in Nat
      BY <3>1, HeaderFacts DEF Envelope
    <3> QED
      BY <1>0, <1>s, <3>1, <3>2, OrderFacts DEF HeaderPositions
  <2>5. LastWritten'
    BY <1>0, <2>1, <2>2, <2>4 DEF LastWritten, HeaderBit, CipherBit, Noise
  <2>6. BlankBefore'
    BY <1>0, <2>1, <2>2 DEF BlankBefore, Noise
  <2> QED
    BY <2>3, <2>5, <2>6 DEF StegoInv
<1>4. CASE UNCHANGED vars
  <2>1. Size' = Size
    BY <1>4 DEF vars, Size
  <2> QED
    BY <1>0, <1>4, <2>1 DEF vars, StegoInv, TypeOK, LastWritten, BlankBefore,
                           HeaderBit, CipherBit, Noise
<1> QED
  BY <1>1, <1>2, <1>3, <1>4 DEF Next

(* A picture that carries nothing satisfies the invariant.                 *)
LEMMA StegoStart == Init => StegoInv
<1> SUFFICES ASSUME Init PROVE StegoInv
  OBVIOUS
<1>1. carrier \in Carriers /\ envs \in [Envelopes -> Envelope \cup {Fresh}]
  BY DEF Init
<1> QED
  BY <1>1, BlankPicture DEF Init

(* StegoInv holds in every reachable state.                                *)
THEOREM StegoInvariant == Spec => []StegoInv
BY StegoStart, StegoStep, PTL DEF Spec

(* Every handler keeps the picture, the envelopes and the history well     *)
(* typed.                                                                  *)
THEOREM StegoTypeCorrect == Spec => []TypeOK
<1>1. StegoInv => TypeOK
  BY DEF StegoInv
<1> QED
  BY <1>1, StegoInvariant, PTL

-----------------------------------------------------------------------------
(* A header field that still reads as an envelope's was not damaged, and   *)
(* belongs to the envelope embedded last.                                  *)
LEMMA FieldOfLast ==
  ASSUME StegoInv, Size >= HeaderBits, NEW f \in Fields, NEW e \in Envelopes,
         FieldIs(f, e)
  PROVE  /\ last = e
         /\ \A i \in HeaderPositions : FieldOf[i] = f => i \notin damaged
<1>1. TypeOK /\ LastWritten /\ BlankBefore
  BY DEF StegoInv
<1>2. PICK i \in HeaderPositions : FieldOf[i] = f
  BY HeaderFacts
<1>3. \A j \in HeaderPositions : FieldOf[j] = f => lsb[j] = HeaderBit(e, j)
  BY DEF FieldIs
<1>4. \A j \in HeaderPositions, x \in Envelopes : HeaderBit(x, j) # Noise
  BY DEF HeaderBit, Noise
<1>5. HeaderPositions \subseteq 0..(Size - 1)
  BY <1>1, PictureSize, HeaderFacts DEF HeaderPositions
<1>6. last # None
  BY <1>1, <1>2, <1>3, <1>4, <1>5 DEF BlankBefore
<1>7. last \in Envelopes
  BY <1>1, <1>6 DEF TypeOK
<1>8. \A j \in HeaderPositions :
        lsb[j] = IF j \in damaged THEN Noise ELSE HeaderBit(last, j)
  BY <1>1, <1>6 DEF LastWritten
<1>9. \A j \in HeaderPositions : FieldOf[j] = f => j \notin damaged
  BY <1>3, <1>4, <1>8
<1>10. HeaderBit(last, i) = HeaderBit(e, i)
  BY <1>2, <1>3, <1>8, <1>9
<1>11. last = e
  BY <1>10 DEF HeaderBit
<1> QED
  BY <1>9, <1>11

(* A field whose bits are all as they were embedded reads as the last      *)
(* envelope's.                                                             *)
LEMMA FieldReads ==
  ASSUME StegoInv, last # None, NEW f \in Fields,
         \A i \in HeaderPositions : FieldOf[i] = f => i \notin damaged
  PROVE  FieldIs(f, last) /\ FieldValue(f) = last
<1>1. TypeOK /\ LastWritten /\ last \in Envelopes
  BY DEF StegoInv, TypeOK
<1>2. FieldIs(f, last)
  BY <1>1 DEF LastWritten, FieldIs
<1>3. /\ Size \in Nat /\ HeaderBits \in Nat /\ envs[last] \in Envelope
      /\ HeaderBits + CipherBits(envs[last].len) <= Size
  BY <1>1, PictureSize, HeaderFacts DEF LastWritten, TypeOK
<1>4. CipherBits(envs[last].len) \in Nat
  BY <1>3, HeaderFacts DEF Envelope
<1>5. \A e \in Envelopes : FieldIs(f, e) => e = last
  BY <1>3, <1>4, FieldOfLast
<1> QED
  BY <1>1, <1>2, <1>5 DEF FieldValue

(* A field that reads as an envelope's is intact.                          *)
LEMMA FieldIntact ==
  ASSUME StegoInv, Size >= HeaderBits, NEW f \in Fields, FieldValue(f) # None
  PROVE  /\ last # None /\ FieldValue(f) = last
         /\ \A i \in HeaderPositions : FieldOf[i] = f => i \notin damaged
<1>1. PICK e \in Envelopes : FieldIs(f, e)
  BY DEF FieldValue
<1>2. \A x \in Envelopes : FieldIs(f, x) => last = x
  BY FieldOfLast
<1>3. FieldValue(f) = last
  BY <1>1, <1>2 DEF FieldValue
<1> QED
  BY <1>1, <1>2, <1>3, FieldOfLast, StegoConstants

(* What decrypts is the last envelope, whole, under its own passphrase.    *)
LEMMA AuthenticIsIntact ==
  ASSUME StegoInv, HeaderRead, NEW p \in Passphrases, NEW e \in Envelopes,
         Authentic(p, e)
  PROVE  last = e /\ envs[e].pass = p /\ Intact
<1>1. TypeOK /\ LastWritten /\ Size >= HeaderBits /\ e # None
  BY StegoConstants DEF StegoInv, HeaderRead
<1>2. last = e
  BY <1>1, FieldIntact DEF Authentic, Fields
<1>3. DeclaredLength = CipherLen(envs[e].len) /\ last # None
  BY <1>1, <1>2 DEF Authentic
<1>4. FieldValue("length") # None
  BY <1>1, <1>2, <1>3 DEF DeclaredLength, LastWritten
<1>5. \A f \in Fields : FieldValue(f) # None
  BY <1>1, <1>4 DEF Fields, HeaderRead, Authentic, CostRight
<1>6. \A i \in HeaderPositions : FieldOf[i] \in Fields
  BY HeaderLayout
<1>7. \A i \in HeaderPositions : i \notin damaged
  BY <1>1, <1>5, <1>6, FieldIntact
<1>8. \A k \in 0..(CipherBits(envs[e].len) - 1) :
        lsb[Order(e, Size)[k]] = CipherBit(e, k)
  BY DEF Authentic
<1>9. \A k : CipherBit(e, k) # Noise
  BY DEF CipherBit, Noise
<1>10. \A k \in 0..(CipherBits(envs[e].len) - 1) : Order(e, Size)[k] \notin damaged
  BY <1>1, <1>2, <1>3, <1>8, <1>9 DEF LastWritten
<1>11. damaged \cap UsedBits(last) = {}
  BY <1>2, <1>7, <1>10 DEF UsedBits
<1> QED
  BY <1>2, <1>3, <1>11 DEF Intact, Authentic

(* An intact envelope can be read and authenticates.                       *)
LEMMA IntactIsAuthentic ==
  ASSUME StegoInv, Intact
  PROVE  /\ last \in Envelopes /\ HeaderRead /\ CipherReadable /\ CostRight
         /\ \A p \in Passphrases : envs[last].pass = p => Authentic(p, last)
<1>1. TypeOK /\ LastWritten /\ last # None /\ last \in Envelopes
  BY DEF StegoInv, Intact, TypeOK
<1>2. /\ Size \in Nat /\ HeaderBits \in Nat /\ envs[last] \in Envelope
      /\ envs[last] # Fresh
      /\ HeaderBits + CipherBits(envs[last].len) <= Size
  BY <1>1, PictureSize, HeaderFacts DEF LastWritten, TypeOK
<1>3. CipherBits(envs[last].len) \in Nat /\ CipherLen(envs[last].len) \in Nat
  BY <1>2, HeaderFacts DEF Envelope
<1>4. \A i \in HeaderPositions : i \notin damaged
  BY DEF Intact, UsedBits
<1>5. \A f \in Fields : FieldValue(f) = last
  BY <1>1, <1>4, FieldReads
<1>6. HeaderRead /\ CostRight
  BY <1>1, <1>2, <1>3, <1>5, StegoConstants DEF HeaderRead, CostRight, Fields
<1>7. DeclaredLength = CipherLen(envs[last].len)
  BY <1>1, <1>5, StegoConstants DEF DeclaredLength, Fields
<1>8. CipherReadable
  BY <1>2, <1>3, <1>7 DEF CipherReadable, CipherBits
<1>9. \A k \in 0..(CipherBits(envs[last].len) - 1) : Order(last, Size)[k] \notin damaged
  BY DEF Intact, UsedBits
<1>10. \A k \in 0..(CipherBits(envs[last].len) - 1) :
         lsb[Order(last, Size)[k]] = CipherBit(last, k)
  BY <1>1, <1>9 DEF LastWritten
<1>11. FieldValue("salt") = last /\ FieldValue("nonce") = last
  BY <1>5 DEF Fields
<1>12. \A p \in Passphrases : envs[last].pass = p => Authentic(p, last)
  BY <1>2, <1>6, <1>7, <1>10, <1>11 DEF Authentic
<1> QED
  BY <1>1, <1>6, <1>8, <1>12

(* The picture gives back exactly the payload embedded last, under its     *)
(* passphrase, and only when no bit of it changed: extractor.extract.      *)
THEOREM ExtractIsExact == Spec => []ExtractExact
<1>1. StegoInv => ExtractExact
  <2> SUFFICES ASSUME StegoInv, NEW p \in Passphrases
               PROVE  /\ Extract(p) \in Envelopes <=> (Intact /\ envs[last].pass = p)
                      /\ Extract(p) \in Envelopes => Extract(p) = last
    BY DEF ExtractExact
  <2>1. "MemoryError" \notin Envelopes /\ "ExtractionError" \notin Envelopes
    BY StegoConstants
  <2>2. ASSUME Extract(p) \in Envelopes
        PROVE  Intact /\ envs[last].pass = p /\ Extract(p) = last
    <3>1. HeaderRead /\ \E e \in Envelopes : Authentic(p, e)
      BY <2>1, <2>2 DEF Extract
    <3>2. Extract(p) = CHOOSE e \in Envelopes : Authentic(p, e)
      BY <2>1, <2>2 DEF Extract
    <3>3. Authentic(p, Extract(p))
      BY <3>1, <3>2
    <3> QED
      BY <2>2, <3>1, <3>3, AuthenticIsIntact
  <2>3. ASSUME Intact, envs[last].pass = p
        PROVE  Extract(p) \in Envelopes
    <3>1. /\ last \in Envelopes /\ HeaderRead /\ CipherReadable /\ CostRight
          /\ Authentic(p, last)
      BY <2>3, IntactIsAuthentic
    <3>2. ~OutOfMemory
      BY <3>1 DEF OutOfMemory
    <3>3. Extract(p) = CHOOSE e \in Envelopes : Authentic(p, e)
      BY <3>1, <3>2 DEF Extract
    <3> QED
      BY <3>1, <3>3
  <2> QED
    BY <2>2, <2>3
<1> QED
  BY <1>1, StegoInvariant, PTL

-----------------------------------------------------------------------------
(* Whole units of size d: x of them are within n if and only if x is at    *)
(* most n \div d.                                                          *)
LEMMA DivBound ==
  ASSUME NEW n \in Nat, NEW d \in Nat \ {0}, NEW x \in Nat
  PROVE  /\ n \div d \in Nat
         /\ x <= n \div d <=> x * d <= n
<1> DEFINE q == n \div d
<1>1. q \in Int /\ q * d <= n /\ n < (q + 1) * d
  BY SMTT(60)
<1> HIDE DEF q
<1>2. q \in Nat
  <2>1. CASE q < 0
    <3>1. (q + 1) * d <= 0
      BY <1>1, <2>1, SMTT(30)
    <3> QED
      BY <1>1, <3>1
  <2> QED
    BY <1>1, <2>1
<1>3. ASSUME x <= q PROVE x * d <= n
  <2>1. x * d <= q * d
    BY <1>2, <1>3, SMTT(30)
  <2>2. x * d \in Nat /\ q * d \in Nat
    BY <1>2
  <2> QED
    BY <1>1, <2>1, <2>2
<1>4. ASSUME x > q PROVE x * d > n
  <2>1. (q + 1) * d <= x * d
    BY <1>2, <1>4, SMTT(30)
  <2>2. x * d \in Nat /\ (q + 1) * d \in Nat
    BY <1>2
  <2> QED
    BY <1>1, <2>1, <2>2
<1> QED
  BY <1>2, <1>3, <1>4 DEF q

(* The bytes of the given mode and the channel bytes of the converted one. *)
LEMMA Capacity ==
  ASSUME TypeOK
  PROVE  /\ TotalCapacity(carrier) = Size \div ByteBits
         /\ TotalCapacity(carrier) \in Nat
         /\ \A x \in Nat : x <= TotalCapacity(carrier) <=> x * ByteBits <= Size
<1>1. Size \in Nat
  BY PictureSize
<1>2. ASSUME NEW c \in Picture
      PROVE  ChannelCount(c.mode) =
               IF ConvertedMode(c.mode) = "RGBA" THEN 4 ELSE 3
  BY DEF Picture, ChannelCount, ConvertedMode
<1>3. carrier \in Picture
  <2>1. ASSUME NEW c \in Picture PROVE Converted(c) \in Picture
    BY DEF Converted, ConvertedMode, Picture
  <2> QED
    BY <2>1, StegoConstants DEF TypeOK
<1>4. TotalCapacity(carrier) = Size \div ByteBits
  BY <1>2, <1>3 DEF TotalCapacity, Size, FlatSize
<1> QED
  BY <1>1, <1>4, DivBound, StegoConstants

(* On every picture with room for an envelope the service's capacity check *)
(* and the embedder's agree: capacity.fits, lsb_png.embed.                 *)
THEOREM CapacityChecksAgree == Spec => []CapacityAgrees
<1>1. TypeOK => CapacityAgrees
  <2> SUFFICES ASSUME TypeOK, HeaderLen + TagBytes <= TotalCapacity(carrier),
                      NEW len \in PayloadLens
               PROVE  Fits(carrier, len) <=> ~TooLong(carrier, len)
    BY DEF CapacityAgrees
  <2>1. /\ HeaderLen \in Nat /\ TagBytes \in Nat /\ len \in Nat
        /\ ByteBits \in Nat /\ TotalCapacity(carrier) \in Nat /\ Size \in Nat
    BY StegoConstants, Capacity, PictureSize
  <2>2. MaxPayload(carrier) = TotalCapacity(carrier) - HeaderLen - TagBytes
    BY <2>1 DEF MaxPayload
  <2>3. Fits(carrier, len) <=> HeaderLen + len + TagBytes <= TotalCapacity(carrier)
    BY <2>1, <2>2 DEF Fits
  <2>4. HeaderBits + CipherBits(len) = (HeaderLen + len + TagBytes) * ByteBits
    BY <2>1 DEF HeaderBits, CipherBits, CipherLen
  <2>5. TooLong(carrier, len) <=> (HeaderLen + len + TagBytes) * ByteBits > Size
    BY <2>4 DEF TooLong, Size
  <2>6. /\ HeaderLen + len + TagBytes \in Nat
        /\ (HeaderLen + len + TagBytes) * ByteBits \in Nat
    BY <2>1
  <2> QED
    BY <2>1, <2>3, <2>5, <2>6, Capacity
<1> QED
  BY <1>1, StegoTypeCorrect, PTL

(* A picture that something can be extracted from is reported valid:       *)
(* verifier.verify never rejects what extractor.extract accepts.           *)
THEOREM VerifyCovers == Spec => []VerifyCoversExtract
<1>1. StegoInv => VerifyCoversExtract
  <2> SUFFICES ASSUME StegoInv, NEW p \in Passphrases, Extract(p) \in Envelopes
               PROVE  StructureValid
    BY DEF VerifyCoversExtract
  <2>1. TypeOK /\ LastWritten
    BY DEF StegoInv
  <2>2. HeaderRead /\ \E e \in Envelopes : Authentic(p, e)
    BY StegoConstants DEF Extract
  <2>3. PICK e \in Envelopes : Authentic(p, e)
    BY <2>2
  <2>4. last = e
    BY <2>2, <2>3, AuthenticIsIntact
  <2>5. /\ envs[e] \in Envelope
        /\ HeaderBits + CipherBits(envs[e].len) <= Size
    BY <2>1, <2>3, <2>4, StegoConstants DEF Authentic, LastWritten, TypeOK
  <2>6. /\ CipherLen(envs[e].len) \in Nat /\ CipherBits(envs[e].len) \in Nat
        /\ HeaderBits \in Nat /\ Size \in Nat
    BY <2>1, <2>5, HeaderFacts, PictureSize DEF Envelope
  <2>7. CipherLen(envs[e].len) * ByteBits <= Size
    BY <2>5, <2>6 DEF CipherBits
  <2>8. CipherLen(envs[e].len) <= TotalCapacity(carrier)
    BY <2>1, <2>6, <2>7, Capacity
  <2> QED
    BY <2>2, <2>3, <2>8 DEF Authentic, StructureValid
<1> QED
  BY <1>1, StegoInvariant, PTL
=============================================================================
