----------------------------- MODULE StegoImage -----------------------------
(***************************************************************************)
(* Hiding a payload in a picture and getting it back: embed_payload,       *)
(* extract and verify (app/services, app/steganography, app/crypto).  The  *)
(* state is the picture a client holds: it may embed again into a picture  *)
(* that already carries something, damage it, and hand it to extract or    *)
(* verify, which only read it.                                             *)
(*                                                                         *)
(* Only least significant bits are read or written, so a picture is one    *)
(* bit per channel byte, and a bit is named by where it comes from: which  *)
(* bit of which envelope, or noise.  scrypt and AES-GCM are ideal: a key   *)
(* or ciphertext that differs anywhere does not authenticate.  An envelope *)
(* is named by its salt and nonce, which are never used twice, and stands  *)
(* for its payload too.                                                    *)
(***************************************************************************)
EXTENDS Integers, FiniteSets

CONSTANTS
  Envelopes,    \* salt and nonce of an embed call; bounds the calls
  Passphrases,
  PayloadLens,  \* payload lengths in bytes
  BadLengths,   \* what a damaged ciphertext_length field may read as
  Carriers,     \* pictures: [width, height, mode]
  HeaderLen,    \* envelope.HEADER_LEN, 46
  TagBytes,     \* capacity.GCM_TAG_BYTES, 16
  ByteBits,     \* 8
  FieldOf,      \* the header field each header bit belongs to
  Order(_, _),  \* numpy's permutation of the region after the header
  None,         \* no envelope
  Fresh,        \* an envelope that was not made yet
  MaxDamage     \* bound on the damaged bits

VARIABLES
  carrier,  \* the picture's size and mode
  lsb,      \* its least significant bits, by channel byte
  envs,     \* the envelopes made so far: passphrase and payload length
  last,     \* history: the envelope embedded last in this picture
  damaged,  \* history: the bits changed since then
  harm      \* what damaged length and cost fields come to

vars == <<carrier, lsb, envs, last, damaged, harm>>

HeaderBits == HeaderLen * ByteBits

HeaderPositions == 0..(HeaderBits - 1)

Fields == {"magic", "version", "kdf_id", "n", "r", "p", "salt", "nonce", "length"}

Picture == [width: Nat, height: Nat, mode: {"RGB", "RGBA", "L", "P"}]

Bit == [from: {"noise", "header", "cipher"}, env: Envelopes \cup {None}, at: Nat]

Envelope == [pass: Passphrases, len: Nat]

Harm == [length: Nat, kdf: {"otherkey", "badvalue", "nomemory"}]

-----------------------------------------------------------------------------
(* capacity.channel_count; lsb_png._to_channels converts the other modes   *)
(* to RGB and yields width * height * channels channel bytes.              *)
ChannelCount(mode) == IF mode = "RGBA" THEN 4 ELSE 3

ConvertedMode(mode) == IF mode \in {"RGB", "RGBA"} THEN mode ELSE "RGB"

(* The picture that embed saves has the converted mode.                    *)
Converted(c) == [c EXCEPT !.mode = ConvertedMode(c.mode)]

FlatSize(c) ==
  c.width * c.height * (IF ConvertedMode(c.mode) = "RGBA" THEN 4 ELSE 3)

TotalCapacity(c) == (c.width * c.height * ChannelCount(c.mode)) \div ByteBits

MaxPayloadNoTag(c) ==
  LET usable == TotalCapacity(c) - HeaderLen
  IN  IF usable > 0 THEN usable ELSE 0

MaxPayload(c) ==
  LET usable == TotalCapacity(c) - HeaderLen - TagBytes
  IN  IF usable > 0 THEN usable ELSE 0

Fits(c, len) == len <= MaxPayload(c)

CipherLen(len) == len + TagBytes

CipherBits(len) == CipherLen(len) * ByteBits

(* The check of lsb_png.embed.                                             *)
TooLong(c, len) == HeaderBits + CipherBits(len) > FlatSize(c)

ASSUME StegoConstants ==
  /\ HeaderLen \in Nat /\ TagBytes \in Nat /\ ByteBits \in Nat \ {0}
  /\ PayloadLens \subseteq Nat /\ BadLengths \subseteq Nat
  /\ Carriers \subseteq Picture
  /\ None \notin Envelopes /\ Fresh \notin Envelope
  /\ {None, "ExtractionError", "MemoryError"} \cap Envelopes = {}
  /\ MaxDamage \in Nat

(* Every field of the header has at least one bit.                         *)
ASSUME HeaderLayout ==
  /\ FieldOf \in [HeaderPositions -> Fields]
  /\ \A f \in Fields : \E i \in HeaderPositions : FieldOf[i] = f

(* rng.permutation yields each position behind the header once.            *)
ASSUME OrderPermutes ==
  \A e \in Envelopes, c \in Carriers :
    LET after == 0..(FlatSize(c) - HeaderBits - 1) IN
    /\ \A k \in after : Order(e, FlatSize(c))[k] \in HeaderBits..(FlatSize(c) - 1)
    /\ \A k, l \in after :
         Order(e, FlatSize(c))[k] = Order(e, FlatSize(c))[l] => k = l

-----------------------------------------------------------------------------
Size == FlatSize(carrier)

Noise == [from |-> "noise", env |-> None, at |-> 0]

HeaderBit(e, i) == [from |-> "header", env |-> e, at |-> i]

CipherBitOffByOne(e, k) == [from |-> "cipher", env |-> e, at |-> k - 1]

CipherBit(e, k) == [from |-> "cipher", env |-> e, at |-> k]

TypeOK ==
  /\ carrier \in Carriers \cup {Converted(c) : c \in Carriers}
  /\ lsb \in [0..(Size - 1) -> Bit]
  /\ envs \in [Envelopes -> Envelope \cup {Fresh}]
  /\ last \in Envelopes \cup {None}
  /\ damaged \subseteq 0..(Size - 1)
  /\ harm \in Harm

NoHarm == [length |-> 0, kdf |-> "otherkey"]

Blank(c) == [i \in 0..(FlatSize(c) - 1) |-> Noise]

Init ==
  /\ carrier \in Carriers
  /\ lsb = Blank(carrier)
  /\ envs = [e \in Envelopes |-> Fresh]
  /\ last = None
  /\ damaged = {}
  /\ harm = NoHarm

(* The client takes another picture that carries nothing.                  *)
TakePicture(c) ==
  /\ carrier' = c
  /\ lsb' = Blank(c)
  /\ last' = None
  /\ damaged' = {}
  /\ harm' = NoHarm
  /\ UNCHANGED envs

(* The header in place, the ciphertext scattered over the rest.            *)
Written(e, len) ==
  [i \in 0..(Size - 1) |->
     IF i \in HeaderPositions THEN HeaderBit(e, i)
     ELSE IF \E k \in 0..(CipherBits(len) - 1) : Order(e, Size)[k] = i
       THEN CipherBit(e, CHOOSE k \in 0..(CipherBits(len) - 1) :
                           Order(e, Size)[k] = i)
     ELSE lsb[i]]

(* embed_payload, when neither check raises CapacityError.  A bit that is  *)
(* damaged later makes the length field read as something else.            *)
Embed(e, p, len, h) ==
  /\ envs[e] = Fresh
  /\ Fits(carrier, len)
  /\ ~TooLong(carrier, len)
  /\ h.length # CipherLen(len)
  /\ lsb' = Written(e, len)
  /\ envs' = [envs EXCEPT ![e] = [pass |-> p, len |-> len]]
  /\ last' = e
  /\ damaged' = {}
  /\ harm' = h
  /\ carrier' = Converted(carrier)

(* Something changes a bit of the picture on its way.                      *)
Damage(i) ==
  /\ Cardinality(damaged) < MaxDamage
  /\ lsb' = [lsb EXCEPT ![i] = Noise]
  /\ damaged' = damaged \cup {i}
  /\ UNCHANGED <<carrier, envs, last, harm>>

Harms == [length: BadLengths, kdf: {"otherkey", "badvalue", "nomemory"}]

Next ==
  \/ \E c \in Carriers : TakePicture(c)
  \/ \E e \in Envelopes, p \in Passphrases, len \in PayloadLens, h \in Harms :
       Embed(e, p, len, h)
  \/ \E i \in 0..(Size - 1) : Damage(i)

Spec == Init /\ [][Next]_vars

-----------------------------------------------------------------------------
(* What extract and verify compute from the picture.                       *)

FieldIs(f, e) ==
  \A i \in HeaderPositions : FieldOf[i] = f => lsb[i] = HeaderBit(e, i)

(* The envelope whose value a header field still has.                      *)
FieldValue(f) ==
  IF \E e \in Envelopes : FieldIs(f, e)
    THEN CHOOSE e \in Envelopes : FieldIs(f, e) ELSE None

(* read_header_region and parse_header: magic, version and kdf are checked *)
HeaderRead ==
  /\ Size >= HeaderBits
  /\ \A f \in {"magic", "version", "kdf_id"} : FieldValue(f) # None

DeclaredLength ==
  LET e == FieldValue("length")
  IN  IF e = None THEN harm.length ELSE CipherLen(envs[e].len)

CipherReadable == DeclaredLength * ByteBits <= Size - HeaderBits

CostRight == \A f \in {"n", "r", "p"} : FieldValue(f) # None

(* Scrypt on cost parameters that were damaged may need more memory than   *)
(* there is.                                                               *)
OutOfMemory == ~CostRight /\ harm.kdf = "nomemory"

AuthenticIgnoringCipher(p, e) ==
  /\ envs[e] # Fresh
  /\ FieldValue("salt") = e /\ FieldValue("nonce") = e
  /\ CostRight
  /\ envs[e].pass = p
  /\ DeclaredLength = CipherLen(envs[e].len)

(* derive_key, read_ciphertext_region and decrypt agree with envelope e.   *)
Authentic(p, e) ==
  /\ envs[e] # Fresh
  /\ FieldValue("salt") = e /\ FieldValue("nonce") = e
  /\ CostRight
  /\ envs[e].pass = p
  /\ DeclaredLength = CipherLen(envs[e].len)
  /\ \A k \in 0..(CipherBits(envs[e].len) - 1) :
       lsb[Order(e, Size)[k]] = CipherBit(e, k)

(* extract: the payload of an envelope, or what it raises.                 *)
Extract(p) ==
  IF HeaderRead /\ CipherReadable /\ OutOfMemory THEN "MemoryError"
  ELSE IF HeaderRead /\ CipherReadable /\ \E e \in Envelopes : Authentic(p, e)
    THEN CHOOSE e \in Envelopes : Authentic(p, e)
  ELSE "ExtractionError"

VerifyStrict ==
  HeaderRead /\ DeclaredLength + HeaderLen < TotalCapacity(carrier)

(* verify: envelope_structure_valid.                                       *)
StructureValid == HeaderRead /\ DeclaredLength <= TotalCapacity(carrier)

-----------------------------------------------------------------------------
(* The bits an embedded envelope occupies.                                 *)
UsedBits(e) ==
  HeaderPositions \cup
    {Order(e, Size)[k] : k \in 0..(CipherBits(envs[e].len) - 1)}

Intact == last # None /\ damaged \cap UsedBits(last) = {}

(* The picture gives back the payload embedded last, under its passphrase, *)
(* if and only if none of that envelope's bits was changed; in every other *)
(* case nothing comes out: no earlier payload, no garbage.                 *)
ExtractExact ==
  \A p \in Passphrases :
    /\ Extract(p) \in Envelopes <=> (Intact /\ envs[last].pass = p)
    /\ Extract(p) \in Envelopes => Extract(p) = last

(* What can be extracted is never reported as structurally invalid.        *)
VerifyCoversExtract ==
  (\E p \in Passphrases : Extract(p) \in Envelopes) => StructureValid

(* On a picture with room for an envelope at all, the service's capacity   *)
(* check (capacity.fits) and the embedder's (lsb_png.embed) agree on every *)
(* payload, although one counts bytes of the given mode and the other bits *)
(* of the converted picture.                                               *)
CapacityAgrees ==
  HeaderLen + TagBytes <= TotalCapacity(carrier) =>
    \A len \in PayloadLens : Fits(carrier, len) <=> ~TooLong(carrier, len)

-----------------------------------------------------------------------------
(* Inductive invariant: where the bits of the last envelope are.           *)
LastWritten ==
  last # None =>
    /\ envs[last] # Fresh
    /\ HeaderBits + CipherBits(envs[last].len) <= Size
    /\ harm.length # CipherLen(envs[last].len)
    /\ \A i \in HeaderPositions :
         lsb[i] = IF i \in damaged THEN Noise ELSE HeaderBit(last, i)
    /\ \A k \in 0..(CipherBits(envs[last].len) - 1) :
         lsb[Order(last, Size)[k]] =
           IF Order(last, Size)[k] \in damaged THEN Noise ELSE CipherBit(last, k)

BlankBefore == last = None => \A i \in 0..(Size - 1) : lsb[i] = Noise

StegoInv == TypeOK /\ LastWritten /\ BlankBefore
=============================================================================
