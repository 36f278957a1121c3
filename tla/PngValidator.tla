---------------------------- MODULE PngValidator ----------------------------
(***************************************************************************)
(* validate_png (app/files/validators.py), run by several worker threads.  *)
(* Its guard against decompression bombs is Pillow's process-wide          *)
(* Image.MAX_IMAGE_PIXELS: each call saves it, sets its own ceiling, opens *)
(* the upload twice and puts the saved value back.  Nothing serialises the *)
(* calls, so the steps of two of them interleave.                          *)
(***************************************************************************)
EXTENDS Integers

CONSTANTS
  Workers,         \* threads of the server
  Uploads,         \* the uploads considered: a set of records, see Upload
  MaxDimension,    \* settings.max_image_dimension
  MaxPixels,       \* settings.max_decoded_pixels
  DefaultCeiling,  \* what Pillow sets Image.MAX_IMAGE_PIXELS to
  None             \* an unset local variable

VARIABLES
  ceiling,    \* Image.MAX_IMAGE_PIXELS
  task,       \* per worker: next statement, upload, original_max, exception
  answers,    \* history: the pairs <<upload, accepted>> that were answered
  decoded,    \* history: the uploads whose pixels were decoded
  overlapped  \* history: a call saved the ceiling while another one held it

vars == <<ceiling, task, answers, decoded, overlapped>>

(* What the checks look at: whether the bytes have a legal length and the  *)
(* PNG magic, whether open and verify() find them sound, whether load()    *)
(* gets through the pixel data, the declared size and whether the mode is  *)
(* an allowed one.                                                         *)
Upload == [header: BOOLEAN, sound: BOOLEAN, decodes: BOOLEAN, mode: BOOLEAN,
           width: Nat, height: Nat]

Pixels(u) == u.width * u.height

(* Pillow's default threshold is above the configured ceiling, and Pillow  *)
(* raises only past twice the threshold (below that it warns).             *)
ASSUME ValidatorConstants ==
  /\ Uploads \subseteq Upload
  /\ \A u \in Uploads : Pixels(u) \in Nat
  /\ MaxDimension \in Nat /\ MaxPixels \in Nat /\ DefaultCeiling \in Nat
  /\ MaxPixels <= DefaultCeiling
  /\ None \notin Uploads /\ None \notin Nat

Ceilings == {MaxPixels, DefaultCeiling}

Task == [pc: {"idle", "set", "probe", "load", "restore", "check"},
         img: Uploads \cup {None}, saved: Ceilings \cup {None}, bad: BOOLEAN]

Idle == [pc |-> "idle", img |-> None, saved |-> None, bad |-> FALSE]

TypeOK ==
  /\ ceiling \in Ceilings
  /\ task \in [Workers -> Task]
  /\ answers \subseteq Uploads \X BOOLEAN
  /\ decoded \subseteq Uploads
  /\ overlapped \in BOOLEAN

Init ==
  /\ ceiling = DefaultCeiling
  /\ task = [w \in Workers |-> Idle]
  /\ answers = {}
  /\ decoded = {}
  /\ overlapped = FALSE

(* Between its save and its restore a call holds the ceiling.              *)
Holds(t) == t.pc \in {"set", "probe", "load", "restore"}

-----------------------------------------------------------------------------
(* Image._decompression_bomb_check, run by Image.open on the header.       *)
Bomb(u) == Pixels(u) > 2 * ceiling

CheckLeftToPillow(u) ==
  u.width <= MaxDimension /\ u.height <= MaxDimension /\ u.mode

(* The checks after the decode.                                            *)
Check(u) ==
  /\ u.width <= MaxDimension /\ u.height <= MaxDimension
  /\ Pixels(u) <= MaxPixels
  /\ u.mode

Answer(w, accepted) ==
  /\ answers' = answers \cup {<<task[w].img, accepted>>}
  /\ task' = [task EXCEPT ![w] = Idle]

(* Length and magic are looked at before the ceiling is touched.           *)
RefuseEarly(w, u) ==
  /\ task[w] = Idle
  /\ ~u.header
  /\ answers' = answers \cup {<<u, FALSE>>}
  /\ UNCHANGED <<ceiling, task, decoded, overlapped>>

SaveForgotten(w, u) ==
  /\ task[w] = Idle
  /\ u.header
  /\ task' = [task EXCEPT ![w] = [Idle EXCEPT !.pc = "set", !.img = u]]
  /\ overlapped' = (overlapped \/ \E v \in Workers : Holds(task[v]))
  /\ UNCHANGED <<ceiling, answers, decoded>>

SaveCeiling(w, u) ==
  /\ task[w] = Idle
  /\ u.header
  /\ task' = [task EXCEPT ![w] = [Idle EXCEPT !.pc = "set", !.img = u,
                                              !.saved = ceiling]]
  /\ overlapped' = (overlapped \/ \E v \in Workers : Holds(task[v]))
  /\ UNCHANGED <<ceiling, answers, decoded>>

SetCeilingOff(w) ==
  /\ task[w].pc = "set"
  /\ task' = [task EXCEPT ![w].pc = "probe"]
  /\ UNCHANGED <<ceiling, answers, decoded, overlapped>>

SetCeiling(w) ==
  /\ task[w].pc = "set"
  /\ ceiling' = MaxPixels
  /\ task' = [task EXCEPT ![w].pc = "probe"]
  /\ UNCHANGED <<answers, decoded, overlapped>>

(* Image.open and verify() on the first stream.                            *)
Probe(w) ==
  LET u == task[w].img IN
  /\ task[w].pc = "probe"
  /\ task' = [task EXCEPT ![w].pc = IF Bomb(u) \/ ~u.sound THEN "restore" ELSE "load",
                          ![w].bad = Bomb(u) \/ ~u.sound]
  /\ UNCHANGED <<ceiling, answers, decoded, overlapped>>

(* Image.open again, and load(), which decodes the pixels and may find, in *)
(* the middle of it, that their stream is broken.                          *)
Load(w) ==
  LET u == task[w].img IN
  /\ task[w].pc = "load"
  /\ task' = [task EXCEPT ![w].pc = "restore", ![w].bad = Bomb(u) \/ ~u.decodes]
  /\ decoded' = IF Bomb(u) THEN decoded ELSE decoded \cup {u}
  /\ UNCHANGED <<ceiling, answers, overlapped>>

RestoreOnSuccessOnly(w) ==
  /\ task[w].pc = "restore"
  /\ ceiling' = IF task[w].bad THEN ceiling ELSE task[w].saved
  /\ IF task[w].bad
       THEN Answer(w, FALSE)
       ELSE task' = [task EXCEPT ![w].pc = "check"] /\ UNCHANGED answers
  /\ UNCHANGED <<decoded, overlapped>>

(* finally: put the saved value back, then let an exception go on.         *)
Restore(w) ==
  /\ task[w].pc = "restore"
  /\ ceiling' = task[w].saved
  /\ IF task[w].bad
       THEN Answer(w, FALSE)
       ELSE task' = [task EXCEPT ![w].pc = "check"] /\ UNCHANGED answers
  /\ UNCHANGED <<decoded, overlapped>>

FinalCheck(w) ==
  /\ task[w].pc = "check"
  /\ Answer(w, Check(task[w].img))
  /\ UNCHANGED <<ceiling, decoded, overlapped>>

Next ==
  \E w \in Workers :
    \/ \E u \in Uploads : RefuseEarly(w, u) \/ SaveCeiling(w, u)
    \/ SetCeiling(w)
    \/ Probe(w)
    \/ Load(w)
    \/ Restore(w)
    \/ FinalCheck(w)

Spec == Init /\ [][Next]_vars

-----------------------------------------------------------------------------
(* What a call that runs alone answers.                                    *)
Acceptable(u) == u.header /\ u.sound /\ u.decodes /\ Check(u)

(* However the calls interleave, an upload is accepted if and only if it   *)
(* would be by a call that runs alone: the explicit checks after the       *)
(* decode make up for a ceiling that another thread has moved.             *)
SameVerdict == \A a \in answers : a[2] <=> Acceptable(a[1])

(* What the docstring of validate_png says of every history: the pixels of *)
(* an upload past twice the configured ceiling are never decoded ("disarm  *)
(* decompression bombs", validators.py:52).                                *)
NoBombDecoded == \A u \in decoded : Pixels(u) <= 2 * MaxPixels

(* That holds until a call saves the ceiling while another one holds it:   *)
(* set, probe and load see the ceiling of their own call, which a failed   *)
(* call before it has put back (the finally of validate_png).              *)
GuardUntilOverlap == ~overlapped => NoBombDecoded

(* Until two calls overlap, the ceiling is what the rest of the process    *)
(* left there whenever no call holds it ("we mutate that global only       *)
(* transiently and restore it in finally", validators.py:53).              *)
CeilingRestored ==
  ~overlapped /\ ~(\E w \in Workers : Holds(task[w]))
    => ceiling = DefaultCeiling

-----------------------------------------------------------------------------
(* Inductive invariants: for all histories, and until two calls overlap.   *)

(* What is known of the upload at each statement.                          *)
Progress ==
  \A w \in Workers :
    LET t == task[w] IN
    /\ t.pc # "idle" => t.img \in Uploads /\ t.img.header /\ t.saved \in Ceilings
    /\ t.pc \in {"load", "check"} => t.img.sound
    /\ t.pc = "check" => t.img.decodes
    /\ t.pc = "restore" /\ ~t.bad => t.img.sound /\ t.img.decodes
    /\ t.pc = "restore" /\ t.bad =>
         ~t.img.sound \/ ~t.img.decodes \/ Pixels(t.img) > 2 * MaxPixels

OverlapInv == TypeOK /\ Progress /\ SameVerdict

OneHolds ==
  ~overlapped =>
    \A v, w \in Workers : Holds(task[v]) /\ Holds(task[w]) => v = w

(* The call that holds the ceiling saved Pillow's value and sees its own.  *)
CeilingMine ==
  ~overlapped =>
    \A w \in Workers :
      /\ Holds(task[w]) => task[w].saved = DefaultCeiling
      /\ task[w].pc \in {"probe", "load"} => ceiling = MaxPixels

SerialInv ==
  TypeOK /\ Progress /\ OneHolds /\ CeilingMine /\ CeilingRestored
         /\ GuardUntilOverlap
=============================================================================
