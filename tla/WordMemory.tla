----------------------------- MODULE WordMemory -----------------------------
(***************************************************************************)
(* What the data side of the cache subsystem promises the load-store unit: *)
(* a memory in which every load and every store is a single step.          *)
(***************************************************************************)
CONSTANTS
  Addr,   (* word addresses           *)
  Lane,   (* byte lanes of a word     *)
  Byte,   (* values of one byte       *)
  First   (* the word every address holds after reset *)

VARIABLES
  words,  (* the value of every word                 *)
  answer  (* the load answered in the last step      *)

Word     == [Lane -> Byte]
NoAnswer == [kind |-> "none"]

Init ==
  /\ words = [a \in Addr |-> First]
  /\ answer = NoAnswer

Load(a) ==
  /\ answer' = [kind |-> "load", addr |-> a, data |-> words[a]]
  /\ UNCHANGED words

Store(a, data, strb) ==
  /\ words' = [words EXCEPT ![a] = [b \in Lane |-> IF b \in strb THEN data[b] ELSE @[b]]]
  /\ answer' = NoAnswer

(* A step in which no request is answered.                                 *)
Quiet ==
  /\ answer' = NoAnswer
  /\ UNCHANGED words

Next ==
  \/ Quiet
  \/ \E a \in Addr : Load(a)
  \/ \E a \in Addr, data \in Word, strb \in (SUBSET Lane) \ {{}} : Store(a, data, strb)

Spec == Init /\ [][Next]_<<words, answer>>
=============================================================================
