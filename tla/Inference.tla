----------------------------- MODULE Inference -----------------------------
(* What the accelerator promises to its host: between a start and the       *)
(* moment it is done, whole matrices come from whole matrices, and none     *)
(* that was left over from an earlier inference counts.                     *)
EXTENDS Attention

VARIABLES
  running,   (* the accelerator was started and is not done               *)
  held       (* the parts of this inference that are in the memories      *)

Init == ~running /\ held = {}

(* The host supplies the input and the weights; only the last of them can  *)
(* come later.                                                             *)
Load ==
  /\ ~running /\ running'
  /\ Loaded \subseteq held' /\ held' \subseteq Loaded \cup {LateInput}

(* Parts may be overwritten, and made of what they need.  The accelerator  *)
(* is not done without the output, and keeps it until it is loaded again.  *)
Work ==
  /\ running
  /\ held' \subseteq held \cup {LateInput} \cup {p \in Part : MadeFrom(p, held)}
  /\ ~running' => Output \in held'

Next == Load \/ Work

Spec == Init /\ [][Next]_<<running, held>>
=============================================================================
