------------------------------ MODULE Dialogue ------------------------------
(***************************************************************************)
(* What the engine promises the program it plays for: asked for a move, it *)
(* answers once; asked to ponder, it answers only after it was told that   *)
(* the pondering is over, unless it declares a win instead of thinking;    *)
(* and it leaves only between two requests or with an answer.              *)
(***************************************************************************)
EXTENDS Naturals

VARIABLES mode,     \* what the engine has in hand
          answers   \* the answers given and not yet read, 0 or 1

Modes == {"idle", "pondering", "thinking", "gone"}

Init == mode = "idle" /\ answers = 0

(* A request can only follow the answer to the one before. *)
Ask == /\ mode = "idle" /\ answers = 0
       /\ mode' \in {"pondering", "thinking"}
       /\ UNCHANGED answers

Declare == /\ mode = "idle" /\ answers = 0
           /\ answers' = 1
           /\ UNCHANGED mode

Told == /\ mode = "pondering"
        /\ mode' = "thinking"
        /\ UNCHANGED answers

Answer == /\ mode = "thinking"
          /\ mode' \in {"idle", "gone"}
          /\ answers' = answers + 1

Hear == /\ answers > 0
        /\ answers' = answers - 1
        /\ UNCHANGED mode

Quit == /\ mode = "idle"
        /\ mode' = "gone"
        /\ UNCHANGED answers

Next == Ask \/ Declare \/ Told \/ Answer \/ Hear \/ Quit

dvars == <<mode, answers>>

DSpec == Init /\ [][Next]_dvars
=============================================================================
