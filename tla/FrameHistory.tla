---------------------------- MODULE FrameHistory ----------------------------
(***************************************************************************)
(* What the indicator history of an account (indicator_history_service.py) *)
(* promises to those who read it, with no Redis, no calls and no phone in  *)
(* sight: its newest frames, at most MaxFrames, by their capture times.    *)
(* A frame joins them at the rank of its own time, in one step, whenever   *)
(* it comes and however often; the oldest goes when there are too many,    *)
(* and no frame goes otherwise, unless all of them expire at once.         *)
(***************************************************************************)
EXTENDS Integers, Sequences

CONSTANTS Times, MaxFrames

VARIABLES
  frames,   \* the capture times of the newest frames, oldest first
  ever      \* every capture time a frame has come with

historyVars == <<frames, ever>>

Init == frames = << >> /\ ever = {}

\* s with t at rank k + 1.
Joined(s, k, t) ==
  [i \in 1 .. Len(s) + 1 |-> IF i <= k THEN s[i] ELSE IF i = k + 1 THEN t ELSE s[i - 1]]

\* The last MaxFrames of s, or all of it.
Newest(s) ==
  LET n == IF Len(s) > MaxFrames THEN MaxFrames ELSE Len(s)
  IN  [i \in 1 .. n |-> s[Len(s) - n + i]]

Joins(t) ==
  /\ \E k \in 0 .. Len(frames) :
       /\ \A i \in 1 .. k : frames[i] <= t
       /\ \A i \in k + 1 .. Len(frames) : t <= frames[i]
       /\ frames' = Newest(Joined(frames, k, t))
  /\ ever' = ever \cup {t}

Vanish ==
  /\ frames # << >>
  /\ frames' = << >>
  /\ UNCHANGED ever

Next == Vanish \/ \E t \in Times : Joins(t)

Spec == Init /\ [][Next]_historyVars
=============================================================================
