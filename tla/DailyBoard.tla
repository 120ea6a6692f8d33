------------------------------ MODULE DailyBoard ------------------------------
(***************************************************************************)
(* What the daily prediction cache promises its readers, apart from how    *)
(* the refresh job and the feed handlers keep the promise.  A board holds, *)
(* for each calendar date and security, the number of the snapshot locked  *)
(* in for that date, or 0.  A reader may fill a row nobody has filled; a   *)
(* refresh replaces a date's rows all at once and never leaves a hole.     *)
(***************************************************************************)
EXTENDS Naturals

CONSTANTS Dates,        \* the calendar dates the board has rows for
          Securities    \* the launch universe

VARIABLE board

Init == board = [d \in Dates |-> [s \in Securities |-> 0]]

\* A reader decides a row that nobody has filled.
Fill(d, s) ==
  /\ board[d][s] = 0
  /\ board'[d][s] # 0
  /\ board' = [board EXCEPT ![d][s] = board'[d][s]]

\* A refresh replaces a date: old rows go and new ones come in one step.
Publish(d) ==
  /\ \A s \in Securities : board'[d][s] # 0
  /\ board' = [board EXCEPT ![d] = board'[d]]

Next == \E d \in Dates : Publish(d) \/ \E s \in Securities : Fill(d, s)

Spec == Init /\ [][Next]_board
===============================================================================
