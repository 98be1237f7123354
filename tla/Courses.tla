------------------------------- MODULE Courses -------------------------------
(***************************************************************************)
(* The stages of each irrigation program, in order.  Cleaning washes group *)
(* 3, then group 1, then group 2; it follows a program of groups that asks *)
(* for it, and is a program of its own.                                    *)
(***************************************************************************)
EXTENDS Sequences

CleaningStages == <<"CLEANING_3", "CLEANING_1", "CLEANING_2">>

Course(prog, cleaning) ==
  LET wash == IF cleaning THEN CleaningStages ELSE <<>> IN
  CASE prog = "BOTH"                   -> <<"GROUP_1", "GROUP_2">> \o wash
    [] prog \in {"GROUP_1", "GROUP_2"} -> <<prog>> \o wash
    [] prog = "CLEANING"               -> CleaningStages
    [] OTHER                           -> <<prog>>
=============================================================================
