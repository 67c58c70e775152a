---------------------------- MODULE MCRadioControl --------------------------
(* A small instance of RadioControl for TLC: two channels, two levels.     *)
EXTENDS RadioControl

TwoChannels == {76, 100}
TwoLevels == {1, 3}
=============================================================================
