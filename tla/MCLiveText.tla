------------------------------ MODULE MCLiveText ------------------------------
(* Instances of LiveText for TLC: what the user says.                      *)
EXTENDS LiveText

\* Distinct words, and a speech that repeats one.
SomeSpeeches == {<<1, 2, 3, 4>>, <<1, 1, 2>>}
===============================================================================
