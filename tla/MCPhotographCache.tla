-------------------------- MODULE MCPhotographCache --------------------------
(* A small instance of PhotographCache for TLC.                            *)
EXTENDS PhotographCache

(* Both photographs do not fit the budget, and either alone does; what is  *)
(* given for the first does not fit it even alone.                         *)
SizeOfPixels ==
  [p \in Paths |-> [x \in Pixels |-> IF p # "a" THEN 2 ELSE IF x.given THEN 3 ELSE 1]]

(* There is no file in version 0, and versions 1 and 2 cannot be told      *)
(* apart.                                                                  *)
Stamped == [v \in Versions |-> IF v = 0 THEN NoStamp ELSE 1]

(* One file is there only later.                                           *)
FirstFiles == [p \in Paths |-> IF p = "a" THEN 0 ELSE 1]

=============================================================================
