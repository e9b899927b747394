-------------------------------- MODULE MCBoard --------------------------------
(* Instances of Board: one or two members seen by one page.                *)
EXTENDS Board

TwoPoints == {0, 2}
================================================================================
