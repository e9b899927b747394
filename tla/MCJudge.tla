-------------------------------- MODULE MCJudge --------------------------------
(***************************************************************************)
(* Small instances of module Judge.  Area 1 is the interval -100 .. 100,   *)
(* area 2 is 300 .. 500: position 90 is inside area 1, 125 is in its       *)
(* margin, 150 is clearly outside, 400 is inside area 2 and reachable from *)
(* the others in ten seconds, 2000 is not (an implausible leap).           *)
(***************************************************************************)
EXTENDS Judge

MCCenter == [a \in Areas |-> IF a = 1 THEN 0 ELSE 400]
MCRadius == [a \in Areas |-> 100]
MCKorea  == -1000 .. 3000

(* Precise reports from every zone, one so imprecise that 150 m is still   *)
(* within its error, one too imprecise to be valid, one that arrives late, *)
(* and a leap.                                                             *)
JudgedFixes ==
  {[pos |-> p, acc |-> 10, age |-> 0] : p \in {90, 125, 150, 2000}} \cup
  {[pos |-> 150, acc |-> 60, age |-> 0], [pos |-> 150, acc |-> 150, age |-> 0],
   [pos |-> 90, acc |-> 10, age |-> 10]}

(* Reports that reach one another only implausibly fast, one from abroad,  *)
(* one with a clock too far behind and one too far ahead.                  *)
SuspectFixes ==
  {[pos |-> p, acc |-> 10, age |-> 0] : p \in {90, 400, 2000, -5000}} \cup
  {[pos |-> 90, acc |-> 10, age |-> 130], [pos |-> 90, acc |-> 10, age |-> -40]}
=============================================================================
