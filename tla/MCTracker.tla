------------------------------- MODULE MCTracker -------------------------------
(***************************************************************************)
(* Small instances of module Tracker.                                      *)
(***************************************************************************)
EXTENDS Tracker, TLC

(* Everyday use over two incidents; acknowledgements, and refusals, in     *)
(* both; failures and crashes in one.                                      *)
Serving   == [kinds |-> {"fix", "me", "reassign", "close"}, fail |-> FALSE,
              incidents |-> {1, 2}, sent |-> 1, loads |-> 3]
Acking    == [kinds |-> {"fix", "ack", "close"}, fail |-> FALSE,
              incidents |-> {1, 2}, sent |-> 1, loads |-> 3]
Refusing  == [kinds |-> {"fix", "deny", "close"}, fail |-> FALSE,
              incidents |-> {1, 2}, sent |-> 1, loads |-> 3]
Failing   == [kinds |-> {"fix", "deny", "reassign"}, fail |-> TRUE,
              incidents |-> {1}, sent |-> 2, loads |-> 2]
Together == {Serving, Acking, Refusing, Failing}

Alike == Permutations(Workers) \cup Permutations(Areas)
================================================================================
