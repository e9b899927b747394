-------------------------------- MODULE MCSetup --------------------------------
EXTENDS Setup, TLC

CONSTANTS ann, bob, cho, mia, kim, w1, w2, x, y, s, t

(* ann and bob are administrators, mia is a member; cho and kim not yet.    *)
Staff == (ann :> "admin") @@ (bob :> "admin") @@ (cho :> Nil) @@ (mia :> "member")
         @@ (kim :> Nil)
Updates == {<<"demote">>, <<"deactivate">>, <<"demote", "deactivate">>, <<"promote", "activate">>}

Person(mobile, login, home) == [mobile |-> mobile, login |-> login, home |-> home]
Roster   == (mia :> Person(1, 1, 1)) @@ (kim :> Nil)
Newcomer == {Person(2, 2, 1)}
Edits    == {Person(2, Nil, Nil), Person(Nil, Nil, 0)}

(* Each file has a row for something known and a row for something new; in *)
(* the second file of people nothing is to do, and a login id is taken.    *)
People == {<<Person(1, 3, x), Person(2, 2, Nil)>>, <<Person(1, 1, x), Person(2, 1, Nil)>>}
Places == {<<[name |-> x, shape |-> t], [name |-> y, shape |-> t]>>}
Tasks  == {<<[team |-> 1, home |-> x]>>}

(* What meets: two kinds of request that touch the same rows, or a request *)
(* and time.                                                               *)
Kinds ==
  {{"admins", "admin_login"}, {"create", "admin_login", "logout"},
   {"login", "members", "reset", "own"}, {"login", "close", "time"},
   {"areas", "incident"}, {"area_import", "incident"}, {"area_import", "areas"},
   {"area_import", "plan_import", "time"},
   {"members", "roster_import"}, {"add", "roster_import"}}

Alike == Permutations(Workers) \cup Permutations({ann, bob})
=============================================================================
