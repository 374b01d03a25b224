-------------------------- MODULE MCPostgresTarget --------------------------
(***************************************************************************)
(* PostgresTarget on a small tree.  Key k1 is inserted, updated and        *)
(* deleted along every branch; k2 is written on branch b only.             *)
(***************************************************************************)
EXTENDS PostgresTarget, MCTree

MCBlock == DOMAIN SmallTree
MCNum == NumbersOf(SmallTree)
MCPath == PathsOf(SmallTree)
MCSelected == {"g", "a1", "a2", "a3", "b1", "b3", "c2"}

Puts == {<<"g", "k1">>, <<"a1", "k1">>, <<"a3", "k1">>, <<"a2", "k2">>,
         <<"b1", "k2">>, <<"b3", "k1">>, <<"c2", "k2">>}
Dels == {<<"a2", "k1">>, <<"b1", "k1">>, <<"b3", "k2">>}

MCEffect ==
    [b \in MCBlock |->
        [k \in {"k1", "k2"} |->
            IF <<b, k>> \in Puts THEN "put" ELSE IF <<b, k>> \in Dels THEN "del" ELSE "keep"]]
=============================================================================
