------------------------- MODULE MCContractFactory -------------------------
(***************************************************************************)
(* ContractFactory on a small tree.  Child k1 is registered by the first   *)
(* block of every branch; k2 at different blocks and, on branch c, never,  *)
(* where it has the same address and emits events all the same; k3 by      *)
(* another factory.                                                        *)
(***************************************************************************)
EXTENDS ContractFactory, MCTree

MCBlock == DOMAIN SmallTree
MCNum == NumbersOf(SmallTree)
MCPath == PathsOf(SmallTree)
MCSelected == MCBlock \ {"b2"}

MCChild == {"k1", "k2", "k3"}
Own == {<<"a1", "k1">>, <<"b1", "k1">>, <<"a2", "k2">>, <<"b1", "k2">>}
Others == {<<"a1", "k3">>, <<"b3", "k3">>}
MCRegisters ==
    [b \in MCBlock |-> [c \in MCChild |->
        IF <<b, c>> \in Own THEN "own" ELSE IF <<b, c>> \in Others THEN "other" ELSE "no"]]

Called ==
    {<<"a1", "k1">>, <<"a2", "k2">>, <<"a3", "k1">>, <<"a3", "k2">>, <<"a2", "k3">>,
     <<"b1", "k2">>, <<"b3", "k1">>, <<"b3", "k2">>, <<"b3", "k3">>,
     <<"c2", "k1">>, <<"c2", "k2">>, <<"c3", "k2">>, <<"c3", "k3">>}
MCCalls == [b \in MCBlock |-> {c \in MCChild : <<b, c>> \in Called}]

\* A child registered after its first event, and one registered twice.
EarlyCalls == [MCCalls EXCEPT !["a1"] = {"k1", "k2"}]
TwiceRegisters == [MCRegisters EXCEPT !["a3"]["k1"] = "own"]
=============================================================================
