---------------------------- MODULE MCInventory ----------------------------
(***************************************************************************)
(* A small instance of Inventory: Limit is 2, and the four sections that   *)
(* two first runs may create hold 3, 2, 1 and 0 products, with ties in     *)
(* both sort keys.                                                         *)
(***************************************************************************)
EXTENDS Inventory, TLC

CONSTANTS u1, u2, s1, s2, s3, s4, p1, p2, p3, p4, p5, p6, t1

X(p, q, d) == [id |-> p, title |-> t1, quantity |-> q, remainingDays |-> d]

S(s, r, sr, xs) == [id |-> s, title |-> t1, rule |-> r, sortingRule |-> sr,
                    products |-> xs]

MCSeed ==
  u1 :> <<S(s1, 1, "quantityHighToLow", {X(p1, 0, 2), X(p2, 1, 2), X(p3, 1, 1)}),
          S(s2, 2, "newestToOldest", {X(p4, 2, 0), X(p5, 1, 1)})>> @@
  u2 :> <<S(s3, 1, "quantityHighToLow", {X(p6, 1, 1)}),
          S(s4, 2, "newestToOldest", {})>>

MCSectionValues == {MCSeed[u][k] : u \in {u1, u2}, k \in {1, 2}}

MCProductValues == UNION {sec.products : sec \in MCSectionValues}

=============================================================================
