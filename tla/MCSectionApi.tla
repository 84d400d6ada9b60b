---------------------------- MODULE MCSectionApi ----------------------------
(***************************************************************************)
(* A small instance of SectionApi: a first run with a section of two       *)
(* products and an empty one, a product that is not stored, new values for *)
(* one that is, and a second name for the user.                            *)
(***************************************************************************)
EXTENDS SectionApi, TLC

CONSTANTS u1, s1, s2, p1, p2, p3, t1, t2

X(p, q, d) == [id |-> p, title |-> t1, quantity |-> q, remainingDays |-> d]

S(s, r, sr, xs) == [id |-> s, title |-> t1, rule |-> r, sortingRule |-> sr,
                    products |-> xs]

MCSeed == u1 :> <<S(s1, 1, "quantityHighToLow", {X(p1, 0, 1), X(p2, 1, 1)}),
                  S(s2, 1, "newestToOldest", {})>>

MCSectionValues == {MCSeed[u1][k] : k \in {1, 2}}

MCProductValues == UNION {sec.products : sec \in MCSectionValues}
                     \cup {X(p3, 1, 1), X(p1, 1, 0)}

=============================================================================
