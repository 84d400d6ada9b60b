--------------------------- MODULE MCRepositories ---------------------------
(***************************************************************************)
(* A small instance of Repositories.  Int16 is -1 .. 0, so both boundaries *)
(* are reached and every value one past them traps.                        *)
(***************************************************************************)
EXTENDS Repositories

CONSTANTS u1, u2, s1, s2, p1, p2, t1

MCProductValues ==
  {[id |-> p, title |-> t1, quantity |-> q, remainingDays |-> 0] :
      p \in {p1, p2}, q \in {-1, 0, 1}}

\* s1 is created with one product (or one that does not fit), s2 with both.
MCSectionValues ==
  LET X(p, q) == [id |-> p, title |-> t1, quantity |-> q, remainingDays |-> 0]
      S(s, r, xs) == [id |-> s, title |-> t1, rule |-> r,
                      sortingRule |-> "newestToOldest", products |-> xs]
  IN {S(s1, 0, {X(p1, 0)}), S(s1, 0, {X(p1, 1)}), S(s1, -2, {}),
      S(s2, -1, {X(p1, 0), X(p2, -1)})}

=============================================================================
