------------------------------ MODULE MCMulticast ------------------------------
EXTENDS Multicast

\* Short addresses, of different length in the two families.
Widths == [f \in Family |-> IF f = "v4" THEN 1 ELSE 2]
Groups == {[family |-> "v4", bits |-> <<1>>],
           [family |-> "v6", bits |-> <<1, 0>>], [family |-> "v6", bits |-> <<1, 1>>]}
===============================================================================
