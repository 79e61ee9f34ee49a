---------------------------- MODULE MCEndpoints ----------------------------
(* Endpoints with two pages, of which guests are invited to one: with a UID *)
(* for each, with one UID for both, and with faults of reading.             *)
EXTENDS Endpoints

CONSTANTS p1, p2

PageSet == {p1, p2}
Inst(ps, us, m) == [pages |-> ps, invited |-> {p1}, uids |-> us, misreads |-> m]
InstanceSet == {Inst(PageSet, 2, FALSE), Inst(PageSet, 1, FALSE), Inst({p1}, 1, TRUE)}
=============================================================================
