------------------------------- MODULE MCPaging -------------------------------
(* Instances of Paging for TLC: three levels of two entries, so page 0 to  *)
(* 3 are the lower half and 4 to 7 the upper one.                          *)
EXTENDS Paging, TLC
MCBootTables == {<<1, 1, 2>>, <<1, 0, 3>>, <<3, 0, 4>>}
MCImage == <<1, 3>>
Req(do, at, end, push) ==
  [do |-> do, at |-> at, end |-> end, push |-> push, lower |-> at < 4]
MCRequests == {Req("device", 5, 7, FALSE), Req("map", 4, 5, FALSE), Req("map", 0, 1, FALSE),
               Req("unmap", 4, 5, TRUE), Req("unmap", 5, 7, FALSE), Req("query", 6, 7, FALSE),
               [do |-> "process", at |-> 0, end |-> 0, push |-> FALSE, lower |-> FALSE]}
MCCost == [do \in {"map", "device", "unmap", "query", "process"} |->
             IF do = "process" THEN 2 ELSE IF do = "query" THEN 2 ELSE 1]
ASSUME BootTree([f \in Frames |-> CASE f = 1 -> 3 [] f \in {2, 3} -> 2 [] f = 4 -> 1 [] OTHER -> 0],
                [f \in Frames |-> IF f = 2 THEN 1 ELSE 0],
                [f \in Frames |-> IF f \in {3, 4} THEN 1 ELSE Null])
MCSymmetry == Permutations(Cores)
==============================================================================
