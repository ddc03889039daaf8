-------------------------- MODULE MC_AccountDelete --------------------------
(* AccountDelete for TLC: A has three statuses, one of them a boost of its  *)
(* own status 2, and B has boosted status 1; Delete pages two at a time.    *)
EXTENDS AccountDelete

CONSTANTS a, b

MCInitStatuses ==
    {{[id |-> 1, acct |-> a, boostOf |-> 0],
      [id |-> 2, acct |-> a, boostOf |-> 0],
      [id |-> 3, acct |-> b, boostOf |-> 1],
      [id |-> 4, acct |-> a, boostOf |-> 2]}}

====
