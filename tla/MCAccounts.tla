----------------------------- MODULE MCAccounts -----------------------------
(* Root's address and one other address, typed in two ways.                *)
EXTENDS Accounts

CONSTANTS p1, p2, aRoot, aLow, aUp, root

MCPeople == {p1, p2}
MCAddresses == {aRoot, aLow, aUp}
MCCanon == [a \in MCAddresses |-> IF a = aUp THEN aLow ELSE a]
MCRootRow == [email |-> aRoot, secret |-> p1, role |-> "admin",
              status |-> "active"]
=============================================================================
