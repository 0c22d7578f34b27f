---------------------------- MODULE MCDashboard ----------------------------
(* A small dashboard.  The desk: two transactions of the same second, in      *)
(* pages of one row, the second of which comes while the page is open and     *)
(* goes before the first; who reviews them is an operator at first.  The      *)
(* panel: one row; its user administers one tenant and, on the page of        *)
(* wallets, may switch to a second one and back.  The forms: three requests,  *)
(* two wrong passwords until the account is locked.                           *)
EXTENDS Dashboard, TLC

CONSTANTS ta, tb

OneTime == [r \in Transactions |-> 1]

Homes == [r \in Rows |-> ta]

Changes ==
    [p \in {"dispositivos", "equipo", "invitaciones", "claves-api", "entregas"} |-> 1]
       @@ [billeteras |-> 2, webhooks |-> 0]

Small ==
    /\ open = "desk" => member.role = "OPERATOR" /\ status[2] = "NONE"
    /\ open = "panel" =>
          /\ role[ta] \in IF page = "equipo" THEN {"OWNER", "ADMIN"} ELSE {"ADMIN"}
          /\ role[tb] = IF page = "billeteras" THEN "ADMIN" ELSE None
          /\ suspended = {}

MCInit == Init /\ Small

MCSpec == MCInit /\ [][Next]_vars /\ Fairness

=============================================================================
