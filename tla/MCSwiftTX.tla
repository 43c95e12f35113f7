----------------------------- MODULE MCSwiftTX -----------------------------
(* Two transactions that conflict over one coin.                           *)
EXTENDS SwiftTX, TLC

CONSTANTS t1, t2, a, b

MCVin == t1 :> {a} @@ t2 :> {a, b}
=============================================================================
