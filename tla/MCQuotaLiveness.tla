--------------------------- MODULE MCQuotaLiveness --------------------------
(* QuotaLease with one order that is charged and refunded, and lease rows     *)
(* enough for every retry to find its own row expired.                        *)
EXTENDS QuotaLease

MCPrice   == <<2>>
MCOrderOf == <<1, 1>>
MCAdjustments == {1}
=============================================================================
