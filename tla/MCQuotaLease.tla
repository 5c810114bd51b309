---------------------------- MODULE MCQuotaLease ----------------------------
(* Small instances of QuotaLease for TLC: two charges of different orders and *)
(* one refund of the first.                                                   *)
EXTENDS QuotaLease

MCPrice   == <<2, 1>>
MCOrderOf == <<1, 2, 1>>
MCAdjustments == {1, -1}
=============================================================================
