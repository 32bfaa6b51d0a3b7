--------------------------- MODULE MCGuardedLedger ---------------------------
(***************************************************************************)
(* The services whose use of the ledger TLC explores: one of which nothing *)
(* is known; a monitor whose batches hold one order, so that few orders    *)
(* make it rest; and monitors whose batches hold two, under one selection  *)
(* and across a change of it.                                              *)
(***************************************************************************)
EXTENDS GuardedLedger

Anything == [kind |-> "ANY", batch |-> 1, life |-> 1, orders |-> 3, until |-> 3]
MonitorOf(batch, life, n, t) ==
    [kind |-> "MONITOR", batch |-> batch, life |-> life, orders |-> n, until |-> t]

MCServices ==
    {Anything, MonitorOf(1, 20, 4, 9), MonitorOf(2, 20, 4, 8), MonitorOf(2, 4, 4, 7)}
=============================================================================
