------------------------------- MODULE MCPump -------------------------------
(* Pump on small calls: one of each shape, with and without a phase tag, a *)
(* grace and a backlog, with budgets small enough for every rule to fire.  *)
EXTENDS PumpRefinement

Call(total, chunk, pace, shape, on, gap, timeout, idle, grace, phased, left) ==
  [total |-> total, chunk |-> chunk, pace |-> pace, shape |-> shape, on |-> on,
   gap |-> gap, timeout |-> timeout, idle |-> idle, grace |-> grace,
   phased |-> phased, backlog |-> left]

MCOpts ==
  { Call(2, 1, 0, "Constant",  0, 0, 6, 2, {2}, TRUE,  2),
    Call(3, 2, 0, "Constant",  0, 0, 5, 3, {},  TRUE,  1),
    Call(3, 1, 0, "Burst",     2, 2, 6, 2, {2}, TRUE,  0),
    Call(2, 1, 0, "Keepalive", 0, 3, 9, 4, {1}, FALSE, 0),
    Call(2, 1, 1, "Constant",  0, 0, 5, 1, {},  FALSE, 0),
    Call(0, 1, 0, "Constant",  0, 0, 3, 1, {1}, TRUE,  1) }
=============================================================================
