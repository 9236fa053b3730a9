---- MODULE MCTimers ----
(***************************************************************************)
(* Programs for Timers: timers that are reset and stopped while two Ms     *)
(* check; a new timer and cleaning; a periodic timer; a heap with two      *)
(* levels; and a heap of ten timers, the smallest in which a timer taken   *)
(* off lets the last one rise above a timer other than the first.          *)
(***************************************************************************)
EXTENDS Timers, TLC

CONSTANTS m1, m2, p1, p2, t1, t2, t3, t4, t5, t6, t7, t8, t9, t10

HomeP == m1 :> p1 @@ m2 :> p2
Once == [t \in T |-> 0]
Program(init, new, period, c1, c2, n, ts, ws) ==
    [initial |-> init, new |-> new, period |-> period, calls |-> m1 :> c1 @@ m2 :> c2,
     maxCalls |-> n, targets |-> ts, times |-> ws]

Resets == Program(<<<<t1, 2>>, <<t2, 3>>>>, {}, Once, {"check", "mod"}, {"mod", "del", "check"}, 3,
                  {t1, t2}, {1, 3})
Adding == Program(<<<<t1, 2>>>>, {t2}, Once, {"add", "check"}, {"mod", "del"}, 4, {t1, t2}, {1, -1})
Ticker == Program(<<<<t1, 1>>, <<t2, 2>>>>, {}, [Once EXCEPT ![t1] = 2], {"check"}, {"del", "check"}, 3,
                  {t1, t2}, {1})
Deep == Program(<<<<t1, 1>>, <<t2, 2>>, <<t3, 3>>, <<t4, 2>>, <<t5, 2>>, <<t6, 3>>>>, {}, Once,
                {"mod", "del"}, {"check"}, 2, {t1, t2, t3, t4, t5, t6}, {1, 4})

\* The parent of t6 is t2, and that of t10 is t3, which may be due before t2.
Wide == Program(<<<<t1, 2>>, <<t2, 4>>, <<t3, 2>>, <<t4, 2>>, <<t5, 2>>, <<t6, 4>>, <<t7, 4>>, <<t8, 4>>,
                  <<t9, 4>>, <<t10, 3>>>>, {}, Once, {"mod", "del"}, {"check"}, 3, {t6, t10}, {1, 5})

AllPrograms == {Resets, Adding, Ticker, Deep, Wide}
WideOnly == {Wide}
====
