------------------------------ MODULE MCSystemFaults ------------------------------
(* Instances of SystemFaults for TLC: a day of two hours of four seconds. *)
EXTENDS SystemFaults

T(h, c1, m, c2, s) == [h |-> h, c1 |-> c1, m |-> m, c2 |-> c2, s |-> s]
\* As documented, with parts left out, with a part that is empty or has two units,
\* longer than a duration can be, and beyond the integers.
McTextOf ==
  [t \in {"1h:1m:1s", "1m", "1h:1s", "1h1m", "1h:", "6h", "31s"} |->
     CASE t = "1h:1m:1s" -> T(1, TRUE, 1, TRUE, 1)
       [] t = "1m"       -> T(None, FALSE, 1, FALSE, None)
       [] t = "1h:1s"    -> T(1, TRUE, None, FALSE, 1)
       [] t = "1h1m"     -> T(1, FALSE, 1, FALSE, None)
       [] t = "1h:"      -> T(1, TRUE, None, FALSE, None)
       [] t = "6h"       -> T(6, FALSE, None, FALSE, None)
       [] t = "31s"      -> T(None, FALSE, None, FALSE, 31)]

R(f, o)        == [Nothing EXCEPT !.fault = f, !.op = o]
Jump(d, t)     == [R("time-jump", "inject") EXCEPT !.direction = d, !.interval = t]
Service(f, o)  == [R(f, o) EXCEPT !.name = "s"]

Back == [Jump("backwards", "1m") EXCEPT !.op = "remove"]
McMenus ==
  {{Jump("forwards", "1m"), Jump("backwards", "1h:1m:1s"), Back},
   {Jump("forwards", "1h:1s"), Jump("backwards", "1m"), R("reboot-abnormal", "inject")},
   {Jump("forwards", t) : t \in {"6h", "31s", "1h1m", "1h:", "1h:2x"}},
   {Service("service-stop", "inject"), Service("service-stop", "remove"),
    Service("service-restart", "inject"), R("oom", "inject")},
   {R("file-systems-readonly", "inject"), R("file-systems-readonly", "remove"),
    R("panic", "inject"), R("oom", "inject"), R("reboot-abnormal", "inject")},
   {Jump("sideways", "1m"), R("service-stop", "inject"), R("panic", "remove"),
    Service("service-restart", "prepare"), Service("service-restart", "remove"),
    R("cpu-offline", "inject"), R("panic", "destroy")}}
================================================================================
