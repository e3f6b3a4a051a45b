------------------------------ MODULE MCCpuOffline ------------------------------
(* Instances of CpuOffline for TLC. *)
EXTENDS CpuOffline

McNameOf == [w \in {"--cpuid", "--timeout"} |->
               IF w = "--cpuid" THEN "cpuid" ELSE "timeout"]

One(n)      == [start |-> n, end |-> n, dash |-> FALSE]
From(n, m)  == [start |-> n, end |-> m, dash |-> TRUE]

\* Of three CPUs: some, all in two orders; overlapping, backwards, absent, beyond
\* the integers, endless and too many ids.
McListOf ==
  [t \in {"1", "0-2", "2,0-1", "0-1,1", "1-0", "1,3", "8", "7", "6-7", "0-5"} |->
     CASE t = "1"     -> <<One(1)>>
       [] t = "0-2"   -> <<From(0, 2)>>
       [] t = "2,0-1" -> <<One(2), From(0, 1)>>
       [] t = "0-1,1" -> <<From(0, 1), One(1)>>
       [] t = "1-0"   -> <<From(1, 0)>>
       [] t = "1,3"   -> <<One(1), One(3)>>
       [] t = "8"     -> <<One(8)>>
       [] t = "7"     -> <<One(7)>>
       [] t = "6-7"   -> <<From(6, 7)>>
       [] t = "0-5"   -> <<From(0, 5)>>]

\* Each list; a flag that comes twice, without its value, and with a flag for it.
McArgs ==
  {<<"cpu", "offline", "--cpuid", t>> : t \in DOMAIN McListOf}
    \cup {<<"cpu", "offline", "--cpuid", "1", "--cpuid", "2,0-1">>,
          <<"cpu", "offline", "--cpuid">>,
          <<"cpu", "offline", "--cpuid", "--timeout", "1">>}
================================================================================
