--------------------------- MODULE SystemFaultsProofs ---------------------------
(***************************************************************************)
(* What holds of SystemFaults for any number of invocations, any menus,    *)
(* texts and lengths of the units: type correctness, what a service fault  *)
(* that reports success has done, and where a time jump takes the clock.   *)
(***************************************************************************)
EXTENDS SystemFaults, TLAPS, FiniteSetTheorems

\* Quotient and remainder, of negative numbers too.
LEMMA Division ==
  ASSUME NEW x \in Int, NEW d \in Nat \ {0}
  PROVE  x \div d \in Int /\ x % d \in 0 .. d - 1 /\ x = (x \div d) * d + (x % d)
<1>1. x \div d \in Int OBVIOUS
<1>2. x % d \in 0 .. d - 1 OBVIOUS
<1>3. x = (x \div d) * d + (x % d) OBVIOUS
<1> QED BY <1>1, <1>2, <1>3

\* They are the only ones.
LEMMA DivisionUnique ==
  ASSUME NEW x \in Int, NEW d \in Nat \ {0}, NEW q \in Int, NEW r \in 0 .. d - 1,
         x = q * d + r
  PROVE  x \div d = q /\ x % d = r
<1>1. x \div d \in Int /\ x % d \in 0 .. d - 1 /\ x = (x \div d) * d + (x % d) BY Division
<1>2. ASSUME NEW a \in Int, NEW b \in Int, NEW s \in 0 .. d - 1, NEW t \in 0 .. d - 1,
             a * d + s = b * d + t
      PROVE  ~(a < b)
  <2>1. SUFFICES ASSUME a < b PROVE FALSE OBVIOUS
  <2>2. PICK k \in Nat : b = a + 1 + k BY <2>1
  <2>3. b * d = a * d + d + k * d BY <2>2
  <2>4. k * d >= 0 OBVIOUS
  <2> QED BY <1>2, <2>3, <2>4
<1>3. x \div d = q BY <1>1, <1>2
<1> QED BY <1>1, <1>3
--------------------------------------------------------------------------------
(***************************************************************************)
(* parseDuration.                                                          *)
(***************************************************************************)
Length == 0 .. MaxLength
\* A duration is an integer, and one that fits is not changed.
LEMMA WrapFits ==
  /\ \A x \in Int : Wrap(x) \in Int
  /\ \A x \in Length : Wrap(x) = x
<1> DEFINE d == 2 * MaxLength + 2
<1>1. MaxLength \in Nat /\ d \in Nat \ {0} BY SystemAssumption
<1>2. ASSUME NEW x \in Int PROVE Wrap(x) \in Int
  <2>1. (x + MaxLength + 1) % d \in 0 .. d - 1 BY <1>1, Division
  <2> QED BY <1>1, <2>1 DEF Wrap
<1>3. ASSUME NEW x \in Length PROVE Wrap(x) = x
  <2> DEFINE y == x + MaxLength + 1
  <2>1. y \in 0 .. d - 1 /\ y \in Int /\ y = 0 * d + y BY <1>1 DEF Length
  <2>2. y % d = y
    <3> HIDE DEF y, d
    <3> QED BY <1>1, <2>1, DivisionUnique
  <2> QED BY <1>1, <2>2 DEF Wrap, Length
<1> QED BY <1>2, <1>3

\* The sum over at most three parts is what its recursive definition says.
Sum1(parts) == Wrap(0 + LengthOf(parts[1]))
Sum2(parts) == Wrap(Sum1(parts) + LengthOf(parts[2]))
Sum3(parts) == Wrap(Sum2(parts) + LengthOf(parts[3]))
LEMMA SumOfParts ==
  ASSUME NEW t, Len(Split(t)) \in 1 .. 3
  PROVE  /\ Len(Split(t)) = 1 => parseDuration(t) = Sum1(Split(t))
         /\ Len(Split(t)) = 2 => parseDuration(t) = Sum2(Split(t))
         /\ Len(Split(t)) = 3 => parseDuration(t) = Sum3(Split(t))
<1> DEFINE parts == Split(t)
           n     == Len(parts)
           F(f)  == [i \in 0 .. Len(parts) |->
                       IF i = 0 THEN 0 ELSE Wrap(f[i - 1] + LengthOf(parts[i]))]
           P(f)  == f = F(f)
           g     == [i \in 0 .. Len(parts) |->
                       IF i = 0 THEN 0 ELSE IF i = 1 THEN Sum1(parts)
                       ELSE IF i = 2 THEN Sum2(parts) ELSE Sum3(parts)]
           sum   == CHOOSE f : P(f)
<1>1. parseDuration(t) = sum[n] BY DEF parseDuration
<1> HIDE DEF parts
<1>2. n \in 1 .. 3 BY DEF parts
<1>3. P(g) BY <1>2 DEF Sum1, Sum2, Sum3
<1>4. P(sum)
  <2> HIDE DEF P
  <2> QED BY <1>3, Zenon
<1> HIDE DEF sum
<1>5. sum[0] = 0 BY <1>2, <1>4
<1>6. sum[1] = Sum1(parts) BY <1>2, <1>4, <1>5 DEF Sum1
<1>7. n >= 2 => sum[2] = Sum2(parts) BY <1>2, <1>4, <1>6 DEF Sum2
<1>8. n >= 3 => sum[3] = Sum3(parts) BY <1>2, <1>4, <1>7 DEF Sum3
<1> HIDE DEF n, P, g
<1>9. /\ n = 1 => parseDuration(t) = Sum1(parts)
      /\ n = 2 => parseDuration(t) = Sum2(parts)
      /\ n = 3 => parseDuration(t) = Sum3(parts)
  BY <1>1, <1>6, <1>7, <1>8
<1> QED BY <1>9 DEF n, parts

\* What is given of one unit, and how many seconds it is.
Given(v, u)  == IF v = None THEN {} ELSE {<<v, u>>}
Seconds(v, u) == IF v = None THEN 0 ELSE v * u
Number        == Nat \cup {None}

\* A part that is accepted has one number, and its unit.
LEMMA SoundPart ==
  ASSUME NEW h \in Number, NEW m \in Number, NEW s \in Number, NEW part,
         part = Given(h, Hour) \cup Given(m, Minute) \cup Given(s, 1), Sound(part)
  PROVE  LengthOf(part) = Wrap(Seconds(h, Hour) + Seconds(m, Minute) + Seconds(s, 1))
<1> USE SystemAssumption
<1>1. IsFiniteSet(part)
  <2>1. ASSUME NEW v, NEW u PROVE IsFiniteSet(Given(v, u))
    BY FS_EmptySet, FS_Singleton DEF Given
  <2> QED BY <2>1, FS_Union
<1>2. PICK x : part = {x} BY <1>1, FS_Singleton DEF Sound
<1>3. LengthOf(part) = Wrap(x[1] * x[2])
  <2>1. (CHOOSE y \in part : TRUE) = x BY <1>2
  <2> QED BY <2>1 DEF LengthOf
<1>4. /\ h # None => x = <<h, Hour>>
      /\ m # None => x = <<m, Minute>>
      /\ s # None => x = <<s, 1>>
      /\ h # None \/ m # None \/ s # None
  BY <1>2 DEF Given
<1>5. /\ Hour # Minute /\ Minute # 1 /\ Hour # 1
      /\ Hour \in Nat /\ Minute \in Nat
  OBVIOUS
<1>6. x[1] * x[2] = Seconds(h, Hour) + Seconds(m, Minute) + Seconds(s, 1)
  <2>1. CASE h # None
    <3>1. x = <<h, Hour>> BY <1>4, <2>1
    <3>2. m = None /\ s = None BY <1>4, <1>5, <3>1
    <3> QED BY <1>5, <2>1, <3>1, <3>2 DEF Seconds, Number
  <2>2. CASE m # None
    <3>1. x = <<m, Minute>> BY <1>4, <2>2
    <3>2. h = None /\ s = None BY <1>4, <1>5, <3>1
    <3> QED BY <1>5, <2>2, <3>1, <3>2 DEF Seconds, Number
  <2>3. CASE s # None
    <3>1. x = <<s, 1>> BY <1>4, <2>3
    <3>2. h = None /\ m = None BY <1>4, <1>5, <3>1
    <3> QED BY <1>5, <2>3, <3>1, <3>2 DEF Seconds, Number
  <2> QED BY <1>4, <2>1, <2>2, <2>3
<1> QED BY <1>3, <1>6

\* A text that is understood gives an integer: the seconds it says, when a
\* duration holds them.
Total(t) == Seconds(t.h, Hour) + Seconds(t.m, Minute) + Seconds(t.s, 1)
LEMMA DurationOfText ==
  ASSUME NEW t \in Text, \A i \in DOMAIN Split(t) : Sound(Split(t)[i])
  PROVE  /\ parseDuration(t) \in Int
         /\ Total(t) \in Length => parseDuration(t) = Total(t)
<1> DEFINE hours   == Seconds(t.h, Hour)
           minutes == Seconds(t.m, Minute)
           seconds == Seconds(t.s, 1)
           H == Given(t.h, Hour)
           M == Given(t.m, Minute)
           S == Given(t.s, 1)
<1>1. /\ t.h \in Number /\ t.m \in Number /\ t.s \in Number
      /\ t.c1 \in BOOLEAN /\ t.c2 \in BOOLEAN /\ None \in Number
  BY DEF Text, Number
<1>2. hours \in Nat /\ minutes \in Nat /\ seconds \in Nat /\ MaxLength \in Nat
  BY <1>1, SystemAssumption DEF Seconds, Number
<1>3. Given(None, Hour) = {} /\ Given(None, Minute) = {} /\ Given(None, 1) = {}
  BY DEF Given
<1>4. Seconds(None, Hour) = 0 /\ Seconds(None, Minute) = 0 /\ Seconds(None, 1) = 0
  BY DEF Seconds
<1>5. Split(t) = CASE t.c1 /\ t.c2   -> <<H, M, S>>
                   [] t.c1 /\ ~t.c2  -> <<H, M \cup S>>
                   [] ~t.c1 /\ t.c2  -> <<H \cup M, S>>
                   [] OTHER          -> <<H \cup M \cup S>>
  BY DEF Split, Given
<1>6. /\ H = H \cup Given(None, Minute) \cup Given(None, 1)
      /\ S = Given(None, Hour) \cup Given(None, Minute) \cup S
      /\ M \cup S = Given(None, Hour) \cup M \cup S
      /\ H \cup M = H \cup M \cup Given(None, 1)
  BY <1>3
<1>7. /\ Sound(H) => LengthOf(H) = Wrap(hours)
      /\ Sound(S) => LengthOf(S) = Wrap(seconds)
      /\ Sound(M) => LengthOf(M) = Wrap(minutes)
      /\ Sound(M \cup S) => LengthOf(M \cup S) = Wrap(minutes + seconds)
      /\ Sound(H \cup M) => LengthOf(H \cup M) = Wrap(hours + minutes)
      /\ Sound(H \cup M \cup S) => LengthOf(H \cup M \cup S) = Wrap(hours + minutes + seconds)
  <2>1. /\ hours + 0 + 0 = hours /\ 0 + minutes + 0 = minutes /\ 0 + 0 + seconds = seconds
        /\ 0 + minutes + seconds = minutes + seconds /\ hours + minutes + 0 = hours + minutes
    BY <1>2
  <2>2. M = Given(None, Hour) \cup M \cup Given(None, 1) BY <1>3
  <2> HIDE DEF H, M, S, hours, minutes, seconds
  <2>3. Sound(H) => LengthOf(H) = Wrap(hours + 0 + 0)
    BY <1>1, <1>4, <1>6, SoundPart DEF H, hours
  <2>4. Sound(S) => LengthOf(S) = Wrap(0 + 0 + seconds)
    BY <1>1, <1>4, <1>6, SoundPart DEF S, seconds
  <2>5. Sound(M) => LengthOf(M) = Wrap(0 + minutes + 0)
    BY <1>1, <1>4, <2>2, SoundPart DEF M, minutes
  <2>6. Sound(M \cup S) => LengthOf(M \cup S) = Wrap(0 + minutes + seconds)
    BY <1>1, <1>4, <1>6, SoundPart DEF M, S, minutes, seconds
  <2>7. Sound(H \cup M) => LengthOf(H \cup M) = Wrap(hours + minutes + 0)
    BY <1>1, <1>4, <1>6, SoundPart DEF H, M, hours, minutes
  <2>8. Sound(H \cup M \cup S)
          => LengthOf(H \cup M \cup S) = Wrap(hours + minutes + seconds)
    BY <1>1, SoundPart DEF H, M, S, hours, minutes, seconds
  <2> QED BY <2>1, <2>3, <2>4, <2>5, <2>6, <2>7, <2>8
<1> DEFINE total == hours + minutes + seconds
<1>8. Total(t) = total BY DEF Total
<1> HIDE DEF H, M, S, hours, minutes, seconds
<1>9. \A x \in Int : Wrap(x) \in Int BY WrapFits
<1>10. \A x \in Length : Wrap(x) = x BY WrapFits
<1> SUFFICES /\ parseDuration(t) \in Int
             /\ total \in Length => parseDuration(t) = total
  BY <1>8
<1> HIDE DEF Length
<1>11. total \in Length =>
         /\ {hours, minutes, seconds, hours + minutes, minutes + seconds} \subseteq Length
         /\ 0 + hours = hours
  BY <1>2 DEF Length
<1>12. CASE t.c1 /\ t.c2
  <2>1. Split(t) = <<H, M, S>> BY <1>5, <1>12
  <2>2. Sound(H) /\ Sound(M) /\ Sound(S)
    <3>1. DOMAIN Split(t) = 1 .. 3 BY <2>1
    <3> QED BY <2>1, <3>1
  <2>3. parseDuration(t) = Wrap(Wrap(Wrap(0 + Wrap(hours)) + Wrap(minutes)) + Wrap(seconds))
    <3>1. parseDuration(t) = Sum3(Split(t))
      <4>1. Len(Split(t)) = 3 BY <2>1
      <4> QED BY <4>1, SumOfParts
    <3> QED BY <1>7, <2>1, <2>2, <3>1 DEF Sum1, Sum2, Sum3
  <2> QED BY <1>2, <1>9, <1>10, <1>11, <2>3
<1>13. CASE t.c1 /\ ~t.c2
  <2>1. Split(t) = <<H, M \cup S>> BY <1>5, <1>13
  <2>2. Sound(H) /\ Sound(M \cup S)
    <3>1. DOMAIN Split(t) = 1 .. 2 BY <2>1
    <3> QED BY <2>1, <3>1
  <2>3. parseDuration(t) = Wrap(Wrap(0 + Wrap(hours)) + Wrap(minutes + seconds))
    <3>1. parseDuration(t) = Sum2(Split(t))
      <4>1. Len(Split(t)) = 2 BY <2>1
      <4> QED BY <4>1, SumOfParts
    <3> QED BY <1>7, <2>1, <2>2, <3>1 DEF Sum1, Sum2
  <2> QED BY <1>2, <1>9, <1>10, <1>11, <2>3
<1>14. CASE ~t.c1 /\ t.c2
  <2>1. Split(t) = <<H \cup M, S>> BY <1>5, <1>14
  <2>2. Sound(H \cup M) /\ Sound(S)
    <3>1. DOMAIN Split(t) = 1 .. 2 BY <2>1
    <3> QED BY <2>1, <3>1
  <2>3. parseDuration(t) = Wrap(Wrap(0 + Wrap(hours + minutes)) + Wrap(seconds))
    <3>1. parseDuration(t) = Sum2(Split(t))
      <4>1. Len(Split(t)) = 2 BY <2>1
      <4> QED BY <4>1, SumOfParts
    <3> QED BY <1>7, <2>1, <2>2, <3>1 DEF Sum1, Sum2
  <2> QED BY <1>2, <1>9, <1>10, <1>11, <2>3
<1>15. CASE ~t.c1 /\ ~t.c2
  <2>1. Split(t) = <<H \cup M \cup S>> BY <1>5, <1>15
  <2>2. Sound(H \cup M \cup S)
    <3>1. DOMAIN Split(t) = 1 .. 1 BY <2>1
    <3> QED BY <2>1, <3>1
  <2>3. parseDuration(t) = Wrap(0 + Wrap(total))
    <3>1. parseDuration(t) = Sum1(Split(t))
      <4>1. Len(Split(t)) = 1 BY <2>1
      <4> QED BY <4>1, SumOfParts
    <3> QED BY <1>7, <2>1, <2>2, <3>1 DEF Sum1
  <2> QED BY <1>2, <1>9, <1>10, <2>3 DEF Length
<1> QED BY <1>1, <1>12, <1>13, <1>14, <1>15

\* What a jump adds to the clock, and that it is what was asked for.
Signed(r) == IF r.direction = "backwards" THEN -parseDuration(TextOf[r.interval])
             ELSE parseDuration(TextOf[r.interval])
LEMMA SignedAsAsked ==
  ASSUME NEW r, Understood(r.interval)
  PROVE  /\ Signed(r) \in Int
         /\ Asked(r) \in -MaxLength .. MaxLength => Signed(r) = Asked(r)
<1> DEFINE t == TextOf[r.interval]
<1>1. t \in Text /\ \A i \in DOMAIN Split(t) : Sound(Split(t)[i])
  BY SystemAssumption DEF Understood
<1>2. Asked(r) = IF r.direction = "backwards" THEN -Total(t) ELSE Total(t)
  <2>1. {Hour, Minute} \subseteq Nat BY SystemAssumption
  <2>2. \A u \in Nat : 0 * u = 0 OBVIOUS
  <2>3. /\ t.h \in Number /\ t.m \in Number /\ t.s \in Number
    BY <1>1 DEF Text, Number
  <2> HIDE DEF t
  <2>4. /\ (IF t.h = None THEN 0 ELSE t.h) * Hour = Seconds(t.h, Hour)
        /\ (IF t.m = None THEN 0 ELSE t.m) * Minute = Seconds(t.m, Minute)
        /\ (IF t.s = None THEN 0 ELSE t.s) = Seconds(t.s, 1)
    BY <2>1, <2>2, <2>3 DEF Seconds, Number
  <2> QED BY <2>4 DEF Asked, Total, t
<1> HIDE DEF t
<1>3. Total(t) \in Nat
  BY <1>1, SystemAssumption DEF Total, Seconds, Text
<1>4. MaxLength \in Nat BY SystemAssumption
<1>5. parseDuration(t) \in Int /\ (Total(t) \in Length => parseDuration(t) = Total(t))
  BY <1>1, DurationOfText
<1> QED BY <1>2, <1>3, <1>4, <1>5 DEF Signed, Length, t
--------------------------------------------------------------------------------
(***************************************************************************)
(* Days.                                                                   *)
(***************************************************************************)
\* The last second of the last day that the clocks reach.
Last == (MaxTime \div Day) * Day + Day - 1

\* A time of day that is set does not leave the day.
LEMMA LastDay ==
  /\ Last \in Nat /\ Day - 1 <= Last /\ MaxTime <= Last /\ Last <= MaxTime + Day
  /\ \A n \in 0 .. Last, r \in 0 .. Day - 1 : (n \div Day) * Day + r \in 0 .. Last
<1>1. Day \in Nat \ {0} /\ MaxTime \in Nat BY SystemAssumption
<1> DEFINE b == MaxTime \div Day
<1>2. b \in Int /\ MaxTime % Day \in 0 .. Day - 1 /\ MaxTime = b * Day + (MaxTime % Day)
  BY <1>1, Division
<1>3. ASSUME NEW i \in Int, NEW j \in Int, i < j PROVE i * Day + Day <= j * Day
  <2>1. PICK k \in Nat : j = i + 1 + k BY <1>3
  <2>2. j * Day = i * Day + Day + k * Day /\ k * Day >= 0 BY <1>1, <2>1
  <2> QED BY <1>1, <2>2
<1> HIDE DEF b
<1>4. Last = b * Day + Day - 1 BY DEF Last, b
<1>5. b >= 0
  <2>1. b < 0 => b * Day + Day <= 0 BY <1>1, <1>2, <1>3
  <2> QED BY <1>1, <1>2, <2>1
<1>6. b * Day >= 0 /\ b * Day \in Int BY <1>1, <1>2, <1>5
<1>7. Last \in Nat /\ Day - 1 <= Last /\ MaxTime <= Last /\ Last <= MaxTime + Day
  BY <1>1, <1>2, <1>4, <1>6
<1>8. ASSUME NEW n \in 0 .. Last, NEW r \in 0 .. Day - 1
      PROVE  (n \div Day) * Day + r \in 0 .. Last
  <2> DEFINE q == n \div Day
  <2>1. n \in Int BY <1>7
  <2>2. q \in Int /\ n % Day \in 0 .. Day - 1 /\ n = q * Day + (n % Day)
    BY <1>1, <2>1, Division
  <2> HIDE DEF q
  <2>3. q * Day \in Int BY <1>1, <2>2
  <2>4. q <= b
    <3>1. b < q => b * Day + Day <= q * Day BY <1>2, <1>3, <2>2
    <3>2. n <= Last BY <1>7
    <3> QED BY <1>1, <1>2, <1>4, <1>6, <2>1, <2>2, <2>3, <3>1, <3>2
  <2>5. q * Day <= b * Day
    <3>1. q < b => q * Day + Day <= b * Day BY <1>2, <1>3, <2>2
    <3> QED BY <1>1, <1>2, <1>6, <2>2, <2>3, <2>4, <3>1
  <2>6. q >= 0
    <3>1. q < 0 => q * Day + Day <= 0 BY <1>1, <1>3, <2>2
    <3> QED BY <1>1, <1>7, <2>2, <2>3, <3>1
  <2>7. q * Day >= 0 BY <1>1, <2>2, <2>6
  <2>8. q * Day + r \in 0 .. Last BY <1>1, <1>4, <1>6, <1>7, <2>3, <2>5, <2>7
  <2> QED BY <2>8 DEF q
<1> QED BY <1>7, <1>8

\* What setting the time of day does, when it was computed from the same clock.
LEMMA SetWithinDay ==
  ASSUME NEW s \in Nat, NEW a \in Int, NEW new,
         new = (s \div Day) * Day + ((s + a) % Day)
  PROVE  /\ new \div Day = s \div Day
         /\ (new - s - a) % Day = 0
         /\ (s + a) \div Day = s \div Day => new = s + a
<1>1. Day \in Nat \ {0} BY SystemAssumption
<1> DEFINE q == s \div Day
           e == (s + a) \div Day
           r == (s + a) % Day
<1>2. q \in Int BY <1>1, Division
<1>3. e \in Int /\ r \in 0 .. Day - 1 /\ s + a = e * Day + r BY <1>1, Division
<1>4. new = q * Day + r OBVIOUS
<1> HIDE DEF q, e, r
<1>5. /\ q * Day \in Int /\ e * Day \in Int /\ r \in Int
      /\ q * Day - e * Day = (q - e) * Day + 0
  BY <1>1, <1>2, <1>3
<1>6. new \in Int /\ new - s - a = (q - e) * Day + 0 /\ new - s - a \in Int
  BY <1>3, <1>4, <1>5
<1>7. new \div Day = q BY <1>1, <1>2, <1>3, <1>4, <1>6, DivisionUnique
<1>8. (new - s - a) % Day = 0
  <2>1. q - e \in Int /\ 0 \in 0 .. Day - 1 BY <1>1, <1>2, <1>3
  <2> QED BY <1>1, <1>6, <2>1, DivisionUnique
<1>9. e = q => new = s + a BY <1>3, <1>4
<1> QED BY <1>7, <1>8, <1>9 DEF q, e
--------------------------------------------------------------------------------
(***************************************************************************)
(* Type correctness, and what an invocation at work can rely on.           *)
(***************************************************************************)
\* TypeOK part by part, with the sharper bound of the clocks.
Clocks  == {sys, rtc} \subseteq 0 .. Last
Systemd == /\ svc \in {"active", "inactive", "absent"}
           /\ job \in {"none", "stop", "start", "restart"}
           /\ svc = "absent" => job = "none"
Waiters == waiting = {p \in Proc : pc[p] = "wait"} /\ (waiting # {} => job # "none")
Rest    == /\ disk \in {"rw", "remounting", "ro"}
           /\ machine \in {"up", "stopping", "booting", "panicked"} /\ due \in BOOLEAN
           /\ fresh \in [Proc -> BOOLEAN]
Slots   == /\ pc \in [Proc -> {"idle", "exec", "date", "wait"}]
           /\ req \in [Proc -> menu \cup {Nothing}]
           /\ target \in [Proc -> 0 .. Day - 1]
           /\ result \in [Proc -> {"none", "ok", "failed"}]
           /\ \A p \in Proc : IF pc[p] = "idle" THEN req[p] = Nothing ELSE req[p] \in menu
\* An invocation at work has reported nothing yet, and is one of an operation.
Pending == \A p \in Proc : pc[p] # "idle" => result[p] = "none" /\ req[p].op \in Operations
\* Who waits, waits for a job that does what the request asks for.
Agreed == \A p \in Proc :
            pc[p] = "wait" => /\ req[p].fault \in {"service-stop", "service-restart"}
                              /\ <<req[p].fault, req[p].op>> # <<"service-restart", "remove">>
                              /\ Command(req[p]) = "stop" <=> job = "stop"
\* The time of day that is about to be set is that of the jump, while the clock
\* shows what it was computed from.
Aimed == \A p \in Proc :
           pc[p] = "date" => /\ Understood(req[p].interval)
                             /\ fresh[p] => target[p] = (sys + Signed(req[p])) % Day
IInv == Clocks /\ Systemd /\ Waiters /\ Rest /\ Slots /\ Pending /\ Agreed /\ Aimed

\* What becomes of one slot.
Same(q)  == /\ pc'[q] = pc[q] /\ req'[q] = req[q] /\ target'[q] = target[q]
            /\ result'[q] = result[q]
Over(q)  == /\ pc'[q] = "idle" /\ req'[q] = Nothing /\ target'[q] = 0
            /\ result'[q] \in {"none", "ok", "failed"}
\* A step that ends the invocations of a set and touches no other.
Only(S) == \A q \in Proc : IF q \in S THEN Over(q) ELSE Same(q)
Whole   == /\ DOMAIN pc' = Proc /\ DOMAIN req' = Proc
           /\ DOMAIN target' = Proc /\ DOMAIN result' = Proc
           /\ pc' = [q \in Proc |-> pc'[q]] /\ req' = [q \in Proc |-> req'[q]]
           /\ target' = [q \in Proc |-> target'[q]] /\ result' = [q \in Proc |-> result'[q]]

LEMMA EndAllEnds ==
  ASSUME NEW out, EndAll(out), \A q \in DOMAIN out : out[q] \in {"none", "ok", "failed"}
  PROVE  /\ Whole /\ Only(DOMAIN out)
         /\ \A q \in Proc \cap DOMAIN out : result'[q] = out[q]
BY DEF EndAll, Whole, Only, Over, Same

LEMMA EndEnds ==
  ASSUME NEW p \in Proc, NEW r \in {"none", "ok", "failed"}, End(p, r)
  PROVE  Whole /\ Only({p}) /\ result'[p] = r
<1> DEFINE out == [q \in {p} |-> r]
<1>1. EndAll(out) BY DEF End
<1>2. DOMAIN out = {p} /\ out[p] = r OBVIOUS
<1> HIDE DEF out
<1> QED BY <1>1, <1>2, EndAllEnds

\* Such a step keeps all that is said of the slots.
LEMMA OnlyKeeps ==
  ASSUME IInv, NEW S, Whole, Only(S), menu' = menu
  PROVE  Slots' /\ Pending'
<1>1. ASSUME NEW q \in Proc
      PROVE  /\ pc'[q] \in {"idle", "exec", "date", "wait"} /\ req'[q] \in menu \cup {Nothing}
             /\ target'[q] \in 0 .. Day - 1 /\ result'[q] \in {"none", "ok", "failed"}
             /\ IF pc'[q] = "idle" THEN req'[q] = Nothing ELSE req'[q] \in menu
             /\ pc'[q] # "idle" => result'[q] = "none" /\ req'[q].op \in Operations
  <2>1. CASE q \in S BY <2>1, SystemAssumption DEF Only, Over
  <2>2. CASE q \notin S BY <2>2 DEF Only, Same, IInv, Slots, Pending
  <2> QED BY <2>1, <2>2
<1> QED BY <1>1 DEF Slots, Pending, Whole

\* It keeps what waiters and jumps rely on, if the job, the service and the clock
\* stay as they are.
LEMMA OnlyAgrees ==
  ASSUME IInv, NEW S, Only(S), job' = job
  PROVE  Agreed'
BY DEF IInv, Agreed, Only, Over, Same, Command

LEMMA OnlyAims ==
  ASSUME IInv, NEW S, Only(S), sys' = sys, fresh' = fresh
  PROVE  Aimed'
<1> SUFFICES ASSUME NEW q \in Proc, pc'[q] = "date"
             PROVE  /\ Understood(req'[q].interval)
                    /\ fresh[q] => target'[q] = (sys + Signed(req'[q])) % Day
  BY DEF Aimed, Understood, Signed
<1>1. q \notin S BY DEF Only, Over
<1>2. Same(q) BY <1>1 DEF Only
<1> QED BY <1>2 DEF Same, IInv, Aimed

LEMMA StaleAims ==
  ASSUME IInv, NEW S, Only(S), fresh' = [p \in Proc |-> FALSE]
  PROVE  Aimed'
<1> SUFFICES ASSUME NEW q \in Proc, pc'[q] = "date" PROVE Understood(req'[q].interval)
  BY DEF Aimed, Understood
<1>1. q \notin S BY DEF Only, Over
<1>2. Same(q) BY <1>1 DEF Only
<1> QED BY <1>2 DEF Same, IInv, Aimed

LEMMA OnlyWaits ==
  ASSUME IInv, NEW S, Only(S), waiting' = waiting \ S,
         job' = job \/ waiting' = {}
  PROVE  Waiters'
<1>1. \A q \in Proc : pc'[q] = "wait" <=> pc[q] = "wait" /\ q \notin S
  BY DEF Only, Over, Same
<1> QED BY <1>1 DEF IInv, Waiters

LEMMA EndKeeps ==
  ASSUME IInv, NEW p \in Proc, NEW r \in {"none", "ok", "failed"}, End(p, r),
         waiting' = waiting \ {p}, UNCHANGED <<menu, job>>
  PROVE  Slots' /\ Pending' /\ Agreed' /\ Waiters'
<1>1. Whole /\ Only({p}) BY EndEnds
<1> QED BY <1>1, OnlyKeeps, OnlyAgrees, OnlyWaits

\* Who is not waiting is not in the set.
LEMMA NotWaiting ==
  ASSUME IInv, NEW p \in Proc, pc[p] # "wait"
  PROVE  waiting \ {p} = waiting
BY DEF IInv, Waiters

LEMMA InitHolds == Init => IInv
<1> SUFFICES ASSUME Init PROVE IInv OBVIOUS
<1>1. Clocks BY LastDay, SystemAssumption DEF Init, Clocks
<1>2. Slots BY SystemAssumption DEF Init, Slots
<1> QED BY <1>1, <1>2 DEF Init, IInv, Systemd, Waiters, Rest, Pending, Agreed, Aimed

\* time-jump.
LEMMA JumpReadKeeps ==
  ASSUME IInv, NEW p \in Proc, JumpRead(p), menu' = menu
  PROVE  IInv'
<1> USE DEF IInv
<1>1. /\ pc[p] = "exec" /\ pc' = [pc EXCEPT ![p] = "date"] /\ UNCHANGED <<req, result>>
      /\ fresh' = [fresh EXCEPT ![p] = TRUE]
      /\ UNCHANGED <<clock, service, disk, machine, due>> /\ Understood(req[p].interval)
  BY DEF JumpRead, Read, Goto
<1>2. target' = [target EXCEPT ![p] = (sys + Signed(req[p])) % Day]
  <2>1. parseDuration(TextOf[req[p].interval]) \in Int /\ sys \in Int
    BY <1>1, DurationOfText, SystemAssumption, LastDay DEF Understood, Clocks
  <2> QED BY <2>1 DEF JumpRead, Read, Interval, Signed
<1>3. (sys + Signed(req[p])) % Day \in 0 .. Day - 1
  <2>1. Signed(req[p]) \in Int BY <1>1, SignedAsAsked
  <2>2. sys + Signed(req[p]) \in Int BY <2>1, LastDay DEF Clocks
  <2> QED BY <2>2, Division, SystemAssumption
<1>4. Slots'
  <2>1. /\ pc' \in [Proc -> {"idle", "exec", "date", "wait"}] /\ target' \in [Proc -> 0 .. Day - 1]
    BY <1>1, <1>2, <1>3 DEF Slots
  <2> QED BY <1>1, <2>1 DEF Slots
<1>5. \A q \in Proc : (pc'[q] = "wait" <=> pc[q] = "wait") /\ (pc'[q] = "idle" <=> pc[q] = "idle")
  BY <1>1 DEF Slots
<1>6. Pending' /\ Agreed' BY <1>1, <1>5 DEF Pending, Agreed, service, Command
<1>7. Waiters' BY <1>1, <1>5 DEF Waiters, service
<1>8. Aimed'
  <2> SUFFICES ASSUME NEW q \in Proc, pc'[q] = "date"
               PROVE  /\ Understood(req[q].interval)
                      /\ fresh'[q] => target'[q] = (sys + Signed(req[q])) % Day
    BY <1>1 DEF Aimed, Understood, Signed, clock
  <2>1. CASE q = p BY <1>1, <1>2, <2>1 DEF Slots
  <2>2. CASE q # p BY <1>1, <1>2, <2>2 DEF Slots, Rest, Aimed
  <2> QED BY <2>1, <2>2
<1> QED BY <1>1, <1>4, <1>6, <1>7, <1>8 DEF Clocks, Systemd, Rest, clock, service

LEMMA DateKeeps ==
  ASSUME IInv, NEW p \in Proc, SetDate(p) \/ FromHardware(p), menu' = menu
  PROVE  IInv'
<1>1. PICK r \in {"none", "ok", "failed"} :
        End(p, r) BY DEF SetDate, FromHardware, Reports
<1>2. pc[p] # "wait" /\ UNCHANGED <<service, disk, machine, due>>
      /\ fresh' = [q \in Proc |-> FALSE] /\ UNCHANGED rtc
  BY DEF SetDate, FromHardware, Runs, Set
<1>3. Slots' /\ Pending' /\ Agreed' /\ Waiters'
  BY <1>1, <1>2, EndKeeps, NotWaiting DEF service
<1>4. Aimed' BY <1>1, <1>2, EndEnds, StaleAims
<1>5. sys' \in 0 .. Last
  <2>1. CASE SetDate(p)
    <3>1. target[p] \in 0 .. Day - 1 /\ sys \in 0 .. Last BY DEF IInv, Slots, Clocks
    <3> QED BY <2>1, <3>1, LastDay DEF SetDate, Set
  <2>2. CASE FromHardware(p) BY <2>2 DEF FromHardware, Set, IInv, Clocks
  <2> QED BY <2>1, <2>2
<1> QED BY <1>2, <1>3, <1>4, <1>5 DEF IInv, Clocks, Systemd, Rest, service

\* The service faults.
LEMMA ExecuteKeeps ==
  ASSUME IInv, NEW p \in Proc, Execute(p), menu' = menu
  PROVE  IInv'
<1> USE DEF IInv
<1>1. /\ pc[p] = "exec" /\ req[p].fault \in {"service-stop", "service-restart"}
      /\ <<req[p].fault, req[p].op>> # <<"service-restart", "remove">>
      /\ UNCHANGED <<clock, disk, machine, due, fresh>>
  BY DEF Execute
<1>2. CASE svc = "absent"
  <2>1. End(p, "failed") /\ UNCHANGED service BY <1>2 DEF Execute
  <2>2. Slots' /\ Pending' /\ Agreed' /\ Waiters'
    BY <1>1, <2>1, EndKeeps, NotWaiting DEF service
  <2>3. Aimed' BY <1>1, <2>1, EndEnds, OnlyAims DEF clock
  <2> QED BY <1>1, <2>1, <2>2, <2>3 DEF Clocks, Systemd, Rest, clock, service
<1>3. CASE svc # "absent"
  <2> DEFINE new == Command(req[p])
             out == IF job # new /\ "stop" \in {job, new} THEN waiting ELSE {}
  <2>1. /\ job' = IF {job, new} = {"start", "restart"} THEN "restart" ELSE new
        /\ waiting' = (waiting \ out) \cup {p}
        /\ pc' = [q \in Proc |-> CASE q = p -> "wait" [] q \in out -> "idle"
                                   [] OTHER -> pc[q]]
        /\ req' = [q \in Proc |-> IF q \in out THEN Nothing ELSE req[q]]
        /\ result' = [q \in Proc |-> IF q \in out THEN "failed" ELSE result[q]]
        /\ UNCHANGED <<svc, target>>
    BY <1>3 DEF Execute
  <2>2. new \in {"stop", "start", "restart"} BY DEF Command
  <2>3. job' \in {"stop", "start", "restart"} /\ (job' = "stop" <=> new = "stop")
    BY <2>1, <2>2
  <2>4. out \subseteq waiting /\ p \notin out /\ waiting \subseteq Proc
    BY <1>1 DEF Waiters
  <2>5. \A q \in waiting \ out : (job = "stop" <=> new = "stop")
    BY <2>2 DEF Systemd, Waiters
  <2> HIDE DEF new, out
  <2>6. /\ pc'[p] = "wait" /\ req'[p] = req[p] /\ result'[p] = result[p]
        /\ \A q \in out : pc'[q] = "idle" /\ req'[q] = Nothing /\ result'[q] = "failed"
        /\ \A q \in Proc \ (out \cup {p}) :
             pc'[q] = pc[q] /\ req'[q] = req[q] /\ result'[q] = result[q]
    BY <2>1, <2>4
  <2>7. Slots'
    <3>1. pc' \in [Proc -> {"idle", "exec", "date", "wait"}]
      BY <2>1, <2>6 DEF Slots
    <3>2. /\ req' \in [Proc -> menu \cup {Nothing}]
          /\ result' \in [Proc -> {"none", "ok", "failed"}]
      BY <2>1 DEF Slots
    <3>3. \A q \in Proc : IF pc'[q] = "idle" THEN req'[q] = Nothing ELSE req'[q] \in menu
      BY <1>1, <2>6 DEF Slots
    <3> QED BY <2>1, <3>1, <3>2, <3>3 DEF Slots
  <2>8. Pending' BY <1>1, <2>6 DEF Pending
  <2>9. waiting' = {q \in Proc : pc'[q] = "wait"} BY <2>1, <2>4, <2>6 DEF Waiters
  <2>10. Waiters' BY <2>3, <2>9 DEF Waiters
  <2>11. Agreed'
    <3> SUFFICES ASSUME NEW q \in Proc, pc'[q] = "wait"
                 PROVE  /\ req'[q].fault \in {"service-stop", "service-restart"}
                        /\ <<req'[q].fault, req'[q].op>> # <<"service-restart", "remove">>
                        /\ Command(req'[q]) = "stop" <=> job' = "stop"
      BY DEF Agreed, Command
    <3>1. CASE q = p BY <1>1, <2>3, <2>6, <3>1 DEF new
    <3>2. CASE q # p
      <4>1. q \in waiting \ out /\ req'[q] = req[q]
        BY <2>6, <3>2, <2>4 DEF Waiters
      <4>2. pc[q] = "wait" BY <4>1 DEF Waiters
      <4> QED BY <2>3, <2>5, <4>1, <4>2 DEF Agreed
    <3> QED BY <3>1, <3>2
  <2>12. Aimed'
    <3> SUFFICES ASSUME NEW q \in Proc, pc'[q] = "date"
                 PROVE  /\ Understood(req'[q].interval)
                        /\ fresh[q] => target[q] = (sys + Signed(req'[q])) % Day
      BY <1>1, <2>1 DEF Aimed, Understood, Signed, clock
    <3>1. q \notin out /\ q # p BY <2>6
    <3> QED BY <2>6, <3>1 DEF Aimed
  <2> QED BY <1>1, <2>1, <2>3, <2>7, <2>8, <2>10, <2>11, <2>12, <1>3
          DEF Clocks, Systemd, Rest, clock
<1> QED BY <1>2, <1>3

LEMMA TimesOutKeeps ==
  ASSUME IInv, NEW p \in Proc, TimesOut(p), menu' = menu
  PROVE  IInv'
<1>1. /\ End(p, "failed") /\ waiting' = waiting \ {p}
      /\ UNCHANGED <<clock, svc, job, disk, machine, due, fresh>>
  BY DEF TimesOut
<1>2. Slots' /\ Pending' /\ Agreed' /\ Waiters' BY <1>1, EndKeeps
<1>3. Aimed' BY <1>1, EndEnds, OnlyAims DEF clock
<1> QED BY <1>1, <1>2, <1>3 DEF IInv, Clocks, Systemd, Rest, clock

LEMMA JobDoneKeeps ==
  ASSUME IInv, JobDone, menu' = menu
  PROVE  IInv'
<1>1. /\ job' = "none" /\ waiting' = {} /\ UNCHANGED <<clock, disk, machine, due, fresh>>
      /\ svc' \in {"active", "inactive"}
  BY DEF JobDone
<1>2. PICK r \in {"none", "ok", "failed"} : EndAll([q \in waiting |-> r]) BY DEF JobDone
<1>3. PICK out : out = [q \in waiting |-> r] OBVIOUS
<1>4. Whole /\ Only(DOMAIN out) BY <1>2, <1>3, EndAllEnds
<1>5. DOMAIN out = waiting BY <1>3
<1>6. Slots' /\ Pending' BY <1>4, OnlyKeeps
<1>7. \A q \in Proc : pc'[q] # "wait"
  BY <1>4, <1>5 DEF Only, Over, Same, IInv, Waiters
<1>8. Waiters' /\ Agreed' BY <1>1, <1>7 DEF Waiters, Agreed
<1>9. Aimed' BY <1>1, <1>4, OnlyAims DEF clock
<1> QED BY <1>1, <1>6, <1>8, <1>9 DEF IInv, Clocks, Systemd, Rest, clock

\* The sysrq faults, and the machine.
LEMMA HaltedKeeps ==
  ASSUME IInv, Halted, UNCHANGED <<clock, disk, menu>>, due' \in {due, FALSE},
         machine' \in {"up", "stopping", "booting", "panicked"}
  PROVE  IInv'
<1>1. /\ job' = "none" /\ waiting' = {} /\ fresh' = [p \in Proc |-> FALSE]
      /\ svc' \in {"active", "inactive", "absent"}
  BY DEF Halted, IInv, Systemd
<1>2. PICK out : out = [q \in {x \in Proc : pc[x] # "idle"} |-> "none"] OBVIOUS
<1>3. DOMAIN out = {x \in Proc : pc[x] # "idle"} /\ Whole /\ Only(DOMAIN out)
  BY <1>2, EndAllEnds DEF Halted
<1>4. Slots' /\ Pending' BY <1>3, OnlyKeeps
<1>5. \A q \in Proc : pc'[q] = "idle" BY <1>3 DEF Only, Over, Same
<1>6. Waiters' /\ Agreed' /\ Aimed' BY <1>1, <1>5 DEF Waiters, Agreed, Aimed
<1> QED BY <1>1, <1>4, <1>6 DEF IInv, Clocks, Systemd, Rest, clock

LEMMA OutOfMemoryKeeps ==
  ASSUME IInv, NEW p \in Proc, OutOfMemory(p), menu' = menu
  PROVE  IInv'
<1>1. pc[p] = "exec" /\ UNCHANGED <<clock, job, disk, machine, due, fresh>>
  BY DEF OutOfMemory, Runs
<1>2. ASSUME NEW r \in Reports, End(p, r), UNCHANGED waiting,
             svc' = svc \/ (svc = "active" /\ svc' = "inactive")
      PROVE  IInv'
  <2>1. Slots' /\ Pending' /\ Agreed' /\ Waiters'
    BY <1>1, <1>2, EndKeeps, NotWaiting DEF Reports
  <2>2. Aimed' BY <1>1, <1>2, EndEnds, OnlyAims DEF clock, Reports
  <2> QED BY <1>1, <1>2, <2>1, <2>2 DEF IInv, Clocks, Systemd, Rest, clock
<1>3. ASSUME NEW r \in Reports, NEW q \in Proc \ {p}, waiting' = waiting \ {q}, UNCHANGED svc,
             EndAll([x \in {p, q} |-> IF x = p THEN r ELSE "none"])
      PROVE  IInv'
  <2>1. PICK out : out = [x \in {p, q} |-> IF x = p THEN r ELSE "none"] OBVIOUS
  <2>2. DOMAIN out = {p, q} /\ Whole /\ Only(DOMAIN out)
    BY <1>3, <2>1, EndAllEnds DEF Reports
  <2>3. waiting' = waiting \ {p, q}
    BY <1>1, <1>3, NotWaiting
  <2>4. Slots' /\ Pending' /\ Agreed' /\ Waiters' /\ Aimed'
    BY <1>1, <2>2, <2>3, OnlyKeeps, OnlyAgrees, OnlyWaits, OnlyAims DEF clock
  <2> QED BY <1>1, <1>3, <2>4 DEF IInv, Clocks, Systemd, Rest, clock
<1> QED BY <1>2, <1>3 DEF OutOfMemory

LEMMA LeaveKeeps ==
  ASSUME IInv, NEW p \in Proc, menu' = menu,
         JumpRefused(p) \/ Remount(p) \/ Reboot(p) \/ Leave(p) \/ CommandFails(p)
  PROVE  IInv'
<1>1. PICK r \in {"ok", "failed"} : End(p, r)
  BY DEF JumpRefused, Remount, Reboot, Leave, CommandFails, Reports
<1>2. pc[p] # "wait" /\ UNCHANGED <<clock, service, fresh>>
      /\ disk' \in {disk, "remounting"} /\ machine' \in {machine, "stopping"}
      /\ due' \in {due, TRUE}
  BY DEF JumpRefused, Remount, Reboot, Leave, CommandFails, Runs, IInv, Rest
<1>3. Slots' /\ Pending' /\ Agreed' /\ Waiters'
  BY <1>1, <1>2, EndKeeps, NotWaiting DEF service
<1>4. Aimed' BY <1>1, <1>2, EndEnds, OnlyAims DEF clock
<1> QED BY <1>2, <1>3, <1>4 DEF IInv, Clocks, Systemd, Rest, clock, service

LEMMA RunCmdKeeps ==
  ASSUME IInv, NEW p \in Proc, NEW r \in menu, RunCmd(p, r), menu' = menu
  PROVE  IInv'
<1>1. pc[p] = "idle" /\ UNCHANGED <<clock, service, disk, machine, due, fresh>>
  BY DEF RunCmd
<1>2. ASSUME NEW o \in {"ok", "failed"}, End(p, o) PROVE IInv'
  <2>1. Slots' /\ Pending' /\ Agreed' /\ Waiters'
    BY <1>1, <1>2, EndKeeps, NotWaiting DEF service
  <2>2. Aimed' BY <1>1, <1>2, EndEnds, OnlyAims DEF clock
  <2> QED BY <1>1, <2>1, <2>2 DEF IInv, Clocks, Systemd, Rest, clock, service
<1>3. CASE /\ r.op \in Operations
           /\ pc' = [pc EXCEPT ![p] = "exec"] /\ req' = [req EXCEPT ![p] = r]
           /\ result' = [result EXCEPT ![p] = "none"] /\ UNCHANGED target
  <2> USE <1>1, <1>3 DEF IInv
  <2>1. Slots' BY DEF Slots
  <2>2. Pending' BY DEF Slots, Pending
  <2>3. \A q \in Proc : /\ pc'[q] \in {"wait", "date"} => pc'[q] = pc[q] /\ req'[q] = req[q]
                        /\ pc'[q] = "wait" <=> pc[q] = "wait"
    BY DEF Slots
  <2>4. Waiters' /\ Agreed' BY <2>3 DEF Waiters, Agreed, Command, service
  <2>5. Aimed'
    <3> SUFFICES ASSUME NEW q \in Proc, pc'[q] = "date"
                 PROVE  /\ Understood(req'[q].interval)
                        /\ fresh[q] => target[q] = (sys + Signed(req'[q])) % Day
      BY DEF Aimed, Understood, Signed, clock
    <3>1. pc[q] = "date" /\ req'[q] = req[q] BY <2>3
    <3> QED BY <3>1 DEF Aimed
  <2> QED BY <2>1, <2>2, <2>4, <2>5 DEF Clocks, Systemd, Rest, clock, service
<1> QED BY <1>2, <1>3 DEF RunCmd

LEMMA MachineKeeps ==
  ASSUME IInv, Remounted \/ Tick \/ Boot, menu' = menu
  PROVE  IInv'
<1>1. UNCHANGED <<local, job, waiting>>
  BY DEF Remounted, Tick, Boot, Set, service
<1>2. /\ sys' \in 0 .. Last /\ rtc' \in 0 .. Last
      /\ (sys' = sys /\ fresh' = fresh) \/ fresh' = [p \in Proc |-> FALSE]
  BY LastDay, SystemAssumption DEF Remounted, Tick, Boot, Set, clock, IInv, Clocks
<1>3. /\ svc' \in {"active", "inactive", "absent"} /\ (svc' = "absent" <=> svc = "absent")
      /\ disk' \in {"rw", "remounting", "ro"}
      /\ machine' \in {"up", "stopping", "booting", "panicked"} /\ due' \in BOOLEAN
  BY DEF Remounted, Tick, Boot, service, IInv, Systemd, Rest
<1>4. Slots' /\ Pending' /\ Waiters' /\ Agreed'
  BY <1>1 DEF local, IInv, Slots, Pending, Waiters, Agreed, Command
<1>5. Aimed'
  <2> SUFFICES ASSUME NEW q \in Proc, pc'[q] = "date"
               PROVE  /\ Understood(req'[q].interval)
                      /\ fresh'[q] => target'[q] = (sys' + Signed(req'[q])) % Day
    BY DEF Aimed, Understood, Signed
  <2>1. pc[q] = "date" /\ req' = req /\ target' = target BY <1>1 DEF local
  <2> QED BY <1>2, <2>1 DEF IInv, Aimed
<1> QED BY <1>1, <1>2, <1>3, <1>4, <1>5 DEF IInv, Clocks, Systemd, Rest

LEMMA NextKeeps == IInv /\ [Next]_vars => IInv'
<1> SUFFICES ASSUME IInv, [Next]_vars PROVE IInv' OBVIOUS
<1>1. CASE UNCHANGED vars
  BY <1>1 DEF vars, state, clock, service, local, IInv, Clocks, Systemd, Waiters, Rest,
              Slots, Pending, Agreed, Aimed, Command, Signed, Understood
<1>2. CASE Next
  <2> USE <1>2
  <2>1. menu' = menu BY DEF Next
  <2>2. ASSUME NEW p \in Proc, Step(p) PROVE IInv'
    <3>1. CASE Panic(p) BY <2>1, <3>1, HaltedKeeps DEF Panic
    <3>2. CASE RebootAbnormal(p) BY <2>1, <3>2, HaltedKeeps DEF RebootAbnormal
    <3> QED BY <2>1, <2>2, <3>1, <3>2, JumpReadKeeps, DateKeeps, ExecuteKeeps, TimesOutKeeps,
               OutOfMemoryKeeps, LeaveKeeps DEF Step
  <2>3. CASE ShutDown BY <2>1, <2>3, HaltedKeeps DEF ShutDown
  <2> QED BY <2>1, <2>2, <2>3, RunCmdKeeps, JobDoneKeeps, MachineKeeps DEF Next
<1> QED BY <1>1, <1>2

\* Every reachable state is well typed, for any number of invocations and any menu.
THEOREM TypeCorrect == Spec => []TypeOK
<1>1. IInv => TypeOK
  BY LastDay, SystemAssumption DEF IInv, Clocks, Systemd, Waiters, Rest, Slots, TypeOK
<1> QED BY InitHolds, NextKeeps, <1>1, PTL DEF Spec
--------------------------------------------------------------------------------
(***************************************************************************)
(* What is reported.                                                       *)
(***************************************************************************)
\* An invocation at work that reports success does so at its last step, or, when
\* it waits for systemd, when the job is done.
LEMMA ReportsOk ==
  ASSUME IInv, Next, NEW p \in Proc, pc[p] # "idle", result'[p] = "ok"
  PROVE  (JobDone /\ p \in waiting) \/ SetDate(p) \/ pc[p] = "exec"
<1>1. result[p] = "none" BY DEF IInv, Pending
<1>2. ASSUME result'[p] = result[p] PROVE FALSE BY <1>1, <1>2
<1>3. ASSUME NEW q \in Proc, NEW r \in {"none", "ok", "failed"}, End(q, r)
      PROVE  q = p /\ r = "ok"
  <2>1. Only({q}) /\ result'[q] = r BY <1>3, EndEnds
  <2> QED BY <1>2, <2>1 DEF Only, Same
<1>4. ASSUME NEW q \in Proc, \E r \in menu : RunCmd(q, r) PROVE FALSE
  <2>1. pc[q] = "idle" /\ (q = p \/ result'[p] = result[p])
    BY <1>3, <1>4 DEF RunCmd, IInv, Slots
  <2> QED BY <1>2, <2>1
<1>5. ASSUME NEW q \in Proc, Step(q) PROVE SetDate(p) \/ pc[p] = "exec"
  <2>1. CASE JumpRead(q) BY <1>2, <2>1 DEF JumpRead, Read, Goto
  <2>2. CASE \/ JumpRefused(q) \/ SetDate(q) \/ FromHardware(q) \/ Remount(q) \/ Reboot(q)
             \/ Leave(q) \/ CommandFails(q)
    <3>1. \E r \in {"none", "ok", "failed"} : End(q, r)
      BY <2>2 DEF JumpRefused, SetDate, FromHardware, Remount, Reboot, Leave, CommandFails,
                  Reports
    <3>2. q = p BY <1>3, <3>1
    <3> QED BY <2>2, <3>2
            DEF JumpRefused, FromHardware, Remount, Reboot, Leave, CommandFails, Runs
  <2>3. CASE Execute(q)
    <3>1. CASE svc = "absent" BY <1>3, <2>3, <3>1 DEF Execute
    <3>2. CASE svc # "absent"
      <4>1. result'[p] \in {"failed", result[p]} BY <2>3, <3>2 DEF Execute
      <4> QED BY <1>1, <4>1
    <3> QED BY <3>1, <3>2
  <2>4. CASE TimesOut(q) BY <1>3, <2>4 DEF TimesOut
  <2>5. CASE Panic(q) \/ RebootAbnormal(q)
    BY <2>5 DEF Panic, RebootAbnormal, Halted, EndAll
  <2>6. CASE OutOfMemory(q)
    <3>1. ASSUME NEW r \in Reports, End(q, r) PROVE pc[p] = "exec"
      BY <1>3, <2>6, <3>1 DEF OutOfMemory, Runs, Reports
    <3>2. ASSUME NEW r \in Reports, NEW x \in Proc \ {q},
                 EndAll([y \in {q, x} |-> IF y = q THEN r ELSE "none"])
          PROVE  p = q
      BY <1>2, <3>2 DEF EndAll
    <3> QED BY <2>6, <3>1, <3>2 DEF OutOfMemory, Runs
  <2> QED BY <1>5, <2>1, <2>2, <2>3, <2>4, <2>5, <2>6 DEF Step
<1>6. CASE JobDone
  <2>1. PICK r : EndAll([q \in waiting |-> r]) BY <1>6 DEF JobDone
  <2>2. p \in waiting BY <1>2, <2>1 DEF EndAll
  <2> QED BY <1>6, <2>2
<1>7. CASE Remounted \/ Tick \/ Boot BY <1>2, <1>7 DEF Remounted, Tick, Boot, local
<1>8. CASE ShutDown BY <1>8 DEF ShutDown, Halted, EndAll
<1> QED BY <1>4, <1>5, <1>6, <1>7, <1>8 DEF Next

\* For any number of service faults and removals at once: one that reports success
\* has had its effect, however their jobs replace each other, and one whose job
\* another has replaced, or that is killed at its deadline, does not report it.
THEOREM ReportsHold == Spec => ServiceAsReported
<1> DEFINE Held(p) ==
             pc[p] = "wait" /\ result'[p] = "ok" =>
               svc' = (IF req[p].fault = "service-stop" /\ req[p].op = "inject"
                       THEN "inactive" ELSE "active")
<1>1. ASSUME IInv, [Next]_vars, NEW p \in Proc PROVE Held(p)
  <2> SUFFICES ASSUME pc[p] = "wait", result'[p] = "ok"
               PROVE  svc' = (IF req[p].fault = "service-stop" /\ req[p].op = "inject"
                              THEN "inactive" ELSE "active")
    OBVIOUS
  <2>1. result[p] = "none" /\ req[p].op \in Operations BY <1>1 DEF IInv, Pending
  <2>2. Next BY <1>1, <2>1 DEF vars, state, local
  <2>3. JobDone /\ p \in waiting BY <1>1, <2>2, ReportsOk DEF SetDate
  <2>4. ~EndAll([q \in waiting |-> "failed"])
    BY <2>3 DEF EndAll
  <2>5. svc' = (IF job = "stop" THEN "inactive" ELSE "active") BY <2>3, <2>4 DEF JobDone
  <2>6. /\ req[p].fault \in {"service-stop", "service-restart"}
        /\ Command(req[p]) = "stop" <=> job = "stop"
    BY <1>1 DEF IInv, Agreed
  <2>7. Command(req[p]) = "stop" <=> req[p].fault = "service-stop" /\ req[p].op = "inject"
    <3>1. CASE req[p].op = "remove" BY <3>1 DEF Command
    <3>2. CASE req[p].op = "inject" BY <2>6, <3>2 DEF Command
    <3> QED BY <2>1, <3>1, <3>2 DEF Operations
  <2> QED BY <2>5, <2>6, <2>7
<1>2. IInv /\ [Next]_vars => [\A p \in Proc : Held(p)]_vars BY <1>1
<1> QED BY InitHolds, NextKeeps, <1>2, PTL DEF Spec, ServiceAsReported

\* For any texts, any lengths of hour, minute and day, and any number of jumps at
\* once: a jump that nobody disturbs, of no more than a duration holds, moves the
\* clock by what the text says, within the day it was begun in.
THEOREM JumpsExactly == Spec => JumpExact
<1> DEFINE Jumped(p) ==
             LET asked == Asked(req[p])
             IN  pc[p] = "date" /\ fresh[p] /\ result'[p] = "ok"
                   /\ asked \in -MaxLength .. MaxLength =>
                   /\ sys' \div Day = sys \div Day
                   /\ (sys' - sys - asked) % Day = 0
                   /\ (sys + asked) \div Day = sys \div Day => sys' = sys + asked
<1>1. ASSUME IInv, [Next]_vars, NEW p \in Proc PROVE Jumped(p)
  <2> DEFINE asked == Asked(req[p])
  <2> SUFFICES ASSUME pc[p] = "date", fresh[p], result'[p] = "ok",
                      asked \in -MaxLength .. MaxLength
               PROVE  /\ sys' \div Day = sys \div Day
                      /\ (sys' - sys - asked) % Day = 0
                      /\ (sys + asked) \div Day = sys \div Day => sys' = sys + asked
    OBVIOUS
  <2>1. result[p] = "none" BY <1>1 DEF IInv, Pending
  <2>2. Next BY <1>1, <2>1 DEF vars, state, local
  <2>3. SetDate(p) BY <1>1, <2>2, ReportsOk DEF IInv, Waiters
  <2>4. Understood(req[p].interval) /\ target[p] = (sys + Signed(req[p])) % Day
    BY <1>1 DEF IInv, Aimed
  <2>5. asked = Signed(req[p]) /\ asked \in Int BY <2>4, SignedAsAsked
  <2>6. sys \in Nat BY <1>1, LastDay DEF IInv, Clocks
  <2> HIDE DEF asked
  <2>7. sys' = (sys \div Day) * Day + ((sys + asked) % Day)
    BY <2>3, <2>4, <2>5 DEF SetDate, Set
  <2> QED BY <2>5, <2>6, <2>7, SetWithinDay
<1>2. IInv /\ [Next]_vars => [\A p \in Proc : Jumped(p)]_vars BY <1>1
<1> QED BY InitHolds, NextKeeps, <1>2, PTL DEF Spec, JumpExact
================================================================================
