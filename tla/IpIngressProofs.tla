--------------------------- MODULE IpIngressProofs ---------------------------
(***************************************************************************)
(* Proofs about IpValidate and IpIngress: the validators are the filter    *)
(* written as ranges, for every address; and what that and the counts of   *)
(* the feature arcs mean for a frame on its way to the switch.             *)
(***************************************************************************)
EXTENDS IpIngress, TLAPS

-----------------------------------------------------------------------------
(* Addresses *)

LEMMA Words == \A x \in Word : x \in Nat /\ x <= 65535
BY DEF Word

LEMMA LessOrEqual ==
    ASSUME NEW x \in Word, NEW y \in Word
    PROVE  x <= y <=> x < y \/ x = y
BY Words

\* The order of addresses, part by part.
LEMMA Leq4 ==
    ASSUME NEW a1 \in Word, NEW a2 \in Word, NEW b1 \in Word, NEW b2 \in Word
    PROVE  AddrLeq(<<a1, a2>>, <<b1, b2>>) <=> a1 < b1 \/ (a1 = b1 /\ a2 <= b2)
<1>. DEFINE a == <<a1, a2>>
            b == <<b1, b2>>
            Below(n) == a[n] < b[n] /\ \A m \in 1..n-1 : a[m] = b[m]
<1>1. AddrLeq(a, b) <=> a = b \/ \E n \in 1..2 : Below(n)
  BY DEF AddrLeq
<1>2. Below(1) <=> a1 < b1
  OBVIOUS
<1>3. Below(2) <=> a1 = b1 /\ a2 < b2
  OBVIOUS
<1>4. a = b <=> a1 = b1 /\ a2 = b2
  OBVIOUS
<1>. HIDE DEF a, b, Below
<1>5. (\E n \in 1..2 : Below(n)) <=> Below(1) \/ Below(2)
  <2>1. 1..2 = {1, 2}
    OBVIOUS
  <2>. QED BY <2>1, Zenon
<1>6. a2 <= b2 <=> a2 < b2 \/ a2 = b2
  BY LessOrEqual
<1>7. AddrLeq(a, b) <=> a1 < b1 \/ (a1 = b1 /\ a2 <= b2)
  BY <1>1, <1>2, <1>3, <1>4, <1>5, <1>6
<1>. QED BY <1>7 DEF a, b

LEMMA Leq6 ==
    ASSUME NEW a1 \in Word, NEW a2 \in Word, NEW a3 \in Word,
           NEW b1 \in Word, NEW b2 \in Word, NEW b3 \in Word
    PROVE  AddrLeq(<<a1, a2, a3>>, <<b1, b2, b3>>) <=>
              \/ a1 < b1
              \/ a1 = b1 /\ a2 < b2
              \/ a1 = b1 /\ a2 = b2 /\ a3 <= b3
<1>. DEFINE a == <<a1, a2, a3>>
            b == <<b1, b2, b3>>
            Below(n) == a[n] < b[n] /\ \A m \in 1..n-1 : a[m] = b[m]
<1>1. AddrLeq(a, b) <=> a = b \/ \E n \in 1..3 : Below(n)
  BY DEF AddrLeq
<1>2. Below(1) <=> a1 < b1
  OBVIOUS
<1>3. Below(2) <=> a1 = b1 /\ a2 < b2
  OBVIOUS
<1>4. Below(3) <=> a1 = b1 /\ a2 = b2 /\ a3 < b3
  <2>1. 1..3-1 = {1, 2}
    OBVIOUS
  <2>2. (\A m \in {1, 2} : a[m] = b[m]) <=> a1 = b1 /\ a2 = b2
    OBVIOUS
  <2>3. a[3] < b[3] <=> a3 < b3
    OBVIOUS
  <2>. QED BY <2>1, <2>2, <2>3, Zenon
<1>5. a = b <=> a1 = b1 /\ a2 = b2 /\ a3 = b3
  OBVIOUS
<1>. HIDE DEF a, b, Below
<1>6. (\E n \in 1..3 : Below(n)) <=> Below(1) \/ Below(2) \/ Below(3)
  <2>1. 1..3 = {1, 2, 3}
    OBVIOUS
  <2>. QED BY <2>1, Zenon
<1>7. a3 <= b3 <=> a3 < b3 \/ a3 = b3
  BY LessOrEqual
<1>8. AddrLeq(a, b) <=>
         a1 < b1 \/ (a1 = b1 /\ a2 < b2) \/ (a1 = b1 /\ a2 = b2 /\ a3 <= b3)
  BY <1>1, <1>2, <1>3, <1>4, <1>5, <1>6, <1>7
<1>. QED BY <1>8 DEF a, b

\* Lying in one of a few ranges.
LEMMA WithinOne ==
    ASSUME NEW a, NEW l, NEW h
    PROVE  Within(a, {<<l, h>>}) <=> AddrLeq(l, a) /\ AddrLeq(a, h)
BY DEF Within

LEMMA WithinBoth ==
    ASSUME NEW a, NEW R, NEW S
    PROVE  Within(a, R \cup S) <=> Within(a, R) \/ Within(a, S)
BY DEF Within

LEMMA WithinTwo ==
    ASSUME NEW a, NEW l1, NEW h1, NEW l2, NEW h2
    PROVE  Within(a, {<<l1, h1>>, <<l2, h2>>}) <=>
              \/ AddrLeq(l1, a) /\ AddrLeq(a, h1)
              \/ AddrLeq(l2, a) /\ AddrLeq(a, h2)
<1>1. {<<l1, h1>>, <<l2, h2>>} = {<<l1, h1>>} \cup {<<l2, h2>>}
  OBVIOUS
<1>2. Within(a, {<<l1, h1>>, <<l2, h2>>}) <=> Within(a, {<<l1, h1>>}) \/ Within(a, {<<l2, h2>>})
  BY ONLY <1>1, WithinBoth, Zenon
<1>. QED BY ONLY <1>2, WithinOne, Zenon

\* The tests of ip4-validate are those ranges.
LEMMA Ip4Exact ==
    ASSUME NEW k, k.src \in Ip4Address, k.dst \in Ip4Address, k.af = "ip4", k.group \in BOOLEAN
    PROVE  Ip4Drops(k) <=> Martian(k)
<1>1. PICK s1 \in Word, s2 \in Word : k.src = <<s1, s2>>
  BY DEF Ip4Address
<1>2. PICK d1 \in Word, d2 \in Word : k.dst = <<d1, d2>>
  BY DEF Ip4Address
<1>3. /\ 0 \in Word /\ 32512 \in Word /\ 32767 \in Word /\ 43518 \in Word
      /\ 57344 \in Word /\ 61439 \in Word /\ 65535 \in Word
  BY DEF Word
<1>4. ASSUME NEW a1 \in Word, NEW a2 \in Word, NEW l \in Word, NEW h \in Word
      PROVE  AddrLeq(<<l, 0>>, <<a1, a2>>) /\ AddrLeq(<<a1, a2>>, <<h, 65535>>)
                <=> l <= a1 /\ a1 <= h
  BY <1>3, Leq4, Words
<1>5. ASSUME NEW a1 \in Word, NEW a2 \in Word, NEW h \in Word
      PROVE  AddrLeq(<<h, h>>, <<a1, a2>>) /\ AddrLeq(<<a1, a2>>, <<h, h>>)
                <=> a1 = h /\ a2 = h
  BY Leq4, Words
<1>6. Within(k.src, BadSource("ip4")) <=>
         \/ 32512 <= s1 /\ s1 <= 32767
         \/ 57344 <= s1
         \/ s1 = 0 /\ s2 = 0
         \/ s1 = 43518
  <2>. DEFINE l1 == <<32512, 0>>  h1 == <<32767, 65535>>
              l2 == <<57344, 0>>  h2 == <<65535, 65535>>
              l3 == <<0, 0>>  h3 == <<0, 0>>
              l4 == <<43518, 0>>  h4 == <<43518, 65535>>
              R == {<<l1, h1>>, <<l2, h2>>}
              S == {<<l3, h3>>, <<l4, h4>>}
  <2>1. BadSource("ip4") = R \cup S
    BY DEF BadSource
  <2>. HIDE DEF l1, h1, l2, h2, l3, h3, l4, h4
  <2>2. Within(k.src, R) <=> \/ AddrLeq(l1, k.src) /\ AddrLeq(k.src, h1)
                             \/ AddrLeq(l2, k.src) /\ AddrLeq(k.src, h2)
    BY ONLY WithinTwo, Zenon
  <2>3. Within(k.src, S) <=> \/ AddrLeq(l3, k.src) /\ AddrLeq(k.src, h3)
                             \/ AddrLeq(l4, k.src) /\ AddrLeq(k.src, h4)
    BY ONLY WithinTwo, Zenon
  <2>. HIDE DEF R, S
  <2>4. Within(k.src, R \cup S) <=> Within(k.src, R) \/ Within(k.src, S)
    BY ONLY WithinBoth, Zenon
  <2>5. Within(k.src, BadSource("ip4")) <=> Within(k.src, R \cup S)
    BY ONLY <2>1, Zenon
  <2>. QED BY <1>1, <1>3, <1>4, <1>5, <2>2, <2>3, <2>4, <2>5, Words DEF l1, h1, l2, h2, l3, h3, l4, h4
<1>7. Within(k.dst, BadDest("ip4")) <=>
         \/ 32512 <= d1 /\ d1 <= 32767
         \/ d1 = 43518
  <2>. DEFINE l1 == <<32512, 0>>  h1 == <<32767, 65535>>
              l2 == <<43518, 0>>  h2 == <<43518, 65535>>
  <2>1. BadDest("ip4") = {<<l1, h1>>, <<l2, h2>>}
    BY DEF BadDest
  <2>. HIDE DEF l1, h1, l2, h2
  <2>2. Within(k.dst, {<<l1, h1>>, <<l2, h2>>}) <=>
           \/ AddrLeq(l1, k.dst) /\ AddrLeq(k.dst, h1)
           \/ AddrLeq(l2, k.dst) /\ AddrLeq(k.dst, h2)
    BY ONLY WithinTwo, Zenon
  <2>3. Within(k.dst, {<<l1, h1>>, <<l2, h2>>}) <=> Within(k.dst, BadDest("ip4"))
    BY ONLY <2>1, Zenon
  <2>. QED BY <1>2, <1>3, <1>4, <2>2, <2>3, Words DEF l1, h1, l2, h2
<1>8. Within(k.dst, NotUnicast("ip4")) <=>
         \/ 57344 <= d1 /\ d1 <= 61439
         \/ d1 = 65535 /\ d2 = 65535
  <2>. DEFINE l1 == <<57344, 0>>  h1 == <<61439, 65535>>
              l2 == <<65535, 65535>>  h2 == <<65535, 65535>>
  <2>1. NotUnicast("ip4") = {<<l1, h1>>, <<l2, h2>>}
    BY DEF NotUnicast
  <2>. HIDE DEF l1, h1, l2, h2
  <2>2. Within(k.dst, {<<l1, h1>>, <<l2, h2>>}) <=>
           \/ AddrLeq(l1, k.dst) /\ AddrLeq(k.dst, h1)
           \/ AddrLeq(l2, k.dst) /\ AddrLeq(k.dst, h2)
    BY ONLY WithinTwo, Zenon
  <2>3. Within(k.dst, {<<l1, h1>>, <<l2, h2>>}) <=> Within(k.dst, NotUnicast("ip4"))
    BY ONLY <2>1, Zenon
  <2>. QED BY <1>2, <1>3, <1>4, <1>5, <2>2, <2>3, Words DEF l1, h1, l2, h2
<1>9. \A x \in Word : /\ x \div 256 = 127 <=> 32512 <= x /\ x <= 32767
                      /\ x \div 4096 \in {14, 15} <=> 57344 <= x
                      /\ x \div 4096 = 14 <=> 57344 <= x /\ x <= 61439
  BY DEF Word
<1>10. Ip4Skipped(k.dst) <=> Within(k.dst, NotUnicast("ip4"))
  BY <1>2, <1>8, <1>9 DEF Ip4Skipped
<1>11. Ip4Bad(k.src, k.dst) <=> Within(k.src, BadSource("ip4")) \/ Within(k.dst, BadDest("ip4"))
  BY <1>1, <1>2, <1>6, <1>7, <1>9 DEF Ip4Bad
<1>. QED BY <1>10, <1>11 DEF Ip4Drops, Martian
\* The tests of ip6-validate are those ranges.
LEMMA Ip6Exact ==
    ASSUME NEW k, k.src \in Ip6Address, k.dst \in Ip6Address, k.af = "ip6", k.group \in BOOLEAN
    PROVE  Ip6Drops(k) <=> Martian(k)
<1>1. PICK s1 \in Word, s2 \in 0..1, s3 \in Word : k.src = <<s1, s2, s3>>
  BY DEF Ip6Address
<1>2. PICK d1 \in Word, d2 \in 0..1, d3 \in Word : k.dst = <<d1, d2, d3>>
  BY DEF Ip6Address
<1>3. 0 \in Word /\ 1 \in Word /\ 65280 \in Word /\ 65535 \in Word /\ \A x \in 0..1 : x \in Word
  BY DEF Word
<1>. DEFINE l1 == <<65280, 0, 0>>  h1 == <<65535, 1, 65535>>
            l2 == <<0, 0, 0>>      h2 == <<0, 0, 1>>
<1>4. ASSUME NEW a1 \in Word, NEW a2 \in 0..1, NEW a3 \in Word
      PROVE  /\ AddrLeq(l1, <<a1, a2, a3>>) /\ AddrLeq(<<a1, a2, a3>>, h1) <=> 65280 <= a1
             /\ AddrLeq(l2, <<a1, a2, a3>>) /\ AddrLeq(<<a1, a2, a3>>, h2) <=>
                  a1 = 0 /\ a2 = 0 /\ a3 \in {0, 1}
  <2>1. /\ AddrLeq(l1, <<a1, a2, a3>>) <=> 65280 < a1 \/ (65280 = a1 /\ 0 < a2)
                                           \/ (65280 = a1 /\ 0 = a2 /\ 0 <= a3)
        /\ AddrLeq(<<a1, a2, a3>>, h1) <=> a1 < 65535 \/ (a1 = 65535 /\ a2 < 1)
                                           \/ (a1 = 65535 /\ a2 = 1 /\ a3 <= 65535)
        /\ AddrLeq(l2, <<a1, a2, a3>>) <=> 0 < a1 \/ (0 = a1 /\ 0 < a2)
                                           \/ (0 = a1 /\ 0 = a2 /\ 0 <= a3)
        /\ AddrLeq(<<a1, a2, a3>>, h2) <=> a1 < 0 \/ (a1 = 0 /\ a2 < 0)
                                           \/ (a1 = 0 /\ a2 = 0 /\ a3 <= 1)
    BY <1>3, Leq6, SMTT(40)
  <2>2. a1 \in Nat /\ a1 <= 65535 /\ a3 \in Nat /\ a3 <= 65535 /\ a2 \in {0, 1}
    BY Words
  <2>. HIDE DEF l1, h1, l2, h2
  <2>. QED BY <2>1, <2>2
<1>5. /\ BadSource("ip6") = {<<l1, h1>>, <<l2, h2>>}
      /\ BadDest("ip6") = {<<l2, h2>>}
      /\ NotUnicast("ip6") = {<<l1, h1>>}
  BY DEF BadSource, BadDest, NotUnicast
<1>. HIDE DEF l1, h1, l2, h2
<1>6. /\ Within(k.src, {<<l1, h1>>, <<l2, h2>>}) <=>
            \/ AddrLeq(l1, k.src) /\ AddrLeq(k.src, h1)
            \/ AddrLeq(l2, k.src) /\ AddrLeq(k.src, h2)
      /\ Within(k.dst, {<<l2, h2>>}) <=> AddrLeq(l2, k.dst) /\ AddrLeq(k.dst, h2)
      /\ Within(k.dst, {<<l1, h1>>}) <=> AddrLeq(l1, k.dst) /\ AddrLeq(k.dst, h1)
  BY ONLY WithinOne, WithinTwo, Zenon
<1>7. /\ Within(k.src, BadSource("ip6")) <=> Within(k.src, {<<l1, h1>>, <<l2, h2>>})
      /\ Within(k.dst, BadDest("ip6")) <=> Within(k.dst, {<<l2, h2>>})
      /\ Within(k.dst, NotUnicast("ip6")) <=> Within(k.dst, {<<l1, h1>>})
  BY ONLY <1>5, Zenon
<1>8. /\ Within(k.src, BadSource("ip6")) <=>
            65280 <= s1 \/ (s1 = 0 /\ s2 = 0 /\ s3 \in {0, 1})
      /\ Within(k.dst, BadDest("ip6")) <=> d1 = 0 /\ d2 = 0 /\ d3 \in {0, 1}
      /\ Within(k.dst, NotUnicast("ip6")) <=> 65280 <= d1
  BY <1>1, <1>2, <1>4, <1>6, <1>7
<1>9. \A x \in Word : x \div 256 = 255 <=> 65280 <= x
  BY DEF Word
<1>10. Ip6Bad(k.src, k.dst) <=> Within(k.src, BadSource("ip6")) \/ Within(k.dst, BadDest("ip6"))
  BY <1>1, <1>2, <1>8, <1>9 DEF Ip6Bad, Ip6Zero, Ip6Loopback
<1>11. k.dst[1] \div 256 # 255 <=> ~Within(k.dst, NotUnicast("ip6"))
  BY <1>2, <1>8, <1>9
<1>. QED BY <1>10, <1>11 DEF Ip6Drops, Martian

\* Neither an edge of a range nor the order of the tests lets a packet of any
\* two addresses through, or stops one, that the ranges would not.
LEMMA Validators ==
    ASSUME NEW k \in Packet
    PROVE  /\ k.af \in Family
           /\ (IF k.af = "ip4" THEN Ip4Drops(k) ELSE Ip6Drops(k)) <=> Martian(k)
<1>1. CASE k \in [af : {"ip4"}, group : BOOLEAN, src : Ip4Address, dst : Ip4Address]
  BY <1>1, Ip4Exact DEF Family
<1>2. CASE k \in [af : {"ip6"}, group : BOOLEAN, src : Ip6Address, dst : Ip6Address]
  BY <1>2, Ip6Exact DEF Family
<1>. QED BY <1>1, <1>2, PacketAssumption

-----------------------------------------------------------------------------
(* The control plane *)

\* The two families of an index have been enabled equally often, and a family
\* whose arc refuses the node never.  Where only the IPv6 arc refuses it, the
\* rollback keeps the count of IPv4 at the 1 the callback left.  The count of an
\* index that is not in use leaves room for the callback's next enable.
CountOK(i, c) ==
    /\ missing = {} => c["ip4"] = c["ip6"]
    /\ missing = {"ip6"} => c["ip4"] = IF i \in up THEN 1 ELSE 0
    /\ \A af \in missing : c[af] = 0
    /\ i \notin up => \A af \in Family : c[af] < MaxEnable

Counted == \A i \in Itf : CountOK(i, valid[i])

\* Until an API call, an interface validates every family that can be.
Validating == \A i \in up \ over, af \in Family \ missing : valid[i][af] > 0

IInv == TypeOK /\ CallbackBalanced /\ Counted /\ Validating

LEMMA Counts ==
    ASSUME NEW c \in [Family -> 0..MaxEnable], NEW e \in BOOLEAN, missing \subseteq Family,
           e => \A af \in Family : c[af] < MaxEnable,
           missing = {} => c["ip4"] = c["ip6"],
           missing = {"ip6"} => c["ip4"] = 1
    PROVE  /\ Toggled(c, e) \in [Family -> 0..MaxEnable]
           /\ missing = {} => Toggled(c, e)["ip4"] = Toggled(c, e)["ip6"]
           /\ missing # {} => Toggled(c, e) = c
<1>. MaxEnable \in Nat /\ MaxEnable > 0
  BY BoundAssumption
<1>1. CASE missing = {}
  <2>1. Toggled(c, e) = [x \in Family |-> Feature(c[x], e)]
    BY <1>1, Zenon DEF Toggled, Family
  <2>2. \A x \in Family : Feature(c[x], e) \in 0..MaxEnable
    BY DEF Feature
  <2>. QED BY <1>1, <2>1, <2>2 DEF Family
<1>2. CASE missing = {"ip6"}
  <2>1. c["ip4"] = 1
    BY <1>2
  <2>2. Feature(Feature(c["ip4"], e), ~e) = c["ip4"]
    BY <2>1 DEF Feature
  <2>3. Toggled(c, e) = [c EXCEPT !["ip4"] = Feature(Feature(c["ip4"], e), ~e)]
    BY <1>2, Zenon DEF Toggled, Family
  <2>. QED BY <1>2, <2>2, <2>3, ZenonT(40)
<1>3. CASE "ip4" \in missing
  BY <1>3 DEF Toggled
<1>. QED BY <1>1, <1>2, <1>3, Zenon DEF Family

LEMMA Ip2meTyped ==
    ASSUME NEW c \in [Family -> 0..MaxEnable], NEW e \in BOOLEAN,
           e => \A af \in Family : c[af] < MaxEnable
    PROVE  ip2me_enable_disable(c, e) \in [Family -> 0..MaxEnable]
<1>. MaxEnable \in Nat
  BY BoundAssumption
<1>. QED BY DEF ip2me_enable_disable, Feature

\* The callback on a new interface, and on one that goes.
LEMMA Callback ==
    ASSUME NEW c \in [Family -> 0..MaxEnable], missing \subseteq Family,
           \A af \in missing : c[af] = 0
    PROVE  /\ (\A af \in Family : c[af] < MaxEnable) =>
                /\ AddDel(c, TRUE) \in [Family -> 0..MaxEnable]
                /\ \A af \in Family \ missing : AddDel(c, TRUE)[af] = c[af] + 1
                /\ \A af \in missing : AddDel(c, TRUE)[af] = 0
           /\ AddDel(c, FALSE) \in [Family -> 0..MaxEnable]
           /\ \A af \in Family \ missing :
                AddDel(c, FALSE)[af] = IF c[af] = 0 THEN 0 ELSE c[af] - 1
           /\ \A af \in missing : AddDel(c, FALSE)[af] = 0
           /\ \A af \in Family : AddDel(c, FALSE)[af] < MaxEnable
<1>. MaxEnable \in Nat /\ MaxEnable > 0
  BY BoundAssumption
<1>1. \A n \in 0..MaxEnable :
         /\ n < MaxEnable => Feature(n, TRUE) \in 0..MaxEnable
         /\ Feature(n, TRUE) = n + 1
         /\ Feature(n, FALSE) = IF n = 0 THEN 0 ELSE n - 1
         /\ Feature(n, FALSE) \in 0..MaxEnable /\ Feature(n, FALSE) < MaxEnable
  BY DEF Feature
<1>. HIDE DEF Feature
<1>2. \A af \in Family : c[af] \in 0..MaxEnable
  OBVIOUS
<1>. DEFINE On == [af \in Family |-> IF af \in missing THEN c[af] ELSE Feature(c[af], TRUE)]
            Out == [af \in Family |-> IF af \in missing THEN c[af] ELSE Feature(c[af], FALSE)]
<1>3. AddDel(c, TRUE) = On /\ AddDel(c, FALSE) = Out
  BY Zenon DEF AddDel
<1>4. (\A af \in Family : c[af] < MaxEnable) =>
         /\ On \in [Family -> 0..MaxEnable]
         /\ \A af \in Family \ missing : On[af] = c[af] + 1
         /\ \A af \in missing : On[af] = 0
  BY <1>1, <1>2, ZenonT(40)
<1>5. /\ Out \in [Family -> 0..MaxEnable]
      /\ \A af \in Family \ missing : Out[af] = IF c[af] = 0 THEN 0 ELSE c[af] - 1
      /\ \A af \in missing : Out[af] = 0
      /\ \A af \in Family : Out[af] < MaxEnable
  BY <1>1, <1>2, ZenonT(40)
<1>. HIDE DEF On, Out
<1>. QED BY <1>3, <1>4, <1>5, Zenon

LEMMA IInvInit == Init => IInv
<1>. SUFFICES ASSUME Init PROVE IInv
  OBVIOUS
<1>1. Off \in [Family -> 0..MaxEnable] /\ \A af \in Family : Off[af] = 0
  BY BoundAssumption DEF Off
<1>2. 0 < MaxEnable /\ "ip4" \in Family /\ "ip6" \in Family
  BY BoundAssumption DEF Family
<1>3. TypeOK
  BY <1>1 DEF Init, TypeOK
<1>4. Counted
  BY <1>1, <1>2, <1>3 DEF Init, TypeOK, Counted, CountOK
<1>5. CallbackBalanced /\ Validating
  BY <1>1 DEF Init, CallbackBalanced, Validating
<1>. QED BY <1>3, <1>4, <1>5 DEF IInv

\* A step that gives index i the counts c and may change whether i is in use.
LEMMA OneIndex ==
    ASSUME IInv, NEW i \in Itf, NEW c \in [Family -> 0..MaxEnable],
           valid' = [valid EXCEPT ![i] = c], missing' = missing,
           up' \ {i} = up \ {i}, over' \ {i} = over \ {i}, called' \ {i} = called \ {i},
           CountOK(i, c)',
           i \in up' \ over' => \A af \in Family \ missing : c[af] > 0,
           i \notin called' =>
             \A af \in Family \ missing : c[af] = IF i \in up' THEN 1 ELSE 0
    PROVE  Counted' /\ Validating' /\ CallbackBalanced'
<1>1. valid'[i] = c /\ \A j \in Itf \ {i} : valid'[j] = valid[j]
  BY DEF IInv, TypeOK
<1>2. \A j \in Itf \ {i} : (j \in up' <=> j \in up) /\ (j \in over' <=> j \in over)
                          /\ (j \in called' <=> j \in called)
  OBVIOUS
<1>3. Counted'
  <2>1. ASSUME NEW j \in Itf \ {i} PROVE CountOK(j, valid[j])'
    BY <1>1, <1>2, <2>1 DEF IInv, Counted, CountOK
  <2>. QED BY <1>1, <2>1 DEF Counted, CountOK
<1>4. Validating'
  <2>0. up' \subseteq Itf
    BY DEF IInv, TypeOK
  <2>1. ASSUME NEW j \in up' \ over', NEW af \in Family \ missing PROVE valid'[j][af] > 0
    <3>1. CASE j = i
      BY <1>1, <2>1, <3>1
    <3>2. CASE j # i
      BY <1>1, <1>2, <2>0, <2>1, <3>2 DEF IInv, Validating
    <3>. QED BY <3>1, <3>2
  <2>. QED BY <2>1 DEF Validating
<1>5. CallbackBalanced'
  <2>1. ASSUME NEW j \in Itf \ called', NEW af \in Family \ missing
        PROVE  valid'[j][af] = IF j \in up' THEN 1 ELSE 0
    <3>1. CASE j = i
      BY <1>1, <2>1, <3>1
    <3>2. CASE j # i
      BY <1>1, <1>2, <2>1, <3>2 DEF IInv, CallbackBalanced
    <3>. QED BY <3>1, <3>2
  <2>. QED BY <2>1 DEF CallbackBalanced
<1>. QED BY <1>3, <1>4, <1>5

LEMMA IInvNext == IInv /\ [Next]_vars => IInv'
<1>. SUFFICES ASSUME IInv, [Next]_vars PROVE IInv'
  OBVIOUS
<1>0. /\ "ip4" \in Family /\ "ip6" \in Family /\ MaxEnable \in Nat /\ MaxEnable > 0
      /\ Off \in [Family -> 0..MaxEnable] /\ \A af \in Family : Off[af] = 0
      /\ missing \subseteq Family
  BY BoundAssumption DEF Family, Off, IInv, TypeOK
<1>a. ASSUME NEW j \in Itf
      PROVE  /\ valid[j] \in [Family -> 0..MaxEnable]
             /\ \A af \in Family : valid[j][af] \in 0..MaxEnable
             /\ CountOK(j, valid[j])
  BY DEF IInv, TypeOK, Counted
<1>1. ASSUME NEW i \in Itf, IfAdd(i) PROVE IInv'
  <2>1. /\ i \notin up /\ up' = up \cup {i} /\ valid' = [valid EXCEPT ![i] = AddDel(valid[i], TRUE)]
        /\ UNCHANGED <<ip2me, vrf, deny, missing, over, called>>
    BY <1>1 DEF IfAdd, IInv, TypeOK
  <2>2. PICK v \in [Family -> 0..MaxEnable] : v = valid[i] /\ CountOK(i, v)
    BY <1>a, Zenon
  <2>3. (\A af \in Family : v[af] < MaxEnable) /\ (\A af \in missing : v[af] = 0)
    BY <2>1, <2>2, Zenon DEF CountOK
  <2>4. PICK c \in [Family -> 0..MaxEnable] :
           /\ c = AddDel(v, TRUE)
           /\ \A af \in Family \ missing : c[af] = v[af] + 1
           /\ \A af \in missing : c[af] = 0
    <3>1. /\ AddDel(v, TRUE) \in [Family -> 0..MaxEnable]
          /\ \A af \in Family \ missing : AddDel(v, TRUE)[af] = v[af] + 1
          /\ \A af \in missing : AddDel(v, TRUE)[af] = 0
      BY ONLY <1>0, <2>3, v \in [Family -> 0..MaxEnable], Callback, Zenon
    <3>. QED BY <3>1, Zenon
  <2>a. \A af \in Family : v[af] \in Nat
    BY <1>0
  <2>5. CountOK(i, c)'
    <3>1. missing = {} => c["ip4"] = c["ip6"]
      BY <1>0, <2>2, <2>4, ZenonT(40) DEF CountOK
    <3>2. ASSUME missing = {"ip6"} PROVE c["ip4"] = 1
      <4>1. v["ip4"] = 0
        BY <2>1, <2>2, <3>2, Zenon DEF CountOK
      <4>2. "ip4" \in Family \ missing
        BY <1>0, <3>2
      <4>3. c["ip4"] = v["ip4"] + 1
        BY <2>4, <4>2, Zenon
      <4>. QED BY <4>1, <4>3
    <3>. QED BY <2>1, <2>4, <3>1, <3>2, Zenon DEF CountOK
  <2>6. \A af \in Family \ missing : c[af] > 0
    <3>1. \A n \in Nat : n + 1 > 0
      OBVIOUS
    <3>. QED BY <2>a, <2>4, <3>1, Zenon
  <2>7. ASSUME i \notin called, NEW af \in Family \ missing PROVE c[af] = 1
    <3>1. v[af] = 0
      BY <2>1, <2>2, <2>7, Zenon DEF IInv, CallbackBalanced
    <3>2. c[af] = v[af] + 1
      BY <2>4, <2>7, Zenon
    <3>. QED BY <3>1, <3>2
  <2>8. valid' = [valid EXCEPT ![i] = c]
    BY <2>1, <2>2, <2>4, Zenon
  <2>9. TypeOK'
    <3>1. valid' \in [Itf -> [Family -> 0..MaxEnable]]
      BY <2>8, Zenon DEF IInv, TypeOK
    <3>. QED BY <2>1, <3>1, ZenonT(40) DEF IInv, TypeOK
  <2>10. Counted' /\ Validating' /\ CallbackBalanced'
    <3>1. up' \ {i} = up \ {i} /\ i \in up'
      BY <2>1
    <3>. QED BY <2>1, <2>5, <2>6, <2>7, <2>8, <3>1, OneIndex, Zenon
  <2>. QED BY <2>9, <2>10, Zenon DEF IInv
<1>2. ASSUME NEW i \in Itf, IfDel(i) PROVE IInv'
  <2>1. PICK c \in {AddDel(valid[i], FALSE), Off} : valid' = [valid EXCEPT ![i] = c]
    BY <1>2, ZenonT(40) DEF IfDel
  <2>2. PICK m \in {ip2me[i], Off} : ip2me' = [ip2me EXCEPT ![i] = m]
    BY <1>2, ZenonT(40) DEF IfDel
  <2>3. /\ i \in up /\ up' = up \ {i} /\ deny' = deny \ {i} /\ over' = over \ {i}
        /\ UNCHANGED <<vrf, missing, called>>
    BY <1>2 DEF IfDel
  <2>4. PICK v \in [Family -> 0..MaxEnable] : v = valid[i] /\ CountOK(i, v)
    BY <1>a, Zenon
  <2>5. \A af \in missing : v[af] = 0
    BY <2>4, Zenon DEF CountOK
  <2>6. /\ c \in [Family -> 0..MaxEnable]
        /\ \A af \in missing : c[af] = 0
        /\ \A af \in Family : c[af] < MaxEnable
        /\ \/ c = Off
           \/ \A af \in Family \ missing : c[af] = IF v[af] = 0 THEN 0 ELSE v[af] - 1
    <3>1. CASE c = AddDel(v, FALSE)
      BY ONLY <1>0, <2>5, v \in [Family -> 0..MaxEnable], <3>1, Callback, Zenon
    <3>2. CASE c = Off
      BY <1>0, <3>2
    <3>. QED BY <2>1, <2>4, <3>1, <3>2, ZenonT(40)
  <2>7. CountOK(i, c)'
    <3>1. missing = {} => c["ip4"] = c["ip6"]
      BY <1>0, <2>4, <2>6 DEF CountOK
    <3>2. missing = {"ip6"} => c["ip4"] = 0
      BY <1>0, <2>3, <2>4, <2>6 DEF CountOK
    <3>. QED BY <2>3, <2>6, <3>1, <3>2 DEF CountOK
  <2>8. ASSUME i \notin called, NEW af \in Family \ missing PROVE c[af] = 0
    <3>1. v[af] = 1
      BY <2>3, <2>4, <2>8, Zenon DEF IInv, CallbackBalanced
    <3>. QED BY <1>0, <2>6, <2>8, <3>1
  <2>9. TypeOK'
    <3>1. m \in [Family -> 0..MaxEnable]
      BY <1>0, <2>2 DEF IInv, TypeOK
    <3>. QED BY <2>1, <2>2, <2>3, <2>6, <3>1 DEF IInv, TypeOK
  <2>10. Counted' /\ Validating' /\ CallbackBalanced'
    <3>1. up' \ {i} = up \ {i} /\ over' \ {i} = over \ {i} /\ i \notin up'
      BY <2>3
    <3>. QED BY <2>1, <2>3, <2>6, <2>7, <2>8, <3>1, OneIndex, Zenon
  <2>. QED BY <2>9, <2>10, Zenon DEF IInv
<1>3. ASSUME NEW i \in Itf, NEW af \in Family, NEW t \in Table, SetTable(i, af, t) PROVE IInv'
  <2>1. vrf' \in [Itf -> [Family -> Table]] /\ UNCHANGED <<up, valid, ip2me, deny, missing, over, called>>
    BY <1>3 DEF SetTable, IInv, TypeOK
  <2>. QED BY <2>1 DEF IInv, TypeOK, CallbackBalanced, Counted, CountOK, Validating
<1>4. ASSUME NEW i \in Itf, NEW e \in BOOLEAN, ValidateApi(i, e) PROVE IInv'
  <2>1. /\ i \in up /\ (e => \A af \in Family : valid[i][af] < MaxEnable)
        /\ valid' = [valid EXCEPT ![i] = Toggled(valid[i], e)]
        /\ over' = over \cup {i} /\ called' = called \cup {i}
        /\ UNCHANGED <<up, ip2me, vrf, deny, missing>>
    BY <1>4 DEF ValidateApi, IInv, TypeOK
  <2>2. /\ missing = {} => valid[i]["ip4"] = valid[i]["ip6"]
        /\ missing = {"ip6"} => valid[i]["ip4"] = 1
        /\ \A af \in missing : valid[i][af] = 0
    BY <1>a, <2>1 DEF CountOK
  <2>3. PICK c \in [Family -> 0..MaxEnable] :
           /\ c = Toggled(valid[i], e)
           /\ missing = {} => c["ip4"] = c["ip6"]
           /\ missing # {} => c = valid[i]
    <3>1. PICK v \in [Family -> 0..MaxEnable] : v = valid[i]
      BY <1>a, Zenon
    <3>2. /\ Toggled(v, e) \in [Family -> 0..MaxEnable]
          /\ missing = {} => Toggled(v, e)["ip4"] = Toggled(v, e)["ip6"]
          /\ missing # {} => Toggled(v, e) = v
      BY <1>0, <2>1, <2>2, <3>1, Counts
    <3>. QED BY <3>1, <3>2, Zenon
  <2>4. CountOK(i, c)'
    BY <2>1, <2>2, <2>3 DEF CountOK
  <2>5. TypeOK'
    BY <2>1, <2>3 DEF IInv, TypeOK
  <2>6. Counted' /\ Validating' /\ CallbackBalanced'
    <3>1. /\ over' \ {i} = over \ {i} /\ called' \ {i} = called \ {i}
          /\ i \in over' /\ i \in called'
      BY <2>1
    <3>2. valid' = [valid EXCEPT ![i] = c]
      BY <2>1, <2>3, Zenon
    <3>. QED BY <2>1, <2>4, <3>1, <3>2, OneIndex, Zenon
  <2>. QED BY <2>5, <2>6, Zenon DEF IInv
<1>5. ASSUME NEW p \in Port, SetAcl(p) PROVE IInv'
  <2>1. deny' \subseteq Port /\ UNCHANGED <<up, valid, ip2me, vrf, missing, over, called>>
    BY <1>5 DEF SetAcl, IInv, TypeOK
  <2>. QED BY <2>1 DEF IInv, TypeOK, CallbackBalanced, Counted, CountOK, Validating
<1>6. ASSUME NEW p \in Port, NEW e \in BOOLEAN, Ip2meApi(p, e) \/ Ip2meCommand(p, e)
      PROVE  IInv'
  <2>1. p \in Itf
    BY DEF Itf
  <2>2. PICK c \in [Family -> 0..MaxEnable] : c = ip2me_enable_disable(ip2me[p], e)
    BY <1>6, <2>1, Ip2meTyped, SMTT(40) DEF Ip2meApi, Ip2meCommand, IInv, TypeOK
  <2>3. /\ ip2me' = [ip2me EXCEPT ![p] = c]
        /\ UNCHANGED <<up, valid, vrf, deny, missing, over, called>>
    BY <1>6, <2>2 DEF Ip2meApi, Ip2meCommand
  <2>. QED BY <2>3, ZenonT(40) DEF IInv, TypeOK, CallbackBalanced, Counted, CountOK, Validating
<1>7. CASE UNCHANGED vars
  BY <1>7 DEF vars, IInv, TypeOK, CallbackBalanced, Counted, CountOK, Validating
<1>. QED BY <1>1, <1>2, <1>3, <1>4, <1>5, <1>6, <1>7 DEF Next

\* The types, the balanced callback and the counts, in every state.
THEOREM CountsSound == Spec => []IInv
BY IInvInit, IInvNext, PTL DEF Spec

\* No sequence of enables, disables, creations and deletions of interfaces takes
\* a count out of its range, and an API call has only ever changed validation
\* on interfaces that are there (TypeOK).
THEOREM TypeCorrect == Spec => []TypeOK
<1>1. IInv => TypeOK
  BY DEF IInv
<1>. QED BY <1>1, CountsSound, PTL

\* However often an index is reused, and whether or not VPP clears the counts of
\* a deleted interface, the callback alone leaves each node enabled once while an
\* interface uses the index and not at all in between (CallbackBalanced).
THEOREM CallbackClean == Spec => []CallbackBalanced
<1>1. IInv => CallbackBalanced
  BY DEF IInv
<1>. QED BY <1>1, CountsSound, PTL

\* A call of the ip_validate API changes both families or neither, although it
\* enables one after the other and either arc may refuse (ApiAllOrNothing).
THEOREM ApiAtomic == Spec => ApiAllOrNothing
<1>1. ASSUME IInv, [Next]_vars, NEW i \in up \cap up', valid'[i] # valid[i], NEW af \in Family
      PROVE  valid'[i][af] # valid[i][af]
  <2>0. i \in Itf
    BY <1>1, SMTT(40) DEF IInv, TypeOK
  <2>1. PICK e \in BOOLEAN : ValidateApi(i, e)
    BY <1>1, <2>0, ZenonT(40) DEF Next, vars, IInv, TypeOK, IfAdd, IfDel, SetTable, ValidateApi, SetAcl,
                      Ip2meApi, Ip2meCommand
  <2>2. valid'[i] = Toggled(valid[i], e)
    BY <1>1, <2>0, <2>1 DEF ValidateApi, IInv, TypeOK
  <2>3. PICK c \in [Family -> 0..MaxEnable] : c = valid[i]
    BY <1>1, <2>0 DEF IInv, TypeOK
  <2>4. missing = {}
    BY <1>1, <2>0, <2>1, <2>2, <2>3, Counts, Zenon DEF ValidateApi, IInv, TypeOK, Counted, CountOK
  <2>5. c["ip4"] = c["ip6"]
    BY <1>1, <2>0, <2>3, <2>4 DEF IInv, Counted, CountOK
  <2>6. Toggled(c, e) = [x \in Family |-> Feature(c[x], e)]
    BY <2>4, ZenonT(40) DEF Toggled, Family
  <2>7. Feature(c["ip4"], e) # c["ip4"]
    BY <1>1, <2>2, <2>3, <2>5, <2>6 DEF Family
  <2>. QED BY <2>2, <2>3, <2>5, <2>6, <2>7, SMTT(40) DEF Family
<1>2. IInv /\ [Next]_vars =>
        [\A i \in up \cap up' :
           valid'[i] # valid[i] =>
             \A af \in Family : valid'[i][af] # valid[i][af]]_vars
  BY <1>1
<1>. QED BY <1>2, CountsSound, PTL DEF Spec, ApiAllOrNothing

-----------------------------------------------------------------------------
(* A frame's way *)

LEMMA DroppedExactly ==
    ASSUME NEW k \in Packet, NEW i
    PROVE  Dropped(i, k) <=> valid[i][k.af] > 0 /\ Martian(k)
BY Validators DEF Dropped

LEMMA Outcomes ==
    ASSUME NEW p, NEW k
    PROVE  /\ Outcome(p, k) = "acl" <=> p \in deny /\ ~BypassesAcl(p, k)
           /\ Outcome(p, k) # "acl" => (Outcome(p, k) = "invalid" <=> Dropped(Bvi, k))
           /\ Outcome(p, k) # "acl" /\ ~Dropped(Bvi, k) =>
                (Outcome(p, k) = "local" <=> Receive(vrf[Bvi][k.af], k))
           /\ Outcome(p, k) = "onward" => ~Dropped(Bvi, k)
BY SMTT(40) DEF Outcome

\* For packets with any addresses, those that reach the BVI are dropped there
\* exactly if they are martians, unless an API call changed the BVI's
\* validation (ExactlyMartiansStopped).
THEOREM MartiansStopped == Spec => []ExactlyMartiansStopped
<1>1. IInv => ExactlyMartiansStopped
  <2>. SUFFICES ASSUME IInv, NEW p \in Port, NEW k \in Packet,
                       Bridged(p), Bvi \notin over, k.af \notin missing, Outcome(p, k) # "acl"
                PROVE  Outcome(p, k) = "invalid" <=> Martian(k)
    BY DEF ExactlyMartiansStopped
  <2>1. valid[Bvi][k.af] > 0
    BY Validators DEF IInv, Validating, Bridged
  <2>. QED BY <2>1, DroppedExactly, Outcomes
<1>. QED BY <1>1, CountsSound, PTL

\* With ip2me on, the ACL of the port never keeps an ordinary packet for the
\* switch from it, for any addresses and any history of calls
\* (Ip2meReachesHost).
THEOREM HostReached == Spec => []Ip2meReachesHost
<1>1. Ip2meReachesHost
  <2>. SUFFICES ASSUME NEW p \in Port, NEW k \in Packet, vrf[p][k.af] = vrf[Bvi][k.af],
                       ip2me[p][k.af] > 0, Receive(vrf[Bvi][k.af], k), ~Martian(k)
                PROVE  Outcome(p, k) = "local"
    BY DEF Ip2meReachesHost
  <2>1. BypassesAcl(p, k)
    BY DEF BypassesAcl, DstIsLocal
  <2>. QED BY <2>1, DroppedExactly, Outcomes
<1>. QED BY <1>1, PTL

=============================================================================
