------------------------- MODULE SilentSingle_proofs -------------------------
(***************************************************************************)
(* A silent update without bank switching: the images lie one behind the   *)
(* other in the combined temporary bank, or user data in a bank of its     *)
(* own, and ACTIVE_IMAGE_RESET sets them ready all at once.                *)
(***************************************************************************)
EXTENDS SilentReady_proofs, WellFoundedInduction

-----------------------------------------------------------------------------
(* Where the images of a plan belong.                                      *)

\* A set of numbers with an element has a least one.
LEMMA Least ==
    ASSUME NEW S \in SUBSET Nat, S # {}
    PROVE  \E x \in S : \A y \in S : x <= y
<1> DEFINE R == OpToRel(<, Nat)
<1>1. IsWellFoundedOn(R, Nat)
      BY NatLessThanWellFounded
<1>2. \A a, b \in Nat : a < b => <<a, b>> \in R
      BY DEF OpToRel
<1> HIDE DEF R
<1>3. PICK x \in S : \A y \in S : ~(<<y, x>> \in R)
      BY <1>1, WFMin
<1>4. \A y \in S : ~(y < x)
      BY <1>2, <1>3
<1>5. QED
      BY <1>4

\* What image k of the plan adds to the offset of the next.
Room(m) == IF OwnBank(m) THEN 0 ELSE Total[m]

\* The offsets are what their definition says.
LEMMA OffsetsAre ==
    ASSUME NEW plan \in Seq(Image)
    PROVE  \A k \in 1 .. Len(plan) :
               Offsets(plan)[k] = IF k = 1 THEN 0 ELSE Offsets(plan)[k - 1] + Room(plan[k - 1])
<1> DEFINE next(f, k) == IF k = 1 THEN 0 ELSE f[k - 1] + Room(plan[k - 1])
           Without == {m \in 0 .. Len(plan) : ~\E f : f = [k \in 1 .. m |-> next(f, k)]}
<1>1. ASSUME Without # {}
      PROVE  FALSE
  <2>1. PICK m \in Without : \A y \in Without : m <= y
    <3>1. Without \in SUBSET Nat
          OBVIOUS
    <3>2. QED
          BY <1>1, <3>1, Least
  <2>2. m # 0
    <3> DEFINE none == [k \in 1 .. 0 |-> 0]
    <3>1. none = [k \in 1 .. 0 |-> next(none, k)]
          OBVIOUS
    <3>2. \E f : f = [k \in 1 .. 0 |-> next(f, k)]
          BY <3>1
    <3>3. 0 \notin Without
          BY <3>2
    <3>4. QED
          BY <2>1, <3>3
  <2>3. m - 1 \in 0 .. Len(plan) /\ m - 1 \notin Without
    <3>1. m \in 0 .. Len(plan) /\ Len(plan) \in Nat
          BY <2>1
    <3> HIDE DEF Without
    <3>2. QED
          BY <2>1, <2>2, <3>1
  <2>4. PICK f : f = [k \in 1 .. m - 1 |-> next(f, k)]
        BY <2>3
  <2> DEFINE g == [k \in 1 .. m |-> next(f, k)]
  <2>5. \A k \in 1 .. m : next(g, k) = next(f, k)
    <3> SUFFICES ASSUME NEW k \in 1 .. m, k # 1
                 PROVE  g[k - 1] = f[k - 1]
        OBVIOUS
    <3>1. k - 1 \in 1 .. m /\ k - 1 \in 1 .. m - 1
      <4>1. m \in Nat /\ k \in Nat /\ 1 <= k /\ k <= m
            BY <2>3
      <4>2. QED
            BY <4>1
    <3>2. g[k - 1] = next(f, k - 1)
          BY <3>1
    <3>3. f[k - 1] = next(f, k - 1)
          BY <2>4, <3>1
    <3>4. QED
          BY <3>2, <3>3
  <2>6. g = [k \in 1 .. m |-> next(g, k)]
    <3> HIDE DEF next
    <3>1. QED
          BY <2>5
  <2>7. QED
        BY <2>1, <2>6
<1>2. PICK f : f = [k \in 1 .. Len(plan) |-> next(f, k)]
  <2>1. Len(plan) \in 0 .. Len(plan)
        OBVIOUS
  <2>2. QED
        BY <1>1, <2>1
<1>3. Offsets(plan) = [k \in 1 .. Len(plan) |-> next(Offsets(plan), k)]
  <2>1. Offsets(plan) = CHOOSE at : at = [k \in 1 .. Len(plan) |-> next(at, k)]
        BY DEF Offsets, Room
  <2>2. QED
        BY <1>2, <2>1
<1>4. QED
      BY <1>3

\* The images of a plan that shares one bank follow each other in it.
LEMMA OffsetsGrow ==
    ASSUME NEW plan \in Seq(Image), \A k \in 1 .. Len(plan) : ~OwnBank(plan[k])
    PROVE  /\ \A k \in 1 .. Len(plan) : Offsets(plan)[k] \in Nat
           /\ \A j, k \in 1 .. Len(plan) : j < k =>
                 Offsets(plan)[j] + Total[plan[j]] <= Offsets(plan)[k]
<1> DEFINE off == Offsets(plan)
<1>1. \A k \in 1 .. Len(plan) : off[k] = IF k = 1 THEN 0 ELSE off[k - 1] + Total[plan[k - 1]]
  <2>1. ASSUME NEW k \in 1 .. Len(plan), k # 1
        PROVE  Room(plan[k - 1]) = Total[plan[k - 1]]
    <3>1. k - 1 \in 1 .. Len(plan)
          BY <2>1
    <3>2. QED
          BY <3>1 DEF Room
  <2>2. QED
        BY <2>1, OffsetsAre
<1>2. \A k \in 1 .. Len(plan) : Total[plan[k]] \in Nat
      BY ImageAssumption
<1> HIDE DEF off
<1> DEFINE Wrong == {k \in 1 .. Len(plan) :
                       ~(off[k] \in Nat /\ \A j \in 1 .. k - 1 : off[j] + Total[plan[j]] <= off[k])}
<1>3. ASSUME Wrong # {}
      PROVE  FALSE
  <2>1. PICK k \in Wrong : \A y \in Wrong : k <= y
    <3>1. Wrong \in SUBSET Nat
          OBVIOUS
    <3>2. QED
          BY <1>3, <3>1, Least
  <2>2. k # 1
    <3>1. 1 \in 1 .. Len(plan) => off[1] = 0
          BY <1>1
    <3>2. 1 \notin Wrong
          BY <3>1
    <3>3. QED
          BY <2>1, <3>2
  <2>3. k - 1 \in 1 .. Len(plan) /\ k - 1 \notin Wrong
        BY <2>1, <2>2
  <2>4. /\ off[k - 1] \in Nat
        /\ \A j \in 1 .. k - 2 : off[j] + Total[plan[j]] <= off[k - 1]
        BY <2>3
  <2>5. off[k] = off[k - 1] + Total[plan[k - 1]]
        BY <1>1, <2>1, <2>2
  <2>6. ASSUME NEW j \in 1 .. k - 1
        PROVE  off[j] + Total[plan[j]] <= off[k]
    <3>1. CASE j = k - 1
          BY <2>5, <2>3, <1>2, <2>4, <3>1
    <3>2. CASE j # k - 1
      <4>1. j \in 1 .. k - 2 /\ j \in 1 .. Len(plan)
            BY <2>3, <3>2
      <4>2. off[j] \in Nat
        <5>1. j \notin Wrong
              BY <2>1, <4>1
        <5>2. QED
              BY <4>1, <5>1
      <4>3. off[j] + Total[plan[j]] <= off[k - 1] /\ Total[plan[j]] \in Nat
            BY <1>2, <2>4, <4>1
      <4>4. Total[plan[k - 1]] \in Nat
            BY <1>2, <2>3
      <4>5. QED
            BY <2>4, <2>5, <4>2, <4>3, <4>4
    <3>3. QED
          BY <3>1, <3>2, Zenon
  <2>7. off[k] \in Nat
        BY <1>2, <2>3, <2>4, <2>5
  <2>8. QED
        BY <2>1, <2>6, <2>7
<1>4. ASSUME NEW k \in 1 .. Len(plan)
      PROVE  off[k] \in Nat /\ \A j \in 1 .. k - 1 : off[j] + Total[plan[j]] <= off[k]
      BY <1>3
<1>5. QED
      BY <1>4 DEF off
-----------------------------------------------------------------------------
(* The bank of an update.                                                  *)

\* The images of a plan share one bank of whole sectors, which has room for them
\* all, and an entry for each.  They are no user data; or the plan is one image
\* of user data, whose bank is the only one that ACTIVE_IMAGE_RESET sets ready.
OneBank(plan) ==
    LET first == IdOf[plan[1]]
    IN  /\ TempBase[first] # 0
        /\ TempBase[first] % SECTOR = 0 /\ TempSize[first] % SECTOR = 0
        /\ \A k \in 1 .. Len(plan) :
              /\ TempBase[IdOf[plan[k]]] = TempBase[first]
              /\ TempSize[IdOf[plan[k]]] = TempSize[first]
              /\ Offsets(plan)[k] + Total[plan[k]] <= TempSize[first]
        /\ Len(plan) < MaxTemp
        /\ \/ \A k \in 1 .. Len(plan) : IdOf[plan[k]] \notin UserData
           \/ /\ Len(plan) = 1 /\ first \in UserData
              /\ {u \in UserLoop : TempBase[u] # 0} = {first}

First == IdOf[Plan[1]]
Base  == TempBase[First]
Size  == TempSize[First]
Area  == Base .. Base + Size - 1
ForUser == First \in UserData

\* Where image k of the plan belongs, and what follows it.
Place(k) == Base + Offsets(Plan)[k]
Behind(k) == Place(k) + Total[Plan[k]]

\* What the layout says of the plan of the client there is.
LEMMA Layout ==
    ASSUME Shape, ~BankSwitch, \A c \in Clients : OneBank(c.plan)
    PROVE  /\ Len(Plan) \in Nat \ {0} /\ current.k \in 1 .. Len(Plan) /\ Len(Plan) < MaxTemp
           /\ Base \in Nat \ {0} /\ Size \in Nat /\ Base % SECTOR = 0
           /\ Base + Size <= FlashSize /\ (Base + Size) % SECTOR = 0
           /\ \A k \in 1 .. Len(Plan) :
                 /\ Plan[k] \in Image /\ Total[Plan[k]] \in Nat \ {0} /\ Total[Plan[k]] <= Size
                 /\ IdOf[Plan[k]] \in ImageId \ {NoId}
                 /\ TempBase[IdOf[Plan[k]]] = Base /\ TempSize[IdOf[Plan[k]]] = Size
                 /\ Offsets(Plan)[k] \in Nat /\ Place(k) \in Nat /\ Behind(k) \in Nat
                 /\ Base <= Place(k) /\ Place(k) < Behind(k) /\ Behind(k) <= Base + Size
                 /\ PlaceOf(k) = Place(k)
                 /\ IdOf[Plan[k]] \in UserData <=> ForUser
           /\ \A j, k \in 1 .. Len(Plan) : j < k => Behind(j) <= Place(k)
           /\ Offsets(Plan)[1] = 0 /\ Place(1) = Base
           /\ \A k \in 1 .. Len(Plan) : k # 1 =>
                 /\ Offsets(Plan)[k] = Offsets(Plan)[k - 1] + Total[Plan[k - 1]]
                 /\ Place(k) = Behind(k - 1)
           /\ ForUser => Len(Plan) = 1 /\ {u \in UserLoop : TempBase[u] # 0} = {First}
<1>1. /\ Plan \in Seq(Image) /\ Plan # << >> /\ current.by \in Clients
      /\ current.k \in 1 .. Len(Plan)
      BY ImageType DEF Shape
<1>2. OneBank(Plan)
      BY <1>1 DEF Plan
<1>3. Len(Plan) \in Nat \ {0}
      BY <1>1
<1>4. ASSUME NEW k \in 1 .. Len(Plan)
      PROVE  Plan[k] \in Image /\ Total[Plan[k]] \in Nat \ {0} /\ IdOf[Plan[k]] \in ImageId \ {NoId}
  <2>1. Plan[k] \in Image
        BY <1>1
  <2>2. QED
        BY <2>1, ImageAssumption, LayoutAssumption
<1>5. /\ First \in ImageId /\ Base \in Nat \ {0} /\ Size \in Nat /\ Base + Size <= FlashSize
      /\ Base % SECTOR = 0 /\ Size % SECTOR = 0 /\ Len(Plan) < MaxTemp
  <2>1. First \in ImageId
        BY <1>3, <1>4 DEF First
  <2>2. Base # 0 /\ Base % SECTOR = 0 /\ Size % SECTOR = 0 /\ Len(Plan) < MaxTemp
        BY <1>2 DEF OneBank, Base, Size, First
  <2>3. QED
        BY <2>1, <2>2, ImageAssumption DEF Base, Size
<1>6. (Base + Size) % SECTOR = 0
      BY <1>5, SumOfMultiples, FlashAssumption
<1>7. /\ ForUser => Len(Plan) = 1 /\ {u \in UserLoop : TempBase[u] # 0} = {First}
      /\ ~ForUser => \A k \in 1 .. Len(Plan) : ~OwnBank(Plan[k])
      /\ \A k \in 1 .. Len(Plan) : IdOf[Plan[k]] \in UserData <=> ForUser
  <2>1. 1 \in 1 .. Len(Plan)
        BY <1>3
  <2>2. CASE \A k \in 1 .. Len(Plan) : IdOf[Plan[k]] \notin UserData
        BY <2>1, <2>2 DEF ForUser, First, OwnBank
  <2>3. CASE Len(Plan) = 1 /\ First \in UserData /\ {u \in UserLoop : TempBase[u] # 0} = {First}
    <3>1. \A k \in 1 .. Len(Plan) : k = 1
          BY <2>3
    <3>2. QED
          BY <2>3, <3>1 DEF ForUser, First
  <2>4. QED
        BY <1>2, <2>2, <2>3 DEF OneBank, First
<1>8. /\ \A k \in 1 .. Len(Plan) : Offsets(Plan)[k] \in Nat
      /\ \A j, k \in 1 .. Len(Plan) : j < k =>
            Offsets(Plan)[j] + Total[Plan[j]] <= Offsets(Plan)[k]
      /\ Offsets(Plan)[1] = 0
      /\ \A k \in 1 .. Len(Plan) : k # 1 =>
            Offsets(Plan)[k] = Offsets(Plan)[k - 1] + Total[Plan[k - 1]]
  <2>1. Offsets(Plan)[1] = 0
        BY <1>1, <1>3, OffsetsAre
  <2>2. CASE ForUser
    <3>0. Len(Plan) = 1
          BY <1>7, <2>2
    <3>1. \A k \in 1 .. Len(Plan) : k = 1
          BY <3>0
    <3>2. QED
          BY <2>1, <3>1
  <2>3. CASE ~ForUser
    <3>1. \A k \in 1 .. Len(Plan) : ~OwnBank(Plan[k])
          BY <1>7, <2>3
    <3>2. ASSUME NEW k \in 1 .. Len(Plan), k # 1
          PROVE  Offsets(Plan)[k] = Offsets(Plan)[k - 1] + Total[Plan[k - 1]]
      <4>1. k - 1 \in 1 .. Len(Plan)
            BY <3>2
      <4>2. Room(Plan[k - 1]) = Total[Plan[k - 1]]
            BY <3>1, <4>1 DEF Room
      <4>3. QED
            BY <1>1, <3>2, <4>2, OffsetsAre
    <3>3. QED
          BY <1>1, <2>1, <3>1, <3>2, OffsetsGrow
  <2>4. QED
        BY <2>2, <2>3
<1>9. ASSUME NEW k \in 1 .. Len(Plan)
      PROVE  /\ Total[Plan[k]] <= Size
             /\ TempBase[IdOf[Plan[k]]] = Base /\ TempSize[IdOf[Plan[k]]] = Size
             /\ Place(k) \in Nat /\ Behind(k) \in Nat
             /\ Base <= Place(k) /\ Place(k) < Behind(k) /\ Behind(k) <= Base + Size
             /\ PlaceOf(k) = Place(k)
  <2>1. /\ TempBase[IdOf[Plan[k]]] = Base /\ TempSize[IdOf[Plan[k]]] = Size
        /\ Offsets(Plan)[k] + Total[Plan[k]] <= Size
        BY <1>2 DEF OneBank, Base, Size, First
  <2>2. Offsets(Plan)[k] \in Nat /\ Total[Plan[k]] \in Nat \ {0}
        BY <1>4, <1>8
  <2>3. IF OwnBank(Plan[k]) THEN Offsets(Plan)[k] = 0 ELSE TRUE
    <3>1. CASE ForUser
      <4>1. Len(Plan) = 1
            BY <1>7, <3>1
      <4>2. k = 1
            BY <4>1
      <4>3. QED
            BY <1>8, <4>2
    <3>2. CASE ~ForUser
          BY <1>7, <3>2
    <3>3. QED
          BY <3>1, <3>2
  <2>4. QED
        BY <1>5, <2>1, <2>2, <2>3 DEF Place, Behind, PlaceOf
<1>10. ASSUME NEW j \in 1 .. Len(Plan), NEW k \in 1 .. Len(Plan), j < k
       PROVE  Behind(j) <= Place(k)
  <2>1. Offsets(Plan)[j] + Total[Plan[j]] <= Offsets(Plan)[k]
        BY <1>8, <1>10
  <2>2. Offsets(Plan)[j] \in Nat /\ Offsets(Plan)[k] \in Nat /\ Total[Plan[j]] \in Nat
        BY <1>4, <1>8
  <2>3. QED
        BY <1>5, <2>1, <2>2 DEF Place, Behind
<1>11. ASSUME NEW k \in 1 .. Len(Plan), k # 1
       PROVE  Place(k) = Behind(k - 1)
  <2>1. k - 1 \in 1 .. Len(Plan)
        BY <1>11
  <2>2. Offsets(Plan)[k - 1] \in Nat /\ Total[Plan[k - 1]] \in Nat
        BY <1>4, <1>8, <2>1
  <2>3. Offsets(Plan)[k] = Offsets(Plan)[k - 1] + Total[Plan[k - 1]]
        BY <1>8, <1>11
  <2>4. QED
        BY <1>5, <2>2, <2>3 DEF Place, Behind
<1>12. Place(1) = Base
       BY <1>5, <1>8 DEF Place
<1>13. QED
       BY <1>1, <1>3, <1>4, <1>5, <1>6, <1>7, <1>8, <1>9, <1>10, <1>11, <1>12
-----------------------------------------------------------------------------
(* Writing on where the last write ended, while nothing fails.             *)

\* Where the sector of an address ends, if it does not start there.
Upper(a) == IF a % SECTOR = 0 THEN a ELSE a - (a % SECTOR) + SECTOR

\* An address is the start of its sector and a rest.
LEMMA SectorStart ==
    ASSUME NEW a \in Nat
    PROVE  \E q \in Nat, s \in Nat, r \in 0 .. SECTOR - 1 :
               /\ q = a \div SECTOR /\ r = a % SECTOR /\ s = SECTOR * q
               /\ a = s + r /\ s % SECTOR = 0
<1>1. SECTOR \in Nat \ {0}
      BY FlashAssumption
<1>2. PICK q, r : q = a \div SECTOR /\ r = a % SECTOR
      OBVIOUS
<1>3. q \in Nat /\ a = SECTOR * q + r /\ r \in 0 .. SECTOR - 1
      BY <1>1, <1>2, Division
<1>4. (SECTOR * q) % SECTOR = 0
      BY <1>1, <1>3, Multiple
<1>5. SECTOR * q \in Nat
      BY <1>1, <1>3
<1>6. QED
      BY <1>2, <1>3, <1>4, <1>5

\* The next multiple is a sector away.
LEMMA NextSector ==
    ASSUME NEW s \in Nat, s % SECTOR = 0
    PROVE  /\ s + SECTOR \in Nat /\ (s + SECTOR) % SECTOR = 0
           /\ \A b \in Nat : b % SECTOR = 0 /\ s < b => s + SECTOR <= b
<1>1. SECTOR \in Nat \ {0}
      BY FlashAssumption
<1>2. SECTOR % SECTOR = 0
      BY <1>1, Z3
<1>3. (s + SECTOR) % SECTOR = 0
      BY <1>1, <1>2, SumOfMultiples
<1>4. ASSUME NEW b \in Nat, b % SECTOR = 0, s < b
      PROVE  s + SECTOR <= b
      BY <1>1, <1>4, MultiplesApart
<1>5. QED
      BY <1>1, <1>3, <1>4

\* It is the first multiple from the address on.
LEMMA UpperIs ==
    ASSUME NEW a \in Nat
    PROVE  /\ Upper(a) \in Nat /\ Upper(a) % SECTOR = 0
           /\ a <= Upper(a) /\ Upper(a) < a + SECTOR
           /\ a % SECTOR = 0 => Upper(a) = a
           /\ \A b \in Nat : b % SECTOR = 0 /\ a <= b => Upper(a) <= b
<1>1. SECTOR \in Nat \ {0}
      BY FlashAssumption
<1>2. CASE a % SECTOR = 0
      BY <1>1, <1>2 DEF Upper
<1>3. CASE a % SECTOR # 0
  <2>1. PICK s \in Nat, r \in 0 .. SECTOR - 1 : r = a % SECTOR /\ a = s + r /\ s % SECTOR = 0
        BY SectorStart
  <2>2. Upper(a) = a - r + SECTOR
        BY <1>3, <2>1 DEF Upper
  <2>3. Upper(a) = s + SECTOR /\ r # 0
        BY <1>1, <1>3, <2>1, <2>2
  <2>4. /\ (s + SECTOR) % SECTOR = 0
        /\ \A b \in Nat : b % SECTOR = 0 /\ s < b => s + SECTOR <= b
        BY <2>1, NextSector
  <2>5. ASSUME NEW b \in Nat, b % SECTOR = 0, a <= b
        PROVE  s + SECTOR <= b
    <3>1. s < b
          BY <2>1, <2>3, <2>5
    <3>2. QED
          BY <2>4, <2>5, <3>1
  <2>6. QED
        BY <1>1, <1>3, <2>1, <2>3, <2>4, <2>5
<1>4. QED
      BY <1>2, <1>3

\* A packet that is no longer than a sector enters the next one or does not.
LEMMA UpperStep ==
    ASSUME NEW f \in Nat, NEW length \in 1 .. SECTOR, f + length < Wrap
    PROVE  \/ SectorToErase(f, length) = {} /\ Upper(f + length) = Upper(f)
           \/ SectorToErase(f, length) = {Upper(f)} /\ Upper(f + length) = Upper(f) + SECTOR
<1>1. SECTOR \in Nat \ {0} /\ length \in Nat
      BY FlashAssumption
<1>2. PICK t, u, v : t = f + length /\ u = Upper(f) /\ v = Upper(t)
      OBVIOUS
<1>3. t \in Nat /\ f < t /\ t <= f + SECTOR
      BY <1>1, <1>2
<1>4. /\ u \in Nat /\ u % SECTOR = 0 /\ f <= u /\ u < f + SECTOR
      /\ v \in Nat /\ v % SECTOR = 0 /\ t <= v /\ v < t + SECTOR
      /\ t <= u => v <= u
      /\ u <= v
      /\ t % SECTOR = 0 => v = t
      BY <1>2, <1>3, UpperIs
<1>5. ASSUME u < v
      PROVE  v = u + SECTOR
  <2>1. (u + SECTOR) % SECTOR = 0 /\ u + SECTOR \in Nat /\ u + SECTOR <= v
        BY <1>4, <1>5, NextSector
  <2>2. t <= u + SECTOR
        BY <1>1, <1>3, <1>4
  <2>3. v <= u + SECTOR
        BY <1>2, <1>3, <2>1, <2>2, UpperIs
  <2>4. QED
        BY <1>4, <2>1, <2>3
<1>6. CASE f % SECTOR = 0
  <2>1. u = f
        BY <1>2, <1>6, UpperIs
  <2>2. SectorToErase(f, length) = {u}
        BY <1>6, <2>1 DEF SectorToErase
  <2>3. u < v
        BY <1>3, <1>4, <2>1
  <2>4. QED
        BY <1>2, <1>5, <2>2, <2>3
<1>7. CASE f % SECTOR # 0
  <2>1. PICK q \in Nat, s \in Nat, r \in 0 .. SECTOR - 1 :
               /\ q = f \div SECTOR /\ r = f % SECTOR /\ s = SECTOR * q
               /\ f = s + r /\ s % SECTOR = 0
        BY SectorStart
  <2>2. s < f /\ f < s + SECTOR /\ u = s + SECTOR
    <3>1. u = f - r + SECTOR /\ r # 0
          BY <1>2, <1>7, <2>1 DEF Upper
    <3>2. f = s + r
          BY <2>1
    <3>3. QED
          BY <1>1, <3>1, <3>2
  <2>3. PICK p \in Nat, e \in Nat, d \in 0 .. SECTOR - 1 :
               /\ p = t \div SECTOR /\ d = t % SECTOR /\ e = SECTOR * p
               /\ t = e + d /\ e % SECTOR = 0
        BY <1>3, SectorStart
  <2>4. t = e + d
        BY <2>3
  <2>5. p * SECTOR = e
        BY <1>1, <2>3, <2>4
  <2>6. SectorToErase(f, length) = {x \in {e} : q # p /\ d # 0}
    <3>1. t < Wrap
          BY <1>2
    <3>2. t % Wrap = t
          BY <1>3, <3>1, NoWrap
    <3>3. SectorToErase(f, length) = {x \in {(t \div SECTOR) * SECTOR} :
                                        f \div SECTOR # t \div SECTOR /\ t % SECTOR # 0}
          BY <1>2, <1>7, <3>2 DEF SectorToErase
    <3>4. QED
          BY <2>1, <2>3, <2>5, <3>3
  <2>7. CASE d = 0
    <3>1. v = t /\ t <= u
      <4>1. v = t
            BY <1>4, <2>3, <2>7
      <4>2. ~(u < v)
        <5>1. ASSUME u < v
              PROVE  FALSE
          <6>1. v = u + SECTOR
                BY <1>5, <5>1
          <6>2. QED
                BY <1>1, <1>3, <1>4, <2>2, <4>1, <6>1
        <5>2. QED
              BY <5>1
      <4>3. QED
            BY <1>4, <4>1, <4>2
    <3>2. QED
          BY <1>2, <1>4, <2>6, <2>7, <3>1
  <2>8. CASE d # 0 /\ q = p
    <3>1. e = s
          BY <2>1, <2>3, <2>8
    <3>2. t <= u
          BY <1>1, <2>2, <2>4, <3>1
    <3>3. QED
          BY <1>2, <1>4, <2>6, <2>8, <3>2
  <2>9. CASE d # 0 /\ q # p
    <3>1. e # s
          BY <1>1, <2>1, <2>3, <2>9, Z3
    <3>2. ~(e < s)
      <4>1. e < s => e + SECTOR <= s
            BY <2>1, <2>3, NextSector
      <4>2. QED
            BY <1>1, <1>3, <2>2, <2>4, <4>1
    <3>3. s + SECTOR <= e
      <4>1. s < e
            BY <3>1, <3>2
      <4>2. QED
            BY <2>1, <2>3, <4>1, NextSector
    <3>4. ~(u < e)
      <4>1. u < e => u + SECTOR <= e
            BY <1>4, <2>3, NextSector
      <4>2. QED
            BY <1>1, <1>3, <1>4, <2>4, <2>9, <4>1
    <3>5. e = u /\ u < v
          BY <1>1, <1>4, <2>2, <2>4, <2>9, <3>3, <3>4
    <3>6. QED
          BY <1>2, <1>5, <2>6, <2>9, <3>5
  <2>10. QED
         BY <2>7, <2>8, <2>9
<1>8. QED
      BY <1>6, <1>7
\* The sector at a multiple.
LEMMA SectorIs ==
    ASSUME NEW a \in Nat, a % SECTOR = 0
    PROVE  SectorOf(a) = {x \in Addr : a <= x /\ x < a + SECTOR}
<1>1. SECTOR \in Nat \ {0}
      BY FlashAssumption
<1>2. ASSUME NEW x \in SectorOf(a)
      PROVE  a <= x /\ x < a + SECTOR
  <2>1. x \in Nat
        BY DEF SectorOf, Addr
  <2>2. QED
        BY <1>1, <2>1, SectorRange
<1>3. ASSUME NEW x \in Addr, a <= x, x < a + SECTOR
      PROVE  x \div SECTOR = a \div SECTOR
  <2>1. x \in Nat
        BY DEF Addr
  <2>2. PICK q \in Nat, s \in Nat, r \in 0 .. SECTOR - 1 :
               q = x \div SECTOR /\ s = SECTOR * q /\ x = s + r /\ s % SECTOR = 0
        BY <2>1, SectorStart
  <2>3. PICK p \in Nat, t \in Nat, d \in 0 .. SECTOR - 1 :
               p = a \div SECTOR /\ d = a % SECTOR /\ t = SECTOR * p /\ a = t + d
        BY SectorStart
  <2>4. a = t
        BY <2>3
  <2>5. ~(a < s)
    <3>1. a < s => a + SECTOR <= s
          BY <2>2, NextSector
    <3>2. QED
          BY <1>1, <1>3, <2>1, <2>2, <3>1
  <2>6. ~(s < a)
    <3>1. s < a => s + SECTOR <= a
          BY <2>2, NextSector
    <3>2. QED
          BY <1>1, <1>3, <2>1, <2>2, <3>1
  <2>7. SECTOR * q = SECTOR * p
        BY <2>2, <2>3, <2>4, <2>5, <2>6
  <2>8. q = p
        BY <1>1, <2>2, <2>3, <2>7, Z3
  <2>9. QED
        BY <2>2, <2>3, <2>8
<1>4. QED
      BY <1>2, <1>3 DEF SectorOf

\* The data stands at f, behind it its sector is blank up to the end and without
\* a ready header, and the rest of the flash is as it was.
Grown(w, n, f, data) ==
    /\ w \in Flash /\ w.bp = TRUE /\ w.faults = n.faults
    /\ \A i \in 1 .. Len(data) : w.mem[f + i - 1] = data[i]
    /\ \A x \in f + Len(data) .. Upper(f + Len(data)) - 1 : w.mem[x] = Erased
    /\ \A x \in Addr : x < f \/ Upper(f + Len(data)) <= x => w.mem[x] = n.mem[x]
    /\ w.ready \subseteq n.ready
    /\ \A x \in w.ready : x < Upper(f) \/ Upper(f + Len(data)) <= x

\* Between f and the end of the sector of f + length anything may have happened,
\* and either no cell changed or no header is ready in the sectors that are entered.
Touched(w, n, f, length) ==
    /\ w.ready \subseteq n.ready
    /\ \A x \in Addr : x < f \/ Upper(f + length) <= x => w.mem[x] = n.mem[x]
    /\ \/ w.mem = n.mem
       \/ \A x \in w.ready : x < Upper(f) \/ Upper(f + length) <= x

\* The rest of the sector of f is blank.
Blank(n, f) == \A x \in f .. Upper(f) - 1 : n.mem[x] = Erased /\ x \notin n.ready

\* So is everything from f to the end of the sector of f + length, and the rest
\* is as it was.
BlankFrom(v, n, f, length) ==
    /\ v \in Flash /\ v.bp = FALSE /\ v.faults = MaxFaults
    /\ v.ready \subseteq n.ready
    /\ \A x \in f .. Upper(f + length) - 1 : v.mem[x] = Erased
    /\ \A x \in Addr : x < f \/ Upper(f + length) <= x => v.mem[x] = n.mem[x]
    /\ \A x \in v.ready : x < f \/ Upper(f + length) <= x

\* An update finds blank cells, or makes them.
LEMMA CleanErase ==
    ASSUME NEW n \in Flash, n.faults = MaxFaults, NEW f \in Nat, NEW length \in 1 .. SECTOR,
           Blank(n, f), Upper(f + length) <= FlashSize
    PROVE  \E v \in Flash : EraseAhead(n, f, length) = {Done(v)} /\ BlankFrom(v, n, f, length)
<1> DEFINE erased == EraseAhead(n, f, length)
           open == unlock_flash_bp_all(n)
<1>1. /\ open \in Flash /\ open.bp = FALSE /\ open.ready = n.ready /\ open.mem = n.mem
      /\ open.faults = MaxFaults
      BY BpType DEF unlock_flash_bp_all, Flash
<1>6. \A x \in f .. Upper(f) - 1 : n.mem[x] = Erased /\ x \notin n.ready
      BY DEF Blank
<1> HIDE DEF open, erased
<1>2. /\ Upper(f) \in Nat /\ Upper(f) % SECTOR = 0 /\ f <= Upper(f)
      /\ SECTOR \in Nat \ {0} /\ length \in Nat /\ FlashSize \in Nat
      BY UpperIs, FlashAssumption
<1>3. CASE SectorToErase(f, length) = {} /\ Upper(f + length) = Upper(f)
  <2>1. erased = {Done(open)}
        BY <1>3, Zenon DEF open, erased, EraseAhead
  <2>2. \A x \in open.ready : x \in Nat
        BY <1>1 DEF Flash, Addr
  <2>3. \A x \in open.ready : x < f \/ Upper(f + length) <= x
        BY <1>1, <1>2, <1>3, <1>6, <2>2
  <2>4. QED
        BY <1>1, <1>2, <1>3, <1>6, <2>1, <2>3 DEF erased, BlankFrom
<1>4. CASE SectorToErase(f, length) = {Upper(f)} /\ Upper(f + length) = Upper(f) + SECTOR
  <2>1. PICK u, t : u = Upper(f) /\ t = Upper(f + length)
        OBVIOUS
  <2>0. t = u + SECTOR
        BY <1>4, <2>1
  <2>2. erased = dfu_flash_erase_sector(open, u)
        BY <1>4, <2>1 DEF open, erased, EraseAhead
  <2> DEFINE v == SectorSet(open, u, Erased)
  <2>3. erased = {Done(v)}
    <3>1. ~CanFail(open, "erase")
          BY <1>1, FlashAssumption DEF CanFail
    <3>2. ~open.bp /\ u % SECTOR = 0
          BY <1>1, <1>2, <2>1
    <3>3. QED
          BY <2>2, <3>1, <3>2, Zenon DEF dfu_flash_erase_sector
  <2>4. /\ v \in Flash /\ v.bp = FALSE /\ v.faults = MaxFaults
        /\ v.ready = n.ready \ SectorOf(u) /\ v.mem = WithSector(n.mem, u, Erased)
    <3>1. WithSector(open.mem, u, Erased) \in [Addr -> Content]
          BY <1>1, SectorMem DEF Flash, Content
    <3>2. QED
          BY <1>1, <3>1 DEF Flash, SectorSet
  <2> HIDE DEF v
  <2>5. SectorOf(u) = {x \in Addr : u <= x /\ x < u + SECTOR}
        BY <1>2, <2>1, SectorIs
  <2>6. \A x \in Addr : v.mem[x] = IF u <= x /\ x < u + SECTOR THEN Erased ELSE n.mem[x]
        BY <2>4, <2>5 DEF WithSector
  <2>7. \A x \in f .. t - 1 : v.mem[x] = Erased
    <3> SUFFICES ASSUME NEW x \in f .. t - 1
                 PROVE  v.mem[x] = Erased
        OBVIOUS
    <3>1. x \in Addr
          BY <1>2, <1>4, <2>0, <2>1 DEF Addr
    <3>2. x < u => n.mem[x] = Erased
          BY <1>2, <1>6, <2>1
    <3>3. QED
          BY <1>2, <2>0, <2>1, <2>6, <3>1, <3>2
  <2>8. \A x \in Addr : x < f \/ t <= x => v.mem[x] = n.mem[x]
    <3> SUFFICES ASSUME NEW x \in Addr, x < f \/ t <= x
                 PROVE  v.mem[x] = n.mem[x]
        OBVIOUS
    <3>1. x \in Nat
          BY DEF Addr
    <3>2. ~(u <= x /\ x < u + SECTOR)
          BY <1>2, <2>0, <2>1, <3>1
    <3>3. QED
          BY <2>6, <3>2
  <2>9. \A x \in v.ready : x < f \/ t <= x
    <3> SUFFICES ASSUME NEW x \in v.ready
                 PROVE  x < f \/ t <= x
        OBVIOUS
    <3>1. x \in n.ready /\ x \in Addr /\ x \in Nat
          BY <2>4 DEF Flash, Addr
    <3>2. ~(u <= x /\ x < u + SECTOR)
          BY <2>4, <2>5, <3>1
    <3>3. x < u => x < f
          BY <1>2, <1>6, <2>1, <3>1
    <3>4. QED
          BY <1>2, <2>0, <2>1, <3>1, <3>2, <3>3
  <2>10. v.ready \subseteq n.ready
         BY <2>4
  <2>11. v \in Flash /\ v.bp = FALSE /\ v.faults = MaxFaults
         BY <2>4
  <2>12. QED
         BY <2>1, <2>3, <2>7, <2>8, <2>9, <2>10, <2>11, Zenon DEF erased, BlankFrom
<1>5. f + length < Wrap
  <2>1. PICK t \in Nat : t = f + length
        BY <1>2
  <2>2. t <= Upper(t) /\ Upper(t) \in Nat
        BY <2>1, UpperIs
  <2>3. Upper(t) <= FlashSize /\ FlashSize < Wrap /\ Wrap \in Nat
        BY <2>1, ImageAssumption
  <2>4. QED
        BY <1>2, <2>1, <2>2, <2>3
<1>7. QED
      BY <1>3, <1>4, <1>5, UpperStep

\* On blank cells the write succeeds.
LEMMA CleanWritten ==
    ASSUME NEW v \in Flash, v.bp = FALSE, v.faults = MaxFaults, NEW f \in Nat,
           NEW data \in Seq(Content), f + Len(data) <= FlashSize,
           \A x \in f .. f + Len(data) - 1 : v.mem[x] = Erased /\ x \notin v.ready
    PROVE  \E w \in Flash : /\ dfu_write(v, f, data, {}) = {Done(w)}
                            /\ w.bp = FALSE /\ w.faults = MaxFaults /\ w.ready = v.ready
                            /\ \A i \in 1 .. Len(data) : w.mem[f + i - 1] = data[i]
                            /\ \A x \in Addr : x < f \/ f + Len(data) <= x => w.mem[x] = v.mem[x]
<1> DEFINE w == ProgrammedUpTo(v, f, data, {}, Len(data))
<1>1. Len(data) \in Nat /\ FlashSize \in Nat /\ MaxFaults \in Nat
      BY FlashAssumption
<1>2. Verified(v, f, data, {}, Len(data))
  <2> SUFFICES ASSUME NEW i \in 1 .. Len(data)
               PROVE  ReadsBack(v, f, data, {}, i)
      BY DEF Verified
  <2>1. PICK x : x = f + i - 1
        OBVIOUS
  <2>2. x \in f .. f + Len(data) - 1 /\ x \in Addr
        BY <1>1, <2>1 DEF Addr
  <2>3. v.mem[x] = Erased /\ x \notin v.ready
        BY <2>2
  <2>4. QED
        BY <2>1, <2>2, <2>3 DEF ReadsBack, Programmed
<1>3. dfu_write(v, f, data, {}) = {Done(w)}
  <2>1. CleanWrite(v, f, data, {}) = {Done(w)}
        BY <1>2 DEF CleanWrite
  <2>2. FaultyWrite(v, f, data, {}) = {}
        BY <1>1 DEF FaultyWrite, CanFail
  <2>3. QED
        BY <2>1, <2>2 DEF dfu_write
<1>4. WithData(v.mem, f, data, Len(data)) \in [Addr -> Content]
      BY <1>1, DataMem DEF Flash
<1>9. Readied(v.ready, f, {}, Len(data)) = v.ready
      BY Zenon DEF Readied
<1>5. /\ w \in Flash /\ w.bp = FALSE /\ w.faults = MaxFaults /\ w.ready = v.ready
      /\ w.mem = WithData(v.mem, f, data, Len(data))
      BY <1>4, <1>9 DEF Flash, ProgrammedUpTo
<1> HIDE DEF w
<1>6. ASSUME NEW i \in 1 .. Len(data)
      PROVE  w.mem[f + i - 1] = data[i]
  <2>1. PICK x : x = f + i - 1
        OBVIOUS
  <2>2. x \in f .. f + Len(data) - 1 /\ x \in Addr /\ x - f + 1 = i
        BY <1>1, <2>1 DEF Addr
  <2>3. v.mem[x] = Erased
        BY <2>2
  <2>4. w.mem[x] = Programmed(v.mem[x], data[x - f + 1])
        BY <1>5, <2>2 DEF WithData
  <2>5. QED
        BY <2>1, <2>2, <2>3, <2>4 DEF Programmed
<1>7. ASSUME NEW x \in Addr, x < f \/ f + Len(data) <= x
      PROVE  w.mem[x] = v.mem[x]
  <2>1. x \notin f .. f + Len(data) - 1
        BY <1>1, <1>7 DEF Addr
  <2>2. QED
        BY <1>5, <2>1 DEF WithData
<1>8. QED
      BY <1>3, <1>5, <1>6, <1>7, Zenon

\* An update that goes on behind the last one succeeds while nothing fails.
LEMMA CleanUpdate ==
    ASSUME NEW n \in Flash, n.faults = MaxFaults, NEW id \in ImageId, TempBase[id] # 0,
           NEW offset \in Nat, NEW rest \in Nat,
           NEW data \in Seq(Content), data # << >>, Len(data) <= SECTOR, Len(data) % WORD = 0,
           offset + Len(data) <= TempSize[id],
           offset = 0 => \E m \in Image : data[1] = <<m, 0>> /\ Total[m] <= TempSize[id],
           NEW f, f = StartAddr(id, offset, rest), Upper(f + Len(data)) <= FlashSize,
           Blank(n, f), SentReady(offset, data) = {},
           NEW o \in dfu_update(n, id, offset, rest, data)
    PROVE  o.ok = TRUE /\ Grown(o.nor, n, f, data)
<1>1. f \in Nat /\ Len(data) \in Nat /\ Len(data) \in 1 .. SECTOR
  <2>1. TempBase[id] + offset + rest \in Nat
        BY ImageAssumption
  <2>2. f \in Nat
        BY <2>1, WrapType DEF StartAddr
  <2>3. QED
        BY <2>2, FlashAssumption
<1>0. PICK length \in 1 .. SECTOR : length = Len(data)
      BY <1>1
<1>16. PICK erased : erased = EraseAhead(n, f, length)
       OBVIOUS
<1> DEFINE wrote == UNION {dfu_write(e.nor, f, data, {}) : e \in {x \in erased : x.ok}}
<1>17. Upper(f + length) <= FlashSize
       BY <1>0
<1>18. \E v \in Flash : EraseAhead(n, f, length) = {Done(v)} /\ BlankFrom(v, n, f, length)
       BY <1>1, <1>17, CleanErase
<1>2. PICK v \in Flash :
             /\ erased = {Done(v)} /\ v.bp = FALSE /\ v.faults = MaxFaults
             /\ v.ready \subseteq n.ready
             /\ \A x \in f .. Upper(f + Len(data)) - 1 : v.mem[x] = Erased
             /\ \A x \in Addr : x < f \/ Upper(f + Len(data)) <= x => v.mem[x] = n.mem[x]
             /\ \A x \in v.ready : x < f \/ Upper(f + Len(data)) <= x
      BY <1>0, <1>16, <1>18 DEF BlankFrom
<1>3. PICK e, u : e = f + Len(data) /\ u = Upper(f + Len(data))
      OBVIOUS
<1>4. e \in Nat /\ u \in Nat /\ e <= u /\ u <= FlashSize /\ FlashSize \in Nat
  <2>1. e \in Nat
        BY <1>1, <1>3
  <2>2. QED
        BY <1>3, <2>1, UpperIs, FlashAssumption
<1>5. \A x \in f .. f + length - 1 : v.mem[x] = Erased /\ x \notin v.ready
  <2> SUFFICES ASSUME NEW x \in f .. f + length - 1
               PROVE  v.mem[x] = Erased /\ x \notin v.ready
      OBVIOUS
  <2>4. e = f + length /\ length \in Nat
        BY <1>0, <1>3
  <2>0. x \in Nat /\ f <= x /\ x < e
        BY <1>1, <1>4, <2>4
  <2>1. x \in f .. u - 1 /\ ~(x < f) /\ ~(u <= x)
        BY <1>1, <1>4, <2>0
  <2>2. QED
        BY <1>2, <1>3, <2>1
<1>6. PICK w \in Flash :
             /\ dfu_write(v, f, data, {}) = {Done(w)}
             /\ w.bp = FALSE /\ w.faults = MaxFaults /\ w.ready = v.ready
             /\ \A i \in 1 .. Len(data) : w.mem[f + i - 1] = data[i]
             /\ \A x \in Addr : x < f \/ f + Len(data) <= x => w.mem[x] = v.mem[x]
  <2>1. f + Len(data) <= FlashSize
        BY <1>3, <1>4
  <2>2. QED
        BY <1>0, <1>1, <1>2, <1>5, <2>1, CleanWritten, Zenon
<1>7. wrote = {Done(w)}
  <2>1. {x \in erased : x.ok} = {Done(v)} /\ Done(v).nor = v
        BY <1>2 DEF Done
  <2>2. QED
        BY <1>6, <2>1
<1> HIDE DEF wrote
<1>8. o = [Done(w) EXCEPT !.nor = lock_flash_bp(@)]
  <2>1. Len(data) % WORD = 0
        OBVIOUS
  <2>2. check_dfu_update_image_length(id, offset, data) = {TRUE}
    <3>1. PICK size : size = TempSize[id]
          OBVIOUS
    <3>2. (offset + Len(data)) % Wrap <= size
      <4>1. PICK end \in Nat : end = offset + Len(data)
            BY <1>1
      <4>2. end <= size
            BY <3>1, <4>1
      <4>3. end % Wrap = end
        <5>1. PICK base \in Nat : base + size <= FlashSize /\ size \in Nat
              BY <3>1, ImageAssumption
        <5>2. FlashSize < Wrap /\ Wrap \in Nat
              BY ImageAssumption
        <5>3. end < Wrap
              BY <4>1, <4>2, <5>1, <5>2, FlashAssumption
        <5>4. QED
              BY <5>3, NoWrap
      <4>4. QED
            BY <4>1, <4>2, <4>3
    <3>3. CASE offset # 0
          BY <3>1, <3>2, <3>3 DEF check_dfu_update_image_length
    <3>4. CASE offset = 0
      <4>1. PICK m \in Image : data[1] = <<m, 0>> /\ Total[m] <= size
            BY <3>1, <3>4
      <4>2. data[1] \in Image \X {0} /\ data[1][1] = m
            BY <4>1
      <4>3. HeaderFits(data, size) = {TRUE}
            BY <4>1, <4>2 DEF HeaderFits
      <4>4. QED
            BY <3>1, <3>2, <3>4, <4>3 DEF check_dfu_update_image_length
    <3>5. QED
          BY <3>3, <3>4
  <2>3. dfu_update(n, id, offset, rest, data)
          = {x \in erased : ~x.ok} \cup {[x EXCEPT !.nor = lock_flash_bp(@)] : x \in wrote}
    <3>1. ~Refused(id, data)
          BY <2>1 DEF Refused
    <3> DEFINE left == {x \in erased : ~x.ok} \cup {[x EXCEPT !.nor = lock_flash_bp(@)] : x \in wrote}
    <3>2. dfu_update(n, id, offset, rest, data)
            = UNION {IF fits THEN left ELSE {Failed(n)} : fits \in {TRUE}}
          BY <1>0, <1>16, <2>2, <3>1 DEF dfu_update, wrote
    <3> HIDE DEF left
    <3>3. UNION {IF fits THEN left ELSE {Failed(n)} : fits \in {TRUE}} = left
          OBVIOUS
    <3>4. QED
          BY <3>2, <3>3 DEF left
  <2>4. {x \in erased : ~x.ok} = {}
        BY <1>2 DEF Done
  <2>5. QED
        BY <1>7, <2>3, <2>4
<1>9. o.ok = TRUE /\ o.nor = lock_flash_bp(w)
      BY <1>8 DEF Done
<1>10. /\ o.nor \in Flash /\ o.nor.bp = TRUE /\ o.nor.faults = n.faults
       /\ o.nor.mem = w.mem /\ o.nor.ready = w.ready
       BY <1>6, <1>9 DEF lock_flash_bp, Flash
<1>11. \A x \in e .. u - 1 : w.mem[x] = Erased
  <2> SUFFICES ASSUME NEW x \in e .. u - 1
               PROVE  w.mem[x] = Erased
      OBVIOUS
  <2>0. f <= e
        BY <1>1, <1>3
  <2>1. x \in Addr /\ e <= x /\ x \in f .. u - 1
        BY <1>1, <1>4, <2>0 DEF Addr
  <2>2. v.mem[x] = Erased
        BY <1>2, <1>3, <2>1
  <2>3. QED
        BY <1>3, <1>6, <2>1, <2>2
<1>12. \A x \in Addr : x < f \/ u <= x => w.mem[x] = n.mem[x]
  <2> SUFFICES ASSUME NEW x \in Addr, x < f \/ u <= x
               PROVE  w.mem[x] = n.mem[x]
      OBVIOUS
  <2>1. x < f \/ e <= x
        BY <1>4 DEF Addr
  <2>2. QED
        BY <1>2, <1>3, <1>6, <2>1
<1>13. \A x \in w.ready : x < Upper(f) \/ u <= x
  <2> SUFFICES ASSUME NEW x \in w.ready
               PROVE  x < Upper(f) \/ u <= x
      OBVIOUS
  <2>1. x \in Nat /\ (x < f \/ u <= x)
        BY <1>2, <1>3, <1>6 DEF Flash, Addr
  <2>2. f <= Upper(f) /\ Upper(f) \in Nat
        BY <1>1, UpperIs
  <2>3. QED
        BY <1>1, <1>4, <2>1, <2>2
<1>14. w.ready \subseteq n.ready
       BY <1>2, <1>6
<1>15. QED
       BY <1>3, <1>6, <1>9, <1>10, <1>11, <1>12, <1>13, <1>14 DEF Grown

\* A write that was cut short changed some of its cells.
LEMMA WrittenWithin ==
    ASSUME NEW v \in Flash, NEW f \in Nat, NEW data \in Seq(Content), NEW u,
           Written(u, v, f, data, {})
    PROVE  /\ u \in Flash /\ u.ready = v.ready
           /\ \A x \in Addr : x < f \/ f + Len(data) <= x => u.mem[x] = v.mem[x]
<1>1. PICK length \in Nat : length = Len(data)
      OBVIOUS
<1>2. /\ u \in Flash /\ u.ready = v.ready
      /\ \E k \in 0 .. length : \/ u.mem = WithData(v.mem, f, data, k)
                               \/ /\ k < length
                                  /\ u.mem = [WithData(v.mem, f, data, k) EXCEPT ![f + k] = Torn]
      BY <1>1 DEF Written, HeadersAt
<1>3. PICK k \in 0 .. length : \/ u.mem = WithData(v.mem, f, data, k)
                              \/ /\ k < length
                                 /\ u.mem = [WithData(v.mem, f, data, k) EXCEPT ![f + k] = Torn]
      BY <1>2
<1>4. ASSUME NEW x \in Addr, x < f \/ f + length <= x
      PROVE  u.mem[x] = v.mem[x]
  <2>1. x \in Nat
        BY DEF Addr
  <2>2. x \notin f .. f + k - 1 /\ (k < length => x # f + k)
        BY <1>1, <1>4, <2>1
  <2>3. WithData(v.mem, f, data, k)[x] = v.mem[x]
        BY <2>2 DEF WithData
  <2>4. CASE u.mem = WithData(v.mem, f, data, k)
        BY <2>3, <2>4
  <2>5. CASE k < length /\ u.mem = [WithData(v.mem, f, data, k) EXCEPT ![f + k] = Torn]
    <3>1. x # f + k
          BY <2>2, <2>5
    <3>2. u.mem[x] = WithData(v.mem, f, data, k)[x]
          BY <2>5, <3>1 DEF WithData
    <3>3. QED
          BY <2>3, <3>2
  <2>6. QED
        BY <1>3, <2>4, <2>5
<1>5. QED
      BY <1>1, <1>2, <1>4

\* Unlocking changes neither content nor faults.
LEMMA Opened ==
    ASSUME NEW n \in Flash
    PROVE  /\ unlock_flash_bp_all(n) \in Flash
           /\ unlock_flash_bp_all(n).mem = n.mem /\ unlock_flash_bp_all(n).ready = n.ready
           /\ unlock_flash_bp_all(n).faults = n.faults
<1>1. unlock_flash_bp_all(n).faults = n.faults
      BY DEF unlock_flash_bp_all, Flash
<1>2. QED
      BY <1>1, OpenAlike

\* An erase that is cut short touches the sector that the data enters.
LEMMA EraseTouches ==
    ASSUME NEW n \in Flash, NEW f \in Nat, NEW length \in 1 .. SECTOR,
           Upper(f + length) <= FlashSize,
           NEW a \in SectorToErase(f, length), NEW u \in HalfErased(unlock_flash_bp_all(n), a)
    PROVE  Touched(u, n, f, length)
<1>1. /\ SECTOR \in Nat \ {0} /\ FlashSize \in Nat /\ length \in Nat
      /\ Upper(f) \in Nat /\ Upper(f) % SECTOR = 0 /\ f <= Upper(f)
      /\ Upper(f + length) \in Nat /\ f + length <= Upper(f + length)
  <2>1. SECTOR \in Nat \ {0} /\ FlashSize \in Nat /\ length \in Nat
        BY FlashAssumption
  <2>2. f + length \in Nat
        BY <2>1
  <2>3. QED
        BY <2>1, <2>2, UpperIs
<1>2. PICK open : open = unlock_flash_bp_all(n)
      OBVIOUS
<1>3. open \in Flash /\ open.mem = n.mem /\ open.ready = n.ready
      BY <1>2, Opened
<1>4. CASE u = open
      BY <1>3, <1>4 DEF Touched
<1>5. CASE u = SectorSet(open, a, Torn)
  <2>1. f + length < Wrap
    <3>1. FlashSize < Wrap /\ Wrap \in Nat
          BY ImageAssumption
    <3>2. QED
          BY <1>1, <3>1
  <2>2. PICK s \in Nat : s = Upper(f)
        BY <1>1
  <2>3. a = s /\ Upper(f + length) = s + SECTOR
        BY <2>1, <2>2, UpperStep
  <2>4. u.mem = WithSector(n.mem, s, Torn) /\ u.ready = n.ready \ SectorOf(s)
    <3>1. Torn \in Content
          BY DEF Content
    <3>2. QED
          BY <1>3, <1>5, <2>3, <3>1, SectorSetType
  <2>5. SectorOf(s) = {x \in Addr : s <= x /\ x < s + SECTOR}
        BY <1>1, <2>2, SectorIs
  <2>6. ASSUME NEW x \in Addr, x < f \/ s + SECTOR <= x
        PROVE  u.mem[x] = n.mem[x]
    <3>1. x \in Nat
          BY DEF Addr
    <3>2. ~(s <= x /\ x < s + SECTOR)
          BY <1>1, <2>2, <2>6, <3>1
    <3>3. x \notin SectorOf(s)
          BY <2>5, <3>2
    <3>4. QED
          BY <2>4, <3>3 DEF WithSector
  <2>7. ASSUME NEW x \in u.ready
        PROVE  x < s \/ s + SECTOR <= x
    <3>1. x \in Addr /\ x \notin SectorOf(s)
          BY <2>4, <2>7 DEF Flash
    <3>2. x \in Nat /\ ~(s <= x /\ x < s + SECTOR)
          BY <2>5, <3>1 DEF Addr
    <3>3. QED
          BY <1>1, <3>2
  <2>8. u.ready \subseteq n.ready
        BY <2>4
  <2>9. QED
        BY <2>2, <2>3, <2>6, <2>7, <2>8 DEF Touched
<1>6. QED
      BY <1>2, <1>4, <1>5 DEF HalfErased

\* What is written to blank cells touches no more.
LEMMA WriteTouches ==
    ASSUME NEW n \in Flash, NEW v \in Flash, NEW f \in Nat, NEW length \in Nat,
           BlankFrom(v, n, f, length),
           NEW u, u.ready = v.ready,
           \A x \in Addr : x < f \/ f + length <= x => u.mem[x] = v.mem[x]
    PROVE  Touched(u, n, f, length)
<1>1. PICK end \in Nat : end = f + length
      OBVIOUS
<1>2. PICK top \in Nat : top = Upper(end) /\ end <= top
      BY UpperIs
<1>3. PICK low \in Nat : low = Upper(f) /\ f <= low
      BY UpperIs
<1>4. /\ v.ready \subseteq n.ready
      /\ \A x \in Addr : x < f \/ top <= x => v.mem[x] = n.mem[x]
      /\ \A x \in v.ready : x < f \/ top <= x
      BY <1>1, <1>2 DEF BlankFrom
<1>5. ASSUME NEW x \in Addr, x < f \/ top <= x
      PROVE  u.mem[x] = n.mem[x]
  <2>1. x \in Nat
        BY DEF Addr
  <2>2. x < f \/ end <= x
        BY <1>2, <1>5, <2>1
  <2>3. QED
        BY <1>1, <1>4, <1>5, <2>2
<1>6. ASSUME NEW x \in u.ready
      PROVE  x < low \/ top <= x
  <2>1. x \in v.ready /\ x \in Nat
        BY <1>6 DEF Flash, Addr
  <2>2. x < f \/ top <= x
        BY <1>4, <2>1
  <2>3. QED
        BY <1>3, <2>1, <2>2
<1>7. QED
      BY <1>1, <1>2, <1>3, <1>4, <1>5, <1>6 DEF Touched

\* An update that goes on behind the last one and is cut short touches no more
\* than one that comes to its end.
LEMMA CutTouches ==
    ASSUME NEW n \in Flash, n.faults = MaxFaults, NEW id, NEW offset, NEW rest,
           NEW data \in Seq(Content), NEW length \in 1 .. SECTOR, length = Len(data),
           NEW f \in Nat, f = StartAddr(id, offset, rest), Upper(f + length) <= FlashSize,
           Blank(n, f), SentReady(offset, data) = {},
           NEW u \in UpdateCut(n, id, offset, rest, data)
    PROVE  Touched(u, n, f, length) /\ u \in Flash /\ u.faults = n.faults
<1>1. CASE \E a \in SectorToErase(f, length) : u \in HalfErased(unlock_flash_bp_all(n), a)
  <2>1. Touched(u, n, f, length)
        BY <1>1, EraseTouches
  <2>2. u \in Flash /\ u.faults = n.faults
        BY <1>1, Opened, HalfErasedType
  <2>3. QED
        BY <2>1, <2>2
<1>2. CASE \E e \in EraseAhead(n, f, length) : e.ok /\ u \in HalfWritten(e.nor, f, data, {})
  <2>1. PICK v \in Flash : EraseAhead(n, f, length) = {Done(v)} /\ BlankFrom(v, n, f, length)
    <3>1. \E v \in Flash : EraseAhead(n, f, length) = {Done(v)} /\ BlankFrom(v, n, f, length)
          BY CleanErase
    <3>2. QED
          BY <3>1
  <2>2. u \in HalfWritten(v, f, data, {})
        BY <1>2, <2>1 DEF Done
  <2>3. Written(u, v, f, data, {}) /\ u.faults = v.faults
        BY <2>2, HalfWrittenType
  <2>4. /\ u \in Flash /\ u.ready = v.ready
        /\ \A x \in Addr : x < f \/ f + length <= x => u.mem[x] = v.mem[x]
        BY <2>3, WrittenWithin
  <2>5. v.faults = MaxFaults
        BY <2>1 DEF BlankFrom
  <2>6. length \in Nat
        BY FlashAssumption
  <2>7. Touched(u, n, f, length)
        BY <2>1, <2>4, <2>6, WriteTouches
  <2>8. QED
        BY <2>3, <2>4, <2>5, <2>7
<1>3. \/ \E a \in SectorToErase(f, length) : u \in HalfErased(unlock_flash_bp_all(n), a)
      \/ \E e \in EraseAhead(n, f, length) : e.ok /\ u \in HalfWritten(e.nor, f, data, {})
  <2>1. \/ \E a \in SectorToErase(f, Len(data)) : u \in HalfErased(unlock_flash_bp_all(n), a)
        \/ \E e \in EraseAhead(n, f, Len(data)) :
             e.ok /\ u \in HalfWritten(e.nor, f, data, SentReady(offset, data))
        BY CutCases, Zenon
  <2>2. QED
        BY <2>1
<1>4. QED
      BY <1>1, <1>2, <1>3
-----------------------------------------------------------------------------
(* The frontier: what is written, what is blank, what may be ready.        *)

\* The cells of the images up to f stand in the bank, the rest of the sector of
\* f is blank, and no header before it is ready.
Laid(n, f) ==
    /\ \A j \in 1 .. Len(Plan) : \A i \in 0 .. Total[Plan[j]] - 1 :
           Place(j) + i < f => n.mem[Place(j) + i] = <<Plan[j], i>>
    /\ \A x \in f .. Upper(f) - 1 : n.mem[x] = Erased
    /\ \A a \in n.ready : a \in Area => Upper(f) <= a

\* What is ready is whole, and an image that does not start in the bank has no
\* part of it.
BankReady(n) ==
    \A a \in n.ready : \E m \in Image :
        /\ IntactAt(n, m, a)
        /\ a \in Area \/ \A i \in 0 .. Total[m] - 1 : a + i \notin Area

\* Nothing fails, the device can tell what it receives, images are packed as not
\* ready, and those of each client share one bank.  What an earlier update left is whole and starts in
\* that bank or has no part of it.
OldWhole == \A m \in DOMAIN OldImage :
                /\ OldImage[m] + Total[m] <= FlashSize
                /\ \A l \in DOMAIN OldImage \ {m} : \/ OldImage[m] + Total[m] <= OldImage[l]
                                                    \/ OldImage[l] + Total[l] <= OldImage[m]
                /\ \A c \in Clients : LET bank == Bank(IdOf[c.plan[1]]) IN
                       \/ OldImage[m] \in bank
                       \/ \A i \in 0 .. Total[m] - 1 : OldImage[m] + i \notin bank

\* Images and packets are a whole number of words, as dfu_update wants it.
WholeWords == /\ \A m \in Image : Total[m] % WORD = 0
              /\ \A c \in Clients : \A length \in c.chunks : length % WORD = 0

Steady == /\ Sizes /\ ~BankSwitch /\ WholeWords /\ Patient /\ Released = {}
          /\ \A c \in Clients : /\ c.faults = 0
                                /\ (c.checked /\ ~c.missed) \/ c.bad = 0
                                /\ OneBank(c.plan)
          /\ OldWhole

\* The layout, for the image that is sent.
LEMMA SentPlace ==
    ASSUME Shape, Steady
    PROVE  /\ current.k \in 1 .. Len(Plan) /\ Img = Plan[current.k] /\ Id = IdOf[Img]
           /\ Img \in Image /\ Total[Img] \in Nat \ {0} /\ Total[Img] <= Size
           /\ Id \in ImageId \ {NoId} /\ TempBase[Id] = Base /\ TempSize[Id] = Size
           /\ Place(current.k) \in Nat /\ Place(current.k) = Base + Offsets(Plan)[current.k]
           /\ Offsets(Plan)[current.k] \in Nat
           /\ Base \in Nat \ {0} /\ Size \in Nat /\ Base + Size <= FlashSize /\ FlashSize \in Nat
           /\ Base <= Place(current.k) /\ Place(current.k) + Total[Img] <= Base + Size
           /\ \A f \in Nat : f <= Base + Size => Upper(f) <= Base + Size /\ Upper(f) \in Nat /\ f <= Upper(f)
<1>1. /\ current.k \in 1 .. Len(Plan) /\ Img = Plan[current.k] /\ Id = IdOf[Img]
      BY DEF Shape, Img, Id
<1>2. ~BankSwitch /\ \A c \in Clients : OneBank(c.plan)
      BY DEF Steady
<1>3. /\ Plan[current.k] \in Image /\ Total[Plan[current.k]] \in Nat \ {0} /\ Total[Plan[current.k]] <= Size
      /\ IdOf[Plan[current.k]] \in ImageId \ {NoId}
      /\ TempBase[IdOf[Plan[current.k]]] = Base /\ TempSize[IdOf[Plan[current.k]]] = Size
      /\ Offsets(Plan)[current.k] \in Nat /\ Place(current.k) \in Nat
      /\ Base <= Place(current.k) /\ Behind(current.k) <= Base + Size
      /\ Base \in Nat \ {0} /\ Size \in Nat /\ Base + Size <= FlashSize /\ (Base + Size) % SECTOR = 0
      BY <1>1, <1>2, Layout
<1>4. ASSUME NEW f \in Nat, f <= Base + Size
      PROVE  Upper(f) <= Base + Size /\ Upper(f) \in Nat /\ f <= Upper(f)
  <2>1. Base + Size \in Nat
        BY <1>3
  <2>2. QED
        BY <1>3, <1>4, <2>1, UpperIs
<1>5. Place(current.k) = Base + Offsets(Plan)[current.k] /\ Behind(current.k) = Place(current.k) + Total[Img]
      BY <1>1 DEF Place, Behind
<1>6. QED
      BY <1>1, <1>3, <1>4, <1>5, FlashAssumption

\* The next cells of the image move the frontier.
LEMMA GrownLaid ==
    ASSUME Shape, Steady, NEW n \in Flash, NEW w, NEW c \in Nat, NEW length \in Nat,
           NEW f, f = Place(current.k) + c, c + length <= Total[Img],
           Laid(n, f), Grown(w, n, f, Cells(Img, c, length))
    PROVE  Laid(w, f + length)
<1>1. PICK e, u : e = f + length /\ u = Upper(f + length)
      OBVIOUS
<1>8. PICK p, t, top : p = Place(current.k) /\ t = Total[Img] /\ top = Base + Size
      OBVIOUS
<1>9. /\ Base \in Nat /\ Size \in Nat /\ top <= FlashSize /\ FlashSize \in Nat
      /\ p \in Nat /\ t \in Nat /\ Base <= p /\ p + t <= top /\ top \in Nat
  <2>1. Base \in Nat /\ Size \in Nat /\ FlashSize \in Nat /\ Base + Size <= FlashSize
        BY SentPlace
  <2>2. Place(current.k) \in Nat /\ Total[Img] \in Nat /\ Base <= Place(current.k)
        /\ Place(current.k) + Total[Img] <= Base + Size
        BY SentPlace
  <2>3. QED
        BY <1>8, <2>1, <2>2
<1>12. \A g \in Nat : g <= top => Upper(g) <= top /\ Upper(g) \in Nat /\ g <= Upper(g)
  <2>1. \A g \in Nat : g <= Base + Size => Upper(g) <= Base + Size /\ Upper(g) \in Nat /\ g <= Upper(g)
        BY SentPlace
  <2>2. QED
        BY <1>8, <2>1
<1>10. f = p + c /\ c + length <= t
       BY <1>8
<1>11. f \in Nat /\ e \in Nat /\ e <= top /\ f <= top /\ Base <= f
       BY <1>1, <1>9, <1>10
<1>2. /\ Base \in Nat /\ Size \in Nat /\ top <= FlashSize /\ FlashSize \in Nat
      /\ f \in Nat /\ e \in Nat /\ u \in Nat /\ e <= u /\ u <= top /\ Base <= f
      /\ Upper(f) \in Nat /\ f <= Upper(f) /\ t \in Nat /\ p \in Nat /\ e = f + length
      /\ top \in Nat
      BY <1>1, <1>9, <1>11, <1>12
<1>3. /\ Len(Cells(Img, c, length)) = length
      /\ \A i \in 1 .. length : Cells(Img, c, length)[i] = <<Img, c + i - 1>>
      BY CellsAt
<1>4. /\ \A i \in 1 .. length : w.mem[f + i - 1] = <<Img, c + i - 1>>
      /\ \A x \in e .. u - 1 : w.mem[x] = Erased
      /\ \A x \in Addr : x < f \/ u <= x => w.mem[x] = n.mem[x]
      /\ w.ready \subseteq n.ready
      /\ \A x \in w.ready : x < Upper(f) \/ u <= x
      BY <1>1, <1>3 DEF Grown
<1>5. ASSUME NEW j \in 1 .. Len(Plan), NEW i \in 0 .. Total[Plan[j]] - 1, Place(j) + i < e
      PROVE  w.mem[Place(j) + i] = <<Plan[j], i>>
  <2>1. ~BankSwitch /\ \A cl \in Clients : OneBank(cl.plan)
        BY DEF Steady
  <2>2. /\ Place(j) \in Nat /\ Total[Plan[j]] \in Nat /\ Behind(j) \in Nat
        /\ Behind(j) <= Base + Size
        /\ \A l, m \in 1 .. Len(Plan) : l < m => Behind(l) <= Place(m)
        BY <2>1, Layout
  <2>3. current.k \in 1 .. Len(Plan) /\ Img = Plan[current.k] /\ j \in Nat /\ current.k \in Nat
        BY SentPlace
  <2>4. PICK x, q, s : x = Place(j) + i /\ q = Place(j) /\ s = Behind(j)
        OBVIOUS
  <2>9. /\ s = q + Total[Plan[j]] /\ Behind(current.k) = p + t
        /\ x = q + i /\ q \in Nat /\ s \in Nat /\ s <= top /\ i \in Nat /\ x < s /\ x < e
    <3>1. Behind(j) = Place(j) + Total[Plan[j]] /\ Behind(current.k) = Place(current.k) + Total[Img]
          BY <2>3 DEF Behind
    <3>2. s = q + Total[Plan[j]] /\ Behind(current.k) = p + t
          BY <1>8, <2>4, <3>1
    <3>3. x = q + i /\ q \in Nat /\ s \in Nat /\ s <= top /\ i \in Nat /\ x < e
          BY <1>1, <1>5, <1>8, <2>2, <2>4
    <3>4. QED
          BY <2>2, <3>2, <3>3
  <2>5. x \in Nat /\ x \in Addr
        BY <1>2, <2>9 DEF Addr
  <2>6. CASE x < f
    <3>1. w.mem[x] = n.mem[x]
          BY <1>4, <2>5, <2>6
    <3>2. n.mem[x] = <<Plan[j], i>>
          BY <2>4, <2>6 DEF Laid
    <3>3. QED
          BY <2>4, <3>1, <3>2
  <2>7. CASE ~(x < f)
    <3>7. f <= x
          BY <1>2, <2>5, <2>7
    <3>8. p <= x
          BY <1>2, <1>10, <2>5, <3>7
    <3>1. ~(j < current.k)
      <4>1. j < current.k => Behind(j) <= Place(current.k)
            BY <2>2, <2>3
      <4>2. j < current.k => s <= p
            BY <1>8, <2>4, <4>1
      <4>3. QED
        <5>1. x \in Nat /\ s \in Nat /\ p \in Nat /\ x < s /\ p <= x
              BY <1>2, <2>5, <2>9, <3>8
        <5>2. ~(s <= p)
              BY <5>1
        <5>3. QED
              BY <4>2, <5>2
    <3>2. ~(current.k < j)
      <4>1. current.k < j => Behind(current.k) <= Place(j)
            BY <2>2, <2>3
      <4>2. current.k < j => p + t <= q
            BY <2>4, <2>9, <4>1
      <4>3. /\ x \in Nat /\ q \in Nat /\ p \in Nat /\ t \in Nat /\ i \in Nat
            /\ x = q + i /\ x < p + c + length
            BY <1>2, <1>10, <2>5, <2>9
      <4>4. ~(p + t <= q)
            BY <1>10, <4>3
      <4>5. QED
            BY <4>2, <4>4
    <3>3. j = current.k
          BY <2>3, <3>1, <3>2
    <3>6. q = p
          BY <1>8, <2>4, <3>3
    <3>4. i - c + 1 \in 1 .. length /\ f + (i - c + 1) - 1 = x /\ c + (i - c + 1) - 1 = i
      <4>1. x = p + i /\ e = p + c + length /\ x < e
            BY <1>2, <1>10, <2>9, <3>6
      <4>2. c <= i /\ i < c + length
        <5>1. p \in Nat /\ i \in Nat /\ p + c <= x
              BY <1>2, <1>10, <2>9, <3>7
        <5>2. QED
              BY <4>1, <5>1
      <4>3. QED
        <5>1. PICK r : r = i - c + 1
              OBVIOUS
        <5>2. p \in Nat /\ i \in Nat /\ f = p + c
              BY <1>2, <1>10, <2>9
        <5>3. r \in 1 .. length
              BY <4>2, <5>1, <5>2
        <5>4. f + r - 1 = x /\ c + r - 1 = i
              BY <4>1, <5>1, <5>2
        <5>5. QED
              BY <5>1, <5>3, <5>4
    <3>5. QED
          BY <1>4, <2>3, <2>4, <3>3, <3>4
  <2>8. QED
        BY <2>6, <2>7
<1>6. ASSUME NEW a \in w.ready, a \in Area
      PROVE  u <= a
  <2>1. a \in n.ready /\ (a < Upper(f) \/ u <= a)
        BY <1>4, <1>6
  <2>2. Upper(f) <= a
        BY <1>6, <2>1 DEF Laid
  <2>3. a \in Nat
        BY <1>2, <1>6 DEF Area
  <2>4. QED
        BY <1>2, <2>1, <2>2, <2>3
<1>7. QED
      BY <1>1, <1>4, <1>5, <1>6 DEF Laid
\* Where the next cells of the image go is blank, up to the end of a sector.
LEMMA NextPlace ==
    ASSUME Shape, Steady, NEW n \in Flash, NEW c \in Nat,
           NEW length \in Nat, c + length <= Total[Img],
           NEW f, f = Place(current.k) + c, Laid(n, f)
    PROVE  /\ f \in Nat /\ Upper(f + length) <= FlashSize /\ Blank(n, f)
           /\ f = StartAddr(Id, c, Offsets(Plan)[current.k])
<1>1. PICK rest : rest = Offsets(Plan)[current.k]
      OBVIOUS
<1>2. /\ Id \in ImageId /\ TempBase[Id] = Base /\ Base \in Nat /\ Size \in Nat /\ rest \in Nat
      /\ Total[Img] \in Nat /\ Place(current.k) = Base + rest
      /\ Place(current.k) + Total[Img] <= Base + Size
      /\ Base + Size <= FlashSize /\ FlashSize \in Nat
      BY <1>1, SentPlace
<1>3. f \in Nat /\ f = Base + c + rest /\ Base <= f
      BY <1>2
<1>4. PICK top \in Nat : top = Base + Size
      BY <1>2
<1>5. f <= top /\ f + length <= top /\ f + length \in Nat /\ top <= FlashSize
      BY <1>2, <1>3, <1>4
<1>6. \A g \in Nat : g <= top => Upper(g) <= top /\ Upper(g) \in Nat /\ g <= Upper(g)
  <2>1. \A g \in Nat : g <= Base + Size => Upper(g) <= Base + Size /\ Upper(g) \in Nat /\ g <= Upper(g)
        BY SentPlace
  <2>2. QED
        BY <1>4, <2>1
<1>7. /\ Upper(f) \in Nat /\ Upper(f) <= top /\ f <= Upper(f)
      /\ Upper(f + length) \in Nat /\ Upper(f + length) <= FlashSize
  <2>1. Upper(f + length) \in Nat /\ Upper(f + length) <= top
        BY <1>5, <1>6
  <2>2. QED
        BY <1>2, <1>3, <1>5, <1>6, <2>1
<1>8. Blank(n, f)
  <2> SUFFICES ASSUME NEW x \in f .. Upper(f) - 1
               PROVE  n.mem[x] = Erased /\ x \notin n.ready
      BY DEF Blank
  <2>1. x \in Base .. top - 1 /\ ~(Upper(f) <= x)
        BY <1>2, <1>3, <1>4, <1>7
  <2>2. x \in Area
        BY <1>2, <1>4, <2>1 DEF Area
  <2>3. n.mem[x] = Erased
        BY DEF Laid
  <2>4. \A a \in n.ready : a \in Area => Upper(f) <= a
        BY DEF Laid
  <2>5. QED
        BY <2>1, <2>2, <2>3, <2>4
<1>9. f = StartAddr(Id, c, rest)
  <2>1. FlashSize < Wrap /\ Wrap \in Nat
        BY ImageAssumption
  <2>2. f < Wrap
        BY <1>2, <1>3, <1>5, <2>1
  <2>3. f % Wrap = f
        BY <1>3, <2>2, NoWrap
  <2>4. StartAddr(Id, c, rest) = (Base + c + rest) % Wrap
        BY <1>2 DEF StartAddr
  <2>5. QED
        BY <1>3, <2>3, <2>4
<1>10. QED
       BY <1>1, <1>3, <1>7, <1>8, <1>9

\* They can be written.
LEMMA NextWritten ==
    ASSUME Shape, Steady, NEW n \in Flash, n.faults = MaxFaults, NEW c \in Nat,
           NEW length \in 1 .. SECTOR, length % WORD = 0, c + length <= Total[Img],
           NEW f, f = Place(current.k) + c, Laid(n, f),
           NEW o \in dfu_update(n, Id, c, Offsets(Plan)[current.k], Cells(Img, c, length))
    PROVE  o.ok = TRUE /\ Grown(o.nor, n, f, Cells(Img, c, length))
<1>1. PICK data, rest : data = Cells(Img, c, length) /\ rest = Offsets(Plan)[current.k]
      OBVIOUS
<1>2. /\ Id \in ImageId /\ TempBase[Id] = Base /\ TempSize[Id] = Size /\ Img \in Image
      /\ Base \in Nat /\ Base # 0 /\ Size \in Nat /\ rest \in Nat
      /\ Total[Img] \in Nat /\ Total[Img] <= Size
  <2>1. Id \in ImageId \ {NoId} /\ Base \in Nat \ {0} /\ Total[Img] \in Nat \ {0}
        BY SentPlace
  <2>2. QED
        BY <1>1, <2>1, SentPlace
<1>3. SECTOR \in Nat /\ length \in Nat /\ length # 0 /\ length <= SECTOR
      BY FlashAssumption
<1>4. data \in Seq(Content) /\ Len(data) = length /\ data[1] = <<Img, c>>
  <2>1. data \in Seq(Content) /\ Len(data) = length
        BY <1>1, <1>2, <1>3, CellsType
  <2>2. \A k \in 1 .. length : Cells(Img, c, length)[k] = <<Img, c + k - 1>>
        BY <1>3, CellsAt, Zenon
  <2>3. data[1] = <<Img, c + 1 - 1>>
        BY <1>1, <1>3, <2>2
  <2>4. QED
        BY <2>1, <2>3
<1>5. /\ f \in Nat /\ Upper(f + length) <= FlashSize /\ Blank(n, f)
      /\ f = StartAddr(Id, c, rest)
      BY <1>1, <1>3, NextPlace
<1>6. /\ Len(data) % WORD = 0 /\ TempBase[Id] # 0 /\ data # << >> /\ Len(data) <= SECTOR
      /\ c + Len(data) <= TempSize[Id]
      /\ Upper(f + Len(data)) <= FlashSize
  <2>1. Upper(f + Len(data)) <= FlashSize
        BY <1>4, <1>5
  <2>2. c + Len(data) <= TempSize[Id]
        BY <1>2, <1>3, <1>4
  <2>3. QED
        BY <1>2, <1>3, <1>4, <2>1, <2>2 DEF Steady
<1>7. c = 0 => \E m \in Image : data[1] = <<m, 0>> /\ Total[m] <= TempSize[Id]
      BY <1>2, <1>4
<1>8. SentReady(c, data) = {}
      BY NoneSent, Zenon DEF Steady
<1>9. o \in dfu_update(n, Id, c, rest, data)
      BY <1>1
<1>10. o.ok = TRUE /\ Grown(o.nor, n, f, data)
       BY <1>2, <1>4, <1>5, <1>6, <1>7, <1>8, <1>9, CleanUpdate
<1>11. QED
       BY <1>1, <1>10

\* An update that comes to its end touches nothing else either.
LEMMA GrownTouches ==
    ASSUME NEW n, NEW w, NEW m, NEW c \in Nat, NEW length \in Nat, NEW f,
           Grown(w, n, f, Cells(m, c, length))
    PROVE  Touched(w, n, f, length)
<1>1. Len(Cells(m, c, length)) = length
      BY CellsAt
<1>2. QED
      BY <1>1 DEF Grown, Touched

\* What is before the frontier or outside the bank stays.
LEMMA TouchedSame ==
    ASSUME Shape, Steady, NEW n \in Flash, NEW w, NEW c \in Nat, NEW length \in Nat,
           NEW f, f = Place(current.k) + c, c + length <= Total[Img],
           Touched(w, n, f, length)
    PROVE  \A x \in Addr : x < f \/ x \notin Area => w.mem[x] = n.mem[x]
<1> SUFFICES ASSUME NEW x \in Addr, x < f \/ x \notin Area
             PROVE  w.mem[x] = n.mem[x]
    OBVIOUS
<1>1. PICK e, u, p : e = f + length /\ u = Upper(f + length) /\ p = Place(current.k)
      OBVIOUS
<1>2. /\ Base \in Nat /\ Size \in Nat /\ p \in Nat /\ Total[Img] \in Nat
      /\ Base <= p /\ p + Total[Img] <= Base + Size
      BY <1>1, SentPlace
<1>3. f = p + c /\ f \in Nat /\ e \in Nat /\ e <= Base + Size /\ Base <= f
      BY <1>1, <1>2
<1>4. u \in Nat /\ u <= Base + Size
  <2>1. \A g \in Nat : g <= Base + Size => Upper(g) <= Base + Size /\ Upper(g) \in Nat
        BY SentPlace
  <2>2. QED
        BY <1>1, <1>3, <2>1
<1>6. \A y \in Addr : y < f \/ u <= y => w.mem[y] = n.mem[y]
      BY <1>1 DEF Touched
<1>7. x \in Nat
      BY DEF Addr
<1>8. x < f \/ u <= x
      BY <1>2, <1>3, <1>4, <1>7 DEF Area
<1>9. QED
      BY <1>6, <1>8

\* What is ready stays whole.
LEMMA TouchedReady ==
    ASSUME Shape, Steady, NEW n \in Flash, NEW w, NEW c \in Nat, NEW length \in Nat,
           NEW f, f = Place(current.k) + c, c + length <= Total[Img],
           Laid(n, f), Touched(w, n, f, length), BankReady(n)
    PROVE  BankReady(w)
<1>0. \A x \in Addr : x < f \/ x \notin Area => w.mem[x] = n.mem[x]
      BY TouchedSame
<1>8. CASE w.mem = n.mem
      BY <1>8 DEF Touched, BankReady, IntactAt
<1> SUFFICES ASSUME w.mem # n.mem
             PROVE  BankReady(w)
    BY <1>8
<1> SUFFICES ASSUME NEW a \in w.ready
             PROVE  \E m \in Image : /\ IntactAt(w, m, a)
                                     /\ a \in Area \/ \A i \in 0 .. Total[m] - 1 : a + i \notin Area
    BY DEF BankReady
<1>1. PICK u : u = Upper(f + length)
      OBVIOUS
<1>3. /\ a \in n.ready /\ (a < Upper(f) \/ u <= a)
      /\ \A x \in Addr : x < f \/ u <= x => w.mem[x] = n.mem[x]
      BY <1>1 DEF Touched
<1>4. PICK m \in Image : /\ IntactAt(n, m, a)
                         /\ a \in Area \/ \A i \in 0 .. Total[m] - 1 : a + i \notin Area
      BY <1>3 DEF BankReady
<1>5. ASSUME NEW i \in 0 .. Total[m] - 1
      PROVE  w.mem[a + i] = n.mem[a + i]
  <2>1. PICK x : x = a + i
        OBVIOUS
  <2>2. x \in Addr
        BY <1>4, <2>1 DEF IntactAt
  <2>3. CASE a \in Area
    <3>1. Upper(f) <= a
          BY <1>3, <2>3 DEF Laid
    <3>2. Upper(f) \in Nat /\ u \in Nat /\ a \in Nat /\ i \in Nat
      <4>1. \A g \in Nat : g <= Base + Size => Upper(g) \in Nat
            BY SentPlace
      <4>2. /\ Base \in Nat /\ Size \in Nat /\ Place(current.k) \in Nat /\ Total[Img] \in Nat
            /\ Base <= Place(current.k) /\ Place(current.k) + Total[Img] <= Base + Size
            BY SentPlace
      <4>3. f \in Nat /\ f + length \in Nat /\ f <= Base + Size /\ f + length <= Base + Size
            BY <4>2
      <4>4. a \in Nat
            BY <2>3, <4>2 DEF Area
      <4>5. QED
            BY <1>1, <4>1, <4>3, <4>4
    <3>3. u <= x
          BY <1>3, <2>1, <3>1, <3>2
    <3>4. QED
          BY <1>3, <2>1, <2>2, <3>3
  <2>4. CASE \A j \in 0 .. Total[m] - 1 : a + j \notin Area
    <3>1. x \notin Area
          BY <2>1, <2>4
    <3>2. w.mem[x] = n.mem[x]
          BY <1>0, <2>2, <3>1, Zenon
    <3>3. QED
          BY <2>1, <3>2
  <2>5. QED
        BY <1>4, <2>3, <2>4
<1>6. IntactAt(w, m, a)
      BY <1>4, <1>5 DEF IntactAt
<1>7. QED
      BY <1>4, <1>6
-----------------------------------------------------------------------------
(* The steps of a client that goes on.                                     *)

\* Before its START_DFU is taken, until it sends, while it sends.
Front   == {"enable", "BUFFER_CHECK_EN", "info", "REPORT_TARGET_INFO", "start"}
Started == {"START_DFU", "offset"}
Writing == {"send", "REPORT_BUFFER_CRC"}

\* How a client comes to where it is.
LEMMA Stage ==
    ASSUME SessionInv, Patient, [Next]_vars, Running',
           client' \in Front \cup Started \cup Writing \cup {"VALID_FW", "activate"}
    PROVE  \/ Connect /\ Running /\ client = "off" /\ client' = "enable" /\ current'.k = 1
           \/ /\ Receive /\ Running /\ client = "VALID_FW"
              /\ notif # << >> /\ Head(notif).res = "SUCCESS"
              /\ \/ current.k < Len(Plan) /\ current'.k = current.k + 1 /\ client' = "info"
                 \/ ~(current.k < Len(Plan)) /\ UNCHANGED current /\ client' = "activate"
           \/ /\ Running /\ UNCHANGED current
              /\ \/ client' = client
                 \/ client \in Front /\ client' \in Front
                 \/ Start /\ client = "start" /\ client' = "START_DFU"
                 \/ client \in Started /\ client' \in Started
                 \/ Offset /\ client = "offset" /\ client' = "send"
                 \/ client \in Writing /\ client' \in Writing
                 \/ SendValidFw /\ client = "send" /\ client' = "VALID_FW"
<1>1. current.by \in Clients /\ current \in [by : Clients, k : Nat]
      BY DEF SessionInv, Shape
<1>2. CASE Connect
      BY <1>1, <1>2 DEF Connect, Running
<1>3. CASE Reconnect
      BY <1>1, <1>3 DEF Reconnect, Patient, Front, Started, Writing
<1>4. CASE Enable \/ Info \/ SendPacket \/ SendRest \/ SendBufferCrc
      BY <1>4 DEF Enable, Info, SendPacket, SendRest, SendBufferCrc, At, GoTo, Front, Writing
<1>5. CASE Start
      BY <1>5 DEF Start, At, GoTo
<1>6. CASE Offset
      BY <1>6 DEF Offset, At
<1>7. CASE SendValidFw
      BY <1>7 DEF SendValidFw, At, GoTo
<1>8. CASE SendActiveImageReset \/ SendSystemReset
      BY <1>8 DEF SendActiveImageReset, SendSystemReset, Front, Started, Writing
<1>9. CASE Receive
  <2>1. /\ Running /\ notif # << >> /\ Head(notif).op \in Answers
        /\ Head(notif).op # client => UNCHANGED <<client, current>>
        BY <1>9, Taken DEF Receive, clientVars
  <2>2. CASE Head(notif).op # client
        BY <2>1, <2>2
  <2>3. CASE Head(notif).op = client /\ client # "VALID_FW"
    <3>1. UNCHANGED current
          BY <1>9, <2>3 DEF Receive
    <3>2. /\ client = "BUFFER_CHECK_EN" => client' = "info"
          /\ client = "REPORT_TARGET_INFO" => client' = "start"
          /\ client = "START_DFU" => client' = "offset"
          /\ client = "REPORT_BUFFER_CRC" => client' = "send"
          BY <1>9, <2>3 DEF Receive
    <3>3. QED
          BY <2>1, <2>3, <3>1, <3>2 DEF Answers, Front, Started, Writing
  <2>4. CASE Head(notif).op = client /\ client = "VALID_FW"
    <3>1. client' # "reset"
          BY DEF Front, Started, Writing
    <3>2. Head(notif).res = "SUCCESS"
          BY <1>9, <2>4, <3>1 DEF Receive
    <3>3. /\ client' = IF current.k < Len(Plan) THEN "info" ELSE "activate"
          /\ current' = IF current.k < Len(Plan) THEN [current EXCEPT !.k = @ + 1] ELSE current
          BY <1>9, <2>4, <3>2 DEF Receive
    <3>4. current.k < Len(Plan) => current'.k = current.k + 1
          BY <1>1, <3>3
    <3>5. QED
          BY <1>9, <2>1, <2>4, <3>2, <3>3, <3>4
  <2>5. QED
        BY <2>2, <2>3, <2>4
<1>10. CASE TaskStep
       BY <1>10 DEF TaskStep, TaskCheck, TaskUnlock, TaskSetReady, TaskLock, TaskReport, TaskOnly,
          clientVars, Running
<1>11. CASE DisconnectAll \/ LinkLoss \/ Boot \/ PowerLoss \/ PowerLossInUpdate
            \/ PowerLossInActivation
       BY <1>11 DEF DisconnectAll, Disconnected, dfu_fw_reboot, LinkLoss, Lost, Boot, PowerLoss,
          PowerLossInUpdate, PowerLossInActivation, Running, Front, Started, Writing
<1>12. CASE UNCHANGED vars
       BY <1>12 DEF vars, dfuVars, clientVars, Running
<1>13. QED
       BY <1>2, <1>3, <1>4, <1>5, <1>6, <1>7, <1>8, <1>9, <1>10, <1>11, <1>12
       DEF Next, ClientStep, Over

\* The steps that change the entries of the bank.
LEMMA TempKept ==
    ASSUME [Next]_vars, ~Start, ~TaskReport, ~Boot
    PROVE  UNCHANGED <<temp_image_num, temp_image_info>>
<1>1. ASSUME NEW data, PacketReq(data)
      PROVE  UNCHANGED tempVars
      BY <1>1 DEF PacketReq, PacketIgnored, PacketBuffered, PacketPlain, dfuVars, ramVars
<1>2. CASE SendPacket \/ SendRest
  <2>1. UNCHANGED dfuVars \/ \E data : PacketReq(data)
        BY <1>2 DEF SendPacket, SendRest, Packet
  <2>2. QED
        BY <1>1, <2>1 DEF dfuVars, ramVars, tempVars
<1>3. CASE Connect \/ Reconnect \/ Enable \/ Info \/ Offset
      BY <1>3 DEF Connect, Reconnect, Enable, Info, Offset, BufferCheckEn,
         ReportTargetInfo, ReceiveFwImageInfo, dfuVars, ramVars, tempVars
<1>4. CASE SendBufferCrc \/ SendValidFw \/ SendActiveImageReset \/ SendSystemReset \/ Receive
      BY <1>4 DEF SendBufferCrc, SendValidFw, SendActiveImageReset, SendSystemReset, Receive,
         ReportBufferCrc, ValidFw, ActiveImageReset, SystemReset, ramVars, tempVars
<1>5. CASE TaskCheck \/ TaskUnlock \/ TaskSetReady \/ TaskLock
      BY <1>5 DEF TaskCheck, TaskUnlock, TaskSetReady, TaskLock, tempVars
<1>6. CASE DisconnectAll \/ LinkLoss \/ PowerLoss \/ PowerLossInUpdate \/ PowerLossInActivation
      BY <1>6 DEF DisconnectAll, LinkLoss, PowerLoss, PowerLossInUpdate,
         PowerLossInActivation, ramVars, tempVars
<1>7. CASE UNCHANGED vars
      BY <1>7 DEF vars, dfuVars, ramVars, tempVars
<1>8. QED
      BY <1>2, <1>3, <1>4, <1>5, <1>6, <1>7 DEF Next, ClientStep, TaskStep, Over

\* The steps that change the offset of a client that goes on.
LEMMA OffsetKept ==
    ASSUME [Next]_vars, ~(SendPacket \/ SendRest \/ SendBufferCrc), ~Info, ~Offset, ~Boot
    PROVE  UNCHANGED cur_offset
<1>1. CASE Connect \/ Reconnect \/ Enable \/ Start
      BY <1>1 DEF Connect, Reconnect, Enable, Start, BufferCheckEn, StartDfu, dfuVars, ramVars, sessionVars
<1>2. CASE SendValidFw \/ SendActiveImageReset \/ SendSystemReset \/ Receive
      BY <1>2 DEF SendValidFw, SendActiveImageReset, SendSystemReset, Receive,
         ValidFw, ActiveImageReset, SystemReset, ramVars, sessionVars
<1>3. CASE TaskStep
      BY <1>3 DEF TaskStep, TaskCheck, TaskUnlock, TaskSetReady, TaskLock, TaskReport, TaskOnly, sessionVars
<1>4. CASE DisconnectAll \/ LinkLoss \/ PowerLoss \/ PowerLossInUpdate \/ PowerLossInActivation
      BY <1>4 DEF DisconnectAll, LinkLoss, PowerLoss, PowerLossInUpdate,
         PowerLossInActivation, ramVars, sessionVars
<1>5. CASE UNCHANGED vars
      BY <1>5 DEF vars, dfuVars, ramVars, sessionVars
<1>6. QED
      BY <1>1, <1>2, <1>3, <1>4, <1>5 DEF Next, ClientStep, Over
-----------------------------------------------------------------------------
(* The entries of the bank, and the work of the task.                      *)

\* Entry k - 1 of temp_image_info is that of image k, and the images before it
\* are the ones that are counted; user data has no entry.
Rank(k)  == IF ForUser THEN 0 ELSE k
Entry(k) == [image_id |-> IdOf[Plan[k]], image_size |-> Total[Plan[k]],
             image_offset |-> Offsets(Plan)[k]]

\* The task has one image to validate at most.
JobOK == /\ task \in {"wait", "report"}
         /\ validQueue = 0 \/ (validQueue = 1 /\ task = "wait")

Pending == validQueue > 0 \/ task # "wait"

EntriesOK == /\ temp_image_num \in 0 .. Len(Plan)
             /\ temp_image_info \in [0 .. MaxTemp - 1 ->
                                       [image_id : ImageId, image_size : Nat, image_offset : Nat]]
             /\ \A i \in 0 .. temp_image_num - 1 : temp_image_info[i] = Entry(i + 1)
             /\ ForUser => temp_image_num = 0 /\ temp_image_info[0] = NoEntry

\* The count before an image is validated, and after that.
CountBefore == Running /\ (client \in Front \cup Started \cup Writing \/ Pending) =>
                   temp_image_num = Rank(current.k - 1)
CountAfter == /\ Running /\ client = "off" => temp_image_num = 0
              /\ Running /\ client = "VALID_FW" /\ notif # << >> /\ Head(notif).res = "SUCCESS" =>
                     temp_image_num = Rank(current.k)
              /\ Running /\ client = "activate" =>
                     current.k = Len(Plan) /\ temp_image_num = Rank(current.k)

\* The entry of the image that is sent, and the image id of the last command.
EntryOK == Running /\ (client \in Started \cup Writing \cup {"VALID_FW"} \/ Pending) /\ ~ForUser =>
               temp_image_info[current.k - 1] = Entry(current.k)
NamedOK == Running /\ (client \in {"VALID_FW", "activate"} \/ Pending) => image_id = Id

CountOK == JobOK /\ EntriesOK /\ CountBefore /\ CountAfter /\ EntryOK /\ NamedOK

\* The layout stays.
LEMMA LayoutSame ==
    ASSUME Shape, [Next]_vars
    PROVE  /\ Plan' = Plan /\ Base' = Base /\ Size' = Size /\ Area' = Area
           /\ ForUser' <=> ForUser
           /\ \A k : /\ Place(k)' = Place(k) /\ Behind(k)' = Behind(k)
                     /\ Entry(k)' = Entry(k) /\ Rank(k)' = Rank(k)
<1>1. Plan' = Plan
      BY SamePlan
<1>2. First' = First
      BY <1>1 DEF First
<1>3. Base' = Base /\ Size' = Size
      BY <1>2 DEF Base, Size
<1>4. Area' = Area /\ (ForUser' <=> ForUser)
      BY <1>2, <1>3 DEF Area, ForUser
<1>5. ASSUME NEW k
      PROVE  /\ Place(k)' = Place(k) /\ Behind(k)' = Behind(k)
             /\ Entry(k)' = Entry(k) /\ Rank(k)' = Rank(k)
  <2>1. Place(k)' = Place(k)
        BY <1>1, <1>3 DEF Place
  <2>2. Behind(k)' = Behind(k)
        BY <1>1, <2>1 DEF Behind
  <2>3. Entry(k)' = Entry(k)
        BY <1>1 DEF Entry
  <2>4. Rank(k)' = Rank(k)
        BY <1>4 DEF Rank
  <2>5. QED
        BY <2>1, <2>2, <2>3, <2>4
<1>6. QED
      BY <1>1, <1>3, <1>4, <1>5

\* While it is validated, nothing else is asked for.
LEMMA JobStep ==
    ASSUME SessionInv, Steady, TurnsOK, JobOK, [Next]_vars
    PROVE  JobOK'
<1>1. CASE SendValidFw
  <2>1. validQueue = 0 /\ task = "wait"
        BY <1>1 DEF SendValidFw, At, TurnsOK, InTurn, GivenUp
  <2>2. task' = "wait" /\ validQueue' \in {0, 1}
        BY <1>1, <2>1 DEF SendValidFw
  <2>3. QED
        BY <2>2 DEF JobOK
<1>2. CASE TaskCheck
  <2>1. ~BankSwitch
        BY DEF Steady
  <2>2. task' = "report" /\ validQueue = 1 /\ validQueue' = validQueue - 1
        BY <1>2, <2>1 DEF TaskCheck, JobOK
  <2>3. QED
        BY <2>2 DEF JobOK
<1>3. CASE TaskReport
      BY <1>3 DEF TaskReport, JobOK
<1>4. CASE Boot
      BY <1>4 DEF Boot, TaskReset, JobOK
<1>5. CASE TaskUnlock \/ TaskSetReady \/ TaskLock
      BY <1>5 DEF TaskUnlock, TaskSetReady, TaskLock, JobOK
<1>6. CASE UNCHANGED taskVars
      BY <1>6 DEF taskVars, JobOK
<1>7. CASE UNCHANGED vars
      BY <1>7 DEF vars, taskVars, JobOK
<1>8. \/ UNCHANGED vars \/ UNCHANGED taskVars \/ SendValidFw \/ Boot
      \/ TaskCheck \/ TaskReport \/ TaskUnlock \/ TaskSetReady \/ TaskLock
      BY DEF Next, ClientStep, TaskStep, Over, Connect, Reconnect, Enable, Info, Start, Offset,
         SendPacket, SendRest, SendBufferCrc, SendActiveImageReset, SendSystemReset, Receive,
         Quiet, DisconnectAll, LinkLoss, PowerLoss, PowerLossInUpdate, PowerLossInActivation
<1>9. QED
      BY <1>1, <1>2, <1>3, <1>4, <1>5, <1>6, <1>7, <1>8

\* It comes from VALID_FW, and the task reports it once.
LEMMA PendingStep ==
    ASSUME SessionInv, Steady, TurnsOK, JobOK, [Next]_vars, ~SendValidFw, Running', Pending'
    PROVE  /\ Running /\ Pending /\ UNCHANGED <<current, image_id>>
           /\ client \in GivenUp \cup {"VALID_FW"}
           /\ ~Start /\ ~TaskReport /\ ~Boot
<1>1. Patient
      BY DEF Steady
<1>2. Busy'
      BY DEF Busy, Pending
<1>3. Running /\ UNCHANGED <<current, image_id>> /\ client \in GivenUp \cup {"VALID_FW"}
      BY <1>1, <1>2, BusyStep
<1>4. ~Start /\ ~Boot
      BY <1>3 DEF Start, Boot, At, GivenUp, Running
<1>5. ~TaskReport
  <2> SUFFICES ASSUME TaskReport
               PROVE  FALSE
      OBVIOUS
  <2>1. validQueue' = 0 /\ task' = "wait"
        BY DEF TaskReport, JobOK
  <2>2. QED
        BY <2>1 DEF Pending
<1>6. Pending
  <2>1. CASE TaskCheck
        BY <2>1 DEF TaskCheck, Pending
  <2>2. CASE TaskUnlock \/ TaskSetReady \/ TaskLock
        BY <2>2 DEF TaskUnlock, TaskSetReady, TaskLock, Pending
  <2>3. CASE UNCHANGED <<validQueue, task>>
        BY <2>3 DEF Pending
  <2>4. \/ UNCHANGED <<validQueue, task>>
        \/ TaskCheck \/ TaskUnlock \/ TaskSetReady \/ TaskLock
        BY <1>4, <1>5 DEF Next, ClientStep, TaskStep, Over, Connect, Reconnect, Enable, Info, Start, Offset,
         SendPacket, SendRest, SendBufferCrc, SendActiveImageReset, SendSystemReset, Receive,
         Quiet, DisconnectAll, LinkLoss, PowerLoss, PowerLossInUpdate, PowerLossInActivation,
         taskVars, vars
  <2>5. QED
        BY <2>1, <2>2, <2>3, <2>4
<1>7. QED
      BY <1>3, <1>4, <1>5, <1>6
\* START_DFU fills the entry behind the ones that are counted.
LEMMA StartEntry ==
    ASSUME SessionInv, Steady, CountOK, Start
    PROVE  /\ UNCHANGED temp_image_num /\ image_id' = Id
           /\ ForUser => UNCHANGED temp_image_info
           /\ ~ForUser => /\ temp_image_num = current.k - 1
                          /\ temp_image_info' = [temp_image_info EXCEPT ![current.k - 1] = Entry(current.k)]
<1>1. Shape /\ Running /\ client = "start" /\ StartDfu(Id, Total[Img], TRUE)
      BY DEF SessionInv, Start, At
<1>2. /\ current.k \in 1 .. Len(Plan) /\ Img = Plan[current.k] /\ Id = IdOf[Img]
      /\ Id # NoId /\ current.k \in Nat
  <2>1. Id \in ImageId \ {NoId}
        BY <1>1, SentPlace
  <2>2. QED
        BY <1>1, <2>1, SentPlace
<1>3. ~BankSwitch /\ \A c \in Clients : OneBank(c.plan)
      BY DEF Steady
<1>4. Id \in UserData <=> ForUser
      BY <1>1, <1>2, <1>3, Layout
<1>5. /\ UNCHANGED temp_image_num /\ image_id' = Id
      /\ temp_image_info' =
             IF Id \notin UserData
             THEN [temp_image_info EXCEPT ![temp_image_num] =
                     [image_id |-> Id, image_size |-> Total[Img], image_offset |-> NextOffset]]
             ELSE temp_image_info
      BY <1>1, <1>2, <1>3 DEF StartDfu
<1>6. temp_image_num = Rank(current.k - 1)
      BY <1>1 DEF CountOK, CountBefore, Front
<1>7. ASSUME ~ForUser
      PROVE  temp_image_num = current.k - 1 /\ NextOffset = Offsets(Plan)[current.k]
  <2>1. temp_image_num = current.k - 1
        BY <1>6, <1>7 DEF Rank
  <2>2. CASE current.k = 1
    <3>1. Offsets(Plan)[1] = 0
          BY <1>1, <1>3, Layout
    <3>2. QED
          BY <2>1, <2>2, <3>1 DEF NextOffset
  <2>3. CASE current.k # 1
    <3>1. PICK j : j = current.k - 1
          OBVIOUS
    <3>2. j \in Nat /\ j # 0 /\ j - 1 \in 0 .. temp_image_num - 1 /\ (j - 1) + 1 = j
          BY <1>2, <2>1, <2>3, <3>1
    <3>3. temp_image_info[j - 1] = Entry(j)
      <4>1. \A i \in 0 .. temp_image_num - 1 : temp_image_info[i] = Entry(i + 1)
            BY DEF CountOK, EntriesOK
      <4>2. temp_image_info[j - 1] = Entry((j - 1) + 1)
            BY <3>2, <4>1
      <4>3. QED
            BY <3>2, <4>2
    <3>4. Offsets(Plan)[current.k] = Offsets(Plan)[j] + Total[Plan[j]]
          BY <1>1, <1>2, <1>3, <2>3, <3>1, Layout
    <3>5. NextOffset = temp_image_info[j - 1].image_offset + temp_image_info[j - 1].image_size
          BY <2>1, <3>1, <3>2 DEF NextOffset
    <3>6. QED
          BY <2>1, <3>3, <3>4, <3>5 DEF Entry
  <2>4. QED
        BY <2>2, <2>3
<1>8. QED
      BY <1>2, <1>4, <1>5, <1>7 DEF Entry

\* The report counts the image whose entry is there.
LEMMA ReportCounts ==
    ASSUME SessionInv, Steady, CountOK, TaskReport
    PROVE  /\ UNCHANGED <<temp_image_info, current, image_id, client>> /\ Running /\ Running' /\ Pending
           /\ temp_image_num = Rank(current.k - 1) /\ image_id = Id
           /\ temp_image_num' = IF valid THEN Rank(current.k) ELSE temp_image_num
           /\ ~ForUser => temp_image_info[current.k - 1] = Entry(current.k)
<1>1. /\ Running /\ task = "report" /\ UNCHANGED <<temp_image_info, current, image_id, client, power>>
      /\ temp_image_num' = IF valid /\ ~CheckOwnBank THEN temp_image_num + 1 ELSE temp_image_num
      BY DEF TaskReport, TaskOnly, sessionVars, clientVars
<1>2. Pending
      BY <1>1 DEF Pending
<1>3. /\ temp_image_num = Rank(current.k - 1) /\ image_id = Id
      /\ ~ForUser => temp_image_info[current.k - 1] = Entry(current.k)
      BY <1>1, <1>2 DEF CountOK, CountBefore, EntryOK, NamedOK
<1>4. Shape /\ current.k \in 1 .. Len(Plan) /\ Id = IdOf[Plan[current.k]] /\ current.k \in Nat
  <2>1. Shape
        BY DEF SessionInv
  <2>2. QED
        BY <2>1, SentPlace
<1>5. Id \in UserData <=> ForUser
  <2>1. ~BankSwitch /\ \A c \in Clients : OneBank(c.plan)
        BY DEF Steady
  <2>2. QED
        BY <1>4, <2>1, Layout
<1>6. CheckOwnBank <=> ForUser
      BY <1>3, <1>5 DEF CheckOwnBank, Steady
<1>7. temp_image_num' = IF valid THEN Rank(current.k) ELSE temp_image_num
  <2>1. CASE ForUser
    <3>1. Rank(current.k) = 0 /\ temp_image_num = 0
          BY <1>3, <2>1 DEF Rank
    <3>2. temp_image_num' = temp_image_num
          BY <1>1, <1>6, <2>1, Zenon
    <3>3. QED
          BY <3>1, <3>2
  <2>2. CASE ~ForUser
    <3>1. Rank(current.k) = current.k /\ temp_image_num = current.k - 1
          BY <1>3, <2>2 DEF Rank
    <3>2. temp_image_num' = IF valid THEN temp_image_num + 1 ELSE temp_image_num
          BY <1>1, <1>6, <2>2, Zenon
    <3>3. temp_image_num + 1 = current.k
          BY <1>4, <3>1
    <3>4. QED
          BY <3>1, <3>2, <3>3, Zenon
  <2>3. QED
        BY <2>1, <2>2
<1>8. QED
      BY <1>1, <1>2, <1>3, <1>7 DEF Running

\* Every step keeps the entries of the images that are counted.
LEMMA EntriesStep ==
    ASSUME SessionInv, Steady, CountOK, [Next]_vars
    PROVE  EntriesOK'
<1>1. Shape /\ ~BankSwitch /\ \A c \in Clients : OneBank(c.plan)
      BY DEF SessionInv, Steady
<1>2. Plan' = Plan /\ (ForUser' <=> ForUser) /\ \A k : Entry(k)' = Entry(k)
      BY <1>1, LayoutSame
<1>3. EntriesOK
      BY DEF CountOK
<1>4. /\ Len(Plan) \in Nat \ {0} /\ Len(Plan) < MaxTemp
      /\ current.k \in 1 .. Len(Plan) /\ MaxTemp \in Nat
      BY <1>1, Layout, ServiceAssumption
<1>5. CASE UNCHANGED <<temp_image_num, temp_image_info>>
      BY <1>2, <1>3, <1>5 DEF EntriesOK
<1>6. CASE Boot
  <2>1. temp_image_num' = 0 /\ temp_image_info' = [i \in 0 .. MaxTemp - 1 |-> NoEntry]
        BY <1>6 DEF Boot, RamReset
  <2>2. NoEntry \in [image_id : ImageId, image_size : Nat, image_offset : Nat]
        BY ServiceAssumption DEF NoEntry
  <2>3. QED
        BY <1>2, <1>4, <2>1, <2>2 DEF EntriesOK
<1>7. CASE Start
  <2>1. /\ UNCHANGED temp_image_num
        /\ ForUser => UNCHANGED temp_image_info
        /\ ~ForUser => /\ temp_image_num = current.k - 1
                       /\ temp_image_info' = [temp_image_info EXCEPT ![current.k - 1] = Entry(current.k)]
        BY <1>7, StartEntry
  <2>2. CASE ForUser
        BY <1>5, <2>1, <2>2
  <2>3. CASE ~ForUser
    <3>1. Entry(current.k) \in [image_id : ImageId, image_size : Nat, image_offset : Nat]
      <4>1. /\ IdOf[Plan[current.k]] \in ImageId \ {NoId} /\ Total[Plan[current.k]] \in Nat \ {0}
            /\ Offsets(Plan)[current.k] \in Nat
            BY <1>1, <1>4, Layout
      <4>2. QED
            BY <4>1 DEF Entry
    <3>2. temp_image_info' \in [0 .. MaxTemp - 1 ->
                                  [image_id : ImageId, image_size : Nat, image_offset : Nat]]
          BY <1>3, <1>4, <2>1, <2>3, <3>1 DEF EntriesOK
    <3>3. \A i \in 0 .. temp_image_num - 1 : temp_image_info'[i] = Entry(i + 1)
      <4> SUFFICES ASSUME NEW i \in 0 .. temp_image_num - 1
                   PROVE  temp_image_info'[i] = Entry(i + 1)
          OBVIOUS
      <4>1. i \in 0 .. MaxTemp - 1 /\ i # current.k - 1
            BY <1>4, <2>1, <2>3
      <4>2. temp_image_info'[i] = temp_image_info[i]
            BY <1>3, <2>1, <2>3, <4>1 DEF EntriesOK
      <4>3. QED
            BY <1>3, <4>2 DEF EntriesOK
    <3>4. QED
          BY <1>2, <1>3, <2>1, <2>3, <3>2, <3>3 DEF EntriesOK
  <2>4. QED
        BY <2>2, <2>3
<1>8. CASE TaskReport
  <2>1. /\ UNCHANGED temp_image_info
        /\ temp_image_num = Rank(current.k - 1)
        /\ temp_image_num' = IF valid THEN Rank(current.k) ELSE temp_image_num
        /\ ~ForUser => temp_image_info[current.k - 1] = Entry(current.k)
        BY <1>8, ReportCounts
  <2>2. CASE ForUser \/ ~valid
    <3>1. UNCHANGED temp_image_num
          BY <2>1, <2>2 DEF Rank
    <3>2. QED
          BY <1>5, <2>1, <3>1
  <2>3. CASE ~ForUser /\ valid
    <3>1. temp_image_num = current.k - 1 /\ temp_image_num' = current.k
          BY <2>1, <2>3 DEF Rank
    <3>2. \A i \in 0 .. temp_image_num' - 1 : temp_image_info[i] = Entry(i + 1)
      <4> SUFFICES ASSUME NEW i \in 0 .. temp_image_num' - 1
                   PROVE  temp_image_info[i] = Entry(i + 1)
          OBVIOUS
      <4>1. CASE i = current.k - 1
        <5>1. i + 1 = current.k
              BY <1>4, <4>1
        <5>2. QED
              BY <2>1, <2>3, <4>1, <5>1
      <4>2. CASE i # current.k - 1
        <5>1. i \in 0 .. temp_image_num - 1
              BY <1>4, <3>1, <4>2
        <5>2. QED
              BY <1>3, <5>1 DEF EntriesOK
      <4>3. QED
            BY <4>1, <4>2
    <3>3. UNCHANGED temp_image_info /\ temp_image_num' \in 0 .. Len(Plan)
          BY <1>4, <2>1, <3>1
    <3>4. /\ temp_image_info \in [0 .. MaxTemp - 1 ->
                                    [image_id : ImageId, image_size : Nat, image_offset : Nat]]
          /\ \A i \in 0 .. temp_image_num' - 1 : temp_image_info'[i] = Entry(i + 1)'
          BY <1>2, <1>3, <3>2, <3>3 DEF EntriesOK
    <3>5. QED
          BY <1>2, <2>3, <3>3, <3>4 DEF EntriesOK
  <2>4. QED
        BY <2>2, <2>3
<1>9. QED
      BY <1>5, <1>6, <1>7, <1>8, TempKept
\* The steps that change the image id of the last command.
LEMMA NameKept ==
    ASSUME [Next]_vars, ~Info, ~Start, ~Offset, ~SendValidFw, ~Boot
    PROVE  UNCHANGED image_id
<1>1. ASSUME NEW data, PacketReq(data)
      PROVE  UNCHANGED image_id
      BY <1>1 DEF PacketReq, PacketIgnored, PacketBuffered, PacketPlain, dfuVars, ramVars, sessionVars
<1>2. CASE SendPacket \/ SendRest
  <2>1. UNCHANGED dfuVars \/ \E data : PacketReq(data)
        BY <1>2 DEF SendPacket, SendRest, Packet
  <2>2. QED
        BY <1>1, <2>1 DEF dfuVars, ramVars, sessionVars
<1>3. CASE Connect \/ Reconnect \/ Enable
      BY <1>3 DEF Connect, Reconnect, Enable, BufferCheckEn, dfuVars, ramVars, sessionVars
<1>4. CASE SendBufferCrc \/ SendActiveImageReset \/ SendSystemReset \/ Receive
      BY <1>4 DEF SendBufferCrc, SendActiveImageReset, SendSystemReset, Receive,
         ReportBufferCrc, ActiveImageReset, SystemReset, ramVars, sessionVars
<1>5. CASE TaskStep
      BY <1>5 DEF TaskStep, TaskCheck, TaskUnlock, TaskSetReady, TaskLock, TaskReport, TaskOnly, sessionVars
<1>6. CASE DisconnectAll \/ LinkLoss \/ PowerLoss \/ PowerLossInUpdate \/ PowerLossInActivation
      BY <1>6 DEF DisconnectAll, LinkLoss, PowerLoss, PowerLossInUpdate,
         PowerLossInActivation, ramVars, sessionVars
<1>7. CASE UNCHANGED vars
      BY <1>7 DEF vars, dfuVars, ramVars, sessionVars
<1>8. QED
      BY <1>2, <1>3, <1>4, <1>5, <1>6, <1>7 DEF Next, ClientStep, Over

\* A client that goes on leaves the count to the task.
LEMMA CountKept ==
    ASSUME SessionInv, Steady, TurnsOK, CountOK, [Next]_vars, Running,
           client \notin GivenUp \cup {"VALID_FW"}
    PROVE  UNCHANGED temp_image_num /\ ~TaskReport /\ ~Boot
<1>1. ~Busy
      BY Idle
<1>2. ~TaskReport /\ ~Boot
      BY <1>1 DEF Busy, TaskReport, Boot, Running
<1>3. CASE Start
      BY <1>2, <1>3, StartEntry
<1>4. CASE ~Start
      BY <1>2, <1>4, TempKept
<1>5. QED
      BY <1>2, <1>3, <1>4

\* The count before an image is validated.
LEMMA CountBeforeStep ==
    ASSUME SessionInv, Steady, TurnsOK, CountOK, [Next]_vars
    PROVE  CountBefore'
<1> SUFFICES ASSUME Running', client' \in Front \cup Started \cup Writing \/ Pending'
             PROVE  temp_image_num' = Rank(current.k - 1)'
    BY DEF CountBefore
<1>1. Shape /\ Patient /\ current.k \in Nat
      BY DEF SessionInv, Steady, Shape
<1>2. Rank(current.k - 1)' = IF ForUser THEN 0 ELSE current'.k - 1
      BY <1>1, LayoutSame DEF Rank
<1>3. CASE SendValidFw
  <2>1. client = "send" /\ Running /\ UNCHANGED current
        BY <1>3 DEF SendValidFw, At, GoTo
  <2>2. UNCHANGED temp_image_num
        BY <2>1, CountKept DEF GivenUp
  <2>3. QED
        BY <1>2, <2>1, <2>2 DEF CountOK, CountBefore, Writing, Rank
<1>4. CASE Pending' /\ ~SendValidFw
  <2>1. Running /\ Pending /\ UNCHANGED current /\ ~Start /\ ~TaskReport /\ ~Boot
        BY <1>4, PendingStep DEF CountOK
  <2>2. UNCHANGED temp_image_num
        BY <2>1, TempKept
  <2>3. QED
        BY <1>2, <2>1, <2>2 DEF CountOK, CountBefore, Rank
<1>5. CASE client' \in Front \cup Started \cup Writing /\ ~SendValidFw
  <2>1. CASE Connect /\ Running /\ client = "off" /\ client' = "enable" /\ current'.k = 1
    <3>1. UNCHANGED temp_image_num
          BY <2>1, CountKept DEF GivenUp
    <3>2. QED
          BY <1>2, <2>1, <3>1 DEF CountOK, CountAfter
  <2>2. CASE /\ Receive /\ Running /\ client = "VALID_FW" /\ notif # << >> /\ Head(notif).res = "SUCCESS"
             /\ current'.k = current.k + 1
    <3>1. UNCHANGED temp_image_num
          BY <2>2 DEF Receive, ramVars, tempVars
    <3>2. current'.k - 1 = current.k
          BY <1>1, <2>2
    <3>3. QED
          BY <1>2, <2>2, <3>1, <3>2 DEF CountOK, CountAfter, Rank
  <2>3. CASE /\ Running /\ UNCHANGED current
             /\ client \in Front \cup Started \cup Writing
    <3>1. UNCHANGED temp_image_num
          BY <2>3, CountKept DEF GivenUp, Front, Started, Writing
    <3>2. QED
          BY <1>2, <2>3, <3>1 DEF CountOK, CountBefore, Rank
  <2>4. "activate" \notin Front \cup Started \cup Writing
        BY DEF Front, Started, Writing
  <2>5. QED
        BY <1>1, <1>5, <2>1, <2>2, <2>3, <2>4, Stage DEF Front, Started, Writing
<1>6. QED
      BY <1>3, <1>4, <1>5

\* The count after that.
LEMMA CountAfterStep ==
    ASSUME SessionInv, Steady, TurnsOK, CountOK, [Next]_vars
    PROVE  CountAfter'
<1>1. Shape /\ Patient /\ JobOK
      BY DEF SessionInv, Steady, CountOK
<1>2. Plan' = Plan /\ \A k : Rank(k)' = Rank(k)
      BY <1>1, LayoutSame
<1>3. ASSUME Running', client' = "off"
      PROVE  temp_image_num' = 0
  <2>1. CASE Boot
        BY <2>1 DEF Boot, RamReset
  <2>2. CASE ~Boot
    <3>1. Running /\ client = "off"
      <4>1. CASE Connect \/ Reconnect
            BY <1>3, <4>1 DEF Connect, Reconnect
      <4>2. CASE Enable \/ Info \/ Start \/ Offset \/ SendPacket \/ SendRest \/ SendBufferCrc
                 \/ SendValidFw
            BY <1>3, <4>2 DEF Enable, Info, Start, Offset, SendPacket, SendRest, SendBufferCrc,
               SendValidFw, At, GoTo
      <4>3. CASE SendActiveImageReset \/ SendSystemReset
            BY <1>3, <4>3 DEF SendActiveImageReset, SendSystemReset, SystemReset, dfu_fw_reboot, Running
      <4>4. CASE Receive
        <5>1. /\ Running /\ Head(notif).op \in Answers
              /\ Head(notif).op # client => UNCHANGED client
              BY <4>4, Taken DEF Receive, clientVars
        <5>2. CASE Head(notif).op # client
              BY <1>3, <5>1, <5>2
        <5>3. CASE Head(notif).op = client
          <6>1. client' # "off"
                BY <4>4, <5>1, <5>3 DEF Receive, Answers
          <6>2. QED
                BY <1>3, <6>1
        <5>4. QED
              BY <5>2, <5>3
      <4>5. CASE TaskStep
            BY <1>3, <4>5 DEF TaskStep, TaskCheck, TaskUnlock, TaskSetReady, TaskLock, TaskReport,
               TaskOnly, clientVars, Running
      <4>6. CASE DisconnectAll \/ LinkLoss
        <5>1. Running /\ client' \in {client, "lost"}
              BY <4>6 DEF DisconnectAll, LinkLoss, Lost, clientVars
        <5>2. QED
              BY <1>3, <5>1
      <4>7. CASE PowerLoss \/ PowerLossInUpdate \/ PowerLossInActivation
            BY <1>3, <4>7 DEF PowerLoss, PowerLossInUpdate, PowerLossInActivation, Running
      <4>8. CASE UNCHANGED vars
            BY <1>3, <4>8 DEF vars, dfuVars, clientVars, Running
      <4>9. QED
            BY <2>2, <4>1, <4>2, <4>3, <4>4, <4>5, <4>6, <4>7, <4>8 DEF Next, ClientStep, Over
    <3>2. UNCHANGED temp_image_num
          BY <3>1, CountKept DEF GivenUp
    <3>3. QED
          BY <3>1, <3>2 DEF CountOK, CountAfter
  <2>3. QED
        BY <2>1, <2>2
<1>4. ASSUME Running', client' = "VALID_FW", notif' # << >>, Head(notif').res = "SUCCESS"
      PROVE  temp_image_num' = Rank(current'.k)
  <2>1. CASE SendValidFw
    <3>1. notif = << >>
          BY <2>1 DEF SendValidFw, At, TurnsOK, InTurn, GivenUp, Answers
    <3>2. UNCHANGED notif
          BY <2>1 DEF SendValidFw, ValidFw
    <3>3. QED
          BY <1>4, <3>1, <3>2
  <2>2. ASSUME ~SendValidFw
        PROVE  Running /\ UNCHANGED current /\ client = "VALID_FW"
        BY <1>1, <1>4, <2>2, Stage DEF Front, Started, Writing
  <2>3. CASE TaskReport
    <3>1. /\ UNCHANGED current /\ client = "VALID_FW" /\ Running /\ task # "wait"
          /\ temp_image_num' = IF valid THEN Rank(current.k) ELSE temp_image_num
          BY <1>4, <2>3, ReportCounts DEF TaskReport
    <3>2. notif = << >>
          BY <3>1 DEF TurnsOK, InTurn, GivenUp
    <3>3. notif' = << >> \/ notif' = Append(<< >>, [op |-> "VALID_FW", off |-> 0,
                                                    res |-> IF valid THEN "SUCCESS" ELSE "CRC_ERROR"])
          BY <2>3, <3>2 DEF TaskReport, Notify
    <3>4. PICK m : m = [op |-> "VALID_FW", off |-> 0,
                        res |-> IF valid THEN "SUCCESS" ELSE "CRC_ERROR"]
          OBVIOUS
    <3>5. notif' = Append(<< >>, m)
          BY <1>4, <3>3, <3>4
    <3>6. Head(notif') = m
          BY <3>5, OneAnswer
    <3>7. valid
          BY <1>4, <3>4, <3>6
    <3>8. QED
          BY <3>1, <3>7
  <2>4. CASE ~SendValidFw /\ ~TaskReport
    <3>1. Running /\ UNCHANGED current /\ client = "VALID_FW" /\ ~Start /\ ~Boot
          BY <2>2, <2>4 DEF Start, Boot, At, Running
    <3>2. UNCHANGED temp_image_num
          BY <2>4, <3>1, TempKept
    <3>3. UNCHANGED notif
      <4>1. CASE TaskStep
            BY <2>4, <4>1 DEF TaskStep, TaskCheck, TaskUnlock, TaskSetReady, TaskLock
      <4>2. CASE ~TaskStep
            BY <1>1, <1>4, <2>4, <4>2, BusyQuiet DEF Busy
      <4>3. QED
            BY <4>1, <4>2
    <3>4. QED
          BY <1>4, <3>1, <3>2, <3>3 DEF CountOK, CountAfter
  <2>5. QED
        BY <2>1, <2>3, <2>4
<1>5. ASSUME Running', client' = "activate"
      PROVE  current'.k = Len(Plan) /\ temp_image_num' = Rank(current'.k)
  <2>1. CASE /\ Receive /\ Running /\ client = "VALID_FW" /\ notif # << >> /\ Head(notif).res = "SUCCESS"
             /\ ~(current.k < Len(Plan)) /\ UNCHANGED current
    <3>1. UNCHANGED temp_image_num
          BY <2>1 DEF Receive, ramVars, tempVars
    <3>2. current.k = Len(Plan)
          BY <1>1, <2>1, Layout DEF Steady
    <3>3. QED
          BY <2>1, <3>1, <3>2 DEF CountOK, CountAfter
  <2>2. CASE Running /\ UNCHANGED current /\ client = "activate"
    <3>1. UNCHANGED temp_image_num
          BY <2>2, CountKept DEF GivenUp
    <3>2. QED
          BY <2>2, <3>1 DEF CountOK, CountAfter
  <2>3. QED
        BY <1>1, <1>5, <2>1, <2>2, Stage DEF Front, Started, Writing
<1>6. Rank(current.k)' = Rank(current'.k)
      BY <1>1, LayoutSame DEF Rank
<1>7. QED
      BY <1>2, <1>3, <1>4, <1>5, <1>6 DEF CountAfter
\* The entry of the image that is sent stays.
LEMMA EntryStep ==
    ASSUME SessionInv, Steady, TurnsOK, CountOK, [Next]_vars
    PROVE  EntryOK'
<1> SUFFICES ASSUME Running', ~ForUser',
                    client' \in Started \cup Writing \cup {"VALID_FW"} \/ Pending'
             PROVE  temp_image_info'[current'.k - 1] = Entry(current.k)'
    BY DEF EntryOK
<1>1. Shape /\ Patient /\ JobOK
      BY DEF SessionInv, Steady, CountOK
<1>2. /\ Entry(current.k)' = [image_id |-> IdOf[Plan[current'.k]], image_size |-> Total[Plan[current'.k]],
                              image_offset |-> Offsets(Plan)[current'.k]]
      /\ ~ForUser
      BY <1>1, LayoutSame DEF Entry
<1>3. ASSUME UNCHANGED <<temp_image_info, current>>, Running,
             client \in Started \cup Writing \cup {"VALID_FW"} \/ Pending
      PROVE  temp_image_info'[current'.k - 1] = Entry(current.k)'
      BY <1>2, <1>3 DEF CountOK, EntryOK, Entry
<1>4. CASE Start
  <2>1. UNCHANGED current /\ temp_image_info' = [temp_image_info EXCEPT ![current.k - 1] = Entry(current.k)]
        BY <1>2, <1>4, StartEntry DEF Start, GoTo
  <2>2. current.k - 1 \in 0 .. MaxTemp - 1
    <3>1. /\ Len(Plan) \in Nat /\ Len(Plan) < MaxTemp /\ current.k \in 1 .. Len(Plan)
          /\ MaxTemp \in Nat
          BY <1>1, Layout, ServiceAssumption DEF Steady
    <3>2. QED
          BY <3>1
  <2>3. temp_image_info'[current.k - 1] = Entry(current.k)
        BY <2>1, <2>2 DEF CountOK, EntriesOK
  <2>4. QED
        BY <1>2, <2>1, <2>3 DEF Entry
<1>5. CASE Pending' /\ ~SendValidFw
  <2>1. Running /\ Pending /\ UNCHANGED current /\ ~Start /\ ~TaskReport /\ ~Boot
        BY <1>1, <1>5, PendingStep
  <2>2. QED
        BY <1>3, <2>1, TempKept
<1>6. CASE (client' \in Started \cup Writing \cup {"VALID_FW"} /\ ~Start) \/ SendValidFw
  <2>1. /\ Running /\ UNCHANGED current
        /\ client \in Started \cup Writing \cup {"VALID_FW"}
    <3>1. CASE SendValidFw
          BY <3>1 DEF SendValidFw, At, GoTo, Writing
    <3>2. CASE ~SendValidFw
          BY <1>1, <1>6, <3>2, Stage DEF Front, Started, Writing
    <3>3. QED
          BY <3>1, <3>2
  <2>2. ~Boot /\ ~Start
        BY <1>6, <2>1 DEF Boot, Running, SendValidFw, Start, At, GoTo
  <2>3. UNCHANGED temp_image_info
    <3>1. CASE TaskReport
          BY <3>1 DEF TaskReport
    <3>2. CASE ~TaskReport
          BY <2>2, <3>2, TempKept
    <3>3. QED
          BY <3>1, <3>2
  <2>4. QED
        BY <1>3, <2>1, <2>3
<1>7. QED
      BY <1>4, <1>5, <1>6

\* The image id of the last command is that of the image that is validated.
LEMMA NamedStep ==
    ASSUME SessionInv, Steady, TurnsOK, CountOK, [Next]_vars
    PROVE  NamedOK'
<1> SUFFICES ASSUME Running', client' \in {"VALID_FW", "activate"} \/ Pending'
             PROVE  image_id' = Id'
    BY DEF NamedOK
<1>1. Shape /\ Patient /\ JobOK
      BY DEF SessionInv, Steady, CountOK
<1>2. UNCHANGED current => Id' = Id
      BY SameImage
<1>3. CASE SendValidFw
  <2>1. image_id' = Id /\ UNCHANGED current
        BY <1>3 DEF SendValidFw, ValidFw, GoTo
  <2>2. QED
        BY <1>2, <2>1
<1>4. CASE Pending' /\ ~SendValidFw
  <2>1. Running /\ Pending /\ UNCHANGED <<current, image_id>>
        BY <1>1, <1>4, PendingStep
  <2>2. QED
        BY <1>2, <2>1 DEF CountOK, NamedOK
<1>5. CASE client' \in {"VALID_FW", "activate"} /\ ~SendValidFw
  <2>1. Running /\ UNCHANGED current /\ client \in {"VALID_FW", "activate"}
        BY <1>1, <1>5, Stage DEF Front, Started, Writing
  <2>2. UNCHANGED image_id
        BY <1>5, <2>1, NameKept DEF Info, Start, Offset, Boot, At, Running
  <2>3. QED
        BY <1>2, <2>1, <2>2 DEF CountOK, NamedOK
<1>6. QED
      BY <1>3, <1>4, <1>5

\* All of it.
LEMMA CountStep ==
    ASSUME SessionInv, Steady, TurnsOK, CountOK, [Next]_vars
    PROVE  CountOK'
BY JobStep, EntriesStep, CountBeforeStep, CountAfterStep, EntryStep, NamedStep DEF CountOK
-----------------------------------------------------------------------------
(* What a step does to the flash.                                          *)

\* The flash is protected whenever nothing runs, and has no faults left to come.
ClosedOK == /\ nor \in Flash /\ nor.faults = MaxFaults
            /\ active_rst_pending => client = "done"
            /\ Running /\ ~active_rst_pending => nor.bp = TRUE

\* The frontier at each stage: before the image, behind what is written of it,
\* behind it.
LaidOK == Running =>
    /\ client \in Front \cup Started => Laid(nor, Place(current.k))
    /\ client \in Writing => Laid(nor, Place(current.k) + cur_offset)
    /\ client \in {"VALID_FW", "activate"} \/ Pending => Laid(nor, Behind(current.k))

\* The steps that write, and the ones that set ready.
WriteSteps == SendPacket \/ SendRest \/ SendBufferCrc \/ PowerLossInUpdate

\* Client and service stand between two words.
WordsOK == /\ pos % WORD = 0 /\ sent % WORD = 0
           /\ Running => cur_offset % WORD = 0 /\ Used % WORD = 0

Grew == \E length \in 1 .. SECTOR :
            /\ length % WORD = 0
            /\ cur_offset + length <= Total[Img]
            /\ Grown(nor', nor, Place(current.k) + cur_offset, Cells(Img, cur_offset, length))
            /\ Running' => cur_offset' = cur_offset + length

\* The power went in such a write, and what it did was no more than that.
Cut == /\ ~Running'
       /\ nor' \in Flash /\ nor'.faults = nor.faults

\* What a write touched.
Wrote == \E length \in 1 .. SECTOR :
            /\ cur_offset + length <= Total[Img]
            /\ Touched(nor', nor, Place(current.k) + cur_offset, length)

\* Nothing gets lost unless the device can tell.
LEMMA Told ==
    ASSUME Shape, Steady, WholeOK
    PROVE  /\ current.by.faults = 0
           /\ ~Checked \/ current.by.missed => current.by.bad = 0 /\ intact
           /\ badPackets \in Nat /\ Checked \in BOOLEAN
<1>1. current.by \in Clients
      BY DEF Shape
<1>2. /\ current.by.faults = 0
      /\ (current.by.checked /\ ~current.by.missed) \/ current.by.bad = 0
      BY <1>1 DEF Steady
<1>3. Checked \in BOOLEAN
      BY ImageType
<1>4. QED
      BY <1>2, <1>3 DEF WholeOK, Checked

\* What the service knows of the image that is sent.
LEMMA SentEntry ==
    ASSUME SessionInv, Steady, CountOK, Running, client = "send"
    PROVE  /\ image_id = Id /\ EntryOffset = Offsets(Plan)[current.k]
           /\ is_ota_procedure /\ image_total_length = Total[Img]
           /\ Checked => buffer_check_en
           /\ cur_offset \in Nat /\ Used \in Nat /\ pos \in Nat /\ sent \in Nat
<1>1. Shape
      BY DEF SessionInv
<1>2. /\ image_id = Id /\ is_ota_procedure /\ image_total_length = Total[Img]
      /\ Checked => buffer_check_en
      BY DEF SessionInv, StartOK, StartStates, ModeOK, ModeStates
<1>3. cur_offset \in Nat /\ Used \in Nat /\ pos \in Nat /\ sent \in Nat
  <2>1. Wrap \in Nat
        BY ImageAssumption
  <2>2. QED
        BY <1>1, <2>1 DEF Shape, Used
<1>4. temp_image_num = Rank(current.k - 1)
      BY DEF CountOK, CountBefore, Writing
<1>5. CASE ForUser
  <2>1. /\ Len(Plan) = 1 /\ Offsets(Plan)[1] = 0
        BY <1>1, <1>5, Layout DEF Steady
  <2>2. current.k \in 1 .. Len(Plan)
        BY <1>1, SentPlace
  <2>3. current.k = 1
        BY <2>1, <2>2
  <2>4. temp_image_num = 0 /\ temp_image_info[0] = NoEntry
        BY <1>5 DEF CountOK, EntriesOK
  <2>5. EntryOffset = 0
        BY <2>4 DEF EntryOffset, NoEntry
  <2>6. QED
        BY <1>2, <1>3, <2>1, <2>3, <2>5
<1>6. CASE ~ForUser
  <2>1. temp_image_num = current.k - 1
        BY <1>4, <1>6 DEF Rank
  <2>2. temp_image_info[current.k - 1] = Entry(current.k)
        BY <1>6 DEF CountOK, EntryOK, Writing
  <2>3. EntryOffset = Offsets(Plan)[current.k]
        BY <2>1, <2>2 DEF EntryOffset, Entry
  <2>4. QED
        BY <1>2, <1>3, <2>3
<1>7. QED
      BY <1>5, <1>6

\* The word, and the sums of whole words.
LEMMA Words ==
    /\ WORD \in Nat \ {0} /\ 0 % WORD = 0
    /\ \A a, b \in Nat : a % WORD = 0 /\ b % WORD = 0 =>
           (a + b) % WORD = 0 /\ (b <= a => (a - b) % WORD = 0)
<1>1. WORD \in Nat \ {0}
      BY ImageAssumption
<1>2. 0 % WORD = 0
      BY <1>1
<1>3. QED
      BY <1>1, <1>2, SumOfMultiples

\* What follows in the image joins what is collected.
Follows(m, c, a, b) == Cells(m, c, a) \o Cells(m, c + a, b) = Cells(m, c, a + b)

\* And it does.
LEMMA CellsFollow == \A m : \A c, a, b \in Nat : Follows(m, c, a, b)
<1> SUFFICES ASSUME NEW m, NEW c \in Nat, NEW a \in Nat, NEW b \in Nat
             PROVE  Follows(m, c, a, b)
    OBVIOUS
<1>1. QED
      BY CellsJoin, Zenon DEF Follows

\* A buffer with the next cells of the image goes to the flash.
LEMMA BufferWrites ==
    ASSUME SessionInv, Steady, CountOK, ClosedOK, LaidOK, Running, client = "send",
           NEW length \in 1 .. SECTOR, length % WORD = 0, cur_offset + length <= Total[Img],
           NEW o \in dfu_update(nor, image_id, cur_offset, EntryOffset, Cells(Img, cur_offset, length))
    PROVE  /\ o.ok = TRUE
           /\ Grown(o.nor, nor, Place(current.k) + cur_offset, Cells(Img, cur_offset, length))
<1>1. PICK f, c, rest : f = Place(current.k) + cur_offset /\ c = cur_offset
                        /\ rest = Offsets(Plan)[current.k]
      OBVIOUS
<1>2. Shape /\ nor \in Flash /\ nor.faults = MaxFaults
      BY DEF SessionInv, ClosedOK
<1>3. Laid(nor, f)
      BY <1>1 DEF LaidOK, Writing
<1>4. image_id = Id /\ EntryOffset = Offsets(Plan)[current.k] /\ c \in Nat
      BY <1>1, SentEntry
<1>5. o \in dfu_update(nor, Id, c, Offsets(Plan)[current.k], Cells(Img, c, length))
      BY <1>1, <1>4
<1>6. f = Place(current.k) + c /\ c + length <= Total[Img]
      BY <1>1
<1>7. o.ok = TRUE /\ Grown(o.nor, nor, f, Cells(Img, c, length))
      BY <1>2, <1>3, <1>4, <1>5, <1>6, NextWritten
<1>8. QED
      BY <1>1, <1>7

\* When the power goes meanwhile the flash is touched there only.
LEMMA BufferCut ==
    ASSUME SessionInv, Steady, CountOK, ClosedOK, LaidOK, Running, client = "send",
           NEW length \in 1 .. SECTOR, cur_offset + length <= Total[Img],
           NEW u \in UpdateCut(nor, image_id, cur_offset, EntryOffset, Cells(Img, cur_offset, length))
    PROVE  /\ u \in Flash /\ u.faults = nor.faults
           /\ Touched(u, nor, Place(current.k) + cur_offset, length)
<1>1. PICK f, c, rest, data : /\ f = Place(current.k) + cur_offset /\ c = cur_offset
                              /\ rest = Offsets(Plan)[current.k]
                              /\ data = Cells(Img, c, length)
      OBVIOUS
<1>2. Shape /\ nor \in Flash /\ nor.faults = MaxFaults
      BY DEF SessionInv, ClosedOK
<1>3. image_id = Id /\ EntryOffset = Offsets(Plan)[current.k] /\ c \in Nat
      BY <1>1, SentEntry
<1>4. u \in UpdateCut(nor, Id, c, rest, data)
      BY <1>1, <1>3
<1>5. f = Place(current.k) + c /\ c + length <= Total[Img] /\ length \in Nat
      BY <1>1, FlashAssumption
<1>6. data \in Seq(Content) /\ Len(data) = length
      BY <1>1, <1>2, <1>3, <1>5, CellsType, SentPlace
<1>7. Laid(nor, f)
      BY <1>1 DEF LaidOK, Writing
<1>8. /\ f \in Nat /\ Upper(f + length) <= FlashSize /\ Blank(nor, f)
      /\ f = StartAddr(Id, c, rest)
      BY <1>1, <1>2, <1>3, <1>5, <1>7, NextPlace
<1>9. SentReady(c, data) = {}
      BY NoneSent, Zenon DEF Steady
<1>10. Touched(u, nor, f, length) /\ u \in Flash /\ u.faults = nor.faults
       BY <1>2, <1>4, <1>6, <1>8, <1>9, CutTouches
<1>11. QED
       BY <1>1, <1>10

\* A packet is collected, resets the device, or is written with what is collected.
LEMMA PacketWrites ==
    ASSUME SessionInv, Steady, CountOK, ClosedOK, LaidOK, WholeOK, WordsOK, Running, client = "send",
           NEW length \in Nat \ {0}, length % WORD = 0, NEW fate \in {"arrives", "damaged", "lost"},
           Packet(length, fate), fate # "arrives" => badPackets < current.by.bad,
           pos + sent + length <= Total[Img]
    PROVE  Grew \/ (UNCHANGED nor /\ (Running' => UNCHANGED cur_offset))
<1>1. /\ Shape
      /\ is_ota_procedure
      /\ Checked => buffer_check_en
      /\ cur_offset \in Nat /\ Used \in Nat /\ pos \in Nat /\ sent \in Nat
      BY SentEntry DEF SessionInv
<1>2. CASE fate = "lost"
      BY <1>2 DEF Packet, dfuVars, ramVars, sessionVars
<1>3. ASSUME NEW data, PacketReq(data), buffer_check_en
      PROVE  UNCHANGED nor /\ UNCHANGED cur_offset
      BY <1>1, <1>3 DEF PacketReq, PacketIgnored, PacketBuffered, PacketPlain
<1>4. CASE fate # "lost" /\ buffer_check_en
  <2>1. \E data : PacketReq(data)
        BY <1>4 DEF Packet
  <2>2. QED
        BY <1>3, <1>4, <2>1
<1>5. CASE fate # "lost" /\ ~buffer_check_en
  <2>1. ~Checked /\ current.by.bad = 0 /\ intact /\ badPackets \in Nat
        BY <1>1, <1>5, Told
  <2>2. fate = "arrives"
        BY <1>5, <2>1
  <2>3. PacketReq(Cells(Img, pos + sent, length))
        BY <2>2 DEF Packet
  <2>4. /\ cur_offset + Used = pos + sent
        /\ ota_temp_buffer = Cells(Img, cur_offset, Used)
        BY <2>1 DEF SessionInv, SendOK
  <2>5. PICK total \in Nat : total = Used + length
        BY <1>1
  <2>6. ota_temp_buffer \o Cells(Img, pos + sent, length) = Cells(Img, cur_offset, total)
    <3>1. cur_offset \in Nat /\ Used \in Nat /\ length \in Nat
          BY <1>1
    <3>2. Follows(Img, cur_offset, Used, length)
          BY <3>1, CellsFollow
    <3>3. QED
          BY <2>4, <2>5, <3>2 DEF Follows
  <2>7. PICK filled : filled = Cells(Img, cur_offset, total)
        OBVIOUS
  <2>8. Len(filled) = total
        BY <1>1, <2>5, <2>7, CellsAt
  <2>9. PacketPlain(Cells(Img, pos + sent, length))
        BY <1>1, <1>5, <2>3 DEF PacketReq, PacketIgnored, PacketBuffered
  <2>10. \/ power' = "fail" /\ UNCHANGED nor
         \/ UNCHANGED <<nor, cur_offset>>
         \/ /\ total <= PlainMax
            /\ \E o \in dfu_update(nor, image_id, cur_offset, EntryOffset, filled) :
                   /\ nor' = o.nor
                   /\ o.ok => cur_offset' = cur_offset + total
         BY <2>6, <2>7, <2>8, <2>9 DEF PacketPlain, dfu_fw_reboot
  <2>11. CASE total <= PlainMax /\ \E o \in dfu_update(nor, image_id, cur_offset, EntryOffset, filled) :
                   /\ nor' = o.nor
                   /\ o.ok => cur_offset' = cur_offset + total
    <3>1. total \in 1 .. SECTOR
      <4>1. PlainMax \in 0 .. BUF /\ BUF \in Nat /\ SECTOR \in Nat /\ BUF <= SECTOR
            BY PlainMaxType, ServiceAssumption, FlashAssumption DEF Steady, Sizes
      <4>2. QED
            BY <1>1, <2>5, <2>11, <4>1
    <3>2. cur_offset + total <= Total[Img] /\ total % WORD = 0
      <4>1. Used % WORD = 0 /\ WORD \in Nat \ {0}
            BY Words DEF WordsOK
      <4>2. (Used + length) % WORD = 0
            BY <1>1, <4>1, Words
      <4>3. QED
            BY <1>1, <2>4, <2>5, <4>2
    <3>3. PICK o \in dfu_update(nor, image_id, cur_offset, EntryOffset, filled) :
                   /\ nor' = o.nor
                   /\ o.ok => cur_offset' = cur_offset + total
          BY <2>11
    <3>4. /\ o.ok = TRUE
          /\ Grown(o.nor, nor, Place(current.k) + cur_offset, Cells(Img, cur_offset, total))
          BY <2>7, <3>1, <3>2, BufferWrites
    <3>5. QED
          BY <3>1, <3>2, <3>3, <3>4 DEF Grew
  <2>12. QED
         BY <2>10, <2>11 DEF Running
<1>6. QED
      BY <1>2, <1>4, <1>5

\* What the client chooses for a packet is whole words.
LEMMA ChunkWords ==
    ASSUME Shape, Steady, NEW length \in current.by.chunks
    PROVE  length \in Nat \ {0} /\ length % WORD = 0
<1>1. current.by \in Clients
      BY DEF Shape
<1>2. QED
      BY <1>1, ImageType DEF Steady, WholeWords

\* What is left of the image after whole packets is whole words.
LEMMA RestWords ==
    ASSUME Shape, Steady, WordsOK, NEW length, length = Total[Img] - pos - sent,
           pos + sent < Total[Img]
    PROVE  length % WORD = 0
<1>1. /\ pos \in Nat /\ sent \in Nat /\ Img \in Image /\ Total[Img] \in Nat
      BY ImageType DEF Shape
<1>2. pos % WORD = 0 /\ sent % WORD = 0 /\ Total[Img] % WORD = 0
      BY <1>1 DEF WordsOK, Steady, WholeWords
<1>3. PICK total : total = Total[Img] /\ total \in Nat /\ total % WORD = 0
      BY <1>1, <1>2
<1>4. pos + sent \in Nat /\ (pos + sent) % WORD = 0 /\ pos + sent <= total
      BY <1>1, <1>2, <1>3, Words
<1>5. (total - (pos + sent)) % WORD = 0
      BY <1>1, <1>3, <1>4, Words
<1>6. length = total - (pos + sent)
      BY <1>1, <1>3
<1>7. QED
      BY <1>5, <1>6

\* What grew was touched.
LEMMA GrewWrote ==
    ASSUME Shape, cur_offset \in Nat, Grew
    PROVE  Wrote
<1>1. PICK length \in 1 .. SECTOR :
             /\ cur_offset + length <= Total[Img]
             /\ Grown(nor', nor, Place(current.k) + cur_offset, Cells(Img, cur_offset, length))
      BY DEF Grew
<1>2. length \in Nat
      BY FlashAssumption
<1>3. PICK w, f : w = nor' /\ f = Place(current.k) + cur_offset
      OBVIOUS
<1>4. Grown(w, nor, f, Cells(Img, cur_offset, length))
      BY <1>1, <1>3
<1>5. Touched(w, nor, f, length)
      BY <1>2, <1>4, GrownTouches
<1>6. QED
      BY <1>1, <1>3, <1>5 DEF Wrote

\* The steps that write.
LEMMA WriteStep ==
    ASSUME SessionInv, Steady, CountOK, ClosedOK, LaidOK, WholeOK, WordsOK, WriteSteps
    PROVE  /\ \/ Grew \/ Cut
              \/ UNCHANGED nor /\ (Running' => UNCHANGED cur_offset)
           /\ Wrote \/ UNCHANGED nor
           /\ Running /\ client = "send" /\ UNCHANGED <<current, temp_image_num, active_rst_pending>>
           /\ client' \in Writing
<1>1. Running /\ client = "send" /\ client' \in Writing /\ UNCHANGED <<current, active_rst_pending>>
      BY DEF WriteSteps, SendPacket, SendRest, SendBufferCrc, PowerLossInUpdate, At, Quiet, GoTo,
         clientVars, Writing
<1>2. UNCHANGED temp_image_num
  <2>1. ~Start /\ ~TaskReport /\ ~Boot
    <3>1. ~Start /\ ~Boot
          BY <1>1 DEF Start, Boot, At, Running
    <3>2. ~TaskReport
          BY DEF WriteSteps, SendPacket, SendRest, SendBufferCrc, PowerLossInUpdate, TaskReport,
             Quiet, taskVars
    <3>3. QED
          BY <3>1, <3>2
  <2>2. [Next]_vars
        BY DEF WriteSteps, Next, ClientStep
  <2>3. QED
        BY <2>1, <2>2, TempKept
<1>3. /\ Shape /\ cur_offset \in Nat /\ Used \in Nat /\ pos \in Nat /\ sent \in Nat
      /\ BUF \in Nat /\ SECTOR \in Nat /\ BUF <= SECTOR
      BY <1>1, SentEntry, ServiceAssumption, FlashAssumption DEF SessionInv, Steady, Sizes
<1>4. ASSUME Checked, sent > 0, intact
      PROVE  /\ ota_temp_buffer = Cells(Img, cur_offset, Used)
             /\ Used \in 1 .. SECTOR /\ cur_offset + Used <= Total[Img] /\ Used % WORD = 0
  <2>1. /\ pos + sent <= Total[Img] /\ cur_offset = pos /\ sent <= BUF
        /\ cur_offset + Used = pos + sent
        /\ ota_temp_buffer = Cells(Img, cur_offset, Used)
        BY <1>1, <1>4 DEF SessionInv, SendOK
  <2>2. Used % WORD = 0
        BY <1>1 DEF WordsOK
  <2>3. QED
        BY <1>3, <1>4, <2>1, <2>2
<1>5. CASE SendPacket
  <2>1. PICK length \in current.by.chunks, fate \in {"arrives", "damaged", "lost"} :
             /\ fate # "arrives" => badPackets < current.by.bad
             /\ pos + sent + length <= Total[Img]
             /\ Packet(length, fate)
        BY <1>5 DEF SendPacket
  <2>2. length \in Nat \ {0} /\ length % WORD = 0
        BY <1>3, ChunkWords
  <2>3. Grew \/ (UNCHANGED nor /\ (Running' => UNCHANGED cur_offset))
        BY <1>1, <2>1, <2>2, PacketWrites
  <2>4. QED
        BY <1>1, <1>2, <1>3, <2>3, GrewWrote
<1>6. CASE SendRest
  <2>1. PICK length : length = Total[Img] - pos - sent
        OBVIOUS
  <2>2. Packet(length, "arrives") /\ pos + sent < Total[Img]
        BY <1>6, <2>1 DEF SendRest
  <2>3. Total[Img] \in Nat
        BY <1>3, ImageType
  <2>4. length \in Nat \ {0} /\ pos + sent + length <= Total[Img]
        BY <1>3, <2>1, <2>2, <2>3
  <2>5. length % WORD = 0
        BY <1>3, <2>1, <2>2, RestWords
  <2>6. Grew \/ (UNCHANGED nor /\ (Running' => UNCHANGED cur_offset))
        BY <1>1, <2>2, <2>4, <2>5, PacketWrites
  <2>7. QED
        BY <1>1, <1>2, <1>3, <2>6, GrewWrote
<1>7. CASE SendBufferCrc
  <2>1. PICK ok \in {intact, intact \/ current.by.missed} : ReportBufferCrc(sent, ok)
        BY <1>7 DEF SendBufferCrc
  <2>2. Checked /\ sent > 0
        BY <1>7 DEF SendBufferCrc
  <2>3. ok => intact
        BY <1>3, <2>1, Told
  <2>4. CASE ~ok
        BY <1>1, <1>2, <2>1, <2>4 DEF ReportBufferCrc
  <2>5. CASE ok
    <3>1. /\ ota_temp_buffer = Cells(Img, cur_offset, Used)
          /\ Used \in 1 .. SECTOR /\ cur_offset + Used <= Total[Img] /\ Used % WORD = 0
          BY <1>4, <2>2, <2>3, <2>5
    <3>2. \/ UNCHANGED <<nor, cur_offset>>
          \/ \E o \in dfu_update(nor, image_id, cur_offset, EntryOffset, ota_temp_buffer) :
                 BufferWritten(o) \/ BufferLost(o)
          BY <2>1 DEF ReportBufferCrc
    <3>3. CASE \E o \in dfu_update(nor, image_id, cur_offset, EntryOffset, ota_temp_buffer) :
                   BufferWritten(o) \/ BufferLost(o)
      <4>1. PICK o \in dfu_update(nor, image_id, cur_offset, EntryOffset, ota_temp_buffer) :
                   BufferWritten(o) \/ BufferLost(o)
            BY <3>3
      <4>2. PICK length \in 1 .. SECTOR : length = Used /\ length % WORD = 0
            BY <3>1
      <4>3. o \in dfu_update(nor, image_id, cur_offset, EntryOffset, Cells(Img, cur_offset, length))
            BY <3>1, <4>2
      <4>4. /\ o.ok = TRUE /\ cur_offset + length <= Total[Img]
            /\ Grown(o.nor, nor, Place(current.k) + cur_offset, Cells(Img, cur_offset, length))
            BY <1>1, <3>1, <4>2, <4>3, BufferWrites
      <4>5. nor' = o.nor /\ cur_offset' = cur_offset + length
            BY <4>1, <4>2, <4>4 DEF BufferWritten, BufferLost
      <4>6. Grew
            BY <4>2, <4>4, <4>5 DEF Grew
      <4>7. QED
            BY <1>1, <1>2, <1>3, <4>6, GrewWrote
    <3>4. QED
          BY <1>1, <1>2, <3>2, <3>3
  <2>6. QED
        BY <2>4, <2>5
<1>8. CASE PowerLossInUpdate
  <2>1. Checked /\ sent > 0 /\ intact /\ ~Running'
        BY <1>8 DEF PowerLossInUpdate, Running
  <2>2. /\ ota_temp_buffer = Cells(Img, cur_offset, Used)
        /\ Used \in 1 .. SECTOR /\ cur_offset + Used <= Total[Img] /\ Used % WORD = 0
        BY <1>4, <2>1
  <2>3. PICK length \in 1 .. SECTOR : length = Used /\ length % WORD = 0
        BY <2>2
  <2>4. PICK data : data = Cells(Img, cur_offset, length) /\ data = ota_temp_buffer
        BY <2>2, <2>3
  <2>5. cur_offset + length <= Total[Img]
        BY <2>2, <2>3
  <2>6. CASE \E o \in dfu_update(nor, image_id, cur_offset, EntryOffset, data) : nor' = o.nor
    <3>1. PICK o \in dfu_update(nor, image_id, cur_offset, EntryOffset, data) : nor' = o.nor
          BY <2>6
    <3>2. Grown(o.nor, nor, Place(current.k) + cur_offset, Cells(Img, cur_offset, length))
          BY <1>1, <2>3, <2>4, <2>5, <3>1, BufferWrites
    <3>3. Grew
          BY <2>1, <2>3, <2>5, <3>1, <3>2 DEF Grew
    <3>4. QED
          BY <1>1, <1>2, <1>3, <3>3, GrewWrote
  <2>7. CASE nor' \in UpdateCut(nor, image_id, cur_offset, EntryOffset, data)
    <3>1. PICK u : u = nor'
          OBVIOUS
    <3>2. /\ u \in Flash /\ u.faults = nor.faults
          /\ Touched(u, nor, Place(current.k) + cur_offset, length)
          BY <1>1, <2>3, <2>4, <2>5, <2>7, <3>1, BufferCut
    <3>3. Cut /\ Wrote
          BY <2>1, <2>5, <3>1, <3>2 DEF Cut, Wrote
    <3>4. QED
          BY <1>1, <1>2, <3>3
  <2>8. QED
        BY <1>8, <2>4, <2>6, <2>7 DEF PowerLossInUpdate
<1>9. QED
      BY <1>5, <1>6, <1>7, <1>8 DEF WriteSteps

-----------------------------------------------------------------------------
(* Activation, and the steps that leave the content of the flash alone.    *)

\* Behind the last image all of them stand at their places, and none is ready.
LEMMA AllLaid ==
    ASSUME Shape, Steady, NEW n \in Flash, Laid(n, Behind(Len(Plan)))
    PROVE  \A k \in 1 .. Len(Plan) :
               /\ IntactAt(n, Plan[k], Place(k))
               /\ Place(k) \in Addr /\ Place(k) \notin n.ready
               /\ n.mem[Place(k)] = <<Plan[k], 0>>
<1>1. /\ \A c \in Clients : OneBank(c.plan)
      /\ ~BankSwitch
      BY DEF Steady
<1> SUFFICES ASSUME NEW k \in 1 .. Len(Plan)
             PROVE  /\ IntactAt(n, Plan[k], Place(k))
                    /\ Place(k) \in Addr /\ Place(k) \notin n.ready
                    /\ n.mem[Place(k)] = <<Plan[k], 0>>
    OBVIOUS
<1>2. Len(Plan) \in Nat \ {0} /\ Len(Plan) \in 1 .. Len(Plan)
      BY <1>1, Layout
<1>3. PICK last \in 1 .. Len(Plan) : last = Len(Plan)
      BY <1>2
<1>4. PICK a, b, t, e : /\ a = Place(k) /\ b = Behind(k) /\ t = Total[Plan[k]]
                        /\ e = Behind(last)
      OBVIOUS
<1>5. /\ a \in Nat /\ b \in Nat /\ t \in Nat \ {0} /\ b = a + t /\ e \in Nat
      /\ Base \in Nat /\ Size \in Nat /\ FlashSize \in Nat
      /\ Base <= a /\ e <= Base + Size /\ Base + Size <= FlashSize
      BY <1>1, <1>4, Layout, FlashAssumption DEF Behind
<1>6. b <= e
  <2>1. CASE k = last
    <3>1. b = e
          BY <1>4, <2>1, Zenon
    <3>2. QED
          BY <1>5, <3>1
  <2>2. CASE k # last
    <3>1. k < last
          BY <1>2, <1>3, <2>2
    <3>2. Behind(k) <= Place(last) /\ Place(last) < Behind(last)
          BY <1>1, <3>1, Layout
    <3>3. Place(last) \in Nat
          BY <1>1, Layout
    <3>4. QED
          BY <1>4, <1>5, <3>2, <3>3
  <2>3. QED
        BY <2>1, <2>2
<1>7. Laid(n, e)
      BY <1>3, <1>4
<1>8. ASSUME NEW i \in 0 .. t - 1
      PROVE  a + i \in Addr /\ n.mem[a + i] = <<Plan[k], i>>
  <2>1. a + i < e /\ a + i \in Addr
        BY <1>5, <1>6 DEF Addr
  <2>2. QED
        BY <1>4, <1>7, <2>1 DEF Laid
<1>9. a + 0 = a /\ 0 \in 0 .. t - 1
      BY <1>5
<1>10. a \in Addr /\ n.mem[a] = <<Plan[k], 0>>
       BY <1>8, <1>9
<1>11. a \notin n.ready
  <2>1. a \in Area
        BY <1>5, <1>6 DEF Area
  <2>2. Upper(e) \in Nat /\ e <= Upper(e)
        BY <1>5, UpperIs
  <2>3. ~(Upper(e) <= a)
        BY <1>5, <1>6, <2>2
  <2>4. QED
        BY <1>7, <2>1, <2>3 DEF Laid
<1>12. IntactAt(n, Plan[k], a)
       BY <1>4, <1>8 DEF IntactAt
<1>13. QED
       BY <1>4, <1>10, <1>11, <1>12

\* The place of an image lies in the bank.
LEMMA PlaceInArea ==
    ASSUME Shape, Steady, NEW k \in 1 .. Len(Plan)
    PROVE  Place(k) \in Area
<1>1. /\ \A c \in Clients : OneBank(c.plan)
      /\ ~BankSwitch
      BY DEF Steady
<1>2. /\ Place(k) \in Nat /\ Behind(k) \in Nat /\ Base \in Nat /\ Size \in Nat
      /\ Base <= Place(k) /\ Place(k) < Behind(k) /\ Behind(k) <= Base + Size
      BY <1>1, Layout
<1>3. QED
      BY <1>2 DEF Area

\* With no fault left to come, headers are set ready all together, and nothing
\* else changes.
LEMMA ReadySet ==
    ASSUME NEW n \in Flash, n.faults = MaxFaults, NEW hs \in SUBSET Addr,
           \A x \in hs : n.mem[x] # Erased, NEW w \in dfu_set_image_ready(n, hs)
    PROVE  /\ w \in Flash /\ w.faults = MaxFaults
           /\ \A x \in Addr : w.mem[x] = n.mem[x]
           /\ w.ready = n.ready \cup hs
<1>1. CASE hs = {}
      BY <1>1 DEF dfu_set_image_ready
<1>2. CASE hs # {}
  <2>1. PICK v \in ClearNotReady(unlock_flash_bp_all(n), hs) : w = lock_flash_bp(v)
        BY <1>2 DEF dfu_set_image_ready
  <2>2. PICK u \in Flash : /\ u = unlock_flash_bp_all(n) /\ u.bp = FALSE /\ u.faults = MaxFaults
                           /\ u.mem = n.mem /\ u.ready = n.ready
    <3>1. unlock_flash_bp_all(n) \in Flash
          BY BpType
    <3>2. QED
          BY <3>1 DEF unlock_flash_bp_all, Flash
  <2>3. v \in Flash
        BY <2>1, <2>2, ClearType
  <2>4. PICK bad \in SUBSET hs :
            /\ bad # {} => u.faults + Cardinality(bad) <= MaxFaults
            /\ v = [u EXCEPT !.mem    = [x \in Addr |-> IF x \in hs \ bad THEN
                                            (IF @[x] = Erased THEN Torn ELSE @[x]) ELSE @[x]],
                             !.ready  = @ \cup (hs \ bad),
                             !.faults = @ + Cardinality(bad)]
    <3>1. v \in ClearNotReady(u, hs) /\ ~u.bp
          BY <2>1, <2>2
    <3>2. QED
          BY <3>1, Zenon DEF ClearNotReady
  <2>5. bad = {} /\ Cardinality(bad) = 0
    <3>1. IsFiniteSet(Addr) /\ MaxFaults \in Nat
          BY FS_Interval, FlashAssumption DEF Addr
    <3>2. IsFiniteSet(bad)
          BY <3>1, FS_Subset
    <3>3. Cardinality(bad) \in Nat /\ (Cardinality(bad) = 0 <=> bad = {})
          BY <3>2, FS_CardinalityType, FS_EmptySet
    <3>4. QED
          BY <2>2, <2>4, <3>1, <3>3
  <2>6. v.ready = u.ready \cup hs /\ v.faults = u.faults + 0
        BY <2>4, <2>5 DEF Flash
  <2>7. \A x \in Addr : v.mem[x] = u.mem[x]
        BY <2>2, <2>4, <2>5 DEF Flash
  <2>8. /\ lock_flash_bp(v) \in Flash
        /\ lock_flash_bp(v).mem = v.mem /\ lock_flash_bp(v).ready = v.ready
        /\ lock_flash_bp(v).faults = v.faults
        BY <2>3, BpType DEF lock_flash_bp, Flash
  <2>9. QED
        BY <2>1, <2>2, <2>6, <2>7, <2>8, FlashAssumption
<1>3. QED
      BY <1>1, <1>2

\* The headers that ACTIVE_IMAGE_RESET sets ready are those of the plan.
LEMMA PlanHeaders ==
    ASSUME SessionInv, Steady, CountOK, Running, client = "activate"
    PROVE  /\ current.k = Len(Plan)
           /\ EntryHeaders \cup UserHeaders = {Place(j) : j \in 1 .. Len(Plan)}
<1>1. /\ Shape
      /\ \A c \in Clients : OneBank(c.plan)
      /\ ~BankSwitch
      BY DEF Steady, SessionInv
<1>2. PICK last : last = Len(Plan)
      OBVIOUS
<1>3. current.k = last /\ temp_image_num = Rank(last) /\ image_id = Id
      BY <1>2 DEF CountOK, CountAfter, NamedOK
<1>4. last \in Nat \ {0} /\ last \in 1 .. Len(Plan)
      BY <1>1, <1>2, Layout
<1>5. /\ Id = IdOf[Plan[last]] /\ TempBase[Id] = Base /\ Base \in Nat \ {0}
      BY <1>1, <1>3, SentPlace
<1>6. Id \in UserData <=> ForUser
  <2>1. \A k \in 1 .. Len(Plan) : IdOf[Plan[k]] \in UserData <=> ForUser
        BY <1>1, Layout
  <2>2. QED
        BY <1>4, <1>5, <2>1
<1>7. CASE ForUser
  <2>1. Len(Plan) = 1 /\ {u \in UserLoop : TempBase[u] # 0} = {First}
        BY <1>1, <1>7, Layout
  <2>2. Place(1) = Base
        BY <1>1, Layout
  <2>3. {Place(j) : j \in 1 .. Len(Plan)} = {Base}
    <3>1. 1 .. Len(Plan) = {1}
          BY <2>1
    <3>2. QED
          BY <2>2, <3>1
  <2>4. temp_image_num = 0
        BY <1>3, <1>7 DEF Rank
  <2>5. EntryHeaders = {}
        BY <1>1, <2>4 DEF EntryHeaders
  <2>6. UserHeaders = {Base}
    <3>1. UserHeaders = {TempBase[id] : id \in {First}}
          BY <1>3, <1>6, <1>7, <2>1 DEF UserHeaders
    <3>2. QED
          BY <3>1 DEF Base
  <2>7. QED
        BY <1>2, <1>3, <2>3, <2>5, <2>6
<1>8. CASE ~ForUser
  <2>1. temp_image_num = last
        BY <1>3, <1>8 DEF Rank
  <2>2. UserHeaders = {}
        BY <1>3, <1>6, <1>8 DEF UserHeaders
  <2>3. ASSUME NEW j \in 1 .. Len(Plan)
        PROVE  TempBase[image_id] + temp_image_info[j - 1].image_offset = Place(j)
    <3>1. j - 1 \in 0 .. temp_image_num - 1 /\ (j - 1) + 1 = j
          BY <1>2, <1>4, <2>1
    <3>2. temp_image_info[j - 1] = Entry(j)
          BY <3>1 DEF CountOK, EntriesOK
    <3>3. temp_image_info[j - 1].image_offset = Offsets(Plan)[j]
          BY <3>2 DEF Entry
    <3>4. QED
          BY <1>3, <1>5, <3>3 DEF Place
  <2>4. EntryHeaders = {TempBase[image_id] + temp_image_info[i].image_offset : i \in 0 .. last - 1}
        BY <1>1, <2>1 DEF EntryHeaders
  <2>5. ASSUME NEW x \in EntryHeaders
        PROVE  x \in {Place(j) : j \in 1 .. Len(Plan)}
    <3>1. PICK i \in 0 .. last - 1 : x = TempBase[image_id] + temp_image_info[i].image_offset
          BY <2>4
    <3>2. PICK j \in 1 .. Len(Plan) : j - 1 = i
          BY <1>2, <1>4, <3>1
    <3>3. x = Place(j)
          BY <2>3, <3>1, <3>2
    <3>4. QED
          BY <3>3
  <2>6. ASSUME NEW j \in 1 .. Len(Plan)
        PROVE  Place(j) \in EntryHeaders
    <3>1. j - 1 \in 0 .. last - 1
          BY <1>2, <1>4
    <3>2. QED
          BY <2>3, <2>4, <3>1
  <2>7. QED
        BY <1>2, <1>3, <2>2, <2>5, <2>6
<1>9. QED
      BY <1>7, <1>8

\* The steps that set the images ready: all of them when the reset is left
\* pending, some when the power goes.
SetSteps == SendActiveImageReset \/ PowerLossInActivation

\* They set images of the plan ready, all of them or some, and write nothing.
LEMMA SetStep ==
    ASSUME SessionInv, Steady, CountOK, ClosedOK, LaidOK, SetSteps
    PROVE  /\ Running /\ client = "activate" /\ UNCHANGED current
           /\ nor' \in Flash /\ nor'.faults = MaxFaults
           /\ \A x \in Addr : nor'.mem[x] = nor.mem[x]
           /\ nor.ready \subseteq nor'.ready
           /\ nor'.ready \subseteq nor.ready \cup {Place(j) : j \in 1 .. Len(Plan)}
           /\ \/ /\ SendActiveImageReset /\ client' = "done" /\ active_rst_pending' = TRUE
                 /\ \A j \in 1 .. Len(Plan) : Place(j) \in nor'.ready
              \/ /\ PowerLossInActivation /\ client' = "activate" /\ power' = "fail"
                 /\ UNCHANGED active_rst_pending
<1> DEFINE places == {Place(j) : j \in 1 .. Len(Plan)}
<1>1. Running /\ client = "activate" /\ UNCHANGED current
      BY DEF SetSteps, SendActiveImageReset, PowerLossInActivation, At, clientVars
<1>2. /\ Shape
      /\ nor \in Flash /\ nor.faults = MaxFaults
      BY DEF SessionInv, ClosedOK
<1>3. current.k = Len(Plan) /\ EntryHeaders \cup UserHeaders = places
      BY <1>1, PlanHeaders
<1>4. Laid(nor, Behind(Len(Plan)))
      BY <1>1, <1>3 DEF LaidOK
<1>5. ASSUME NEW x \in places
      PROVE  x \in Addr /\ nor.mem[x] # Erased
  <2>1. PICK j \in 1 .. Len(Plan) : x = Place(j)
        BY <1>5
  <2>2. Place(j) \in Addr /\ nor.mem[Place(j)] = <<Plan[j], 0>>
        BY <1>2, <1>4, AllLaid
  <2>3. Plan[j] \in Image
        BY <1>2, ImageType
  <2>4. QED
        BY <2>1, <2>2, <2>3, NoHeader
<1>6. ASSUME NEW hs \in SUBSET places, NEW w \in dfu_set_image_ready(nor, hs)
      PROVE  /\ w \in Flash /\ w.faults = MaxFaults
             /\ \A x \in Addr : w.mem[x] = nor.mem[x]
             /\ w.ready = nor.ready \cup hs
  <2>1. hs \in SUBSET Addr /\ \A x \in hs : nor.mem[x] # Erased
        BY <1>5
  <2>2. QED
        BY <1>2, <2>1, ReadySet
<1>7. CASE SendActiveImageReset
  <2>1. PICK w \in dfu_set_image_ready(nor, places) : nor' = unlock_flash_bp_all(w)
    <3>1. PICK w \in dfu_set_image_ready(nor, EntryHeaders \cup UserHeaders) :
                 nor' = IF BankSwitch THEN w ELSE unlock_flash_bp_all(w)
          BY <1>7 DEF SendActiveImageReset, ActiveImageReset, dfu_service_handle_active_image
    <3>2. QED
          BY <1>3, <3>1 DEF Steady
  <2>2. /\ w \in Flash /\ w.faults = MaxFaults
        /\ \A x \in Addr : w.mem[x] = nor.mem[x]
        /\ w.ready = nor.ready \cup places
        BY <1>6, <2>1
  <2>3. /\ nor' \in Flash /\ nor'.mem = w.mem /\ nor'.ready = w.ready /\ nor'.faults = w.faults
        BY <2>1, <2>2, BpType DEF unlock_flash_bp_all, Flash
  <2>4. client' = "done" /\ active_rst_pending' = TRUE
        BY <1>7 DEF SendActiveImageReset
  <2>5. QED
        BY <1>1, <1>7, <2>2, <2>3, <2>4
<1>8. CASE PowerLossInActivation
  <2>1. PICK hs \in ReadySoFar : nor' \in dfu_set_image_ready(nor, hs)
        BY <1>8 DEF PowerLossInActivation
  <2>2. hs \subseteq EntryHeaders \cup UserHeaders
    <3>1. \/ hs \subseteq EntryHeaders
          \/ \E some \in SUBSET UserHeaders : hs = EntryHeaders \cup some
          BY <2>1 DEF ReadySoFar
    <3>2. QED
          BY <3>1
  <2>3. hs \in SUBSET places
        BY <1>3, <2>2
  <2>4. /\ nor' \in Flash /\ nor'.faults = MaxFaults
        /\ \A x \in Addr : nor'.mem[x] = nor.mem[x]
        /\ nor'.ready = nor.ready \cup hs
        BY <1>6, <2>1, <2>3
  <2>5. client' = "activate" /\ power' = "fail" /\ UNCHANGED active_rst_pending
        BY <1>1, <1>8 DEF PowerLossInActivation, clientVars
  <2>6. QED
        BY <1>1, <1>8, <2>3, <2>4, <2>5
<1>9. QED
      BY <1>7, <1>8 DEF SetSteps

\* The other steps change neither the content of the flash nor what is ready: a
\* SYSTEM_RESET finds it protected, and the task sets nothing ready.
LEMMA StillStep ==
    ASSUME SessionInv, Steady, CountOK, ClosedOK, [Next]_vars, ~WriteSteps, ~SetSteps
    PROVE  /\ nor' \in Flash /\ nor'.mem = nor.mem /\ nor'.ready = nor.ready
           /\ nor'.faults = nor.faults
           /\ UNCHANGED nor \/ (Boot /\ nor'.bp = TRUE)
<1>1. nor \in Flash
      BY DEF ClosedOK
<1>2. CASE UNCHANGED nor
      BY <1>1, <1>2
<1>3. CASE Boot
      BY <1>1, <1>3, BpType DEF Boot, lock_flash_bp, Flash
<1>4. CASE SendSystemReset
  <2>1. Running /\ client \in {"reset", "activate"} /\ SystemReset
        BY <1>4 DEF SendSystemReset
  <2>2. nor.bp = TRUE
        BY <2>1 DEF ClosedOK
  <2>3. \A a : dfu_flash_erase_sector(nor, a) = {Failed(nor)}
        BY <2>2 DEF dfu_flash_erase_sector
  <2>4. UNCHANGED nor
        BY <2>1, <2>3 DEF SystemReset, Failed
  <2>5. QED
        BY <1>2, <2>4
<1>5. ~TaskUnlock /\ ~TaskSetReady /\ ~TaskLock
      BY DEF CountOK, JobOK, TaskUnlock, TaskSetReady, TaskLock
<1>6. CASE \/ Connect \/ Reconnect \/ Enable \/ Info \/ Start \/ Offset \/ SendValidFw \/ Receive
           \/ TaskCheck \/ TaskReport \/ DisconnectAll \/ LinkLoss \/ PowerLoss \/ UNCHANGED vars
  <2>1. UNCHANGED nor
        BY <1>6 DEF Connect, Reconnect, Enable, Info, Start, Offset, SendValidFw, Receive,
           BufferCheckEn, ReportTargetInfo, StartDfu, ReceiveFwImageInfo, ValidFw, TaskCheck,
           TaskReport, DisconnectAll, LinkLoss, PowerLoss, vars, dfuVars
  <2>2. QED
        BY <1>2, <2>1
<1>7. QED
      BY <1>3, <1>4, <1>5, <1>6 DEF Next, ClientStep, TaskStep, Over, WriteSteps, SetSteps
-----------------------------------------------------------------------------
(* The steps keep the frontier, the protection and the ends.               *)

\* After activation every image stands ready at its place, after a refusal none
\* is ready.
EndOK == /\ client = "done" => \A k \in 1 .. Len(Plan) :
                Place(k) \in nor.ready /\ IntactAt(nor, Plan[k], Place(k))
         /\ client = "declined" => \A k \in 1 .. Len(Plan) : Place(k) \notin nor.ready

\* How the pending reset comes and goes.
LEMMA PendingKept ==
    ASSUME [Next]_vars, ~SendActiveImageReset
    PROVE  /\ active_rst_pending' = active_rst_pending \/ active_rst_pending' = FALSE
           /\ Running' /\ ~Boot => Running /\ UNCHANGED active_rst_pending
<1>1. CASE Connect \/ Reconnect \/ Enable \/ Info \/ Start \/ Offset
      BY <1>1 DEF Connect, Reconnect, Enable, Info, Start, Offset, Quiet, At
<1>2. CASE SendPacket \/ SendRest \/ SendBufferCrc \/ SendValidFw \/ SendSystemReset \/ Receive
      BY <1>2 DEF SendPacket, SendRest, SendBufferCrc, SendValidFw, SendSystemReset, Receive, Quiet, At
<1>3. CASE TaskStep
      BY <1>3 DEF TaskStep, TaskCheck, TaskUnlock, TaskSetReady, TaskLock, TaskReport, TaskOnly
<1>4. CASE DisconnectAll \/ LinkLoss
      BY <1>4 DEF DisconnectAll, LinkLoss, Disconnected, dfu_fw_reboot, Running
<1>5. CASE Boot \/ PowerLoss \/ PowerLossInUpdate \/ PowerLossInActivation
      BY <1>5 DEF Boot, PowerLoss, PowerLossInUpdate, PowerLossInActivation, Running
<1>6. CASE UNCHANGED vars
      BY <1>6 DEF vars, dfuVars, Running
<1>7. QED
      BY <1>1, <1>2, <1>3, <1>4, <1>5, <1>6, Zenon DEF Next, ClientStep, Over

\* How an update ends, and that it stays ended.
LEMMA Endings ==
    ASSUME SessionInv, [Next]_vars
    PROVE  /\ client \in {"done", "declined"} => client' = client
           /\ client' = "done" => client = "done" \/ SendActiveImageReset
           /\ client' = "declined" => client = "declined" \/ (SendSystemReset /\ client = "activate")
<1>1. CASE Connect \/ Reconnect \/ Enable \/ Info \/ Start \/ Offset
      BY <1>1 DEF Connect, Reconnect, Enable, Info, Start, Offset, GoTo, At
<1>2. CASE SendPacket \/ SendRest \/ SendBufferCrc \/ SendValidFw
      BY <1>2 DEF SendPacket, SendRest, SendBufferCrc, SendValidFw, GoTo, At
<1>3. CASE SendActiveImageReset \/ SendSystemReset
      BY <1>3 DEF SendActiveImageReset, SendSystemReset, At
<1>4. CASE Receive
  <2>1. Head(notif).op \in Answers
        BY <1>4, Taken
  <2>2. CASE Head(notif).op # client
        BY <1>4, <2>2 DEF Receive, clientVars
  <2>3. CASE Head(notif).op = client
    <3>1. client' = CASE client = "BUFFER_CHECK_EN"    -> "info"
                      [] client = "REPORT_TARGET_INFO" -> "start"
                      [] client = "START_DFU"          -> "offset"
                      [] client = "REPORT_BUFFER_CRC"  -> "send"
                      [] client = "VALID_FW" ->
                            IF Head(notif).res # "SUCCESS" THEN "reset"
                            ELSE IF current.k < Len(Plan) THEN "info" ELSE "activate"
          BY <1>4, <2>3 DEF Receive
    <3>2. client \in Answers
          BY <2>1, <2>3
    <3>3. client \notin {"done", "declined"} /\ client' \notin {"done", "declined"}
          BY <3>1, <3>2 DEF Answers
    <3>4. QED
          BY <3>3
  <2>4. QED
        BY <2>2, <2>3
<1>5. CASE TaskStep
      BY <1>5 DEF TaskStep, TaskCheck, TaskUnlock, TaskSetReady, TaskLock, TaskReport, TaskOnly, clientVars
<1>6. CASE DisconnectAll \/ LinkLoss
      BY <1>6 DEF DisconnectAll, LinkLoss, Lost, clientVars
<1>7. CASE Boot \/ PowerLoss \/ PowerLossInUpdate \/ PowerLossInActivation
      BY <1>7 DEF Boot, PowerLoss, PowerLossInUpdate, PowerLossInActivation, clientVars
<1>8. CASE UNCHANGED vars
      BY <1>8 DEF vars, clientVars
<1>9. QED
      BY <1>1, <1>2, <1>3, <1>4, <1>5, <1>6, <1>7, <1>8 DEF Next, ClientStep, Over

\* The flash is protected between two steps.
LEMMA ClosedStep ==
    ASSUME SessionInv, Steady, CountOK, ClosedOK, LaidOK, WholeOK, WordsOK, [Next]_vars
    PROVE  ClosedOK'
<1>1. active_rst_pending' => client' = "done"
  <2>1. CASE SendActiveImageReset
        BY <2>1 DEF SendActiveImageReset
  <2>2. CASE ~SendActiveImageReset
        BY <2>2, PendingKept, Endings DEF ClosedOK
  <2>3. QED
        BY <2>1, <2>2
<1>2. CASE WriteSteps
  <2>1. /\ Grew \/ Cut \/ UNCHANGED nor
        /\ Running /\ UNCHANGED active_rst_pending
        BY <1>2, WriteStep
  <2>2. nor \in Flash /\ nor.faults = MaxFaults
        BY DEF ClosedOK
  <2>3. CASE Grew
    <3>1. nor' \in Flash /\ nor'.bp = TRUE /\ nor'.faults = nor.faults
          BY <2>3 DEF Grew, Grown
    <3>2. QED
          BY <1>1, <2>2, <3>1 DEF ClosedOK
  <2>4. CASE UNCHANGED nor
        BY <1>1, <2>1, <2>2, <2>4 DEF ClosedOK
  <2>5. CASE Cut
        BY <1>1, <2>2, <2>5 DEF ClosedOK, Cut
  <2>6. QED
        BY <2>1, <2>3, <2>4, <2>5
<1>3. CASE SetSteps
  <2>1. /\ nor' \in Flash /\ nor'.faults = MaxFaults
        /\ active_rst_pending' = TRUE \/ power' = "fail"
        BY <1>3, SetStep
  <2>2. QED
        BY <1>1, <2>1 DEF ClosedOK, Running
<1>4. CASE ~WriteSteps /\ ~SetSteps
  <2>1. /\ nor' \in Flash /\ nor'.faults = nor.faults
        /\ UNCHANGED nor \/ (Boot /\ nor'.bp = TRUE)
        BY <1>4, StillStep
  <2>5. ~SendActiveImageReset
        BY <1>4 DEF SetSteps
  <2>2. Running' /\ ~Boot => Running /\ UNCHANGED active_rst_pending
        BY <2>5, PendingKept, Zenon
  <2>3. ASSUME Running', ~active_rst_pending'
        PROVE  nor'.bp = TRUE
    <3>1. CASE Boot
          BY <2>1, <3>1, BpType DEF Boot, ClosedOK
    <3>2. CASE ~Boot
          BY <2>1, <2>2, <2>3, <3>2 DEF ClosedOK
    <3>3. QED
          BY <3>1, <3>2
  <2>4. QED
        BY <1>1, <2>1, <2>3 DEF ClosedOK
<1>5. QED
      BY <1>2, <1>3, <1>4

\* A packet moves client and buffer by whole words.
LEMMA PacketWords ==
    ASSUME SessionInv, Steady, WordsOK, Running, NEW length \in Nat \ {0}, length % WORD = 0,
           NEW fate \in {"arrives", "damaged", "lost"}, Packet(length, fate)
    PROVE  sent' % WORD = 0 /\ Used' % WORD = 0
<1>1. /\ WORD \in Nat \ {0} /\ sent \in Nat /\ sent % WORD = 0
      /\ Used \in Nat /\ Used % WORD = 0
      /\ ota_temp_buffer \in Seq(Content) /\ Img \in Image
      BY Words, ImageType DEF SessionInv, Shape, WordsOK, Used
<1>2. sent' = sent + length
      BY DEF Packet
<1>3. sent' % WORD = 0
      BY <1>1, <1>2, Words
<1>4. CASE fate = "lost"
  <2>1. UNCHANGED ota_temp_buffer
        BY <1>4 DEF Packet, dfuVars, ramVars, sessionVars
  <2>2. QED
        BY <1>1, <1>3, <2>1 DEF Used
<1>5. CASE fate # "lost"
  <2>1. PICK data : PacketReq(data) /\ Len(data) = length /\ \E S : data \in Seq(S)
    <3>1. PICK cells : cells = Cells(Img, pos + sent, length)
          OBVIOUS
    <3>2. Len(cells) = length /\ \E S : cells \in Seq(S)
      <4>1. pos + sent \in Nat
            BY <1>1 DEF SessionInv, Shape
      <4>2. QED
            BY <3>1, <4>1, CellsAt
    <3>3. /\ Len([cells EXCEPT ![1] = Torn]) = length
          /\ \E S : [cells EXCEPT ![1] = Torn] \in Seq(S)
      <4>1. PICK S : cells \in Seq(S)
            BY <3>2
      <4>2. PICK T : T = S \cup {Torn}
            OBVIOUS
      <4>3. cells \in Seq(T) /\ Torn \in T /\ Len(cells) = length
            BY <3>2, <4>1, <4>2
      <4>4. [cells EXCEPT ![1] = Torn] \in Seq(T) /\ Len([cells EXCEPT ![1] = Torn]) = length
            BY <4>3
      <4>5. QED
            BY <4>4
    <3>4. PacketReq(cells) \/ PacketReq([cells EXCEPT ![1] = Torn])
          BY <1>5, <3>1 DEF Packet
    <3>5. QED
          BY <3>2, <3>3, <3>4
  <2>2. ota_temp_buffer' \in {ota_temp_buffer, ota_temp_buffer \o data, << >>}
        BY <2>1 DEF PacketReq, PacketIgnored, PacketBuffered, PacketPlain,
           dfuVars, sessionVars, ramVars
  <2>3. Len(ota_temp_buffer \o data) = Used + length
    <3>1. PICK S : data \in Seq(S)
          BY <2>1
    <3>2. QED
          BY <1>1, <2>1, <3>1 DEF Used
  <2>4. 0 % WORD = 0 /\ (Used + length) % WORD = 0
        BY <1>1, Words
  <2>5. Used' \in {Used, Used + length, 0}
        BY <2>2, <2>3 DEF Used
  <2>6. QED
        BY <1>1, <1>3, <2>4, <2>5
<1>6. QED
      BY <1>4, <1>5

\* Every step leaves client and service between two words.
LEMMA WordsStep ==
    ASSUME SessionInv, Steady, CountOK, ClosedOK, LaidOK, WholeOK, WordsOK, [Next]_vars
    PROVE  WordsOK'
<1>1. /\ WORD \in Nat \ {0} /\ 0 % WORD = 0 /\ Shape
      /\ pos % WORD = 0 /\ sent % WORD = 0 /\ cur_offset \in Nat
      BY Words, ServiceAssumption DEF WordsOK, SessionInv, Shape
<1>2. CASE WriteSteps
  <2>1. /\ \/ Grew \/ Cut
           \/ UNCHANGED nor /\ (Running' => UNCHANGED cur_offset)
        /\ Running /\ client = "send"
        BY <1>2, WriteStep
  <2>2. cur_offset % WORD = 0 /\ Used % WORD = 0
        BY <2>1 DEF WordsOK
  <2>3. ASSUME Running'
        PROVE  cur_offset' % WORD = 0
    <3>1. CASE Grew
      <4>1. PICK length \in 1 .. SECTOR : length % WORD = 0 /\ cur_offset' = cur_offset + length
            BY <2>3, <3>1 DEF Grew
      <4>2. length \in Nat
            BY FlashAssumption
      <4>3. QED
            BY <1>1, <2>2, <4>1, <4>2, Words
    <3>2. QED
          BY <2>1, <2>2, <2>3, <3>1 DEF Cut
  <2>4. CASE SendPacket \/ SendRest
    <3>1. UNCHANGED pos
          BY <2>4 DEF SendPacket, SendRest
    <3>2. PICK length \in Nat \ {0}, fate \in {"arrives", "damaged", "lost"} :
             length % WORD = 0 /\ Packet(length, fate)
      <4>1. CASE SendPacket
        <5>1. PICK length \in current.by.chunks, fate \in {"arrives", "damaged", "lost"} :
                   Packet(length, fate)
              BY <4>1 DEF SendPacket
        <5>2. QED
              BY <1>1, <5>1, ChunkWords
      <4>2. CASE SendRest
        <5>1. PICK length : length = Total[Img] - pos - sent
              OBVIOUS
        <5>2. Packet(length, "arrives") /\ pos + sent < Total[Img]
              BY <4>2, <5>1 DEF SendRest
        <5>3. Total[Img] \in Nat /\ pos \in Nat /\ sent \in Nat
              BY <1>1, ImageType DEF Shape
        <5>4. length \in Nat \ {0}
              BY <5>1, <5>2, <5>3
        <5>5. length % WORD = 0
              BY <1>1, <5>1, <5>2, RestWords
        <5>6. QED
              BY <5>2, <5>4, <5>5
      <4>3. QED
            BY <2>4, <4>1, <4>2
    <3>3. sent' % WORD = 0 /\ Used' % WORD = 0
          BY <2>1, <3>2, PacketWords
    <3>4. QED
          BY <1>1, <2>3, <3>1, <3>3 DEF WordsOK
  <2>5. CASE SendBufferCrc
    <3>1. UNCHANGED <<pos, sent>> /\ ota_temp_buffer' = << >>
          BY <2>5 DEF SendBufferCrc, ReportBufferCrc, GoTo
    <3>2. Used' = 0
          BY <3>1 DEF Used
    <3>3. QED
          BY <1>1, <2>3, <3>1, <3>2 DEF WordsOK
  <2>6. CASE PowerLossInUpdate
    <3>1. UNCHANGED <<pos, sent>> /\ ~Running'
          BY <2>6 DEF PowerLossInUpdate, Running, clientVars
    <3>2. QED
          BY <1>1, <3>1 DEF WordsOK
  <2>7. QED
        BY <1>2, <2>4, <2>5, <2>6 DEF WriteSteps
<1>3. CASE Info
  <2>1. UNCHANGED <<pos, sent, ota_temp_buffer>> /\ cur_offset' = 0 /\ Running
        BY <1>3 DEF Info, At, ReportTargetInfo, GoTo
  <2>2. QED
        BY <1>1, <2>1 DEF WordsOK, Used
<1>4. CASE Offset \/ Boot
  <2>1. /\ cur_offset' = 0 /\ ota_temp_buffer' = << >>
        /\ pos' \in {pos, 0} /\ sent' \in {sent, 0}
        BY <1>4 DEF Offset, ReceiveFwImageInfo, Boot, RamReset
  <2>2. Used' = 0
        BY <2>1 DEF Used
  <2>3. QED
        BY <1>1, <2>1, <2>2 DEF WordsOK
<1>5. CASE Receive
  <2>1. Running /\ notif # << >> /\ UNCHANGED <<ota_temp_buffer, cur_offset>>
        BY <1>5 DEF Receive, ramVars, sessionVars
  <2>2. cur_offset % WORD = 0 /\ Used % WORD = 0
        BY <2>1 DEF WordsOK
  <2>3. pos' \in {pos, cur_offset} /\ sent' \in {sent, 0}
    <3>1. CASE Head(notif).op # client
          BY <1>5, <3>1 DEF Receive, clientVars
    <3>2. CASE Head(notif).op = client /\ client # "REPORT_BUFFER_CRC"
          BY <1>5, <3>2 DEF Receive
    <3>3. CASE Head(notif).op = client /\ client = "REPORT_BUFFER_CRC"
      <4>1. pos' = Head(notif).off /\ sent' = 0
            BY <1>5, <3>3 DEF Receive
      <4>2. OneReport(notif, cur_offset) /\ notif \in Seq(Notification)
            BY <3>3 DEF SessionInv, ReportOK, Shape
      <4>3. Head(notif).off = cur_offset
            BY <2>1, <3>3, <4>2 DEF OneReport
      <4>4. QED
            BY <4>1, <4>3
    <3>4. QED
          BY <3>1, <3>2, <3>3
  <2>4. QED
        BY <1>1, <2>1, <2>2, <2>3 DEF WordsOK, Used
<1>6. CASE ~WriteSteps /\ ~Info /\ ~Offset /\ ~Boot /\ ~Receive
  <2>1. UNCHANGED <<pos, sent, ota_temp_buffer>>
    <3>1. CASE Connect \/ Reconnect \/ Enable \/ Start
          BY <3>1 DEF Connect, Reconnect, Enable, Start, BufferCheckEn, StartDfu, dfuVars,
             ramVars, sessionVars, GoTo
    <3>2. CASE SendValidFw \/ SendActiveImageReset \/ SendSystemReset
          BY <3>2 DEF SendValidFw, SendActiveImageReset, SendSystemReset,
             ValidFw, ActiveImageReset, SystemReset, ramVars, sessionVars, GoTo
    <3>3. CASE TaskStep
          BY <3>3 DEF TaskStep, TaskCheck, TaskUnlock, TaskSetReady, TaskLock, TaskReport,
             TaskOnly, sessionVars, clientVars
    <3>4. CASE DisconnectAll \/ LinkLoss \/ PowerLoss \/ PowerLossInActivation
          BY <3>4 DEF DisconnectAll, LinkLoss, PowerLoss, PowerLossInActivation, ramVars,
             sessionVars, clientVars
    <3>5. CASE UNCHANGED vars
          BY <3>5 DEF vars, dfuVars, ramVars, sessionVars, clientVars
    <3>6. QED
          BY <1>6, <3>1, <3>2, <3>3, <3>4, <3>5 DEF Next, ClientStep, Over, WriteSteps
  <2>2. UNCHANGED cur_offset
        BY <1>6, OffsetKept DEF WriteSteps
  <2>3. Running' => Running
    <3>1. CASE SendActiveImageReset
          BY <3>1 DEF SendActiveImageReset, At
    <3>2. CASE ~SendActiveImageReset
      <4>1. Running' /\ ~Boot => Running
            BY <3>2, PendingKept, Zenon
      <4>2. QED
            BY <1>6, <4>1, Zenon
    <3>3. QED
          BY <3>1, <3>2
  <2>4. QED
        BY <1>1, <2>1, <2>2, <2>3 DEF WordsOK, Used
<1>7. QED
      BY <1>2, <1>3, <1>4, <1>5, <1>6

\* The frontier before and after a step is about the same plan.
LEMMA LaidNext ==
    ASSUME Shape, [Next]_vars, NEW f, Laid(nor', f)
    PROVE  Laid(nor, f)'
BY LayoutSame DEF Laid

\* At the start of the bank there is nothing to keep.
LEMMA LaidBase ==
    ASSUME Shape, Steady, NEW n
    PROVE  Laid(n, Base)
<1>1. /\ \A c \in Clients : OneBank(c.plan)
      /\ ~BankSwitch
      BY DEF Steady
<1>2. Base \in Nat /\ Size \in Nat /\ Base % SECTOR = 0
      BY <1>1, Layout
<1>3. Upper(Base) = Base
      BY <1>2 DEF Upper
<1>4. ASSUME NEW j \in 1 .. Len(Plan), NEW i \in 0 .. Total[Plan[j]] - 1
      PROVE  ~(Place(j) + i < Base)
  <2>1. Place(j) \in Nat /\ Base <= Place(j) /\ Total[Plan[j]] \in Nat
        BY <1>1, Layout
  <2>2. QED
        BY <1>2, <2>1
<1>5. Base .. Upper(Base) - 1 = {}
      BY <1>2, <1>3
<1>6. \A a \in Area : Base <= a
      BY <1>2 DEF Area
<1>7. QED
      BY <1>3, <1>4, <1>5, <1>6 DEF Laid

\* Before the image is sent the frontier stays where it starts.
LEMMA FrontLaid ==
    ASSUME SessionInv, Steady, CountOK, ClosedOK, LaidOK, [Next]_vars, Running',
           client' \in Front \cup Started
    PROVE  \E f : f = Place(current.k)' /\ Laid(nor', f)
<1>1. /\ Shape /\ Patient
      /\ \A c \in Clients : OneBank(c.plan)
      /\ ~BankSwitch
      BY DEF SessionInv, Steady
<1>2. \A k : Place(k)' = Place(k)
      BY <1>1, LayoutSame
<1>3. PICK j : j = current'.k
      OBVIOUS
<1>4. Place(current.k)' = Place(j)
  <2>1. Base' = Base /\ Plan' = Plan
        BY <1>1, LayoutSame
  <2>2. QED
        BY <1>3, <2>1 DEF Place
<1>5. SUFFICES Laid(nor', Place(j))
      BY <1>4
<1>6. CASE Connect /\ j = 1
  <2>1. Place(1) = Base
        BY <1>1, Layout
  <2>2. QED
        BY <1>1, <1>6, <2>1, LaidBase
<1>7. CASE Receive /\ Running /\ client = "VALID_FW" /\ current.k < Len(Plan) /\ j = current.k + 1
  <2>1. Laid(nor, Behind(current.k)) /\ UNCHANGED nor
        BY <1>7 DEF LaidOK, Receive
  <2>2. Place(j) = Behind(current.k)
    <3>1. PICK i : i = current.k
          OBVIOUS
    <3>2. /\ Len(Plan) \in Nat /\ i \in 1 .. Len(Plan)
          /\ \A k \in 1 .. Len(Plan) : k # 1 => Place(k) = Behind(k - 1)
          BY <1>1, <3>1, Layout
    <3>3. j \in 1 .. Len(Plan) /\ j # 1 /\ j - 1 = i
          BY <1>7, <3>1, <3>2
    <3>4. QED
          BY <3>1, <3>2, <3>3
  <2>3. QED
        BY <2>1, <2>2
<1>8. CASE Running /\ client \in Front \cup Started /\ UNCHANGED current
  <2>1. Laid(nor, Place(current.k))
        BY <1>8 DEF LaidOK
  <2>2. client # "send" /\ client # "activate"
        BY <1>8 DEF Front, Started
  <2>3. ~WriteSteps /\ ~SetSteps
        BY <2>2 DEF WriteSteps, SetSteps, SendPacket, SendRest, SendBufferCrc, PowerLossInUpdate,
           SendActiveImageReset, PowerLossInActivation, At
  <2>4. nor'.mem = nor.mem /\ nor'.ready = nor.ready
        BY <2>3, StillStep
  <2>5. Place(current.k) = Place(j)
        BY <1>3, <1>8
  <2>6. QED
        BY <2>1, <2>4, <2>5 DEF Laid
<1>9. \/ Connect /\ current'.k = 1
      \/ /\ Receive /\ Running /\ client = "VALID_FW" /\ current.k < Len(Plan)
         /\ current'.k = current.k + 1
      \/ Running /\ client \in Front \cup Started /\ UNCHANGED current
      BY <1>1, Stage DEF Front, Started, Writing
<1>10. QED
       BY <1>3, <1>6, <1>7, <1>8, <1>9

\* While it is sent the frontier moves with what is written.
LEMMA WritingLaid ==
    ASSUME SessionInv, Steady, CountOK, ClosedOK, LaidOK, WholeOK, WordsOK, [Next]_vars, Running',
           client' \in Writing
    PROVE  \E f : f = (Place(current.k) + cur_offset)' /\ Laid(nor', f)
<1>1. Shape /\ Patient
      BY DEF SessionInv, Steady
<1>2. \/ Running /\ UNCHANGED current /\ Offset /\ client = "offset"
      \/ Running /\ UNCHANGED current /\ client \in Writing
      BY <1>1, Stage DEF Front, Started, Writing
<1>3. PICK p : p = Place(current.k)
      OBVIOUS
<1>4. p \in Nat /\ (Place(current.k) + cur_offset)' = p + cur_offset'
  <2>1. Place(current.k)' = Place(current.k)
    <3>1. Base' = Base /\ Plan' = Plan
          BY <1>1, LayoutSame
    <3>2. QED
          BY <1>2, <3>1 DEF Place
  <2>2. Place(current.k) \in Nat
        BY <1>1, SentPlace
  <2>3. QED
        BY <1>3, <2>1, <2>2
<1>5. SUFFICES Laid(nor', p + cur_offset')
      BY <1>4
<1>6. CASE Running /\ Offset /\ client = "offset"
  <2>1. Laid(nor, p)
        BY <1>3, <1>6 DEF LaidOK, Started
  <2>2. UNCHANGED nor /\ cur_offset' = 0
        BY <1>6 DEF Offset, ReceiveFwImageInfo
  <2>3. p + cur_offset' = p
        BY <1>4, <2>2
  <2>4. QED
        BY <2>1, <2>2, <2>3
<1>7. CASE Running /\ client \in Writing
  <2>1. PICK f : f = p + cur_offset /\ Laid(nor, f)
        BY <1>3, <1>7 DEF LaidOK
  <2>2. CASE WriteSteps
    <3>1. Grew \/ (UNCHANGED nor /\ UNCHANGED cur_offset)
          BY <2>2, WriteStep DEF Cut
    <3>2. CASE Grew
      <4>1. PICK length \in 1 .. SECTOR :
                   /\ cur_offset + length <= Total[Img]
                   /\ Grown(nor', nor, Place(current.k) + cur_offset, Cells(Img, cur_offset, length))
                   /\ cur_offset' = cur_offset + length
            BY <3>2 DEF Grew
      <4>2. PICK c \in Nat : c = cur_offset
            BY <1>1 DEF Shape
      <4>3. nor \in Flash /\ length \in Nat
            BY FlashAssumption DEF ClosedOK
      <4>4. Laid(nor', f + length)
            BY <1>1, <1>3, <2>1, <4>1, <4>2, <4>3, GrownLaid
      <4>5. f + length = p + cur_offset'
            BY <1>4, <2>1, <4>1, <4>2, <4>3
      <4>6. QED
            BY <4>4, <4>5
    <3>3. QED
          BY <2>1, <3>1, <3>2
  <2>3. CASE ~WriteSteps
    <3>1. client # "activate" /\ client # "info" /\ client # "offset"
          BY <1>7 DEF Writing
    <3>2. ~SetSteps /\ ~Info /\ ~Offset /\ ~Boot
          BY <1>7, <3>1 DEF SetSteps, SendActiveImageReset, PowerLossInActivation, Info, Offset, Boot,
             Running, At
    <3>3. ~(SendPacket \/ SendRest \/ SendBufferCrc)
          BY <2>3 DEF WriteSteps
    <3>4. UNCHANGED cur_offset
          BY <3>2, <3>3, OffsetKept
    <3>5. nor'.mem = nor.mem /\ nor'.ready = nor.ready
          BY <2>3, <3>2, StillStep
    <3>6. QED
          BY <2>1, <3>4, <3>5 DEF Laid
  <2>4. QED
        BY <2>2, <2>3
<1>8. QED
      BY <1>2, <1>6, <1>7

\* From VALID_FW on it is behind the image.
LEMMA BehindLaid ==
    ASSUME SessionInv, Steady, TurnsOK, CountOK, ClosedOK, LaidOK, WholeOK, WordsOK, [Next]_vars, Running',
           client' \in {"VALID_FW", "activate"} \/ Pending'
    PROVE  \E f : f = Behind(current.k)' /\ Laid(nor', f)
<1>1. Shape /\ Patient
      BY DEF SessionInv, Steady
<1>2. Telling
      BY DEF Steady, Telling
<1>3. \/ SendValidFw /\ Running /\ client = "send" /\ UNCHANGED current
      \/ Receive /\ Running /\ client = "VALID_FW" /\ UNCHANGED current
      \/ Running /\ client' \in {"VALID_FW", "activate"} /\ client' = client /\ UNCHANGED current
      \/ Running /\ Pending /\ client \in GivenUp \cup {"VALID_FW"} /\ UNCHANGED current
  <2>1. CASE client' \in {"VALID_FW", "activate"}
        BY <1>1, <2>1, Stage DEF Front, Started, Writing
  <2>2. CASE Pending' /\ ~SendValidFw
        BY <2>2, PendingStep DEF CountOK
  <2>3. CASE SendValidFw
    <3>1. client' = "VALID_FW"
          BY <2>3 DEF SendValidFw, GoTo
    <3>2. QED
          BY <2>1, <3>1
  <2>4. QED
        BY <2>1, <2>2, <2>3
<1>4. PICK b : b = Behind(current.k)
      OBVIOUS
<1>5. Behind(current.k)' = b
  <2>1. Base' = Base /\ Plan' = Plan
        BY <1>1, LayoutSame
  <2>2. QED
        BY <1>3, <1>4, <2>1 DEF Behind, Place
<1>6. SUFFICES Laid(nor', b)
      BY <1>5
<1>7. CASE SendValidFw /\ Running /\ client = "send"
  <2>1. cur_offset = Total[Img]
        BY <1>2, <1>7, AllSent
  <2>2. Laid(nor, Place(current.k) + cur_offset)
        BY <1>7 DEF LaidOK, Writing
  <2>3. Place(current.k) + cur_offset = b
        BY <1>4, <2>1 DEF Behind, Img
  <2>4. UNCHANGED nor
        BY <1>7 DEF SendValidFw, ValidFw
  <2>5. QED
        BY <2>2, <2>3, <2>4
<1>8. CASE Receive /\ Running /\ client = "VALID_FW"
  <2>1. Laid(nor, b) /\ UNCHANGED nor
        BY <1>4, <1>8 DEF LaidOK, Receive
  <2>2. QED
        BY <2>1
<1>9. ASSUME Running, client \in {"VALID_FW", "activate"} \/ Pending,
             client \in GivenUp \cup {"VALID_FW"} \/ (client = "activate" /\ client' = client)
      PROVE  Laid(nor', b)
  <2>1. Laid(nor, b)
        BY <1>4, <1>9 DEF LaidOK
  <2>2. client # "send"
        BY <1>9 DEF GivenUp
  <2>3. ~WriteSteps
        BY <2>2 DEF WriteSteps, SendPacket, SendRest, SendBufferCrc, PowerLossInUpdate, At
  <2>4. ~SetSteps
    <3>1. CASE SendActiveImageReset
          BY <1>9, <3>1 DEF SendActiveImageReset, GivenUp, At
    <3>2. CASE PowerLossInActivation
          BY <3>2 DEF PowerLossInActivation, Running
    <3>3. QED
          BY <3>1, <3>2 DEF SetSteps
  <2>5. nor'.mem = nor.mem /\ nor'.ready = nor.ready
        BY <2>3, <2>4, StillStep
  <2>6. QED
        BY <2>1, <2>5 DEF Laid
<1>10. QED
       BY <1>3, <1>7, <1>8, <1>9

\* The frontier stays at its place.
LEMMA LaidStep ==
    ASSUME SessionInv, Steady, TurnsOK, CountOK, ClosedOK, LaidOK, WholeOK, WordsOK, [Next]_vars
    PROVE  LaidOK'
<1>1. Shape
      BY DEF SessionInv
<1>2. ASSUME Running', client' \in Front \cup Started
      PROVE  Laid(nor, Place(current.k))'
  <2>1. PICK f : f = Place(current.k)' /\ Laid(nor', f)
        BY <1>2, FrontLaid
  <2>2. Laid(nor, f)'
        BY <1>1, <2>1, LaidNext
  <2>3. QED
        BY <2>1, <2>2 DEF Laid
<1>3. ASSUME Running', client' \in Writing
      PROVE  Laid(nor, Place(current.k) + cur_offset)'
  <2>1. PICK f : f = (Place(current.k) + cur_offset)' /\ Laid(nor', f)
        BY <1>3, WritingLaid
  <2>2. Laid(nor, f)'
        BY <1>1, <2>1, LaidNext
  <2>3. QED
        BY <2>1, <2>2 DEF Laid
<1>4. ASSUME Running', client' \in {"VALID_FW", "activate"} \/ Pending'
      PROVE  Laid(nor, Behind(current.k))'
  <2>1. PICK f : f = Behind(current.k)' /\ Laid(nor', f)
        BY <1>4, BehindLaid
  <2>2. Laid(nor, f)'
        BY <1>1, <2>1, LaidNext
  <2>3. QED
        BY <2>1, <2>2 DEF Laid
<1>5. QED
      BY <1>2, <1>3, <1>4 DEF LaidOK

-----------------------------------------------------------------------------
(* What is ready, and how an update ends.                                  *)

\* Every step keeps what is ready whole.
LEMMA BankReadyStep ==
    ASSUME SessionInv, Steady, CountOK, ClosedOK, LaidOK, WholeOK, WordsOK, BankReady(nor), [Next]_vars
    PROVE  BankReady(nor)'
<1>1. Shape /\ nor \in Flash
      BY DEF SessionInv, ClosedOK
<1>2. SUFFICES BankReady(nor')
  <2>1. Area' = Area
        BY <1>1, LayoutSame
  <2>2. QED
        BY <2>1 DEF BankReady, IntactAt
<1>3. CASE nor'.mem = nor.mem /\ nor'.ready = nor.ready
      BY <1>3 DEF BankReady, IntactAt
<1>4. CASE WriteSteps
  <2>1. /\ Wrote \/ UNCHANGED nor
        /\ Running /\ client = "send"
        BY <1>4, WriteStep
  <2>2. CASE Wrote
    <3>1. PICK length \in 1 .. SECTOR :
                 /\ cur_offset + length <= Total[Img]
                 /\ Touched(nor', nor, Place(current.k) + cur_offset, length)
          BY <2>2 DEF Wrote
    <3>2. PICK c \in Nat : c = cur_offset
          BY <1>1 DEF Shape
    <3>3. PICK f : f = Place(current.k) + c
          OBVIOUS
    <3>4. Laid(nor, f) /\ length \in Nat
          BY <2>1, <3>2, <3>3, FlashAssumption DEF LaidOK, Writing
    <3>5. QED
          BY <1>1, <3>1, <3>2, <3>3, <3>4, TouchedReady
  <2>3. QED
        BY <1>3, <2>1, <2>2
<1>5. CASE SetSteps
  <2>1. /\ Running /\ client = "activate"
        /\ \A x \in Addr : nor'.mem[x] = nor.mem[x]
        /\ nor'.ready \subseteq nor.ready \cup {Place(j) : j \in 1 .. Len(Plan)}
        BY <1>5, SetStep
  <2>2. Laid(nor, Behind(Len(Plan)))
        BY <2>1, PlanHeaders DEF LaidOK
  <2>3. \A m, a : IntactAt(nor, m, a) => IntactAt(nor', m, a)
        BY <2>1 DEF IntactAt
  <2>4. ASSUME NEW a \in nor'.ready
        PROVE  \E m \in Image :
                   /\ IntactAt(nor', m, a)
                   /\ a \in Area \/ \A i \in 0 .. Total[m] - 1 : a + i \notin Area
    <3>1. CASE a \in nor.ready
          BY <2>3, <3>1 DEF BankReady
    <3>2. CASE a \notin nor.ready
      <4>1. PICK j \in 1 .. Len(Plan) : a = Place(j)
            BY <2>1, <2>4, <3>2
      <4>2. IntactAt(nor', Plan[j], a) /\ Plan[j] \in Image
            BY <1>1, <2>2, <2>3, <4>1, AllLaid, ImageType
      <4>3. a \in Area
            BY <1>1, <4>1, PlaceInArea
      <4>4. QED
            BY <4>2, <4>3
    <3>3. QED
          BY <3>1, <3>2
  <2>5. QED
        BY <2>4 DEF BankReady
<1>6. CASE ~WriteSteps /\ ~SetSteps
  <2>1. nor'.mem = nor.mem /\ nor'.ready = nor.ready
        BY <1>6, StillStep
  <2>2. QED
        BY <1>3, <2>1
<1>7. QED
      BY <1>4, <1>5, <1>6

\* An update that has ended stays as it is.
LEMMA EndStep ==
    ASSUME SessionInv, Steady, CountOK, ClosedOK, LaidOK, EndOK, [Next]_vars
    PROVE  EndOK'
<1>1. Shape
      BY DEF SessionInv
<1>2. /\ Plan' = Plan
      /\ \A k : Place(k)' = Place(k)
      BY <1>1, LayoutSame
<1>3. ASSUME client' = "done", NEW k \in 1 .. Len(Plan)
      PROVE  Place(k) \in nor'.ready /\ IntactAt(nor', Plan[k], Place(k))
  <2>1. CASE client = "done"
    <3>1. ~WriteSteps /\ ~SetSteps
          BY <2>1 DEF WriteSteps, SetSteps, SendPacket, SendRest, SendBufferCrc, PowerLossInUpdate,
             SendActiveImageReset, PowerLossInActivation, At
    <3>2. nor'.mem = nor.mem /\ nor'.ready = nor.ready
          BY <3>1, StillStep
    <3>3. QED
          BY <2>1, <3>2 DEF EndOK, IntactAt
  <2>2. CASE SendActiveImageReset
    <3>1. /\ Running /\ client = "activate"
          /\ \A x \in Addr : nor'.mem[x] = nor.mem[x]
          /\ \/ \A j \in 1 .. Len(Plan) : Place(j) \in nor'.ready
             \/ client' = "activate"
          BY <2>2, SetStep DEF SetSteps
    <3>2. Laid(nor, Behind(Len(Plan)))
          BY <3>1, PlanHeaders DEF LaidOK
    <3>3. IntactAt(nor, Plan[k], Place(k))
          BY <1>1, <3>2, AllLaid DEF ClosedOK
    <3>4. IntactAt(nor', Plan[k], Place(k))
          BY <3>1, <3>3 DEF IntactAt
    <3>5. client' # "activate"
          BY <1>3
    <3>6. QED
          BY <3>1, <3>4, <3>5
  <2>3. QED
        BY <1>3, <2>1, <2>2, Endings
<1>4. ASSUME client' = "declined", NEW k \in 1 .. Len(Plan)
      PROVE  Place(k) \notin nor'.ready
  <2>1. CASE client = "declined"
    <3>1. ~WriteSteps /\ ~SetSteps
          BY <2>1 DEF WriteSteps, SetSteps, SendPacket, SendRest, SendBufferCrc, PowerLossInUpdate,
             SendActiveImageReset, PowerLossInActivation, At
    <3>2. nor'.ready = nor.ready
          BY <3>1, StillStep
    <3>3. QED
          BY <2>1, <3>2 DEF EndOK
  <2>2. CASE SendSystemReset /\ client = "activate"
    <3>1. Running
          BY <2>2 DEF SendSystemReset
    <3>2. Laid(nor, Behind(Len(Plan)))
          BY <2>2, <3>1, PlanHeaders DEF LaidOK
    <3>3. Place(k) \notin nor.ready
          BY <1>1, <3>2, AllLaid DEF ClosedOK
    <3>4. ~WriteSteps /\ ~SetSteps
          BY <1>4, <2>2 DEF WriteSteps, SetSteps, SendPacket, SendRest, SendBufferCrc, PowerLossInUpdate,
             SendActiveImageReset, PowerLossInActivation, At, clientVars
    <3>5. nor'.ready = nor.ready
          BY <3>4, StillStep
    <3>6. QED
          BY <3>3, <3>5
  <2>3. QED
        BY <1>4, <2>1, <2>2, Endings
<1>5. QED
      BY <1>2, <1>3, <1>4 DEF EndOK, IntactAt

-----------------------------------------------------------------------------
(* All of it in every behaviour.                                           *)

SteadyInv == /\ SessionInv /\ TurnsOK /\ WholeOK /\ CountOK
             /\ ClosedOK /\ WordsOK /\ LaidOK /\ BankReady(nor) /\ EndOK
             /\ TaskOK /\ FlagsOK

\* What an earlier update left ready is whole, in the bank or apart from it.
LEMMA BankReadyInit ==
    ASSUME Init, Steady, Shape
    PROVE  BankReady(nor)
<1>1. OldApart /\ OldWhole
      BY DEF Steady, OldWhole, OldApart
<1>2. nor.ready = {OldImage[m] : m \in DOMAIN OldImage}
      BY DEF Init, OldFlash
<1>3. current.by \in Clients /\ Area = Bank(IdOf[current.by.plan[1]])
      BY DEF Shape, Area, Bank, Base, Size, First, Plan
<1>4. ASSUME NEW m \in DOMAIN OldImage
      PROVE  /\ m \in Image
             /\ IntactAt(nor, m, OldImage[m])
             /\ OldImage[m] \in Area \/ \A i \in 0 .. Total[m] - 1 : OldImage[m] + i \notin Area
  <2>1. m \in Image /\ OldImage[m] \in Nat /\ Total[m] \in Nat \ {0} /\ FlashSize \in Nat
        BY LayoutAssumption, ImageAssumption, FlashAssumption DEF Addr
  <2>2. ASSUME NEW i \in 0 .. Total[m] - 1
        PROVE  OldImage[m] + i \in Addr /\ nor.mem[OldImage[m] + i] = <<m, i>>
    <3>1. OldImage[m] + i \in Addr
          BY <1>1, <2>1 DEF OldWhole, Addr
    <3>2. PICK x \in Addr : x = OldImage[m] + i
          BY <3>1
    <3>3. x - OldImage[m] = i
          BY <2>1, <3>2
    <3>4. nor.mem[x] = <<m, i>>
          BY <1>1, <3>3, OldCell
    <3>5. QED
          BY <3>1, <3>2, <3>4
  <2>3. \/ OldImage[m] \in Area
        \/ \A i \in 0 .. Total[m] - 1 : OldImage[m] + i \notin Area
        BY <1>1, <1>3 DEF OldWhole
  <2>4. QED
        BY <2>1, <2>2, <2>3 DEF IntactAt
<1>5. QED
      BY <1>2, <1>4 DEF BankReady

\* The task validates an entry of the bank.
LEMMA JobTypeStep ==
    ASSUME SessionInv, Steady, CountOK, TaskOK, [Next]_vars
    PROVE  TaskOK'
<1>1. CASE TaskCheck
  <2>1. CheckId \in ImageId /\ CheckOffset \in Nat
    <3>1. /\ Shape
          /\ \A c \in Clients : OneBank(c.plan)
          /\ ~BankSwitch
          BY DEF Steady, SessionInv
    <3>2. Len(Plan) \in Nat \ {0} /\ Len(Plan) < MaxTemp /\ MaxTemp \in Nat
          BY <3>1, Layout, ServiceAssumption
    <3>3. temp_image_num \in 0 .. MaxTemp - 1
          BY <3>2 DEF CountOK, EntriesOK
    <3>4. temp_image_info[temp_image_num] \in [image_id : ImageId, image_size : Nat, image_offset : Nat]
          BY <3>3 DEF CountOK, EntriesOK
    <3>5. image_id \in ImageId
          BY <3>1 DEF Shape
    <3>6. QED
          BY <3>4, <3>5 DEF CheckId, CheckOffset
  <2>2. HeaderAddr(CheckId, CheckOffset) \in Nat
    <3>1. TempBase[CheckId] \in Nat
          BY <2>1, ImageAssumption
    <3>2. QED
          BY <2>1, <3>1 DEF HeaderAddr
  <2>3. /\ validQueue' = validQueue - 1 /\ validQueue > 0
        /\ valid' = dfu_check_checksum(nor, CheckId, CheckOffset)
        /\ header' = HeaderAddr(CheckId, CheckOffset)
        /\ task' = IF valid' /\ BankSwitch THEN "unlock" ELSE "report"
        BY <1>1, Zenon DEF TaskCheck
  <2>4. task' = "report"
        BY <2>3 DEF Steady
  <2>5. valid' \in BOOLEAN
    <3>1. dfu_check_checksum(nor, CheckId, CheckOffset) \in BOOLEAN
          BY DEF dfu_check_checksum
    <3>2. QED
          BY <2>3, <3>1
  <2>6. validQueue' \in 0 .. MaxIo
        BY <2>3, LayoutAssumption DEF TaskOK
  <2>7. QED
        BY <2>2, <2>3, <2>4, <2>5, <2>6 DEF TaskOK, Tasks
<1>2. CASE ~TaskCheck
      BY <1>2, TaskElse
<1>3. QED
      BY <1>1, <1>2

\* It all holds at the start.
LEMMA SteadyInit ==
    ASSUME Init, Steady
    PROVE  SteadyInv
<1>1. SessionInv /\ Shape
      BY SessionInit DEF SessionInv
<1>2. /\ power = "on" /\ client = "off" /\ notif = << >> /\ validQueue = 0 /\ task = "wait"
      /\ active_rst_pending = FALSE /\ nor = OldFlash /\ badPackets = 0 /\ intact = TRUE
      /\ temp_image_num = 0 /\ temp_image_info = [i \in 0 .. MaxTemp - 1 |-> NoEntry]
      /\ current.by \in Clients
      BY DEF Init, TaskInit, RamInit
<1>3. Running /\ ~Pending
      BY <1>2 DEF Running, Pending
<1>4. TurnsOK /\ WholeOK
      BY <1>2 DEF TurnsOK, InTurn, WholeOK
<1>5. CountOK
  <2>1. TempOK
        BY <1>2 DEF TempOK
  <2>2. temp_image_info \in [0 .. MaxTemp - 1 ->
                               [image_id : ImageId, image_size : Nat, image_offset : Nat]]
        BY <2>1, NoEntries
  <2>3. Len(Plan) \in Nat /\ 0 \in 0 .. MaxTemp - 1
    <3>1. /\ \A c \in Clients : OneBank(c.plan)
          /\ ~BankSwitch
          BY DEF Steady
    <3>2. Len(Plan) \in Nat \ {0} /\ Len(Plan) < MaxTemp
          BY <1>1, <3>1, Layout
    <3>3. MaxTemp \in Nat
          BY ServiceAssumption
    <3>4. QED
          BY <3>2, <3>3
  <2>4. EntriesOK
        BY <1>2, <2>2, <2>3 DEF EntriesOK
  <2>5. JobOK
        BY <1>2 DEF JobOK
  <2>6. CountBefore /\ CountAfter /\ EntryOK /\ NamedOK
        BY <1>2, <1>3 DEF CountBefore, CountAfter, EntryOK, NamedOK, Front, Started, Writing
  <2>7. QED
        BY <2>4, <2>5, <2>6 DEF CountOK
<1>6. ClosedOK
  <2>1. nor \in Flash
        BY <1>2, OldFlashType
  <2>2. nor.faults = MaxFaults - 0
        BY <1>2 DEF OldFlash, Steady
  <2>3. nor.bp = TRUE
        BY <1>2 DEF OldFlash
  <2>4. QED
        BY <1>2, <2>1, <2>2, <2>3, FlashAssumption DEF ClosedOK
<1>10. WordsOK
  <2>1. pos = 0 /\ sent = 0 /\ cur_offset = 0 /\ ota_temp_buffer = << >>
        BY DEF Init, RamInit
  <2>2. 0 % WORD = 0
        BY Words
  <2>3. QED
        BY <2>1, <2>2 DEF WordsOK, Used
<1>7. LaidOK /\ EndOK
      BY <1>2, <1>3 DEF LaidOK, EndOK, Front, Started, Writing
<1>8. TaskOK /\ FlagsOK
      BY DeviceInit DEF DeviceInv
<1>9. QED
      BY <1>1, <1>4, <1>5, <1>6, <1>7, <1>8, <1>10, BankReadyInit DEF SteadyInv

\* And in every behaviour.
LEMMA SteadyAlways == ASSUME Steady PROVE Spec => []SteadyInv
<1>1. Init => SteadyInv
      BY SteadyInit
<1>2. SteadyInv /\ [Next]_vars => SteadyInv'
  <2> SUFFICES ASSUME SteadyInv, [Next]_vars
               PROVE  SteadyInv'
      OBVIOUS
  <2>1. /\ SessionInv /\ TurnsOK /\ WholeOK /\ CountOK
        /\ ClosedOK /\ WordsOK /\ LaidOK /\ BankReady(nor) /\ EndOK
        /\ TaskOK /\ FlagsOK /\ Sizes /\ Patient
        BY DEF SteadyInv, Steady
  <2>2. SessionInv' /\ TurnsOK' /\ WholeOK' /\ CountOK'
        BY <2>1, SessionStep, TurnStep, WholeStep, CountStep
  <2>3. ClosedOK' /\ WordsOK' /\ LaidOK' /\ BankReady(nor)' /\ EndOK'
        BY <2>1, ClosedStep, WordsStep, LaidStep, BankReadyStep, EndStep
  <2>4. TaskOK' /\ FlagsOK'
        BY <2>1, JobTypeStep, FlagsStep
  <2>5. QED
        BY <2>2, <2>3, <2>4 DEF SteadyInv
<1>3. QED
      BY <1>1, <1>2, PTL DEF Spec

-----------------------------------------------------------------------------
(* What the combined bank gives the boot loader.                           *)

\* Without bank switching a reset is left pending only when every image of the
\* update stands whole and ready at its place in the combined bank, behind the
\* ones that were sent before it (dfu_service_handle_active_image,
\* dfu_service.c:629).
THEOREM AllReadyWhenActivated ==
    ASSUME Steady
    PROVE  Spec => []ActivatedReady
<1>1. SteadyInv => ActivatedReady
  <2> SUFFICES ASSUME SteadyInv, active_rst_pending, NEW k \in 1 .. Len(Plan)
               PROVE  PlaceOf(k) \in nor.ready /\ IntactAt(nor, Plan[k], PlaceOf(k))
      BY DEF ActivatedReady
  <2>1. PlaceOf(k) = Place(k)
        BY Layout DEF SteadyInv, SessionInv, Steady
  <2>2. QED
        BY <2>1 DEF SteadyInv, ClosedOK, EndOK
<1>2. QED
      BY <1>1, SteadyAlways, PTL

\* And an update that the client declined leaves none of its images ready,
\* although SYSTEM_RESET, which finds the flash protected, erases nothing
\* (dfu_service.c:990).
THEOREM NoneReadyWhenDeclined ==
    ASSUME Steady
    PROVE  Spec => []DeclinedNotReady
<1>1. SteadyInv => DeclinedNotReady
  <2> SUFFICES ASSUME SteadyInv, client = "declined", NEW k \in 1 .. Len(Plan)
               PROVE  PlaceOf(k) \notin nor.ready
      BY DEF DeclinedNotReady
  <2>1. PlaceOf(k) = Place(k)
        BY Layout DEF SteadyInv, SessionInv, Steady
  <2>2. QED
        BY <2>1 DEF SteadyInv, EndOK
<1>2. QED
      BY <1>1, SteadyAlways, PTL

\* Whatever is ready without bank switching is whole: what an earlier update
\* left, and the images of this one, also when the power goes while they are set
\* ready.
THEOREM WholeInOneBank ==
    ASSUME Steady
    PROVE  Spec => []ReadyIntact
<1>1. SteadyInv => ReadyIntact
      BY DEF SteadyInv, BankReady, ReadyIntact
<1>2. QED
      BY <1>1, SteadyAlways, PTL

\* The cells of the images that are counted lie before the image that is sent.
LEMMA ValidatedBefore ==
    ASSUME SteadyInv, Steady, NEW x \in ValidatedCells
    PROVE  \E j \in 1 .. temp_image_num :
               /\ j \in 1 .. Len(Plan) /\ ~ForUser
               /\ x \in Nat /\ Place(j) <= x /\ x < Behind(j)
<1>1. /\ Shape /\ EntriesOK
      /\ \A c \in Clients : OneBank(c.plan)
      /\ ~BankSwitch
      BY DEF SteadyInv, SessionInv, CountOK, Steady
<1>2. PICK k \in 0 .. temp_image_num - 1 :
           LET e == temp_image_info[k] IN
           x \in StartAddr(e.image_id, 0, e.image_offset) ..
                 StartAddr(e.image_id, e.image_size - 1, e.image_offset)
      BY DEF ValidatedCells
<1>3. /\ temp_image_num \in 0 .. Len(Plan) /\ Len(Plan) \in Nat
      /\ temp_image_info[k] = Entry(k + 1)
      BY <1>1, Layout DEF EntriesOK
<1>4. PICK j \in 1 .. temp_image_num : j = k + 1
      BY <1>3
<1>5. j \in 1 .. Len(Plan)
      BY <1>3, <1>4
<1>6. ~ForUser
  <2>1. ForUser => temp_image_num = 0
        BY <1>1 DEF EntriesOK
  <2>2. QED
        BY <1>3, <2>1
<1>7. /\ temp_image_info[k].image_id = IdOf[Plan[j]]
      /\ temp_image_info[k].image_size = Total[Plan[j]]
      /\ temp_image_info[k].image_offset = Offsets(Plan)[j]
      BY <1>3, <1>4 DEF Entry
<1>8. x \in Base + 0 + Offsets(Plan)[j] .. Base + (Total[Plan[j]] - 1) + Offsets(Plan)[j]
  <2>1. TempBase[IdOf[Plan[j]]] = Base
        BY <1>1, <1>5, Layout
  <2>2. PICK off, t : off = Offsets(Plan)[j] /\ t = Total[Plan[j]]
        OBVIOUS
  <2>3. PICK base : base = Base
        OBVIOUS
  <2>4. /\ base \in Nat /\ off \in Nat /\ t \in Nat \ {0}
        /\ base + off + t <= FlashSize /\ FlashSize < Wrap /\ Wrap \in Nat /\ FlashSize \in Nat
    <3>1. /\ base \in Nat /\ off \in Nat /\ t \in Nat \ {0} /\ base + off = Place(j)
          BY <1>1, <1>5, <2>2, <2>3, Layout DEF Place
    <3>2. Behind(j) <= Base + Size /\ Base + Size <= FlashSize /\ Behind(j) = Place(j) + t
          BY <1>1, <1>5, <2>2, Layout DEF Behind
    <3>3. Size \in Nat
          BY <1>1, Layout
    <3>4. QED
          BY <2>3, <3>1, <3>2, <3>3, FlashAssumption, ImageAssumption
  <2>5. (base + 0 + off) % Wrap = base + 0 + off
        BY <2>4, NoWrap
  <2>6. (base + (t - 1) + off) % Wrap = base + (t - 1) + off
        BY <2>4, NoWrap
  <2>7. x \in (base + 0 + off) % Wrap .. (base + (t - 1) + off) % Wrap
        BY <1>2, <1>7, <2>1, <2>2, <2>3 DEF StartAddr
  <2>8. QED
        BY <2>2, <2>3, <2>5, <2>6, <2>7
<1>9. Base \in Nat /\ Offsets(Plan)[j] \in Nat /\ Total[Plan[j]] \in Nat
      BY <1>1, <1>5, Layout
<1>10. x \in Nat /\ Place(j) <= x /\ x < Behind(j)
       BY <1>8, <1>9 DEF Place, Behind
<1>11. QED
       BY <1>5, <1>6, <1>10

\* No step changes the content of the flash before the frontier or outside the
\* bank.
LEMMA MemKept ==
    ASSUME SteadyInv, Steady, [Next]_vars, NEW x \in Addr,
           x \notin Area \/ (Running /\ client = "send" => x < Place(current.k) + cur_offset)
    PROVE  nor'.mem[x] = nor.mem[x]
<1>1. /\ SessionInv /\ CountOK /\ ClosedOK /\ LaidOK /\ WholeOK /\ WordsOK
      /\ Shape /\ nor \in Flash
      BY DEF SteadyInv, SessionInv, ClosedOK
<1>2. CASE WriteSteps
  <2>1. /\ Wrote \/ UNCHANGED nor
        /\ Running /\ client = "send"
        BY <1>1, <1>2, WriteStep
  <2>2. CASE Wrote
    <3>1. PICK length \in 1 .. SECTOR :
                 /\ cur_offset + length <= Total[Img]
                 /\ Touched(nor', nor, Place(current.k) + cur_offset, length)
          BY <2>2 DEF Wrote
    <3>2. PICK c \in Nat : c = cur_offset
          BY <1>1 DEF Shape
    <3>3. PICK f : f = Place(current.k) + c
          OBVIOUS
    <3>4. x < f \/ x \notin Area
          BY <2>1, <3>2, <3>3
    <3>5. length \in Nat
          BY FlashAssumption
    <3>6. Touched(nor', nor, f, length) /\ c + length <= Total[Img]
          BY <3>1, <3>2, <3>3
    <3>7. PICK w : w = nor'
          OBVIOUS
    <3>8. w.mem[x] = nor.mem[x]
      <4>1. \A y \in Addr : y < f \/ y \notin Area => w.mem[y] = nor.mem[y]
            BY <1>1, <3>2, <3>3, <3>5, <3>6, <3>7, TouchedSame
      <4>2. QED
            BY <3>2, <3>4, <4>1
    <3>9. QED
          BY <3>7, <3>8
  <2>3. QED
        BY <2>1, <2>2
<1>3. CASE SetSteps
      BY <1>1, <1>3, SetStep
<1>4. CASE ~WriteSteps /\ ~SetSteps
      BY <1>1, <1>4, StillStep
<1>5. QED
      BY <1>2, <1>3, <1>4

\* No step changes a cell of an image that is counted as validated: the images of
\* an update stay as they are while the others are sent behind them.
THEOREM ImagesStay ==
    ASSUME Steady
    PROVE  Spec => ValidatedKept
<1>1. ASSUME SteadyInv, [Next]_vars, NEW x \in ValidatedCells
      PROVE  nor'.mem[x] = nor.mem[x]
  <2>1. /\ Shape /\ CountOK
        /\ \A c \in Clients : OneBank(c.plan)
        /\ ~BankSwitch
        BY <1>1 DEF SteadyInv, SessionInv, Steady
  <2>2. x \in Addr
        BY <1>1 DEF ValidatedCells
  <2>3. ASSUME Running, client = "send"
        PROVE  x < Place(current.k) + cur_offset
    <3>1. PICK j \in 1 .. temp_image_num :
              /\ j \in 1 .. Len(Plan) /\ ~ForUser
              /\ x \in Nat /\ Place(j) <= x /\ x < Behind(j)
          BY <1>1, ValidatedBefore
    <3>2. temp_image_num = current.k - 1
          BY <2>1, <2>3, <3>1 DEF CountOK, CountBefore, Writing, Rank
    <3>3. PICK k \in 1 .. Len(Plan) : k = current.k
          BY <2>1, Layout
    <3>4. Len(Plan) \in Nat
          BY <2>1, Layout
    <3>5. j < k
          BY <3>1, <3>2, <3>3, <3>4
    <3>6. /\ Behind(j) <= Place(k) /\ Behind(j) \in Nat /\ Place(k) \in Nat
          BY <2>1, <3>1, <3>5, Layout
    <3>7. cur_offset \in Nat
          BY <2>1 DEF Shape
    <3>8. QED
          BY <3>1, <3>3, <3>6, <3>7
  <2>4. QED
        BY <1>1, <2>2, <2>3, MemKept
<1>2. SteadyInv /\ [Next]_vars => [\A x \in ValidatedCells : nor'.mem[x] = nor.mem[x]]_vars
      BY <1>1
<1>3. QED
      BY <1>2, SteadyAlways, PTL DEF Spec, ValidatedKept

\* Without bank switching the state keeps its shape: the number of entries stays
\* below the size of temp_image_info, and no offset leaves 32 bits.
THEOREM TypesInOneBank ==
    ASSUME Steady
    PROVE  Spec => []TypeOK
<1>1. SteadyInv => TypeOK
  <2> SUFFICES ASSUME SteadyInv
               PROVE  TypeOK
      OBVIOUS
  <2>1. Shape /\ EntriesOK /\ nor \in Flash /\ TaskOK /\ FlagsOK
        BY DEF SteadyInv, SessionInv, CountOK, ClosedOK
  <2>2. temp_image_num \in 0 .. MaxTemp - 1
    <3>1. Len(Plan) \in Nat \ {0} /\ Len(Plan) < MaxTemp
          BY <2>1, Layout DEF Steady
    <3>2. MaxTemp \in Nat
          BY ServiceAssumption
    <3>3. QED
          BY <2>1, <3>1, <3>2 DEF EntriesOK
  <2>3. current.by \in Clients
        BY <2>1 DEF Shape
  <2>4. QED
        BY <2>1, <2>2, <2>3 DEF Shape, EntriesOK, TaskOK, FlagsOK, Tasks, TypeOK
<1>2. QED
      BY <1>1, SteadyAlways, PTL

\* Without bank switching the flash is protected until ACTIVE_IMAGE_RESET opens
\* it for the boot loader.
THEOREM ProtectedInOneBank ==
    ASSUME Steady
    PROVE  Spec => []FlashLocked
<1>1. SteadyInv => FlashLocked
      BY DEF SteadyInv, ClosedOK, FlashLocked
<1>2. QED
      BY <1>1, SteadyAlways, PTL

\* Where the image that is sent starts, behind the ones before it.
LEMMA SentStart ==
    ASSUME SteadyInv, Steady, Running, client \in Writing
    PROVE  ImageStart = Place(current.k)
<1>1. /\ Shape /\ CountOK
      /\ \A c \in Clients : OneBank(c.plan)
      /\ ~BankSwitch
      BY DEF SteadyInv, SessionInv, Steady
<1>2. PICK k \in 1 .. Len(Plan) : k = current.k
      BY <1>1, Layout
<1>3. TempBase[Id] = Base /\ Base \in Nat /\ Offsets(Plan)[k] \in Nat
      BY <1>1, <1>2, SentPlace
<1>4. temp_image_num = Rank(k - 1)
      BY <1>1, <1>2 DEF CountOK, CountBefore
<1>5. EntryOffset = Offsets(Plan)[k]
  <2>1. CASE ForUser
    <3>1. Len(Plan) = 1 /\ Offsets(Plan)[1] = 0
          BY <1>1, <2>1, Layout
    <3>2. k = 1
          BY <1>2, <3>1
    <3>3. temp_image_num = 0 /\ temp_image_info[0] = NoEntry
          BY <1>1, <2>1 DEF CountOK, EntriesOK
    <3>4. QED
          BY <3>1, <3>2, <3>3 DEF EntryOffset, NoEntry
  <2>2. CASE ~ForUser
    <3>1. temp_image_num = k - 1
          BY <1>4, <2>2 DEF Rank
    <3>2. temp_image_info[k - 1] = Entry(k)
          BY <1>1, <1>2, <2>2 DEF CountOK, EntryOK
    <3>3. QED
          BY <3>1, <3>2 DEF EntryOffset, Entry
  <2>3. QED
        BY <2>1, <2>2
<1>6. PICK a \in Nat : a = Place(k) /\ a = Base + 0 + Offsets(Plan)[k]
      BY <1>3 DEF Place
<1>7. a < Wrap
  <2>1. a < Base + Size /\ Base + Size <= FlashSize /\ Base + Size \in Nat
    <3>1. Place(k) < Behind(k) /\ Behind(k) <= Base + Size /\ Behind(k) \in Nat
          BY <1>1, <1>2, Layout
    <3>2. Base \in Nat /\ Size \in Nat /\ Base + Size <= FlashSize
          BY <1>1, Layout
    <3>3. QED
          BY <1>6, <3>1, <3>2
  <2>2. QED
        BY <2>1, FlashAssumption, ImageAssumption
<1>8. a % Wrap = a
      BY <1>7, NoWrap
<1>9. ImageStart = (Base + 0 + Offsets(Plan)[k]) % Wrap
      BY <1>3, <1>5 DEF ImageStart, StartAddr
<1>10. QED
      BY <1>2, <1>6, <1>8, <1>9

\* What the device reports as received is in the combined bank, behind the images
\* that were sent before.
THEOREM PrefixInOneBank ==
    ASSUME Steady
    PROVE  Spec => []PrefixIntact
<1>1. SteadyInv => PrefixIntact
  <2> SUFFICES ASSUME SteadyInv, Sending, NEW i \in 0 .. cur_offset - 1
               PROVE  nor.mem[ImageStart + i] = <<Img, i>>
      BY DEF PrefixIntact
  <2>1. Running /\ client \in Writing
        BY DEF Sending, Writing
  <2>2. /\ Shape /\ SessionInv /\ Laid(nor, Place(current.k) + cur_offset)
        BY <2>1 DEF SteadyInv, SessionInv, LaidOK
  <2>3. PICK k \in 1 .. Len(Plan) : k = current.k
        BY <2>2 DEF Shape
  <2>4. /\ Place(k) \in Nat /\ Total[Img] \in Nat /\ cur_offset \in Nat /\ Img = Plan[k]
        BY <2>2, <2>3, SentPlace DEF Shape
  <2>5. cur_offset <= Total[Img]
    <3>1. CASE client = "send"
      <4>1. pos + sent <= Total[Img] /\ cur_offset + Used <= pos + sent
            BY <2>1, <2>2, <3>1 DEF SessionInv, SendOK
      <4>2. Used \in Nat /\ pos \in Nat /\ sent \in Nat
            BY <2>2 DEF Shape, Used
      <4>3. QED
            BY <2>4, <4>1, <4>2
    <3>2. CASE client = "REPORT_BUFFER_CRC"
          BY <2>1, <2>2, <3>2 DEF SessionInv, ReportOK
    <3>3. QED
          BY <2>1, <3>1, <3>2 DEF Writing
  <2>6. i \in 0 .. Total[Plan[k]] - 1 /\ Place(k) + i < Place(k) + cur_offset
        BY <2>4, <2>5
  <2>7. nor.mem[Place(k) + i] = <<Plan[k], i>>
        BY <2>2, <2>3, <2>6 DEF Laid
  <2>8. ImageStart = Place(k)
        BY <2>1, <2>3, SentStart
  <2>9. QED
        BY <2>4, <2>7, <2>8
<1>2. QED
      BY <1>1, SteadyAlways, PTL

\* And the image that is being sent is not ready.
THEOREM SentNotReadyInOneBank ==
    ASSUME Steady
    PROVE  Spec => []NotReadyWhileSent
<1>1. SteadyInv => NotReadyWhileSent
  <2> SUFFICES ASSUME SteadyInv, Sending, cur_offset > 0
               PROVE  ImageStart \notin nor.ready
      BY DEF NotReadyWhileSent
  <2>1. Running /\ client \in Writing
        BY DEF Sending, Writing
  <2>2. /\ Shape /\ Laid(nor, Place(current.k) + cur_offset)
        BY <2>1 DEF SteadyInv, SessionInv, LaidOK
  <2>3. PICK p : p = Place(current.k)
        OBVIOUS
  <2>4. p \in Nat /\ cur_offset \in Nat /\ p \in Area
        BY <2>2, <2>3, SentPlace, PlaceInArea DEF Shape
  <2>5. p + cur_offset \in Nat /\ p < p + cur_offset
        BY <2>4
  <2>6. Upper(p + cur_offset) \in Nat /\ p + cur_offset <= Upper(p + cur_offset)
        BY <2>5, UpperIs
  <2>7. ~(Upper(p + cur_offset) <= p)
        BY <2>4, <2>5, <2>6
  <2>8. p \notin nor.ready
        BY <2>2, <2>3, <2>4, <2>7 DEF Laid
  <2>9. QED
        BY <2>1, <2>3, <2>8, SentStart
<1>2. QED
      BY <1>1, SteadyAlways, PTL

\* And nothing outside the combined bank is written or erased.
THEOREM OneBankKept ==
    ASSUME Steady
    PROVE  Spec => []InsideBanks
<1>1. Init => InsideBanks
      BY DEF Init, InsideBanks
<1>2. ASSUME SteadyInv, InsideBanks, [Next]_vars
      PROVE  InsideBanks'
  <2>1. /\ Shape
        /\ \A c \in Clients : OneBank(c.plan)
        /\ ~BankSwitch
        BY <1>2 DEF SteadyInv, SessionInv, Steady
  <2>2. current'.by = current.by /\ Plan' = Plan
        BY <1>2, <2>1, SamePlan
  <2>3. OldFlash' = OldFlash
        BY <2>2 DEF OldFlash
  <2>4. \A x : InBanks(x)' <=> InBanks(x)
        BY <2>2 DEF InBanks
  <2>5. ASSUME NEW x \in Addr, ~InBanks(x)
        PROVE  nor'.mem[x] = nor.mem[x]
    <3>1. 1 \in 1 .. Len(Plan)
          BY <2>1, Layout
    <3>2. x \notin Area
          BY <2>5, <3>1 DEF InBanks, Area, Base, Size, First
    <3>3. QED
          BY <1>2, <2>5, <3>2, MemKept
  <2>6. QED
        BY <1>2, <2>3, <2>4, <2>5 DEF InsideBanks
<1>3. QED
      BY <1>1, <1>2, SteadyAlways, PTL DEF Spec
=============================================================================
