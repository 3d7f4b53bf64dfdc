---------------------------- MODULE ReadingsProofs --------------------------
(***************************************************************************)
(* Proofs about the three components of Readings, for logs, lists and      *)
(* counters of any size, and about the ten components together: a stream   *)
(* that ends with "done" has delivered the log, rotation loses only the    *)
(* oldest lines, turning pages passes over few rows, the processor's figure*)
(* is that of the time since the last reading, and all states keep their   *)
(* types.                                                                  *)
(***************************************************************************)
EXTENDS Readings, ConsoleProofs, TrafficProofs, Integers, Functions, SequenceTheorems

(* What the collector keeps is the residue of the true counters of the     *)
(* last reading, and since then the counters went forward by no more than  *)
(* the ticks allow.                                                        *)
Marked == seen # None =>
    /\ last = [total |-> (seen.busy + seen.idle) % Modulus, idle |-> seen.idle % Modulus]
    /\ kernel.busy <= seen.busy + MaxStep * ticks
    /\ kernel.idle <= seen.idle + MaxStep * ticks

BeatInv == U!TypeOK /\ Marked /\ U!CpuHonest

-----------------------------------------------------------------------------
(* Quotient and remainder.                                                 *)
LEMMA ModBounds ==
    ASSUME NEW x \in Int, NEW m \in Nat \ {0}
    PROVE  \E q \in Int, r \in 0..(m - 1) : q = x \div m /\ r = x % m /\ x = m * q + r
<1>1. x % m \in 0..(m - 1) /\ x \div m \in Int
  OBVIOUS
<1>2. m \in Int /\ m > 0
  OBVIOUS
<1>3. x % m = x - m * (x \div m)
  BY <1>2
<1>4. PICK q \in Int, s \in 0..(m - 1) : q = x \div m /\ s = x % m
  BY <1>1
<1>5. s = x - m * q
  BY <1>3, <1>4, Zenon
<1>6. x = m * q + s
  BY <1>5
<1>7. QED
  BY <1>4, <1>6, Zenon

LEMMA ModUnique ==
    ASSUME NEW m \in Nat \ {0}, NEW k \in Int, NEW r \in 0..(m - 1), NEW x \in Int,
           x = m * k + r
    PROVE  x % m = r
OBVIOUS

(* The difference of two residues has the residue of the difference.       *)
LEMMA DeltaMod ==
    ASSUME NEW m \in Nat \ {0}, NEW x \in Int, NEW y \in Int
    PROVE  ((x % m) - (y % m)) % m = (x - y) % m
<1>1. PICK p \in Int, s \in 0..(m - 1) : p = x \div m /\ s = x % m /\ x = m * p + s
  BY ModBounds
<1>2. PICK q \in Int, t \in 0..(m - 1) : q = y \div m /\ t = y % m /\ y = m * q + t
  BY ModBounds
<1>3. PICK k \in Int, r \in 0..(m - 1) : r = (s - t) % m /\ s - t = m * k + r
  <2>1. s - t \in Int
    OBVIOUS
  <2>2. QED
    BY <2>1, ModBounds
<1>4. x - y = m * (p - q + k) + r
  <2>1. x = m * p + s /\ y = m * q + t /\ s - t = m * k + r
    BY <1>1, <1>2, <1>3
  <2>2. QED
    BY <2>1
<1>5. (x - y) % m = r
  <2>1. PICK d, e \in Int : d = x - y /\ e = p - q + k
    OBVIOUS
  <2>2. d = m * e + r /\ r \in 0..(m - 1)
    BY <1>3, <1>4, <2>1
  <2>3. d % m = r
    BY <2>2, ModUnique
  <2>4. QED
    BY <2>1, <2>3
<1>6. ((x % m) - (y % m)) % m = (s - t) % m
  BY <1>1, <1>2
<1>7. QED
  BY <1>3, <1>5, <1>6, Zenon

LEMMA SmallMod ==
    ASSUME NEW m \in Nat \ {0}, NEW r \in 0..(m - 1)
    PROVE  r % m = r
BY ModUnique, r = m * 0 + r

(* Division keeps the order of natural numbers.                            *)
LEMMA DivFacts ==
    ASSUME NEW a \in Nat, NEW b \in Nat, a <= b, NEW m \in Nat \ {0}
    PROVE  a \div m \in Nat /\ b \div m \in Nat /\ a \div m <= b \div m
<1>1. PICK p \in Int, s \in 0..(m - 1) : p = a \div m /\ s \in 0..(m - 1) /\ a = m * p + s
  BY ModBounds
<1>2. PICK q \in Int, t \in 0..(m - 1) : q = b \div m /\ b = m * q + t
  BY ModBounds
<1>3. p >= 0
  <2>1. ASSUME p <= -1 PROVE FALSE
    <3>1. m * p <= -m
      BY <2>1
    <3>2. QED
      BY <1>1, <3>1
  <2>2. QED
    BY <2>1
<1>4. q >= p
  <2>1. ASSUME q - p <= -1 PROVE FALSE
    <3>1. m * (q - p) <= -m
      BY <2>1
    <3>2. m * (q - p) = m * q - m * p
      OBVIOUS
    <3>3. QED
      BY <1>1, <1>2, <3>1, <3>2
  <2>2. QED
    BY <2>1
<1>5. QED
  BY <1>1, <1>2, <1>3, <1>4

(* A share of the whole is one of 0 to 1000.                               *)
Shares == 0..1000

LEMMA TenthsRange ==
    ASSUME NEW share \in Nat, NEW whole \in Nat
    PROVE  U!Tenths(share, whole) \in Shares
<1> USE DEF Shares
<1>1. CASE share >= whole
  BY <1>1 DEF U!Tenths
<1>2. CASE share < whole
  <2>1. PICK q \in Int, s \in 0..(whole - 1) :
           q = (1000 * share) \div whole /\ 1000 * share = whole * q + s
    <3>1. PICK n \in Int : n = 1000 * share
      OBVIOUS
    <3>2. whole \in Nat \ {0}
      BY <1>2
    <3>3. PICK q \in Int, s \in 0..(whole - 1) : q = n \div whole /\ n = whole * q + s
      BY <3>2, ModBounds
    <3>4. QED
      BY <3>1, <3>3
  <2>2. q >= 0
    BY <1>2, <2>1, DivFacts, 1000 * share \in Nat
  <2>3. ASSUME q >= 1001 PROVE FALSE
    <3>1. whole * q >= 1001 * whole
      BY <2>3
    <3>2. QED
      BY <1>2, <2>1, <3>1
  <2>4. U!Tenths(share, whole) = q
    BY <1>2, <2>1 DEF U!Tenths
  <2>5. QED
    BY <2>2, <2>3, <2>4
<1>3. QED
  BY <1>1, <1>2

(* Within the whole it is the quotient, and none of it is 0.               *)
LEMMA TenthsFacts ==
    ASSUME NEW share \in Nat, NEW whole \in Nat
    PROVE  /\ whole > 0 /\ share <= whole => U!Tenths(share, whole) = (1000 * share) \div whole
           /\ whole > 0 /\ share = 0 => U!Tenths(share, whole) = 0
<1>1. CASE share >= whole
  <2>1. ASSUME whole > 0, share <= whole PROVE (1000 * share) \div whole = 1000
    <3>1. PICK q \in Int, s \in 0..(whole - 1) :
             q = (1000 * share) \div whole /\ 1000 * share = whole * q + s
      <4>1. PICK n \in Int : n = 1000 * share
        OBVIOUS
      <4>2. whole \in Nat \ {0}
        BY <2>1
      <4>3. PICK q \in Int, s \in 0..(whole - 1) : q = n \div whole /\ n = whole * q + s
        BY <4>2, ModBounds
      <4>4. QED
        BY <4>1, <4>3
    <3>2. share = whole
      BY <1>1, <2>1
    <3>3. whole * (1000 - q) = s
      <4>1. whole * (1000 - q) = 1000 * whole - whole * q
        OBVIOUS
      <4>2. QED
        BY <3>1, <3>2, <4>1
    <3>4. ASSUME 1000 - q >= 1 PROVE FALSE
      <4>1. whole * (1000 - q) >= whole
        BY <3>4
      <4>2. QED
        BY <3>1, <3>3, <4>1
    <3>5. ASSUME 1000 - q <= -1 PROVE FALSE
      <4>1. whole * (1000 - q) <= -whole
        BY <3>5
      <4>2. QED
        BY <2>1, <3>1, <3>3, <4>1
    <3>6. QED
      BY <3>1, <3>4, <3>5
  <2>2. U!Tenths(share, whole) = 1000
    BY <1>1 DEF U!Tenths
  <2>3. QED
    BY <1>1, <2>1, <2>2
<1>2. CASE share < whole
  <2>1. PICK q \in Int, s \in 0..(whole - 1) :
           q = (1000 * share) \div whole /\ 1000 * share = whole * q + s
    <3>1. PICK n \in Int : n = 1000 * share
      OBVIOUS
    <3>2. whole \in Nat \ {0}
      BY <1>2
    <3>3. PICK q \in Int, s \in 0..(whole - 1) : q = n \div whole /\ n = whole * q + s
      BY <3>2, ModBounds
    <3>4. QED
      BY <3>1, <3>3
  <2>2. q >= 0
    BY <1>2, <2>1, DivFacts, 1000 * share \in Nat
  <2>3. ASSUME share = 0 PROVE q = 0
    <3>1. ASSUME q >= 1 PROVE FALSE
      <4>1. whole * q >= whole
        BY <3>1
      <4>2. QED
        BY <1>2, <2>1, <2>3, <4>1
    <3>2. QED
      BY <2>2, <3>1
  <2>4. U!Tenths(share, whole) = q
    BY <1>2, <2>1 DEF U!Tenths
  <2>5. QED
    BY <2>1, <2>3, <2>4
<1>3. QED
  BY <1>1, <1>2

LEMMA BeatInit ==
    ASSUME U!HeartbeatAssumption, U!Init
    PROVE  BeatInv
<1>1. PICK b \in 0..1, i \in {1, Modulus - 1} : kernel = [busy |-> b, idle |-> i]
  BY DEF U!Init
<1>2. Modulus \in Nat /\ Modulus > 0
  <2>1. PICK p \in Nat : p = MaxStep * MaxAdvances
    BY DEF U!HeartbeatAssumption
  <2>2. 2 * MaxStep * MaxAdvances = 2 * p
    BY <2>1 DEF U!HeartbeatAssumption
  <2>3. QED
    BY <2>2 DEF U!HeartbeatAssumption
<1>3. U!TypeOK
  BY <1>1, <1>2 DEF U!Init, U!Never, U!TypeOK, U!HeartbeatAssumption
<1>4. QED
  BY <1>3 DEF U!Init, BeatInv, Marked, U!CpuHonest

LEMMA TimePassesFacts ==
    ASSUME U!HeartbeatAssumption, BeatInv, U!TimePasses
    PROVE  BeatInv'
<1>1. PICK b, i \in 0..MaxStep : kernel' = [busy |-> kernel.busy + b, idle |-> kernel.idle + i]
  BY DEF U!TimePasses
<1>2. kernel \in [busy : Nat, idle : Nat] /\ ticks \in 0..MaxAdvances
  BY DEF BeatInv, U!TypeOK
<1>3. /\ kernel' \in [busy : Nat, idle : Nat]
      /\ kernel'.busy = kernel.busy + b /\ kernel'.idle = kernel.idle + i
  BY <1>1, <1>2 DEF U!HeartbeatAssumption
<1>4. ticks' \in 0..MaxAdvances /\ ticks' = ticks + 1
  BY <1>2 DEF U!TimePasses, U!HeartbeatAssumption
<1>5. U!TypeOK'
  BY <1>3, <1>4 DEF U!TimePasses, BeatInv, U!TypeOK
<1>6. U!CpuHonest'
  BY DEF U!TimePasses, BeatInv, U!CpuHonest
<1>7. Marked'
  <2>1. SUFFICES ASSUME seen # None PROVE Marked'
    BY DEF U!TimePasses, Marked
  <2>2. seen \in [busy : Nat, idle : Nat]
    BY <2>1 DEF BeatInv, U!TypeOK
  <2>3. PICK p, q \in Nat : p = MaxStep * ticks /\ q = MaxStep * ticks'
    BY <1>2, <1>4 DEF U!HeartbeatAssumption
  <2>4. q = p + MaxStep
    BY <1>2, <1>4, <2>3 DEF U!HeartbeatAssumption
  <2>5. kernel.busy <= seen.busy + p /\ kernel.idle <= seen.idle + p
    BY <2>1, <2>3 DEF BeatInv, Marked
  <2>6. kernel'.busy <= seen.busy + q /\ kernel'.idle <= seen.idle + q
    BY <1>2, <1>3, <2>2, <2>4, <2>5 DEF U!HeartbeatAssumption
  <2>7. QED
    BY <2>3, <2>6 DEF U!TimePasses, BeatInv, Marked
<1>8. QED
  BY <1>5, <1>6, <1>7 DEF BeatInv

LEMMA TimeTakenBackFacts ==
    ASSUME U!HeartbeatAssumption, BeatInv, U!TimeTakenBack
    PROVE  BeatInv'
<1>1. kernel \in [busy : Nat, idle : Nat]
  BY DEF BeatInv, U!TypeOK
<1>2. /\ kernel' \in [busy : Nat, idle : Nat]
      /\ kernel'.busy <= kernel.busy /\ kernel'.idle <= kernel.idle
  <2>1. CASE kernel.idle > 0 /\ kernel' = [kernel EXCEPT !.idle = @ - 1]
    BY <1>1, <2>1
  <2>2. CASE kernel.busy > 0 /\ kernel' = [kernel EXCEPT !.busy = @ - 1]
    BY <1>1, <2>2
  <2>3. QED
    BY <2>1, <2>2 DEF U!TimeTakenBack
<1>3. U!TypeOK'
  BY <1>2 DEF U!TimeTakenBack, U!Mishap, BeatInv, U!TypeOK, U!HeartbeatAssumption
<1>4. U!CpuHonest'
  BY DEF U!TimeTakenBack, BeatInv, U!CpuHonest
<1>5. Marked'
  <2>1. SUFFICES ASSUME seen # None PROVE Marked'
    BY DEF U!TimeTakenBack, Marked
  <2>2. seen \in [busy : Nat, idle : Nat]
    BY <2>1 DEF BeatInv, U!TypeOK
  <2>3. PICK p \in Nat : p = MaxStep * ticks
    BY DEF BeatInv, U!TypeOK, U!HeartbeatAssumption
  <2>4. kernel.busy <= seen.busy + p /\ kernel.idle <= seen.idle + p
    BY <2>1, <2>3 DEF BeatInv, Marked
  <2>5. kernel'.busy <= seen.busy + p /\ kernel'.idle <= seen.idle + p
    BY <1>1, <1>2, <2>2, <2>4
  <2>6. QED
    BY <2>3, <2>5 DEF U!TimeTakenBack, BeatInv, Marked
<1>6. QED
  BY <1>3, <1>4, <1>5 DEF BeatInv

(* Memory and disk are figures of their kinds whatever is read.            *)
LEMMA OthersFacts ==
    ASSUME U!HeartbeatAssumption, U!Others
    PROVE  /\ memory' \in [used : Nat, total : Nat] /\ memory'.used <= memory'.total
           /\ disk' \in Shares
<1>1. ASSUME U!CollectMemory
      PROVE  memory' \in [used : Nat, total : Nat] /\ memory'.used <= memory'.total
  <2>1. PICK t, a \in Memory :
           memory' = [used |-> IF t >= a THEN (t - a) \div MegaByte ELSE 0,
                      total |-> t \div MegaByte]
    BY <1>1 DEF U!CollectMemory
  <2>2. t \in Nat /\ a \in Nat /\ MegaByte \in Nat \ {0}
    BY DEF U!HeartbeatAssumption
  <2>3. CASE t >= a
    <3>1. PICK d \in Nat : d = t - a /\ d <= t
      BY <2>2, <2>3
    <3>2. d \div MegaByte \in Nat /\ t \div MegaByte \in Nat /\ d \div MegaByte <= t \div MegaByte
      BY <2>2, <3>1, DivFacts
    <3>3. memory' = [used |-> d \div MegaByte, total |-> t \div MegaByte]
      BY <2>1, <2>3, <3>1
    <3>4. QED
      BY <3>2, <3>3
  <2>4. CASE ~ (t >= a)
    <3>1. t \div MegaByte \in Nat
      BY <2>2, DivFacts
    <3>2. memory' = [used |-> 0, total |-> t \div MegaByte]
      BY <2>1, <2>4
    <3>3. QED
      BY <3>1, <3>2
  <2>5. QED
    BY <2>3, <2>4
<1>2. ASSUME U!OwnMemory
      PROVE  memory' \in [used : Nat, total : Nat] /\ memory'.used <= memory'.total
  <2>1. PICK a, s \in Memory :
           memory' = [used |-> a \div MegaByte,
                      total |-> IF s \div MegaByte > a \div MegaByte
                                  THEN s \div MegaByte ELSE a \div MegaByte]
    BY <1>2 DEF U!OwnMemory
  <2>2. a \in Nat /\ s \in Nat /\ MegaByte \in Nat \ {0}
    BY DEF U!HeartbeatAssumption
  <2>3. PICK p, q \in Nat : p = a \div MegaByte /\ q = s \div MegaByte
    BY <2>2, DivFacts
  <2>4. memory' = [used |-> p, total |-> IF q > p THEN q ELSE p]
    BY <2>1, <2>3
  <2>5. QED
    BY <2>4
<1>3. ASSUME U!CollectDisk PROVE disk' \in Shares
  <2>1. ASSUME NEW n \in Disk, NEW free \in 0..n, disk' = U!Tenths(n - free, n)
        PROVE  disk' \in Shares
    <3>1. n \in Nat /\ n - free \in Nat
      BY DEF U!HeartbeatAssumption
    <3>2. QED
      BY <2>1, <3>1, TenthsRange
  <2>2. 0 \in Shares
    BY DEF Shares
  <2>3. QED
    BY <1>3, <2>1, <2>2 DEF U!CollectDisk
<1>4. QED
  BY <1>1, <1>2, <1>3 DEF U!Others

(* What the collector computes, from the true counters of two readings.    *)
LEMMA DeltaFacts ==
    ASSUME U!HeartbeatAssumption, Modulus \in Nat \ {0}, BeatInv, seen # None,
           NEW b \in Int, b = kernel.busy - seen.busy,
           NEW i \in Int, i = kernel.idle - seen.idle
    PROVE  /\ U!Delta(U!Reading.total, last.total) = (b + i) % Modulus
           /\ U!Delta(U!Delta(U!Reading.total, last.total),
                      U!Delta(U!Reading.idle, last.idle)) = b % Modulus
<1>1. PICK kb, ki, sb, si \in Nat : /\ kb = kernel.busy /\ ki = kernel.idle
                                    /\ sb = seen.busy /\ si = seen.idle
  BY DEF BeatInv, U!TypeOK
<1>2. /\ U!Reading.total = (kb + ki) % Modulus /\ U!Reading.idle = ki % Modulus
      /\ last.total = (sb + si) % Modulus /\ last.idle = si % Modulus
  BY <1>1 DEF U!Reading, BeatInv, Marked
<1>3. U!Delta(U!Reading.total, last.total) = (b + i) % Modulus
  <2>1. PICK x, y \in Int : x = kb + ki /\ y = sb + si
    OBVIOUS
  <2>2. ((x % Modulus) - (y % Modulus)) % Modulus = (x - y) % Modulus
    BY DeltaMod
  <2>3. x - y = b + i
    BY <1>1, <2>1
  <2>4. U!Reading.total = x % Modulus /\ last.total = y % Modulus
    BY <1>2, <2>1, Zenon
  <2>5. U!Delta(x % Modulus, y % Modulus) = ((x % Modulus) - (y % Modulus)) % Modulus
    BY DEF U!Delta
  <2>6. U!Delta(U!Reading.total, last.total) = U!Delta(x % Modulus, y % Modulus)
    BY <2>4, Zenon
  <2>7. (x - y) % Modulus = (b + i) % Modulus
    BY <2>3, Zenon
  <2>8. QED
    BY <2>2, <2>5, <2>6, <2>7, Zenon
<1>4. U!Delta(U!Reading.idle, last.idle) = i % Modulus
  <2>1. ((ki % Modulus) - (si % Modulus)) % Modulus = (ki - si) % Modulus
    <3>1. PICK x, y \in Int : x = ki /\ y = si
      OBVIOUS
    <3>2. ((x % Modulus) - (y % Modulus)) % Modulus = (x - y) % Modulus
      BY DeltaMod
    <3>3. QED
      BY <3>1, <3>2, Zenon
  <2>2. QED
    BY <1>1, <1>2, <2>1, Zenon DEF U!Delta
<1>5. U!Delta((b + i) % Modulus, i % Modulus) = b % Modulus
  <2>1. PICK x \in Int : x = b + i
    OBVIOUS
  <2>2. ((x % Modulus) - (i % Modulus)) % Modulus = (x - i) % Modulus
    BY DeltaMod
  <2>3. x - i = b
    BY <2>1
  <2>4. QED
    BY <2>1, <2>2, <2>3, Zenon DEF U!Delta
<1>6. QED
  BY <1>3, <1>4, <1>5, Zenon

LEMMA CollectFacts ==
    ASSUME U!HeartbeatAssumption, BeatInv, U!Collect
    PROVE  BeatInv'
<1>1. PICK p, q \in Nat : p = MaxStep * ticks /\ q = MaxStep * MaxAdvances
  BY DEF U!HeartbeatAssumption, BeatInv, U!TypeOK
<1>2. p <= q
  BY <1>1 DEF U!HeartbeatAssumption, BeatInv, U!TypeOK
<1>3. Modulus \in Nat \ {0} /\ Modulus > 2 * q
  <2>1. 2 * MaxStep * MaxAdvances = 2 * q
    BY <1>1 DEF U!HeartbeatAssumption
  <2>2. QED
    BY <1>1, <2>1 DEF U!HeartbeatAssumption
<1>4. kernel \in [busy : Nat, idle : Nat] /\ kernel' = kernel /\ seen' = kernel /\ ticks' = ticks
  BY DEF U!Collect, BeatInv, U!TypeOK
<1>5. PICK whole, busy \in 0..(Modulus - 1) :
         /\ whole = U!Delta(U!Reading.total, last.total)
         /\ busy = U!Delta(whole, U!Delta(U!Reading.idle, last.idle))
  <2>1. PICK rt, ri, lt, li \in Int : /\ rt = U!Reading.total /\ ri = U!Reading.idle
                                      /\ lt = last.total /\ li = last.idle
    <3>1. last.total \in Int /\ last.idle \in Int
      BY <1>3 DEF BeatInv, U!TypeOK
    <3>2. PICK x, y \in Int : x = kernel.busy + kernel.idle /\ y = kernel.idle
      BY <1>4
    <3>3. x % Modulus \in Int /\ y % Modulus \in Int
      BY <1>3, ModBounds
    <3>4. QED
      BY <3>1, <3>2, <3>3 DEF U!Reading
  <2>2. \A m, n \in Int : U!Delta(m, n) \in 0..(Modulus - 1)
    <3>1. TAKE m, n \in Int
    <3>2. PICK d \in Int : d = m - n
      OBVIOUS
    <3>3. QED
      BY <1>3, <3>2, ModBounds DEF U!Delta
  <2>3. PICK w \in 0..(Modulus - 1) : w = U!Delta(rt, lt)
    BY <2>2
  <2>4. PICK d \in 0..(Modulus - 1) : d = U!Delta(ri, li)
    BY <2>2
  <2>5. w \in Int /\ d \in Int
    BY <1>3
  <2>6. U!Delta(w, d) \in 0..(Modulus - 1)
    BY <2>2, <2>5
  <2>7. QED
    BY <2>1, <2>3, <2>4, <2>6
<1>6. cpu' = IF last.total = 0 \/ whole = 0 THEN 0 ELSE U!Tenths(busy, whole)
  BY <1>5 DEF U!Collect, U!CollectCPU
<1>7. cpu' \in Shares
  <2>1. busy \in Nat /\ whole \in Nat
    BY <1>3
  <2>2. U!Tenths(busy, whole) \in Shares
    BY <2>1, TenthsRange
  <2>3. 0 \in Shares
    BY DEF Shares
  <2>4. QED
    BY <1>6, <2>2, <2>3
<1>8. last' = U!Reading /\ last' \in [total : 0..(Modulus - 1), idle : 0..(Modulus - 1)]
  <2>1. PICK x, y \in Int : x = kernel.busy + kernel.idle /\ y = kernel.idle
    BY <1>4
  <2>2. x % Modulus \in 0..(Modulus - 1) /\ y % Modulus \in 0..(Modulus - 1)
    BY <1>3, ModBounds
  <2>3. QED
    BY <2>1, <2>2 DEF U!Collect, U!CollectCPU, U!Reading
<1>9. span' \in [busy : Int, idle : Int] \union {None}
  <2>1. CASE seen = None \/ last.total = 0
    BY <2>1 DEF U!Collect
  <2>2. CASE ~ (seen = None \/ last.total = 0)
    <3>1. seen \in [busy : Nat, idle : Nat]
      BY <2>2 DEF BeatInv, U!TypeOK
    <3>2. span' = U!Since
      BY <2>2 DEF U!Collect
    <3>3. QED
      BY <1>4, <3>1, <3>2 DEF U!Since
  <2>3. QED
    BY <2>1, <2>2
<1>10. U!TypeOK'
  <2>1. /\ memory' \in [used : Nat, total : Nat] /\ memory'.used <= memory'.total
        /\ disk' \in Shares
    BY OthersFacts DEF U!Collect
  <2>2. QED
    BY <1>4, <1>7, <1>8, <1>9, <2>1 DEF U!Collect, BeatInv, U!TypeOK, Shares
<1>11. Marked'
  <2>1. last' = [total |-> (seen'.busy + seen'.idle) % Modulus, idle |-> seen'.idle % Modulus]
    BY <1>4, <1>8 DEF U!Reading
  <2>2. kernel.busy <= kernel.busy + p /\ kernel.idle <= kernel.idle + p
    BY <1>4
  <2>3. /\ kernel'.busy <= seen'.busy + MaxStep * ticks'
        /\ kernel'.idle <= seen'.idle + MaxStep * ticks'
    BY <1>1, <1>4, <2>2
  <2>4. QED
    BY <2>1, <2>3 DEF Marked
<1>12. U!CpuHonest'
  <2>1. CASE seen = None \/ last.total = 0
    BY <2>1 DEF U!Collect, U!CpuHonest
  <2>2. CASE seen # None /\ last.total # 0
    <3>1. seen \in [busy : Nat, idle : Nat]
      BY <2>2 DEF BeatInv, U!TypeOK
    <3>2. PICK b, i \in Int : b = kernel.busy - seen.busy /\ i = kernel.idle - seen.idle
      BY <1>4, <3>1
    <3>3. whole = (b + i) % Modulus /\ busy = b % Modulus
      BY <1>3, <1>5, <2>2, <3>2, DeltaFacts
    <3>4. span' = [busy |-> b, idle |-> i]
      BY <2>2, <3>2 DEF U!Collect, U!Since
    <3>5. b <= p /\ i <= p
      <4>1. kernel.busy <= seen.busy + p /\ kernel.idle <= seen.idle + p
        BY <1>1, <2>2 DEF BeatInv, Marked
      <4>2. QED
        BY <1>4, <3>1, <3>2, <4>1
    <3>6. ASSUME b >= 0, i >= 0, b + i > 0
          PROVE  cpu' = (1000 * b) \div (b + i)
      <4>1. PICK n \in Nat : n = b + i /\ n \in 0..(Modulus - 1) /\ n > 0
        BY <1>2, <1>3, <3>5, <3>6
      <4>2. b \in 0..(Modulus - 1) /\ b <= n
        BY <3>6, <4>1, <1>3
      <4>3. whole = n /\ busy = b
        BY <1>3, <3>3, <4>1, <4>2, SmallMod
      <4>4. U!Tenths(b, n) = (1000 * b) \div n
        BY <3>6, <4>1, <4>2, TenthsFacts
      <4>5. cpu' = U!Tenths(b, n)
        BY <1>6, <2>2, <4>1, <4>3
      <4>6. QED
        BY <4>1, <4>4, <4>5, Zenon
    <3>7. ASSUME b = 0 PROVE cpu' = 0
      <4>1. busy = 0
        BY <1>3, <3>3, <3>7, SmallMod
      <4>2. whole > 0 => U!Tenths(0, whole) = 0
        BY <1>3, TenthsFacts
      <4>3. QED
        BY <1>3, <1>6, <4>1, <4>2
    <3>8. QED
      BY <3>4, <3>6, <3>7 DEF U!CpuHonest
  <2>3. QED
    BY <2>1, <2>2
<1>13. QED
  BY <1>10, <1>11, <1>12 DEF BeatInv

LEMMA CollectUnreadFacts ==
    ASSUME U!HeartbeatAssumption, BeatInv, U!CollectUnread
    PROVE  BeatInv'
<1>1. /\ memory' \in [used : Nat, total : Nat] /\ memory'.used <= memory'.total
      /\ disk' \in Shares
  BY OthersFacts DEF U!CollectUnread
<1>2. U!TypeOK'
  BY <1>1 DEF Shares, U!CollectUnread, U!Mishap, BeatInv, U!TypeOK, U!HeartbeatAssumption
<1>3. Marked' /\ U!CpuHonest'
  BY DEF U!CollectUnread, BeatInv, Marked, U!CpuHonest
<1>4. QED
  BY <1>2, <1>3 DEF BeatInv

LEMMA NewMetricsCollectorFacts ==
    ASSUME U!HeartbeatAssumption, BeatInv, U!NewMetricsCollector
    PROVE  BeatInv'
<1>1. Modulus \in Nat /\ Modulus > 0
  BY DEF BeatInv, U!TypeOK, U!HeartbeatAssumption
<1>2. U!TypeOK'
  BY <1>1 DEF U!NewMetricsCollector, U!Never, U!Mishap, BeatInv, U!TypeOK, U!HeartbeatAssumption
<1>3. Marked' /\ U!CpuHonest'
  BY DEF U!NewMetricsCollector, BeatInv, Marked, U!CpuHonest
<1>4. QED
  BY <1>2, <1>3 DEF BeatInv

LEMMA BeatStep ==
    ASSUME U!HeartbeatAssumption, BeatInv, [U!Next]_(U!vars)
    PROVE  BeatInv'
<1>1. CASE U!TimePasses
  BY <1>1, TimePassesFacts
<1>2. CASE U!TimeTakenBack
  BY <1>2, TimeTakenBackFacts
<1>3. CASE U!Collect
  BY <1>3, CollectFacts
<1>4. CASE U!CollectUnread
  BY <1>4, CollectUnreadFacts
<1>5. CASE U!NewMetricsCollector
  BY <1>5, NewMetricsCollectorFacts
<1>6. CASE UNCHANGED U!vars
  BY <1>6 DEF U!vars, BeatInv, U!TypeOK, Marked, U!CpuHonest
<1>7. QED
  BY <1>1, <1>2, <1>3, <1>4, <1>5, <1>6 DEF U!Next, U!RunHeartbeat

(* Heartbeat: for any width of the counters and however far they advance   *)
(* between two readings or go back, the processor's figure is that of the  *)
(* time since the last one, unless more passed than the counters can tell  *)
(* apart (runner/metrics.go, collectCPU).                                  *)
THEOREM CpuHonestHolds == U!HeartbeatAssumption => (U!Spec => []CpuHonest)
<1> SUFFICES ASSUME U!HeartbeatAssumption PROVE U!Spec => []CpuHonest
  OBVIOUS
<1>1. U!Init => BeatInv
  BY BeatInit
<1>2. BeatInv /\ [U!Next]_(U!vars) => BeatInv'
  BY BeatStep
<1>3. BeatInv => CpuHonest
  BY DEF BeatInv, CpuHonest
<1>4. QED
  BY <1>1, <1>2, <1>3, PTL DEF U!Spec

-----------------------------------------------------------------------------
(* The instances have the operators on finite sets by names of their own.  *)
LEMMA ReadingsFiniteAlike == \A S : L!IsFiniteSet(S) <=> IsFiniteSet(S)
  BY DEF L!IsFiniteSet, IsFiniteSet

LEMMA ReadingsCardinalityAlike ==
    \A S : L!Cardinality(S) = Cardinality(S) /\ G!Cardinality(S) = Cardinality(S)
  BY DEF L!Cardinality, G!Cardinality, Cardinality

USE ReadingsFiniteAlike, ReadingsCardinalityAlike

(* How many members of a list come after one: its place, newest first.     *)
After(list, id) == Cardinality({other \in list : other > id})

(* A row's place in a list is one of as many as there are rows, and its own.*)
LEMMA AfterFacts ==
    ASSUME NEW list, list \subseteq Nat, IsFiniteSet(list), NEW id \in Nat
    PROVE  /\ After(list, id) \in Nat /\ After(list, id) <= Cardinality(list)
           /\ IsFiniteSet({other \in list : other > id})
           /\ id \in list => After(list, id) + 1 <= Cardinality(list)
<1>1. PICK S : S = {other \in list : other > id}
  OBVIOUS
<1>2. S \in SUBSET list /\ id \notin S
  BY <1>1
<1>3. IsFiniteSet(S) /\ Cardinality(S) \in Nat /\ Cardinality(S) <= Cardinality(list)
  BY <1>2, FS_Subset, FS_CardinalityType
<1>4. ASSUME id \in list PROVE Cardinality(S) + 1 <= Cardinality(list)
  <2>1. PICK T : T = S \union {id}
    OBVIOUS
  <2>2. T \in SUBSET list
    BY <1>2, <1>4, <2>1
  <2>3. Cardinality(T) = Cardinality(S) + 1
    BY <1>2, <1>3, <2>1, FS_AddElement
  <2>4. Cardinality(T) <= Cardinality(list)
    BY <2>2, FS_Subset
  <2>5. QED
    BY <2>3, <2>4
<1>5. After(list, id) = Cardinality(S)
  BY <1>1 DEF After
<1>6. QED
  BY <1>1, <1>3, <1>4, <1>5

(* Members of a list have different places.                                *)
LEMMA AfterInjective ==
    ASSUME NEW list, list \subseteq Nat, IsFiniteSet(list),
           NEW x \in list, NEW y \in list, x < y
    PROVE  After(list, y) < After(list, x)
<1>1. PICK S, T : S = {other \in list : other > y} /\ T = {other \in list : other > x}
  OBVIOUS
<1>2. S \subseteq T /\ y \in T /\ y \notin S
  <2>1. x \in Nat /\ y \in Nat /\ \A other \in list : other \in Nat
    OBVIOUS
  <2>2. \A other \in list : other > y => other > x
    BY <2>1
  <2>3. y > x /\ ~ (y > y)
    BY <2>1
  <2>4. QED
    BY <1>1, <2>2, <2>3
<1>3. IsFiniteSet(T) /\ IsFiniteSet(S)
  BY <1>1, AfterFacts
<1>4. PICK V : V = S \union {y}
  OBVIOUS
<1>5. V \in SUBSET T
  BY <1>2, <1>4
<1>6. Cardinality(V) = Cardinality(S) + 1 /\ Cardinality(S) \in Nat /\ Cardinality(T) \in Nat
  BY <1>2, <1>3, <1>4, FS_AddElement, FS_CardinalityType
<1>7. Cardinality(V) <= Cardinality(T)
  BY <1>3, <1>5, FS_Subset
<1>8. QED
  BY <1>1, <1>6, <1>7 DEF After

(* The rows from a place on are as many as the list has beyond it.         *)
LEMMA AfterBeyond ==
    ASSUME NEW list, list \subseteq Nat, IsFiniteSet(list), NEW k \in Nat,
           NEW S, S = {id \in list : After(list, id) >= k}
    PROVE  IsFiniteSet(S) /\ (S = {} \/ Cardinality(S) + k <= Cardinality(list))
<1>1. PICK n \in Nat : n = Cardinality(list)
  BY FS_CardinalityType
<1>2. S \in SUBSET list /\ IsFiniteSet(S)
  BY FS_Subset
<1>3. PICK f : f = [id \in S |-> After(list, id)]
  OBVIOUS
<1>4. \A id \in S : f[id] \in k..(n - 1)
  <2>1. SUFFICES ASSUME NEW id \in S PROVE f[id] \in k..(n - 1)
    OBVIOUS
  <2>2. After(list, id) \in Nat /\ After(list, id) + 1 <= n /\ After(list, id) >= k
    BY <1>1, <1>2, AfterFacts
  <2>3. QED
    BY <1>3, <2>2
<1>5. f \in [S -> k..(n - 1)]
  BY <1>3, <1>4
<1>6. \A x, y \in S : f[x] = f[y] => x = y
  <2>1. SUFFICES ASSUME NEW x \in S, NEW y \in S, x # y PROVE f[x] # f[y]
    OBVIOUS
  <2>2. x \in list /\ y \in list /\ x \in Nat /\ y \in Nat
    BY <1>2
  <2>3. /\ f[x] = After(list, x) /\ f[y] = After(list, y)
        /\ After(list, x) \in Nat /\ After(list, y) \in Nat
    BY <1>3, <2>2, AfterFacts
  <2>4. x < y => After(list, y) < After(list, x)
    BY <2>2, AfterInjective
  <2>5. y < x => After(list, x) < After(list, y)
    BY <2>2, AfterInjective
  <2>6. x < y \/ y < x
    BY <2>1, <2>2
  <2>7. QED
    BY <2>3, <2>4, <2>5, <2>6
<1>7. f \in Injection(S, k..(n - 1))
  BY <1>5, <1>6 DEF Injection, IsInjective
<1>8. IsFiniteSet(k..(n - 1)) /\ Cardinality(k..(n - 1)) = IF k > n - 1 THEN 0 ELSE n - k
  <2>1. k \in Int /\ n - 1 \in Int
    BY <1>1
  <2>2. (n - 1) - k + 1 = n - k
    BY <1>1
  <2>3. QED
    BY <2>1, <2>2, FS_Interval
<1>9. Cardinality(S) <= Cardinality(k..(n - 1)) /\ Cardinality(S) \in Nat
  BY <1>2, <1>7, <1>8, FS_Injection, FS_CardinalityType
<1>10. CASE k > n - 1
  <2>1. Cardinality(S) = 0
    BY <1>8, <1>9, <1>10
  <2>2. S = {}
    BY <1>2, <2>1, FS_EmptySet
  <2>3. QED
    BY <1>2, <2>2
<1>11. CASE ~ (k > n - 1)
  BY <1>1, <1>2, <1>8, <1>9, <1>11
<1>12. QED
  BY <1>10, <1>11

LEMMA AfterMonotonic ==
    ASSUME NEW list, NEW more, list \subseteq more, more \subseteq Nat, IsFiniteSet(more),
           NEW id \in Nat
    PROVE  After(list, id) \in Nat /\ After(list, id) <= After(more, id)
<1>1. PICK S, T : S = {other \in list : other > id} /\ T = {other \in more : other > id}
  OBVIOUS
<1>2. S \in SUBSET T /\ IsFiniteSet(T)
  BY <1>1, AfterFacts
<1>3. Cardinality(S) <= Cardinality(T) /\ Cardinality(S) \in Nat
  BY <1>2, FS_Subset, FS_CardinalityType
<1>4. QED
  BY <1>1, <1>3 DEF After

LEMMA AfterRemoved ==
    ASSUME NEW list, list \subseteq Nat, IsFiniteSet(list), NEW gone, NEW id \in Nat
    PROVE  After(list, id) <= After(list \ {gone}, id) + 1 /\ After(list \ {gone}, id) \in Nat
<1>1. PICK S, T : /\ S = {other \in list : other > id}
                  /\ T = {other \in list \ {gone} : other > id}
  OBVIOUS
<1>2. T = S \ {gone} /\ IsFiniteSet(S)
  BY <1>1, AfterFacts
<1>3. /\ Cardinality(T) = IF gone \in S THEN Cardinality(S) - 1 ELSE Cardinality(S)
      /\ IsFiniteSet(T)
  BY <1>2, FS_RemoveElement
<1>4. Cardinality(S) \in Nat /\ Cardinality(T) \in Nat
  BY <1>2, <1>3, FS_CardinalityType
<1>5. QED
  BY <1>1, <1>3, <1>4 DEF After

(* Where all members are one, there is at most one.                        *)
LEMMA OneMore ==
    ASSUME NEW P, IsFiniteSet(P), NEW E, \A x, y \in E : x = y,
           NEW S, S \subseteq P \union E
    PROVE  Cardinality(S) <= Cardinality(P) + 1
<1>1. PICK e : E \subseteq {e}
  <2>1. CASE E = {}
    BY <2>1
  <2>2. CASE E # {}
    BY <2>2
  <2>3. QED
    BY <2>1, <2>2
<1>2. PICK T : T = P \union {e}
  OBVIOUS
<1>3. S \in SUBSET T
  BY <1>1, <1>2
<1>4. IsFiniteSet(T) /\ Cardinality(T) <= Cardinality(P) + 1
  <2>1. Cardinality(P) \in Nat
    BY FS_CardinalityType
  <2>2. QED
    BY <1>2, <2>1, FS_AddElement
<1>5. Cardinality(S) <= Cardinality(T) /\ Cardinality(S) \in Nat /\ Cardinality(T) \in Nat
  BY <1>3, <1>4, FS_Subset, FS_CardinalityType
<1>6. QED
  BY <1>4, <1>5, FS_CardinalityType

-----------------------------------------------------------------------------
List(r) == G!Searched(listed, walk[r].searched)

(* The rows a walk has gone past without a sight of them.                  *)
Passed(w, list) == {id \in w.there \ w.seen : After(list, id) < G!Offset(w.page)}

Walking(w, list) ==
    /\ w.pc \in {"count", "page"} =>
          w.there \subseteq list /\ Cardinality(Passed(w, list)) <= w.gone
    /\ w.pc = "page" => Cardinality(list) <= w.total + w.late
    /\ w.pc = "over" => Cardinality(w.there \ w.seen) <= w.gone + w.late

ListInv == G!TypeOK /\ \A r \in Readers : Walking(walk[r], List(r))

-----------------------------------------------------------------------------
LEMMA ListFacts ==
    ASSUME G!ListingAssumption, G!TypeOK, NEW searched \in BOOLEAN,
           NEW list, list = G!Searched(listed, searched)
    PROVE  /\ list \subseteq listed /\ list \subseteq 1..MaxListed /\ list \subseteq Nat
           /\ IsFiniteSet(list) /\ Cardinality(list) \in Nat
<1>1. listed \subseteq 1..MaxListed /\ MaxListed \in Nat
  BY DEF G!TypeOK, G!ListingAssumption
<1>2. list \subseteq listed
  BY DEF G!Searched
<1>3. listed \subseteq 1..MaxListed
  BY <1>1
<1>4. IsFiniteSet(1..MaxListed)
  BY <1>1, FS_Interval
<1>5. list \in SUBSET (1..MaxListed)
  BY <1>2, <1>3
<1>6. IsFiniteSet(list)
  BY <1>4, <1>5, FS_Subset
<1>7. 1..MaxListed \subseteq Nat
  BY <1>1
<1>8. QED
  BY <1>2, <1>5, <1>6, <1>7, FS_CardinalityType

LEMMA WalkFacts ==
    ASSUME G!TypeOK, NEW r \in Readers
    PROVE  walk[r] \in G!Walk /\ walk[r].searched \in BOOLEAN
BY DEF G!TypeOK, G!Walk

LEMMA OffsetFacts ==
    ASSUME G!ListingAssumption, NEW page \in Nat \ {0}
    PROVE  /\ G!Offset(page) \in Nat /\ G!Offset(page + 1) = G!Offset(page) + Limit
           /\ G!Offset(1) = 0
<1>1. PICK k \in Nat : k = Limit /\ Limit \in Nat
  BY DEF G!ListingAssumption
<1>2. G!Offset(page) = (page - 1) * k /\ G!Offset(page + 1) = page * k /\ G!Offset(1) = 0 * k
  BY <1>1 DEF G!Offset
<1>3. (page - 1) * k \in Nat /\ page * k = (page - 1) * k + k /\ 0 * k = 0
  OBVIOUS
<1>4. QED
  BY <1>1, <1>2, <1>3

(* After the last page every row that the count saw has had its place.     *)
LEMMA TotalPagesFacts ==
    ASSUME G!ListingAssumption, NEW total \in Nat
    PROVE  G!TotalPages(total) \in Nat \ {0} /\ total <= G!Offset(G!TotalPages(total)) + Limit
<1>1. PICK k \in Nat \ {0} : k = Limit
  BY DEF G!ListingAssumption
<1>2. PICK x \in Nat : x = total + k - 1
  BY <1>1
<1>3. PICK q \in Int, s \in 0..(k - 1) : q = x \div k /\ x = k * q + s
  <2>1. x \in Int /\ k \in Int /\ k > 0
    BY <1>1
  <2>2. (x \div k) \in Int /\ (x % k) \in 0..(k - 1) /\ (x % k) = x - k * (x \div k)
    BY <2>1
  <2>3. PICK q \in Int, s \in 0..(k - 1) : q = x \div k /\ s = x % k
    BY <2>2
  <2>4. s = x - k * q
    BY <2>2, <2>3, Zenon
  <2>5. QED
    BY <2>3, <2>4
<1>4. q >= 0
  <2>1. ASSUME q <= -1 PROVE FALSE
    <3>1. k * q <= -k
      BY <2>1
    <3>2. QED
      BY <1>2, <1>3, <3>1
  <2>2. QED
    BY <2>1
<1>5. total <= k * q
  BY <1>1, <1>2, <1>3
<1>6. G!TotalPages(total) = IF q = 0 THEN 1 ELSE q
  <2>1. (total + Limit - 1) \div Limit = q
    BY <1>1, <1>2, <1>3
  <2>2. QED
    BY <2>1 DEF G!TotalPages
<1>7. CASE q = 0
  <2>1. total <= 0
    BY <1>5, <1>7
  <2>2. G!Offset(1) = 0
    BY OffsetFacts, 1 \in Nat \ {0}
  <2>3. QED
    BY <1>1, <1>6, <1>7, <2>1, <2>2
<1>8. CASE q # 0
  <2>1. q \in Nat \ {0}
    BY <1>4, <1>8
  <2>2. G!Offset(q) + Limit = q * k
    <3>1. G!Offset(q) = (q - 1) * k
      BY <1>1 DEF G!Offset
    <3>2. (q - 1) * k + k = q * k
      OBVIOUS
    <3>3. QED
      BY <1>1, <3>1, <3>2
  <2>3. k * q = q * k
    OBVIOUS
  <2>4. QED
    BY <1>5, <1>6, <1>8, <2>1, <2>2, <2>3
<1>9. QED
  BY <1>7, <1>8

(* The rows passed are finitely many.                                      *)
LEMMA PassedFacts ==
    ASSUME G!ListingAssumption, NEW w \in G!Walk, NEW list
    PROVE  /\ IsFiniteSet(Passed(w, list)) /\ Cardinality(Passed(w, list)) \in Nat
           /\ IsFiniteSet(w.there \ w.seen) /\ Cardinality(w.there \ w.seen) \in Nat
<1>1. w.there \subseteq 1..MaxListed
  BY DEF G!Walk
<1>2. IsFiniteSet(1..MaxListed)
  BY FS_Interval DEF G!ListingAssumption
<1>3. w.there \ w.seen \in SUBSET (1..MaxListed) /\ Passed(w, list) \in SUBSET (1..MaxListed)
  BY <1>1 DEF Passed
<1>4. QED
  BY <1>2, <1>3, FS_Subset, FS_CardinalityType

(* A new row comes before all others.                                      *)
LEMMA WalkingInserted ==
    ASSUME G!ListingAssumption, NEW w \in G!Walk, NEW v \in G!Walk, NEW list, NEW new \in Nat,
           list \subseteq Nat, IsFiniteSet(list), new \notin list, Walking(w, list),
           v.pc = w.pc, v.there = w.there, v.seen = w.seen, v.page = w.page,
           v.gone = w.gone, v.total = w.total,
           v.late = (IF w.pc = "page" THEN w.late + 1 ELSE w.late)
    PROVE  Walking(v, list \union {new})
<1>1. PICK more : more = list \union {new}
  OBVIOUS
<1>2. /\ more \subseteq Nat /\ IsFiniteSet(more) /\ Cardinality(list) \in Nat
      /\ Cardinality(more) = Cardinality(list) + 1
  BY <1>1, FS_AddElement, FS_CardinalityType
<1>3. w.late \in Nat /\ w.total \in Nat /\ w.gone \in Nat
  BY DEF G!Walk
<1>4. ASSUME v.pc \in {"count", "page"}
      PROVE  v.there \subseteq more /\ Cardinality(Passed(v, more)) <= v.gone
  <2>1. w.there \subseteq list /\ Cardinality(Passed(w, list)) <= w.gone
    BY <1>4 DEF Walking
  <2>2. Passed(v, more) \in SUBSET Passed(w, list)
    <3>1. SUFFICES ASSUME NEW id \in Passed(v, more) PROVE id \in Passed(w, list)
      OBVIOUS
    <3>2. id \in w.there \ w.seen /\ After(more, id) < G!Offset(w.page) /\ id \in Nat
      BY <2>1, <3>1 DEF Passed
    <3>3. PICK a, b \in Nat : a = After(list, id) /\ b = After(more, id) /\ a <= b
      <4>1. more \subseteq more
        OBVIOUS
      <4>2. After(more, id) \in Nat
        BY <1>2, <3>2, <4>1, AfterMonotonic
      <4>3. After(list, id) \in Nat /\ After(list, id) <= After(more, id)
        BY <1>1, <1>2, <3>2, AfterMonotonic
      <4>4. QED
        BY <4>2, <4>3
    <3>4. G!Offset(w.page) \in Nat
      BY OffsetFacts DEF G!Walk
    <3>5. QED
      BY <3>2, <3>3, <3>4 DEF Passed
  <2>3. Cardinality(Passed(v, more)) <= Cardinality(Passed(w, list))
    BY <2>2, PassedFacts, FS_Subset
  <2>4. Cardinality(Passed(v, more)) \in Nat /\ Cardinality(Passed(w, list)) \in Nat
    BY PassedFacts
  <2>5. QED
    BY <1>1, <1>3, <2>1, <2>3, <2>4
<1>5. ASSUME v.pc = "page" PROVE Cardinality(more) <= v.total + v.late
  <2>1. Cardinality(list) <= w.total + w.late /\ v.late = w.late + 1
    BY <1>5 DEF Walking
  <2>2. QED
    BY <1>2, <1>3, <2>1
<1>6. v.pc = "over" => Cardinality(v.there \ v.seen) <= v.gone + v.late
  BY DEF Walking
<1>7. QED
  BY <1>1, <1>4, <1>5, <1>6 DEF Walking

(* A deleted row lets one other slip before the window.                    *)
LEMMA WalkingDeleted ==
    ASSUME G!ListingAssumption, NEW w \in G!Walk, NEW v \in G!Walk, NEW list, NEW id \in Nat,
           list \subseteq Nat, IsFiniteSet(list), Walking(w, list),
           w.pc \in {"count", "page"},
           v.pc = w.pc, v.there = w.there \ {id}, v.seen = w.seen, v.page = w.page,
           v.gone = w.gone + 1, v.total = w.total, v.late = w.late
    PROVE  Walking(v, list \ {id})
<1>1. PICK less : less = list \ {id}
  OBVIOUS
<1>2. /\ less \subseteq Nat /\ IsFiniteSet(less) /\ Cardinality(list) \in Nat
      /\ Cardinality(less) \in Nat /\ Cardinality(less) <= Cardinality(list)
  <2>1. less \in SUBSET list
    BY <1>1
  <2>2. QED
    BY <2>1, FS_Subset, FS_CardinalityType
<1>3. w.late \in Nat /\ w.total \in Nat /\ w.gone \in Nat /\ w.page \in Nat \ {0}
  BY DEF G!Walk
<1>4. PICK k \in Nat : k = G!Offset(w.page)
  BY <1>3, OffsetFacts
<1>5. w.there \subseteq list /\ Cardinality(Passed(w, list)) <= w.gone
  BY DEF Walking
<1>6. PICK E : E = {other \in list : After(list, other) = k}
  OBVIOUS
<1>7. \A x, y \in E : x = y
  <2>1. SUFFICES ASSUME NEW x \in E, NEW y \in E, x # y PROVE FALSE
    OBVIOUS
  <2>2. /\ x \in list /\ y \in list /\ x \in Nat /\ y \in Nat
        /\ After(list, x) = k /\ After(list, y) = k
    BY <1>6
  <2>3. /\ x < y => After(list, y) < After(list, x)
        /\ y < x => After(list, x) < After(list, y)
    BY <2>2, AfterInjective
  <2>4. x < y \/ y < x
    BY <2>1, <2>2
  <2>5. QED
    BY <2>2, <2>3, <2>4
<1>8. Passed(v, less) \subseteq Passed(w, list) \union E
  <2>1. SUFFICES ASSUME NEW other \in Passed(v, less)
                 PROVE  other \in Passed(w, list) \union E
    OBVIOUS
  <2>2. /\ other \in w.there \ w.seen /\ After(less, other) < k
        /\ other \in list /\ other \in Nat
    BY <1>4, <1>5, <2>1 DEF Passed
  <2>3. After(list, other) <= After(less, other) + 1 /\ After(less, other) \in Nat
    BY <1>1, <2>2, AfterRemoved
  <2>4. After(list, other) \in Nat
    BY <2>2, AfterFacts
  <2>5. After(list, other) < k \/ After(list, other) = k
    BY <2>2, <2>3, <2>4
  <2>6. QED
    BY <1>4, <1>6, <2>2, <2>5 DEF Passed
<1>9. Cardinality(Passed(v, less)) <= Cardinality(Passed(w, list)) + 1
  BY <1>7, <1>8, PassedFacts, OneMore
<1>10. Cardinality(Passed(v, less)) <= v.gone
  <2>1. Cardinality(Passed(v, less)) \in Nat /\ Cardinality(Passed(w, list)) \in Nat
    BY PassedFacts
  <2>2. QED
    BY <1>3, <1>5, <1>9, <2>1
<1>11. v.pc = "page" => Cardinality(less) <= v.total + v.late
  <2>1. ASSUME w.pc = "page" PROVE Cardinality(list) <= w.total + w.late
    BY <2>1 DEF Walking
  <2>2. QED
    BY <1>2, <1>3, <2>1
<1>12. v.there \subseteq less
  BY <1>1, <1>5
<1>13. QED
  BY <1>1, <1>10, <1>11, <1>12 DEF Walking

LEMMA WalkingCounted ==
    ASSUME G!ListingAssumption, NEW w \in G!Walk, NEW list, IsFiniteSet(list), Walking(w, list),
           w.pc = "count"
    PROVE  /\ G!Counted(w, Cardinality(list)) \in G!Walk
           /\ Walking(G!Counted(w, Cardinality(list)), list)
<1>1. PICK n \in Nat : n = Cardinality(list)
  BY FS_CardinalityType
<1>2. PICK v : v = G!Counted(w, n)
  OBVIOUS
<1>2a. /\ v \in G!Walk /\ v.pc = "page" /\ v.late = 0 /\ v.total = n /\ v.there = w.there
       /\ v.seen = w.seen /\ v.page = w.page /\ v.gone = w.gone
  BY <1>2 DEF G!Counted, G!Walk
<1>3. Passed(v, list) = Passed(w, list)
  BY <1>2a DEF Passed
<1>4. w.there \subseteq list /\ Cardinality(Passed(w, list)) <= w.gone
  BY DEF Walking
<1>5. QED
  BY <1>1, <1>2, <1>2a, <1>3, <1>4 DEF Walking

(* A page turned is one seen; after the last of them only what came late   *)
(* is beyond it.                                                           *)
LEMMA WalkingTurned ==
    ASSUME G!ListingAssumption, NEW w \in G!Walk, NEW list, list \subseteq 1..MaxListed,
           list \subseteq Nat, IsFiniteSet(list), Walking(w, list), w.pc = "page"
    PROVE  /\ G!Turned(w, G!Window(list, w.page)) \in G!Walk
           /\ Walking(G!Turned(w, G!Window(list, w.page)), list)
<1>1. PICK page : page = G!Window(list, w.page) /\ page \subseteq 1..MaxListed
  BY DEF G!Window
<1>2. /\ w.late \in Nat /\ w.total \in Nat /\ w.gone \in Nat /\ w.page \in Nat \ {0}
      /\ w.there \subseteq list /\ Cardinality(Passed(w, list)) <= w.gone
      /\ Cardinality(list) <= w.total + w.late
  BY DEF G!Walk, Walking
<1>3. PICK k \in Nat, l \in Nat : k = G!Offset(w.page) /\ l = Limit
  BY <1>2, OffsetFacts DEF G!ListingAssumption
<1>4. PICK unseen : unseen = w.there \ (w.seen \union page)
  OBVIOUS
<1>5. \A id \in unseen : id \in Passed(w, list) \/ After(list, id) >= k + l
  <2>1. SUFFICES ASSUME NEW id \in unseen, id \notin Passed(w, list)
                 PROVE  After(list, id) >= k + l
    OBVIOUS
  <2>2. id \in w.there \ w.seen /\ id \notin page /\ id \in list /\ id \in Nat
    BY <1>2, <1>4
  <2>3. After(list, id) \in Nat
    BY <2>2, AfterFacts
  <2>4. ~ (After(list, id) < k)
    BY <1>3, <2>1, <2>2 DEF Passed
  <2>5. After(list, id) \notin k..(k + l - 1)
    BY <1>1, <1>3, <2>2 DEF G!Window, G!Newer, After
  <2>6. QED
    BY <2>3, <2>4, <2>5
<1>6. PICK P : P = Passed(w, list) /\ IsFiniteSet(P) /\ Cardinality(P) \in Nat
  BY PassedFacts
<1>7. CASE w.page < G!TotalPages(w.total)
  <2>1. PICK v : /\ v = G!Turned(w, page) /\ v \in G!Walk
                 /\ v.pc = "count" /\ v.page = w.page + 1 /\ v.there = w.there
                 /\ v.seen = w.seen \union page /\ v.gone = w.gone
    <3>1. PICK v : v = G!Turned(w, page)
      OBVIOUS
    <3>2. /\ v \in G!Walk
          /\ v.pc = "count" /\ v.page = w.page + 1 /\ v.there = w.there
          /\ v.seen = w.seen \union page /\ v.gone = w.gone
      <4>1. v = [w EXCEPT !.seen = @ \union page, !.pc = "count", !.page = @ + 1]
        BY <1>7, <3>1 DEF G!Turned
      <4>2. w.page + 1 \in Nat \ {0} /\ w.seen \union page \in SUBSET (1..MaxListed)
        BY <1>1, <1>2 DEF G!Walk
      <4>3. QED
        BY <4>1, <4>2 DEF G!Walk
    <3>3. QED
      BY <3>1, <3>2
  <2>2. G!Offset(v.page) = k + l
    BY <1>2, <1>3, <2>1, OffsetFacts
  <2>3. Passed(v, list) \in SUBSET P
    <3>1. SUFFICES ASSUME NEW id \in Passed(v, list) PROVE id \in P
      OBVIOUS
    <3>2. id \in unseen /\ After(list, id) < k + l /\ id \in list /\ id \in Nat
      BY <1>2, <1>4, <2>1, <2>2, <3>1 DEF Passed
    <3>3. After(list, id) \in Nat
      BY <3>2, AfterFacts
    <3>4. ~ (After(list, id) >= k + l)
      BY <3>2, <3>3
    <3>5. QED
      BY <1>5, <1>6, <3>2, <3>4
  <2>4. Cardinality(Passed(v, list)) <= Cardinality(P) /\ Cardinality(Passed(v, list)) \in Nat
    BY <1>6, <2>1, <2>3, FS_Subset, PassedFacts
  <2>5. Cardinality(Passed(v, list)) <= v.gone
    BY <1>2, <1>6, <2>1, <2>4
  <2>6. QED
    BY <1>1, <1>2, <2>1, <2>5 DEF Walking
<1>8. CASE ~ (w.page < G!TotalPages(w.total))
  <2>1. PICK v : /\ v = G!Turned(w, page) /\ v \in G!Walk
                 /\ v.pc = "over" /\ v.there = w.there /\ v.late = w.late
                 /\ v.seen = w.seen \union page /\ v.gone = w.gone
    <3>1. PICK v : v = G!Turned(w, page)
      OBVIOUS
    <3>2. /\ v \in G!Walk
          /\ v.pc = "over" /\ v.there = w.there /\ v.late = w.late
          /\ v.seen = w.seen \union page /\ v.gone = w.gone
      BY <1>1, <1>2, <1>8, <3>1 DEF G!Turned, G!Walk
    <3>3. QED
      BY <3>1, <3>2
  <2>2. w.total <= k + l
    <3>1. PICK n \in Nat \ {0} : n = G!TotalPages(w.total) /\ w.total <= G!Offset(n) + Limit
      BY <1>2, TotalPagesFacts
    <3>2. n <= w.page
      BY <1>2, <1>8, <3>1
    <3>3. G!Offset(n) <= k /\ G!Offset(n) \in Nat
      <4>1. PICK m \in Nat : m = w.page - n /\ w.page = n + m
        BY <1>2, <3>2
      <4>2. G!Offset(n) = (n - 1) * l /\ k = (w.page - 1) * l
        BY <1>3 DEF G!Offset
      <4>3. (w.page - 1) * l = (n - 1) * l + m * l /\ m * l \in Nat /\ (n - 1) * l \in Nat
        BY <4>1
      <4>4. QED
        BY <4>2, <4>3
    <3>4. QED
      BY <1>2, <1>3, <3>1, <3>3
  <2>3. PICK S : S = {id \in list : After(list, id) >= k + l}
    OBVIOUS
  <2>4. IsFiniteSet(S) /\ (S = {} \/ Cardinality(S) + (k + l) <= Cardinality(list))
    BY <2>3, k + l \in Nat, AfterBeyond
  <2>5. Cardinality(S) \in Nat /\ Cardinality(list) \in Nat
    BY <2>4, FS_CardinalityType
  <2>6. Cardinality(S) <= w.late
    <3>1. CASE S = {}
      BY <1>2, <3>1, FS_EmptySet
    <3>2. CASE S # {}
      BY <1>2, <2>2, <2>4, <2>5, <3>2
    <3>3. QED
      BY <3>1, <3>2
  <2>7. unseen \in SUBSET (P \union S)
    BY <1>2, <1>4, <1>5, <1>6, <2>3
  <2>8. PICK T : T = P \union S
    OBVIOUS
  <2>9. IsFiniteSet(T) /\ Cardinality(T) <= Cardinality(P) + Cardinality(S)
    <3>1. IsFiniteSet(P \cap S)
      <4>1. P \cap S \in SUBSET P
        OBVIOUS
      <4>2. QED
        BY <1>6, <4>1, FS_Subset
    <3>2. Cardinality(P \cap S) \in Nat
      BY <3>1, FS_CardinalityType
    <3>3. /\ IsFiniteSet(T)
          /\ Cardinality(T) = Cardinality(P) + Cardinality(S) - Cardinality(P \cap S)
      BY <1>6, <2>4, <2>8, FS_Union
    <3>4. QED
      BY <1>6, <2>5, <3>2, <3>3
  <2>10. Cardinality(unseen) <= Cardinality(T)
    BY <2>7, <2>8, <2>9, FS_Subset
  <2>11. v.there \ v.seen = unseen
    BY <1>4, <2>1
  <2>12. Cardinality(unseen) \in Nat /\ Cardinality(T) \in Nat
    BY <2>1, <2>9, <2>11, PassedFacts, FS_CardinalityType
  <2>13. Cardinality(v.there \ v.seen) <= v.gone + v.late
    BY <1>2, <1>6, <2>1, <2>5, <2>6, <2>9, <2>10, <2>11, <2>12
  <2>14. QED
    BY <1>1, <2>1, <2>13 DEF Walking
<1>9. QED
  BY <1>7, <1>8

LEMMA ListInit ==
    ASSUME G!ListingAssumption, G!Init
    PROVE  ListInv
<1>1. G!Away \in G!Walk
  BY DEF G!Away, G!Walk
<1>2. G!TypeOK
  BY <1>1 DEF G!Init, G!TypeOK, G!ListingAssumption
<1>3. ASSUME NEW r \in Readers PROVE Walking(walk[r], List(r))
  BY <1>3 DEF G!Init, G!Away, Walking
<1>4. QED
  BY <1>2, <1>3 DEF ListInv

(* One reader's list and walk, before a step.                              *)
LEMMA ReaderFacts ==
    ASSUME G!ListingAssumption, ListInv, NEW r \in Readers
    PROVE  /\ walk[r] \in G!Walk /\ walk[r].searched \in BOOLEAN
           /\ Walking(walk[r], List(r))
           /\ List(r) \subseteq listed /\ List(r) \subseteq 1..MaxListed /\ List(r) \subseteq Nat
           /\ IsFiniteSet(List(r)) /\ Cardinality(List(r)) \in Nat
<1>1. walk[r] \in G!Walk /\ walk[r].searched \in BOOLEAN /\ G!TypeOK /\ Walking(walk[r], List(r))
  BY WalkFacts DEF ListInv
<1>2. QED
  BY <1>1, ListFacts DEF List

LEMMA ListInsert ==
    ASSUME G!ListingAssumption, ListInv, NEW n \in 1..MaxListed, G!Insert(n)
    PROVE  ListInv'
<1>1. n \in Nat /\ n \notin listed
  BY DEF G!Insert, ListInv, G!TypeOK, G!ListingAssumption
<1>2. listed \subseteq 1..MaxListed /\ inserted' \in 0..MaxListed
  BY DEF G!Insert, ListInv, G!TypeOK, G!ListingAssumption
<1>3. listed' = listed \union {n}
  BY <1>1 DEF G!Insert
<1>4. ASSUME NEW r \in Readers
      PROVE  walk'[r] \in G!Walk /\ Walking(walk'[r], List(r)')
  <2>1. PICK w : w = walk[r] /\ w \in G!Walk /\ w.searched \in BOOLEAN /\ Walking(w, List(r))
    BY ReaderFacts
  <2>2. PICK v : v = walk'[r]
    OBVIOUS
  <2>3. v = IF w.pc = "page" /\ G!Listed(n, r) THEN [w EXCEPT !.late = @ + 1] ELSE w
    BY <2>1, <2>2 DEF G!Insert
  <2>4. v \in G!Walk /\ v.searched = w.searched
    BY <2>1, <2>3 DEF G!Walk
  <2>5. CASE G!Listed(n, r)
    <3>1. List(r)' = List(r) \union {n}
      <4>1. w.searched => n \in Hits
        BY <2>1, <2>5 DEF G!Listed
      <4>2. QED
        BY <1>3, <2>1, <2>2, <2>4, <4>1 DEF List, G!Searched
    <3>2. /\ v.pc = w.pc /\ v.there = w.there /\ v.seen = w.seen /\ v.page = w.page
          /\ v.gone = w.gone /\ v.total = w.total
          /\ v.late = (IF w.pc = "page" THEN w.late + 1 ELSE w.late)
      BY <2>1, <2>3, <2>5 DEF G!Walk
    <3>3. n \notin List(r) /\ List(r) \subseteq Nat /\ IsFiniteSet(List(r))
      BY <1>1, ReaderFacts
    <3>4. Walking(v, List(r) \union {n})
      BY <1>1, <2>1, <2>4, <3>2, <3>3, WalkingInserted
    <3>5. QED
      BY <2>2, <2>4, <3>1, <3>4
  <2>6. CASE ~ G!Listed(n, r)
    <3>1. v = w
      BY <2>3, <2>6
    <3>2. List(r)' = List(r)
      <4>1. w.searched /\ n \notin Hits
        BY <2>1, <2>6 DEF G!Listed
      <4>2. QED
        BY <1>3, <2>1, <2>2, <3>1, <4>1 DEF List, G!Searched
    <3>3. QED
      BY <2>1, <2>2, <3>1, <3>2
  <2>7. QED
    BY <2>5, <2>6
<1>5. G!TypeOK'
  <2>1. walk' \in [Readers -> G!Walk]
    <3>1. DOMAIN walk' = Readers /\ walk' = [r \in DOMAIN walk' |-> walk'[r]]
      BY DEF G!Insert
    <3>2. QED
      BY <1>4, <3>1
  <2>2. listed' \subseteq 1..MaxListed /\ inserted' \in 0..MaxListed
    BY <1>2, <1>3
  <2>3. QED
    BY <2>1, <2>2 DEF G!Insert, ListInv, G!TypeOK
<1>6. QED
  BY <1>4, <1>5 DEF ListInv

LEMMA ListDelete ==
    ASSUME G!ListingAssumption, ListInv, NEW id \in 1..MaxListed, G!Delete(id)
    PROVE  ListInv'
<1>1. id \in Nat /\ listed' = listed \ {id} /\ inserted' = inserted
  <2>1. id \in Nat
    BY DEF G!ListingAssumption
  <2>2. QED
    BY <2>1, Zenon DEF G!Delete
<1>2. ASSUME NEW r \in Readers
      PROVE  walk'[r] \in G!Walk /\ Walking(walk'[r], List(r)')
  <2>1. PICK w : w = walk[r] /\ w \in G!Walk /\ w.searched \in BOOLEAN /\ Walking(w, List(r))
    BY ReaderFacts
  <2>2. PICK v : v = walk'[r]
    OBVIOUS
  <2>3. v = IF G!Reading(r) /\ G!Listed(id, r)
              THEN [w EXCEPT !.gone = @ + 1, !.there = @ \ {id}] ELSE w
    BY <2>1, <2>2 DEF G!Delete
  <2>4. v \in G!Walk /\ v.searched = w.searched
    <3>1. w.gone + 1 \in Nat /\ w.there \ {id} \in SUBSET (1..MaxListed)
      BY <2>1 DEF G!Walk
    <3>2. CASE G!Reading(r) /\ G!Listed(id, r)
      <4>1. v = [w EXCEPT !.gone = @ + 1, !.there = @ \ {id}]
        BY <2>3, <3>2
      <4>2. QED
        BY <2>1, <3>1, <4>1 DEF G!Walk
    <3>3. CASE ~ (G!Reading(r) /\ G!Listed(id, r))
      BY <2>1, <2>3, <3>3
    <3>4. QED
      BY <3>2, <3>3
  <2>5. CASE G!Reading(r) /\ G!Listed(id, r)
    <3>1. List(r)' = List(r) \ {id}
      BY <1>1, <2>1, <2>2, <2>4 DEF List, G!Searched
    <3>2. /\ v.pc = w.pc /\ v.there = w.there \ {id} /\ v.seen = w.seen /\ v.page = w.page
          /\ v.gone = w.gone + 1 /\ v.total = w.total /\ v.late = w.late
      BY <2>1, <2>3, <2>5 DEF G!Walk
    <3>3. List(r) \subseteq Nat /\ IsFiniteSet(List(r)) /\ w.pc \in {"count", "page"}
      BY <2>1, <2>5, ReaderFacts DEF G!Reading
    <3>4. Walking(v, List(r) \ {id})
      BY <1>1, <2>1, <2>4, <3>2, <3>3, WalkingDeleted
    <3>5. QED
      BY <2>2, <2>4, <3>1, <3>4
  <2>6. CASE G!Reading(r) /\ ~ G!Listed(id, r)
    <3>1. v = w
      BY <2>3, <2>6
    <3>2. List(r)' = List(r)
      <4>1. w.searched /\ id \notin Hits
        BY <2>1, <2>6 DEF G!Listed
      <4>2. QED
        BY <1>1, <2>1, <2>2, <3>1, <4>1 DEF List, G!Searched
    <3>3. QED
      BY <2>1, <2>2, <3>1, <3>2
  <2>7. CASE ~ G!Reading(r)
    <3>1. v = w /\ w.pc \notin {"count", "page"}
      BY <2>1, <2>3, <2>7 DEF G!Reading
    <3>2. Walking(v, List(r)')
      BY <2>1, <3>1 DEF Walking
    <3>3. QED
      BY <2>2, <2>4, <3>2
  <2>8. QED
    BY <2>5, <2>6, <2>7
<1>3. G!TypeOK'
  <2>1. walk' \in [Readers -> G!Walk]
    <3>1. DOMAIN walk' = Readers /\ walk' = [r \in DOMAIN walk' |-> walk'[r]]
      BY DEF G!Delete
    <3>2. QED
      BY <1>2, <3>1
  <2>2. listed' \subseteq 1..MaxListed /\ inserted' \in 0..MaxListed
    BY <1>1 DEF ListInv, G!TypeOK
  <2>3. deleted' \in 0..MaxDeletes
    <3>1. deleted < MaxDeletes /\ deleted' = deleted + 1
      BY DEF G!Delete
    <3>2. deleted \in 0..MaxDeletes /\ MaxDeletes \in Nat
      BY DEF ListInv, G!TypeOK, G!ListingAssumption
    <3>3. QED
      BY <3>1, <3>2
  <2>4. QED
    BY <2>1, <2>2, <2>3 DEF G!TypeOK
<1>4. QED
  BY <1>2, <1>3 DEF ListInv

(* A reader's own step: its list is the same, or the one it just opened.   *)
LEMMA ListReader ==
    ASSUME G!ListingAssumption, ListInv, NEW r \in Readers, NEW v \in G!Walk,
           walk' = [walk EXCEPT ![r] = v], UNCHANGED <<listed, inserted, deleted>>,
           Walking(v, G!Searched(listed, v.searched))
    PROVE  ListInv'
<1>1. G!TypeOK'
  BY DEF ListInv, G!TypeOK
<1>2. ASSUME NEW other \in Readers PROVE Walking(walk'[other], List(other)')
  <2>1. walk \in [Readers -> G!Walk]
    BY DEF ListInv, G!TypeOK
  <2>2. CASE other = r
    <3>1. walk'[other] = v
      BY <2>1, <2>2
    <3>2. List(other)' = G!Searched(listed, v.searched)
      BY <3>1 DEF List, G!Searched
    <3>3. QED
      BY <3>1, <3>2
  <2>3. CASE other # r
    <3>1. walk'[other] = walk[other]
      BY <2>1, <2>3
    <3>2. List(other)' = List(other)
      BY <3>1 DEF List, G!Searched
    <3>3. QED
      BY <3>1, <3>2 DEF ListInv
  <2>4. QED
    BY <2>2, <2>3
<1>3. QED
  BY <1>1, <1>2 DEF ListInv

LEMMA ListOpen ==
    ASSUME G!ListingAssumption, ListInv, NEW r \in Readers, NEW searched \in BOOLEAN,
           G!Open(r, searched)
    PROVE  ListInv'
<1>1. PICK list : list = G!Searched(listed, searched) /\ list \subseteq 1..MaxListed
  BY ListFacts DEF ListInv
<1>2. walk[r] \in G!Walk
  BY ReaderFacts
<1>3. PICK v : v = [G!Away EXCEPT !.pc = "count", !.searched = searched,
                                !.there = G!Searched(listed, searched),
                                !.walks = walk[r].walks + 1]
  OBVIOUS
<1>4. /\ v \in G!Walk /\ v.pc = "count" /\ v.searched = searched /\ v.there = list
      /\ v.page = 1 /\ v.gone = 0
  <2>1. v = [pc |-> "count", searched |-> searched, page |-> 1, total |-> 0, seen |-> {},
             there |-> list, gone |-> 0, late |-> 0, walks |-> walk[r].walks + 1]
    BY <1>1, <1>3 DEF G!Away
  <2>2. walk[r].walks + 1 \in Nat
    BY <1>2 DEF G!Walk
  <2>3. QED
    BY <1>1, <2>1, <2>2 DEF G!Walk
<1>5. Passed(v, list) = {}
  <2>1. SUFFICES ASSUME NEW id \in Passed(v, list) PROVE FALSE
    OBVIOUS
  <2>2. id \in list /\ After(list, id) < 0
    BY <1>4, <2>1, OffsetFacts, 1 \in Nat \ {0} DEF Passed
  <2>3. id \in Nat /\ list \subseteq Nat /\ IsFiniteSet(list)
    BY <1>1, <2>2, ListFacts DEF ListInv
  <2>4. After(list, id) \in Nat
    BY <2>3, AfterFacts
  <2>5. QED
    BY <2>2, <2>4
<1>6. Walking(v, list)
  BY <1>4, <1>5, FS_EmptySet DEF Walking
<1>7. walk' = [walk EXCEPT ![r] = v] /\ UNCHANGED <<listed, inserted, deleted>>
  BY <1>3 DEF G!Open
<1>8. QED
  BY <1>1, <1>4, <1>6, <1>7, ListReader

LEMMA ListCount ==
    ASSUME G!ListingAssumption, ListInv, NEW r \in Readers, G!Count(r)
    PROVE  ListInv'
<1>1. PICK w, list : /\ w = walk[r] /\ w \in G!Walk /\ list = G!Searched(listed, w.searched)
                     /\ Walking(w, list) /\ IsFiniteSet(list) /\ w.pc = "count"
  BY ReaderFacts DEF G!Count, List
<1>2. PICK v : v = G!Counted(w, Cardinality(list))
  OBVIOUS
<1>3. v \in G!Walk /\ Walking(v, list)
  BY <1>1, <1>2, WalkingCounted
<1>4. v.searched = w.searched
  BY <1>1, <1>2 DEF G!Counted, G!Walk
<1>5. walk' = [walk EXCEPT ![r] = v] /\ UNCHANGED <<listed, inserted, deleted>>
  BY <1>1, <1>2 DEF G!Count
<1>6. Walking(v, G!Searched(listed, v.searched))
  BY <1>1, <1>3, <1>4
<1>7. QED
  BY <1>3, <1>5, <1>6, ListReader

LEMMA ListFetch ==
    ASSUME G!ListingAssumption, ListInv, NEW r \in Readers, G!Fetch(r)
    PROVE  ListInv'
<1>1. PICK w, list : /\ w = walk[r] /\ w \in G!Walk /\ list = G!Searched(listed, w.searched)
                     /\ Walking(w, list) /\ IsFiniteSet(list) /\ w.pc = "page"
                     /\ list \subseteq 1..MaxListed /\ list \subseteq Nat
  BY ReaderFacts DEF G!Fetch, List
<1>2. PICK v : v = G!Turned(w, G!Window(list, w.page))
  OBVIOUS
<1>3. v \in G!Walk /\ Walking(v, list)
  BY <1>1, <1>2, WalkingTurned
<1>4. v.searched = w.searched
  BY <1>1, <1>2 DEF G!Turned, G!Walk
<1>5. walk' = [walk EXCEPT ![r] = v] /\ UNCHANGED <<listed, inserted, deleted>>
  BY <1>1, <1>2 DEF G!Fetch
<1>6. Walking(v, G!Searched(listed, v.searched))
  BY <1>1, <1>3, <1>4
<1>7. QED
  BY <1>3, <1>5, <1>6, ListReader

LEMMA ListStep ==
    ASSUME G!ListingAssumption, ListInv, [G!Next]_(G!vars)
    PROVE  ListInv'
<1>1. CASE \E id \in 1..MaxListed : G!Insert(id)
  BY <1>1, ListInsert
<1>2. CASE \E id \in 1..MaxListed : G!Delete(id)
  BY <1>2, ListDelete
<1>3. CASE \E r \in Readers : G!Count(r) \/ G!Fetch(r)
  BY <1>3, ListCount, ListFetch
<1>4. CASE \E r \in Readers, searched \in BOOLEAN : G!Open(r, searched)
  BY <1>4, ListOpen
<1>5. CASE UNCHANGED G!vars
  <2>1. UNCHANGED <<listed, inserted, deleted, walk>>
    BY <1>5 DEF G!vars
  <2>2. QED
    BY <2>1 DEF ListInv, G!TypeOK, List, G!Searched
<1>6. QED
  BY <1>1, <1>2, <1>3, <1>4, <1>5 DEF G!Next

LEMMA ListKept ==
    ASSUME ListInv
    PROVE  G!FewSkipped
BY DEF ListInv, Walking, G!FewSkipped

(* Listing: for any number of rows, readers and pages of any size, who     *)
(* turns all pages misses no more rows than left the list meanwhile and    *)
(* entered it between the count and the page of the last request (the List *)
(* handlers and the paginated queries of their repositories).              *)
THEOREM FewSkippedHolds == G!ListingAssumption => (G!Spec => []FewSkipped)
<1> SUFFICES ASSUME G!ListingAssumption PROVE G!Spec => []FewSkipped
  OBVIOUS
<1>1. G!Init => ListInv
  BY ListInit
<1>2. ListInv /\ [G!Next]_(G!vars) => ListInv'
  BY ListStep
<1>3. ListInv => FewSkipped
  BY ListKept DEF FewSkipped
<1>4. QED
  BY <1>1, <1>2, <1>3, PTL DEF G!Spec

-----------------------------------------------------------------------------
Contents(files) == UNION {L!ToSet(files[t]) : t \in DOMAIN files}

(* A file has only lines that came after all of an older one's.            *)
InOrder(files) ==
    \A t \in DOMAIN files, u \in DOMAIN files : t < u =>
        \A k \in L!ToSet(files[t]), l \in L!ToSet(files[u]) : k < l
Before(files, later) == \A t \in DOMAIN files : \A k \in L!ToSet(files[t]), l \in later : k < l

InFiles ==
    /\ InOrder(rotated) /\ Before(rotated, L!LinesOf(file))
    /\ Contents(rotated) \subseteq 1..lines /\ L!LinesOf(file) \subseteq 1..lines

(* What the stream and the pipeline know of each other.                    *)
InStep ==
    /\ final => job \in {"tail", "over"}
    /\ due \subseteq 1..lines
    /\ job = "queued" => file = None
    /\ stream.pc \in {"drain", "rest", "done"} => job \in {"tail", "over"}
    /\ held # None => stream.pc \in {"read", "rest"} /\ turned
    /\ stream.pc \in {"read", "rest"} /\ ~directory /\ held = None => file # None

(* Up to the n-th line of the file, each was sent or is hidden behind a    *)
(* long one.                                                               *)
CoveredTo(f, got, n) == \A i \in 1..n : f[i] \in got \/ \E j \in 1..i : f[j] \in Long

Following ==
    stream.pc \notin {"none", "done"} /\ ~turned /\ ~directory =>
        /\ stream.offset <= L!SizeOf(file) /\ CoveredTo(file, stream.sent, stream.offset)
        /\ stream.pc \in {"read", "rest"} =>
              stream.offset < stream.size /\ stream.size <= L!SizeOf(file)

LogsInv == L!TypeOK /\ InFiles /\ L!RotationKeeps /\ InStep /\ Following /\ L!DoneDelivers

-----------------------------------------------------------------------------
(* A file is not mistaken for none.                                        *)
LEMMA NoneFacts ==
    ASSUME L!LogsAssumption, NEW f \in Seq(L!Ids)
    PROVE  f # None
<1>1. f \in Seq(Nat)
  <2>1. L!Ids \subseteq Nat
    BY DEF L!Ids, L!LogsAssumption
  <2>2. /\ f = [i \in 1..Len(f) |-> f[i]] /\ Len(f) \in Nat
        /\ \A i \in 1..Len(f) : f[i] \in L!Ids
    OBVIOUS
  <2>3. f \in [1..Len(f) -> Nat]
    BY <2>1, <2>2
  <2>4. QED
    BY <2>2, <2>3
<1>2. QED
  BY <1>1 DEF L!LogsAssumption

LEMMA OnDiskIs ==
    L!OnDisk = Contents(rotated) \union L!LinesOf(file)
BY DEF L!OnDisk, Contents

LEMMA ToSetFacts ==
    ASSUME NEW f \in Seq(L!Ids)
    PROVE  /\ L!ToSet(f) \subseteq L!Ids
           /\ \A i \in 1..Len(f) : f[i] \in L!ToSet(f) /\ f[i] \in L!Ids
           /\ \A x \in L!ToSet(f) : \E i \in 1..Len(f) : x = f[i]
           /\ Len(f) \in Nat /\ DOMAIN f = 1..Len(f)
BY DEF L!ToSet

LEMMA EmptyFacts ==
    /\ <<>> \in Seq(L!Ids) /\ Len(<<>>) = 0 /\ L!ToSet(<<>>) = {}
BY DEF L!ToSet

(* A message is made of the lines that follow the last.                    *)
LEMMA MessageFacts ==
    ASSUME L!LogsAssumption, lines \in 0..MaxLines, NEW k \in 1..MaxMessage, lines + k <= MaxLines
    PROVE  /\ L!Message(k) \in Seq(L!Ids) /\ Len(L!Message(k)) = k
           /\ \A i \in 1..k : L!Message(k)[i] = lines + i
           /\ L!ToSet(L!Message(k)) = (lines + 1)..(lines + k)
<1>1. k \in Nat /\ lines \in Nat /\ MaxLines \in Nat
  BY DEF L!LogsAssumption
<1>2. \A i \in 1..k : lines + i \in L!Ids
  BY <1>1 DEF L!Ids
<1>3. L!Message(k) \in [1..k -> L!Ids]
  BY <1>2 DEF L!Message
<1>4. L!Message(k) \in Seq(L!Ids) /\ Len(L!Message(k)) = k
  BY <1>1, <1>3
<1>5. \A i \in 1..k : L!Message(k)[i] = lines + i
  BY DEF L!Message
<1>6. L!ToSet(L!Message(k)) \subseteq (lines + 1)..(lines + k)
  BY <1>1, <1>4, <1>5, ToSetFacts
<1>7. ASSUME NEW x \in (lines + 1)..(lines + k) PROVE x \in L!ToSet(L!Message(k))
  <2>1. PICK i \in 1..k : x = lines + i
    <3>1. x - lines \in 1..k /\ x = lines + (x - lines)
      BY <1>1
    <3>2. QED
      BY <3>1
  <2>2. QED
    BY <1>4, <1>5, <2>1, ToSetFacts
<1>8. QED
  BY <1>4, <1>5, <1>6, <1>7

(* A message appended to a file.                                           *)
LEMMA AppendedFacts ==
    ASSUME L!LogsAssumption, lines \in 0..MaxLines, NEW k \in 1..MaxMessage, lines + k <= MaxLines,
           NEW f \in Seq(L!Ids)
    PROVE  /\ f \o L!Message(k) \in Seq(L!Ids) /\ Len(f \o L!Message(k)) = Len(f) + k
           /\ \A i \in 1..Len(f) : (f \o L!Message(k))[i] = f[i]
           /\ \A i \in (Len(f) + 1)..(Len(f) + k) : (f \o L!Message(k))[i] > lines
           /\ L!ToSet(f \o L!Message(k)) = L!ToSet(f) \union ((lines + 1)..(lines + k))
<1>1. PICK m \in Seq(L!Ids) : /\ m = L!Message(k) /\ Len(m) = k
                            /\ \A i \in 1..k : m[i] = lines + i
                            /\ L!ToSet(m) = (lines + 1)..(lines + k)
  BY MessageFacts
<1>2. k \in Nat /\ lines \in Nat /\ Len(f) \in Nat
  BY DEF L!LogsAssumption
<1>3. PICK g : g = f \o m
  OBVIOUS
<1>4. /\ g \in Seq(L!Ids) /\ Len(g) = Len(f) + k
      /\ \A i \in 1..(Len(f) + k) : g[i] = IF i <= Len(f) THEN f[i] ELSE m[i - Len(f)]
  <2>1. /\ g \in Seq(L!Ids) /\ Len(g) = Len(f) + Len(m)
        /\ \A i \in 1..Len(f) + Len(m) : g[i] = IF i <= Len(f) THEN f[i] ELSE m[i - Len(f)]
    BY <1>3, ConcatProperties
  <2>2. Len(m) = k
    BY <1>1
  <2>3. QED
    BY <2>1, <2>2
<1>5. \A i \in 1..Len(f) : g[i] = f[i]
  <2>1. SUFFICES ASSUME NEW i \in 1..Len(f) PROVE g[i] = f[i]
    OBVIOUS
  <2>2. i \in 1..(Len(f) + k) /\ i <= Len(f)
    BY <1>2
  <2>3. QED
    BY <1>4, <2>2
<1>6. \A i \in (Len(f) + 1)..(Len(f) + k) : g[i] = lines + (i - Len(f)) /\ g[i] > lines
  BY <1>1, <1>2, <1>4
<1>7. L!ToSet(g) \subseteq L!ToSet(f) \union L!ToSet(m)
  <2>1. SUFFICES ASSUME NEW x \in L!ToSet(g) PROVE x \in L!ToSet(f) \union L!ToSet(m)
    OBVIOUS
  <2>2. PICK i \in 1..(Len(f) + k) : x = g[i]
    BY <1>4, ToSetFacts
  <2>3. CASE i <= Len(f)
    BY <1>2, <1>5, <2>2, <2>3, ToSetFacts
  <2>4. CASE i > Len(f)
    <3>1. i - Len(f) \in 1..k /\ x = m[i - Len(f)]
      BY <1>2, <1>4, <2>2, <2>4
    <3>2. QED
      BY <1>1, <3>1, ToSetFacts
  <2>5. QED
    BY <1>2, <2>3, <2>4
<1>8. L!ToSet(f) \subseteq L!ToSet(g)
  BY <1>2, <1>4, <1>5, ToSetFacts
<1>9. L!ToSet(m) \subseteq L!ToSet(g)
  <2>1. SUFFICES ASSUME NEW x \in L!ToSet(m) PROVE x \in L!ToSet(g)
    OBVIOUS
  <2>2. PICK i \in 1..k : x = m[i]
    BY <1>1, ToSetFacts
  <2>3. /\ Len(f) + i \in 1..(Len(f) + k) /\ ~ (Len(f) + i <= Len(f))
        /\ (Len(f) + i) - Len(f) = i
    BY <1>2
  <2>4. g[Len(f) + i] = m[i]
    BY <1>4, <2>3
  <2>5. QED
    BY <1>4, <2>2, <2>3, <2>4, ToSetFacts
<1>10. QED
  BY <1>1, <1>3, <1>4, <1>5, <1>6, <1>7, <1>8, <1>9

-----------------------------------------------------------------------------
LEMMA RotatedFinite ==
    ASSUME NEW files, NEW n \in Nat, DOMAIN files \subseteq 0..n
    PROVE  /\ DOMAIN files \subseteq Nat /\ IsFiniteSet(DOMAIN files)
           /\ Cardinality(DOMAIN files) \in Nat
<1>1. IsFiniteSet(0..n)
  BY FS_Interval
<1>2. DOMAIN files \in SUBSET (0..n)
  OBVIOUS
<1>3. QED
  BY <1>1, <1>2, FS_Subset, FS_CardinalityType

(* Renaming the file to one of this second or the next keeps the order.    *)
LEMMA RenamedFacts ==
    ASSUME L!LogsAssumption, L!TypeOK, InFiles, file # None, NEW s \in {second, second + 1},
           NEW files, files = L!Renamed(s)
    PROVE  /\ DOMAIN files \subseteq 0..s /\ files \in [DOMAIN files -> Seq(L!Ids)] /\ s \in Nat
           /\ DOMAIN rotated \subseteq DOMAIN files
           /\ InOrder(files) /\ Contents(files) \subseteq L!OnDisk
           /\ L!OnDisk \subseteq Contents(files) \union L!Replaced(s)
           /\ L!Replaced(s) \subseteq L!Ids
<1>1. /\ second \in Nat /\ s \in Nat /\ second <= s /\ file \in Seq(L!Ids)
      /\ DOMAIN rotated \subseteq 0..second /\ rotated \in [DOMAIN rotated -> Seq(L!Ids)]
  BY DEF L!TypeOK
<1>2. /\ DOMAIN files = DOMAIN rotated \union {s} /\ files[s] = file
      /\ \A t \in DOMAIN files : t # s => t \in DOMAIN rotated /\ files[t] = rotated[t]
  BY DEF L!Renamed
<1>3. \A t \in DOMAIN files : t \in Nat /\ t <= s /\ files[t] \in Seq(L!Ids)
  BY <1>1, <1>2
<1>4. files \in [DOMAIN files -> Seq(L!Ids)]
  <2>1. files = [t \in DOMAIN files |-> files[t]]
    BY DEF L!Renamed
  <2>2. QED
    BY <1>3, <2>1
<1>5. L!LinesOf(file) = L!ToSet(file)
  BY DEF L!LinesOf
<1>6. InOrder(files)
  <2>1. SUFFICES ASSUME NEW t \in DOMAIN files, NEW u \in DOMAIN files, t < u,
                        NEW k \in L!ToSet(files[t]), NEW l \in L!ToSet(files[u])
                 PROVE  k < l
    BY DEF InOrder
  <2>2. t # s /\ t \in DOMAIN rotated /\ files[t] = rotated[t]
    BY <1>1, <1>2, <1>3, <2>1
  <2>3. CASE u = s
    BY <1>2, <1>5, <2>2, <2>3 DEF InFiles, Before
  <2>4. CASE u # s
    BY <1>2, <2>1, <2>2, <2>4 DEF InFiles, InOrder
  <2>5. QED
    BY <2>3, <2>4
<1>7. Contents(files) \subseteq L!OnDisk
  <2>1. SUFFICES ASSUME NEW x \in Contents(files)
                 PROVE  x \in Contents(rotated) \union L!LinesOf(file)
    BY OnDiskIs
  <2>2. PICK t \in DOMAIN files : x \in L!ToSet(files[t])
    BY DEF Contents
  <2>3. CASE t = s
    BY <1>2, <1>5, <2>2, <2>3
  <2>4. CASE t # s
    BY <1>2, <2>2, <2>4 DEF Contents
  <2>5. QED
    BY <2>3, <2>4
<1>8. L!OnDisk \subseteq Contents(files) \union L!Replaced(s)
  <2>1. SUFFICES ASSUME NEW x \in Contents(rotated) \union L!LinesOf(file)
                 PROVE  x \in Contents(files) \union L!Replaced(s)
    BY OnDiskIs
  <2>2. CASE x \in L!LinesOf(file)
    BY <1>2, <1>5, <2>2 DEF Contents
  <2>3. CASE x \in Contents(rotated)
    <3>1. PICK t \in DOMAIN rotated : x \in L!ToSet(rotated[t])
      BY <2>3 DEF Contents
    <3>2. CASE t = s
      BY <3>1, <3>2 DEF L!Replaced
    <3>3. CASE t # s
      BY <1>2, <3>1, <3>3 DEF Contents
    <3>4. QED
      BY <3>2, <3>3
  <2>4. QED
    BY <2>1, <2>2, <2>3
<1>9. L!Replaced(s) \subseteq L!Ids
  <2>1. CASE s \in DOMAIN rotated
    <3>1. rotated[s] \in Seq(L!Ids)
      BY <1>1, <2>1
    <3>2. QED
      BY <2>1, <3>1, ToSetFacts DEF L!Replaced
  <2>2. CASE s \notin DOMAIN rotated
    BY <2>2 DEF L!Replaced
  <2>3. QED
    BY <2>1, <2>2
<1>10. QED
  BY <1>1, <1>2, <1>3, <1>4, <1>6, <1>7, <1>8, <1>9

(* What goes is older than what stays, and MaxFiles files stay then.       *)
LEMMA KeptFacts ==
    ASSUME L!LogsAssumption, NEW n \in Nat, NEW files, DOMAIN files \subseteq 0..n,
           files \in [DOMAIN files -> Seq(L!Ids)], InOrder(files),
           NEW kept, kept = L!Kept(files)
    PROVE  /\ DOMAIN kept \subseteq DOMAIN files /\ kept \in [DOMAIN kept -> Seq(L!Ids)]
           /\ \A t \in DOMAIN kept : kept[t] = files[t]
           /\ InOrder(kept) /\ Contents(kept) \subseteq Contents(files)
           /\ \A t \in DOMAIN files : t \notin DOMAIN kept =>
                 /\ Cardinality(DOMAIN kept) >= MaxFiles
                 /\ \A u \in DOMAIN kept : t < u
<1>1. PICK S : S = DOMAIN files /\ S \subseteq Nat /\ IsFiniteSet(S) /\ Cardinality(S) \in Nat
  BY RotatedFinite
<1>2. MaxFiles \in Nat
  BY DEF L!LogsAssumption
<1>3. /\ DOMAIN kept = {t \in S : After(S, t) < MaxFiles}
      /\ \A t \in DOMAIN kept : kept[t] = files[t]
      /\ kept = [t \in DOMAIN kept |-> files[t]]
  BY <1>1 DEF L!Kept, After
<1>4. DOMAIN kept \subseteq DOMAIN files
  BY <1>1, <1>3
<1>5. kept \in [DOMAIN kept -> Seq(L!Ids)]
  BY <1>3, <1>4
<1>6. InOrder(kept)
  BY <1>3, <1>4 DEF InOrder
<1>7. Contents(kept) \subseteq Contents(files)
  BY <1>3, <1>4 DEF Contents
<1>8. ASSUME NEW t \in DOMAIN files, t \notin DOMAIN kept
      PROVE  /\ Cardinality(DOMAIN kept) >= MaxFiles
             /\ \A u \in DOMAIN kept : t < u
  <2>1. t \in S /\ t \in Nat /\ After(S, t) \in Nat /\ After(S, t) >= MaxFiles
    <3>1. t \in S /\ t \in Nat
      BY <1>1
    <3>2. After(S, t) \in Nat
      BY <1>1, <3>1, AfterFacts
    <3>3. ~ (After(S, t) < MaxFiles)
      BY <1>3, <1>8, <3>1
    <3>4. QED
      BY <1>2, <3>1, <3>2, <3>3
  <2>2. ASSUME NEW u \in DOMAIN kept PROVE t < u
    <3>1. u \in S /\ u \in Nat /\ After(S, u) < MaxFiles
      BY <1>1, <1>3
    <3>2. After(S, u) \in Nat
      BY <1>1, <3>1, AfterFacts
    <3>3. u < t => After(S, t) < After(S, u)
      BY <1>1, <2>1, <3>1, AfterInjective
    <3>4. t # u
      BY <1>8
    <3>5. QED
      BY <1>2, <2>1, <3>1, <3>2, <3>3, <3>4
  <2>3. PICK Q : Q = {u \in S : After(S, u) >= MaxFiles}
    OBVIOUS
  <2>4. IsFiniteSet(Q) /\ Cardinality(Q) + MaxFiles <= Cardinality(S)
    <3>1. t \in Q
      BY <2>1, <2>3
    <3>2. QED
      BY <1>1, <1>2, <2>3, <3>1, AfterBeyond
  <2>5. PICK D : D = DOMAIN kept /\ D \in SUBSET S
    BY <1>1, <1>4
  <2>6. IsFiniteSet(D) /\ Cardinality(D) \in Nat /\ Cardinality(Q) \in Nat
    BY <1>1, <2>4, <2>5, FS_Subset, FS_CardinalityType
  <2>7. S = D \union Q
    <3>1. SUFFICES ASSUME NEW u \in S PROVE u \in D \union Q
      BY <2>3, <2>5
    <3>2. After(S, u) \in Nat
      BY <1>1, AfterFacts
    <3>3. After(S, u) < MaxFiles \/ After(S, u) >= MaxFiles
      BY <1>2, <3>2
    <3>4. QED
      BY <1>3, <2>3, <2>5, <3>3
  <2>8. IsFiniteSet(D \cap Q) /\ Cardinality(D \cap Q) \in Nat
    <3>1. D \cap Q \in SUBSET D
      OBVIOUS
    <3>2. QED
      BY <2>6, <3>1, FS_Subset, FS_CardinalityType
  <2>9. Cardinality(S) = Cardinality(D) + Cardinality(Q) - Cardinality(D \cap Q)
    BY <2>4, <2>6, <2>7, FS_Union
  <2>10. Cardinality(D) >= MaxFiles
    BY <1>1, <1>2, <2>4, <2>6, <2>8, <2>9
  <2>11. QED
    BY <2>2, <2>5, <2>10
<1>9. QED
  BY <1>3, <1>4, <1>5, <1>6, <1>7, <1>8

-----------------------------------------------------------------------------
LEMMA FilesSame ==
    ASSUME InFiles, L!RotationKeeps, UNCHANGED L!fileVars
    PROVE  InFiles' /\ L!RotationKeeps'
<1>1. UNCHANGED <<file, rotated, lines, overwritten, stuck>>
  BY DEF L!fileVars
<1>2. UNCHANGED L!OnDisk /\ UNCHANGED L!LinesOf(file)
  BY <1>1 DEF L!OnDisk, L!LinesOf
<1>3. InFiles'
  BY <1>1, <1>2 DEF InFiles
<1>4. L!RotationKeeps'
  BY <1>1, <1>2 DEF L!RotationKeeps
<1>5. QED
  BY <1>3, <1>4

(* What was lost before a rotation, and what it loses itself.              *)
LEMMA RotatedFacts ==
    ASSUME L!LogsAssumption, LogsInv, file # None, NEW s \in {second, second + 1},
           overwritten' = overwritten \union L!Replaced(s), stuck' \/ stuck' = stuck,
           NEW k \in Nat, lines' = lines + k, L!LinesOf(file)' = (lines + 1)..(lines + k),
           rotated' = L!Renamed(s) \/ rotated' = L!Kept(L!Renamed(s))
    PROVE  /\ InFiles' /\ L!RotationKeeps'
           /\ DOMAIN rotated' \subseteq 0..s /\ rotated' \in [DOMAIN rotated' -> Seq(L!Ids)]
           /\ L!Replaced(s) \subseteq L!Ids /\ s \in Nat
<1>1. PICK W : W = L!Renamed(s)
  OBVIOUS
<1>2. /\ DOMAIN W \subseteq 0..s /\ W \in [DOMAIN W -> Seq(L!Ids)] /\ s \in Nat
      /\ DOMAIN rotated \subseteq DOMAIN W
      /\ InOrder(W) /\ Contents(W) \subseteq L!OnDisk
      /\ L!OnDisk \subseteq Contents(W) \union L!Replaced(s)
      /\ L!Replaced(s) \subseteq L!Ids
  BY <1>1, RenamedFacts DEF LogsInv
<1>3. PICK K : K = rotated'
  OBVIOUS
<1>4. /\ DOMAIN K \subseteq DOMAIN W /\ K \in [DOMAIN K -> Seq(L!Ids)]
      /\ \A t \in DOMAIN K : K[t] = W[t]
      /\ InOrder(K) /\ Contents(K) \subseteq Contents(W)
      /\ \A t \in DOMAIN W : t \notin DOMAIN K =>
            Cardinality(DOMAIN K) >= MaxFiles /\ \A u \in DOMAIN K : t < u
  <2>1. CASE K = W
    BY <1>2, <2>1
  <2>2. CASE K = L!Kept(W)
    BY <1>2, <2>2, KeptFacts
  <2>3. QED
    BY <1>1, <1>3, <2>1, <2>2
<1>5. lines \in Nat /\ L!OnDisk \subseteq 1..lines
  BY OnDiskIs DEF LogsInv, L!TypeOK, InFiles
<1>6. L!OnDisk' = Contents(K) \union ((lines + 1)..(lines + k))
  BY <1>3 DEF L!OnDisk, Contents
<1>7. InFiles'
  <2>1. Contents(K) \subseteq 1..lines
    BY <1>2, <1>4, <1>5
  <2>2. Before(K, (lines + 1)..(lines + k))
    <3>1. SUFFICES ASSUME NEW t \in DOMAIN K, NEW x \in L!ToSet(K[t]),
                          NEW y \in (lines + 1)..(lines + k)
                   PROVE  x < y
      BY DEF Before
    <3>2. x \in 1..lines
      BY <2>1 DEF Contents
    <3>3. QED
      BY <1>5, <3>2
  <2>3. Contents(K) \subseteq 1..(lines + k) /\ (lines + 1)..(lines + k) \subseteq 1..(lines + k)
    BY <1>5, <2>1
  <2>4. QED
    BY <1>3, <1>4, <2>2, <2>3 DEF InFiles
<1>8. L!RotationKeeps'
  <2>1. SUFFICES ASSUME ~ stuck', NEW l \in 1..(lines + k),
                        l \notin L!OnDisk', l \notin overwritten'
                 PROVE  /\ Cardinality(DOMAIN K) >= MaxFiles
                        /\ \A x \in L!OnDisk' : l < x
    BY <1>3 DEF L!RotationKeeps
  <2>2. l \in 1..lines /\ ~ stuck /\ l \notin overwritten /\ l \notin L!Replaced(s)
    <3>1. l \notin (lines + 1)..(lines + k)
      BY <1>6, <2>1
    <3>2. l \in 1..lines
      BY <1>5, <3>1
    <3>3. QED
      BY <2>1, <3>2
  <2>3. \A x \in (lines + 1)..(lines + k) : l < x
    BY <1>5, <2>2
  <2>4. CASE l \notin L!OnDisk
    <3>1. Cardinality(DOMAIN rotated) >= MaxFiles /\ \A x \in L!OnDisk : l < x
      <4>1. l \in (1..lines) \ (L!OnDisk \union overwritten)
        BY <2>2, <2>4
      <4>2. QED
        BY <2>2, <4>1 DEF LogsInv, L!RotationKeeps
    <3>2. \A x \in L!OnDisk' : l < x
      BY <1>2, <1>4, <1>6, <2>3, <3>1
    <3>3. Cardinality(DOMAIN K) >= MaxFiles
      <4>1. CASE DOMAIN K = DOMAIN W
        <5>1. PICK D, E : D = DOMAIN rotated /\ E = DOMAIN W /\ D \in SUBSET E
          BY <1>2
        <5>2. IsFiniteSet(E) /\ Cardinality(E) \in Nat
          BY <1>2, <5>1, RotatedFinite
        <5>3. Cardinality(D) <= Cardinality(E) /\ Cardinality(D) \in Nat
          BY <5>1, <5>2, FS_Subset, FS_CardinalityType
        <5>4. MaxFiles \in Nat
          BY DEF L!LogsAssumption
        <5>5. Cardinality(E) >= MaxFiles
          BY <3>1, <5>1, <5>2, <5>3, <5>4
        <5>6. QED
          BY <4>1, <5>1, <5>5
      <4>2. CASE DOMAIN K # DOMAIN W
        BY <1>4, <4>2
      <4>3. QED
        BY <4>1, <4>2
    <3>4. QED
      BY <3>2, <3>3
  <2>5. CASE l \in L!OnDisk
    <3>1. PICK t \in DOMAIN W : l \in L!ToSet(W[t])
      BY <1>2, <2>2, <2>5 DEF Contents
    <3>2. t \notin DOMAIN K
      BY <1>4, <1>6, <2>1, <3>1 DEF Contents
    <3>3. Cardinality(DOMAIN K) >= MaxFiles /\ \A u \in DOMAIN K : t < u
      BY <1>4, <3>1, <3>2
    <3>4. ASSUME NEW x \in Contents(K) PROVE l < x
      <4>1. PICK u \in DOMAIN K : x \in L!ToSet(W[u])
        BY <1>4, <3>4 DEF Contents
      <4>2. u \in DOMAIN W /\ t < u
        BY <1>4, <3>3, <4>1
      <4>3. QED
        BY <1>2, <3>1, <4>1, <4>2 DEF InOrder
    <3>5. QED
      BY <1>6, <2>3, <3>3, <3>4
  <2>6. QED
    BY <2>4, <2>5
<1>9. QED
  BY <1>2, <1>3, <1>4, <1>7, <1>8

(* The stream of a log that is rotated: it goes on, but is one that turned.*)
LEMMA TurnFacts ==
    ASSUME L!LogsAssumption, LogsInv, L!Turn, writer = "open", job \in {"working", "tail"},
           UNCHANGED <<L!jobVars, stream>>, lines' \in Nat, lines <= lines',
           file' \in Seq(L!Ids) \union {None}, L!LinesOf(file)' \cap (1..lines) = {}
    PROVE  /\ InStep' /\ Following' /\ L!DoneDelivers'
           /\ held' \in Seq(L!Ids) \union {None} /\ turned' \in BOOLEAN
<1>1. file # None /\ file \in Seq(L!Ids) /\ lines \in Nat
  BY DEF LogsInv, L!TypeOK
<1>2. UNCHANGED <<job, final, directory, due, stream>>
  BY DEF L!jobVars
<1>3. turned' = (turned \/ stream.pc \notin {"none", "done"})
  BY DEF L!Turn
<1>4. held' = IF L!Opened /\ held = None THEN file ELSE held
  BY DEF L!Turn
<1>5. InStep'
  <2>1. due' \subseteq 1..lines'
    <3>1. due \subseteq 1..lines
      BY DEF LogsInv, InStep
    <3>2. QED
      BY <1>1, <1>2, <3>1
  <2>2. ASSUME held' # None PROVE stream.pc \in {"read", "rest"} /\ turned'
    BY <1>3, <1>4, <2>2 DEF L!Opened, LogsInv, InStep
  <2>3. ASSUME stream.pc \in {"read", "rest"}, ~directory PROVE held' # None
    BY <1>1, <1>4, <2>3 DEF L!Opened
  <2>4. QED
    BY <1>2, <2>1, <2>2, <2>3 DEF LogsInv, InStep
<1>6. Following'
  BY <1>2, <1>3 DEF Following
<1>7. L!DoneDelivers'
  <2>1. SUFFICES ASSUME file' # None, NEW i \in DOMAIN file', file'[i] \in due PROVE FALSE
    BY <1>2 DEF L!DoneDelivers
  <2>2. file'[i] \in L!LinesOf(file)'
    BY <2>1, ToSetFacts DEF L!LinesOf
  <2>3. due \subseteq 1..lines
    BY DEF LogsInv, InStep
  <2>4. QED
    BY <2>1, <2>2, <2>3
<1>8. QED
  BY <1>1, <1>3, <1>4, <1>5, <1>6, <1>7 DEF LogsInv, L!TypeOK

LEMMA RotateStep ==
    ASSUME L!LogsAssumption, LogsInv, NEW k \in 1..MaxMessage, NEW s \in 0..MaxLines, L!Rotate(k, s)
    PROVE  LogsInv'
<1>1. /\ writer = "open" /\ job \in {"working", "tail"} /\ lines + k <= MaxLines
      /\ s \in {second, second + 1} /\ second' = s /\ L!Turn
      /\ overwritten' = overwritten \union L!Replaced(s)
      /\ UNCHANGED <<L!jobVars, writer>>
  BY DEF L!Rotate, L!Writing
<1>2. /\ file # None /\ lines \in 0..MaxLines /\ lines \in Nat /\ k \in Nat /\ MaxLines \in Nat
      /\ failures \in Nat /\ overwritten \subseteq L!Ids /\ stuck \in BOOLEAN
  BY <1>1 DEF LogsInv, L!TypeOK, L!LogsAssumption
<1>3. PICK n \in Nat :
         /\ n <= k /\ lines' = lines + n /\ L!LinesOf(file)' = (lines + 1)..(lines + n)
         /\ file' \in Seq(L!Ids)
         /\ rotated' = L!Renamed(s) \/ rotated' = L!Kept(L!Renamed(s))
         /\ stuck' \in BOOLEAN /\ (stuck' \/ stuck' = stuck) /\ failures' \in Nat
  <2>1. failures' \in Nat
    BY <1>2 DEF L!Rotate, L!Works, L!Fails
  <2>2. CASE file' = L!Message(k) /\ lines' = lines + k
    <3>1. file' \in Seq(L!Ids) /\ L!ToSet(file') = (lines + 1)..(lines + k)
      BY <1>1, <1>2, <2>2, MessageFacts
    <3>2. L!LinesOf(file)' = (lines + 1)..(lines + k)
      BY <3>1, NoneFacts DEF L!LinesOf
    <3>3. /\ rotated' = L!Renamed(s) \/ rotated' = L!Kept(L!Renamed(s))
          /\ stuck' \in BOOLEAN /\ (stuck' \/ stuck' = stuck)
      BY <1>2 DEF L!Rotate
    <3>4. QED
      BY <1>2, <2>1, <2>2, <3>1, <3>2, <3>3
  <2>3. CASE rotated' = L!Renamed(s) /\ UNCHANGED <<lines, stuck>> /\ file' = <<>>
    <3>1. L!LinesOf(file)' = {}
      BY <2>3, EmptyFacts DEF L!LinesOf
    <3>2. (lines + 1)..(lines + 0) = {} /\ lines + 0 = lines /\ 0 <= k /\ 0 \in Nat
      BY <1>2
    <3>3. QED
      BY <1>2, <2>1, <2>3, <3>1, <3>2, EmptyFacts
  <2>4. QED
    BY <2>2, <2>3 DEF L!Rotate
<1>4. /\ InFiles' /\ L!RotationKeeps'
      /\ DOMAIN rotated' \subseteq 0..s /\ rotated' \in [DOMAIN rotated' -> Seq(L!Ids)]
      /\ L!Replaced(s) \subseteq L!Ids /\ s \in Nat
  BY <1>1, <1>2, <1>3, RotatedFacts
<1>5. stream' = stream
  BY <1>1 DEF L!Turn
<1>6. /\ InStep' /\ Following' /\ L!DoneDelivers'
      /\ held' \in Seq(L!Ids) \union {None} /\ turned' \in BOOLEAN
  <2>1. lines' \in Nat /\ lines <= lines' /\ ((lines + 1)..(lines + n)) \cap (1..lines) = {}
    BY <1>2, <1>3
  <2>2. QED
    BY <1>1, <1>3, <1>5, <2>1, TurnFacts
<1>7. L!TypeOK'
  <2>1. file' # None
    BY <1>3, NoneFacts
  <2>2. lines' \in 0..MaxLines
    BY <1>1, <1>2, <1>3
  <2>3. overwritten' \subseteq L!Ids
    BY <1>1, <1>2, <1>4
  <2>4. UNCHANGED <<job, final, directory, due, writer, stream>>
    BY <1>1, <1>5 DEF L!jobVars
  <2>5. DOMAIN rotated' \subseteq 0..second' /\ second' \in Nat
    BY <1>1, <1>4
  <2>6. QED
    BY <1>3, <1>4, <1>6, <2>1, <2>2, <2>3, <2>4, <2>5 DEF LogsInv, L!TypeOK
<1>8. QED
  BY <1>4, <1>6, <1>7 DEF LogsInv

LEMMA RotateFailsStep ==
    ASSUME L!LogsAssumption, LogsInv, NEW k \in 1..MaxMessage, NEW s \in 0..MaxLines,
           L!RotateFails(k, s)
    PROVE  LogsInv'
<1>1. /\ writer = "open" /\ writer' = "broken" /\ job \in {"working", "tail"}
      /\ s \in {second, second + 1} /\ UNCHANGED <<L!jobVars, lines, stuck>>
      /\ failures' = failures + 1
  BY DEF L!RotateFails, L!Writing, L!Fails
<1>2. /\ file # None /\ lines \in 0..MaxLines /\ lines \in Nat /\ MaxLines \in Nat
      /\ failures' \in Nat /\ overwritten \subseteq L!Ids /\ stuck \in BOOLEAN
  BY <1>1 DEF LogsInv, L!TypeOK, L!LogsAssumption
<1>3. UNCHANGED <<job, final, directory, due>>
  BY <1>1 DEF L!jobVars
<1>4. CASE /\ second' = s /\ file' = None /\ rotated' = L!Renamed(s) /\ L!Turn
           /\ overwritten' = overwritten \union L!Replaced(s)
  <2>1. stream' = stream
    BY <1>4 DEF L!Turn
  <2>2. L!LinesOf(file)' = {} /\ (lines + 1)..(lines + 0) = {} /\ lines' = lines + 0 /\ 0 \in Nat
    BY <1>1, <1>2, <1>4 DEF L!LinesOf
  <2>3. /\ InFiles' /\ L!RotationKeeps'
        /\ DOMAIN rotated' \subseteq 0..s /\ rotated' \in [DOMAIN rotated' -> Seq(L!Ids)]
        /\ L!Replaced(s) \subseteq L!Ids /\ s \in Nat
    BY <1>1, <1>2, <1>4, <2>2, RotatedFacts
  <2>4. /\ InStep' /\ Following' /\ L!DoneDelivers'
        /\ held' \in Seq(L!Ids) \union {None} /\ turned' \in BOOLEAN
    <3>1. lines' \in Nat /\ lines <= lines' /\ {} \cap (1..lines) = {}
      BY <1>2, <2>2
    <3>2. file' \in Seq(L!Ids) \union {None}
      BY <1>4
    <3>3. QED
      BY <1>1, <1>4, <2>1, <2>2, <3>1, <3>2, TurnFacts
  <2>5. overwritten' \subseteq L!Ids
    BY <1>2, <1>4, <2>3
  <2>6. L!TypeOK'
    BY <1>1, <1>2, <1>3, <1>4, <2>1, <2>3, <2>4, <2>5 DEF LogsInv, L!TypeOK
  <2>7. QED
    BY <2>3, <2>4, <2>6 DEF LogsInv
<1>5. CASE UNCHANGED <<second, file, rotated, overwritten, L!streamVars>>
  <2>1. UNCHANGED <<second, file, rotated, overwritten, stream, held, turned>>
    BY <1>5 DEF L!streamVars
  <2>2. L!TypeOK'
    BY <1>1, <1>2, <1>3, <2>1 DEF LogsInv, L!TypeOK
  <2>3. InFiles'
    BY <1>1, <2>1 DEF LogsInv, InFiles, L!LinesOf
  <2>4. L!RotationKeeps'
    BY <1>1, <2>1 DEF LogsInv, L!RotationKeeps, L!OnDisk, L!LinesOf
  <2>5. InStep' /\ Following' /\ L!DoneDelivers'
    BY <1>1, <1>3, <2>1 DEF LogsInv, InStep, Following, L!DoneDelivers, L!SizeOf
  <2>6. QED
    BY <2>2, <2>3, <2>4, <2>5 DEF LogsInv
<1>6. QED
  BY <1>4, <1>5 DEF L!RotateFails

LEMMA OpenStep ==
    ASSUME L!LogsAssumption, LogsInv, L!Open
    PROVE  LogsInv'
<1>1. /\ job = "queued" /\ file = None /\ ~ final /\ stream.pc \notin {"drain", "rest", "done"}
      /\ failures \in Nat
  BY DEF L!Open, LogsInv, InStep, L!TypeOK
<1>2. UNCHANGED <<final, directory, due, rotated, second, lines, overwritten, stuck,
                  stream, held, turned>>
  BY DEF L!Open, L!streamVars
<1>3. failures' \in Nat
  BY <1>1 DEF L!Open, L!Works, L!Fails
<1>4. /\ job' \in {"working", "over"}
      /\ \/ file' = <<>> /\ writer' = "open"
         \/ file' = file /\ writer' = writer
  BY DEF L!Open
<1>5. file' \in Seq(L!Ids) \union {None} /\ L!LinesOf(file)' = {} /\ L!LinesOf(file) = {}
  BY <1>1, <1>4, EmptyFacts DEF L!LinesOf
<1>6. L!OnDisk' = L!OnDisk
  BY <1>2, <1>5 DEF L!OnDisk
<1>7. L!TypeOK'
  <2>1. writer' \in {"open", "broken", "closed"} /\ (writer' = "open" => file' # None)
    <3>1. CASE file' = <<>> /\ writer' = "open"
      <4>1. <<>> # None
        <5>1. <<>> \in Seq(Nat)
          OBVIOUS
        <5>2. QED
          BY <5>1 DEF L!LogsAssumption
      <4>2. QED
        BY <3>1, <4>1
    <3>2. CASE file' = file /\ writer' = writer
      BY <3>2 DEF LogsInv, L!TypeOK
    <3>3. QED
      BY <1>4, <3>1, <3>2
  <2>2. QED
    BY <1>2, <1>3, <1>4, <1>5, <2>1 DEF LogsInv, L!TypeOK
<1>8. InFiles'
  BY <1>2, <1>5 DEF LogsInv, InFiles
<1>9. L!RotationKeeps'
  BY <1>2, <1>6 DEF LogsInv, L!RotationKeeps
<1>10. InStep'
  <2>1. stream.pc \in {"read", "rest"} /\ ~directory /\ held = None => FALSE
    BY <1>1 DEF LogsInv, InStep
  <2>2. QED
    BY <1>1, <1>2, <1>4, <2>1 DEF LogsInv, InStep
<1>11. Following'
  <2>1. SUFFICES ASSUME stream.pc \notin {"none", "done"}, ~turned, ~directory
                 PROVE  /\ stream.offset <= L!SizeOf(file')
                        /\ CoveredTo(file', stream.sent, stream.offset)
                        /\ stream.pc \notin {"read", "rest"}
    BY <1>2 DEF Following
  <2>2. stream.offset = 0
    BY <1>1, <2>1 DEF LogsInv, L!TypeOK, Following, L!SizeOf
  <2>3. stream.pc \notin {"read", "rest"}
    BY <1>1, <2>1 DEF LogsInv, InStep
  <2>4. L!SizeOf(file') \in Nat
    BY <1>4, <1>1, EmptyFacts DEF L!SizeOf
  <2>5. QED
    BY <2>2, <2>3, <2>4 DEF CoveredTo
<1>12. L!DoneDelivers'
  BY <1>1, <1>2 DEF L!DoneDelivers
<1>13. QED
  BY <1>7, <1>8, <1>9, <1>10, <1>11, <1>12 DEF LogsInv

LEMMA WriteMessageStep ==
    ASSUME L!LogsAssumption, LogsInv, NEW k \in 1..MaxMessage, L!WriteMessage(k)
    PROVE  LogsInv'
<1>1. /\ writer = "open" /\ job \in {"working", "tail"} /\ lines + k <= MaxLines
      /\ UNCHANGED <<L!jobVars, rotated, writer, second, overwritten, stuck, L!streamVars>>
  BY DEF L!WriteMessage, L!Writing
<1>2. /\ file # None /\ file \in Seq(L!Ids) /\ lines \in 0..MaxLines /\ lines \in Nat /\ k \in Nat
      /\ MaxLines \in Nat /\ failures \in Nat
  BY <1>1 DEF LogsInv, L!TypeOK, L!LogsAssumption
<1>3. UNCHANGED <<job, final, directory, due, stream, held, turned>>
  BY <1>1 DEF L!jobVars, L!streamVars
<1>4. failures' \in Nat
  BY <1>2 DEF L!WriteMessage, L!Works, L!Fails
<1>5. CASE UNCHANGED <<file, lines>>
  <2>1. UNCHANGED L!fileVars
    BY <1>1, <1>5 DEF L!fileVars
  <2>2. InFiles' /\ L!RotationKeeps'
    BY <2>1, FilesSame DEF LogsInv
  <2>3. L!TypeOK'
    BY <1>1, <1>3, <1>4, <1>5 DEF LogsInv, L!TypeOK
  <2>4. InStep' /\ Following' /\ L!DoneDelivers'
    BY <1>3, <1>5 DEF LogsInv, InStep, Following, L!DoneDelivers, L!SizeOf
  <2>5. QED
    BY <2>2, <2>3, <2>4 DEF LogsInv
<1>6. CASE file' = file \o L!Message(k) /\ lines' = lines + k
  <2>1. /\ file' \in Seq(L!Ids) /\ Len(file') = Len(file) + k
        /\ \A i \in 1..Len(file) : file'[i] = file[i]
        /\ \A i \in (Len(file) + 1)..(Len(file) + k) : file'[i] > lines
        /\ L!ToSet(file') = L!ToSet(file) \union ((lines + 1)..(lines + k))
    BY <1>1, <1>2, <1>6, AppendedFacts
  <2>2. file' # None /\ Len(file) \in Nat
    BY <1>2, <2>1, NoneFacts
  <2>3. /\ L!LinesOf(file) = L!ToSet(file)
        /\ L!LinesOf(file)' = L!ToSet(file) \union ((lines + 1)..(lines + k))
    BY <1>2, <2>1, <2>2 DEF L!LinesOf
  <2>4. L!TypeOK'
    <3>1. lines' \in 0..MaxLines
      BY <1>1, <1>2, <1>6
    <3>2. QED
      BY <1>1, <1>3, <1>4, <2>1, <2>2, <3>1 DEF LogsInv, L!TypeOK
  <2>5. InFiles'
    <3>1. /\ InOrder(rotated) /\ Before(rotated, L!ToSet(file))
          /\ Contents(rotated) \subseteq 1..lines /\ L!ToSet(file) \subseteq 1..lines
      BY <2>3 DEF LogsInv, InFiles
    <3>2. Before(rotated, L!LinesOf(file)')
      <4>1. SUFFICES ASSUME NEW t \in DOMAIN rotated, NEW x \in L!ToSet(rotated[t]),
                            NEW y \in L!ToSet(file) \union ((lines + 1)..(lines + k))
                     PROVE  x < y
        BY <2>3 DEF Before
      <4>2. x \in 1..lines
        BY <3>1 DEF Contents
      <4>3. CASE y \in L!ToSet(file)
        BY <3>1, <4>3 DEF Before
      <4>4. CASE y \in (lines + 1)..(lines + k)
        BY <1>2, <4>2, <4>4
      <4>5. QED
        BY <4>3, <4>4
    <3>3. 1..lines \subseteq 1..(lines + k) /\ (lines + 1)..(lines + k) \subseteq 1..(lines + k)
      BY <1>2
    <3>4. Contents(rotated) \subseteq 1..(lines + k) /\ L!LinesOf(file)' \subseteq 1..(lines + k)
      BY <2>3, <3>1, <3>3
    <3>5. QED
      BY <1>1, <1>6, <3>1, <3>2, <3>4 DEF InFiles
  <2>6. L!RotationKeeps'
    <3>1. L!OnDisk' = L!OnDisk \union ((lines + 1)..(lines + k))
      BY <1>1, <2>3 DEF L!OnDisk
    <3>2. SUFFICES ASSUME ~ stuck, NEW l \in 1..(lines + k),
                          l \notin L!OnDisk', l \notin overwritten
                   PROVE  /\ Cardinality(DOMAIN rotated) >= MaxFiles
                          /\ \A x \in L!OnDisk' : l < x
      BY <1>1, <1>6 DEF L!RotationKeeps
    <3>3. l \in (1..lines) \ (L!OnDisk \union overwritten)
      BY <1>2, <3>1, <3>2
    <3>4. Cardinality(DOMAIN rotated) >= MaxFiles /\ \A x \in L!OnDisk : l < x
      BY <3>2, <3>3 DEF LogsInv, L!RotationKeeps
    <3>5. \A x \in (lines + 1)..(lines + k) : l < x
      BY <1>2, <3>3
    <3>6. QED
      BY <3>1, <3>4, <3>5
  <2>7. InStep'
    <3>1. due \subseteq 1..lines' /\ job # "queued"
      <4>1. due \subseteq 1..lines
        BY DEF LogsInv, InStep
      <4>2. QED
        BY <1>1, <1>2, <1>6, <4>1
    <3>2. QED
      BY <1>3, <2>2, <3>1 DEF LogsInv, InStep
  <2>8. L!SizeOf(file) = Len(file) /\ L!SizeOf(file') = Len(file) + k
    BY <1>2, <2>1, <2>2 DEF L!SizeOf
  <2>9. Following'
    <3>1. SUFFICES ASSUME stream.pc \notin {"none", "done"}, ~turned, ~directory
                   PROVE  /\ stream.offset <= L!SizeOf(file')
                          /\ CoveredTo(file', stream.sent, stream.offset)
                          /\ stream.pc \in {"read", "rest"} =>
                                stream.offset < stream.size /\ stream.size <= L!SizeOf(file')
      BY <1>3 DEF Following
    <3>2. /\ stream.offset <= Len(file) /\ CoveredTo(file, stream.sent, stream.offset)
          /\ stream.pc \in {"read", "rest"} =>
                stream.offset < stream.size /\ stream.size <= Len(file)
          /\ stream.offset \in Nat /\ stream.size \in Nat
      BY <2>8, <3>1 DEF LogsInv, Following, L!TypeOK
    <3>3. CoveredTo(file', stream.sent, stream.offset)
      <4>1. SUFFICES ASSUME NEW i \in 1..stream.offset
                     PROVE  file'[i] \in stream.sent \/ \E j \in 1..i : file'[j] \in Long
        BY DEF CoveredTo
      <4>2. i \in 1..Len(file) /\ \A j \in 1..i : j \in 1..Len(file)
        BY <2>2, <3>2
      <4>3. file'[i] = file[i] /\ \A j \in 1..i : file'[j] = file[j]
        BY <2>1, <4>2
      <4>4. file[i] \in stream.sent \/ \E j \in 1..i : file[j] \in Long
        BY <3>2 DEF CoveredTo
      <4>5. QED
        BY <4>3, <4>4
    <3>4. QED
      BY <1>2, <2>2, <2>8, <3>2, <3>3
  <2>10. L!DoneDelivers'
    <3>1. SUFFICES ASSUME stream.pc = "done", ~turned, ~directory,
                          NEW i \in DOMAIN file', file'[i] \in due
                   PROVE  file'[i] \in stream.sent \/ \E j \in 1..i : file'[j] \in Long
      BY <1>3 DEF L!DoneDelivers
    <3>2. i \in 1..(Len(file) + k) /\ due \subseteq 1..lines
      BY <2>1, ToSetFacts DEF LogsInv, InStep
    <3>3. i \in 1..Len(file)
      <4>1. ASSUME i \in (Len(file) + 1)..(Len(file) + k)
            PROVE  FALSE
        <5>1. file'[i] > lines
          BY <2>1, <4>1
        <5>2. file'[i] \in 1..lines
          BY <3>1, <3>2
        <5>3. QED
          BY <5>1, <5>2 DEF LogsInv, L!TypeOK
      <4>2. QED
        BY <1>2, <2>2, <3>2, <4>1
    <3>4. file'[i] = file[i] /\ \A j \in 1..i : j \in 1..Len(file) /\ file'[j] = file[j]
      BY <2>1, <2>2, <3>3
    <3>5. file[i] \in stream.sent \/ \E j \in 1..i : file[j] \in Long
      BY <1>2, <3>1, <3>3, <3>4, ToSetFacts DEF LogsInv, L!DoneDelivers
    <3>6. QED
      BY <3>4, <3>5
  <2>11. QED
    BY <2>4, <2>5, <2>6, <2>7, <2>9, <2>10 DEF LogsInv
<1>7. QED
  BY <1>5, <1>6 DEF L!WriteMessage

LEMMA FinishStep ==
    ASSUME L!LogsAssumption, LogsInv, L!Finish
    PROVE  LogsInv'
<1>1. /\ job = "working" /\ job' = "tail" /\ ~ final
      /\ UNCHANGED <<directory, file, rotated, writer, second, lines, overwritten, stuck,
                     stream, held, turned>>
  BY DEF L!Finish, L!fileVars, L!streamVars, LogsInv, InStep
<1>2. InFiles' /\ L!RotationKeeps'
  BY FilesSame DEF LogsInv, L!Finish
<1>3. /\ final' \in BOOLEAN /\ due' \subseteq 1..lines /\ failures' \in Nat
  <2>1. L!LinesOf(file) \subseteq 1..lines /\ due \subseteq 1..lines /\ failures \in Nat
    BY DEF LogsInv, InFiles, InStep, L!TypeOK
  <2>2. \/ final' = TRUE /\ due' = L!LinesOf(file) /\ failures' = failures
        \/ final' = final /\ due' = due /\ failures' = failures + 1
    BY DEF L!Finish, L!Works, L!Fails
  <2>3. failures' \in Nat
    BY <2>1, <2>2
  <2>4. due' \subseteq 1..lines
    BY <2>1, <2>2
  <2>5. final' \in BOOLEAN
    BY <1>1, <2>2 DEF LogsInv, L!TypeOK
  <2>6. QED
    BY <2>3, <2>4, <2>5
<1>4. due' \subseteq L!Ids
  BY <1>3 DEF LogsInv, L!TypeOK, L!Ids, L!LogsAssumption
<1>5. L!TypeOK'
  BY <1>1, <1>3, <1>4 DEF LogsInv, L!TypeOK
<1>6. InStep'
  BY <1>1, <1>3 DEF LogsInv, InStep
<1>7. Following'
  BY <1>1 DEF LogsInv, Following, L!SizeOf
<1>8. L!DoneDelivers'
  BY <1>1 DEF LogsInv, InStep, L!DoneDelivers
<1>9. QED
  BY <1>2, <1>5, <1>6, <1>7, <1>8 DEF LogsInv

LEMMA CloseStep ==
    ASSUME L!LogsAssumption, LogsInv, L!Close
    PROVE  LogsInv'
<1>1. /\ job' = "over" /\ writer' = "closed"
      /\ UNCHANGED <<final, directory, due, file, rotated, second, lines, overwritten, stuck,
                     stream, held, turned, failures>>
  BY DEF L!Close, L!streamVars
<1>2. InFiles' /\ L!RotationKeeps'
  BY <1>1 DEF LogsInv, InFiles, L!RotationKeeps, L!OnDisk, L!LinesOf
<1>3. L!TypeOK'
  BY <1>1 DEF LogsInv, L!TypeOK
<1>4. InStep' /\ Following' /\ L!DoneDelivers'
  BY <1>1 DEF LogsInv, InStep, Following, L!DoneDelivers, L!SizeOf
<1>5. QED
  BY <1>2, <1>3, <1>4 DEF LogsInv

LEMMA CrashStep ==
    ASSUME L!LogsAssumption, LogsInv, L!Crash
    PROVE  LogsInv'
<1>1. /\ job' = "over" /\ writer' = "closed" /\ stream' = L!NoStream /\ held' = None
      /\ failures' = failures + 1
      /\ UNCHANGED <<final, directory, due, file, rotated, second, lines, overwritten, stuck,
                     turned>>
  BY DEF L!Crash, L!Fails
<1>2. InFiles' /\ L!RotationKeeps'
  BY <1>1 DEF LogsInv, InFiles, L!RotationKeeps, L!OnDisk, L!LinesOf
<1>3. stream' \in [pc : L!StreamPcs, offset : Nat, size : Nat, sent : SUBSET L!Ids]
      /\ stream'.pc = "none"
  BY <1>1 DEF L!NoStream, L!StreamPcs
<1>4. L!TypeOK'
  BY <1>1, <1>3 DEF LogsInv, L!TypeOK
<1>5. InStep' /\ Following' /\ L!DoneDelivers'
  BY <1>1, <1>3 DEF LogsInv, InStep, Following, L!DoneDelivers
<1>6. QED
  BY <1>2, <1>4, <1>5 DEF LogsInv

-----------------------------------------------------------------------------
(* A step of the stream changes nothing of the files.                      *)
LEMMA StreamFacts ==
    ASSUME L!LogsAssumption, LogsInv, UNCHANGED <<L!jobVars, L!fileVars>>
    PROVE  /\ InFiles' /\ L!RotationKeeps'
           /\ UNCHANGED <<job, final, directory, due, file, rotated, writer, second, lines,
                          overwritten, stuck>>
BY FilesSame DEF L!jobVars, L!fileVars, LogsInv

LEMMA StreamDeploymentLogsStep ==
    ASSUME L!LogsAssumption, LogsInv, L!StreamDeploymentLogs
    PROVE  LogsInv'
<1>1. /\ stream.pc = "none" /\ stream' = [L!NoStream EXCEPT !.pc = "poll"]
      /\ turned' = FALSE /\ held' = held /\ held = None /\ failures' = failures
      /\ UNCHANGED <<L!jobVars, L!fileVars>>
  BY DEF L!StreamDeploymentLogs, LogsInv, InStep
<1>2. /\ InFiles' /\ L!RotationKeeps'
      /\ UNCHANGED <<job, final, directory, due, file, rotated, writer, second, lines,
                     overwritten, stuck>>
  BY <1>1, StreamFacts
<1>3. /\ stream' \in [pc : L!StreamPcs, offset : Nat, size : Nat, sent : SUBSET L!Ids]
      /\ stream'.pc = "poll" /\ stream'.offset = 0
  BY <1>1 DEF L!NoStream, L!StreamPcs
<1>4. L!TypeOK'
  BY <1>1, <1>2, <1>3 DEF LogsInv, L!TypeOK
<1>5. InStep' /\ L!DoneDelivers'
  BY <1>1, <1>2, <1>3 DEF LogsInv, InStep, L!DoneDelivers
<1>6. Following'
  <2>1. L!SizeOf(file) \in Nat
    BY DEF LogsInv, L!TypeOK, L!SizeOf
  <2>2. QED
    BY <1>2, <1>3, <2>1 DEF Following, CoveredTo
<1>7. QED
  BY <1>2, <1>4, <1>5, <1>6 DEF LogsInv

(* Where there is nothing new, all that there is was covered before.       *)
LEMMA LookStep ==
    ASSUME L!LogsAssumption, LogsInv,
           NEW pc, NEW to, NEW otherwise, L!Look(pc, to, otherwise),
           \/ pc = "poll" /\ to = "read" /\ otherwise = "status"
           \/ pc = "drain" /\ to = "rest" /\ otherwise = "done"
    PROVE  LogsInv'
<1>1. /\ stream.pc = pc /\ UNCHANGED <<L!jobVars, L!fileVars, turned, held, failures>>
  BY DEF L!Look, L!StreamStep
<1>2. /\ InFiles' /\ L!RotationKeeps'
      /\ UNCHANGED <<job, final, directory, due, file, rotated, writer, second, lines,
                     overwritten, stuck>>
  BY <1>1, StreamFacts
<1>3. /\ stream \in [pc : L!StreamPcs, offset : Nat, size : Nat, sent : SUBSET L!Ids]
      /\ file \in Seq(L!Ids) \union {None} /\ L!SizeOf(file) \in Nat
  BY DEF LogsInv, L!TypeOK, L!SizeOf
<1>4. held = None /\ (pc = "drain" => job \in {"tail", "over"})
  BY <1>1 DEF LogsInv, InStep
<1>5. CASE L!SizeOf(file) > stream.offset
  <2>1. stream' = [stream EXCEPT !.pc = to, !.size = Len(file)]
    BY <1>5 DEF L!Look
  <2>2. file # None /\ Len(file) = L!SizeOf(file)
    BY <1>3, <1>5 DEF L!SizeOf
  <2>3. /\ stream' \in [pc : L!StreamPcs, offset : Nat, size : Nat, sent : SUBSET L!Ids]
        /\ stream'.pc = to /\ stream'.offset = stream.offset /\ stream'.size = L!SizeOf(file)
        /\ stream'.sent = stream.sent
    BY <1>3, <2>1, <2>2 DEF L!StreamPcs
  <2>4. L!TypeOK'
    BY <1>1, <1>2, <2>3 DEF LogsInv, L!TypeOK
  <2>5. InStep' /\ L!DoneDelivers'
    BY <1>1, <1>2, <1>4, <2>2, <2>3 DEF LogsInv, InStep, L!DoneDelivers
  <2>6. Following'
    BY <1>1, <1>2, <1>3, <1>5, <2>3 DEF LogsInv, Following
  <2>7. QED
    BY <1>2, <2>4, <2>5, <2>6 DEF LogsInv
<1>6. CASE ~ (L!SizeOf(file) > stream.offset)
  <2>1. stream' = [stream EXCEPT !.pc = otherwise]
    BY <1>6 DEF L!Look, L!Goto
  <2>2. /\ stream' \in [pc : L!StreamPcs, offset : Nat, size : Nat, sent : SUBSET L!Ids]
        /\ stream'.pc = otherwise /\ stream'.offset = stream.offset
        /\ stream'.sent = stream.sent
    BY <1>3, <2>1 DEF L!StreamPcs
  <2>3. L!TypeOK'
    BY <1>1, <1>2, <2>2 DEF LogsInv, L!TypeOK
  <2>4. InStep'
    BY <1>1, <1>2, <1>4, <2>2 DEF LogsInv, InStep
  <2>5. Following'
    BY <1>1, <1>2, <2>2 DEF LogsInv, Following
  <2>6. L!DoneDelivers'
    <3>1. SUFFICES ASSUME stream.pc = "drain", ~turned, ~directory, file # None,
                          NEW i \in DOMAIN file
                   PROVE  file[i] \in stream.sent \/ \E j \in 1..i : file[j] \in Long
      BY <1>1, <1>2, <2>2 DEF L!DoneDelivers
    <3>2. CoveredTo(file, stream.sent, stream.offset) /\ stream.offset <= L!SizeOf(file)
      BY <3>1 DEF LogsInv, Following
    <3>3. i \in 1..stream.offset
      BY <1>3, <1>6, <3>1 DEF L!SizeOf
    <3>4. QED
      BY <3>2, <3>3 DEF CoveredTo
  <2>7. QED
    BY <1>2, <2>3, <2>4, <2>5, <2>6 DEF LogsInv
<1>7. QED
  BY <1>5, <1>6

(* What is read covers the file as it is, not only as it was looked at.    *)
LEMMA ScanStep ==
    ASSUME L!LogsAssumption, LogsInv, NEW pc, NEW to, L!Scan(pc, to),
           \/ pc = "read" /\ to = "status"
           \/ pc = "rest" /\ to = "done"
    PROVE  LogsInv'
<1>1. /\ stream.pc = pc /\ held' = None /\ UNCHANGED <<L!jobVars, L!fileVars, turned, failures>>
      /\ stream' = [stream EXCEPT !.pc = to, !.offset = stream.size, !.sent = @ \union L!Scanned]
  BY DEF L!Scan, L!StreamStep
<1>2. /\ InFiles' /\ L!RotationKeeps'
      /\ UNCHANGED <<job, final, directory, due, file, rotated, writer, second, lines,
                     overwritten, stuck>>
  BY <1>1, StreamFacts
<1>3. /\ stream \in [pc : L!StreamPcs, offset : Nat, size : Nat, sent : SUBSET L!Ids]
      /\ file \in Seq(L!Ids) \union {None} /\ held \in Seq(L!Ids) \union {None}
  BY DEF LogsInv, L!TypeOK
<1>4. L!Scanned \subseteq L!Ids
  <2>1. CASE directory
    BY <2>1 DEF L!Scanned
  <2>2. CASE ~ directory
    <3>1. L!Content \in Seq(L!Ids)
      BY <1>1, <1>3, <2>2 DEF L!Content, LogsInv, InStep
    <3>2. \A i \in (stream.offset + 1)..Len(L!Content) : L!Content[i] \in L!Ids
      BY <1>3, <3>1, ToSetFacts
    <3>3. QED
      BY <2>2, <3>2 DEF L!Scanned
  <2>3. QED
    BY <2>1, <2>2
<1>5. /\ stream' \in [pc : L!StreamPcs, offset : Nat, size : Nat, sent : SUBSET L!Ids]
      /\ stream'.pc = to /\ stream'.offset = stream.size
      /\ stream'.sent = stream.sent \union L!Scanned
  <2>1. stream.sent \union L!Scanned \in SUBSET L!Ids
    BY <1>3, <1>4
  <2>2. to \in L!StreamPcs
    BY DEF L!StreamPcs
  <2>3. QED
    BY <1>1, <1>3, <2>1, <2>2
<1>6. L!TypeOK'
  BY <1>1, <1>2, <1>5 DEF LogsInv, L!TypeOK
<1>7. InStep'
  BY <1>1, <1>2, <1>5 DEF LogsInv, InStep
<1>8. ASSUME ~turned, ~directory
      PROVE  /\ file # None /\ stream.size <= Len(file) /\ Len(file) \in Nat
             /\ CoveredTo(file, stream'.sent, Len(file))
  <2>1. held = None /\ file # None /\ file \in Seq(L!Ids)
    BY <1>1, <1>3, <1>8 DEF LogsInv, InStep
  <2>2. /\ stream.offset <= Len(file) /\ CoveredTo(file, stream.sent, stream.offset)
        /\ stream.size <= Len(file) /\ Len(file) \in Nat
    BY <1>1, <1>8, <2>1 DEF LogsInv, Following, L!SizeOf
  <2>3. L!Scanned = {file[i] : i \in {j \in (stream.offset + 1)..Len(file) :
                       \A h \in (stream.offset + 1)..j : file[h] \notin Long}}
    BY <1>8, <2>1 DEF L!Scanned, L!Content
  <2>4. ASSUME NEW i \in 1..Len(file), file[i] \notin stream'.sent
        PROVE  \E j \in 1..i : file[j] \in Long
    <3>1. file[i] \notin stream.sent /\ file[i] \notin L!Scanned
      BY <1>5, <2>4
    <3>2. CASE i \in 1..stream.offset
      BY <2>2, <3>1, <3>2 DEF CoveredTo
    <3>3. CASE i \notin 1..stream.offset
      <4>1. i \in (stream.offset + 1)..Len(file)
        BY <1>3, <3>3
      <4>2. PICK h \in (stream.offset + 1)..i : file[h] \in Long
        BY <2>3, <3>1, <4>1
      <4>3. h \in 1..i
        BY <1>3, <4>2
      <4>4. QED
        BY <4>2, <4>3
    <3>4. QED
      BY <3>2, <3>3
  <2>5. QED
    BY <2>1, <2>2, <2>4 DEF CoveredTo
<1>9. Following'
  <2>1. SUFFICES ASSUME ~turned, ~directory
                 PROVE  stream.size <= L!SizeOf(file) /\ CoveredTo(file, stream'.sent, stream.size)
    BY <1>1, <1>2, <1>5 DEF Following
  <2>2. \A i \in 1..stream.size : i \in 1..Len(file)
    BY <1>3, <1>8, <2>1
  <2>3. QED
    BY <1>8, <2>1, <2>2 DEF CoveredTo, L!SizeOf
<1>10. L!DoneDelivers'
  <2>1. SUFFICES ASSUME ~turned, ~directory, file # None, NEW i \in DOMAIN file
                 PROVE  file[i] \in stream'.sent \/ \E j \in 1..i : file[j] \in Long
    BY <1>1, <1>2 DEF L!DoneDelivers
  <2>2. i \in 1..Len(file)
    BY <1>3, <2>1
  <2>3. QED
    BY <1>8, <2>1, <2>2 DEF CoveredTo
<1>11. QED
  BY <1>2, <1>6, <1>7, <1>9, <1>10 DEF LogsInv

LEMMA ReadStatusStep ==
    ASSUME L!LogsAssumption, LogsInv, L!ReadStatus
    PROVE  LogsInv'
<1>1. /\ stream.pc = "status" /\ UNCHANGED <<L!jobVars, L!fileVars, turned, held>>
  BY DEF L!ReadStatus, L!StreamStep
<1>2. /\ InFiles' /\ L!RotationKeeps'
      /\ UNCHANGED <<job, final, directory, due, file, rotated, writer, second, lines,
                     overwritten, stuck>>
  BY <1>1, StreamFacts
<1>3. /\ stream \in [pc : L!StreamPcs, offset : Nat, size : Nat, sent : SUBSET L!Ids]
      /\ failures \in Nat
  BY DEF LogsInv, L!TypeOK
<1>4. PICK to \in {"drain", "poll"} :
         /\ stream' = [stream EXCEPT !.pc = to] /\ failures' \in Nat
         /\ to = "drain" => job \in {"tail", "over"}
  BY <1>3 DEF L!ReadStatus, L!Works, L!Fails, L!Goto, LogsInv, InStep
<1>5. /\ stream' \in [pc : L!StreamPcs, offset : Nat, size : Nat, sent : SUBSET L!Ids]
      /\ stream'.pc = to /\ stream'.offset = stream.offset /\ stream'.sent = stream.sent
  BY <1>3, <1>4 DEF L!StreamPcs
<1>6. L!TypeOK'
  BY <1>1, <1>2, <1>4, <1>5 DEF LogsInv, L!TypeOK
<1>7. InStep'
  BY <1>1, <1>2, <1>4, <1>5 DEF LogsInv, InStep
<1>8. Following' /\ L!DoneDelivers'
  BY <1>1, <1>2, <1>5 DEF LogsInv, Following, L!DoneDelivers
<1>9. QED
  BY <1>2, <1>6, <1>7, <1>8 DEF LogsInv

LEMMA LeaveStep ==
    ASSUME L!LogsAssumption, LogsInv, L!Leave
    PROVE  LogsInv'
<1>1. /\ stream' = L!NoStream /\ held' = None
      /\ UNCHANGED <<L!jobVars, L!fileVars, turned, failures>>
  BY DEF L!Leave
<1>2. /\ InFiles' /\ L!RotationKeeps'
      /\ UNCHANGED <<job, final, directory, due, file, rotated, writer, second, lines,
                     overwritten, stuck>>
  BY <1>1, StreamFacts
<1>3. stream' \in [pc : L!StreamPcs, offset : Nat, size : Nat, sent : SUBSET L!Ids]
      /\ stream'.pc = "none"
  BY <1>1 DEF L!NoStream, L!StreamPcs
<1>4. L!TypeOK'
  BY <1>1, <1>2, <1>3 DEF LogsInv, L!TypeOK
<1>5. InStep' /\ Following' /\ L!DoneDelivers'
  BY <1>1, <1>2, <1>3 DEF LogsInv, InStep, Following, L!DoneDelivers
<1>6. QED
  BY <1>2, <1>4, <1>5 DEF LogsInv

-----------------------------------------------------------------------------
LEMMA LogsInit ==
    ASSUME L!LogsAssumption, L!Init
    PROVE  LogsInv
<1>1. rotated = [t \in {} |-> <<>>] /\ DOMAIN rotated = {}
  BY DEF L!Init
<1>2. file = None /\ lines = 0 /\ overwritten = {} /\ stream.pc = "none" /\ held = None
      /\ final = FALSE /\ due = {} /\ second = 0
  BY DEF L!Init, L!NoStream
<1>3. L!OnDisk = {} /\ Contents(rotated) = {} /\ L!LinesOf(file) = {}
  BY <1>1, <1>2 DEF L!OnDisk, Contents, L!LinesOf
<1>4. L!TypeOK
  <2>1. rotated \in [DOMAIN rotated -> Seq(L!Ids)]
    BY <1>1
  <2>2. stream \in [pc : L!StreamPcs, offset : Nat, size : Nat, sent : SUBSET L!Ids]
    BY DEF L!Init, L!NoStream, L!StreamPcs
  <2>3. DOMAIN rotated \subseteq 0..second
    BY <1>1
  <2>4. second \in Nat /\ lines \in 0..MaxLines /\ failures \in Nat
    BY DEF L!Init, L!LogsAssumption
  <2>5. final \in BOOLEAN /\ directory \in BOOLEAN /\ turned \in BOOLEAN /\ stuck \in BOOLEAN
    BY DEF L!Init
  <2>6. QED
    BY <2>1, <2>2, <2>3, <2>4, <2>5 DEF L!Init, L!TypeOK
<1>5. InFiles
  BY <1>1, <1>3 DEF InFiles, InOrder, Before
<1>6. L!RotationKeeps
  <2>1. 1..0 = {}
    OBVIOUS
  <2>2. QED
    BY <1>2, <2>1 DEF L!RotationKeeps
<1>7. InStep /\ Following /\ L!DoneDelivers
  BY <1>2 DEF InStep, Following, L!DoneDelivers
<1>8. QED
  BY <1>4, <1>5, <1>6, <1>7 DEF LogsInv

LEMMA StartStep ==
    ASSUME L!LogsAssumption, LogsInv, L!Start
    PROVE  LogsInv'
<1>1. /\ UNCHANGED <<job, directory, due, stream, held, turned, failures, L!fileVars>>
      /\ final' = FALSE
  BY DEF L!Start, L!streamVars
<1>2. UNCHANGED <<file, rotated, writer, second, lines, overwritten, stuck>>
  BY <1>1 DEF L!fileVars
<1>3. InFiles' /\ L!RotationKeeps'
  BY <1>1, FilesSame DEF LogsInv
<1>4. L!TypeOK'
  BY <1>1, <1>2 DEF LogsInv, L!TypeOK
<1>5. InStep' /\ Following' /\ L!DoneDelivers'
  BY <1>1, <1>2 DEF LogsInv, InStep, Following, L!DoneDelivers
<1>6. QED
  BY <1>3, <1>4, <1>5 DEF LogsInv

LEMMA LogsStep ==
    ASSUME L!LogsAssumption, LogsInv, [L!Next]_(L!vars)
    PROVE  LogsInv'
<1>1. CASE L!Open
  BY <1>1, OpenStep
<1>2. CASE L!Finish
  BY <1>2, FinishStep
<1>3. CASE L!Close
  BY <1>3, CloseStep
<1>4. CASE L!Crash
  BY <1>4, CrashStep
<1>5. CASE \E k \in 1..MaxMessage : L!WriteMessage(k)
  BY <1>5, WriteMessageStep
<1>6. CASE \E k \in 1..MaxMessage, s \in 0..MaxLines : L!Rotate(k, s) \/ L!RotateFails(k, s)
  BY <1>6, RotateStep, RotateFailsStep
<1>7. CASE L!StreamDeploymentLogs
  BY <1>7, StreamDeploymentLogsStep
<1>8. CASE L!Poll
  BY <1>8, LookStep DEF L!Poll
<1>9. CASE L!Read
  BY <1>9, ScanStep DEF L!Read
<1>10. CASE L!ReadStatus
  BY <1>10, ReadStatusStep
<1>11. CASE L!Drain
  BY <1>11, LookStep DEF L!Drain
<1>12. CASE L!Rest
  BY <1>12, ScanStep DEF L!Rest
<1>13. CASE L!Leave
  BY <1>13, LeaveStep
<1>14. CASE UNCHANGED L!vars
  <2>1. /\ UNCHANGED <<L!jobVars, L!fileVars>>
        /\ UNCHANGED <<stream, held, turned, failures>>
    BY <1>14 DEF L!vars, L!streamVars
  <2>2. /\ InFiles' /\ L!RotationKeeps'
        /\ UNCHANGED <<job, final, directory, due, file, rotated, writer, second, lines,
                       overwritten, stuck>>
    BY <2>1, StreamFacts
  <2>3. L!TypeOK'
    BY <2>1, <2>2 DEF LogsInv, L!TypeOK
  <2>4. InStep' /\ Following' /\ L!DoneDelivers'
    BY <2>1, <2>2 DEF LogsInv, InStep, Following, L!DoneDelivers
  <2>5. QED
    BY <2>2, <2>3, <2>4 DEF LogsInv
<1>15. CASE L!Start
  BY <1>15, StartStep
<1>16. QED
  BY <1>1, <1>2, <1>3, <1>4, <1>5, <1>6, <1>7, <1>8, <1>9, <1>10, <1>11, <1>12, <1>13, <1>14,
     <1>15 DEF L!Next

(* DeployLogs: for logs of any length, files of any size and any number of *)
(* failures, a stream that ends with "done" has delivered every line that  *)
(* was in the file at the final status, unless it was rotated meanwhile or *)
(* a line was too long (modules/deployments/handler.go,                    *)
(* StreamDeploymentLogs).                                                  *)
THEOREM DoneDeliversHolds == L!LogsAssumption => (L!Spec => []DoneDelivers)
<1> SUFFICES ASSUME L!LogsAssumption PROVE L!Spec => []DoneDelivers
  OBVIOUS
<1>1. L!Init => LogsInv
  BY LogsInit
<1>2. LogsInv /\ [L!Next]_(L!vars) => LogsInv'
  BY LogsStep
<1>3. LogsInv => DoneDelivers
  BY DEF LogsInv, DoneDelivers
<1>4. QED
  BY <1>1, <1>2, <1>3, PTL DEF L!Spec

(* DeployLogs: rotation loses the oldest lines only, and none before       *)
(* MaxFiles files are kept, unless two rotations met in one second or an   *)
(* old file could not be removed (logging/rotating.go, rotate and          *)
(* cleanupOldFiles).                                                       *)
THEOREM RotationKeepsHolds == L!LogsAssumption => (L!Spec => []RotationKeeps)
<1> SUFFICES ASSUME L!LogsAssumption PROVE L!Spec => []RotationKeeps
  OBVIOUS
<1>1. L!Init => LogsInv
  BY LogsInit
<1>2. LogsInv /\ [L!Next]_(L!vars) => LogsInv'
  BY LogsStep
<1>3. LogsInv => RotationKeeps
  BY DEF LogsInv, RotationKeeps
<1>4. QED
  BY <1>1, <1>2, <1>3, PTL DEF L!Spec

-----------------------------------------------------------------------------
(* What the types of Workspace and Runner need beyond their invariants.    *)
MarksOK ==
    /\ default \in Ids \union {None} /\ sources \in [Ids -> Sources]
    /\ changes \in Nat /\ escaped \in BOOLEAN

LEMMA InsertMarks ==
    ASSUME WorkspaceAssumption, LinkInv, MarksOK, NEW child, Insert(child)
    PROVE  New \in Ids /\ escaped' \in BOOLEAN
<1>1. New \in Ids
  BY DEF Insert, New, Ids, LinkInv, LinkTypes, WorkspaceAssumption
<1>2. escaped' \in BOOLEAN
  BY DEF Insert, Enforced, MarksOK
<1>3. QED
  BY <1>1, <1>2

(* Requests that the bound counts.                                         *)
LEMMA AskedMarks ==
    ASSUME MarksOK, Asks, UNCHANGED <<default, sources>>, escaped' \in BOOLEAN
    PROVE  MarksOK'
<1>1. changes' \in Nat
  BY DEF MarksOK, Asks
<1>2. QED
  BY <1>1 DEF MarksOK

LEMMA CreationMarks ==
    ASSUME WorkspaceAssumption, LinkInv, MarksOK, Asks, NEW child, Insert(child),
           UNCHANGED <<default, sources>>
    PROVE  MarksOK'
BY InsertMarks, AskedMarks

LEMMA DeletionMarks ==
    ASSUME MarksOK, NEW kind, NEW i, Delete(kind, i) \/ DeleteServer(i)
    PROVE  MarksOK'
<1>1. escaped' \in BOOLEAN
  BY DEF Delete, DeleteServer, Enforced, MarksOK
<1>2. QED
  BY <1>1, AskedMarks DEF Delete, DeleteServer

LEMMA RequestMarks ==
    ASSUME WorkspaceAssumption, LinkInv, MarksOK, NEW r \in Requests,
           \/ DefaultProject(r) \/ DefaultEnvironment(r)
           \/ InsertApplication(r) \/ ExtractZipArchive(r) \/ CopyVariable(r)
           \/ TemplateVariable(r) \/ InsertDeployment(r) \/ Leave(r)
    PROVE  MarksOK'
<1>1. CASE DefaultProject(r)
  <2>1. default' \in Ids \union {None} /\ escaped' \in BOOLEAN
    BY <1>1, InsertMarks DEF DefaultProject, MarksOK
  <2>2. QED
    BY <1>1, <2>1 DEF DefaultProject, MarksOK
<1>2. CASE ExtractZipArchive(r)
  <2>1. sources' \in [Ids -> Sources]
    BY <1>2 DEF ExtractZipArchive, Sources, MarksOK
  <2>2. QED
    BY <1>2, <2>1 DEF ExtractZipArchive, MarksOK
<1>3. CASE DefaultEnvironment(r)
  <2>1. escaped' \in BOOLEAN
    BY <1>3, InsertMarks DEF DefaultEnvironment, MarksOK
  <2>2. QED
    BY <1>3, <2>1 DEF DefaultEnvironment, MarksOK
<1>4. CASE InsertApplication(r) \/ CopyVariable(r) \/ TemplateVariable(r) \/ InsertDeployment(r)
  <2>1. PICK child : Insert(child)
    BY <1>4 DEF InsertApplication, CopyVariable, TemplateVariable, InsertDeployment
  <2>2. UNCHANGED <<default, sources, changes>>
    BY <1>4 DEF InsertApplication, CopyVariable, TemplateVariable, InsertDeployment
  <2>3. QED
    BY <2>1, <2>2, InsertMarks DEF MarksOK
<1>5. CASE Leave(r)
  BY <1>5 DEF Leave, MarksOK
<1>6. QED
  BY <1>1, <1>2, <1>3, <1>4, <1>5

LEMMA MarksKept ==
    ASSUME WorkspaceAssumption, LinkInv, MarksOK, [Next]_vars
    PROVE  MarksOK'
<1>1. CASE UNCHANGED vars
  BY <1>1 DEF vars, MarksOK
<1>2. CASE \/ ProjectsCreate \/ TeamsCreate \/ ServersCreate
           \/ \E e \in Used, server \in Used \union {None} : CreateApplication(e, server)
  <2>1. Asks /\ (\E child : Insert(child)) /\ UNCHANGED <<default, sources>>
    BY <1>2 DEF ProjectsCreate, TeamsCreate, ServersCreate, CreateRoot, CreateApplication
  <2>2. QED
    BY <2>1, CreationMarks
<1>3. ASSUME NEW i \in Used,
             \/ CreateCompose(i) \/ CreateEnvVar(i)
             \/ CreateCronJob(i) \/ Deploy(i) \/ TeamsAddMember(i)
      PROVE  MarksOK'
  <2>1. Asks /\ (\E child : Insert(child)) /\ UNCHANGED <<default, sources>>
    BY <1>3 DEF CreateCompose, CreateEnvVar, CreateCronJob, Deploy,
                TeamsAddMember, CreateChild
  <2>2. QED
    BY <2>1, CreationMarks
<1>4. ASSUME NEW i \in Used,
             \/ ProjectsDelete(i) \/ DeleteEnvVar(i)
             \/ DeleteCronJob(i) \/ TeamsRemoveMember(i) \/ DeleteServer(i)
      PROVE  MarksOK'
  BY <1>4, DeletionMarks DEF ProjectsDelete, DeleteEnvVar, DeleteCronJob,
                             TeamsRemoveMember
<1>5. ASSUME NEW i \in Used, NEW e \in Used, Move(i, e)
      PROVE  MarksOK'
  <2>1. escaped' \in BOOLEAN
    BY <1>5 DEF Move, Enforced, MarksOK
  <2>2. QED
    BY <1>5, <2>1, AskedMarks DEF Move
<1>6. ASSUME NEW r \in Requests,
             \/ BeginDropzone(r)
             \/ \E e \in Used : BeginTemplate(r, e)
             \/ \E e, i \in Used : BeginClone(r, e, i)
      PROVE  MarksOK'
  <2>1. Asks /\ UNCHANGED <<default, sources, escaped>>
    BY <1>6 DEF BeginDropzone, BeginTemplate, BeginClone, Begin
  <2>2. QED
    BY <2>1, AskedMarks DEF MarksOK
<1>7. QED
  BY <1>1, <1>2, <1>3, <1>4, <1>5, <1>6, RequestMarks DEF Next

LEMMA SessionsKept ==
    ASSUME R!RunnerAssumption, session \in 0..MaxConnections, [R!Next]_(R!vars)
    PROVE  session' \in 0..MaxConnections
<1>1. \/ session' = session
      \/ session < MaxConnections /\ session' = session + 1
  BY DEF R!Next, R!vars, R!ConnectAndServe, R!ConnectionBreaks, R!ReadError, R!Crash,
         R!HubSends, R!HandleMessage, R!BeginJob, R!ReportStep, R!ExecuteDeploy, R!ReportEnd
<1>2. QED
  BY <1>1 DEF R!RunnerAssumption

-----------------------------------------------------------------------------
(* The ten components together.                                            *)
ConsoleInv ==
    /\ LinkInv /\ MarksOK /\ AccessInv
    /\ RunnerInv /\ session \in 0..MaxConnections /\ FileInv
TrafficInv == HookInv /\ ShareInv /\ LimiterInv
ReadingsInv == LogsInv /\ ListInv /\ BeatInv

LEMMA AssumptionParts ==
    ASSUME ReadingsAssumption
    PROVE  /\ WorkspaceAssumption /\ A!AccessAssumption /\ R!RunnerAssumption
           /\ F!FileAssumption
           /\ H!WebhooksAssumption /\ N!NotificationsAssumption /\ B!LimiterAssumption
           /\ L!LogsAssumption /\ G!ListingAssumption /\ U!HeartbeatAssumption
BY DEF ReadingsAssumption, TrafficAssumption, ConsoleAssumption

LEMMA AllInitially ==
    ASSUME ReadingsAssumption, ReadingsInit
    PROVE  ConsoleInv /\ TrafficInv /\ ReadingsInv
<1>1. LinkInv
  <2>1. Idle \in Request
    BY DEF Request
  <2>2. QED
    BY <2>1, AssumptionParts
       DEF ReadingsInit, Init, LinkInv, LinkTypes, Linked, Aims, WorkspaceAssumption
<1>2. MarksOK
  BY DEF ReadingsInit, Init, MarksOK, Sources
<1>3. AccessInv /\ RunnerInv /\ FileInv
  BY AssumptionParts, AccessInitially, RunnerInitially, FileInitially DEF ReadingsInit
<1>4. session \in 0..MaxConnections
  BY AssumptionParts DEF ReadingsInit, R!Init, R!RunnerAssumption
<1>5. HookInv /\ ShareInv /\ LimiterInv
  BY AssumptionParts, HooksInitially, ShareInitially, LimiterInitially DEF ReadingsInit
<1>6. LogsInv /\ ListInv /\ BeatInv
  BY AssumptionParts, LogsInit, ListInit, BeatInit DEF ReadingsInit
<1>7. QED
  BY <1>1, <1>2, <1>3, <1>4, <1>5, <1>6 DEF ConsoleInv, TrafficInv, ReadingsInv

(* A step is one of each component, or leaves its state as it is.          *)
LEMMA StepOfAll ==
    ASSUME [ReadingsNext]_readingsVars
    PROVE  /\ [Next]_vars /\ [A!Next]_(A!vars) /\ [R!Next]_(R!vars) /\ [F!Next]_(F!vars)
           /\ [H!Next]_(H!vars) /\ [N!Next]_(N!vars) /\ [B!Next]_(B!vars)
           /\ [L!Next]_(L!vars) /\ [G!Next]_(G!vars) /\ [U!Next]_(U!vars)
<1>1. /\ (UNCHANGED vars \/ Next) /\ (UNCHANGED accessVars \/ A!Next)
      /\ (UNCHANGED runnerVars \/ R!Next) /\ (UNCHANGED fileVars \/ F!Next)
  BY DEF ReadingsNext, Others, readingsVars
<1>2. /\ (UNCHANGED hookVars \/ H!Next) /\ (UNCHANGED channelVars \/ N!Next)
      /\ (UNCHANGED limiterVars \/ B!Next)
  BY DEF ReadingsNext, Others, readingsVars
<1>3. /\ (UNCHANGED logsVars \/ L!Next) /\ (UNCHANGED listVars \/ G!Next)
      /\ (UNCHANGED beatVars \/ U!Next)
  BY DEF ReadingsNext, Others, readingsVars
<1>4. /\ UNCHANGED accessVars => UNCHANGED A!vars
      /\ UNCHANGED runnerVars => UNCHANGED R!vars
      /\ UNCHANGED fileVars => UNCHANGED F!vars
  BY DEF accessVars, A!vars, A!rowVars, A!boundVars, A!histVars, runnerVars, R!vars,
         fileVars, F!vars, F!fileVars
<1>5. /\ UNCHANGED hookVars => UNCHANGED H!vars
      /\ UNCHANGED channelVars => UNCHANGED N!vars
      /\ UNCHANGED limiterVars => UNCHANGED B!vars
  BY DEF hookVars, H!vars, H!deliveryVars, H!deployVars, H!boundVars, channelVars, N!vars,
         limiterVars, B!vars, B!histVars
<1>6. /\ UNCHANGED logsVars => UNCHANGED L!vars
      /\ UNCHANGED listVars => UNCHANGED G!vars
      /\ UNCHANGED beatVars => UNCHANGED U!vars
  BY DEF logsVars, L!vars, L!jobVars, L!fileVars, L!streamVars, listVars, G!vars,
         beatVars, U!vars
<1>7. QED
  BY <1>1, <1>2, <1>3, <1>4, <1>5, <1>6

LEMMA AllKept ==
    ASSUME ReadingsAssumption, ConsoleInv, TrafficInv, ReadingsInv, [ReadingsNext]_readingsVars
    PROVE  ConsoleInv' /\ TrafficInv' /\ ReadingsInv'
<1>1. LinkInv' /\ MarksOK'
  BY AssumptionParts, StepOfAll, InvIsInductive, MarksKept DEF ConsoleInv
<1>2. AccessInv' /\ RunnerInv' /\ session' \in 0..MaxConnections /\ FileInv'
  BY AssumptionParts, StepOfAll, AccessKeeps, RunnerKeeps, SessionsKept, FileKeeps
     DEF ConsoleInv
<1>3. HookInv' /\ ShareInv' /\ LimiterInv'
  BY AssumptionParts, StepOfAll, HooksKeep, ShareKeeps, LimiterKeeps DEF TrafficInv
<1>4. LogsInv' /\ ListInv' /\ BeatInv'
  BY AssumptionParts, StepOfAll, LogsStep, ListStep, BeatStep DEF ReadingsInv
<1>5. QED
  BY <1>1, <1>2, <1>3, <1>4 DEF ConsoleInv, TrafficInv, ReadingsInv

(* The types of the ten states hold together, whichever component takes a  *)
(* step.                                                                   *)
THEOREM AllTypesHold == ReadingsAssumption => (ReadingsSpec => []StateTypeOK)
<1> SUFFICES ASSUME ReadingsAssumption PROVE ReadingsSpec => []StateTypeOK
  OBVIOUS
<1> DEFINE All == ConsoleInv /\ TrafficInv /\ ReadingsInv
<1>1. ReadingsInit => All
  BY AllInitially
<1>2. All /\ [ReadingsNext]_readingsVars => All'
  BY AllKept
<1>3. All => StateTypeOK
  <2> SUFFICES ASSUME All PROVE StateTypeOK
    OBVIOUS
  <2>1. TypeOK
    BY DEF ConsoleInv, LinkInv, LinkTypes, MarksOK, TypeOK
  <2>2. A!TypeOK /\ F!TypeOK
    BY DEF ConsoleInv, AccessInv, FileInv, Ground
  <2>3. R!TypeOK
    BY DEF ConsoleInv, RunnerInv, RunnerTypes, R!TypeOK
  <2>4. H!TypeOK /\ N!TypeOK /\ B!TypeOK
    BY DEF TrafficInv, HookInv, ShareInv, LimiterInv
  <2>5. L!TypeOK /\ G!TypeOK /\ U!TypeOK
    BY DEF ReadingsInv, LogsInv, ListInv, BeatInv
  <2>6. QED
    BY <2>1, <2>2, <2>3, <2>4, <2>5 DEF StateTypeOK
<1>4. QED
  BY <1>1, <1>2, <1>3, PTL DEF ReadingsSpec

(* The invariants of the ten components hold together, in the specification*)
(* of which the model checker explores an instance.                        *)
THEOREM AllInvariantsHold ==
    ReadingsAssumption =>
        (ReadingsSpec => [](/\ AccessBounded /\ RowsHang /\ FileKept /\ CaughtUp /\ FairShare
                            /\ DoneDelivers /\ RotationKeeps /\ FewSkipped /\ CpuHonest))
<1> SUFFICES ASSUME ReadingsAssumption
             PROVE  ReadingsSpec =>
                       [](/\ AccessBounded /\ RowsHang /\ FileKept /\ CaughtUp /\ FairShare
                          /\ DoneDelivers /\ RotationKeeps /\ FewSkipped /\ CpuHonest)
  OBVIOUS
<1> DEFINE All == ConsoleInv /\ TrafficInv /\ ReadingsInv
<1>1. ReadingsInit => All
  BY AllInitially
<1>2. All /\ [ReadingsNext]_readingsVars => All'
  BY AllKept
<1>3. All => AccessBounded /\ RowsHang /\ FileKept
  BY LinkTells, FileTells DEF ConsoleInv, AccessInv, AccessBounded, FileKept
<1>4. All => CaughtUp
  BY DEF TrafficInv, HookInv, Coming, CaughtUp, H!CaughtUp, H!Quiet
<1>5. All => FairShare
  BY AssumptionParts, ShareTells, LimiterTells DEF TrafficInv, FairShare
<1>6. All => DoneDelivers /\ RotationKeeps /\ FewSkipped /\ CpuHonest
  BY ListKept
     DEF ReadingsInv, LogsInv, BeatInv, DoneDelivers, RotationKeeps, FewSkipped, CpuHonest
<1>7. QED
  BY <1>1, <1>2, <1>3, <1>4, <1>5, <1>6, PTL DEF ReadingsSpec
=============================================================================
