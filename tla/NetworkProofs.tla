--------------------------- MODULE NetworkProofs ---------------------------
(* What holds of a scan of the network with any number of workers and targets,  *)
(* and of the map of the network drawn from any subnets, devices and reports.   *)
(* Both rest on facts about powers of two and blocks of addresses.              *)
EXTENDS LanScan, TopologyMap, FiniteSetTheorems, SequenceTheorems,
        WellFoundedInduction, TLAPS

-----------------------------------------------------------------------------
(* Powers of two and blocks of addresses *)

(* The least number of a set: what the inductions below rest on.                *)
LEMMA LeastNatural ==
    ASSUME NEW S \in SUBSET Nat, S # {}
    PROVE  \E x \in S : \A y \in S : x <= y
<1> DEFINE R == {ss \in Nat \X Nat : ss[1] < ss[2]}
<1>1. IsWellFoundedOn(R, Nat)
  BY NatLessThanWellFounded DEF OpToRel
<1>2. PICK x \in S : \A y \in S : ~(<<y, x>> \in R)
  BY <1>1, WFMin
<1>3. ASSUME NEW y \in S PROVE x <= y
  <2>1. <<y, x>> \notin R
    BY <1>2
  <2>2. y \in Nat /\ x \in Nat /\ <<y, x>> \in Nat \X Nat
    OBVIOUS
  <2>3. ~(y < x)
    BY <2>1, <2>2
  <2> QED
    BY <2>2, <2>3
<1> QED
  BY <1>3

(* Initial segments of TwoTo, from which the function is put together.          *)
Doubles(g, n) ==
    /\ g \in [0 .. n -> Nat \ {0}]
    /\ g[0] = 1
    /\ \A i \in 1 .. n : g[i] = 2 * g[i - 1]

LEMMA DoublesExists == \A n \in Nat : \E g : Doubles(g, n)
<1> DEFINE Bad == {n \in Nat : ~ \E g : Doubles(g, n)}
<1>1. SUFFICES ASSUME Bad # {} PROVE FALSE
  OBVIOUS
<1>2. PICK m \in Bad : \A y \in Bad : m <= y
  BY <1>1, LeastNatural
<1>3. Doubles([i \in 0 .. 0 |-> 1], 0)
  BY DEF Doubles
<1>4. m \in Nat /\ m - 1 \in Nat /\ m >= 1
  BY <1>2, <1>3
<1>5. PICK g : Doubles(g, m - 1)
  BY <1>2, <1>4
<1> DEFINE h == [i \in 0 .. m |-> IF i = m THEN 2 * g[m - 1] ELSE g[i]]
<1>6. g \in [0 .. m - 1 -> Nat \ {0}] /\ g[0] = 1 /\ \A i \in 1 .. m - 1 : g[i] = 2 * g[i - 1]
  BY <1>5 DEF Doubles
<1>7. Doubles(h, m)
  <2>1. h \in [0 .. m -> Nat \ {0}]
    <3>1. ASSUME NEW i \in 0 .. m PROVE h[i] \in Nat \ {0}
      BY <1>4, <1>6
    <3> QED BY <3>1
  <2>2. h[0] = 1
    BY <1>4, <1>6
  <2>3. ASSUME NEW i \in 1 .. m PROVE h[i] = 2 * h[i - 1]
    BY <1>4, <1>6
  <2> QED
    BY <2>1, <2>2, <2>3 DEF Doubles
<1> QED
  BY <1>2, <1>7

LEMMA DoublesAgree ==
    ASSUME NEW n \in Nat, NEW m \in Nat, NEW g, NEW h, Doubles(g, n), Doubles(h, m),
           NEW i \in Nat, i <= n, i <= m
    PROVE  g[i] = h[i]
<1> DEFINE Bad == {j \in 0 .. i : g[j] # h[j]}
<1>0. Bad \in SUBSET Nat
  OBVIOUS
<1>1. SUFFICES ASSUME Bad # {} PROVE FALSE
  OBVIOUS
<1>2. PICK k \in Bad : \A y \in Bad : k <= y
  BY <1>0, <1>1, LeastNatural
<1>3. k # 0
  BY DEF Doubles
<1>4. k - 1 \in 0 .. i /\ k - 1 \notin Bad
  BY <1>2, <1>3
<1>5. k \in 1 .. n /\ k \in 1 .. m
  BY <1>3
<1> QED
  BY <1>4, <1>5 DEF Doubles

(* The recursion that defines TwoTo has a solution.                             *)
LEMMA TwoToRecursion == TwoTo = [n \in Nat |-> IF n = 0 THEN 1 ELSE 2 * TwoTo[n - 1]]
<1> DEFINE G(n) == CHOOSE g : Doubles(g, n)
           f == [n \in Nat |-> G(n)[n]]
<1>1. \A n \in Nat : Doubles(G(n), n)
  BY DoublesExists
<1> HIDE DEF G
<1>2. ASSUME NEW n \in Nat
      PROVE  f[n] = IF n = 0 THEN 1 ELSE 2 * f[n - 1]
  <2>1. CASE n = 0
    BY <1>1, <2>1 DEF Doubles
  <2>2. CASE n # 0
    <3>1. n - 1 \in Nat /\ n \in 1 .. n
      BY <2>2
    <3>2. G(n)[n] = 2 * G(n)[n - 1]
      BY <1>1, <3>1 DEF Doubles
    <3>3. G(n)[n - 1] = G(n - 1)[n - 1]
      BY <1>1, <3>1, DoublesAgree
    <3> QED
      BY <2>2, <3>1, <3>2, <3>3
  <2> QED
    BY <2>1, <2>2
<1>3. f = [n \in Nat |-> IF n = 0 THEN 1 ELSE 2 * f[n - 1]]
  BY <1>2
<1>4. \E p : p = [n \in Nat |-> IF n = 0 THEN 1 ELSE 2 * p[n - 1]]
  BY <1>3
<1> QED
  BY <1>4 DEF TwoTo

LEMMA TwoToFacts ==
    /\ TwoTo[0] = 1
    /\ \A n \in Nat : TwoTo[n] \in Nat \ {0} /\ TwoTo[n + 1] = 2 * TwoTo[n]
<1>1. TwoTo[0] = 1
  BY TwoToRecursion
<1>2. \A n \in Nat : TwoTo[n + 1] = 2 * TwoTo[n]
  <2>1. \A n \in Nat : n + 1 \in Nat /\ n + 1 # 0 /\ (n + 1) - 1 = n
    OBVIOUS
  <2> QED
    BY <2>1, TwoToRecursion
<1>3. \A n \in Nat : TwoTo[n] \in Nat \ {0}
  <2> DEFINE Bad == {n \in Nat : TwoTo[n] \notin Nat \ {0}}
  <2>1. SUFFICES ASSUME Bad # {} PROVE FALSE
    OBVIOUS
  <2>2. PICK m \in Bad : \A y \in Bad : m <= y
    BY <2>1, LeastNatural
  <2>3. m # 0
    BY <1>1
  <2>4. m - 1 \in Nat /\ m - 1 \notin Bad /\ (m - 1) + 1 = m
    BY <2>2, <2>3
  <2>5. TwoTo[m] = 2 * TwoTo[m - 1]
    BY <1>2, <2>4
  <2> QED
    BY <2>4, <2>5
<1> QED
  BY <1>1, <1>2, <1>3

(* A larger power is a multiple of a smaller one.                               *)
LEMMA TwoToDivides ==
    ASSUME NEW k \in Nat, NEW n \in Nat, k <= n
    PROVE  \E q \in Nat \ {0} : TwoTo[n] = q * TwoTo[k] /\ (k < n => q >= 2)
<1> DEFINE Good(i) == \E q \in Nat \ {0} : TwoTo[k + i] = q * TwoTo[k] /\ (i # 0 => q >= 2)
           Bad == {i \in Nat : ~Good(i)}
<1>1. Bad = {}
  <2>1. SUFFICES ASSUME Bad # {} PROVE FALSE
    OBVIOUS
  <2>2. PICK m \in Bad : \A y \in Bad : m <= y
    BY <2>1, LeastNatural
  <2>3. Good(0)
    <3>1. TwoTo[k + 0] = 1 * TwoTo[k]
      BY TwoToFacts
    <3> QED BY <3>1
  <2>4. m - 1 \in Nat /\ m - 1 \notin Bad /\ k + m = (k + (m - 1)) + 1 /\ k + (m - 1) \in Nat
    BY <2>2, <2>3
  <2>5. PICK q \in Nat \ {0} : TwoTo[k + (m - 1)] = q * TwoTo[k]
    BY <2>4
  <2>6. TwoTo[k + m] = (2 * q) * TwoTo[k]
    BY <2>4, <2>5, TwoToFacts
  <2>7. 2 * q \in Nat \ {0} /\ 2 * q >= 2
    OBVIOUS
  <2>8. Good(m)
    BY <2>6, <2>7
  <2> QED
    BY <2>8
<1>2. n - k \in Nat /\ k + (n - k) = n
  OBVIOUS
<1>3. Good(n - k)
  BY <1>1, <1>2
<1> QED
  BY <1>2, <1>3

(* Every address is in the block around it, and every address of a block has    *)
(* that block around it.                                                        *)
LEMMA FirstOfBlock ==
    ASSUME NEW a \in Nat, NEW size \in Nat \ {0}
    PROVE  /\ FirstOf(a, size) = size * (a \div size) /\ a \div size \in Nat
           /\ FirstOf(a, size) \in Nat
           /\ FirstOf(a, size) <= a /\ a < FirstOf(a, size) + size
BY DEF FirstOf

LEMMA BlockIsOne ==
    ASSUME NEW q \in Nat, NEW size \in Nat \ {0}, NEW a \in Nat,
           size * q <= a, a < size * q + size
    PROVE  FirstOf(a, size) = size * q
<1> DEFINE p == a \div size
<1>1. /\ FirstOf(a, size) = size * p /\ p \in Nat
      /\ size * p <= a /\ a < size * p + size
  BY FirstOfBlock
<1> HIDE DEF p
<1>2. CASE p < q
  <2>1. size * (p + 1) <= size * q
    BY <1>1, <1>2
  <2> QED
    BY <1>1, <2>1
<1>3. CASE q < p
  <2>1. size * (q + 1) <= size * p
    BY <1>1, <1>3
  <2> QED
    BY <1>1, <2>1
<1> QED
  BY <1>1, <1>2, <1>3

-----------------------------------------------------------------------------
(* The scan *)

Jobs == Targets \X Nat

LanTypes ==
    /\ unsent \in SUBSET Jobs /\ answered \in SUBSET Jobs
    /\ probing \in [Workers -> Jobs \cup {NoAddress}]
    /\ reporting \in [Workers -> BOOLEAN]
    /\ returned \in SUBSET Workers
    /\ results \in Seq(Jobs) /\ found \in Seq(Jobs)
    /\ jobsClosed \in BOOLEAN /\ resultsClosed \in BOOLEAN
    /\ scanEnded \in BOOLEAN /\ scanCancelled \in BOOLEAN

(* An address is with the producer, one worker, the channel or the collector.   *)
InOnePlace ==
    /\ \A w \in Workers : probing[w] \notin unsent
    /\ \A v, w \in Workers : v # w /\ probing[v] # NoAddress => probing[v] # probing[w]
    /\ \A i \in 1 .. Len(results) :
          /\ results[i] \notin unsent
          /\ \A w \in Workers : results[i] # probing[w]
          /\ \A j \in 1 .. Len(results) : i # j => results[i] # results[j]
          /\ \A k \in 1 .. Len(found) : results[i] # found[k]
    /\ \A i \in 1 .. Len(found) :
          /\ found[i] \notin unsent
          /\ \A w \in Workers : found[i] # probing[w]
          /\ \A j \in 1 .. Len(found) : i # j => found[i] # found[j]

(* Whatever answered is on its way unless the context has ended.                *)
Underway(a) ==
    \/ \E i \in 1 .. Len(found) : found[i] = a
    \/ \E i \in 1 .. Len(results) : results[i] = a
    \/ \E w \in Workers : reporting[w] /\ probing[w] = a

AnswersKept ==
    /\ \A w \in Workers : reporting[w] => probing[w] \in answered
    /\ \A i \in 1 .. Len(results) : results[i] \in answered
    /\ \A i \in 1 .. Len(found) : found[i] \in answered
    /\ ~scanCancelled => \A a \in answered : Underway(a)

(* The order in which the goroutines end.                                       *)
EndsInOrder ==
    /\ \A w \in returned : probing[w] = NoAddress /\ ~reporting[w]
    /\ ~scanCancelled /\ returned # {} => jobsClosed
    /\ ~scanCancelled /\ jobsClosed => unsent = {}
    /\ resultsClosed => returned = Workers
    /\ scanEnded => resultsClosed /\ results = <<>>

LanIInv == LanTypes /\ InOnePlace /\ AnswersKept /\ EndsInOrder

LEMMA LanStarts == LanInit => LanIInv
<1>1. ASSUME LanRest PROVE LanIInv
  <2>1. LanTypes
    <3>1. /\ probing \in [Workers -> Jobs \cup {NoAddress}]
          /\ reporting \in [Workers -> BOOLEAN]
      BY <1>1 DEF LanRest
    <3>2. results \in Seq(Jobs) /\ found \in Seq(Jobs)
      BY <1>1 DEF LanRest
    <3>3. /\ unsent \in SUBSET Jobs /\ answered \in SUBSET Jobs
          /\ returned \in SUBSET Workers
      BY <1>1 DEF LanRest
    <3>4. /\ jobsClosed \in BOOLEAN /\ resultsClosed \in BOOLEAN
          /\ scanEnded \in BOOLEAN /\ scanCancelled \in BOOLEAN
      BY <1>1 DEF LanRest
    <3> QED
      BY <3>1, <3>2, <3>3, <3>4 DEF LanTypes
  <2>2. 1 .. Len(results) = {} /\ 1 .. Len(found) = {}
    BY <1>1 DEF LanRest
  <2>3. InOnePlace
    BY <1>1, <2>2 DEF LanRest, InOnePlace
  <2>4. AnswersKept /\ EndsInOrder
    BY <1>1, <2>2 DEF LanRest, AnswersKept, EndsInOrder
  <2> QED
    BY <2>1, <2>3, <2>4 DEF LanIInv
<1>2. ASSUME NEW rows \in [Targets -> TargetRow], LanStart(rows) PROVE LanIInv
  <2>1. unsent \in SUBSET Jobs
    BY <1>2 DEF LanStart, ScanJobs, Jobs
  <2>2. NoAddress \notin unsent
    BY <2>1, LanAssumption DEF Jobs
  <2>3. LanTypes
    <3>1. /\ probing \in [Workers -> Jobs \cup {NoAddress}]
          /\ reporting \in [Workers -> BOOLEAN]
      BY <1>2, <2>1 DEF LanStart
    <3>2. results \in Seq(Jobs) /\ found \in Seq(Jobs)
      BY <1>2, <2>1 DEF LanStart
    <3>3. /\ unsent \in SUBSET Jobs /\ answered \in SUBSET Jobs
          /\ returned \in SUBSET Workers
      BY <1>2, <2>1 DEF LanStart
    <3>4. /\ jobsClosed \in BOOLEAN /\ resultsClosed \in BOOLEAN
          /\ scanEnded \in BOOLEAN /\ scanCancelled \in BOOLEAN
      BY <1>2, <2>1 DEF LanStart
    <3> QED
      BY <3>1, <3>2, <3>3, <3>4 DEF LanTypes
  <2>4. 1 .. Len(results) = {} /\ 1 .. Len(found) = {}
    BY <1>2 DEF LanStart
  <2>5. InOnePlace
    BY <1>2, <2>2, <2>4 DEF LanStart, InOnePlace
  <2>6. AnswersKept /\ EndsInOrder
    BY <1>2, <2>4 DEF LanStart, AnswersKept, EndsInOrder
  <2> QED
    BY <2>3, <2>5, <2>6 DEF LanIInv
<1> QED
  BY <1>1, <1>2 DEF LanInit

(* The steps, one lemma for each that moves an address.                         *)
LEMMA HandOverKeeps ==
    ASSUME LanIInv, NEW w \in Workers, HandOver(w)
    PROVE  LanIInv'
<1> USE DEF LanIInv
<1>1. PICK job \in unsent :
         /\ probing' = [probing EXCEPT ![w] = job]
         /\ unsent' = unsent \ {job}
  BY DEF HandOver
<1>2. job \in Jobs /\ job # NoAddress
  BY LanAssumption DEF LanTypes, Jobs
<1>3. /\ probing[w] = NoAddress /\ w \notin returned /\ ~jobsClosed
      /\ probing' \in [Workers -> Jobs \cup {NoAddress}]
      /\ probing'[w] = job /\ \A v \in Workers \ {w} : probing'[v] = probing[v]
      /\ UNCHANGED <<jobsClosed, reporting, returned, results, resultsClosed,
                     found, scanEnded, scanCancelled, answered>>
  BY <1>1, <1>2 DEF HandOver, Free, LanTypes
<1>4. LanTypes'
  BY <1>1, <1>3 DEF LanTypes
<1>5. ~reporting[w]
  BY <1>3, LanAssumption DEF AnswersKept, LanTypes, Jobs
<1>6. InOnePlace'
  BY <1>1, <1>2, <1>3 DEF InOnePlace, LanTypes
<1>7. AnswersKept'
  BY <1>1, <1>3, <1>5 DEF AnswersKept, Underway, LanTypes
<1>8. EndsInOrder'
  BY <1>1, <1>3 DEF EndsInOrder, LanTypes
<1> QED
  BY <1>4, <1>6, <1>7, <1>8

LEMMA ProbeHostKeeps ==
    ASSUME LanIInv, NEW w \in Workers, ProbeHost(w)
    PROVE  LanIInv'
<1> USE DEF LanIInv
<1>1. /\ probing[w] # NoAddress /\ ~reporting[w] /\ probing[w] \in Jobs
      /\ UNCHANGED <<unsent, jobsClosed, returned, results, resultsClosed,
                     found, scanEnded, scanCancelled>>
  BY DEF ProbeHost, LanTypes
<1>2. CASE /\ reporting' = [reporting EXCEPT ![w] = TRUE]
           /\ answered' = answered \cup {probing[w]}
           /\ UNCHANGED probing
  <2>1. LanTypes' /\ InOnePlace'
    BY <1>1, <1>2 DEF LanTypes, InOnePlace
  <2>2. AnswersKept'
    BY <1>1, <1>2 DEF AnswersKept, Underway, LanTypes
  <2>3. EndsInOrder'
    BY <1>1, <1>2 DEF EndsInOrder, LanTypes
  <2> QED
    BY <2>1, <2>2, <2>3
<1>3. CASE probing' = [probing EXCEPT ![w] = NoAddress] /\ UNCHANGED <<reporting, answered>>
  <2>1. LanTypes'
    BY <1>1, <1>3 DEF LanTypes
  <2>2. NoAddress \notin Jobs
    BY LanAssumption DEF Jobs
  <2>3. InOnePlace'
    BY <1>1, <1>3, <2>2 DEF InOnePlace, LanTypes
  <2>4. AnswersKept'
    BY <1>1, <1>3 DEF AnswersKept, Underway, LanTypes
  <2>5. EndsInOrder'
    BY <1>1, <1>3 DEF EndsInOrder, LanTypes
  <2> QED
    BY <2>1, <2>3, <2>4, <2>5
<1> QED
  BY <1>2, <1>3 DEF ProbeHost

LEMMA ReportKeeps ==
    ASSUME LanIInv, NEW w \in Workers, Report(w)
    PROVE  LanIInv'
<1> USE DEF LanIInv
<1> DEFINE n == Len(results) + 1
<1>1. /\ reporting[w]
      /\ results' = Append(results, probing[w])
      /\ probing' = [probing EXCEPT ![w] = NoAddress]
      /\ reporting' = [reporting EXCEPT ![w] = FALSE]
      /\ UNCHANGED <<unsent, jobsClosed, returned, resultsClosed, found,
                     scanEnded, scanCancelled, answered>>
  BY DEF Report
<1>2. probing[w] \in answered /\ probing[w] \in Jobs /\ NoAddress \notin Jobs
  BY <1>1, LanAssumption DEF AnswersKept, LanTypes, Jobs
<1>3. /\ results' \in Seq(Jobs) /\ Len(results') = n /\ results'[n] = probing[w]
      /\ \A i \in 1 .. Len(results) : results'[i] = results[i]
      /\ Len(results) \in Nat
  BY <1>1, <1>2 DEF LanTypes
<1>4. \A i \in 1 .. n : i # n => i \in 1 .. Len(results)
  BY <1>3
<1>5. \A i \in 1 .. Len(results) : i \in 1 .. n
  BY <1>3
<1>n. n \in 1 .. n
  BY <1>3
<1> HIDE DEF n
<1>6. LanTypes'
  BY <1>1, <1>2, <1>3 DEF LanTypes
<1>7. InOnePlace'
  <2>1. /\ probing'[w] = NoAddress /\ \A v \in Workers \ {w} : probing'[v] = probing[v]
    BY <1>1 DEF LanTypes
  <2>2. /\ \A v \in Workers : probing'[v] \notin unsent'
        /\ \A v, u \in Workers : v # u /\ probing'[v] # NoAddress => probing'[v] # probing'[u]
    BY <1>1, <1>2, <2>1 DEF InOnePlace, LanTypes
  <2>3. ASSUME NEW i \in 1 .. Len(results')
        PROVE  /\ results'[i] \notin unsent'
               /\ \A v \in Workers : results'[i] # probing'[v]
               /\ \A k \in 1 .. Len(found') : results'[i] # found'[k]
    <3>1. CASE i = n
      BY <1>1, <1>2, <1>3, <2>1, <3>1 DEF InOnePlace, LanTypes
    <3>2. CASE i # n
      <4>1. i \in 1 .. Len(results) /\ results'[i] = results[i]
        BY <1>3, <1>4, <3>2
      <4>2. results[i] \in Jobs
        BY <4>1 DEF LanTypes
      <4> QED
        BY <1>1, <1>2, <2>1, <4>1, <4>2 DEF InOnePlace, LanTypes
    <3> QED
      BY <3>1, <3>2
  <2>4. ASSUME NEW i \in 1 .. Len(results'), NEW j \in 1 .. Len(results'), i # j
        PROVE  results'[i] # results'[j]
    BY <1>3, <1>4, <2>4 DEF InOnePlace
  <2>5. ASSUME NEW i \in 1 .. Len(found')
        PROVE  /\ found'[i] \notin unsent'
               /\ \A v \in Workers : found'[i] # probing'[v]
               /\ \A j \in 1 .. Len(found') : i # j => found'[i] # found'[j]
    <3>1. found[i] \in Jobs /\ i \in 1 .. Len(found)
      BY <1>1, <2>5 DEF LanTypes
    <3> QED
      BY <1>1, <1>2, <2>1, <3>1 DEF InOnePlace
  <2> QED
    BY <2>2, <2>3, <2>4, <2>5 DEF InOnePlace
<1>8. AnswersKept'
  <2>1. \A v \in Workers : reporting'[v] => probing'[v] \in answered'
    BY <1>1 DEF AnswersKept, LanTypes
  <2>2. \A i \in 1 .. Len(results') : results'[i] \in answered'
    BY <1>1, <1>2, <1>3, <1>4 DEF AnswersKept
  <2>3. \A i \in 1 .. Len(found') : found'[i] \in answered'
    BY <1>1 DEF AnswersKept
  <2>4. ASSUME ~scanCancelled, NEW a \in answered PROVE Underway(a)'
    <3>1. CASE \E i \in 1 .. Len(found) : found[i] = a
      BY <1>1, <3>1 DEF Underway
    <3>2. CASE \E i \in 1 .. Len(results) : results[i] = a
      BY <1>3, <1>5, <3>2 DEF Underway
    <3>3. CASE reporting[w] /\ probing[w] = a
      BY <1>1, <1>3, <1>n, <3>3 DEF Underway
    <3>4. CASE \E v \in Workers \ {w} : reporting[v] /\ probing[v] = a
      BY <1>1, <3>4 DEF Underway, LanTypes
    <3> QED
      BY <2>4, <3>1, <3>2, <3>3, <3>4 DEF AnswersKept, Underway
  <2> QED
    BY <1>1, <2>1, <2>2, <2>3, <2>4 DEF AnswersKept
<1>9. EndsInOrder'
  <2>1. w \notin returned
    BY <1>1 DEF EndsInOrder
  <2>2. ~scanEnded
    BY <2>1 DEF EndsInOrder
  <2> QED
    BY <1>1, <2>1, <2>2 DEF EndsInOrder, LanTypes
<1> QED
  BY <1>6, <1>7, <1>8, <1>9

LEMMA WorkerReturnsKeeps ==
    ASSUME LanIInv, NEW w \in Workers, WorkerReturns(w)
    PROVE  LanIInv'
<1> USE DEF LanIInv
<1>1. /\ (jobsClosed /\ probing[w] = NoAddress) \/ (scanCancelled /\ reporting[w])
      /\ returned' = returned \cup {w}
      /\ probing' = [probing EXCEPT ![w] = NoAddress]
      /\ reporting' = [reporting EXCEPT ![w] = FALSE]
      /\ UNCHANGED <<unsent, jobsClosed, results, resultsClosed, found,
                     scanEnded, scanCancelled, answered>>
      /\ w \notin returned
  BY DEF WorkerReturns, Free
<1>2. NoAddress \notin Jobs
  BY LanAssumption DEF Jobs
<1>3. LanTypes'
  BY <1>1 DEF LanTypes
<1>4. InOnePlace'
  BY <1>1, <1>2 DEF InOnePlace, LanTypes
<1>5. AnswersKept'
  <2>1. ~scanCancelled => ~reporting[w]
    BY <1>1, <1>2 DEF AnswersKept, LanTypes
  <2> QED
    BY <1>1, <2>1 DEF AnswersKept, Underway, LanTypes
<1>6. EndsInOrder'
  BY <1>1 DEF EndsInOrder, LanTypes
<1> QED
  BY <1>3, <1>4, <1>5, <1>6

LEMMA CollectKeeps ==
    ASSUME LanIInv, Collect
    PROVE  LanIInv'
<1> USE DEF LanIInv
<1> DEFINE n == Len(found) + 1
           m == Len(results)
<1>1. /\ results # <<>>
      /\ found' = Append(found, results[1]) /\ results' = Tail(results)
      /\ UNCHANGED <<unsent, jobsClosed, probing, reporting, returned,
                     resultsClosed, scanEnded, scanCancelled, answered>>
  BY DEF Collect, LanTypes
<1>2. m \in Nat /\ m >= 1 /\ results[1] \in Jobs /\ 1 \in 1 .. m
  BY <1>1 DEF LanTypes
<1>3. /\ results' \in Seq(Jobs) /\ Len(results') = m - 1
      /\ \A i \in 1 .. m - 1 : results'[i] = results[i + 1] /\ i + 1 \in 1 .. m /\ i + 1 # 1
  BY <1>1, <1>2 DEF LanTypes
<1>4. /\ found' \in Seq(Jobs) /\ Len(found') = n /\ found'[n] = results[1]
      /\ \A i \in 1 .. Len(found) : found'[i] = found[i]
      /\ Len(found) \in Nat
  BY <1>1, <1>2 DEF LanTypes
<1>5. /\ \A i \in 1 .. n : i # n => i \in 1 .. Len(found)
      /\ \A i \in 1 .. Len(found) : i \in 1 .. n
      /\ n \in 1 .. n
  BY <1>4
<1>6. \A i \in 1 .. m : i # 1 => i - 1 \in 1 .. m - 1 /\ results'[i - 1] = results[i]
  <2>1. ASSUME NEW i \in 1 .. m, i # 1
        PROVE  i - 1 \in 1 .. m - 1 /\ (i - 1) + 1 = i
    BY <1>2, <2>1
  <2> QED
    BY <1>3, <2>1
<1> HIDE DEF n, m
<1>7. LanTypes'
  BY <1>1, <1>3, <1>4 DEF LanTypes
<1>8. InOnePlace'
  <2>1. ASSUME NEW i \in 1 .. Len(results')
        PROVE  /\ results'[i] \notin unsent'
               /\ \A v \in Workers : results'[i] # probing'[v]
               /\ \A k \in 1 .. Len(found') : results'[i] # found'[k]
    BY <1>1, <1>2, <1>3, <1>4, <1>5, <2>1 DEF InOnePlace, m
  <2>2. ASSUME NEW i \in 1 .. Len(results'), NEW j \in 1 .. Len(results'), i # j
        PROVE  results'[i] # results'[j]
    <3>1. i + 1 \in 1 .. m /\ j + 1 \in 1 .. m /\ i + 1 # j + 1
      BY <1>2, <1>3, <2>2
    <3> QED
      BY <1>3, <3>1 DEF InOnePlace, m
  <2>3. ASSUME NEW i \in 1 .. Len(found')
        PROVE  /\ found'[i] \notin unsent'
               /\ \A v \in Workers : found'[i] # probing'[v]
               /\ \A j \in 1 .. Len(found') : i # j => found'[i] # found'[j]
    BY <1>1, <1>2, <1>4, <1>5, <2>3 DEF InOnePlace, m
  <2>4. /\ \A v \in Workers : probing'[v] \notin unsent'
        /\ \A v, u \in Workers : v # u /\ probing'[v] # NoAddress => probing'[v] # probing'[u]
    BY <1>1 DEF InOnePlace
  <2> QED
    BY <2>1, <2>2, <2>3, <2>4 DEF InOnePlace
<1>9. AnswersKept'
  <2>1. /\ \A v \in Workers : reporting'[v] => probing'[v] \in answered'
        /\ \A i \in 1 .. Len(results') : results'[i] \in answered'
    BY <1>1, <1>3 DEF AnswersKept, m
  <2>2. \A i \in 1 .. Len(found') : found'[i] \in answered'
    BY <1>1, <1>2, <1>4, <1>5 DEF AnswersKept, m
  <2>3. ASSUME NEW a \in answered, Underway(a) PROVE Underway(a)'
    <3>1. CASE \E i \in 1 .. Len(found) : found[i] = a
      BY <1>4, <1>5, <3>1 DEF Underway
    <3>2. CASE results[1] = a
      BY <1>4, <1>5, <3>2 DEF Underway
    <3>3. CASE \E i \in 1 .. m : i # 1 /\ results[i] = a
      BY <1>3, <1>6, <3>3 DEF Underway
    <3>4. CASE \E v \in Workers : reporting[v] /\ probing[v] = a
      BY <1>1, <3>4 DEF Underway
    <3> QED
      BY <2>3, <3>1, <3>2, <3>3, <3>4 DEF Underway, m
  <2> QED
    BY <1>1, <2>1, <2>2, <2>3 DEF AnswersKept
<1>10. EndsInOrder'
  BY <1>1, <1>3 DEF EndsInOrder
<1> QED
  BY <1>7, <1>8, <1>9, <1>10

LEMMA LanSteps == LanIInv /\ [LanNext]_lanVars => LanIInv'
<1> SUFFICES ASSUME LanIInv, [LanNext]_lanVars PROVE LanIInv'
  OBVIOUS
<1>1. ASSUME NEW w \in Workers, WorkerStep(w) PROVE LanIInv'
  BY <1>1, HandOverKeeps, ProbeHostKeeps, ReportKeeps, WorkerReturnsKeeps DEF WorkerStep
<1>2. CASE CloseJobs
  BY <1>2 DEF LanIInv, CloseJobs, LanTypes, InOnePlace, AnswersKept, Underway, EndsInOrder
<1>3. CASE CloseResults
  BY <1>3 DEF LanIInv, CloseResults, LanTypes, InOnePlace, AnswersKept, Underway, EndsInOrder
<1>4. CASE Collect
  BY <1>4, CollectKeeps
<1>5. CASE DiscoverReturns
  BY <1>5 DEF LanIInv, DiscoverReturns, LanTypes, InOnePlace, AnswersKept, Underway, EndsInOrder
<1>6. CASE CancelScan
  BY <1>6 DEF LanIInv, CancelScan, LanTypes, InOnePlace, AnswersKept, Underway, EndsInOrder
<1>7. CASE UNCHANGED lanVars
  BY <1>7 DEF LanIInv, lanVars, LanTypes, InOnePlace, AnswersKept, Underway, EndsInOrder
<1> QED
  BY <1>1, <1>2, <1>3, <1>4, <1>5, <1>6, <1>7 DEF LanNext, GoroutineStep

LEMMA LanIInvGivesScanComplete == LanIInv => ScanComplete
<1> SUFFICES ASSUME LanIInv PROVE ScanComplete
  OBVIOUS
<1> USE DEF LanIInv
<1>1. found \in Seq(Jobs) /\ Len(found) \in Nat /\ DOMAIN found = 1 .. Len(found)
  BY DEF LanTypes
<1>2. resultsClosed => \A w \in Workers : ~reporting[w] /\ probing[w] = NoAddress
  BY DEF EndsInOrder
<1>3. Cardinality(Found) = Len(found)
  <2>0. found \in [1 .. Len(found) -> Found]
    BY <1>1 DEF Found
  <2>1. found \in Bijection(1 .. Len(found), Found)
    <3>1. \A i, j \in 1 .. Len(found) : found[i] = found[j] => i = j
      BY DEF InOnePlace
    <3>2. \A a \in Found : \E i \in 1 .. Len(found) : found[i] = a
      BY <1>1 DEF Found
    <3> QED
      BY <2>0, <3>1, <3>2 DEF Bijection, Injection, Surjection, IsInjective
  <2>2. IsFiniteSet(1 .. Len(found)) /\ Cardinality(1 .. Len(found)) = Len(found)
    BY <1>1, FS_Interval
  <2> QED
    BY <2>1, <2>2, FS_Bijection DEF ExistsBijection
<1>4. Found \subseteq answered
  BY <1>1 DEF Found, AnswersKept
<1>5. ASSUME scanEnded, ~scanCancelled PROVE unsent = {} /\ Found = answered
  <2>1. resultsClosed /\ results = <<>> /\ returned = Workers /\ jobsClosed
    BY <1>5, LanAssumption DEF EndsInOrder
  <2>2. unsent = {}
    BY <1>5, <2>1 DEF EndsInOrder
  <2>3. \A a \in answered : a \in Found
    BY <1>1, <1>2, <1>5, <2>1 DEF AnswersKept, Underway, Found
  <2> QED
    BY <1>4, <2>2, <2>3
<1> QED
  BY <1>2, <1>3, <1>4, <1>5 DEF ScanComplete

(* A scan, however its goroutines interleave and whenever its context ends,     *)
(* returns each answer once and, unless it was cancelled, all of them.          *)
THEOREM ScansAreComplete == LanSpec => []ScanComplete
<1>1. LanInit => LanIInv
  BY LanStarts
<1>2. LanIInv /\ [LanNext]_lanVars => LanIInv'
  BY LanSteps
<1>3. LanIInv => ScanComplete
  BY LanIInvGivesScanComplete
<1> QED
  BY <1>1, <1>2, <1>3, PTL DEF LanSpec

(* How far a scan has to go.  All that is counted is finite.                    *)
LEMMA LanCounts ==
    ASSUME LanTypes, IsFiniteSet(unsent)
    PROVE  /\ Cardinality(unsent) \in Nat
           /\ IsFiniteSet(UnderProbe) /\ Cardinality(UnderProbe) \in Nat
           /\ IsFiniteSet(WithAnswer) /\ Cardinality(WithAnswer) \in Nat
           /\ IsFiniteSet(Workers \ returned) /\ Cardinality(Workers \ returned) \in Nat
           /\ Len(results) \in Nat
           /\ Undone(jobsClosed) \in Nat /\ Undone(resultsClosed) \in Nat
           /\ Undone(scanEnded) \in Nat /\ Undone(scanCancelled) \in Nat
<1>1. IsFiniteSet(UnderProbe) /\ IsFiniteSet(WithAnswer) /\ IsFiniteSet(Workers \ returned)
  <2>1. UnderProbe \subseteq Workers /\ WithAnswer \subseteq Workers /\ Workers \ returned \subseteq Workers
    BY DEF UnderProbe, WithAnswer
  <2> QED
    BY <2>1, LanAssumption, FS_Subset
<1> QED
  BY <1>1, FS_CardinalityType DEF LanTypes, Undone

(* The addresses of finitely many targets are finitely many, and none is added. *)
LEMMA FiniteAtFirst == LanInit => IsFiniteSet(unsent)
<1>1. TwoTo[AddressBits] - 1 \in Int
  BY LanAssumption, TwoToFacts
<1>2. IsFiniteSet(0 .. TwoTo[AddressBits] - 1)
  BY <1>1, FS_Interval
<1>3. IsFiniteSet(Targets \X (0 .. TwoTo[AddressBits] - 1))
  BY <1>2, LanAssumption, FS_Product
<1>4. ASSUME LanInit PROVE unsent \subseteq Targets \X (0 .. TwoTo[AddressBits] - 1)
  BY <1>4 DEF LanInit, LanRest, LanStart, ScanJobs
<1> QED
  BY <1>3, <1>4, FS_Subset

LEMMA FewerToSend == IsFiniteSet(unsent) /\ [LanNext]_lanVars => IsFiniteSet(unsent)'
<1>1. [LanNext]_lanVars => unsent' \subseteq unsent
  BY DEF LanNext, WorkerStep, GoroutineStep, HandOver, ProbeHost, Report, WorkerReturns, CloseJobs,
         CloseResults, Collect, DiscoverReturns, CancelScan, lanVars
<1> QED
  BY <1>1, FS_Subset

(* What each step takes from one count and adds to another.                     *)
LEMMA HandOverMoves ==
    ASSUME LanIInv, IsFiniteSet(unsent), NEW w \in Workers, HandOver(w)
    PROVE  /\ Cardinality(unsent)' = Cardinality(unsent) - 1
           /\ Cardinality(UnderProbe)' = Cardinality(UnderProbe) + 1
           /\ WithAnswer' = WithAnswer
<1> USE DEF LanIInv
<1>1. PICK job \in unsent :
         /\ probing' = [probing EXCEPT ![w] = job]
         /\ unsent' = unsent \ {job}
  BY DEF HandOver
<1>2. job # NoAddress
  BY LanAssumption DEF LanTypes, Jobs
<1>3. probing[w] = NoAddress /\ reporting' = reporting
  BY DEF HandOver, Free
<1>4. ~reporting[w]
  BY <1>3, LanAssumption DEF AnswersKept, LanTypes, Jobs
<1>5. UnderProbe' = UnderProbe \cup {w} /\ w \notin UnderProbe /\ WithAnswer' = WithAnswer
  BY <1>1, <1>2, <1>3, <1>4 DEF UnderProbe, WithAnswer, LanTypes
<1>6. Cardinality(unsent \ {job}) = Cardinality(unsent) - 1
  BY <1>1, LanCounts, FS_RemoveElement
<1>7. Cardinality(UnderProbe \cup {w}) = Cardinality(UnderProbe) + 1
  BY <1>5, LanCounts, FS_AddElement
<1> QED
  BY <1>1, <1>5, <1>6, <1>7

LEMMA ProbeHostMoves ==
    ASSUME LanIInv, IsFiniteSet(unsent), NEW w \in Workers, ProbeHost(w)
    PROVE  /\ Cardinality(UnderProbe)' = Cardinality(UnderProbe) - 1
           /\ \/ Cardinality(WithAnswer)' = Cardinality(WithAnswer) + 1
              \/ WithAnswer' = WithAnswer
<1> USE DEF LanIInv
<1>1. w \in UnderProbe /\ w \notin WithAnswer
  BY DEF ProbeHost, UnderProbe, WithAnswer
<1>2. UnderProbe' = UnderProbe \ {w} /\ (WithAnswer' = WithAnswer \cup {w} \/ WithAnswer' = WithAnswer)
  BY DEF ProbeHost, UnderProbe, WithAnswer, LanTypes
<1>3. Cardinality(UnderProbe \ {w}) = Cardinality(UnderProbe) - 1
  BY <1>1, LanCounts, FS_RemoveElement
<1>4. Cardinality(WithAnswer \cup {w}) = Cardinality(WithAnswer) + 1
  BY <1>1, LanCounts, FS_AddElement
<1> QED
  BY <1>2, <1>3, <1>4

LEMMA ReportMoves ==
    ASSUME LanIInv, IsFiniteSet(unsent), NEW w \in Workers, Report(w)
    PROVE  /\ Cardinality(WithAnswer)' = Cardinality(WithAnswer) - 1
           /\ UnderProbe' = UnderProbe
           /\ Len(results)' = Len(results) + 1
<1> USE DEF LanIInv
<1>1. /\ reporting[w] /\ reporting' = [reporting EXCEPT ![w] = FALSE]
      /\ probing' = [probing EXCEPT ![w] = NoAddress]
      /\ results' = Append(results, probing[w])
  BY DEF Report
<1>2. WithAnswer' = WithAnswer \ {w} /\ w \in WithAnswer
  BY <1>1 DEF WithAnswer, LanTypes
<1>3. UnderProbe' = UnderProbe
  BY <1>1 DEF UnderProbe, LanTypes
<1>4. Len(results)' = Len(results) + 1
  <2>1. probing[w] \in Jobs
    BY <1>1 DEF AnswersKept, LanTypes
  <2> QED
    BY <1>1, <2>1 DEF LanTypes
<1>5. Cardinality(WithAnswer \ {w}) = Cardinality(WithAnswer) - 1
  BY <1>2, LanCounts, FS_RemoveElement
<1> QED
  BY <1>2, <1>3, <1>4, <1>5

LEMMA WorkerReturnsMoves ==
    ASSUME LanIInv, IsFiniteSet(unsent), NEW w \in Workers, WorkerReturns(w)
    PROVE  /\ Cardinality(Workers \ returned)' = Cardinality(Workers \ returned) - 1
           /\ UnderProbe' = UnderProbe
           /\ \/ WithAnswer' = WithAnswer
              \/ Cardinality(WithAnswer)' = Cardinality(WithAnswer) - 1
<1> USE DEF LanIInv
<1>1. /\ w \notin returned /\ returned' = returned \cup {w}
      /\ reporting' = [reporting EXCEPT ![w] = FALSE]
      /\ probing' = [probing EXCEPT ![w] = NoAddress]
      /\ probing[w] = NoAddress \/ reporting[w]
  BY DEF WorkerReturns, Free
<1>2. /\ (Workers \ returned)' = (Workers \ returned) \ {w} /\ w \in Workers \ returned
      /\ UnderProbe' = UnderProbe
      /\ WithAnswer' = WithAnswer \ {w}
  BY <1>1 DEF UnderProbe, WithAnswer, LanTypes
<1>3. Cardinality((Workers \ returned) \ {w}) = Cardinality(Workers \ returned) - 1
  BY <1>2, LanCounts, FS_RemoveElement
<1>4. CASE w \in WithAnswer
  <2>1. Cardinality(WithAnswer \ {w}) = Cardinality(WithAnswer) - 1
    BY <1>4, LanCounts, FS_RemoveElement
  <2> QED
    BY <1>2, <1>3, <2>1
<1>5. CASE w \notin WithAnswer
  BY <1>2, <1>3, <1>5
<1> QED
  BY <1>4, <1>5

LEMMA CollectMoves ==
    ASSUME LanIInv, Collect
    PROVE  Len(results)' = Len(results) - 1
BY DEF LanIInv, LanTypes, Collect

(* The counts as numbers, before and after a step: one of these happens.        *)
LEMMA StepsAreFewer ==
    ASSUME LanIInv, IsFiniteSet(unsent), LanNext
    PROVE  StepsLeft' < StepsLeft
<1>0. LanTypes
  BY DEF LanIInv
<1>1. PICK u, p, a, r, l, j, c, e, x :
         /\ u = Cardinality(unsent) /\ p = Cardinality(UnderProbe) /\ a = Cardinality(WithAnswer)
         /\ r = Len(results) /\ l = Cardinality(Workers \ returned)
         /\ j = Undone(jobsClosed) /\ c = Undone(resultsClosed)
         /\ e = Undone(scanEnded) /\ x = Undone(scanCancelled)
  OBVIOUS
<1>2. PICK u1, p1, a1, r1, l1, j1, c1, e1, x1 :
         /\ u1 = Cardinality(unsent)' /\ p1 = Cardinality(UnderProbe)' /\ a1 = Cardinality(WithAnswer)'
         /\ r1 = Len(results)' /\ l1 = Cardinality(Workers \ returned)'
         /\ j1 = Undone(jobsClosed)' /\ c1 = Undone(resultsClosed)'
         /\ e1 = Undone(scanEnded)' /\ x1 = Undone(scanCancelled)'
  OBVIOUS
<1>3. /\ u \in Nat /\ p \in Nat /\ a \in Nat /\ r \in Nat /\ l \in Nat
      /\ j \in Nat /\ c \in Nat /\ e \in Nat /\ x \in Nat
  BY <1>0, <1>1, LanCounts
<1>4. /\ StepsLeft = 4 * u + 3 * p + 2 * a + r + l + j + c + e + x
      /\ StepsLeft' = 4 * u1 + 3 * p1 + 2 * a1 + r1 + l1 + j1 + c1 + e1 + x1
  BY <1>1, <1>2 DEF StepsLeft
<1>5. ASSUME NEW w \in Workers, HandOver(w) PROVE StepsLeft' < StepsLeft
  <2>1. u1 = u - 1 /\ p1 = p + 1
    BY <1>1, <1>2, <1>5, HandOverMoves
  <2>2. a1 = a /\ r1 = r /\ l1 = l /\ j1 = j /\ c1 = c /\ e1 = e /\ x1 = x
    BY <1>1, <1>2, <1>5, HandOverMoves DEF HandOver
  <2> QED
    BY <1>3, <1>4, <2>1, <2>2
<1>6. ASSUME NEW w \in Workers, ProbeHost(w) PROVE StepsLeft' < StepsLeft
  <2>1. p1 = p - 1 /\ (a1 = a + 1 \/ a1 = a)
    BY <1>1, <1>2, <1>6, ProbeHostMoves
  <2>2. u1 = u /\ r1 = r /\ l1 = l /\ j1 = j /\ c1 = c /\ e1 = e /\ x1 = x
    BY <1>1, <1>2, <1>6 DEF ProbeHost
  <2> QED
    BY <1>3, <1>4, <2>1, <2>2
<1>7. ASSUME NEW w \in Workers, Report(w) PROVE StepsLeft' < StepsLeft
  <2>1. a1 = a - 1 /\ p1 = p /\ r1 = r + 1
    BY <1>1, <1>2, <1>7, ReportMoves
  <2>2. u1 = u /\ l1 = l /\ j1 = j /\ c1 = c /\ e1 = e /\ x1 = x
    BY <1>1, <1>2, <1>7 DEF Report
  <2> QED
    BY <1>3, <1>4, <2>1, <2>2
<1>8. ASSUME NEW w \in Workers, WorkerReturns(w) PROVE StepsLeft' < StepsLeft
  <2>1. l1 = l - 1 /\ p1 = p /\ (a1 = a \/ a1 = a - 1)
    BY <1>1, <1>2, <1>8, WorkerReturnsMoves
  <2>2. u1 = u /\ r1 = r /\ j1 = j /\ c1 = c /\ e1 = e /\ x1 = x
    BY <1>1, <1>2, <1>8 DEF WorkerReturns
  <2> QED
    BY <1>3, <1>4, <2>1, <2>2
<1>9. CASE Collect
  <2>1. r1 = r - 1
    BY <1>1, <1>2, <1>9, CollectMoves
  <2>2. UnderProbe' = UnderProbe /\ WithAnswer' = WithAnswer
    BY <1>9 DEF Collect, UnderProbe, WithAnswer
  <2>3. u1 = u /\ p1 = p /\ a1 = a /\ l1 = l /\ j1 = j /\ c1 = c /\ e1 = e /\ x1 = x
    BY <1>1, <1>2, <1>9, <2>2 DEF Collect
  <2> QED
    BY <1>3, <1>4, <2>1, <2>3
<1>10. CASE CloseJobs \/ CloseResults \/ DiscoverReturns \/ CancelScan
  <2>1. /\ UNCHANGED <<unsent, probing, reporting, results, returned>>
        /\ jobsClosed => jobsClosed'
        /\ resultsClosed => resultsClosed'
        /\ scanEnded => scanEnded'
        /\ scanCancelled => scanCancelled'
        /\ \/ ~jobsClosed /\ jobsClosed'
           \/ ~resultsClosed /\ resultsClosed'
           \/ ~scanEnded /\ scanEnded'
           \/ ~scanCancelled /\ scanCancelled'
    BY <1>10 DEF CloseJobs, CloseResults, DiscoverReturns, CancelScan
  <2>2. UnderProbe' = UnderProbe /\ WithAnswer' = WithAnswer
    BY <2>1 DEF UnderProbe, WithAnswer
  <2>3. u1 = u /\ p1 = p /\ a1 = a /\ r1 = r /\ l1 = l
    BY <1>1, <1>2, <2>1, <2>2
  <2>4. /\ j1 \in {0, 1} /\ c1 \in {0, 1} /\ e1 \in {0, 1} /\ x1 \in {0, 1}
        /\ j1 <= j /\ c1 <= c /\ e1 <= e /\ x1 <= x
        /\ j1 < j \/ c1 < c \/ e1 < e \/ x1 < x
    BY <1>1, <1>2, <2>1 DEF Undone
  <2> QED
    BY <1>3, <1>4, <2>3, <2>4
<1> QED
  BY <1>5, <1>6, <1>7, <1>8, <1>9, <1>10 DEF LanNext, WorkerStep, GoroutineStep

(* Every step of a scan, of whichever goroutine, leaves less to do: with a      *)
(* number of workers and targets that is finite no scan goes on for ever        *)
(* (Provider.Discover and its goroutines, lan/provider.go).                     *)
THEOREM ScansDoMoveOn == LanSpec => ScanMovesOn
<1>1. LanIInv /\ IsFiniteSet(unsent) /\ [LanNext]_lanVars => [StepsLeft' < StepsLeft]_lanVars
  BY StepsAreFewer
<1> QED
  BY <1>1, FiniteAtFirst, FewerToSend, LanStarts, LanSteps, PTL DEF LanSpec, ScanMovesOn

(* Who can go on: the guards of the steps other than the end of the context.    *)
SomebodyCanGoOn ==
    \/ ~jobsClosed /\ (unsent = {} \/ scanCancelled)
    \/ ~jobsClosed /\ unsent # {} /\ \E w \in Workers : Free(w)
    \/ \E w \in Workers :
          \/ probing[w] # NoAddress /\ ~reporting[w]
          \/ reporting[w] /\ Len(results) < Cardinality(Workers)
          \/ w \notin returned /\ jobsClosed /\ Free(w)
    \/ returned = Workers /\ ~resultsClosed
    \/ results # <<>>
    \/ resultsClosed /\ results = <<>> /\ ~scanEnded

(* The goroutines of a scan never all wait for one another: until Discover has  *)
(* returned one of them can go on, also when the context never ends.            *)
THEOREM ScansNeverStick == LanSpec => [](scanEnded \/ SomebodyCanGoOn)
<1>1. ASSUME LanIInv, ~scanEnded PROVE SomebodyCanGoOn
  <2> SUFFICES ASSUME results = <<>>, ~resultsClosed, returned # Workers PROVE SomebodyCanGoOn
    BY <1>1 DEF SomebodyCanGoOn
  <2>1. PICK w \in Workers : w \notin returned
    BY <1>1 DEF LanIInv, LanTypes
  <2>2. CASE reporting[w]
    <3>1. Cardinality(Workers) \in Nat /\ Cardinality(Workers) # 0 /\ Len(results) = 0
      BY LanAssumption, FS_CardinalityType, FS_EmptySet
    <3>2. Len(results) < Cardinality(Workers)
      BY <3>1
    <3> QED
      BY <2>2, <3>2 DEF SomebodyCanGoOn
  <2>3. CASE ~reporting[w] /\ probing[w] # NoAddress
    BY <2>3 DEF SomebodyCanGoOn
  <2>4. CASE Free(w)
    BY <2>1, <2>4 DEF SomebodyCanGoOn
  <2> QED
    BY <2>1, <2>2, <2>3, <2>4 DEF Free
<1>2. LanIInv => scanEnded \/ SomebodyCanGoOn
  BY <1>1
<1> QED
  BY <1>2, LanStarts, LanSteps, PTL DEF LanSpec

(* The scan as one sweep.  Where an address is on its way to be probed, what is *)
(* probed by now, and what Discover has returned.                               *)
Asked == ScanJobs(scanTargets)
ToProbe == unsent \cup {probing[w] : w \in UnderProbe}
Returned == IF scanEnded THEN Found ELSE {}

AskedFor ==
    /\ unsent \subseteq Asked
    /\ \A w \in Workers : probing[w] # NoAddress => probing[w] \in Asked

LEMMA AskedForHolds == LanSpec => []AskedFor
<1>1. LanInit => AskedFor
  BY DEF LanInit, LanRest, LanStart, AskedFor, Asked
<1>2. ASSUME LanTypes, AskedFor, [LanNext]_lanVars PROVE AskedFor'
  <2>1. Asked' = Asked
    BY <1>2 DEF LanNext, WorkerStep, GoroutineStep, HandOver, ProbeHost, Report, WorkerReturns, CloseJobs,
                CloseResults, Collect, DiscoverReturns, CancelScan, lanVars, Asked
  <2>2. ASSUME NEW w \in Workers, HandOver(w) PROVE AskedFor'
    BY <1>2, <2>1, <2>2 DEF HandOver, AskedFor, LanTypes
  <2>3. ASSUME NEW w \in Workers, ProbeHost(w) \/ Report(w) \/ WorkerReturns(w) PROVE AskedFor'
    <3>1. /\ unsent' = unsent
          /\ probing' = probing \/ probing' = [probing EXCEPT ![w] = NoAddress]
      BY <2>3 DEF ProbeHost, Report, WorkerReturns
    <3> QED
      BY <1>2, <2>1, <3>1 DEF AskedFor, LanTypes
  <2>4. CASE GoroutineStep \/ CancelScan \/ UNCHANGED lanVars
    BY <1>2, <2>1, <2>4 DEF GoroutineStep, CloseJobs, CloseResults, Collect, DiscoverReturns, CancelScan,
                            lanVars, AskedFor
  <2> QED
    BY <1>2, <2>2, <2>3, <2>4 DEF LanNext, WorkerStep
<1>3. LanIInv => LanTypes
  BY DEF LanIInv
<1> QED
  BY <1>1, <1>2, <1>3, LanStarts, LanSteps, PTL DEF LanSpec

(* A step that leaves what the sweep sees as it was.                            *)
SweepSame == UNCHANGED <<Asked, ToProbe, answered, Returned, scanEnded, scanCancelled>>

LEMMA HandOverIsHidden ==
    ASSUME LanIInv, NEW w \in Workers, HandOver(w)
    PROVE  ToProbe' = ToProbe
<1> USE DEF LanIInv
<1>1. PICK job \in unsent :
         /\ probing' = [probing EXCEPT ![w] = job]
         /\ unsent' = unsent \ {job}
  BY DEF HandOver
<1>2. probing[w] = NoAddress /\ reporting' = reporting /\ job # NoAddress /\ NoAddress \notin answered
  BY LanAssumption DEF HandOver, Free, LanTypes, Jobs
<1>3. ~reporting[w]
  BY <1>2 DEF AnswersKept
<1>4. /\ UnderProbe' = UnderProbe \cup {w} /\ w \notin UnderProbe
      /\ probing'[w] = job /\ \A v \in Workers \ {w} : probing'[v] = probing[v]
  BY <1>1, <1>2, <1>3 DEF UnderProbe, LanTypes
<1>5. UnderProbe \subseteq Workers \ {w}
  BY <1>4 DEF UnderProbe
<1> QED
  BY <1>1, <1>4, <1>5 DEF ToProbe

LEMMA LettingGoIsHidden ==
    ASSUME LanIInv, NEW w \in Workers, Report(w) \/ WorkerReturns(w)
    PROVE  ToProbe' = ToProbe
<1> USE DEF LanIInv
<1>1. /\ unsent' = unsent
      /\ probing' = [probing EXCEPT ![w] = NoAddress]
      /\ reporting' = [reporting EXCEPT ![w] = FALSE]
      /\ reporting[w] \/ probing[w] = NoAddress
  BY DEF Report, WorkerReturns, Free
<1>2. /\ UnderProbe' = UnderProbe /\ w \notin UnderProbe
      /\ \A v \in Workers \ {w} : probing'[v] = probing[v]
  BY <1>1 DEF UnderProbe, LanTypes
<1>3. UnderProbe \subseteq Workers \ {w}
  BY <1>2 DEF UnderProbe
<1> QED
  BY <1>1, <1>2, <1>3 DEF ToProbe

(* A probe takes its address out, which no other worker has.                    *)
LEMMA ProbeIsOne ==
    ASSUME LanIInv, AskedFor, NEW w \in Workers, ProbeHost(w)
    PROVE  /\ probing[w] \in Asked /\ probing[w] \in ToProbe
           /\ ToProbe' = ToProbe \ {probing[w]}
           /\ answered' \in {answered, answered \cup {probing[w]}}
           /\ ~scanEnded
           /\ UNCHANGED <<Asked, scanEnded, scanCancelled, found>>
<1> USE DEF LanIInv
<1>1. /\ probing[w] # NoAddress /\ ~reporting[w] /\ w \in UnderProbe
      /\ UNCHANGED <<scanTargets, unsent, scanEnded, scanCancelled, found>>
  BY DEF ProbeHost, UnderProbe
<1>2. probing[w] \in Asked /\ probing[w] \in ToProbe
  BY <1>1 DEF AskedFor, ToProbe
<1>3. /\ UnderProbe' = UnderProbe \ {w}
      /\ \A v \in Workers \ {w} : probing'[v] = probing[v]
      /\ answered' \in {answered, answered \cup {probing[w]}}
  BY <1>1 DEF ProbeHost, UnderProbe, LanTypes
<1>4. /\ probing[w] \notin unsent
      /\ \A v \in UnderProbe \ {w} : v \in Workers \ {w} /\ probing[v] # probing[w]
  BY <1>1 DEF InOnePlace, UnderProbe
<1>5. ToProbe' = ToProbe \ {probing[w]}
  BY <1>1, <1>3, <1>4 DEF ToProbe
<1>6. ~scanEnded
  BY <1>1 DEF EndsInOrder
<1> QED
  BY <1>1, <1>2, <1>3, <1>5, <1>6 DEF Asked

(* Discover returns after the last probe, with every answer, unless cancelled.  *)
LEMMA ReturnIsWhole ==
    ASSUME LanIInv, DiscoverReturns
    PROVE  /\ Found \subseteq answered
           /\ ~scanCancelled => ToProbe = {} /\ Found = answered
<1> USE DEF LanIInv
<1>1. found \in Seq(Jobs) /\ DOMAIN found = 1 .. Len(found)
  BY DEF LanTypes
<1>2. Found \subseteq answered
  BY <1>1 DEF Found, AnswersKept
<1>3. ASSUME ~scanCancelled PROVE ToProbe = {} /\ Found = answered
  <2>1. results = <<>> /\ returned = Workers /\ jobsClosed /\ unsent = {}
    BY <1>3, LanAssumption DEF DiscoverReturns, EndsInOrder
  <2>2. \A w \in Workers : probing[w] = NoAddress /\ ~reporting[w]
    BY <2>1 DEF EndsInOrder
  <2>3. ToProbe = {}
    BY <2>1, <2>2 DEF ToProbe, UnderProbe
  <2>4. \A a \in answered : a \in Found
    BY <1>1, <1>3, <2>1, <2>2 DEF AnswersKept, Underway, Found
  <2> QED
    BY <1>2, <2>3, <2>4
<1> QED
  BY <1>2, <1>3

(* Every step is one of the sweep's or leaves what the sweep sees as it was.    *)
LEMMA StepsOfSweep ==
    ASSUME LanIInv, AskedFor, [LanNext]_lanVars
    PROVE  \/ SweepSame
           \/ \E a \in Asked \cap ToProbe :
                 /\ ToProbe' = ToProbe \ {a} /\ answered' \in {answered, answered \cup {a}} /\ ~scanEnded
                 /\ UNCHANGED <<Asked, Returned, scanEnded, scanCancelled>>
           \/ /\ ~scanEnded /\ ~scanCancelled /\ scanCancelled'
              /\ UNCHANGED <<Asked, ToProbe, answered, Returned, scanEnded>>
           \/ /\ ~scanEnded /\ scanEnded' /\ Returned' \subseteq answered
              /\ ~scanCancelled => ToProbe = {} /\ Returned' = answered
              /\ UNCHANGED <<Asked, ToProbe, answered, scanCancelled>>
<1>1. ASSUME NEW w \in Workers, HandOver(w) \/ Report(w) \/ WorkerReturns(w) PROVE SweepSame
  <2>1. ToProbe' = ToProbe
    BY <1>1, HandOverIsHidden, LettingGoIsHidden
  <2>2. UNCHANGED <<scanTargets, answered, found, scanEnded, scanCancelled>>
    BY <1>1 DEF HandOver, Report, WorkerReturns
  <2> QED
    BY <2>1, <2>2 DEF SweepSame, Asked, Returned, Found
<1>2. ASSUME NEW w \in Workers, ProbeHost(w)
      PROVE  \E a \in Asked \cap ToProbe :
                 /\ ToProbe' = ToProbe \ {a} /\ answered' \in {answered, answered \cup {a}} /\ ~scanEnded
                 /\ UNCHANGED <<Asked, Returned, scanEnded, scanCancelled>>
  <2>1. Returned' = Returned
    BY <1>2 DEF ProbeHost, Returned, Found
  <2> QED
    BY <1>2, <2>1, ProbeIsOne
<1>3. CASE CloseJobs \/ CloseResults \/ UNCHANGED lanVars
  BY <1>3 DEF CloseJobs, CloseResults, lanVars, SweepSame, Asked, ToProbe, UnderProbe, Returned, Found
<1>4. CASE Collect
  <2>1. ~scanEnded
    BY <1>4 DEF Collect, LanIInv, EndsInOrder
  <2> QED
    BY <1>4, <2>1 DEF Collect, SweepSame, Asked, ToProbe, UnderProbe, Returned
<1>5. CASE CancelScan
  BY <1>5 DEF CancelScan, Asked, ToProbe, UnderProbe, Returned, Found
<1>6. CASE DiscoverReturns
  <2>1. Returned' = Found
    BY <1>6 DEF DiscoverReturns, Returned, Found
  <2>2. UNCHANGED <<Asked, ToProbe, answered, scanCancelled>> /\ ~scanEnded /\ scanEnded'
    BY <1>6 DEF DiscoverReturns, Asked, ToProbe, UnderProbe
  <2> QED
    BY <1>6, <2>1, <2>2, ReturnIsWhole
<1> QED
  BY <1>1, <1>2, <1>3, <1>4, <1>5, <1>6 DEF LanNext, WorkerStep, GoroutineStep

(* The goroutines of a scan, any number of them over any targets and whenever   *)
(* its context ends, implement one sweep: an address is probed once, Discover   *)
(* returns after the last probe with what answered, and probes nothing later    *)
(* (Provider.Discover, lan/provider.go).                                        *)
THEOREM ScanImplementsSweep == LanSpec => SweepsOnce
<1>1. ASSUME LanInit PROVE Sweep!SweepInit
  <2>1. CASE LanRest
    <3>1. Asked = {} /\ answered = {} /\ Found = {} /\ scanCancelled = FALSE /\ scanEnded = TRUE
      BY <2>1 DEF LanRest, Asked, ScanJobs, Found
    <3> QED
      BY <3>1 DEF Sweep!SweepInit, Asked
  <2>2. ASSUME NEW rows \in [Targets -> TargetRow], LanStart(rows) PROVE Sweep!SweepInit
    <3>1. unsent = Asked /\ answered = {} /\ scanCancelled = FALSE /\ scanEnded = FALSE
      BY <2>2 DEF LanStart, Asked
    <3> QED
      BY <3>1 DEF Sweep!SweepInit, Asked
  <2> QED
    BY <1>1, <2>1, <2>2 DEF LanInit
<1>2. ASSUME LanIInv, AskedFor, [LanNext]_lanVars PROVE [Sweep!SweepNext]_(Sweep!sweepVars)
  <2>1. CASE SweepSame
    BY <2>1 DEF SweepSame, Sweep!sweepVars, Asked, ToProbe, Returned
  <2>2. ASSUME NEW a \in Asked \cap ToProbe,
               ToProbe' = ToProbe \ {a}, answered' \in {answered, answered \cup {a}}, ~scanEnded,
               UNCHANGED <<Asked, Returned, scanEnded, scanCancelled>>
        PROVE  Sweep!SweepNext
    <3>1. a \in Asked \ (Asked \ ToProbe) /\ (Asked \ ToProbe)' = (Asked \ ToProbe) \cup {a}
      BY <2>2
    <3>2. Sweep!Probe(a)
      BY <2>2, <3>1 DEF Sweep!Probe, Asked, ToProbe, Returned
    <3> QED
      BY <3>1, <3>2 DEF Sweep!SweepNext, Asked, ToProbe
  <2>3. CASE /\ ~scanEnded /\ ~scanCancelled /\ scanCancelled'
             /\ UNCHANGED <<Asked, ToProbe, answered, Returned, scanEnded>>
    <3>1. scanCancelled' = TRUE
      BY <1>2, <2>3, LanSteps DEF LanIInv, LanTypes
    <3> QED
      BY <2>3, <3>1 DEF Sweep!Cancel, Sweep!SweepNext, Asked, ToProbe, Returned
  <2>4. CASE /\ ~scanEnded /\ scanEnded' /\ Returned' \subseteq answered
             /\ ~scanCancelled => ToProbe = {} /\ Returned' = answered
             /\ UNCHANGED <<Asked, ToProbe, answered, scanCancelled>>
    <3>1. scanEnded' = TRUE
      BY <1>2, <2>4, LanSteps DEF LanIInv, LanTypes
    <3> QED
      BY <2>4, <3>1 DEF Sweep!Return, Sweep!SweepNext, Asked, ToProbe, Returned
  <2> QED
    BY <1>2, <2>1, <2>2, <2>3, <2>4, StepsOfSweep
<1> QED
  BY <1>1, <1>2, AskedForHolds, LanStarts, LanSteps, PTL DEF LanSpec, SweepsOnce, Sweep!Sweeps

(* What is scanned does not change during the scan.                             *)
LEMMA TargetsKept ==
    /\ LanInit => scanTargets \in [Targets -> TargetRow]
    /\ scanTargets \in [Targets -> TargetRow] /\ [LanNext]_lanVars => UNCHANGED scanTargets
<1>1. ASSUME LanRest PROVE scanTargets \in [Targets -> TargetRow]
  <2>1. 0 \in 0 .. TwoTo[AddressBits] - 1 /\ 0 \in 0 .. AddressBits
    BY TwoToFacts, LanAssumption
  <2> QED
    BY <1>1, <2>1 DEF LanRest, TargetRow
<1>2. LanInit => scanTargets \in [Targets -> TargetRow]
  BY <1>1 DEF LanInit, LanStart
<1>3. [LanNext]_lanVars => UNCHANGED scanTargets
  BY DEF LanNext, lanVars, WorkerStep, GoroutineStep, HandOver, ProbeHost, Report,
         WorkerReturns, CloseJobs, CloseResults, Collect, DiscoverReturns, CancelScan
<1> QED
  BY <1>2, <1>3

LEMMA PrefixIsExpanded ==
    ASSUME NEW address \in Nat, NEW bits \in 0 .. AddressBits, AddressBits - bits <= MaxHostBits
    PROVE  ExpandPrefix(address, bits) =
              Masked(address, bits) + 1 .. Masked(address, bits) + TwoTo[AddressBits - bits] - 2
<1> DEFINE hostBits == AddressBits - bits
           size == TwoTo[hostBits]
           base == Masked(address, bits)
           limit == IF size < MaxHosts THEN size ELSE MaxHosts
<1>1. hostBits \in Nat /\ MaxHostBits \in Nat /\ MaxHosts = TwoTo[MaxHostBits]
  BY LanAssumption
<1>2. size \in Nat \ {0} /\ MaxHosts \in Nat \ {0}
  BY <1>1, TwoToFacts
<1>3. PICK q \in Nat \ {0} : MaxHosts = q * size
  BY <1>1, TwoToDivides
<1>4. limit = size
  BY <1>2, <1>3
<1>5. base = size * (address \div size) /\ address \div size \in Nat /\ base \in Nat
  BY <1>2, FirstOfBlock DEF Masked
<1>6. ~(hostBits > MaxHostBits)
  BY <1>1
<1> HIDE DEF hostBits
<1>7. ExpandPrefix(address, bits) = {a \in {base + i : i \in 1 .. limit - 2} : Masked(a, bits) = base}
  BY <1>6 DEF ExpandPrefix, hostBits
<1>8. ASSUME NEW i \in 1 .. size - 2 PROVE Masked(base + i, bits) = base
  <2>1. base + i \in Nat /\ base <= base + i /\ base + i < base + size
    BY <1>2, <1>5
  <2> QED
    BY <1>2, <1>5, <2>1, BlockIsOne DEF Masked, hostBits
<1> HIDE DEF base, size, limit
<1>9. {a \in {base + i : i \in 1 .. size - 2} : Masked(a, bits) = base} = base + 1 .. base + size - 2
  <2>1. ASSUME NEW a \in base + 1 .. base + size - 2
        PROVE  a - base \in 1 .. size - 2 /\ a = base + (a - base)
    BY <1>2, <1>5
  <2>2. ASSUME NEW i \in 1 .. size - 2
        PROVE  base + i \in base + 1 .. base + size - 2
    BY <1>2, <1>5
  <2> QED
    BY <1>8, <2>1, <2>2
<1> QED
  BY <1>4, <1>7, <1>9 DEF base, size, hostBits

(* Of every prefix that is not too large all hosts but the network and the      *)
(* broadcast address are scanned, for any width of addresses and any limit.     *)
THEOREM UsableHostsAreScanned == LanSpec => []ScansUsableHosts
<1> DEFINE Rows == scanTargets \in [Targets -> TargetRow]
<1>1. Rows => ScansUsableHosts
  <2>1. SUFFICES ASSUME Rows, NEW t \in Targets, AddressBits - scanTargets[t].bits <= MaxHostBits
        PROVE  LET row == scanTargets[t]
                   base == Masked(row.address, row.bits)
               IN  ExpandPrefix(row.address, row.bits)
                      = base + 1 .. base + TwoTo[AddressBits - row.bits] - 2
    BY DEF ScansUsableHosts
  <2>2. scanTargets[t] \in TargetRow
    BY <2>1
  <2>3. scanTargets[t].address \in Nat /\ scanTargets[t].bits \in 0 .. AddressBits
    <3>1. TwoTo[AddressBits] \in Nat
      BY TwoToFacts, LanAssumption
    <3> QED
      BY <2>2, <3>1 DEF TargetRow
  <2> QED
    BY <2>1, <2>3, PrefixIsExpanded
<1>2. LanInit => Rows
  BY TargetsKept
<1>3. Rows /\ [LanNext]_lanVars => Rows'
  BY TargetsKept
<1> QED
  BY <1>1, <1>2, <1>3, PTL DEF LanSpec

-----------------------------------------------------------------------------
(* The map: places by address *)

LEMMA LeastIsLeast ==
    ASSUME NEW S \in SUBSET Nat, S # {}
    PROVE  Min(S) \in S /\ \A y \in S : Min(S) <= y
<1>1. \E x \in S : \A y \in S : x <= y
  BY LeastNatural
<1> QED
  BY <1>1 DEF Min

LEMMA GreatestIsGreatest ==
    ASSUME NEW n \in Nat, NEW S \in SUBSET (0 .. n), S # {}
    PROVE  Max(S) \in S /\ \A y \in S : y <= Max(S)
<1> DEFINE T == {k \in 0 .. n : n - k \in S}
<1>1. ASSUME NEW y \in S PROVE n - y \in T
  <2>1. y \in 0 .. n /\ n - (n - y) = y
    OBVIOUS
  <2> QED
    BY <2>1
<1>2. T \in SUBSET Nat /\ T # {}
  <2>1. PICK y : y \in S
    OBVIOUS
  <2>2. n - y \in T
    BY <1>1, <2>1
  <2> QED
    BY <2>2
<1>3. PICK t \in T : \A u \in T : t <= u
  BY <1>2, LeastNatural
<1>4. ASSUME NEW y \in S PROVE n - t >= y
  <2>1. n - y \in T
    BY <1>1
  <2>2. t <= n - y
    BY <1>3, <2>1
  <2>3. t \in Nat /\ y \in Nat
    OBVIOUS
  <2> QED
    BY <2>2, <2>3
<1>5. \E x \in S : \A y \in S : x >= y
  BY <1>4
<1> QED
  BY <1>5 DEF Max

Addressable == 0 .. TwoTo[Width] - 1

LEMMA Blocks ==
    ASSUME NEW bits \in 0 .. Width
    PROVE  Block(bits) \in Nat \ {0}
<1>1. Width - bits \in Nat
  BY MapAssumption
<1> QED
  BY <1>1, TwoToFacts DEF Block

(* The block of a shorter prefix around an address is that around the block of  *)
(* a longer one.                                                                *)
LEMMA CoarserBlock ==
    ASSUME NEW a \in Nat, NEW coarse \in 0 .. Width, NEW fine \in 0 .. Width, coarse <= fine
    PROVE  Base(Base(a, fine), coarse) = Base(a, coarse)
<1> DEFINE B == Block(coarse)
           b == Block(fine)
<1>1. B \in Nat \ {0} /\ b \in Nat \ {0}
  BY Blocks
<1>2. PICK q \in Nat \ {0} : B = q * b
  <2>1. Width - fine \in Nat /\ Width - coarse \in Nat /\ Width - fine <= Width - coarse
    BY MapAssumption
  <2> QED
    BY <2>1, TwoToDivides DEF Block
<1> HIDE DEF B, b
<1>3. PICK x \in Nat : FirstOf(a, b) = b * x /\ b * x <= a /\ a < b * x + b
  BY <1>1, FirstOfBlock
<1>4. b * x \in Nat
  BY <1>1
<1>5. PICK y \in Nat : FirstOf(b * x, B) = B * y /\ B * y <= b * x /\ b * x < B * y + B
  BY <1>1, <1>4, FirstOfBlock
<1>6. a < B * y + B
  <2>1. B * y + B = b * (q * (y + 1))
    BY <1>1, <1>2
  <2>2. q * (y + 1) \in Nat
    OBVIOUS
  <2>3. x < q * (y + 1)
    <3>1. CASE q * (y + 1) <= x
      <4>1. b * (q * (y + 1)) <= b * x
        BY <1>1, <2>2, <3>1
      <4> QED
        BY <1>1, <1>4, <1>5, <2>1, <2>2, <4>1
    <3> QED
      BY <2>2, <3>1
  <2>4. b * x + b <= b * (q * (y + 1))
    <3>1. b * (x + 1) <= b * (q * (y + 1))
      BY <1>1, <2>2, <2>3
    <3> QED
      BY <1>1, <3>1
  <2> QED
    BY <1>1, <1>3, <1>4, <2>1, <2>2, <2>4
<1>7. B * y <= a
  BY <1>1, <1>3, <1>4, <1>5
<1>8. FirstOf(a, B) = B * y
  BY <1>1, <1>6, <1>7, BlockIsOne
<1> QED
  BY <1>3, <1>5, <1>8 DEF Base, B, b

(* A block of a shorter prefix holds the starts of two of a longer one.         *)
LEMMA TwoBlocksInside ==
    ASSUME NEW a \in Addressable, NEW coarse \in 0 .. Width, NEW fine \in 0 .. Width, coarse < fine
    PROVE  \E c, d \in Addressable :
              /\ Base(c, coarse) = Base(a, coarse) /\ Base(d, coarse) = Base(a, coarse)
              /\ Base(c, fine) # Base(d, fine)
<1> DEFINE B == Block(coarse)
           b == Block(fine)
           N == TwoTo[Width]
<1>1. B \in Nat \ {0} /\ b \in Nat \ {0} /\ N \in Nat \ {0}
  BY Blocks, TwoToFacts, MapAssumption
<1>2. Width - fine \in Nat /\ Width - coarse \in Nat /\ Width - fine < Width - coarse
      /\ Width - coarse <= Width /\ Width \in Nat
  BY MapAssumption
<1>3. PICK q \in Nat \ {0} : B = q * b /\ q >= 2
  BY <1>2, TwoToDivides DEF Block
<1>4. PICK r \in Nat \ {0} : N = r * B
  BY <1>2, TwoToDivides DEF Block
<1>5. a \in Nat /\ a < N
  BY <1>1 DEF Addressable
<1> HIDE DEF B, b, N
<1>6. PICK y \in Nat : FirstOf(a, B) = B * y /\ B * y <= a /\ a < B * y + B
  BY <1>1, <1>5, FirstOfBlock
<1>7. B * y \in Nat /\ B * y + B <= N
  <2>1. B * y \in Nat
    BY <1>1
  <2>2. y < r
    <3>1. CASE r <= y
      <4>1. B * r <= B * y
        BY <1>1, <3>1
      <4> QED
        BY <1>1, <1>4, <1>5, <1>6, <2>1, <4>1
    <3> QED
      BY <3>1
  <2>3. B * (y + 1) <= B * r
    BY <1>1, <2>2
  <2> QED
    BY <1>1, <1>4, <2>1, <2>3
<1>8. B >= 2 * b
  BY <1>1, <1>3
<1> DEFINE c == B * y
           d == B * y + b
<1>9. c \in Nat /\ d \in Nat /\ c \in 0 .. N - 1 /\ d \in 0 .. N - 1
  BY <1>1, <1>7, <1>8
<1>10. FirstOf(c, B) = B * y /\ FirstOf(d, B) = B * y
  BY <1>1, <1>7, <1>8, <1>9, BlockIsOne
<1>11. q * y \in Nat /\ c = b * (q * y) /\ q * y + 1 \in Nat /\ d = b * (q * y + 1)
  BY <1>1, <1>3
<1>12. FirstOf(c, b) = b * (q * y)
  <2>1. b * (q * y) <= c /\ c < b * (q * y) + b
    BY <1>1, <1>9, <1>11
  <2> QED
    BY <1>1, <1>9, <1>11, <2>1, BlockIsOne
<1>13. FirstOf(d, b) = b * (q * y + 1)
  <2>1. b * (q * y + 1) <= d /\ d < b * (q * y + 1) + b
    BY <1>1, <1>9, <1>11
  <2> QED
    BY <1>1, <1>9, <1>11, <2>1, BlockIsOne
<1>14. FirstOf(c, b) # FirstOf(d, b)
  BY <1>1, <1>9, <1>11, <1>12, <1>13
<1> QED
  BY <1>6, <1>9, <1>10, <1>14 DEF Base, B, b, N, Addressable

PlanOK ==
    /\ plan.subnets \in Seq(SubnetRow)
    /\ plan.devices \in [DOMAIN plan.devices -> Seq(Addressable)]

LEMMA SubnetTypes ==
    ASSUME PlanOK
    PROVE  /\ SubnetIds \in SUBSET Nat
           /\ \A i \in SubnetIds : Subnet(i).bits \in 0 .. Width /\ Subnet(i).address \in Addressable
           /\ Addressable \in SUBSET Nat
<1>1. TwoTo[Width] \in Nat
  BY TwoToFacts, MapAssumption
<1>2. Addressable \in SUBSET Nat
  BY <1>1 DEF Addressable
<1>3. SubnetIds \in SUBSET Nat /\ \A i \in SubnetIds : Subnet(i) \in SubnetRow
  BY DEF PlanOK, SubnetIds, Subnet
<1> QED
  BY <1>2, <1>3 DEF SubnetRow, Addressable

LEMMA ParentIsWider ==
    ASSUME PlanOK, NEW i \in SubnetIds, ParentSubnet(i) # Nobits
    PROVE  ParentSubnet(i) \in Wider(i)
<1>1. Wider(i) # {}
  BY DEF ParentSubnet
<1> DEFINE lengths == {Subnet(j).bits : j \in Wider(i)}
           narrowest == {j \in Wider(i) : \A k \in Wider(i) : Subnet(k).bits <= Subnet(j).bits}
<1>2. Wider(i) \in SUBSET SubnetIds
  BY DEF Wider
<1>3. lengths \in SUBSET (0 .. Width) /\ lengths # {}
  BY <1>1, <1>2, SubnetTypes
<1>4. Max(lengths) \in lengths /\ \A n \in lengths : n <= Max(lengths)
  BY <1>3, GreatestIsGreatest, MapAssumption
<1>5. narrowest # {} /\ narrowest \in SUBSET Nat
  BY <1>2, <1>4, SubnetTypes
<1>6. Min(narrowest) \in narrowest
  BY <1>5, LeastIsLeast
<1>7. ParentSubnet(i) = Min(narrowest)
  BY <1>1 DEF ParentSubnet
<1> QED
  BY <1>6, <1>7

LEMMA ParentsContain ==
    ASSUME PlanOK, NEW i \in SubnetIds, ParentSubnet(i) # Nobits
    PROVE  LET p == ParentSubnet(i)
           IN  /\ ParentSubnet(p) # i
               /\ \A a \in 0 .. TwoTo[Width] - 1 : Holds(Subnet(i), a) => Holds(Subnet(p), a)
               /\ \E a \in 0 .. TwoTo[Width] - 1 : Holds(Subnet(p), a) /\ ~Holds(Subnet(i), a)
<1> DEFINE p == ParentSubnet(i)
<1>1. /\ p \in SubnetIds /\ Subnet(p).bits < Subnet(i).bits
      /\ Holds(Subnet(p), Base(Subnet(i).address, Subnet(i).bits))
  BY ParentIsWider DEF Wider
<1>2. /\ Subnet(p).bits \in 0 .. Width /\ Subnet(p).address \in Addressable
      /\ Subnet(i).bits \in 0 .. Width /\ Subnet(i).address \in Addressable
      /\ Addressable \in SUBSET Nat /\ i \in Nat
  BY <1>1, SubnetTypes
<1>3. ParentSubnet(p) # i
  <2>1. ASSUME ParentSubnet(p) = i PROVE FALSE
    <3>1. i # Nobits
      BY <1>2, MapAssumption
    <3>2. i \in Wider(p)
      BY <1>1, <2>1, <3>1, ParentIsWider
    <3>3. Subnet(i).bits < Subnet(p).bits
      BY <3>2 DEF Wider
    <3> QED
      BY <1>1, <1>2, <3>3
  <2> QED
    BY <2>1
<1> HIDE DEF p
<1> DEFINE wide == Subnet(p).bits
           narrow == Subnet(i).bits
<1>10. /\ Subnet(i).address \in Nat
      /\ wide \in 0 .. Width /\ narrow \in 0 .. Width /\ wide <= narrow
      /\ \A a \in Addressable : a \in Nat
  <2>1. wide \in Int /\ narrow \in Int /\ wide < narrow
    BY <1>1, <1>2, MapAssumption
  <2>2. wide <= narrow
    BY <2>1
  <2>3. \A a \in Addressable : a \in Nat
    BY <1>2
  <2> HIDE DEF wide, narrow
  <2> QED
    BY <1>2, <2>2, <2>3 DEF wide, narrow
<1>4. Base(Subnet(i).address, wide) = Base(Subnet(p).address, wide)
  <2>1. Base(Base(Subnet(i).address, narrow), wide) = Base(Subnet(i).address, wide)
    BY <1>10, CoarserBlock
  <2> QED
    BY <1>1, <2>1 DEF Holds
<1>5. ASSUME NEW a \in Addressable, Holds(Subnet(i), a) PROVE Holds(Subnet(p), a)
  <2>1. Base(a, narrow) = Base(Subnet(i).address, narrow)
    BY <1>5 DEF Holds
  <2>2. Base(Base(a, narrow), wide) = Base(a, wide)
    BY <1>10, CoarserBlock
  <2>3. Base(Base(Subnet(i).address, narrow), wide) = Base(Subnet(i).address, wide)
    BY <1>10, CoarserBlock
  <2> QED
    BY <1>4, <2>1, <2>2, <2>3 DEF Holds
<1>6. \E a \in Addressable : Holds(Subnet(p), a) /\ ~Holds(Subnet(i), a)
  <2>1. PICK c, d \in Addressable :
          /\ Base(c, wide) = Base(Subnet(p).address, wide) /\ Base(d, wide) = Base(Subnet(p).address, wide)
          /\ Base(c, narrow) # Base(d, narrow)
    BY <1>1, <1>2, TwoBlocksInside
  <2> QED
    BY <2>1 DEF Holds
<1> QED
  BY <1>3, <1>5, <1>6 DEF Addressable, p

LEMMA DeviceIsAround ==
    ASSUME PlanOK, NEW d \in DOMAIN plan.devices
    PROVE  \/ DeviceSubnet(d) = Nobits /\ \A a \in AddressesOf(d) : Around(a) = {}
           \/ \E a \in AddressesOf(d) : DeviceSubnet(d) \in Around(a)
<1> DEFINE all == UNION {Around(a) : a \in AddressesOf(d)}
           lengths == {Subnet(i).bits : i \in all}
           best(k) == {i \in Around(Address(d)[k]) : Subnet(i).bits = Max(lengths)}
           bests == {k \in DOMAIN Address(d) : best(k) # {}}
<1>1. CASE all = {}
  BY <1>1 DEF DeviceSubnet
<1>2. CASE all # {}
  <2>1. all \in SUBSET SubnetIds
    BY DEF Around
  <2>2. lengths \in SUBSET (0 .. Width) /\ lengths # {}
    BY <1>2, <2>1, SubnetTypes
  <2>3. Max(lengths) \in lengths
    BY <2>2, GreatestIsGreatest, MapAssumption
  <2>4. bests # {}
    BY <2>3 DEF AddressesOf
  <2>5. DOMAIN Address(d) \in SUBSET Nat
    BY DEF PlanOK, Address
  <2>6. Min(bests) \in bests
    BY <2>4, <2>5, LeastIsLeast
  <2>7. best(Min(bests)) # {} /\ best(Min(bests)) \in SUBSET Nat
    BY <2>6, SubnetTypes DEF Around
  <2>10. Address(d)[Min(bests)] \in AddressesOf(d)
    BY <2>6 DEF AddressesOf
  <2>8. Min(best(Min(bests))) \in best(Min(bests))
    BY <2>7, LeastIsLeast
  <2>9. DeviceSubnet(d) = Min(best(Min(bests)))
    BY <1>2 DEF DeviceSubnet
  <2> QED
    BY <2>8, <2>9, <2>10
<1> QED
  BY <1>1, <1>2

LEMMA DevicesAreGrouped ==
    ASSUME PlanOK, NEW d \in DOMAIN plan.devices
    PROVE  LET i == DeviceSubnet(d)
           IN  /\ i = Nobits <=> \A a \in AddressesOf(d) : Around(a) = {}
               /\ Group(d) # Nobits =>
                     /\ Holds(Subnet(i), Group(d).base)
                     /\ Group(d).bits > Subnet(i).bits
                     /\ \E a \in AddressesOf(d) : Base(a, Group(d).bits) = Group(d).base
<1> DEFINE i == DeviceSubnet(d)
<1>1. i = Nobits <=> \A a \in AddressesOf(d) : Around(a) = {}
  <2>1. i \in Nat => i # Nobits
    BY MapAssumption
  <2>2. \A a : Around(a) \in SUBSET Nat
    BY SubnetTypes DEF Around
  <2> QED
    BY <2>1, <2>2, DeviceIsAround
<1>2. ASSUME Group(d) # Nobits
      PROVE  /\ Holds(Subnet(i), Group(d).base)
             /\ Group(d).bits > Subnet(i).bits
             /\ \E a \in AddressesOf(d) : Base(a, Group(d).bits) = Group(d).base
  <2> DEFINE bits == BucketBits(i)
             inside == {a \in AddressesOf(d) : Holds(Subnet(i), a)}
  <2>1. i # Nobits /\ bits # Nobits
    BY <1>2 DEF Group
  <2>2. PICK a \in AddressesOf(d) : i \in Around(a)
    BY <2>1, DeviceIsAround
  <2>3. i \in SubnetIds /\ a \in inside
    BY <2>2 DEF Around
  <2>4. Subnet(i).bits \in 0 .. Width /\ Subnet(i).address \in Nat /\ AddressesOf(d) \in SUBSET Nat
    <3>1. AddressesOf(d) \in SUBSET Addressable
      BY DEF PlanOK, AddressesOf, Address
    <3> QED
      BY <3>1, <2>3, SubnetTypes
  <2>5. bits \in 0 .. Width /\ bits > Subnet(i).bits
    BY <2>1, <2>4, MapAssumption DEF BucketBits
  <2>6. AddressIn(d, i) \in inside
    <3>1. Min(inside) \in inside
      BY <2>3, <2>4, LeastIsLeast
    <3> QED
      BY <3>1 DEF AddressIn
  <2>7. Group(d).bits = bits /\ Group(d).base = Base(AddressIn(d, i), bits)
    BY <2>1 DEF Group
  <2>8. Holds(Subnet(i), Group(d).base)
    <3>1. Base(Base(AddressIn(d, i), bits), Subnet(i).bits) = Base(AddressIn(d, i), Subnet(i).bits)
      BY <2>4, <2>5, <2>6, CoarserBlock
    <3> QED
      BY <2>6, <2>7, <3>1 DEF Holds
  <2> QED
    BY <2>5, <2>6, <2>7, <2>8
<1> QED
  BY <1>1, <1>2

LEMMA PlacesDoHold == PlanOK => PlacesHold
BY ParentsContain, DevicesAreGrouped DEF PlacesHold

-----------------------------------------------------------------------------
(* The map: infrastructure by LLDP *)

(* Ascending lists exactly the elements of a set.                               *)
LEMMA AscendingLists ==
    ASSUME NEW S \in SUBSET Nat, IsFiniteSet(S)
    PROVE  /\ Ascending(S) \in Seq(S) /\ Len(Ascending(S)) = Cardinality(S)
           /\ \A n \in S : \E i \in 1 .. Len(Ascending(S)) : Ascending(S)[i] = n
<1> DEFINE c == Cardinality(S)
           Below(n) == {m \in S : m < n}
           rank == [n \in S |-> Cardinality(Below(n))]
           places == 0 .. c - 1
<1>1. c \in Nat
  BY FS_CardinalityType
<1>2. ASSUME NEW n \in S
      PROVE  IsFiniteSet(Below(n)) /\ rank[n] \in Nat /\ rank[n] \in places
  <2>1. Below(n) \in SUBSET S /\ Below(n) # S
    OBVIOUS
  <2>2. IsFiniteSet(Below(n)) /\ Cardinality(Below(n)) <= c /\ Cardinality(Below(n)) # c
    BY <2>1, FS_Subset
  <2>3. Cardinality(Below(n)) \in Nat
    BY <2>2, FS_CardinalityType
  <2> QED
    BY <1>1, <2>2, <2>3
<1>3. ASSUME NEW n \in S, NEW m \in S, n < m PROVE rank[n] # rank[m]
  <2>0. n \in Nat /\ m \in Nat /\ \A k \in S : k \in Nat
    OBVIOUS
  <2>1. /\ \A k \in Below(n) : k \in Below(m)
        /\ n \in Below(m) /\ n \notin Below(n)
    BY <1>3, <2>0
  <2>2. Cardinality(Below(n)) # Cardinality(Below(m))
    <3>1. Below(n) \in SUBSET Below(m) /\ Below(n) # Below(m)
      BY <2>1
    <3>2. IsFiniteSet(Below(m))
      BY <1>2
    <3> HIDE DEF Below
    <3> QED
      BY <3>1, <3>2, FS_Subset
  <2> QED
    BY <2>2
<1>4. ASSUME NEW n \in S, NEW m \in S, rank[n] = rank[m] PROVE n = m
  <2>1. n \in Nat /\ m \in Nat
    OBVIOUS
  <2> QED
    BY <1>3, <1>4, <2>1
<1>5. rank \in Injection(S, places)
  <2>1. rank \in [S -> places]
    BY <1>2
  <2> QED
    BY <1>4, <2>1 DEF Injection, IsInjective
<1>6. IsFiniteSet(places) /\ Cardinality(places) = c
  <2> HIDE DEF c
  <2>1. 0 \in Int /\ c - 1 \in Int
    BY <1>1
  <2>2. IsFiniteSet(0 .. c - 1) /\ Cardinality(0 .. c - 1) = IF 0 > c - 1 THEN 0 ELSE (c - 1) - 0 + 1
    BY <2>1, FS_Interval
  <2> QED
    BY <1>1, <2>2
<1>7. rank \in Surjection(S, places)
  BY <1>5, <1>6, FS_Injection
<1>8. ASSUME NEW i \in 1 .. c PROVE \E n \in S : rank[n] = i - 1
  <2>1. i - 1 \in places
    BY <1>1
  <2> QED
    BY <1>7, <2>1 DEF Surjection
<1> DEFINE s == Ascending(S)
<1>9. s = [i \in 1 .. c |-> CHOOSE n \in S : Cardinality({m \in S : m < n}) = i - 1]
  BY DEF Ascending
<1>10. ASSUME NEW i \in 1 .. c PROVE s[i] \in S /\ rank[s[i]] = i - 1
  <2>1. s[i] = CHOOSE n \in S : Cardinality(Below(n)) = i - 1
    BY <1>9
  <2>2. \E n \in S : Cardinality(Below(n)) = i - 1
    BY <1>8
  <2>3. s[i] \in S /\ Cardinality(Below(s[i])) = i - 1
    BY <2>1, <2>2
  <2> QED
    BY <2>3
<1>11. s \in [1 .. c -> S]
  BY <1>9, <1>10
<1>12. s \in Seq(S) /\ Len(s) = c
  BY <1>1, <1>11
<1>13. ASSUME NEW n \in S PROVE \E i \in 1 .. Len(s) : s[i] = n
  <2>1. rank[n] + 1 \in 1 .. c /\ (rank[n] + 1) - 1 = rank[n]
    BY <1>1, <1>2
  <2>2. s[rank[n] + 1] \in S /\ rank[s[rank[n] + 1]] = rank[n]
    BY <1>10, <2>1
  <2>3. s[rank[n] + 1] = n
    BY <1>4, <2>2
  <2> QED
    BY <1>12, <2>1, <2>3
<1> QED
  BY <1>12, <1>13

ReportsOK == reports \in SUBSET LinkReport /\ IsFiniteSet(reports)

LEMMA NodesAreFinite ==
    ASSUME ReportsOK
    PROVE  /\ Nodes \in SUBSET Nat /\ IsFiniteSet(Nodes)
           /\ {r.from : r \in reports} \in SUBSET Nodes
<1>1. \A r \in reports : r.from \in Nat /\ r.to \in Nat
  BY DEF ReportsOK, LinkReport
<1> DEFINE F == {r.from : r \in reports}
           T == {r.to : r \in reports}
<1>2. IsFiniteSet(F)
  <2>1. [r \in reports |-> r.from] \in Surjection(reports, F)
    BY DEF Surjection
  <2> QED
    BY <2>1, FS_Surjection DEF ReportsOK
<1>3. IsFiniteSet(T)
  <2>1. [r \in reports |-> r.to] \in Surjection(reports, T)
    BY DEF Surjection
  <2> QED
    BY <2>1, FS_Surjection DEF ReportsOK
<1>4. Nodes = F \cup T
  BY DEF Nodes
<1> QED
  BY <1>1, <1>2, <1>3, <1>4, FS_Union

(* A cable is one link, whichever of its ends report it.                        *)
LEMMA CablesAreLinks ==
    ASSUME ReportsOK, NEW r \in reports
    PROVE  /\ r.from \in Nodes /\ r.to \in Nodes /\ r.from # r.to
           /\ r \in Links \/ Mirrored(r) \in Links
           /\ Mirrored(r) \in reports => ~(r \in Links /\ Mirrored(r) \in Links)
           /\ r # Mirrored(r)
           /\ r.to \in Neighbours(r.from)
           /\ r \in Between(r.from, r.to) \/ Mirrored(r) \in Between(r.from, r.to)
<1>1. /\ r = [from |-> r.from, port |-> r.port, to |-> r.to, toPort |-> r.toPort]
      /\ r.from \in Nat /\ r.to \in Nat /\ r.from # r.to
  BY DEF ReportsOK, LinkReport
<1>2. r.from \in Nodes /\ r.to \in Nodes
  BY DEF Nodes
<1> DEFINE m == Mirrored(r)
<1>3. m.from = r.to /\ m.to = r.from /\ m.port = r.toPort /\ m.toPort = r.port
  BY DEF Mirrored
<1>4. Mirrored(m) = r
  BY <1>1, <1>3 DEF Mirrored
<1>5. r.from < r.to \/ m.from < m.to
  BY <1>1, <1>3
<1>6. ~(r.from < r.to /\ m.from < m.to)
  BY <1>1, <1>3
<1> HIDE DEF m
<1>7. r \in Links \/ m \in Links
  BY <1>4, <1>5 DEF Links, m
<1>8. m \in reports => ~(r \in Links /\ m \in Links)
  BY <1>4, <1>6 DEF Links, m
<1>9. r \in Between(r.from, r.to) \/ m \in Between(r.from, r.to)
  BY <1>3, <1>7 DEF Between
<1>10. r.to \in Neighbours(r.from)
  BY <1>1, <1>2, <1>9 DEF Neighbours
<1>11. r # m
  BY <1>1, <1>3
<1> QED
  BY <1>1, <1>2, <1>7, <1>8, <1>9, <1>10, <1>11 DEF m

LEMMA NeighboursAreMutual ==
    ASSUME NEW n \in Nodes, NEW m \in Neighbours(n)
    PROVE  m \in Nodes /\ n \in Neighbours(m) /\ Between(n, m) = Between(m, n)
<1>1. Between(n, m) = Between(m, n)
  BY DEF Between
<1> QED
  BY <1>1 DEF Neighbours

-----------------------------------------------------------------------------
(* The search *)

Waiting(n) == \E i \in 1 .. Len(walk.queue) : walk.queue[i] = n
Finished == {n \in Visited : ~Waiting(n)}

WalkTypes ==
    /\ walk = [todo |-> walk.todo, queue |-> walk.queue, depth |-> walk.depth,
               parent |-> walk.parent, tree |-> walk.tree, cross |-> walk.cross]
    /\ walk.todo \in Seq(Nodes) /\ walk.queue \in Seq(Nodes)
    /\ Visited \in SUBSET Nodes
    /\ walk.depth \in [Visited -> Nat]
    /\ walk.parent \in [Visited -> Nodes \cup {Nobits}]
    /\ walk.tree \in SUBSET (Nodes \X Nodes)
    /\ walk.cross \in SUBSET Links

NothingForgotten ==
    \A n \in Nodes : n \in Visited \/ \E i \in 1 .. Len(walk.todo) : walk.todo[i] = n

ParentsNearer ==
    /\ \A m \in Visited :
          /\ walk.parent[m] = Nobits <=> walk.depth[m] = 0
          /\ walk.parent[m] # Nobits =>
                /\ walk.parent[m] \in Visited
                /\ walk.depth[m] = walk.depth[walk.parent[m]] + 1
                /\ <<walk.parent[m], m>> \in walk.tree
    /\ \A n, m \in Nodes : <<n, m>> \in walk.tree => m \in Visited /\ walk.parent[m] = n

(* The queue holds the nodes of one level and then those of the next.           *)
QueueByDepth ==
    /\ \A i \in 1 .. Len(walk.queue) :
          /\ walk.queue[i] \in Visited
          /\ walk.depth[walk.queue[i]] <= walk.depth[walk.queue[1]] + 1
    /\ \A i, j \in 1 .. Len(walk.queue) :
          i <= j => walk.depth[walk.queue[i]] <= walk.depth[walk.queue[j]]

(* What is behind the search: neighbours are visited, a level apart at most,    *)
(* none before one that still waits, and their links are shown.                 *)
FinishedAreDone ==
    \A n \in Finished : \A m \in Neighbours(n) :
        /\ m \in Visited
        /\ walk.depth[m] <= walk.depth[n] + 1
        /\ walk.depth[n] <= walk.depth[m] + 1
        /\ Waiting(m) => walk.depth[n] <= walk.depth[m]
        /\ walk.parent[n] = m \/ walk.parent[m] = n \/ Between(n, m) \subseteq walk.cross

WalkIInv ==
    ReportsOK /\ WalkTypes /\ NothingForgotten /\ ParentsNearer /\ QueueByDepth /\ FinishedAreDone

LEMMA WalkBegins == MapInit => WalkIInv
<1> SUFFICES ASSUME MapInit PROVE WalkIInv
  OBVIOUS
<1> DEFINE froms == {r.from : r \in reports}
<1>1. ReportsOK
  BY DEF MapInit, ReportsOK
<1>2. Nodes \in SUBSET Nat /\ IsFiniteSet(Nodes) /\ froms \in SUBSET Nodes
  BY <1>1, NodesAreFinite
<1>3. walk = [todo |-> walk.todo, queue |-> <<>>, depth |-> <<>>, parent |-> <<>>,
              tree |-> {}, cross |-> {}]
  BY DEF MapInit, WalkStart
<1>4. Visited = {} /\ Len(walk.queue) = 0 /\ walk.depth = <<>> /\ walk.parent = <<>>
  BY <1>3 DEF Visited
<1>5. walk.todo \in Seq(Nodes) /\ NothingForgotten
  <2>1. CASE reports = {}
    <3>1. walk.todo = <<>> /\ Nodes = {}
      BY <2>1 DEF MapInit, WalkStart, Nodes
    <3> QED
      BY <3>1 DEF NothingForgotten
  <2>2. CASE reports # {}
    <3>1. walk.todo = Ascending(Roots) \o Ascending(Nodes)
      BY <2>2 DEF MapInit, WalkStart
    <3>2. Roots \in SUBSET Nodes
      <4>1. froms # {} /\ froms \in SUBSET Nat
        BY <1>2, <2>2
      <4>2. Min(froms) \in froms
        BY <4>1, LeastIsLeast
      <4> QED
        BY <1>2, <4>2 DEF Roots, MapInit
    <3>3. Roots \in SUBSET Nat /\ IsFiniteSet(Roots)
      BY <1>2, <3>2, FS_Subset
    <3>4. Ascending(Roots) \in Seq(Nodes)
      <4>1. Ascending(Roots) \in Seq(Roots)
        BY <3>3, AscendingLists
      <4> QED
        BY <3>2, <4>1
    <3>5. Ascending(Nodes) \in Seq(Nodes) /\ \A n \in Nodes : \E i \in 1 .. Len(Ascending(Nodes)) : Ascending(Nodes)[i] = n
      BY <1>2, AscendingLists
    <3>6. walk.todo \in Seq(Nodes)
      BY <3>1, <3>4, <3>5
    <3>7. ASSUME NEW n \in Nodes PROVE \E i \in 1 .. Len(walk.todo) : walk.todo[i] = n
      <4>1. PICK i \in 1 .. Len(Ascending(Nodes)) : Ascending(Nodes)[i] = n
        BY <3>5
      <4> DEFINE k == Len(Ascending(Roots)) + i
      <4>2. k \in 1 .. Len(walk.todo) /\ walk.todo[k] = n
        BY <3>1, <3>4, <3>5, <4>1
      <4> QED
        BY <4>2
    <3> QED
      BY <3>6, <3>7 DEF NothingForgotten
  <2> QED
    BY <2>1, <2>2
<1>6. WalkTypes
  <2>1. <<>> \in [{} -> Nat] /\ <<>> \in [{} -> Nodes \cup {Nobits}]
    OBVIOUS
  <2>2. walk.queue = <<>> /\ walk.tree = {} /\ walk.cross = {}
    BY <1>3
  <2>3. walk = [todo |-> walk.todo, queue |-> walk.queue, depth |-> walk.depth,
                parent |-> walk.parent, tree |-> walk.tree, cross |-> walk.cross]
    BY <1>3, <1>4, <2>2
  <2> QED
    BY <1>4, <1>5, <2>1, <2>2, <2>3 DEF WalkTypes
<1>7. ParentsNearer /\ QueueByDepth /\ FinishedAreDone
  BY <1>3, <1>4 DEF ParentsNearer, QueueByDepth, FinishedAreDone, Finished
<1> QED
  BY <1>1, <1>5, <1>6, <1>7 DEF WalkIInv

LEMMA StartKeeps ==
    ASSUME WalkIInv, Start
    PROVE  WalkIInv'
<1> USE DEF WalkIInv
<1>1. walk.queue = <<>> /\ walk.todo # <<>> /\ UNCHANGED <<plan, reports, marked>>
  BY DEF Start
<1>0. PICK n : n = Head(walk.todo)
  OBVIOUS
<1>2. n \in Nodes /\ n \in Nat /\ n # Nobits
  BY <1>0, <1>1, NodesAreFinite, MapAssumption DEF WalkTypes
<1>3. /\ ReportsOK' /\ Nodes' = Nodes /\ Links' = Links
      /\ \A a : Neighbours(a)' = Neighbours(a)
      /\ \A a, b : Between(a, b)' = Between(a, b)
  BY <1>1 DEF ReportsOK, Nodes, Links, Neighbours, Between
<1>4. Finished = Visited /\ \A a : ~Waiting(a)
  BY <1>1 DEF Finished, Waiting
<1>5. /\ Tail(walk.todo) \in Seq(Nodes)
      /\ \A i \in 1 .. Len(walk.todo) : i # 1 =>
            i - 1 \in 1 .. Len(Tail(walk.todo)) /\ Tail(walk.todo)[i - 1] = walk.todo[i]
      /\ n = walk.todo[1]
  <2>1. walk.todo \in Seq(Nodes) /\ walk.todo # <<>>
    BY <1>1 DEF WalkTypes
  <2>2. Len(walk.todo) \in Nat /\ Len(Tail(walk.todo)) = Len(walk.todo) - 1
    BY <2>1
  <2>3. ASSUME NEW i \in 1 .. Len(walk.todo), i # 1
        PROVE  i - 1 \in 1 .. Len(Tail(walk.todo)) /\ Tail(walk.todo)[i - 1] = walk.todo[i]
    <3>1. i - 1 \in 1 .. Len(walk.todo) - 1 /\ (i - 1) + 1 = i
      BY <2>2, <2>3
    <3> QED
      BY <2>1, <2>2, <3>1
  <2> QED
    BY <1>0, <2>1, <2>3
<1>6. CASE n \in Visited
  <2>1. walk' = [walk EXCEPT !.todo = Tail(@)]
    BY <1>0, <1>6 DEF Start
  <2>2. walk' = [todo |-> Tail(walk.todo), queue |-> walk.queue, depth |-> walk.depth,
                 parent |-> walk.parent, tree |-> walk.tree, cross |-> walk.cross]
    BY <2>1 DEF WalkTypes
  <2>3. /\ walk'.todo = Tail(walk.todo) /\ UNCHANGED <<walk.queue, walk.depth, walk.parent, walk.tree, walk.cross>>
        /\ Visited' = Visited
    BY <2>2 DEF Visited
  <2>4. WalkTypes'
    BY <1>3, <1>5, <2>2, <2>3 DEF WalkTypes
  <2>5. NothingForgotten'
    <3>1. ASSUME NEW a \in Nodes, a \notin Visited'
          PROVE  \E i \in 1 .. Len(walk'.todo) : walk'.todo[i] = a
      <4>1. PICK i \in 1 .. Len(walk.todo) : walk.todo[i] = a
        BY <2>3, <3>1 DEF NothingForgotten
      <4>2. i # 1
        BY <1>5, <1>6, <2>3, <3>1, <4>1
      <4> QED
        BY <1>5, <2>3, <4>1, <4>2
    <3> QED
      BY <1>3, <3>1 DEF NothingForgotten
  <2>6. ParentsNearer' /\ QueueByDepth'
    BY <1>3, <2>3 DEF ParentsNearer, QueueByDepth
  <2>7. FinishedAreDone'
    BY <1>3, <2>3 DEF FinishedAreDone, Finished, Waiting
  <2> QED
    BY <1>3, <2>4, <2>5, <2>6, <2>7
<1>7. CASE n \notin Visited
  <2> DEFINE seen == Visited \cup {n}
             depth == [m \in seen |-> IF m = n THEN 0 ELSE walk.depth[m]]
             parent == [m \in seen |-> IF m = n THEN Nobits ELSE walk.parent[m]]
  <2>1. walk' = [walk EXCEPT !.todo = Tail(@), !.queue = <<n>>, !.depth = depth, !.parent = parent]
    BY <1>0, <1>7 DEF Start
  <2>2. walk' = [todo |-> Tail(walk.todo), queue |-> <<n>>, depth |-> depth,
                 parent |-> parent, tree |-> walk.tree, cross |-> walk.cross]
    BY <2>1 DEF WalkTypes
  <2>3. /\ walk'.todo = Tail(walk.todo) /\ walk'.queue = <<n>> /\ walk'.depth = depth
        /\ walk'.parent = parent /\ walk'.tree = walk.tree /\ walk'.cross = walk.cross
        /\ Visited' = seen
    BY <2>2 DEF Visited
  <2>4. /\ \A m \in Visited : walk'.depth[m] = walk.depth[m] /\ walk'.parent[m] = walk.parent[m]
        /\ walk'.depth[n] = 0 /\ walk'.parent[n] = Nobits
    BY <1>7, <2>3
  <2>5. Len(walk'.queue) = 1 /\ walk'.queue[1] = n /\ walk'.queue \in Seq(Nodes)
    BY <1>2, <2>3
  <2>6. /\ walk'.depth \in [Visited' -> Nat]
        /\ walk'.parent \in [Visited' -> Nodes \cup {Nobits}]
    BY <2>3 DEF WalkTypes
  <2> HIDE DEF seen, depth, parent
  <2>7. WalkTypes'
    <3>1. Visited' \in SUBSET Nodes
      BY <1>2, <2>3 DEF WalkTypes, seen
    <3>2. walk' = [todo |-> walk'.todo, queue |-> walk'.queue, depth |-> walk'.depth,
                   parent |-> walk'.parent, tree |-> walk'.tree, cross |-> walk'.cross]
      BY <2>2, <2>3
    <3> QED
      BY <1>3, <1>5, <2>3, <2>5, <2>6, <3>1, <3>2 DEF WalkTypes
  <2>8. NothingForgotten'
    <3>1. n \in Visited' /\ Visited \subseteq Visited'
      BY <2>3 DEF seen
    <3>2. ASSUME NEW a \in Nodes, a \notin Visited'
          PROVE  \E i \in 1 .. Len(walk'.todo) : walk'.todo[i] = a
      <4>1. PICK i \in 1 .. Len(walk.todo) : walk.todo[i] = a
        BY <3>1, <3>2 DEF NothingForgotten
      <4>2. i # 1
        BY <1>5, <3>1, <3>2, <4>1
      <4> QED
        BY <1>5, <2>3, <4>1, <4>2
    <3> QED
      BY <1>3, <3>2 DEF NothingForgotten
  <2>9. ParentsNearer'
    <3>1. Visited' = Visited \cup {n} /\ Visited \in SUBSET Nodes
      BY <2>3 DEF seen, WalkTypes
    <3>2. ASSUME NEW m \in Visited'
          PROVE  /\ walk'.parent[m] = Nobits <=> walk'.depth[m] = 0
                 /\ walk'.parent[m] # Nobits =>
                       /\ walk'.parent[m] \in Visited'
                       /\ walk'.depth[m] = walk'.depth[walk'.parent[m]] + 1
                       /\ <<walk'.parent[m], m>> \in walk'.tree
      BY <2>3, <2>4, <3>1 DEF ParentsNearer
    <3>3. ASSUME NEW a \in Nodes, NEW m \in Nodes, <<a, m>> \in walk'.tree
          PROVE  m \in Visited' /\ walk'.parent[m] = a
      BY <2>3, <2>4, <3>1, <3>3 DEF ParentsNearer
    <3> QED
      BY <1>3, <3>2, <3>3 DEF ParentsNearer
  <2>10. QueueByDepth'
    <3>1. \A i \in 1 .. Len(walk'.queue) : i = 1
      BY <2>5
    <3>2. walk'.queue[1] \in Visited'
      BY <2>3, <2>5 DEF seen
    <3> QED
      BY <2>4, <2>5, <3>1, <3>2 DEF QueueByDepth
  <2>11. FinishedAreDone'
    <3>1. Waiting(n)'
      BY <2>5 DEF Waiting
    <3>2. ASSUME NEW m, Waiting(m)' PROVE m = n
      BY <2>5, <3>2 DEF Waiting
    <3>3. ASSUME NEW a \in Finished', NEW m \in Neighbours(a)
          PROVE  /\ m \in Visited'
                 /\ walk'.depth[m] <= walk'.depth[a] + 1
                 /\ walk'.depth[a] <= walk'.depth[m] + 1
                 /\ ~Waiting(m)'
                 /\ walk'.parent[a] = m \/ walk'.parent[m] = a \/ Between(a, m) \subseteq walk'.cross
      <4>1. a \in Visited
        BY <2>3, <3>1 DEF Finished, seen
      <4>2. m \in Visited
        BY <1>4, <4>1 DEF FinishedAreDone
      <4>3. m # n
        BY <1>7, <4>2
      <4> QED
        BY <1>4, <2>3, <2>4, <3>2, <4>1, <4>2, <4>3 DEF FinishedAreDone, seen
    <3> QED
      BY <1>3, <3>3 DEF FinishedAreDone
  <2> QED
    BY <1>3, <2>7, <2>8, <2>9, <2>10, <2>11
<1> QED
  BY <1>6, <1>7

(* What one turn of the loop does to the fields of walk.                        *)
LEMMA VisitFields ==
    ASSUME WalkIInv, Visit
    PROVE  \E n \in Visited, fresh \in SUBSET Nodes :
              /\ fresh = Neighbours(n) \ Visited
              /\ walk.queue # <<>> /\ walk.queue[1] = n
              /\ walk' = [todo |-> walk.todo, queue |-> walk'.queue, depth |-> walk'.depth,
                          parent |-> walk'.parent, tree |-> walk'.tree, cross |-> walk'.cross]
              /\ walk'.queue = Tail(walk.queue) \o Ascending(fresh)
              /\ Visited' = Visited \cup fresh
              /\ walk'.depth = [m \in Visited \cup fresh |->
                                   IF m \in fresh THEN walk.depth[n] + 1 ELSE walk.depth[m]]
              /\ walk'.parent = [m \in Visited \cup fresh |->
                                    IF m \in fresh THEN n ELSE walk.parent[m]]
              /\ walk'.tree = walk.tree \cup {<<n, m>> : m \in fresh}
              /\ walk'.cross = walk.cross \cup
                     UNION {Between(n, m) : m \in {m \in Neighbours(n) \cap Visited :
                                                       walk.parent[n] # m /\ walk.parent[m] # n}}
<1> USE DEF WalkIInv
<1>1. walk.queue # <<>> /\ walk.queue \in Seq(Nodes)
  BY DEF Visit, WalkTypes
<1>2. PICK n : n = Head(walk.queue)
  OBVIOUS
<1>3. n = walk.queue[1] /\ 1 \in 1 .. Len(walk.queue)
  BY <1>1, <1>2
<1>4. n \in Visited
  BY <1>3 DEF QueueByDepth
<1>5. PICK fresh : fresh = Neighbours(n) \ Visited
  OBVIOUS
<1>6. fresh \in SUBSET Nodes
  BY <1>5 DEF Neighbours
<1>7. PICK others : others = UNION {Between(n, m) : m \in {m \in Neighbours(n) \cap Visited :
                                             walk.parent[n] # m /\ walk.parent[m] # n}}
  OBVIOUS
<1>8. walk' = [walk EXCEPT
               !.queue = Tail(@) \o Ascending(fresh),
               !.depth = [m \in Visited \cup fresh |-> IF m \in fresh THEN @[n] + 1 ELSE @[m]],
               !.parent = [m \in Visited \cup fresh |-> IF m \in fresh THEN n ELSE @[m]],
               !.tree = @ \cup {<<n, m>> : m \in fresh},
               !.cross = @ \cup others]
  BY <1>2, <1>5, <1>7 DEF Visit, Queued
<1>9. walk' = [todo |-> walk.todo,
               queue |-> Tail(walk.queue) \o Ascending(fresh),
               depth |-> [m \in Visited \cup fresh |->
                            IF m \in fresh THEN walk.depth[n] + 1 ELSE walk.depth[m]],
               parent |-> [m \in Visited \cup fresh |-> IF m \in fresh THEN n ELSE walk.parent[m]],
               tree |-> walk.tree \cup {<<n, m>> : m \in fresh},
               cross |-> walk.cross \cup others]
  BY <1>8 DEF WalkTypes
<1>10. Visited' = Visited \cup fresh
  BY <1>9 DEF Visited
<1> QED
  BY <1>1, <1>3, <1>4, <1>5, <1>6, <1>7, <1>9, <1>10

(* What the queue holds after a turn: what it held but for its head, and then   *)
(* the neighbours that were not visited.                                        *)
LEMMA QueueAfterVisit ==
    ASSUME NEW q \in Seq(Nodes), q # <<>>, NEW fresh \in SUBSET Nodes, ReportsOK
    PROVE  LET new == Tail(q) \o Ascending(fresh)
               left == Len(q) - 1
           IN  /\ new \in Seq(Nodes)
               /\ left \in Nat /\ Len(new) \in Nat /\ left <= Len(new)
               /\ \A i \in 1 .. left : i + 1 \in 1 .. Len(q) /\ new[i] = q[i + 1]
               /\ \A i \in 1 .. Len(new) : i > left => new[i] \in fresh
               /\ \A m \in fresh : \E i \in 1 .. Len(new) : new[i] = m
<1>1. fresh \in SUBSET Nat /\ IsFiniteSet(fresh)
  BY NodesAreFinite, FS_Subset
<1>2. PICK asc : asc = Ascending(fresh)
  OBVIOUS
<1>3. asc \in Seq(fresh) /\ \A n \in fresh : \E i \in 1 .. Len(asc) : asc[i] = n
  BY <1>1, <1>2, AscendingLists
<1>4. PICK tail : tail = Tail(q)
  OBVIOUS
<1>5. /\ tail \in Seq(Nodes) /\ Len(tail) = Len(q) - 1 /\ Len(q) \in Nat /\ Len(q) >= 1
      /\ \A i \in 1 .. Len(q) - 1 : tail[i] = q[i + 1]
  BY <1>4
<1>6. PICK new : new = tail \o asc
  OBVIOUS
<1>7. asc \in Seq(Nodes)
  BY <1>3
<1>8. /\ new \in Seq(Nodes) /\ Len(new) = Len(tail) + Len(asc)
      /\ \A i \in 1 .. Len(tail) : new[i] = tail[i]
      /\ \A j \in 1 .. Len(asc) : new[Len(tail) + j] = asc[j]
  <2>1. new \in Seq(Nodes) /\ Len(new) = Len(tail) + Len(asc)
    BY <1>5, <1>6, <1>7, ConcatProperties
  <2>2. Len(tail) \in Nat /\ Len(asc) \in Nat
    BY <1>5, <1>7
  <2>3. ASSUME NEW i \in 1 .. Len(tail) PROVE new[i] = tail[i]
    BY <1>5, <1>6, <1>7, <2>2
  <2>4. ASSUME NEW j \in 1 .. Len(asc) PROVE new[Len(tail) + j] = asc[j]
    <3>1. Len(tail) + j \in 1 .. Len(tail) + Len(asc) /\ Len(tail) + j > Len(tail)
          /\ (Len(tail) + j) - Len(tail) = j
      BY <2>2
    <3> QED
      BY <1>5, <1>6, <1>7, <2>2, <3>1
  <2> QED
    BY <2>1, <2>3, <2>4
<1>9. Len(asc) \in Nat
  BY <1>7
<1>10. ASSUME NEW i \in 1 .. Len(new), i > Len(q) - 1 PROVE new[i] \in fresh
  <2>1. i - Len(tail) \in 1 .. Len(asc) /\ Len(tail) + (i - Len(tail)) = i
    BY <1>5, <1>8, <1>9, <1>10
  <2>2. new[i] = asc[i - Len(tail)]
    BY <1>8, <2>1
  <2> QED
    BY <1>3, <2>1, <2>2
<1>11. ASSUME NEW m \in fresh PROVE \E i \in 1 .. Len(new) : new[i] = m
  <2>1. PICK j \in 1 .. Len(asc) : asc[j] = m
    BY <1>3
  <2>2. Len(tail) + j \in 1 .. Len(new) /\ new[Len(tail) + j] = m
    BY <1>5, <1>8, <1>9, <2>1
  <2> QED
    BY <2>2
<1>12. \A i \in 1 .. Len(q) - 1 : i + 1 \in 1 .. Len(q) /\ new[i] = q[i + 1]
  BY <1>5, <1>8
<1>13. Len(q) - 1 \in Nat /\ Len(new) \in Nat /\ Len(q) - 1 <= Len(new)
  BY <1>5, <1>8, <1>9
<1>14. new = Tail(q) \o Ascending(fresh)
  BY <1>2, <1>4, <1>6
<1> QED
  BY <1>8, <1>10, <1>11, <1>12, <1>13, <1>14

LEMMA VisitKeeps ==
    ASSUME WalkIInv, Visit
    PROVE  WalkIInv'
<1> USE DEF WalkIInv
<1>1. PICK n \in Visited, fresh \in SUBSET Nodes :
        /\ fresh = Neighbours(n) \ Visited
        /\ walk.queue # <<>> /\ walk.queue[1] = n
        /\ walk' = [todo |-> walk.todo, queue |-> walk'.queue, depth |-> walk'.depth,
                    parent |-> walk'.parent, tree |-> walk'.tree, cross |-> walk'.cross]
        /\ walk'.queue = Tail(walk.queue) \o Ascending(fresh)
        /\ Visited' = Visited \cup fresh
        /\ walk'.depth = [m \in Visited \cup fresh |->
                             IF m \in fresh THEN walk.depth[n] + 1 ELSE walk.depth[m]]
        /\ walk'.parent = [m \in Visited \cup fresh |->
                              IF m \in fresh THEN n ELSE walk.parent[m]]
        /\ walk'.tree = walk.tree \cup {<<n, m>> : m \in fresh}
        /\ walk'.cross = walk.cross \cup
               UNION {Between(n, m) : m \in {m \in Neighbours(n) \cap Visited :
                                                 walk.parent[n] # m /\ walk.parent[m] # n}}
  BY VisitFields
<1>2. /\ ReportsOK' /\ Nodes' = Nodes /\ Links' = Links
      /\ \A a : Neighbours(a)' = Neighbours(a)
      /\ \A a, b : Between(a, b)' = Between(a, b)
  BY DEF Visit, ReportsOK, Nodes, Links, Neighbours, Between
<1>3. n \in Nodes /\ n # Nobits /\ Visited \in SUBSET Nodes /\ walk.depth \in [Visited -> Nat]
  BY NodesAreFinite, MapAssumption DEF WalkTypes
<1>4. /\ \A m \in Visited : walk'.depth[m] = walk.depth[m] /\ walk'.parent[m] = walk.parent[m]
      /\ \A m \in fresh : walk'.depth[m] = walk.depth[n] + 1 /\ walk'.parent[m] = n
      /\ \A m \in fresh : m \notin Visited
  BY <1>1
<1>5. PICK q \in Seq(Nodes) : q = walk.queue
  BY DEF WalkTypes
<1>6. PICK left \in Nat : left = Len(q) - 1
  BY <1>1, <1>5
<1>7. /\ walk'.queue \in Seq(Nodes) /\ Len(walk'.queue) \in Nat /\ left <= Len(walk'.queue)
      /\ \A i \in 1 .. left : i + 1 \in 1 .. Len(q) /\ walk'.queue[i] = q[i + 1]
      /\ \A i \in 1 .. Len(walk'.queue) : i > left => walk'.queue[i] \in fresh
      /\ \A m \in fresh : \E i \in 1 .. Len(walk'.queue) : walk'.queue[i] = m
  <2>1. PICK new : new = Tail(q) \o Ascending(fresh)
    OBVIOUS
  <2>2. walk'.queue = new /\ q # <<>>
    BY <1>1, <1>5, <2>1
  <2>3. /\ new \in Seq(Nodes) /\ Len(new) \in Nat /\ left <= Len(new)
        /\ \A i \in 1 .. left : i + 1 \in 1 .. Len(q) /\ new[i] = q[i + 1]
        /\ \A i \in 1 .. Len(new) : i > left => new[i] \in fresh
        /\ \A m \in fresh : \E i \in 1 .. Len(new) : new[i] = m
    <3>1. ReportsOK
      OBVIOUS
    <3>2. LET n1 == Tail(q) \o Ascending(fresh)
              left1 == Len(q) - 1
          IN  /\ n1 \in Seq(Nodes)
              /\ left1 \in Nat /\ Len(n1) \in Nat /\ left1 <= Len(n1)
              /\ \A i \in 1 .. left1 : i + 1 \in 1 .. Len(q) /\ n1[i] = q[i + 1]
              /\ \A i \in 1 .. Len(n1) : i > left1 => n1[i] \in fresh
              /\ \A m \in fresh : \E i \in 1 .. Len(n1) : n1[i] = m
      <4> HIDE DEF WalkIInv
      <4> QED
        BY <2>2, <3>1, QueueAfterVisit
    <3> QED
      BY <1>6, <2>1, <3>2
  <2> QED
    BY <2>2, <2>3
<1>8. \A i \in 1 .. Len(walk'.queue) : i \in 1 .. left \/ i > left
  BY <1>6, <1>7
<1>9. /\ Len(q) \in Nat /\ 1 \in 1 .. Len(q) /\ q[1] = n
      /\ \A i \in 1 .. Len(q) : q[i] \in Visited /\ walk.depth[q[i]] <= walk.depth[n] + 1
      /\ \A i, j \in 1 .. Len(q) : i <= j => walk.depth[q[i]] <= walk.depth[q[j]]
      /\ \A i \in 1 .. Len(q) : walk.depth[n] <= walk.depth[q[i]]
  <2>1. Len(q) \in Nat /\ 1 \in 1 .. Len(q) /\ q[1] = n
    BY <1>1, <1>5, <1>6
  <2>2. \A i, j \in 1 .. Len(q) : i <= j => walk.depth[q[i]] <= walk.depth[q[j]]
    BY <1>5 DEF QueueByDepth
  <2>3. \A i \in 1 .. Len(q) : 1 <= i
    BY <2>1
  <2>4. \A i \in 1 .. Len(q) : walk.depth[n] <= walk.depth[q[i]]
    BY <2>1, <2>2, <2>3
  <2> QED
    BY <1>5, <2>1, <2>2, <2>4 DEF QueueByDepth
<1>10. WalkTypes'
  <2>1. walk'.todo = walk.todo
    BY <1>1
  <2>2. Visited' \in SUBSET Nodes
    BY <1>1, <1>3
  <2>3. walk'.depth \in [Visited' -> Nat]
    <3>1. walk.depth[n] + 1 \in Nat
      BY <1>3
    <3> QED
      BY <1>1, <1>3, <3>1
  <2>4. walk'.parent \in [Visited' -> Nodes \cup {Nobits}]
    BY <1>1, <1>3 DEF WalkTypes
  <2>5. walk'.tree \in SUBSET (Nodes \X Nodes)
    BY <1>1, <1>3 DEF WalkTypes
  <2>6. walk'.cross \in SUBSET Links
    <3>1. \A m : Between(n, m) \in SUBSET Links
      BY DEF Between
    <3> QED
      BY <1>1, <3>1 DEF WalkTypes
  <2>7. walk' = [todo |-> walk'.todo, queue |-> walk'.queue, depth |-> walk'.depth,
                 parent |-> walk'.parent, tree |-> walk'.tree, cross |-> walk'.cross]
    BY <1>1, <2>1
  <2> QED
    BY <1>2, <1>7, <2>1, <2>2, <2>3, <2>4, <2>5, <2>6, <2>7 DEF WalkTypes
<1>11. NothingForgotten'
  <2>1. walk'.todo = walk.todo
    BY <1>1
  <2> QED
    BY <1>1, <1>2, <2>1 DEF NothingForgotten
<1>12. ParentsNearer'
  <2>1. ASSUME NEW m \in Visited'
        PROVE  /\ walk'.parent[m] = Nobits <=> walk'.depth[m] = 0
               /\ walk'.parent[m] # Nobits =>
                     /\ walk'.parent[m] \in Visited'
                     /\ walk'.depth[m] = walk'.depth[walk'.parent[m]] + 1
                     /\ <<walk'.parent[m], m>> \in walk'.tree
    <3>1. CASE m \in Visited
      BY <1>1, <1>4, <3>1 DEF ParentsNearer
    <3>2. CASE m \in fresh
      <4>1. walk'.depth[m] # 0 /\ walk'.depth[m] = walk'.depth[n] + 1 /\ walk'.parent[m] = n
        BY <1>3, <1>4, <3>2
      <4>2. <<n, m>> \in walk'.tree
        BY <1>1, <3>2
      <4> QED
        BY <1>1, <1>3, <4>1, <4>2
    <3> QED
      BY <1>1, <2>1, <3>1, <3>2
  <2>2. ASSUME NEW a \in Nodes, NEW m \in Nodes, <<a, m>> \in walk'.tree
        PROVE  m \in Visited' /\ walk'.parent[m] = a
    <3>1. CASE <<a, m>> \in walk.tree
      BY <1>1, <1>4, <3>1 DEF ParentsNearer
    <3>2. CASE <<a, m>> \in {<<n, k>> : k \in fresh}
      BY <1>1, <1>4, <3>2
    <3> QED
      BY <1>1, <2>2, <3>1, <3>2
  <2> QED
    BY <1>2, <2>1, <2>2 DEF ParentsNearer
<1>13. QueueByDepth'
  <2> DEFINE new == walk'.queue
             d == walk'.depth
  <2>1. ASSUME NEW i \in 1 .. Len(new)
        PROVE  /\ new[i] \in Visited' /\ d[new[i]] \in Nat
               /\ walk.depth[n] <= d[new[i]] /\ d[new[i]] <= walk.depth[n] + 1
    <3>0. walk.depth[n] \in Nat
      BY <1>3
    <3>1. CASE i \in 1 .. left
      <4>1. new[i] = q[i + 1] /\ i + 1 \in 1 .. Len(q)
        BY <1>7, <3>1
      <4>2. new[i] \in Visited /\ d[new[i]] = walk.depth[new[i]] /\ walk.depth[new[i]] \in Nat
        BY <1>3, <1>4, <1>9, <4>1
      <4> QED
        BY <1>1, <1>9, <4>1, <4>2
    <3>2. CASE i > left
      <4>1. new[i] \in fresh
        BY <1>7, <3>2
      <4>2. d[new[i]] = walk.depth[n] + 1
        BY <1>4, <4>1
      <4> QED
        BY <1>1, <3>0, <4>1, <4>2
    <3> QED
      BY <1>8, <3>1, <3>2
  <2>2. ASSUME NEW i \in 1 .. Len(new) PROVE d[new[i]] <= d[new[1]] + 1
    <3>1. 1 \in 1 .. Len(new)
      BY <1>7
    <3> QED
      BY <1>3, <2>1, <3>1
  <2>3. ASSUME NEW i \in 1 .. Len(new), NEW j \in 1 .. Len(new), i <= j
        PROVE  d[new[i]] <= d[new[j]]
    <3>1. CASE j > left
      <4>1. d[new[j]] = walk.depth[n] + 1
        BY <1>4, <1>7, <3>1
      <4> QED
        BY <2>1, <4>1
    <3>2. CASE j \in 1 .. left
      <4>1. i \in 1 .. left
        BY <2>3, <3>2
      <4>2. /\ new[i] = q[i + 1] /\ new[j] = q[j + 1] /\ i + 1 \in 1 .. Len(q) /\ j + 1 \in 1 .. Len(q)
            /\ i + 1 <= j + 1
        BY <1>7, <2>3, <3>2, <4>1
      <4> QED
        BY <1>4, <1>9, <4>2
    <3> QED
      BY <1>8, <3>1, <3>2
  <2> QED
    BY <2>1, <2>2, <2>3 DEF QueueByDepth
<1>14. FinishedAreDone'
  <2>1. ASSUME NEW m \in fresh PROVE Waiting(m)'
    BY <1>7, <2>1 DEF Waiting
  <2>2. ASSUME NEW m \in Visited, Waiting(m)' PROVE Waiting(m)
    <3>1. PICK i \in 1 .. Len(walk'.queue) : walk'.queue[i] = m
      BY <2>2 DEF Waiting
    <3>2. i \in 1 .. left
      BY <1>4, <1>7, <1>8, <3>1
    <3> QED
      BY <1>5, <1>7, <3>1, <3>2 DEF Waiting
  <2>3. ASSUME NEW m \in Visited, Waiting(m), m # n PROVE Waiting(m)'
    <3>1. PICK i \in 1 .. Len(q) : q[i] = m
      BY <1>5, <2>3 DEF Waiting
    <3>2. i # 1
      BY <1>9, <2>3, <3>1
    <3>3. i - 1 \in 1 .. left /\ (i - 1) + 1 = i
      BY <1>6, <1>9, <3>2
    <3>4. i - 1 \in 1 .. Len(walk'.queue) /\ walk'.queue[i - 1] = m
      BY <1>7, <3>1, <3>3
    <3> QED
      BY <3>4 DEF Waiting
  <2>4. Waiting(n)
    BY <1>5, <1>9 DEF Waiting
  <2>5. ASSUME NEW m \in Visited, Waiting(m)
        PROVE  walk.depth[n] <= walk.depth[m] /\ walk.depth[m] <= walk.depth[n] + 1
    BY <1>5, <1>9, <2>5 DEF Waiting
  <2>6. ASSUME NEW a \in Finished', NEW m \in Neighbours(a)
        PROVE  /\ m \in Visited'
               /\ walk'.depth[m] <= walk'.depth[a] + 1
               /\ walk'.depth[a] <= walk'.depth[m] + 1
               /\ Waiting(m)' => walk'.depth[a] <= walk'.depth[m]
               /\ walk'.parent[a] = m \/ walk'.parent[m] = a \/ Between(a, m) \subseteq walk'.cross
    <3>1. a \in Visited /\ (a = n \/ a \in Finished)
      BY <1>1, <2>1, <2>3 DEF Finished
    <3>2. CASE a \in Finished
      <4>1. m \in Visited
        BY <3>2 DEF FinishedAreDone
      <4> QED
        BY <1>1, <1>4, <2>2, <3>1, <3>2, <4>1 DEF FinishedAreDone
    <3>3. CASE a = n /\ m \in fresh
      BY <1>1, <1>3, <1>4, <3>3
    <3>4. CASE a = n /\ m \in Visited
      <4>1. walk.depth[m] \in Nat /\ walk.depth[n] \in Nat
        BY <1>3, <3>4
      <4>2. walk'.parent[n] = m \/ walk'.parent[m] = n \/ Between(n, m) \subseteq walk'.cross
        BY <1>1, <1>4, <3>4
      <4>3. CASE Waiting(m)
        BY <1>1, <1>4, <2>5, <3>4, <4>1, <4>2, <4>3
      <4>4. CASE ~Waiting(m)
        <5>1. m \in Finished /\ n \in Neighbours(m)
          BY <1>3, <3>4, <4>4, NeighboursAreMutual DEF Finished
        <5>2. walk.depth[m] <= walk.depth[n] /\ walk.depth[n] <= walk.depth[m] + 1
          BY <2>4, <5>1 DEF FinishedAreDone
        <5>3. ~Waiting(m)'
          BY <2>2, <3>4, <4>4
        <5> QED
          BY <1>1, <1>4, <3>4, <4>1, <4>2, <5>2, <5>3
      <4> QED
        BY <4>3, <4>4
    <3> QED
      BY <1>1, <3>1, <3>2, <3>3, <3>4
  <2> QED
    BY <1>2, <2>6 DEF FinishedAreDone
<1> QED
  BY <1>2, <1>10, <1>11, <1>12, <1>13, <1>14

LEMMA WalkSteps == WalkIInv /\ [MapNext]_mapVars => WalkIInv'
<1> SUFFICES ASSUME WalkIInv, [MapNext]_mapVars PROVE WalkIInv'
  OBVIOUS
<1>1. CASE UNCHANGED mapVars
  <2>1. UNCHANGED <<reports, walk>>
    BY <1>1 DEF mapVars
  <2>2. /\ Visited' = Visited /\ Nodes' = Nodes /\ Links' = Links
        /\ \A a : Neighbours(a)' = Neighbours(a)
        /\ \A a, b : Between(a, b)' = Between(a, b)
        /\ Finished' = Finished /\ \A a : Waiting(a)' = Waiting(a)
    BY <2>1 DEF Visited, Nodes, Links, Neighbours, Between, Finished, Waiting
  <2>3. ReportsOK' /\ WalkTypes' /\ NothingForgotten'
    BY <2>1, <2>2 DEF WalkIInv, ReportsOK, WalkTypes, NothingForgotten
  <2>4. ParentsNearer' /\ QueueByDepth'
    BY <2>1, <2>2 DEF WalkIInv, ParentsNearer, QueueByDepth
  <2>5. FinishedAreDone'
    BY <2>1, <2>2 DEF WalkIInv, FinishedAreDone
  <2> QED
    BY <2>3, <2>4, <2>5 DEF WalkIInv
<1> QED
  BY <1>1, StartKeeps, VisitKeeps DEF MapNext

LEMMA SearchSpans == WalkIInv => LinksSpan
<1> SUFFICES ASSUME WalkIInv, walk.queue = <<>>, walk.todo = <<>>
    PROVE  /\ Visited = Nodes
           /\ \A n \in Nodes :
                 /\ {e[1] : e \in {e \in walk.tree : e[2] = n}} = {walk.parent[n]} \ {Nobits}
                 /\ walk.parent[n] # Nobits => walk.depth[n] = walk.depth[walk.parent[n]] + 1
                 /\ walk.parent[n] = Nobits <=> walk.depth[n] = 0
           /\ \A r \in reports :
                 /\ walk.depth[r.from] - walk.depth[r.to] \in {-1, 0, 1}
                 /\ \/ {<<r.from, r.to>>, <<r.to, r.from>>} \cap walk.tree # {}
                    \/ {r, Mirrored(r)} \cap walk.cross # {}
                 /\ Mirrored(r) \in reports => {r, Mirrored(r)} \cap walk.cross # {r, Mirrored(r)}
  BY DEF LinksSpan
<1> USE DEF WalkIInv
<1>1. Visited = Nodes
  <2>1. 1 .. Len(walk.todo) = {}
    OBVIOUS
  <2>2. \A n \in Nodes : n \in Visited
    BY <2>1 DEF NothingForgotten
  <2> QED
    BY <2>2 DEF WalkTypes
<1>2. Finished = Nodes
  BY <1>1 DEF Finished, Waiting
<1>3. ASSUME NEW n \in Nodes
      PROVE  {e[1] : e \in {e \in walk.tree : e[2] = n}} = {walk.parent[n]} \ {Nobits}
  <2>1. \A e \in walk.tree : e = <<e[1], e[2]>> /\ e[1] \in Nodes /\ e[2] \in Nodes
    BY DEF WalkTypes
  <2>2. \A e \in walk.tree : e[2] = n => e[1] = walk.parent[n] /\ e[1] # Nobits
    <3>1. Nobits \notin Nodes
      BY NodesAreFinite, MapAssumption
    <3> QED
      BY <2>1, <3>1 DEF ParentsNearer
  <2>3. walk.parent[n] # Nobits => <<walk.parent[n], n>> \in walk.tree
    BY <1>1 DEF ParentsNearer
  <2> QED
    BY <2>2, <2>3
<1>4. ASSUME NEW n \in Nodes
      PROVE  /\ walk.parent[n] # Nobits => walk.depth[n] = walk.depth[walk.parent[n]] + 1
             /\ walk.parent[n] = Nobits <=> walk.depth[n] = 0
  BY <1>1 DEF ParentsNearer
<1>5. ASSUME NEW r \in reports
      PROVE  /\ walk.depth[r.from] - walk.depth[r.to] \in {-1, 0, 1}
             /\ \/ {<<r.from, r.to>>, <<r.to, r.from>>} \cap walk.tree # {}
                \/ {r, Mirrored(r)} \cap walk.cross # {}
             /\ Mirrored(r) \in reports => {r, Mirrored(r)} \cap walk.cross # {r, Mirrored(r)}
  <2> DEFINE a == r.from
             b == r.to
  <2>1. /\ a \in Nodes /\ b \in Nodes /\ b \in Neighbours(a)
        /\ r \in Between(a, b) \/ Mirrored(r) \in Between(a, b)
        /\ Mirrored(r) \in reports => ~(r \in Links /\ Mirrored(r) \in Links)
    BY CablesAreLinks
  <2>2. walk.depth[a] \in Nat /\ walk.depth[b] \in Nat
    BY <1>1, <2>1 DEF WalkTypes
  <2>3. /\ walk.depth[b] <= walk.depth[a] + 1 /\ walk.depth[a] <= walk.depth[b] + 1
        /\ walk.parent[a] = b \/ walk.parent[b] = a \/ Between(a, b) \subseteq walk.cross
    BY <1>2, <2>1 DEF FinishedAreDone
  <2>4. walk.depth[a] - walk.depth[b] \in {-1, 0, 1}
    BY <2>2, <2>3
  <2>5. \/ <<a, b>> \in walk.tree \/ <<b, a>> \in walk.tree
        \/ r \in walk.cross \/ Mirrored(r) \in walk.cross
    <3>1. a # Nobits /\ b # Nobits
      BY <2>1, NodesAreFinite, MapAssumption
    <3>2. walk.parent[a] = b => <<b, a>> \in walk.tree
      BY <1>1, <2>1, <3>1 DEF ParentsNearer
    <3>3. walk.parent[b] = a => <<a, b>> \in walk.tree
      BY <1>1, <2>1, <3>1 DEF ParentsNearer
    <3> QED
      BY <2>1, <2>3, <3>2, <3>3
  <2>6. walk.cross \subseteq Links
    BY DEF WalkTypes
  <2> QED
    BY <2>1, <2>4, <2>5, <2>6
<1> QED
  BY <1>1, <1>3, <1>4, <1>5

(* Of any subnets, devices and reports, every device is in one place around one *)
(* of its addresses, no two subnets contain each other, and the search makes a  *)
(* forest of the infrastructure that shows every cable once.                    *)
THEOREM MapsDoHold == MapSpec => []MapHolds
<1>1. MapInit => PlanOK /\ WalkIInv
  BY WalkBegins DEF MapInit, PlanOK, Addressable
<1>2. PlanOK /\ [MapNext]_mapVars => PlanOK'
  BY DEF PlanOK, MapNext, Start, Visit, mapVars
<1>3. WalkIInv /\ [MapNext]_mapVars => WalkIInv'
  BY WalkSteps
<1>4. PlanOK /\ WalkIInv => MapHolds
  BY PlacesDoHold, SearchSpans DEF MapHolds
<1> QED
  BY <1>1, <1>2, <1>3, <1>4, PTL DEF MapSpec
=============================================================================
