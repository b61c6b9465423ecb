------------------------- MODULE DataProcessorProofs -------------------------
(***************************************************************************)
(* Theorems about DataProcessor, for any number of streams, every period   *)
(* of the headers, recordings of any length, and losses of any number and  *)
(* length:                                                                 *)
(*                                                                         *)
(*   its types                                                             *)
(*   no millisecond of a stream is passed over                             *)
(*   what is merged into a block is of the true time that its counter      *)
(*   says, up to the whole periods that its stream has lost, and of the    *)
(*   recording that the output announces                                   *)
(*                                                                         *)
(* The code compares milliseconds modulo the period.  The invariant of the *)
(* last one says, per stream, in how many milliseconds it is due: always   *)
(* less than a period, once the whole periods it has lost are taken off,   *)
(* so that equal remainders mean that it is due now.                       *)
(***************************************************************************)
EXTENDS DataProcessor, WellFoundedInduction, SequenceTheorems, TLAPS

-----------------------------------------------------------------------------
(* Arithmetic. *)

\* ProcessorAssumption, one constant at a time.
LEMMA ConstantsTyped ==
    /\ StreamCount \in Nat /\ 1 =< StreamCount
    /\ Modulus \in Nat /\ 1 =< Modulus
    /\ Ahead \in Nat /\ 1 =< Ahead
    /\ Starts \in Seq(Nat) /\ Len(Starts) \in Nat
    /\ Spread \in Nat /\ MaxLosses \in Nat /\ Losses \subseteq Nat
  BY ProcessorAssumption, LenProperties

\* What is left of a multiple is the remainder.
LEMMA RemainderIs ==
    ASSUME NEW M \in Nat, 1 =< M, NEW q \in Int, NEW r \in 0 .. M - 1
    PROVE  (M * q + r) % M = r
  <1> DEFINE y == M * q + r
             p == y \div M
             s == y % M
  <1>1. y \in Int
    BY SMT
  <1>2. p \in Int /\ s \in 0 .. M - 1 /\ y = M * p + s
    BY <1>1, SMT
  <1>3. y = M * q + r
    OBVIOUS
  <1>. HIDE DEF p, s, y
  <1>4. M * (p - q) = r - s
    BY <1>1, <1>2, <1>3, SMT
  <1>5. ASSUME NEW k \in Int, k >= 1 PROVE M * k >= M
    BY <1>5, SMT
  <1>6. ~(p - q >= 1)
    BY <1>2, <1>4, <1>5, SMT
  <1>7. ~(q - p >= 1)
    <2>1. M * (q - p) = s - r
      BY <1>2, <1>4, SMT
    <2>. QED BY <1>2, <2>1, <1>5, SMT
  <1>8. p = q
    BY <1>2, <1>6, <1>7, SMT
  <1>9. s = r
    BY <1>2, <1>3, <1>8, SMT
  <1>. QED BY <1>9 DEF s, y

\* Going on by at most a period wraps at most once.
LEMMA Remainder ==
    ASSUME NEW M \in Nat, 1 =< M, NEW x \in Int, NEW d \in 0 .. M - 1
    PROVE  /\ x % M \in 0 .. M - 1
           /\ (x % M) + d < M => (x + d) % M = (x % M) + d
           /\ (x % M) + d >= M => (x + d) % M = ((x % M) + d) - M
  <1> DEFINE q == x \div M
             r == x % M
  <1>1. q \in Int /\ r \in 0 .. M - 1 /\ x = M * q + r
    BY SMT
  <1>. HIDE DEF q, r
  <1>2. CASE r + d < M
    <2>1. r + d \in 0 .. M - 1 /\ x + d = M * q + (r + d)
      BY <1>1, <1>2, SMT
    <2>2. (x + d) % M = r + d
      BY <1>1, <2>1, RemainderIs
    <2>. QED BY <1>1, <1>2, <2>2, SMT DEF r
  <1>3. CASE r + d >= M
    <2>1. /\ (r + d) - M \in 0 .. M - 1 /\ q + 1 \in Int
          /\ x + d = M * (q + 1) + ((r + d) - M)
      BY <1>1, <1>3, SMT
    <2>2. (x + d) % M = (r + d) - M
      BY <2>1, RemainderIs
    <2>. QED BY <1>1, <1>3, <2>2, SMT DEF r
  <1>. QED BY <1>1, <1>2, <1>3, SMT DEF r

LEMMA RemainderTyped == \A x \in Int : x % Modulus \in 0 .. Modulus - 1
  BY ConstantsTyped, SMT

\* Numbers that are less than a period apart have different remainders.
LEMMA RemainderTells ==
    ASSUME NEW M \in Nat, 1 =< M, NEW x \in Int, NEW d \in 0 .. M - 1,
           (x + d) % M = x % M
    PROVE  d = 0
  <1> DEFINE r == x % M
             t == (x + d) % M
  <1>1. /\ r \in 0 .. M - 1
        /\ r + d < M => t = r + d
        /\ r + d >= M => t = (r + d) - M
    BY Remainder
  <1>2. t = r
    OBVIOUS
  <1>. HIDE DEF r, t
  <1>. QED BY <1>1, <1>2, SMT

\* A set of numbers has a least element; if it is bounded, a greatest, too.
LEMMA LeastElement ==
    ASSUME NEW S, S # {}, S \subseteq Nat
    PROVE  Min(S) \in S /\ \A y \in S : Min(S) =< y
  <1> DEFINE R == OpToRel(<, Nat)
  <1>1. PICK x \in S : \A y \in S : ~ (<<y, x>> \in R)
    <2>1. IsWellFoundedOn(R, Nat)
      BY NatLessThanWellFounded
    <2>. HIDE DEF R
    <2>. QED BY <2>1, WFMin
  <1>2. R = {p \in Nat \X Nat : p[1] < p[2]}
    BY DEF OpToRel
  <1>. HIDE DEF R
  <1>3. \A y \in S : y < x => <<y, x>> \in R
    BY <1>2, SMT
  <1>4. ASSUME NEW y \in S PROVE x =< y
    <2>1. x \in Nat /\ y \in Nat
      OBVIOUS
    <2>2. ~(y < x)
      BY <1>1, <1>3
    <2>. QED BY <2>1, <2>2, SMT
  <1>. QED BY <1>4 DEF Min

LEMMA GreatestElement ==
    ASSUME NEW n \in Nat, NEW S, S # {}, S \subseteq 0 .. n
    PROVE  Max(S) \in S /\ \A y \in S : y =< Max(S)
  <1> DEFINE T == {n - y : y \in S}
  <1>0. S \subseteq Nat /\ \A y \in S : y =< n /\ n - y \in Nat
    BY SMT
  <1>1. T # {} /\ T \subseteq Nat
    BY <1>0
  <1>2. Min(T) \in T /\ \A y \in T : Min(T) =< y
    BY <1>1, LeastElement
  <1>3. PICK x \in S : Min(T) = n - x
    BY <1>2
  <1>4. \A y \in S : y =< x
    <2>. SUFFICES ASSUME NEW y \in S PROVE y =< x
      OBVIOUS
    <2>1. n - y \in T
      OBVIOUS
    <2>2. n - x =< n - y
      BY <1>2, <1>3, <2>1
    <2>. QED BY <1>0, <2>2, SMT
  <1>. QED BY <1>0, <1>4 DEF Max

-----------------------------------------------------------------------------
(* getEarliestMs. *)

\* It returns one of its arguments.
LEMMA EarliestIsOne ==
    ASSUME NEW ms \in [Streams -> 0 .. Modulus - 1]
    PROVE  getEarliestMs(ms) \in 0 .. Modulus - 1
  <1> DEFINE values == Range(ms)
  <1>1. values # {} /\ values \subseteq Nat /\ values \subseteq 0 .. Modulus - 1
    <2>1. 1 \in Streams
      BY ConstantsTyped, SMT DEF Streams
    <2>. QED BY <2>1, ConstantsTyped, SMT DEF Range
  <1>2. Min(values) \in values
    BY <1>1, LeastElement
  <1>3. \A inside \in SUBSET values : inside # {} => Min(inside) \in values
    BY <1>1, LeastElement
  <1>. HIDE DEF values
  <1>. QED BY <1>1, <1>2, <1>3 DEF getEarliestMs, values

\* On a circle of length Modulus, where all values lie in the W behind c, and
\* that is less than the half, the largest gap is the one before c.
LEMMA EarliestOnCircle ==
    ASSUME NEW ms, NEW c \in Range(ms), Range(ms) \subseteq 0 .. Modulus - 1,
           NEW W \in Nat, 2 * W < Modulus,
           \A v \in Range(ms) : \/ c =< v /\ v =< c + W
                                \/ v + Modulus =< c + W
    PROVE  getEarliestMs(ms) = c
  <1> DEFINE V == Range(ms)
             low == Min(V)
             high == Max(V)
             Below(m) == {l \in V : l < m}
             Gap(m) == IF m = low THEN Modulus - high + m
                                  ELSE m - Max(Below(m))
             widest == {m \in V : \A l \in V : Gap(l) =< Gap(m)}
             inside == widest \ {low}
  <1>1. /\ V \subseteq Nat /\ V \subseteq 0 .. Modulus - 1 /\ V # {} /\ c \in V
        /\ Modulus - 1 \in Nat /\ Modulus \in Nat /\ c \in Nat /\ c < Modulus
    BY ConstantsTyped, SMT
  <1>2. /\ low \in V /\ \A y \in V : low =< y
        /\ high \in V /\ \A y \in V : y =< high
    BY <1>1, LeastElement, GreatestElement
  <1>3. ASSUME NEW m \in V, m # low
        PROVE  /\ Max(Below(m)) \in V /\ Max(Below(m)) < m
               /\ \A y \in V : y < m => y =< Max(Below(m))
    <2>1. m \in Nat /\ low \in Nat /\ low =< m
      BY <1>1, <1>2
    <2>2. low \in Below(m)
      BY <1>2, <1>3, <2>1, SMT
    <2>3. Below(m) # {} /\ Below(m) \subseteq 0 .. Modulus - 1
      BY <1>1, <2>2
    <2>4. /\ Max(Below(m)) \in Below(m)
          /\ \A y \in Below(m) : y =< Max(Below(m))
      <3>. HIDE DEF Below
      <3>. QED BY <1>1, <2>3, GreatestElement
    <2>. QED BY <2>4
  <1>4. \A v \in V : (c =< v /\ v =< c + W) \/ v + Modulus =< c + W
    OBVIOUS
  <1>. getEarliestMs(ms) = IF inside = {} THEN low ELSE Min(inside)
    BY DEF getEarliestMs
  <1>. HIDE DEF V, low, high, Below
  <1>5. Gap(c) > W
    <2>1. CASE c = low
      <3>1. high \in Nat /\ high =< c + W
        BY <1>1, <1>2, <1>4, <2>1, SMT
      <3>. QED BY <1>1, <2>1, <3>1, SMT
    <2>2. CASE c # low
      <3> DEFINE l == Max(Below(c))
      <3>1. l \in V /\ l < c
        BY <1>1, <1>3, <2>2
      <3>2. Gap(c) = c - l
        BY <2>2
      <3>. HIDE DEF l
      <3>3. l \in Nat /\ l + Modulus =< c + W
        <4>1. l \in Nat /\ c \in Nat /\ ~(c =< l)
          BY <1>1, <3>1, SMT
        <4>. QED BY <1>4, <3>1, <4>1
      <3>. QED BY <1>1, <3>2, <3>3, SMT
    <2>. QED BY <2>1, <2>2
  <1>6. ASSUME NEW m \in V, m # c
        PROVE  Gap(m) \in Int /\ Gap(m) =< W
    <2>1. CASE m = low
      <3>1. /\ m \in Nat /\ high \in Nat /\ m =< c /\ c =< high
        BY <1>1, <1>2, <2>1
      <3>2. m + Modulus =< c + W
        BY <1>1, <1>4, <1>6, <3>1, SMT
      <3>3. Gap(m) = Modulus - high + m
        BY <2>1
      <3>. HIDE DEF Gap
      <3>. QED BY <1>1, <3>1, <3>2, <3>3, SMT
    <2>2. CASE m # low
      <3> DEFINE l == Max(Below(m))
      <3>1. /\ l \in V /\ l < m
            /\ c < m => c =< l
            /\ low < m => low =< l
        BY <1>1, <1>2, <1>3, <2>2
      <3>2. m \in Nat /\ l \in Nat /\ low \in Nat /\ low =< m /\ low =< c
        BY <1>1, <1>2, <3>1
      <3>3. Gap(m) = m - l
        BY <2>2
      <3>. HIDE DEF l, Gap
      <3>. QED BY <1>1, <1>4, <1>6, <2>2, <3>1, <3>2, <3>3, SMT
    <2>. QED BY <2>1, <2>2
  <1>7. Gap(c) \in Int
    <2>1. c # low => Max(Below(c)) \in Int
      <3>1. c # low => Max(Below(c)) \in V
        BY <1>1, <1>3
      <3>2. \A y \in V : y \in Int
        BY <1>1
      <3>. QED BY <3>1, <3>2, Zenon
    <2>2. high \in Int
      BY <1>1, <1>2
    <2>. QED BY <1>1, <2>1, <2>2
  <1>. HIDE DEF Gap
  <1>8. widest = {c}
    <2>1. \A l \in V : Gap(l) =< Gap(c)
      BY <1>5, <1>6, <1>7, SMT
    <2>2. ASSUME NEW m \in V, m # c PROVE ~(Gap(c) =< Gap(m))
      BY <1>5, <1>6, <1>7, <2>2, SMT
    <2>. QED BY <1>1, <2>1, <2>2
  <1>9. CASE c = low
    BY <1>8, <1>9
  <1>10. CASE c # low
    <2>1. inside = {c}
      BY <1>8, <1>10
    <2>2. Min({c}) \in {c}
      BY <1>1, LeastElement
    <2>. QED BY <2>1, <2>2
  <1>. QED BY <1>9, <1>10

\* So it returns that of the smallest true time, if all lie in less than half a
\* period behind it.
LEMMA EarliestFollows ==
    ASSUME NEW f \in [Streams -> Nat], NEW b \in Nat,
           NEW W \in Nat, 2 * W < Modulus,
           \E s \in Streams : f[s] = b,
           \A s \in Streams : b =< f[s] /\ f[s] =< b + W
    PROVE  getEarliestMs([s \in Streams |-> MsOf(f[s])]) = MsOf(b)
  <1> DEFINE ms == [s \in Streams |-> MsOf(f[s])]
             c == b % Modulus
  <1>1. c \in Range(ms)
    BY DEF Range, MsOf
  <1>2. ASSUME NEW s \in Streams
        PROVE  LET v == f[s] % Modulus
               IN  /\ v \in 0 .. Modulus - 1
                   /\ (c =< v /\ v =< c + W) \/ v + Modulus =< c + W
    <2> DEFINE d == f[s] - b
               v == (b + d) % Modulus
    <2>1. d \in 0 .. W /\ d \in 0 .. Modulus - 1 /\ b + d = f[s] /\ b \in Int
      BY ConstantsTyped, SMT
    <2>2. /\ c \in 0 .. Modulus - 1
          /\ c + d < Modulus => v = c + d
          /\ c + d >= Modulus => v = (c + d) - Modulus
      <3>. HIDE DEF d
      <3>. QED BY <2>1, ConstantsTyped, Remainder
    <2>3. v = f[s] % Modulus
      BY <2>1
    <2>. HIDE DEF c, d, v
    <2>4. v \in 0 .. Modulus - 1
      BY <2>1, <2>2, ConstantsTyped, SMT
    <2>5. (c =< v /\ v =< c + W) \/ v + Modulus =< c + W
      BY <2>1, <2>2, <2>4, ConstantsTyped, SMT
    <2>. QED BY <2>3, <2>4, <2>5
  <1>3. Range(ms) = {f[s] % Modulus : s \in Streams}
    BY DEF Range, MsOf
  <1>. HIDE DEF ms, c
  <1>4. getEarliestMs(ms) = c
    BY <1>1, <1>2, <1>3, EarliestOnCircle
  <1>. QED BY <1>4 DEF ms, c, MsOf

-----------------------------------------------------------------------------
(* The types. *)

\* What is taken is in the buffer.
LEMMA TakeTyped ==
    ASSUME TypeOK, NEW s \in Streams, MayTake(s), Take(s)
    PROVE  /\ queue' \in [Streams -> Seq(Nat)]
           /\ streamMs' \in [Streams -> Nat]
           /\ unshown' \in [Streams -> Nat]
           /\ active[s] => queue[s] # <<>>
  <1>1. CASE active[s]
    <2>1. queue[s] \in Seq(Nat) /\ Len(queue[s]) >= 1
      BY <1>1, ConstantsTyped, LenProperties, SMT DEF TypeOK, MayTake
    <2>2. queue[s] # <<>> /\ Head(queue[s]) \in Nat /\ Tail(queue[s]) \in Seq(Nat)
      BY <2>1, EmptySeq, HeadTailProperties
    <2>3. /\ streamMs' = [streamMs EXCEPT ![s] = Head(queue[s])]
          /\ unshown' = [unshown EXCEPT ![s] = @ + 1]
          /\ queue' = [queue EXCEPT ![s] = Tail(@)]
      BY <1>1 DEF Take
    <2>4. /\ streamMs \in [Streams -> Nat] /\ unshown \in [Streams -> Nat]
          /\ queue \in [Streams -> Seq(Nat)]
      BY DEF TypeOK
    <2>. QED BY <2>2, <2>3, <2>4
  <1>2. CASE ~active[s]
    BY <1>2 DEF TypeOK, Take
  <1>. QED BY <1>1, <1>2

LEMMA LoopTyped ==
    ASSUME i \in Streams, NEW again, NEW after, Loop(again, after)
    PROVE  i' \in Streams /\ pc' \in {again, after}
  BY ConstantsTyped, SMT DEF Loop, Streams

LEMMA InitTyped == Init => TypeOK
  <1>1. /\ 1 \in Streams /\ <<>> \in Seq(Nat) /\ 0 \in 0 .. Modulus - 1
        /\ 0 \in 0 .. Len(Starts) /\ 0 \in 0 .. MaxLosses /\ 0 \in Nat
    BY ConstantsTyped, EmptySeq, SMT DEF Streams
  <1>. SUFFICES ASSUME Init PROVE TypeOK
    OBVIOUS
  <1>2. /\ active \in [Streams -> BOOLEAN]
        /\ queue \in [Streams -> Seq(Nat)]
        /\ now \in [Streams -> Nat]
        /\ recordingNo \in [Streams -> 0 .. Len(Starts)]
    BY <1>1 DEF Init
  <1>3. /\ streamMs \in [Streams -> Nat]
        /\ out \in [active : BOOLEAN, recording : 0 .. Len(Starts)]
        /\ unshown \in [Streams -> Nat] /\ slips \in [Streams -> Int]
    BY <1>1 DEF Init
  <1>. QED BY <1>1, <1>2, <1>3 DEF Init, TypeOK

LEMMA BringTyped ==
    ASSUME TypeOK, NEW s \in Streams, NEW lost \in Nat, Bring(s, lost)
    PROVE  /\ queue' \in [Streams -> Seq(Nat)]
           /\ now' \in [Streams -> Nat]
  <1>1. /\ now[s] + lost \in Nat /\ now[s] + lost + 1 \in Nat
        /\ queue[s] \in Seq(Nat)
    <2>1. now[s] \in Nat /\ queue[s] \in Seq(Nat)
      BY DEF TypeOK
    <2>. QED BY <2>1, SMT
  <1>2. Append(queue[s], now[s] + lost) \in Seq(Nat)
    BY <1>1, AppendProperties
  <1>. QED BY <1>1, <1>2 DEF TypeOK, Bring

LEMMA StreamTyped ==
    ASSUME TypeOK, NEW s \in Streams, StreamStep(s)
    PROVE  TypeOK'
  <1>1. CASE Start(s)
    <2>1. /\ recordingNo[s] + 1 \in 0 .. Len(Starts)
          /\ recordingNo[s] + 1 \in 1 .. Len(Starts)
      <3>1. recordingNo[s] \in 0 .. Len(Starts) /\ recordingNo[s] < Len(Starts)
        BY <1>1 DEF Start, TypeOK
      <3>. QED BY <3>1, ConstantsTyped, SMT
    <2>2. Starts[recordingNo[s] + 1] \in Nat
      BY <2>1, ConstantsTyped, ElementOfSeq
    <2>3. PICK late \in 0 .. Spread :
              now' = [now EXCEPT ![s] = Starts[recordingNo[s] + 1] + late]
      BY <1>1 DEF Start
    <2>4. Starts[recordingNo[s] + 1] + late \in Nat
      BY <2>2, ConstantsTyped, SMT
    <2>5. now' \in [Streams -> Nat]
      BY <2>3, <2>4 DEF TypeOK
    <2>6. timely' \in BOOLEAN
      BY <1>1 DEF Start, TypeOK
    <2>. QED BY <1>1, <2>1, <2>5, <2>6 DEF Start, TypeOK, localVars
  <1>2. CASE End(s)
    <2>1. timely' \in BOOLEAN
      BY <1>2 DEF End, TypeOK
    <2>. QED BY <1>2, <2>1 DEF End, TypeOK, localVars
  <1>3. CASE Deliver(s)
    <2>1. Bring(s, 0) /\ losses' = losses
      BY <1>3 DEF Deliver
    <2>. QED BY <2>1, BringTyped DEF Bring, TypeOK, localVars, historyVars
  <1>4. CASE Lose(s)
    <2>1. PICK lost \in Losses : Bring(s, lost)
      BY <1>4 DEF Lose
    <2>2. lost \in Nat /\ losses' \in 0 .. MaxLosses
      BY <1>4, ConstantsTyped, SMT DEF Lose, TypeOK
    <2>. QED BY <2>1, <2>2, BringTyped
             DEF Bring, TypeOK, localVars, historyVars
  <1>. QED BY <1>1, <1>2, <1>3, <1>4 DEF StreamStep

LEMMA ProcessorTyped ==
    ASSUME TypeOK, ProcessorStep
    PROVE  TypeOK'
  <1>. USE DEF TypeOK
  <1>1. CASE WaitForMaster
    <2>1. Master \in Streams
      BY ConstantsTyped, SMT DEF Master, Streams
    <2>. QED BY <1>1, <2>1 DEF WaitForMaster, streamVars, historyVars
  <1>2. CASE WaitForAll
    BY <1>2, LoopTyped DEF WaitForAll, streamVars, localVars, historyVars
  <1>3. CASE Announce
    <2>1. slips' \in [Streams -> Int] /\ unshown' \in [Streams -> Nat]
      BY <1>3 DEF Announce
    <2>. QED BY <1>3, <2>1 DEF Announce, streamVars
  <1>4. CASE First
    BY <1>4, LoopTyped, TakeTyped DEF First
  <1>5. CASE Choose
    <2>1. [s \in Streams |-> MsOf(streamMs[s])] \in [Streams -> 0 .. Modulus - 1]
      <3>1. \A s \in Streams : streamMs[s] % Modulus \in 0 .. Modulus - 1
        <4>1. \A s \in Streams : streamMs[s] \in Int
          OBVIOUS
        <4>. QED BY <4>1, RemainderTyped
      <3>. QED BY <3>1 DEF MsOf
    <2>2. currentMs' \in 0 .. Modulus - 1
      BY <1>5, <2>1, EarliestIsOne DEF Choose
    <2>3. Range(streamMs) # {} /\ Range(streamMs) \subseteq Nat
      <3>1. 1 \in Streams
        BY ConstantsTyped, SMT DEF Streams
      <3>2. DOMAIN streamMs = Streams /\ \A s \in Streams : streamMs[s] \in Nat
        OBVIOUS
      <3>3. Range(streamMs) = {streamMs[s] : s \in Streams}
        BY <3>2 DEF Range
      <3>4. streamMs[1] \in Range(streamMs)
        BY <3>1, <3>3
      <3>. QED BY <3>2, <3>3, <3>4
    <2>4. base' \in Nat
      BY <1>5, <2>3, LeastElement DEF Choose
    <2>5. close' \in BOOLEAN
      BY <1>5 DEF Choose
    <2>. QED BY <1>5, <2>2, <2>4, <2>5 DEF Choose, streamVars
  <1>6. CASE Emit
    <2>1. unshown' \in [Streams -> Nat]
      BY <1>6 DEF Emit
    <2>. QED BY <1>6, <2>1 DEF Emit, streamVars, localVars
  <1>7. CASE Update
    <2>1. allActive' \in BOOLEAN
      BY <1>7 DEF Update
    <2>2. /\ queue' \in [Streams -> Seq(Nat)]
          /\ streamMs' \in [Streams -> Nat]
          /\ unshown' \in [Streams -> Nat]
      BY <1>7, TakeTyped DEF Update
    <2>3. slips' \in [Streams -> Int]
      <3>1. CASE Contributes(i) /\ active[i]
        <4>1. queue[i] # <<>> /\ queue[i] \in Seq(Nat)
          BY <1>7, <3>1, TakeTyped DEF Update
        <4>2. Head(queue[i]) \in Nat /\ streamMs[i] \in Nat
          BY <4>1, HeadTailProperties, EmptySeq
        <4>3. Missing(i) \div Modulus \in Int
          BY <4>2, ConstantsTyped, SMT DEF Missing
        <4>4. slips' = [slips EXCEPT ![i] = @ + Missing(i) \div Modulus]
          BY <1>7, <3>1 DEF Update
        <4>. QED BY <4>3, <4>4
      <3>2. CASE ~(Contributes(i) /\ active[i])
        BY <1>7, <3>2 DEF Update
      <3>. QED BY <3>1, <3>2
    <2>. QED BY <1>7, <2>1, <2>2, <2>3, LoopTyped DEF Update
  <1>8. CASE Advance
    <2>1. (currentMs + 1) % Modulus \in 0 .. Modulus - 1
      BY ConstantsTyped, SMT
    <2>. QED BY <1>8, <2>1 DEF Advance, streamVars, historyVars
  <1>9. CASE Finish
    BY <1>9 DEF Finish, streamVars, historyVars
  <1>10. CASE Drain
    <2>1. PICK data \in BOOLEAN :
              /\ Loop("drain", IF data THEN "drain" ELSE "wait_master")
              /\ someData' = (data /\ i < StreamCount)
      BY <1>10 DEF Drain
    <2>2. queue' \in [Streams -> Seq(Nat)]
      BY <1>10, EmptySeq DEF Drain
    <2>3. i' \in Streams /\ pc' \in {"drain", "wait_master"}
      BY <2>1, LoopTyped
    <2>. QED BY <1>10, <2>1, <2>2, <2>3 DEF Drain, historyVars
  <1>. QED BY <1>1, <1>2, <1>3, <1>4, <1>5, <1>6, <1>7, <1>8, <1>9, <1>10
           DEF ProcessorStep

LEMMA NextTyped == TypeOK /\ [Next]_vars => TypeOK'
  <1>1. CASE UNCHANGED vars
    BY <1>1 DEF vars, streamVars, localVars, historyVars, TypeOK
  <1>. QED BY <1>1, StreamTyped, ProcessorTyped DEF Next

\* The streams and the processor's locals keep their types, over all wraps of
\* the millisecond (client_behaviours.c:360-529).
THEOREM ProcessorTypeCorrect == Spec => []TypeOK
  BY InitTyped, NextTyped, PTL DEF Spec

-----------------------------------------------------------------------------
(* No millisecond is passed over. *)

\* A stream that still has to move on in this round has nothing unshown.
Shown ==
    /\ pc \in {"first", "choose", "emit", "update", "advance"} =>
           \A s \in Streams : unshown[s] =< 1
    /\ pc = "first" => \A s \in Streams : i =< s => unshown[s] = 0
    /\ pc = "update" =>
           \A s \in Streams : i =< s /\ Contributes(s) => unshown[s] = 0

\* Taking from one stream leaves the others alone.
LEMMA TakesOne ==
    ASSUME TypeOK, NEW s \in Streams, Take(s), unshown[s] = 0
    PROVE  /\ unshown'[s] =< 1
           /\ \A t \in Streams \ {s} : /\ unshown'[t] = unshown[t]
                                       /\ streamMs'[t] = streamMs[t]
  <1>1. unshown \in [Streams -> Nat] /\ streamMs \in [Streams -> Nat]
    BY DEF TypeOK
  <1>2. CASE active[s]
    <2>1. unshown'[s] = 1 /\ \A t \in Streams \ {s} : unshown'[t] = unshown[t]
      BY <1>1, <1>2 DEF Take
    <2>2. \A t \in Streams \ {s} : streamMs'[t] = streamMs[t]
      BY <1>1, <1>2 DEF Take
    <2>. QED BY <2>1, <2>2
  <1>3. CASE ~active[s]
    BY <1>3 DEF Take
  <1>. QED BY <1>2, <1>3

LEMMA NextShown ==
    ASSUME TypeOK, Shown, [Next]_vars
    PROVE  Shown'
  <1>a. /\ i \in Nat /\ i \in Streams /\ StreamCount \in Nat
        /\ \A s \in Streams : s \in Nat /\ s =< StreamCount
        /\ unshown \in [Streams -> Nat]
    BY ConstantsTyped DEF TypeOK, Streams
  <1>1. CASE First
    <2>1. i =< i /\ unshown[i] = 0 /\ \A s \in Streams : unshown[s] =< 1
      BY <1>1, <1>a DEF First, Shown
    <2>2. /\ unshown'[i] =< 1
          /\ \A t \in Streams \ {i} : unshown'[t] = unshown[t]
      BY <1>1, <1>a, <2>1, TakesOne DEF First
    <2>3. \A t \in Streams : unshown'[t] =< 1
      BY <2>1, <2>2
    <2>4. /\ pc' \in {"first", "choose"}
          /\ pc' = "first" => i' = i + 1
      BY <1>1 DEF First, Loop
    <2>5. pc' = "first" => \A t \in Streams : i' =< t => unshown'[t] = 0
      <3>1. SUFFICES ASSUME i' = i + 1, NEW t \in Streams, i' =< t, pc' = "first"
                     PROVE  unshown'[t] = 0
        BY <2>4
      <3>2. t # i /\ i =< t
        BY <1>a, <3>1, SMT
      <3>. QED BY <1>1, <2>2, <3>2 DEF First, Shown
    <2>. QED BY <2>3, <2>4, <2>5 DEF Shown
  <1>2. CASE Update
    <2>1. \A s \in Streams : unshown[s] =< 1
      BY <1>2 DEF Update, Shown
    <2>2. /\ unshown'[i] =< 1
          /\ \A t \in Streams \ {i} : /\ unshown'[t] = unshown[t]
                                      /\ streamMs'[t] = streamMs[t]
      <3>1. CASE Contributes(i)
        <4>1. unshown[i] = 0 /\ Take(i)
          BY <1>2, <1>a, <3>1 DEF Update, Shown
        <4>. QED BY <1>a, <4>1, TakesOne
      <3>2. CASE ~Contributes(i)
        BY <1>2, <1>a, <2>1, <3>2 DEF Update
      <3>. QED BY <3>1, <3>2
    <2>3. \A t \in Streams : unshown'[t] =< 1
      BY <2>1, <2>2
    <2>4. /\ pc' \in {"update", "advance"} /\ currentMs' = currentMs
          /\ pc' = "update" => i' = i + 1
      BY <1>2 DEF Update, Loop
    <2>5. pc' = "update" => \A t \in Streams :
                                i' =< t /\ Contributes(t)' => unshown'[t] = 0
      <3>1. SUFFICES ASSUME i' = i + 1, NEW t \in Streams, i' =< t,
                            Contributes(t)'
                     PROVE  unshown'[t] = 0
        BY <2>4
      <3>2. t # i /\ i =< t
        BY <1>a, <3>1, SMT
      <3>3. Contributes(t)
        BY <2>2, <2>4, <3>1, <3>2 DEF Contributes
      <3>. QED BY <1>2, <2>2, <3>2, <3>3 DEF Update, Shown
    <2>. QED BY <2>3, <2>4, <2>5 DEF Shown
  <1>3. CASE Emit
    <2>1. /\ pc' = "update"
          /\ \A s \in Streams :
                 unshown'[s] = IF Contributes(s) THEN 0 ELSE unshown[s]
          /\ UNCHANGED <<streamMs, currentMs>>
      BY <1>3 DEF Emit, localVars
    <2>2. \A s \in Streams : unshown[s] =< 1
      BY <1>3 DEF Emit, Shown
    <2>. QED BY <2>1, <2>2 DEF Shown, Contributes
  <1>4. CASE Announce
    BY <1>4 DEF Announce, Shown
  <1>5. CASE Choose
    BY <1>5 DEF Choose, Shown
  <1>6. CASE Advance
    BY <1>6 DEF Advance, Shown, historyVars
  <1>7. CASE WaitForMaster \/ WaitForAll
    BY <1>7 DEF WaitForMaster, WaitForAll, Loop, Shown
  <1>8. CASE Finish \/ Drain
    BY <1>8 DEF Finish, Drain, Loop, Shown
  <1>9. CASE \E s \in Streams : StreamStep(s)
    <2>1. UNCHANGED <<pc, i, localVars, unshown>>
      BY <1>9 DEF StreamStep, Start, End, Deliver, Lose, Bring, historyVars
    <2>. QED BY <2>1 DEF Shown, Contributes, localVars
  <1>10. CASE UNCHANGED vars
    BY <1>10 DEF vars, Shown, Contributes, localVars, historyVars
  <1>. QED BY <1>1, <1>2, <1>3, <1>4, <1>5, <1>6, <1>7, <1>8, <1>9, <1>10
           DEF Next, ProcessorStep

\* Every millisecond that is taken from a stream is in a block before the next
\* one is taken, whatever getEarliestMs returns (client_behaviours.c:440-492).
THEOREM ProcessorShowsAll == Spec => []EveryMsIsShown
  <1>1. Init => Shown
    BY DEF Init, Shown
  <1>2. Shown => EveryMsIsShown
    BY DEF Shown, EveryMsIsShown
  <1>. QED BY <1>1, <1>2, InitTyped, NextTyped, NextShown, PTL DEF Spec

-----------------------------------------------------------------------------
(* What is merged is of the time that the counter says.                     *)
(*                                                                          *)
(* A stream is due some milliseconds after the block, or with it; the code  *)
(* knows how many modulo the period.  So they must be less than a period:   *)
(* a whole period that was missing when the stream moved on is a slip, from *)
(* then on.  Nothing is assumed of starts and losses but close, which says  *)
(* that the first block was of the earliest.                                *)

\* The true time of the block.
Time == base + msFromStart

Due(s) == (streamMs[s] - Time) - Modulus * slips[s]

FromTheFirst ==
    pc \in {"wait_master", "announce", "choose", "emit", "advance", "finish"} =>
        i = 1

NoSlip ==
    pc \in {"first", "choose"} =>
        msFromStart = 0 /\ \A s \in Streams : slips[s] = 0

OnTime ==
    /\ pc \in {"emit", "update", "advance"} => currentMs = MsOf(Time)
    /\ pc \in {"emit", "update"} =>
           \A s \in Streams : (pc = "update" => i =< s) =>
               Due(s) \in 0 .. Modulus - 1
    /\ pc \in {"update", "advance"} /\ allActive =>
           \A s \in Streams : (pc = "update" => s < i) => Due(s) \in 1 .. Modulus

TimeInv == FromTheFirst /\ NoSlip /\ (close => OnTime)

LEMMA TimeTyped ==
    ASSUME TypeOK
    PROVE  /\ Time \in Nat /\ base \in Nat /\ msFromStart \in Nat
           /\ \A s \in Streams : /\ streamMs[s] \in Nat /\ slips[s] \in Int
                                 /\ Modulus * slips[s] \in Int
                                 /\ Due(s) \in Int
  <1>1. base \in Nat /\ msFromStart \in Nat
    BY DEF TypeOK
  <1>2. Time \in Nat
    BY <1>1, SMT DEF Time
  <1>3. \A s \in Streams : streamMs[s] \in Nat /\ slips[s] \in Int
    BY DEF TypeOK
  <1>4. \A s \in Streams : Modulus * slips[s] \in Int
    <2>1. \A x \in Int : Modulus * x \in Int
      BY ConstantsTyped, SMT
    <2>. QED BY <1>3, <2>1
  <1>5. \A x \in Nat, y \in Nat, z \in Int : (x - y) - z \in Int
    BY SMT
  <1>. QED BY <1>1, <1>2, <1>3, <1>4, <1>5 DEF Due

\* Whole periods do not show.
LEMMA PeriodsVanish ==
    ASSUME NEW M \in Nat, 1 =< M, NEW x \in Int, NEW k \in Int
    PROVE  (x + M * k) % M = x % M
  <1> DEFINE q == x \div M
             r == x % M
  <1>1. q \in Int /\ r \in 0 .. M - 1 /\ x = M * q + r
    BY SMT
  <1>. HIDE DEF q, r
  <1>2. x + M * k = M * (q + k) + r /\ q + k \in Int
    BY <1>1, SMT
  <1>3. (M * (q + k) + r) % M = r
    BY <1>1, <1>2, RemainderIs
  <1>. QED BY <1>2, <1>3 DEF r

\* The next number's remainder.
LEMMA NextRemainder ==
    ASSUME NEW x \in Int
    PROVE  ((x % Modulus) + 1) % Modulus = (x + 1) % Modulus
  <1> DEFINE q == x \div Modulus
             r == x % Modulus
  <1>1. q \in Int /\ r \in 0 .. Modulus - 1 /\ x = Modulus * q + r
    BY ConstantsTyped, SMT
  <1>. HIDE DEF q, r
  <1>2. r + 1 \in Int /\ x + 1 = (r + 1) + Modulus * q
    BY <1>1, ConstantsTyped, SMT
  <1>3. ((r + 1) + Modulus * q) % Modulus = (r + 1) % Modulus
    BY <1>1, <1>2, ConstantsTyped, PeriodsVanish
  <1>. QED BY <1>2, <1>3 DEF r

\* A stream is in the block if it is due.
LEMMA ContributesIfDue ==
    ASSUME TypeOK, NEW s \in Streams, currentMs = MsOf(Time),
           Due(s) \in 0 .. Modulus - 1
    PROVE  Contributes(s) <=> Due(s) = 0
  <1> DEFINE d == Due(s)
             k == slips[s]
  <1>1. /\ Modulus \in Nat /\ 1 =< Modulus /\ Time \in Int /\ k \in Int
        /\ d \in 0 .. Modulus - 1 /\ d \in Int
    BY ConstantsTyped, TimeTyped, SMT
  <1>2. streamMs[s] = (Time + d) + Modulus * k
    <2>1. \A x \in Nat, y \in Nat, z \in Int :
              x = (y + ((x - y) - z)) + z
      BY SMT
    <2>. QED BY <2>1, TimeTyped DEF Due
  <1>. HIDE DEF d, k
  <1>3. streamMs[s] % Modulus = (Time + d) % Modulus
    <2>1. Time + d \in Int
      BY <1>1, SMT
    <2>. QED BY <1>1, <1>2, <2>1, PeriodsVanish
  <1>4. (Time + d) % Modulus = Time % Modulus => d = 0
    BY <1>1, RemainderTells
  <1>5. d = 0 => Time + d = Time
    BY <1>1, SMT
  <1>6. Contributes(s) <=> (Time + d) % Modulus = Time % Modulus
    BY <1>3 DEF Contributes, MsOf
  <1>. QED BY <1>4, <1>5, <1>6 DEF d

\* The next one of a stream that was in the block is due after it, at most a
\* period later: what is missing beyond that slips.
LEMMA DueNext ==
    ASSUME NEW M \in Nat, 1 =< M, NEW x \in Nat, NEW t \in Nat, NEW k \in Int,
           (x - t) - M * k = 0, NEW h \in Nat
    PROVE  (h - t) - M * (k + ((h - x) - 1) \div M) \in 1 .. M
  <1> DEFINE m == (h - x) - 1
             q == m \div M
             r == m % M
  <1>1. m \in Int
    BY SMT
  <1>2. q \in Int /\ r \in 0 .. M - 1 /\ m = M * q + r
    BY <1>1, SMT
  <1>3. h = (m + x) + 1
    BY SMT
  <1>. HIDE DEF q, r, m
  <1>4. M * (k + q) = M * k + M * q /\ M * k \in Int /\ M * q \in Int
    BY <1>2, SMT
  <1> DEFINE a == M * k
             b == M * q
  <1>5. a \in Int /\ b \in Int /\ (x - t) - a = 0 /\ m = b + r
    BY <1>2, <1>4
  <1>6. M * (k + q) = a + b
    BY <1>4
  <1>. HIDE DEF a, b
  <1>7. (h - t) - (a + b) = r + 1
    BY <1>1, <1>2, <1>3, <1>5, SMT
  <1>8. (h - t) - M * (k + q) \in 1 .. M
    BY <1>2, <1>6, <1>7, SMT
  <1>. QED BY <1>8 DEF q, m

LEMMA ChooseOnTime ==
    ASSUME TypeOK, TimeInv, Choose
    PROVE  TimeInv'
  <1>a. /\ streamMs \in [Streams -> Nat] /\ i = 1 /\ 1 \in Streams
        /\ msFromStart = 0 /\ \A s \in Streams : slips[s] = 0
    BY ConstantsTyped, SMT
       DEF TypeOK, Choose, TimeInv, FromTheFirst, NoSlip, Streams
  <1>b. /\ pc' = "emit" /\ base' = Min(Range(streamMs))
        /\ currentMs' = getEarliestMs([s \in Streams |-> MsOf(streamMs[s])])
        /\ close' = (\A s, t \in Streams : 2 * (streamMs[s] - streamMs[t]) < Modulus)
        /\ UNCHANGED <<i, streamMs, msFromStart, slips>>
    BY DEF Choose
  <1> DEFINE S == Range(streamMs)
             low == Min(S)
             W == (Modulus - 1) \div 2
  <1>1. /\ S = {streamMs[s] : s \in Streams}
        /\ S # {} /\ S \subseteq Nat
    BY <1>a DEF Range
  <1>2. low \in S /\ low \in Nat /\ \A y \in S : low =< y
    BY <1>1, LeastElement
  <1>3. /\ W \in Nat /\ 2 * W < Modulus
        /\ \A x, y \in Nat : y =< x /\ 2 * (x - y) < Modulus => x =< y + W
    BY ConstantsTyped, SMT
  <1>4. (close => OnTime)'
    <2>. SUFFICES ASSUME close' PROVE OnTime'
      OBVIOUS
    <2>1. PICK t \in Streams : streamMs[t] = low
      BY <1>1, <1>2
    <2>2. ASSUME NEW s \in Streams
          PROVE  /\ streamMs[s] \in Nat
                 /\ low =< streamMs[s] /\ streamMs[s] =< low + W
      <3>1. streamMs[s] \in Nat /\ low =< streamMs[s]
        BY <1>a, <1>1, <1>2
      <3>2. 2 * (streamMs[s] - low) < Modulus
        BY <1>b, <2>1
      <3>. HIDE DEF W, low
      <3>. QED BY <1>2, <1>3, <3>1, <3>2
    <2>. HIDE DEF W, low, S
    <2>3. currentMs' = MsOf(low)
      BY <1>a, <1>b, <1>2, <1>3, <2>1, <2>2, EarliestFollows
    <2>4. base' = low /\ Time' = low
      <3>1. base' = low /\ Time' = low + 0
        BY <1>a, <1>b DEF Time, low, S
      <3>. QED BY <1>2, <3>1, SMT
    <2>5. ASSUME NEW s \in Streams PROVE Due(s)' \in 0 .. Modulus - 1
      <3>1. Due(s)' = (streamMs[s] - low) - Modulus * 0
        BY <1>a, <1>b, <2>4 DEF Due
      <3>. QED BY <1>2, <1>3, <2>2, <3>1, ConstantsTyped, SMT
    <2>. QED BY <1>b, <2>3, <2>4, <2>5 DEF OnTime, MsOf
  <1>. QED BY <1>a, <1>b, <1>4 DEF TimeInv, FromTheFirst, NoSlip

LEMMA UpdateOnTime ==
    ASSUME TypeOK, TimeInv, Update
    PROVE  TimeInv'
  <1>a. /\ i \in Nat /\ i \in Streams /\ StreamCount \in Nat
        /\ \A s \in Streams : s \in Nat /\ s =< StreamCount
        /\ queue \in [Streams -> Seq(Nat)] /\ slips \in [Streams -> Int]
        /\ streamMs \in [Streams -> Nat] /\ allActive \in BOOLEAN
    BY ConstantsTyped DEF TypeOK, Streams
  <1>b. /\ pc = "update"
        /\ UNCHANGED <<active, msFromStart, currentMs, base, close>>
        /\ IF i < StreamCount THEN pc' = "update" /\ i' = i + 1
                              ELSE pc' = "advance" /\ i' = 1
    BY DEF Update, Loop
  <1>p. PICK p \in Streams : p = i
    BY <1>a
  <1>1. \A s \in Streams \ {i} : streamMs'[s] = streamMs[s] /\ slips'[s] = slips[s]
    BY <1>a DEF Update, Take
  <1>2. (close => OnTime)'
    <2>. SUFFICES ASSUME close PROVE OnTime'
      BY <1>b
    <2>1. /\ currentMs = MsOf(Time) /\ Time' = Time
          /\ Due(i) \in 0 .. Modulus - 1 /\ Due(i) \in Int
      <3>1. i =< i
        BY <1>a, SMT
      <3>. QED BY <1>a, <1>b, <3>1, TimeTyped DEF TimeInv, OnTime, Time
    <2>2. \A s \in Streams \ {i} : Due(s)' = Due(s)
      BY <1>1, <2>1 DEF Due
    <2>3. /\ allActive' => allActive
          /\ allActive' => Due(p)' \in 1 .. Modulus
      <3>1. CASE ~Contributes(i)
        <4>1. Due(i) # 0
          BY <1>a, <2>1, <3>1, ContributesIfDue
        <4>2. UNCHANGED <<streamMs, slips, allActive>>
          BY <3>1 DEF Update
        <4>3. Due(p)' = Due(p)
          BY <2>1, <4>2 DEF Due
        <4>4. Due(i) \in 1 .. Modulus
          <5>1. \A d \in Int : d \in 0 .. Modulus - 1 /\ d # 0 => d \in 1 .. Modulus
            BY ConstantsTyped, SMT
          <5>. QED BY <2>1, <4>1, <5>1
        <4>. QED BY <1>p, <4>2, <4>3, <4>4
      <3>2. CASE Contributes(i) /\ ~active[i]
        <4>1. allActive' = FALSE
          BY <3>2 DEF Update
        <4>. QED BY <4>1
      <3>3. CASE Contributes(i) /\ active[i]
        <4>1. /\ MayTake(i) /\ Take(i)
              /\ allActive' = (allActive /\ active[i])
              /\ slips' = [slips EXCEPT ![i] = @ + Missing(i) \div Modulus]
          BY <3>3 DEF Update
        <4>2. /\ queue[i] # <<>>
              /\ streamMs' = [streamMs EXCEPT ![i] = Head(queue[i])]
          BY <1>a, <3>3, <4>1, TakeTyped DEF Take
        <4> DEFINE h == Head(queue[i])
                   x == streamMs[i]
                   k == slips[i]
        <4>3. h \in Nat /\ x \in Nat /\ k \in Int /\ Time \in Nat
          <5>1. queue[i] \in Seq(Nat)
            BY <1>a
          <5>2. h \in Nat
            BY <4>2, <5>1, HeadTailProperties
          <5>. QED BY <1>a, <5>2, TimeTyped
        <4>4. (x - Time) - Modulus * k = 0
          BY <1>a, <2>1, <3>3, ContributesIfDue DEF Due
        <4>5. Due(p)' = (h - Time)
                            - Modulus * (k + ((h - x) - 1) \div Modulus)
          BY <1>a, <1>p, <2>1, <4>1, <4>2 DEF Due, Missing
        <4>. HIDE DEF h, x, k
        <4>6. Due(p)' \in 1 .. Modulus
          BY <4>3, <4>4, <4>5, ConstantsTyped, DueNext
        <4>. QED BY <1>a, <4>1, <4>6
      <3>. QED BY <3>1, <3>2, <3>3
    <2>4. /\ \A s \in Streams : (pc' = "update" => s < i') => s < i \/ s = i
          /\ pc' = "update" => \A s \in Streams : i' =< s => i =< s /\ s # i
      BY <1>a, <1>b, SMT
    <2>5. ASSUME pc' = "update", NEW s \in Streams, i' =< s
          PROVE  Due(s)' \in 0 .. Modulus - 1
      BY <1>b, <2>2, <2>4, <2>5 DEF TimeInv, OnTime
    <2>6. ASSUME allActive', NEW s \in Streams, pc' = "update" => s < i'
          PROVE  Due(s)' \in 1 .. Modulus
      <3>1. s = i \/ (s # i /\ s < i)
        BY <2>4, <2>6
      <3>2. s # i /\ s < i => Due(s) \in 1 .. Modulus
        BY <1>b, <2>3, <2>6 DEF TimeInv, OnTime
      <3>. QED BY <1>p, <2>2, <2>3, <2>6, <3>1, <3>2
    <2>. QED BY <1>b, <2>1, <2>5, <2>6 DEF OnTime, MsOf
  <1>. QED BY <1>b, <1>2 DEF TimeInv, FromTheFirst, NoSlip

LEMMA AdvanceOnTime ==
    ASSUME TypeOK, TimeInv, Advance
    PROVE  TimeInv'
  <1>1. /\ pc = "advance" /\ i = 1 /\ i' = i
        /\ msFromStart' = msFromStart + 1
        /\ currentMs' = (currentMs + 1) % Modulus
        /\ pc' = IF allActive THEN "emit" ELSE "finish"
        /\ UNCHANGED <<streamMs, allActive, base, slips, close>>
    BY DEF Advance, TimeInv, FromTheFirst, historyVars
  <1>2. Time \in Nat /\ Time' = Time + 1
    <2>1. base \in Nat /\ msFromStart \in Nat
      BY DEF TypeOK
    <2>2. Time = base + msFromStart /\ Time' = base + (msFromStart + 1)
      BY <1>1 DEF Time
    <2>. QED BY <2>1, <2>2, SMT
  <1>3. (close => OnTime)'
    <2>. SUFFICES ASSUME close, allActive PROVE OnTime'
      BY <1>1 DEF OnTime
    <2>1. currentMs' = MsOf(Time')
      <3>1. currentMs = Time % Modulus
        BY <1>1 DEF TimeInv, OnTime, MsOf
      <3>2. ((Time % Modulus) + 1) % Modulus = (Time + 1) % Modulus
        BY <1>2, NextRemainder
      <3>. QED BY <1>1, <1>2, <3>1, <3>2 DEF MsOf
    <2>2. ASSUME NEW s \in Streams PROVE Due(s)' \in 0 .. Modulus - 1
      <3>1. Due(s) \in 1 .. Modulus
        BY <1>1, <2>2 DEF TimeInv, OnTime
      <3>2. Due(s)' = (streamMs[s] - (Time + 1)) - Modulus * slips[s]
        BY <1>1, <1>2 DEF Due
      <3>3. /\ streamMs[s] \in Nat /\ Modulus * slips[s] \in Int
            /\ Due(s) = (streamMs[s] - Time) - Modulus * slips[s]
        BY TimeTyped DEF Due
      <3> DEFINE x == streamMs[s]
                 z == Modulus * slips[s]
      <3>. HIDE DEF x, z
      <3>4. (x - (Time + 1)) - z = ((x - Time) - z) - 1
        BY <1>2, <3>3, SMT DEF x, z
      <3>5. Due(s)' = Due(s) - 1
        BY <3>2, <3>3, <3>4 DEF x, z
      <3>. QED BY <3>1, <3>5, ConstantsTyped, SMT
    <2>. QED BY <1>1, <2>1, <2>2 DEF OnTime, MsOf
  <1>. QED BY <1>1, <1>3 DEF TimeInv, FromTheFirst, NoSlip

LEMMA NextOnTime ==
    ASSUME TypeOK, TimeInv, [Next]_vars
    PROVE  TimeInv'
  <1>1. CASE Choose \/ Update \/ Advance
    BY <1>1, ChooseOnTime, UpdateOnTime, AdvanceOnTime
  <1>2. CASE Emit
    <2>1. /\ pc = "emit" /\ pc' = "update" /\ i = 1
          /\ UNCHANGED <<i, streamMs, msFromStart, currentMs, base, slips, close>>
      BY <1>2 DEF Emit, TimeInv, FromTheFirst, localVars
    <2>2. \A s \in Streams : i =< s /\ ~(s < i)
      BY <2>1, ConstantsTyped, SMT DEF Streams
    <2>3. (close => OnTime)'
      BY <2>1, <2>2 DEF TimeInv, OnTime, Time, Due
    <2>. QED BY <2>1, <2>3 DEF TimeInv, FromTheFirst, NoSlip
  <1>3. CASE Announce
    BY <1>3 DEF Announce, TimeInv, FromTheFirst, NoSlip, OnTime
  <1>4. CASE First
    BY <1>4 DEF First, Loop, TimeInv, FromTheFirst, NoSlip, OnTime
  <1>5. CASE WaitForMaster \/ WaitForAll
    BY <1>5 DEF WaitForMaster, WaitForAll, Loop, TimeInv, FromTheFirst, NoSlip,
                OnTime
  <1>6. CASE Finish \/ Drain
    BY <1>6 DEF Finish, Drain, Loop, TimeInv, FromTheFirst, NoSlip, OnTime
  <1>7. CASE (\E s \in Streams : StreamStep(s)) \/ UNCHANGED vars
    <2>1. UNCHANGED <<pc, i, localVars, base, slips, close>>
      BY <1>7 DEF StreamStep, Start, End, Deliver, Lose, Bring, historyVars, vars
    <2>. QED BY <2>1 DEF TimeInv, FromTheFirst, NoSlip, OnTime, Time, Due,
                         localVars
  <1>. QED BY <1>1, <1>2, <1>3, <1>4, <1>5, <1>6, <1>7 DEF Next, ProcessorStep

-----------------------------------------------------------------------------
(* What is merged is of the recording that the output announces, unless a   *)
(* stream has started or ended out of time: then it may be another's.       *)

\* What waits in the buffer of s, and what it brings next, is of recording r.
OfRecording(s, r) ==
    /\ now[s] >= Starts[r]
    /\ \A k \in 1 .. Len(queue[s]) : queue[s][k] >= Starts[r]

\* The recordings up to r are over, and the next has started for some.
Between(r) ==
    \A s \in Streams :
        IF active[s] THEN recordingNo[s] = r + 1 /\ OfRecording(s, r + 1)
                     ELSE recordingNo[s] = r /\ queue[s] = <<>>

Waiting ==
    pc \in {"wait_master", "wait_all"} =>
        \E r \in 0 .. Len(Starts) :
            /\ Between(r)
            /\ pc = "wait_all" => /\ recording = r + 1 /\ active[Master]
                                  /\ \A s \in Streams : s < i => active[s]

\* The streams of the processor's recording, what they still have and what has
\* been taken from them.
Streaming ==
    pc \notin {"wait_master", "wait_all"} =>
        /\ recording \in 1 .. Len(Starts)
        /\ \A s \in Streams : /\ recordingNo[s] = recording
                              /\ OfRecording(s, recording)
        /\ pc \in {"announce", "first"} => \A s \in Streams : active[s]
        /\ pc \in {"first", "choose", "emit", "update", "advance"} =>
               /\ out.recording = recording
               /\ \A s \in Streams : (pc = "first" => s < i) =>
                      streamMs[s] >= Starts[recording]

\* The streams that this round of the drain has found without data.
Draining ==
    pc = "drain" /\ ~someData =>
        \A s \in Streams : s < i => ~active[s] /\ queue[s] = <<>>

RecordingInv == Waiting /\ Streaming /\ Draining

LEMMA StartTyped == \A r \in 1 .. Len(Starts) : Starts[r] \in Nat
  BY ConstantsTyped, ElementOfSeq

\* Milliseconds that arrive come after those that have.
LEMMA BringOfRecording ==
    ASSUME TypeOK, NEW s \in Streams, NEW lost \in Nat, Bring(s, lost),
           NEW t \in Streams, NEW r \in 1 .. Len(Starts), OfRecording(t, r)
    PROVE  now'[t] >= Starts[r] /\ \A k \in 1 .. Len(queue'[t]) :
                                       queue'[t][k] >= Starts[r]
  <1>a. /\ queue \in [Streams -> Seq(Nat)] /\ now \in [Streams -> Nat]
        /\ Starts[r] \in Nat
    BY StartTyped DEF TypeOK
  <1>b. /\ queue' = [queue EXCEPT ![s] = Append(@, now[s] + lost)]
        /\ now' = [now EXCEPT ![s] = @ + lost + 1]
    BY DEF Bring
  <1>1. CASE t = s
    <2> DEFINE q == queue[s]
               m == now[s] + lost
    <2>1. /\ q \in Seq(Nat) /\ now[s] \in Nat /\ m \in Nat /\ m >= Starts[r]
          /\ now'[t] = m + 1 /\ queue'[t] = Append(q, m)
      <3>1. now[s] \in Nat /\ now[s] >= Starts[r]
        BY <1>a, <1>1 DEF OfRecording
      <3>2. m \in Nat /\ m >= Starts[r]
        BY <1>a, <3>1, SMT
      <3>. QED BY <1>a, <1>b, <1>1, <3>1, <3>2
    <2>2. \A k \in 1 .. Len(q) : q[k] >= Starts[r]
      BY <1>1 DEF OfRecording
    <2>. HIDE DEF q, m
    <2>3. /\ Len(q) \in Nat /\ Len(Append(q, m)) = Len(q) + 1
          /\ \A k \in 1 .. Len(q) : Append(q, m)[k] = q[k]
          /\ Append(q, m)[Len(q) + 1] = m
      BY <2>1, AppendProperties, LenProperties
    <2>4. \A k \in 1 .. Len(q) + 1 : k \in 1 .. Len(q) \/ k = Len(q) + 1
      BY <2>3, SMT
    <2>5. m + 1 >= Starts[r]
      BY <1>a, <2>1, SMT
    <2>. QED BY <2>1, <2>2, <2>3, <2>4, <2>5
  <1>2. CASE t # s
    BY <1>a, <1>b, <1>2 DEF OfRecording
  <1>. QED BY <1>1, <1>2

\* What is taken is of the recording, and so is what stays.
LEMMA TakeOfRecording ==
    ASSUME TypeOK, NEW s \in Streams, MayTake(s), Take(s),
           NEW r \in 1 .. Len(Starts), \A t \in Streams : OfRecording(t, r)
    PROVE  /\ \A t \in Streams : \A k \in 1 .. Len(queue'[t]) :
                                     queue'[t][k] >= Starts[r]
           /\ active[s] => streamMs'[s] >= Starts[r]
           /\ \A t \in Streams \ {s} : streamMs'[t] = streamMs[t]
           /\ ~active[s] => streamMs' = streamMs
  <1>a. queue \in [Streams -> Seq(Nat)] /\ streamMs \in [Streams -> Nat]
    BY DEF TypeOK
  <1>1. CASE active[s]
    <2> DEFINE q == queue[s]
    <2>1. /\ q \in Seq(Nat) /\ q # <<>>
          /\ \A k \in 1 .. Len(q) : q[k] >= Starts[r]
      BY <1>a, <1>1, TakeTyped DEF OfRecording
    <2>2. /\ streamMs' = [streamMs EXCEPT ![s] = Head(q)]
          /\ queue' = [queue EXCEPT ![s] = Tail(q)]
      BY <1>1 DEF Take
    <2>. HIDE DEF q
    <2>3. /\ Len(q) \in Nat /\ Len(q) # 0 /\ Head(q) = q[1]
          /\ Len(Tail(q)) = Len(q) - 1
          /\ \A k \in 1 .. Len(q) - 1 : Tail(q)[k] = q[k + 1]
      BY <2>1, HeadTailProperties, LenProperties, EmptySeq
    <2>4. 1 \in 1 .. Len(q) /\ \A k \in 1 .. Len(q) - 1 : k + 1 \in 1 .. Len(q)
      BY <2>3, SMT
    <2>5. Head(q) >= Starts[r] /\ \A k \in 1 .. Len(Tail(q)) :
                                      Tail(q)[k] >= Starts[r]
      BY <2>1, <2>3, <2>4
    <2>6. \A t \in Streams \ {s} : queue'[t] = queue[t]
      BY <1>a, <2>2
    <2>7. queue'[s] = Tail(q) /\ streamMs'[s] = Head(q)
      BY <1>a, <2>2
    <2>8. ASSUME NEW t \in Streams
          PROVE  \A k \in 1 .. Len(queue'[t]) : queue'[t][k] >= Starts[r]
      BY <2>5, <2>6, <2>7 DEF OfRecording
    <2>. QED BY <1>1, <1>a, <2>2, <2>5, <2>7, <2>8
  <1>2. CASE ~active[s]
    BY <1>2 DEF Take, OfRecording
  <1>. QED BY <1>1, <1>2

LEMMA BringKeeps ==
    ASSUME TypeOK, RecordingInv, NEW s \in Streams, NEW lost \in Nat,
           Bring(s, lost)
    PROVE  RecordingInv'
  <1>a. queue \in [Streams -> Seq(Nat)]
    BY DEF TypeOK
  <1>b. /\ active[s]
        /\ queue' = [queue EXCEPT ![s] = Append(@, now[s] + lost)]
        /\ UNCHANGED <<active, recordingNo, pc, i, recording, streamMs>>
        /\ UNCHANGED <<someData, out>>
    BY DEF Bring, Arrives, localVars
  <1>1. ASSUME NEW t \in Streams, NEW r \in 1 .. Len(Starts), OfRecording(t, r)
        PROVE  OfRecording(t, r)'
    BY <1>1, BringOfRecording DEF OfRecording
  <1>2. \A t \in Streams : ~active[t] => queue'[t] = queue[t]
    BY <1>a, <1>b
  <1>3. Waiting'
    <2>. SUFFICES ASSUME pc \in {"wait_master", "wait_all"} PROVE Waiting'
      BY <1>b DEF Waiting
    <2>1. PICK r \in 0 .. Len(Starts) :
              /\ Between(r)
              /\ pc = "wait_all" => /\ recording = r + 1 /\ active[Master]
                                    /\ \A t \in Streams : t < i => active[t]
      BY DEF RecordingInv, Waiting
    <2>2. \A t \in Streams : active[t] => r + 1 \in 1 .. Len(Starts)
      <3>1. \A t \in Streams : recordingNo[t] \in 0 .. Len(Starts)
        BY DEF TypeOK
      <3>. QED BY <2>1, <3>1, ConstantsTyped, SMT DEF Between
    <2>3. \A t \in Streams : active[t] => OfRecording(t, r + 1)'
      BY <1>1, <2>1, <2>2 DEF Between
    <2>4. Between(r)'
      BY <1>b, <1>2, <2>1, <2>3 DEF Between
    <2>. QED BY <1>b, <2>1, <2>4 DEF Waiting
  <1>4. Streaming'
    BY <1>b, <1>1 DEF RecordingInv, Streaming
  <1>5. Draining'
    BY <1>b, <1>2 DEF RecordingInv, Draining
  <1>. QED BY <1>3, <1>4, <1>5 DEF RecordingInv

LEMMA StartKeeps ==
    ASSUME TypeOK, RecordingInv, NEW s \in Streams, Start(s), timely'
    PROVE  RecordingInv'
  <1>a. /\ queue \in [Streams -> Seq(Nat)] /\ now \in [Streams -> Nat]
        /\ recordingNo \in [Streams -> 0 .. Len(Starts)]
        /\ active \in [Streams -> BOOLEAN]
    BY DEF TypeOK
  <1>b. /\ ~active[s] /\ pc \in {"wait_master", "wait_all"}
        /\ recordingNo[s] < Len(Starts)
        /\ recordingNo' = [recordingNo EXCEPT ![s] = @ + 1]
        /\ active' = [active EXCEPT ![s] = TRUE]
        /\ UNCHANGED <<queue, pc, i, recording>>
    BY DEF Start, localVars
  <1>1. PICK late \in 0 .. Spread :
            now' = [now EXCEPT ![s] = Starts[recordingNo[s] + 1] + late]
    BY DEF Start
  <1>2. PICK r \in 0 .. Len(Starts) :
            /\ Between(r)
            /\ pc = "wait_all" => /\ recording = r + 1 /\ active[Master]
                                  /\ \A t \in Streams : t < i => active[t]
    BY <1>b DEF RecordingInv, Waiting
  <1>3. recordingNo[s] = r /\ queue[s] = <<>> /\ r + 1 \in 1 .. Len(Starts)
    <2>1. recordingNo[s] = r /\ queue[s] = <<>> /\ r < Len(Starts)
      BY <1>b, <1>2 DEF Between
    <2>. QED BY <2>1, ConstantsTyped, SMT
  <1>4. OfRecording(s, r + 1)'
    <2>1. now'[s] = Starts[r + 1] + late /\ queue'[s] = <<>>
      BY <1>a, <1>b, <1>1, <1>3
    <2>2. Starts[r + 1] \in Nat /\ late \in Nat
      BY <1>3, StartTyped, ConstantsTyped, SMT
    <2>3. now'[s] >= Starts[r + 1]
      BY <2>1, <2>2, SMT
    <2>4. Len(queue'[s]) = 0 /\ 1 .. 0 = {}
      BY <2>1, EmptySeq, SMT
    <2>. QED BY <2>3, <2>4 DEF OfRecording
  <1>5. /\ recordingNo'[s] = r + 1 /\ active'[s]
        /\ \A t \in Streams \ {s} : /\ recordingNo'[t] = recordingNo[t]
                                    /\ active'[t] = active[t]
                                    /\ now'[t] = now[t]
    BY <1>a, <1>b, <1>1, <1>3
  <1>6. \A t \in Streams \ {s} : OfRecording(t, r + 1) => OfRecording(t, r + 1)'
    BY <1>b, <1>5 DEF OfRecording
  <1>7. Between(r)'
    BY <1>2, <1>4, <1>b, <1>5, <1>6 DEF Between
  <1>8. Waiting'
    <2>1. \A t \in Streams : active[t] => active'[t]
      BY <1>a, <1>b
    <2>2. Master \in Streams
      BY ConstantsTyped, SMT DEF Master, Streams
    <2>. QED BY <1>2, <1>7, <1>b, <2>1, <2>2 DEF Waiting
  <1>. QED BY <1>8, <1>b DEF RecordingInv, Streaming, Draining

LEMMA EndKeeps ==
    ASSUME TypeOK, RecordingInv, NEW s \in Streams, End(s), timely'
    PROVE  RecordingInv'
  <1>1. /\ pc \notin {"wait_master", "wait_all", "announce", "first"}
        /\ \A t \in Streams : active'[t] => active[t]
        /\ UNCHANGED <<queue, now, recordingNo, pc, i, recording, streamMs>>
        /\ UNCHANGED <<someData, out>>
    BY DEF End, localVars, TypeOK
  <1>2. Streaming'
    BY <1>1 DEF RecordingInv, Streaming, OfRecording
  <1>3. Draining'
    BY <1>1 DEF RecordingInv, Draining
  <1>. QED BY <1>1, <1>2, <1>3 DEF RecordingInv, Waiting

\* The steps of the processor.
LEMMA WaitKeeps ==
    ASSUME TypeOK, RecordingInv, FromTheFirst, WaitForMaster \/ WaitForAll
    PROVE  RecordingInv'
  <1>a. /\ i \in Nat /\ StreamCount \in Nat /\ 1 =< StreamCount
        /\ \A s \in Streams : s \in Nat /\ 1 =< s /\ s =< StreamCount
        /\ Master \in Streams
    BY ConstantsTyped, SMT DEF TypeOK, Streams, Master
  <1>b. UNCHANGED <<active, queue, now, recordingNo, streamMs, out>>
    BY DEF WaitForMaster, WaitForAll, streamVars, localVars
  <1>1. PICK r \in 0 .. Len(Starts) :
            /\ Between(r)
            /\ pc = "wait_all" => /\ recording = r + 1 /\ active[Master]
                                  /\ \A s \in Streams : s < i => active[s]
    BY DEF RecordingInv, Waiting, WaitForMaster, WaitForAll
  <1>2. Between(r)'
    BY <1>b, <1>1 DEF Between, OfRecording
  <1>3. CASE WaitForMaster
    <2>1. /\ pc' = "wait_all" /\ active[Master] /\ i = 1 /\ i' = i
          /\ recording' = recordingNo[Master]
      BY <1>3 DEF WaitForMaster, FromTheFirst
    <2>2. recordingNo[Master] = r + 1
      BY <1>a, <1>1, <2>1 DEF Between
    <2>3. \A s \in Streams : ~(s < i')
      BY <1>a, <2>1, SMT
    <2>4. Waiting'
      BY <1>1, <1>2, <1>b, <2>1, <2>2, <2>3 DEF Waiting
    <2>. QED BY <2>1, <2>4 DEF RecordingInv, Streaming, Draining
  <1>4. CASE WaitForAll
    <2>1. /\ pc = "wait_all" /\ active[i] /\ recording' = recording
          /\ IF i < StreamCount THEN pc' = "wait_all" /\ i' = i + 1
                                ELSE pc' = "announce" /\ i' = 1
      BY <1>4 DEF WaitForAll, Loop, localVars
    <2>2. CASE i < StreamCount
      <3>1. \A s \in Streams : s < i' => s < i \/ s = i
        BY <1>a, <2>1, <2>2, SMT
      <3>2. Waiting'
        BY <1>1, <1>2, <1>b, <2>1, <2>2, <3>1 DEF Waiting
      <3>. QED BY <2>1, <2>2, <3>2 DEF RecordingInv, Streaming, Draining
    <2>3. CASE ~(i < StreamCount)
      <3>1. \A s \in Streams : s < i \/ s = i
        BY <1>a, <2>3, SMT
      <3>2. \A s \in Streams : active[s]
        BY <1>1, <2>1, <3>1
      <3>3. \A s \in Streams : recordingNo[s] = recording
                               /\ OfRecording(s, recording)
        BY <1>1, <2>1, <3>2 DEF Between
      <3>4. recording \in 1 .. Len(Starts)
        <4>1. /\ recordingNo[Master] \in 0 .. Len(Starts)
              /\ recordingNo[Master] = r + 1 /\ recording = r + 1
          BY <1>a, <1>1, <2>1, <3>2 DEF TypeOK, Between
        <4>. QED BY <4>1, ConstantsTyped, SMT
      <3>5. \A s \in Streams : OfRecording(s, recording)'
        BY <1>b, <2>1, <3>3 DEF OfRecording
      <3>6. Streaming'
        BY <1>b, <2>1, <2>3, <3>2, <3>3, <3>4, <3>5 DEF Streaming
      <3>. QED BY <2>1, <2>3, <3>6 DEF RecordingInv, Waiting, Draining
    <2>. QED BY <2>2, <2>3
  <1>. QED BY <1>3, <1>4

LEMMA AnnounceKeeps ==
    ASSUME TypeOK, RecordingInv, FromTheFirst, Announce
    PROVE  RecordingInv'
  <1>1. /\ pc = "announce" /\ pc' = "first" /\ i = 1 /\ i' = i
        /\ out'.recording = recording
        /\ UNCHANGED <<active, queue, now, recordingNo, recording, streamMs>>
    BY DEF Announce, FromTheFirst, streamVars
  <1>2. \A s \in Streams : ~(s < i)
    BY <1>1, ConstantsTyped, SMT DEF Streams
  <1>3. Streaming'
    BY <1>1, <1>2 DEF RecordingInv, Streaming, OfRecording
  <1>. QED BY <1>1, <1>3 DEF RecordingInv, Waiting, Draining

LEMMA TakingKeeps ==
    ASSUME TypeOK, RecordingInv, First \/ Update
    PROVE  RecordingInv'
  <1>a. /\ i \in Nat /\ i \in Streams /\ StreamCount \in Nat
        /\ \A s \in Streams : s \in Nat /\ s =< StreamCount
    BY ConstantsTyped DEF TypeOK, Streams
  <1>b. /\ pc \in {"first", "update"}
        /\ UNCHANGED <<active, now, recordingNo, recording, out>>
        /\ IF i < StreamCount
           THEN pc' = pc /\ i' = i + 1
           ELSE pc' \in {"choose", "advance"} /\ i' = 1
    BY DEF First, Update, Loop
  <1>c. /\ recording \in 1 .. Len(Starts)
        /\ \A s \in Streams : recordingNo[s] = recording
        /\ \A s \in Streams : OfRecording(s, recording)
        /\ out.recording = recording
        /\ pc = "first" => \A s \in Streams : active[s]
        /\ \A s \in Streams : (pc = "first" => s < i) =>
               streamMs[s] >= Starts[recording]
    BY <1>b DEF RecordingInv, Streaming
  <1>1. /\ \A s \in Streams : \A k \in 1 .. Len(queue'[s]) :
                                  queue'[s][k] >= Starts[recording]
        /\ \A s \in Streams \ {i} : streamMs'[s] = streamMs[s]
        /\ streamMs'[i] >= Starts[recording]
    <2>1. CASE MayTake(i) /\ Take(i)
      <3>1. /\ \A s \in Streams : \A k \in 1 .. Len(queue'[s]) :
                                      queue'[s][k] >= Starts[recording]
            /\ \A s \in Streams \ {i} : streamMs'[s] = streamMs[s]
            /\ active[i] => streamMs'[i] >= Starts[recording]
            /\ ~active[i] => streamMs' = streamMs
        BY <1>a, <1>c, <2>1, TakeOfRecording
      <3>2. ~active[i] => streamMs[i] >= Starts[recording]
        BY <1>a, <1>b, <1>c
      <3>. QED BY <3>1, <3>2
    <2>2. CASE pc = "update" /\ UNCHANGED <<streamMs, queue>>
      BY <1>a, <1>c, <2>2 DEF OfRecording
    <2>. QED BY <2>1, <2>2 DEF First, Update
  <1>2. \A s \in Streams : OfRecording(s, recording)'
    BY <1>b, <1>c, <1>1 DEF OfRecording
  <1>3. \A s \in Streams : (pc' = "first" => s < i') => (pc = "first" => s < i)
                                                        \/ s = i
    BY <1>a, <1>b, SMT
  <1>4. \A s \in Streams : (pc' = "first" => s < i') =>
            streamMs'[s] >= Starts[recording]
    BY <1>c, <1>1, <1>3
  <1>5. Streaming'
    BY <1>b, <1>c, <1>2, <1>4 DEF Streaming
  <1>. QED BY <1>b, <1>5 DEF RecordingInv, Waiting, Draining

LEMMA FinishKeeps ==
    ASSUME TypeOK, RecordingInv, FromTheFirst, Finish
    PROVE  RecordingInv'
  <1>1. /\ pc = "finish" /\ pc' = "drain" /\ i = 1
        /\ UNCHANGED <<active, queue, now, recordingNo, i, recording>>
    BY DEF Finish, FromTheFirst, streamVars
  <1>2. Draining'
    <2>1. \A s \in Streams : ~(s < i')
      BY <1>1, ConstantsTyped, SMT DEF Streams
    <2>. QED BY <2>1 DEF Draining
  <1>3. Streaming'
    BY <1>1 DEF RecordingInv, Streaming, OfRecording
  <1>. QED BY <1>1, <1>2, <1>3 DEF RecordingInv, Waiting

LEMMA DrainKeeps ==
    ASSUME TypeOK, RecordingInv, Drain
    PROVE  RecordingInv'
  <1> DEFINE data == someData \/ active[i]
  <1>a. /\ i \in Nat /\ i \in Streams /\ StreamCount \in Nat
        /\ \A s \in Streams : s \in Nat /\ s =< StreamCount
        /\ queue \in [Streams -> Seq(Nat)]
    BY ConstantsTyped DEF TypeOK, Streams
  <1>b. /\ pc = "drain"
        /\ queue' = [queue EXCEPT ![i] = <<>>]
        /\ someData' = (data /\ i < StreamCount)
        /\ UNCHANGED <<active, now, recordingNo, recording, out>>
        /\ IF i < StreamCount
           THEN pc' = "drain" /\ i' = i + 1
           ELSE pc' = (IF data THEN "drain" ELSE "wait_master") /\ i' = 1
    BY DEF Drain, Loop
  <1>c. /\ recording \in 1 .. Len(Starts)
        /\ \A s \in Streams : recordingNo[s] = recording
        /\ \A s \in Streams : OfRecording(s, recording)
    BY <1>b DEF RecordingInv, Streaming
  <1>d. ASSUME NEW s \in Streams PROVE OfRecording(s, recording)'
    <2>1. queue'[s] = queue[s] \/ queue'[s] = <<>>
      BY <1>a, <1>b
    <2>2. \A k \in 1 .. Len(<<>>) : FALSE
      BY EmptySeq, SMT
    <2>. QED BY <1>b, <1>c, <2>1, <2>2 DEF OfRecording
  <1>1. ASSUME ~data, NEW s \in Streams, s < i \/ s = i
        PROVE  ~active'[s] /\ queue'[s] = <<>>
    <2>1. ~someData /\ ~active[i]
      BY <1>1
    <2>2. s < i => ~active[s] /\ queue[s] = <<>>
      BY <1>b, <2>1 DEF RecordingInv, Draining
    <2>. QED BY <1>a, <1>b, <1>1, <2>1, <2>2
  <1>2. CASE i < StreamCount
    <2>1. \A s \in Streams : s < i' => s < i \/ s = i
      BY <1>a, <1>b, <1>2, SMT
    <2>2. Draining'
      BY <1>1, <1>b, <1>2, <2>1 DEF Draining
    <2>3. Streaming'
      BY <1>b, <1>c, <1>d, <1>2 DEF Streaming
    <2>. QED BY <1>b, <1>2, <2>2, <2>3 DEF RecordingInv, Waiting
  <1>3. CASE ~(i < StreamCount) /\ data
    <2>1. pc' = "drain" /\ i' = 1
      BY <1>b, <1>3
    <2>2. \A s \in Streams : ~(s < i')
      BY <2>1, ConstantsTyped, SMT DEF Streams
    <2>3. Draining'
      BY <2>2 DEF Draining
    <2>4. Streaming'
      BY <1>b, <1>c, <1>d, <2>1 DEF Streaming
    <2>. QED BY <2>1, <2>3, <2>4 DEF RecordingInv, Waiting
  <1>4. CASE ~(i < StreamCount) /\ ~data
    <2>1. pc' = "wait_master" /\ i' = 1
      BY <1>b, <1>4
    <2>2. \A s \in Streams : s < i \/ s = i
      BY <1>a, <1>4, SMT
    <2>3. \A s \in Streams : ~active'[s] /\ queue'[s] = <<>>
      BY <1>1, <1>4, <2>2
    <2>4. Between(recording)'
      BY <1>b, <1>c, <2>3 DEF Between
    <2>5. recording \in 0 .. Len(Starts)
      BY <1>c, ConstantsTyped, SMT
    <2>6. Waiting'
      BY <1>b, <2>1, <2>4, <2>5 DEF Waiting
    <2>. QED BY <2>1, <2>6 DEF RecordingInv, Streaming, Draining
  <1>. QED BY <1>2, <1>3, <1>4

\* Choose, Emit and Advance leave the streams alone.
LEMMA MergingKeeps ==
    ASSUME TypeOK, RecordingInv, Choose \/ Emit \/ Advance
    PROVE  RecordingInv'
  <1>1. /\ pc \in {"choose", "emit", "advance"}
        /\ pc' \in {"emit", "update", "finish"}
        /\ UNCHANGED <<active, queue, now, recordingNo, recording, streamMs, out>>
    BY DEF Choose, Emit, Advance, streamVars, localVars
  <1>2. Streaming'
    BY <1>1 DEF RecordingInv, Streaming, OfRecording
  <1>. QED BY <1>1, <1>2 DEF RecordingInv, Waiting, Draining

LEMMA NextKeeps ==
    ASSUME TypeOK, FromTheFirst, timely => RecordingInv, [Next]_vars, timely'
    PROVE  timely /\ RecordingInv'
  <1>0. timely
    BY DEF Next, ProcessorStep, StreamStep, Start, End, Deliver, Lose, Bring,
           WaitForMaster, WaitForAll, Announce, First, Choose, Emit, Update,
           Advance, Finish, Drain, historyVars, vars
  <1>1. CASE \E s \in Streams : StreamStep(s)
    <2>1. PICK s \in Streams : StreamStep(s)
      BY <1>1
    <2>2. CASE Start(s)
      BY <1>0, <2>2, StartKeeps
    <2>3. CASE End(s)
      BY <1>0, <2>3, EndKeeps
    <2>4. CASE Deliver(s)
      BY <1>0, <2>4, BringKeeps DEF Deliver
    <2>5. CASE Lose(s)
      <3>1. PICK lost \in Losses : Bring(s, lost)
        BY <2>5 DEF Lose
      <3>2. lost \in Nat
        BY ConstantsTyped
      <3>. QED BY <1>0, <3>1, <3>2, BringKeeps
    <2>. QED BY <1>0, <2>1, <2>2, <2>3, <2>4, <2>5 DEF StreamStep
  <1>2. CASE ProcessorStep
    BY <1>0, <1>2, WaitKeeps, AnnounceKeeps, TakingKeeps, MergingKeeps,
       FinishKeeps, DrainKeeps DEF ProcessorStep
  <1>3. CASE UNCHANGED vars
    <2>1. /\ UNCHANGED <<active, queue, now, recordingNo, pc, i, recording>>
          /\ UNCHANGED <<streamMs, someData, out>>
      BY <1>3 DEF vars, streamVars, localVars
    <2>2. Waiting' /\ Draining' /\ Streaming'
      BY <1>0, <2>1 DEF RecordingInv, Waiting, Between, OfRecording, Draining,
                        Streaming
    <2>. QED BY <1>0, <2>2 DEF RecordingInv
  <1>. QED BY <1>1, <1>2, <1>3 DEF Next

LEMMA InitKeeps == Init => RecordingInv
  <1>. SUFFICES ASSUME Init PROVE RecordingInv
    OBVIOUS
  <1>1. /\ pc = "wait_master" /\ i = 1
        /\ \A s \in Streams : /\ ~active[s] /\ recordingNo[s] = 0
                              /\ queue[s] = <<>>
    BY DEF Init
  <1>2. Between(0) /\ 0 \in 0 .. Len(Starts)
    BY <1>1, ConstantsTyped DEF Between
  <1>3. Waiting
    BY <1>1, <1>2 DEF Waiting
  <1>. QED BY <1>1, <1>3 DEF RecordingInv, Streaming, Draining

-----------------------------------------------------------------------------
(* The blocks. *)

BlocksInv == TypeOK /\ TimeInv /\ (timely => RecordingInv)

LEMMA NextBlocks == BlocksInv /\ [Next]_vars => BlocksInv'
  <1>. SUFFICES ASSUME BlocksInv, [Next]_vars PROVE BlocksInv'
    OBVIOUS
  <1>1. timely' => RecordingInv'
    BY NextKeeps DEF BlocksInv, TimeInv
  <1>. QED BY <1>1, NextTyped, NextOnTime DEF BlocksInv

\* A stream that is in a block is of the true time that the block's counter
\* says, up to the whole periods that it has lost at once, and of the recording
\* that the output announces unless one started or ended out of time
\* (client_behaviours.c:421-492).  For any number of streams, recordings of any
\* length and losses of any number and length, whatever a stream misses.
THEOREM ProcessorMergesTrue == Spec => []BlocksTrue
  <1>1. BlocksInv => BlocksTrue
    <2>. SUFFICES ASSUME BlocksInv, pc = "emit", NEW s \in Streams,
                         Contributes(s)
                  PROVE  /\ close => streamMs[s] = base + msFromStart
                                                   + Modulus * slips[s]
                         /\ timely => streamMs[s] >= Starts[out.recording]
      BY DEF BlocksTrue
    <2>1. ASSUME close
          PROVE  streamMs[s] = base + msFromStart + Modulus * slips[s]
      <3>1. Due(s) = 0
        BY <2>1, ContributesIfDue DEF BlocksInv, TimeInv, OnTime
      <3>2. \A x \in Nat, y \in Nat, z \in Int : (x - y) - z = 0 => x = y + z
        BY SMT
      <3>. QED BY <3>1, <3>2, TimeTyped DEF Due, Time, BlocksInv
    <2>2. timely => streamMs[s] >= Starts[out.recording]
      BY DEF BlocksInv, RecordingInv, Streaming
    <2>. QED BY <2>1, <2>2
  <1>2. Init => BlocksInv
    <2>1. Init => TimeInv
      BY DEF Init, TimeInv, FromTheFirst, NoSlip
    <2>. QED BY <2>1, InitTyped, InitKeeps DEF BlocksInv
  <1>. QED BY <1>1, <1>2, NextBlocks, PTL DEF Spec

=============================================================================
