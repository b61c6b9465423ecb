-------------------------- MODULE VisibilityProofs --------------------------
(***************************************************************************)
(* Theorems about Visibility, for every length of the day, every sky that  *)
(* SkyAssumption admits, any number of requests and any targets.           *)
(*                                                                         *)
(* 1. InOrder sorts: the number of elements before it tells the place of   *)
(*    each, so no two have the same and none is left out.                  *)
(*                                                                         *)
(* 2. The answer of gen_obs_json.py has the minutes of the sky and no      *)
(*    others, also where the windows at both ends of the day are merged.   *)
(*                                                                         *)
(* 3. Between the SELECTs of a request and its INSERTs others go through   *)
(*    the same, so a target may be in the table in part, or several times. *)
(*    The invariant says that what is there or on its way are windows of   *)
(*    the sky.  That is enough for the plan.                               *)
(*                                                                         *)
(* 4. If a target is in the table, its first window is, and the others are *)
(*    or some request still has them to store.  This takes INSERTs that do *)
(*    not fail, and that each request stores a target from the first       *)
(*    window on: the order in which Compute leaves them.                   *)
(***************************************************************************)
EXTENDS Visibility, FiniteSetTheorems, SequenceTheorems, TLAPS

-----------------------------------------------------------------------------
(* Order. *)

StrictOrder(S, R) ==
    /\ \A x \in S : <<x, x>> \notin R
    /\ \A x, y, z \in S : <<x, y>> \in R /\ <<y, z>> \in R => <<x, z>> \in R
    /\ \A x, y \in S : x # y => <<x, y>> \in R \/ <<y, x>> \in R

\* InOrder goes through the whole of a finite set, each element once and after
\* those before it.
LEMMA InOrderSorts ==
    ASSUME NEW S, IsFiniteSet(S), NEW R, StrictOrder(S, R)
    PROVE  /\ Cardinality(S) \in Nat
           /\ InOrder(S, R) \in [1 .. Cardinality(S) -> S]
           /\ \A x \in S : \E k \in 1 .. Cardinality(S) : InOrder(S, R)[k] = x
           /\ \A i, j \in 1 .. Cardinality(S) :
                  i < j => <<InOrder(S, R)[i], InOrder(S, R)[j]>> \in R
  <1> DEFINE n == Cardinality(S)
             below(x) == {y \in S : <<y, x>> \in R}
             rank(x) == Cardinality(below(x))
             s == InOrder(S, R)
  <1>1. n \in Nat
    BY FS_CardinalityType
  <1>2. ASSUME NEW x \in S
        PROVE  IsFiniteSet(below(x)) /\ rank(x) \in 0 .. n - 1
    <2>1. below(x) \subseteq S \ {x}
      BY DEF StrictOrder
    <2>2. IsFiniteSet(S \ {x}) /\ Cardinality(S \ {x}) = n - 1
      BY FS_RemoveElement
    <2>. HIDE DEF below, n
    <2>3. IsFiniteSet(below(x)) /\ rank(x) =< n - 1
      BY <2>1, <2>2, FS_Subset
    <2>4. rank(x) \in Nat
      BY <2>3, FS_CardinalityType
    <2>. HIDE DEF rank
    <2>. QED BY <2>3, <2>4, <1>1
  <1>3. ASSUME NEW x \in S, NEW y \in S, <<x, y>> \in R
        PROVE  rank(x) < rank(y)
    <2>1. below(x) \subseteq below(y) \ {x}
      BY <1>3 DEF StrictOrder
    <2>2. x \in below(y)
      BY <1>3
    <2>. HIDE DEF below
    <2>3. /\ IsFiniteSet(below(y) \ {x})
          /\ Cardinality(below(y) \ {x}) = rank(y) - 1
      BY <2>2, <1>2, FS_RemoveElement
    <2>4. rank(x) =< rank(y) - 1
      BY <2>1, <2>3, FS_Subset
    <2>5. rank(x) \in Nat /\ rank(y) \in Nat
      BY <1>2, <1>1, SMT
    <2>. HIDE DEF rank
    <2>. QED BY <2>4, <2>5
  <1>4. ASSUME NEW x \in S, NEW y \in S, rank(x) = rank(y)
        PROVE  x = y
    <2>1. ~(rank(x) < rank(y)) /\ ~(rank(y) < rank(x))
      BY <1>2, <1>1, <1>4, SMT
    <2>2. <<x, y>> \notin R /\ <<y, x>> \notin R
      BY <2>1, <1>3
    <2>. QED BY <2>2 DEF StrictOrder
  <1>5. ASSUME NEW k \in 1 .. n PROVE \E x \in S : rank(x) = k - 1
    <2> DEFINE f == [x \in S |-> rank(x)]
    <2>1. f \in Injection(S, 0 .. n - 1)
      <3>. HIDE DEF rank, n
      <3>. QED BY <1>2, <1>4 DEF Injection, IsInjective
    <2>2. IsFiniteSet(0 .. n - 1) /\ Cardinality(0 .. n - 1) = n
      <3>1. 0 \in Int /\ n - 1 \in Int
        BY <1>1
      <3>2. (IF 0 > n - 1 THEN 0 ELSE n - 1 - 0 + 1) = n
        BY <1>1
      <3>. HIDE DEF n
      <3>. QED BY <3>1, <3>2, FS_Interval
    <2>3. f \in Surjection(S, 0 .. n - 1)
      <3>. HIDE DEF f
      <3>. QED BY <2>1, <2>2, FS_Injection
    <2>4. k - 1 \in 0 .. n - 1
      BY <1>1
    <2>5. \E x \in S : f[x] = k - 1
      BY <2>3, <2>4 DEF Surjection
    <2>. QED BY <2>5
  <1>6. s = [k \in 1 .. n |-> CHOOSE x \in S : rank(x) = k - 1]
    BY DEF InOrder
  <1>. HIDE DEF rank, n, s
  <1>7. ASSUME NEW k \in 1 .. n PROVE s[k] \in S /\ rank(s[k]) = k - 1
    BY <1>5, <1>6
  <1>8. s \in [1 .. n -> S]
    BY <1>6, <1>7
  <1>9. ASSUME NEW x \in S PROVE \E k \in 1 .. n : s[k] = x
    <2>1. PICK q \in 0 .. n - 1 : q = rank(x)
      BY <1>2
    <2>2. q + 1 \in 1 .. n /\ (q + 1) - 1 = q
      BY <1>1
    <2>3. s[q + 1] = x
      BY <2>1, <2>2, <1>4, <1>7
    <2>. QED BY <2>2, <2>3
  <1>10. ASSUME NEW i \in 1 .. n, NEW j \in 1 .. n, i < j
         PROVE  <<s[i], s[j]>> \in R
    <2>1. /\ s[i] \in S /\ rank(s[i]) = i - 1
          /\ s[j] \in S /\ rank(s[j]) = j - 1
      BY <1>7
    <2>2. ~(rank(s[j]) < rank(s[i])) /\ rank(s[i]) # rank(s[j])
      BY <2>1, <1>1, <1>10, SMT
    <2>3. <<s[j], s[i]>> \notin R /\ s[i] # s[j]
      BY <2>1, <2>2, <1>3
    <2>. QED BY <2>1, <2>3 DEF StrictOrder
  <1>. QED BY <1>1, <1>8, <1>9, <1>10 DEF n, s

\* A nonempty set of numbers has a least element.
LEMMA MinIsLeast ==
    ASSUME NEW S, S # {}, S \subseteq Nat
    PROVE  Min(S) \in S /\ \A y \in S : Min(S) =< y
  <1> DEFINE R == OpToRel(<, Nat)
  <1>1. R = {p \in Nat \X Nat : p[1] < p[2]}
    BY DEF OpToRel
  <1>2. IsWellFoundedOn(R, Nat)
    BY NatLessThanWellFounded
  <1>. HIDE DEF R
  <1>3. PICK x \in S : \A y \in S : <<y, x>> \notin R
    BY <1>2, WFMin
  <1>4. ASSUME NEW y \in S PROVE x =< y
    <2>1. x \in Nat /\ y \in Nat
      OBVIOUS
    <2>2. y < x => <<y, x>> \in R
      BY <1>1, <2>1
    <2>3. ~(y < x)
      BY <1>3, <2>2
    <2>. QED BY <2>1, <2>3
  <1>. QED BY <1>4 DEF Min

LEMMA FunctionIsSeq ==
    ASSUME NEW S, NEW n \in Nat, NEW f \in [1 .. n -> S]
    PROVE  f \in Seq(S) /\ Len(f) = n
  <1>1. f \in Seq(S)
    BY SeqDef
  <1>2. 1 .. n = 1 .. Len(f) /\ Len(f) \in Nat
    BY <1>1, LenProperties
  <1>. QED BY <1>1, <1>2

-----------------------------------------------------------------------------
(* The windows of a sky. *)

IsSky(sky) ==
    /\ sky \in [0 .. Day -> BOOLEAN]
    /\ sky[Day] => sky[Day - 1]

LEMMA DayTyped == Day \in Nat \ {0}
  BY VisibilityAssumption

\* A window ends after its start, and reaches as far as the target is visible.
LEMMA EndOfWindow ==
    ASSUME NEW sky, IsSky(sky), NEW m \in 0 .. Day - 1, sky[m]
    PROVE  /\ EndOf(sky, m) \in m + 1 .. Day
           /\ \A k \in m .. EndOf(sky, m) - 1 : sky[k]
           /\ EndOf(sky, m) < Day => ~sky[EndOf(sky, m)]
  <1> DEFINE S == {e \in m .. Day : ~sky[e]} \cup {Day}
             e == EndOf(sky, m)
  <1>1. S # {} /\ S \subseteq Nat
    BY DayTyped
  <1>2. e = Min(S)
    BY DEF EndOf
  <1>3. e \in S /\ \A y \in S : e =< y
    <2>. HIDE DEF S, e
    <2>. QED BY <1>1, <1>2, MinIsLeast
  <1>. HIDE DEF e
  <1>4. e \in m .. Day /\ (e = Day \/ ~sky[e])
    BY <1>3, DayTyped, SMT
  <1>5. e # m
    BY <1>4, DayTyped, SMT
  <1>6. ASSUME NEW k \in m .. e - 1 PROVE sky[k]
    <2>1. k \in m .. Day /\ ~(e =< k) /\ k # Day
      BY <1>4, DayTyped, SMT
    <2>2. k \notin S
      BY <1>3, <2>1
    <2>. QED BY <2>1, <2>2
  <1>7. e \in m + 1 .. Day /\ (e < Day => ~sky[e])
    BY <1>4, <1>5, DayTyped, SMT
  <1>. QED BY <1>6, <1>7 DEF e

\* Windows lists them all, one after the other.
LEMMA WindowsInOrder ==
    ASSUME NEW sky, IsSky(sky)
    PROVE  LET w == Windows(sky)
               n == Cardinality(Starts(sky))
           IN  /\ n \in Nat
               /\ w \in [1 .. n -> [start : 0 .. Day - 1, end : 1 .. Day]]
               /\ \A k \in 1 .. n :
                      /\ w[k].start \in Starts(sky)
                      /\ w[k].end = EndOf(sky, w[k].start)
               /\ \A i, j \in 1 .. n : i < j => w[i].start < w[j].start
               /\ \A m \in Starts(sky) : \E k \in 1 .. n : w[k].start = m
  <1> DEFINE S == Starts(sky)
             R == Smaller(S)
             n == Cardinality(S)
             order == InOrder(S, R)
             w == Windows(sky)
  <1>1. S \subseteq 0 .. Day - 1 /\ \A m \in S : sky[m]
    BY DayTyped, SMT DEF Starts, IsSky
  <1>2. IsFiniteSet(S)
    <2>1. IsFiniteSet(0 .. Day - 1)
      <3>1. 0 \in Int /\ Day - 1 \in Int
        BY DayTyped
      <3>. QED BY <3>1, FS_Interval
    <2>. HIDE DEF S
    <2>. QED BY <1>1, <2>1, FS_Subset
  <1>3. StrictOrder(S, R)
    <2>1. S \subseteq Int
      BY <1>1
    <2>. HIDE DEF S
    <2>. QED BY <2>1, SMT DEF StrictOrder, Smaller
  <1>4. /\ n \in Nat
        /\ order \in [1 .. n -> S]
        /\ \A x \in S : \E k \in 1 .. n : order[k] = x
        /\ \A i, j \in 1 .. n : i < j => <<order[i], order[j]>> \in R
    <2>. HIDE DEF S, R
    <2>. QED BY <1>2, <1>3, InOrderSorts
  <1>5. w = [k \in DOMAIN order |->
                [start |-> order[k], end |-> EndOf(sky, order[k])]]
    BY DEF Windows
  <1>. HIDE DEF n, order, w, S
  <1>6. ASSUME NEW k \in 1 .. n
        PROVE  /\ w[k] = [start |-> order[k], end |-> EndOf(sky, order[k])]
               /\ order[k] \in 0 .. Day - 1
               /\ EndOf(sky, order[k]) \in 1 .. Day
    <2>1. order[k] \in 0 .. Day - 1 /\ sky[order[k]]
      BY <1>1, <1>4
    <2>2. EndOf(sky, order[k]) \in order[k] + 1 .. Day
      BY <2>1, EndOfWindow
    <2>3. EndOf(sky, order[k]) \in 1 .. Day
      BY <2>1, <2>2, DayTyped
    <2>. QED BY <1>4, <1>5, <2>1, <2>3
  <1>7. w \in [1 .. n -> [start : 0 .. Day - 1, end : 1 .. Day]]
    BY <1>4, <1>5, <1>6
  <1>8. ASSUME NEW i \in 1 .. n, NEW j \in 1 .. n, i < j
        PROVE  order[i] < order[j]
    <2>1. <<order[i], order[j]>> \in R
      BY <1>4, <1>8
    <2>. QED BY <2>1 DEF Smaller
  <1>. QED BY <1>4, <1>6, <1>7, <1>8 DEF n, w, S

\* Between two windows the target is not visible.
LEMMA WindowsApart ==
    ASSUME NEW sky, IsSky(sky),
           NEW i \in 1 .. Cardinality(Starts(sky)),
           NEW j \in 1 .. Cardinality(Starts(sky)), i < j
    PROVE  Windows(sky)[i].end < Windows(sky)[j].start
  <1> DEFINE w == Windows(sky)
             a == w[i].start
             b == w[j].start
             e == w[i].end
  <1>1. /\ a \in Starts(sky) /\ b \in Starts(sky) /\ a < b
        /\ a \in 0 .. Day - 1 /\ b \in 0 .. Day - 1
        /\ e = EndOf(sky, a)
    BY WindowsInOrder
  <1>2. sky[a] /\ ~sky[b - 1]
    BY <1>1, DayTyped, SMT DEF Starts
  <1>. HIDE DEF a, b, e
  <1>3. /\ e \in a + 1 .. Day
        /\ \A k \in a .. e - 1 : sky[k]
        /\ e < Day => ~sky[e]
    BY <1>1, <1>2, EndOfWindow
  <1>4. b - 1 \notin a .. e - 1
    BY <1>2, <1>3
  <1>5. sky[b]
    BY <1>1 DEF Starts
  <1>6. e # b
    BY <1>1, <1>3, <1>5, DayTyped, SMT
  <1>7. e < b
    BY <1>1, <1>3, <1>4, <1>6, DayTyped, SMT
  <1>. QED BY <1>7 DEF a, b, e

\* No visible minute is left out.
LEMMA WindowsCover ==
    ASSUME NEW sky, IsSky(sky), NEW m \in 0 .. Day - 1, sky[m]
    PROVE  \E k \in 1 .. Cardinality(Starts(sky)) :
               Windows(sky)[k].start =< m /\ m < Windows(sky)[k].end
  <1> DEFINE T == {x \in 0 .. m : \A y \in x .. m : sky[y]}
             s == Min(T)
  <1>1. m \in T /\ T \subseteq Nat
    BY DayTyped, SMT
  <1>2. s \in T /\ \A y \in T : s =< y
    <2>. HIDE DEF T
    <2>. QED BY <1>1, MinIsLeast
  <1>. HIDE DEF s
  <1>3. s \in 0 .. m /\ \A y \in s .. m : sky[y]
    BY <1>2
  <1>4. s = 0 \/ ~sky[s - 1]
    <2>1. SUFFICES ASSUME s # 0, sky[s - 1] PROVE FALSE
      OBVIOUS
    <2>2. s - 1 \in 0 .. m /\ ~(s =< s - 1)
      BY <1>3, <2>1, SMT
    <2>3. \A y \in s - 1 .. m : y = s - 1 \/ y \in s .. m
      BY <1>3, SMT
    <2>4. s - 1 \in T
      BY <1>3, <2>1, <2>2, <2>3
    <2>. QED BY <1>2, <2>2, <2>4
  <1>5. s \in 0 .. Day - 1 /\ sky[s]
    BY <1>3, DayTyped, SMT
  <1>6. s \in Starts(sky)
    BY <1>4, <1>5, DayTyped, SMT DEF Starts
  <1>7. PICK k \in 1 .. Cardinality(Starts(sky)) :
            Windows(sky)[k].start = s /\ Windows(sky)[k].end = EndOf(sky, s)
    BY <1>6, WindowsInOrder
  <1>8. m < EndOf(sky, s)
    <2> DEFINE e == EndOf(sky, s)
    <2>1. e \in s + 1 .. Day /\ (e < Day => ~sky[e])
      BY <1>5, EndOfWindow
    <2>. HIDE DEF e
    <2>2. e \in s .. m => sky[e]
      BY <1>3
    <2>3. m < e
      BY <1>3, <2>1, <2>2, DayTyped, SMT
    <2>. QED BY <2>3 DEF e
  <1>. QED BY <1>3, <1>7, <1>8

ClockWindows == [start : 0 .. Day - 1, end : 0 .. Day - 1]

\* What the answer of gen_obs_json.py is of a sky.
Right(o, sky) ==
    /\ o \in Seq(ClockWindows)
    /\ \A i, j \in DOMAIN o : i < j => o[i].start < o[j].start
    /\ \A k \in DOMAIN o, m \in 0 .. Day - 1 : Inside(m, o[k]) => sky[m]
    /\ \A m \in 0 .. Day - 1 : sky[m] => \E k \in DOMAIN o : Inside(m, o[k])

\* On the clock the end of the day is its start.
LEMMA ClockOfDay ==
    /\ \A m \in 0 .. Day - 1 : Clock(m) = m
    /\ Clock(Day) = 0
  <1>1. ASSUME NEW N \in Nat \ {0}, NEW m \in 0 .. N - 1 PROVE m % N = m
    BY SMT
  <1>2. ASSUME NEW N \in Nat \ {0} PROVE N % N = 0
    BY SMT
  <1>. QED BY <1>1, <1>2, DayTyped DEF Clock

LEMMA ClockWindow ==
    ASSUME NEW s \in 0 .. Day - 1, NEW e \in 1 .. Day
    PROVE  /\ Window(s, e) \in ClockWindows
           /\ Window(s, e).start = s
           /\ s < e => \A m \in 0 .. Day - 1 :
                           Inside(m, Window(s, e)) <=> s =< m /\ m < e
           /\ e < s => \A m \in 0 .. Day - 1 :
                           Inside(m, Window(s, e)) <=> s =< m \/ m < e
           /\ e < Day => Window(s, e).end = e
  <1> DEFINE w == Window(s, e)
  <1>1. w = [start |-> s, end |-> Clock(e)]
    BY ClockOfDay DEF Window
  <1>2. w.start = s /\ w.end = Clock(e)
    BY <1>1
  <1>3. CASE e = Day
    <2>1. Clock(e) = 0
      BY <1>3, ClockOfDay
    <2>2. w \in ClockWindows
      BY <1>1, <2>1, DayTyped DEF ClockWindows
    <2>. HIDE DEF w
    <2>3. \A m \in 0 .. Day - 1 : Inside(m, w) <=> s =< m
      BY <1>2, <2>1, DayTyped, SMT DEF Inside
    <2>4. s < e /\ \A m \in 0 .. Day - 1 : m < e
      BY <1>3, DayTyped, SMT
    <2>5. ~(e < s) /\ ~(e < Day)
      BY <1>3, DayTyped, SMT
    <2>. QED BY <1>2, <2>2, <2>3, <2>4, <2>5 DEF w
  <1>4. CASE e # Day
    <2>1. e \in 0 .. Day - 1
      BY <1>4, DayTyped, SMT
    <2>2. Clock(e) = e
      BY <2>1, ClockOfDay
    <2>3. w \in ClockWindows
      BY <1>1, <2>1, <2>2 DEF ClockWindows
    <2>. HIDE DEF w
    <2>4. \A m \in 0 .. Day - 1 :
              Inside(m, w) <=> IF s < e THEN s =< m /\ m < e
                                        ELSE s =< m \/ m < e
      BY <1>2, <2>2 DEF Inside
    <2>5. e < s => ~(s < e)
      BY <2>1, DayTyped, SMT
    <2>. QED BY <1>2, <2>2, <2>3, <2>4, <2>5 DEF w
  <1>. QED BY <1>3, <1>4

\* Where the sky is open over midnight the last window goes on in the first.
Merged(sky) == Cardinality(Starts(sky)) > 1 /\ sky[0] /\ sky[Day]

LEMMA ClockedWindows ==
    ASSUME NEW sky, IsSky(sky)
    PROVE  LET w == Windows(sky)
               n == Cardinality(Starts(sky))
               o == OutWindows(sky)
           IN  /\ ~Merged(sky) =>
                      /\ o \in Seq(ClockWindows) /\ Len(o) = n
                      /\ \A k \in 1 .. n : o[k] = Window(w[k].start, w[k].end)
               /\ Merged(sky) =>
                      /\ o \in Seq(ClockWindows) /\ Len(o) = n - 1
                      /\ \A k \in 1 .. n - 2 :
                             o[k] = Window(w[k + 1].start, w[k + 1].end)
                      /\ o[n - 1] = Window(w[n].start, w[1].end)
  <1> DEFINE w == Windows(sky)
             n == Cardinality(Starts(sky))
             o == OutWindows(sky)
             T == [start : 0 .. Day - 1, end : 1 .. Day]
  <1>1. n \in Nat /\ w \in [1 .. n -> T]
    BY WindowsInOrder
  <1>. HIDE DEF w, n
  <1>2. w \in Seq(T) /\ Len(w) = n
    <2>. HIDE DEF T
    <2>. QED BY <1>1, FunctionIsSeq
  <1>3. o = IF Merged(sky)
            THEN Append(Clocked(SubSeq(w, 2, n - 1)),
                        Window(w[n].start, w[1].end))
            ELSE Clocked(w)
    BY <1>2 DEF OutWindows, Merged, w, n
  <1>4. ASSUME NEW v \in Seq(T)
        PROVE  /\ Clocked(v) \in Seq(ClockWindows)
               /\ Len(Clocked(v)) = Len(v)
               /\ \A k \in 1 .. Len(v) :
                      Clocked(v)[k] = Window(v[k].start, v[k].end)
    <2>1. Len(v) \in Nat /\ DOMAIN v = 1 .. Len(v)
          /\ \A k \in 1 .. Len(v) : v[k] \in T
      BY LenProperties, ElementOfSeq
    <2>2. ASSUME NEW k \in 1 .. Len(v)
          PROVE  Window(v[k].start, v[k].end) \in ClockWindows
      <3>1. v[k].start \in 0 .. Day - 1 /\ v[k].end \in 1 .. Day
        BY <2>1
      <3>. QED BY <3>1, ClockWindow
    <2> DEFINE c == Clocked(v)
    <2>3. c = [k \in 1 .. Len(v) |-> Window(v[k].start, v[k].end)]
      BY <2>1 DEF Clocked
    <2>. HIDE DEF c
    <2>4. c \in [1 .. Len(v) -> ClockWindows]
      BY <2>2, <2>3
    <2>5. c \in Seq(ClockWindows) /\ Len(c) = Len(v)
      BY <2>1, <2>4, FunctionIsSeq
    <2>. QED BY <2>3, <2>5 DEF c
  <1>5. CASE ~Merged(sky)
    BY <1>2, <1>3, <1>4, <1>5 DEF w, n
  <1>6. CASE Merged(sky)
    <2>1. n > 1 /\ n \in Nat /\ 1 \in 1 .. n /\ n \in 1 .. n
      BY <1>1, <1>6, SMT DEF Merged, n
    <2> DEFINE v == SubSeq(w, 2, n - 1)
               c == Clocked(v)
               x == Window(w[n].start, w[1].end)
    <2>2. \A i \in 2 .. n - 1 : w[i] \in T
      BY <1>1, <2>1
    <2>3. /\ v \in Seq(T)
          /\ Len(v) = IF 2 =< n - 1 THEN n - 1 - 2 + 1 ELSE 0
          /\ \A i \in 1 .. n - 1 - 2 + 1 : v[i] = w[2 + i - 1]
      <3>1. 2 \in Int /\ n - 1 \in Int
        BY <2>1
      <3>. HIDE DEF T
      <3>. QED BY <2>2, <3>1, SubSeqProperties
    <2>. HIDE DEF v
    <2>4. Len(v) = n - 2 /\ \A i \in 1 .. n - 2 : v[i] = w[i + 1]
      <3>1. \A i \in 1 .. n - 2 : i \in 1 .. n - 1 - 2 + 1 /\ 2 + i - 1 = i + 1
        BY <2>1, SMT
      <3>2. (IF 2 =< n - 1 THEN n - 1 - 2 + 1 ELSE 0) = n - 2
        BY <2>1, SMT
      <3>. QED BY <2>3, <3>1, <3>2
    <2>5. /\ c \in Seq(ClockWindows) /\ Len(c) = n - 2
          /\ \A k \in 1 .. n - 2 : c[k] = Window(w[k + 1].start, w[k + 1].end)
      BY <1>4, <2>3, <2>4
    <2>6. x \in ClockWindows
      <3>1. w[n].start \in 0 .. Day - 1 /\ w[1].end \in 1 .. Day
        BY <1>1, <2>1
      <3>. QED BY <3>1, ClockWindow
    <2>7. o = Append(c, x)
      BY <1>3, <1>6 DEF v
    <2>. HIDE DEF c, x, o
    <2>8. /\ o \in Seq(ClockWindows) /\ Len(o) = Len(c) + 1
          /\ \A i \in 1 .. Len(c) : o[i] = c[i]
          /\ o[Len(c) + 1] = x
      BY <2>5, <2>6, <2>7, AppendProperties
    <2>9. Len(c) + 1 = n - 1
      BY <2>1, <2>5
    <2>. QED BY <1>6, <2>5, <2>8, <2>9 DEF x, o, w, n
  <1>. QED BY <1>5, <1>6

\* Open over midnight: the first window begins the day, the last ends it, and
\* they are apart.
LEMMA OverMidnight ==
    ASSUME NEW sky, IsSky(sky), Merged(sky)
    PROVE  LET w == Windows(sky)
               n == Cardinality(Starts(sky))
           IN  w[1].start = 0 /\ w[n].end = Day /\ w[1].end < w[n].start
  <1> DEFINE w == Windows(sky)
             n == Cardinality(Starts(sky))
  <1>1. n \in Nat /\ n > 1 /\ 1 \in 1 .. n /\ n \in 1 .. n
    BY WindowsInOrder, SMT DEF Merged
  <1>2. w[1].end < w[n].start
    BY <1>1, WindowsApart
  <1>3. \A k \in 1 .. n :
            w[k].start \in 0 .. Day - 1 /\ w[k].end \in 1 .. Day
    BY WindowsInOrder
  <1>4. w[1].start = 0
    <2>1. 0 \in Starts(sky)
      BY DayTyped, SMT DEF Starts, Merged
    <2>2. PICK k \in 1 .. n : w[k].start = 0
      BY <2>1, WindowsInOrder
    <2>3. k # 1 => w[1].start < w[k].start
      <3>1. k # 1 => 1 < k
        BY <1>1, SMT
      <3>. QED BY <1>1, <3>1, WindowsInOrder
    <2>. HIDE DEF w, n
    <2>. QED BY <1>1, <1>3, <2>2, <2>3, SMT
  <1>5. w[n].end = Day
    <2>1. Day - 1 \in 0 .. Day - 1 /\ sky[Day - 1]
      BY DayTyped DEF Merged, IsSky
    <2>2. PICK k \in 1 .. n : Day - 1 < w[k].end
      BY <2>1, WindowsCover
    <2>3. w[k].end = Day
      <3>1. w[k].end \in 1 .. Day
        BY <1>3
      <3>. HIDE DEF w, n
      <3>. QED BY <2>2, <3>1, DayTyped, SMT
    <2>4. k # n => w[k].end < w[n].start
      <3>1. k # n => k < n
        BY <1>1, SMT
      <3>. QED BY <1>1, <3>1, WindowsApart
    <2>5. w[n].start \in 0 .. Day - 1
      BY <1>1, <1>3
    <2>. HIDE DEF w, n
    <2>6. k = n
      BY <2>3, <2>4, <2>5, DayTyped, SMT
    <2>. QED BY <2>3, <2>6
  <1>. QED BY <1>2, <1>4, <1>5

\* A window of the day has its minutes, and only visible ones.
LEMMA OneWindow ==
    ASSUME NEW sky, IsSky(sky), NEW k \in 1 .. Cardinality(Starts(sky))
    PROVE  LET w == Windows(sky)[k]
           IN  /\ w.start \in 0 .. Day - 1 /\ w.end \in 1 .. Day
               /\ w.start < w.end
               /\ \A m \in 0 .. Day - 1 :
                      w.start =< m /\ m < w.end => sky[m]
               /\ w.end < Day \/ sky[Day - 1]
  <1> DEFINE w == Windows(sky)[k]
  <1>1. /\ w.start \in 0 .. Day - 1 /\ w.end \in 1 .. Day
        /\ w.start \in Starts(sky) /\ w.end = EndOf(sky, w.start)
    BY WindowsInOrder
  <1>2. sky[w.start]
    BY <1>1 DEF Starts
  <1>3. /\ w.end \in w.start + 1 .. Day
        /\ \A m \in w.start .. w.end - 1 : sky[m]
    BY <1>1, <1>2, EndOfWindow
  <1>. HIDE DEF w
  <1>4. w.start < w.end
    BY <1>1, <1>3, SMT
  <1>5. \A m \in 0 .. Day - 1 : w.start =< m /\ m < w.end => sky[m]
    <2>1. \A m \in 0 .. Day - 1 :
              w.start =< m /\ m < w.end => m \in w.start .. w.end - 1
      BY <1>1, DayTyped, SMT
    <2>. QED BY <1>3, <2>1
  <1>6. w.end < Day \/ sky[Day - 1]
    <2>1. w.end < Day \/ (Day - 1 \in 0 .. Day - 1 /\ w.start =< Day - 1
                              /\ Day - 1 < w.end)
      BY <1>1, DayTyped, SMT
    <2>. QED BY <1>5, <2>1
  <1>. QED BY <1>1, <1>4, <1>5, <1>6 DEF w

\* The answer is right: its windows are visible, in the order of their starts,
\* and all there is to see.
LEMMA OutWindowsRight ==
    ASSUME NEW sky, IsSky(sky)
    PROVE  Right(OutWindows(sky), sky)
  <1> DEFINE w == Windows(sky)
             n == Cardinality(Starts(sky))
             o == OutWindows(sky)
  <1>1. /\ n \in Nat
        /\ \A i, j \in 1 .. n : i < j => w[i].start < w[j].start
    BY WindowsInOrder
  <1>2. \A k \in 1 .. n :
            /\ w[k].start \in 0 .. Day - 1 /\ w[k].end \in 1 .. Day
            /\ w[k].start < w[k].end
            /\ \A m \in 0 .. Day - 1 :
                   w[k].start =< m /\ m < w[k].end => sky[m]
    BY OneWindow
  <1>3. ASSUME NEW k \in 1 .. n
        PROVE  LET x == Window(w[k].start, w[k].end)
               IN  /\ x.start = w[k].start
                   /\ \A m \in 0 .. Day - 1 :
                          Inside(m, x) <=> w[k].start =< m /\ m < w[k].end
    <2>. HIDE DEF w
    <2>. QED BY <1>2, ClockWindow
  <1>4. ASSUME NEW m \in 0 .. Day - 1, sky[m]
        PROVE  \E k \in 1 .. n : w[k].start =< m /\ m < w[k].end
    BY <1>4, WindowsCover
  <1>5. CASE ~Merged(sky)
    <2>1. /\ o \in Seq(ClockWindows) /\ Len(o) = n
          /\ \A k \in 1 .. n : o[k] = Window(w[k].start, w[k].end)
      BY <1>5, ClockedWindows
    <2>. HIDE DEF w, n, o
    <2>2. DOMAIN o = 1 .. n
      BY <2>1, LenProperties
    <2>3. \A k \in 1 .. n :
              /\ o[k].start = w[k].start
              /\ \A m \in 0 .. Day - 1 :
                     Inside(m, o[k]) <=> w[k].start =< m /\ m < w[k].end
      BY <1>3, <2>1
    <2>4. \A i, j \in 1 .. n : i < j => o[i].start < o[j].start
      BY <1>1, <2>3
    <2>5. \A k \in 1 .. n, m \in 0 .. Day - 1 : Inside(m, o[k]) => sky[m]
      BY <1>2, <2>3
    <2>6. \A m \in 0 .. Day - 1 : sky[m] => \E k \in 1 .. n : Inside(m, o[k])
      BY <1>4, <2>3
    <2>. QED BY <2>1, <2>2, <2>4, <2>5, <2>6 DEF Right, o
  <1>6. CASE Merged(sky)
    <2>1. /\ o \in Seq(ClockWindows) /\ Len(o) = n - 1
          /\ \A k \in 1 .. n - 2 :
                 o[k] = Window(w[k + 1].start, w[k + 1].end)
          /\ o[n - 1] = Window(w[n].start, w[1].end)
      BY <1>6, ClockedWindows
    <2>2. w[1].start = 0 /\ w[n].end = Day /\ w[1].end < w[n].start
      BY <1>6, OverMidnight
    <2>3. n > 1 /\ 1 \in 1 .. n /\ n \in 1 .. n /\ n - 1 \in Nat
      BY <1>1, <1>6, SMT DEF Merged
    <2>. HIDE DEF w, n, o
    <2>4. DOMAIN o = 1 .. n - 1
      BY <2>1, LenProperties
    <2>5. \A k \in 1 .. n - 2 : k + 1 \in 1 .. n
      BY <2>3, <1>1
    <2>6. \A k \in 1 .. n - 2 :
              /\ o[k].start = w[k + 1].start
              /\ \A m \in 0 .. Day - 1 :
                     Inside(m, o[k])
                         <=> w[k + 1].start =< m /\ m < w[k + 1].end
      BY <1>3, <2>1, <2>5
    <2>7. /\ o[n - 1].start = w[n].start
          /\ \A m \in 0 .. Day - 1 :
                 Inside(m, o[n - 1]) <=> w[n].start =< m \/ m < w[1].end
      <3>1. w[n].start \in 0 .. Day - 1 /\ w[1].end \in 1 .. Day
        BY <1>2, <2>3
      <3>. QED BY <2>1, <2>2, <3>1, ClockWindow
    <2>8. \A k \in 1 .. n - 1 : k = n - 1 \/ k \in 1 .. n - 2
      BY <1>1, <2>3, SMT
    <2>9. ASSUME NEW i \in 1 .. n - 1, NEW j \in 1 .. n - 1, i < j
          PROVE  o[i].start < o[j].start
      <3>1. /\ i + 1 \in 1 .. n /\ j + 1 \in 1 .. n /\ i + 1 < j + 1
            /\ i \in 1 .. n - 2 /\ (j = n - 1 => j + 1 = n)
        BY <1>1, <2>3, <2>9, SMT
      <3>2. w[i + 1].start < w[j + 1].start
        BY <1>1, <3>1
      <3>3. o[j].start = w[j + 1].start
        BY <2>6, <2>7, <2>8, <3>1
      <3>. QED BY <2>6, <3>1, <3>2, <3>3
    <2>10. ASSUME NEW k \in 1 .. n - 1, NEW m \in 0 .. Day - 1,
                  Inside(m, o[k])
           PROVE  sky[m]
      <3>1. CASE k \in 1 .. n - 2
        BY <1>2, <2>5, <2>6, <2>10, <3>1
      <3>2. CASE k = n - 1
        <4>1. m \in Nat /\ m < Day /\ 0 =< m
          BY DayTyped, SMT
        <4>2. w[n].start =< m \/ m < w[1].end
          BY <2>7, <2>10, <3>2
        <4>. QED BY <1>2, <2>2, <2>3, <4>1, <4>2
      <3>. QED BY <2>8, <3>1, <3>2
    <2>11. ASSUME NEW m \in 0 .. Day - 1, sky[m]
           PROVE  \E k \in 1 .. n - 1 : Inside(m, o[k])
      <3>1. PICK k \in 1 .. n : w[k].start =< m /\ m < w[k].end
        BY <1>4, <2>11
      <3>2. CASE k = 1 \/ k = n
        <4>1. n - 1 \in 1 .. n - 1
          BY <2>3
        <4>2. Inside(m, o[n - 1])
          BY <2>7, <3>1, <3>2
        <4>. QED BY <4>1, <4>2
      <3>3. CASE k # 1 /\ k # n
        <4>1. PICK j \in 1 .. n - 2 : k = j + 1
          <5>1. k - 1 \in 1 .. n - 2 /\ k = (k - 1) + 1
            BY <1>1, <3>3, SMT
          <5>. QED BY <5>1
        <4>2. Inside(m, o[j]) /\ j \in 1 .. n - 1
          BY <2>3, <2>6, <3>1, <4>1
        <4>. QED BY <4>2
      <3>. QED BY <3>2, <3>3
    <2>. QED BY <2>1, <2>4, <2>9, <2>10, <2>11 DEF Right, o
  <1>. QED BY <1>5, <1>6

\* A target that is down around midnight sets after it has risen.
LEMMA DownAtMidnight ==
    ASSUME NEW sky, IsSky(sky), ~sky[0], ~sky[Day - 1]
    PROVE  \A k \in DOMAIN OutWindows(sky) :
               OutWindows(sky)[k].start =< OutWindows(sky)[k].end
  <1> DEFINE w == Windows(sky)
             n == Cardinality(Starts(sky))
             o == OutWindows(sky)
  <1>1. /\ o \in Seq(ClockWindows) /\ Len(o) = n
        /\ \A k \in 1 .. n : o[k] = Window(w[k].start, w[k].end)
    <2>1. ~Merged(sky)
      BY DEF Merged
    <2>. QED BY <2>1, ClockedWindows
  <1>2. DOMAIN o = 1 .. n
    <2>. HIDE DEF o, n
    <2>. QED BY <1>1, LenProperties
  <1>3. \A k \in 1 .. n :
            /\ w[k].start \in 0 .. Day - 1 /\ w[k].end \in 1 .. Day
            /\ w[k].start < w[k].end /\ w[k].end < Day
    BY OneWindow
  <1>. HIDE DEF w, n, o
  <1>4. ASSUME NEW k \in 1 .. n PROVE o[k].start =< o[k].end
    <2>1. o[k].start = w[k].start /\ o[k].end = w[k].end
      BY <1>1, <1>3, ClockWindow
    <2>2. w[k].start \in Int /\ w[k].end \in Int /\ w[k].start < w[k].end
      BY <1>3
    <2>. QED BY <2>1, <2>2
  <1>. QED BY <1>2, <1>4 DEF o

-----------------------------------------------------------------------------
(* The invariant: what a request has found, stored or will store. *)

Rows == [target : Targets, window : ClockWindows]

\* The windows of a target on the date.
WindowsOn(t) == OutWindows(visible[t])

TypeInv ==
    /\ visible \in Skies
    /\ cache \in Seq(Rows)
    /\ pc \in [Requests -> {"idle", "select", "store", "answered", "done"}]
    /\ wanted \in [Requests -> Seq(Targets)]
    /\ left \in [Requests -> Seq(Targets)]
    /\ cachedResults \in [Requests -> [Targets -> Seq(ClockWindows)]]
    /\ computedResults \in [Requests -> [Targets -> Seq(ClockWindows)]]
    /\ toInsert \in [Requests -> Seq(Rows)]

LEMMA ConstantsTyped ==
    /\ Script \in Requests /\ Sun \in Targets
    /\ Wanted \subseteq Seq(Targets)
    /\ Now \in Int /\ MaxId \in Nat /\ AimTime \in Nat
  BY VisibilityAssumption, PlanTimesAssumption

LEMMA RightWindows ==
    ASSUME TypeInv, NEW t \in Targets
    PROVE  IsSky(visible[t]) /\ Right(WindowsOn(t), visible[t])
  <1>1. visible \in Skies /\ visible \in [Targets -> [0 .. Day -> BOOLEAN]]
    BY VisibilityAssumption DEF TypeInv
  <1>2. visible[t][Day] => visible[t][Day - 1]
    BY <1>1, SkyAssumption
  <1>3. IsSky(visible[t])
    BY <1>1, <1>2 DEF IsSky
  <1>. QED BY <1>3, OutWindowsRight DEF WindowsOn

\* A SELECT answers with the windows of the rows, in the order of their starts.
LEMMA CachedWindowsSorted ==
    ASSUME TypeInv, NEW t \in Targets
    PROVE  LET c == CachedWindows(t)
           IN  /\ c \in Seq(ClockWindows)
               /\ \A k \in DOMAIN c :
                      \E id \in CachedRows(t) : c[k] = cache[id].window
               /\ \A id \in CachedRows(t) :
                      \E k \in DOMAIN c : c[k] = cache[id].window
               /\ \A i, j \in DOMAIN c : i < j => c[i].start =< c[j].start
  <1> DEFINE ids == CachedRows(t)
             R == ByStart(ids)
             n == Cardinality(ids)
             order == InOrder(ids, R)
             c == CachedWindows(t)
  <1>1. /\ Len(cache) \in Nat /\ ids \subseteq 1 .. Len(cache)
        /\ \A id \in ids : cache[id] \in Rows
    <2>1. cache \in Seq(Rows)
      BY DEF TypeInv
    <2>2. Len(cache) \in Nat /\ DOMAIN cache = 1 .. Len(cache)
      BY <2>1, LenProperties
    <2>3. \A id \in 1 .. Len(cache) : cache[id] \in Rows
      BY <2>1, ElementOfSeq
    <2>. QED BY <2>2, <2>3 DEF CachedRows
  <1>2. ASSUME NEW id \in ids
        PROVE  /\ id \in Int /\ cache[id].window \in ClockWindows
               /\ cache[id].window.start \in Int
    <2>1. cache[id].window \in ClockWindows
      BY <1>1 DEF Rows
    <2>. QED BY <1>1, <2>1, DayTyped DEF ClockWindows
  <1>3. IsFiniteSet(ids)
    <2>1. IsFiniteSet(1 .. Len(cache))
      BY <1>1, FS_Interval
    <2>. HIDE DEF ids
    <2>. QED BY <1>1, <2>1, FS_Subset
  <1>. HIDE DEF ids
  <1>4. \A a, b \in ids :
            <<a, b>> \in R <=>
                \/ cache[a].window.start < cache[b].window.start
                \/ /\ cache[a].window.start = cache[b].window.start
                   /\ a < b
    BY DEF ByStart
  <1>. HIDE DEF R
  <1>5. StrictOrder(ids, R)
    <2>1. \A x \in ids : <<x, x>> \notin R
      BY <1>2, <1>4, SMT
    <2>2. \A x, y, z \in ids :
              <<x, y>> \in R /\ <<y, z>> \in R => <<x, z>> \in R
      BY <1>2, <1>4, SMT
    <2>3. \A x, y \in ids : x # y => <<x, y>> \in R \/ <<y, x>> \in R
      BY <1>2, <1>4, SMT
    <2>. QED BY <2>1, <2>2, <2>3 DEF StrictOrder
  <1>6. /\ n \in Nat
        /\ order \in [1 .. n -> ids]
        /\ \A x \in ids : \E k \in 1 .. n : order[k] = x
        /\ \A i, j \in 1 .. n : i < j => <<order[i], order[j]>> \in R
    BY <1>3, <1>5, InOrderSorts
  <1>7. c = [k \in DOMAIN order |-> cache[order[k]].window]
    BY DEF CachedWindows, WindowsOf, ids, R
  <1>. HIDE DEF n, order, c
  <1>8. c \in [1 .. n -> ClockWindows]
    BY <1>2, <1>6, <1>7
  <1>9. c \in Seq(ClockWindows) /\ DOMAIN c = 1 .. n
    BY <1>6, <1>8, FunctionIsSeq
  <1>10. \A k \in 1 .. n : order[k] \in ids /\ c[k] = cache[order[k]].window
    BY <1>6, <1>7
  <1>11. ASSUME NEW i \in 1 .. n, NEW j \in 1 .. n, i < j
         PROVE  c[i].start =< c[j].start
    <2>1. <<order[i], order[j]>> \in R
      BY <1>6, <1>11
    <2>2. /\ c[i].start \in Int /\ c[j].start \in Int
          /\ c[i].start < c[j].start \/ c[i].start = c[j].start
      BY <1>2, <1>4, <1>10, <2>1
    <2>. QED BY <2>2
  <1>12. \A k \in 1 .. n : \E id \in ids : c[k] = cache[id].window
    BY <1>10
  <1>13. \A id \in ids : \E k \in 1 .. n : c[k] = cache[id].window
    BY <1>6, <1>10
  <1>. QED BY <1>9, <1>11, <1>12, <1>13 DEF c, ids

\* The order in which an answer of the program is gone through is one.
LEMMA SolarFirstStrict ==
    ASSUME NEW r, NEW places, places \subseteq Nat \X Nat
    PROVE  StrictOrder(places, SolarFirst(r, places))
  <1> DEFINE R == SolarFirst(r, places)
             later(k) == wanted[r][k] # Sun
             Before(a, b) == \/ ~later(a[1]) /\ later(b[1])
                             \/ /\ later(a[1]) <=> later(b[1])
                                /\ \/ a[1] < b[1]
                                   \/ a[1] = b[1] /\ a[2] < b[2]
  <1>1. \A a, b \in places : <<a, b>> \in R <=> Before(a, b)
    BY DEF SolarFirst
  <1>2. \A a \in places : a = <<a[1], a[2]>> /\ a[1] \in Nat /\ a[2] \in Nat
    OBVIOUS
  <1>. HIDE DEF R, later
  <1>3. \A x \in places : <<x, x>> \notin R
    BY <1>1, <1>2, SMT
  <1>4. ASSUME NEW x \in places, NEW y \in places, NEW z \in places,
               <<x, y>> \in R, <<y, z>> \in R
        PROVE  <<x, z>> \in R
    <2>1. Before(x, y) /\ Before(y, z)
      BY <1>1, <1>4
    <2>2. Before(x, z)
      BY <1>2, <2>1, SMT
    <2>. QED BY <1>1, <2>2
  <1>5. ASSUME NEW x \in places, NEW y \in places, x # y
        PROVE  <<x, y>> \in R \/ <<y, x>> \in R
    <2>1. x[1] # y[1] \/ x[2] # y[2]
      BY <1>2, <1>5
    <2>2. Before(x, y) \/ Before(y, x)
      BY <1>2, <2>1, SMT
    <2>. QED BY <1>1, <2>2
  <1>. QED BY <1>3, <1>4, <1>5 DEF StrictOrder, R

TargetRow(t, w) == [target |-> t, window |-> w]

\* The rows that Compute leaves to be stored: for each target in them, all its
\* windows, from the first one on.
RowsRight(rows) ==
    \A i \in DOMAIN rows :
        LET t == rows[i].target
            Has(w, k) == \E j \in 1 .. k : rows[j] = TargetRow(t, w)
        IN  /\ rows[i].window \in Range(WindowsOn(t))
            /\ \A w \in Range(WindowsOn(t)) : Has(w, Len(rows))
            /\ Has(WindowsOn(t)[1], i)

LEMMA ComputedRows ==
    ASSUME TypeInv, NEW r \in Requests, Compute(r)
    PROVE  /\ computedResults' \in [Requests -> [Targets -> Seq(ClockWindows)]]
           /\ \A q \in Requests, t \in Targets :
                  computedResults'[q][t]
                      \in {<<>>, WindowsOn(t), computedResults[q][t]}
           /\ \E rows \in Seq(Rows) :
                  /\ toInsert' = [toInsert EXCEPT ![r] = rows]
                  /\ RowsRight(rows)
  <1> DEFINE K == ToCompute(r)
             windows(k) == computedResults'[r][wanted[r][k]]
             places == UNION {{k} \X DOMAIN windows(k) : k \in K}
             R == SolarFirst(r, places)
             order == InOrder(places, R)
             n == Cardinality(places)
             tgt(i) == wanted[r][order[i][1]]
             win(i) == windows(order[i][1])[order[i][2]]
             rows == [i \in DOMAIN order |-> TargetRow(tgt(i), win(i))]
  <1>1. PICK found : computedResults' =
                         [computedResults EXCEPT ![r] =
                             [t \in Targets |->
                                 IF t \in found THEN WindowsOn(t) ELSE <<>>]]
    BY DEF Compute, WindowsOn
  <1>2. toInsert' = [toInsert EXCEPT ![r] = rows]
    BY DEF Compute, TargetRow
  <1>3. \A t \in Targets : WindowsOn(t) \in Seq(ClockWindows)
    BY RightWindows DEF Right
  <1>4. \A t \in Targets :
            /\ computedResults'[r][t] \in {<<>>, WindowsOn(t)}
            /\ computedResults'[r][t] \in Seq(ClockWindows)
    BY <1>1, <1>3, EmptySeq DEF TypeInv
  <1>5. /\ computedResults' \in [Requests -> [Targets -> Seq(ClockWindows)]]
        /\ \A q \in Requests, t \in Targets :
               computedResults'[q][t]
                   \in {<<>>, WindowsOn(t), computedResults[q][t]}
    BY <1>1, <1>3, <1>4, EmptySeq DEF TypeInv
  <1>6. /\ Len(wanted[r]) \in Nat /\ K \subseteq 1 .. Len(wanted[r])
        /\ \A k \in K : wanted[r][k] \in Targets
    <2>1. wanted[r] \in Seq(Targets)
      BY DEF TypeInv
    <2>2. Len(wanted[r]) \in Nat /\ DOMAIN wanted[r] = 1 .. Len(wanted[r])
      BY <2>1, LenProperties
    <2>3. \A k \in 1 .. Len(wanted[r]) : wanted[r][k] \in Targets
      BY <2>1, ElementOfSeq
    <2>. QED BY <2>2, <2>3 DEF ToCompute
  <1>. HIDE DEF K, windows
  <1>7. ASSUME NEW k \in K
        PROVE  /\ windows(k) \in {<<>>, WindowsOn(wanted[r][k])}
               /\ windows(k) \in Seq(ClockWindows)
               /\ Len(windows(k)) \in Nat
               /\ DOMAIN windows(k) = 1 .. Len(windows(k))
               /\ \A j \in DOMAIN windows(k) : windows(k)[j] \in ClockWindows
    <2>1. windows(k) \in {<<>>, WindowsOn(wanted[r][k])}
          /\ windows(k) \in Seq(ClockWindows)
      BY <1>4, <1>6 DEF windows
    <2>2. /\ Len(windows(k)) \in Nat
          /\ DOMAIN windows(k) = 1 .. Len(windows(k))
      BY <2>1, LenProperties
    <2>3. \A j \in 1 .. Len(windows(k)) : windows(k)[j] \in ClockWindows
      BY <2>1, ElementOfSeq
    <2>. QED BY <2>1, <2>2, <2>3
  <1>8. places \subseteq Nat \X Nat
    <2>1. \A k \in K : k \in Nat
      BY <1>6
    <2>2. \A k \in K : DOMAIN windows(k) \subseteq Nat
      BY <1>7
    <2>. QED BY <2>1, <2>2
  <1>9. IsFiniteSet(places)
    <2>1. IsFiniteSet(K)
      <3>1. IsFiniteSet(1 .. Len(wanted[r]))
        BY <1>6, FS_Interval
      <3>. QED BY <1>6, <3>1, FS_Subset
    <2> DEFINE P(k) == {k} \X DOMAIN windows(k)
               Ps == {P(k) : k \in K}
    <2>2. \A k \in K : IsFiniteSet(P(k))
      <3>. SUFFICES ASSUME NEW k \in K PROVE IsFiniteSet(P(k))
        OBVIOUS
      <3>1. IsFiniteSet({k})
        BY FS_Singleton
      <3>2. IsFiniteSet(DOMAIN windows(k))
        <4>1. IsFiniteSet(1 .. Len(windows(k)))
          BY <1>7, FS_Interval
        <4>. QED BY <1>7, <4>1
      <3>. QED BY <3>1, <3>2, FS_Product
    <2>. HIDE DEF P
    <2>3. IsFiniteSet(Ps)
      <3> DEFINE f == [k \in K |-> P(k)]
      <3>1. f \in Surjection(K, Ps)
        BY DEF Surjection
      <3>. HIDE DEF f, Ps
      <3>. QED BY <2>1, <3>1, FS_Surjection
    <2>4. IsFiniteSet(UNION Ps)
      <3>1. \A T \in Ps : IsFiniteSet(T)
        BY <2>2
      <3>. HIDE DEF Ps
      <3>. QED BY <2>3, <3>1, FS_UNION
    <2>. QED BY <2>4 DEF P
  <1>10. \A p \in places :
             /\ p = <<p[1], p[2]>>
             /\ p[1] \in K /\ p[2] \in DOMAIN windows(p[1])
    OBVIOUS
  <1>11. \A k \in K : \A j \in DOMAIN windows(k) : <<k, j>> \in places
    OBVIOUS
  <1>. HIDE DEF places
  <1>12. /\ n \in Nat
         /\ order \in [1 .. n -> places]
         /\ \A x \in places : \E k \in 1 .. n : order[k] = x
         /\ \A i, j \in 1 .. n : i < j => <<order[i], order[j]>> \in R
    <2>1. StrictOrder(places, R)
      BY <1>8, SolarFirstStrict
    <2>. HIDE DEF R
    <2>. QED BY <1>9, <2>1, InOrderSorts
  <1>. HIDE DEF n, order, R
  <1>13. ASSUME NEW i \in 1 .. n
         PROVE  /\ tgt(i) \in Targets /\ win(i) \in ClockWindows
                /\ order[i][1] \in K
                /\ order[i][2] \in DOMAIN windows(order[i][1])
                /\ windows(order[i][1]) = WindowsOn(tgt(i))
                /\ win(i) \in Range(WindowsOn(tgt(i)))
    <2>1. order[i] \in places
      BY <1>12
    <2>2. order[i][1] \in K /\ order[i][2] \in DOMAIN windows(order[i][1])
      BY <1>10, <2>1
    <2>3. windows(order[i][1]) # <<>>
      BY <2>2
    <2>4. windows(order[i][1]) = WindowsOn(tgt(i))
      BY <1>7, <2>2, <2>3
    <2>5. win(i) \in Range(WindowsOn(tgt(i)))
      BY <2>2, <2>4 DEF Range
    <2>. QED BY <1>6, <1>7, <2>2, <2>4, <2>5
  <1>14. /\ DOMAIN rows = 1 .. n
         /\ \A i \in 1 .. n : rows[i] = TargetRow(tgt(i), win(i))
    BY <1>12
  <1>15. \A i \in 1 .. n :
             /\ rows[i] \in Rows
             /\ rows[i].target = tgt(i) /\ rows[i].window = win(i)
    BY <1>13, <1>14 DEF TargetRow, Rows
  <1>. HIDE DEF rows
  <1>16. rows \in Seq(Rows) /\ Len(rows) = n
    <2>1. rows \in [1 .. n -> Rows]
      <3>1. rows = [i \in DOMAIN rows |-> rows[i]]
        BY DEF rows
      <3>. QED BY <3>1, <1>14, <1>15
    <2>. QED BY <1>12, <2>1, FunctionIsSeq
  <1>17. ASSUME NEW i \in 1 .. n, NEW l \in DOMAIN WindowsOn(tgt(i))
         PROVE  \E j \in 1 .. n :
                    /\ rows[j] = TargetRow(tgt(i), WindowsOn(tgt(i))[l])
                    /\ order[j] = <<order[i][1], l>>
    <2>1. <<order[i][1], l>> \in places
      BY <1>11, <1>13
    <2>2. PICK j \in 1 .. n : order[j] = <<order[i][1], l>>
      BY <1>12, <2>1
    <2>3. tgt(j) = tgt(i) /\ win(j) = WindowsOn(tgt(i))[l]
      BY <1>13, <2>2
    <2>. QED BY <1>14, <2>2, <2>3
  <1>18. ASSUME NEW i \in 1 .. n
         PROVE  \E j \in 1 .. i :
                    rows[j] = TargetRow(tgt(i), WindowsOn(tgt(i))[1])
    <2>1. /\ order[i] \in places /\ order[i][2] \in Nat
          /\ 1 =< order[i][2] /\ 1 \in DOMAIN WindowsOn(tgt(i))
      <3>1. order[i][1] \in K /\ order[i][2] \in 1 .. Len(windows(order[i][1]))
        BY <1>7, <1>13
      <3>2. /\ Len(windows(order[i][1])) \in Nat
            /\ DOMAIN WindowsOn(tgt(i)) = 1 .. Len(windows(order[i][1]))
        BY <1>7, <1>13
      <3>. QED BY <1>12, <3>1, <3>2
    <2>2. PICK j \in 1 .. n :
              /\ rows[j] = TargetRow(tgt(i), WindowsOn(tgt(i))[1])
              /\ order[j] = <<order[i][1], 1>>
      BY <1>17, <2>1
    <2>3. CASE i < j
      <3>1. <<order[i], order[j]>> \in R
        BY <1>12, <2>3
      <3>2. order[j][1] = order[i][1] /\ order[j][2] = 1
        <4>1. \A a, b : <<a, b>>[1] = a /\ <<a, b>>[2] = b
          OBVIOUS
        <4>. QED BY <2>2, <4>1
      <3>3. order[i][1] \in Int
        <4>1. \A k \in K : k \in Int
          BY <1>6
        <4>. QED BY <1>13, <4>1
      <3>4. order[i][2] < 1
        BY <3>1, <3>2, <3>3 DEF R, SolarFirst
      <3>. QED BY <2>1, <3>4
    <2>4. CASE ~(i < j)
      <3>1. j \in 1 .. i
        BY <1>12, <2>4
      <3>. QED BY <2>2, <3>1
    <2>. QED BY <2>3, <2>4
  <1>19. RowsRight(rows)
    <2>1. \A i \in 1 .. n : \A w \in Range(WindowsOn(tgt(i))) :
              \E j \in 1 .. n : rows[j] = TargetRow(tgt(i), w)
      BY <1>17 DEF Range
    <2>. HIDE DEF tgt, win
    <2>2. ASSUME NEW i \in DOMAIN rows
          PROVE  /\ rows[i].window \in Range(WindowsOn(rows[i].target))
                 /\ \A w \in Range(WindowsOn(rows[i].target)) :
                        \E j \in 1 .. Len(rows) :
                            rows[j] = TargetRow(rows[i].target, w)
                 /\ \E j \in 1 .. i :
                        rows[j] = TargetRow(rows[i].target,
                                            WindowsOn(rows[i].target)[1])
      <3>1. i \in 1 .. n
        BY <1>14
      <3>2. rows[i].target = tgt(i) /\ rows[i].window = win(i)
        BY <1>15, <3>1
      <3>. QED BY <1>13, <1>16, <1>18, <2>1, <3>1, <3>2
    <2>. QED BY <2>2 DEF RowsRight
  <1>. QED BY <1>2, <1>5, <1>16, <1>19

Ascending(o) == \A i, j \in DOMAIN o : i < j => o[i].start =< o[j].start

TrueRow(row) == row.window \in Range(WindowsOn(row.target))

\* Nothing but windows of the sky is cached, on its way there or answered.
AnswersInv ==
    /\ \A id \in DOMAIN cache : TrueRow(cache[id])
    /\ \A r \in Requests : \A i \in DOMAIN toInsert[r] : TrueRow(toInsert[r][i])
    /\ \A r \in Requests, t \in Targets :
           /\ Ascending(cachedResults[r][t])
           /\ Range(cachedResults[r][t]) \subseteq Range(WindowsOn(t))
           /\ computedResults[r][t] \in {<<>>, WindowsOn(t)}
    /\ \A r \in Requests : pc[r] # "store" => toInsert[r] = <<>>

IInv == TypeInv /\ AnswersInv

\* The steps of planning leave the requests alone, but for the end of the
\* script.
PlanStep(r, t, w) ==
    \/ /\ w \in Range(Answer(r, t))
       /\ \/ r = Script /\ t = Sun /\ PlanSun
          \/ r # Script /\ PlanWindow(r, t, w)
    \/ PlanNothing(r, t)

\* The steps, one by one.
LEMMA StepsOf ==
    ASSUME IInv, Next
    PROVE  \E r \in Requests :
               \/ \E targets \in Seq(Targets) : Ask(r, targets)
               \/ LookUp(r) \/ AllCached(r) \/ Compute(r) \/ Store(r) \/ Stored(r)
               \/ \E t \in Targets, w \in ClockWindows : PlanStep(r, t, w)
  <1>1. ASSUME NEW r \in Requests, NEW t \in Targets
        PROVE  Answer(r, t) \in Seq(ClockWindows)
    BY DEF IInv, TypeInv, Answer
  <1>2. CASE Ask(Script, <<Sun>>)
    <2>1. <<Sun>> \in Seq(Targets)
      BY ConstantsTyped
    <2>. QED BY <1>2, <2>1, ConstantsTyped
  <1>3. CASE PlanSun
    <2>1. Answer(Script, Sun) # <<>>
      BY <1>3 DEF PlanSun
    <2>2. 1 \in DOMAIN Answer(Script, Sun)
      BY <1>1, <2>1, ConstantsTyped, EmptySeq, LenProperties
    <2>3. /\ Answer(Script, Sun)[1] \in Range(Answer(Script, Sun))
          /\ Answer(Script, Sun)[1] \in ClockWindows
      BY <1>1, <2>2, ConstantsTyped, ElementOfSeq, LenProperties DEF Range
    <2>. QED BY <1>3, <2>3, ConstantsTyped DEF PlanStep
  <1>4. ASSUME NEW r \in Requests, User(r)
        PROVE  \/ \E targets \in Seq(Targets) : Ask(r, targets)
               \/ \E t \in Targets, w \in ClockWindows : PlanStep(r, t, w)
    <2>1. CASE \E targets \in Wanted : Ask(r, targets)
      BY <2>1, ConstantsTyped
    <2>2. ASSUME NEW t \in Targets, NEW w \in Range(Answer(r, t)),
                 PlanWindow(r, t, w)
          PROVE  w \in ClockWindows /\ PlanStep(r, t, w)
      <3>1. w \in ClockWindows
        BY <1>1, ElementOfSeq, LenProperties DEF Range
      <3>. QED BY <1>4, <2>2, <3>1 DEF PlanStep, User
    <2>3. ASSUME NEW t \in Targets, PlanNothing(r, t)
          PROVE  \E w \in ClockWindows : PlanStep(r, t, w)
      <3>1. [start |-> 0, end |-> 0] \in ClockWindows
        BY DayTyped DEF ClockWindows
      <3>. QED BY <2>3, <3>1 DEF PlanStep
    <2>. QED BY <1>4, <2>1, <2>2, <2>3 DEF User
  <1>. QED BY <1>2, <1>3, <1>4 DEF Next

\* A step of planning changes the plan, and the script is done.
LEMMA PlanStepFrame ==
    ASSUME NEW r, NEW t, NEW w, PlanStep(r, t, w)
    PROVE  /\ UNCHANGED <<visible, cache, wanted, left, cachedResults,
                          computedResults, toInsert>>
           /\ pc' = pc \/ (pc[r] = "answered" /\ pc' = [pc EXCEPT ![r] = "done"])
  BY DEF PlanStep, PlanSun, PlanWindow, PlanNothing, Goto, requestVars

LEMMA AskKeeps ==
    ASSUME IInv, NEW r \in Requests, NEW targets \in Seq(Targets),
           Ask(r, targets)
    PROVE  IInv'
  <1>1. /\ Nothing \in [Targets -> Seq(ClockWindows)]
        /\ \A t \in Targets : Nothing[t] = <<>>
    BY EmptySeq DEF Nothing
  <1>2. TypeInv'
    BY <1>1 DEF Ask, Goto, planVars, IInv, TypeInv
  <1>3. AnswersInv'
    <2>1. UNCHANGED <<visible, cache, toInsert>>
      BY DEF Ask
    <2>2. \A t \in Targets : WindowsOn(t)' = WindowsOn(t)
      BY <2>1 DEF WindowsOn
    <2>3. ASSUME NEW q \in Requests
          PROVE  pc'[q] # "store" => toInsert'[q] = <<>>
      BY DEF Ask, Goto, IInv, TypeInv, AnswersInv
    <2>4. ASSUME NEW q \in Requests, NEW t \in Targets
          PROVE  /\ Ascending(cachedResults'[q][t])
                 /\ Range(cachedResults'[q][t]) \subseteq Range(WindowsOn(t))
                 /\ computedResults'[q][t] \in {<<>>, WindowsOn(t)}
      <3>1. CASE q = r
        <4>1. cachedResults'[q][t] = <<>> /\ computedResults'[q][t] = <<>>
          BY <1>1, <3>1 DEF Ask, IInv, TypeInv
        <4>. QED BY <4>1 DEF Ascending, Range
      <3>2. CASE q # r
        <4>1. /\ cachedResults'[q][t] = cachedResults[q][t]
              /\ computedResults'[q][t] = computedResults[q][t]
          BY <3>2 DEF Ask, IInv, TypeInv
        <4>. QED BY <4>1 DEF IInv, AnswersInv
      <3>. QED BY <3>1, <3>2
    <2>5. \A q \in Requests, t \in Targets :
              Ascending(cachedResults[q][t])' = Ascending(cachedResults'[q][t])
      BY DEF Ascending
    <2>. QED BY <2>1, <2>2, <2>3, <2>4, <2>5
             DEF AnswersInv, IInv, TrueRow, WindowsOn
  <1>. QED BY <1>2, <1>3 DEF IInv

LEMMA LookUpKeeps ==
    ASSUME IInv, NEW r \in Requests, LookUp(r)
    PROVE  IInv'
  <1> DEFINE t == Head(left[r])
             c == CachedWindows(t)
  <1>1. /\ left[r] \in Seq(Targets) /\ left[r] # <<>>
        /\ t \in Targets /\ Tail(left[r]) \in Seq(Targets)
    BY HeadTailProperties DEF LookUp, IInv, TypeInv
  <1>2. /\ c \in Seq(ClockWindows)
        /\ \A k \in DOMAIN c :
               \E id \in CachedRows(t) : c[k] = cache[id].window
        /\ \A i, j \in DOMAIN c : i < j => c[i].start =< c[j].start
    <2>. HIDE DEF t
    <2>. QED BY <1>1, CachedWindowsSorted DEF IInv
  <1>3. /\ cachedResults' = [cachedResults EXCEPT ![r][t] = c]
        /\ left' = [left EXCEPT ![r] = Tail(left[r])]
        /\ UNCHANGED <<visible, cache, pc, wanted, computedResults, toInsert>>
    BY DEF LookUp
  <1>. HIDE DEF t, c
  <1>4. TypeInv'
    BY <1>1, <1>2, <1>3 DEF IInv, TypeInv
  <1>5. ASSUME NEW q \in Requests, NEW u \in Targets
        PROVE  /\ Ascending(cachedResults'[q][u])
               /\ Range(cachedResults'[q][u]) \subseteq Range(WindowsOn(u))
    <2>1. CASE q = r /\ u = t
      <3>1. cachedResults'[q][u] = c
        BY <1>1, <1>3, <2>1 DEF IInv, TypeInv
      <3>2. \A id \in CachedRows(t) :
                cache[id].window \in Range(WindowsOn(t))
        BY DEF CachedRows, IInv, AnswersInv, TrueRow
      <3>. QED BY <1>2, <2>1, <3>1, <3>2 DEF Ascending, Range
    <2>2. CASE ~(q = r /\ u = t)
      <3>1. cachedResults'[q][u] = cachedResults[q][u]
        BY <1>3, <2>2 DEF IInv, TypeInv
      <3>. QED BY <3>1 DEF IInv, AnswersInv
    <2>. QED BY <2>1, <2>2
  <1>6. \A q \in Requests, u \in Targets :
            Ascending(cachedResults[q][u])' = Ascending(cachedResults'[q][u])
    BY DEF Ascending
  <1>7. AnswersInv'
    BY <1>3, <1>5, <1>6 DEF IInv, AnswersInv, TrueRow, WindowsOn
  <1>. QED BY <1>4, <1>7 DEF IInv

LEMMA ComputeKeeps ==
    ASSUME IInv, NEW r \in Requests, Compute(r)
    PROVE  IInv'
  <1>1. PICK rows \in Seq(Rows) :
            toInsert' = [toInsert EXCEPT ![r] = rows] /\ RowsRight(rows)
    BY ComputedRows DEF IInv
  <1>2. /\ computedResults' \in [Requests -> [Targets -> Seq(ClockWindows)]]
        /\ \A q \in Requests, t \in Targets :
               computedResults'[q][t]
                   \in {<<>>, WindowsOn(t), computedResults[q][t]}
    BY ComputedRows DEF IInv
  <1>3. /\ pc' = [pc EXCEPT ![r] = "store"]
        /\ UNCHANGED <<visible, cache, wanted, left, cachedResults>>
    BY DEF Compute, Goto
  <1>4. TypeInv'
    BY <1>1, <1>2, <1>3 DEF IInv, TypeInv
  <1>5. \A q \in Requests, t \in Targets :
            computedResults'[q][t] \in {<<>>, WindowsOn(t)}
    BY <1>2 DEF IInv, AnswersInv
  <1>6. ASSUME NEW q \in Requests, NEW i \in DOMAIN toInsert'[q]
        PROVE  TrueRow(toInsert'[q][i])
    <2>1. CASE q = r
      <3>1. toInsert'[q] = rows
        BY <1>1, <2>1 DEF IInv, TypeInv
      <3>. QED BY <1>1, <3>1 DEF RowsRight, TrueRow
    <2>2. CASE q # r
      BY <1>1, <1>6, <2>2 DEF IInv, TypeInv, AnswersInv
    <2>. QED BY <2>1, <2>2
  <1>7. ASSUME NEW q \in Requests
        PROVE  pc'[q] # "store" => toInsert'[q] = <<>>
    BY <1>1, <1>3 DEF IInv, TypeInv, AnswersInv
  <1>8. AnswersInv'
    BY <1>3, <1>5, <1>6, <1>7
       DEF IInv, AnswersInv, TrueRow, WindowsOn, Ascending
  <1>. QED BY <1>4, <1>8 DEF IInv

\* What Store does, for the proofs below.
LEMMA StoreFrame ==
    ASSUME IInv, NEW r \in Requests, Store(r)
    PROVE  LET row == toInsert[r][1]
               s == toInsert[r]
           IN  /\ UNCHANGED <<visible, pc, wanted, left, cachedResults,
                              computedResults>>
               /\ Len(s) \in Nat /\ 1 \in 1 .. Len(s)
               /\ DOMAIN s = 1 .. Len(s) /\ row \in Rows
               /\ toInsert' = [toInsert EXCEPT ![r] = Tail(s)]
               /\ Tail(s) \in Seq(Rows) /\ Len(Tail(s)) = Len(s) - 1
               /\ \A i \in 1 .. Len(s) - 1 : Tail(s)[i] = s[i + 1]
               /\ \/ cache' = Append(cache, row)
                  \/ "insert" \in Faults /\ cache' = cache
               /\ cache' \in Seq(Rows)
               /\ Len(cache) \in Nat /\ DOMAIN cache = 1 .. Len(cache)
               /\ \A id \in 1 .. Len(cache) : cache'[id] = cache[id]
               /\ cache' # cache =>
                      /\ DOMAIN cache' = 1 .. Len(cache) + 1
                      /\ cache'[Len(cache) + 1] = row
  <1> DEFINE s == toInsert[r]
             row == s[1]
  <1>1. s \in Seq(Rows) /\ s # <<>>
    BY DEF Store, IInv, TypeInv
  <1>2. cache \in Seq(Rows)
    BY DEF IInv, TypeInv
  <1>. HIDE DEF s
  <1>3. /\ Len(s) \in Nat /\ 1 \in 1 .. Len(s)
        /\ DOMAIN s = 1 .. Len(s) /\ row \in Rows
        /\ Head(s) = row
    <2>1. Len(s) \in Nat \ {0} /\ DOMAIN s = 1 .. Len(s)
      BY <1>1, EmptySeq, LenProperties
    <2>2. 1 \in 1 .. Len(s)
      BY <2>1
    <2>. QED BY <1>1, <2>1, <2>2, ElementOfSeq
  <1>4. /\ Tail(s) \in Seq(Rows) /\ Len(Tail(s)) = Len(s) - 1
        /\ \A i \in 1 .. Len(s) - 1 : Tail(s)[i] = s[i + 1]
    BY <1>1, HeadTailProperties
  <1>5. /\ UNCHANGED <<visible, pc, wanted, left, cachedResults,
                       computedResults>>
        /\ toInsert' = [toInsert EXCEPT ![r] = Tail(s)]
        /\ cache' = Append(cache, Head(s)) \/ ("insert" \in Faults /\ cache' = cache)
    BY DEF Store, s
  <1>6. Len(cache) \in Nat /\ DOMAIN cache = 1 .. Len(cache)
    BY <1>2, LenProperties
  <1>. HIDE DEF row
  <1>7. CASE cache' = Append(cache, row)
    <2>1. /\ cache' \in Seq(Rows) /\ Len(cache') = Len(cache) + 1
          /\ \A id \in 1 .. Len(cache) : cache'[id] = cache[id]
          /\ cache'[Len(cache) + 1] = row
      BY <1>2, <1>3, <1>7, AppendProperties
    <2>2. DOMAIN cache' = 1 .. Len(cache) + 1
      BY <2>1, LenProperties
    <2>. QED BY <1>3, <1>4, <1>5, <1>6, <1>7, <2>1, <2>2 DEF s, row
  <1>8. CASE cache' = cache
    BY <1>2, <1>3, <1>4, <1>5, <1>6, <1>8 DEF s, row
  <1>. QED BY <1>3, <1>5, <1>7, <1>8

LEMMA StoreKeeps ==
    ASSUME IInv, NEW r \in Requests, Store(r)
    PROVE  IInv'
  <1> DEFINE s == toInsert[r]
             row == s[1]
  <1>1. /\ UNCHANGED <<visible, pc, wanted, left, cachedResults,
                       computedResults>>
        /\ Len(s) \in Nat /\ 1 \in 1 .. Len(s)
        /\ DOMAIN s = 1 .. Len(s) /\ row \in Rows
        /\ toInsert' = [toInsert EXCEPT ![r] = Tail(s)]
        /\ Tail(s) \in Seq(Rows) /\ Len(Tail(s)) = Len(s) - 1
        /\ \A i \in 1 .. Len(s) - 1 : Tail(s)[i] = s[i + 1]
        /\ cache' \in Seq(Rows)
        /\ Len(cache) \in Nat /\ DOMAIN cache = 1 .. Len(cache)
        /\ \A id \in 1 .. Len(cache) : cache'[id] = cache[id]
        /\ cache' # cache =>
               /\ DOMAIN cache' = 1 .. Len(cache) + 1
               /\ cache'[Len(cache) + 1] = row
    BY StoreFrame
  <1>2. TypeInv'
    BY <1>1 DEF IInv, TypeInv
  <1>3. \A i \in 1 .. Len(s) : TrueRow(s[i])
    BY <1>1 DEF IInv, AnswersInv
  <1>. HIDE DEF s
  <1>4. ASSUME NEW id \in DOMAIN cache' PROVE TrueRow(cache'[id])
    <2>1. CASE id \in 1 .. Len(cache)
      BY <1>1, <2>1 DEF IInv, AnswersInv
    <2>2. CASE id \notin 1 .. Len(cache)
      <3>1. cache' # cache
        BY <1>1, <1>4, <2>2
      <3>2. id = Len(cache) + 1
        BY <1>1, <1>4, <2>2, <3>1
      <3>. QED BY <1>1, <1>3, <3>1, <3>2
    <2>. QED BY <2>1, <2>2
  <1>5. ASSUME NEW q \in Requests, NEW i \in DOMAIN toInsert'[q]
        PROVE  TrueRow(toInsert'[q][i])
    <2>1. CASE q = r
      <3>1. toInsert'[q] = Tail(s)
        BY <1>1, <2>1 DEF IInv, TypeInv
      <3>2. i \in 1 .. Len(s) - 1
        BY <1>1, <1>5, <3>1, LenProperties
      <3>3. i + 1 \in 1 .. Len(s)
        BY <1>1, <3>2
      <3>. QED BY <1>1, <1>3, <3>1, <3>2, <3>3
    <2>2. CASE q # r
      BY <1>1, <1>5, <2>2 DEF IInv, TypeInv, AnswersInv
    <2>. QED BY <2>1, <2>2
  <1>6. ASSUME NEW q \in Requests
        PROVE  pc'[q] # "store" => toInsert'[q] = <<>>
    <2>1. pc[r] = "store"
      BY DEF Store
    <2>. QED BY <1>1, <2>1 DEF IInv, TypeInv, AnswersInv
  <1>7. AnswersInv'
    BY <1>1, <1>4, <1>5, <1>6
       DEF IInv, AnswersInv, TrueRow, WindowsOn, Ascending
  <1>. QED BY <1>2, <1>7 DEF IInv

\* Steps that only go on to another label.
LEMMA MovesKeep ==
    ASSUME IInv, NEW r \in Requests,
           \/ AllCached(r) \/ Stored(r)
           \/ \E t \in Targets, w \in ClockWindows : PlanStep(r, t, w)
    PROVE  /\ UNCHANGED <<visible, cache, wanted, left, cachedResults,
                          computedResults, toInsert>>
           /\ IInv'
  <1>1. /\ UNCHANGED <<visible, cache, wanted, left, cachedResults,
                       computedResults, toInsert>>
        /\ \/ pc' = pc
           \/ \E label \in {"answered", "done"} :
                  pc' = [pc EXCEPT ![r] = label] /\ toInsert[r] = <<>>
    <2>1. CASE AllCached(r) \/ Stored(r)
      BY <2>1 DEF AllCached, Stored, Goto, IInv, AnswersInv
    <2>2. CASE \E t \in Targets, w \in ClockWindows : PlanStep(r, t, w)
      <3>1. /\ UNCHANGED <<visible, cache, wanted, left, cachedResults,
                           computedResults, toInsert>>
            /\ \/ pc' = pc
               \/ pc[r] = "answered" /\ pc' = [pc EXCEPT ![r] = "done"]
        BY <2>2, PlanStepFrame
      <3>2. pc[r] = "answered" => toInsert[r] = <<>>
        BY DEF IInv, AnswersInv
      <3>. QED BY <3>1, <3>2
    <2>. QED BY <2>1, <2>2
  <1>2. TypeInv'
    BY <1>1 DEF IInv, TypeInv
  <1>3. AnswersInv'
    BY <1>1 DEF IInv, TypeInv, AnswersInv, TrueRow, WindowsOn, Ascending
  <1>. QED BY <1>1, <1>2, <1>3 DEF IInv

LEMMA IInvHolds == Spec => []IInv
  <1>1. Init => IInv
    <2>. SUFFICES ASSUME Init PROVE IInv
      OBVIOUS
    <2>1. /\ Nothing \in [Targets -> Seq(ClockWindows)]
          /\ \A t \in Targets : Nothing[t] = <<>>
      BY EmptySeq DEF Nothing
    <2>2. TypeInv
      BY <2>1, EmptySeq DEF Init, TypeInv
    <2>3. AnswersInv
      BY <2>1 DEF Init, AnswersInv, Ascending, Range
    <2>. QED BY <2>2, <2>3 DEF IInv
  <1>2. IInv /\ [Next]_vars => IInv'
    <2>. SUFFICES ASSUME IInv, [Next]_vars PROVE IInv'
      OBVIOUS
    <2>1. CASE Next
      BY <2>1, StepsOf, AskKeeps, LookUpKeeps, ComputeKeeps, StoreKeeps,
         MovesKeep
    <2>2. CASE UNCHANGED vars
      BY <2>2 DEF vars, requestVars, planVars, IInv, TypeInv, AnswersInv,
                  TrueRow, WindowsOn, Ascending
    <2>. QED BY <2>1, <2>2
  <1>. QED BY <1>1, <1>2, PTL DEF Spec

-----------------------------------------------------------------------------
(* What is planned is visible. *)

LEMMA AnswerIsTrue ==
    ASSUME IInv, NEW r \in Requests, NEW t \in Targets
    PROVE  /\ Answer(r, t) \in Seq(ClockWindows)
           /\ Ascending(Answer(r, t))
           /\ Range(Answer(r, t)) \subseteq Range(WindowsOn(t))
  <1>1. /\ cachedResults[r][t] \in Seq(ClockWindows)
        /\ Ascending(cachedResults[r][t])
        /\ Range(cachedResults[r][t]) \subseteq Range(WindowsOn(t))
        /\ computedResults[r][t] \in Seq(ClockWindows)
        /\ computedResults[r][t] \in {<<>>, WindowsOn(t)}
    BY DEF IInv, TypeInv, AnswersInv
  <1>2. WindowsOn(t) \in Seq(ClockWindows) /\ Ascending(WindowsOn(t))
    <2>1. /\ WindowsOn(t) \in Seq(ClockWindows)
          /\ \A i, j \in DOMAIN WindowsOn(t) :
                 i < j => WindowsOn(t)[i].start < WindowsOn(t)[j].start
      BY RightWindows DEF IInv, Right
    <2>2. \A i \in DOMAIN WindowsOn(t) : WindowsOn(t)[i].start \in Int
      <3>1. \A i \in DOMAIN WindowsOn(t) : WindowsOn(t)[i] \in ClockWindows
        BY <2>1, ElementOfSeq, LenProperties
      <3>. QED BY <3>1, DayTyped DEF ClockWindows
    <2>. QED BY <2>1, <2>2 DEF Ascending
  <1>3. Ascending(<<>>) /\ Range(<<>>) = {}
    BY DEF Ascending, Range
  <1>. QED BY <1>1, <1>2, <1>3 DEF Answer

\* The minutes of any part of a window are inside, those after midnight on the
\* clock of the day.
LEMMA PartOfWindow ==
    ASSUME NEW w \in ClockWindows, NEW from \in Int, NEW to \in Int,
           w.start =< from, from =< to,
           to =< IF w.end < w.start THEN w.end + Day ELSE w.end,
           NEW m \in from .. to - 1
    PROVE  m % Day \in 0 .. Day - 1 /\ Inside(m % Day, w)
  <1>1. /\ w.start \in 0 .. Day - 1 /\ w.end \in 0 .. Day - 1
        /\ m \in Int /\ from =< m /\ m < to
    BY DEF ClockWindows
  <1>2. CASE m < Day
    <2>1. m \in 0 .. Day - 1
      BY <1>1, <1>2, DayTyped, SMT
    <2>2. m % Day = m
      BY <2>1, ClockOfDay DEF Clock
    <2>3. w.start =< m /\ (w.start < w.end => m < w.end)
      BY <1>1, DayTyped, SMT
    <2>4. w.start < w.end \/ w.end < w.start
      BY <1>1, DayTyped, SMT
    <2>. QED BY <2>1, <2>2, <2>3, <2>4 DEF Inside
  <1>3. CASE ~(m < Day)
    <2>1. w.end < w.start /\ m \in Day .. 2 * Day - 1
      BY <1>1, <1>3, DayTyped, SMT
    <2>2. m % Day = m - Day
      <3>1. ASSUME NEW N \in Nat \ {0}, NEW x \in N .. 2 * N - 1
            PROVE  x % N = x - N
        BY SMT
      <3>. QED BY <2>1, <3>1, DayTyped
    <2>3. m - Day \in 0 .. Day - 1 /\ m - Day < w.end /\ ~(w.start < w.end)
      BY <1>1, <2>1, DayTyped, SMT
    <2>. QED BY <2>2, <2>3 DEF Inside
  <1>. QED BY <1>2, <1>3

PlanInv ==
    /\ IsFiniteSet(plan) /\ Cardinality(plan) =< MaxId
    /\ planned \in [1 .. MaxId -> Targets]
    /\ \A row \in plan : row.id \in 1 .. Cardinality(plan)
    /\ PlannedIsVisible

LEMMA InsertKeeps ==
    ASSUME PlanInv, NEW t \in Targets, NEW rec \in Int, NEW end \in Int,
           rec =< end, \A m \in rec .. end - 1 : visible[t][m % Day],
           Insert(t, rec, end), visible' = visible
    PROVE  PlanInv'
  <1> DEFINE n == Cardinality(plan)
             new == Row(n + 1, rec, end)
  <1>1. /\ n + 1 =< MaxId
        /\ plan' = plan \cup {new}
        /\ planned' = [planned EXCEPT ![n + 1] = t]
    BY DEF Insert
  <1>2. /\ IsFiniteSet(plan) /\ n \in Nat
        /\ planned \in [1 .. MaxId -> Targets]
        /\ \A row \in plan : row.id \in 1 .. n
    BY FS_CardinalityType DEF PlanInv
  <1>3. new.id = n + 1 /\ new.rec = rec /\ new.end = end
    BY DEF Row
  <1>. HIDE DEF n, new
  <1>4. n + 1 \in 1 .. MaxId
    BY <1>1, <1>2, ConstantsTyped
  <1>5. new \notin plan
    BY <1>2, <1>3
  <1>6. IsFiniteSet(plan') /\ Cardinality(plan') = n + 1
    <2>1. /\ IsFiniteSet(plan \cup {new})
          /\ Cardinality(plan \cup {new}) = n + 1
      BY <1>2, <1>5, FS_AddElement DEF n
    <2>. QED BY <1>1, <2>1
  <1>7. planned' \in [1 .. MaxId -> Targets]
    BY <1>1, <1>2
  <1>8. \A row \in plan' : row.id \in 1 .. n + 1
    BY <1>1, <1>2, <1>3
  <1>9. ASSUME NEW row \in plan'
        PROVE  /\ row.rec =< row.end
               /\ \A m \in row.rec .. row.end - 1 :
                      visible[planned'[row.id]][m % Day]
    <2>1. CASE row \in plan
      <3>1. row.id \in 1 .. n
        BY <1>2, <2>1
      <3>2. row.id \in 1 .. MaxId /\ row.id # n + 1
        BY <1>1, <1>2, <3>1, ConstantsTyped, SMT
      <3>3. planned'[row.id] = planned[row.id]
        BY <1>1, <1>2, <3>2
      <3>. QED BY <2>1, <3>3 DEF PlanInv, PlannedIsVisible
    <2>2. CASE row = new
      <3>1. planned'[row.id] = t
        BY <1>1, <1>2, <1>3, <1>4, <2>2
      <3>. QED BY <1>3, <2>2, <3>1
    <2>. QED BY <1>1, <2>1, <2>2
  <1>. QED BY <1>1, <1>6, <1>7, <1>8, <1>9 DEF PlanInv, PlannedIsVisible

\* Any part of a window in which the target is visible may be planned.
LEMMA PartKeeps ==
    ASSUME PlanInv, NEW t \in Targets, NEW w \in ClockWindows,
           \A m \in 0 .. Day - 1 : Inside(m, w) => visible[t][m],
           NEW rec \in Int, NEW end \in Int,
           w.start =< rec, rec =< end,
           end =< IF w.end < w.start THEN w.end + Day ELSE w.end,
           Insert(t, rec, end), visible' = visible
    PROVE  PlanInv'
  <1>1. \A m \in rec .. end - 1 : visible[t][m % Day]
    BY PartOfWindow
  <1>. QED BY <1>1, InsertKeeps

LEMMA PlanStepKeeps ==
    ASSUME IInv, PlanInv, NEW r \in Requests, NEW t \in Targets,
           NEW w \in ClockWindows, PlanStep(r, t, w)
    PROVE  PlanInv'
  <1>1. visible' = visible
    BY PlanStepFrame
  <1>2. ASSUME NEW x \in Range(Answer(r, t))
        PROVE  /\ x \in ClockWindows /\ x \in Range(WindowsOn(t))
               /\ \A m \in 0 .. Day - 1 : Inside(m, x) => visible[t][m]
    <2>1. x \in Range(WindowsOn(t))
      BY AnswerIsTrue
    <2>2. Right(WindowsOn(t), visible[t])
      BY RightWindows DEF IInv
    <2>3. PICK k \in DOMAIN WindowsOn(t) : x = WindowsOn(t)[k]
      BY <2>1 DEF Range
    <2>4. x \in ClockWindows
      BY <2>2, <2>3, ElementOfSeq, LenProperties DEF Right
    <2>. QED BY <2>1, <2>2, <2>3, <2>4 DEF Right
  <1>3. CASE r = Script /\ t = Sun /\ PlanSun
    <2> DEFINE first == Head(Answer(Script, Sun))
    <2>1. Answer(Script, Sun) # <<>> /\ Insert(Sun, first.start, first.end)
      BY <1>3 DEF PlanSun
    <2>2. first \in Range(Answer(r, t))
      <3>1. Answer(r, t) \in Seq(ClockWindows) /\ Answer(r, t) # <<>>
        BY <1>3, <2>1, AnswerIsTrue
      <3>2. 1 \in DOMAIN Answer(r, t)
        BY <3>1, EmptySeq, LenProperties
      <3>. QED BY <1>3, <3>1, <3>2 DEF Range
    <2>. HIDE DEF first
    <2>3. first.start =< first.end
      <3>1. ~visible[Sun][0] /\ ~visible[Sun][Day - 1]
        BY SkyAssumption DEF IInv, TypeInv
      <3>2. \A k \in DOMAIN WindowsOn(Sun) :
                WindowsOn(Sun)[k].start =< WindowsOn(Sun)[k].end
        BY <3>1, ConstantsTyped, RightWindows, DownAtMidnight
           DEF WindowsOn, IInv
      <3>. QED BY <1>2, <1>3, <2>2, <3>2 DEF Range
    <2>4. first \in ClockWindows
      BY <1>2, <2>2
    <2>5. first.start \in Int /\ first.end \in Int
      BY <2>4, DayTyped DEF ClockWindows
    <2>6. /\ first.start =< first.start
          /\ first.end =< IF first.end < first.start THEN first.end + Day
                                                     ELSE first.end
      BY <2>3, <2>5
    <2>. QED BY <1>1, <1>2, <1>3, <2>1, <2>2, <2>3, <2>4, <2>5, <2>6,
                PartKeeps
  <1>4. CASE PlanWindow(r, t, w) /\ w \in Range(Answer(r, t))
    <2> DEFINE last == IF w.end < w.start THEN w.end + Day ELSE w.end
    <2>1. PICK from \in w.start .. last, to \in w.start .. last :
              to \in from .. last /\ Insert(t, from, to)
      <3>1. w.start \in Int /\ last \in Int
        BY DayTyped DEF ClockWindows
      <3>2. PICK from \in w.start .. last : \E to \in from .. last :
                    Insert(t, from, to)
        BY <1>4 DEF PlanWindow
      <3>. HIDE DEF last
      <3>3. PICK to \in from .. last : Insert(t, from, to)
        BY <3>2
      <3>4. to \in w.start .. last
        BY <3>1
      <3>. QED BY <3>2, <3>3, <3>4
    <2>2. /\ w.start =< from /\ from =< to /\ to =< last
          /\ from \in Int /\ to \in Int
      BY <2>1
    <2>. QED BY <1>1, <1>2, <1>4, <2>1, <2>2, PartKeeps
  <1>5. CASE PlanNothing(r, t)
    <2>1. Insert(t, 0, 0)
      BY <1>5 DEF PlanNothing
    <2>2. 0 =< 0 /\ \A m \in 0 .. 0 - 1 : visible[t][m % Day]
      OBVIOUS
    <2>. QED BY <1>1, <2>1, <2>2, InsertKeeps
  <1>. QED BY <1>3, <1>4, <1>5 DEF PlanStep

\* What has been planned can be observed from its first to its last minute,
\* although the windows are taken from an answer that may be of an earlier
\* state of the cache (daily_sun_plan.sh:20, script.js): for every sky, every
\* length of the day, and whatever fails.
THEOREM PlansAreVisible == Spec => []PlannedIsVisible
  <1>1. Init => PlanInv
    <2>. SUFFICES ASSUME Init PROVE PlanInv
      OBVIOUS
    <2>1. plan = {} /\ planned = [id \in 1 .. MaxId |-> Sun]
      BY DEF Init
    <2>2. IsFiniteSet(plan) /\ Cardinality(plan) = 0
      BY <2>1, FS_EmptySet
    <2>. QED BY <2>1, <2>2, ConstantsTyped DEF PlanInv, PlannedIsVisible
  <1>2. IInv /\ PlanInv /\ [Next]_vars => PlanInv'
    <2>. SUFFICES ASSUME IInv, PlanInv, [Next]_vars PROVE PlanInv'
      OBVIOUS
    <2>1. CASE UNCHANGED <<visible, planVars>>
      BY <2>1 DEF planVars, PlanInv, PlannedIsVisible
    <2>2. ASSUME NEW r \in Requests, NEW targets, Ask(r, targets)
          PROVE  UNCHANGED <<visible, planVars>>
      BY <2>2 DEF Ask
    <2>3. ASSUME NEW r \in Requests,
                 LookUp(r) \/ AllCached(r) \/ Compute(r) \/ Store(r) \/ Stored(r)
          PROVE  UNCHANGED <<visible, planVars>>
      BY <2>3 DEF LookUp, AllCached, Compute, Store, Stored
    <2>4. UNCHANGED vars => UNCHANGED <<visible, planVars>>
      BY DEF vars
    <2>. QED BY <2>1, <2>2, <2>3, <2>4, StepsOf, PlanStepKeeps
  <1>3. PlanInv => PlannedIsVisible
    BY DEF PlanInv
  <1>. QED BY <1>1, <1>2, <1>3, IInvHolds, PTL DEF Spec

-----------------------------------------------------------------------------
(* What is cached is or will be whole. *)

First(t) == WindowsOn(t)[1]
Cached(t, w) == \E id \in DOMAIN cache : cache[id] = TargetRow(t, w)
Waiting(r, t, w) ==
    \E i \in DOMAIN toInsert[r] : toInsert[r][i] = TargetRow(t, w)

\* If a target is in the table, its first window is, and the others are there
\* or on their way; a request that stores windows stores those of a target from
\* the first one on.
CachedInv ==
    \A t \in Targets : CachedRows(t) # {} =>
        /\ Cached(t, First(t))
        /\ \A w \in Range(WindowsOn(t)) :
               Cached(t, w) \/ \E r \in Requests : Waiting(r, t, w)

WaitingInv ==
    \A r \in Requests : \A i \in DOMAIN toInsert[r] :
        LET t == toInsert[r][i].target
        IN  /\ \/ Cached(t, First(t))
               \/ \E j \in 1 .. i : toInsert[r][j] = TargetRow(t, First(t))
            /\ \A w \in Range(WindowsOn(t)) : Cached(t, w) \/ Waiting(r, t, w)

FirstFound ==
    \A r \in Requests, t \in Targets :
        cachedResults[r][t] # <<>> => cachedResults[r][t][1] = First(t)

WholeInv == CachedInv /\ WaitingInv /\ FirstFound

\* The first window of a SELECT is the first there is.
LEMMA FirstSelected ==
    ASSUME IInv, CachedInv, NEW t \in Targets, CachedWindows(t) # <<>>
    PROVE  CachedWindows(t)[1] = First(t)
  <1> DEFINE c == CachedWindows(t)
             o == WindowsOn(t)
  <1>1. /\ c \in Seq(ClockWindows)
        /\ \A k \in DOMAIN c :
               \E id \in CachedRows(t) : c[k] = cache[id].window
        /\ \A id \in CachedRows(t) :
               \E k \in DOMAIN c : c[k] = cache[id].window
        /\ \A i, j \in DOMAIN c : i < j => c[i].start =< c[j].start
    BY CachedWindowsSorted DEF IInv
  <1>2. /\ o \in Seq(ClockWindows)
        /\ \A i, j \in DOMAIN o : i < j => o[i].start < o[j].start
    BY RightWindows DEF IInv, Right
  <1>. HIDE DEF c, o
  <1>3. Len(c) \in Nat \ {0} /\ DOMAIN c = 1 .. Len(c) /\ 1 \in DOMAIN c
    BY <1>1, EmptySeq, LenProperties DEF c
  <1>4. PICK id \in CachedRows(t) : c[1] = cache[id].window
    BY <1>1, <1>3
  <1>5. PICK l \in DOMAIN o : c[1] = o[l]
    BY <1>4 DEF IInv, AnswersInv, TrueRow, CachedRows, Range, o
  <1>6. Len(o) \in Nat /\ DOMAIN o = 1 .. Len(o) /\ 1 \in DOMAIN o
    BY <1>2, <1>5, LenProperties
  <1>7. PICK k \in DOMAIN c : c[k] = o[1]
    <2>1. Cached(t, o[1])
      BY <1>4 DEF CachedInv, First, o
    <2>2. PICK first \in DOMAIN cache : cache[first] = TargetRow(t, o[1])
      BY <2>1 DEF Cached
    <2>3. first \in CachedRows(t) /\ cache[first].window = o[1]
      BY <2>2 DEF TargetRow, CachedRows
    <2>. QED BY <1>1, <2>3
  <1>8. c[1].start =< c[k].start
    <2>1. o[1] \in ClockWindows
      BY <1>2, <1>6, ElementOfSeq
    <2>2. c[k].start \in Int
      BY <1>7, <2>1, DayTyped DEF ClockWindows
    <2>3. k = 1 \/ 1 < k
      BY <1>3
    <2>. QED BY <1>1, <1>3, <2>2, <2>3
  <1>9. l = 1
    <2>1. o[1] \in ClockWindows /\ o[l] \in ClockWindows
      BY <1>2, <1>6, ElementOfSeq
    <2>2. o[1].start \in Int /\ o[l].start \in Int
      BY <2>1, DayTyped DEF ClockWindows
    <2>3. ~(o[1].start < o[l].start)
      BY <1>5, <1>7, <1>8, <2>2
    <2>4. ~(1 < l)
      BY <1>2, <1>6, <2>3
    <2>. QED BY <1>6, <2>4
  <1>. QED BY <1>5, <1>9 DEF c, o, First

LEMMA AskKeepsWhole ==
    ASSUME IInv, WholeInv, NEW r \in Requests, NEW targets, Ask(r, targets)
    PROVE  WholeInv'
  <1>1. /\ UNCHANGED <<visible, cache, toInsert>>
        /\ cachedResults' = [cachedResults EXCEPT ![r] = Nothing]
    BY DEF Ask
  <1>2. CachedInv' /\ WaitingInv'
    BY <1>1 DEF WholeInv, CachedInv, WaitingInv, CachedRows, Cached, Waiting,
                First, WindowsOn
  <1>3. FirstFound'
    <2>. SUFFICES ASSUME NEW q \in Requests, NEW t \in Targets,
                         cachedResults'[q][t] # <<>>
                  PROVE  cachedResults'[q][t][1] = First(t)
      BY <1>1 DEF FirstFound, First, WindowsOn
    <2>1. q # r
      BY <1>1 DEF Nothing, IInv, TypeInv
    <2>. QED BY <1>1, <2>1 DEF IInv, TypeInv, WholeInv, FirstFound
  <1>. QED BY <1>2, <1>3 DEF WholeInv

LEMMA LookUpKeepsWhole ==
    ASSUME IInv, WholeInv, NEW r \in Requests, LookUp(r)
    PROVE  WholeInv'
  <1> DEFINE u == Head(left[r])
             c == CachedWindows(u)
  <1>1. /\ UNCHANGED <<visible, cache, toInsert>>
        /\ cachedResults' = [cachedResults EXCEPT ![r][u] = c]
    BY DEF LookUp
  <1>2. u \in Targets
    BY HeadTailProperties DEF LookUp, IInv, TypeInv
  <1>. HIDE DEF u
  <1>3. c # <<>> => c[1] = First(u)
    BY <1>2, FirstSelected DEF WholeInv
  <1>. HIDE DEF c
  <1>4. CachedInv' /\ WaitingInv'
    BY <1>1 DEF WholeInv, CachedInv, WaitingInv, CachedRows, Cached, Waiting,
                First, WindowsOn
  <1>5. FirstFound'
    <2>. SUFFICES ASSUME NEW q \in Requests, NEW t \in Targets,
                         cachedResults'[q][t] # <<>>
                  PROVE  cachedResults'[q][t][1] = First(t)
      BY <1>1 DEF FirstFound, First, WindowsOn
    <2>1. CASE q = r /\ t = u
      <3>1. cachedResults'[q][t] = c
        BY <1>1, <1>2, <2>1 DEF IInv, TypeInv
      <3>. QED BY <1>3, <2>1, <3>1
    <2>2. CASE ~(q = r /\ t = u)
      <3>1. cachedResults'[q][t] = cachedResults[q][t]
        BY <1>1, <2>2 DEF IInv, TypeInv
      <3>. QED BY <3>1 DEF WholeInv, FirstFound
    <2>. QED BY <2>1, <2>2
  <1>. QED BY <1>4, <1>5 DEF WholeInv

LEMMA ComputeKeepsWhole ==
    ASSUME IInv, WholeInv, NEW r \in Requests, Compute(r)
    PROVE  WholeInv'
  <1>1. PICK rows \in Seq(Rows) :
            toInsert' = [toInsert EXCEPT ![r] = rows] /\ RowsRight(rows)
    BY ComputedRows DEF IInv
  <1>2. UNCHANGED <<visible, cache, cachedResults>> /\ toInsert[r] = <<>>
    BY DEF Compute, IInv, AnswersInv
  <1>3. \A q \in Requests : q # r => toInsert'[q] = toInsert[q]
    BY <1>1 DEF IInv, TypeInv
  <1>4. toInsert'[r] = rows /\ DOMAIN rows = 1 .. Len(rows)
    BY <1>1, LenProperties DEF IInv, TypeInv
  <1>5. /\ \A t : First(t)' = First(t) /\ WindowsOn(t)' = WindowsOn(t)
        /\ \A t : CachedRows(t)' = CachedRows(t)
        /\ \A t, w : Cached(t, w)' <=> Cached(t, w)
    BY <1>2 DEF First, WindowsOn, CachedRows, Cached
  <1>6. ASSUME NEW q \in Requests, NEW t, NEW w, Waiting(q, t, w)
        PROVE  Waiting(q, t, w)'
    <2>1. q # r
      BY <1>2, <1>6 DEF Waiting
    <2>. QED BY <1>3, <1>6, <2>1 DEF Waiting
  <1>7. CachedInv'
    BY <1>5, <1>6 DEF WholeInv, CachedInv
  <1>8. WaitingInv'
    <2>1. ASSUME NEW q \in Requests, NEW i \in DOMAIN toInsert'[q], NEW t,
                 t = toInsert'[q][i].target
          PROVE  /\ \/ Cached(t, First(t))
                    \/ \E j \in 1 .. i :
                           toInsert'[q][j] = TargetRow(t, First(t))
                 /\ \A w \in Range(WindowsOn(t)) :
                        Cached(t, w) \/ Waiting(q, t, w)'
      <3>1. CASE q = r
        <4>1. i \in DOMAIN rows /\ t = rows[i].target
          BY <1>4, <2>1, <3>1
        <4>2. /\ \E j \in 1 .. i : rows[j] = TargetRow(t, First(t))
              /\ \A w \in Range(WindowsOn(t)) :
                     \E j \in DOMAIN rows : rows[j] = TargetRow(t, w)
          BY <1>1, <1>4, <4>1 DEF RowsRight, First
        <4>3. \A w \in Range(WindowsOn(t)) : Waiting(q, t, w)'
          BY <1>4, <3>1, <4>2 DEF Waiting
        <4>. QED BY <1>4, <3>1, <4>2, <4>3
      <3>2. CASE q # r
        <4>1. toInsert'[q] = toInsert[q] /\ i \in DOMAIN toInsert[q]
          BY <1>3, <2>1, <3>2
        <4>2. /\ \/ Cached(t, First(t))
                 \/ \E j \in 1 .. i :
                        toInsert[q][j] = TargetRow(t, First(t))
              /\ \A w \in Range(WindowsOn(t)) :
                     Cached(t, w) \/ Waiting(q, t, w)
          BY <2>1, <4>1 DEF WholeInv, WaitingInv
        <4>. QED BY <1>6, <4>1, <4>2
      <3>. QED BY <3>1, <3>2
    <2>. QED BY <1>5, <2>1 DEF WaitingInv
  <1>9. FirstFound'
    BY <1>2, <1>5 DEF WholeInv, FirstFound
  <1>. QED BY <1>7, <1>8, <1>9 DEF WholeInv

LEMMA StoreKeepsWhole ==
    ASSUME IInv, WholeInv, NEW r \in Requests, Store(r), "insert" \notin Faults
    PROVE  WholeInv'
  <1> DEFINE s == toInsert[r]
             row == s[1]
             last == Len(cache) + 1
  <1>1. /\ UNCHANGED <<visible, cachedResults>>
        /\ Len(s) \in Nat /\ 1 \in 1 .. Len(s)
        /\ DOMAIN s = 1 .. Len(s) /\ row \in Rows
        /\ toInsert' = [toInsert EXCEPT ![r] = Tail(s)]
        /\ Tail(s) \in Seq(Rows) /\ Len(Tail(s)) = Len(s) - 1
        /\ \A i \in 1 .. Len(s) - 1 : Tail(s)[i] = s[i + 1]
        /\ cache' = Append(cache, row)
        /\ Len(cache) \in Nat /\ DOMAIN cache = 1 .. Len(cache)
        /\ \A id \in 1 .. Len(cache) : cache'[id] = cache[id]
    BY StoreFrame
  <1>2. DOMAIN cache' = 1 .. last /\ cache'[last] = row
    BY <1>1, AppendProperties, LenProperties DEF IInv, TypeInv
  <1>3. toInsert'[r] = Tail(s) /\ DOMAIN Tail(s) = 1 .. Len(s) - 1
    BY <1>1, LenProperties DEF IInv, TypeInv
  <1>4. \A q \in Requests : q # r => toInsert'[q] = toInsert[q]
    BY <1>1 DEF IInv, TypeInv
  <1>5. /\ \A t : First(t)' = First(t) /\ WindowsOn(t)' = WindowsOn(t)
        /\ row = TargetRow(row.target, row.window)
    BY <1>1 DEF First, WindowsOn, TargetRow, Rows
  <1>. HIDE DEF s, row
  <1>6. ASSUME NEW t, NEW w, Cached(t, w) \/ row = TargetRow(t, w)
        PROVE  Cached(t, w)'
    <2>1. CASE Cached(t, w)
      <3>1. PICK id \in 1 .. Len(cache) : cache[id] = TargetRow(t, w)
        BY <1>1, <2>1 DEF Cached
      <3>2. id \in 1 .. last
        BY <1>1
      <3>. QED BY <1>1, <1>2, <3>1, <3>2 DEF Cached
    <2>2. CASE row = TargetRow(t, w)
      <3>1. last \in 1 .. last
        BY <1>1
      <3>. QED BY <1>2, <2>2, <3>1 DEF Cached
    <2>. QED BY <1>6, <2>1, <2>2
  <1>7. ASSUME NEW q \in Requests, NEW t, NEW w, Waiting(q, t, w)
        PROVE  Cached(t, w)' \/ Waiting(q, t, w)'
    <2>1. CASE q # r
      BY <1>4, <1>7, <2>1 DEF Waiting
    <2>2. CASE q = r
      <3>1. PICK i \in 1 .. Len(s) : s[i] = TargetRow(t, w)
        BY <1>1, <1>7, <2>2 DEF Waiting, s
      <3>2. CASE i = 1
        BY <1>6, <3>1, <3>2 DEF row
      <3>3. CASE i # 1
        <4>1. /\ i - 1 \in 1 .. Len(s) - 1 /\ (i - 1) + 1 = i
          BY <1>1, <3>3
        <4>2. Tail(s)[i - 1] = TargetRow(t, w)
          BY <1>1, <3>1, <4>1
        <4>. QED BY <1>3, <2>2, <4>1, <4>2 DEF Waiting
      <3>. QED BY <3>2, <3>3
    <2>. QED BY <2>1, <2>2
  <1>8. ASSUME NEW t
        PROVE  CachedRows(t)' # {} => CachedRows(t) # {} \/ t = row.target
    <2>. SUFFICES ASSUME NEW id \in 1 .. last, cache'[id].target = t,
                         t # row.target
                  PROVE  CachedRows(t) # {}
      BY <1>2 DEF CachedRows
    <2>1. id \in 1 .. Len(cache)
      BY <1>1, <1>2
    <2>. QED BY <1>1, <2>1 DEF CachedRows
  <1>9. /\ row.target \in Targets
        /\ \A w \in Range(WindowsOn(row.target)) :
               Cached(row.target, w) \/ Waiting(r, row.target, w)
        /\ \/ Cached(row.target, First(row.target))
           \/ row = TargetRow(row.target, First(row.target))
    <2>1. /\ \/ Cached(row.target, First(row.target))
             \/ \E j \in 1 .. 1 :
                    s[j] = TargetRow(row.target, First(row.target))
          /\ \A w \in Range(WindowsOn(row.target)) :
                 Cached(row.target, w) \/ Waiting(r, row.target, w)
      BY <1>1 DEF WholeInv, WaitingInv, s, row
    <2>2. \A j \in 1 .. 1 : j = 1
      OBVIOUS
    <2>. QED BY <1>1, <2>1, <2>2 DEF Rows, row
  <1>10. CachedInv'
    <2>. SUFFICES ASSUME NEW t \in Targets, CachedRows(t)' # {}
                  PROVE  /\ Cached(t, First(t))'
                         /\ \A w \in Range(WindowsOn(t)) :
                                \/ Cached(t, w)'
                                \/ \E q \in Requests : Waiting(q, t, w)'
      BY <1>5 DEF CachedInv
    <2>1. /\ Cached(t, First(t)) \/ row = TargetRow(t, First(t))
          /\ \A w \in Range(WindowsOn(t)) :
                 Cached(t, w) \/ \E q \in Requests : Waiting(q, t, w)
      BY <1>8, <1>9 DEF WholeInv, CachedInv
    <2>2. Cached(t, First(t))'
      <3>1. PICK f : f = First(t)
        OBVIOUS
      <3>2. f = First(t)'
        BY <1>5, <3>1
      <3>3. Cached(t, f)'
        BY <1>6, <2>1, <3>1
      <3>. QED BY <3>2, <3>3
    <2>. QED BY <1>6, <1>7, <2>1, <2>2
  <1>11. WaitingInv'
    <2>1. ASSUME NEW q \in Requests, NEW i \in DOMAIN toInsert'[q], NEW t,
                 t = toInsert'[q][i].target
          PROVE  /\ \/ Cached(t, First(t))'
                    \/ \E j \in 1 .. i :
                           toInsert'[q][j] = TargetRow(t, First(t))
                 /\ \A w \in Range(WindowsOn(t)) :
                        Cached(t, w)' \/ Waiting(q, t, w)'
      <3>1. CASE q = r
        <4>1. /\ i \in 1 .. Len(s) - 1 /\ toInsert'[q][i] = s[i + 1]
              /\ i + 1 \in 1 .. Len(s) /\ t = s[i + 1].target
          <5>1. i \in 1 .. Len(s) - 1
            BY <1>3, <2>1, <3>1
          <5>2. i + 1 \in 1 .. Len(s)
            BY <1>1, <5>1
          <5>. QED BY <1>1, <1>3, <2>1, <3>1, <5>1, <5>2
        <4>2. /\ \/ Cached(t, First(t))
                 \/ \E j \in 1 .. i + 1 : s[j] = TargetRow(t, First(t))
              /\ \A w \in Range(WindowsOn(t)) :
                     Cached(t, w) \/ Waiting(q, t, w)
          BY <1>1, <3>1, <4>1 DEF WholeInv, WaitingInv, s
        <4>3. ASSUME NEW j \in 1 .. i + 1, NEW f, s[j] = TargetRow(t, f)
              PROVE  \/ Cached(t, f)'
                     \/ \E k \in 1 .. i : toInsert'[q][k] = TargetRow(t, f)
          <5>1. CASE j = 1
            BY <1>6, <4>3, <5>1 DEF row
          <5>2. CASE j # 1
            <6>1. /\ j - 1 \in 1 .. i /\ j - 1 \in 1 .. Len(s) - 1
                  /\ (j - 1) + 1 = j
              BY <1>1, <4>1, <5>2
            <6>2. toInsert'[q][j - 1] = s[j]
              BY <1>1, <1>3, <3>1, <6>1
            <6>. QED BY <4>3, <6>1, <6>2
          <5>. QED BY <5>1, <5>2
        <4>4. \/ Cached(t, First(t))'
              \/ \E k \in 1 .. i : toInsert'[q][k] = TargetRow(t, First(t))
          <5>1. PICK f : f = First(t)
            OBVIOUS
          <5>2. f = First(t)'
            BY <1>5, <5>1
          <5>3. \/ Cached(t, f)'
                \/ \E k \in 1 .. i : toInsert'[q][k] = TargetRow(t, f)
            BY <1>6, <4>2, <4>3, <5>1
          <5>. QED BY <5>1, <5>2, <5>3
        <4>. QED BY <1>6, <1>7, <4>2, <4>4
      <3>2. CASE q # r
        <4>1. toInsert'[q] = toInsert[q] /\ i \in DOMAIN toInsert[q]
          BY <1>4, <2>1, <3>2
        <4>2. /\ \/ Cached(t, First(t))
                 \/ \E j \in 1 .. i :
                        toInsert[q][j] = TargetRow(t, First(t))
              /\ \A w \in Range(WindowsOn(t)) :
                     Cached(t, w) \/ Waiting(q, t, w)
          BY <2>1, <4>1 DEF WholeInv, WaitingInv
        <4>3. Cached(t, First(t)) => Cached(t, First(t))'
          <5>1. PICK f : f = First(t)
            OBVIOUS
          <5>2. f = First(t)'
            BY <1>5, <5>1
          <5>3. Cached(t, f) => Cached(t, f)'
            BY <1>6
          <5>. QED BY <5>1, <5>2, <5>3
        <4>. QED BY <1>6, <1>7, <4>1, <4>2, <4>3
      <3>. QED BY <3>1, <3>2
    <2>. QED BY <1>5, <2>1 DEF WaitingInv
  <1>12. FirstFound'
    BY <1>1, <1>5 DEF WholeInv, FirstFound
  <1>. QED BY <1>10, <1>11, <1>12 DEF WholeInv

\* An INSERT that fails leaves a window out for good; where none does, what is
\* cached is or will be whole.
LEMMA WholeHolds ==
    ASSUME "insert" \notin Faults
    PROVE  Spec => []WholeInv
  <1>1. Init => WholeInv
    BY DEF Init, Nothing, WholeInv, CachedInv, WaitingInv, FirstFound,
           CachedRows
  <1>2. IInv /\ WholeInv /\ [Next]_vars => WholeInv'
    <2>. SUFFICES ASSUME IInv, WholeInv, [Next]_vars PROVE WholeInv'
      OBVIOUS
    <2>1. CASE UNCHANGED <<visible, cache, toInsert, cachedResults>>
      BY <2>1 DEF WholeInv, CachedInv, WaitingInv, FirstFound, CachedRows,
                  Cached, Waiting, First, WindowsOn
    <2>2. UNCHANGED vars => UNCHANGED <<visible, cache, toInsert, cachedResults>>
      BY DEF vars, requestVars
    <2>. QED BY <2>1, <2>2, StepsOf, AskKeepsWhole, LookUpKeepsWhole,
                ComputeKeepsWhole, StoreKeepsWhole, MovesKeep
  <1>. QED BY <1>1, <1>2, IInvHolds, PTL DEF Spec

\* Where no INSERT fails, what a request is answered for a target is visible,
\* in order and from the first window on, whatever other requests have stored
\* between its SELECTs (process.php:51-142): the script may take the first.
THEOREM AnswersAreTrue ==
    ASSUME "insert" \notin Faults
    PROVE  Spec => []AnswersTrue
  <1>1. IInv /\ WholeInv => AnswersTrue
    <2>. SUFFICES ASSUME IInv, WholeInv, NEW r \in Requests,
                         NEW t \in Range(wanted[r])
                  PROVE  LET answer == Answer(r, t)
                         IN  /\ \A k \in DOMAIN answer, m \in 0 .. Day - 1 :
                                    Inside(m, answer[k]) => visible[t][m]
                             /\ \A k \in 2 .. Len(answer) :
                                    answer[k - 1].start =< answer[k].start
                             /\ answer # <<>> =>
                                    answer[1] = OutWindows(visible[t])[1]
      BY DEF AnswersTrue
    <2> DEFINE answer == Answer(r, t)
    <2>1. t \in Targets
      <3>1. wanted[r] \in Seq(Targets)
        BY DEF IInv, TypeInv
      <3>. QED BY <3>1, ElementOfSeq, LenProperties DEF Range
    <2>2. /\ answer \in Seq(ClockWindows) /\ Ascending(answer)
          /\ Range(answer) \subseteq Range(WindowsOn(t))
      BY <2>1, AnswerIsTrue
    <2>3. \A k \in DOMAIN WindowsOn(t), m \in 0 .. Day - 1 :
              Inside(m, WindowsOn(t)[k]) => visible[t][m]
      BY <2>1, RightWindows DEF IInv, Right
    <2>4. answer # <<>> => answer[1] = First(t)
      BY <2>1 DEF Answer, First, WholeInv, FirstFound, IInv, AnswersInv
    <2>. HIDE DEF answer
    <2>5. ASSUME NEW k \in DOMAIN answer, NEW m \in 0 .. Day - 1,
                 Inside(m, answer[k])
          PROVE  visible[t][m]
      <3>1. PICK l \in DOMAIN WindowsOn(t) : answer[k] = WindowsOn(t)[l]
        BY <2>2 DEF Range
      <3>. QED BY <2>3, <2>5, <3>1
    <2>6. ASSUME NEW k \in 2 .. Len(answer)
          PROVE  answer[k - 1].start =< answer[k].start
      <3>1. Len(answer) \in Nat /\ DOMAIN answer = 1 .. Len(answer)
        BY <2>2, LenProperties
      <3>2. k - 1 \in DOMAIN answer /\ k \in DOMAIN answer /\ k - 1 < k
        BY <3>1
      <3>. QED BY <2>2, <3>2 DEF Ascending
    <2>. QED BY <2>4, <2>5, <2>6 DEF answer, First, WindowsOn
  <1>. QED BY <1>1, IInvHolds, WholeHolds, PTL

\* Where no INSERT fails, a target that is in the table when nobody stores is
\* there with all its windows, also if several requests have computed it at
\* once (process.php:69-142): what is never computed again is complete.
THEOREM CacheIsWhole ==
    ASSUME "insert" \notin Faults
    PROVE  Spec => []CacheWhole
  <1>1. IInv /\ WholeInv => CacheWhole
    <2>. SUFFICES ASSUME IInv, WholeInv,
                         \A r \in Requests : toInsert[r] = <<>>,
                         NEW t \in Targets, CachedRows(t) # {},
                         NEW m \in 0 .. Day - 1
                  PROVE  visible[t][m] <=>
                             \E id \in CachedRows(t) :
                                 Inside(m, cache[id].window)
      BY DEF CacheWhole
    <2>1. /\ \A k \in DOMAIN WindowsOn(t) :
                 Inside(m, WindowsOn(t)[k]) => visible[t][m]
          /\ visible[t][m] => \E k \in DOMAIN WindowsOn(t) :
                                  Inside(m, WindowsOn(t)[k])
      BY RightWindows DEF IInv, Right
    <2>2. ASSUME NEW k \in DOMAIN WindowsOn(t)
          PROVE  \E id \in CachedRows(t) : cache[id].window = WindowsOn(t)[k]
      <3>1. \A r \in Requests : \A w : ~Waiting(r, t, w)
        BY DEF Waiting
      <3>2. Cached(t, WindowsOn(t)[k])
        BY <3>1 DEF WholeInv, CachedInv, Range
      <3>. QED BY <3>2 DEF Cached, CachedRows, TargetRow
    <2>3. ASSUME NEW id \in CachedRows(t)
          PROVE  \E k \in DOMAIN WindowsOn(t) :
                     cache[id].window = WindowsOn(t)[k]
      BY DEF CachedRows, IInv, AnswersInv, TrueRow, Range
    <2>. QED BY <2>1, <2>2, <2>3
  <1>. QED BY <1>1, IInvHolds, WholeHolds, PTL

=============================================================================
