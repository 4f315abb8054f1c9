------------------------- MODULE AsyncLoggingProofs -------------------------
(***************************************************************************)
(* Proofs about AsyncLogging: the types, the assertions of threadFunc(),   *)
(* and that no line is lost or out of order but for the reported buffers.  *)
(*                                                                         *)
(* What FlattenSeq returns is shown by induction on the length of its      *)
(* argument.  The induction is over a set of naturals, not a predicate:    *)
(* the library's least element of a well-founded relation (WFMin) takes a  *)
(* set, which the provers can instantiate.                                 *)
(***************************************************************************)
EXTENDS AsyncLogging, Integers, SequenceTheorems, WellFoundedInduction, TLAPS


-----------------------------------------------------------------------------
(* Induction, and what FlattenSeq returns.                                 *)

(* A set of natural numbers that is not empty has a least element.         *)
LEMMA LeastNatural ==
    ASSUME NEW T \in SUBSET Nat, T # {}
    PROVE  \E x \in T : \A y \in T : x <= y
<1>1. PICK R : R = OpToRel(<, Nat)
  OBVIOUS
<1>2. IsWellFoundedOn(R, Nat)
  BY <1>1, NatLessThanWellFounded
<1>3. PICK x \in T : \A y \in T : ~(<<y, x>> \in R)
  BY <1>2, WFMin
<1>4. \A y \in Nat : y < x => <<y, x>> \in R
  BY <1>1, x \in Nat DEF OpToRel
<1>5. \A y \in T : x <= y
  <2>1. SUFFICES ASSUME NEW y \in T PROVE x <= y
    OBVIOUS
  <2>2. x \in Nat /\ y \in Nat
    OBVIOUS
  <2>3. ~(y < x)
    BY <2>2, <1>3, <1>4, Zenon
  <2> QED BY <2>2, <2>3
<1> QED BY <1>5

(* Induction over the natural numbers, for membership in a set.            *)
LEMMA SetInduction ==
    ASSUME NEW T, 0 \in T, \A n \in Nat : n \in T => n + 1 \in T
    PROVE  \A n \in Nat : n \in T
<1> DEFINE Bad == {n \in Nat : n \notin T}
<1>1. SUFFICES ASSUME Bad # {} PROVE FALSE
  OBVIOUS
<1>2. Bad \in SUBSET Nat
  OBVIOUS
<1>3. PICK n \in Bad : \A m \in Bad : n <= m
  <2> HIDE DEF Bad
  <2> QED BY <1>1, <1>2, LeastNatural
<1>4. n \in Nat /\ n \notin T /\ n # 0
  BY <1>3
<1>5. n - 1 \in Nat /\ n - 1 \in T
  BY <1>3, <1>4
<1>6. (n - 1) + 1 = n
  BY <1>4
<1> QED BY <1>4, <1>5, <1>6

\* The function FlattenSeq() defines over the indexes of s.
Flattens(g, s) ==
    g = [i \in 1..Len(s) |-> IF i = 1 THEN s[i] ELSE g[i - 1] \o s[i]]

(* There is such a function, so the CHOOSE in FlattenSeq() is one.         *)
LEMMA FlattensExists ==
    ASSUME NEW T, NEW s \in Seq(Seq(T))
    PROVE  \E g : Flattens(g, s)
<1> DEFINE Upto(n, g) == g = [i \in 1..n |-> IF i = 1 THEN s[i] ELSE g[i - 1] \o s[i]]
           Bad == {n \in Nat : ~ \E g : Upto(n, g)}
<1>1. SUFFICES Bad = {}
  <2>1. Len(s) \in Nat
    OBVIOUS
  <2> QED BY <1>1, <2>1 DEF Flattens
<1>2. SUFFICES ASSUME Bad # {} PROVE FALSE
  OBVIOUS
<1>3. PICK n \in Bad : \A m \in Bad : n <= m
  <2> HIDE DEF Bad
  <2>1. Bad \in SUBSET Nat
    BY DEF Bad
  <2> QED BY <1>2, <2>1, LeastNatural
<1>4. n \in Nat /\ ~ \E g : Upto(n, g)
  BY <1>3
<1>5. n # 0
  <2>1. Upto(0, [i \in {} |-> i])
    OBVIOUS
  <2> QED BY <2>1, <1>4
<1>6. n - 1 \in Nat /\ n - 1 \notin Bad
  <2> HIDE DEF Bad
  <2> QED BY <1>3, <1>4, <1>5
<1>7. PICK h : Upto(n - 1, h)
  BY <1>6
<1> DEFINE g == [i \in 1..n |-> IF i = n THEN IF i = 1 THEN s[i] ELSE h[i - 1] \o s[i]
                                         ELSE h[i]]
<1>8. Upto(n, g)
  <2>1. \A i \in 1..n : i # n => i \in 1..(n-1)
    BY <1>4
  <2>2. \A i \in 1..(n-1) : g[i] = h[i]
    BY <1>4, <1>5
  <2>3. \A i \in 1..n : i # 1 => i - 1 \in 1..(n-1)
    BY <1>4
  <2>4. ASSUME NEW i \in 1..n PROVE g[i] = IF i = 1 THEN s[i] ELSE g[i - 1] \o s[i]
    <3>1. CASE i = n
      BY <3>1, <2>2, <2>3
    <3>2. CASE i # n
      <4>1. h[i] = IF i = 1 THEN s[i] ELSE h[i - 1] \o s[i]
        BY <2>1, <3>2, <1>7
      <4>2. i # 1 => g[i-1] = h[i-1]
        BY <2>2, <2>3
      <4> QED BY <4>1, <4>2, <3>2
    <3> QED BY <3>1, <3>2
  <2> QED BY <2>4
<1> QED BY <1>8, <1>4

(* FlattenSeq() is the last value of that function.                        *)
LEMMA FlattenIs ==
    ASSUME NEW T, NEW s \in Seq(Seq(T)), Len(s) # 0
    PROVE  \E g : Flattens(g, s) /\ FlattenSeq(s) = g[Len(s)]
<1> DEFINE c == CHOOSE g : Flattens(g, s)
<1>1. Flattens(c, s)
  BY FlattensExists
<1>2. FlattenSeq(s) = c[Len(s)]
  BY DEF FlattenSeq, Flattens
<1> QED BY <1>1, <1>2

(* No buffers hold no lines.                                               *)
LEMMA FlattenEmpty == FlattenSeq(<<>>) = <<>>
  BY DEF FlattenSeq

(* The lines of the first i buffers are lines.                             *)
LEMMA FlattensType ==
    ASSUME NEW T, NEW s \in Seq(Seq(T)), NEW g, Flattens(g, s)
    PROVE  \A i \in 1..Len(s) : g[i] \in Seq(T)
<1> DEFINE P == {n \in Nat : n \in 1..Len(s) => g[n] \in Seq(T)}
<1>1. 0 \in P
  OBVIOUS
<1>2. ASSUME NEW n \in Nat, n \in P PROVE n + 1 \in P
  <2>1. SUFFICES ASSUME n + 1 \in 1..Len(s) PROVE g[n + 1] \in Seq(T)
    OBVIOUS
  <2>2. g[n + 1] = IF n + 1 = 1 THEN s[n + 1] ELSE g[(n + 1) - 1] \o s[n + 1]
    BY <2>1 DEF Flattens
  <2>3. s[n + 1] \in Seq(T)
    BY <2>1
  <2>4. n # 0 => n \in 1..Len(s)
    BY <2>1
  <2>5. n # 0 => g[n] \in Seq(T)
    BY <2>4, <1>2
  <2>6. (n + 1) - 1 = n
    OBVIOUS
  <2>7. n # 0 => g[n] \o s[n + 1] \in Seq(T)
    BY <2>3, <2>5
  <2> QED BY <2>2, <2>3, <2>6, <2>7
<1>3. \A n \in Nat : n \in P
  <2> HIDE DEF P
  <2> QED BY <1>1, <1>2, SetInduction
<1> QED BY <1>3

(* The lines of a sequence of buffers are a sequence of lines.             *)
LEMMA FlattenType ==
    ASSUME NEW T, NEW s \in Seq(Seq(T))
    PROVE  FlattenSeq(s) \in Seq(T)
<1>1. CASE Len(s) = 0
  <2>1. s = <<>>
    BY <1>1
  <2>2. <<>> \in Seq(T)
    OBVIOUS
  <2> QED BY <2>1, <2>2, FlattenEmpty, Zenon
<1>2. CASE Len(s) # 0
  <2>1. PICK g : Flattens(g, s) /\ FlattenSeq(s) = g[Len(s)]
    BY <1>2, FlattenIs
  <2>2. \A i \in 1..Len(s) : g[i] \in Seq(T)
    BY <2>1, FlattensType
  <2>3. Len(s) \in 1..Len(s)
    BY <1>2
  <2> QED BY <2>1, <2>2, <2>3
<1> QED BY <1>1, <1>2

(* A buffer that is added at the end adds its lines at the end.            *)
LEMMA FlattenAppend ==
    ASSUME NEW T, NEW s \in Seq(Seq(T)), NEW b \in Seq(T)
    PROVE  FlattenSeq(Append(s, b)) = FlattenSeq(s) \o b
<1>0. Append(s, b) \in Seq(Seq(T))
  BY AppendProperties
<1>1. PICK a \in Seq(Seq(T)) : a = Append(s, b)
  BY <1>0
<1>2. Len(a) = Len(s) + 1 /\ a[Len(s) + 1] = b /\ \A i \in 1..Len(s) : a[i] = s[i]
  BY <1>1
<1>3. PICK h : Flattens(h, a) /\ FlattenSeq(a) = h[Len(a)]
  <2>1. Len(a) # 0
    BY <1>2
  <2> QED BY <2>1, FlattenIs
<1>4. CASE Len(s) = 0
  <2>1. s = <<>>
    BY <1>4
  <2>2. h[1] = b
    BY <1>2, <1>3, <1>4 DEF Flattens
  <2> QED BY <2>1, <2>2, <1>1, <1>2, <1>3, <1>4, FlattenEmpty
<1>5. CASE Len(s) # 0
  <2>1. PICK g : Flattens(g, s) /\ FlattenSeq(s) = g[Len(s)]
    BY <1>5, FlattenIs
  <2> DEFINE P == {n \in Nat : n \in 1..Len(s) => g[n] = h[n]}
  <2>2. 0 \in P
    OBVIOUS
  <2>3. ASSUME NEW n \in Nat, n \in P PROVE n + 1 \in P
    <3>1. SUFFICES ASSUME n + 1 \in 1..Len(s) PROVE g[n + 1] = h[n + 1]
      OBVIOUS
    <3>2. g[n + 1] = IF n + 1 = 1 THEN s[n + 1] ELSE g[(n + 1) - 1] \o s[n + 1]
      BY <2>1, <3>1 DEF Flattens
    <3>3. h[n + 1] = IF n + 1 = 1 THEN a[n + 1] ELSE h[(n + 1) - 1] \o a[n + 1]
      <4>1. n + 1 \in 1..Len(a)
        BY <1>2, <3>1
      <4> QED BY <4>1, <1>3 DEF Flattens
    <3>4. a[n + 1] = s[n + 1]
      BY <1>2, <3>1
    <3>5. n # 0 => g[n] = h[n]
      BY <2>3, <3>1
    <3>6. (n + 1) - 1 = n
      OBVIOUS
    <3> QED BY <3>2, <3>3, <3>4, <3>5, <3>6
  <2>4. \A n \in Nat : n \in P
    <3> HIDE DEF P
    <3> QED BY <2>2, <2>3, SetInduction
  <2>5. g[Len(s)] = h[Len(s)]
    BY <2>4, <1>5
  <2>6. h[Len(s) + 1] = h[(Len(s) + 1) - 1] \o a[Len(s) + 1]
    <3>1. Len(s) + 1 \in 1..Len(a) /\ Len(s) + 1 # 1
      BY <1>2, <1>5
    <3> QED BY <3>1, <1>3 DEF Flattens
  <2>7. (Len(s) + 1) - 1 = Len(s)
    OBVIOUS
  <2> QED BY <2>1, <2>5, <2>6, <2>7, <1>1, <1>2, <1>3
<1> QED BY <1>4, <1>5

(* The lines of two sequences of buffers follow each other.                *)
LEMMA FlattenConcat ==
    ASSUME NEW T, NEW s \in Seq(Seq(T)), NEW t \in Seq(Seq(T))
    PROVE  FlattenSeq(s \o t) = FlattenSeq(s) \o FlattenSeq(t)
<1> DEFINE Fine(u) == FlattenSeq(s \o u) = FlattenSeq(s) \o FlattenSeq(u)
           P == {n \in Nat : \A u \in Seq(Seq(T)) : Len(u) = n => Fine(u)}
<1>0. FlattenSeq(s) \in Seq(T)
  BY FlattenType
<1>1. 0 \in P
  <2>1. SUFFICES ASSUME NEW u \in Seq(Seq(T)), Len(u) = 0 PROVE Fine(u)
    OBVIOUS
  <2>2. u = <<>>
    BY <2>1
  <2>3. s \o <<>> = s
    OBVIOUS
  <2>4. FlattenSeq(s) \o <<>> = FlattenSeq(s)
    BY <1>0
  <2> QED BY <2>2, <2>3, <2>4, FlattenEmpty
<1>2. ASSUME NEW n \in Nat, n \in P PROVE n + 1 \in P
  <2>1. SUFFICES ASSUME NEW u \in Seq(Seq(T)), Len(u) = n + 1 PROVE Fine(u)
    OBVIOUS
  <2>2. PICK v \in Seq(Seq(T)), b \in Seq(T) : u = Append(v, b)
    <3>1. u # <<>>
      BY <2>1
    <3> QED BY <3>1, SequenceEmptyOrAppend
  <2>3. Len(v) = n
    BY <2>1, <2>2
  <2>4. FlattenSeq(s \o v) = FlattenSeq(s) \o FlattenSeq(v)
    BY <2>3, <1>2
  <2>5. s \o u = Append(s \o v, b) /\ s \o v \in Seq(Seq(T))
    BY <2>2
  <2>6. FlattenSeq(s \o u) = FlattenSeq(s \o v) \o b
    BY <2>5, FlattenAppend
  <2>7. FlattenSeq(u) = FlattenSeq(v) \o b
    BY <2>2, FlattenAppend
  <2>8. FlattenSeq(v) \in Seq(T)
    BY FlattenType
  <2>9. (FlattenSeq(s) \o FlattenSeq(v)) \o b = FlattenSeq(s) \o (FlattenSeq(v) \o b)
    <3>1. PICK x \in Seq(T) : x = FlattenSeq(s)
      BY <1>0
    <3>2. PICK y \in Seq(T) : y = FlattenSeq(v)
      BY <2>8
    <3>3. (x \o y) \o b = x \o (y \o b)
      BY ConcatAssociative, SMTT(60)
    <3> QED BY <3>1, <3>2, <3>3, Zenon
  <2> QED BY <2>4, <2>6, <2>7, <2>9
<1>3. \A n \in Nat : n \in P
  <2> HIDE DEF P
  <2> QED BY <1>1, <1>2, SetInduction
<1> QED BY <1>3

(* Buffers of at most K lines hold at most K times as many lines.          *)
LEMMA FlattenLen ==
    ASSUME NEW T, NEW K \in Nat, NEW s \in Seq(Seq(T)),
           \A i \in 1..Len(s) : Len(s[i]) <= K
    PROVE  Len(FlattenSeq(s)) <= Len(s) * K
<1> DEFINE Short(u) == \A i \in 1..Len(u) : Len(u[i]) <= K
           P == {n \in Nat : \A u \in Seq(Seq(T)) :
                       Len(u) = n /\ Short(u) => Len(FlattenSeq(u)) <= n * K}
<1>1. 0 \in P
  <2>1. SUFFICES ASSUME NEW u \in Seq(Seq(T)), Len(u) = 0
                 PROVE  Len(FlattenSeq(u)) <= 0 * K
    OBVIOUS
  <2>2. u = <<>> /\ Len(<<>>) = 0 /\ 0 * K = 0
    BY <2>1
  <2> QED BY <2>2, FlattenEmpty
<1>2. ASSUME NEW n \in Nat, n \in P PROVE n + 1 \in P
  <2>1. SUFFICES ASSUME NEW u \in Seq(Seq(T)), Len(u) = n + 1, Short(u)
                 PROVE  Len(FlattenSeq(u)) <= (n + 1) * K
    OBVIOUS
  <2>2. PICK v \in Seq(Seq(T)), b \in Seq(T) : u = Append(v, b)
    <3>1. u # <<>>
      BY <2>1
    <3> QED BY <3>1, SequenceEmptyOrAppend
  <2>3. Len(v) = n /\ Short(v) /\ Len(b) <= K
    <3>1. Len(v) = n
      BY <2>1, <2>2
    <3>2. u[n + 1] = b /\ \A i \in 1..n : u[i] = v[i]
      BY <3>1, <2>2
    <3> QED BY <3>1, <3>2, <2>1
  <2>4. Len(FlattenSeq(v)) <= n * K
    BY <2>3, <1>2
  <2>5. FlattenSeq(u) = FlattenSeq(v) \o b
    BY <2>2, FlattenAppend
  <2>6. FlattenSeq(v) \in Seq(T)
    BY FlattenType
  <2>7. Len(FlattenSeq(u)) = Len(FlattenSeq(v)) + Len(b)
    BY <2>5, <2>6
  <2>8. (n + 1) * K = n * K + K /\ n * K \in Nat
    OBVIOUS
  <2>9. Len(FlattenSeq(v)) \in Nat /\ Len(b) \in Nat
    BY <2>6
  <2> QED
    <3> HIDE DEF P, Short
    <3> QED BY <2>3, <2>4, <2>7, <2>8, <2>9
<1>3. \A n \in Nat : n \in P
  <2> HIDE DEF P
  <2> QED BY <1>1, <1>2, SetInduction
<1>4. Len(s) \in Nat
  OBVIOUS
<1> QED BY <1>3, <1>4

-----------------------------------------------------------------------------
(* The inductive invariant.                                                *)

\* A pointer to a buffer that was reset.
Clean == << <<>> >>

\* The logging thread exists from start() on and opens the latch that start()
\* waits for, so running_ is still set when it begins.
StartInv ==
    /\ pc = "absent" <=> owner = "new"
    /\ pc \in {"absent", "begin"} <=> latch = 1
    /\ latch = 1 => owner \in {"new", "starting"}
    /\ owner = "starting" => running

\* Which of the four circulating buffers are where.  nextBuffer_ is only ever
\* missing while a full buffer waits, so that the swap that gives newBuffer2
\* away takes at least two buffers.
PointersInv ==
    /\ pc \in {"check", "lock", "asleep", "awake"} =>
          newBuffer1 = Clean /\ newBuffer2 = Clean
    /\ pc \notin {"write", "refill"} => buffersToWrite = <<>>
    /\ pc \in {"write", "refill"} =>
          /\ newBuffer1 = Null
          /\ Len(buffersToWrite) >= 1
          /\ newBuffer2 = Null => Len(buffersToWrite) >= 2
    /\ newBuffer2 \in {Null, Clean} /\ nextBuffer \in {Null, Clean}
    /\ nextBuffer = Null => buffers # <<>>

Inv == TypeOK /\ StartInv /\ PointersInv

\* No buffer holds more lines than fit.
SizesInv ==
    /\ Len(currentBuffer) <= BufferLines
    /\ \A i \in 1..Len(buffers) : Len(buffers[i]) <= BufferLines
    /\ \A i \in 1..Len(buffersToWrite) : Len(buffersToWrite[i]) <= BufferLines

Increasing(s) == \A i, j \in DOMAIN s : i < j => s[i] < s[j]

\* The lines that are left are in order and none is newer than the last
\* append(); each missing one was in a buffer that was reported as dropped.
LinesInv ==
    /\ Increasing(AllLines)
    /\ \A i \in DOMAIN AllLines : AllLines[i] <= appended
    /\ appended - Len(AllLines) <= reported * BufferLines

-----------------------------------------------------------------------------
(* Type correctness, start() and the circulating buffers.                  *)

(* An empty buffer, a null pointer and a pointer to an empty buffer.       *)
LEMMA CleanFacts ==
    /\ Clean \in Pointers /\ Null \in Pointers /\ Clean # Null
    /\ Clean[1] = <<>> /\ Len(Clean) = 1 /\ Len(Null) = 0
    /\ <<>> \in Buffers /\ <<>> \in Seq(Buffers)
<1>1. <<>> \in Buffers
  BY DEF Buffers
<1>2. Clean \in Seq(Buffers) /\ Len(Clean) = 1 /\ Clean[1] = <<>>
  BY <1>1 DEF Clean
<1>3. Null \in Seq(Buffers) /\ Len(Null) = 0
  BY DEF Null
<1>4. Clean \in Pointers /\ Null \in Pointers
  <2>1. Len(Clean) <= 1 /\ Len(Null) <= 1
    BY <1>2, <1>3
  <2> QED BY <1>2, <1>3, <2>1, Zenon DEF Pointers
<1>5. Clean # Null
  BY <1>2, <1>3
<1>6. <<>> \in Seq(Buffers)
  OBVIOUS
<1> QED BY <1>1, <1>2, <1>3, <1>4, <1>5, <1>6, Zenon

(* The invariant holds of a logger that was just constructed.              *)
LEMMA InvInit == Init => Inv
<1> SUFFICES ASSUME Init PROVE Inv
  OBVIOUS
<1>0. nextBuffer = Clean /\ newBuffer1 = Null /\ newBuffer2 = Null
  BY DEF Init, Clean
<1>1. TypeOK
  <2>1. /\ running = FALSE /\ owner = "new" /\ latch \in 0..1 /\ pc = "absent"
        /\ flushed \in Nat /\ reported \in Nat /\ appended \in 0..MaxLines
    BY BoundsAssumption DEF Init
  <2>2. /\ currentBuffer \in Buffers /\ file \in Buffers
        /\ buffers \in Seq(Buffers) /\ buffersToWrite \in Seq(Buffers)
    BY CleanFacts, Zenon DEF Init
  <2>3. nextBuffer \in Pointers /\ newBuffer1 \in Pointers /\ newBuffer2 \in Pointers
    BY <1>0, CleanFacts, Zenon
  <2> QED BY <2>1, <2>2, <2>3 DEF TypeOK
<1>2. StartInv
  BY DEF Init, StartInv
<1>3. PointersInv
  BY <1>0, CleanFacts DEF Init, PointersInv
<1> QED BY <1>1, <1>2, <1>3 DEF Inv

(* What append() goes on with is empty.                                    *)
LEMMA SpareIsEmpty ==
    ASSUME PointersInv
    PROVE  SpareBuffer = <<>>
  BY CleanFacts DEF PointersInv, SpareBuffer

(* append() preserves the invariant.                                       *)
LEMMA InvAppend ==
    ASSUME Inv, AppendFits \/ AppendOverflows
    PROVE  Inv'
<1> USE DEF Inv
<1>1. appended + 1 \in 1..MaxLines /\ appended' = appended + 1
  BY BoundsAssumption DEF TypeOK, AppendFits, AppendOverflows
<1>2. CASE AppendFits
  <2>1. currentBuffer' \in Buffers
    BY <1>1, <1>2 DEF AppendFits, TypeOK, Buffers
  <2>2. /\ UNCHANGED <<nextBuffer, buffers, running, owner, latch, pc>>
        /\ UNCHANGED <<newBuffer1, newBuffer2, buffersToWrite, file, flushed, reported>>
    BY <1>2 DEF AppendFits, threadVars, fileVars, ownerVars
  <2>3. TypeOK'
    BY <1>1, <2>1, <2>2 DEF TypeOK
  <2>4. StartInv' /\ PointersInv'
    BY <2>2 DEF StartInv, PointersInv
  <2> QED BY <2>3, <2>4
<1>3. CASE AppendOverflows
  <2>1. currentBuffer' \in Buffers /\ buffers' \in Seq(Buffers) /\ buffers' # <<>>
    <3>1. currentBuffer' = Append(<<>>, appended + 1)
      BY <1>3, SpareIsEmpty DEF AppendOverflows
    <3>2. currentBuffer' \in Buffers
      BY <3>1, <1>1 DEF Buffers
    <3>3. buffers' = Append(buffers, currentBuffer)
      BY <1>3 DEF AppendOverflows
    <3>4. buffers \in Seq(Buffers) /\ currentBuffer \in Buffers
      BY DEF TypeOK
    <3> QED BY <3>2, <3>3, <3>4, AppendProperties
  <2>2. /\ UNCHANGED <<running, owner, latch>>
        /\ UNCHANGED <<newBuffer1, newBuffer2, buffersToWrite, file, flushed, reported>>
        /\ nextBuffer' = Null
    BY <1>3 DEF AppendOverflows, threadVars, fileVars, ownerVars
  <2>3. pc' = pc \/ (pc = "asleep" /\ pc' = "awake")
    BY <1>3 DEF AppendOverflows, Notified
  <2>4. TypeOK'
    BY <1>1, <2>1, <2>2, <2>3, CleanFacts DEF TypeOK
  <2>5. StartInv' /\ PointersInv'
    BY <2>1, <2>2, <2>3 DEF StartInv, PointersInv
  <2> QED BY <2>4, <2>5
<1> QED BY <1>2, <1>3

(* start() and stop() preserve it.                                         *)
LEMMA InvOwner ==
    ASSUME Inv, Start \/ StartReturns \/ StopClearsRunning \/ StopNotifies \/ StopJoins
    PROVE  Inv'
<1> USE DEF Inv
<1>1. /\ UNCHANGED <<currentBuffer, nextBuffer, buffers, appended, latch>>
      /\ UNCHANGED <<newBuffer1, newBuffer2, buffersToWrite, file, flushed, reported>>
  BY DEF Start, StartReturns, StopClearsRunning, StopNotifies, StopJoins,
         frontVars, threadVars, fileVars
<1>2. \/ owner = "new" /\ owner' = "starting" /\ running' = TRUE /\ pc' = "begin"
      \/ /\ owner = "starting" /\ owner' = "started" /\ latch = 0
         /\ UNCHANGED <<running, pc>>
      \/ owner = "started" /\ owner' = "stopping" /\ running' = FALSE /\ pc' = pc
      \/ /\ owner = "stopping" /\ owner' = "joining" /\ running' = running
         /\ pc' = pc \/ (pc = "asleep" /\ pc' = "awake")
      \/ owner = "joining" /\ owner' = "joined" /\ UNCHANGED <<running, pc>>
  BY DEF Start, StartReturns, StopClearsRunning, StopNotifies, StopJoins, Notified
<1>3. TypeOK'
  <2>1. running' \in BOOLEAN
    BY <1>2 DEF TypeOK
  <2>2. owner' \in {"new", "starting", "started", "stopping", "joining", "joined"}
    BY <1>2
  <2>3. pc' \in {"absent", "begin", "check", "lock", "asleep", "awake", "write",
                 "refill", "exited"}
    BY <1>2 DEF TypeOK
  <2> QED BY <1>1, <2>1, <2>2, <2>3 DEF TypeOK
<1>4. StartInv'
  BY <1>1, <1>2 DEF StartInv, TypeOK
<1>5. PointersInv'
  <2>1. pc' = pc \/ (pc = "asleep" /\ pc' = "awake") \/ (pc = "absent" /\ pc' = "begin")
    BY <1>2 DEF StartInv
  <2> QED BY <1>1, <2>1 DEF PointersInv
<1> QED BY <1>3, <1>4, <1>5

(* Every step of threadFunc() preserves it.                                *)
LEMMA InvThread ==
    ASSUME Inv, LoggingThread
    PROVE  Inv'
<1> USE DEF Inv
<1>1. CASE Begin
  <2>1. /\ UNCHANGED <<currentBuffer, nextBuffer, buffers, appended, running, owner>>
        /\ UNCHANGED <<buffersToWrite, file, flushed, reported>>
        /\ pc = "begin" /\ pc' = "check" /\ latch' = 0
        /\ newBuffer1' = Clean /\ newBuffer2' = Clean
    BY <1>1 DEF Begin, countDown, StartInv, frontVars, fileVars, Clean
  <2>2. TypeOK'
    BY <2>1, CleanFacts DEF TypeOK
  <2> QED BY <2>1, <2>2 DEF StartInv, PointersInv
<1>2. CASE CheckRunning
  <2>1. /\ UNCHANGED <<currentBuffer, nextBuffer, buffers, appended, running, owner, latch>>
        /\ UNCHANGED <<newBuffer1, newBuffer2, buffersToWrite, file, reported>>
        /\ pc = "check" /\ pc' \in {"lock", "exited"}
        /\ flushed' \in {flushed, Len(file)}
    BY <1>2 DEF CheckRunning, frontVars, threadVars, ownerVars
  <2>2. TypeOK'
    <3>1. flushed' \in Nat
      BY <2>1 DEF TypeOK, Buffers
    <3> QED BY <2>1, <3>1 DEF TypeOK
  <2> QED BY <2>1, <2>2 DEF StartInv, PointersInv
<1>3. CASE WaitForSeconds \/ Timeout
  <2>1. /\ UNCHANGED <<currentBuffer, nextBuffer, buffers, appended, running, owner, latch>>
        /\ UNCHANGED <<newBuffer1, newBuffer2, buffersToWrite, file, flushed, reported>>
        /\ pc \in {"lock", "asleep"} /\ pc' \in {"asleep", "awake"}
    BY <1>3 DEF WaitForSeconds, Timeout, frontVars, threadVars, fileVars, ownerVars
  <2>2. TypeOK'
    BY <2>1 DEF TypeOK
  <2> QED BY <2>1, <2>2 DEF StartInv, PointersInv
<1>4. CASE Swap
  <2>1. /\ UNCHANGED <<appended, file, flushed, reported, running, owner, latch>>
        /\ pc \in {"lock", "awake"} /\ pc' = "write"
        /\ buffersToWrite' = Append(buffers, currentBuffer) /\ buffers' = <<>>
        /\ currentBuffer' = newBuffer1[1] /\ newBuffer1' = Null
    BY <1>4 DEF Swap, fileVars, ownerVars
  <2>2. currentBuffer' = <<>>
    BY <2>1, CleanFacts DEF PointersInv
  <2>3. /\ buffersToWrite' \in Seq(Buffers)
        /\ Len(buffersToWrite') = Len(buffers) + 1 /\ Len(buffers) \in Nat
    BY <2>1, AppendProperties DEF TypeOK
  <2>4. /\ nextBuffer' = Clean
        /\ newBuffer2' \in {Null, Clean}
        /\ newBuffer2' = Null => buffers # <<>>
    BY <1>4, <2>1, CleanFacts DEF Swap, NextBufferRefilled, PointersInv
  <2>5. buffers # <<>> => Len(buffers) >= 1
    BY DEF TypeOK
  <2>6. TypeOK'
    BY <2>1, <2>2, <2>3, <2>4, CleanFacts DEF TypeOK
  <2>7. StartInv'
    BY <2>1 DEF StartInv
  <2>8. Len(buffersToWrite') >= 1 /\ (newBuffer2' = Null => Len(buffersToWrite') >= 2)
    BY <2>3, <2>4, <2>5
  <2>9. PointersInv'
    BY <2>1, <2>4, <2>8, CleanFacts DEF PointersInv
  <2> QED BY <2>6, <2>7, <2>9
<1>5. CASE Write
  <2>1. /\ UNCHANGED <<currentBuffer, nextBuffer, buffers, appended, running, owner, latch>>
        /\ UNCHANGED <<newBuffer1, newBuffer2, flushed>>
        /\ pc = "write" /\ pc' = "refill"
    BY <1>5 DEF Write, frontVars, ownerVars
  <2>2. PICK all : all = buffersToWrite
    OBVIOUS
  <2>3. all \in Seq(Buffers) /\ Len(all) \in Nat /\ Len(all) >= 1
        /\ (newBuffer2 = Null => Len(all) >= 2)
    BY <2>1, <2>2 DEF TypeOK, PointersInv
  <2>4. PICK two : two = SubSeq(all, 1, 2)
    OBVIOUS
  <2>5. Len(all) >= 2 => two \in Seq(Buffers) /\ Len(two) = 2
    BY <2>3, <2>4
  <2>6. /\ Kept(all) = all \/ (Kept(all) = two /\ Len(all) >= 2)
        /\ buffersToWrite' = all \/ (buffersToWrite' = two /\ Len(all) >= 2)
    <3>1. Kept(all) = all \/ (Kept(all) = two /\ Len(all) >= 2)
      BY <2>3, <2>4, BoundsAssumption DEF Kept
    <3>2. buffersToWrite' = IF Len(Kept(all)) > 2 THEN two ELSE Kept(all)
      BY <1>5, <2>2, <2>4 DEF Write
    <3>3. Kept(all) = all /\ Len(Kept(all)) > 2 => Len(all) >= 2
      BY <2>3
    <3> QED BY <3>1, <3>2, <3>3
  <2>7. buffersToWrite' \in Seq(Buffers) /\ Len(buffersToWrite') >= 1
        /\ (newBuffer2 = Null => Len(buffersToWrite') >= 2)
    <3>1. CASE buffersToWrite' = all
      BY <3>1, <2>3
    <3>2. CASE buffersToWrite' = two /\ Len(all) >= 2
      <4>1. two \in Seq(Buffers) /\ Len(two) >= 1 /\ Len(two) >= 2
        BY <3>2, <2>5
      <4> QED BY <3>2, <4>1, Zenon
    <3> QED BY <3>1, <3>2, <2>6
  <2>8. Kept(all) \in Seq(Buffers)
    BY <2>3, <2>5, <2>6
  <2>9. file' \in Buffers
    <3>1. file' = file \o FlattenSeq(Kept(all)) /\ file \in Buffers
      BY <1>5, <2>2 DEF Write, TypeOK
    <3>2. FlattenSeq(Kept(all)) \in Buffers
      BY <2>8, FlattenType DEF Buffers
    <3> QED BY <3>1, <3>2 DEF Buffers
  <2>10. reported' \in Nat
    <3>1. reported' = reported \/ (Len(all) > MaxBuffers /\ reported' = reported + (Len(all) - 2))
      BY <1>5, <2>2 DEF Write
    <3> QED BY <3>1, <2>3, BoundsAssumption DEF TypeOK
  <2>11. TypeOK'
    BY <2>1, <2>7, <2>9, <2>10 DEF TypeOK
  <2>12. StartInv'
    BY <2>1 DEF StartInv
  <2>13. PointersInv'
    BY <2>1, <2>7 DEF PointersInv
  <2> QED BY <2>11, <2>12, <2>13
<1>6. CASE Refill
  <2>1. /\ UNCHANGED <<currentBuffer, nextBuffer, buffers, appended, running, owner, latch>>
        /\ UNCHANGED <<file, reported>>
        /\ pc = "refill" /\ pc' = "check" /\ buffersToWrite' = <<>>
        /\ flushed' = Len(file)
    BY <1>6 DEF Refill, frontVars, ownerVars
  <2>2. newBuffer1' = Clean /\ newBuffer2' = Clean
    BY <1>6, <2>1 DEF Refill, Reset, Clean, PointersInv
  <2>3. flushed' \in Nat
    BY <2>1 DEF TypeOK, Buffers
  <2>4. TypeOK'
    BY <2>1, <2>2, <2>3, CleanFacts DEF TypeOK
  <2>5. StartInv'
    BY <2>1 DEF StartInv
  <2>6. PointersInv'
    BY <2>1, <2>2, CleanFacts DEF PointersInv
  <2> QED BY <2>4, <2>5, <2>6
<1> QED BY <1>1, <1>2, <1>3, <1>4, <1>5, <1>6 DEF LoggingThread

(* Every step preserves it.                                                *)
LEMMA InvStep ==
    ASSUME Inv, [Next]_vars
    PROVE  Inv'
<1>1. CASE UNCHANGED vars
  BY <1>1 DEF vars, frontVars, threadVars, fileVars, ownerVars, Inv, TypeOK, StartInv,
              PointersInv
<1>2. CASE Next
  BY <1>2, InvAppend, InvOwner, InvThread DEF Next, OwnerStep
<1> QED BY <1>1, <1>2

(* The inductive invariant: the thread begins with running_ set, and       *)
(* nextBuffer_ is missing only while a full buffer waits.                  *)
THEOREM InvAlways == Spec => []Inv
  BY InvInit, InvStep, PTL DEF Spec

(* Every variable keeps its type, for any size of a buffer and any limit   *)
(* on the buffers to write: what the logging thread writes is a sequence   *)
(* of lines and never a null buffer.                                       *)
THEOREM TypeCorrect == Spec => []TypeOK
<1>1. Inv => TypeOK
  BY DEF Inv
<1> QED BY <1>1, InvAlways, PTL

(* The assertions of threadFunc() (AsyncLogging.cc:55, 66-68, 85, 112,     *)
(* 119) hold however append(), stop() and the thread interleave.           *)
THEOREM AssertionsOfThreadFunc == Spec => []BuffersReady
<1>1. Inv => BuffersReady
  <2> SUFFICES ASSUME Inv PROVE BuffersReady
    OBVIOUS
  <2>1. pc = "begin" => running
    BY DEF Inv, TypeOK, StartInv
  <2>2. pc = "check" => newBuffer1 = << <<>> >> /\ newBuffer2 = << <<>> >> /\ buffersToWrite = <<>>
    BY DEF Inv, PointersInv, Clean
  <2>3. pc = "write" => buffersToWrite # <<>>
    BY DEF Inv, PointersInv
  <2>4. pc = "refill" =>
            Len(buffersToWrite) >= (1 - Len(newBuffer1)) + (1 - Len(newBuffer2))
    <3> SUFFICES ASSUME pc = "refill" PROVE Len(buffersToWrite) >= (1 - Len(newBuffer1)) + (1 - Len(newBuffer2))
      OBVIOUS
    <3>1. Len(newBuffer1) = 0 /\ Len(buffersToWrite) >= 1
      BY CleanFacts DEF Inv, PointersInv
    <3>2. CASE newBuffer2 = Null
      BY <3>1, <3>2, CleanFacts DEF Inv, PointersInv
    <3>3. CASE newBuffer2 = Clean
      BY <3>1, <3>3, CleanFacts
    <3> QED BY <3>2, <3>3 DEF Inv, PointersInv
  <2> QED BY <2>1, <2>2, <2>3, <2>4 DEF BuffersReady
<1> QED BY <1>1, InvAlways, PTL

-----------------------------------------------------------------------------
(* The lines.                                                              *)

(* No step puts more lines into a buffer than fit (append() checks avail). *)
LEMMA SizesStep ==
    ASSUME Inv, SizesInv, [Next]_vars
    PROVE  SizesInv'
<1>0. /\ buffers \in Seq(Buffers) /\ buffersToWrite \in Seq(Buffers)
      /\ currentBuffer \in Seq(1..MaxLines) /\ appended \in Nat
  BY BoundsAssumption DEF Inv, TypeOK, Buffers
<1>1. CASE UNCHANGED <<currentBuffer, buffers, buffersToWrite>>
  BY <1>1 DEF SizesInv
<1>2. CASE AppendFits
  <2>1. /\ currentBuffer' = Append(currentBuffer, appended + 1)
        /\ Len(currentBuffer) < BufferLines
        /\ UNCHANGED <<buffers, buffersToWrite>>
    BY <1>2 DEF AppendFits, threadVars
  <2>2. Len(currentBuffer') <= BufferLines
    BY <1>0, <2>1, BoundsAssumption
  <2> QED BY <2>1, <2>2 DEF SizesInv
<1>3. CASE AppendOverflows
  <2>1. /\ currentBuffer' = Append(<<>>, appended + 1)
        /\ buffers' = Append(buffers, currentBuffer)
        /\ UNCHANGED buffersToWrite
    BY <1>3, SpareIsEmpty DEF AppendOverflows, threadVars, Inv
  <2>2. Len(currentBuffer') <= BufferLines
    BY <2>1, <1>0, BoundsAssumption
  <2>3. \A i \in 1..Len(buffers') : Len(buffers'[i]) <= BufferLines
    BY <2>1, <1>0 DEF SizesInv, Inv, TypeOK
  <2> QED BY <2>1, <2>2, <2>3 DEF SizesInv
<1>4. CASE Swap
  <2>1. /\ buffersToWrite' = Append(buffers, currentBuffer)
        /\ buffers' = <<>> /\ currentBuffer' = <<>>
    BY <1>4, CleanFacts DEF Swap, Inv, PointersInv
  <2>2. \A i \in 1..Len(buffersToWrite') : Len(buffersToWrite'[i]) <= BufferLines
    BY <2>1, <1>0 DEF SizesInv, Inv, TypeOK
  <2>3. Len(currentBuffer') <= BufferLines
    BY <2>1, BoundsAssumption
  <2>4. \A i \in 1..Len(buffers') : Len(buffers'[i]) <= BufferLines
    BY <2>1
  <2> QED BY <2>2, <2>3, <2>4 DEF SizesInv
<1>5. CASE Write
  <2>1. PICK all \in Seq(Buffers) : all = buffersToWrite
    BY <1>0
  <2>2. PICK two : two = SubSeq(all, 1, 2)
    OBVIOUS
  <2>3. UNCHANGED <<currentBuffer, buffers>>
    BY <1>5 DEF Write, frontVars
  <2>4. \/ buffersToWrite' = all
        \/ buffersToWrite' = two /\ Len(all) >= 2
    <3>1. Kept(all) = all \/ (Kept(all) = two /\ Len(all) >= 2)
      BY <2>2, BoundsAssumption DEF Kept
    <3>2. buffersToWrite' = IF Len(Kept(all)) > 2 THEN two ELSE Kept(all)
      BY <1>5, <2>1, <2>2 DEF Write
    <3>3. Kept(all) = all /\ Len(Kept(all)) > 2 => Len(all) >= 2
      OBVIOUS
    <3> QED BY <3>1, <3>2, <3>3
  <2>5. \A i \in 1..Len(all) : Len(all[i]) <= BufferLines
    BY <2>1 DEF SizesInv
  <2>6. Len(all) >= 2 => \A i \in 1..Len(two) : Len(two[i]) <= BufferLines
    BY <2>2, <2>5
  <2>7. \A i \in 1..Len(buffersToWrite') : Len(buffersToWrite'[i]) <= BufferLines
    BY <2>4, <2>5, <2>6, Zenon
  <2> QED BY <2>3, <2>7 DEF SizesInv
<1>6. CASE Refill
  <2>1. UNCHANGED <<currentBuffer, buffers>> /\ buffersToWrite' = <<>>
    BY <1>6 DEF Refill, frontVars
  <2> QED BY <2>1 DEF SizesInv
<1>7. [Next]_vars => \/ UNCHANGED <<currentBuffer, buffers, buffersToWrite>>
                     \/ AppendFits \/ AppendOverflows \/ Swap \/ Write \/ Refill
  BY DEF Next, LoggingThread, OwnerStep, vars, frontVars, threadVars, Start, StartReturns,
         StopClearsRunning, StopNotifies, StopJoins, Begin, CheckRunning,
         WaitForSeconds, Timeout
<1> QED BY <1>1, <1>2, <1>3, <1>4, <1>5, <1>6, <1>7

\* The lines that are between the swap and the file.
Middle == IF pc = "refill" THEN <<>> ELSE FlattenSeq(buffersToWrite)

(* AllLines by its four parts.                                             *)
LEMMA AllLinesIs ==
    ASSUME TypeOK
    PROVE  /\ AllLines = ((file \o Middle) \o FlattenSeq(buffers)) \o currentBuffer
           /\ Middle \in Buffers /\ FlattenSeq(buffers) \in Buffers
           /\ FlattenSeq(buffersToWrite) \in Buffers
           /\ file \in Buffers /\ currentBuffer \in Buffers /\ AllLines \in Buffers
<1>1. buffers \in Seq(Seq(1..MaxLines)) /\ buffersToWrite \in Seq(Seq(1..MaxLines))
  BY DEF TypeOK, Buffers
<1>2. FlattenSeq(buffers) \in Buffers /\ FlattenSeq(buffersToWrite) \in Buffers
  BY <1>1, FlattenType DEF Buffers
<1>3. Middle \in Buffers
  BY <1>2, CleanFacts DEF Middle
<1>4. file \in Buffers /\ currentBuffer \in Buffers
  BY DEF TypeOK
<1>5. \A x, y \in Buffers : x \o y \in Buffers
  BY DEF Buffers
<1>6. AllLines = ((file \o Middle) \o FlattenSeq(buffers)) \o currentBuffer
  BY Zenon DEF AllLines, Middle
<1>7. AllLines \in Buffers
  BY <1>2, <1>3, <1>4, <1>5, <1>6, Zenon
<1> QED BY <1>2, <1>3, <1>4, <1>6, <1>7, Zenon

\* The ways a step may change the lines that are left: not at all, by the line
\* that append() adds, or by the n buffers of y that are dropped and reported.
Same == AllLines' = AllLines /\ appended' = appended /\ reported' = reported

Grows ==
    /\ AllLines' = Append(AllLines, appended + 1)
    /\ appended' = appended + 1 /\ reported' = reported

Drops ==
    \E x, y, z \in Buffers, n \in Nat :
        /\ AllLines = (x \o y) \o z /\ AllLines' = x \o z
        /\ Len(y) <= n * BufferLines
        /\ reported' = reported + n /\ appended' = appended

(* Concatenation of sequences of lines.                                    *)
LEMMA Associative ==
    \A x, y, z \in Buffers : (x \o y) \o z = x \o (y \o z)
  BY ConcatAssociative, SMTT(60) DEF Buffers

(* The empty sequence is the unit of concatenation.                        *)
LEMMA Concatenations ==
    /\ \A x, y \in Buffers : x \o y \in Buffers
    /\ \A x \in Buffers : x \o <<>> = x /\ <<>> \o x = x
    /\ <<>> \in Buffers
  BY DEF Buffers

(* append() adds its line at the end, whether the buffer is full or not.   *)
LEMMA AppendGrows ==
    ASSUME Inv, AppendFits \/ AppendOverflows, TypeOK'
    PROVE  Grows
<1>1. TypeOK
  BY DEF Inv
<1>2. PICK x \in Buffers : x = file \o Middle
  BY <1>1, AllLinesIs, Concatenations
<1>3. PICK F \in Buffers : F = FlattenSeq(buffers)
  BY <1>1, AllLinesIs
<1>4. AllLines = (x \o F) \o currentBuffer /\ currentBuffer \in Buffers
  BY <1>1, <1>2, <1>3, AllLinesIs, Zenon
<1>5. AllLines' = ((file' \o Middle') \o FlattenSeq(buffers')) \o currentBuffer'
  BY Zenon DEF AllLines, Middle
<1>6. file' = file /\ Middle' = Middle /\ appended' = appended + 1 /\ reported' = reported
  <2>1. UNCHANGED <<file, reported, buffersToWrite>> /\ appended' = appended + 1
    BY DEF AppendFits, AppendOverflows, threadVars, fileVars
  <2>2. pc' = "refill" <=> pc = "refill"
    BY DEF AppendFits, AppendOverflows, Notified
  <2> QED BY <2>1, <2>2 DEF Middle
<1>7. appended + 1 \in 1..MaxLines
  BY <1>1, BoundsAssumption DEF TypeOK, AppendFits, AppendOverflows
<1>8. x \o F \in Buffers
  BY Concatenations
<1>9. CASE AppendFits
  <2>1. UNCHANGED buffers /\ currentBuffer' = Append(currentBuffer, appended + 1)
    BY <1>9 DEF AppendFits
  <2>2. AllLines' = (x \o F) \o Append(currentBuffer, appended + 1)
    BY <1>2, <1>3, <1>5, <1>6, <2>1, Zenon
  <2>3. PICK w \in Buffers : w = x \o F
    BY <1>8
  <2>4. w \o Append(currentBuffer, appended + 1) = Append(w \o currentBuffer, appended + 1)
    BY <1>4, <1>7 DEF Buffers
  <2>5. AllLines' = Append(AllLines, appended + 1)
    BY <1>4, <2>2, <2>3, <2>4, Zenon
  <2> QED BY <1>6, <2>5 DEF Grows
<1>10. CASE AppendOverflows
  <2>1. /\ buffers' = Append(buffers, currentBuffer)
        /\ currentBuffer' = Append(<<>>, appended + 1)
    BY <1>10, SpareIsEmpty DEF AppendOverflows, Inv
  <2>2. FlattenSeq(buffers') = F \o currentBuffer
    <3>1. buffers \in Seq(Seq(1..MaxLines)) /\ currentBuffer \in Seq(1..MaxLines)
      BY <1>1 DEF TypeOK, Buffers
    <3> QED BY <2>1, <3>1, <1>3, FlattenAppend
  <2>3. x \o (F \o currentBuffer) = (x \o F) \o currentBuffer
    BY <1>4, Associative
  <2>4. AllLines' = AllLines \o Append(<<>>, appended + 1)
    BY <1>2, <1>4, <1>5, <1>6, <2>1, <2>2, <2>3, Zenon
  <2>5. PICK w \in Buffers : w = AllLines
    BY <1>1, AllLinesIs
  <2>6. w \o Append(<<>>, appended + 1) = Append(w, appended + 1)
    BY <1>7 DEF Buffers
  <2> QED BY <1>6, <2>4, <2>5, <2>6 DEF Grows
<1> QED BY <1>9, <1>10

(* The swap of threadFunc() moves lines and changes none.                  *)
LEMMA SwapKeeps ==
    ASSUME Inv, Swap
    PROVE  Same
<1>1. TypeOK
  BY DEF Inv
<1>2. /\ buffersToWrite' = Append(buffers, currentBuffer)
      /\ buffers' = <<>> /\ currentBuffer' = <<>> /\ pc' = "write"
      /\ UNCHANGED <<file, appended, reported>>
      /\ pc \notin {"write", "refill"} /\ buffersToWrite = <<>>
  BY CleanFacts DEF Swap, Inv, PointersInv, fileVars
<1>3. PICK F \in Buffers : F = FlattenSeq(buffers)
  BY <1>1, AllLinesIs
<1>4. file \in Buffers /\ currentBuffer \in Buffers
  BY <1>1 DEF TypeOK
<1>5. FlattenSeq(Append(buffers, currentBuffer)) = F \o currentBuffer
  <2>1. buffers \in Seq(Seq(1..MaxLines)) /\ currentBuffer \in Seq(1..MaxLines)
    BY <1>1 DEF TypeOK, Buffers
  <2> QED BY <2>1, <1>3, FlattenAppend
<1>6. Middle = <<>>
  BY <1>2, FlattenEmpty DEF Middle
<1>7. Middle' = F \o currentBuffer /\ FlattenSeq(buffers') = <<>>
  <2>1. Middle' = FlattenSeq(buffersToWrite')
    BY <1>2 DEF Middle
  <2> QED BY <1>2, <1>5, <2>1, FlattenEmpty, Zenon
<1>8. AllLines = (file \o F) \o currentBuffer
  <2>1. file \o <<>> = file
    BY <1>4, Concatenations
  <2> QED BY <1>1, <1>3, <1>6, <2>1, AllLinesIs, Zenon
<1>9. AllLines' = ((file \o (F \o currentBuffer)) \o <<>>) \o <<>>
  <2>1. AllLines' = ((file' \o Middle') \o FlattenSeq(buffers')) \o currentBuffer'
    BY Zenon DEF AllLines, Middle
  <2> QED BY <1>2, <1>7, <2>1, Zenon
<1>10. /\ file \o (F \o currentBuffer) = (file \o F) \o currentBuffer
       /\ (file \o F) \o currentBuffer \in Buffers
  BY <1>4, Associative, Concatenations
<1>11. AllLines' = AllLines
  BY <1>8, <1>9, <1>10, Concatenations, Zenon
<1> QED BY <1>2, <1>11 DEF Same

(* The first two of a sequence and the others make up the sequence.        *)
LEMMA FirstTwoAndRest ==
    ASSUME NEW T, NEW s \in Seq(T), Len(s) >= 2
    PROVE  /\ SubSeq(s, 1, 2) \in Seq(T) /\ SubSeq(s, 3, Len(s)) \in Seq(T)
           /\ s = SubSeq(s, 1, 2) \o SubSeq(s, 3, Len(s))
           /\ Len(SubSeq(s, 3, Len(s))) = Len(s) - 2
           /\ \A i \in 1..(Len(s) - 2) : SubSeq(s, 3, Len(s))[i] = s[i + 2]
<1>1. PICK n \in Nat : n = Len(s)
  OBVIOUS
<1>2. SubSeq(s, 1, 2) \in Seq(T)
  <2>1. \A i \in 1..2 : s[i] \in T
    OBVIOUS
  <2> QED BY <2>1, SubSeqProperties
<1>3. PICK r : r = SubSeq(s, 3, n)
  OBVIOUS
<1>4. /\ r \in Seq(T) /\ Len(r) = IF 3 <= n THEN n - 3 + 1 ELSE 0
      /\ \A i \in 1..(n - 3 + 1) : r[i] = s[3 + i - 1]
  <2>1. \A i \in 3..n : s[i] \in T
    BY <1>1
  <2> QED BY <2>1, <1>3, SubSeqProperties
<1>5. Len(r) = n - 2 /\ \A i \in 1..(n - 2) : r[i] = s[i + 2]
  BY <1>1, <1>4
<1>6. SubSeq(s, 1, 2) \o SubSeq(s, 2 + 1, n) = SubSeq(s, 1, n)
  BY <1>1, ConcatAdjacentSubSeq
<1>7. SubSeq(s, 1, n) = s
  BY <1>1, SubSeqFull
<1>8. SubSeq(s, 2 + 1, n) = SubSeq(s, 3, n)
  OBVIOUS
<1>9. s = SubSeq(s, 1, 2) \o SubSeq(s, 3, n)
  BY <1>6, <1>7, <1>8, Zenon
<1> QED BY <1>1, <1>2, <1>3, <1>4, <1>5, <1>9

(* Writing moves lines to the file, or cuts the buffers after the first    *)
(* two out and reports them (AsyncLogging.cc:87-96).                       *)
LEMMA WriteDrops ==
    ASSUME Inv, SizesInv, Write
    PROVE  Same \/ Drops
<1>1. TypeOK
  BY DEF Inv
<1>2. PICK all \in Seq(Seq(1..MaxLines)) : all = buffersToWrite
  BY <1>1 DEF TypeOK, Buffers
<1>3. /\ UNCHANGED <<buffers, currentBuffer, appended>>
      /\ file' = file \o FlattenSeq(Kept(all))
      /\ reported' = IF Len(all) > MaxBuffers THEN reported + (Len(all) - 2) ELSE reported
      /\ pc = "write" /\ pc' = "refill"
  BY <1>2 DEF Write, frontVars
<1>4. Middle = FlattenSeq(all) /\ Middle' = <<>>
  BY <1>2, <1>3 DEF Middle
<1>5. PICK F \in Buffers : F = FlattenSeq(buffers)
  BY <1>1, AllLinesIs
<1>6. file \in Buffers /\ currentBuffer \in Buffers
  BY <1>1 DEF TypeOK
<1>7. AllLines = ((file \o FlattenSeq(all)) \o F) \o currentBuffer
  BY <1>1, <1>4, <1>5, AllLinesIs, Zenon
<1>8. AllLines' = (((file \o FlattenSeq(Kept(all))) \o <<>>) \o F) \o currentBuffer
  <2>1. AllLines' = ((file' \o Middle') \o FlattenSeq(buffers')) \o currentBuffer'
    BY Zenon DEF AllLines, Middle
  <2> QED BY <1>3, <1>4, <1>5, <2>1, Zenon
<1>9. CASE ~(Len(all) > MaxBuffers)
  <2>1. Kept(all) = all /\ reported' = reported
    BY <1>3, <1>9 DEF Kept
  <2>2. file \o FlattenSeq(all) \in Buffers
    <3>1. FlattenSeq(all) \in Buffers
      BY <1>1, <1>2, AllLinesIs
    <3> QED BY <3>1, <1>6, Concatenations
  <2>3. (file \o FlattenSeq(all)) \o <<>> = file \o FlattenSeq(all)
    BY <2>2, Concatenations
  <2>4. AllLines' = AllLines
    BY <1>7, <1>8, <2>1, <2>3, Zenon
  <2> QED BY <1>3, <2>1, <2>4 DEF Same
<1>10. CASE Len(all) > MaxBuffers
  <2>0. Len(all) \in Nat /\ Len(all) >= 2
    BY <1>10, BoundsAssumption
  <2>1. PICK n \in Nat : n = Len(all) - 2
    BY <2>0
  <2>2. PICK kept \in Seq(Seq(1..MaxLines)) : kept = SubSeq(all, 1, 2)
    BY <2>0, FirstTwoAndRest
  <2>3. PICK rest \in Seq(Seq(1..MaxLines)) : rest = SubSeq(all, 3, Len(all))
    BY <2>0, FirstTwoAndRest
  <2>4. all = kept \o rest /\ Len(rest) = n /\ \A i \in 1..n : rest[i] = all[i + 2]
    BY <2>0, <2>1, <2>2, <2>3, FirstTwoAndRest
  <2>5. PICK K \in Buffers : K = FlattenSeq(kept)
    BY FlattenType DEF Buffers
  <2>6. PICK D \in Buffers : D = FlattenSeq(rest)
    BY FlattenType DEF Buffers
  <2>7. FlattenSeq(all) = K \o D
    BY <2>4, <2>5, <2>6, FlattenConcat
  <2>8. Len(D) <= n * BufferLines
    <3>1. \A i \in 1..Len(rest) : Len(rest[i]) <= BufferLines
      <4>1. \A i \in 1..Len(all) : Len(all[i]) <= BufferLines
        BY <1>2 DEF SizesInv
      <4>2. \A i \in 1..n : i + 2 \in 1..Len(all)
        BY <2>0, <2>1
      <4> QED BY <4>1, <4>2, <2>4
    <3>2. Len(D) <= Len(rest) * BufferLines
      BY <3>1, <2>6, FlattenLen, BoundsAssumption
    <3> QED BY <2>4, <3>2
  <2>9. FlattenSeq(Kept(all)) = K /\ reported' = reported + n
    BY <1>3, <1>10, <2>1, <2>2, <2>5 DEF Kept
  <2>10. PICK x \in Buffers : x = file \o K
    BY <1>6, Concatenations
  <2>11. PICK z \in Buffers : z = F \o currentBuffer
    BY <1>6, Concatenations
  <2>12. AllLines = (x \o D) \o z
    <3>1. file \o (K \o D) = x \o D
      <4>0. PICK e \in Buffers : e = file
        BY <1>6
      <4>1. (e \o K) \o D = e \o (K \o D)
        BY Associative, Zenon
      <4> QED BY <4>0, <4>1, <2>10, Zenon
    <3>2. x \o D \in Buffers
      BY Concatenations
    <3>3. ((x \o D) \o F) \o currentBuffer = (x \o D) \o z
      <4>1. PICK v \in Buffers : v = x \o D
        BY <3>2
      <4>2. PICK w \in Buffers : w = currentBuffer
        BY <1>6
      <4>3. (v \o F) \o w = v \o (F \o w)
        BY Associative, Zenon
      <4> QED BY <2>11, <4>1, <4>2, <4>3, Zenon
    <3> QED BY <1>7, <2>7, <3>1, <3>3, Zenon
  <2>13. AllLines' = x \o z
    <3>1. (file \o K) \o <<>> = x
      BY <2>10, Concatenations
    <3>2. (x \o F) \o currentBuffer = x \o z
      <4>1. PICK w \in Buffers : w = currentBuffer
        BY <1>6
      <4>2. (x \o F) \o w = x \o (F \o w)
        BY Associative, Zenon
      <4> QED BY <2>11, <4>1, <4>2, Zenon
    <3> QED BY <1>8, <2>9, <3>1, <3>2, Zenon
  <2> QED BY <2>8, <2>9, <2>12, <2>13, <1>3, Zenon DEF Drops
<1> QED BY <1>9, <1>10

(* Every step changes the lines that are left in one of the three ways.    *)
LEMMA LinesChange ==
    ASSUME Inv, SizesInv, [Next]_vars, Inv'
    PROVE  Same \/ Grows \/ Drops
<1>1. CASE AppendFits \/ AppendOverflows
  BY <1>1, AppendGrows DEF Inv
<1>2. CASE Swap
  BY <1>2, SwapKeeps
<1>3. CASE Write
  BY <1>3, WriteDrops
<1>4. CASE Refill
  <2>1. /\ UNCHANGED <<buffers, currentBuffer, appended, file, reported>>
        /\ pc = "refill" /\ pc' = "check" /\ buffersToWrite' = <<>>
    BY <1>4 DEF Refill, frontVars
  <2>2. Middle = <<>> /\ Middle' = <<>>
    BY <2>1, FlattenEmpty DEF Middle
  <2>3. AllLines = ((file \o Middle) \o FlattenSeq(buffers)) \o currentBuffer
    BY Zenon DEF AllLines, Middle
  <2>4. AllLines' = ((file' \o Middle') \o FlattenSeq(buffers')) \o currentBuffer'
    BY Zenon DEF AllLines, Middle
  <2> QED BY <2>1, <2>2, <2>3, <2>4, Zenon DEF Same
<1>5. CASE /\ UNCHANGED <<buffers, currentBuffer, appended, file, reported, buffersToWrite>>
           /\ (pc # "refill" /\ pc' # "refill") \/ pc' = pc
  BY <1>5 DEF Same, AllLines
<1>6. \/ AppendFits \/ AppendOverflows \/ Swap \/ Write \/ Refill
      \/ /\ UNCHANGED <<buffers, currentBuffer, appended, file, reported, buffersToWrite>>
         /\ (pc # "refill" /\ pc' # "refill") \/ pc' = pc
  BY DEF Next, LoggingThread, OwnerStep, vars, frontVars, threadVars, fileVars, Start,
         StartReturns, StopClearsRunning, StopNotifies, StopJoins, Begin, CheckRunning,
         WaitForSeconds, Timeout, Notified, Inv, StartInv
<1> QED BY <1>1, <1>2, <1>3, <1>4, <1>5, <1>6

(* What is left of an increasing sequence without a part is increasing.    *)
LEMMA CutOut ==
    ASSUME NEW x \in Buffers, NEW y \in Buffers, NEW z \in Buffers, NEW a \in Nat,
           Increasing((x \o y) \o z),
           \A i \in DOMAIN ((x \o y) \o z) : ((x \o y) \o z)[i] <= a
    PROVE  /\ Increasing(x \o z)
           /\ \A i \in DOMAIN (x \o z) : (x \o z)[i] <= a
           /\ Len(x \o z) = Len((x \o y) \o z) - Len(y)
<1>1. PICK w \in Buffers : w = (x \o y) \o z
  BY Concatenations
<1>2. PICK v \in Buffers : v = x \o z
  BY Concatenations
<1>3. /\ Len(x) \in Nat /\ Len(y) \in Nat /\ Len(z) \in Nat
      /\ Len(v) = Len(x) + Len(z) /\ Len(w) = (Len(x) + Len(y)) + Len(z)
      /\ DOMAIN v = 1..Len(v) /\ DOMAIN w = 1..Len(w)
  BY <1>1, <1>2 DEF Buffers
<1> DEFINE at(i) == IF i <= Len(x) THEN i ELSE i + Len(y)
<1>4. \A i \in 1..Len(v) : at(i) \in 1..Len(w) /\ v[i] = w[at(i)]
  <2> SUFFICES ASSUME NEW i \in 1..Len(v) PROVE at(i) \in 1..Len(w) /\ v[i] = w[at(i)]
    OBVIOUS
  <2>1. at(i) \in 1..Len(w)
    BY <1>3
  <2>2. PICK u \in Buffers : u = x \o y
    BY Concatenations
  <2>3. CASE i <= Len(x)
    <3>1. v[i] = x[i]
      BY <1>2, <1>3, <2>3 DEF Buffers
    <3>2. u[i] = x[i] /\ i \in 1..Len(u)
      BY <1>3, <2>2, <2>3 DEF Buffers
    <3>3. w[i] = u[i]
      BY <1>1, <1>3, <2>2, <3>2 DEF Buffers
    <3> QED BY <2>1, <2>3, <3>1, <3>2, <3>3
  <2>4. CASE ~(i <= Len(x))
    <3>1. v[i] = z[i - Len(x)]
      BY <1>2, <1>3, <2>4 DEF Buffers
    <3>2. Len(u) = Len(x) + Len(y)
      BY <2>2 DEF Buffers
    <3>3. w[i + Len(y)] = z[(i + Len(y)) - Len(u)]
      BY <1>1, <1>3, <2>1, <2>2, <2>4, <3>2 DEF Buffers
    <3>4. (i + Len(y)) - Len(u) = i - Len(x)
      BY <1>3, <3>2
    <3> QED BY <2>1, <2>4, <3>1, <3>3, <3>4
  <2> QED BY <2>3, <2>4
<1>5. \A i, j \in 1..Len(v) : i < j => at(i) < at(j)
  BY <1>3
<1> HIDE DEF at
<1>6. Increasing(w) /\ \A i \in DOMAIN w : w[i] <= a
  BY <1>1
<1>7. Increasing(v) /\ \A i \in DOMAIN v : v[i] <= a
  BY <1>3, <1>4, <1>5, <1>6 DEF Increasing
<1>8. Len(v) = Len(w) - Len(y)
  BY <1>3
<1> QED BY <1>1, <1>2, <1>7, <1>8

(* A larger line at the end keeps a sequence increasing.                   *)
LEMMA AddLine ==
    ASSUME NEW s \in Buffers, NEW a \in Nat, Increasing(s), \A i \in DOMAIN s : s[i] <= a
    PROVE  /\ Increasing(Append(s, a + 1))
           /\ \A i \in DOMAIN Append(s, a + 1) : Append(s, a + 1)[i] <= a + 1
           /\ Len(Append(s, a + 1)) = Len(s) + 1
<1>0. s \in Seq(Nat)
  BY BoundsAssumption DEF Buffers
<1>1. PICK t \in Seq(Nat) : t = Append(s, a + 1)
  <2>1. a + 1 \in Nat
    OBVIOUS
  <2> QED BY <1>0, <2>1, AppendProperties
<1>2. /\ Len(t) = Len(s) + 1 /\ DOMAIN t = 1..(Len(s) + 1) /\ DOMAIN s = 1..Len(s)
      /\ t[Len(s) + 1] = a + 1 /\ \A i \in 1..Len(s) : t[i] = s[i]
      /\ Len(s) \in Nat
  BY <1>0, <1>1
<1>3. \A i \in 1..Len(s) : s[i] \in Nat /\ s[i] < a + 1
  <2>1. \A i \in 1..Len(s) : s[i] \in Nat
    BY <1>0, ElementOfSeq
  <2>2. \A i \in 1..Len(s) : s[i] <= a
    BY <1>2
  <2> QED BY <2>1, <2>2
<1>4. Increasing(t)
  BY <1>2, <1>3 DEF Increasing
<1>5. \A i \in DOMAIN t : t[i] <= a + 1
  BY <1>2, <1>3
<1> QED BY <1>1, <1>2, <1>4, <1>5

(* Every step keeps the lines accounted for.                               *)
LEMMA LinesStep ==
    ASSUME Inv, SizesInv, LinesInv, [Next]_vars, Inv'
    PROVE  LinesInv'
<1>1. /\ AllLines \in Buffers /\ appended \in Nat /\ reported \in Nat
      /\ BufferLines \in Nat /\ Len(AllLines) \in Nat
  <2>1. AllLines \in Buffers
    BY AllLinesIs DEF Inv
  <2>2. Len(AllLines) \in Nat
    BY <2>1 DEF Buffers
  <2> QED BY <2>1, <2>2, BoundsAssumption DEF Inv, TypeOK
<1>2. CASE Same
  BY <1>2 DEF Same, LinesInv
<1>3. CASE Grows
  <2>1. /\ Increasing(AllLines') /\ \A i \in DOMAIN AllLines' : AllLines'[i] <= appended'
        /\ Len(AllLines') = Len(AllLines) + 1
    BY <1>1, <1>3, AddLine DEF Grows, LinesInv
  <2>2. appended' - Len(AllLines') <= reported' * BufferLines
    <3>1. PICK m \in Nat : m = reported * BufferLines
      BY <1>1
    <3> QED BY <1>1, <1>3, <2>1, <3>1 DEF Grows, LinesInv
  <2> QED BY <2>1, <2>2 DEF LinesInv
<1>4. CASE Drops
  <2>1. PICK x \in Buffers, y \in Buffers, z \in Buffers, n \in Nat :
            /\ AllLines = (x \o y) \o z /\ AllLines' = x \o z
            /\ Len(y) <= n * BufferLines
            /\ reported' = reported + n /\ appended' = appended
    BY <1>4, Zenon DEF Drops
  <2>2. /\ Increasing(AllLines') /\ \A i \in DOMAIN AllLines' : AllLines'[i] <= appended
        /\ Len(AllLines') = Len(AllLines) - Len(y)
    BY <1>1, <2>1, CutOut DEF LinesInv
  <2>3. appended' - Len(AllLines') <= reported' * BufferLines
    <3>1. (reported + n) * BufferLines = reported * BufferLines + n * BufferLines
      BY <1>1
    <3>2. PICK m \in Nat : m = reported * BufferLines
      BY <1>1
    <3>3. PICK k \in Nat : k = n * BufferLines
      BY <1>1
    <3>4. Len(y) \in Nat
      BY DEF Buffers
    <3>5. appended - Len(AllLines) <= m
      BY <3>2 DEF LinesInv
    <3>6. appended - (Len(AllLines) - Len(y)) <= m + k
      BY <1>1, <2>1, <3>3, <3>4, <3>5
    <3> QED BY <2>1, <2>2, <3>1, <3>2, <3>3, <3>6, Zenon
  <2> QED BY <2>1, <2>2, <2>3 DEF LinesInv
<1> QED BY <1>2, <1>3, <1>4, LinesChange

(* No line is lost, repeated or moved before an earlier one on its way     *)
(* from append() through the swap to the file, except for what the         *)
(* "Dropped log messages" lines report (AsyncLogging.cc:87-96), for any    *)
(* number of lines and any size of the buffers.                            *)
THEOREM NoLineLost == Spec => []LinesAccounted
<1>1. Init => SizesInv /\ LinesInv
  <2> SUFFICES ASSUME Init PROVE SizesInv /\ LinesInv
    OBVIOUS
  <2>1. SizesInv
    BY BoundsAssumption DEF Init, SizesInv
  <2>2. AllLines = <<>>
    <3>1. AllLines = ((<<>> \o <<>>) \o <<>>) \o <<>>
      BY FlattenEmpty DEF Init, AllLines
    <3>2. <<>> \o <<>> = <<>>
      BY Concatenations
    <3> QED BY <3>1, <3>2, Zenon
  <2>3. appended = 0 /\ reported = 0
    BY DEF Init
  <2>4. 0 - Len(<<>>) <= 0 * BufferLines
    BY BoundsAssumption
  <2>5. Increasing(<<>>) /\ \A i \in DOMAIN <<>> : <<>>[i] <= 0
    BY DEF Increasing
  <2> QED BY <2>1, <2>2, <2>3, <2>4, <2>5 DEF LinesInv
<1>2. Inv /\ SizesInv /\ LinesInv /\ [Next]_vars => (Inv /\ SizesInv /\ LinesInv)'
  BY InvStep, SizesStep, LinesStep
<1>3. LinesInv => LinesAccounted
  BY DEF LinesInv, LinesAccounted, Increasing
<1> QED BY <1>1, <1>2, <1>3, InvInit, PTL DEF Spec
=============================================================================
