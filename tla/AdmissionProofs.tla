--------------------------- MODULE AdmissionProofs ---------------------------
(***************************************************************************)
(* Every request is attributed to its own client, exactly what the file    *)
(* declares for that client is sent, and telemetry is filtered, for any    *)
(* number of connections and requests, any certificates, configurations,   *)
(* paths and settings.                                                     *)
(***************************************************************************)
EXTENDS Admission, SequenceTheorems, FiniteSetTheorems, TLAPS

\* Intervals from 1 are ordered by inclusion as their ends are, and inclusion of
\* finite sets is well-founded.
LEMMA LeastOf ==
  ASSUME NEW n \in Nat, NEW S \in SUBSET (1..n), S # {}
  PROVE  \E i \in S : \A j \in S : i <= j
<1> DEFINE R == StrictSubsetOrdering(1..n)
           Chain == {1..i : i \in S}
<1>1. IsFiniteSet(1..n)
  BY FS_Interval
<1>2. IsWellFoundedOn(R, SUBSET (1..n))
  BY <1>1, FS_StrictSubsetOrderingWellFounded, FS_FiniteSubsetsOfFinite
<1>3. Chain \subseteq SUBSET (1..n) /\ Chain # {}
  <2>1. \A i \in S : 1..i \subseteq 1..n
    OBVIOUS
  <2>2. QED  BY <2>1
<1>4. PICK x \in Chain : \A y \in Chain : ~(<<y, x>> \in R)
  <2> HIDE DEF R, Chain
  <2>1. QED  BY <1>2, <1>3, WFMin
<1>5. PICK i \in S : x = 1..i
  OBVIOUS
<1>6. ASSUME NEW j \in S, j < i PROVE FALSE
  <2>1. 1..j \in Chain /\ 1..j \subseteq 1..i /\ 1..j \subseteq 1..n /\ 1..i \subseteq 1..n
    BY <1>6
  <2>2. i \in 1..i /\ i \notin 1..j
    BY <1>6
  <2>3. <<1..j, 1..i>> \in R
    BY <2>1, <2>2 DEF StrictSubsetOrdering
  <2>4. QED  BY <1>4, <1>5, <2>1, <2>3
<1>7. QED  BY <1>6

\* The first of the names that are not empty is one of the certificate's.
LEMMA CommonNameIsShown ==
  ASSUME NEW cert \in Certificates, CommonName(cert) # None
  PROVE  \E i \in 1..Len(cert) : cert[i] = CommonName(cert)
<1> DEFINE named == {i \in 1..Len(cert) : cert[i] # ""}
<1>1. cert # NoTls /\ cert \in Seq(STRING)
  BY CertificatesAssumption
<1>2. Len(cert) \in Nat
  BY <1>1, LenProperties
<1>3. named # {}
  BY <1>1 DEF CommonName
<1>4. \E i \in named : \A j \in named : i <= j
  BY <1>2, <1>3, LeastOf
<1>5. CommonName(cert) = cert[CHOOSE i \in named : \A j \in named : i <= j]
  BY <1>1, <1>3 DEF CommonName
<1>6. QED  BY <1>4, <1>5

LEMMA CommonNameType ==
  ASSUME NEW cert \in Certificates \union {NoTls} PROVE CommonName(cert) \in Names
<1>1. CASE cert = NoTls
  BY <1>1 DEF CommonName, Names
<1>2. CASE cert \in Certificates
  <2>1. CASE CommonName(cert) = None
    BY <2>1 DEF Names
  <2>2. CASE CommonName(cert) # None
    <3>1. PICK i \in 1..Len(cert) : cert[i] = CommonName(cert)
      BY <1>2, <2>2, CommonNameIsShown
    <3>2. cert \in Seq(STRING)
      BY <1>2, CertificatesAssumption
    <3>3. QED  BY <3>1, <3>2, ElementOfSeq DEF Names
  <2>3. QED  BY <2>1, <2>2
<1>3. QED  BY <1>1, <1>2

-----------------------------------------------------------------------------
(* Recursion over a sequence. *)

\* Induction from m up to n, for a set of numbers.
LEMMA UpTo ==
  ASSUME NEW m \in Nat, NEW n \in Nat, m <= n, NEW S, m \in S,
         \A i \in m..(n - 1) : i \in S => i + 1 \in S
  PROVE  \A i \in m..n : i \in S
<1>1. SUFFICES ASSUME NEW j \in m..n, j \notin S PROVE FALSE
  OBVIOUS
<1> DEFINE Missed == {i \in 1..n : i > m /\ i \notin S}
<1>2. j \in Missed
  BY <1>1
<1>3. PICK i \in Missed : \A k \in Missed : i <= k
  <2>1. Missed \in SUBSET (1..n) /\ Missed # {}
    BY <1>2
  <2> HIDE DEF Missed
  <2>2. QED  BY <2>1, LeastOf
<1>4. i - 1 \in m..(n - 1) /\ i - 1 \notin Missed /\ i = (i - 1) + 1
  BY <1>3
<1>5. i - 1 \in S
  BY <1>4
<1>6. i \in S
  BY <1>4, <1>5
<1>7. QED  BY <1>3, <1>6

\* The functions that read q from the left.
Readings(S, first, step, q) ==
  {f \in [0..Len(q) -> S] :
      f[0] = first /\ \A i \in 1..Len(q) : f[i] = step[<<f[i - 1], q[i]>>]}

\* A sequence can be read from the left by any function of what was read.
LEMMA FoldExists ==
  ASSUME NEW S, NEW X, NEW first \in S, NEW q \in Seq(X),
         NEW step, \A s \in S, x \in X : step[<<s, x>>] \in S
  PROVE  Readings(S, first, step, q) # {}
<1> DEFINE Upto(n, f) == f[0] = first /\ \A i \in 1..n : f[i] = step[<<f[i - 1], q[i]>>]
           Folded == {n \in 0..Len(q) : \E f \in [0..n -> S] : Upto(n, f)}
<1>1. Len(q) \in Nat
  BY LenProperties
<1>2. 0 \in Folded
  <2> DEFINE f == [i \in 0..0 |-> first]
  <2>1. f \in [0..0 -> S] /\ Upto(0, f) /\ 0 \in 0..Len(q)
    BY <1>1
  <2> HIDE DEF f, Upto
  <2>2. QED  BY <2>1
<1>3. ASSUME NEW n \in 0..(Len(q) - 1), n \in Folded PROVE n + 1 \in Folded
  <2>1. PICK f \in [0..n -> S] : Upto(n, f)
    BY <1>3
  <2>2. q[n + 1] \in X /\ f[n] \in S
    BY <1>1, <2>1, ElementOfSeq
  <2> DEFINE g == [i \in 0..(n + 1) |-> IF i <= n THEN f[i] ELSE step[<<f[n], q[n + 1]>>]]
  <2>3. step[<<f[n], q[n + 1]>>] \in S
    BY <2>2
  <2>4. g \in [0..(n + 1) -> S]
    BY <1>1, <2>1, <2>3
  <2>5. Upto(n + 1, g)
    <3>1. g[0] = first
      BY <1>1, <2>1
    <3>2. ASSUME NEW i \in 1..(n + 1) PROVE g[i] = step[<<g[i - 1], q[i]>>]
      <4>1. CASE i = n + 1
        <5>1. n \in Nat /\ g[n + 1] = step[<<f[n], q[n + 1]>>] /\ g[n] = f[n]
          BY <1>1
        <5>2. i - 1 = n
          BY <1>1, <4>1
        <5> HIDE DEF g
        <5>3. QED  BY <4>1, <5>1, <5>2
      <4>2. CASE i \in 1..n
        BY <1>1, <2>1, <4>2
      <4>3. QED  BY <1>1, <4>1, <4>2
    <3>3. QED  BY <3>1, <3>2
  <2>6. n + 1 \in 0..Len(q)
    BY <1>1
  <2> HIDE DEF g
  <2>7. QED  BY <2>4, <2>5, <2>6
<1>4. \A i \in 0..Len(q) : i \in Folded
  <2> HIDE DEF Folded
  <2>1. \A i \in 0..(Len(q) - 1) : i \in Folded => i + 1 \in Folded
    BY <1>3
  <2>2. 0 \in Nat /\ 0 <= Len(q)
    BY <1>1
  <2>3. QED  BY <1>1, <1>2, <2>1, <2>2, UpTo, Zenon
<1>5. Len(q) \in Folded
  BY <1>1, <1>4
<1>6. QED  BY <1>5 DEF Readings

-----------------------------------------------------------------------------
(* What a walk is. *)

\* The segments followed so far and the one being read.
Walks == [done: Seq(Paths), segment: Paths]

\* Walks stay walks.
LEMMA Typed ==
  ASSUME NEW walk \in Walks, NEW symbol \in Symbols
  PROVE  Decoded(symbol) \in Symbols /\ Read(walk, symbol) \in Walks
<1>1. Decoded(symbol) \in Symbols
  BY DEF Decoded, Symbols
<1>2. walk.done \in Seq(Paths) /\ walk.segment \in Seq(Symbols)
  BY DEF Walks, Paths
<1>3. Append(walk.segment, Decoded(symbol)) \in Seq(Symbols)
  BY <1>1, <1>2, AppendProperties
<1>4. Follow(walk.done, walk.segment) \in Seq(Paths)
  <2>1. Append(walk.done, walk.segment) \in Seq(Paths)
    BY <1>2, AppendProperties DEF Paths
  <2>2. CASE walk.done # <<>>
    <3>1. Len(walk.done) \in Nat \ {0}
      BY <1>2, <2>2, EmptySeq
    <3>2. \A i \in 1..(Len(walk.done) - 1) : walk.done[i] \in Paths
      BY <1>2, <3>1, ElementOfSeq
    <3>3. SubSeq(walk.done, 1, Len(walk.done) - 1) \in Seq(Paths)
      BY <3>1, <3>2, SubSeqProperties
    <3>4. QED  BY <1>2, <2>1, <3>3 DEF Follow, Front
  <2>3. CASE walk.done = <<>>
    BY <1>2, <2>1, <2>3 DEF Follow
  <2>4. QED  BY <2>2, <2>3
<1>5. <<>> \in Seq(Symbols)
  BY EmptySeq
<1>6. QED  BY <1>1, <1>2, <1>3, <1>4, <1>5 DEF Read, Walks, Paths

\* A path and the slash after it.
LEMMA Closing ==
  ASSUME NEW path \in Paths
  PROVE  /\ Append(path, "/") \in Seq(Symbols) /\ Len(Append(path, "/")) = Len(path) + 1
         /\ Len(path) \in Nat
         /\ \A i \in 1..Len(path) : Append(path, "/")[i] = path[i] /\ path[i] \in Symbols
         /\ Append(path, "/")[Len(path) + 1] = "/"
<1>1. path \in Seq(Symbols) /\ "/" \in Symbols
  BY DEF Paths, Symbols
<1>2. QED  BY <1>1, AppendProperties, LenProperties, ElementOfSeq

\* A path is read as the recursion of Walk says.
LEMMA WalkStep ==
  ASSUME NEW path \in Paths
  PROVE  /\ Walk(path) \in [0..(Len(path) + 1) -> Walks]
         /\ Walk(path)[0] = [done |-> <<>>, segment |-> <<>>]
         /\ \A i \in 1..(Len(path) + 1) :
               Walk(path)[i] = Read(Walk(path)[i - 1], Append(path, "/")[i])
<1> DEFINE q == Append(path, "/")
           first == [done |-> <<>>, segment |-> <<>>]
           step == [x \in Walks \X Symbols |-> Read(x[1], x[2])]
<1>1. q \in Seq(Symbols) /\ Len(q) = Len(path) + 1 /\ Len(path) \in Nat
  BY Closing
<1>2. first \in Walks
  BY EmptySeq DEF Walks, Paths
<1>3. \A w \in Walks, s \in Symbols : step[<<w, s>>] = Read(w, s)
  OBVIOUS
<1>4. \A w \in Walks, s \in Symbols : step[<<w, s>>] \in Walks
  BY <1>3, Typed
<1>5. PICK f \in [0..Len(q) -> Walks] :
           f[0] = first /\ \A i \in 1..Len(q) : f[i] = step[<<f[i - 1], q[i]>>]
  <2> HIDE DEF q, first, step
  <2>1. Readings(Walks, first, step, q) # {}
    BY <1>1, <1>2, <1>4, FoldExists
  <2>2. QED  BY <2>1 DEF Readings
<1>6. \A i \in 1..Len(q) : f[i] = Read(f[i - 1], q[i])
  <2>1. ASSUME NEW i \in 1..Len(q) PROVE f[i] = Read(f[i - 1], q[i])
    <3>1. q[i] \in Symbols /\ f[i - 1] \in Walks
      <4> HIDE DEF q
      <4>1. QED  BY <1>1, <1>5, ElementOfSeq
    <3> HIDE DEF step, q
    <3>2. QED  BY <1>3, <1>5, <3>1
  <2>2. QED  BY <2>1
<1>7. f = [i \in 0..(Len(path) + 1) |-> IF i = 0 THEN first ELSE Read(f[i - 1], q[i])]
  <2> HIDE DEF q, first, step
  <2>1. QED  BY <1>1, <1>5, <1>6
<1>8. Walk(path) = CHOOSE walk : walk =
        [i \in 0..(Len(path) + 1) |-> IF i = 0 THEN first ELSE Read(walk[i - 1], q[i])]
  BY DEF Walk
<1>9. Walk(path) = [i \in 0..(Len(path) + 1) |->
                        IF i = 0 THEN first ELSE Read(Walk(path)[i - 1], q[i])]
  <2> HIDE DEF q, first, step
  <2>1. QED  BY <1>7, <1>8
<1> DEFINE typed == {i \in 0..(Len(path) + 1) : Walk(path)[i] \in Walks}
<1>10. /\ Walk(path)[0] = first
       /\ \A i \in 1..(Len(path) + 1) : Walk(path)[i] = Read(Walk(path)[i - 1], q[i])
  <2> HIDE DEF q, first, step
  <2>1. QED  BY <1>1, <1>9
<1>11. \A i \in 0..(Len(path) + 1) : i \in typed
  <2>1. 0 \in typed
    BY <1>1, <1>2, <1>10
  <2>2. ASSUME NEW i \in 0..Len(path), i \in typed PROVE i + 1 \in typed
    <3>1. i + 1 \in 1..(Len(path) + 1) /\ (i + 1) - 1 = i
      BY <1>1
    <3>2. q[i + 1] \in Symbols /\ Walk(path)[i] \in Walks
      <4> HIDE DEF q
      <4>1. QED  BY <1>1, <2>2, <3>1, ElementOfSeq
    <3>3. Read(Walk(path)[i], q[i + 1]) \in Walks
      BY <3>2, Typed
    <3> HIDE DEF q, first
    <3>4. QED  BY <1>10, <3>1, <3>3
  <2> HIDE DEF typed
  <2>3. (Len(path) + 1) - 1 = Len(path) /\ Len(path) + 1 \in Nat /\ 0 <= Len(path) + 1
    BY <1>1
  <2>4. QED  BY <2>1, <2>2, <2>3, UpTo
<1>12. Walk(path) \in [0..(Len(path) + 1) -> Walks]
  <2> HIDE DEF q, first
  <2>1. QED  BY <1>9, <1>11
<1>13. QED  BY <1>10, <1>12

\* Paths that start alike are read alike as far as they do.
LEMMA WalksAgree ==
  ASSUME NEW p \in Paths, NEW q \in Paths,
         NEW n \in 0..(Len(p) + 1), n <= Len(q) + 1,
         \A i \in 1..n : Append(p, "/")[i] = Append(q, "/")[i]
  PROVE  Walk(p)[n] = Walk(q)[n]
<1> DEFINE agree == {i \in 0..n : Walk(p)[i] = Walk(q)[i]}
<1>1. Len(p) \in Nat /\ Len(q) \in Nat
  BY Closing
<1>2. 0 \in agree
  BY <1>1, WalkStep
<1>3. ASSUME NEW i \in 0..(n - 1), i \in agree PROVE i + 1 \in agree
  <2>1. i + 1 \in 1..(Len(p) + 1) /\ i + 1 \in 1..(Len(q) + 1) /\ (i + 1) - 1 = i
        /\ i + 1 \in 1..n
    BY <1>1
  <2>2. Walk(p)[i + 1] = Read(Walk(p)[i], Append(p, "/")[i + 1])
    BY <2>1, WalkStep
  <2>3. Walk(q)[i + 1] = Read(Walk(q)[i], Append(q, "/")[i + 1])
    BY <2>1, WalkStep
  <2>4. QED  BY <1>3, <2>1, <2>2, <2>3
<1>4. \A i \in 0..n : i \in agree
  <2> HIDE DEF agree
  <2>1. n \in Nat /\ 0 <= n
    BY <1>1
  <2>2. QED  BY <1>2, <1>3, <2>1, UpTo
<1>5. QED  BY <1>1, <1>4

-----------------------------------------------------------------------------
(* Sequences. *)

\* One more element of a subsequence.
LEMMA SubSeqExtended ==
  ASSUME NEW S, NEW s \in Seq(S), NEW a \in 1..Len(s), NEW b \in (a - 1)..(Len(s) - 1)
  PROVE  SubSeq(s, a, b + 1) = Append(SubSeq(s, a, b), s[b + 1])
<1>1. Len(s) \in Nat
  BY LenProperties
<1>2. b + 1 \in a..Len(s) /\ (b + 1) - 1 = b
  BY <1>1
<1>3. SubSeq(s, a, b + 1) = SubSeq(s, a, b) \o <<s[b + 1]>>
  BY <1>2, SubSeqRecursiveSecond
<1>4. s[b + 1] \in S /\ \A i \in a..b : s[i] \in S
  BY <1>1, <1>2, ElementOfSeq
<1>5. SubSeq(s, a, b) \in Seq(S)
  BY <1>1, <1>4, SubSeqProperties
<1>6. QED  BY <1>3, <1>4, <1>5, AppendIsConcat

\* A prefix, element by element.
LEMMA PrefixByElements ==
  ASSUME NEW S, NEW s \in Seq(S), NEW t \in Seq(S)
  PROVE  IsPrefix(s, t) <=> /\ Len(s) <= Len(t)
                            /\ \A i \in 1..Len(s) : s[i] = t[i]
<1>1. Len(s) \in Nat /\ Len(t) \in Nat /\ SubSeq(s, 1, Len(s)) = s
  BY LenProperties, SubSeqFull
<1>2. CASE Len(s) <= Len(t)
  <2>1. \A i \in 1..Len(s) : t[i] \in S
    BY <1>1, <1>2, ElementOfSeq
  <2>2. /\ SubSeq(t, 1, Len(s)) \in Seq(S) /\ Len(SubSeq(t, 1, Len(s))) = Len(s)
        /\ \A i \in 1..Len(s) : SubSeq(t, 1, Len(s))[i] = t[i]
    BY <1>1, <2>1, SubSeqProperties
  <2>3. s = SubSeq(t, 1, Len(s)) <=> \A i \in 1..Len(s) : s[i] = SubSeq(t, 1, Len(s))[i]
    BY <2>2, SeqEqual
  <2>4. QED  BY <1>1, <1>2, <2>2, <2>3 DEF IsPrefix
<1>3. QED  BY <1>2 DEF IsPrefix

-----------------------------------------------------------------------------
(* A normal path is split at its slashes and spelled by its segments. *)

\* A normal path has nothing to decode.
LEMMA NormalClosing ==
  ASSUME NEW path \in Paths, Normal(path)
  PROVE  \A i \in 1..(Len(path) + 1) : Decoded(Append(path, "/")[i]) = Append(path, "/")[i]
<1>1. Len(path) \in Nat
  BY Closing
<1>2. ASSUME NEW i \in 1..Len(path)
      PROVE  Decoded(Append(path, "/")[i]) = Append(path, "/")[i]
  <2>1. Append(path, "/")[i] \notin {"%2e", "%2f", "\\"}
    BY Closing DEF Normal
  <2>2. QED  BY <2>1 DEF Decoded
<1>3. Decoded("/") = "/"
  BY DEF Decoded
<1>4. QED  BY <1>1, <1>2, <1>3, Closing

\* A run between two slashes is a segment.
LEMMA RunIsSegment ==
  ASSUME NEW path, NEW a \in 1..(Len(path) + 1), NEW b \in 0..Len(path), a <= b + 1,
         a = 1 \/ path[a - 1] = "/", b = Len(path) \/ path[b + 1] = "/",
         \A k \in a..b : path[k] # "/"
  PROVE  SubSeq(path, a, b) \in Segments(path)
<1> DEFINE Openings == {i \in 1..Len(path) + 1 : i = 1 \/ path[i - 1] = "/"}
           Closings == {j \in 0..Len(path) : j = Len(path) \/ path[j + 1] = "/"}
           Runs == {run \in Openings \X Closings :
                       run[1] <= run[2] + 1 /\ \A k \in run[1]..run[2] : path[k] # "/"}
<1>1. <<a, b>> \in Runs
  <2>1. a \in Openings /\ b \in Closings
    OBVIOUS
  <2> HIDE DEF Openings, Closings
  <2>2. QED  BY <2>1
<1>2. Segments(path) = {SubSeq(path, run[1], run[2]) : run \in Runs}
  BY DEF Segments
<1> HIDE DEF Runs
<1>3. \E run \in Runs : SubSeq(path, a, b) = SubSeq(path, run[1], run[2])
  BY <1>1
<1>4. QED  BY <1>2, <1>3

\* The segment being read is what has come since the last slash.
LEMMA SegmentRead ==
  ASSUME NEW path \in Paths, Normal(path), NEW i \in 0..Len(path)
  PROVE  \E a \in 1..(i + 1) : /\ a = 1 \/ path[a - 1] = "/"
                               /\ \A k \in a..i : path[k] # "/"
                               /\ Walk(path)[i].segment = SubSeq(path, a, i)
<1> DEFINE Since(n, a) == /\ a = 1 \/ path[a - 1] = "/"
                          /\ \A k \in a..n : path[k] # "/"
                          /\ Walk(path)[n].segment = SubSeq(path, a, n)
           known == {n \in 0..Len(path) : \E a \in 1..(n + 1) : Since(n, a)}
<1>1. Len(path) \in Nat /\ path \in Seq(Symbols)
  BY Closing DEF Paths
<1>2. 0 \in known
  <2>1. Walk(path)[0].segment = <<>>
    BY WalkStep
  <2>2. SubSeq(path, 1, 0) = <<>>
    BY SubSeqEmpty
  <2>3. Since(0, 1)
    BY <2>1, <2>2
  <2> HIDE DEF Since
  <2>4. QED  BY <1>1, <2>3
<1>3. ASSUME NEW n \in 0..(Len(path) - 1), n \in known PROVE n + 1 \in known
  <2>1. PICK a \in 1..(n + 1) : Since(n, a)
    BY <1>3
  <2>2. n + 1 \in 1..Len(path) /\ (n + 1) - 1 = n /\ n + 1 \in 1..(Len(path) + 1)
        /\ n \in Nat /\ n + 1 \in 0..Len(path)
    BY <1>1
  <2>3. Append(path, "/")[n + 1] = path[n + 1] /\ Decoded(path[n + 1]) = path[n + 1]
    BY <2>2, Closing, NormalClosing
  <2>4. Walk(path)[n + 1] = Read(Walk(path)[n], path[n + 1]) /\ Walk(path)[n] \in Walks
    <3>1. Walk(path)[n + 1] = Read(Walk(path)[(n + 1) - 1], Append(path, "/")[n + 1])
      BY <2>2, WalkStep
    <3>2. Walk(path)[n] \in Walks
      <4>1. n \in 0..(Len(path) + 1)
        BY <1>1
      <4>2. QED  BY <4>1, WalkStep
    <3>3. QED  BY <2>2, <2>3, <3>1, <3>2
  <2>5. CASE path[n + 1] = "/"
    <3>1. Walk(path)[n + 1].segment = <<>>
      BY <2>3, <2>4, <2>5 DEF Read
    <3>2. SubSeq(path, n + 2, n + 1) = <<>>
      BY <2>2, SubSeqEmpty
    <3>3. Since(n + 1, n + 2)
      BY <2>2, <2>5, <3>1, <3>2
    <3>4. n + 2 \in 1..((n + 1) + 1)
      BY <2>2
    <3> HIDE DEF Since
    <3>5. QED  BY <2>2, <3>3, <3>4
  <2>6. CASE path[n + 1] # "/"
    <3>1. Walk(path)[n + 1].segment = Append(SubSeq(path, a, n), path[n + 1])
      BY <2>1, <2>3, <2>4, <2>6 DEF Read, Walks
    <3>2. SubSeq(path, a, n + 1) = Append(SubSeq(path, a, n), path[n + 1])
      <4>1. a \in 1..Len(path) /\ n \in (a - 1)..(Len(path) - 1)
        BY <1>1, <2>2
      <4>2. QED  BY <1>1, <4>1, SubSeqExtended
    <3>3. \A k \in a..(n + 1) : path[k] # "/"
      BY <2>1, <2>2, <2>6
    <3>4. Since(n + 1, a) /\ a \in 1..((n + 1) + 1)
      BY <2>1, <2>2, <3>1, <3>2, <3>3
    <3> HIDE DEF Since
    <3>5. QED  BY <2>2, <3>4
  <2>7. QED  BY <2>5, <2>6
<1>4. \A n \in 0..Len(path) : n \in known
  <2> HIDE DEF known
  <2>1. 0 <= Len(path)
    BY <1>1
  <2>2. QED  BY <1>1, <1>2, <1>3, <2>1, UpTo
<1>5. QED  BY <1>4

\* What has been read at a slash is one of the path's segments.
LEMMA SegmentAtSlash ==
  ASSUME NEW path \in Paths, Normal(path), NEW i \in 0..Len(path), Append(path, "/")[i + 1] = "/"
  PROVE  Walk(path)[i].segment \in Segments(path)
<1>1. PICK a \in 1..(i + 1) : /\ a = 1 \/ path[a - 1] = "/"
                              /\ \A k \in a..i : path[k] # "/"
                              /\ Walk(path)[i].segment = SubSeq(path, a, i)
  BY SegmentRead
<1>2. Len(path) \in Nat
  BY Closing
<1>3. i = Len(path) \/ path[i + 1] = "/"
  <2>1. i # Len(path) => i + 1 \in 1..Len(path)
    BY <1>2
  <2>2. QED  BY <2>1, Closing
<1>4. a \in 1..(Len(path) + 1) /\ i \in 0..Len(path) /\ a <= i + 1
  BY <1>2
<1>5. QED  BY <1>1, <1>3, <1>4, RunIsSegment

\* Nothing of it is skipped, and nothing climbs.
LEMMA NormalStep ==
  ASSUME NEW path \in Paths, Normal(path), NEW i \in 0..Len(path)
  PROVE  LET walk == Walk(path)[i]
             symbol == Append(path, "/")[i + 1]
         IN  Walk(path)[i + 1] =
               IF symbol = "/"
               THEN [done |-> Append(walk.done, walk.segment), segment |-> <<>>]
               ELSE [done |-> walk.done, segment |-> Append(walk.segment, symbol)]
<1> DEFINE walk == Walk(path)[i]
           symbol == Append(path, "/")[i + 1]
<1>1. Len(path) \in Nat /\ i + 1 \in 1..(Len(path) + 1) /\ (i + 1) - 1 = i
  BY Closing
<1>2. Walk(path)[i + 1] = Read(walk, symbol) /\ walk \in Walks /\ Decoded(symbol) = symbol
  <2>1. Walk(path)[i + 1] = Read(Walk(path)[(i + 1) - 1], symbol)
    BY <1>1, WalkStep
  <2>2. Walk(path) \in [0..(Len(path) + 1) -> Walks] /\ i \in 0..(Len(path) + 1)
    BY <1>1, WalkStep
  <2>3. walk \in Walks
    BY <2>2
  <2>4. Decoded(symbol) = symbol
    BY <1>1, NormalClosing
  <2> HIDE DEF symbol
  <2>5. QED  BY <1>1, <2>1, <2>3, <2>4
<1>3. CASE symbol = "/"
  <2>5. walk.segment \notin {<<>>, <<".">>, <<".", ".">>}
    BY <1>3, SegmentAtSlash DEF Normal
  <2>6. Follow(walk.done, walk.segment) = Append(walk.done, walk.segment)
    BY <2>5 DEF Follow
  <2>7. QED  BY <1>2, <1>3, <2>6 DEF Read
<1>4. CASE symbol # "/"
  <2> HIDE DEF walk, symbol
  <2>1. QED  BY <1>2, <1>4 DEF Read, Walks, walk, symbol
<1>5. QED  BY <1>3, <1>4
-----------------------------------------------------------------------------
(* Segments spell a path. *)

LEMMA PrefixOfConcat ==
  ASSUME NEW S, NEW s \in Seq(S), NEW t \in Seq(S)
  PROVE  IsPrefix(s, s \o t)
<1>1. /\ s \o t \in Seq(S) /\ Len(s \o t) = Len(s) + Len(t)
      /\ \A i \in 1..(Len(s) + Len(t)) :
            (s \o t)[i] = IF i <= Len(s) THEN s[i] ELSE t[i - Len(s)]
  BY ConcatProperties
<1>2. Len(s) \in Nat /\ Len(t) \in Nat
  BY LenProperties
<1>3. \A i \in 1..Len(s) : s[i] = (s \o t)[i]
  BY <1>1, <1>2
<1>4. Len(s) <= Len(s \o t)
  BY <1>1, <1>2
<1> HIDE DEF IsPrefix
<1>5. s \o t \in Seq(S)
  BY <1>1
<1>6. QED  BY <1>3, <1>4, <1>5, PrefixByElements

LEMMA PrefixTransitive ==
  ASSUME NEW S, NEW s \in Seq(S), NEW t \in Seq(S), NEW u \in Seq(S),
         IsPrefix(s, t), IsPrefix(t, u)
  PROVE  IsPrefix(s, u)
<1>1. Len(s) \in Nat /\ Len(t) \in Nat /\ Len(u) \in Nat
  BY LenProperties
<1>2. Len(s) <= Len(t) /\ \A i \in 1..Len(s) : s[i] = t[i]
  BY PrefixByElements
<1>3. Len(t) <= Len(u) /\ \A i \in 1..Len(t) : t[i] = u[i]
  BY PrefixByElements
<1>4. Len(s) <= Len(u) /\ \A i \in 1..Len(s) : s[i] = u[i]
  BY <1>1, <1>2, <1>3
<1>5. QED  BY <1>4, PrefixByElements

LEMMA PrefixReflexive == ASSUME NEW s PROVE Len(s) \in Nat => IsPrefix(s, s)
  BY DEF IsPrefix

LEMMA AppendToConcat ==
  ASSUME NEW S, NEW s \in Seq(S), NEW t \in Seq(S), NEW e \in S
  PROVE  /\ Append(s \o t, e) = s \o Append(t, e)
         /\ Append(s \o t, e) \in Seq(S)
         /\ IsPrefix(s, Append(s \o t, e))
<1>1. s \o t \in Seq(S) /\ <<e>> \in Seq(S) /\ Append(t, e) \in Seq(S)
  BY ConcatProperties, AppendProperties
<1>2. Append(s \o t, e) = (s \o t) \o <<e>> /\ Append(t, e) = t \o <<e>>
  BY <1>1, AppendIsConcat
<1>3. (s \o t) \o <<e>> = s \o (t \o <<e>>)
  BY <1>1, ConcatAssociative
<1>4. IsPrefix(s, s \o Append(t, e)) /\ s \o Append(t, e) \in Seq(S)
  BY <1>1, PrefixOfConcat, ConcatProperties
<1>5. QED  BY <1>2, <1>3, <1>4

WithSlash == [x \in Paths \X Paths |-> Append(x[1] \o x[2], "/")]
Spelling(done) == CHOOSE f \in Readings(Paths, <<>>, WithSlash, done) : TRUE

\* The segments, each with a slash after it.
Joined(done) == Spelling(done)[Len(done)]

LEMMA SpellingStep ==
  ASSUME NEW done \in Seq(Paths)
  PROVE  /\ Spelling(done) \in [0..Len(done) -> Paths]
         /\ Spelling(done)[0] = <<>>
         /\ \A i \in 1..Len(done) :
               Spelling(done)[i] = Append(Spelling(done)[i - 1] \o done[i], "/")
<1>1. \A s, t \in Paths : /\ WithSlash[<<s, t>>] = Append(s \o t, "/")
                          /\ WithSlash[<<s, t>>] \in Paths
  <2>1. ASSUME NEW s \in Paths, NEW t \in Paths PROVE Append(s \o t, "/") \in Paths
    BY AppendToConcat DEF Paths, Symbols
  <2>2. QED  BY <2>1 DEF WithSlash
<1>2. <<>> \in Paths
  BY EmptySeq DEF Paths
<1>3. Readings(Paths, <<>>, WithSlash, done) # {}
  BY <1>1, <1>2, FoldExists
<1>4. Spelling(done) \in Readings(Paths, <<>>, WithSlash, done)
  BY <1>3 DEF Spelling
<1>5. /\ Spelling(done) \in [0..Len(done) -> Paths]
      /\ Spelling(done)[0] = <<>>
      /\ \A i \in 1..Len(done) :
            Spelling(done)[i] = WithSlash[<<Spelling(done)[i - 1], done[i]>>]
  BY <1>4 DEF Readings
<1>6. ASSUME NEW i \in 1..Len(done)
      PROVE  Spelling(done)[i] = Append(Spelling(done)[i - 1] \o done[i], "/")
  <2>1. Len(done) \in Nat /\ done[i] \in Paths
    BY LenProperties, ElementOfSeq
  <2>2. i - 1 \in 0..Len(done)
    BY <2>1
  <2>3. Spelling(done)[i - 1] \in Paths
    BY <1>5, <2>2
  <2>4. QED  BY <1>1, <1>5, <2>1, <2>3
<1>7. QED  BY <1>5, <1>6

LEMMA SpellingsAgree ==
  ASSUME NEW d \in Seq(Paths), NEW e \in Seq(Paths), IsPrefix(d, e)
  PROVE  Spelling(e)[Len(d)] = Joined(d)
<1> DEFINE agree == {i \in 0..Len(d) : Spelling(d)[i] = Spelling(e)[i]}
<1>1. Len(d) \in Nat /\ Len(e) \in Nat
  BY LenProperties
<1>2. Len(d) <= Len(e) /\ \A i \in 1..Len(d) : d[i] = e[i]
  BY PrefixByElements
<1>3. 0 \in agree
  <2>1. Spelling(d)[0] = <<>> /\ Spelling(e)[0] = <<>>
    BY SpellingStep
  <2>2. 0 \in 0..Len(d)
    BY <1>1
  <2>3. QED  BY <2>1, <2>2
<1>4. ASSUME NEW i \in 0..(Len(d) - 1), i \in agree PROVE i + 1 \in agree
  <2>1. i + 1 \in 1..Len(d) /\ i + 1 \in 1..Len(e) /\ (i + 1) - 1 = i /\ i + 1 \in 0..Len(d)
    BY <1>1, <1>2
  <2>2. Spelling(d)[i + 1] = Append(Spelling(d)[i] \o d[i + 1], "/")
    BY <2>1, SpellingStep
  <2>3. Spelling(e)[i + 1] = Append(Spelling(e)[i] \o e[i + 1], "/")
    BY <2>1, SpellingStep
  <2>4. QED  BY <1>2, <1>4, <2>1, <2>2, <2>3
<1>5. \A i \in 0..Len(d) : i \in agree
  <2> HIDE DEF agree
  <2>1. 0 <= Len(d)
    BY <1>1
  <2>2. QED  BY <1>1, <1>3, <1>4, <2>1, UpTo
<1>6. QED  BY <1>1, <1>5 DEF Joined

LEMMA SpellingGrows ==
  ASSUME NEW e \in Seq(Paths), NEW n \in 0..Len(e)
  PROVE  IsPrefix(Spelling(e)[n], Joined(e)) /\ Spelling(e)[n] \in Paths
<1> DEFINE grown == {i \in n..Len(e) : IsPrefix(Spelling(e)[n], Spelling(e)[i])}
<1>1. Len(e) \in Nat /\ n \in Nat /\ n <= Len(e)
  <2>1. Len(e) \in Nat
    BY LenProperties
  <2>2. QED  BY <2>1
<1>2. \A i \in 0..Len(e) : Spelling(e)[i] \in Seq(Symbols)
  BY SpellingStep DEF Paths
<1>3. n \in grown
  BY <1>1, <1>2, LenProperties, PrefixReflexive
<1>4. ASSUME NEW i \in n..(Len(e) - 1), i \in grown PROVE i + 1 \in grown
  <2>1. i + 1 \in 1..Len(e) /\ (i + 1) - 1 = i /\ i + 1 \in n..Len(e) /\ i \in 0..Len(e)
        /\ i + 1 \in 0..Len(e)
    BY <1>1
  <2>2. Spelling(e)[i + 1] = Append(Spelling(e)[i] \o e[i + 1], "/")
    BY <2>1, SpellingStep
  <2>3. e[i + 1] \in Seq(Symbols) /\ "/" \in Symbols
    BY <2>1, ElementOfSeq DEF Paths, Symbols
  <2>4. IsPrefix(Spelling(e)[i], Spelling(e)[i + 1])
    BY <1>2, <2>1, <2>2, <2>3, AppendToConcat
  <2>5. IsPrefix(Spelling(e)[n], Spelling(e)[i])
    BY <1>4
  <2>6. IsPrefix(Spelling(e)[n], Spelling(e)[i + 1])
    BY <1>2, <2>1, <2>4, <2>5, PrefixTransitive
  <2>7. QED  BY <2>1, <2>6
<1>5. \A i \in n..Len(e) : i \in grown
  <2> HIDE DEF grown
  <2>1. QED  BY <1>1, <1>3, <1>4, UpTo
<1>6. Len(e) \in grown
  BY <1>1, <1>5
<1>7. Spelling(e)[n] \in Paths
  BY <1>2 DEF Paths
<1>8. QED  BY <1>6, <1>7 DEF Joined

LEMMA JoinedPrefix ==
  ASSUME NEW d \in Seq(Paths), NEW e \in Seq(Paths), IsPrefix(d, e)
  PROVE  IsPrefix(Joined(d), Joined(e))
<1>1. Len(d) \in 0..Len(e)
  BY LenProperties DEF IsPrefix
<1>2. QED  BY <1>1, SpellingsAgree, SpellingGrows

LEMMA JoinedAppend ==
  ASSUME NEW d \in Seq(Paths), NEW s \in Paths
  PROVE  /\ Joined(Append(d, s)) = Append(Joined(d) \o s, "/")
         /\ Joined(d) \in Paths
<1> DEFINE e == Append(d, s)
<1>1. /\ e \in Seq(Paths) /\ Len(e) = Len(d) + 1 /\ Len(d) \in Nat
      /\ (\A i \in 1..Len(d) : e[i] = d[i]) /\ e[Len(d) + 1] = s
  BY AppendProperties, LenProperties
<1> HIDE DEF e
<1>2. IsPrefix(d, e)
  <2>1. Len(d) <= Len(e) /\ \A i \in 1..Len(d) : d[i] = e[i]
    BY <1>1
  <2>2. QED  BY <1>1, <2>1, PrefixByElements
<1>3. Spelling(e)[Len(d)] = Joined(d)
  BY <1>1, <1>2, SpellingsAgree
<1>4. Len(d) + 1 \in 1..Len(e) /\ (Len(d) + 1) - 1 = Len(d)
  BY <1>1
<1>5. Spelling(e)[Len(d) + 1] = Append(Joined(d) \o s, "/")
  BY <1>1, <1>3, <1>4, SpellingStep
<1>6. Joined(d) \in Paths
  <2>1. Spelling(d) \in [0..Len(d) -> Paths] /\ Len(d) \in 0..Len(d)
    <3>1. Spelling(d) \in [0..Len(d) -> Paths]
      BY SpellingStep
    <3>2. QED  BY <1>1, <3>1
  <2>2. QED  BY <2>1 DEF Joined
<1>7. QED  BY <1>1, <1>5, <1>6 DEF Joined, e
\* What a normal path denotes is how it is spelled.
LEMMA Spelled ==
  ASSUME NEW path \in Paths, Normal(path), NEW n \in 0..(Len(path) + 1)
  PROVE  Joined(Walk(path)[n].done) \o Walk(path)[n].segment = SubSeq(Append(path, "/"), 1, n)
<1> DEFINE q == Append(path, "/")
           spelled == {i \in 0..(Len(path) + 1) :
                         Joined(Walk(path)[i].done) \o Walk(path)[i].segment = SubSeq(q, 1, i)}
<1>1. q \in Seq(Symbols) /\ Len(q) = Len(path) + 1 /\ Len(path) \in Nat
  BY Closing
<1>2. \A i \in 0..(Len(path) + 1) : /\ Walk(path)[i] \in Walks
                                    /\ Walk(path)[i].done \in Seq(Paths)
                                    /\ Walk(path)[i].segment \in Seq(Symbols)
  BY WalkStep DEF Walks, Paths
<1>3. \A d \in Seq(Paths) : Joined(d) \in Seq(Symbols)
  BY JoinedAppend, EmptySeq DEF Paths
<1>4. 0 \in spelled
  <2>1. Walk(path)[0].done = <<>> /\ Walk(path)[0].segment = <<>>
    BY WalkStep
  <2>2. Joined(<<>>) = <<>>
    BY SpellingStep, EmptySeq DEF Joined
  <2>3. SubSeq(q, 1, 0) = <<>> /\ <<>> \o <<>> = <<>>
    BY SubSeqEmpty, ConcatEmptySeq, EmptySeq
  <2> HIDE DEF q
  <2>4. Joined(Walk(path)[0].done) \o Walk(path)[0].segment = SubSeq(q, 1, 0)
    BY <2>1, <2>2, <2>3
  <2>5. 0 \in 0..(Len(path) + 1)
    BY <1>1
  <2>6. QED  BY <2>4, <2>5
<1>5. ASSUME NEW i \in 0..Len(path), i \in spelled PROVE i + 1 \in spelled
  <2> DEFINE done == Walk(path)[i].done
             segment == Walk(path)[i].segment
  <2>1. i \in 0..(Len(path) + 1) /\ i + 1 \in 0..(Len(path) + 1) /\ i + 1 \in 1..Len(q)
        /\ 1 \in 1..Len(q) /\ i \in (1 - 1)..(Len(q) - 1)
    BY <1>1
  <2>2. SubSeq(q, 1, i + 1) = Append(SubSeq(q, 1, i), q[i + 1]) /\ q[i + 1] \in Symbols
    <3> HIDE DEF q
    <3>1. QED  BY <1>1, <2>1, SubSeqExtended, ElementOfSeq
  <2>3. Joined(done) \o segment = SubSeq(q, 1, i)
    BY <1>5
  <2>4. done \in Seq(Paths) /\ segment \in Seq(Symbols) /\ Joined(done) \in Seq(Symbols)
    BY <1>2, <1>3, <2>1
  <2>5. Walk(path)[i + 1] =
          IF q[i + 1] = "/" THEN [done |-> Append(done, segment), segment |-> <<>>]
          ELSE [done |-> done, segment |-> Append(segment, q[i + 1])]
    BY NormalStep
  <2>6. CASE q[i + 1] = "/"
    <3>1. Walk(path)[i + 1].done = Append(done, segment) /\ Walk(path)[i + 1].segment = <<>>
      BY <2>5, <2>6
    <3> HIDE DEF done, segment, q
    <3>2. Joined(Append(done, segment)) = Append(SubSeq(q, 1, i), "/")
      BY <2>3, <2>4, JoinedAppend DEF Paths
    <3>3. Joined(Append(done, segment)) \in Seq(Symbols)
      BY <1>3, <2>4, AppendProperties DEF Paths
    <3>4. Joined(Append(done, segment)) \o <<>> = SubSeq(q, 1, i + 1)
      BY <2>2, <2>6, <3>2, <3>3, ConcatEmptySeq
    <3>5. QED  BY <2>1, <3>1, <3>4
  <2>7. CASE q[i + 1] # "/"
    <3>1. Walk(path)[i + 1].done = done /\ Walk(path)[i + 1].segment = Append(segment, q[i + 1])
      BY <2>5, <2>7
    <3> HIDE DEF done, segment, q
    <3> DEFINE before == Joined(done)
               next == q[i + 1]
    <3>2. next \in Symbols /\ segment \in Seq(Symbols) /\ before \in Seq(Symbols)
      BY <2>2, <2>4
    <3>3. before \o Append(segment, next) = SubSeq(q, 1, i + 1)
      <4>1. before \o segment = SubSeq(q, 1, i) /\ SubSeq(q, 1, i + 1) = Append(SubSeq(q, 1, i), next)
        BY <2>2, <2>3
      <4> HIDE DEF before, next
      <4>2. before \o Append(segment, next) = Append(before \o segment, next)
        BY <3>2, AppendToConcat
      <4>3. QED  BY <4>1, <4>2, Zenon
    <3>4. QED  BY <2>1, <3>1, <3>3
  <2>8. QED  BY <2>6, <2>7
<1>6. \A i \in 0..(Len(path) + 1) : i \in spelled
  <2> HIDE DEF spelled
  <2>1. (Len(path) + 1) - 1 = Len(path) /\ Len(path) + 1 \in Nat /\ 0 <= Len(path) + 1
    BY <1>1
  <2>2. QED  BY <1>4, <1>5, <2>1, UpTo
<1>7. QED  BY <1>6

LEMMA SpelledWhole ==
  ASSUME NEW path \in Paths, Normal(path)
  PROVE  Resolved(path) \in Seq(Paths) /\ Joined(Resolved(path)) = Append(path, "/")
<1> DEFINE n == Len(path) + 1
           q == Append(path, "/")
<1>1. /\ Len(path) \in Nat /\ n \in 0..n /\ Len(path) \in 0..Len(path)
      /\ q \in Seq(Symbols) /\ Len(q) = n /\ q[n] = "/"
  BY Closing
<1>2. Walk(path)[n] \in Walks
  BY <1>1, WalkStep
<1>3. Walk(path)[n].segment = <<>>
  <2> DEFINE walk == Walk(path)[Len(path)]
  <2>1. Walk(path)[n] =
          IF q[n] = "/" THEN [done |-> Append(walk.done, walk.segment), segment |-> <<>>]
          ELSE [done |-> walk.done, segment |-> Append(walk.segment, q[n])]
    BY <1>1, NormalStep
  <2>2. QED  BY <1>1, <2>1
<1>4. Joined(Walk(path)[n].done) \o <<>> = SubSeq(q, 1, n)
  BY <1>1, <1>3, Spelled
<1>5. Walk(path)[n].done \in Seq(Paths)
  BY <1>2 DEF Walks
<1>6. Joined(Walk(path)[n].done) \in Seq(Symbols)
  BY <1>5, JoinedAppend, EmptySeq DEF Paths
<1>7. SubSeq(q, 1, n) = q
  BY <1>1, SubSeqFull
<1>8. QED  BY <1>4, <1>5, <1>6, <1>7, ConcatEmptySeq DEF Resolved

\* The segments of a normal path are read one after another.
LEMMA DoneGrows ==
  ASSUME NEW path \in Paths, Normal(path), NEW n \in 0..(Len(path) + 1)
  PROVE  IsPrefix(Walk(path)[n].done, Resolved(path))
<1> DEFINE last == Len(path) + 1
           grown == {i \in n..last : IsPrefix(Walk(path)[n].done, Walk(path)[i].done)}
<1>1. Len(path) \in Nat /\ n \in Nat /\ n <= last /\ last \in Nat /\ last - 1 = Len(path)
      /\ last \in n..last
  <2>1. Len(path) \in Nat
    BY Closing
  <2>2. QED  BY <2>1
<1>2. \A i \in 0..last : /\ Walk(path)[i] \in Walks
                         /\ Walk(path)[i].done \in Seq(Paths)
                         /\ Walk(path)[i].segment \in Paths
  BY WalkStep DEF Walks
<1>3. n \in grown
  BY <1>1, <1>2, LenProperties, PrefixReflexive
<1>4. ASSUME NEW i \in n..(last - 1), i \in grown PROVE i + 1 \in grown
  <2> DEFINE done == Walk(path)[i].done
             segment == Walk(path)[i].segment
  <2>1. i \in 0..Len(path) /\ i \in 0..last /\ i + 1 \in n..last /\ i + 1 \in 0..last
    BY <1>1
  <2>2. Walk(path)[i + 1].done \in {done, Append(done, segment)}
    <3> DEFINE symbol == Append(path, "/")[i + 1]
    <3>1. Walk(path)[i + 1] =
            IF symbol = "/" THEN [done |-> Append(done, segment), segment |-> <<>>]
            ELSE [done |-> done, segment |-> Append(segment, symbol)]
      BY <2>1, NormalStep
    <3> HIDE DEF done, segment, symbol
    <3>2. QED  BY <3>1
  <2>3. done \in Seq(Paths) /\ segment \in Paths /\ Walk(path)[n].done \in Seq(Paths)
        /\ Walk(path)[i + 1].done \in Seq(Paths)
    BY <1>2, <2>1
  <2>4. IsPrefix(done, Append(done, segment)) /\ IsPrefix(done, done)
    <3> HIDE DEF done, segment
    <3>1. Append(done, segment) = done \o <<segment>> /\ <<segment>> \in Seq(Paths)
      BY <2>3, AppendIsConcat
    <3>2. IsPrefix(done, done \o <<segment>>)
      BY <2>3, <3>1, PrefixOfConcat
    <3>3. Len(done) \in Nat
      BY <2>3, LenProperties
    <3>4. QED  BY <3>1, <3>2, <3>3, PrefixReflexive
  <2>5. IsPrefix(Walk(path)[n].done, done) /\ IsPrefix(done, Walk(path)[i + 1].done)
    BY <1>4, <2>2, <2>4
  <2>6. IsPrefix(Walk(path)[n].done, Walk(path)[i + 1].done)
    <3> HIDE DEF done
    <3>1. QED  BY <2>3, <2>5, PrefixTransitive
  <2>7. QED  BY <2>1, <2>6
<1>5. \A i \in n..last : i \in grown
  <2> HIDE DEF grown, last
  <2>1. QED  BY <1>1, <1>3, <1>4, UpTo
<1>6. QED  BY <1>1, <1>5 DEF Resolved
-----------------------------------------------------------------------------
(* What the configuration permits. *)

\* A normal prefix ends in no slash.
LEMMA NormalStripped ==
  ASSUME NEW prefix \in Paths, Normal(prefix) PROVE Stripped(prefix) = prefix
<1> DEFINE n == Len(prefix)
<1>1. n \in Nat \ {0} /\ prefix \in Seq(Symbols)
  BY EmptySeq, LenProperties DEF Normal, Paths
<1>2. prefix[n] # "/"
  <2>1. SUFFICES ASSUME prefix[n] = "/" PROVE FALSE
    OBVIOUS
  <2>2. n + 1 \in 1..(n + 1) /\ n \in 0..n /\ n + 1 <= n + 1 /\ (n + 1) - 1 = n
        /\ \A k \in (n + 1)..n : prefix[k] # "/"
    BY <1>1
  <2>3. SubSeq(prefix, n + 1, n) \in Segments(prefix)
    BY <2>1, <2>2, RunIsSegment
  <2>4. SubSeq(prefix, n + 1, n) = <<>>
    BY <1>1, SubSeqEmpty
  <2>5. QED  BY <2>3, <2>4 DEF Normal
<1>3. {i \in 1..Len(prefix) : \A k \in i..Len(prefix) : prefix[k] = "/"} = {}
  BY <1>1, <1>2
<1>4. Stripped(prefix) = SubSeq(prefix, 1, n - 0)
  BY <1>3, FS_EmptySet DEF Stripped
<1>5. QED  BY <1>1, <1>4, SubSeqFull

\* The rule of permits_path is a comparison of whole segments.
LEMMA PrefixWithSlash ==
  ASSUME NEW prefix \in Paths, NEW path \in Paths
  PROVE  path = prefix \/ IsPrefix(Append(prefix, "/"), path)
           <=> IsPrefix(Append(prefix, "/"), Append(path, "/"))
<1> DEFINE f == Append(prefix, "/")
           p == Append(path, "/")
<1>1. /\ f \in Seq(Symbols) /\ Len(f) = Len(prefix) + 1 /\ Len(prefix) \in Nat
      /\ (\A i \in 1..Len(prefix) : f[i] = prefix[i]) /\ f[Len(prefix) + 1] = "/"
  BY Closing
<1>2. /\ p \in Seq(Symbols) /\ Len(p) = Len(path) + 1 /\ Len(path) \in Nat
      /\ (\A i \in 1..Len(path) : p[i] = path[i]) /\ p[Len(path) + 1] = "/"
  BY Closing
<1>3. prefix \in Seq(Symbols) /\ path \in Seq(Symbols)
  BY DEF Paths
<1> HIDE DEF f, p
<1>4. /\ IsPrefix(f, p) <=> Len(f) <= Len(p) /\ \A i \in 1..Len(f) : f[i] = p[i]
      /\ IsPrefix(f, path) <=> Len(f) <= Len(path) /\ \A i \in 1..Len(f) : f[i] = path[i]
  <2>1. IsPrefix(f, p) <=> Len(f) <= Len(p) /\ \A i \in 1..Len(f) : f[i] = p[i]
    BY <1>1, <1>2, PrefixByElements
  <2>2. IsPrefix(f, path) <=> Len(f) <= Len(path) /\ \A i \in 1..Len(f) : f[i] = path[i]
    BY <1>1, <1>3, PrefixByElements
  <2>3. QED  BY <2>1, <2>2
<1>5. ASSUME IsPrefix(f, p), path # prefix PROVE IsPrefix(f, path)
  <2>1. Len(prefix) # Len(path)
    <3>1. SUFFICES ASSUME Len(prefix) = Len(path) PROVE FALSE
      OBVIOUS
    <3>2. \A i \in 1..Len(prefix) : prefix[i] = path[i]
      BY <1>1, <1>2, <1>4, <1>5, <3>1
    <3>3. QED  BY <1>3, <1>5, <3>1, <3>2, SeqEqual
  <2>2. Len(f) <= Len(path)
    BY <1>1, <1>2, <1>4, <1>5, <2>1
  <2>3. \A i \in 1..Len(f) : f[i] = path[i]
    BY <1>1, <1>2, <1>4, <1>5, <2>2
  <2>4. QED  BY <1>4, <2>2, <2>3
<1>6. ASSUME path = prefix PROVE IsPrefix(f, p)
  BY <1>1, <1>6, PrefixReflexive DEF f, p
<1>7. ASSUME IsPrefix(f, path) PROVE IsPrefix(f, p)
  <2>1. Len(f) <= Len(p)
    BY <1>1, <1>2, <1>4, <1>7
  <2>2. \A i \in 1..Len(f) : f[i] = p[i]
    BY <1>1, <1>2, <1>4, <1>7
  <2>3. QED  BY <1>4, <2>1, <2>2
<1>8. QED  BY <1>5, <1>6, <1>7 DEF f, p

\* Of normal paths the rule decides what they denote, neither more nor less.
THEOREM PrefixRuleExact ==
  ASSUME NEW prefix \in Paths, Normal(prefix), NEW path \in Paths, Normal(path)
  PROVE  path = prefix \/ IsPrefix(Append(Stripped(prefix), "/"), path)
           <=> IsPrefix(Resolved(prefix), Resolved(path))
<1> DEFINE f == Append(prefix, "/")
           p == Append(path, "/")
<1>1. /\ f \in Seq(Symbols) /\ Len(f) = Len(prefix) + 1 /\ Len(prefix) \in Nat
      /\ p \in Seq(Symbols) /\ Len(p) = Len(path) + 1 /\ Len(path) \in Nat
  BY Closing
<1>2. ASSUME IsPrefix(f, p) PROVE IsPrefix(Resolved(prefix), Resolved(path))
  <2> HIDE DEF f, p
  <2>1. Len(prefix) + 1 \in 0..(Len(prefix) + 1) /\ Len(prefix) + 1 <= Len(path) + 1
        /\ \A i \in 1..(Len(prefix) + 1) : f[i] = p[i]
    BY <1>1, <1>2, PrefixByElements
  <2>2. Walk(prefix)[Len(prefix) + 1] = Walk(path)[Len(prefix) + 1]
    BY <2>1, WalksAgree DEF f, p
  <2>3. Len(prefix) + 1 \in 0..(Len(path) + 1)
    BY <1>1, <2>1
  <2>4. IsPrefix(Walk(path)[Len(prefix) + 1].done, Resolved(path))
    BY <2>3, DoneGrows
  <2>5. QED  BY <2>2, <2>4 DEF Resolved
<1>3. ASSUME IsPrefix(Resolved(prefix), Resolved(path)) PROVE IsPrefix(f, p)
  <2>1. IsPrefix(Joined(Resolved(prefix)), Joined(Resolved(path)))
    BY <1>3, SpelledWhole, JoinedPrefix
  <2>2. QED  BY <2>1, SpelledWhole
<1>4. path = prefix \/ IsPrefix(f, path) <=> IsPrefix(f, p)
  BY PrefixWithSlash
<1>5. QED  BY <1>2, <1>3, <1>4, NormalStripped

\* authorize takes exactly the normal paths of what was declared.
THEOREM PermitsDeclared ==
  ASSUME NEW spec \in SpecType, Valid(spec), NEW path \in Paths, Normal(path)
  PROVE  PermitsPath(InstancePolicy(spec), path) <=> WithinDeclared(spec, path)
<1>1. spec.prefixes \in Seq(Paths) /\ DOMAIN spec.prefixes = 1..Len(spec.prefixes)
  BY LenProperties DEF SpecType
<1>2. \A i \in 1..Len(spec.prefixes) : spec.prefixes[i] \in Paths /\ Normal(spec.prefixes[i])
  BY <1>1, ElementOfSeq DEF Valid
<1>3. InstancePolicy(spec).prefixes = {spec.prefixes[i] : i \in 1..Len(spec.prefixes)}
  BY <1>1 DEF InstancePolicy, ToSet
<1>4. PermitsPath(InstancePolicy(spec), path) <=>
         \E i \in 1..Len(spec.prefixes) :
            path = spec.prefixes[i] \/ IsPrefix(Append(Stripped(spec.prefixes[i]), "/"), path)
  BY <1>3 DEF PermitsPath
<1>5. QED  BY <1>2, <1>4, PrefixRuleExact DEF WithinDeclared

\* A normal path denotes its own segments, none of which climbs or stands still:
\* whoever decodes and follows it never leaves the mount.
THEOREM NormalStaysInside ==
  ASSUME NEW path \in Paths, Normal(path), NEW k \in 1..Len(Resolved(path))
  PROVE  /\ Resolved(path)[k] \in Segments(path)
         /\ Resolved(path)[k] \notin {<<>>, <<".">>, <<".", ".">>}
<1> DEFINE Own(done) == \A j \in 1..Len(done) : done[j] \in Segments(path)
           n == Len(path) + 1
           own == {i \in 0..n : Own(Walk(path)[i].done)}
<1>1. Len(path) \in Nat /\ n \in 0..n /\ n \in Nat /\ n - 1 = Len(path)
  <2>1. Len(path) \in Nat
    BY Closing
  <2>2. QED  BY <2>1
<1>2. \A i \in 0..n : Walk(path)[i].done \in Seq(Paths)
  BY WalkStep DEF Walks
<1>3. 0 \in own
  <2>1. Walk(path)[0].done = <<>> /\ Len(<<>>) = 0
    BY WalkStep, EmptySeq
  <2>2. QED  BY <1>1, <2>1
<1>4. ASSUME NEW i \in 0..(n - 1), i \in own PROVE i + 1 \in own
  <2> DEFINE done == Walk(path)[i].done
             segment == Walk(path)[i].segment
             symbol == Append(path, "/")[i + 1]
  <2>1. i \in 0..Len(path) /\ i \in 0..n /\ i + 1 \in 0..n
    BY <1>1
  <2>2. Own(done) /\ done \in Seq(Paths)
    BY <1>2, <1>4, <2>1
  <2>3. Walk(path)[i + 1] = IF symbol = "/" THEN [done |-> Append(done, segment), segment |-> <<>>]
                            ELSE [done |-> done, segment |-> Append(segment, symbol)]
    BY <2>1, NormalStep
  <2>4. CASE symbol = "/"
    <3>1. segment \in Segments(path) /\ segment \in Paths
      BY <2>1, <2>4, SegmentAtSlash, WalkStep DEF Walks
    <3>2. Walk(path)[i + 1].done = Append(done, segment)
      BY <2>3, <2>4
    <3> HIDE DEF done, segment
    <3>3. /\ Len(Append(done, segment)) = Len(done) + 1 /\ Len(done) \in Nat
          /\ \A j \in 1..Len(done) : Append(done, segment)[j] = done[j]
          /\ Append(done, segment)[Len(done) + 1] = segment
      BY <2>2, <3>1, AppendProperties, LenProperties
    <3>4. Own(Append(done, segment))
      BY <2>2, <3>1, <3>3
    <3> HIDE DEF Own
    <3>5. QED  BY <2>1, <3>2, <3>4
  <2>5. CASE symbol # "/"
    <3>1. Walk(path)[i + 1].done = done
      BY <2>3, <2>5
    <3> HIDE DEF Own, done
    <3>2. QED  BY <2>1, <2>2, <3>1
  <2>6. QED  BY <2>4, <2>5
<1>5. \A i \in 0..n : i \in own
  <2> HIDE DEF own
  <2>1. 0 <= n
    BY <1>1
  <2> HIDE DEF n
  <2>2. QED  BY <1>1, <1>3, <1>4, <2>1, UpTo
<1>6. Own(Resolved(path))
  BY <1>1, <1>5 DEF Resolved
<1>7. QED  BY <1>6 DEF Normal

\* Two normal paths that denote the same are the same: a secret has one spelling
\* under which it can be asked for, permitted and recorded.
THEOREM OneSpelling ==
  ASSUME NEW path \in Paths, Normal(path), NEW other \in Paths, Normal(other),
         Resolved(path) = Resolved(other)
  PROVE  path = other
<1>1. Append(path, "/") = Append(other, "/")
  BY SpelledWhole
<1>2. /\ Len(path) \in Nat /\ Len(Append(path, "/")) = Len(path) + 1
      /\ Len(other) \in Nat /\ Len(Append(other, "/")) = Len(other) + 1
      /\ \A i \in 1..Len(path) : Append(path, "/")[i] = path[i]
      /\ \A i \in 1..Len(other) : Append(other, "/")[i] = other[i]
  BY Closing
<1>3. Len(path) = Len(other) /\ \A i \in 1..Len(path) : path[i] = other[i]
  BY <1>1, <1>2
<1>4. path \in Seq(Symbols) /\ other \in Seq(Symbols)
  BY DEF Paths
<1>5. QED  BY <1>3, <1>4, SeqEqual

\* A path nobody could read in two ways is not rejected.
LEMMA PlainIsNormal ==
  ASSUME NEW path \in Paths, Plain(path) PROVE Normal(path)
<1>1. Len(path) \in Nat /\ path \in Seq(Symbols)
  BY Closing DEF Paths
<1>2. path # <<>>
  <2>1. SUFFICES ASSUME path = <<>> PROVE FALSE
    OBVIOUS
  <2>2. Len(path) = 0
    BY <2>1, EmptySeq
  <2>3. SubSeq(path, 1, 0) \in Segments(path)
    BY <2>2, RunIsSegment
  <2>4. SubSeq(path, 1, 0) = <<>>
    BY SubSeqEmpty
  <2>5. QED  BY <2>3, <2>4 DEF Plain
<1>3. \A i \in 1..Len(path) : path[i] \notin {"\\", "odd", "%2e", "%2f", "."}
  BY LettersAssumption DEF Plain
<1>4. ASSUME NEW segment \in Segments(path), segment # <<>>
      PROVE  segment[1] # "."
  <2>1. PICK a \in 1..(Len(path) + 1), b \in 0..Len(path) : segment = SubSeq(path, a, b)
    BY <1>4 DEF Segments
  <2>2. a <= b
    BY <1>1, <1>4, <2>1, SubSeqEmpty
  <2>3. a \in Int /\ b \in Int /\ 1 \in 1..(b - a + 1) /\ a \in 1..Len(path)
        /\ \A i \in a..b : path[i] \in Symbols
    BY <1>1, <2>2, ElementOfSeq
  <2>4. SubSeq(path, a, b)[1] = path[a + 1 - 1]
    BY <2>3, SubSeqProperties
  <2>5. QED  BY <1>3, <2>1, <2>3, <2>4
<1>5. <<".">>[1] = "." /\ <<".", ".">>[1] = "." /\ <<".">> # <<>> /\ <<".", ".">> # <<>>
  OBVIOUS
<1>6. Segments(path) \intersect {<<>>, <<".">>, <<".", ".">>} = {}
  <2>1. <<>> \notin Segments(path)
    BY DEF Plain
  <2>2. <<".">> \notin Segments(path) /\ <<".", ".">> \notin Segments(path)
    BY <1>4, <1>5
  <2>3. QED  BY <2>1, <2>2
<1>7. QED  BY <1>2, <1>3, <1>6 DEF Normal

-----------------------------------------------------------------------------
(* Steps that leave a part of the state alone. *)

LEMMA TelemetryStays ==
  ASSUME Inductive, UNCHANGED <<process, telemetryVars>>
  PROVE  T!TypeOK' /\ (\A s \in T!Signals : Private(s)') /\ T!ExportsRedacted'
<1>1. /\ settings' = settings /\ provider' = provider /\ pipe' = pipe /\ observed' = observed
      /\ process' = process
  BY DEF telemetryVars
<1>2. T!TypeOK'
  BY <1>1 DEF Inductive, TypeOK, T!TypeOK
<1>3. \A s \in T!Signals : Private(s)'
  BY <1>1 DEF Inductive, Private, T!NativeExport, T!AutoConfigure, T!Filtered, T!Guarded
<1>4. T!ExportsRedacted'
  BY <1>1 DEF Inductive, T!ExportsRedacted
<1>5. QED  BY <1>2, <1>3, <1>4

LEMMA ServiceStays ==
  ASSUME Inductive, UNCHANGED <<start, process, connectionVars, requestVars>>,
         T!TypeOK', \A s \in T!Signals : Private(s)', T!ExportsRedacted'
  PROVE  Inductive'
<1>1. /\ start' = start /\ process' = process
      /\ certificate' = certificate /\ ssl_object' = ssl_object
      /\ stage' = stage /\ input' = input /\ origin' = origin /\ scope' = scope
      /\ caller' = caller /\ record' = record
  BY DEF connectionVars, requestVars
<1>2. TypeOK'
  BY <1>1 DEF Inductive, TypeOK
<1>3. (\A c \in Connections : Connected(c)') /\ \A r \in Requests : Handled(r)'
  BY <1>1 DEF Inductive, Connected, Handled
<1>4. QED  BY <1>1, <1>2, <1>3 DEF Inductive

-----------------------------------------------------------------------------
(* main() *)

LEMMA BeginInductive == Init => Inductive
<1>1. SUFFICES ASSUME Init PROVE Inductive
  OBVIOUS
<1>2. start.telemetry \in T!Setups /\ T!Begin(start.telemetry)
  BY <1>1, SetupsAssumption DEF Init
<1>3. /\ settings = start.telemetry.settings /\ provider = start.telemetry.provider
      /\ pipe = start.telemetry.pipe /\ observed = {}
  BY <1>2 DEF T!Begin
<1>4. /\ settings \in T!SettingsType /\ provider \in [T!Signals -> T!Kinds]
      /\ pipe \in [T!Signals -> {<<>>, <<"early">>}]
  BY <1>2, <1>3 DEF T!Setups
<1>5. <<>> \in Seq(T!Processors) /\ <<"early">> \in Seq(T!Processors)
  BY EmptySeq DEF T!Processors
<1>6. T!TypeOK /\ T!ExportsRedacted
  BY <1>3, <1>4, <1>5 DEF T!TypeOK, T!ExportsRedacted
<1>7. process = "configuring"
  BY <1>1 DEF Init
<1>8. ASSUME NEW s \in T!Signals PROVE Private(s)
  <2>1. pipe[s] \in {<<>>, <<"early">>} /\ (s \in settings.explicit => provider[s] # "proxy")
    BY <1>2, <1>3, <1>4 DEF T!Setups
  <2>2. T!Guarded(s)
    BY <2>1 DEF T!Guarded
  <2>3. QED  BY <1>7, <2>1, <2>2 DEF Private, BeforeApp
<1>9. /\ certificate = [c \in Connections |-> None] /\ ssl_object = [c \in Connections |-> None]
      /\ stage = [r \in Requests |-> "unseen"] /\ input = [r \in Requests |-> None]
      /\ origin = [r \in Requests |-> None] /\ scope = [r \in Requests |-> None]
      /\ caller = [r \in Requests |-> None] /\ record = [r \in Requests |-> NoRecord]
      /\ start \in Starts
  BY <1>1 DEF Init
<1>10. TypeOK
  BY <1>6, <1>7, <1>9 DEF TypeOK, Processes, Stages, Names, NoRecord
<1>11. QED  BY <1>6, <1>7, <1>8, <1>9, <1>10 DEF Inductive, Connected, Handled

\* The checks only advance the process; none of them can be passed over.
LEMMA ProcessKeepsInductive ==
  ASSUME Inductive, NEW next \in {"checking_tls", "checking_credentials", "creating", "stopped"},
         process \in {"configuring", "checking_tls", "checking_credentials"},
         Proceed(next), UNCHANGED telemetryVars,
         next \in {"checking_credentials", "creating"} => TlsComplete(start.tls)
  PROVE  Inductive'
<1>1. /\ process' = next /\ start' = start
      /\ certificate' = certificate /\ ssl_object' = ssl_object
      /\ stage' = stage /\ input' = input /\ origin' = origin /\ scope' = scope
      /\ caller' = caller /\ record' = record
      /\ settings' = settings /\ provider' = provider /\ pipe' = pipe /\ observed' = observed
  BY DEF Proceed, connectionVars, requestVars, telemetryVars
<1>2. TypeOK'
  BY <1>1 DEF Inductive, TypeOK, T!TypeOK, Processes
<1>3. \A c \in Connections : Connected(c)'
  BY <1>1 DEF Inductive, Connected
<1>4. \A r \in Requests : Handled(r)'
  BY <1>1 DEF Inductive, Handled
<1>5. \A s \in T!Signals : Private(s)'
  BY <1>1 DEF Inductive, Private, BeforeApp, T!Guarded
<1>6. T!ExportsRedacted'
  BY <1>1 DEF Inductive, T!ExportsRedacted
<1>7. next \in {"checking_credentials", "creating", "created", "serving"} => TlsComplete(start.tls)
  OBVIOUS
<1>8. QED  BY <1>1, <1>2, <1>3, <1>4, <1>5, <1>6, <1>7 DEF Inductive

\* The rest of the state as main() creates the app and serves it.
LEMMA CreationKeepsService ==
  ASSUME Inductive, NEW next \in {"created", "serving"}, process \in {"creating", "created"},
         Proceed(next), T!TypeOK', \A s \in T!Signals : Private(s)', T!ExportsRedacted'
  PROVE  Inductive'
<1>1. /\ process' = next /\ start' = start
      /\ certificate' = certificate /\ ssl_object' = ssl_object
      /\ stage' = stage /\ input' = input /\ origin' = origin /\ scope' = scope
      /\ caller' = caller /\ record' = record
  BY DEF Proceed, connectionVars, requestVars
<1>2. TypeOK'
  BY <1>1 DEF Inductive, TypeOK, Processes
<1>3. \A c \in Connections : Connected(c)'
  BY <1>1 DEF Inductive, Connected
<1>4. \A r \in Requests : Handled(r)'
  BY <1>1 DEF Inductive, Handled
<1>5. QED  BY <1>1, <1>2, <1>3, <1>4 DEF Inductive

\* A processor added to a provider is behind everything registered before it.
LEMMA AppendKeepsGuard ==
  ASSUME NEW q \in Seq(T!Processors), NEW p \in T!Processors
  PROVE  /\ Append(q, p) \in Seq(T!Processors)
         /\ Len(Append(q, p)) = Len(q) + 1 /\ Len(q) \in Nat
         /\ \A i \in 1..Len(q) : Append(q, p)[i] = q[i]
         /\ Append(q, p)[Len(q) + 1] = p
  BY AppendProperties, LenProperties

LEMMA CreateAppKeepsInductive ==
  ASSUME Inductive, CreateApp PROVE Inductive'
<1>1. process = "creating" /\ process' = "created" /\ T!Configure /\ Proceed("created")
  BY DEF CreateApp, Proceed
<1>2. settings' = settings /\ observed' = observed
      /\ provider' = [s \in T!Signals |-> T!ProviderConfigured(s)]
      /\ pipe' = [s \in T!Signals |-> IF T!ProviderConfigured(s) = "sdk"
                                    THEN Append(pipe[s], "privacy") ELSE pipe[s]]
  BY <1>1 DEF T!Configure
<1>3. T!TypeOK /\ \A s \in T!Signals : Private(s)
  BY DEF Inductive, TypeOK
<1>4. "privacy" \in T!Processors /\ "sdk" \in T!Kinds
  BY DEF T!Processors, T!Kinds
<1>5. ASSUME NEW s \in T!Signals
      PROVE  provider'[s] \in T!Kinds /\ pipe'[s] \in Seq(T!Processors) /\ Private(s)'
  <2>1. provider[s] \in T!Kinds /\ pipe[s] \in Seq(T!Processors)
    BY <1>3 DEF T!TypeOK
  <2>2. provider'[s] = T!ProviderConfigured(s)
        /\ pipe'[s] = IF provider'[s] = "sdk" THEN Append(pipe[s], "privacy") ELSE pipe[s]
    BY <1>2
  <2>3. provider'[s] \in T!Kinds
    BY <1>4, <2>1, <2>2 DEF T!ProviderConfigured
  <2>4. pipe[s] \in {<<>>, <<"early">>}
    BY <1>1, <1>3 DEF Private, BeforeApp
  <2>5. \A i \in 1..Len(pipe[s]) : pipe[s][i] \notin {"native", "late"}
    BY <2>4
  <2>6. CASE provider'[s] = "sdk"
    <3>1. pipe'[s] = Append(pipe[s], "privacy")
      BY <2>2, <2>6
    <3>2. pipe'[s] \in Seq(T!Processors) /\ Len(pipe'[s]) = Len(pipe[s]) + 1 /\ Len(pipe[s]) \in Nat
          /\ (\A i \in 1..Len(pipe[s]) : pipe'[s][i] = pipe[s][i])
          /\ pipe'[s][Len(pipe[s]) + 1] = "privacy"
      BY <1>4, <2>1, <3>1, AppendKeepsGuard
    <3>3. T!Filtered(s)'
      BY <3>2 DEF T!Filtered
    <3>4. T!Guarded(s)'
      <4>1. ASSUME NEW i \in 1..Len(pipe'[s]) PROVE pipe'[s][i] \notin {"native", "late"}
        <5>1. CASE i \in 1..Len(pipe[s])
          BY <2>5, <3>2, <5>1
        <5>2. CASE i = Len(pipe[s]) + 1
          BY <3>2, <5>2
        <5>3. QED  BY <3>2, <5>1, <5>2
      <4>2. QED  BY <4>1 DEF T!Guarded
    <3>5. QED  BY <1>1, <2>3, <2>6, <3>2, <3>3, <3>4 DEF Private, BeforeApp
  <2>7. CASE provider'[s] # "sdk"
    <3>1. pipe'[s] = pipe[s]
      BY <2>2, <2>7
    <3>2. T!Guarded(s)'
      BY <2>5, <3>1 DEF T!Guarded
    <3>3. ~T!NativeExport(s)'
      <4>1. provider'[s] = provider[s] \/ provider'[s] = "sdk"
        BY <2>2 DEF T!ProviderConfigured
      <4>2. provider[s] = "proxy" /\ T!NativeExport(s)' => s \notin settings.explicit
        BY <1>1, <1>3 DEF Private, BeforeApp
      <4>3. QED  BY <1>2, <2>2, <2>7, <4>1, <4>2
                 DEF T!NativeExport, T!ProviderConfigured, T!EnvironmentExport, T!AutoConfigure
    <3>4. QED  BY <1>1, <2>1, <2>3, <2>7, <3>1, <3>2, <3>3 DEF Private, BeforeApp
  <2>8. QED  BY <2>6, <2>7
<1>6. T!TypeOK'
  BY <1>2, <1>3, <1>5 DEF T!TypeOK
<1>7. T!ExportsRedacted'
  BY <1>2 DEF Inductive, T!ExportsRedacted
<1>8. QED  BY <1>1, <1>5, <1>6, <1>7, CreationKeepsService

\* One more processor on a filtered provider keeps it guarded.
LEMMA BehindTheFilter ==
  ASSUME T!TypeOK, NEW s \in T!Signals, NEW p \in T!Processors,
         T!Filtered(s), T!Guarded(s), pipe'[s] = Append(pipe[s], p)
  PROVE  pipe'[s] \in Seq(T!Processors) /\ T!Filtered(s)' /\ T!Guarded(s)'
<1>1. pipe[s] \in Seq(T!Processors)
  BY DEF T!TypeOK
<1>2. pipe'[s] \in Seq(T!Processors) /\ Len(pipe'[s]) = Len(pipe[s]) + 1 /\ Len(pipe[s]) \in Nat
      /\ (\A i \in 1..Len(pipe[s]) : pipe'[s][i] = pipe[s][i])
      /\ pipe'[s][Len(pipe[s]) + 1] = p
  BY <1>1, AppendKeepsGuard
<1>3. PICK j \in 1..Len(pipe[s]) : pipe[s][j] = "privacy"
  BY DEF T!Filtered
<1>4. pipe'[s][j] = "privacy" /\ j \in 1..Len(pipe'[s])
  BY <1>2, <1>3
<1>5. ASSUME NEW i \in 1..Len(pipe'[s]), pipe'[s][i] \in {"native", "late"}
      PROVE  \E k \in 1..i : pipe'[s][k] = "privacy"
  <2>1. CASE i \in 1..Len(pipe[s])
    <3>1. PICK k \in 1..i : pipe[s][k] = "privacy"
      BY <1>2, <1>5, <2>1 DEF T!Guarded
    <3>2. QED  BY <1>2, <2>1, <3>1
  <2>2. CASE i = Len(pipe[s]) + 1
    BY <1>2, <1>3, <1>4, <2>2
  <2>3. QED  BY <1>2, <2>1, <2>2
<1>6. QED  BY <1>2, <1>4, <1>5 DEF T!Filtered, T!Guarded

LEMMA ServeKeepsInductive ==
  ASSUME Inductive, Serve PROVE Inductive'
<1>1. process = "created" /\ process' = "serving" /\ T!Lifespan /\ Proceed("serving")
  BY DEF Serve, Proceed
<1>2. settings' = settings /\ observed' = observed
      /\ provider' = [s \in T!Signals |-> IF T!NativeExport(s) THEN "sdk" ELSE provider[s]]
      /\ pipe' = [s \in T!Signals |-> IF T!NativeExport(s) THEN Append(pipe[s], "native") ELSE pipe[s]]
  BY <1>1 DEF T!Lifespan
<1>3. T!TypeOK /\ \A s \in T!Signals : Private(s)
  BY DEF Inductive, TypeOK
<1>4. "native" \in T!Processors /\ "sdk" \in T!Kinds
  BY DEF T!Processors, T!Kinds
<1>5. ASSUME NEW s \in T!Signals
      PROVE  provider'[s] \in T!Kinds /\ pipe'[s] \in Seq(T!Processors) /\ Private(s)'
  <2>1. provider[s] \in T!Kinds /\ pipe[s] \in Seq(T!Processors) /\ T!Guarded(s)
        /\ (provider[s] = "sdk" => T!Filtered(s))
    BY <1>1, <1>3 DEF T!TypeOK, Private, BeforeApp
  <2>2. CASE T!NativeExport(s)
    <3>1. provider[s] = "sdk"
      BY <1>1, <1>3, <2>2 DEF Private
    <3>2. pipe'[s] = Append(pipe[s], "native") /\ provider'[s] = "sdk"
      BY <1>2, <2>2
    <3>3. pipe'[s] \in Seq(T!Processors) /\ T!Filtered(s)' /\ T!Guarded(s)'
      BY <1>3, <1>4, <2>1, <3>1, <3>2, BehindTheFilter
    <3>4. QED  BY <1>1, <1>4, <3>2, <3>3 DEF Private, BeforeApp
  <2>3. CASE ~T!NativeExport(s)
    <3>1. pipe'[s] = pipe[s] /\ provider'[s] = provider[s]
      BY <1>2, <2>3
    <3>2. QED  BY <1>1, <2>1, <3>1 DEF Private, BeforeApp, T!Filtered, T!Guarded
  <2>4. QED  BY <2>2, <2>3
<1>6. T!TypeOK'
  BY <1>2, <1>3, <1>5 DEF T!TypeOK
<1>7. T!ExportsRedacted'
  BY <1>2 DEF Inductive, T!ExportsRedacted
<1>8. QED  BY <1>1, <1>5, <1>6, <1>7, CreationKeepsService

LEMMA RegisterKeepsInductive ==
  ASSUME Inductive, RegisterProcessor PROVE Inductive'
<1>1. PICK s \in T!Signals : T!RegisterLate(s)
  BY DEF RegisterProcessor
<1>2. /\ process \in {"created", "serving"}
      /\ start' = start /\ process' = process /\ settings' = settings /\ provider' = provider
      /\ observed' = observed /\ provider[s] = "sdk"
      /\ pipe' = [pipe EXCEPT ![s] = Append(@, "late")]
      /\ UNCHANGED <<connectionVars, requestVars>>
  BY <1>1 DEF RegisterProcessor, T!RegisterLate, processVars
<1>3. T!TypeOK /\ \A q \in T!Signals : Private(q)
  BY DEF Inductive, TypeOK
<1>4. "late" \in T!Processors
  BY DEF T!Processors
<1>5. pipe'[s] = Append(pipe[s], "late") /\ \A q \in T!Signals : q # s => pipe'[q] = pipe[q]
  BY <1>2, <1>3 DEF T!TypeOK
<1>6. pipe'[s] \in Seq(T!Processors) /\ T!Filtered(s)' /\ T!Guarded(s)'
  <2>1. T!Filtered(s) /\ T!Guarded(s)
    BY <1>2, <1>3 DEF Private, BeforeApp
  <2>2. QED  BY <1>3, <1>4, <1>5, <2>1, BehindTheFilter
<1>7. T!TypeOK'
  BY <1>2, <1>3, <1>5, <1>6 DEF T!TypeOK
<1>8. ASSUME NEW q \in T!Signals PROVE Private(q)'
  <2>1. T!NativeExport(q)' <=> T!NativeExport(q)
    BY <1>2 DEF T!NativeExport, T!AutoConfigure
  <2>2. CASE q = s
    BY <1>2, <1>6, <2>2 DEF Private, BeforeApp
  <2>3. CASE q # s
    BY <1>2, <1>3, <1>5, <2>1, <2>3 DEF Private, BeforeApp, T!Filtered, T!Guarded
  <2>4. QED  BY <2>2, <2>3
<1>9. T!ExportsRedacted'
  BY <1>2 DEF Inductive, T!ExportsRedacted
<1>10. QED  BY <1>2, <1>7, <1>8, <1>9, ServiceStays

\* What a guarded signal emits is seen by exporters behind the filter only.
LEMMA EmitKeepsTelemetry ==
  ASSUME Inductive, NEW s \in T!Signals, T!Emit(s), UNCHANGED process
  PROVE  T!TypeOK' /\ (\A q \in T!Signals : Private(q)') /\ T!ExportsRedacted'
<1>1. settings' = settings /\ provider' = provider /\ pipe' = pipe /\ process' = process
      /\ observed' = (IF s \in settings.on /\ ~settings.disabled THEN observed \union T!Seen(s) ELSE observed)
  BY DEF T!Emit
<1>2. T!TypeOK /\ T!Guarded(s)
  BY DEF Inductive, TypeOK, Private
<1>3. pipe[s] \in Seq(T!Processors)
  BY <1>2 DEF T!TypeOK
<1>4. ASSUME NEW i \in 1..Len(pipe[s])
      PROVE  LET o == [signal |-> s, processor |-> pipe[s][i],
                       redacted |-> \E j \in 1..i : pipe[s][j] = "privacy"]
             IN  /\ o \in [signal: T!Signals, processor: T!Processors, redacted: BOOLEAN]
                 /\ o.processor \in {"native", "late"} => o.redacted
  <2> DEFINE filtered == \E j \in 1..i : pipe[s][j] = "privacy"
  <2>1. pipe[s][i] \in T!Processors
    BY <1>3, ElementOfSeq
  <2>2. filtered \in BOOLEAN
    OBVIOUS
  <2>3. pipe[s][i] \in {"native", "late"} => filtered
    BY <1>2 DEF T!Guarded
  <2> HIDE DEF filtered
  <2>4. QED  BY <2>1, <2>2, <2>3 DEF filtered
<1>5. \A o \in T!Seen(s) : /\ o \in [signal: T!Signals, processor: T!Processors, redacted: BOOLEAN]
                           /\ o.processor \in {"native", "late"} => o.redacted
  BY <1>4 DEF T!Seen
<1>6. T!TypeOK' /\ T!ExportsRedacted'
  BY <1>1, <1>2, <1>5 DEF Inductive, T!TypeOK, T!ExportsRedacted
<1>7. \A q \in T!Signals : Private(q)'
  BY <1>1 DEF Inductive, Private, T!NativeExport, T!AutoConfigure, T!Filtered, T!Guarded
<1>8. QED  BY <1>6, <1>7

-----------------------------------------------------------------------------
(* connections and requests *)

LEMMA ConnectKeepsInductive ==
  ASSUME Inductive, NEW c \in Connections, Connect(c) PROVE Inductive'
<1>1. PICK cert \in Shown : /\ certificate' = [certificate EXCEPT ![c] = cert]
                            /\ ssl_object' = Capture(c, cert)
  BY DEF Connect
<1>2. /\ process = "serving" /\ certificate[c] = None
      /\ process' = process /\ start' = start
      /\ stage' = stage /\ input' = input /\ origin' = origin /\ scope' = scope
      /\ caller' = caller /\ record' = record /\ UNCHANGED telemetryVars
  BY DEF Connect, processVars, requestVars
<1>3. cert \in Certificates
  <2>1. TlsComplete(start.tls)
    BY <1>2 DEF Inductive
  <2>2. QED  BY <1>1, <2>1 DEF Shown, TlsComplete
<1>4. ssl_object' = [ssl_object EXCEPT ![c] = cert]
  BY <1>1 DEF Capture
<1>5. TypeOK /\ (\A d \in Connections : Connected(d)) /\ \A r \in Requests : Handled(r)
  BY DEF Inductive
<1>6. T!TypeOK' /\ (\A s \in T!Signals : Private(s)') /\ T!ExportsRedacted'
  BY <1>2, TelemetryStays
<1>7. TypeOK'
  BY <1>1, <1>2, <1>3, <1>4, <1>5, <1>6 DEF TypeOK
<1>8. \A d \in Connections : Connected(d)'
  BY <1>1, <1>2, <1>3, <1>4, <1>5 DEF TypeOK, Connected
<1>9. ASSUME NEW r \in Requests PROVE Handled(r)'
  <2>1. Handled(r)
    BY <1>5
  <2>2. stage[r] # "unseen" => certificate'[origin[r]] = certificate[origin[r]]
    <3>1. stage[r] # "unseen" => origin[r] \in Connections /\ origin[r] # c
      BY <1>2, <2>1, CertificatesAssumption DEF Handled
    <3>2. QED  BY <1>1, <1>5, <3>1 DEF TypeOK
  <2>3. QED  BY <1>2, <2>1, <2>2 DEF Handled
<1>10. QED  BY <1>2, <1>6, <1>7, <1>8, <1>9 DEF Inductive

LEMMA ReceiveKeepsInductive ==
  ASSUME Inductive, NEW r \in Requests, NEW c \in Connections, NEW i \in InputsOf(start, r),
         Receive(r, c, i)
  PROVE  Inductive'
<1>1. /\ stage[r] = "unseen" /\ certificate[c] # None
      /\ stage' = [stage EXCEPT ![r] = "received"]
      /\ input' = [input EXCEPT ![r] = i]
      /\ origin' = [origin EXCEPT ![r] = c]
      /\ scope' = [scope EXCEPT ![r] = ssl_object[c]]
      /\ T!Emit("traces")
      /\ start' = start /\ process' = process /\ certificate' = certificate
      /\ ssl_object' = ssl_object /\ caller' = caller /\ record' = record
  BY DEF Receive, processVars, connectionVars
<1>2. TypeOK /\ Connected(c) /\ \A q \in Requests : Handled(q)
  BY DEF Inductive
<1>3. ssl_object[c] = certificate[c] /\ certificate[c] \in Certificates
  BY <1>1, <1>2 DEF Connected
<1>4. "traces" \in T!Signals
  BY DEF T!Signals
<1>5. T!TypeOK' /\ (\A s \in T!Signals : Private(s)') /\ T!ExportsRedacted'
  BY <1>1, <1>4, EmitKeepsTelemetry
<1>6. i \in InputType
  BY <1>2, InputsAssumption DEF TypeOK
<1>7. TypeOK'
  BY <1>1, <1>2, <1>3, <1>5, <1>6 DEF TypeOK, Stages
<1>8. \A d \in Connections : Connected(d)'
  BY <1>1 DEF Inductive, Connected
<1>9. ASSUME NEW q \in Requests PROVE Handled(q)'
  <2>1. CASE q = r
    <3>1. stage'[r] = "received" /\ origin'[r] = c /\ scope'[r] = certificate[c] /\ caller'[r] = None
          /\ input'[r] = i
      BY <1>1, <1>2, <1>3 DEF TypeOK, Handled
    <3>2. QED  BY <1>1, <1>3, <1>6, <2>1, <3>1 DEF Handled
  <2>2. CASE q # r
    <3>1. stage'[q] = stage[q] /\ origin'[q] = origin[q] /\ scope'[q] = scope[q]
          /\ input'[q] = input[q]
      BY <1>1, <1>2, <2>2 DEF TypeOK
    <3>2. QED  BY <1>1, <1>2, <3>1 DEF Handled
  <2>3. QED  BY <2>1, <2>2
<1>10. QED  BY <1>1, <1>5, <1>7, <1>8, <1>9 DEF Inductive

LEMMA LogKeepsInductive ==
  ASSUME Inductive, NEW r \in Requests, LogException(r) PROVE Inductive'
<1>1. T!Emit("logs") /\ UNCHANGED <<start, process, connectionVars, requestVars>>
  BY DEF LogException, processVars
<1>2. "logs" \in T!Signals
  BY DEF T!Signals
<1>3. QED  BY <1>1, <1>2, EmitKeepsTelemetry, ServiceStays

\* A step of one request from "received" or "identified" on.
LEMMA RequestKeepsInductive ==
  ASSUME Inductive, NEW r \in Requests, stage[r] \in {"received", "identified"},
         NEW s \in {"identified", "denied", "sent"}, NEW name \in Names,
         NEW a \in [instance: Names, path: Paths \union {None}, outcome: {"none", "denied"}],
         stage' = [stage EXCEPT ![r] = s],
         caller' = [caller EXCEPT ![r] = name],
         record' = [record EXCEPT ![r] = a],
         name # None => name = CommonName(scope[r]),
         s = "identified" => name # None,
         s = "denied" => a.instance = CommonName(scope[r]),
         UNCHANGED <<processVars, connectionVars, input, origin, scope, telemetryVars>>
  PROVE  Inductive'
<1>1. start' = start /\ process' = process /\ certificate' = certificate /\ ssl_object' = ssl_object
      /\ input' = input /\ origin' = origin /\ scope' = scope
  BY DEF processVars, connectionVars
<1>2. TypeOK /\ \A q \in Requests : Handled(q)
  BY DEF Inductive
<1>3. T!TypeOK' /\ (\A q \in T!Signals : Private(q)') /\ T!ExportsRedacted'
  BY <1>1, TelemetryStays
<1>4. TypeOK'
  BY <1>1, <1>2, <1>3 DEF TypeOK, Stages
<1>5. \A d \in Connections : Connected(d)'
  BY <1>1 DEF Inductive, Connected
<1>6. ASSUME NEW q \in Requests PROVE Handled(q)'
  <2>1. CASE q = r
    <3>1. stage'[r] = s /\ caller'[r] = name /\ record'[r] = a
      BY <1>2 DEF TypeOK
    <3>2. QED  BY <1>1, <1>2, <2>1, <3>1 DEF Handled
  <2>2. CASE q # r
    <3>1. stage'[q] = stage[q] /\ caller'[q] = caller[q] /\ record'[q] = record[q]
      BY <1>2, <2>2 DEF TypeOK
    <3>2. QED  BY <1>1, <1>2, <3>1 DEF Handled
  <2>3. QED  BY <2>1, <2>2
<1>7. QED  BY <1>1, <1>3, <1>4, <1>5, <1>6 DEF Inductive

LEMMA IdentifyKeepsInductive ==
  ASSUME Inductive, NEW r \in Requests, Identify(r) PROVE Inductive'
<1>1. stage[r] = "received"
      /\ UNCHANGED <<processVars, connectionVars, input, origin, scope, telemetryVars>>
  BY DEF Identify
<1>2. TypeOK /\ Handled(r)
  BY DEF Inductive
<1>3. scope[r] \in Certificates /\ caller[r] = None
  BY <1>1, <1>2 DEF Handled
<1>4. PICK name \in Names : name = CommonName(scope[r])
  BY <1>3, CommonNameType
<1>5. CASE name \in DOMAIN policies /\ name # None
  <2>1. stage' = [stage EXCEPT ![r] = "identified"] /\ caller' = [caller EXCEPT ![r] = name]
        /\ record' = record
    BY <1>4, <1>5 DEF Identify
  <2>2. record' = [record EXCEPT ![r] = record[r]]
        /\ record[r] \in [instance: Names, path: Paths \union {None}, outcome: {"none", "denied"}]
    BY <1>2, <2>1 DEF TypeOK
  <2>3. QED  BY <1>1, <1>4, <1>5, <2>1, <2>2, RequestKeepsInductive
<1>6. CASE ~(name \in DOMAIN policies /\ name # None)
  <2> DEFINE a == [instance |-> name, path |-> None, outcome |-> "denied"]
  <2>1. stage' = [stage EXCEPT ![r] = "denied"] /\ record' = [record EXCEPT ![r] = a]
        /\ caller' = caller
    BY <1>4, <1>6 DEF Identify, Deny
  <2>2. a \in [instance: Names, path: Paths \union {None}, outcome: {"none", "denied"}]
        /\ a.instance = CommonName(scope[r])
    BY <1>4
  <2>3. caller' = [caller EXCEPT ![r] = None] /\ None \in Names
    BY <1>2, <1>3, <2>1 DEF TypeOK, Names
  <2> HIDE DEF a
  <2>4. QED  BY <1>1, <2>1, <2>2, <2>3, RequestKeepsInductive
<1>7. QED  BY <1>5, <1>6

\* A clean path of the input, or None, is what a refusal is recorded with.
LEMMA AuthorizeKeepsInductive ==
  ASSUME Inductive, NEW r \in Requests, Authorize(r) PROVE Inductive'
<1>1. stage[r] = "identified"
      /\ UNCHANGED <<processVars, connectionVars, input, origin, scope, caller, telemetryVars>>
  BY DEF Authorize
<1>2. TypeOK /\ Handled(r)
  BY DEF Inductive
<1>3. caller[r] # None /\ caller[r] = CommonName(scope[r]) /\ caller[r] \in Names
  BY <1>1, <1>2 DEF Handled, TypeOK
<1>4. caller' = [caller EXCEPT ![r] = caller[r]]
  BY <1>1, <1>2 DEF TypeOK
<1>5. CASE stage' = [stage EXCEPT ![r] = "sent"] /\ record' = record
  <2>1. PICK a \in [instance: Names, path: Paths \union {None}, outcome: {"none", "denied"}] :
             a = record[r]
    BY <1>2 DEF TypeOK
  <2>2. record' = [record EXCEPT ![r] = a]
    BY <1>2, <1>5, <2>1 DEF TypeOK
  <2>3. PICK name \in Names : name = caller[r]
    BY <1>3
  <2>4. caller' = [caller EXCEPT ![r] = name] /\ name = CommonName(scope[r])
    BY <1>3, <1>4, <2>3
  <2>5. QED  BY <1>1, <1>5, <2>2, <2>4, RequestKeepsInductive
<1>6. ASSUME NEW path \in Paths \union {None}, Deny(r, caller[r], path) PROVE Inductive'
  <2> DEFINE a == [instance |-> caller[r], path |-> path, outcome |-> "denied"]
  <2>1. stage' = [stage EXCEPT ![r] = "denied"] /\ record' = [record EXCEPT ![r] = a]
    BY <1>6 DEF Deny
  <2>2. a \in [instance: Names, path: Paths \union {None}, outcome: {"none", "denied"}]
        /\ a.instance = CommonName(scope[r])
    BY <1>3
  <2> HIDE DEF a
  <2>3. QED  BY <1>1, <1>3, <1>4, <2>1, <2>2, RequestKeepsInductive
<1>7. input[r].path \in Paths
  BY <1>1, <1>2 DEF Handled, InputType
<1>8. \/ stage' = [stage EXCEPT ![r] = "sent"] /\ record' = record
      \/ Deny(r, caller[r], None)
      \/ Deny(r, caller[r], input[r].path)
  BY DEF Authorize, AuthorizePath, AuthorizeFamily
<1>9. QED  BY <1>5, <1>6, <1>7, <1>8

-----------------------------------------------------------------------------
LEMMA ChecksKeepInductive ==
  ASSUME Inductive, LoadConfig \/ CheckTls \/ CheckCredentials PROVE Inductive'
<1>1. CASE LoadConfig
  <2>1. PICK next \in {"checking_tls", "stopped"} : Proceed(next)
    BY <1>1 DEF LoadConfig
  <2>2. process = "configuring" /\ UNCHANGED telemetryVars
    BY <1>1 DEF LoadConfig
  <2>3. QED  BY <2>1, <2>2, ProcessKeepsInductive
<1>2. CASE CheckTls
  <2>1. process = "checking_tls" /\ UNCHANGED telemetryVars
    BY <1>2 DEF CheckTls
  <2>2. CASE TlsComplete(start.tls)
    <3>1. Proceed("checking_credentials")
      BY <1>2, <2>2 DEF CheckTls
    <3>2. QED  BY <2>1, <2>2, <3>1, ProcessKeepsInductive
  <2>3. CASE ~TlsComplete(start.tls)
    <3>1. Proceed("stopped")
      BY <1>2, <2>3 DEF CheckTls
    <3>2. QED  BY <2>1, <3>1, ProcessKeepsInductive
  <2>4. QED  BY <2>2, <2>3
<1>3. CASE CheckCredentials
  <2>1. PICK next \in {"creating", "stopped"} : Proceed(next)
    BY <1>3 DEF CheckCredentials
  <2>2. process = "checking_credentials" /\ UNCHANGED telemetryVars
    BY <1>3 DEF CheckCredentials
  <2>3. TlsComplete(start.tls)
    BY <2>2 DEF Inductive
  <2>4. QED  BY <2>1, <2>2, <2>3, ProcessKeepsInductive
<1>4. QED  BY <1>1, <1>2, <1>3

\* The invariant the ones below follow from.
THEOREM AdmissionInductive == Spec => []Inductive
<1>1. Inductive /\ [Next]_vars => Inductive'
  <2>1. SUFFICES ASSUME Inductive, [Next]_vars PROVE Inductive'
    OBVIOUS
  <2>2. CASE Main
    BY <2>1, <2>2, ChecksKeepInductive, CreateAppKeepsInductive, ServeKeepsInductive DEF Main
  <2>3. CASE RegisterProcessor
    BY <2>1, <2>3, RegisterKeepsInductive
  <2>4. CASE \E c \in Connections : Connect(c)
    BY <2>1, <2>4, ConnectKeepsInductive
  <2>5. CASE \E r \in Requests : \/ \E c \in Connections, i \in InputsOf(start, r) : Receive(r, c, i)
                              \/ LogException(r) \/ Identify(r) \/ Authorize(r)
    BY <2>1, <2>5, ReceiveKeepsInductive, LogKeepsInductive, IdentifyKeepsInductive,
       AuthorizeKeepsInductive
  <2>6. CASE UNCHANGED vars
    <3>1. UNCHANGED <<start, process, connectionVars, requestVars, telemetryVars>>
      BY <2>6 DEF vars, processVars
    <3>2. QED  BY <2>1, <3>1, TelemetryStays, ServiceStays
  <2>7. QED  BY <2>1, <2>2, <2>3, <2>4, <2>5, <2>6 DEF Next
<1>2. QED  BY BeginInductive, <1>1, PTL DEF Spec

\* No request is handled or recorded under a name its client did not show.
THEOREM ClientsTold == Spec => []AttributedToItsClient
<1>1. Inductive => AttributedToItsClient
  <2>1. SUFFICES ASSUME Inductive, NEW r \in Requests, stage[r] # "unseen"
                 PROVE  LET shown == certificate[origin[r]]
                        IN  /\ scope[r] = shown /\ shown # NoTls
                            /\ caller[r] # None => \E i \in 1..Len(shown) : shown[i] = caller[r]
                            /\ stage[r] = "denied" =>
                                  record[r].instance \in ToSet(shown) \union {None}
    BY DEF AttributedToItsClient
  <2>2. scope[r] = certificate[origin[r]] /\ scope[r] \in Certificates
        /\ (caller[r] # None => caller[r] = CommonName(scope[r]))
        /\ (stage[r] = "denied" => record[r].instance = CommonName(scope[r]))
    BY <2>1 DEF Inductive, Handled
  <2>3. scope[r] # NoTls
    BY <2>2, CertificatesAssumption
  <2>4. CommonName(scope[r]) # None =>
          \E i \in 1..Len(scope[r]) : scope[r][i] = CommonName(scope[r])
    BY <2>2, CommonNameIsShown
  <2>5. ToSet(scope[r]) = {scope[r][i] : i \in DOMAIN scope[r]}
    BY DEF ToSet
  <2>6. DOMAIN scope[r] = 1..Len(scope[r])
    BY <2>2, CertificatesAssumption, LenProperties
  <2>7. CommonName(scope[r]) \in ToSet(scope[r]) \union {None}
    BY <2>4, <2>5, <2>6
  <2>8. QED  BY <2>2, <2>3, <2>4, <2>7
<1>2. QED  BY AdmissionInductive, <1>1, PTL

\* No exporter behind create_app sees what the filters remove.
THEOREM TelemetryPrivate == Spec => []ExportsRedacted
<1>1. Inductive => ExportsRedacted
  BY DEF Inductive, ExportsRedacted
<1>2. QED  BY AdmissionInductive, <1>1, PTL

-----------------------------------------------------------------------------
(* What authorize decides, of the policies that were loaded. *)

Granted(policy, i) ==
    IF i.op = "administration" THEN i.family \in policy.families
    ELSE /\ Normal(i.path) /\ PermitsPath(policy, i.path)
         /\ Writes(i.op) => policy.may_write
         /\ i.op = "delete" => policy.may_delete

Configured ==
    process \in {"checking_tls", "checking_credentials", "creating", "created", "serving"} =>
        /\ LoadOutcome(start.config) = "loaded"
        /\ policies = [n \in DOMAIN start.config.instances |->
                          InstancePolicy(start.config.instances[n])]

Decided(r) ==
    LET name == CommonName(scope[r])
    IN  /\ stage[r] \in {"identified", "sent"} => name \in DOMAIN policies
        /\ stage[r] = "sent" => Granted(policies[name], input[r])
        /\ stage[r] = "denied" /\ name \in DOMAIN policies => ~Granted(policies[name], input[r])

Admitted == Inductive /\ Configured /\ \A r \in Requests : Decided(r)

\* Nothing of a request is decided before the configuration is loaded.
LEMMA ServedConfigured ==
  ASSUME Inductive, NEW r \in Requests, stage[r] # "unseen" PROVE process = "serving"
<1>1. Handled(r) /\ \A c \in Connections : Connected(c)
  BY DEF Inductive
<1>2. origin[r] \in Connections /\ certificate[origin[r]] \in Certificates
  BY <1>1 DEF Handled
<1>3. certificate[origin[r]] # None
  BY <1>2, CertificatesAssumption
<1>4. QED  BY <1>1, <1>2, <1>3 DEF Connected

LEMMA LoadKeepsAdmitted ==
  ASSUME Admitted, LoadConfig PROVE Configured' /\ \A r \in Requests : Decided(r)'
<1>1. process = "configuring" /\ start' = start /\ stage' = stage
  BY DEF LoadConfig, Proceed, requestVars
<1>2. Configured'
  <2>1. CASE LoadOutcome(start.config) = "loaded"
    BY <1>1, <2>1 DEF LoadConfig, Configured
  <2>2. CASE LoadOutcome(start.config) # "loaded"
    <3>1. process' = "stopped"
      BY <2>2 DEF LoadConfig, Proceed
    <3>2. QED  BY <3>1 DEF Configured
  <2>3. QED  BY <2>1, <2>2
<1>3. ASSUME NEW r \in Requests PROVE Decided(r)'
  <2>1. stage[r] = "unseen"
    BY <1>1, ServedConfigured DEF Admitted
  <2>2. QED  BY <1>1, <2>1 DEF Decided
<1>4. QED  BY <1>2, <1>3

\* What the requests have of it stays as it is, and the process goes no way back.
LEMMA DecisionsStay ==
  ASSUME Admitted, UNCHANGED <<start, policies, stage, input, scope>>,
         process' = process \/ process' = "stopped" \/
            process \in {"checking_tls", "checking_credentials", "creating", "created"}
  PROVE  Configured' /\ \A r \in Requests : Decided(r)'
<1>1. Configured'
  BY DEF Admitted, Configured
<1>2. \A r \in Requests : Decided(r)'
  BY DEF Admitted, Decided
<1>3. QED  BY <1>1, <1>2

\* A step of one request.
LEMMA DecisionKept ==
  ASSUME Admitted, NEW r \in Requests, NEW s \in Stages, stage' = [stage EXCEPT ![r] = s],
         UNCHANGED <<start, process, policies>>,
         \A q \in Requests : q # r => input'[q] = input[q] /\ scope'[q] = scope[q],
         Decided(r)'
  PROVE  Configured' /\ \A q \in Requests : Decided(q)'
<1>1. Configured'
  BY DEF Admitted, Configured
<1>2. ASSUME NEW q \in Requests, q # r PROVE Decided(q)'
  <2>1. stage'[q] = stage[q]
    BY <1>2 DEF Admitted, Inductive, TypeOK
  <2>2. QED  BY <1>2, <2>1 DEF Admitted, Decided
<1>3. QED  BY <1>1, <1>2

LEMMA ReceiveKeepsAdmitted ==
  ASSUME Admitted, NEW r \in Requests, NEW c \in Connections, NEW i \in InputsOf(start, r),
         Receive(r, c, i)
  PROVE  Configured' /\ \A q \in Requests : Decided(q)'
<1>1. /\ stage' = [stage EXCEPT ![r] = "received"]
      /\ input' = [input EXCEPT ![r] = i] /\ scope' = [scope EXCEPT ![r] = ssl_object[c]]
      /\ UNCHANGED <<start, process, policies>>
  BY DEF Receive, processVars
<1>2. TypeOK
  BY DEF Admitted, Inductive
<1>3. stage'[r] = "received" /\ "received" \in Stages
  BY <1>1, <1>2 DEF TypeOK, Stages
<1>4. \A q \in Requests : q # r => input'[q] = input[q] /\ scope'[q] = scope[q]
  BY <1>1, <1>2 DEF TypeOK
<1>5. Decided(r)'
  BY <1>3 DEF Decided
<1>6. QED  BY <1>1, <1>3, <1>4, <1>5, DecisionKept

LEMMA IdentifyKeepsAdmitted ==
  ASSUME Admitted, NEW r \in Requests, Identify(r)
  PROVE  Configured' /\ \A q \in Requests : Decided(q)'
<1> DEFINE name == CommonName(scope[r])
<1>1. /\ stage[r] = "received" /\ UNCHANGED <<start, process, policies, input, scope>>
  BY DEF Identify, processVars
<1>2. TypeOK /\ "identified" \in Stages /\ "denied" \in Stages
  BY DEF Admitted, Inductive, Stages
<1>3. name \in Names
  <2>1. scope[r] \in Certificates
    BY <1>1 DEF Admitted, Inductive, Handled
  <2>2. QED  BY <2>1, CommonNameType
<1>4. CASE name # None /\ name \in DOMAIN policies
  <2>1. stage' = [stage EXCEPT ![r] = "identified"]
    BY <1>4 DEF Identify
  <2>2. stage'[r] = "identified"
    BY <1>2, <2>1 DEF TypeOK
  <2>3. Decided(r)'
    BY <1>1, <1>4, <2>2 DEF Decided
  <2>4. QED  BY <1>1, <1>2, <2>1, <2>3, DecisionKept
<1>5. CASE ~(name # None /\ name \in DOMAIN policies)
  <2>1. stage' = [stage EXCEPT ![r] = "denied"]
    BY <1>5 DEF Identify, Deny
  <2>2. stage'[r] = "denied"
    BY <1>2, <2>1 DEF TypeOK
  <2>3. name \notin DOMAIN policies
    <3>1. None \notin DOMAIN policies
      BY <1>1, <1>2, ServedConfigured, StartsAssumption DEF Admitted, Configured, TypeOK
    <3>2. QED  BY <1>5, <3>1
  <2>4. Decided(r)'
    BY <1>1, <2>2, <2>3 DEF Decided
  <2>5. QED  BY <1>1, <1>2, <2>1, <2>4, DecisionKept
<1>6. QED  BY <1>4, <1>5

LEMMA AuthorizeKeepsAdmitted ==
  ASSUME Admitted, NEW r \in Requests, Authorize(r)
  PROVE  Configured' /\ \A q \in Requests : Decided(q)'
<1> DEFINE policy == policies[caller[r]]
           granted == Granted(policy, input[r])
<1>1. /\ stage[r] = "identified" /\ UNCHANGED <<start, process, policies, input, scope>>
  BY DEF Authorize, processVars
<1>2. TypeOK /\ "sent" \in Stages /\ "denied" \in Stages
  BY DEF Admitted, Inductive, Stages
<1>3. caller[r] = CommonName(scope[r]) /\ CommonName(scope[r]) \in DOMAIN policies
  BY <1>1 DEF Admitted, Inductive, Handled, Decided
<1>4. CASE granted
  <2>1. stage' = [stage EXCEPT ![r] = "sent"]
    BY <1>4 DEF Authorize, AuthorizePath, AuthorizeFamily, Granted
  <2>2. stage'[r] = "sent"
    BY <1>2, <2>1 DEF TypeOK
  <2>3. Decided(r)'
    BY <1>1, <1>3, <1>4, <2>2 DEF Decided
  <2>4. QED  BY <1>1, <1>2, <2>1, <2>3, DecisionKept
<1>5. CASE ~granted
  <2>1. stage' = [stage EXCEPT ![r] = "denied"]
    BY <1>5 DEF Authorize, AuthorizePath, AuthorizeFamily, Granted, Deny
  <2>2. stage'[r] = "denied"
    BY <1>2, <2>1 DEF TypeOK
  <2>3. Decided(r)'
    BY <1>1, <1>3, <1>5, <2>2 DEF Decided
  <2>4. QED  BY <1>1, <1>2, <2>1, <2>3, DecisionKept
<1>6. QED  BY <1>4, <1>5

\* No request is sent or refused but as the policies of the file say of the name
\* its own client showed.
THEOREM AdmittedAsConfigured == Spec => []Admitted
<1>1. Init => Admitted
  <2>1. SUFFICES ASSUME Init PROVE Admitted
    OBVIOUS
  <2>2. process = "configuring" /\ \A r \in Requests : stage[r] = "unseen"
    BY <2>1 DEF Init
  <2>3. QED  BY <2>1, <2>2, BeginInductive DEF Admitted, Configured, Decided
<1>2. Admitted /\ Inductive' /\ [Next]_vars => Admitted'
  <2>1. SUFFICES ASSUME Admitted, [Next]_vars PROVE Configured' /\ \A r \in Requests : Decided(r)'
    BY DEF Admitted
  <2>2. CASE LoadConfig
    BY <2>1, <2>2, LoadKeepsAdmitted
  <2>3. CASE CheckTls \/ CheckCredentials \/ CreateApp \/ Serve
    <3>1. UNCHANGED <<start, policies, stage, input, scope>>
          /\ process \in {"checking_tls", "checking_credentials", "creating", "created"}
      BY <2>3 DEF CheckTls, CheckCredentials, CreateApp, Serve, Proceed, requestVars
    <3>2. QED  BY <2>1, <3>1, DecisionsStay
  <2>4. CASE \/ RegisterProcessor \/ (\E c \in Connections : Connect(c))
             \/ (\E r \in Requests : LogException(r)) \/ UNCHANGED vars
    <3>1. UNCHANGED <<start, policies, stage, input, scope, process>>
      BY <2>4 DEF RegisterProcessor, Connect, LogException, vars, processVars, requestVars
    <3>2. QED  BY <2>1, <3>1, DecisionsStay
  <2>5. CASE \E r \in Requests, c \in Connections : \E i \in InputsOf(start, r) : Receive(r, c, i)
    BY <2>1, <2>5, ReceiveKeepsAdmitted
  <2>6. CASE \E r \in Requests : Identify(r) \/ Authorize(r)
    BY <2>1, <2>6, IdentifyKeepsAdmitted, AuthorizeKeepsAdmitted
  <2>7. QED  BY <2>1, <2>2, <2>3, <2>4, <2>5, <2>6 DEF Next, Main
<1>3. QED  BY AdmissionInductive, <1>1, <1>2, PTL DEF Spec

\* The flags of the file are those of the policy.
LEMMA GrantedAsDeclared ==
  ASSUME Admitted, NEW r \in Requests, stage[r] # "unseen",
         CommonName(scope[r]) \in DOMAIN start.config.instances
  PROVE  LET policy == policies[CommonName(scope[r])]
         IN  /\ CommonName(scope[r]) \in DOMAIN policies
             /\ Declared(r) \in SpecType /\ Valid(Declared(r))
             /\ policy = InstancePolicy(Declared(r))
             /\ scope[r] = certificate[origin[r]]
             /\ input[r] \in InputType
<1>1. process = "serving" /\ start \in Starts /\ Handled(r)
  BY ServedConfigured DEF Admitted, Inductive, TypeOK
<1>2. /\ LoadOutcome(start.config) = "loaded"
      /\ policies = [n \in DOMAIN start.config.instances |->
                        InstancePolicy(start.config.instances[n])]
  BY <1>1 DEF Admitted, Configured
<1>3. scope[r] = certificate[origin[r]] /\ input[r] \in InputType
  BY <1>1 DEF Handled
<1>4. Declared(r) = start.config.instances[CommonName(scope[r])]
  BY <1>3 DEF Declared
<1>5. \A n \in DOMAIN start.config.instances : /\ start.config.instances[n] \in SpecType
                                               /\ Valid(start.config.instances[n])
  BY <1>1, <1>2, StartsAssumption DEF LoadOutcome
<1>6. QED  BY <1>2, <1>3, <1>4, <1>5

\* What is sent for a client is exactly what the file declares for it, whatever
\* paths and prefixes there are and however a path is read later.
THEOREM SentAsDeclared == Spec => []SendsWhatIsDeclared
<1>1. ASSUME Admitted, NEW r \in Requests, stage[r] # "unseen",
             CommonName(scope[r]) \in DOMAIN start.config.instances
      PROVE  /\ Granted(policies[CommonName(scope[r])], input[r]) =>
                  IF input[r].op = "administration"
                  THEN input[r].family \in ToSet(Declared(r).families)
                  ELSE WithinDeclared(Declared(r), input[r].path) /\ AllowedByFlags(r)
             /\ ~Granted(policies[CommonName(scope[r])], input[r]) =>
                  IF input[r].op = "administration"
                  THEN input[r].family \notin ToSet(Declared(r).families)
                  ELSE ~(Plain(input[r].path) /\ WithinDeclared(Declared(r), input[r].path)
                         /\ AllowedByFlags(r))
  <2> DEFINE policy == policies[CommonName(scope[r])]
             spec == Declared(r)
  <2>1. /\ spec \in SpecType /\ Valid(spec) /\ policy = InstancePolicy(spec)
        /\ input[r].path \in Paths
    BY <1>1, GrantedAsDeclared DEF InputType
  <2>2. /\ policy.families = ToSet(spec.families)
        /\ policy.may_write = spec.may_write /\ policy.may_delete = spec.may_delete
    BY <2>1 DEF InstancePolicy
  <2>3. Normal(input[r].path) =>
           (PermitsPath(policy, input[r].path) <=> WithinDeclared(spec, input[r].path))
    <3> HIDE DEF spec, policy
    <3>1. QED  BY <2>1, PermitsDeclared
  <2>4. Plain(input[r].path) => Normal(input[r].path)
    BY <2>1, PlainIsNormal
  <2>5. AllowedByFlags(r) <=> /\ Writes(input[r].op) => policy.may_write
                              /\ input[r].op = "delete" => policy.may_delete
    BY <2>2 DEF AllowedByFlags, Writes
  <2> HIDE DEF spec, policy
  <2>6. QED  BY <2>2, <2>3, <2>4, <2>5 DEF Granted, spec, policy
<1>2. Admitted => SendsWhatIsDeclared
  <2>1. SUFFICES ASSUME Admitted, NEW r \in Requests
        PROVE /\ stage[r] = "sent" =>
                    IF input[r].op = "administration"
                    THEN input[r].family \in ToSet(Declared(r).families)
                    ELSE WithinDeclared(Declared(r), input[r].path) /\ AllowedByFlags(r)
              /\ stage[r] = "denied" /\ record[r].instance \in DOMAIN start.config.instances =>
                    IF input[r].op = "administration"
                    THEN input[r].family \notin ToSet(Declared(r).families)
                    ELSE ~(Plain(input[r].path) /\ WithinDeclared(Declared(r), input[r].path)
                           /\ AllowedByFlags(r))
    BY DEF SendsWhatIsDeclared
  <2>2. stage[r] # "unseen" => DOMAIN policies = DOMAIN start.config.instances
    BY <2>1, ServedConfigured DEF Admitted, Configured
  <2>3. Decided(r) /\ (stage[r] = "denied" => record[r].instance = CommonName(scope[r]))
    BY <2>1 DEF Admitted, Inductive, Handled
  <2>4. CASE stage[r] = "sent"
    BY <1>1, <2>1, <2>2, <2>3, <2>4 DEF Decided
  <2>5. CASE stage[r] = "denied" /\ record[r].instance \in DOMAIN start.config.instances
    BY <1>1, <2>1, <2>2, <2>3, <2>5 DEF Decided
  <2>6. QED  BY <2>4, <2>5
<1>3. QED  BY AdmittedAsConfigured, <1>2, PTL

\* What is sent names something inside the mount, and a secret by one name only.
SentUnambiguously ==
    \A r \in Requests : stage[r] = "sent" /\ input[r].op # "administration" =>
        /\ \A k \in 1..Len(Resolved(input[r].path)) :
              Resolved(input[r].path)[k] \notin {<<>>, <<".">>, <<".", ".">>}
        /\ \A q \in Requests :
              stage[q] = "sent" /\ input[q].op # "administration"
              /\ Resolved(input[q].path) = Resolved(input[r].path) => input[q].path = input[r].path

\* No request reaches OpenBao with a path that leads out of its mount, and two that
\* reach the same secret have it on record under the same path.
THEOREM SentPathsUnambiguous == Spec => []SentUnambiguously
<1>1. ASSUME Admitted, NEW r \in Requests, stage[r] = "sent", input[r].op # "administration"
      PROVE  input[r].path \in Paths /\ Normal(input[r].path)
  BY <1>1 DEF Admitted, Decided, Granted, Inductive, Handled, InputType
<1>2. Admitted => SentUnambiguously
  BY <1>1, NormalStaysInside, OneSpelling DEF SentUnambiguously
<1>3. QED  BY AdmittedAsConfigured, <1>2, PTL
=============================================================================
