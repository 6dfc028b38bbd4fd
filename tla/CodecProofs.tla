----------------------------- MODULE CodecProofs -----------------------------
(***************************************************************************)
(* The codecs for inputs of any length, made of any bytes, where the runs  *)
(* take short ones of a few: encoding regroups the bits, decoding groups   *)
(* them back, and names and paths come back whole.                         *)
(*                                                                         *)
(* FlattenSeq and UrlDecode are recursive functions.  What they compute is *)
(* found by induction on the number of pieces (Induct, from the least      *)
(* element of a set of numbers): FlattenSeq puts together what Cuts says   *)
(* are the pieces of a sequence, and UrlDecode takes one byte off at a     *)
(* time, from the end.                                                     *)
(***************************************************************************)
EXTENDS Codec, SequenceTheorems, WellFoundedInduction, TLAPS

------------------------------------------------------------------------------
(* Induction and sequences *)

(* A set of naturals that has 0 and with each number the next has all.     *)
LEMMA Induct ==
  ASSUME NEW S, 0 \in S, \A n \in Nat : n \in S => n + 1 \in S
  PROVE  Nat \subseteq S
<1> DEFINE R == {ss \in Nat \X Nat : ss[1] < ss[2]}
           T == Nat \ S
<1>1. IsWellFoundedOn(R, Nat)
  BY NatLessThanWellFounded DEF OpToRel
<1>2. SUFFICES ASSUME T # {} PROVE FALSE
  OBVIOUS
<1>3. T \subseteq Nat
  OBVIOUS
<1> HIDE DEF T, R
<1>4. PICK x \in T : \A y \in T : << y, x >> \notin R
  BY <1>1, <1>2, <1>3, WFMin
<1>5. x \in Nat /\ x \notin S
  BY DEF T
<1>6. x - 1 \in Nat /\ x - 1 < x /\ (x - 1) + 1 = x
  BY <1>5
<1>7. x - 1 \in T
  BY <1>5, <1>6 DEF T
<1>8. << x - 1, x >> \in R
  BY <1>5, <1>6 DEF R
<1>9. QED
  BY <1>4, <1>7, <1>8

(* F has what FlattenSeq has put together after each of n pieces.          *)
Joins(F, seqs, n) ==
  \A i \in 1 .. n : F[i] = IF i = 1 THEN seqs[i] ELSE F[i - 1] \o seqs[i]

(* FlattenSeq joins the pieces one after another.                          *)
LEMMA FlattenJoins ==
  ASSUME NEW seqs, Len(seqs) \in Nat \ {0}
  PROVE  \E F : Joins(F, seqs, Len(seqs)) /\ FlattenSeq(seqs) = F[Len(seqs)]
<1> DEFINE n == Len(seqs)
           Step(f) == [i \in 1 .. n |-> IF i = 1 THEN seqs[i] ELSE f[i - 1] \o seqs[i]]
           f == CHOOSE f : f = Step(f)
           S == {m \in Nat : \E F : Joins(F, seqs, m)}
<1>1. FlattenSeq(seqs) = f[n]
  BY Zenon DEF FlattenSeq
<1>2. 0 \in S
  BY DEF Joins
<1>3. ASSUME NEW m \in Nat, m \in S PROVE m + 1 \in S
  <2>1. PICK F : Joins(F, seqs, m)
    BY <1>3
  <2> DEFINE G == [i \in 1 .. m + 1 |->
                     IF i = m + 1 THEN IF i = 1 THEN seqs[i] ELSE F[i - 1] \o seqs[i]
                                  ELSE F[i]]
  <2>2. Joins(G, seqs, m + 1)
    <3> SUFFICES ASSUME NEW i \in 1 .. m + 1
                 PROVE  G[i] = IF i = 1 THEN seqs[i] ELSE G[i - 1] \o seqs[i]
      BY DEF Joins
    <3>1. i # 1 => i - 1 \in 1 .. m + 1 /\ i - 1 # m + 1 /\ G[i - 1] = F[i - 1]
      OBVIOUS
    <3>2. i # m + 1 => i \in 1 .. m /\ G[i] = F[i]
      OBVIOUS
    <3>3. i = m + 1 => G[i] = IF i = 1 THEN seqs[i] ELSE F[i - 1] \o seqs[i]
      OBVIOUS
    <3> HIDE DEF G
    <3>4. QED
      BY <2>1, <3>1, <3>2, <3>3 DEF Joins
  <2>3. QED
    BY <2>2
<1>4. n \in S
  <2> HIDE DEF S, n
  <2>1. n \in Nat
    BY DEF n
  <2>2. QED
    BY <1>2, <1>3, <2>1, Induct
<1>5. PICK F : Joins(F, seqs, n)
  BY <1>4
<1> DEFINE G == [i \in 1 .. n |-> F[i]]
<1>6. G = Step(G)
  <2>1. ASSUME NEW i \in 1 .. n
        PROVE  G[i] = IF i = 1 THEN seqs[i] ELSE G[i - 1] \o seqs[i]
    <3>1. i # 1 => i - 1 \in 1 .. n
      OBVIOUS
    <3>2. QED
      BY <1>5, <3>1 DEF Joins
  <2> HIDE DEF n
  <2>2. QED
    BY <2>1
<1>7. f = Step(f)
  <2> HIDE DEF G
  <2>1. \E g : g = Step(g)
    BY <1>6
  <2>2. QED
    BY <2>1, Zenon
<1>8. Joins(f, seqs, n)
  <2> HIDE DEF f, n
  <2>1. QED
    BY <1>7 DEF Joins
<1>9. QED
  BY <1>1, <1>8

(* seqs are the pieces of a sequence t, the k-th of which ends at off[k].  *)
Cuts(off, S, t, seqs) ==
  /\ t \in Seq(S) /\ Len(seqs) \in Nat \ {0}
  /\ off[0] = 0 /\ off[Len(seqs)] = Len(t)
  /\ \A k \in 0 .. Len(seqs) : off[k] \in Nat /\ off[k] <= Len(t)
  /\ \A k \in 1 .. Len(seqs) :
       /\ seqs[k] \in Seq(S) /\ off[k] = off[k - 1] + Len(seqs[k])
       /\ \A i \in 1 .. Len(seqs[k]) : seqs[k][i] = t[off[k - 1] + i]

(* FlattenSeq puts a sequence that has been cut together again.            *)
LEMMA FlattensTo ==
  ASSUME NEW off, NEW S, NEW t, NEW seqs, Cuts(off, S, t, seqs)
  PROVE  FlattenSeq(seqs) = t
<1>0. /\ t \in Seq(S) /\ Len(seqs) \in Nat \ {0}
      /\ off[0] = 0 /\ off[Len(seqs)] = Len(t)
      /\ \A k \in 0 .. Len(seqs) : off[k] \in Nat /\ off[k] <= Len(t)
      /\ \A k \in 1 .. Len(seqs) :
           /\ seqs[k] \in Seq(S) /\ off[k] = off[k - 1] + Len(seqs[k])
           /\ \A i \in 1 .. Len(seqs[k]) : seqs[k][i] = t[off[k - 1] + i]
  BY DEF Cuts
<1> DEFINE n == Len(seqs)
           P(k) == SubSeq(t, 1, off[k])
<1>1. PICK F : Joins(F, seqs, n) /\ FlattenSeq(seqs) = F[n]
  BY <1>0, FlattenJoins
<1> DEFINE T == {k \in Nat : k \in 1 .. n => F[k] = P(k)}
<1>2. \A k \in 0 .. n : /\ P(k) \in Seq(S) /\ Len(P(k)) = off[k] /\ off[k] \in Nat
                        /\ \A i \in 1 .. off[k] : P(k)[i] = t[i]
  BY <1>0
<1>3. ASSUME NEW k \in 1 .. n PROVE P(k) = P(k - 1) \o seqs[k]
  <2> DEFINE p == P(k - 1)
             q == seqs[k]
  <2>1. k - 1 \in 0 .. n /\ k \in 0 .. n
    BY <1>0
  <2>2. /\ p \in Seq(S) /\ Len(p) = off[k - 1]
        /\ \A i \in 1 .. off[k - 1] : p[i] = t[i]
    BY <1>2, <2>1
  <2>3. /\ q \in Seq(S) /\ off[k] = off[k - 1] + Len(q) /\ Len(q) \in Nat
        /\ \A i \in 1 .. Len(q) : q[i] = t[off[k - 1] + i]
    BY <1>0
  <2>4. P(k) \in Seq(S) /\ Len(P(k)) = off[k] /\ \A i \in 1 .. off[k] : P(k)[i] = t[i]
    BY <1>2, <2>1
  <2> HIDE DEF p, q, P
  <2>5. /\ p \o q \in Seq(S) /\ Len(p \o q) = off[k]
        /\ \A i \in 1 .. off[k] : (p \o q)[i] = IF i <= Len(p) THEN p[i] ELSE q[i - Len(p)]
    <3>1. Len(p) + Len(q) = off[k] /\ Len(p) \in Nat /\ Len(q) \in Nat
      BY <2>1, <2>2, <2>3
    <3>2. /\ p \o q \in Seq(S) /\ Len(p \o q) = Len(p) + Len(q)
          /\ \A i \in 1 .. Len(p) + Len(q) :
               (p \o q)[i] = IF i <= Len(p) THEN p[i] ELSE q[i - Len(p)]
      <4>1. p \in Seq(S) /\ q \in Seq(S)
        BY <2>2, <2>3
      <4>2. p \o q \in Seq(S) /\ Len(p \o q) = Len(p) + Len(q)
        BY <4>1, ConcatProperties
      <4>3. QED
        BY <4>1, <4>2
    <3>3. QED
      BY <3>1, <3>2
  <2>6. \A i \in 1 .. off[k] : (p \o q)[i] = t[i]
    <3> TAKE i \in 1 .. off[k]
    <3>0. off[k - 1] \in Nat /\ off[k] \in Nat
      BY <1>0, <2>1
    <3>1. CASE i <= Len(p)
      BY <2>2, <2>5, <3>0, <3>1
    <3>2. CASE ~(i <= Len(p))
      <4>1. i - Len(p) \in 1 .. Len(q) /\ off[k - 1] + (i - Len(p)) = i
        BY <2>2, <2>3, <3>0, <3>2
      <4>2. QED
        BY <2>3, <2>5, <3>2, <4>1
    <3>3. QED
      BY <3>1, <3>2
  <2>7. P(k) = p \o q
    <3>1. \A i \in 1 .. Len(P(k)) : P(k)[i] = (p \o q)[i]
      BY <2>4, <2>6
    <3>2. QED
      BY <2>4, <2>5, <3>1, SeqEqual
  <2>8. QED
    BY <2>7 DEF p, q
<1>4. P(0) = << >>
  BY <1>0, SubSeqEmpty
<1> HIDE DEF P
<1>5. 0 \in T
  OBVIOUS
<1>6. ASSUME NEW m \in Nat, m \in T PROVE m + 1 \in T
  <2> SUFFICES ASSUME m + 1 \in 1 .. n PROVE F[m + 1] = P(m + 1)
    OBVIOUS
  <2>1. P(m + 1) = P(m) \o seqs[m + 1]
    <3>1. (m + 1) - 1 = m
      OBVIOUS
    <3>2. QED
      BY <1>3, <3>1
  <2>2. CASE m = 0
    <3>1. F[1] = seqs[1]
      BY <1>1, <2>2 DEF Joins
    <3>2. << >> \o seqs[1] = seqs[1]
      <4>1. seqs[1] \in Seq(S)
        BY <1>0, <2>2
      <4>2. QED
        BY <4>1, ConcatEmptySeq
    <3>3. P(1) = P(0) \o seqs[1] /\ m + 1 = 1
      BY <2>1, <2>2
    <3>4. QED
      BY <1>4, <3>1, <3>2, <3>3
  <2>3. CASE m # 0
    <3>1. F[m + 1] = F[m] \o seqs[m + 1]
      <4>1. (m + 1) - 1 = m /\ m + 1 # 1
        BY <2>3
      <4>2. QED
        BY <1>1, <4>1 DEF Joins
    <3>2. F[m] = P(m)
      BY <1>6, <2>3
    <3>3. QED
      BY <2>1, <3>1, <3>2
  <2>4. QED
    BY <2>2, <2>3
<1>7. n \in T
  <2> HIDE DEF T, n
  <2>1. n \in Nat
    BY <1>0 DEF n
  <2>2. QED
    BY <1>5, <1>6, <2>1, Induct
<1>8. F[n] = P(n)
  BY <1>0, <1>7
<1>9. P(n) = t
  BY <1>0, SubSeqFull DEF P
<1>10. QED
  BY <1>1, <1>8, <1>9

(* A sequence that FlattenSeq puts together is cut into its pieces.        *)
LEMMA FlattenCuts ==
  ASSUME NEW S, NEW seqs, Len(seqs) \in Nat \ {0}, \A k \in 1 .. Len(seqs) : seqs[k] \in Seq(S)
  PROVE  \E off : Cuts(off, S, FlattenSeq(seqs), seqs)
<1> DEFINE n == Len(seqs)
<1>1. PICK F : Joins(F, seqs, n) /\ FlattenSeq(seqs) = F[n]
  BY FlattenJoins
<1> DEFINE off == [k \in 0 .. n |-> IF k = 0 THEN 0 ELSE Len(F[k])]
           T == {k \in Nat : k \in 1 .. n => F[k] \in Seq(S)}
<1>2. n \in Nat \ {0}
  OBVIOUS
<1> HIDE DEF n
<1>3. T = Nat
  <2>1. 0 \in T
    OBVIOUS
  <2>2. ASSUME NEW k \in Nat, k \in T PROVE k + 1 \in T
    <3> SUFFICES ASSUME k + 1 \in 1 .. n PROVE F[k + 1] \in Seq(S)
      OBVIOUS
    <3>1. seqs[k + 1] \in Seq(S) /\ (k + 1) - 1 = k
      BY DEF n
    <3>2. CASE k = 0
      <4>1. F[k + 1] = seqs[k + 1]
        BY <1>1, <3>2 DEF Joins
      <4>2. QED
        BY <3>1, <4>1
    <3>3. CASE k # 0
      <4>0. k + 1 # 1 /\ k \in 1 .. n
        BY <1>2, <3>3
      <4>1. F[k + 1] = F[k] \o seqs[k + 1] /\ F[k] \in Seq(S)
        BY <1>1, <2>2, <3>1, <4>0 DEF Joins
      <4>2. QED
        BY <3>1, <4>1, ConcatProperties
    <3>4. QED
      BY <3>2, <3>3
  <2> HIDE DEF T
  <2>3. Nat \subseteq T
    BY <2>1, <2>2, Induct
  <2>4. QED
    BY <2>3 DEF T
<1>4. \A k \in 1 .. n : F[k] \in Seq(S) /\ Len(F[k]) \in Nat
  <2>1. \A k \in 1 .. n : k \in T
    BY <1>2, <1>3
  <2>2. QED
    BY <2>1
<1> HIDE DEF T
<1>5. ASSUME NEW k \in 1 .. n
      PROVE  /\ off[k] = Len(F[k]) /\ off[k - 1] \in Nat
             /\ off[k] = off[k - 1] + Len(seqs[k])
             /\ \A i \in 1 .. off[k - 1] : F[k][i] = F[k - 1][i]
             /\ \A i \in 1 .. Len(seqs[k]) : F[k][off[k - 1] + i] = seqs[k][i]
  <2>1. seqs[k] \in Seq(S)
    BY DEF n
  <2>2. off[k] = Len(F[k])
    BY <1>2
  <2>3. CASE k = 1
    <3>1. F[k] = seqs[k] /\ off[k - 1] = 0
      BY <1>1, <1>2, <2>3 DEF Joins
    <3> HIDE DEF off
    <3>2. Len(seqs[k]) \in Nat /\ \A i \in 1 .. off[k - 1] : FALSE
      BY <2>1, <3>1
    <3>3. \A i \in 1 .. Len(seqs[k]) : off[k - 1] + i = i
      BY <3>1, <3>2
    <3>4. off[k] = off[k - 1] + Len(seqs[k]) /\ off[k - 1] \in Nat
      BY <2>2, <3>1, <3>2
    <3>5. QED
      BY <2>2, <3>1, <3>2, <3>3, <3>4
  <2>4. CASE k # 1
    <3>1. k - 1 \in 1 .. n
      BY <1>2, <2>4
    <3>2. F[k] = F[k - 1] \o seqs[k] /\ F[k - 1] \in Seq(S)
      BY <1>1, <1>4, <2>4, <3>1 DEF Joins
    <3>3. off[k - 1] = Len(F[k - 1])
      BY <1>2, <3>1
    <3> DEFINE p == F[k - 1]
               q == seqs[k]
    <3> HIDE DEF p, q, off
    <3>4. p \in Seq(S) /\ q \in Seq(S)
      BY <2>1, <3>2 DEF p, q
    <3>5. /\ Len(p \o q) = Len(p) + Len(q) /\ Len(p) \in Nat /\ Len(q) \in Nat
          /\ \A i \in 1 .. Len(p) : (p \o q)[i] = p[i]
          /\ \A i \in 1 .. Len(q) : (p \o q)[Len(p) + i] = q[i]
      BY <3>4
    <3>6. QED
      BY <2>2, <3>2, <3>3, <3>5 DEF p, q
  <2>5. QED
    BY <2>3, <2>4
<1>6. off[0] = 0 /\ off[n] = Len(F[n])
  BY <1>2
<1>7. \A k \in 0 .. n : off[k] \in Nat
  BY <1>2, <1>4
<1> HIDE DEF off
<1>8. ASSUME NEW k \in 1 .. n
      PROVE  off[k] <= Len(F[n]) /\ \A i \in 1 .. off[k] : F[n][i] = F[k][i]
  <2> DEFINE U == {j \in Nat : k + j \in 1 .. n =>
                     off[k] <= off[k + j] /\ \A i \in 1 .. off[k] : F[k + j][i] = F[k][i]}
  <2>1. 0 \in U
    <3>1. k + 0 = k /\ off[k] \in Nat
      BY <1>7
    <3>2. QED
      BY <3>1
  <2>2. ASSUME NEW j \in Nat, j \in U PROVE j + 1 \in U
    <3> DEFINE l == k + (j + 1)
    <3> SUFFICES ASSUME l \in 1 .. n
                 PROVE  off[k] <= off[l] /\ \A i \in 1 .. off[k] : F[l][i] = F[k][i]
      OBVIOUS
    <3>1. l - 1 = k + j /\ l - 1 \in 1 .. n
      BY <1>2
    <3>2. off[k] <= off[l - 1] /\ \A i \in 1 .. off[k] : F[l - 1][i] = F[k][i]
      BY <2>2, <3>1
    <3> HIDE DEF l
    <3>3. off[l - 1] <= off[l] /\ \A i \in 1 .. off[l - 1] : F[l][i] = F[l - 1][i]
      <4>1. seqs[l] \in Seq(S)
        BY DEF n
      <4>2. Len(seqs[l]) \in Nat
        BY <4>1
      <4>3. QED
        BY <1>5, <4>2
    <3>4. off[k] \in Nat /\ off[l - 1] \in Nat /\ off[l] \in Nat
      BY <1>2, <1>7, <3>1
    <3>5. QED
      BY <3>2, <3>3, <3>4
  <2> HIDE DEF U
  <2>3. n - k \in U
    <3>1. n - k \in Nat
      BY <1>2
    <3>2. QED
      BY <2>1, <2>2, <3>1, Induct
  <2>4. k + (n - k) = n /\ n \in 1 .. n
    BY <1>2
  <2>5. QED
    BY <1>6, <2>3, <2>4 DEF U
<1>9. /\ F[n] \in Seq(S)
      /\ \A k \in 0 .. n : off[k] \in Nat /\ off[k] <= Len(F[n])
  <2>1. F[n] \in Seq(S) /\ Len(F[n]) \in Nat
    BY <1>2, <1>4
  <2>2. ASSUME NEW k \in 0 .. n PROVE off[k] <= Len(F[n])
    <3>1. CASE k = 0
      BY <1>6, <2>1, <3>1
    <3>2. CASE k # 0
      BY <1>2, <1>8, <3>2
    <3>3. QED
      BY <3>1, <3>2
  <2>3. QED
    BY <1>7, <2>1, <2>2
<1>10. ASSUME NEW k \in 1 .. n
       PROVE  /\ seqs[k] \in Seq(S) /\ off[k] = off[k - 1] + Len(seqs[k])
              /\ \A i \in 1 .. Len(seqs[k]) : seqs[k][i] = F[n][off[k - 1] + i]
  <2>1. seqs[k] \in Seq(S)
    BY DEF n
  <2>2. Len(seqs[k]) \in Nat
    BY <2>1
  <2>3. \A i \in 1 .. Len(seqs[k]) : off[k - 1] + i \in 1 .. off[k]
    BY <1>5, <2>2
  <2>4. ASSUME NEW i \in 1 .. Len(seqs[k]) PROVE seqs[k][i] = F[n][off[k - 1] + i]
    <3>1. F[k][off[k - 1] + i] = seqs[k][i]
      BY <1>5
    <3>2. off[k - 1] + i \in 1 .. off[k]
      BY <2>3
    <3> DEFINE j == off[k - 1] + i
    <3> HIDE DEF j
    <3>3. F[n][j] = F[k][j]
      BY <1>8, <3>2 DEF j
    <3>4. QED
      BY <3>1, <3>3 DEF j
  <2>5. QED
    BY <1>5, <2>1, <2>4
<1>11. Cuts(off, S, F[n], seqs)
  BY <1>2, <1>6, <1>9, <1>10 DEF Cuts, n
<1>12. QED
  BY <1>1, <1>11

------------------------------------------------------------------------------
(* Characters *)

(* A digit of either alphabet is no padding, and is recognised.            *)
LEMMA CharComesBack ==
  ASSUME NEW v \in 0 .. 63, NEW url \in BOOLEAN
  PROVE  /\ IsBase64(Base64Char(v, url))
         /\ PosOfChar(Base64Char(v, url)) = v
         /\ Base64Char(v, url) \notin {Equals, Dot}
<1>1. CASE v < 26
  <2>1. Base64Char(v, url) = 65 + v
    BY <1>1 DEF Base64Char
  <2>2. 65 + v \in 65 .. 90
    BY <1>1
  <2>3. QED
    BY <2>1, <2>2 DEF IsBase64, PosOfChar, Equals, Dot
<1>2. CASE v \in 26 .. 51
  <2>1. Base64Char(v, url) = 97 + (v - 26)
    BY <1>2 DEF Base64Char
  <2>2. 97 + (v - 26) \in 97 .. 122
    BY <1>2
  <2>3. QED
    BY <1>2, <2>1, <2>2 DEF IsBase64, PosOfChar, Equals, Dot
<1>3. CASE v \in 52 .. 61
  <2>1. Base64Char(v, url) = 48 + (v - 52)
    BY <1>3 DEF Base64Char
  <2>2. 48 + (v - 52) \in 48 .. 57
    BY <1>3
  <2>3. QED
    BY <1>3, <2>1, <2>2 DEF IsBase64, PosOfChar, Equals, Dot
<1>4. CASE v = 62
  <2>1. Base64Char(v, url) \in {43, 45}
    BY <1>4 DEF Base64Char
  <2>2. QED
    BY <1>4, <2>1 DEF IsBase64, PosOfChar, Equals, Dot
<1>5. CASE v = 63
  <2>1. Base64Char(v, url) \in {47, 95}
    BY <1>5 DEF Base64Char
  <2>2. QED
    BY <1>5, <2>1 DEF IsBase64, PosOfChar, Equals, Dot
<1>6. QED
  BY <1>1, <1>2, <1>3, <1>4, <1>5

(* The number of a character is the one whose character it is.             *)
LEMMA CharOf ==
  ASSUME NEW c, IsBase64(c)
  PROVE  /\ PosOfChar(c) \in 0 .. 63 /\ c \notin {Equals, Dot}
         /\ \E url \in BOOLEAN : Base64Char(PosOfChar(c), url) = c
<1> DEFINE Good(x) == x \in 0 .. 63 /\ \E url \in BOOLEAN : Base64Char(x, url) = c
<1>0. c \notin {Equals, Dot}
  BY DEF IsBase64, Equals, Dot
<1>1. ASSUME c \in 65 .. 90 PROVE Good(PosOfChar(c))
  <2> DEFINE x == c - 65
  <2>1. PosOfChar(c) = x /\ x \in 0 .. 63
    BY <1>1 DEF PosOfChar
  <2>2. \A url \in BOOLEAN : Base64Char(x, url) = c
    BY <1>1 DEF Base64Char
  <2> HIDE DEF x
  <2>3. QED
    BY <2>1, <2>2
<1>2. ASSUME c \in 97 .. 122 PROVE Good(PosOfChar(c))
  <2> DEFINE x == c - 71
  <2>1. PosOfChar(c) = x /\ x \in 0 .. 63
    BY <1>2 DEF PosOfChar
  <2>2. \A url \in BOOLEAN : Base64Char(x, url) = c
    BY <1>2 DEF Base64Char
  <2> HIDE DEF x
  <2>3. QED
    BY <2>1, <2>2
<1>3. ASSUME c \in 48 .. 57 PROVE Good(PosOfChar(c))
  <2> DEFINE x == c + 4
  <2>1. PosOfChar(c) = x /\ x \in 0 .. 63
    BY <1>3 DEF PosOfChar
  <2>2. \A url \in BOOLEAN : Base64Char(x, url) = c
    BY <1>3 DEF Base64Char
  <2> HIDE DEF x
  <2>3. QED
    BY <2>1, <2>2
<1>4. ASSUME c \in {43, 45} PROVE Good(PosOfChar(c))
  <2>1. PosOfChar(c) = 62
    BY <1>4 DEF PosOfChar
  <2>2. \A url \in BOOLEAN : Base64Char(62, url) = IF url THEN 45 ELSE 43
    BY DEF Base64Char
  <2>3. \E url \in BOOLEAN : (IF url THEN 45 ELSE 43) = c
    BY <1>4
  <2>4. \E url \in BOOLEAN : Base64Char(62, url) = c
    BY <2>2, <2>3
  <2>5. QED
    BY <2>1, <2>4
<1>5. ASSUME c \in {47, 95} PROVE Good(PosOfChar(c))
  <2>1. PosOfChar(c) = 63
    BY <1>5 DEF PosOfChar
  <2>2. \A url \in BOOLEAN : Base64Char(63, url) = IF url THEN 95 ELSE 47
    BY DEF Base64Char
  <2>3. \E url \in BOOLEAN : (IF url THEN 95 ELSE 47) = c
    BY <1>5
  <2>4. \E url \in BOOLEAN : Base64Char(63, url) = c
    BY <2>2, <2>3
  <2>5. QED
    BY <2>1, <2>4
<1>6. Good(PosOfChar(c))
  <2> HIDE DEF Good
  <2>1. QED
    BY <1>1, <1>2, <1>3, <1>4, <1>5 DEF IsBase64
<1>7. QED
  BY <1>0, <1>6

------------------------------------------------------------------------------
(* Chunks *)

(* The sextets of a group are digits.                                      *)
LEMMA SextetsType ==
  ASSUME NEW a \in Byte, NEW b \in Byte, NEW c \in Byte
  PROVE  /\ a \div 4 \in 0 .. 63 /\ (a % 4) * 16 \in 0 .. 63
         /\ (a % 4) * 16 + (b \div 16) \in 0 .. 63
         /\ (b % 16) * 4 \in 0 .. 63
         /\ (b % 16) * 4 + (c \div 64) \in 0 .. 63
         /\ c % 64 \in 0 .. 63
BY DEF Byte

(* The three bytes that were split into sextets are put together again,    *)
(* the last sextet of an incomplete group included.                        *)
LEMMA BytesComeBack ==
  ASSUME NEW a \in Byte, NEW b \in Byte, NEW c \in Byte
  PROVE  /\ Byte1(a \div 4, (a % 4) * 16) = a
         /\ Byte1(a \div 4, (a % 4) * 16 + (b \div 16)) = a
         /\ Byte2((a % 4) * 16 + (b \div 16), (b % 16) * 4) = b
         /\ Byte2((a % 4) * 16 + (b \div 16), (b % 16) * 4 + (c \div 64)) = b
         /\ Byte3((b % 16) * 4 + (c \div 64), c % 64) = c
<1>1. Byte1(a \div 4, (a % 4) * 16) = a
  BY DEF Byte, Byte1
<1>2. Byte1(a \div 4, (a % 4) * 16 + (b \div 16)) = a
  BY DEF Byte, Byte1
<1>3. Byte2((a % 4) * 16 + (b \div 16), (b % 16) * 4) = b
  BY DEF Byte, Byte2
<1>4. Byte2((a % 4) * 16 + (b \div 16), (b % 16) * 4 + (c \div 64)) = b
  BY DEF Byte, Byte2
<1>5. Byte3((b % 16) * 4 + (c \div 64), c % 64) = c
  BY DEF Byte, Byte3
<1>6. QED
  BY <1>1, <1>2, <1>3, <1>4, <1>5

(* Nothing follows a string after which nothing is written.                *)
LEMMA NoTail == \A S : \A t \in Seq(S) : t \o << >> = t
BY ConcatEmptySeq

(* A byte is appended to one byte or two.                                  *)
LEMMA OneMore ==
  ASSUME NEW x, NEW y, NEW z
  PROVE  << x >> \o << y >> = << x, y >> /\ << x, y >> \o << z >> = << x, y, z >>
<1> DEFINE S == {x, y, z}
<1>1. /\ << x >> \in Seq(S) /\ << y >> \in Seq(S) /\ << z >> \in Seq(S)
      /\ << x, y >> \in Seq(S) /\ << x, y, z >> \in Seq(S)
  OBVIOUS
<1>2. << x >> \o << y >> = << x, y >>
  <2>1. /\ << x >> \o << y >> \in Seq(S) /\ Len(<< x >> \o << y >>) = 2
        /\ \A i \in 1 .. 2 : (<< x >> \o << y >>)[i] = << x, y >>[i]
    BY <1>1, ConcatProperties
  <2>2. QED
    BY <1>1, <2>1, SeqEqual
<1>3. << x, y >> \o << z >> = << x, y, z >>
  <2>1. /\ << x, y >> \o << z >> \in Seq(S) /\ Len(<< x, y >> \o << z >>) = 3
        /\ \A i \in 1 .. 3 : (<< x, y >> \o << z >>)[i] = << x, y, z >>[i]
    BY <1>1, ConcatProperties
  <2>2. QED
    BY <1>1, <2>1, SeqEqual
<1>4. QED
  BY <1>2, <1>3

(* What decode makes of a chunk of digits and padding.                     *)
LEMMA DecodesChunk ==
  ASSUME NEW c1, NEW c2, NEW c3, NEW c4, IsBase64(c1), IsBase64(c2)
  PROVE  LET text == << c1, c2, c3, c4 >>
             p1 == PosOfChar(c1)
             p2 == PosOfChar(c2)
             p3 == PosOfChar(c3)
             p4 == PosOfChar(c4)
         IN /\ c3 \in {Equals, Dot} =>
                 ~ChunkThrows(text, 0) /\ DecodeChunk(text, 0) = << Byte1(p1, p2) >>
            /\ c3 \notin {Equals, Dot} /\ IsBase64(c3) /\ c4 \in {Equals, Dot} =>
                 /\ ~ChunkThrows(text, 0)
                 /\ DecodeChunk(text, 0) = << Byte1(p1, p2), Byte2(p2, p3) >>
            /\ c3 \notin {Equals, Dot} /\ IsBase64(c3)
                 /\ c4 \notin {Equals, Dot} /\ IsBase64(c4) =>
                 /\ ~ChunkThrows(text, 0)
                 /\ DecodeChunk(text, 0) =
                      << Byte1(p1, p2), Byte2(p2, p3), Byte3(p3, p4) >>
<1> DEFINE text == << c1, c2, c3, c4 >>
<1>1. /\ Len(text) = 4 /\ text[0 + 1] = c1
      /\ text[1] = c1 /\ text[2] = c2 /\ text[3] = c3 /\ text[4] = c4
      /\ text[0 + 0 + 1] = c1 /\ text[0 + 1 + 1] = c2
      /\ text[0 + 2 + 1] = c3 /\ text[0 + 3 + 1] = c4
      /\ text[0 + 2] = c2 /\ text[0 + 3] = c3 /\ text[0 + 4] = c4
  OBVIOUS
<1> HIDE DEF text
<1>2. /\ More(text, 0 + 2) <=> c3 \notin {Equals, Dot}
      /\ More(text, 0 + 3) <=> c4 \notin {Equals, Dot}
  BY <1>1 DEF More
<1>3. /\ c3 \in {Equals, Dot} => ~ChunkThrows(text, 0)
      /\ c3 \notin {Equals, Dot} /\ IsBase64(c3) /\ c4 \in {Equals, Dot} =>
           ~ChunkThrows(text, 0)
      /\ c3 \notin {Equals, Dot} /\ IsBase64(c3)
           /\ c4 \notin {Equals, Dot} /\ IsBase64(c4) => ~ChunkThrows(text, 0)
  BY <1>1, <1>2 DEF ChunkThrows
<1> DEFINE b1 == Byte1(PosOfChar(c1), PosOfChar(c2))
           b2 == Byte2(PosOfChar(c2), PosOfChar(c3))
           b3 == Byte3(PosOfChar(c3), PosOfChar(c4))
<1>4. DecodeChunk(text, 0) =
        << b1 >> \o (IF c3 \notin {Equals, Dot} THEN << b2 >> ELSE << >>)
          \o (IF c3 \notin {Equals, Dot} /\ c4 \notin {Equals, Dot} THEN << b3 >> ELSE << >>)
  BY <1>1, <1>2, Zenon DEF DecodeChunk
<1> HIDE DEF b1, b2, b3
<1>5. /\ << b1 >> \o << >> \o << >> = << b1 >>
      /\ << b1 >> \o << b2 >> \o << >> = << b1, b2 >>
      /\ << b1 >> \o << b2 >> \o << b3 >> = << b1, b2, b3 >>
  <2>0. << b1 >> \in Seq({b1}) /\ << b1, b2 >> \in Seq({b1, b2})
    OBVIOUS
  <2>1. << b1 >> \o << >> = << b1 >>
    BY <2>0, NoTail
  <2>2. << b1 >> \o << b2 >> = << b1, b2 >>
    BY OneMore
  <2>3. << b1, b2 >> \o << >> = << b1, b2 >>
    BY <2>0, NoTail
  <2>4. << b1, b2 >> \o << b3 >> = << b1, b2, b3 >>
    BY OneMore
  <2>5. QED
    BY <2>1, <2>2, <2>3, <2>4
<1>6. QED
  BY <1>3, <1>4, <1>5 DEF text, b1, b2, b3

(* A chunk of base64 decodes to the bytes of which it was made, wherever   *)
(* they are in the input and whichever alphabet is used: what              *)
(* NameComesBack checks for short names, here for all bytes.               *)
THEOREM ChunkComesBack ==
  ASSUME NEW s \in Seq(Byte), NEW pos \in Nat, pos < Len(s), NEW url \in BOOLEAN
  PROVE  /\ ~ChunkThrows(EncodeChunk(s, pos, url), 0)
         /\ DecodeChunk(EncodeChunk(s, pos, url), 0) =
              CASE Len(s) - pos = 1 -> << s[pos + 1] >>
                [] Len(s) - pos = 2 -> << s[pos + 1], s[pos + 2] >>
                [] OTHER -> << s[pos + 1], s[pos + 2], s[pos + 3] >>
<1> DEFINE text == EncodeChunk(s, pos, url)
           left == Len(s) - pos
           pad  == IF url THEN Dot ELSE Equals
           a == s[pos + 1]
           b == s[pos + 2]
           c == s[pos + 3]
           Char(v) == Base64Char(v, url)
<1>1. a \in Byte /\ (left >= 2 => b \in Byte) /\ (left >= 3 => c \in Byte)
  OBVIOUS
<1>2. pad \in {Equals, Dot} /\ left \in Nat \ {0}
  BY DEF Equals, Dot
<1>3. \A v \in 0 .. 63 : /\ IsBase64(Char(v)) /\ PosOfChar(Char(v)) = v
                         /\ Char(v) \notin {Equals, Dot}
  BY CharComesBack
<1>4. CASE left = 1
  <2> DEFINE p0 == a \div 4
             p1 == (a % 4) * 16
  <2>1. p0 \in 0 .. 63 /\ p1 \in 0 .. 63 /\ Byte1(p0, p1) = a
    BY <1>1, SextetsType, BytesComeBack
  <2>2. text = << Char(p0), Char(p1), pad, pad >>
    BY <1>4 DEF EncodeChunk, Sextets1
  <2> HIDE DEF text, pad, p0, p1, Char
  <2>5. /\ IsBase64(Char(p0)) /\ PosOfChar(Char(p0)) = p0 /\ Char(p0) \notin {Equals, Dot}
        /\ IsBase64(Char(p1)) /\ PosOfChar(Char(p1)) = p1 /\ Char(p1) \notin {Equals, Dot}
    BY <1>3, <2>1
  <2>3. ~ChunkThrows(text, 0) /\ DecodeChunk(text, 0) = << a >>
    BY <1>2, <2>1, <2>2, <2>5, DecodesChunk
  <2>4. QED
    BY <1>4, <2>3 DEF text
<1>5. CASE left = 2
  <2> DEFINE p0 == a \div 4
             p1 == (a % 4) * 16 + (b \div 16)
             p2 == (b % 16) * 4
  <2>1. /\ p0 \in 0 .. 63 /\ p1 \in 0 .. 63 /\ p2 \in 0 .. 63
        /\ Byte1(p0, p1) = a /\ Byte2(p1, p2) = b
    BY <1>1, <1>5, SextetsType, BytesComeBack
  <2>2. text = << Char(p0), Char(p1), Char(p2), pad >>
    BY <1>5 DEF EncodeChunk, Sextets2
  <2> HIDE DEF text, pad, p0, p1, p2, Char
  <2>5. /\ IsBase64(Char(p0)) /\ PosOfChar(Char(p0)) = p0 /\ Char(p0) \notin {Equals, Dot}
        /\ IsBase64(Char(p1)) /\ PosOfChar(Char(p1)) = p1 /\ Char(p1) \notin {Equals, Dot}
        /\ IsBase64(Char(p2)) /\ PosOfChar(Char(p2)) = p2 /\ Char(p2) \notin {Equals, Dot}
    BY <1>3, <2>1
  <2>3. ~ChunkThrows(text, 0) /\ DecodeChunk(text, 0) = << a, b >>
    BY <1>2, <2>1, <2>2, <2>5, DecodesChunk
  <2>4. QED
    BY <1>5, <2>3 DEF text
<1>6. CASE left >= 3
  <2> DEFINE p0 == a \div 4
             p1 == (a % 4) * 16 + (b \div 16)
             p2 == (b % 16) * 4 + (c \div 64)
             p3 == c % 64
  <2>0. a \in Byte /\ b \in Byte /\ c \in Byte
    BY <1>1, <1>2, <1>6
  <2> HIDE DEF a, b, c
  <2>1. /\ p0 \in 0 .. 63 /\ p1 \in 0 .. 63 /\ p2 \in 0 .. 63 /\ p3 \in 0 .. 63
        /\ Byte1(p0, p1) = a /\ Byte2(p1, p2) = b /\ Byte3(p2, p3) = c
    BY <2>0, SextetsType, BytesComeBack
  <2>2. text = << Char(p0), Char(p1), Char(p2), Char(p3) >>
    BY <1>6 DEF EncodeChunk, Sextets3, a, b, c
  <2> HIDE DEF text, pad, p0, p1, p2, p3, Char
  <2>5. /\ IsBase64(Char(p0)) /\ PosOfChar(Char(p0)) = p0 /\ Char(p0) \notin {Equals, Dot}
        /\ IsBase64(Char(p1)) /\ PosOfChar(Char(p1)) = p1 /\ Char(p1) \notin {Equals, Dot}
        /\ IsBase64(Char(p2)) /\ PosOfChar(Char(p2)) = p2 /\ Char(p2) \notin {Equals, Dot}
        /\ IsBase64(Char(p3)) /\ PosOfChar(Char(p3)) = p3 /\ Char(p3) \notin {Equals, Dot}
    BY <1>3, <2>1
  <2>3. ~ChunkThrows(text, 0) /\ DecodeChunk(text, 0) = << a, b, c >>
    BY <1>2, <2>1, <2>2, <2>5, DecodesChunk
  <2>4. QED
    BY <1>2, <1>6, <2>3 DEF text, a, b, c
<1>7. QED
  BY <1>2, <1>4, <1>5, <1>6

------------------------------------------------------------------------------
(* Texts *)

(* The character with which encode fills the last chunk.                   *)
Pad(url) == IF url THEN Dot ELSE Equals

(* The characters of a chunk.                                              *)
LEMMA ChunkIs ==
  ASSUME NEW s \in Seq(Byte), NEW pos \in Nat, pos < Len(s), NEW url \in BOOLEAN
  PROVE  LET left == Len(s) - pos
             a == s[pos + 1]
             b == s[pos + 2]
             c == s[pos + 3]
             Char(v) == Base64Char(v, url)
             chunk == EncodeChunk(s, pos, url)
         IN /\ left = 1 => /\ a \in Byte
                           /\ chunk = << Char(a \div 4), Char((a % 4) * 16), Pad(url), Pad(url) >>
            /\ left = 2 => /\ a \in Byte /\ b \in Byte
                           /\ chunk = << Char(a \div 4), Char((a % 4) * 16 + (b \div 16)),
                                         Char((b % 16) * 4), Pad(url) >>
            /\ left >= 3 => /\ a \in Byte /\ b \in Byte /\ c \in Byte
                            /\ chunk = << Char(a \div 4), Char((a % 4) * 16 + (b \div 16)),
                                          Char((b % 16) * 4 + (c \div 64)), Char(c % 64) >>
<1> DEFINE left == Len(s) - pos
           a == s[pos + 1]
           b == s[pos + 2]
           c == s[pos + 3]
           Char(v) == Base64Char(v, url)
           chunk == EncodeChunk(s, pos, url)
<1>1. left \in Nat \ {0} /\ a \in Byte /\ (left >= 2 => b \in Byte) /\ (left >= 3 => c \in Byte)
  OBVIOUS
<1>2. CASE left = 1
  <2>1. chunk = << Char(a \div 4), Char((a % 4) * 16), Pad(url), Pad(url) >>
    BY <1>2 DEF EncodeChunk, Sextets1, Pad
  <2>2. QED
    BY <1>1, <1>2, <2>1
<1>3. CASE left = 2
  <2>1. chunk = << Char(a \div 4), Char((a % 4) * 16 + (b \div 16)), Char((b % 16) * 4), Pad(url) >>
    BY <1>3 DEF EncodeChunk, Sextets2, Pad
  <2>2. QED
    BY <1>1, <1>3, <2>1
<1>4. CASE left >= 3
  <2>1. chunk = << Char(a \div 4), Char((a % 4) * 16 + (b \div 16)),
                   Char((b % 16) * 4 + (c \div 64)), Char(c % 64) >>
    BY <1>4 DEF EncodeChunk, Sextets3, Pad
  <2>2. QED
    BY <1>1, <1>4, <2>1
<1>5. QED
  BY <1>1, <1>2, <1>3, <1>4

(* A digit is a character, and not a line break.                           *)
LEMMA DigitType ==
  ASSUME NEW v \in 0 .. 63, NEW url \in BOOLEAN
  PROVE  /\ Base64Char(v, url) \in Byte \ {NewLine, Equals, Dot} /\ IsBase64(Base64Char(v, url))
         /\ Pad(url) \in Byte \ {NewLine} /\ Pad(url) \in {Equals, Dot}
<1>1. IsBase64(Base64Char(v, url)) /\ Base64Char(v, url) \notin {Equals, Dot}
  BY CharComesBack
<1>2. \A c : IsBase64(c) => c \in Byte \ {NewLine}
  BY DEF IsBase64, Byte, NewLine
<1>3. QED
  BY <1>1, <1>2 DEF Pad, Byte, NewLine, Equals, Dot

(* A chunk has four characters, digits first, then what fills it.          *)
LEMMA ChunkType ==
  ASSUME NEW s \in Seq(Byte), NEW pos \in Nat, pos < Len(s), NEW url \in BOOLEAN
  PROVE  LET left == Len(s) - pos
             chunk == EncodeChunk(s, pos, url)
             digits == IF left >= 3 THEN 4 ELSE left + 1
         IN /\ chunk \in Seq(Byte) /\ Len(chunk) = 4
            /\ \A i \in 1 .. 4 : /\ chunk[i] \in Byte \ {NewLine}
                                 /\ i <= digits => IsBase64(chunk[i]) /\ chunk[i] \notin {Equals, Dot}
                                 /\ i > digits => chunk[i] = Pad(url)
<1> DEFINE left == Len(s) - pos
           chunk == EncodeChunk(s, pos, url)
           Good(x) == x \in Byte \ {NewLine} /\ IsBase64(x) /\ x \notin {Equals, Dot}
<1>1. left \in Nat \ {0}
  OBVIOUS
<1>2. Pad(url) \in Byte \ {NewLine}
  BY DigitType DEF Pad, Byte, NewLine, Equals, Dot
<1>3. \A v \in 0 .. 63 : Good(Base64Char(v, url))
  BY DigitType
<1> HIDE DEF Good
<1>4. CASE left = 1
  <2>1. PICK x, y : chunk = << x, y, Pad(url), Pad(url) >> /\ Good(x) /\ Good(y)
    <3>1. s[pos + 1] \in Byte
      BY <1>4, ChunkIs
    <3> DEFINE x == Base64Char(s[pos + 1] \div 4, url)
               y == Base64Char((s[pos + 1] % 4) * 16, url)
    <3>2. Good(x) /\ Good(y)
      BY <1>3, <3>1, SextetsType
    <3>3. chunk = << x, y, Pad(url), Pad(url) >>
      BY <1>4, ChunkIs
    <3>4. QED
      BY <3>2, <3>3
  <2>2. QED
    BY <1>2, <1>4, <2>1 DEF Good
<1>5. CASE left = 2
  <2>1. PICK x, y, z : chunk = << x, y, z, Pad(url) >> /\ Good(x) /\ Good(y) /\ Good(z)
    <3>1. s[pos + 1] \in Byte /\ s[pos + 2] \in Byte
      BY <1>5, ChunkIs
    <3> DEFINE x == Base64Char(s[pos + 1] \div 4, url)
               y == Base64Char((s[pos + 1] % 4) * 16 + (s[pos + 2] \div 16), url)
               z == Base64Char((s[pos + 2] % 16) * 4, url)
    <3>2. Good(x) /\ Good(y) /\ Good(z)
      BY <1>3, <3>1, SextetsType
    <3>3. chunk = << x, y, z, Pad(url) >>
      BY <1>5, ChunkIs
    <3>4. QED
      BY <3>2, <3>3
  <2>2. QED
    BY <1>2, <1>5, <2>1 DEF Good
<1>6. CASE left >= 3
  <2>1. PICK x, y, z, w : chunk = << x, y, z, w >> /\ Good(x) /\ Good(y) /\ Good(z) /\ Good(w)
    <3>1. s[pos + 1] \in Byte /\ s[pos + 2] \in Byte /\ s[pos + 3] \in Byte
      BY <1>6, ChunkIs
    <3> DEFINE x == Base64Char(s[pos + 1] \div 4, url)
               y == Base64Char((s[pos + 1] % 4) * 16 + (s[pos + 2] \div 16), url)
               z == Base64Char((s[pos + 2] % 16) * 4 + (s[pos + 3] \div 64), url)
               w == Base64Char(s[pos + 3] % 64, url)
    <3>2. Good(x) /\ Good(y) /\ Good(z) /\ Good(w)
      BY <1>3, <3>1, SextetsType
    <3>3. chunk = << x, y, z, w >>
      BY <1>6, ChunkIs
    <3>4. QED
      BY <3>2, <3>3
  <2>2. QED
    BY <1>2, <1>6, <2>1 DEF Good
<1>7. QED
  BY <1>1, <1>4, <1>5, <1>6

(* Chunks are one after another in the text.                               *)
LEMMA TextIs ==
  ASSUME NEW s \in Seq(Byte), NEW url \in BOOLEAN
  PROVE  LET text == base64_encode(s, url)
             n == (Len(s) + 2) \div 3
         IN /\ text \in Seq(Byte) /\ Len(text) = 4 * n /\ n \in Nat
            /\ \A k \in 1 .. n, i \in 1 .. 4 :
                 text[4 * (k - 1) + i] = EncodeChunk(s, 3 * (k - 1), url)[i]
<1> DEFINE n == (Len(s) + 2) \div 3
           C(k) == EncodeChunk(s, 3 * (k - 1), url)
           seqs == [k \in 1 .. n |-> C(k)]
           t == [j \in 1 .. 4 * n |-> C(((j - 1) \div 4) + 1)[((j - 1) % 4) + 1]]
           off == [k \in 0 .. n |-> 4 * k]
<1>1. n \in Nat /\ Len(s) \in Nat
  OBVIOUS
<1>2. base64_encode(s, url) = FlattenSeq(seqs)
  BY DEF base64_encode
<1>3. \A k \in 1 .. n : 3 * (k - 1) \in Nat /\ 3 * (k - 1) < Len(s)
  OBVIOUS
<1>4. ASSUME NEW k \in 1 .. n
      PROVE  C(k) \in Seq(Byte) /\ Len(C(k)) = 4 /\ \A i \in 1 .. 4 : C(k)[i] \in Byte
  BY <1>3, ChunkType
<1> HIDE DEF C
<1>5. ASSUME NEW j \in 1 .. 4 * n
      PROVE  ((j - 1) \div 4) + 1 \in 1 .. n /\ ((j - 1) % 4) + 1 \in 1 .. 4
  <2> HIDE DEF n
  <2>1. QED
    BY <1>1
<1>6. t \in Seq(Byte) /\ Len(t) = 4 * n
  <2>1. \A j \in 1 .. 4 * n : t[j] \in Byte
    BY <1>4, <1>5
  <2> HIDE DEF n
  <2>2. 4 * n \in Nat
    BY <1>1
  <2>3. QED
    BY <2>1, <2>2
<1>7. ASSUME NEW k \in 1 .. n, NEW i \in 1 .. 4
      PROVE  4 * (k - 1) + i \in 1 .. 4 * n /\ t[4 * (k - 1) + i] = C(k)[i]
  <2> DEFINE j == 4 * (k - 1) + i
  <2>1. j \in 1 .. 4 * n
    <3> HIDE DEF n
    <3>1. QED
      BY <1>1
  <2>2. (j - 1) \div 4 = k - 1 /\ (j - 1) % 4 = i - 1
    <3> HIDE DEF n
    <3>1. j - 1 = 4 * (k - 1) + (i - 1) /\ k - 1 \in Nat /\ i - 1 \in 0 .. 3
      BY <1>1
    <3>2. QED
      BY <3>1
  <2>3. t[j] = C(((j - 1) \div 4) + 1)[((j - 1) % 4) + 1]
    BY <2>1
  <2>4. (k - 1) + 1 = k /\ (i - 1) + 1 = i
    BY <1>1
  <2>5. QED
    BY <2>1, <2>2, <2>3, <2>4
<1> HIDE DEF t
<1>8. CASE n = 0
  <2>1. seqs = << >>
    BY <1>8
  <2>2. FlattenSeq(seqs) = << >>
    BY <2>1 DEF FlattenSeq
  <2>3. QED
    BY <1>2, <1>8, <2>2
<1>9. CASE n # 0
  <2>1. Len(seqs) = n /\ \A k \in 1 .. n : seqs[k] = C(k)
    BY <1>1
  <2>2. off[0] = 0 /\ off[n] = Len(t) /\ \A k \in 0 .. n : off[k] = 4 * k
    BY <1>1, <1>6
  <2> HIDE DEF n, seqs, off
  <2>3. \A k \in 0 .. n : off[k] \in Nat /\ off[k] <= Len(t)
    BY <1>1, <1>6, <2>2
  <2>4. ASSUME NEW k \in 1 .. n
        PROVE  /\ seqs[k] \in Seq(Byte) /\ off[k] = off[k - 1] + Len(seqs[k])
               /\ \A i \in 1 .. Len(seqs[k]) : seqs[k][i] = t[off[k - 1] + i]
    <3>1. off[k] = 4 * k /\ off[k - 1] = 4 * (k - 1)
      BY <1>1, <2>2
    <3>2. seqs[k] \in Seq(Byte) /\ Len(seqs[k]) = 4 /\ seqs[k] = C(k)
      BY <1>4, <2>1
    <3>3. 4 * k = 4 * (k - 1) + 4
      BY <1>1
    <3>4. QED
      BY <1>7, <3>1, <3>2, <3>3
  <2>5. FlattenSeq(seqs) = t
    <3>1. Cuts(off, Byte, t, seqs)
      BY <1>1, <1>6, <1>9, <2>1, <2>2, <2>3, <2>4 DEF Cuts
    <3>2. QED
      BY <3>1, FlattensTo
  <2>6. base64_encode(s, url) = t
    BY <1>2, <2>5
  <2>7. QED
    BY <1>1, <1>6, <1>7, <2>6 DEF C, n
<1>10. QED
  BY <1>8, <1>9

(* What decode makes of a chunk is the same wherever in a text it stands,  *)
(* with its padding or without.                                            *)
LEMMA ChunkAt ==
  ASSUME NEW t, Len(t) \in Nat, NEW pos \in Nat, NEW c, Len(c) = 4, pos + 2 <= Len(t),
         \A i \in 1 .. 4 : IF pos + i <= Len(t) THEN t[pos + i] = c[i]
                                                ELSE c[i] \in {Equals, Dot}
  PROVE  /\ ChunkThrows(t, pos) <=> ChunkThrows(c, 0)
         /\ DecodeChunk(t, pos) = DecodeChunk(c, 0)
<1>1. /\ t[pos + 1] = c[1] /\ t[pos + 2] = c[2]
      /\ t[pos + 0 + 1] = c[1] /\ t[pos + 1 + 1] = c[2]
      /\ c[0 + 1] = c[1] /\ c[0 + 2] = c[2] /\ c[0 + 3] = c[3] /\ c[0 + 4] = c[4]
      /\ c[0 + 0 + 1] = c[1] /\ c[0 + 1 + 1] = c[2] /\ c[0 + 2 + 1] = c[3] /\ c[0 + 3 + 1] = c[4]
  OBVIOUS
<1>2. /\ More(t, pos + 2) <=> More(c, 0 + 2)
      /\ More(t, pos + 2) => t[pos + 3] = c[3] /\ t[pos + 2 + 1] = c[3]
  <2>1. IF pos + 3 <= Len(t) THEN t[pos + 3] = c[3] ELSE c[3] \in {Equals, Dot}
    OBVIOUS
  <2>2. (pos + 2) + 1 = pos + 3 /\ (0 + 2) + 1 = 3
    OBVIOUS
  <2>3. QED
    BY <2>1, <2>2 DEF More
<1>3. /\ More(t, pos + 3) <=> More(c, 0 + 3)
      /\ More(t, pos + 3) => t[pos + 4] = c[4] /\ t[pos + 3 + 1] = c[4]
  <2>1. IF pos + 4 <= Len(t) THEN t[pos + 4] = c[4] ELSE c[4] \in {Equals, Dot}
    OBVIOUS
  <2>2. (pos + 3) + 1 = pos + 4 /\ (0 + 3) + 1 = 4
    OBVIOUS
  <2>3. QED
    BY <2>1, <2>2 DEF More
<1>4. ~(pos + 1 >= Len(t)) /\ ~(0 + 1 >= Len(c))
  OBVIOUS
<1>5. ChunkThrows(t, pos) <=> ChunkThrows(c, 0)
  BY <1>1, <1>2, <1>3, <1>4, Zenon DEF ChunkThrows
<1>6. DecodeChunk(t, pos) = DecodeChunk(c, 0)
  <2>1. CASE More(c, 0 + 2) /\ More(c, 0 + 3)
    BY <1>1, <1>2, <1>3, <2>1, Zenon DEF DecodeChunk
  <2>2. CASE More(c, 0 + 2) /\ ~More(c, 0 + 3)
    BY <1>1, <1>2, <1>3, <2>2, Zenon DEF DecodeChunk
  <2>3. CASE ~More(c, 0 + 2)
    BY <1>1, <1>2, <1>3, <2>3, Zenon DEF DecodeChunk
  <2>4. QED
    BY <2>1, <2>2, <2>3
<1>7. QED
  BY <1>5, <1>6

(* Every chunk of a text decodes to its bytes.                             *)
LEMMA TextComesBack ==
  ASSUME NEW s \in Seq(Byte), NEW url \in BOOLEAN, NEW u, NEW end \in Nat,
         Len(u) = end, end <= Len(base64_encode(s, url)),
         \A i \in 1 .. end : u[i] = base64_encode(s, url)[i],
         \A i \in 1 .. Len(base64_encode(s, url)) :
           i > end => base64_encode(s, url)[i] \in {Equals, Dot}
  PROVE  base64_decode(u, FALSE) = s
<1> DEFINE text == base64_encode(s, url)
           n == (Len(s) + 2) \div 3
           C(k) == EncodeChunk(s, 3 * (k - 1), url)
           D(k) == DecodeChunk(u, 4 * (k - 1))
           seqs == [k \in 1 .. n |-> D(k)]
           off == [k \in 0 .. n |-> IF 3 * k <= Len(s) THEN 3 * k ELSE Len(s)]
<1>0. n \in Nat /\ Len(s) \in Nat /\ Len(s) <= 3 * n /\ 3 * n <= Len(s) + 2
  OBVIOUS
<1>1. /\ text \in Seq(Byte) /\ Len(text) = 4 * n
      /\ \A k \in 1 .. n, i \in 1 .. 4 : text[4 * (k - 1) + i] = C(k)[i]
  BY TextIs
<1>2. ASSUME NEW k \in 1 .. n
      PROVE  /\ 3 * (k - 1) \in Nat /\ 3 * (k - 1) < Len(s) /\ 4 * (k - 1) \in Nat
             /\ Len(s) - 3 * (k - 1) < 3 => k = n
  <2> HIDE DEF n
  <2>1. QED
    BY <1>0
<1>3. ASSUME NEW k \in 1 .. n
      PROVE  Len(C(k)) = 4 /\ C(k)[1] \notin {Equals, Dot} /\ C(k)[2] \notin {Equals, Dot}
  <2>1. 3 * (k - 1) \in Nat /\ 3 * (k - 1) < Len(s)
    BY <1>2
  <2>2. QED
    BY <2>1, ChunkType
<1> HIDE DEF text, C, n
<1>4. n # 0 => 4 * (n - 1) + 2 <= end
  <2> SUFFICES ASSUME n # 0, end < 4 * (n - 1) + 2 PROVE FALSE
    BY <1>0
  <2>1. n \in 1 .. n /\ 4 * (n - 1) + 2 \in 1 .. Len(text)
    BY <1>0, <1>1
  <2>2. text[4 * (n - 1) + 2] = C(n)[2]
    BY <1>1, <2>1
  <2>3. text[4 * (n - 1) + 2] \in {Equals, Dot}
    BY <2>1 DEF text
  <2>4. QED
    BY <1>3, <2>1, <2>2, <2>3
<1>5. ASSUME NEW k \in 1 .. n
      PROVE  /\ ChunkThrows(u, 4 * (k - 1)) <=> ChunkThrows(C(k), 0)
             /\ D(k) = DecodeChunk(C(k), 0)
  <2> DEFINE pos == 4 * (k - 1)
  <2>1. pos \in Nat /\ Len(C(k)) = 4
    BY <1>2, <1>3
  <2>2. pos + 2 <= end
    BY <1>0, <1>4
  <2>3. ASSUME NEW i \in 1 .. 4
        PROVE  IF pos + i <= end THEN u[pos + i] = C(k)[i] ELSE C(k)[i] \in {Equals, Dot}
    <3>1. pos + i \in 1 .. Len(text) /\ text[pos + i] = C(k)[i]
      <4>1. text[pos + i] = C(k)[i]
        BY <1>1
      <4>2. pos + i \in 1 .. 4 * n
        BY <1>0
      <4>3. QED
        BY <1>1, <4>1, <4>2
    <3>2. CASE pos + i <= end
      BY <3>1, <3>2 DEF text
    <3>3. CASE ~(pos + i <= end)
      <4>1. pos + i > end
        BY <3>1, <3>3
      <4>2. QED
        BY <3>1, <3>3, <4>1 DEF text
    <3>4. QED
      BY <3>2, <3>3
  <2> HIDE DEF pos
  <2>4. /\ ChunkThrows(u, pos) <=> ChunkThrows(C(k), 0)
        /\ DecodeChunk(u, pos) = DecodeChunk(C(k), 0)
    BY <2>1, <2>2, <2>3, ChunkAt
  <2>5. QED
    BY <2>4 DEF pos
<1>6. ASSUME NEW k \in 1 .. n
      PROVE  /\ ~ChunkThrows(u, 4 * (k - 1))
             /\ D(k) = LET pos == 3 * (k - 1)
                       IN CASE Len(s) - pos = 1 -> << s[pos + 1] >>
                            [] Len(s) - pos = 2 -> << s[pos + 1], s[pos + 2] >>
                            [] OTHER -> << s[pos + 1], s[pos + 2], s[pos + 3] >>
  <2> DEFINE pos == 3 * (k - 1)
  <2>1. pos \in Nat /\ pos < Len(s)
    BY <1>2
  <2> HIDE DEF pos, D
  <2>2. /\ ~ChunkThrows(EncodeChunk(s, pos, url), 0)
        /\ DecodeChunk(EncodeChunk(s, pos, url), 0) =
              CASE Len(s) - pos = 1 -> << s[pos + 1] >>
                [] Len(s) - pos = 2 -> << s[pos + 1], s[pos + 2] >>
                [] OTHER -> << s[pos + 1], s[pos + 2], s[pos + 3] >>
    BY <2>1, ChunkComesBack
  <2>3. C(k) = EncodeChunk(s, pos, url)
    BY DEF C, pos
  <2>4. QED
    BY <1>5, <2>2, <2>3, Zenon DEF pos
<1> HIDE DEF D
<1>7. (end + 3) \div 4 = n
  <2>1. CASE n = 0
    BY <1>0, <1>1, <2>1 DEF text
  <2>2. CASE n # 0
    <3>1. 4 * (n - 1) + 2 <= end /\ end <= 4 * n
      BY <1>1, <1>4, <2>2 DEF text
    <3>2. QED
      BY <1>0, <3>1
  <2>3. QED
    BY <2>1, <2>2
<1>8. base64_decode(u, FALSE) = FlattenSeq(seqs)
  <2>1. ~\E k \in 1 .. (Len(u) + 3) \div 4 : ChunkThrows(u, 4 * (k - 1))
    BY <1>6, <1>7
  <2>2. QED
    BY <1>7, <2>1 DEF base64_decode, D
<1>9. CASE n = 0
  <2>1. seqs = << >> /\ s = << >>
    BY <1>0, <1>9
  <2>2. FlattenSeq(seqs) = << >>
    BY <2>1 DEF FlattenSeq
  <2>3. QED
    BY <1>8, <2>1, <2>2
<1>10. CASE n # 0
  <2>1. Len(seqs) = n /\ \A k \in 1 .. n : seqs[k] = D(k)
    BY <1>0
  <2>2. /\ off[0] = 0 /\ off[n] = Len(s)
        /\ \A k \in 0 .. n : off[k] = IF 3 * k <= Len(s) THEN 3 * k ELSE Len(s)
    BY <1>0
  <2> HIDE DEF seqs, off
  <2>3. \A k \in 0 .. n : off[k] \in Nat /\ off[k] <= Len(s)
    BY <1>0, <2>2
  <2>4. ASSUME NEW k \in 1 .. n
        PROVE  /\ seqs[k] \in Seq(Byte) /\ off[k] = off[k - 1] + Len(seqs[k])
               /\ \A i \in 1 .. Len(seqs[k]) : seqs[k][i] = s[off[k - 1] + i]
    <3> DEFINE pos == 3 * (k - 1)
    <3>1. pos \in Nat /\ pos < Len(s)
      BY <1>2
    <3>2. off[k - 1] = pos /\ off[k] = IF pos + 3 <= Len(s) THEN pos + 3 ELSE Len(s)
      <4>1. k - 1 \in 0 .. n /\ k \in 0 .. n /\ 3 * k = pos + 3
        BY <1>0
      <4>2. QED
        BY <2>2, <3>1, <4>1
    <3>3. seqs[k] = CASE Len(s) - pos = 1 -> << s[pos + 1] >>
                      [] Len(s) - pos = 2 -> << s[pos + 1], s[pos + 2] >>
                      [] OTHER -> << s[pos + 1], s[pos + 2], s[pos + 3] >>
      BY <1>6, <2>1
    <3> HIDE DEF pos
    <3>4. CASE Len(s) - pos = 1
      <4>1. seqs[k] = << s[pos + 1] >> /\ s[pos + 1] \in Byte
        BY <3>1, <3>3, <3>4
      <4>2. QED
        BY <1>0, <3>1, <3>2, <3>4, <4>1
    <3>5. CASE Len(s) - pos = 2
      <4>1. /\ seqs[k] = << s[pos + 1], s[pos + 2] >>
            /\ s[pos + 1] \in Byte /\ s[pos + 2] \in Byte
        BY <3>1, <3>3, <3>5
      <4>2. QED
        BY <1>0, <3>1, <3>2, <3>5, <4>1
    <3>6. CASE Len(s) - pos >= 3
      <4>1. /\ seqs[k] = << s[pos + 1], s[pos + 2], s[pos + 3] >>
            /\ s[pos + 1] \in Byte /\ s[pos + 2] \in Byte /\ s[pos + 3] \in Byte
        BY <3>1, <3>3, <3>6
      <4>2. QED
        BY <1>0, <3>1, <3>2, <3>6, <4>1
    <3>7. QED
      BY <1>0, <3>1, <3>4, <3>5, <3>6
  <2>5. Cuts(off, Byte, s, seqs)
    BY <1>0, <1>10, <2>1, <2>2, <2>3, <2>4 DEF Cuts
  <2>6. QED
    BY <1>8, <2>5, FlattensTo
<1>11. QED
  BY <1>9, <1>10

(* There is only one k that Padding can choose.                            *)
LEMMA PaddingIs ==
  ASSUME NEW t, Len(t) \in Nat, NEW pad, NEW k \in 0 .. Len(t),
         \A i \in 1 .. Len(t) : i > Len(t) - k => t[i] \in pad,
         k < Len(t) => t[Len(t) - k] \notin pad
  PROVE  Padding(t, pad) = k
<1> DEFINE P(j) == /\ \A i \in 1 .. Len(t) : i > Len(t) - j => t[i] \in pad
                   /\ j < Len(t) => t[Len(t) - j] \notin pad
<1>1. P(k)
  OBVIOUS
<1>2. ASSUME NEW j \in 0 .. Len(t), P(j) PROVE j = k
  <2>1. CASE j < k
    <3>1. Len(t) - j \in 1 .. Len(t) /\ Len(t) - j > Len(t) - k /\ j < Len(t)
      BY <2>1
    <3>2. QED
      BY <1>1, <1>2, <3>1
  <2>2. CASE k < j
    <3>1. Len(t) - k \in 1 .. Len(t) /\ Len(t) - k > Len(t) - j /\ k < Len(t)
      BY <2>2
    <3>2. QED
      BY <1>1, <1>2, <3>1
  <2>3. QED
    BY <2>1, <2>2
<1>3. Padding(t, pad) = CHOOSE j \in 0 .. Len(t) : P(j)
  BY Zenon DEF Padding
<1> HIDE DEF P
<1>4. QED
  BY <1>1, <1>2, <1>3

(* The characters of a text: digits, as many as the bytes need, and behind *)
(* them the padding that completes the last chunk.                         *)
LEMMA TextPadding ==
  ASSUME NEW s \in Seq(Byte), NEW url \in BOOLEAN,
         NEW pad, Pad(url) \in pad, pad \subseteq {Equals, Dot}
  PROVE  LET text == base64_encode(s, url)
             n == (Len(s) + 2) \div 3
             k == 3 * n - Len(s)
         IN /\ k \in 0 .. 2 /\ k <= 4 * n
            /\ Len(text) = 4 * n /\ text \in Seq(Byte)
            /\ \A i \in 1 .. 4 * n :
                 /\ text[i] # NewLine
                 /\ i <= 4 * n - k => IsBase64(text[i]) /\ text[i] \notin {Equals, Dot}
                 /\ i > 4 * n - k => text[i] = Pad(url)
            /\ Padding(text, pad) = k
<1> DEFINE text == base64_encode(s, url)
           n == (Len(s) + 2) \div 3
           k == 3 * n - Len(s)
           C(j) == EncodeChunk(s, 3 * (j - 1), url)
<1>0. n \in Nat /\ Len(s) \in Nat /\ Len(s) <= 3 * n /\ 3 * n <= Len(s) + 2
  OBVIOUS
<1>1. /\ text \in Seq(Byte) /\ Len(text) = 4 * n
      /\ \A j \in 1 .. n, i \in 1 .. 4 : text[4 * (j - 1) + i] = C(j)[i]
  BY TextIs
<1> HIDE DEF n, text
<1>2. k \in 0 .. 2 /\ k <= 4 * n
  BY <1>0
<1>3. ASSUME NEW i \in 1 .. 4 * n
      PROVE  /\ text[i] # NewLine
             /\ i <= 4 * n - k => IsBase64(text[i]) /\ text[i] \notin {Equals, Dot}
             /\ i > 4 * n - k => text[i] = Pad(url)
  <2> DEFINE j == ((i - 1) \div 4) + 1
             l == ((i - 1) % 4) + 1
             pos == 3 * (j - 1)
  <2>1. j \in 1 .. n /\ l \in 1 .. 4 /\ i = 4 * (j - 1) + l
    BY <1>0
  <2> HIDE DEF j, l
  <2>2. pos \in Nat /\ pos < Len(s)
    BY <1>0, <2>1
  <2>3. text[i] = C(j)[l]
    BY <1>1, <2>1
  <2> DEFINE digits == IF Len(s) - pos >= 3 THEN 4 ELSE (Len(s) - pos) + 1
  <2>4. i <= 4 * n - k <=> l <= digits
    <3>1. CASE j = n
      BY <1>0, <2>1, <3>1
    <3>2. CASE j # n
      <4>1. Len(s) - pos >= 3
        BY <1>0, <2>1, <3>2
      <4>2. i <= 4 * n - k
        BY <1>0, <1>2, <2>1, <3>2
      <4>3. QED
        BY <2>1, <4>1, <4>2
    <3>3. QED
      BY <3>1, <3>2
  <2>5. /\ C(j)[l] \in Byte \ {NewLine}
        /\ l <= digits => IsBase64(C(j)[l]) /\ C(j)[l] \notin {Equals, Dot}
        /\ l > digits => C(j)[l] = Pad(url)
    BY <2>1, <2>2, ChunkType
  <2> HIDE DEF C, k, pos
  <2>6. l > digits <=> ~(l <= digits)
    BY <1>0, <2>1, <2>2
  <2>7. i > 4 * n - k <=> ~(i <= 4 * n - k)
    BY <1>0, <1>2
  <2>8. QED
    BY <2>3, <2>4, <2>5, <2>6, <2>7
<1> HIDE DEF k
<1>4. Padding(text, pad) = k
  <2>1. k \in 0 .. Len(text) /\ Len(text) \in Nat
    BY <1>0, <1>1, <1>2
  <2>2. \A i \in 1 .. Len(text) : i > Len(text) - k => text[i] \in pad
    BY <1>1, <1>3
  <2>3. k < Len(text) => text[Len(text) - k] \notin pad
    <3>1. k < 4 * n => 4 * n - k \in 1 .. 4 * n
      BY <1>0, <1>2
    <3>2. k < 4 * n => text[4 * n - k] \notin {Equals, Dot}
      BY <1>0, <1>2, <1>3, <3>1
    <3>3. QED
      BY <1>1, <3>2
  <2>4. QED
    BY <2>1, <2>2, <2>3, PaddingIs
<1>5. QED
  BY <1>1, <1>2, <1>3, <1>4 DEF n, k, text

------------------------------------------------------------------------------
(* Line breaks *)

(* A dividend is put together from quotient and remainder.                 *)
LEMMA Parts ==
  ASSUME NEW m \in Nat \ {0}, NEW x \in Nat
  PROVE  x \div m \in Nat /\ x % m \in 0 .. (m - 1) /\ x = m * (x \div m) + (x % m)
OBVIOUS

(* A quotient is what the remainder leaves.                                *)
LEMMA Quotient ==
  ASSUME NEW m \in Nat \ {0}, NEW q \in Nat, NEW r \in 0 .. (m - 1), NEW x \in Nat, x = m * q + r
  PROVE  x \div m = q /\ x % m = r
<1> DEFINE p == x \div m
           t == x % m
<1>1. p \in Nat /\ t \in 0 .. (m - 1) /\ x = m * p + t
  OBVIOUS
<1> HIDE DEF p, t
<1>2. CASE p >= q + 1
  <2>1. m * p >= m * (q + 1)
    BY <1>1, <1>2
  <2>2. QED
    BY <1>1, <2>1
<1>3. CASE q >= p + 1
  <2>1. m * q >= m * (p + 1)
    BY <1>1, <1>3
  <2>2. QED
    BY <1>1, <2>1
<1>4. p = q
  BY <1>1, <1>2, <1>3
<1>5. QED
  BY <1>1, <1>4 DEF p, t

(* How many of the first k characters of a text with breaks are its own.   *)
Own(k, d) == k - k \div (d + 1)

(* A character is a text's own unless it is a break, and breaks come every *)
(* d + 1 characters.                                                       *)
LEMMA OwnStep ==
  ASSUME NEW d \in Nat \ {0}, NEW k \in Nat \ {0}
  PROVE  /\ Own(k, d) \in Nat
         /\ Own(k, d) = IF k % (d + 1) = 0 THEN Own(k - 1, d) ELSE Own(k - 1, d) + 1
<1> DEFINE m == d + 1
           p == k \div m
           t == k % m
<1>0. m \in Nat \ {0} /\ k \in Nat /\ m - 1 = d
  OBVIOUS
<1>1. m \in Nat \ {0} /\ p \in Nat /\ t \in 0 .. d /\ k = m * p + t
  <2> HIDE DEF m
  <2>1. QED
    BY <1>0, Parts
<1>2. Own(k, d) = k - p /\ k - p \in Nat
  <2>1. Own(k, d) = k - p
    BY DEF Own
  <2> HIDE DEF p, t
  <2>2. m * p = d * p + p /\ d * p \in Nat
    BY <1>1
  <2> HIDE DEF m
  <2>3. QED
    BY <1>1, <2>1, <2>2
<1>3. CASE t = 0
  <2>1. p - 1 \in Nat
    <3> HIDE DEF p, t
    <3>1. p # 0
      BY <1>1, <1>3
    <3>2. QED
      BY <1>1, <3>1
  <2>2. k - 1 = m * (p - 1) + (m - 1) /\ m - 1 \in 0 .. (m - 1) /\ k - 1 \in Nat
    <3> HIDE DEF p, t
    <3>1. QED
      BY <1>1, <1>3, <2>1
  <2>3. (k - 1) \div m = p - 1
    <3> DEFINE q == p - 1
               r == m - 1
               x == k - 1
    <3>1. x = m * q + r /\ q \in Nat /\ r \in 0 .. (m - 1) /\ x \in Nat
      BY <2>1, <2>2
    <3> HIDE DEF q, r, x, m
    <3>2. x \div m = q
      BY <1>1, <3>1, Quotient
    <3>3. QED
      BY <3>2 DEF q, x
  <2>4. Own(k - 1, d) = (k - 1) - (p - 1)
    BY <2>3 DEF Own
  <2> HIDE DEF p
  <2>5. QED
    BY <1>1, <1>2, <1>3, <2>4
<1>4. CASE t # 0
  <2>2. k - 1 = m * p + (t - 1) /\ t - 1 \in 0 .. (m - 1) /\ k - 1 \in Nat
    <3> HIDE DEF p, t
    <3>1. QED
      BY <1>1, <1>4
  <2>3. (k - 1) \div m = p
    <3> DEFINE r == t - 1
               x == k - 1
    <3>1. x = m * p + r /\ r \in 0 .. (m - 1) /\ x \in Nat
      BY <2>2
    <3> HIDE DEF r, x, m, p
    <3>2. x \div m = p
      BY <1>1, <3>1, Quotient
    <3>3. QED
      BY <3>2 DEF x
  <2>4. Own(k - 1, d) = (k - 1) - p
    BY <2>3 DEF Own
  <2> HIDE DEF p
  <2>5. QED
    BY <1>1, <1>2, <1>4, <2>4
<1>5. QED
  BY <1>3, <1>4

(* All of the characters of a text are among those with breaks.            *)
LEMMA OwnAll ==
  ASSUME NEW d \in Nat \ {0}, NEW l \in Nat \ {0}
  PROVE  Own(l + (l - 1) \div d, d) = l
<1> DEFINE q == (l - 1) \div d
           r == (l - 1) % d
           m == d + 1
           x == l + q
<1>1. l - 1 \in Nat
  OBVIOUS
<1>2. q \in Nat /\ r \in 0 .. (d - 1) /\ l - 1 = d * q + r
  BY <1>1, Parts
<1>3. m * q = d * q + q /\ m \in Nat \ {0}
  <2> HIDE DEF q, r
  <2>1. QED
    BY <1>2
<1> HIDE DEF q, r
<1>4. x = m * q + (r + 1) /\ r + 1 \in 0 .. (m - 1) /\ x \in Nat
  BY <1>2, <1>3
<1>5. x \div m = q
  <2> DEFINE v == r + 1
  <2>1. x = m * q + v /\ v \in 0 .. (m - 1)
    BY <1>4
  <2> HIDE DEF v, x, m
  <2>2. QED
    BY <1>2, <1>3, <1>4, <2>1, Quotient
<1>6. Own(x, d) = x - q
  BY <1>5 DEF Own
<1>7. QED
  BY <1>2, <1>6 DEF q

(* The longer the part of the text, the more of its own it has.            *)
LEMMA OwnGrows ==
  ASSUME NEW d \in Nat \ {0}, NEW n \in Nat, NEW k \in 0 .. n
  PROVE  Own(k, d) \in Nat /\ Own(k, d) <= Own(n, d)
<1> DEFINE T == {j \in Nat : Own(k, d) <= Own(k + j, d) /\ Own(k + j, d) \in Nat}
<1>1. 0 \in T
  <2>1. Own(k, d) \in Nat
    <3>1. CASE k = 0
      <4>1. 0 \div (d + 1) = 0
        OBVIOUS
      <4>2. QED
        BY <3>1, <4>1 DEF Own
    <3>2. CASE k # 0
      BY <3>2, OwnStep
    <3>3. QED
      BY <3>1, <3>2
  <2>2. k + 0 = k
    OBVIOUS
  <2>3. QED
    BY <2>1, <2>2
<1>2. ASSUME NEW j \in Nat, j \in T PROVE j + 1 \in T
  <2> DEFINE i == k + (j + 1)
  <2>1. i \in Nat \ {0} /\ i - 1 = k + j
    OBVIOUS
  <2> HIDE DEF i
  <2>2. /\ Own(i, d) \in Nat
        /\ Own(i, d) = Own(i - 1, d) \/ Own(i, d) = Own(i - 1, d) + 1
    BY <2>1, OwnStep
  <2>3. Own(k, d) \in Nat
    <3>1. k + 0 = k
      OBVIOUS
    <3>2. QED
      BY <1>1, <3>1
  <2>4. Own(k, d) <= Own(i - 1, d) /\ Own(i - 1, d) \in Nat
    BY <1>2, <2>1
  <2>5. Own(k, d) <= Own(i, d)
    BY <2>2, <2>3, <2>4
  <2>6. QED
    BY <2>2, <2>5 DEF i
<1> HIDE DEF T
<1>3. n - k \in T
  BY <1>1, <1>2, Induct
<1>4. k + (n - k) = n
  OBVIOUS
<1>5. QED
  BY <1>3, <1>4, <1>1 DEF T

(* What insert_linebreaks puts in, decode takes out again.                 *)
LEMMA LinebreaksGo ==
  ASSUME NEW text \in Seq(Byte), NEW d \in Nat \ {0},
         \A i \in 1 .. Len(text) : text[i] # NewLine
  PROVE  RemoveLinebreaks(InsertLinebreaks(text, d)) = text
<1> DEFINE str == InsertLinebreaks(text, d)
           n == Len(text) + IF text = << >> THEN 0 ELSE (Len(text) - 1) \div d
           seqs == [i \in 1 .. n |-> IF str[i] = NewLine THEN << >> ELSE << str[i] >>]
           off == [k \in 0 .. n |-> Own(k, d)]
<1>1. n \in Nat /\ Len(text) \in Nat
  OBVIOUS
<1>2. str = [i \in 1 .. n |-> IF i % (d + 1) = 0 THEN NewLine ELSE text[i - i \div (d + 1)]]
  BY DEF InsertLinebreaks
<1>3. Len(str) = n
  BY <1>1, <1>2
<1>4. RemoveLinebreaks(str) = FlattenSeq(seqs)
  BY <1>3 DEF RemoveLinebreaks
<1>5. Own(n, d) = Len(text)
  <2>1. CASE text = << >>
    <3>1. n = 0 /\ Len(text) = 0 /\ 0 \div (d + 1) = 0
      BY <2>1
    <3>2. QED
      BY <3>1 DEF Own
  <2>2. CASE text # << >>
    <3>1. Len(text) \in Nat \ {0} /\ n = Len(text) + (Len(text) - 1) \div d
      BY <2>2
    <3> HIDE DEF n
    <3>2. QED
      BY <3>1, OwnAll
  <2>3. QED
    BY <2>1, <2>2
<1>6. Own(0, d) = 0
  <2>1. 0 \div (d + 1) = 0
    OBVIOUS
  <2>2. QED
    BY <2>1 DEF Own
<1>7. CASE n = 0
  <2>1. text = << >> /\ seqs = << >>
    BY <1>7
  <2>2. FlattenSeq(seqs) = << >>
    BY <2>1 DEF FlattenSeq
  <2>3. QED
    BY <1>4, <2>1, <2>2
<1>8. CASE n # 0
  <2>1. /\ Len(seqs) = n
        /\ \A k \in 1 .. n : seqs[k] = IF str[k] = NewLine THEN << >> ELSE << str[k] >>
    BY <1>1
  <2>2. \A k \in 1 .. n : str[k] = IF k % (d + 1) = 0 THEN NewLine ELSE text[Own(k, d)]
    BY <1>2 DEF Own
  <2>3. \A k \in 0 .. n : off[k] = Own(k, d)
    OBVIOUS
  <2> HIDE DEF n, seqs, off, str
  <2>4. \A k \in 0 .. n : off[k] \in Nat /\ off[k] <= Len(text)
    BY <1>1, <1>5, <2>3, OwnGrows
  <2>5. ASSUME NEW k \in 1 .. n
        PROVE  /\ seqs[k] \in Seq(Byte) /\ off[k] = off[k - 1] + Len(seqs[k])
               /\ \A i \in 1 .. Len(seqs[k]) : seqs[k][i] = text[off[k - 1] + i]
    <3>1. /\ off[k] = Own(k, d) /\ off[k - 1] = Own(k - 1, d)
          /\ off[k] \in Nat /\ off[k - 1] \in Nat /\ off[k] <= Len(text)
      BY <1>1, <2>3, <2>4
    <3>2. off[k] = IF k % (d + 1) = 0 THEN off[k - 1] ELSE off[k - 1] + 1
      BY <1>1, <3>1, OwnStep
    <3>3. CASE k % (d + 1) = 0
      <4>1. seqs[k] = << >>
        BY <2>1, <2>2, <3>3
      <4>2. QED
        BY <3>1, <3>2, <3>3, <4>1
    <3>4. CASE k % (d + 1) # 0
      <4>1. off[k] \in 1 .. Len(text) /\ off[k] = off[k - 1] + 1
        BY <1>1, <3>1, <3>2, <3>4
      <4>2. str[k] = text[off[k]]
        BY <2>2, <3>1, <3>4
      <4>3. str[k] # NewLine /\ str[k] \in Byte
        BY <4>1, <4>2
      <4>4. seqs[k] = << str[k] >>
        BY <2>1, <4>3
      <4>5. QED
        BY <4>1, <4>2, <4>3, <4>4
    <3>5. QED
      BY <3>3, <3>4
  <2>6. Cuts(off, Byte, text, seqs)
    <3>1. off[0] = 0 /\ off[n] = Len(text)
      BY <1>1, <1>5, <1>6, <2>3
    <3>2. QED
      BY <1>1, <1>8, <2>1, <2>4, <2>5, <3>1 DEF Cuts
  <2>7. FlattenSeq(seqs) = text
    BY <2>6, FlattensTo
  <2>8. QED
    BY <1>4, <2>7 DEF str
<1>9. QED
  BY <1>7, <1>8

------------------------------------------------------------------------------
(* Names *)

(* A text comes back as it is, without its padding and with line breaks.   *)
LEMMA TextsComeBack ==
  ASSUME NEW s \in Seq(Byte), NEW url \in BOOLEAN
  PROVE  LET text == base64_encode(s, url)
         IN /\ base64_decode(text, FALSE) = s
            /\ base64_decode(Unpadded(text, {Equals, Dot}), FALSE) = s
            /\ \A d \in Nat \ {0} : base64_decode(InsertLinebreaks(text, d), TRUE) = s
<1> DEFINE text == base64_encode(s, url)
           n == (Len(s) + 2) \div 3
           k == 3 * n - Len(s)
           u == SubSeq(text, 1, 4 * n - k)
           pad == {Equals, Dot}
<1>1. /\ k \in 0 .. 2 /\ k <= 4 * n
      /\ Len(text) = 4 * n /\ text \in Seq(Byte)
      /\ \A i \in 1 .. 4 * n :
           /\ text[i] # NewLine
           /\ i <= 4 * n - k => IsBase64(text[i]) /\ text[i] \notin {Equals, Dot}
           /\ i > 4 * n - k => text[i] = Pad(url)
      /\ Padding(text, pad) = k
  <2>1. Pad(url) \in pad /\ pad \subseteq {Equals, Dot}
    BY DEF Pad
  <2> HIDE DEF pad
  <2>2. QED
    BY <2>1, TextPadding
<1>2. n \in Nat
  OBVIOUS
<1> HIDE DEF n, k
<1>3. base64_decode(text, FALSE) = s
  <2> DEFINE end == 4 * n
  <2>1. end \in Nat /\ Len(text) = end /\ \A i \in 1 .. Len(text) : ~(i > end)
    BY <1>1, <1>2
  <2>2. \A i \in 1 .. Len(text) : i > end => text[i] \in {Equals, Dot}
    BY <2>1
  <2> HIDE DEF end
  <2>3. end <= Len(text)
    BY <2>1
  <2>4. QED
    BY <2>1, <2>2, <2>3, TextComesBack
<1>4. base64_decode(u, FALSE) = s
  <2> DEFINE end == 4 * n - k
  <2>1. end \in Nat /\ end <= Len(text) /\ Len(text) \in Nat
    BY <1>1, <1>2
  <2>2. Len(u) = end /\ \A i \in 1 .. end : u[i] = text[i]
    <3> HIDE DEF text
    <3>1. QED
      BY <1>1, <2>1
  <2>3. \A i \in 1 .. Len(text) : i > end => text[i] \in {Equals, Dot}
    <3>1. Pad(url) \in {Equals, Dot}
      BY DEF Pad
    <3>2. QED
      BY <1>1, <3>1
  <2> HIDE DEF end, u
  <2>4. QED
    BY <2>1, <2>2, <2>3, TextComesBack
<1>5. Unpadded(text, pad) = u
  BY <1>1 DEF Unpadded
<1>6. ASSUME NEW d \in Nat \ {0} PROVE base64_decode(InsertLinebreaks(text, d), TRUE) = s
  <2>1. RemoveLinebreaks(InsertLinebreaks(text, d)) = text
    <3> HIDE DEF text
    <3>1. QED
      BY <1>1, LinebreaksGo
  <2> HIDE DEF text
  <2>2. base64_decode(InsertLinebreaks(text, d), TRUE) = base64_decode(text, FALSE)
    BY <2>1, Zenon DEF base64_decode
  <2>3. QED
    BY <1>3, <2>2
<1>7. QED
  BY <1>3, <1>4, <1>5, <1>6

(* The input is a string of bytes.                                         *)
InputInv == input \in Seq(Byte)

(* Extend keeps it one.                                                    *)
LEMMA InputType == CodecSpec => []InputInv
<1>1. CodecInit => InputInv
  BY DEF CodecInit, InputInv
<1>2. InputInv /\ [Extend]_input => InputInv'
  BY CodecAssumption DEF InputInv, Extend
<1>3. QED
  BY <1>1, <1>2, PTL DEF CodecSpec

(* A file name that is encoded with either alphabet is decoded to the same *)
(* name, also without its padding and with line breaks at any distance:    *)
(* NameComesBack, whatever the name and its length.                        *)
THEOREM NamesComeBack == CodecSpec => []NameComesBack
<1>1. InputInv => NameComesBack
  <2> SUFFICES ASSUME InputInv, NEW url \in BOOLEAN
               PROVE  LET text == base64_encode(input, url)
                      IN /\ base64_decode(text, FALSE) = input
                         /\ base64_decode(Unpadded(text, {Equals, Dot}), FALSE) = input
                         /\ \A d \in Distances :
                              base64_decode(InsertLinebreaks(text, d), TRUE) = input
    BY DEF NameComesBack
  <2>1. \A d \in Distances : d \in Nat \ {0}
    BY CodecAssumption
  <2>2. QED
    BY <2>1, TextsComeBack DEF InputInv
<1>2. QED
  BY <1>1, InputType, PTL

------------------------------------------------------------------------------
(* Percent encoding *)

(* A byte written with two hexadecimal digits, capital or small, is read   *)
(* back: what PathComesBack checks for whole paths, here for every byte.   *)
THEOREM EscapeComesBack ==
  ASSUME NEW b \in Byte
  PROVE  /\ HexByte(ToHex(b \div 16), ToHex(b % 16)) = b
         /\ HexByte(LowerHex(b \div 16), LowerHex(b % 16)) = b
<1>1. b \div 16 \in 0 .. 15 /\ b % 16 \in 0 .. 15
  BY DEF Byte
<1>2. \A x \in 0 .. 15 : FromHex(ToHex(x)) = x /\ FromHex(LowerHex(x)) = x
  <2> SUFFICES ASSUME NEW x \in 0 .. 15
               PROVE  FromHex(ToHex(x)) = x /\ FromHex(LowerHex(x)) = x
    OBVIOUS
  <2>1. CASE x > 9
    <3>1. ToHex(x) = x + 55 /\ x + 55 \in 65 .. 90
      BY <2>1 DEF ToHex
    <3>2. LowerHex(x) = x + 87 /\ x + 87 \in 97 .. 122
      BY <2>1 DEF LowerHex
    <3>3. QED
      BY <3>1, <3>2 DEF FromHex
  <2>2. CASE x <= 9
    <3>1. ToHex(x) = x + 48 /\ LowerHex(x) = x + 48 /\ x + 48 \in 48 .. 57
      BY <2>2 DEF ToHex, LowerHex
    <3>2. QED
      BY <3>1 DEF FromHex
  <2>3. QED
    BY <2>1, <2>2
<1>3. ((b \div 16) * 16 + (b % 16)) % 256 = b
  BY DEF Byte
<1>4. QED
  BY <1>1, <1>2, <1>3 DEF HexByte

(* D and V are what UrlDecode has decoded, and found valid, from lo on: at *)
(* each i what its recursive functions say.                                *)
DecodedAt(D, str, i) ==
  IF i >= Len(str) THEN << >>
  ELSE IF str[i + 1] = Percent THEN << HexByte(str[i + 2], str[i + 3]) >> \o D[i + 3]
                               ELSE << str[i + 1] >> \o D[i + 1]
ValidAt(V, str, i) ==
  IF i >= Len(str) THEN TRUE
  ELSE IF str[i + 1] = Percent THEN /\ i + 2 < Len(str)
                                    /\ IsHex(str[i + 2]) /\ IsHex(str[i + 3])
                                    /\ V[i + 3]
                               ELSE V[i + 1]
Unwinds(D, V, str, lo) ==
  \A i \in lo .. Len(str) + 2 : D[i] = DecodedAt(D, str, i) /\ V[i] = ValidAt(V, str, i)

(* They exist, since each position needs only those behind it.             *)
LEMMA Unwound ==
  ASSUME NEW str, Len(str) \in Nat
  PROVE  \E D, V : /\ Unwinds(D, V, str, 0)
                   /\ UrlDecode(str) = IF V[0] THEN D[0] ELSE Invalid
<1> DEFINE length == Len(str)
           Dec(g) == [i \in 0 .. length + 2 |-> DecodedAt(g, str, i)]
           Val(g) == [i \in 0 .. length + 2 |-> ValidAt(g, str, i)]
           d == CHOOSE g : g = Dec(g)
           v == CHOOSE g : g = Val(g)
           S == {m \in Nat : m <= length + 3 => \E D, V : Unwinds(D, V, str, length + 3 - m)}
<1>1. UrlDecode(str) = IF v[0] THEN d[0] ELSE Invalid
  BY Zenon DEF UrlDecode, DecodedAt, ValidAt
<1>2. 0 \in S
  <2>1. (length + 3 - 0) .. (length + 2) = {}
    OBVIOUS
  <2>2. Unwinds(0, 0, str, length + 3 - 0)
    BY <2>1 DEF Unwinds
  <2>3. QED
    BY <2>2
<1>3. ASSUME NEW m \in Nat, m \in S PROVE m + 1 \in S
  <2> SUFFICES ASSUME m + 1 <= length + 3
               PROVE  \E D, V : Unwinds(D, V, str, length + 3 - (m + 1))
    OBVIOUS
  <2> DEFINE lo == length + 3 - (m + 1)
  <2>1. PICK D, V : Unwinds(D, V, str, length + 3 - m)
    BY <1>3
  <2>2. lo \in Nat /\ lo <= length + 2 /\ length + 3 - m = lo + 1
    OBVIOUS
  <2> HIDE DEF lo
  <2> DEFINE E == [i \in lo .. length + 3 + lo |-> IF i = lo THEN DecodedAt(D, str, lo) ELSE D[i]]
             W == [i \in lo .. length + 3 + lo |-> IF i = lo THEN ValidAt(V, str, lo) ELSE V[i]]
  <2>3. \A i \in (lo + 1) .. (length + 3 + lo) : E[i] = D[i] /\ W[i] = V[i]
    BY <2>2
  <2>4. E[lo] = DecodedAt(D, str, lo) /\ W[lo] = ValidAt(V, str, lo)
    BY <2>2
  <2> HIDE DEF E, W
  <2>5. ASSUME NEW i \in lo .. length + 2
        PROVE  E[i] = DecodedAt(E, str, i) /\ W[i] = ValidAt(W, str, i)
    <3>1. i < length => i + 1 \in (lo + 1) .. (length + 3 + lo) /\ i + 3 \in (lo + 1) .. (length + 3 + lo)
      BY <2>2
    <3>2. DecodedAt(E, str, i) = DecodedAt(D, str, i) /\ ValidAt(W, str, i) = ValidAt(V, str, i)
      <4>1. CASE i < length
        <5>1. E[i + 1] = D[i + 1] /\ E[i + 3] = D[i + 3] /\ W[i + 1] = V[i + 1] /\ W[i + 3] = V[i + 3]
          BY <2>3, <3>1, <4>1
        <5>2. QED
          BY <5>1, Zenon DEF DecodedAt, ValidAt
      <4>2. CASE i >= length
        BY <4>2 DEF DecodedAt, ValidAt
      <4>3. QED
        BY <2>2, <4>1, <4>2
    <3>3. CASE i = lo
      BY <2>4, <3>2, <3>3
    <3>4. CASE i # lo
      <4>1. i \in (lo + 1) .. (length + 2) /\ i \in (lo + 1) .. (length + 3 + lo)
        BY <2>2, <3>4
      <4>2. D[i] = DecodedAt(D, str, i) /\ V[i] = ValidAt(V, str, i)
        BY <2>1, <2>2, <4>1 DEF Unwinds
      <4>3. QED
        BY <2>3, <3>2, <4>1, <4>2
    <3>5. QED
      BY <3>3, <3>4
  <2>6. Unwinds(E, W, str, lo)
    BY <2>5 DEF Unwinds
  <2>7. QED
    BY <2>6 DEF lo
<1>4. length + 3 \in S
  <2> HIDE DEF S
  <2>1. length + 3 \in Nat
    OBVIOUS
  <2> HIDE DEF length
  <2>2. QED
    BY <1>2, <1>3, <2>1, Induct
<1>5. PICK D, V : Unwinds(D, V, str, 0)
  <2>1. length + 3 - (length + 3) = 0 /\ length + 3 <= length + 3
    OBVIOUS
  <2>2. QED
    BY <1>4, <2>1
<1> DEFINE E == [i \in 0 .. length + 2 |-> D[i]]
           W == [i \in 0 .. length + 2 |-> V[i]]
<1>6. E = Dec(E) /\ W = Val(W)
  <2>1. ASSUME NEW i \in 0 .. length + 2
        PROVE  E[i] = DecodedAt(E, str, i) /\ W[i] = ValidAt(W, str, i)
    <3>1. D[i] = DecodedAt(D, str, i) /\ V[i] = ValidAt(V, str, i)
      BY <1>5 DEF Unwinds
    <3>2. DecodedAt(E, str, i) = DecodedAt(D, str, i) /\ ValidAt(W, str, i) = ValidAt(V, str, i)
      <4>1. CASE i < length
        <5>1. i + 1 \in 0 .. length + 2 /\ i + 3 \in 0 .. length + 2
          BY <4>1
        <5>2. E[i + 1] = D[i + 1] /\ E[i + 3] = D[i + 3] /\ W[i + 1] = V[i + 1] /\ W[i + 3] = V[i + 3]
          BY <5>1
        <5> HIDE DEF E, W
        <5>3. QED
          BY <5>2, Zenon DEF DecodedAt, ValidAt
      <4>2. CASE i >= length
        BY <4>2 DEF DecodedAt, ValidAt
      <4>3. QED
        BY <4>1, <4>2
    <3>3. QED
      BY <3>1, <3>2
  <2>2. QED
    BY <2>1
<1>7. d = Dec(d) /\ v = Val(v)
  <2> HIDE DEF E, W, Dec, Val
  <2>1. (\E g : g = Dec(g)) /\ \E g : g = Val(g)
    BY <1>6
  <2>2. QED
    BY <2>1, Zenon
<1>8. Unwinds(d, v, str, 0)
  <2> HIDE DEF d, v
  <2>1. ASSUME NEW i \in 0 .. length + 2
        PROVE  d[i] = DecodedAt(d, str, i) /\ v[i] = ValidAt(v, str, i)
    BY <1>7, Zenon
  <2>2. QED
    BY <2>1 DEF Unwinds
<1>9. QED
  BY <1>1, <1>8

(* The ways in which a byte is written.                                    *)
Ways == {"plain", "upper", "lower"}

(* A byte is written as it is, or as an escape of two digits.              *)
LEMMA WrittenIs ==
  ASSUME NEW b \in Byte, NEW way \in Ways
  PROVE  \/ b # Percent /\ Written(b, way) = << b >>
         \/ \E h, l \in Byte : /\ Written(b, way) = << Percent, h, l >>
                               /\ IsHex(h) /\ IsHex(l) /\ HexByte(h, l) = b
<1>1. b \div 16 \in 0 .. 15 /\ b % 16 \in 0 .. 15
  BY DEF Byte
<1>2. \A x \in 0 .. 15 : /\ ToHex(x) \in Byte /\ IsHex(ToHex(x))
                         /\ LowerHex(x) \in Byte /\ IsHex(LowerHex(x))
  BY DEF ToHex, LowerHex, IsHex, Byte
<1> DEFINE h == b \div 16
           l == b % 16
<1>3. HexByte(ToHex(h), ToHex(l)) = b /\ HexByte(LowerHex(h), LowerHex(l)) = b
  BY EscapeComesBack
<1> HIDE DEF h, l
<1>4. /\ ToHex(h) \in Byte /\ IsHex(ToHex(h)) /\ LowerHex(h) \in Byte /\ IsHex(LowerHex(h))
      /\ ToHex(l) \in Byte /\ IsHex(ToHex(l)) /\ LowerHex(l) \in Byte /\ IsHex(LowerHex(l))
  BY <1>1, <1>2 DEF h, l
<1>5. CASE way = "lower"
  <2>1. Written(b, way) = << Percent, LowerHex(h), LowerHex(l) >>
    BY <1>5 DEF Written, h, l
  <2>2. QED
    BY <1>3, <1>4, <2>1
<1>6. CASE way = "plain" /\ b # Percent
  <2>1. Written(b, way) = << b >>
    BY <1>6 DEF Written
  <2>2. QED
    BY <1>6, <2>1
<1>7. CASE way # "lower" /\ ~(way = "plain" /\ b # Percent)
  <2>1. Written(b, way) = << Percent, ToHex(h), ToHex(l) >>
    BY <1>7 DEF Written, h, l
  <2>2. QED
    BY <1>3, <1>4, <2>1
<1>8. QED
  BY <1>5, <1>6, <1>7

(* w is what t has behind p and up to q.                                   *)
Between(t, p, q, w) ==
  /\ q = p + Len(w) /\ q <= Len(t)
  /\ \A i \in 1 .. Len(w) : w[i] = t[p + i]

(* D has one byte more at p than at q.                                      *)
OneMoreAt(D, p, b, q) == D[p] = << b >> \o D[q]

(* UrlDecode takes one byte off the front of what was written.             *)
LEMMA TakesByte ==
  ASSUME NEW t \in Seq(Byte), NEW D, NEW V, Unwinds(D, V, t, 0),
         NEW b \in Byte, NEW way \in Ways, NEW p \in Nat, NEW q,
         Between(t, p, q, Written(b, way)), V[q] = TRUE
  PROVE  V[p] = TRUE /\ OneMoreAt(D, p, b, q)
<1>0. /\ Len(t) \in Nat
      /\ q = p + Len(Written(b, way)) /\ q <= Len(t)
      /\ \A i \in 1 .. Len(Written(b, way)) : Written(b, way)[i] = t[p + i]
  BY DEF Between
<1>1. CASE b # Percent /\ Written(b, way) = << b >>
  <2>1. q = p + 1 /\ p < Len(t) /\ t[p + 1] = b /\ p \in 0 .. Len(t) + 2
    BY <1>0, <1>1
  <2>2. ~(p >= Len(t))
    BY <1>0, <2>1
  <2>3. D[p] = DecodedAt(D, t, p) /\ V[p] = ValidAt(V, t, p)
    BY <2>1 DEF Unwinds
  <2>4. QED
    BY <1>1, <2>1, <2>2, <2>3, Zenon DEF DecodedAt, ValidAt, OneMoreAt
<1>2. ASSUME NEW h \in Byte, NEW l \in Byte, Written(b, way) = << Percent, h, l >>,
             IsHex(h), IsHex(l), HexByte(h, l) = b
      PROVE  V[p] = TRUE /\ OneMoreAt(D, p, b, q)
  <2>1. /\ q = p + 3 /\ p + 2 < Len(t) /\ p \in 0 .. Len(t) + 2
        /\ t[p + 1] = Percent /\ t[p + 2] = h /\ t[p + 3] = l
    <3>1. Len(Written(b, way)) = 3
      BY <1>2
    <3>2. /\ Written(b, way)[1] = Percent /\ Written(b, way)[2] = h /\ Written(b, way)[3] = l
      BY <1>2
    <3> HIDE DEF Written
    <3>3. QED
      BY <1>0, <3>1, <3>2
  <2>2. ~(p >= Len(t))
    BY <1>0, <2>1
  <2>3. D[p] = DecodedAt(D, t, p) /\ V[p] = ValidAt(V, t, p)
    BY <2>1 DEF Unwinds
  <2>4. DecodedAt(D, t, p) = << b >> \o D[q]
    BY <1>2, <2>1, <2>2, Zenon DEF DecodedAt
  <2>5. ValidAt(V, t, p) = (p + 2 < Len(t) /\ IsHex(h) /\ IsHex(l) /\ V[q])
    BY <2>1, <2>2, Zenon DEF ValidAt
  <2>6. QED
    BY <1>2, <2>1, <2>3, <2>4, <2>5, Zenon DEF OneMoreAt
<1>3. QED
  BY <1>1, <1>2, WrittenIs

(* The byte before the last ones.                                          *)
LEMMA OneBefore ==
  ASSUME NEW s \in Seq(Byte), NEW j \in 1 .. Len(s)
  PROVE  << s[j] >> \o SubSeq(s, j + 1, Len(s)) = SubSeq(s, j, Len(s))
<1> DEFINE a == << s[j] >>
           b == SubSeq(s, j + 1, Len(s))
           c == SubSeq(s, j, Len(s))
<1>1. /\ a \in Seq(Byte) /\ Len(a) = 1 /\ a[1] = s[j]
      /\ b \in Seq(Byte) /\ Len(b) = Len(s) - j
      /\ c \in Seq(Byte) /\ Len(c) = Len(s) - j + 1 /\ Len(s) \in Nat
      /\ \A i \in 1 .. Len(s) - j : b[i] = s[j + i]
      /\ \A i \in 1 .. Len(s) - j + 1 : c[i] = s[j + i - 1]
  OBVIOUS
<1> HIDE DEF a, b, c
<1>2. a \o b \in Seq(Byte) /\ Len(a \o b) = Len(c)
  <2>1. a \o b \in Seq(Byte) /\ Len(a \o b) = Len(a) + Len(b)
    BY <1>1, ConcatProperties
  <2>2. QED
    BY <1>1, <2>1
<1> DEFINE e == a \o b
<1>6. \A i \in 1 .. Len(c) : e[i] = IF i <= 1 THEN a[i] ELSE b[i - 1]
  <2>1. a \in Seq(Byte) /\ b \in Seq(Byte)
    BY <1>1
  <2>2. \A i \in 1 .. Len(a) + Len(b) : e[i] = IF i <= Len(a) THEN a[i] ELSE b[i - Len(a)]
    BY <2>1
  <2>3. Len(a) + Len(b) = Len(c)
    BY <1>1
  <2> HIDE DEF e
  <2>4. QED
    BY <1>1, <2>2, <2>3
<1> HIDE DEF e
<1>3. ASSUME NEW i \in 1 .. Len(c) PROVE e[i] = c[i]
  <2>1. CASE i = 1
    <3>1. e[1] = a[1] /\ j + 1 - 1 = j
      BY <1>1, <1>6
    <3>2. QED
      BY <1>1, <2>1, <3>1
  <2>2. CASE i # 1
    <3>1. i - 1 \in 1 .. Len(s) - j /\ j + (i - 1) = j + i - 1
      BY <1>1, <2>2
    <3>2. e[i] = b[i - 1]
      BY <1>1, <1>6, <2>2, <3>1
    <3>3. QED
      BY <1>1, <3>1, <3>2
  <2>3. QED
    BY <2>1, <2>2
<1>4. a \o b = c
  BY <1>1, <1>2, <1>3, SeqEqual DEF e
<1>5. QED
  BY <1>4 DEF a, b, c

(* What PathComesBack says of one path and one way to write it.            *)
LEMMA PathReturns ==
  ASSUME NEW s \in Seq(Byte), NEW way \in [1 .. Len(s) -> Ways]
  PROVE  UrlDecode(FlattenSeq([i \in 1 .. Len(s) |-> Written(s[i], way[i])])) = s
<1> DEFINE n == Len(s)
           seqs == [i \in 1 .. n |-> Written(s[i], way[i])]
           t == FlattenSeq(seqs)
<1>0. n \in Nat
  OBVIOUS
<1>1. ASSUME NEW k \in 1 .. n
      PROVE  s[k] \in Byte /\ way[k] \in Ways /\ Written(s[k], way[k]) \in Seq(Byte)
  <2>1. s[k] \in Byte /\ way[k] \in Ways
    OBVIOUS
  <2>2. Percent \in Byte
    BY DEF Percent, Byte
  <2>3. CASE Written(s[k], way[k]) = << s[k] >>
    BY <2>1, <2>3
  <2>4. CASE \E h, l \in Byte : Written(s[k], way[k]) = << Percent, h, l >>
    BY <2>1, <2>2, <2>4
  <2>5. QED
    BY <2>1, <2>3, <2>4, WrittenIs
<1>2. Len(seqs) = n /\ \A k \in 1 .. n : seqs[k] = Written(s[k], way[k])
  BY <1>0
<1> HIDE DEF seqs
<1>3. CASE n = 0
  <2>1. s = << >> /\ seqs = << >>
    BY <1>3 DEF seqs
  <2>2. t = << >>
    BY <2>1 DEF FlattenSeq
  <2>3. Len(t) = 0
    BY <2>2
  <2> HIDE DEF t
  <2>4. PICK D, V : Unwinds(D, V, t, 0) /\ UrlDecode(t) = IF V[0] THEN D[0] ELSE Invalid
    <3>1. Len(t) \in Nat
      BY <2>3
    <3>2. QED
      BY <3>1, Unwound, Zenon
  <2>5. 0 \in 0 .. Len(t) + 2 /\ 0 >= Len(t)
    BY <2>3
  <2>6. D[0] = << >> /\ V[0] = TRUE
    BY <2>4, <2>5 DEF Unwinds, DecodedAt, ValidAt
  <2>7. QED
    BY <2>1, <2>4, <2>6 DEF t, seqs
<1>4. CASE n # 0
  <2>1. PICK off : Cuts(off, Byte, t, seqs)
    BY <1>0, <1>1, <1>2, <1>4, FlattenCuts
  <2> HIDE DEF t
  <2>2. /\ t \in Seq(Byte) /\ off[0] = 0 /\ off[n] = Len(t) /\ Len(t) \in Nat
        /\ \A k \in 0 .. n : off[k] \in Nat /\ off[k] <= Len(t)
        /\ \A k \in 1 .. n :
             /\ off[k] = off[k - 1] + Len(seqs[k])
             /\ \A i \in 1 .. Len(seqs[k]) : seqs[k][i] = t[off[k - 1] + i]
    <3> HIDE DEF n
    <3>1. t \in Seq(Byte) /\ off[0] = 0 /\ off[n] = Len(t)
      BY <1>2, <2>1, Zenon DEF Cuts
    <3>2. \A k \in 0 .. n : off[k] \in Nat /\ off[k] <= Len(t)
      BY <1>2, <2>1, Zenon DEF Cuts
    <3>3. \A k \in 1 .. n :
            /\ off[k] = off[k - 1] + Len(seqs[k])
            /\ \A i \in 1 .. Len(seqs[k]) : seqs[k][i] = t[off[k - 1] + i]
      BY <1>2, <2>1, Zenon DEF Cuts
    <3>4. Len(t) \in Nat
      BY <3>1
    <3>5. QED
      BY <3>1, <3>2, <3>3, <3>4, Zenon
  <2>3. PICK D, V : Unwinds(D, V, t, 0) /\ UrlDecode(t) = IF V[0] THEN D[0] ELSE Invalid
    BY <2>2, Unwound
  <2> DEFINE Good(j) == V[off[j]] = TRUE /\ D[off[j]] = SubSeq(s, j + 1, n)
             T == {m \in Nat : m <= n => Good(n - m)}
  <2>4. 0 \in T
    <3>1. n - 0 = n
      BY <1>0
    <3>2. SubSeq(s, n + 1, n) = << >>
      BY <1>0
    <3>3. Len(t) \in 0 .. Len(t) + 2 /\ Len(t) >= Len(t)
      BY <2>2
    <3>4. D[Len(t)] = << >> /\ V[Len(t)] = TRUE
      BY <2>3, <3>3 DEF Unwinds, DecodedAt, ValidAt
    <3>5. QED
      BY <2>2, <3>1, <3>2, <3>4
  <2>5. ASSUME NEW m \in Nat, m \in T PROVE m + 1 \in T
    <3> HIDE DEF Good
    <3> SUFFICES ASSUME m + 1 <= n PROVE Good(n - (m + 1))
      BY DEF T
    <3> DEFINE k == n - m
               p == off[k - 1]
               q == off[k]
    <3>1. k \in 1 .. n /\ k - 1 \in 0 .. n /\ n - (m + 1) = k - 1 /\ (k - 1) + 1 = k /\ m <= n
      BY <1>0
    <3>2. V[q] = TRUE /\ D[q] = SubSeq(s, k + 1, n)
      BY <2>5, <3>1 DEF Good
    <3> HIDE DEF k, n
    <3>3. p \in Nat /\ q \in Nat /\ q <= Len(t)
      BY <1>0, <2>2, <3>1
    <3> DEFINE b == s[k]
               z == way[k]
    <3>4. Between(t, p, q, Written(b, z))
      BY <1>2, <2>2, <3>1, <3>3 DEF Between
    <3>5. b \in Byte /\ z \in Ways
      BY <1>1, <3>1
    <3> HIDE DEF p, q, b, z
    <3>6. V[p] = TRUE /\ OneMoreAt(D, p, b, q)
      <4>1. t \in Seq(Byte) /\ Unwinds(D, V, t, 0) /\ V[q] = TRUE
        BY <2>2, <2>3, <3>2
      <4> HIDE DEF T
      <4>2. QED
        BY <3>3, <3>4, <3>5, <4>1, TakesByte
    <3>7. << b >> \o SubSeq(s, k + 1, n) = SubSeq(s, k, n)
      BY <3>1, OneBefore DEF n, b
    <3>8. V[p] = TRUE /\ D[p] = SubSeq(s, k, n)
      BY <3>2, <3>6, <3>7 DEF OneMoreAt
    <3>9. QED
      BY <3>1, <3>8 DEF p, Good
  <2>6. n \in T
    <3> HIDE DEF T, n
    <3>1. QED
      BY <1>0, <2>4, <2>5, Induct
  <2>7. V[0] = TRUE /\ D[0] = SubSeq(s, 1, n)
    <3>1. n - n = 0 /\ 0 + 1 = 1 /\ n <= n
      BY <1>0
    <3> HIDE DEF n
    <3>2. QED
      BY <2>2, <2>6, <3>1
  <2>8. SubSeq(s, 1, n) = s
    BY SubSeqFull
  <2>9. QED
    BY <2>3, <2>7, <2>8 DEF t, seqs
<1>5. QED
  BY <1>3, <1>4

(* UrlDecode gives a path back whichever of its bytes are escaped, with    *)
(* capitals or small letters: PathComesBack, whatever the path.            *)
THEOREM PathsComeBack == CodecSpec => []PathComesBack
<1>1. InputInv => PathComesBack
  BY PathReturns DEF InputInv, PathComesBack, Ways
<1>2. QED
  BY <1>1, InputType, PTL

------------------------------------------------------------------------------
(* Bits *)

(* The powers that Bit divides by.                                         *)
LEMMA Powers ==
  /\ 2 ^ 0 = 1 /\ 2 ^ 1 = 2 /\ 2 ^ 2 = 4 /\ 2 ^ 3 = 8
  /\ 2 ^ 4 = 16 /\ 2 ^ 5 = 32 /\ 2 ^ 6 = 64 /\ 2 ^ 7 = 128
OBVIOUS

(* The bits of the first, second, third and fourth of four sextets p are   *)
(* those of three bytes s.                                                 *)
FirstSame(p, s) ==
  /\ (p[1] \div 32) % 2 = (s[1] \div 128) % 2
  /\ (p[1] \div 16) % 2 = (s[1] \div 64) % 2
  /\ (p[1] \div 8) % 2 = (s[1] \div 32) % 2
  /\ (p[1] \div 4) % 2 = (s[1] \div 16) % 2
  /\ (p[1] \div 2) % 2 = (s[1] \div 8) % 2
  /\ (p[1] \div 1) % 2 = (s[1] \div 4) % 2
SecondSame(p, s) ==
  /\ (p[2] \div 32) % 2 = (s[1] \div 2) % 2
  /\ (p[2] \div 16) % 2 = (s[1] \div 1) % 2
  /\ (p[2] \div 8) % 2 = (s[2] \div 128) % 2
  /\ (p[2] \div 4) % 2 = (s[2] \div 64) % 2
  /\ (p[2] \div 2) % 2 = (s[2] \div 32) % 2
  /\ (p[2] \div 1) % 2 = (s[2] \div 16) % 2
ThirdSame(p, s) ==
  /\ (p[3] \div 32) % 2 = (s[2] \div 8) % 2
  /\ (p[3] \div 16) % 2 = (s[2] \div 4) % 2
  /\ (p[3] \div 8) % 2 = (s[2] \div 2) % 2
  /\ (p[3] \div 4) % 2 = (s[2] \div 1) % 2
  /\ (p[3] \div 2) % 2 = (s[3] \div 128) % 2
  /\ (p[3] \div 1) % 2 = (s[3] \div 64) % 2
FourthSame(p, s) ==
  /\ (p[4] \div 32) % 2 = (s[3] \div 32) % 2
  /\ (p[4] \div 16) % 2 = (s[3] \div 16) % 2
  /\ (p[4] \div 8) % 2 = (s[3] \div 8) % 2
  /\ (p[4] \div 4) % 2 = (s[3] \div 4) % 2
  /\ (p[4] \div 2) % 2 = (s[3] \div 2) % 2
  /\ (p[4] \div 1) % 2 = (s[3] \div 1) % 2

(* With equal digits the bits agree one by one.                            *)
LEMMA SameBits ==
  ASSUME NEW p, NEW s, FirstSame(p, s), SecondSame(p, s), ThirdSame(p, s), FourthSame(p, s)
  PROVE  \A e \in 0 .. 23 : Bit(p, 6, e) = Bit(s, 8, e)
<1>1. \A e \in 0 .. 5 : Bit(p, 6, e) = Bit(s, 8, e)
  <2>1. /\ Bit(p, 6, 0) = (p[1] \div 32) % 2 /\ Bit(p, 6, 1) = (p[1] \div 16) % 2
        /\ Bit(p, 6, 2) = (p[1] \div 8) % 2 /\ Bit(p, 6, 3) = (p[1] \div 4) % 2
        /\ Bit(p, 6, 4) = (p[1] \div 2) % 2 /\ Bit(p, 6, 5) = (p[1] \div 1) % 2
    BY Powers DEF Bit
  <2>2. /\ Bit(s, 8, 0) = (s[1] \div 128) % 2 /\ Bit(s, 8, 1) = (s[1] \div 64) % 2
        /\ Bit(s, 8, 2) = (s[1] \div 32) % 2 /\ Bit(s, 8, 3) = (s[1] \div 16) % 2
        /\ Bit(s, 8, 4) = (s[1] \div 8) % 2 /\ Bit(s, 8, 5) = (s[1] \div 4) % 2
    BY Powers DEF Bit
  <2>3. Bit(p, 6, 0) = Bit(s, 8, 0) /\ Bit(p, 6, 1) = Bit(s, 8, 1)
    BY <2>1, <2>2, Zenon DEF FirstSame
  <2>4. Bit(p, 6, 2) = Bit(s, 8, 2) /\ Bit(p, 6, 3) = Bit(s, 8, 3)
    BY <2>1, <2>2, Zenon DEF FirstSame
  <2>5. Bit(p, 6, 4) = Bit(s, 8, 4) /\ Bit(p, 6, 5) = Bit(s, 8, 5)
    BY <2>1, <2>2, Zenon DEF FirstSame
  <2>6. QED
    BY <2>3, <2>4, <2>5
<1>2. \A e \in 6 .. 11 : Bit(p, 6, e) = Bit(s, 8, e)
  <2>1. /\ Bit(p, 6, 6) = (p[2] \div 32) % 2 /\ Bit(p, 6, 7) = (p[2] \div 16) % 2
        /\ Bit(p, 6, 8) = (p[2] \div 8) % 2 /\ Bit(p, 6, 9) = (p[2] \div 4) % 2
        /\ Bit(p, 6, 10) = (p[2] \div 2) % 2 /\ Bit(p, 6, 11) = (p[2] \div 1) % 2
    BY Powers DEF Bit
  <2>2. /\ Bit(s, 8, 6) = (s[1] \div 2) % 2 /\ Bit(s, 8, 7) = (s[1] \div 1) % 2
        /\ Bit(s, 8, 8) = (s[2] \div 128) % 2 /\ Bit(s, 8, 9) = (s[2] \div 64) % 2
        /\ Bit(s, 8, 10) = (s[2] \div 32) % 2 /\ Bit(s, 8, 11) = (s[2] \div 16) % 2
    BY Powers DEF Bit
  <2>3. Bit(p, 6, 6) = Bit(s, 8, 6) /\ Bit(p, 6, 7) = Bit(s, 8, 7)
    BY <2>1, <2>2, Zenon DEF SecondSame
  <2>4. Bit(p, 6, 8) = Bit(s, 8, 8) /\ Bit(p, 6, 9) = Bit(s, 8, 9)
    BY <2>1, <2>2, Zenon DEF SecondSame
  <2>5. Bit(p, 6, 10) = Bit(s, 8, 10) /\ Bit(p, 6, 11) = Bit(s, 8, 11)
    BY <2>1, <2>2, Zenon DEF SecondSame
  <2>6. QED
    BY <2>3, <2>4, <2>5
<1>3. \A e \in 12 .. 17 : Bit(p, 6, e) = Bit(s, 8, e)
  <2>1. /\ Bit(p, 6, 12) = (p[3] \div 32) % 2 /\ Bit(p, 6, 13) = (p[3] \div 16) % 2
        /\ Bit(p, 6, 14) = (p[3] \div 8) % 2 /\ Bit(p, 6, 15) = (p[3] \div 4) % 2
        /\ Bit(p, 6, 16) = (p[3] \div 2) % 2 /\ Bit(p, 6, 17) = (p[3] \div 1) % 2
    BY Powers DEF Bit
  <2>2. /\ Bit(s, 8, 12) = (s[2] \div 8) % 2 /\ Bit(s, 8, 13) = (s[2] \div 4) % 2
        /\ Bit(s, 8, 14) = (s[2] \div 2) % 2 /\ Bit(s, 8, 15) = (s[2] \div 1) % 2
        /\ Bit(s, 8, 16) = (s[3] \div 128) % 2 /\ Bit(s, 8, 17) = (s[3] \div 64) % 2
    BY Powers DEF Bit
  <2>3. Bit(p, 6, 12) = Bit(s, 8, 12) /\ Bit(p, 6, 13) = Bit(s, 8, 13)
    BY <2>1, <2>2, Zenon DEF ThirdSame
  <2>4. Bit(p, 6, 14) = Bit(s, 8, 14) /\ Bit(p, 6, 15) = Bit(s, 8, 15)
    BY <2>1, <2>2, Zenon DEF ThirdSame
  <2>5. Bit(p, 6, 16) = Bit(s, 8, 16) /\ Bit(p, 6, 17) = Bit(s, 8, 17)
    BY <2>1, <2>2, Zenon DEF ThirdSame
  <2>6. QED
    BY <2>3, <2>4, <2>5
<1>4. \A e \in 18 .. 23 : Bit(p, 6, e) = Bit(s, 8, e)
  <2>1. /\ Bit(p, 6, 18) = (p[4] \div 32) % 2 /\ Bit(p, 6, 19) = (p[4] \div 16) % 2
        /\ Bit(p, 6, 20) = (p[4] \div 8) % 2 /\ Bit(p, 6, 21) = (p[4] \div 4) % 2
        /\ Bit(p, 6, 22) = (p[4] \div 2) % 2 /\ Bit(p, 6, 23) = (p[4] \div 1) % 2
    BY Powers DEF Bit
  <2>2. /\ Bit(s, 8, 18) = (s[3] \div 32) % 2 /\ Bit(s, 8, 19) = (s[3] \div 16) % 2
        /\ Bit(s, 8, 20) = (s[3] \div 8) % 2 /\ Bit(s, 8, 21) = (s[3] \div 4) % 2
        /\ Bit(s, 8, 22) = (s[3] \div 2) % 2 /\ Bit(s, 8, 23) = (s[3] \div 1) % 2
    BY Powers DEF Bit
  <2>3. Bit(p, 6, 18) = Bit(s, 8, 18) /\ Bit(p, 6, 19) = Bit(s, 8, 19)
    BY <2>1, <2>2, Zenon DEF FourthSame
  <2>4. Bit(p, 6, 20) = Bit(s, 8, 20) /\ Bit(p, 6, 21) = Bit(s, 8, 21)
    BY <2>1, <2>2, Zenon DEF FourthSame
  <2>5. Bit(p, 6, 22) = Bit(s, 8, 22) /\ Bit(p, 6, 23) = Bit(s, 8, 23)
    BY <2>1, <2>2, Zenon DEF FourthSame
  <2>6. QED
    BY <2>3, <2>4, <2>5
<1>5. QED
  BY <1>1, <1>2, <1>3, <1>4

(* Sextets are the bits of the bytes.                                      *)
LEMMA SplitBits ==
  ASSUME NEW a \in Byte, NEW b \in Byte, NEW c \in Byte
  PROVE  LET p == Sextets3(a, b, c)
             s == << a, b, c >>
         IN \A e \in 0 .. 23 : Bit(p, 6, e) = Bit(s, 8, e)
<1> DEFINE p == Sextets3(a, b, c)
           s == << a, b, c >>
<1>1. /\ p[1] = a \div 4 /\ p[2] = (a % 4) * 16 + (b \div 16)
      /\ p[3] = (b % 16) * 4 + (c \div 64) /\ p[4] = c % 64
      /\ s[1] = a /\ s[2] = b /\ s[3] = c
  BY DEF Sextets3
<1> HIDE DEF p, s
<1>2. FirstSame(p, s)
  <2>1. /\ ((a \div 4) \div 32) % 2 = (a \div 128) % 2
        /\ ((a \div 4) \div 16) % 2 = (a \div 64) % 2
        /\ ((a \div 4) \div 8) % 2 = (a \div 32) % 2
        /\ ((a \div 4) \div 4) % 2 = (a \div 16) % 2
        /\ ((a \div 4) \div 2) % 2 = (a \div 8) % 2
        /\ ((a \div 4) \div 1) % 2 = (a \div 4) % 2
    BY DEF Byte
  <2>2. QED
    BY <1>1, <2>1 DEF FirstSame
<1>3. SecondSame(p, s)
  <2>1. /\ (((a % 4) * 16 + (b \div 16)) \div 32) % 2 = (a \div 2) % 2
        /\ (((a % 4) * 16 + (b \div 16)) \div 16) % 2 = (a \div 1) % 2
        /\ (((a % 4) * 16 + (b \div 16)) \div 8) % 2 = (b \div 128) % 2
        /\ (((a % 4) * 16 + (b \div 16)) \div 4) % 2 = (b \div 64) % 2
        /\ (((a % 4) * 16 + (b \div 16)) \div 2) % 2 = (b \div 32) % 2
        /\ (((a % 4) * 16 + (b \div 16)) \div 1) % 2 = (b \div 16) % 2
    BY DEF Byte
  <2>2. QED
    BY <1>1, <2>1 DEF SecondSame
<1>4. ThirdSame(p, s)
  <2>1. /\ (((b % 16) * 4 + (c \div 64)) \div 32) % 2 = (b \div 8) % 2
        /\ (((b % 16) * 4 + (c \div 64)) \div 16) % 2 = (b \div 4) % 2
        /\ (((b % 16) * 4 + (c \div 64)) \div 8) % 2 = (b \div 2) % 2
        /\ (((b % 16) * 4 + (c \div 64)) \div 4) % 2 = (b \div 1) % 2
        /\ (((b % 16) * 4 + (c \div 64)) \div 2) % 2 = (c \div 128) % 2
        /\ (((b % 16) * 4 + (c \div 64)) \div 1) % 2 = (c \div 64) % 2
    BY SMTT(60) DEF Byte
  <2>2. QED
    BY <1>1, <2>1 DEF ThirdSame
<1>5. FourthSame(p, s)
  <2>1. /\ ((c % 64) \div 32) % 2 = (c \div 32) % 2
        /\ ((c % 64) \div 16) % 2 = (c \div 16) % 2
        /\ ((c % 64) \div 8) % 2 = (c \div 8) % 2
        /\ ((c % 64) \div 4) % 2 = (c \div 4) % 2
        /\ ((c % 64) \div 2) % 2 = (c \div 2) % 2
        /\ ((c % 64) \div 1) % 2 = (c \div 1) % 2
    BY DEF Byte
  <2>2. QED
    BY <1>1, <2>1 DEF FourthSame
<1>6. QED
  BY <1>2, <1>3, <1>4, <1>5, SameBits DEF p, s

(* s are the bytes that p, four sextets, are put together to.              *)
Joined(p, s) ==
  \E w, x, y, z \in 0 .. 63 :
    p = << w, x, y, z >> /\ s = << Byte1(w, x), Byte2(x, y), Byte3(y, z) >>

(* Their bits are the same.                                                *)
LEMMA JoinBits ==
  ASSUME NEW p, NEW s, Joined(p, s)
  PROVE  \A e \in 0 .. 23 : Bit(p, 6, e) = Bit(s, 8, e)
<1>0. PICK w, x, y, z \in 0 .. 63 :
        p = << w, x, y, z >> /\ s = << Byte1(w, x), Byte2(x, y), Byte3(y, z) >>
  BY DEF Joined
<1> DEFINE a == w * 4 + (x \div 16)
           b == (x % 16) * 16 + (y \div 4)
           c == (y % 4) * 64 + z
<1>1. /\ p[1] = w /\ p[2] = x /\ p[3] = y /\ p[4] = z
      /\ s[1] = a /\ s[2] = b /\ s[3] = c
  <2>1. a % 256 = a
    OBVIOUS
  <2>2. b % 256 = b
    OBVIOUS
  <2>3. c % 256 = c
    OBVIOUS
  <2>4. QED
    BY <1>0, <2>1, <2>2, <2>3 DEF Byte1, Byte2, Byte3
<1>2. PICK h \in 0 .. 3, g \in 0 .. 15 : x = 16 * h + g /\ a = 4 * w + h /\ b = 16 * g + (y \div 4)
  OBVIOUS
<1>3. PICK k \in 0 .. 15, m \in 0 .. 3 : y = 4 * k + m /\ b = 16 * g + k /\ c = 64 * m + z
  <2> HIDE DEF a, b
  <2>1. QED
    BY <1>2
<1> HIDE DEF a, b, c
<1>4. /\ p[1] = w /\ p[2] = 16 * h + g /\ p[3] = 4 * k + m /\ p[4] = z
      /\ s[1] = 4 * w + h /\ s[2] = 16 * g + k /\ s[3] = 64 * m + z
  BY <1>1, <1>2, <1>3
<1>5. FirstSame(p, s)
  <2>1. /\ (p[1] \div 32) % 2 = (s[1] \div 128) % 2
        /\ (p[1] \div 16) % 2 = (s[1] \div 64) % 2
        /\ (p[1] \div 8) % 2 = (s[1] \div 32) % 2
    <3>1. p[1] = w /\ s[1] = 4 * w + h
      BY <1>4
    <3>2. QED
      BY <3>1
  <2>2. /\ (p[1] \div 4) % 2 = (s[1] \div 16) % 2
        /\ (p[1] \div 2) % 2 = (s[1] \div 8) % 2
        /\ (p[1] \div 1) % 2 = (s[1] \div 4) % 2
    <3>1. p[1] = w /\ s[1] = 4 * w + h
      BY <1>4
    <3>2. QED
      BY <3>1
  <2>3. QED
    BY <2>1, <2>2 DEF FirstSame
<1>6. SecondSame(p, s)
  <2>1. /\ (p[2] \div 32) % 2 = (s[1] \div 2) % 2
        /\ (p[2] \div 16) % 2 = (s[1] \div 1) % 2
    <3>1. p[2] = 16 * h + g /\ s[1] = 4 * w + h
      BY <1>4
    <3>2. QED
      BY <3>1
  <2>2. /\ (p[2] \div 8) % 2 = (s[2] \div 128) % 2
        /\ (p[2] \div 4) % 2 = (s[2] \div 64) % 2
    <3>1. p[2] = 16 * h + g /\ s[2] = 16 * g + k
      BY <1>4
    <3>2. QED
      BY <3>1
  <2>3. /\ (p[2] \div 2) % 2 = (s[2] \div 32) % 2
        /\ (p[2] \div 1) % 2 = (s[2] \div 16) % 2
    <3>1. p[2] = 16 * h + g /\ s[2] = 16 * g + k
      BY <1>4
    <3>2. QED
      BY <3>1
  <2>4. QED
    BY <2>1, <2>2, <2>3 DEF SecondSame
<1>7. ThirdSame(p, s)
  <2>1. /\ (p[3] \div 32) % 2 = (s[2] \div 8) % 2
        /\ (p[3] \div 16) % 2 = (s[2] \div 4) % 2
    <3>1. p[3] = 4 * k + m /\ s[2] = 16 * g + k
      BY <1>4
    <3>2. QED
      BY <3>1
  <2>2. /\ (p[3] \div 8) % 2 = (s[2] \div 2) % 2
        /\ (p[3] \div 4) % 2 = (s[2] \div 1) % 2
    <3>1. p[3] = 4 * k + m /\ s[2] = 16 * g + k
      BY <1>4
    <3>2. QED
      BY <3>1
  <2>3. /\ (p[3] \div 2) % 2 = (s[3] \div 128) % 2
        /\ (p[3] \div 1) % 2 = (s[3] \div 64) % 2
    <3>1. p[3] = 4 * k + m /\ s[3] = 64 * m + z
      BY <1>4
    <3>2. QED
      BY <3>1
  <2>4. QED
    BY <2>1, <2>2, <2>3 DEF ThirdSame
<1>8. FourthSame(p, s)
  <2>1. /\ (p[4] \div 32) % 2 = (s[3] \div 32) % 2
        /\ (p[4] \div 16) % 2 = (s[3] \div 16) % 2
        /\ (p[4] \div 8) % 2 = (s[3] \div 8) % 2
    <3>1. p[4] = z /\ s[3] = 64 * m + z
      BY <1>4
    <3>2. QED
      BY <3>1
  <2>2. /\ (p[4] \div 4) % 2 = (s[3] \div 4) % 2
        /\ (p[4] \div 2) % 2 = (s[3] \div 2) % 2
        /\ (p[4] \div 1) % 2 = (s[3] \div 1) % 2
    <3>1. p[4] = z /\ s[3] = 64 * m + z
      BY <1>4
    <3>2. QED
      BY <3>1
  <2>3. QED
    BY <2>1, <2>2 DEF FourthSame
<1>9. QED
  BY <1>5, <1>6, <1>7, <1>8, SameBits

(* The positions that the reference reads off a text are those that        *)
(* pos_of_char computes.                                                   *)
LEMMA PositionsAre ==
  ASSUME NEW t, Len(t) \in Nat, \A i \in 1 .. Len(t) : IsBase64(t[i])
  PROVE  \A i \in 1 .. Len(t) : Positions(t)[i] = PosOfChar(t[i])
<1> TAKE i \in 1 .. Len(t)
<1> DEFINE Is(v) == \E url \in BOOLEAN : Base64Char(v, url) = t[i]
           x == PosOfChar(t[i])
<1>1. Positions(t)[i] = CHOOSE v \in 0 .. 63 : Is(v)
  BY DEF Positions
<1>2. x \in 0 .. 63 /\ Is(x)
  BY CharOf
<1>3. \A v \in 0 .. 63 : Is(v) => v = x
  BY CharComesBack
<1> HIDE DEF Is, x
<1>4. QED
  BY <1>1, <1>2, <1>3 DEF x

(* The character of a text that has bit i, which is bit e of group c, is   *)
(* that of p; the same for the bytes of a string.                          *)
SameSextet(s, p, c, e, i) ==
  /\ c \in Nat /\ e \in 0 .. 23 /\ i = 24 * c + e
  /\ s[4 * c + ((e \div 6) + 1)] = p[(e \div 6) + 1]

SameByte(s, p, c, e, i) ==
  /\ c \in Nat /\ e \in 0 .. 23 /\ i = 24 * c + e
  /\ s[3 * c + ((e \div 8) + 1)] = p[(e \div 8) + 1]

(* A bit is found within its group.                                        *)
LEMMA BitOfGroup ==
  ASSUME NEW s, NEW p, NEW c, NEW e, NEW i
  PROVE  /\ SameSextet(s, p, c, e, i) => Bit(s, 6, i) = Bit(p, 6, e)
         /\ SameByte(s, p, c, e, i) => Bit(s, 8, i) = Bit(p, 8, e)
<1>1. ASSUME SameSextet(s, p, c, e, i) PROVE Bit(s, 6, i) = Bit(p, 6, e)
  <2>1. (i \div 6) + 1 = 4 * c + ((e \div 6) + 1) /\ i % 6 = e % 6
    BY <1>1 DEF SameSextet
  <2>2. s[4 * c + ((e \div 6) + 1)] = p[(e \div 6) + 1]
    BY <1>1, Zenon DEF SameSextet
  <2>3. QED
    BY <2>1, <2>2, Zenon DEF Bit
<1>2. ASSUME SameByte(s, p, c, e, i) PROVE Bit(s, 8, i) = Bit(p, 8, e)
  <2>1. (i \div 8) + 1 = 3 * c + ((e \div 8) + 1) /\ i % 8 = e % 8
    BY <1>2 DEF SameByte
  <2>2. s[3 * c + ((e \div 8) + 1)] = p[(e \div 8) + 1]
    BY <1>2, Zenon DEF SameByte
  <2>3. QED
    BY <2>1, <2>2, Zenon DEF Bit
<1>3. QED
  BY <1>1, <1>2

(* The bits behind the end are zero.                                       *)
LEMMA BitOfNothing ==
  ASSUME NEW s, NEW e \in Nat, s[(e \div 8) + 1] = 0
  PROVE  Bit(s, 8, e) = 0
<1> DEFINE m == 2 ^ ((8 - 1) - (e % 8))
<1>1. (8 - 1) - (e % 8) \in 0 .. 7
  OBVIOUS
<1>2. m \in Nat \ {0}
  <2>1. \A i \in 0 .. 7 : 2 ^ i \in Nat \ {0}
    <3> TAKE i \in 0 .. 7
    <3>1. i = 0 \/ i = 1 \/ i = 2 \/ i = 3 \/ i = 4 \/ i = 5 \/ i = 6 \/ i = 7
      OBVIOUS
    <3>2. 2 ^ i \in {1, 2, 4, 8, 16, 32, 64, 128}
      <4>1. CASE i = 0
        BY <4>1, Powers, Zenon
      <4>2. CASE i = 1
        BY <4>2, Powers, Zenon
      <4>3. CASE i = 2
        BY <4>3, Powers, Zenon
      <4>4. CASE i = 3
        BY <4>4, Powers, Zenon
      <4>5. CASE i = 4
        BY <4>5, Powers, Zenon
      <4>6. CASE i = 5
        BY <4>6, Powers, Zenon
      <4>7. CASE i = 6
        BY <4>7, Powers, Zenon
      <4>8. CASE i = 7
        BY <4>8, Powers, Zenon
      <4>9. QED
        BY <3>1, <4>1, <4>2, <4>3, <4>4, <4>5, <4>6, <4>7, <4>8
    <3>3. QED
      BY <3>2
  <2>2. QED
    BY <1>1, <2>1
<1> HIDE DEF m
<1>3. (0 \div m) % 2 = 0
  <2>1. 0 \div m = 0
    BY <1>2
  <2>2. QED
    BY <2>1
<1>4. QED
  BY <1>3 DEF Bit, m

(* A byte of a string, and 0 behind its end.                               *)
ByteOr0(s, m) == IF m <= Len(s) THEN s[m] ELSE 0

(* The digits of the c-th chunk are the sextets of its bytes.              *)
LEMMA ChunkDigits ==
  ASSUME NEW s \in Seq(Byte), NEW url \in BOOLEAN, NEW pos \in Nat, pos < Len(s)
  PROVE  LET a == ByteOr0(s, pos + 1)
             b == ByteOr0(s, pos + 2)
             c == ByteOr0(s, pos + 3)
             digits == IF Len(s) - pos >= 3 THEN 4 ELSE (Len(s) - pos) + 1
         IN /\ a \in Byte /\ b \in Byte /\ c \in Byte
            /\ \A l \in 1 .. 4 : l <= digits =>
                 PosOfChar(EncodeChunk(s, pos, url)[l]) = Sextets3(a, b, c)[l]
<1> DEFINE a == ByteOr0(s, pos + 1)
           b == ByteOr0(s, pos + 2)
           c == ByteOr0(s, pos + 3)
           left == Len(s) - pos
           chunk == EncodeChunk(s, pos, url)
           p == Sextets3(a, b, c)
           digits == IF left >= 3 THEN 4 ELSE left + 1
<1>0. 0 \in Byte /\ left \in Nat \ {0}
  BY DEF Byte
<1>1. /\ a = s[pos + 1] /\ a \in Byte
      /\ IF left >= 2 THEN b = s[pos + 2] /\ b \in Byte ELSE b = 0
      /\ IF left >= 3 THEN c = s[pos + 3] /\ c \in Byte ELSE c = 0
  BY <1>0 DEF ByteOr0
<1> HIDE DEF a, b, c
<1>2. a \in Byte /\ b \in Byte /\ c \in Byte
  BY <1>0, <1>1
<1>3. /\ p[1] = a \div 4 /\ p[2] = (a % 4) * 16 + (b \div 16)
      /\ p[3] = (b % 16) * 4 + (c \div 64) /\ p[4] = c % 64
  BY DEF Sextets3
<1>4. /\ p[1] \in 0 .. 63 /\ p[2] \in 0 .. 63 /\ p[3] \in 0 .. 63 /\ p[4] \in 0 .. 63
  BY <1>2, <1>3, SextetsType
<1> HIDE DEF p
<1>5. \A l \in 1 .. 4 : PosOfChar(Base64Char(p[l], url)) = p[l]
  <2>1. \A l \in 1 .. 4 : l = 1 \/ l = 2 \/ l = 3 \/ l = 4
    OBVIOUS
  <2>3. \A l \in 1 .. 4 : p[l] \in 0 .. 63
    BY <1>4, <2>1, Zenon
  <2>2. QED
    BY <2>3, CharComesBack
<1>6. \A l \in 1 .. 4 : l <= digits => chunk[l] = Base64Char(p[l], url)
  <2>1. CASE left = 1
    <3>1. (a % 4) * 16 = p[2]
      <4>1. 0 \div 16 = 0 /\ b = 0
        BY <1>1, <2>1
      <4>2. QED
        BY <1>2, <1>3, <4>1 DEF Byte
    <3>2. chunk = << Base64Char(p[1], url), Base64Char(p[2], url), Pad(url), Pad(url) >>
      BY <1>1, <1>3, <2>1, <3>1, ChunkIs
    <3> HIDE DEF chunk
    <3>3. chunk[1] = Base64Char(p[1], url) /\ chunk[2] = Base64Char(p[2], url)
      BY <3>2
    <3>4. QED
      BY <2>1, <3>3
  <2>2. CASE left = 2
    <3>1. (b % 16) * 4 = p[3]
      <4>1. 0 \div 64 = 0 /\ c = 0
        BY <1>1, <2>2
      <4>2. QED
        BY <1>2, <1>3, <4>1 DEF Byte
    <3>2. chunk = << Base64Char(p[1], url), Base64Char(p[2], url), Base64Char(p[3], url), Pad(url) >>
      BY <1>1, <1>3, <2>2, <3>1, ChunkIs
    <3> HIDE DEF chunk
    <3>3. /\ chunk[1] = Base64Char(p[1], url) /\ chunk[2] = Base64Char(p[2], url)
          /\ chunk[3] = Base64Char(p[3], url)
      BY <3>2
    <3>4. QED
      BY <2>2, <3>3
  <2>3. CASE left >= 3
    <3>2. chunk = << Base64Char(p[1], url), Base64Char(p[2], url), Base64Char(p[3], url),
                     Base64Char(p[4], url) >>
      BY <1>1, <1>3, <2>3, ChunkIs
    <3> HIDE DEF chunk
    <3>3. /\ chunk[1] = Base64Char(p[1], url) /\ chunk[2] = Base64Char(p[2], url)
          /\ chunk[3] = Base64Char(p[3], url) /\ chunk[4] = Base64Char(p[4], url)
      BY <3>2
    <3>4. QED
      BY <2>3, <3>3
  <2>4. QED
    BY <1>0, <2>1, <2>2, <2>3
<1>7. QED
  BY <1>2, <1>5, <1>6 DEF a, b, c, p

(* What EncodeIsBits says of one string and one alphabet.                  *)
LEMMA EncodesBits ==
  ASSUME NEW s \in Seq(Byte), NEW url \in BOOLEAN
  PROVE  LET text == base64_encode(s, url)
             body == Unpadded(text, {IF url THEN Dot ELSE Equals})
             bits == 6 * Len(body)
         IN /\ Len(text) % 4 = 0 /\ Len(text) - Len(body) <= 2
            /\ \A i \in 1 .. Len(body) : IsBase64(body[i])
            /\ bits - 8 * Len(s) \in 0 .. 5
            /\ \A i \in 0 .. bits - 1 :
                 Bit(Positions(body), 6, i) = IF i < 8 * Len(s) THEN Bit(s, 8, i) ELSE 0
<1> DEFINE text == base64_encode(s, url)
           n == (Len(s) + 2) \div 3
           k == 3 * n - Len(s)
           u == 4 * n - k
           pad == {Pad(url)}
           body == Unpadded(text, pad)
<1>0. n \in Nat /\ Len(s) \in Nat /\ Len(s) <= 3 * n /\ 3 * n <= Len(s) + 2
  OBVIOUS
<1>1. /\ k \in 0 .. 2 /\ k <= 4 * n
      /\ Len(text) = 4 * n /\ text \in Seq(Byte)
      /\ \A i \in 1 .. 4 * n : i <= 4 * n - k => IsBase64(text[i])
      /\ Padding(text, pad) = k
  <2>1. Pad(url) \in pad /\ pad \subseteq {Equals, Dot}
    BY DEF Pad
  <2> HIDE DEF pad
  <2>2. QED
    BY <2>1, TextPadding
<1>2. {IF url THEN Dot ELSE Equals} = pad
  BY DEF Pad
<1>3. \A j \in 1 .. n, l \in 1 .. 4 :
        text[4 * (j - 1) + l] = EncodeChunk(s, 3 * (j - 1), url)[l]
  BY TextIs
<1> HIDE DEF n, pad, text
<1>4. /\ Len(body) = u /\ u \in Nat /\ u <= 4 * n
      /\ \A i \in 1 .. u : body[i] = text[i] /\ IsBase64(body[i])
  <2>1. body = SubSeq(text, 1, u)
    BY <1>1 DEF Unpadded
  <2>2. u \in 0 .. Len(text)
    BY <1>0, <1>1
  <2> HIDE DEF body
  <2>3. Len(body) = u /\ \A i \in 1 .. u : body[i] = text[i]
    <3> HIDE DEF u
    <3>1. QED
      BY <1>1, <2>1, <2>2
  <2>4. QED
    BY <1>0, <1>1, <2>2, <2>3
<1>5. 6 * u - 8 * Len(s) = 2 * k
  BY <1>0
<1> HIDE DEF body
<1>6. ASSUME NEW i \in 0 .. 6 * u - 1
      PROVE  Bit(Positions(body), 6, i) = IF i < 8 * Len(s) THEN Bit(s, 8, i) ELSE 0
  <2> DEFINE g == i \div 24
             e == i % 24
             pos == 3 * g
             a == ByteOr0(s, pos + 1)
             b == ByteOr0(s, pos + 2)
             c == ByteOr0(s, pos + 3)
             t == << a, b, c >>
             p == Sextets3(a, b, c)
             l == (e \div 6) + 1
             m == (e \div 8) + 1
  <2>1. g \in Nat /\ e \in 0 .. 23 /\ i = 24 * g + e
    BY <1>0, <1>4
  <2> HIDE DEF g, e
  <2>2. g < n /\ pos \in Nat /\ pos < Len(s)
    BY <1>0, <1>1, <2>1
  <2>3. /\ l \in 1 .. 4 /\ 6 * (l - 1) <= e /\ e < 6 * l
        /\ m \in 1 .. 3 /\ 8 * (m - 1) <= e /\ e < 8 * m
    BY <2>1
  <2> DEFINE digits == IF Len(s) - pos >= 3 THEN 4 ELSE (Len(s) - pos) + 1
  <2>4. 4 * g + l \in 1 .. u /\ l <= digits
    <3> HIDE DEF l, m
    <3>1. 4 * g + l <= u
      BY <1>0, <1>1, <2>1, <2>3
    <3>2. l <= digits
      BY <1>0, <1>1, <2>1, <2>2, <2>3, <3>1
    <3>3. QED
      BY <1>0, <2>1, <2>3, <3>1, <3>2
  <2>5. Positions(body)[4 * g + l] = PosOfChar(EncodeChunk(s, pos, url)[l])
    <3>1. g + 1 \in 1 .. n /\ (g + 1) - 1 = g
      BY <1>0, <2>1, <2>2
    <3>2. text[4 * g + l] = EncodeChunk(s, pos, url)[l]
      BY <1>3, <2>3, <3>1
    <3>3. Positions(body)[4 * g + l] = PosOfChar(body[4 * g + l])
      BY <1>4, <2>4, PositionsAre
    <3>4. QED
      BY <1>4, <2>4, <3>2, <3>3
  <2>6. /\ a \in Byte /\ b \in Byte /\ c \in Byte
        /\ PosOfChar(EncodeChunk(s, pos, url)[l]) = p[l]
    <3> HIDE DEF l, pos
    <3>1. QED
      BY <2>2, <2>3, <2>4, ChunkDigits
  <2>7. Bit(Positions(body), 6, i) = Bit(t, 8, e)
    <3>1. Positions(body)[4 * g + l] = p[l]
      BY <2>5, <2>6
    <3> HIDE DEF p, a, b, c
    <3>5. SameSextet(Positions(body), p, g, e, i)
      BY <2>1, <3>1, Zenon DEF SameSextet
    <3>2. Bit(Positions(body), 6, i) = Bit(p, 6, e)
      BY <3>5, BitOfGroup
    <3>3. Bit(p, 6, e) = Bit(t, 8, e)
      BY <2>1, <2>6, SplitBits DEF p
    <3>4. QED
      BY <2>1, <3>2, <3>3
  <2>8. t[m] = ByteOr0(s, 3 * g + m)
    <3> HIDE DEF m
    <3>1. m = 1 \/ m = 2 \/ m = 3
      BY <2>3
    <3>2. QED
      BY <3>1
  <2>9. i < 8 * Len(s) <=> 3 * g + m <= Len(s)
    <3> HIDE DEF m
    <3>1. QED
      BY <1>0, <2>1, <2>3
  <2> HIDE DEF t
  <2>10. CASE i < 8 * Len(s)
    <3>1. s[3 * g + m] = t[m]
      BY <2>8, <2>9, <2>10 DEF ByteOr0
    <3>4. SameByte(s, t, g, e, i)
      BY <2>1, <3>1, Zenon DEF SameByte
    <3>2. Bit(s, 8, i) = Bit(t, 8, e)
      BY <3>4, BitOfGroup
    <3>3. QED
      BY <2>1, <2>7, <2>10, <3>2
  <2>11. CASE ~(i < 8 * Len(s))
    <3>1. t[m] = 0
      BY <2>8, <2>9, <2>11 DEF ByteOr0
    <3>2. e \in Nat
      BY <2>1
    <3>3. Bit(t, 8, e) = 0
      BY <3>1, <3>2, BitOfNothing
    <3>4. QED
      BY <2>7, <2>11, <3>3
  <2>12. QED
    BY <2>10, <2>11
<1>7. /\ Len(text) % 4 = 0 /\ Len(text) - Len(body) <= 2
      /\ 6 * Len(body) - 8 * Len(s) \in 0 .. 5
  <2>1. u = 4 * n - k
    OBVIOUS
  <2> HIDE DEF k, u
  <2>2. Len(text) - Len(body) <= 2
    BY <1>0, <1>1, <1>4, <2>1
  <2>3. 6 * Len(body) - 8 * Len(s) \in 0 .. 5
    <3>1. 2 * k \in 0 .. 5
      BY <1>1
    <3>2. QED
      BY <1>4, <1>5, <3>1
  <2>4. (4 * n) % 4 = 0
    BY <1>0
  <2>5. QED
    BY <1>1, <2>2, <2>3, <2>4
<1> HIDE DEF k, u
<1>8. QED
  BY <1>2, <1>4, <1>6, <1>7 DEF text, body

(* encode regroups the bits of every input by six and fills them up with   *)
(* zeros and padding: EncodeIsBits, whatever the input.                    *)
THEOREM EncodesAllBits == CodecSpec => []EncodeIsBits
<1>1. InputInv => EncodeIsBits
  BY EncodesBits DEF InputInv, EncodeIsBits
<1>2. QED
  BY <1>1, InputType, PTL

------------------------------------------------------------------------------
(* Decoding bit by bit *)

(* Padding has something to choose: count from the end.                    *)
LEMMA PaddingType ==
  ASSUME NEW t, Len(t) \in Nat, NEW pad
  PROVE  LET k == Padding(t, pad)
         IN k \in 0 .. Len(t) /\ \A i \in 1 .. Len(t) : i > Len(t) - k => t[i] \in pad
<1> DEFINE All(j) == \A i \in 1 .. Len(t) : i > Len(t) - j => t[i] \in pad
           P(j) == All(j) /\ (j < Len(t) => t[Len(t) - j] \notin pad)
           Some == \E j \in 0 .. Len(t) : P(j)
           T == {j \in Nat : j <= Len(t) => All(j) \/ Some}
<1>1. 0 \in T
  BY SMT
<1>2. ASSUME NEW j \in Nat, j \in T PROVE j + 1 \in T
  <2> SUFFICES ASSUME j + 1 <= Len(t), ~Some PROVE All(j + 1)
    OBVIOUS
  <2>1. All(j) /\ j < Len(t) /\ j \in 0 .. Len(t)
    BY <1>2
  <2>2. t[Len(t) - j] \in pad
    BY <2>1
  <2>3. ASSUME NEW i \in 1 .. Len(t), i > Len(t) - (j + 1) PROVE t[i] \in pad
    <3>1. i > Len(t) - j \/ i = Len(t) - j
      BY <2>3
    <3>2. QED
      BY <2>1, <2>2, <3>1
  <2>4. QED
    BY <2>3
<1>3. Len(t) \in T
  <2> HIDE DEF T
  <2>1. QED
    BY <1>1, <1>2, Induct
<1>4. Some
  <2>1. All(Len(t)) => P(Len(t))
    OBVIOUS
  <2>2. All(Len(t)) \/ Some
    BY <1>3
  <2> HIDE DEF P, All
  <2>3. QED
    BY <2>1, <2>2
<1>5. Padding(t, pad) = CHOOSE j \in 0 .. Len(t) : P(j)
  BY Zenon DEF Padding
<1> HIDE DEF P
<1>6. Padding(t, pad) \in 0 .. Len(t) /\ P(Padding(t, pad))
  BY <1>4, <1>5
<1>7. QED
  BY <1>6 DEF P

(* The number of a digit, and 0 behind the last of u digits.               *)
PosOr0(t, u, i) == IF i <= u THEN PosOfChar(t[i]) ELSE 0

(* The first u characters of a text are digits, the others padding.        *)
Digits(t, u) ==
  /\ t \in Seq(Byte) /\ u \in 0 .. Len(t)
  /\ \A i \in 1 .. Len(t) : IF i <= u THEN IsBase64(t[i]) ELSE t[i] \in {Equals, Dot}

(* The bytes of four digits of a text.                                     *)
BytesAt(t, u, pos) ==
  << Byte1(PosOr0(t, u, pos + 1), PosOr0(t, u, pos + 2)),
     Byte2(PosOr0(t, u, pos + 2), PosOr0(t, u, pos + 3)),
     Byte3(PosOr0(t, u, pos + 3), PosOr0(t, u, pos + 4)) >>

(* The number of a digit has six bits.                                     *)
LEMMA PosType ==
  ASSUME NEW t, NEW u, Digits(t, u), NEW i \in Nat \ {0}
  PROVE  PosOr0(t, u, i) \in 0 .. 63
<1>1. CASE i <= u
  <2>1. IsBase64(t[i])
    BY <1>1 DEF Digits
  <2>2. QED
    BY <1>1, <2>1, CharOf DEF PosOr0
<1>2. CASE ~(i <= u)
  BY <1>2 DEF PosOr0
<1>3. QED
  BY <1>1, <1>2

(* What sextets are put together to is a byte.                             *)
LEMMA BytesType ==
  ASSUME NEW t, NEW u, Digits(t, u), NEW pos \in Nat
  PROVE  \A m \in 1 .. 3 : BytesAt(t, u, pos)[m] \in Byte
<1> DEFINE P(i) == PosOr0(t, u, pos + i)
<1>1. P(1) \in 0 .. 63 /\ P(2) \in 0 .. 63 /\ P(3) \in 0 .. 63 /\ P(4) \in 0 .. 63
  <2>1. pos + 1 \in Nat \ {0} /\ pos + 2 \in Nat \ {0} /\ pos + 3 \in Nat \ {0} /\ pos + 4 \in Nat \ {0}
    OBVIOUS
  <2>2. QED
    BY <2>1, PosType
<1>2. \A v, w \in 0 .. 63 : Byte1(v, w) \in Byte /\ Byte2(v, w) \in Byte /\ Byte3(v, w) \in Byte
  <2> TAKE v, w \in 0 .. 63
  <2>1. /\ v * 4 + (w \div 16) \in Nat /\ (v % 16) * 16 + (w \div 4) \in Nat
        /\ (v % 4) * 64 + w \in Nat
    OBVIOUS
  <2>2. \A x \in Nat : x % 256 \in 0 .. 255
    OBVIOUS
  <2>3. QED
    BY <2>1, <2>2, Zenon DEF Byte1, Byte2, Byte3, Byte
<1>3. BytesAt(t, u, pos) = << Byte1(P(1), P(2)), Byte2(P(2), P(3)), Byte3(P(3), P(4)) >>
  BY DEF BytesAt
<1> HIDE DEF P
<1>4. Byte1(P(1), P(2)) \in Byte /\ Byte2(P(2), P(3)) \in Byte /\ Byte3(P(3), P(4)) \in Byte
  BY <1>1, <1>2
<1>5. QED
  BY <1>3, <1>4

(* decode takes every chunk of digits, and makes of two, three or four of  *)
(* them one, two or three bytes.                                           *)
LEMMA ChunkBytes ==
  ASSUME NEW t, NEW u, Digits(t, u), NEW pos \in Nat, pos + 2 <= u
  PROVE  LET chunk == DecodeChunk(t, pos)
         IN /\ ~ChunkThrows(t, pos) /\ chunk \in Seq(Byte)
            /\ Len(chunk) = IF u - pos >= 4 THEN 3 ELSE (u - pos) - 1
            /\ \A i \in 1 .. Len(chunk) : chunk[i] = BytesAt(t, u, pos)[i]
<1> DEFINE Char(i) == IF pos + i <= Len(t) THEN t[pos + i] ELSE Dot
           c1 == Char(1)
           c2 == Char(2)
           c3 == Char(3)
           c4 == Char(4)
           text == << c1, c2, c3, c4 >>
           pad == {Equals, Dot}
           P(i) == PosOr0(t, u, pos + i)
           chunk == DecodeChunk(t, pos)
<1>0. u \in Nat /\ Len(t) \in Nat /\ u <= Len(t)
  BY DEF Digits
<1>1. ASSUME NEW i \in 1 .. 4
      PROVE  IF pos + i <= u THEN IsBase64(Char(i)) /\ PosOfChar(Char(i)) = P(i) ELSE Char(i) \in pad
  <2>1. CASE pos + i <= u
    BY <1>0, <2>1 DEF Digits, PosOr0
  <2>2. CASE ~(pos + i <= u)
    BY <1>0, <2>2 DEF Digits
  <2>3. QED
    BY <2>1, <2>2
<1>2. \A c : IsBase64(c) => c \notin pad
  BY DEF IsBase64, Equals, Dot
<1>3. /\ ChunkThrows(t, pos) <=> ChunkThrows(text, 0)
      /\ chunk = DecodeChunk(text, 0)
  <2>1. Len(text) = 4 /\ text[1] = Char(1) /\ text[2] = Char(2) /\ text[3] = Char(3) /\ text[4] = Char(4)
    OBVIOUS
  <2>2. \A i \in 1 .. 4 : i = 1 \/ i = 2 \/ i = 3 \/ i = 4
    OBVIOUS
  <2>3. \A i \in 1 .. 4 : text[i] = Char(i)
    <3> HIDE DEF Char, text
    <3>1. QED
      BY <2>1, <2>2, Zenon
  <2> HIDE DEF text
  <2>4. \A i \in 1 .. 4 : IF pos + i <= Len(t) THEN t[pos + i] = text[i] ELSE text[i] \in {Equals, Dot}
    BY <2>3
  <2>5. pos + 2 <= Len(t)
    BY <1>0
  <2>6. QED
    BY <1>0, <2>1, <2>4, <2>5, ChunkAt
<1>4. /\ IsBase64(c1) /\ PosOfChar(c1) = P(1) /\ IsBase64(c2) /\ PosOfChar(c2) = P(2)
      /\ IF pos + 3 <= u THEN IsBase64(c3) /\ PosOfChar(c3) = P(3) ELSE c3 \in pad
      /\ IF pos + 4 <= u THEN IsBase64(c4) /\ PosOfChar(c4) = P(4) ELSE c4 \in pad
  <2>1. pos + 1 <= u /\ pos + 2 <= u
    BY <1>0
  <2> HIDE DEF Char, P, pad
  <2>2. QED
    BY <1>1, <2>1
<1>5. /\ BytesAt(t, u, pos) = << Byte1(P(1), P(2)), Byte2(P(2), P(3)), Byte3(P(3), P(4)) >>
      /\ Byte1(P(1), P(2)) \in Byte /\ Byte2(P(2), P(3)) \in Byte /\ Byte3(P(3), P(4)) \in Byte
  <2>1. BytesAt(t, u, pos) = << Byte1(P(1), P(2)), Byte2(P(2), P(3)), Byte3(P(3), P(4)) >>
    BY DEF BytesAt
  <2>2. /\ BytesAt(t, u, pos)[1] \in Byte /\ BytesAt(t, u, pos)[2] \in Byte
        /\ BytesAt(t, u, pos)[3] \in Byte
    BY BytesType
  <2>3. QED
    BY <2>1, <2>2
<1> HIDE DEF c1, c2, c3, c4, P, chunk
<1>6. CASE u - pos = 2
  <2>1. ~(pos + 3 <= u) /\ ~(u - pos >= 4) /\ (u - pos) - 1 = 1
    BY <1>0, <1>6
  <2>2. ~ChunkThrows(text, 0) /\ DecodeChunk(text, 0) = << Byte1(P(1), P(2)) >>
    BY <1>4, <2>1, DecodesChunk
  <2> HIDE DEF text
  <2>3. ~ChunkThrows(t, pos) /\ chunk = << Byte1(P(1), P(2)) >>
    BY <1>3, <2>2
  <2>4. QED
    BY <1>5, <2>1, <2>3 DEF chunk
<1>7. CASE u - pos = 3
  <2>1. pos + 3 <= u /\ ~(pos + 4 <= u) /\ ~(u - pos >= 4) /\ (u - pos) - 1 = 2
    BY <1>0, <1>7
  <2>2. ~ChunkThrows(text, 0) /\ DecodeChunk(text, 0) = << Byte1(P(1), P(2)), Byte2(P(2), P(3)) >>
    BY <1>2, <1>4, <2>1, DecodesChunk
  <2> HIDE DEF text
  <2>3. ~ChunkThrows(t, pos) /\ chunk = << Byte1(P(1), P(2)), Byte2(P(2), P(3)) >>
    BY <1>3, <2>2
  <2>4. QED
    BY <1>5, <2>1, <2>3 DEF chunk
<1>8. CASE u - pos >= 4
  <2>1. pos + 3 <= u /\ pos + 4 <= u
    BY <1>0, <1>8
  <2>2. /\ ~ChunkThrows(text, 0)
        /\ DecodeChunk(text, 0) = << Byte1(P(1), P(2)), Byte2(P(2), P(3)), Byte3(P(3), P(4)) >>
    BY <1>2, <1>4, <2>1, DecodesChunk
  <2> HIDE DEF text
  <2>3. /\ ~ChunkThrows(t, pos)
        /\ chunk = << Byte1(P(1), P(2)), Byte2(P(2), P(3)), Byte3(P(3), P(4)) >>
    BY <1>3, <2>2
  <2>4. QED
    BY <1>5, <1>8, <2>3 DEF chunk
<1>9. QED
  BY <1>0, <1>6, <1>7, <1>8

(* The chunks of a text are full, except that the last one may have two or *)
(* three digits.                                                           *)
Chunked(t, u) ==
  LET n == (Len(t) + 3) \div 4
  IN n \in Nat /\ IF u % 4 = 0 THEN u = 4 * n ELSE n # 0 /\ u - 4 * (n - 1) \in {2, 3}

(* A well-formed text consists of digits and padding, in such chunks.      *)
LEMMA WellFormedIs ==
  ASSUME NEW t \in Seq(Byte), WellFormed(t)
  PROVE  LET u == Len(t) - Padding(t, {Equals, Dot})
         IN Digits(t, u) /\ Chunked(t, u)
<1> DEFINE k == Padding(t, {Equals, Dot})
           u == Len(t) - k
           n == (Len(t) + 3) \div 4
<1>1. k \in 0 .. Len(t) /\ \A i \in 1 .. Len(t) : i > Len(t) - k => t[i] \in {Equals, Dot}
  BY PaddingType
<1>2. /\ \A i \in 1 .. u : IsBase64(t[i])
      /\ u % 4 # 1
      /\ k > 0 => (u % 4) >= 2 /\ (u % 4) + k <= 4
  BY Zenon DEF WellFormed
<1>3. Len(t) \in Nat /\ n \in Nat
  OBVIOUS
<1> HIDE DEF k
<1>4. Digits(t, u)
  <2>1. u \in 0 .. Len(t)
    BY <1>1, <1>3
  <2>2. ASSUME NEW i \in 1 .. Len(t)
        PROVE  IF i <= u THEN IsBase64(t[i]) ELSE t[i] \in {Equals, Dot}
    <3>1. CASE i <= u
      <4>1. i \in 1 .. u
        BY <2>1, <3>1
      <4>2. QED
        BY <1>2, <3>1, <4>1
    <3>2. CASE ~(i <= u)
      <4>1. i > Len(t) - k
        BY <2>1, <3>2
      <4>2. QED
        BY <1>1, <3>2, <4>1
    <3>3. QED
      BY <3>1, <3>2
  <2>3. QED
    BY <2>1, <2>2 DEF Digits
<1>5. IF u % 4 = 0 THEN u = 4 * n ELSE n # 0 /\ u - 4 * (n - 1) \in {2, 3}
  <2> DEFINE r == u % 4
             l == Len(t)
  <2>1. PICK q \in Nat : u = 4 * q + r /\ r \in 0 .. 3
    <3>1. u \in Nat
      BY <1>1, <1>3
    <3> HIDE DEF u
    <3>2. u \div 4 \in Nat /\ u = 4 * (u \div 4) + r /\ r \in 0 .. 3
      BY <3>1
    <3>3. QED
      BY <3>2
  <2>2. l = u + k /\ r # 1 /\ (k > 0 => r >= 2 /\ r + k <= 4) /\ k \in Nat
    BY <1>1, <1>2, <1>3
  <2>3. n = (l + 3) \div 4 /\ l \in Nat
    BY <1>3
  <2> HIDE DEF r, l, u, n
  <2>4. CASE r = 0
    <3>1. l = 4 * q /\ u = 4 * q
      BY <2>1, <2>2, <2>4
    <3>2. n = q
      BY <2>3, <3>1
    <3>3. QED
      BY <2>4, <3>1, <3>2 DEF r
  <2>5. CASE r # 0
    <3>1. r \in {2, 3} /\ l >= 4 * q + 2 /\ l <= 4 * q + 4
      BY <2>1, <2>2, <2>5
    <3>2. n = q + 1
      BY <2>3, <3>1
    <3>3. QED
      BY <2>1, <2>5, <3>1, <3>2 DEF r
  <2>6. QED
    BY <2>4, <2>5
<1>6. QED
  BY <1>3, <1>4, <1>5 DEF k, Chunked

(* What a text of u digits decodes to, byte by byte.                       *)
LEMMA DecodesTo ==
  ASSUME NEW t, NEW u, Digits(t, u), Chunked(t, u)
  PROVE  LET bytes == base64_decode(t, FALSE)
         IN /\ bytes \in Seq(Byte) /\ Len(bytes) = (6 * u) \div 8
            /\ \A g \in Nat, m \in 1 .. 3 :
                 3 * g + m <= Len(bytes) => bytes[3 * g + m] = BytesAt(t, u, 4 * g)[m]
<1> DEFINE n == (Len(t) + 3) \div 4
           nb == (6 * u) \div 8
           D(j) == DecodeChunk(t, 4 * (j - 1))
           seqs == [j \in 1 .. n |-> D(j)]
           y == [x \in 1 .. nb |-> BytesAt(t, u, 4 * ((x - 1) \div 3))[((x - 1) % 3) + 1]]
           off == [j \in 0 .. n |-> IF 4 * j <= u THEN 3 * j ELSE nb]
<1>0. u \in Nat /\ Len(t) \in Nat /\ u <= Len(t)
  BY DEF Digits
<1>10. n \in Nat /\ IF u % 4 = 0 THEN u = 4 * n ELSE n # 0 /\ u - 4 * (n - 1) \in {2, 3}
  BY DEF Chunked
<1>11. base64_decode(t, FALSE) = IF \E j \in 1 .. n : ChunkThrows(t, 4 * (j - 1)) THEN Invalid
                                 ELSE FlattenSeq([j \in 1 .. n |-> D(j)])
  BY DEF base64_decode
<1> HIDE DEF n
<1>1. /\ nb \in Nat
      /\ n = 0 => u = 0 /\ nb = 0
      /\ n # 0 => \/ u = 4 * n /\ nb = 3 * n
                  \/ u = 4 * (n - 1) + 2 /\ nb = 3 * (n - 1) + 1
                  \/ u = 4 * (n - 1) + 3 /\ nb = 3 * (n - 1) + 2
  BY <1>0, <1>10
<1>2. ASSUME NEW j \in 1 .. n
      PROVE  /\ 4 * (j - 1) \in Nat /\ 4 * (j - 1) + 2 <= u
             /\ j = n \/ 4 * j <= u
  <2> HIDE DEF nb
  <2>1. QED
    BY <1>0, <1>1, <1>10
<1>3. ASSUME NEW j \in 1 .. n
      PROVE  /\ ~ChunkThrows(t, 4 * (j - 1)) /\ D(j) \in Seq(Byte)
             /\ Len(D(j)) = IF 4 * j <= u THEN 3 ELSE (u - 4 * (j - 1)) - 1
             /\ \A i \in 1 .. Len(D(j)) : D(j)[i] = BytesAt(t, u, 4 * (j - 1))[i]
  <2> DEFINE pos == 4 * (j - 1)
  <2>1. pos \in Nat /\ pos + 2 <= u /\ (u - pos >= 4 <=> 4 * j <= u)
    BY <1>0, <1>2
  <2> HIDE DEF pos
  <2>2. LET chunk == DecodeChunk(t, pos)
        IN /\ ~ChunkThrows(t, pos) /\ chunk \in Seq(Byte)
           /\ Len(chunk) = IF u - pos >= 4 THEN 3 ELSE (u - pos) - 1
           /\ \A i \in 1 .. Len(chunk) : chunk[i] = BytesAt(t, u, pos)[i]
    BY <2>1, ChunkBytes
  <2>3. QED
    BY <2>1, <2>2 DEF pos
<1>4. ASSUME NEW g \in Nat, NEW m \in 1 .. 3 PROVE BytesAt(t, u, 4 * g)[m] \in Byte
  <2> DEFINE pos == 4 * g
  <2>1. pos \in Nat
    OBVIOUS
  <2> HIDE DEF pos
  <2>2. BytesAt(t, u, pos)[m] \in Byte
    BY <2>1, BytesType
  <2>3. QED
    BY <2>2 DEF pos
<1> HIDE DEF nb, D
<1>5. y \in Seq(Byte) /\ Len(y) = nb
  <2>1. \A x \in 1 .. nb : (x - 1) \div 3 \in Nat /\ ((x - 1) % 3) + 1 \in 1 .. 3
    BY <1>1
  <2>2. \A x \in 1 .. nb : y[x] \in Byte
    BY <1>4, <2>1
  <2>3. QED
    BY <1>1, <2>2
<1>6. ASSUME NEW g \in Nat, NEW m \in 1 .. 3, 3 * g + m <= nb
      PROVE  y[3 * g + m] = BytesAt(t, u, 4 * g)[m]
  <2> DEFINE x == 3 * g + m
  <2>1. x \in 1 .. nb /\ (x - 1) \div 3 = g /\ ((x - 1) % 3) + 1 = m
    BY <1>1, <1>6
  <2>2. y[x] = BytesAt(t, u, 4 * ((x - 1) \div 3))[((x - 1) % 3) + 1]
    BY <2>1
  <2> HIDE DEF x, y
  <2>3. y[x] = BytesAt(t, u, 4 * g)[m]
    BY <2>1, <2>2
  <2>4. QED
    BY <2>3 DEF x
<1> HIDE DEF y
<1>7. base64_decode(t, FALSE) = FlattenSeq(seqs)
  <2>1. ~\E j \in 1 .. n : ChunkThrows(t, 4 * (j - 1))
    BY <1>3
  <2>2. QED
    BY <1>11, <2>1
<1>8. FlattenSeq(seqs) = y
  <2>1. CASE n = 0
    <3>1. seqs = << >> /\ y = << >>
      BY <1>1, <1>5, <2>1, EmptySeq
    <3>2. FlattenSeq(seqs) = << >>
      BY <3>1 DEF FlattenSeq
    <3>3. QED
      BY <3>1, <3>2
  <2>2. CASE n # 0
    <3>1. Len(seqs) = n /\ \A j \in 1 .. n : seqs[j] = D(j)
      BY <1>10
    <3>2. /\ off[0] = 0 /\ off[n] = nb
          /\ \A j \in 0 .. n : off[j] = IF 4 * j <= u THEN 3 * j ELSE nb
      BY <1>0, <1>1, <1>10, <2>2
    <3> HIDE DEF seqs, off
    <3>3. ASSUME NEW j \in 0 .. n PROVE off[j] \in Nat /\ off[j] <= nb
      BY <1>0, <1>1, <1>10, <2>2, <3>2
    <3>4. ASSUME NEW j \in 1 .. n
          PROVE  /\ off[j - 1] = 3 * (j - 1) /\ j - 1 \in Nat
                 /\ off[j] = off[j - 1] + Len(D(j)) /\ Len(D(j)) \in 1 .. 3
      <4>1. /\ off[j - 1] = IF 4 * (j - 1) <= u THEN 3 * (j - 1) ELSE nb
            /\ off[j] = IF 4 * j <= u THEN 3 * j ELSE nb
        BY <1>10, <3>2
      <4>2. off[j - 1] = 3 * (j - 1) /\ j - 1 \in Nat
        <5>1. 4 * (j - 1) <= u /\ j - 1 \in Nat
          BY <1>0, <1>2
        <5>2. QED
          BY <4>1, <5>1
      <4>3. CASE 4 * j <= u
        <5>1. Len(D(j)) = 3 /\ off[j] = 3 * j
          BY <1>3, <4>1, <4>3
        <5>2. QED
          BY <4>2, <5>1
      <4>4. CASE ~(4 * j <= u)
        <5>1. Len(D(j)) = (u - 4 * (j - 1)) - 1 /\ off[j] = nb /\ j = n
          BY <1>2, <1>3, <4>1, <4>4
        <5>2. QED
          BY <1>0, <1>1, <1>10, <2>2, <4>2, <4>4, <5>1
      <4>5. QED
        BY <4>3, <4>4
    <3>5. ASSUME NEW j \in 1 .. n
          PROVE  /\ seqs[j] \in Seq(Byte) /\ off[j] = off[j - 1] + Len(seqs[j])
                 /\ \A i \in 1 .. Len(seqs[j]) : seqs[j][i] = y[off[j - 1] + i]
      <4>1. seqs[j] = D(j) /\ Len(D(j)) \in 1 .. 3 /\ off[j] <= nb
        BY <3>1, <3>3, <3>4
      <4>2. ASSUME NEW i \in 1 .. Len(D(j))
            PROVE  D(j)[i] = y[off[j - 1] + i] /\ D(j)[i] \in Byte
        <5> DEFINE g == j - 1
        <5>1. g \in Nat /\ i \in 1 .. 3 /\ off[j - 1] = 3 * g
          <6> DEFINE len == Len(D(j))
          <6>1. len \in 1 .. 3 /\ i \in 1 .. len
            BY <4>1
          <6> HIDE DEF len
          <6>2. i \in 1 .. 3
            BY <6>1
          <6>3. QED
            BY <3>4, <6>2
        <5>2. 3 * g + i <= nb
          BY <1>1, <3>4, <4>1, <5>1
        <5>3. D(j)[i] = BytesAt(t, u, 4 * g)[i]
          BY <1>3
        <5> HIDE DEF g
        <5>4. QED
          BY <1>4, <1>6, <5>1, <5>2, <5>3
      <4>3. D(j) \in Seq(Byte)
        BY <1>3
      <4>4. QED
        BY <3>4, <4>1, <4>2, <4>3
    <3>6. Cuts(off, Byte, y, seqs)
      BY <1>1, <1>5, <1>10, <2>2, <3>1, <3>2, <3>3, <3>5 DEF Cuts
    <3>7. QED
      BY <3>6, FlattensTo
  <2>3. QED
    BY <2>1, <2>2
<1>9. QED
  BY <1>5, <1>6, <1>7, <1>8 DEF nb

(* What DecodeIsBits says of one well-formed text.                         *)
LEMMA DecodesBits ==
  ASSUME NEW t \in Seq(Byte), WellFormed(t)
  PROVE  LET body  == Unpadded(t, {Equals, Dot})
             bytes == base64_decode(t, FALSE)
         IN /\ bytes # Invalid
            /\ Len(bytes) = (6 * Len(body)) \div 8
            /\ \A i \in 0 .. 8 * Len(bytes) - 1 :
                 Bit(bytes, 8, i) = Bit(Positions(body), 6, i)
<1> DEFINE k == Padding(t, {Equals, Dot})
           u == Len(t) - k
           body == Unpadded(t, {Equals, Dot})
           bytes == base64_decode(t, FALSE)
<1>1. Digits(t, u) /\ Chunked(t, u)
  BY WellFormedIs
<1>2. u \in 0 .. Len(t) /\ Len(t) \in Nat /\ u \in Nat
  BY <1>1 DEF Digits
<1>3. /\ bytes \in Seq(Byte) /\ Len(bytes) = (6 * u) \div 8
      /\ \A g \in Nat, m \in 1 .. 3 :
           3 * g + m <= Len(bytes) => bytes[3 * g + m] = BytesAt(t, u, 4 * g)[m]
  <2> HIDE DEF u
  <2>1. QED
    BY <1>1, DecodesTo
<1>4. Len(body) = u /\ \A i \in 1 .. u : body[i] = t[i] /\ IsBase64(body[i])
  <2>1. body = SubSeq(t, 1, u)
    BY DEF Unpadded
  <2> HIDE DEF body, u
  <2>2. Len(body) = u /\ \A i \in 1 .. u : body[i] = t[i]
    BY <1>2, <2>1
  <2>3. \A i \in 1 .. u : IsBase64(t[i])
    BY <1>1, <1>2 DEF Digits
  <2>4. QED
    BY <2>2, <2>3
<1> HIDE DEF u, body, bytes
<1>5. bytes # Invalid
  BY <1>3, CodecAssumption
<1>6. ASSUME NEW i \in 0 .. 8 * Len(bytes) - 1
      PROVE  Bit(bytes, 8, i) = Bit(Positions(body), 6, i)
  <2> DEFINE g == i \div 24
             e == i % 24
             P(j) == PosOr0(t, u, 4 * g + j)
             p == << P(1), P(2), P(3), P(4) >>
             s == BytesAt(t, u, 4 * g)
             l == (e \div 6) + 1
             m == (e \div 8) + 1
  <2>1. g \in Nat /\ e \in 0 .. 23 /\ i = 24 * g + e
    <3>1. i \in Nat
      BY <1>3
    <3>2. QED
      BY <3>1
  <2> HIDE DEF g, e
  <2>2. /\ l \in 1 .. 4 /\ 6 * (l - 1) <= e /\ e < 6 * l
        /\ m \in 1 .. 3 /\ 8 * (m - 1) <= e /\ e < 8 * m
    BY <2>1
  <2>3. 3 * g + m <= Len(bytes) /\ 4 * g + l \in 1 .. u
    <3> HIDE DEF l, m
    <3>1. Len(bytes) \in Nat /\ 8 * Len(bytes) <= 6 * u
      BY <1>2, <1>3
    <3>2. QED
      BY <1>2, <2>1, <2>2, <3>1
  <2>4. Bit(bytes, 8, i) = Bit(s, 8, e)
    <3>1. bytes[3 * g + m] = s[m]
      BY <1>3, <2>1, <2>2, <2>3
    <3>2. SameByte(bytes, s, g, e, i)
      BY <2>1, <3>1, Zenon DEF SameByte
    <3>3. QED
      BY <3>2, BitOfGroup
  <2>5. Bit(Positions(body), 6, i) = Bit(p, 6, e)
    <3>1. Positions(body)[4 * g + l] = p[l]
      <4>1. Positions(body)[4 * g + l] = PosOfChar(body[4 * g + l])
        BY <1>2, <1>4, <2>3, PositionsAre
      <4>2. PosOfChar(body[4 * g + l]) = P(l)
        BY <1>4, <2>3 DEF PosOr0
      <4>3. p[l] = P(l)
        <5> HIDE DEF l, P
        <5>1. l = 1 \/ l = 2 \/ l = 3 \/ l = 4
          BY <2>2
        <5>2. QED
          BY <5>1
      <4>4. QED
        BY <4>1, <4>2, <4>3
    <3> HIDE DEF p
    <3>2. SameSextet(Positions(body), p, g, e, i)
      BY <2>1, <3>1, Zenon DEF SameSextet
    <3>3. QED
      BY <3>2, BitOfGroup
  <2>6. Bit(p, 6, e) = Bit(s, 8, e)
    <3>1. P(1) \in 0 .. 63 /\ P(2) \in 0 .. 63 /\ P(3) \in 0 .. 63 /\ P(4) \in 0 .. 63
      <4>1. /\ 4 * g + 1 \in Nat \ {0} /\ 4 * g + 2 \in Nat \ {0}
            /\ 4 * g + 3 \in Nat \ {0} /\ 4 * g + 4 \in Nat \ {0}
        BY <2>1
      <4>2. QED
        BY <1>1, <4>1, PosType
    <3>2. s = << Byte1(P(1), P(2)), Byte2(P(2), P(3)), Byte3(P(3), P(4)) >>
      BY DEF BytesAt
    <3> HIDE DEF P, s
    <3>3. Joined(p, s)
      BY <3>1, <3>2 DEF Joined
    <3> HIDE DEF p
    <3>4. QED
      BY <2>1, <3>3, JoinBits
  <2>7. QED
    BY <2>4, <2>5, <2>6
<1>7. QED
  BY <1>3, <1>4, <1>5, <1>6 DEF body, bytes

(* decode accepts every well-formed text, of either alphabet and with or   *)
(* without padding, and groups its bits by eight: DecodeIsBits, whatever   *)
(* the text.                                                               *)
THEOREM DecodesAllBits == CodecSpec => []DecodeIsBits
<1>1. InputInv => DecodeIsBits
  BY DecodesBits DEF InputInv, DecodeIsBits
<1>2. QED
  BY <1>1, InputType, PTL

==============================================================================
