---------------------------- MODULE LogFlushProofs ----------------------------
(***************************************************************************)
(* Theorems about LogFlush, for any list of sinks, any batches and files,  *)
(* and any number of processes, failures and power cuts.                   *)
(***************************************************************************)
EXTENDS LogFlush, SequenceTheorems, FiniteSetTheorems, WellFoundedInduction, TLAPS

------------------------------------------------------------------------------
(* Files *)

(* A file and its two prefixes.                                            *)
GoodFile(f) == f \in File /\ f.disk <= f.os /\ f.os <= Len(f.data)

(* What a file has of a message in its i-th place is not lost to g.        *)
Keeps(f, g) ==
  /\ Len(f.data) <= Len(g.data) /\ f.os <= g.os /\ f.disk <= g.disk
  /\ \A i \in 1 .. Len(f.data) : g.data[i] = f.data[i]

(* Replacing what has been written leaves the two prefixes.                *)
LEMMA DataReplaced ==
  ASSUME NEW f \in File, NEW d
  PROVE  [f EXCEPT !.data = d] = [data |-> d, os |-> f.os, disk |-> f.disk]
BY DEF File

(* So does moving the prefixes leave the messages.                         *)
LEMMA PrefixesReplaced ==
  ASSUME NEW f \in File, NEW k, NEW d
  PROVE  [f EXCEPT !.os = k, !.disk = d] = [data |-> f.data, os |-> k, disk |-> d]
<1> DEFINE g == [f EXCEPT !.os = k]
<1>1. g = [data |-> f.data, os |-> k, disk |-> f.disk]
  BY DEF File
<1>2. [f EXCEPT !.os = k, !.disk = d] = [g EXCEPT !.disk = d]
  OBVIOUS
<1> HIDE DEF g
<1>3. [g EXCEPT !.disk = d] = [data |-> f.data, os |-> k, disk |-> d]
  BY <1>1
<1>4. QED
  BY <1>2, <1>3

(* A write appends a part of the batch and keeps everything.               *)
LEMMA WrittenFile ==
  ASSUME NEW f, GoodFile(f), NEW b \in Seq(Msg), NEW j \in 0 .. Len(b)
  PROVE  LET g == [f EXCEPT !.data = @ \o SubSeq(b, 1, j)]
         IN /\ GoodFile(g) /\ Keeps(f, g)
            /\ j = Len(b) => \A i \in 1 .. Len(b) : g.data[Len(f.data) + i] = b[i]
            /\ Len(g.data) = Len(f.data) + j
<1> DEFINE part == SubSeq(b, 1, j)
           g == [f EXCEPT !.data = @ \o part]
<1>1. part \in Seq(Msg) /\ Len(part) = j /\ \A i \in 1 .. j : part[i] = b[i]
  OBVIOUS
<1> HIDE DEF part
<1>2. f.data \in Seq(Msg) /\ f.os \in Nat /\ f.disk \in Nat
  BY DEF GoodFile, File
<1>3. f \in File
  BY DEF GoodFile
<1>4. g = [data |-> f.data \o part, os |-> f.os, disk |-> f.disk]
  BY <1>3, DataReplaced
<1> HIDE DEF g
<1> DEFINE d == f.data \o part
<1>5. g.data = d /\ g.os = f.os /\ g.disk = f.disk
  BY <1>4
<1>7. d \in Seq(Msg) /\ Len(d) = Len(f.data) + j
  BY <1>1, <1>2, ConcatProperties
<1>8. /\ \A i \in 1 .. Len(f.data) : d[i] = f.data[i]
      /\ \A i \in 1 .. j : d[Len(f.data) + i] = part[i]
  BY <1>1, <1>2
<1> HIDE DEF d
<1>9. f.disk <= f.os /\ f.os <= Len(f.data) /\ Len(f.data) \in Nat /\ j \in Nat
  BY <1>2 DEF GoodFile
<1>10. g \in File
  BY <1>2, <1>4, <1>7 DEF File, d
<1>11. GoodFile(g) /\ Keeps(f, g)
  BY <1>2, <1>5, <1>7, <1>8, <1>9, <1>10 DEF GoodFile, Keeps
<1>6. QED
  BY <1>1, <1>5, <1>7, <1>8, <1>11 DEF g, part

(* g has the first messages of f, and all that is on disk of it.           *)
Left(f, g) ==
  /\ GoodFile(g) /\ g.disk = f.disk /\ Len(g.data) <= Len(f.data)
  /\ \A i \in 1 .. Len(g.data) : g.data[i] = f.data[i]

(* What is cut behind a place that is not before the end of what is on     *)
(* disk is a good file, wholly in the kernel.                              *)
LEMMA CutFile ==
  ASSUME NEW f, GoodFile(f), NEW k \in f.disk .. Len(f.data)
  PROVE  Left(f, Cut(f, k)) /\ Cut(f, k).os = k /\ Len(Cut(f, k).data) = k
<1>1. f.data \in Seq(Msg) /\ f.os \in Nat /\ f.disk \in Nat
      /\ f.disk <= f.os /\ f.os <= Len(f.data)
  BY DEF GoodFile, File
<1>2. k \in Nat /\ k <= Len(f.data) /\ f.disk <= k
  BY <1>1
<1>3. /\ SubSeq(f.data, 1, k) \in Seq(Msg) /\ Len(SubSeq(f.data, 1, k)) = k
      /\ \A i \in 1 .. k : SubSeq(f.data, 1, k)[i] = f.data[i]
  BY <1>1, <1>2
<1>4. QED
  BY <1>1, <1>2, <1>3 DEF GoodFile, File, Cut, Left

(* A file that is left alone has all of itself.                            *)
LEMMA LeftAlone ==
  ASSUME NEW f, GoodFile(f)
  PROVE  Left(f, f)
BY DEF Left, GoodFile, File

(* What a cut through some files leaves.                                   *)
LEMMA CutFilesLeft ==
  ASSUME \A n \in Names : GoodFile(files[n]),
         NEW safe, DOMAIN safe \subseteq Names, CutFiles(safe),
         \A n \in DOMAIN safe : safe[n] \in Nat /\ files[n].disk <= safe[n]
  PROVE  /\ files' \in [Names -> File]
         /\ \A n \in Names :
              /\ Left(files[n], files'[n])
              /\ n \in DOMAIN safe =>
                   files'[n].os = Len(files'[n].data) /\ safe[n] <= files'[n].os
              /\ n \notin DOMAIN safe => files'[n] = files[n]
<1> DEFINE D == DOMAIN safe
<1>1. PICK k :
        /\ \A n \in D : k[n] \in safe[n] .. Len(files[n].data)
        /\ files' = [n \in Names |-> IF n \in D THEN Cut(files[n], k[n]) ELSE files[n]]
  BY Zenon DEF CutFiles
<1>2. ASSUME NEW n \in Names, n \in D
      PROVE  /\ Left(files[n], files'[n]) /\ files'[n].os = Len(files'[n].data)
             /\ safe[n] <= files'[n].os
  <2>1. /\ files[n].disk \in Nat /\ Len(files[n].data) \in Nat /\ safe[n] \in Nat
        /\ files[n].disk <= safe[n]
    BY <1>2 DEF GoodFile, File
  <2>2. k[n] \in safe[n] .. Len(files[n].data)
    BY <1>1, <1>2
  <2>3. k[n] \in files[n].disk .. Len(files[n].data) /\ safe[n] <= k[n]
    BY <2>1, <2>2
  <2>4. files'[n] = Cut(files[n], k[n])
    BY <1>1, <1>2
  <2>5. QED
    BY <2>3, <2>4, CutFile
<1>3. ASSUME NEW n \in Names, n \notin D
      PROVE  files'[n] = files[n]
  BY <1>1, <1>3
<1>4. \A n \in Names : Left(files[n], files'[n])
  BY <1>2, <1>3, LeftAlone
<1>5. files' \in [Names -> File]
  <2>1. \A n \in Names : files'[n] \in File
    BY <1>4 DEF Left, GoodFile
  <2>2. files' = [n \in Names |-> files'[n]]
    BY <1>1
  <2>3. QED
    BY <2>1, <2>2
<1>6. QED
  BY <1>2, <1>3, <1>4, <1>5

(* What closing some files leaves.                                         *)
LEMMA CloseLeft ==
  ASSUME \A n \in Names : GoodFile(files[n]),
         NEW names, names \subseteq Names, Close(names)
  PROVE  /\ files' \in [Names -> File]
         /\ \A n \in Names :
              /\ Left(files[n], files'[n]) /\ files[n].os <= files'[n].os
              /\ n \in names => files'[n].os = Len(files'[n].data)
              /\ n \notin names => files'[n] = files[n]
              /\ closed'[n] # closed[n] =>
                   /\ closed'[n] = Messages(files[n])
                   /\ files'[n].os = Len(files[n].data)
         /\ closed' = [n \in Names |-> closed'[n]]
<1> DEFINE safe == [n \in names |-> IF FlushMayFail THEN files[n].os ELSE Len(files[n].data)]
<1>1. CutFiles(safe) /\ DOMAIN safe = names
  BY DEF Close
<1>2. \A n \in names :
        /\ safe[n] \in Nat /\ files[n].disk <= safe[n] /\ files[n].os <= safe[n]
        /\ files[n].os \in Nat
  BY DEF GoodFile, File
<1>3. closed' = [n \in Names |->
        IF n \in names /\ Len(files'[n].data) = Len(files[n].data)
          THEN Messages(files[n]) ELSE closed[n]]
  BY DEF Close
<1> HIDE DEF safe
<1>4. /\ files' \in [Names -> File]
      /\ \A n \in Names :
           /\ Left(files[n], files'[n])
           /\ n \in names =>
                files'[n].os = Len(files'[n].data) /\ safe[n] <= files'[n].os
           /\ n \notin names => files'[n] = files[n]
  BY <1>1, <1>2, CutFilesLeft
<1>5. \A n \in Names : files[n].os \in Nat /\ files'[n].os \in Nat
  BY <1>4 DEF GoodFile, File, Left
<1>6. \A n \in Names : files[n].os <= files'[n].os
  BY <1>2, <1>4, <1>5
<1>7. QED
  BY <1>3, <1>4, <1>6

(* Names are names, and no sink's file is that of the other.               *)
LEMMA NamesType ==
  /\ AppFile \in Names /\ RollFiles \subseteq Names /\ AppFile \notin RollFiles
  /\ Null \notin Names
BY FlushAssumption DEF FlushAssumption, Names, RollFiles, AppFile

(* RealFlush comes to a sink, or to its end.                               *)
LEMMA GoOnType ==
  ASSUME NEW i \in 1 .. Len(Flushes) + 1, NEW b \in Seq(Msg), GoOn(i, b)
  PROVE  /\ at' \in 0 .. Len(Flushes) /\ batch' \in Seq(Msg) /\ failed' = FALSE
         /\ step' \in {"open", "write"}
         /\ at' > 0 /\ step' # "open" => Flushes[at'] \in Sinks
<1>1. Len(Flushes) \in Nat
  BY FlushAssumption DEF FlushAssumption
<1>2. QED
  BY <1>1 DEF GoOn, Sinks

(* A message is in a file of its sink, in the layer that flush_log names.  *)
SafeIn(s, m, fs) ==
  \E n \in FilesOf(s) : \E i \in 1 .. Len(fs[n].data) :
    /\ fs[n].data[i] = m
    /\ flush_log = 2 => i <= fs[n].disk
    /\ flush_log = 1 => i <= fs[n].os

LEMMA DurableIsSafe ==
  /\ Durable <=> \A s \in Sinks : \A m \in kept[s] :
       flush_log = 2 \/ (flush_log = 1 /\ ~powerLost) => SafeIn(s, m, files)
  /\ flush_log' = flush_log =>
       (Durable' <=> \A s \in Sinks : \A m \in kept'[s] :
          flush_log = 2 \/ (flush_log = 1 /\ ~powerLost') => SafeIn(s, m, files'))
BY DEF Durable, SafeIn, Promised, FilesOf

(* A message that is safe stays so when no file loses anything.            *)
LEMMA StaysSafe ==
  ASSUME NEW s \in Sinks, NEW m, SafeIn(s, m, files),
         \A n \in Names : GoodFile(files[n]),
         \A n \in Names : GoodFile(files'[n]) /\ Keeps(files[n], files'[n])
  PROVE  SafeIn(s, m, files')
<1>1. PICK n \in FilesOf(s) : \E i \in 1 .. Len(files[n].data) :
             /\ files[n].data[i] = m
             /\ flush_log = 2 => i <= files[n].disk
             /\ flush_log = 1 => i <= files[n].os
  BY DEF SafeIn
<1>2. PICK i \in 1 .. Len(files[n].data) :
             /\ files[n].data[i] = m
             /\ flush_log = 2 => i <= files[n].disk
             /\ flush_log = 1 => i <= files[n].os
  BY <1>1
<1>3. n \in Names
  BY NamesType DEF FilesOf
<1>4. /\ files[n].data \in Seq(Msg) /\ files[n].os \in Nat /\ files[n].disk \in Nat
      /\ files'[n].data \in Seq(Msg) /\ files'[n].os \in Nat /\ files'[n].disk \in Nat
  BY <1>3 DEF GoodFile, File
<1>5. i \in 1 .. Len(files'[n].data) /\ files'[n].data[i] = m
  BY <1>2, <1>3, <1>4 DEF Keeps
<1>6. /\ flush_log = 2 => i <= files'[n].disk
      /\ flush_log = 1 => i <= files'[n].os
  BY <1>2, <1>3, <1>4 DEF Keeps
<1>7. QED
  BY <1>5, <1>6 DEF SafeIn

(* What has been kept stays kept.                                          *)
LEMMA DurableKept ==
  ASSUME Durable, \A n \in Names : GoodFile(files[n]),
         \A n \in Names : GoodFile(files'[n]) /\ Keeps(files[n], files'[n]),
         UNCHANGED << kept, flush_log, powerLost >>
  PROVE  Durable'
BY StaysSafe, DurableIsSafe

(* What is safe survives a cut, if flush_log goes with the layer of which  *)
(* the file is sure.                                                       *)
LEMMA SurvivesCut ==
  ASSUME NEW s \in Sinks, NEW m, SafeIn(s, m, files),
         \A n \in Names : GoodFile(files[n]) /\ Left(files[n], files'[n]),
         flush_log = 2 \/ (flush_log = 1 /\ \A n \in Names : files[n].os <= files'[n].os)
  PROVE  SafeIn(s, m, files')
<1>1. PICK n \in FilesOf(s) : \E i \in 1 .. Len(files[n].data) :
             /\ files[n].data[i] = m
             /\ flush_log = 2 => i <= files[n].disk
             /\ flush_log = 1 => i <= files[n].os
  BY DEF SafeIn
<1>2. PICK i \in 1 .. Len(files[n].data) :
             /\ files[n].data[i] = m
             /\ flush_log = 2 => i <= files[n].disk
             /\ flush_log = 1 => i <= files[n].os
  BY <1>1
<1>3. n \in Names
  BY NamesType DEF FilesOf
<1>4. /\ files[n].data \in Seq(Msg) /\ files[n].os \in Nat /\ files[n].disk \in Nat
      /\ files'[n].data \in Seq(Msg) /\ files'[n].os \in Nat
      /\ files'[n].disk = files[n].disk
      /\ files'[n].disk <= files'[n].os /\ files'[n].os <= Len(files'[n].data)
      /\ \A j \in 1 .. Len(files'[n].data) : files'[n].data[j] = files[n].data[j]
  BY <1>3 DEF GoodFile, File, Left
<1>5. /\ i \in Nat /\ i >= 1
      /\ flush_log = 2 => i <= files'[n].disk
      /\ flush_log = 1 => i <= files'[n].os
  BY <1>2, <1>3, <1>4
<1>6. i \in 1 .. Len(files'[n].data)
  BY <1>4, <1>5
<1>7. QED
  BY <1>2, <1>4, <1>5, <1>6 DEF SafeIn

(* So a message that is kept stays kept when files are cut.                *)
LEMMA DurableCut ==
  ASSUME Durable, UNCHANGED << kept, flush_log >>, powerLost \in BOOLEAN,
         \A n \in Names : GoodFile(files[n]) /\ Left(files[n], files'[n]),
         powerLost' = TRUE
           \/ (powerLost' = powerLost /\ \A n \in Names : files[n].os <= files'[n].os)
  PROVE  Durable'
<1> SUFFICES ASSUME NEW s \in Sinks, NEW m \in kept[s],
                    flush_log = 2 \/ (flush_log = 1 /\ ~powerLost')
             PROVE  SafeIn(s, m, files')
  BY DurableIsSafe
<1>1. SafeIn(s, m, files)
  BY DurableIsSafe
<1>2. QED
  BY <1>1, SurvivesCut

(* What the kernel has of f is not lost to g.                              *)
Sure(f, g) == f.os <= g.os /\ \A i \in 1 .. f.os : g.data[i] = f.data[i]

(* What was in a file when it was closed stays there, if the kernel loses  *)
(* nothing.                                                                *)
LEMMA SurvivesClosed ==
  ASSUME ClosedSurvives, ~powerLost' => ~powerLost,
         \A n \in Names : GoodFile(files[n]) /\ GoodFile(files'[n]),
         ~powerLost' => \A n \in Names :
           /\ Sure(files[n], files'[n])
           /\ closed'[n] # closed[n] =>
                /\ closed'[n] = Messages(files[n])
                /\ files'[n].os = Len(files[n].data)
                /\ \A i \in 1 .. Len(files[n].data) : files'[n].data[i] = files[n].data[i]
  PROVE  ClosedSurvives'
<1> SUFFICES ASSUME ~powerLost', NEW n \in Names, NEW m \in closed'[n]
             PROVE  \E i \in 1 .. files'[n].os : files'[n].data[i] = m
  BY DEF ClosedSurvives
<1>1. CASE m \in closed[n]
  <2>1. PICK i \in 1 .. files[n].os : files[n].data[i] = m
    BY <1>1 DEF ClosedSurvives
  <2>2. files[n].os \in Nat /\ files'[n].os \in Nat
    BY DEF GoodFile, File
  <2>3. QED
    BY <2>1, <2>2 DEF Sure
<1>2. CASE m \notin closed[n]
  BY <1>2 DEF Messages
<1>3. QED
  BY <1>1, <1>2

(* A file that keeps everything keeps what the kernel has.                 *)
LEMMA KeepsSure ==
  ASSUME NEW f, NEW g, GoodFile(f), Keeps(f, g)
  PROVE  Sure(f, g)
BY DEF GoodFile, File, Keeps, Sure

(* So does one that is cut, but not before that.                           *)
LEMMA LeftSure ==
  ASSUME NEW f, NEW g, GoodFile(f), Left(f, g), f.os <= g.os
  PROVE  Sure(f, g)
BY DEF GoodFile, File, Left, Sure

------------------------------------------------------------------------------
(* Lengths, by induction: over the naturals first, which the library has   *)
(* as a well-founded relation, then over the positions of a sequence.      *)

(* A set of naturals that has 0 and with each number the next has all.     *)
LEMMA Induct ==
  ASSUME NEW S, 0 \in S, \A n \in Nat : n \in S => n + 1 \in S
  PROVE  Nat \subseteq S
<1> DEFINE R == {ss \in Nat \X Nat : ss[1] < ss[2]}
           T == Nat \ S
<1>1. IsWellFoundedOn(R, Nat)
  BY NatLessThanWellFounded DEF OpToRel
<1>2. SUFFICES ASSUME T # {} PROVE FALSE
  OBVIOUS
<1>3. T \subseteq Nat
  OBVIOUS
<1> HIDE DEF T, R
<1>4. PICK x \in T : \A y \in T : << y, x >> \notin R
  BY <1>1, <1>2, <1>3, WFMin
<1>5. x \in Nat /\ x \notin S
  BY DEF T
<1>6. x - 1 \in Nat /\ x - 1 < x /\ (x - 1) + 1 = x
  BY <1>5
<1>7. x - 1 \in T
  BY <1>5, <1>6 DEF T
<1>8. << x - 1, x >> \in R
  BY <1>5, <1>6 DEF R
<1>9. QED
  BY <1>4, <1>7, <1>8

(* g has the lengths of the messages in any set of positions of f.         *)
Sums(f, g) ==
  \A s \in SUBSET (DOMAIN f) :
    /\ g[s] \in Nat
    /\ g[s] = IF s = {} THEN 0
              ELSE LET x == CHOOSE x \in s : TRUE IN Bytes[f[x]] + g[s \ {x}]

(* It has them for the sets of n positions and fewer.                      *)
SumsOf(f, g, n) ==
  \A s \in SUBSET (DOMAIN f) : Cardinality(s) <= n =>
    /\ g[s] \in Nat
    /\ g[s] = IF s = {} THEN 0
              ELSE LET x == CHOOSE x \in s : TRUE IN Bytes[f[x]] + g[s \ {x}]

(* The function of which Length takes the last value exists.               *)
LEMMA SumsExist ==
  ASSUME NEW f \in Seq(Msg)
  PROVE  \E g : g = [s \in SUBSET (DOMAIN f) |->
                       IF s = {} THEN 0
                       ELSE LET x == CHOOSE x \in s : TRUE IN Bytes[f[x]] + g[s \ {x}]]
<1> DEFINE D == DOMAIN f
           Next_(g) == [s \in SUBSET D |->
                         IF s = {} THEN 0
                         ELSE LET x == CHOOSE x \in s : TRUE IN Bytes[f[x]] + g[s \ {x}]]
           S == {n \in Nat : \E g : SumsOf(f, g, n)}
<1>1. D = 1 .. Len(f) /\ Len(f) \in Nat /\ \A i \in D : f[i] \in Msg /\ Bytes[f[i]] \in Nat
  BY MessageAssumption DEF MessageAssumption
<1>2. IsFiniteSet(D) /\ Cardinality(D) = Len(f)
  BY <1>1, FS_Interval
<1>3. \A s \in SUBSET D : IsFiniteSet(s) /\ Cardinality(s) \in Nat /\ Cardinality(s) <= Len(f)
  BY <1>2, FS_Subset, FS_CardinalityType
<1>4. \A s \in SUBSET D : s # {} =>
        LET x == CHOOSE x \in s : TRUE
        IN x \in s /\ s \ {x} \in SUBSET D /\ Cardinality(s \ {x}) = Cardinality(s) - 1
  BY <1>3, FS_RemoveElement
<1>5. \A s \in SUBSET D : Cardinality(s) = 0 <=> s = {}
  BY <1>3, FS_EmptySet
<1> HIDE DEF D
<1>6. 0 \in S
  <2>1. SumsOf(f, [s \in SUBSET D |-> 0], 0)
    BY <1>3, <1>5 DEF SumsOf, D
  <2>2. QED
    BY <2>1
<1>7. ASSUME NEW n \in Nat, n \in S PROVE n + 1 \in S
  <2>1. PICK g : SumsOf(f, g, n)
    BY <1>7
  <2> DEFINE h == Next_(g)
  <2>2. ASSUME NEW s \in SUBSET D, Cardinality(s) <= n PROVE h[s] = g[s] /\ g[s] \in Nat
    BY <2>1, <2>2 DEF SumsOf, D
  <2>3. ASSUME NEW s \in SUBSET D, Cardinality(s) <= n + 1
        PROVE  /\ h[s] \in Nat
               /\ h[s] = IF s = {} THEN 0
                         ELSE LET x == CHOOSE x \in s : TRUE IN Bytes[f[x]] + h[s \ {x}]
    <3>1. CASE s = {}
      BY <3>1
    <3>2. CASE s # {}
      <4> DEFINE x == CHOOSE x \in s : TRUE
      <4>1. x \in D /\ s \ {x} \in SUBSET D /\ Cardinality(s \ {x}) <= n
        BY <1>3, <1>4, <2>3, <3>2
      <4>2. h[s] = Bytes[f[x]] + g[s \ {x}]
        BY <3>2
      <4>3. h[s \ {x}] = g[s \ {x}] /\ g[s \ {x}] \in Nat
        BY <2>2, <4>1
      <4> HIDE DEF h
      <4>4. QED
        BY <1>1, <3>2, <4>1, <4>2, <4>3
    <3>3. QED
      BY <3>1, <3>2
  <2> HIDE DEF h
  <2>4. SumsOf(f, h, n + 1)
    BY <2>3 DEF SumsOf, D
  <2>5. QED
    BY <2>4
<1>8. Len(f) \in S
  <2> HIDE DEF S
  <2>1. QED
    BY <1>1, <1>6, <1>7, Induct
<1>9. PICK g : SumsOf(f, g, Len(f))
  BY <1>8
<1> DEFINE h == [s \in SUBSET D |-> g[s]]
<1>10. ASSUME NEW s \in SUBSET D
       PROVE  h[s] = IF s = {} THEN 0
                     ELSE LET x == CHOOSE x \in s : TRUE IN Bytes[f[x]] + h[s \ {x}]
  <2>1. g[s] = IF s = {} THEN 0
               ELSE LET x == CHOOSE x \in s : TRUE IN Bytes[f[x]] + g[s \ {x}]
    BY <1>3, <1>9 DEF SumsOf, D
  <2>2. s # {} => s \ {CHOOSE x \in s : TRUE} \in SUBSET D
    BY <1>4
  <2>3. QED
    BY <2>1, <2>2
<1>11. h = Next_(h)
  BY <1>10
<1>12. QED
  BY <1>11 DEF D

(* A set of positions of a sequence is finite, and without one of them     *)
(* smaller by one.                                                         *)
LEMMA Positions ==
  ASSUME NEW f \in Seq(Msg)
  PROVE  /\ \A s \in SUBSET (DOMAIN f) :
              /\ Cardinality(s) \in Nat /\ Cardinality(s) <= Len(f)
              /\ Cardinality(s) = 0 <=> s = {}
              /\ \A x \in s : Cardinality(s \ {x}) = Cardinality(s) - 1
         /\ \A x \in DOMAIN f : f[x] \in Msg /\ Bytes[f[x]] \in Nat
         /\ Len(f) \in Nat
<1> DEFINE D == DOMAIN f
<1>1. D = 1 .. Len(f) /\ Len(f) \in Nat /\ \A i \in D : f[i] \in Msg /\ Bytes[f[i]] \in Nat
  BY MessageAssumption DEF MessageAssumption
<1>2. IsFiniteSet(D) /\ Cardinality(D) = Len(f)
  BY <1>1, FS_Interval
<1>3. \A s \in SUBSET D : IsFiniteSet(s) /\ Cardinality(s) \in Nat /\ Cardinality(s) <= Len(f)
  BY <1>2, FS_Subset, FS_CardinalityType
<1>4. \A s \in SUBSET D : \A x \in s : Cardinality(s \ {x}) = Cardinality(s) - 1
  BY <1>3, FS_RemoveElement
<1>5. \A s \in SUBSET D : Cardinality(s) = 0 <=> s = {}
  BY <1>3, FS_EmptySet
<1>6. QED
  BY <1>1, <1>3, <1>4, <1>5

(* Length is the last of the sums.                                         *)
LEMMA LengthIsSum ==
  ASSUME NEW f \in Seq(Msg)
  PROVE  \E g : Length(f) = g[DOMAIN f] /\ Sums(f, g)
<1> DEFINE D == DOMAIN f
           Sum(g) == [s \in SUBSET D |->
                        IF s = {} THEN 0
                        ELSE LET x == CHOOSE x \in s : TRUE IN Bytes[f[x]] + g[s \ {x}]]
           g == CHOOSE g : g = Sum(g)
           S == {n \in Nat : \A s \in SUBSET D : Cardinality(s) <= n => g[s] \in Nat}
<1>1. g = Sum(g)
  BY SumsExist, Zenon
<1>2. Length(f) = g[DOMAIN f]
  BY Zenon DEF Length, FoldFunction, FoldFunctionOnSet, MapThenFoldSet
<1>a. /\ \A s \in SUBSET D :
           /\ Cardinality(s) \in Nat /\ Cardinality(s) <= Len(f)
           /\ Cardinality(s) = 0 <=> s = {}
           /\ \A x \in s : Cardinality(s \ {x}) = Cardinality(s) - 1
      /\ \A x \in D : f[x] \in Msg /\ Bytes[f[x]] \in Nat
      /\ Len(f) \in Nat
  BY Positions
<1> HIDE DEF g, D
<1>3. \A s \in SUBSET D :
        g[s] = IF s = {} THEN 0
               ELSE LET x == CHOOSE x \in s : TRUE IN Bytes[f[x]] + g[s \ {x}]
  BY <1>1
<1>4. 0 \in S
  <2>1. ASSUME NEW s \in SUBSET D, Cardinality(s) <= 0 PROVE g[s] \in Nat
    <3>1. s = {}
      BY <1>a, <2>1
    <3>2. g[s] = 0
      BY <1>3, <3>1, Zenon
    <3>3. QED
      BY <3>2
  <2>2. QED
    BY <2>1
<1>5. ASSUME NEW n \in Nat, n \in S PROVE n + 1 \in S
  <2>1. ASSUME NEW s \in SUBSET D, Cardinality(s) <= n + 1, s # {}
        PROVE  g[s] \in Nat
    <3> DEFINE x == CHOOSE x \in s : TRUE
    <3>1. x \in s
      BY <2>1
    <3>2. g[s] = Bytes[f[x]] + g[s \ {x}]
      BY <1>3, <2>1
    <3> HIDE DEF x
    <3>3. s \ {x} \in SUBSET D /\ Cardinality(s \ {x}) <= n /\ Bytes[f[x]] \in Nat
      BY <1>a, <2>1, <3>1
    <3>4. QED
      BY <1>5, <3>2, <3>3
  <2>2. \A s \in SUBSET D : s = {} => g[s] = 0
    BY <1>3, Zenon
  <2>3. QED
    BY <2>1, <2>2
<1>6. Len(f) \in S
  <2> HIDE DEF S
  <2>1. QED
    BY <1>a, <1>4, <1>5, Induct
<1>7. \A s \in SUBSET D : g[s] \in Nat
  BY <1>a, <1>6
<1>8. QED
  BY <1>2, <1>3, <1>7 DEF Sums, D

(* The sum does not depend on the position that is taken first.            *)
LEMMA AnyFirst ==
  ASSUME NEW f \in Seq(Msg), NEW g, Sums(f, g)
  PROVE  \A s \in SUBSET (DOMAIN f) : \A y \in s : g[s] = Bytes[f[y]] + g[s \ {y}]
<1> DEFINE D == DOMAIN f
           S == {n \in Nat : \A s \in SUBSET D : Cardinality(s) <= n =>
                              \A y \in s : g[s] = Bytes[f[y]] + g[s \ {y}]}
<1>a. /\ \A s \in SUBSET D :
           /\ Cardinality(s) \in Nat /\ Cardinality(s) <= Len(f)
           /\ Cardinality(s) = 0 <=> s = {}
           /\ \A x \in s : Cardinality(s \ {x}) = Cardinality(s) - 1
      /\ \A x \in D : f[x] \in Msg /\ Bytes[f[x]] \in Nat
      /\ Len(f) \in Nat
  BY Positions
<1>b. \A s \in SUBSET D :
        /\ g[s] \in Nat
        /\ g[s] = IF s = {} THEN 0
                  ELSE LET x == CHOOSE x \in s : TRUE IN Bytes[f[x]] + g[s \ {x}]
  BY DEF Sums
<1> HIDE DEF D
<1>1. 0 \in S
  <2>1. ASSUME NEW s \in SUBSET D, Cardinality(s) <= 0, NEW y \in s
        PROVE  g[s] = Bytes[f[y]] + g[s \ {y}]
    BY <1>a, <2>1
  <2>2. \A s \in SUBSET D : Cardinality(s) <= 0 =>
          \A y \in s : g[s] = Bytes[f[y]] + g[s \ {y}]
    BY <2>1, Zenon
  <2>3. 0 \in Nat
    OBVIOUS
  <2>4. QED
    BY <2>2, <2>3, Zenon
<1>2. ASSUME NEW n \in Nat, n \in S PROVE n + 1 \in S
  <2>1. ASSUME NEW s \in SUBSET D, Cardinality(s) <= n + 1, NEW y \in s
        PROVE  g[s] = Bytes[f[y]] + g[s \ {y}]
    <3> DEFINE x == CHOOSE x \in s : TRUE
    <3>1. x \in s /\ g[s] = Bytes[f[x]] + g[s \ {x}]
      BY <1>b
    <3> HIDE DEF x
    <3>2. CASE x = y
      BY <3>1, <3>2
    <3>3. CASE x # y
      <4> DEFINE sx == s \ {x}
                 sy == s \ {y}
                 sxy == s \ {x, y}
      <4>1. /\ sx \in SUBSET D /\ sy \in SUBSET D /\ sxy \in SUBSET D
            /\ Cardinality(sx) <= n /\ Cardinality(sy) <= n
        BY <1>a, <2>1, <3>1
      <4>2. y \in sx /\ x \in sy /\ sx \ {y} = sxy /\ sy \ {x} = sxy
        BY <3>1, <3>3
      <4>3. g[s] = Bytes[f[x]] + g[sx]
        BY <3>1
      <4> HIDE DEF sx, sy, sxy
      <4>4. g[sx] = Bytes[f[y]] + g[sxy] /\ g[sy] = Bytes[f[x]] + g[sxy]
        BY <1>2, <4>1, <4>2
      <4>5. g[sxy] \in Nat /\ Bytes[f[x]] \in Nat /\ Bytes[f[y]] \in Nat
        BY <1>a, <1>b, <3>1, <4>1
      <4>6. g[s] = Bytes[f[y]] + g[sy]
        BY <4>3, <4>4, <4>5
      <4>7. QED
        BY <4>6 DEF sy
    <3>4. QED
      BY <3>2, <3>3
  <2>2. \A s \in SUBSET D : Cardinality(s) <= n + 1 =>
          \A y \in s : g[s] = Bytes[f[y]] + g[s \ {y}]
    BY <2>1, Zenon
  <2>3. n + 1 \in Nat
    OBVIOUS
  <2>4. QED
    BY <2>2, <2>3, Zenon
<1>3. Nat \subseteq S
  <2> HIDE DEF S
  <2>1. QED
    BY <1>1, <1>2, Induct
<1>4. ASSUME NEW s \in SUBSET D, NEW y \in s PROVE g[s] = Bytes[f[y]] + g[s \ {y}]
  <2> DEFINE n == Cardinality(s)
  <2>1. n \in Nat /\ n <= n
    BY <1>a
  <2>2. n \in S
    BY <1>3, <2>1
  <2>3. \A u \in SUBSET D : Cardinality(u) <= n =>
          \A z \in u : g[u] = Bytes[f[z]] + g[u \ {z}]
    <3> HIDE DEF n
    <3>1. QED
      BY <2>2
  <2>4. QED
    BY <2>1, <2>3
<1>5. QED
  BY <1>4 DEF D

(* It depends on the messages in these positions only.                     *)
LEMMA SameSums ==
  ASSUME NEW f \in Seq(Msg), NEW g, Sums(f, g), NEW e \in Seq(Msg), NEW h, Sums(e, h)
  PROVE  \A s \in SUBSET (DOMAIN f \cap DOMAIN e) :
           (\A i \in s : f[i] = e[i]) => g[s] = h[s]
<1> DEFINE D == DOMAIN f \cap DOMAIN e
           S == {n \in Nat : \A s \in SUBSET D :
                   Cardinality(s) <= n /\ (\A i \in s : f[i] = e[i]) => g[s] = h[s]}
<1>a. /\ \A s \in SUBSET D :
           /\ Cardinality(s) \in Nat /\ Cardinality(s) <= Len(f)
           /\ Cardinality(s) = 0 <=> s = {}
           /\ \A x \in s : Cardinality(s \ {x}) = Cardinality(s) - 1
      /\ Len(f) \in Nat
  BY Positions
<1>b. \A s \in SUBSET D :
        /\ g[s] = IF s = {} THEN 0
                  ELSE LET x == CHOOSE x \in s : TRUE IN Bytes[f[x]] + g[s \ {x}]
        /\ h[s] = IF s = {} THEN 0
                  ELSE LET x == CHOOSE x \in s : TRUE IN Bytes[e[x]] + h[s \ {x}]
  <2>1. \A s \in SUBSET D : s \in SUBSET (DOMAIN f) /\ s \in SUBSET (DOMAIN e)
    OBVIOUS
  <2>2. QED
    BY <2>1 DEF Sums
<1> HIDE DEF D
<1>1. 0 \in S
  <2>1. ASSUME NEW s \in SUBSET D, Cardinality(s) <= 0 PROVE s = {}
    BY <1>a, <2>1
  <2>2. \A s \in SUBSET D : s = {} => g[s] = h[s]
    BY <1>b
  <2>3. QED
    BY <2>1, <2>2
<1>2. ASSUME NEW n \in Nat, n \in S PROVE n + 1 \in S
  <2>1. ASSUME NEW s \in SUBSET D, Cardinality(s) <= n + 1,
               \A i \in s : f[i] = e[i], s # {}
        PROVE  g[s] = h[s]
    <3> DEFINE x == CHOOSE x \in s : TRUE
    <3>1. /\ x \in s
          /\ g[s] = Bytes[f[x]] + g[s \ {x}] /\ h[s] = Bytes[e[x]] + h[s \ {x}]
      BY <1>b, <2>1
    <3> HIDE DEF x
    <3>2. s \ {x} \in SUBSET D /\ Cardinality(s \ {x}) <= n
      BY <1>a, <2>1, <3>1
    <3>3. QED
      BY <1>2, <2>1, <3>1, <3>2
  <2>2. \A s \in SUBSET D : s = {} => g[s] = h[s]
    BY <1>b
  <2>3. QED
    BY <2>1, <2>2
<1>3. Nat \subseteq S
  <2> HIDE DEF S
  <2>1. QED
    BY <1>1, <1>2, Induct
<1>4. ASSUME NEW s \in SUBSET D, \A i \in s : f[i] = e[i] PROVE g[s] = h[s]
  <2>1. Cardinality(s) \in S
    BY <1>a, <1>3
  <2>2. QED
    BY <1>4, <1>a, <2>1
<1>5. QED
  BY <1>4 DEF D

(* Length counts a message that is appended.                               *)
LEMMA LengthAppend ==
  /\ Length(<< >>) = 0
  /\ \A s \in Seq(Msg) : Length(s) \in Nat
  /\ \A s \in Seq(Msg), m \in Msg : Length(Append(s, m)) = Length(s) + Bytes[m]
<1>1. Length(<< >>) = 0
  <2>1. << >> \in Seq(Msg) /\ DOMAIN << >> = {}
    OBVIOUS
  <2>2. PICK g : Length(<< >>) = g[{}] /\ Sums(<< >>, g)
    BY <2>1, LengthIsSum
  <2>3. QED
    BY <2>1, <2>2 DEF Sums
<1>2. ASSUME NEW s \in Seq(Msg) PROVE Length(s) \in Nat
  BY LengthIsSum DEF Sums
<1>3. ASSUME NEW s \in Seq(Msg), NEW m \in Msg
      PROVE  Length(Append(s, m)) = Length(s) + Bytes[m]
  <2> DEFINE t == Append(s, m)
             D == 1 .. Len(s)
             E == 1 .. (Len(s) + 1)
             last == Len(s) + 1
  <2>1. /\ t \in Seq(Msg) /\ DOMAIN s = D /\ DOMAIN t = 1 .. (Len(s) + 1)
        /\ \A i \in D : t[i] = s[i]
        /\ t[Len(s) + 1] = m /\ Len(s) \in Nat
    BY AppendProperties
  <2> HIDE DEF t
  <2>2. PICK g : Length(s) = g[DOMAIN s] /\ Sums(s, g)
    BY LengthIsSum
  <2>3. PICK h : Length(t) = h[DOMAIN t] /\ Sums(t, h)
    BY <2>1, LengthIsSum
  <2>4. last \in E /\ E \ {last} = D /\ t[last] = m /\ E \in SUBSET (DOMAIN t)
    BY <2>1
  <2>5. D \in SUBSET (DOMAIN s \cap DOMAIN t)
    BY <2>1
  <2>6. h[E] = Bytes[t[last]] + h[E \ {last}]
    <3> HIDE DEF E, last
    <3>1. QED
      BY <2>1, <2>3, <2>4, AnyFirst
  <2>7. g[D] = h[D]
    BY <2>1, <2>2, <2>3, <2>5, SameSums
  <2>8. g[D] \in Nat /\ Bytes[m] \in Nat
    BY <2>2, <2>5, MessageAssumption DEF Sums, MessageAssumption
  <2>9. h[E] = Bytes[m] + h[D]
    BY <2>4, <2>6
  <2>10. Length(s) = g[D] /\ Length(t) = h[E]
    BY <2>1, <2>2, <2>3
  <2> HIDE DEF D, E
  <2>11. QED
    BY <2>7, <2>8, <2>9, <2>10 DEF t
<1>4. QED
  BY <1>1, <1>2, <1>3

(* Length adds up.                                                         *)
LEMMA LengthConcat ==
  ASSUME NEW s \in Seq(Msg), NEW t \in Seq(Msg)
  PROVE  Length(s \o t) = Length(s) + Length(t)
<1> DEFINE S == {n \in Nat : \A u \in Seq(Msg) :
                    Len(u) = n => Length(s \o u) = Length(s) + Length(u)}
<1>1. 0 \in S
  <2>1. ASSUME NEW u \in Seq(Msg), Len(u) = 0
        PROVE  Length(s \o u) = Length(s) + Length(u)
    <3>1. u = << >> /\ s \o u = s
      BY <2>1, EmptySeq, ConcatEmptySeq
    <3>2. QED
      BY <3>1, LengthAppend
  <2>2. QED
    BY <2>1
<1>2. ASSUME NEW n \in Nat, n \in S PROVE n + 1 \in S
  <2>1. ASSUME NEW u \in Seq(Msg), Len(u) = n + 1
        PROVE  Length(s \o u) = Length(s) + Length(u)
    <3> DEFINE v == SubSeq(u, 1, n)
               m == u[n + 1]
    <3>1. v \in Seq(Msg) /\ Len(v) = n /\ m \in Msg /\ \A i \in 1 .. n : v[i] = u[i]
      BY <2>1
    <3>2. u = Append(v, m)
      <4>1. Append(v, m) \in Seq(Msg) /\ Len(Append(v, m)) = n + 1
        BY <3>1, AppendProperties
      <4>2. \A i \in 1 .. n + 1 : Append(v, m)[i] = u[i]
        BY <3>1, AppendProperties
      <4>3. QED
        BY <2>1, <4>1, <4>2, SeqEqual
    <3> HIDE DEF v, m
    <3>3. s \o u = Append(s \o v, m)
      <4>1. << m >> \in Seq(Msg) /\ s \o v \in Seq(Msg)
        BY <3>1, ConcatProperties
      <4>2. u = v \o << m >> /\ Append(s \o v, m) = (s \o v) \o << m >>
        BY <3>1, <3>2, <4>1, AppendIsConcat
      <4>3. QED
        BY <3>1, <4>1, <4>2, ConcatAssociative
    <3>4. Length(s \o v) = Length(s) + Length(v)
      BY <1>2, <3>1
    <3>5. s \o v \in Seq(Msg)
      BY <3>1, ConcatProperties
    <3>6. Length(s) \in Nat /\ Length(v) \in Nat /\ Bytes[m] \in Nat
      BY <3>1, LengthAppend, MessageAssumption DEF MessageAssumption
    <3>7. /\ Length(s \o u) = Length(s \o v) + Bytes[m]
          /\ Length(u) = Length(v) + Bytes[m]
      BY <3>1, <3>2, <3>3, <3>5, LengthAppend
    <3>8. QED
      BY <3>4, <3>6, <3>7
  <2>2. QED
    BY <2>1
<1>3. Nat \subseteq S
  <2> HIDE DEF S
  <2>1. QED
    BY <1>1, <1>2, Induct
<1>4. QED
  BY <1>3

(* Nothing is behind the end of a sequence.                                *)
LEMMA LengthOfNone ==
  ASSUME NEW d \in Seq(Msg)
  PROVE  Length(SubSeq(d, Len(d) + 1, Len(d))) = 0
<1>1. SubSeq(d, Len(d) + 1, Len(d)) = << >>
  BY SubSeqProperties
<1>2. QED
  BY <1>1, LengthAppend

(* A part of a batch is no longer than the batch.                          *)
LEMMA LengthOfPart ==
  ASSUME NEW b \in Seq(Msg), NEW j \in 0 .. Len(b)
  PROVE  Length(SubSeq(b, 1, j)) <= Length(b)
<1> DEFINE p == SubSeq(b, 1, j)
           q == SubSeq(b, j + 1, Len(b))
<1>0. Len(b) \in Nat /\ j \in Nat /\ j <= Len(b)
  OBVIOUS
<1>1. p \in Seq(Msg) /\ Len(p) = j /\ \A i \in 1 .. j : p[i] = b[i]
  BY <1>0
<1>2. /\ q \in Seq(Msg) /\ Len(q) = Len(b) - j
      /\ \A i \in 1 .. Len(b) - j : q[i] = b[j + i]
  BY <1>0
<1> HIDE DEF p, q
<1>3. b = p \o q
  <2>1. p \o q \in Seq(Msg) /\ Len(p \o q) = Len(b)
    <3>1. p \o q \in Seq(Msg) /\ Len(p \o q) = Len(p) + Len(q)
      BY <1>1, <1>2, ConcatProperties
    <3>2. QED
      BY <1>0, <1>1, <1>2, <3>1
  <2>2. ASSUME NEW i \in 1 .. Len(b) PROVE (p \o q)[i] = b[i]
    <3>1. (p \o q)[i] = IF i <= Len(p) THEN p[i] ELSE q[i - Len(p)]
      BY <1>0, <1>1, <1>2
    <3>2. CASE i <= j
      BY <1>0, <1>1, <3>1, <3>2
    <3>3. CASE ~(i <= j)
      <4>1. i - j \in 1 .. Len(b) - j /\ j + (i - j) = i
        BY <1>0, <3>3
      <4>2. QED
        BY <1>1, <1>2, <3>1, <3>3, <4>1
    <3>4. QED
      BY <3>2, <3>3
  <2>3. QED
    BY <2>1, <2>2, SeqEqual
<1>4. Length(b) = Length(p) + Length(q) /\ Length(p) \in Nat /\ Length(q) \in Nat
  BY <1>1, <1>2, <1>3, LengthConcat, LengthAppend
<1>5. QED
  BY <1>4 DEF p

(* What is behind a place grows by what is appended.                       *)
LEMMA LengthBehind ==
  ASSUME NEW d \in Seq(Msg), NEW p \in Seq(Msg), NEW k \in 0 .. Len(d)
  PROVE  /\ d \o p \in Seq(Msg) /\ k <= Len(d \o p)
         /\ Length(SubSeq(d \o p, k + 1, Len(d \o p)))
              = Length(SubSeq(d, k + 1, Len(d))) + Length(p)
<1> DEFINE e == d \o p
           t == SubSeq(d, k + 1, Len(d))
           u == SubSeq(e, k + 1, Len(e))
<1>0. Len(d) \in Nat /\ Len(p) \in Nat /\ k \in Nat /\ k <= Len(d)
  OBVIOUS
<1>1. e \in Seq(Msg) /\ Len(e) = Len(d) + Len(p)
  BY ConcatProperties
<1>2. \A i \in 1 .. Len(d) + Len(p) : e[i] = IF i <= Len(d) THEN d[i] ELSE p[i - Len(d)]
  BY <1>0
<1> HIDE DEF e
<1>3. /\ t \in Seq(Msg) /\ Len(t) = Len(d) - k
      /\ \A i \in 1 .. Len(d) - k : t[i] = d[k + i]
  BY <1>0
<1>4. /\ u \in Seq(Msg) /\ Len(u) = Len(d) + Len(p) - k
      /\ \A i \in 1 .. Len(d) + Len(p) - k : u[i] = e[k + i]
  BY <1>0, <1>1
<1> HIDE DEF t, u
<1>5. u = t \o p
  <2>1. t \o p \in Seq(Msg) /\ Len(t \o p) = Len(u)
    BY <1>0, <1>3, <1>4, ConcatProperties
  <2>2. ASSUME NEW i \in 1 .. Len(u) PROVE (t \o p)[i] = u[i]
    <3>1. (t \o p)[i] = IF i <= Len(t) THEN t[i] ELSE p[i - Len(t)]
      BY <1>0, <1>3, <1>4
    <3>2. i \in Nat /\ 1 <= i /\ i <= Len(d) + Len(p) - k
      BY <1>0, <1>4
    <3>3. u[i] = IF k + i <= Len(d) THEN d[k + i] ELSE p[k + i - Len(d)]
      BY <1>0, <1>2, <1>4, <3>2
    <3>4. CASE k + i <= Len(d)
      <4>1. i \in 1 .. Len(d) - k
        BY <1>0, <3>2, <3>4
      <4>2. QED
        BY <1>0, <1>3, <3>1, <3>3, <3>4, <4>1
    <3>5. CASE ~(k + i <= Len(d))
      <4>1. i - (Len(d) - k) = k + i - Len(d) /\ ~(i <= Len(d) - k)
        BY <1>0, <3>2, <3>5
      <4>2. QED
        BY <1>0, <1>3, <3>1, <3>3, <3>5, <4>1
    <3>6. QED
      BY <3>4, <3>5
  <2>3. QED
    BY <1>4, <2>1, <2>2, SeqEqual
<1>6. Length(u) = Length(t) + Length(p)
  BY <1>3, <1>5, LengthConcat
<1>7. QED
  BY <1>0, <1>1, <1>6 DEF e, t, u

------------------------------------------------------------------------------
(* The inductive invariant *)

(* The initial states satisfy it.                                          *)
LEMMA InitInv == FlushInit => FlushInv
<1> SUFFICES ASSUME FlushInit PROVE FlushInv
  OBVIOUS
<1>1. NoFile \in File /\ NoFile.disk <= NoFile.os /\ NoFile.os <= Len(NoFile.data)
        /\ NoFile.os = Len(NoFile.data)
  BY DEF NoFile, File
<1>2. FilesTypeOK
  <2>1. /\ cnt_ \in 1 .. MaxCnt + 1 /\ starts \in 1 .. MaxStarts
        /\ at \in 0 .. Len(Flushes)
    BY FlushAssumption DEF FlushInit, FlushAssumption
  <2>2. fs_ \in [Sinks -> Names \cup {Null}]
    BY NamesType DEF FlushInit
  <2>3. /\ files \in [Names -> File]
        /\ \A n \in Names : files[n].disk <= files[n].os /\ files[n].os <= Len(files[n].data)
    BY <1>1 DEF FlushInit
  <2>4. kept \in [Sinks -> SUBSET Msg] /\ closed \in [Names -> SUBSET Msg] /\ batch \in Seq(Msg)
    BY DEF FlushInit
  <2>5. QED
    BY <2>1, <2>2, <2>3, <2>4 DEF FlushInit, FilesTypeOK
<1>3. OpenInv /\ WrittenInv
  BY DEF FlushInit, OpenInv, WrittenInv, Sinks
<1>4. Durable /\ ClosedFlushed /\ ClosedSurvives
  BY <1>1 DEF FlushInit, Durable, ClosedFlushed, ClosedSurvives
<1>5. QED
  BY <1>2, <1>3, <1>4 DEF FlushInv

(* A step that leaves the files alone, and comes to another sink.          *)
LEMMA GoOnInv ==
  ASSUME FlushInv, running, NEW i \in 1 .. Len(Flushes) + 1, NEW b \in Seq(Msg), GoOn(i, b),
         UNCHANGED << running, config, fs_, rolling, files, kept, closed, powerLost >>
  PROVE  FlushInv'
<1>1. /\ at' \in 0 .. Len(Flushes) /\ batch' \in Seq(Msg) /\ failed' = FALSE
      /\ step' \in {"open", "write"}
      /\ at' > 0 /\ step' # "open" => Flushes[at'] \in Sinks
  BY GoOnType
<1>2. FilesTypeOK'
  BY <1>1 DEF FlushInv, FilesTypeOK, config, rolling
<1>3. OpenInv' /\ WrittenInv'
  BY <1>1 DEF FlushInv, OpenInv, WrittenInv, Current
<1>4. Durable' /\ ClosedFlushed' /\ ClosedSurvives'
  BY DEF FlushInv, Durable, ClosedFlushed, ClosedSurvives, Promised, config
<1>5. QED
  BY <1>2, <1>3, <1>4 DEF FlushInv

(* What a process that is gone leaves: good files, and a clean position.   *)
LEMMA GoneInv ==
  ASSUME FlushInv, Gone, powerLost' \in BOOLEAN, files' \in [Names -> File],
         \A n \in Names : GoodFile(files'[n]) /\ files'[n].os = Len(files'[n].data),
         closed' \in [Names -> SUBSET Msg], Durable', ClosedSurvives'
  PROVE  FlushInv'
<1>1. FilesTypeOK'
  <2>1. /\ fs_' \in [Sinks -> Names \cup {Null}] /\ cnt_' \in 1 .. MaxCnt + 1
        /\ at' \in 0 .. Len(Flushes)
    BY FlushAssumption DEF Gone, FlushAssumption
  <2>15. running' = FALSE /\ failed' = FALSE /\ step' = "open" /\ batch' = << >>
    BY DEF Gone
  <2>2. /\ running' \in BOOLEAN /\ failed' \in BOOLEAN
        /\ step' \in {"open", "write", "sync"}
    BY <2>15
  <2>5. << >> \in Seq(Msg)
    OBVIOUS
  <2>3. UNCHANGED << flush_log, starts, kept >>
    BY DEF Gone, config
  <2>4. QED
    BY <2>15, <2>1, <2>2, <2>3, <2>5 DEF FlushInv, FilesTypeOK, GoodFile
<1>2. OpenInv' /\ WrittenInv' /\ ClosedFlushed'
  BY DEF Gone, OpenInv, WrittenInv, ClosedFlushed, Sinks
<1>3. QED
  BY <1>1, <1>2 DEF FlushInv

(* Closing files adds what they have to what must survive.                 *)
LEMMA ClosedStep ==
  ASSUME FilesTypeOK, ClosedSurvives, powerLost' = powerLost,
         closed' = [n \in Names |-> closed'[n]],
         \A n \in Names :
           /\ GoodFile(files[n])
           /\ Left(files[n], files'[n]) /\ files[n].os <= files'[n].os
           /\ closed'[n] # closed[n] =>
                closed'[n] = Messages(files[n]) /\ files'[n].os = Len(files[n].data)
  PROVE  closed' \in [Names -> SUBSET Msg] /\ ClosedSurvives'
<1>1. \A n \in Names : Messages(files[n]) \subseteq Msg
  BY DEF Messages, GoodFile, File
<1>2. \A n \in Names : closed'[n] \in SUBSET Msg
  BY <1>1 DEF FilesTypeOK
<1>3. ASSUME NEW n \in Names
      PROVE  /\ GoodFile(files'[n]) /\ Sure(files[n], files'[n])
             /\ files'[n].os = Len(files[n].data) =>
                  \A i \in 1 .. Len(files[n].data) : files'[n].data[i] = files[n].data[i]
  <2>1. GoodFile(files'[n]) /\ Sure(files[n], files'[n])
    BY LeftSure DEF Left
  <2>2. Len(files[n].data) \in Nat /\ Len(files'[n].data) \in Nat /\ files'[n].os \in Nat
        /\ files'[n].os <= Len(files'[n].data)
    BY <2>1 DEF GoodFile, File
  <2>3. QED
    BY <2>1, <2>2 DEF Left
<1>4. ClosedSurvives'
  BY <1>3, SurvivesClosed
<1>5. QED
  BY <1>2, <1>4

(* Every step preserves it.                                                *)
LEMMA NextInv == FlushInv /\ [FlushNext]_flushVars => FlushInv'
<1> SUFFICES ASSUME FlushInv, [FlushNext]_flushVars PROVE FlushInv'
  OBVIOUS
<1>0. /\ FilesTypeOK /\ OpenInv /\ WrittenInv /\ Durable /\ ClosedFlushed
      /\ ClosedSurvives
      /\ \A n \in Names : GoodFile(files[n])
      /\ Len(Flushes) \in Nat /\ at \in 0 .. Len(Flushes) /\ batch \in Seq(Msg)
  BY FlushAssumption DEF FlushInv, FilesTypeOK, GoodFile, FlushAssumption
<1>1. ASSUME NEW b \in Seq(Msg), RealFlush(b) PROVE FlushInv'
  <2>1. 1 \in 1 .. Len(Flushes) + 1
    BY <1>0
  <2>2. QED
    BY <1>1, <2>1, GoOnInv DEF RealFlush
<1>2. ASSUME FlushStdout \/ FlushNoFile PROVE FlushInv'
  <2>1. at + 1 \in 1 .. Len(Flushes) + 1
    BY <1>0
  <2>2. QED
    BY <1>0, <1>2, <2>1, GoOnInv DEF FlushStdout, FlushNoFile, NextSink, OpenInv
<1>3. ASSUME InitLogFile PROVE FlushInv'
  <2>1. /\ at > 0 /\ Current = "roll" /\ step' = "write"
        /\ UNCHANGED << running, config, at, batch, failed, kept, powerLost >>
    BY <1>3 DEF InitLogFile
  <2>2. CASE UNCHANGED << files, closed, fs_, rolling >>
    <3>1. FilesTypeOK' /\ OpenInv' /\ WrittenInv'
      BY <1>0, <2>1, <2>2 DEF FilesTypeOK, OpenInv, WrittenInv, Current, config, rolling, Sinks
    <3>2. Durable' /\ ClosedFlushed' /\ ClosedSurvives'
      BY <1>0, <2>1, <2>2 DEF Durable, ClosedFlushed, ClosedSurvives, Promised, config
    <3>3. QED
      BY <3>1, <3>2 DEF FlushInv
  <2>3. CASE /\ cnt_ <= MaxCnt
             /\ (\E n \in RollFiles : OpenNext(n)) \/ OpenFailed
             /\ cnt_' = cnt_ + 1
    <3> DEFINE old == {fs_["roll"]} \ {Null}
    <3>1. PICK f \in RollFiles \cup {Null} : Close(old) /\ fs_' = [fs_ EXCEPT !["roll"] = f]
      BY <2>3 DEF OpenNext, OpenFailed
    <3>9. old \subseteq Names
      BY <1>0 DEF FilesTypeOK, Sinks
    <3> HIDE DEF old
    <3>10. /\ files' \in [Names -> File]
           /\ \A n \in Names :
                /\ Left(files[n], files'[n]) /\ files[n].os <= files'[n].os
                /\ n \in old => files'[n].os = Len(files'[n].data)
                /\ n \notin old => files'[n] = files[n]
                /\ closed'[n] # closed[n] =>
                     /\ closed'[n] = Messages(files[n])
                     /\ files'[n].os = Len(files[n].data)
           /\ closed' = [n \in Names |-> closed'[n]]
      BY <1>0, <3>1, <3>9, CloseLeft
    <3>2. \A n \in Names : GoodFile(files'[n])
      BY <3>10 DEF Left
    <3>11. closed' \in [Names -> SUBSET Msg] /\ ClosedSurvives'
      BY <1>0, <2>1, <3>10, ClosedStep
    <3>3. /\ fs_' \in [Sinks -> Names \cup {Null}] /\ fs_'["roll"] = f
          /\ fs_'["file"] = fs_["file"]
      BY <1>0, <3>1, NamesType DEF FilesTypeOK, Sinks
    <3>4. FilesTypeOK'
      <4>1. files' \in [Names -> File] /\ closed' \in [Names -> SUBSET Msg]
        BY <3>10, <3>11
      <4>2. cnt_' \in 1 .. MaxCnt + 1
        BY <1>0, <2>3, FlushAssumption DEF FilesTypeOK, FlushAssumption
      <4>3. QED
        BY <1>0, <2>1, <3>2, <3>3, <4>1, <4>2 DEF FilesTypeOK, GoodFile, config
    <3>5. OpenInv' /\ WrittenInv'
      BY <1>0, <2>1, <3>3 DEF OpenInv, WrittenInv, Current, Sinks
    <3>6. Durable'
      BY <1>0, <2>1, <3>10, DurableCut DEF config, FilesTypeOK
    <3>7. ClosedFlushed'
      <4> SUFFICES ASSUME NEW n \in Names, \A s \in Sinks : fs_'[s] # n
                   PROVE  files'[n].os = Len(files'[n].data)
        BY DEF ClosedFlushed
      <4>1. CASE n \in old
        BY <3>10, <4>1
      <4>2. CASE n \notin old
        <5>1. \A s \in Sinks : fs_[s] # n
          BY <3>3, <4>2, NamesType DEF Sinks, old
        <5>2. QED
          BY <1>0, <3>10, <4>2, <5>1 DEF ClosedFlushed
      <4>3. QED
        BY <4>1, <4>2
    <3>8. QED
      BY <3>4, <3>5, <3>6, <3>7, <3>11 DEF FlushInv
  <2>4. QED
    BY <1>3, <2>2, <2>3 DEF InitLogFile
<1>4. ASSUME Fwrite PROVE FlushInv'
  <2> DEFINE n0 == fs_[Current]
             f == files[n0]
  <2>1. PICK j \in 0 .. Len(batch) :
          /\ failed' = (j < Len(batch))
          /\ files' = [files EXCEPT ![n0].data = @ \o SubSeq(batch, 1, j)]
    BY <1>4 DEF Fwrite
  <2>2. /\ at > 0 /\ step = "write" /\ step' = "sync"
        /\ UNCHANGED << running, config, fs_, cnt_, since, at, batch, kept, closed, powerLost >>
    BY <1>4 DEF Fwrite
  <2>3. Current \in Sinks /\ n0 \in Names
    BY <1>0, <1>4 DEF Fwrite, OpenInv, FilesTypeOK
  <2> DEFINE g == [f EXCEPT !.data = @ \o SubSeq(batch, 1, j)]
  <2>4. /\ GoodFile(g) /\ Keeps(f, g) /\ Len(g.data) = Len(f.data) + j
        /\ j = Len(batch) => \A i \in 1 .. Len(batch) : g.data[Len(f.data) + i] = batch[i]
    BY <1>0, <2>3, WrittenFile
  <2>5. files' = [files EXCEPT ![n0] = g]
    BY <2>1
  <2> HIDE DEF g
  <2>15. /\ files \in [Names -> File] /\ \A n \in Names : GoodFile(files[n])
    BY <1>0 DEF FilesTypeOK, GoodFile
  <2>6. ASSUME NEW n \in Names PROVE GoodFile(files'[n]) /\ Keeps(files[n], files'[n])
    <3>1. CASE n = n0
      BY <2>15, <2>3, <2>4, <2>5, <3>1
    <3>2. CASE n # n0
      <4>1. files'[n] = files[n]
        BY <2>15, <2>3, <2>5, <3>2
      <4>2. Len(files[n].data) \in Nat /\ files[n].os \in Nat /\ files[n].disk \in Nat
        BY <2>15 DEF File
      <4>3. QED
        BY <2>15, <4>1, <4>2 DEF Keeps
    <3>3. QED
      BY <3>1, <3>2
  <2>7. FilesTypeOK'
    <3>1. files' \in [Names -> File]
      BY <1>0, <2>4, <2>5 DEF FilesTypeOK, GoodFile
    <3>2. failed' \in BOOLEAN
      BY <2>1
    <3>3. QED
      BY <1>0, <2>2, <2>6, <3>1, <3>2 DEF FilesTypeOK, GoodFile, config
  <2>8. OpenInv'
    BY <1>0, <1>4, <2>2, <2>3 DEF Fwrite, OpenInv, Current
  <2>9. files'[n0] = g /\ Current' = Current /\ fs_'[Current'] = n0
    BY <1>0, <2>2, <2>3, <2>5 DEF FilesTypeOK, Current
  <2>10. WrittenInv'
    <3> SUFFICES ASSUME ~failed', NEW i \in 1 .. Len(batch)
                 PROVE  \E k \in 1 .. Len(g.data) : g.data[k] = batch[i]
      BY <2>2, <2>9 DEF WrittenInv
    <3>1. GoodFile(f) /\ Len(batch) \in Nat
      BY <1>0, <2>3
    <3>7. ~(j < Len(batch))
      BY <2>1
    <3>2. j = Len(batch)
      BY <3>1, <3>7
    <3>4. Len(f.data) \in Nat
      BY <3>1 DEF GoodFile, File
    <3>5. Len(f.data) + i \in 1 .. Len(g.data)
      BY <2>4, <3>1, <3>2, <3>4
    <3>6. g.data[Len(f.data) + i] = batch[i]
      BY <2>4, <3>2
    <3>3. QED
      BY <3>5, <3>6
  <2>11. Durable'
    BY <1>0, <2>2, <2>6, DurableKept DEF config
  <2>12. ClosedFlushed'
    <3> SUFFICES ASSUME NEW n \in Names, \A s \in Sinks : fs_[s] # n
                 PROVE  files'[n].os = Len(files'[n].data)
      BY <2>2 DEF ClosedFlushed
    <3>1. n # n0
      BY <2>3
    <3>2. QED
      BY <1>0, <2>5, <3>1 DEF ClosedFlushed, FilesTypeOK
  <2>14. ClosedSurvives'
    BY <1>0, <2>2, <2>6, KeepsSure, SurvivesClosed
  <2>13. QED
    BY <2>7, <2>8, <2>10, <2>11, <2>12, <2>14 DEF FlushInv
<1>5. ASSUME Sync PROVE FlushInv'
  <2> DEFINE n0 == fs_[Current]
             f == files[n0]
  <2>1. Current \in Sinks /\ n0 \in Names /\ at > 0 /\ step = "sync"
    BY <1>0, <1>5 DEF Sync, OpenInv, FilesTypeOK
  <2>22. PICK k \in FlushedTo(f) : \E d \in SyncedTo(f, k) :
          /\ files' = [files EXCEPT ![n0].os = k, ![n0].disk = d]
          /\ kept' = IF Succeeded(f, k, d)
                       THEN [kept EXCEPT ![Current] = @ \cup {batch[i] : i \in DOMAIN batch}]
                       ELSE kept
    BY <1>5 DEF Sync
  <2>2. PICK d \in SyncedTo(f, k) :
          /\ files' = [files EXCEPT ![n0].os = k, ![n0].disk = d]
          /\ kept' = IF Succeeded(f, k, d)
                       THEN [kept EXCEPT ![Current] = @ \cup {batch[i] : i \in DOMAIN batch}]
                       ELSE kept
    BY <2>22
  <2>3. GoOn(at + 1, batch) /\ UNCHANGED << running, config, fs_, rolling, closed, powerLost >>
    BY <1>5 DEF Sync, NextSink
  <2> DEFINE g == [data |-> f.data, os |-> k, disk |-> d]
  <2>4. GoodFile(f) /\ f = [data |-> f.data, os |-> f.os, disk |-> f.disk]
    BY <1>0, <2>1 DEF GoodFile, File
  <2>5. k \in Nat /\ f.os <= k /\ k <= Len(f.data)
    BY <2>22, <2>4 DEF FlushedTo, GoodFile, File
  <2>17. d \in Nat /\ f.disk <= d /\ d <= k
    BY <2>4, <2>5 DEF SyncedTo, GoodFile, File
  <2>6. GoodFile(g) /\ Keeps(f, g)
    BY <2>4, <2>5, <2>17 DEF GoodFile, Keeps, File
  <2>7. files' = [files EXCEPT ![n0] = g]
    <3>0. f \in File
      BY <2>4 DEF GoodFile
    <3>1. [f EXCEPT !.os = k, !.disk = d] = g
      BY <3>0, PrefixesReplaced
    <3>2. files' = [files EXCEPT ![n0] = [f EXCEPT !.os = k, !.disk = d]]
      BY <1>0, <2>1, <2>2, <2>4 DEF FilesTypeOK, File
    <3>3. QED
      BY <3>1, <3>2
  <2> HIDE DEF g
  <2>8. \A n \in Names : GoodFile(files'[n]) /\ Keeps(files[n], files'[n])
    <3> TAKE n \in Names
    <3>1. CASE n = n0
      BY <1>0, <2>1, <2>6, <2>7, <3>1 DEF FilesTypeOK
    <3>2. CASE n # n0
      <4>1. files'[n] = files[n]
        BY <1>0, <2>7, <3>2 DEF FilesTypeOK
      <4>2. QED
        BY <1>0, <4>1 DEF GoodFile, Keeps, File
    <3>3. QED
      BY <3>1, <3>2
  <2>9. at + 1 \in 1 .. Len(Flushes) + 1
    BY <1>0, <2>1
  <2>10. /\ at' \in 0 .. Len(Flushes) /\ batch' \in Seq(Msg) /\ failed' = FALSE
         /\ step' \in {"open", "write"}
         /\ at' > 0 /\ step' # "open" => Flushes[at'] \in Sinks
    BY <1>0, <2>3, <2>9, GoOnType
  <2>11. kept' \in [Sinks -> SUBSET Msg]
    <3>1. \A i \in DOMAIN batch : batch[i] \in Msg
      BY <1>0
    <3>2. QED
      BY <1>0, <2>1, <2>2, <3>1 DEF FilesTypeOK
  <2>12. FilesTypeOK'
    <3>1. files' \in [Names -> File]
      BY <1>0, <2>6, <2>7 DEF FilesTypeOK, GoodFile
    <3>2. QED
      BY <1>0, <2>3, <2>8, <2>10, <2>11, <3>1 DEF FilesTypeOK, GoodFile, config, rolling
  <2>13. OpenInv' /\ WrittenInv'
    BY <1>0, <2>1, <2>3, <2>10 DEF OpenInv, WrittenInv, Current
  <2>14. Durable'
    <3> SUFFICES ASSUME NEW s \in Sinks, NEW m \in kept'[s],
                        flush_log = 2 \/ (flush_log = 1 /\ ~powerLost)
                 PROVE  SafeIn(s, m, files')
      BY <2>3, DurableIsSafe DEF config
    <3>1. CASE m \in kept[s]
      BY <1>0, <2>8, <3>1, StaysSafe, DurableIsSafe
    <3>2. CASE m \notin kept[s]
      <4>1. /\ ~failed /\ (flush_log \in {1, 2} => k = Len(f.data)) /\ (flush_log = 2 => d = k)
            /\ s = Current /\ m \in {batch[i] : i \in DOMAIN batch}
        BY <1>0, <2>1, <2>2, <3>2 DEF FilesTypeOK, Succeeded
      <4>2. Len(f.data) \in Nat /\ k = Len(f.data) /\ (flush_log = 2 => d = k)
        BY <2>4, <4>1 DEF GoodFile, File
      <4>3. PICK j \in 1 .. Len(f.data) : f.data[j] = m
        <5>1. PICK i \in 1 .. Len(batch) : batch[i] = m
          BY <1>0, <4>1
        <5>2. \E j \in 1 .. Len(f.data) : f.data[j] = batch[i]
          BY <1>0, <2>1, <4>1, <5>1 DEF WrittenInv
        <5>3. QED
          BY <5>1, <5>2
      <4>4. n0 \in FilesOf(s)
        BY <1>0, <2>1, <4>1, NamesType DEF FilesOf, OpenInv, Sinks
      <4>5. files'[n0] = g
        BY <1>0, <2>1, <2>7 DEF FilesTypeOK
      <4>6. /\ g.data = f.data /\ g.os = k
            /\ flush_log = 2 => g.disk = k
        BY <4>2 DEF g
      <4>7. QED
        BY <4>2, <4>3, <4>4, <4>5, <4>6 DEF SafeIn
    <3>3. QED
      BY <3>1, <3>2
  <2>15. ClosedFlushed'
    <3> SUFFICES ASSUME NEW n \in Names, \A s \in Sinks : fs_[s] # n
                 PROVE  files'[n].os = Len(files'[n].data)
      BY <2>3 DEF ClosedFlushed
    <3>1. n # n0
      BY <2>1
    <3>2. QED
      BY <1>0, <2>7, <3>1 DEF ClosedFlushed, FilesTypeOK
  <2>18. ClosedSurvives'
    BY <1>0, <2>3, <2>8, KeepsSure, SurvivesClosed
  <2>16. QED
    BY <2>12, <2>13, <2>14, <2>15, <2>18 DEF FlushInv
<1>6. ASSUME Kill \/ PowerCut PROVE FlushInv'
  <2> DEFINE safe == IF Kill THEN [n \in Opened |-> files[n].os]
                             ELSE [n \in Names |-> files[n].disk]
  <2>1. /\ CutFiles(safe) /\ Gone /\ closed' = closed
        /\ powerLost' = IF Kill THEN powerLost ELSE TRUE
    BY <1>6 DEF Kill, PowerCut
  <2>2. /\ Opened \subseteq Names
        /\ \A n \in Names : n \notin Opened => files[n].os = Len(files[n].data)
        /\ \A n \in Names : files[n].os \in Nat /\ files[n].disk \in Nat /\ files[n].disk <= files[n].os
    <3>1. \A n \in Names : n \notin Opened => \A s \in Sinks : fs_[s] # n
      BY <1>0, FlushAssumption DEF Opened
    <3>2. Opened \subseteq Names
      BY <1>0 DEF Opened, FilesTypeOK
    <3>3. QED
      BY <1>0, <3>1, <3>2 DEF ClosedFlushed, FilesTypeOK, File
  <2>3. /\ DOMAIN safe \subseteq Names
        /\ \A n \in DOMAIN safe : safe[n] \in Nat /\ files[n].disk <= safe[n]
        /\ Kill => DOMAIN safe = Opened /\ \A n \in Opened : safe[n] = files[n].os
        /\ ~Kill => DOMAIN safe = Names
    BY <2>2
  <2> HIDE DEF safe
  <2>4. /\ files' \in [Names -> File]
        /\ \A n \in Names :
             /\ Left(files[n], files'[n])
             /\ n \in DOMAIN safe =>
                  files'[n].os = Len(files'[n].data) /\ safe[n] <= files'[n].os
             /\ n \notin DOMAIN safe => files'[n] = files[n]
    BY <1>0, <2>1, <2>3, CutFilesLeft
  <2>5. \A n \in Names : GoodFile(files'[n]) /\ files'[n].os = Len(files'[n].data)
    BY <2>2, <2>3, <2>4 DEF Left
  <2>6. Kill => \A n \in Names : files[n].os <= files'[n].os
    BY <2>2, <2>3, <2>4
  <2>7. powerLost' \in BOOLEAN /\ closed' \in [Names -> SUBSET Msg]
    BY <1>0, <2>1 DEF FilesTypeOK
  <2>8. Durable'
    BY <1>0, <2>1, <2>4, <2>6, DurableCut DEF Gone, config, FilesTypeOK
  <2>9. ClosedSurvives'
    BY <1>0, <2>1, <2>4, <2>5, <2>6, LeftSure, SurvivesClosed
  <2>10. QED
    BY <2>1, <2>4, <2>5, <2>7, <2>8, <2>9, GoneInv
<1>7. ASSUME CloseAll PROVE FlushInv'
  <2>1. Close(Opened) /\ powerLost' = powerLost /\ Gone
    BY <1>7 DEF CloseAll
  <2>2. /\ Opened \subseteq Names
        /\ \A n \in Names : n \notin Opened => files[n].os = Len(files[n].data)
    <3>1. \A n \in Names : n \notin Opened => \A s \in Sinks : fs_[s] # n
      BY <1>0, FlushAssumption DEF Opened
    <3>2. QED
      BY <1>0, <3>1 DEF Opened, ClosedFlushed, FilesTypeOK
  <2>3. /\ files' \in [Names -> File]
        /\ \A n \in Names :
             /\ Left(files[n], files'[n]) /\ files[n].os <= files'[n].os
             /\ n \in Opened => files'[n].os = Len(files'[n].data)
             /\ n \notin Opened => files'[n] = files[n]
             /\ closed'[n] # closed[n] =>
                  /\ closed'[n] = Messages(files[n])
                  /\ files'[n].os = Len(files[n].data)
        /\ closed' = [n \in Names |-> closed'[n]]
    BY <1>0, <2>1, <2>2, CloseLeft
  <2>4. \A n \in Names : GoodFile(files'[n]) /\ files'[n].os = Len(files'[n].data)
    BY <2>2, <2>3 DEF Left
  <2>5. closed' \in [Names -> SUBSET Msg] /\ ClosedSurvives'
    BY <1>0, <2>1, <2>3, ClosedStep
  <2>6. Durable'
    BY <1>0, <2>1, <2>3, DurableCut DEF Gone, config, FilesTypeOK
  <2>7. QED
    BY <1>0, <2>1, <2>3, <2>4, <2>5, <2>6, GoneInv DEF FilesTypeOK
<1>8. ASSUME Start PROVE FlushInv'
  <2>1. PICK f \in {AppFile, Null} : fs_' = [fs_ EXCEPT !["file"] = f]
    BY <1>8 DEF Start
  <2>2. /\ ~running /\ running' = TRUE /\ starts < MaxStarts /\ starts' = starts + 1
        /\ UNCHANGED << flush_log, rolling, files, position, kept, closed, powerLost >>
        /\ at = 0 /\ \A s \in Sinks : fs_[s] = Null
    BY <1>0, <1>8 DEF Start, OpenInv
  <2>3. /\ fs_' \in [Sinks -> Names \cup {Null}]
        /\ fs_'["file"] = f /\ fs_'["roll"] = Null
    BY <1>0, <2>1, <2>2, NamesType DEF FilesTypeOK, Sinks
  <2>4. starts' \in 1 .. MaxStarts
    BY <1>0, <2>2, FlushAssumption DEF FilesTypeOK, FlushAssumption
  <2>5. FilesTypeOK'
    BY <1>0, <2>2, <2>3, <2>4 DEF FilesTypeOK, rolling, position
  <2>6. OpenInv' /\ WrittenInv'
    BY <2>2, <2>3 DEF OpenInv, WrittenInv, position
  <2>7. Durable' /\ ClosedSurvives'
    BY <1>0, <2>2 DEF Durable, ClosedSurvives, Promised
  <2>8. ClosedFlushed'
    BY <1>0, <2>2, NamesType DEF ClosedFlushed
  <2>9. QED
    BY <2>5, <2>6, <2>7, <2>8 DEF FlushInv
<1>9. CASE UNCHANGED flushVars
  <2>1. UNCHANGED << running, flush_log, starts, fs_, cnt_, files, at, step, batch, failed,
                     kept, closed, powerLost >>
    BY <1>9 DEF flushVars, config, rolling, position
  <2>2. FilesTypeOK' /\ OpenInv' /\ WrittenInv'
    BY <1>0, <2>1 DEF FilesTypeOK, OpenInv, WrittenInv, Current
  <2>3. Durable' /\ ClosedFlushed' /\ ClosedSurvives'
    BY <1>0, <2>1 DEF Durable, ClosedFlushed, ClosedSurvives, Promised
  <2>4. QED
    BY <2>2, <2>3 DEF FlushInv
<1>10. QED
  BY <1>1, <1>2, <1>3, <1>4, <1>5, <1>6, <1>7, <1>8, <1>9
  DEF FlushNext, FlushStep, FlushFault

(* The invariant about the size of the rolling file.                        *)
LEMMA InitRoll == FlushInit => RollInv
BY DEF FlushInit, RollInv

(* Every step preserves it, given the invariant of the files.              *)
LEMMA NextRoll == FlushInv /\ RollInv /\ [FlushNext]_flushVars => RollInv'
<1> SUFFICES ASSUME FlushInv, RollInv, [FlushNext]_flushVars PROVE RollInv'
  OBVIOUS
<1>0. /\ FilesTypeOK /\ OpenInv /\ FilesTypeOK'
      /\ Len(Flushes) \in Nat /\ at \in 0 .. Len(Flushes) /\ batch \in Seq(Msg)
      /\ cur_size_ \in Nat /\ since \in Nat /\ MaxSize \in Nat
      /\ files \in [Names -> File] /\ fs_ \in [Sinks -> Names \cup {Null}]
      /\ \A n \in Names : files[n].data \in Seq(Msg)
  <2>1. FilesTypeOK /\ OpenInv /\ FilesTypeOK'
    BY NextInv DEF FlushInv
  <2>2. QED
    BY <2>1, FlushAssumption DEF FilesTypeOK, FlushAssumption, RollInv, File
(* A step that goes on to another sink, with what is in the files as it was. *)
<1>a. ASSUME UNCHANGED << fs_, rolling >>, \A n \in Names : files'[n].data = files[n].data,
             NEW i, NEW b, GoOn(i, b)
      PROVE  RollInv'
  <2>1. ~(at' > 0 /\ Current' = "roll" /\ step' = "write")
    BY <1>a DEF GoOn, Current
  <2>2. fs_["roll"] # Null => fs_["roll"] \in Names
    BY <1>0 DEF Sinks
  <2>3. fs_["roll"] # Null => files'[fs_["roll"]].data = files[fs_["roll"]].data
    BY <1>a, <2>2
  <2>4. QED
    BY <1>a, <2>1, <2>3 DEF RollInv, rolling
<1>1. CASE FlushStdout \/ FlushNoFile \/ \E b \in Seq(Msg) : RealFlush(b)
  BY <1>1, <1>a DEF FlushStdout, FlushNoFile, RealFlush, NextSink
<1>2. CASE Sync
  <2>1. /\ GoOn(at + 1, batch) /\ UNCHANGED << fs_, rolling >>
    BY <1>2 DEF Sync, NextSink
  <2>2. PICK k, d : files' = [files EXCEPT ![fs_[Current]].os = k, ![fs_[Current]].disk = d]
    BY <1>2 DEF Sync
  <2>3. \A n \in Names : files'[n].data = files[n].data
    BY <1>0, <2>2 DEF File
  <2>4. QED
    BY <1>a, <2>1, <2>3
<1>3. CASE InitLogFile
  <2>1. at > 0 /\ Current = "roll" /\ step = "open" /\ UNCHANGED at
    BY <1>3 DEF InitLogFile
  <2>2. CASE fs_["roll"] # Null /\ ~(cur_size_ >= MaxSize)
    <3>1. UNCHANGED << files, fs_, cur_size_, since >> /\ cur_size_ < MaxSize
      BY <1>0, <1>3, <2>2 DEF InitLogFile, rolling
    <3>2. QED
      BY <3>1 DEF RollInv
  <2>3. CASE OpenFailed /\ cur_size_' = 0
    BY <1>0, <2>3 DEF OpenFailed, RollInv, Sinks
  <2>4. ASSUME NEW n \in RollFiles, OpenNext(n), cur_size_' = 0 PROVE RollInv'
    <3>1. n \in Names /\ n # Null
      BY NamesType
    <3>2. fs_'["roll"] = n /\ since' = Len(files'[n].data)
      BY <1>0, <2>4 DEF OpenNext, Sinks
    <3>4. files'[n].data \in Seq(Msg)
      BY <1>0, <3>1 DEF FilesTypeOK, File
    <3>5. Length(SubSeq(files'[n].data, Len(files'[n].data) + 1, Len(files'[n].data))) = 0
      BY <3>4, LengthOfNone
    <3>6. Len(files'[n].data) \in Nat
      BY <3>4
    <3>7. QED
      BY <2>1, <2>4, <3>2, <3>5, <3>6 DEF RollInv
  <2>5. QED
    BY <1>3, <2>2, <2>3, <2>4 DEF InitLogFile
<1>4. CASE Fwrite
  <2> DEFINE n0 == fs_[Current]
             roll == fs_["roll"]
  <2>1. PICK j \in 0 .. Len(batch) :
          files' = [files EXCEPT ![n0].data = @ \o SubSeq(batch, 1, j)]
    BY <1>4 DEF Fwrite
  <2>2. /\ at > 0 /\ step = "write" /\ step' = "sync" /\ UNCHANGED << fs_, since >>
        /\ cur_size_' = IF Current = "roll" THEN cur_size_ + Length(batch) ELSE cur_size_
    BY <1>4 DEF Fwrite
  <2>3. Current \in Sinks /\ n0 \in Names /\ n0 # Null
    BY <1>0, <1>4 DEF Fwrite, OpenInv, FilesTypeOK
  <2>4. Length(batch) \in Nat
    BY <1>0, LengthAppend
  <2>5. CASE Current = "roll"
    <3> DEFINE d == files[n0].data
               p == SubSeq(batch, 1, j)
    <3>1. d \in Seq(Msg) /\ p \in Seq(Msg)
      BY <1>0, <2>3
    <3>2. files'[n0] = [data |-> d \o p, os |-> files[n0].os, disk |-> files[n0].disk]
      BY <1>0, <2>1, <2>3, DataReplaced
    <3>3. since \in 0 .. Len(d) /\ Length(SubSeq(d, since + 1, Len(d))) <= cur_size_
      BY <1>0, <2>3, <2>5, <3>1 DEF RollInv
    <3>4. Length(p) <= Length(batch) /\ Length(p) \in Nat
      BY <1>0, <3>1, LengthOfPart, LengthAppend
    <3> DEFINE e == d \o p
    <3>8. files'[n0].data = e
      <4> HIDE DEF d, p
      <4>1. QED
        BY <3>2
    <3>5. /\ since <= Len(e)
          /\ Length(SubSeq(e, since + 1, Len(e))) = Length(SubSeq(d, since + 1, Len(d))) + Length(p)
      BY <3>1, <3>3, LengthBehind
    <3>6. Length(SubSeq(d, since + 1, Len(d))) \in Nat
      <4>1. SubSeq(d, since + 1, Len(d)) \in Seq(Msg)
        BY <1>0, <3>1
      <4>2. QED
        BY <4>1, LengthAppend
    <3> HIDE DEF e, p, d
    <3>9. /\ fs_'["roll"] = n0 /\ since' = since /\ cur_size_' = cur_size_ + Length(batch)
          /\ ~(step' = "write")
      BY <2>2, <2>5
    <3>10. Length(SubSeq(e, since + 1, Len(e))) <= cur_size_ + Length(batch)
      BY <1>0, <2>4, <3>3, <3>4, <3>5, <3>6
    <3>7. QED
      BY <1>0, <2>4, <3>5, <3>8, <3>9, <3>10 DEF RollInv
  <2>6. CASE Current # "roll"
    <3>1. roll # Null => roll \in Names /\ roll # n0
      BY <1>0, <2>3, <2>6, NamesType DEF OpenInv, Sinks
    <3>2. roll # Null => files'[roll] = files[roll]
      BY <1>0, <2>1, <3>1
    <3>3. QED
      BY <2>2, <2>6, <3>2 DEF RollInv
  <2>7. QED
    BY <2>5, <2>6
<1>5. CASE Kill \/ PowerCut \/ CloseAll
  BY <1>5 DEF Kill, PowerCut, CloseAll, Gone, RollInv, Sinks
<1>6. CASE Start
  <2>1. fs_'["roll"] = Null /\ UNCHANGED << cur_size_, since >>
    BY <1>0, <1>6 DEF Start, OpenInv, rolling, Sinks
  <2>2. QED
    BY <2>1 DEF RollInv
<1>7. CASE UNCHANGED flushVars
  BY <1>7 DEF flushVars, rolling, position, RollInv, Current
<1>8. QED
  BY <1>1, <1>2, <1>3, <1>4, <1>5, <1>6, <1>7 DEF FlushNext, FlushStep, FlushFault

------------------------------------------------------------------------------
(* Theorems *)

(* The invariant holds throughout.                                         *)
THEOREM FlushInvariance == FlushSpec => []FlushInv
<1>1. QED
  BY InitInv, NextInv, PTL DEF FlushSpec

(* Whatever the sinks are, files, prefixes and positions are what they     *)
(* should be; the two prefixes of a file never pass each other.            *)
THEOREM FilesTyped == FlushSpec => []FilesTypeOK
<1>1. FlushInv => FilesTypeOK
  BY DEF FlushInv
<1>2. QED
  BY FlushInvariance, <1>1, PTL

(* A message that a sink has written without error is in one of its files  *)
(* as safe as flush_log promises, after any number of kills and power cuts *)
(* and in any number of processes (FileFlush::Flush, RollFileFlush::Flush).*)
THEOREM KeepsDurable == FlushSpec => []Durable
<1>1. FlushInv => Durable
  BY DEF FlushInv
<1>2. QED
  BY FlushInvariance, <1>1, PTL

(* What was in a file when it was closed without an error stays there: in  *)
(* the kernel, through kills, later processes that open the file again and *)
(* closes that fail (InitLogFile, the destructors).                        *)
THEOREM ClosedSurvive == FlushSpec => []ClosedSurvives
<1>1. FlushInv => ClosedSurvives
  BY DEF FlushInv
<1>2. QED
  BY FlushInvariance, <1>1, PTL

(* A rolling file into which this process has put max_size_ bytes is not   *)
(* written to again: InitLogFile replaces it before the next fwrite.       *)
THEOREM RollsInTime == FlushSpec => []RollBound
<1>1. FlushInv /\ RollInv => RollBound
  <2> SUFFICES ASSUME FlushInv, RollInv, at > 0, Current = "roll", step = "write",
                      fs_["roll"] # Null, Len(files[fs_["roll"]].data) # since
               PROVE  LET data == files[fs_["roll"]].data
                      IN Length(SubSeq(data, since + 1, Len(data))) < MaxSize
    BY DEF RollBound
  <2> DEFINE data == files[fs_["roll"]].data
             n == Length(SubSeq(data, since + 1, Len(data)))
  <2>1. n <= cur_size_ /\ cur_size_ < MaxSize /\ cur_size_ \in Nat
    BY DEF RollInv
  <2>2. fs_["roll"] \in Names
    BY DEF FlushInv, FilesTypeOK, Sinks
  <2>3. data \in Seq(Msg) /\ since \in Nat
    BY <2>2 DEF FlushInv, FilesTypeOK, File, RollInv
  <2>4. n \in Nat
    <3>1. SubSeq(data, since + 1, Len(data)) \in Seq(Msg)
      BY <2>3
    <3>2. QED
      BY <3>1, LengthAppend
  <2> HIDE DEF n
  <2>5. n < MaxSize
    BY <2>1, <2>4, FlushAssumption DEF FlushAssumption
  <2>6. QED
    BY <2>5 DEF n
<1>2. FlushInit => FlushInv /\ RollInv
  BY InitInv, InitRoll
<1>3. FlushInv /\ RollInv /\ [FlushNext]_flushVars => (FlushInv /\ RollInv)'
  BY NextInv, NextRoll
<1>4. QED
  BY <1>1, <1>2, <1>3, PTL DEF FlushSpec

==============================================================================
