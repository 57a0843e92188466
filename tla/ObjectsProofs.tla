----------------------------- MODULE ObjectsProofs -----------------------------
(***************************************************************************)
(* Proofs about the objects, each part for any values of its constants.    *)
(* The parts have no state in common, so that what is proved of a part     *)
(* holds of every composition that interleaves its steps with others.      *)
(***************************************************************************)
EXTENDS Objects, SequenceTheorems, FiniteSetTheorems, WellFoundedInduction, TLAPS

-----------------------------------------------------------------------------
(* Lists: what they are made of, and that each element is in them once.    *)
Listed(q) == {q[i] : i \in 1 .. Len(q)}
Distinct(q) == \A i, j \in 1 .. Len(q) : q[i] = q[j] => i = j
Rest(q, k) == SubSeq(q, 1, k - 1) \o SubSeq(q, k + 1, Len(q))

LEMMA EmptyListed ==
  ASSUME NEW q, q = <<>>
  PROVE  /\ Listed(q) = {} /\ Distinct(q)
         /\ \A S : q \in Seq(S)
<1>1. Len(q) = 0 /\ 1 .. 0 = {} /\ \A S : q \in Seq(S)
  BY EmptySeq
<1> QED
  BY <1>1 DEF Listed, Distinct

(* A tail of a list holds its last elements.                               *)
LEMMA AfterPlace ==
  ASSUME NEW S, NEW q \in Seq(S), NEW k \in 0 .. Len(q)
  PROVE  LET after == SubSeq(q, k + 1, Len(q))
         IN  /\ after \in Seq(S) /\ Len(after) = Len(q) - k
             /\ \A i \in 1 .. Len(q) - k : after[i] = q[k + i]
<1> DEFINE n == Len(q)
           after == SubSeq(q, k + 1, n)
<1>1. n \in Nat /\ k \in Int /\ k + 1 \in Int /\ \A i \in k + 1 .. n : q[i] \in S
  <2>1. n \in Nat /\ \A i \in 1 .. n : q[i] \in S
    BY LenProperties
  <2> QED
    BY <2>1
<1>2. /\ after \in Seq(S)
      /\ Len(after) = IF k + 1 <= n THEN n - (k + 1) + 1 ELSE 0
      /\ \A i \in 1 .. n - (k + 1) + 1 : after[i] = q[k + 1 + i - 1]
  BY <1>1, SubSeqProperties
<1> HIDE DEF after
<1>3. n - (k + 1) + 1 = n - k /\ \A i \in 1 .. n - k : k + 1 + i - 1 = k + i
  BY <1>1
<1>4. Len(after) = n - k
  <2>1. n \in Nat /\ k \in 0 .. n
    BY <1>1
  <2>2. Len(after) = IF k + 1 <= n THEN n - (k + 1) + 1 ELSE 0
    BY <1>2
  <2> HIDE DEF n
  <2> QED
    BY <2>1, <2>2
<1>5. ASSUME NEW i \in 1 .. n - k PROVE after[i] = q[k + i]
  BY ZenonT(40), <1>2, <1>3
<1> QED
  BY <1>2, <1>4, <1>5 DEF after

(* An element that is taken out leaves the others in their places.         *)
LEMMA RestPlaces ==
  ASSUME NEW S, NEW q \in Seq(S), NEW k \in 1 .. Len(q)
  PROVE  /\ Rest(q, k) \in Seq(S) /\ Len(Rest(q, k)) = Len(q) - 1
         /\ \A i \in 1 .. Len(q) - 1 : Rest(q, k)[i] = IF i < k THEN q[i] ELSE q[i + 1]
<1> DEFINE n == Len(q)
           before == SubSeq(q, 1, k - 1)
           after == SubSeq(q, k + 1, n)
<1>1. n \in Nat /\ k \in Int /\ k - 1 \in Int /\ k \in 0 .. n /\ \A i \in 1 .. n : q[i] \in S
  BY LenProperties
<1>2. /\ before \in Seq(S) /\ Len(before) = k - 1
      /\ \A i \in 1 .. k - 1 : before[i] = q[i]
  BY <1>1, SubSeqProperties
<1>3. /\ after \in Seq(S) /\ Len(after) = n - k
      /\ \A i \in 1 .. n - k : after[i] = q[k + i]
  BY <1>1, AfterPlace
<1>4. Rest(q, k) = before \o after
  BY DEF Rest
<1> HIDE DEF before, after
<1> DEFINE rest == before \o after
<1>5. /\ rest \in Seq(S) /\ Len(rest) = Len(before) + Len(after)
      /\ \A i \in 1 .. Len(before) + Len(after) :
           rest[i] = IF i <= Len(before) THEN before[i] ELSE after[i - Len(before)]
  BY <1>2, <1>3, ConcatProperties
<1> HIDE DEF rest
<1>6. Len(before) + Len(after) = n - 1
  BY <1>1, <1>2, <1>3
<1>7. ASSUME NEW i \in 1 .. n - 1 PROVE rest[i] = IF i < k THEN q[i] ELSE q[i + 1]
  <2>1. rest[i] = IF i <= k - 1 THEN before[i] ELSE after[i - (k - 1)]
    BY <1>2, <1>5, <1>6
  <2>2. CASE i < k
    <3>1. i \in 1 .. k - 1 /\ i <= k - 1
      BY <1>1, <2>2
    <3> QED
      BY <1>2, <2>1, <2>2, <3>1
  <2>3. CASE ~(i < k)
    <3>1. i - (k - 1) \in 1 .. n - k /\ ~(i <= k - 1) /\ k + (i - (k - 1)) = i + 1
      BY <1>1, <2>3
    <3> QED
      BY <1>3, <2>1, <2>3, <3>1
  <2> QED
    BY <2>2, <2>3
<1>8. Rest(q, k) = rest
  BY <1>4 DEF rest
<1> QED
  BY <1>5, <1>6, <1>7, <1>8

LEMMA RestListed ==
  ASSUME NEW S, NEW q \in Seq(S), NEW k \in 1 .. Len(q), Distinct(q)
  PROVE  Distinct(Rest(q, k)) /\ Listed(Rest(q, k)) = Listed(q) \ {q[k]}
<1> DEFINE n == Len(q)
           rest == Rest(q, k)
<1>1. /\ rest \in Seq(S) /\ Len(rest) = n - 1 /\ n \in Nat /\ k \in 1 .. n
      /\ \A i \in 1 .. n - 1 : rest[i] = IF i < k THEN q[i] ELSE q[i + 1]
  BY RestPlaces, LenProperties
<1>2. \A i, j \in 1 .. n : q[i] = q[j] => i = j
  BY DEF Distinct
<1> HIDE DEF rest, n
<1>3. Distinct(rest)
  <2>1. ASSUME NEW i \in 1 .. n - 1, NEW j \in 1 .. n - 1, rest[i] = rest[j] PROVE i = j
    <3>1. {i, j, i + 1, j + 1} \subseteq 1 .. n
      BY <1>1
    <3>2. /\ rest[i] = IF i < k THEN q[i] ELSE q[i + 1]
          /\ rest[j] = IF j < k THEN q[j] ELSE q[j + 1]
      BY <1>1
    <3>3. CASE i < k /\ j < k
      BY <1>2, <2>1, <3>1, <3>2, <3>3
    <3>4. CASE i < k /\ ~(j < k)
      <4>1. i = j + 1
        BY <1>2, <2>1, <3>1, <3>2, <3>4
      <4> QED
        BY <1>1, <3>4, <4>1
    <3>5. CASE ~(i < k) /\ j < k
      <4>1. j = i + 1
        BY <1>2, <2>1, <3>1, <3>2, <3>5
      <4> QED
        BY <1>1, <3>5, <4>1
    <3>6. CASE ~(i < k) /\ ~(j < k)
      <4>1. i + 1 = j + 1
        BY <1>2, <2>1, <3>1, <3>2, <3>6
      <4> QED
        BY <1>1, <4>1
    <3> QED
      BY <3>3, <3>4, <3>5, <3>6
  <2> QED
    BY <1>1, <2>1 DEF Distinct
<1>4. ASSUME NEW i \in 1 .. n - 1 PROVE rest[i] \in Listed(q) \ {q[k]}
  <2>1. {i, i + 1} \subseteq 1 .. n /\ rest[i] = IF i < k THEN q[i] ELSE q[i + 1]
    BY <1>1
  <2>2. rest[i] # q[k]
    BY <1>1, <1>2, <2>1
  <2> QED
    BY <2>1, <2>2 DEF Listed, n
<1>5. ASSUME NEW j \in 1 .. n, q[j] # q[k] PROVE \E i \in 1 .. n - 1 : rest[i] = q[j]
  <2>1. CASE j < k
    <3>1. j \in 1 .. n - 1
      BY <1>1, <2>1
    <3> QED
      BY <1>1, <2>1, <3>1
  <2>2. CASE ~(j < k)
    <3>1. j - 1 \in 1 .. n - 1 /\ ~(j - 1 < k) /\ j - 1 + 1 = j
      BY <1>1, <1>5, <2>2
    <3>2. rest[j - 1] = q[j]
      BY <1>1, <3>1
    <3> QED
      BY <3>1, <3>2
  <2> QED
    BY <2>1, <2>2
<1>6. Listed(rest) = Listed(q) \ {q[k]}
  BY <1>1, <1>4, <1>5 DEF Listed, n
<1> QED
  BY <1>3, <1>6 DEF rest

LEMMA AppendListed ==
  ASSUME NEW S, NEW q \in Seq(S), NEW e \in S
  PROVE  /\ Append(q, e) \in Seq(S) /\ Listed(Append(q, e)) = Listed(q) \cup {e}
         /\ Distinct(q) /\ e \notin Listed(q) => Distinct(Append(q, e))
<1> DEFINE n == Len(q)
           longer == Append(q, e)
<1>1. /\ longer \in Seq(S) /\ Len(longer) = n + 1 /\ n \in Nat
      /\ longer[n + 1] = e /\ \A i \in 1 .. n : longer[i] = q[i]
  BY AppendProperties, LenProperties
<1> HIDE DEF longer, n
<1>2. n + 1 \in 1 .. n + 1 /\ \A i \in 1 .. n + 1 : i \in 1 .. n \/ i = n + 1
  BY <1>1
<1>3. \A i \in 1 .. n : i \in 1 .. n + 1
  BY <1>1
<1>4. Listed(longer) = {longer[i] : i \in 1 .. n + 1} /\ Listed(q) = {q[i] : i \in 1 .. n}
  BY <1>1 DEF Listed, n
<1>5. Listed(longer) = Listed(q) \cup {e}
  BY <1>1, <1>2, <1>3, <1>4
<1>6. ASSUME Distinct(q), e \notin Listed(q) PROVE Distinct(longer)
  <2>1. \A i, j \in 1 .. n : q[i] = q[j] => i = j
    BY <1>6 DEF Distinct, n
  <2>2. \A i \in 1 .. n : q[i] # e
    BY <1>4, <1>6
  <2> QED
    BY <1>1, <1>2, <2>1, <2>2 DEF Distinct
<1> QED
  BY <1>1, <1>5, <1>6 DEF longer

LEMMA TailListed ==
  ASSUME NEW S, NEW q \in Seq(S), q # <<>>
  PROVE  /\ Head(q) \in S /\ Head(q) \in Listed(q) /\ Tail(q) \in Seq(S)
         /\ Listed(Tail(q)) \subseteq Listed(q)
         /\ Listed(q) \subseteq Listed(Tail(q)) \cup {Head(q)}
         /\ Distinct(q) => Distinct(Tail(q)) /\ Head(q) \notin Listed(Tail(q))
<1> DEFINE n == Len(q)
           tail == Tail(q)
<1>1. /\ tail \in Seq(S) /\ Len(tail) = n - 1 /\ Head(q) \in S
      /\ \A i \in 1 .. Len(tail) : tail[i] = q[i + 1]
  BY HeadTailProperties
<1>2. n \in Nat /\ n # 0 /\ Head(q) = q[1]
  BY EmptySeq, LenProperties
<1> HIDE DEF tail, n
<1>3. 1 \in 1 .. n /\ \A i \in 1 .. n - 1 : i + 1 \in 1 .. n
  BY <1>2
<1>4. \A j \in 1 .. n : j = 1 \/ (j - 1 \in 1 .. n - 1 /\ j - 1 + 1 = j)
  BY <1>2
<1>5. Listed(tail) = {tail[i] : i \in 1 .. n - 1} /\ Listed(q) = {q[i] : i \in 1 .. n}
  BY <1>1 DEF Listed, n
<1>6. Head(q) \in Listed(q) /\ Listed(tail) \subseteq Listed(q)
  BY <1>1, <1>2, <1>3, <1>5
<1>7. ASSUME NEW j \in 1 .. n PROVE q[j] \in Listed(tail) \cup {Head(q)}
  <2>1. CASE j = 1
    BY <1>2, <2>1
  <2>2. CASE j # 1
    <3>1. j - 1 \in 1 .. n - 1 /\ j - 1 + 1 = j
      BY <1>4, <2>2
    <3>2. tail[j - 1] = q[j]
      BY <1>1, <3>1
    <3> QED
      BY <1>5, <3>1, <3>2
  <2> QED
    BY <2>1, <2>2
<1>8. ASSUME Distinct(q) PROVE Distinct(tail) /\ Head(q) \notin Listed(tail)
  <2>1. \A i, j \in 1 .. n : q[i] = q[j] => i = j
    BY <1>8 DEF Distinct, n
  <2>2. ASSUME NEW i \in 1 .. n - 1 PROVE tail[i] # Head(q)
    <3>1. i + 1 \in 1 .. n /\ i + 1 # 1 /\ 1 \in 1 .. n
      BY <1>2, <1>3
    <3> QED
      BY <1>1, <1>2, <2>1, <3>1
  <2>3. ASSUME NEW i \in 1 .. n - 1, NEW j \in 1 .. n - 1, tail[i] = tail[j] PROVE i = j
    <3>1. i + 1 \in 1 .. n /\ j + 1 \in 1 .. n /\ q[i + 1] = q[j + 1]
      BY <1>1, <1>3, <2>3
    <3>2. i + 1 = j + 1
      BY <2>1, <3>1
    <3> QED
      BY <1>2, <3>2
  <2> QED
    BY <1>1, <1>5, <2>2, <2>3 DEF Distinct
<1>9. Listed(q) \subseteq Listed(tail) \cup {Head(q)}
  BY <1>5, <1>7
<1> QED
  BY <1>1, <1>6, <1>8, <1>9 DEF tail

Least(I) == CHOOSE x \in I : \A y \in I : x =< y

LEMMA LeastPlace ==
  ASSUME NEW n \in Nat, NEW I \in SUBSET (1 .. n), I # {}
  PROVE  Least(I) \in I
<1> DEFINE Less == OpToRel(<, Nat)
<1>1. I \subseteq Nat
  OBVIOUS
<1>2. PICK x \in I : \A y \in I : ~ (<<y, x>> \in Less)
  BY ZenonT(40), <1>1, NatLessThanWellFounded, WFMin
<1>3. ASSUME NEW y \in I PROVE x =< y
  <2>1. y \in Nat /\ x \in Nat /\ ~(y < x)
    BY <1>1, <1>2 DEF OpToRel
  <2> QED
    BY <2>1
<1> QED
  BY <1>3 DEF Least

-----------------------------------------------------------------------------
(* Exported surfaces: no surface keeps a parent that is gone.              *)

(* A surface has a parent by an import of the parent which names it.       *)
Related(s) ==
  parents[s] # None =>
    /\ {s, parents[s]} \subseteq surfaces
    /\ \E i \in imports : HasSource(i) /\ surface[i] = parents[s] /\ child[i] = s

(* Besides the relations themselves, what an import can still make a       *)
(* parent of has to exist, and what is no import listens to no export.     *)
Listened == \A i \in imports : surface[i] # None => surface[i] \in surfaces
Unused == \A i \in Imported \ imports : export[i] = None
ForeignInv == TypeOK /\ Unused /\ (fault = "none" => Listened /\ \A s \in Surface : Related(s))

LEMMA ForeignInitInv == Assumptions /\ Init => ForeignInv
BY DEF Assumptions, Init, ForeignInv, TypeOK, Unused, Listened, Related

LEMMA ForeignWithoutTypes ==
  ASSUME TypeOK, NEW cs
  PROVE  Without(cs) \in [Surface -> Surface \cup {None}]
BY DEF TypeOK, Without

LEMMA ForeignExportInv ==
  ASSUME Assumptions, ForeignInv, fault = "none", NEW e \in Exported, NEW s \in Surface,
         ExportToplevel(e, s)
  PROVE  ForeignInv'
<1>1. TypeOK'
  <2>1. export' \in [Imported -> exports' \cup {None}]
    BY DEF ForeignInv, TypeOK, ExportToplevel
  <2> QED
    BY <2>1 DEF ForeignInv, TypeOK, ExportToplevel
<1>2. Unused' /\ Listened' /\ \A t \in Surface : Related(t)'
  BY DEF ForeignInv, Unused, Listened, Related, HasSource, ExportToplevel
<1> QED
  BY <1>1, <1>2 DEF ForeignInv

LEMMA ForeignDestroyExportedInv ==
  ASSUME Assumptions, ForeignInv, fault = "none", NEW e \in Exported, DestroyExported(e)
  PROVE  ForeignInv'
<1> DEFINE listening == {i \in imports : export[i] = e}
<1>1. TypeOK'
  <2>1. export' \in [Imported -> exports' \cup {None}]
    <3>1. ASSUME NEW i \in Imported PROVE export'[i] \in exports' \cup {None}
      <4>1. export[i] \in exports \cup {None}
        BY DEF ForeignInv, TypeOK
      <4>2. export'[i] = IF i \in listening THEN None ELSE export[i]
        BY DEF DestroyExported
      <4>3. exports' = exports \ {e}
        BY DEF DestroyExported
      <4> QED
        BY <4>1, <4>2, <4>3 DEF ForeignInv, Unused
    <3> QED
      BY <3>1 DEF DestroyExported
  <2>2. parents' \in [Surface -> Surface \cup {None}]
    BY ForeignWithoutTypes DEF DestroyExported, Orphaned, ForeignInv
  <2> QED
    BY <2>1, <2>2 DEF ForeignInv, TypeOK, DestroyExported
<1>2. Unused' /\ Listened'
  BY DEF ForeignInv, Unused, Listened, DestroyExported
<1>3. ASSUME NEW s \in Surface, parents'[s] # None PROVE Related(s)'
  <2>1. s \notin ChildrenOf(listening) /\ parents'[s] = parents[s]
    BY <1>3 DEF DestroyExported, Orphaned, Without
  <2>2. PICK i \in imports : HasSource(i) /\ surface[i] = parents[s] /\ child[i] = s
    BY <1>3, <2>1 DEF ForeignInv, Related
  <2>3. i \notin listening
    BY <2>1, <2>2 DEF ChildrenOf
  <2>4. export'[i] = export[i]
    BY <2>3 DEF DestroyExported, ForeignInv, TypeOK
  <2> QED
    <3>1. /\ surfaces' = surfaces /\ imports' = imports
          /\ surface' = surface /\ child' = child
      BY DEF DestroyExported
    <3>2. {s, parents[s]} \subseteq surfaces
      BY <1>3, <2>1 DEF ForeignInv, Related
    <3> QED
      BY <2>1, <2>2, <2>4, <3>1, <3>2 DEF Related, HasSource
<1> QED
  BY <1>1, <1>2, <1>3 DEF ForeignInv, Related

LEMMA ForeignImportInv ==
  ASSUME Assumptions, ForeignInv, fault = "none", NEW i \in Imported, NEW e \in Exported,
         ImportToplevel(i, e)
  PROVE  ForeignInv'
<1>1. CASE surfaceOf[e] \notin surfaces
  BY <1>1 DEF ImportToplevel, ForeignInv, TypeOK, Unused
<1>2. CASE surfaceOf[e] \in surfaces
  <2>1. i \notin imports /\ e \in exports /\ i \in Imported
    BY <1>2 DEF ImportToplevel
  <2>2. /\ imports' = imports \cup {i} /\ fault' = fault
        /\ \A j \in Imported : /\ export'[j] = IF j = i THEN e ELSE export[j]
                               /\ surface'[j] = IF j = i THEN surfaceOf[e] ELSE surface[j]
                               /\ child'[j] = IF j = i THEN None ELSE child[j]
        /\ UNCHANGED <<surfaces, exports, surfaceOf, parents>>
    BY <1>2 DEF ImportToplevel, ForeignInv, TypeOK
  <2>3. TypeOK'
    BY <1>2, <2>1 DEF ImportToplevel, ForeignInv, TypeOK
  <2>4. Unused' /\ Listened'
    BY <1>2, <2>2 DEF ForeignInv, TypeOK, Unused, Listened
  <2>5. ASSUME NEW s \in Surface, parents[s] # None PROVE Related(s)'
    <3>1. PICK j \in imports : HasSource(j) /\ surface[j] = parents[s] /\ child[j] = s
      BY <2>5 DEF ForeignInv, Related
    <3>2. j # i /\ j \in Imported
      BY <2>1 DEF ForeignInv, TypeOK
    <3>3. {s, parents[s]} \subseteq surfaces
      BY <2>5 DEF ForeignInv, Related
    <3> QED
      BY <2>2, <3>1, <3>2, <3>3 DEF Related, HasSource
  <2> QED
    BY <2>2, <2>3, <2>4, <2>5 DEF ForeignInv, Related
<1> QED
  BY <1>1, <1>2

LEMMA ForeignSetParentInv ==
  ASSUME Assumptions, ForeignInv, fault = "none", NEW i \in Imported, NEW c \in Surface,
         SetParentOf(i, c)
  PROVE  ForeignInv'
<1>1. i \in imports /\ c \in surfaces /\ c # child[i]
  BY DEF SetParentOf
<1>2. /\ UNCHANGED <<surfaces, exports, surfaceOf, imports, export, surface, fault>>
      /\ child' \in [Imported -> Surface \cup {None}]
      /\ child'[i] = c /\ \A j \in Imported \ {i} : child'[j] = child[j]
  BY DEF SetParentOf, ForeignInv, TypeOK
<1>3. parents' \in [Surface -> Surface \cup {None}]
  <2>1. \A s \in Surface : Without({child[i]})[s] \in Surface \cup {None}
    BY ZenonT(40), ForeignWithoutTypes DEF ForeignInv
  <2>2. surface[i] \in Surface \cup {None}
    BY DEF ForeignInv, TypeOK
  <2> QED
    BY <2>1, <2>2 DEF SetParentOf, ParentsWith
<1>4. TypeOK' /\ Unused' /\ Listened'
  BY <1>2, <1>3 DEF ForeignInv, TypeOK, Unused, Listened
<1>5. ASSUME NEW s \in Surface, parents'[s] # None PROVE Related(s)'
  <2>1. CASE s = c /\ HasSource(i)
    <3>1. parents'[s] = surface[i]
      BY <2>1 DEF SetParentOf, ParentsWith
    <3>2. surface[i] \in surfaces
      BY <1>1, <2>1 DEF ForeignInv, Listened, HasSource
    <3> QED
      BY <1>1, <1>2, <2>1, <3>1, <3>2 DEF Related, HasSource
  <2>2. CASE ~(s = c /\ HasSource(i))
    <3>1. s # child[i] /\ parents'[s] = parents[s]
      BY <1>5, <2>2 DEF SetParentOf, ParentsWith, Without
    <3>2. PICK j \in imports : HasSource(j) /\ surface[j] = parents[s] /\ child[j] = s
      BY <1>5, <3>1 DEF ForeignInv, Related
    <3>3. j # i /\ j \in Imported /\ {s, parents[s]} \subseteq surfaces
      BY <1>5, <3>1, <3>2 DEF ForeignInv, TypeOK, Related
    <3> QED
      BY <1>2, <3>1, <3>2, <3>3 DEF Related, HasSource
  <2> QED
    BY <2>1, <2>2
<1> QED
  BY <1>2, <1>4, <1>5 DEF ForeignInv, Related

LEMMA ForeignDestroyImportedInv ==
  ASSUME Assumptions, ForeignInv, fault = "none", NEW i \in Imported, DestroyImported(i)
  PROVE  ForeignInv'
<1>1. /\ imports' = imports \ {i} /\ UNCHANGED <<surfaces, exports, surfaceOf, fault>>
      /\ \A j \in Imported : /\ export'[j] = IF j = i THEN None ELSE export[j]
                             /\ surface'[j] = IF j = i THEN None ELSE surface[j]
                             /\ child'[j] = IF j = i THEN None ELSE child[j]
  BY DEF DestroyImported, ForeignInv, TypeOK
<1>2. TypeOK'
  <2>1. parents' \in [Surface -> Surface \cup {None}]
    BY ForeignWithoutTypes DEF DestroyImported, ForeignInv, TypeOK
  <2> QED
    BY <2>1 DEF DestroyImported, ForeignInv, TypeOK
<1>3. Unused' /\ Listened'
  BY <1>1 DEF ForeignInv, TypeOK, Unused, Listened
<1>4. ASSUME NEW s \in Surface, parents'[s] # None PROVE Related(s)'
  <2>1. parents'[s] = parents[s] /\ (HasSource(i) => s # child[i])
    BY <1>4 DEF DestroyImported, Without
  <2>2. PICK j \in imports : HasSource(j) /\ surface[j] = parents[s] /\ child[j] = s
    BY <1>4, <2>1 DEF ForeignInv, Related
  <2>3. j # i /\ j \in Imported /\ {s, parents[s]} \subseteq surfaces
    BY <1>4, <2>1, <2>2 DEF ForeignInv, TypeOK, Related
  <2> QED
    BY <1>1, <2>1, <2>2, <2>3 DEF Related, HasSource
<1> QED
  BY <1>1, <1>2, <1>3, <1>4 DEF ForeignInv, Related

(* The end of a surface is the step that needs both directions: its        *)
(* children lose their parent through the imports that listen to it, and   *)
(* it loses its own through the imports that name it.                      *)
LEMMA ForeignDestroySurfaceInv ==
  ASSUME Assumptions, ForeignInv, fault = "none", NEW s \in Surface, DestroySurface(s)
  PROVE  ForeignInv'
<1> DEFINE ofChild == {i \in imports : child[i] = s}
           listening == {i \in imports : surface[i] = s}
<1>1. CASE ~ \A i \in ofChild : HasSource(i)
  BY <1>1 DEF DestroySurface, ForeignInv, TypeOK, Unused
<1>2. CASE \A i \in ofChild : HasSource(i)
  <2>1. /\ surfaces' = surfaces \ {s}
        /\ UNCHANGED <<exports, surfaceOf, imports, export, fault>>
        /\ surface' = [i \in Imported |-> IF i \in listening THEN None ELSE surface[i]]
        /\ child' = [i \in Imported |-> IF i \in ofChild THEN None ELSE child[i]]
        /\ parents' = [Orphaned(listening) EXCEPT ![s] = IF ofChild = {} THEN @ ELSE None]
    BY <1>2 DEF DestroySurface
  <2>2. Orphaned(listening) \in [Surface -> Surface \cup {None}]
    BY ForeignWithoutTypes DEF Orphaned, ForeignInv
  <2> HIDE DEF listening, ofChild
  <2>3. TypeOK'
    <3>1. parents' \in [Surface -> Surface \cup {None}]
      BY <2>1, <2>2
    <3> QED
      BY <2>1, <3>1 DEF ForeignInv, TypeOK
  <2>4. Unused' /\ Listened'
    BY <2>1 DEF ForeignInv, TypeOK, Unused, Listened, listening
  <2>5. ASSUME NEW t \in Surface, parents'[t] # None PROVE Related(t)'
    <3>1. parents'[t] = parents[t] /\ t \notin ChildrenOf(listening) /\ (t = s => ofChild = {})
      BY <2>1, <2>2, <2>5 DEF Orphaned, Without
    <3>2. PICK i \in imports : HasSource(i) /\ surface[i] = parents[t] /\ child[i] = t
      BY <2>5, <3>1 DEF ForeignInv, Related
    <3>3. i \in Imported /\ {t, parents[t]} \subseteq surfaces
      BY <2>5, <3>1 DEF ForeignInv, TypeOK, Related
    <3>4. i \notin listening /\ surface[i] # s
      BY <3>1, <3>2 DEF ChildrenOf, listening
    <3>5. t # s /\ i \notin ofChild
      BY <3>1, <3>2 DEF ofChild
    <3>6. surface'[i] = surface[i] /\ child'[i] = child[i]
      BY <2>1, <3>3, <3>4, <3>5
    <3> QED
      BY <2>1, <3>1, <3>2, <3>3, <3>4, <3>5, <3>6 DEF Related, HasSource
  <2> QED
    BY <2>1, <2>3, <2>4, <2>5 DEF ForeignInv, Related
<1> QED
  BY <1>1, <1>2

LEMMA ForeignNextInv == Assumptions /\ ForeignInv /\ [Next]_vars => ForeignInv'
<1> SUFFICES ASSUME Assumptions, ForeignInv, [Next]_vars PROVE ForeignInv'
  OBVIOUS
<1>1. CASE UNCHANGED vars
  BY <1>1 DEF vars, ForeignInv, TypeOK, Unused, Listened, Related, HasSource
<1>2. CASE Next
  BY <1>2, ForeignExportInv, ForeignDestroyExportedInv, ForeignImportInv, ForeignSetParentInv, ForeignDestroyImportedInv,
     ForeignDestroySurfaceInv DEF Next
<1> QED
  BY <1>1, <1>2

(* Whoever goes first, an export, an import, the parent or the child, ends *)
(* the relation, for any number of clients that import the same surface    *)
(* and of imports that name the same child (xdg_foreign_v2.cpp:162-172,    *)
(* 277-300, 319-335).                                                      *)
THEOREM RelationAliveCorrect ==
  ASSUME Assumptions
  PROVE  Spec => []RelationAlive
<1>1. ForeignInv => RelationAlive
  BY DEF ForeignInv, Related, RelationAlive
<1> QED
  BY <1>1, ForeignInitInv, ForeignNextInv, PTL DEF Spec

-----------------------------------------------------------------------------
(* Leases: a bind is told of each connector once.                          *)

(* Who was not served yet heard of no connector, nobody heard of one that  *)
(* does not exist, and who was served heard of each that is offered.       *)
Unserved == LeaseBind \ (leaseActive \cup leaseGone)
LeaseTypes ==
  /\ leaseWaiting \in Seq(LeaseBind) /\ Distinct(leaseWaiting)
  /\ leaseActive \subseteq LeaseBind /\ Listed(leaseWaiting) \subseteq Unserved
  /\ offered \subseteq connectors /\ connectors \subseteq Connector
  /\ connectors \cap destroyed = {}
  /\ told \in [LeaseBind -> [Connector -> Nat]]
  /\ ~device => leaseWaiting = <<>> /\ leaseActive = {}
ToldAll == \A b \in leaseActive, c \in offered : told[b][c] = 1
ToldNone ==
  /\ device => \A b \in Unserved, c \in Connector : told[b][c] = 0
  /\ \A b \in LeaseBind, c \in Connector \ (connectors \cup destroyed) : told[b][c] = 0
LeaseInv == LeaseTypes /\ ToldAll /\ ToldNone

LEMMA LeaseInit == Leases!Init => LeaseInv
<1> SUFFICES ASSUME Leases!Init PROVE LeaseInv
  OBVIOUS
<1>1. leaseWaiting \in Seq(LeaseBind) /\ Distinct(leaseWaiting) /\ Listed(leaseWaiting) = {}
  BY EmptyListed DEF Leases!Init
<1>2. /\ told \in [LeaseBind -> [Connector -> Nat]]
      /\ \A b \in LeaseBind, c \in Connector : told[b][c] = 0
  BY DEF Leases!Init
<1>3. leaseActive = {} /\ connectors = {} /\ offered = {} /\ device = TRUE
  BY DEF Leases!Init
<1> QED
  BY <1>1, <1>2, <1>3 DEF LeaseInv, LeaseTypes, ToldAll, ToldNone, Unserved

LEMMA SentTo ==
  ASSUME told \in [LeaseBind -> [Connector -> Nat]], NEW bs, NEW cs, Leases!Send(bs, cs)
  PROVE  /\ told' \in [LeaseBind -> [Connector -> Nat]]
         /\ \A b \in LeaseBind, c \in Connector :
              told'[b][c] = IF b \in bs /\ c \in cs THEN told[b][c] + 1 ELSE told[b][c]
<1>1. \A b \in LeaseBind, c \in Connector : told[b][c] \in Nat
  OBVIOUS
<1>2. told' = [b \in LeaseBind |-> [c \in Connector |->
                 told[b][c] + IF b \in bs /\ c \in cs THEN 1 ELSE 0]]
  BY DEF Leases!Send
<1>3. ASSUME NEW b \in LeaseBind, NEW c \in Connector
      PROVE  /\ told'[b][c] = IF b \in bs /\ c \in cs THEN told[b][c] + 1 ELSE told[b][c]
             /\ told'[b][c] \in Nat
  <2>1. told[b][c] \in Nat
    BY <1>1
  <2>2. told'[b][c] = told[b][c] + IF b \in bs /\ c \in cs THEN 1 ELSE 0
    BY <1>2
  <2> QED
    BY <2>1, <2>2
<1> QED
  BY <1>2, <1>3

LEMMA LeaseRemoved ==
  ASSUME NEW S, NEW q \in Seq(S), NEW e, Distinct(q)
  PROVE  /\ Leases!RemoveOne(q, e) \in Seq(S) /\ Distinct(Leases!RemoveOne(q, e))
         /\ Listed(Leases!RemoveOne(q, e)) = Listed(q) \ {e}
<1> DEFINE I == {i \in 1 .. Len(q) : q[i] = e}
<1>1. Len(q) \in Nat
  BY LenProperties
<1>2. CASE I = {}
  <2>1. Leases!RemoveOne(q, e) = q
    BY <1>2 DEF Leases!RemoveOne, Leases!EraseFirst
  <2>2. e \notin Listed(q)
    BY <1>2 DEF Listed
  <2> QED
    BY <2>1, <2>2
<1>3. CASE I # {}
  <2> DEFINE k == Least(I)
  <2>1. k \in I
    <3>1. \A S1 \in SUBSET (1 .. Len(q)) : S1 # {} => Least(S1) \in S1
      BY <1>1, LeastPlace
    <3> QED
      BY <1>3, <3>1
  <2>2. Leases!RemoveOne(q, e) = Rest(q, k)
    BY <1>3 DEF Leases!RemoveOne, Leases!EraseFirst, Rest, Least
  <2> HIDE DEF k
  <2>3. k \in 1 .. Len(q) /\ q[k] = e
    BY <2>1
  <2> QED
    BY <2>2, <2>3, RestPlaces, RestListed
<1> QED
  BY <1>2, <1>3


LEMMA LeaseBinds ==
  ASSUME LeaseInv, NEW b \in LeaseBind, Leases!BindDevice(b) \/ Leases!Release(b)
  PROVE  LeaseInv'
<1>1. CASE Leases!BindDevice(b)
  <2>1. /\ device /\ b \notin Leases!Range(leaseWaiting) \cup leaseActive \cup leaseGone
        /\ leaseWaiting' = Append(leaseWaiting, b)
        /\ UNCHANGED <<device, leaseActive, leaseGone, connectors, offered, destroyed, told>>
    BY <1>1 DEF Leases!BindDevice
  <2>2. DOMAIN leaseWaiting = 1 .. Len(leaseWaiting)
    BY LenProperties DEF LeaseInv, LeaseTypes
  <2>3. b \notin Listed(leaseWaiting)
    BY <2>1, <2>2 DEF Leases!Range, Listed
  <2>4. /\ leaseWaiting' \in Seq(LeaseBind) /\ Distinct(leaseWaiting')
        /\ Listed(leaseWaiting') = Listed(leaseWaiting) \cup {b}
    BY <2>1, <2>3, AppendListed DEF LeaseInv, LeaseTypes
  <2>5. LeaseTypes'
    BY <2>1, <2>4 DEF LeaseInv, LeaseTypes, Unserved
  <2> QED
    BY <2>1, <2>5 DEF LeaseInv, ToldAll, ToldNone, Unserved
<1>2. CASE Leases!Release(b)
  <2>1. /\ device /\ leaseWaiting' = Leases!RemoveOne(leaseWaiting, b)
        /\ leaseActive' = leaseActive \ {b} /\ leaseGone' = leaseGone \cup {b}
        /\ UNCHANGED <<device, connectors, offered, destroyed, told>>
    BY <1>2 DEF Leases!Release
  <2>2. /\ leaseWaiting' \in Seq(LeaseBind) /\ Distinct(leaseWaiting')
        /\ Listed(leaseWaiting') = Listed(leaseWaiting) \ {b}
    BY <2>1, LeaseRemoved DEF LeaseInv, LeaseTypes
  <2>3. LeaseTypes'
    BY <2>1, <2>2 DEF LeaseInv, LeaseTypes, Unserved
  <2> QED
    BY <2>1, <2>3 DEF LeaseInv, ToldAll, ToldNone, Unserved
<1> QED
  BY <1>1, <1>2

LEMMA LeaseConnectors ==
  ASSUME LeaseInv, NEW c \in Connector, Leases!CreateConnector(c) \/ Leases!DestroyConnector(c)
  PROVE  LeaseInv'
<1>1. CASE Leases!CreateConnector(c)
  <2>1. /\ device /\ c \notin connectors \cup destroyed
        /\ connectors' = connectors \cup {c} /\ offered' = offered \cup {c}
        /\ UNCHANGED <<device, leaseWaiting, leaseActive, leaseGone, destroyed>>
        /\ Leases!Send(leaseActive, {c})
    BY <1>1 DEF Leases!CreateConnector, Leases!Listening
  <2>2. /\ told' \in [LeaseBind -> [Connector -> Nat]]
        /\ \A b \in LeaseBind, d \in Connector :
             told'[b][d] = IF b \in leaseActive /\ d \in {c} THEN told[b][d] + 1 ELSE told[b][d]
    BY <2>1, SentTo DEF LeaseInv, LeaseTypes
  <2>3. LeaseTypes'
    BY <2>1, <2>2 DEF LeaseInv, LeaseTypes, Unserved
  <2>4. ToldAll'
    BY <2>1, <2>2 DEF LeaseInv, LeaseTypes, ToldAll, ToldNone
  <2>5. ToldNone'
    BY <2>1, <2>2 DEF LeaseInv, LeaseTypes, ToldNone, Unserved
  <2> QED
    BY <2>3, <2>4, <2>5 DEF LeaseInv
<1>2. CASE Leases!DestroyConnector(c)
  BY <1>2 DEF Leases!DestroyConnector, LeaseInv, LeaseTypes, ToldAll, ToldNone, Unserved
<1> QED
  BY <1>1, <1>2

LEMMA LeaseServes ==
  ASSUME LeaseInv, Leases!UpdateFd
  PROVE  LeaseInv'
<1> DEFINE b == Head(leaseWaiting)
<1>1. /\ device /\ leaseWaiting # <<>> /\ Leases!Send({b}, offered)
      /\ leaseWaiting' = Tail(leaseWaiting) /\ leaseActive' = leaseActive \cup {b}
      /\ UNCHANGED <<device, leaseGone, connectors, offered, destroyed>>
  BY DEF Leases!UpdateFd
<1>2. /\ b \in LeaseBind /\ b \in Listed(leaseWaiting) /\ leaseWaiting' \in Seq(LeaseBind)
      /\ Listed(leaseWaiting') \subseteq Listed(leaseWaiting) \ {b} /\ Distinct(leaseWaiting')
  BY <1>1, TailListed DEF LeaseInv, LeaseTypes
<1>3. /\ told' \in [LeaseBind -> [Connector -> Nat]]
      /\ \A a \in LeaseBind, c \in Connector :
           told'[a][c] = IF a \in {b} /\ c \in offered THEN told[a][c] + 1 ELSE told[a][c]
  BY <1>1, SentTo DEF LeaseInv, LeaseTypes
<1> HIDE DEF b
<1>4. b \in Unserved
  BY <1>2 DEF LeaseInv, LeaseTypes
<1>5. LeaseTypes'
  BY <1>1, <1>2, <1>3 DEF LeaseInv, LeaseTypes, Unserved
<1>6. ToldAll'
  BY <1>1, <1>3, <1>4 DEF LeaseInv, LeaseTypes, ToldAll, ToldNone, Unserved
<1>7. ToldNone'
  <2>1. \A c \in Connector \ (connectors \cup destroyed) : c \notin offered
    BY DEF LeaseInv, LeaseTypes
  <2>2. Unserved' \subseteq Unserved /\ b \notin Unserved'
    BY <1>1 DEF Unserved
  <2>3. ASSUME device', NEW a \in Unserved', NEW c \in Connector
        PROVE  told'[a][c] = 0
    <3>1. /\ a # b /\ a \in Unserved /\ a \in LeaseBind /\ device /\ told[a][c] = 0
      BY <1>1, <2>2, <2>3 DEF LeaseInv, LeaseTypes, ToldNone, Unserved
    <3> QED
      BY <1>3, <3>1
  <2>4. ASSUME NEW a \in LeaseBind, NEW c \in Connector \ (connectors \cup destroyed)'
        PROVE  told'[a][c] = 0
    <3>1. /\ c \in Connector \ (connectors \cup destroyed) /\ told[a][c] = 0
      BY <1>1 DEF LeaseInv, ToldNone
    <3> QED
      BY <1>3, <2>1, <3>1
  <2> QED
    BY <2>3, <2>4 DEF ToldNone
<1> QED
  BY <1>5, <1>6, <1>7 DEF LeaseInv

LEMMA LeaseNext == LeaseInv /\ [Leases!Next]_(Leases!vars) => LeaseInv'
<1> SUFFICES ASSUME LeaseInv, [Leases!Next]_(Leases!vars) PROVE LeaseInv'
  OBVIOUS
<1>1. CASE UNCHANGED <<device, leaseWaiting, leaseActive, leaseGone, connectors, offered,
                       destroyed, told>>
  BY <1>1 DEF LeaseInv, LeaseTypes, ToldAll, ToldNone, Unserved
<1>2. CASE Leases!DestroyDevice
  <2>1. /\ leaseWaiting' = <<>> /\ leaseActive' = {} /\ offered' = {} /\ device' = FALSE
        /\ UNCHANGED <<leaseGone, connectors, destroyed, told>>
    BY <1>2 DEF Leases!DestroyDevice
  <2>2. /\ leaseWaiting' \in Seq(LeaseBind) /\ Distinct(leaseWaiting')
        /\ Listed(leaseWaiting') = {}
    BY <2>1, EmptyListed
  <2> QED
    BY <2>1, <2>2 DEF LeaseInv, LeaseTypes, ToldAll, ToldNone
<1>3. ASSUME NEW b \in LeaseBind, NEW c \in Connector, Leases!DestroyResource(b, c) PROVE LeaseInv'
  BY <1>1, <1>3 DEF Leases!DestroyResource
<1>4. ASSUME NEW r \in LeaseRequest, Leases!CreateRequest(r) \/ Leases!Submit(r) PROVE LeaseInv'
  BY <1>1, <1>4 DEF Leases!CreateRequest, Leases!Submit
<1>5. ASSUME NEW r \in LeaseRequest, NEW b \in LeaseBind, NEW c \in Connector,
             Leases!RequestConnector(r, b, c)
      PROVE LeaseInv'
  BY <1>1, <1>5 DEF Leases!RequestConnector
<1>6. CASE UNCHANGED Leases!vars
  BY <1>1, <1>6 DEF Leases!vars
<1> QED
  BY <1>2, <1>3, <1>4, <1>5, <1>6, LeaseBinds, LeaseConnectors, LeaseServes DEF Leases!Next

(* A bind is told of every connector of the device once, for any number of *)
(* binds, connectors and requests, whichever was there first               *)
(* (drm_lease_v1.cpp:77-93, 118-140).                                      *)
THEOREM ToldOnceCorrect == Leases!Spec => []ToldOnce
<1>1. LeaseInv => ToldOnce
  <2> SUFFICES ASSUME LeaseInv PROVE ToldOnce
    OBVIOUS
  <2>1. DOMAIN leaseWaiting = 1 .. Len(leaseWaiting)
    BY LenProperties DEF LeaseInv, LeaseTypes
  <2>2. Leases!Range(leaseWaiting) = Listed(leaseWaiting)
    BY <2>1 DEF Leases!Range, Listed
  <2>3. leaseWaiting # <<>> => device
    BY DEF LeaseInv, LeaseTypes
  <2>4. Listed(<<>>) = {}
    BY EmptyListed
  <2> QED
    BY <2>2, <2>3, <2>4 DEF LeaseInv, LeaseTypes, ToldAll, ToldNone, ToldOnce, Leases!ToldOnce
<1> QED
  BY <1>1, LeaseInit, LeaseNext, PTL DEF Leases!Spec

-----------------------------------------------------------------------------
(* Dma-bufs: every descriptor that was sent has one owner.                 *)

(* A descriptor is held once at most, by the params or by the buffer, and  *)
(* was closed once if it is not held.  The planes are counted until they   *)
(* are asked for, so that a gapless count means that none is left behind.  *)
Filled == {i \in Params!Index : planes[i].fd # None}
HeldFd(fd) == (\E i \in Params!Index : planes[i].fd = fd) \/ (\E p \in buffer : p.fd = fd)
ParamsTypes ==
  /\ planes \in [Params!Index -> Params!Plane] /\ buffer \subseteq Params!Plane
  /\ sent \subseteq Fd /\ closed \in [Fd -> Nat] /\ requested \in BOOLEAN
OneHolder ==
  /\ \A i, j \in Params!Index : planes[i].fd = planes[j].fd => i = j \/ planes[i].fd = None
  /\ \A p, r \in buffer : p.fd = r.fd => p = r
  /\ \A i \in Params!Index, p \in buffer : planes[i].fd # p.fd
  /\ \A p \in buffer : p.fd # None
ClosedUnheld ==
  \A fd \in Fd : /\ HeldFd(fd) => fd \in sent
                 /\ closed[fd] = IF fd \in sent /\ ~HeldFd(fd) THEN 1 ELSE 0
Counted == ~requested => buffer = {} /\ (params => count = Cardinality(Filled))
ParamsInv == ParamsTypes /\ OneHolder /\ ClosedUnheld /\ Counted

(* The standard modules of the instance are those of this module.          *)
LEMMA ParamsCardinality == \A S : Params!Cardinality(S) = Cardinality(S)
BY DEF Params!Cardinality, Cardinality

LEMMA FilledFinite ==
  ASSUME Params!Assumptions
  PROVE  IsFiniteSet(Filled) /\ Cardinality(Filled) \in Nat /\ Cardinality(Filled) <= Planes
<1>1. Planes \in Nat /\ Planes # 0
  BY DEF Params!Assumptions
<1>2. IsFiniteSet(0 .. Planes - 1) /\ Cardinality(0 .. Planes - 1) = Planes
  BY <1>1, FS_Interval
<1>3. Filled \subseteq 0 .. Planes - 1
  BY DEF Filled, Params!Index
<1> QED
  BY <1>2, <1>3, FS_Subset, FS_CardinalityType

LEMMA ParamsInit == Params!Assumptions /\ Params!Init => ParamsInv
<1> SUFFICES ASSUME Params!Assumptions, Params!Init PROVE ParamsInv
  OBVIOUS
<1>1. /\ planes = [i \in Params!Index |-> Params!Unset] /\ buffer = {} /\ sent = {}
      /\ count = 0 /\ requested = FALSE /\ closed = [fd \in Fd |-> 0]
  BY DEF Params!Init
<1>2. Params!Unset \in Params!Plane /\ Params!Unset.fd = None /\ None \notin Fd
  BY DEF Params!Unset, Params!Plane, Params!Assumptions
<1>3. \A i \in Params!Index : planes[i].fd = None
  BY <1>1, <1>2
<1>4. Filled = {}
  BY <1>3 DEF Filled
<1>5. Counted
  BY <1>1, <1>4, FS_EmptySet DEF Counted
<1>6. ParamsTypes
  BY <1>1, <1>2 DEF ParamsTypes
<1> QED
  BY <1>1, <1>2, <1>3, <1>5, <1>6 DEF ParamsInv, OneHolder, ClosedUnheld, HeldFd

LEMMA ClosedThese ==
  ASSUME ParamsTypes, NEW fds, closed' = Params!Closed(fds)
  PROVE  /\ closed' \in [Fd -> Nat]
         /\ \A fd \in Fd : closed'[fd] = IF fd \in fds THEN closed[fd] + 1 ELSE closed[fd]
<1>1. \A fd \in Fd : closed[fd] \in Nat
  BY DEF ParamsTypes
<1>2. closed' = [fd \in Fd |-> IF fd \in fds THEN closed[fd] + 1 ELSE closed[fd]]
  BY DEF Params!Closed
<1> QED
  BY <1>1, <1>2

(* A plane that is refused goes with its descriptor.                       *)
LEMMA AddRefused ==
  ASSUME Params!Assumptions, ParamsInv, NEW plane \in Params!Plane, plane.fd \in Fd,
         NEW i, NEW m, Params!Add(plane, i, m), Params!Refused(i, m)
  PROVE  ParamsInv'
<1> DEFINE fd == plane.fd
<1>1. /\ fd \notin sent /\ sent' = sent \cup {fd} /\ closed' = Params!Closed({fd})
      /\ UNCHANGED <<planes, count, params, requested, buffer>>
  BY DEF Params!Add
<1>2. /\ closed' \in [Fd -> Nat]
      /\ \A e \in Fd : closed'[e] = IF e \in {fd} THEN closed[e] + 1 ELSE closed[e]
  BY <1>1, ClosedThese DEF ParamsInv
<1> HIDE DEF fd
<1>3. ParamsTypes'
  BY <1>1, <1>2 DEF ParamsInv, ParamsTypes, fd
<1>4. \A e : HeldFd(e)' <=> HeldFd(e)
  BY <1>1 DEF HeldFd
<1>5. ASSUME NEW e \in Fd
      PROVE  /\ HeldFd(e) => e \in sent'
             /\ closed'[e] = IF e \in sent' /\ ~HeldFd(e) THEN 1 ELSE 0
  <2>1. /\ HeldFd(e) => e \in sent
        /\ closed[e] = IF e \in sent /\ ~HeldFd(e) THEN 1 ELSE 0
    BY DEF ParamsInv, ClosedUnheld
  <2>2. CASE e = fd
    BY <1>1, <1>2, <2>1, <2>2
  <2>3. CASE e # fd
    BY <1>1, <1>2, <2>1, <2>3
  <2> QED
    BY <2>2, <2>3
<1>6. ClosedUnheld'
  BY <1>4, <1>5 DEF ClosedUnheld
<1>7. OneHolder' /\ Counted'
  BY <1>1 DEF ParamsInv, OneHolder, Counted, Filled
<1> QED
  BY <1>3, <1>6, <1>7 DEF ParamsInv

LEMMA AddTaken ==
  ASSUME Params!Assumptions, ParamsInv, NEW plane \in Params!Plane, plane.fd \in Fd,
         NEW i, NEW m, Params!Add(plane, i, m), ~Params!Refused(i, m)
  PROVE  ParamsInv'
<1> DEFINE fd == plane.fd
<1>1. /\ fd \notin sent /\ sent' = sent \cup {fd} /\ planes' = [planes EXCEPT ![i] = plane]
      /\ count' = count + 1 /\ params
      /\ UNCHANGED <<params, requested, buffer, closed>>
  BY DEF Params!Add
<1>2. ~requested /\ i \in Params!Index /\ planes[i].fd = None
  BY DEF Params!Refused
<1>3. /\ planes' \in [Params!Index -> Params!Plane]
      /\ \A j \in Params!Index : planes'[j] = IF j = i THEN plane ELSE planes[j]
  BY <1>1, <1>2 DEF ParamsInv, ParamsTypes
<1>4. fd \in Fd /\ None \notin Fd /\ plane.fd = fd
  BY DEF Params!Assumptions
<1> HIDE DEF fd
<1>5. ParamsTypes'
  BY <1>1, <1>3, <1>4 DEF ParamsInv, ParamsTypes
<1>6. buffer = {} /\ count = Cardinality(Filled)
  BY <1>1, <1>2 DEF ParamsInv, Counted
<1>7. ~HeldFd(fd)
  BY <1>1, <1>4 DEF ParamsInv, ClosedUnheld
<1>8. \A j \in Params!Index : planes[j].fd # fd
  BY <1>7 DEF HeldFd
<1>9. OneHolder'
  BY <1>1, <1>2, <1>3, <1>4, <1>6, <1>8 DEF ParamsInv, OneHolder
<1>10. \A e \in Fd : HeldFd(e)' <=> HeldFd(e) \/ e = fd
  BY <1>1, <1>2, <1>3, <1>4 DEF HeldFd
<1>11. ClosedUnheld'
  BY <1>1, <1>7, <1>10 DEF ParamsInv, ClosedUnheld
<1>12. Filled' = Filled \cup {i} /\ i \notin Filled
  BY <1>2, <1>3, <1>4 DEF Filled
<1>13. Cardinality(Filled') = Cardinality(Filled) + 1
  BY <1>12, FilledFinite, FS_AddElement
<1>14. Counted'
  BY <1>1, <1>6, <1>13 DEF Counted
<1> QED
  BY <1>5, <1>9, <1>11, <1>14 DEF ParamsInv

(* The buffer takes all planes, as they are as many as were counted.       *)
LEMMA AllCounted ==
  ASSUME Params!Assumptions, ParamsInv, params, ~requested, Params!Complete
  PROVE  0 .. count - 1 = Filled
<1>1. count = Cardinality(Filled) /\ count \in Nat /\ count <= Planes /\ count > 0
  BY FilledFinite DEF ParamsInv, Counted, Params!Complete
<1>2. Planes \in Nat
  BY DEF Params!Assumptions
<1>3. \A i \in 0 .. count - 1 : i \in 0 .. Planes - 1 /\ planes[i].fd # None
  BY <1>1, <1>2 DEF Params!Complete
<1>4. 0 .. count - 1 \subseteq Filled
  BY <1>3 DEF Filled, Params!Index
<1>5. Cardinality(0 .. count - 1) = count
  BY <1>1, FS_Interval
<1> QED
  BY <1>1, <1>4, <1>5, FilledFinite, FS_Subset

LEMMA CreateInv ==
  ASSUME Params!Assumptions, ParamsInv, NEW h, NEW imported \in BOOLEAN,
         Params!Create(h, imported)
  PROVE  ParamsInv'
<1>1. params /\ requested' = TRUE /\ UNCHANGED <<params, count, sent, closed>>
  BY DEF Params!Create
<1>2. CASE UNCHANGED <<planes, buffer>>
  BY <1>1, <1>2 DEF ParamsInv, ParamsTypes, OneHolder, ClosedUnheld, Counted, HeldFd
<1>3. CASE ~UNCHANGED <<planes, buffer>>
  <2>1. /\ ~requested /\ Params!Complete /\ planes' = Params!FdsTaken
        /\ buffer' = {planes[i] : i \in 0 .. count - 1}
    BY <1>3 DEF Params!Create, Params!Valid
  <2>2. buffer' = {planes[i] : i \in Filled} /\ buffer = {}
    BY <1>1, <2>1, AllCounted DEF ParamsInv, Counted
  <2>3. /\ planes' \in [Params!Index -> Params!Plane]
        /\ \A i \in Params!Index : planes'[i].fd = None
    <3>1. ASSUME NEW i \in Params!Index
          PROVE  /\ [planes[i] EXCEPT !.fd = None] \in Params!Plane
                 /\ [planes[i] EXCEPT !.fd = None].fd = None
      <4>1. planes[i] \in Params!Plane
        BY DEF ParamsInv, ParamsTypes
      <4> QED
        BY <4>1 DEF Params!Plane
    <3>2. planes' = [i \in Params!Index |-> [planes[i] EXCEPT !.fd = None]]
      BY <2>1 DEF Params!FdsTaken
    <3> QED
      BY <3>1, <3>2
  <2>4. Filled \subseteq Params!Index /\ \A i \in Filled : planes[i].fd # None
    BY DEF Filled
  <2>5. ParamsTypes'
    BY <1>1, <2>2, <2>3, <2>4 DEF ParamsInv, ParamsTypes
  <2>6. OneHolder'
    BY <2>2, <2>3, <2>4 DEF ParamsInv, OneHolder
  <2>7. None \notin Fd
    BY DEF Params!Assumptions
  <2>8. \A fd \in Fd : HeldFd(fd)' <=> HeldFd(fd)
    BY <2>2, <2>3, <2>7 DEF HeldFd, Filled
  <2>9. ClosedUnheld'
    BY <1>1, <2>8 DEF ParamsInv, ClosedUnheld
  <2> QED
    BY <1>1, <2>5, <2>6, <2>9 DEF ParamsInv, Counted
<1> QED
  BY <1>2, <1>3

LEMMA DestroyParamsInv ==
  ASSUME Params!Assumptions, ParamsInv, Params!DestroyParams
  PROVE  ParamsInv'
<1> DEFINE fds == {planes[i].fd : i \in Params!Index}
<1>1. /\ params' = FALSE /\ planes' = [i \in Params!Index |-> Params!Unset]
      /\ closed' = Params!Closed(fds) /\ UNCHANGED <<sent, requested, buffer>>
  BY DEF Params!DestroyParams
<1>2. /\ closed' \in [Fd -> Nat]
      /\ \A fd \in Fd : closed'[fd] = IF fd \in fds THEN closed[fd] + 1 ELSE closed[fd]
  BY <1>1, ClosedThese DEF ParamsInv
<1>3. Params!Unset \in Params!Plane /\ Params!Unset.fd = None /\ None \notin Fd
  BY DEF Params!Unset, Params!Plane, Params!Assumptions
<1>4. ParamsTypes' /\ OneHolder'
  BY <1>1, <1>2, <1>3 DEF ParamsInv, ParamsTypes, OneHolder
<1>5. ASSUME NEW fd \in Fd
      PROVE  /\ HeldFd(fd)' <=> HeldFd(fd) /\ fd \notin fds
             /\ fd \in fds => HeldFd(fd)
  BY <1>1, <1>3 DEF HeldFd, ParamsInv, OneHolder
<1> HIDE DEF fds
<1>6. ClosedUnheld'
  <2>1. ASSUME NEW fd \in Fd
        PROVE  closed'[fd] = IF fd \in sent /\ ~(HeldFd(fd) /\ fd \notin fds) THEN 1 ELSE 0
    BY <1>2, <1>5 DEF ParamsInv, ClosedUnheld
  <2> QED
    BY <1>1, <1>5, <2>1 DEF ParamsInv, ClosedUnheld
<1> QED
  BY <1>1, <1>4, <1>6 DEF ParamsInv, Counted

LEMMA DestroyBufferInv ==
  ASSUME Params!Assumptions, ParamsInv, Params!DestroyBuffer
  PROVE  ParamsInv'
<1> DEFINE fds == {p.fd : p \in buffer}
<1>1. /\ buffer # {} /\ buffer' = {} /\ closed' = Params!Closed(fds)
      /\ UNCHANGED <<params, planes, count, requested, sent>>
  BY DEF Params!DestroyBuffer
<1>2. /\ closed' \in [Fd -> Nat]
      /\ \A fd \in Fd : closed'[fd] = IF fd \in fds THEN closed[fd] + 1 ELSE closed[fd]
  BY <1>1, ClosedThese DEF ParamsInv
<1>3. ParamsTypes' /\ OneHolder' /\ Counted'
  BY <1>1, <1>2 DEF ParamsInv, ParamsTypes, OneHolder, Counted
<1>4. ASSUME NEW fd \in Fd
      PROVE  /\ HeldFd(fd)' <=> HeldFd(fd) /\ fd \notin fds
             /\ fd \in fds => HeldFd(fd)
  BY <1>1 DEF HeldFd, ParamsInv, OneHolder
<1> HIDE DEF fds
<1>5. ClosedUnheld'
  <2>1. ASSUME NEW fd \in Fd
        PROVE  closed'[fd] = IF fd \in sent /\ ~(HeldFd(fd) /\ fd \notin fds) THEN 1 ELSE 0
    BY <1>2, <1>4 DEF ParamsInv, ClosedUnheld
  <2> QED
    BY <1>1, <1>4, <2>1 DEF ParamsInv, ClosedUnheld
<1> QED
  BY <1>3, <1>5 DEF ParamsInv

LEMMA ParamsNext ==
  Params!Assumptions /\ ParamsInv /\ [Params!Next]_(Params!vars) => ParamsInv'
<1> SUFFICES ASSUME Params!Assumptions, ParamsInv, [Params!Next]_(Params!vars)
             PROVE  ParamsInv'
  OBVIOUS
<1>1. CASE UNCHANGED <<params, planes, count, requested, buffer, sent, closed>>
  BY <1>1 DEF ParamsInv, ParamsTypes, OneHolder, ClosedUnheld, Counted, HeldFd, Filled
<1>2. CASE Params!DestroyGlobal \/ UNCHANGED Params!vars
  BY <1>1, <1>2 DEF Params!DestroyGlobal, Params!vars
<1>3. ASSUME NEW fd \in Fd, NEW o \in Offset, NEW s \in Stride, NEW n \in FileSize,
             NEW m \in Modifier, NEW i \in 0 .. Planes,
             Params!Add([fd |-> fd, offset |-> o, stride |-> s, size |-> n], i, m)
      PROVE  ParamsInv'
  <2> DEFINE plane == [fd |-> fd, offset |-> o, stride |-> s, size |-> n]
  <2>1. plane \in Params!Plane /\ plane.fd \in Fd
    BY DEF Params!Plane
  <2>2. Params!Add(plane, i, m)
    BY <1>3
  <2> HIDE DEF plane
  <2> QED
    BY <2>1, <2>2, AddRefused, AddTaken
<1> QED
  BY <1>2, <1>3, CreateInv, DestroyParamsInv, DestroyBufferInv DEF Params!Next

(* What was sent is held once or was closed once.                          *)
LEMMA ParamsOwned == Params!Assumptions /\ ParamsInv => Params!OneOwner
<1> SUFFICES ASSUME Params!Assumptions, ParamsInv, NEW fd \in sent
             PROVE  Params!Holders(fd) + closed[fd] = 1
  BY DEF ParamsInv, OneHolder, Params!OneOwner
<1> DEFINE I == {i \in Params!Index : planes[i].fd = fd}
           P == {p \in buffer : p.fd = fd}
<1>1. fd \in Fd /\ fd # None
  BY DEF ParamsInv, ParamsTypes, Params!Assumptions
<1>2. I = {} \/ \E i : I = {i}
  BY <1>1 DEF ParamsInv, OneHolder
<1>3. P = {} \/ \E p : P = {p}
  BY DEF ParamsInv, OneHolder
<1>4. I = {} \/ P = {}
  BY DEF ParamsInv, OneHolder
<1>5. closed[fd] = IF I = {} /\ P = {} THEN 1 ELSE 0
  <2>1. HeldFd(fd) <=> ~(I = {} /\ P = {})
    BY DEF HeldFd
  <2> QED
    BY <1>1, <2>1 DEF ParamsInv, ClosedUnheld
<1>6. Params!Holders(fd) = Cardinality(I) + Cardinality(P)
  BY ParamsCardinality DEF Params!Holders
<1> HIDE DEF I, P
<1>7. Cardinality(I) = IF I = {} THEN 0 ELSE 1
  BY <1>2, FS_EmptySet, FS_Singleton
<1>8. Cardinality(P) = IF P = {} THEN 0 ELSE 1
  BY <1>3, FS_EmptySet, FS_Singleton
<1> QED
  BY <1>4, <1>5, <1>6, <1>7, <1>8

-----------------------------------------------------------------------------
(* Layer surfaces: their links, their role and their serials.              *)

LinkTypes ==
  /\ layerSurfaces \subseteq RoleSurface /\ layers \subseteq Layer
  /\ layerOf \in [RoleSurface -> Layer \cup {None}]
  /\ layerSurfaceOf \in [Layer -> RoleSurface \cup {None}]
  /\ layerOutputOf \in [Layer -> Output \cup {None}] /\ enabled \subseteq Output
LinkInv == LinkTypes /\ Layers!LayersLinked /\ Layers!LayerIsOnlyRole

(* Serials that wait come in their order, after what was acknowledged.     *)
SerialTypes ==
  /\ displaySerial \in Nat /\ acked \in [Layer -> Nat] /\ layerSerials \in [Layer -> Seq(Nat)]
Rising(q, low, high) ==
  /\ low =< high
  /\ \A i \in 1 .. Len(q) : low < q[i] /\ q[i] =< high
  /\ \A i, j \in 1 .. Len(q) : i < j => q[i] < q[j]
SerialInv ==
  SerialTypes /\ \A l \in Layer : Rising(layerSerials[l], acked[l], displaySerial)

LEMMA LayersInit == Layers!Assumptions /\ Layers!Init => LinkInv /\ SerialInv
<1> SUFFICES ASSUME Layers!Assumptions, Layers!Init PROVE LinkInv /\ SerialInv
  OBVIOUS
<1>1. LinkInv
  BY DEF Layers!Init, LinkInv, LinkTypes, Layers!LayersLinked, Layers!LayerIsOnlyRole
<1>2. <<>> \in Seq(Nat) /\ Len(<<>>) = 0
  BY EmptySeq
<1>3. /\ displaySerial = 0 /\ acked = [l \in Layer |-> 0]
      /\ layerSerials = [l \in Layer |-> <<>>]
  BY DEF Layers!Init
<1> QED
  BY <1>1, <1>2, <1>3 DEF SerialInv, SerialTypes, Rising

LEMMA GetLinked ==
  ASSUME Layers!Assumptions, LinkInv, NEW l \in Layer, NEW s \in RoleSurface,
         NEW o \in Output \cup {None}, Layers!Get(l, s, o)
  PROVE  LinkInv'
<1>1. /\ l \notin layers /\ s \in layerSurfaces /\ o \in enabled \cup {None}
      /\ layerOf[s] = None /\ s \notin otherRole /\ layers' = layers \cup {l}
      /\ UNCHANGED <<layerSurfaces, otherRole, enabled>>
      /\ layerOf' = [layerOf EXCEPT ![s] = l]
      /\ layerSurfaceOf' = [layerSurfaceOf EXCEPT ![l] = s]
      /\ layerOutputOf' = [layerOutputOf EXCEPT ![l] = o]
  BY DEF Layers!Get, Layers!MayTake, Layers!HasRole, Layers!surfaceVars, Layers!outputVars
<1>2. LinkTypes'
  BY <1>1 DEF LinkInv, LinkTypes
<1>3. /\ \A t \in RoleSurface : layerOf'[t] = IF t = s THEN l ELSE layerOf[t]
      /\ \A k \in Layer : /\ layerSurfaceOf'[k] = IF k = l THEN s ELSE layerSurfaceOf[k]
                          /\ layerOutputOf'[k] = IF k = l THEN o ELSE layerOutputOf[k]
  BY <1>1 DEF LinkInv, LinkTypes
<1>4. None \notin RoleSurface \cup Layer \cup Output
  BY DEF Layers!Assumptions
<1>5. Layers!LayersLinked'
  <2>1. ASSUME NEW t \in layerSurfaces, layerOf'[t] # None
        PROVE  layerOf'[t] \in layers' /\ layerSurfaceOf'[layerOf'[t]] = t
    BY <1>1, <1>3, <2>1 DEF LinkInv, LinkTypes, Layers!LayersLinked
  <2>2. ASSUME NEW k \in layers'
        PROVE  /\ layerSurfaceOf'[k] # None =>
                    layerSurfaceOf'[k] \in layerSurfaces /\ layerOf'[layerSurfaceOf'[k]] = k
               /\ layerOutputOf'[k] \in enabled \cup {None}
    BY <1>1, <1>3, <1>4 DEF LinkInv, LinkTypes, Layers!LayersLinked
  <2> QED
    BY <1>1, <2>1, <2>2 DEF Layers!LayersLinked
<1>6. Layers!LayerIsOnlyRole'
  BY <1>1, <1>3 DEF LinkInv, LinkTypes, Layers!LayerIsOnlyRole
<1> QED
  BY <1>2, <1>5, <1>6 DEF LinkInv

LEMMA DestroyLayerLinked ==
  ASSUME Layers!Assumptions, LinkInv, NEW l \in Layer, Layers!DestroyLayer(l)
  PROVE  LinkInv'
<1>1. /\ l \in layers /\ layers' = layers \ {l}
      /\ UNCHANGED <<layerSurfaces, otherRole, enabled>>
      /\ layerOf' = [s \in RoleSurface |-> IF s = layerSurfaceOf[l] THEN None ELSE layerOf[s]]
      /\ layerSurfaceOf' = [layerSurfaceOf EXCEPT ![l] = None]
      /\ layerOutputOf' = [layerOutputOf EXCEPT ![l] = None]
  BY DEF Layers!DestroyLayer, Layers!Unlinked, Layers!surfaceVars, Layers!outputVars
<1>2. LinkTypes'
  BY <1>1 DEF LinkInv, LinkTypes
<1>3. \A k \in Layer \ {l} : /\ layerSurfaceOf'[k] = layerSurfaceOf[k]
                             /\ layerOutputOf'[k] = layerOutputOf[k]
  BY <1>1 DEF LinkInv, LinkTypes
<1>4. None \notin RoleSurface \cup Layer \cup Output
  BY DEF Layers!Assumptions
<1>5. Layers!LayersLinked'
  <2>1. ASSUME NEW t \in layerSurfaces, layerOf'[t] # None
        PROVE  layerOf'[t] \in layers' /\ layerSurfaceOf'[layerOf'[t]] = t
    <3>1. t \in RoleSurface /\ layerOf'[t] = layerOf[t] /\ t # layerSurfaceOf[l]
      BY <1>1, <2>1 DEF LinkInv, LinkTypes
    <3>2. layerOf[t] \in layers /\ layerSurfaceOf[layerOf[t]] = t
      BY <2>1, <3>1 DEF LinkInv, Layers!LayersLinked
    <3>3. layerOf[t] \in Layer \ {l}
      BY <3>1, <3>2 DEF LinkInv, LinkTypes
    <3> QED
      BY <1>1, <1>3, <3>1, <3>2, <3>3
  <2>2. ASSUME NEW k \in layers'
        PROVE  /\ layerSurfaceOf'[k] # None =>
                    layerSurfaceOf'[k] \in layerSurfaces /\ layerOf'[layerSurfaceOf'[k]] = k
               /\ layerOutputOf'[k] \in enabled \cup {None}
    <3>1. k \in layers /\ k # l /\ k \in Layer
      BY <1>1 DEF LinkInv, LinkTypes
    <3>2. ASSUME layerSurfaceOf[k] # None
          PROVE  layerSurfaceOf[k] \in layerSurfaces /\ layerOf'[layerSurfaceOf[k]] = k
      <4>1. layerSurfaceOf[k] \in layerSurfaces /\ layerOf[layerSurfaceOf[k]] = k
        BY <3>1, <3>2 DEF LinkInv, Layers!LayersLinked
      <4>2. layerSurfaceOf[k] # layerSurfaceOf[l]
        BY <1>1, <3>1, <3>2, <4>1 DEF LinkInv, Layers!LayersLinked
      <4> QED
        BY <1>1, <4>1, <4>2 DEF LinkInv, LinkTypes
    <3>3. layerOutputOf[k] \in enabled \cup {None}
      BY <3>1 DEF LinkInv, Layers!LayersLinked
    <3> QED
      BY <1>3, <3>1, <3>2, <3>3
  <2> QED
    BY <1>1, <2>1, <2>2 DEF Layers!LayersLinked
<1>6. Layers!LayerIsOnlyRole'
  BY <1>1 DEF LinkInv, LinkTypes, Layers!LayerIsOnlyRole
<1> QED
  BY <1>2, <1>5, <1>6 DEF LinkInv

LEMMA SurfaceLinked ==
  ASSUME Layers!Assumptions, LinkInv, NEW s \in RoleSurface, Layers!DestroySurface(s)
  PROVE  LinkInv'
<1>1. /\ layerSurfaces' = layerSurfaces \ {s}
      /\ UNCHANGED <<layers, otherRole, enabled, layerOutputOf>>
      /\ layerOf' = [layerOf EXCEPT ![s] = None]
      /\ layerSurfaceOf' = [l \in Layer |-> IF layerSurfaceOf[l] = s
                                              THEN None ELSE layerSurfaceOf[l]]
  BY DEF Layers!DestroySurface, Layers!outputVars
<1>2. LinkTypes'
  BY <1>1 DEF LinkInv, LinkTypes
<1>3. Layers!LayersLinked'
  <2>1. ASSUME NEW t \in layerSurfaces', layerOf'[t] # None
        PROVE  layerOf'[t] \in layers /\ layerSurfaceOf'[layerOf'[t]] = t
    BY <1>1, <2>1 DEF LinkInv, LinkTypes, Layers!LayersLinked
  <2>2. ASSUME NEW l \in layers
        PROVE  /\ layerSurfaceOf'[l] # None =>
                    layerSurfaceOf'[l] \in layerSurfaces' /\ layerOf'[layerSurfaceOf'[l]] = l
               /\ layerOutputOf'[l] \in enabled \cup {None}
    BY <1>1 DEF LinkInv, LinkTypes, Layers!LayersLinked
  <2> QED
    BY <1>1, <2>1, <2>2 DEF Layers!LayersLinked
<1>4. Layers!LayerIsOnlyRole'
  BY <1>1 DEF LinkInv, LinkTypes, Layers!LayerIsOnlyRole
<1> QED
  BY <1>2, <1>3, <1>4 DEF LinkInv

LEMMA OutputsLinked ==
  ASSUME Layers!Assumptions, LinkInv, NEW o \in Output,
         \/ Layers!DisableOutput(o) \/ Layers!EnableOutput(o)
         \/ \E l \in Layer : Layers!SetOutput(l, o)
  PROVE  LinkInv'
<1>1. UNCHANGED <<layerSurfaces, otherRole, layers, layerOf, layerSurfaceOf>>
  BY DEF Layers!DisableOutput, Layers!EnableOutput, Layers!SetOutput, Layers!surfaceVars,
         Layers!linkVars
<1>2. Layers!LayerIsOnlyRole'
  BY <1>1 DEF LinkInv, Layers!LayerIsOnlyRole
<1>3. /\ layerOutputOf' \in [Layer -> Output \cup {None}] /\ enabled' \subseteq Output
      /\ \A l \in layers : layerOutputOf'[l] \in enabled' \cup {None}
  <2>1. CASE Layers!DisableOutput(o)
    BY <2>1 DEF Layers!DisableOutput, Layers!OutputsWithout, Layers!On, LinkInv, LinkTypes,
                Layers!LayersLinked
  <2>2. CASE Layers!EnableOutput(o)
    BY <2>2 DEF Layers!EnableOutput, Layers!linkVars, LinkInv, LinkTypes, Layers!LayersLinked
  <2>3. CASE \E l \in Layer : Layers!SetOutput(l, o)
    BY <2>3 DEF Layers!SetOutput, Layers!outputVars, LinkInv, LinkTypes, Layers!LayersLinked
  <2> QED
    BY <2>1, <2>2, <2>3
<1> QED
  BY <1>1, <1>2, <1>3 DEF LinkInv, LinkTypes, Layers!LayersLinked

LEMMA LinkNext == Layers!Assumptions /\ LinkInv /\ [Layers!Next]_(Layers!vars) => LinkInv'
<1> SUFFICES ASSUME Layers!Assumptions, LinkInv, [Layers!Next]_(Layers!vars) PROVE LinkInv'
  OBVIOUS
<1> USE DEF Layers!surfaceVars, Layers!linkVars, Layers!outputVars
<1>1. CASE UNCHANGED <<layerSurfaces, otherRole, layers, layerOf, layerSurfaceOf, enabled,
                       layerOutputOf>>
  BY <1>1 DEF LinkInv, LinkTypes, Layers!LayersLinked, Layers!LayerIsOnlyRole
<1>2. CASE Layers!GetOnStale \/ UNCHANGED Layers!vars
  BY <1>1, <1>2 DEF Layers!GetOnStale, Layers!vars
<1>3. ASSUME NEW s \in RoleSurface,
             \/ Layers!AttachBuffer(s) \/ Layers!MakeSubsurface(s)
             \/ Layers!EndSubsurface(s) \/ Layers!GetRefused(s)
      PROVE  LinkInv'
  BY <1>1, <1>3 DEF Layers!AttachBuffer, Layers!MakeSubsurface, Layers!EndSubsurface,
                    Layers!GetRefused, Layers!Error
<1>4. ASSUME NEW s \in RoleSurface, Layers!TakeOtherRole(s) PROVE LinkInv'
  <2>1. CASE Layers!Error
    BY <1>1, <2>1 DEF Layers!Error
  <2>2. CASE ~Layers!Error
    BY <1>4, <2>2 DEF Layers!TakeOtherRole, Layers!MayTake, Layers!HasRole, LinkInv,
                      LinkTypes, Layers!LayersLinked, Layers!LayerIsOnlyRole
  <2> QED
    BY <2>1, <2>2
<1>5. ASSUME NEW s \in RoleSurface, Layers!GiveUpOtherRole(s) PROVE LinkInv'
  BY <1>5 DEF Layers!GiveUpOtherRole, LinkInv, LinkTypes, Layers!LayersLinked,
              Layers!LayerIsOnlyRole
<1>6. ASSUME NEW l \in Layer,
             \/ Layers!SetState(l) \/ Layers!Commit(l) \/ Layers!Configure(l)
             \/ Layers!Close(l) \/ \E n : Layers!AckConfigure(l, n)
      PROVE  LinkInv'
  BY <1>1, <1>6 DEF Layers!SetState, Layers!Commit, Layers!Configure, Layers!Close,
                    Layers!AckConfigure, Layers!Error
<1> QED
  BY <1>2, <1>3, <1>4, <1>5, <1>6, GetLinked, DestroyLayerLinked, SurfaceLinked, OutputsLinked
  DEF Layers!Next

LEMMA AckRising ==
  ASSUME SerialInv, NEW l \in Layer, NEW n, Layers!AckConfigure(l, n)
  PROVE  SerialInv'
<1> DEFINE q == layerSerials[l]
           k == CHOOSE i \in DOMAIN q : q[i] = n
           after == SubSeq(q, k + 1, Len(q))
<1>1. /\ n \in Layers!Range(q) /\ displaySerial' = displaySerial
      /\ layerSerials' = [layerSerials EXCEPT ![l] = after]
      /\ acked' = [acked EXCEPT ![l] = n]
  BY DEF Layers!AckConfigure, Layers!AfterAck
<1>2. q \in Seq(Nat) /\ Len(q) \in Nat /\ DOMAIN q = 1 .. Len(q)
  BY LenProperties DEF SerialInv, SerialTypes
<1>3. Rising(q, acked[l], displaySerial) /\ acked[l] \in Nat /\ displaySerial \in Nat
  BY DEF SerialInv, SerialTypes
<1>4. k \in 1 .. Len(q) /\ q[k] = n
  BY <1>1, <1>2 DEF Layers!Range
<1> HIDE DEF k
<1>5. /\ after \in Seq(Nat) /\ Len(after) = Len(q) - k
      /\ \A i \in 1 .. Len(q) - k : after[i] = q[k + i]
  <2>1. k \in 0 .. Len(q)
    BY <1>2, <1>4
  <2> QED
    BY <1>2, <2>1, AfterPlace
<1> HIDE DEF after, q
<1>6. \A i \in 1 .. Len(q) - k : k + i \in 1 .. Len(q) /\ k < k + i
  BY <1>2, <1>4
<1>7. n \in Nat /\ n =< displaySerial /\ acked[l] < n
  <2>1. q[k] \in Nat
    BY <1>2, <1>4, ElementOfSeq
  <2> QED
    BY <1>3, <1>4, <2>1 DEF Rising
<1>8. Rising(after, n, displaySerial)
  <2>1. ASSUME NEW i \in 1 .. Len(q) - k PROVE n < after[i] /\ after[i] =< displaySerial
    BY <1>3, <1>4, <1>5, <1>6 DEF Rising
  <2>2. ASSUME NEW i \in 1 .. Len(q) - k, NEW j \in 1 .. Len(q) - k, i < j
        PROVE  after[i] < after[j]
    <3>1. k + i < k + j /\ k + i \in 1 .. Len(q) /\ k + j \in 1 .. Len(q)
      BY <1>4, <1>6, <2>2
    <3> QED
      BY <1>3, <1>5, <3>1 DEF Rising
  <2> QED
    BY <1>5, <1>7, <2>1, <2>2 DEF Rising
<1>9. SerialTypes'
  BY <1>1, <1>5, <1>7 DEF SerialInv, SerialTypes
<1>10. ASSUME NEW m \in Layer PROVE Rising(layerSerials'[m], acked'[m], displaySerial')
  <2>1. /\ layerSerials'[m] = IF m = l THEN after ELSE layerSerials[m]
        /\ acked'[m] = IF m = l THEN n ELSE acked[m]
    BY <1>1 DEF SerialInv, SerialTypes
  <2>2. Rising(layerSerials[m], acked[m], displaySerial)
    BY DEF SerialInv
  <2> QED
    BY <1>1, <1>8, <2>1, <2>2
<1> QED
  BY <1>9, <1>10 DEF SerialInv

LEMMA ConfigureRising ==
  ASSUME SerialInv, NEW l \in Layer, Layers!Configure(l)
  PROVE  SerialInv'
<1> DEFINE q == layerSerials[l]
           next == displaySerial + 1
           longer == Append(q, next)
<1>1. /\ displaySerial' = next /\ acked' = acked
      /\ layerSerials' = [layerSerials EXCEPT ![l] = longer]
  BY DEF Layers!Configure
<1>2. q \in Seq(Nat) /\ Len(q) \in Nat /\ displaySerial \in Nat /\ next \in Nat
  BY LenProperties DEF SerialInv, SerialTypes
<1>3. /\ longer \in Seq(Nat) /\ Len(longer) = Len(q) + 1 /\ longer[Len(q) + 1] = next
      /\ \A i \in 1 .. Len(q) : longer[i] = q[i]
  BY <1>2, AppendProperties
<1> HIDE DEF longer, q
<1>4. \A i \in 1 .. Len(q) + 1 : i \in 1 .. Len(q) \/ i = Len(q) + 1
  BY <1>2
<1>5. SerialTypes'
  BY <1>1, <1>2, <1>3 DEF SerialInv, SerialTypes
<1>6. ASSUME NEW m \in Layer PROVE Rising(layerSerials'[m], acked'[m], displaySerial')
  <2>1. layerSerials'[m] = IF m = l THEN longer ELSE layerSerials[m]
    BY <1>1 DEF SerialInv, SerialTypes
  <2>2. /\ Rising(layerSerials[m], acked[m], displaySerial) /\ acked[m] \in Nat
        /\ layerSerials[m] \in Seq(Nat)
    BY DEF SerialInv, SerialTypes
  <2>3. \A i \in 1 .. Len(layerSerials[m]) : layerSerials[m][i] \in Nat
    BY <2>2, ElementOfSeq
  <2>4. Rising(layerSerials[m], acked[m], next)
    BY SMTT(30), <1>2, <2>2, <2>3 DEF Rising
  <2>5. CASE m = l
    <3>1. /\ acked[l] =< displaySerial
          /\ \A i \in 1 .. Len(q) : acked[l] < q[i] /\ q[i] =< displaySerial /\ q[i] \in Nat
          /\ \A i, j \in 1 .. Len(q) : i < j => q[i] < q[j]
      BY <2>2, <2>3, <2>5 DEF Rising, q
    <3>2. ASSUME NEW i \in 1 .. Len(longer) PROVE acked[l] < longer[i] /\ longer[i] =< next
      <4>1. acked[l] \in Nat
        BY <2>2, <2>5
      <4>2. CASE i \in 1 .. Len(q)
        <5>1. longer[i] = q[i] /\ acked[l] < q[i] /\ q[i] =< displaySerial /\ q[i] \in Nat
          BY <1>3, <3>1, <4>2
        <5> QED
          BY <1>2, <4>1, <5>1
      <4>3. CASE i = Len(q) + 1
        BY <1>2, <1>3, <3>1, <4>1, <4>3
      <4> QED
        BY <1>3, <1>4, <4>2, <4>3
    <3>3. ASSUME NEW i \in 1 .. Len(longer), NEW j \in 1 .. Len(longer), i < j
          PROVE  longer[i] < longer[j]
      <4>1. i \in 1 .. Len(q)
        BY <1>2, <1>3, <1>4, <3>3
      <4>2. longer[i] = q[i] /\ q[i] =< displaySerial /\ q[i] \in Nat
        BY <1>3, <3>1, <4>1
      <4>3. CASE j \in 1 .. Len(q)
        BY <1>3, <3>1, <3>3, <4>1, <4>2, <4>3
      <4>4. CASE j = Len(q) + 1
        <5>1. longer[j] = displaySerial + 1
          BY <1>3, <4>4
        <5> QED
          BY <1>2, <4>2, <5>1
      <4> QED
        BY <1>3, <1>4, <4>3, <4>4
    <3>4. acked[l] =< next
      BY <1>2, <2>2, <2>5, <3>1
    <3> QED
      BY <1>1, <2>1, <2>5, <3>2, <3>3, <3>4 DEF Rising
  <2>6. CASE m # l
    BY <1>1, <2>1, <2>4, <2>6
  <2> QED
    BY <2>5, <2>6
<1> QED
  BY <1>5, <1>6 DEF SerialInv

LEMMA SerialNext == SerialInv /\ [Layers!Next]_(Layers!vars) => SerialInv'
<1> SUFFICES ASSUME SerialInv, [Layers!Next]_(Layers!vars) PROVE SerialInv'
  OBVIOUS
<1> USE DEF Layers!configureVars
<1>1. CASE UNCHANGED <<layerSerials, displaySerial, acked>>
  BY <1>1 DEF SerialInv, SerialTypes
<1>2. CASE Layers!GetOnStale \/ UNCHANGED Layers!vars
  BY <1>1, <1>2 DEF Layers!GetOnStale, Layers!vars
<1>3. ASSUME NEW s \in RoleSurface,
             \/ Layers!AttachBuffer(s) \/ Layers!TakeOtherRole(s) \/ Layers!GiveUpOtherRole(s)
             \/ Layers!MakeSubsurface(s) \/ Layers!EndSubsurface(s) \/ Layers!GetRefused(s)
             \/ Layers!DestroySurface(s)
             \/ \E l, o : Layers!Get(l, s, o)
      PROVE  SerialInv'
  BY <1>1, <1>3 DEF Layers!AttachBuffer, Layers!TakeOtherRole, Layers!GiveUpOtherRole,
     Layers!MakeSubsurface, Layers!EndSubsurface, Layers!GetRefused, Layers!DestroySurface, Layers!Get, Layers!Error
<1>4. ASSUME NEW l \in Layer,
             \/ Layers!SetState(l) \/ Layers!Commit(l) \/ Layers!Close(l)
             \/ \E o : Layers!SetOutput(l, o)
      PROVE  SerialInv'
  BY <1>1, <1>4 DEF Layers!SetState, Layers!Commit, Layers!Close, Layers!SetOutput,
                    Layers!Error
<1>5. ASSUME NEW o, Layers!DisableOutput(o) \/ Layers!EnableOutput(o) PROVE SerialInv'
  BY <1>1, <1>5 DEF Layers!DisableOutput, Layers!EnableOutput
<1>6. ASSUME NEW l \in Layer, Layers!DestroyLayer(l) PROVE SerialInv'
  <2>1. /\ displaySerial' = displaySerial
        /\ layerSerials' = [layerSerials EXCEPT ![l] = <<>>]
        /\ acked' = [acked EXCEPT ![l] = 0]
    BY <1>6 DEF Layers!DestroyLayer
  <2>2. <<>> \in Seq(Nat) /\ Len(<<>>) = 0 /\ displaySerial \in Nat
    BY EmptySeq DEF SerialInv, SerialTypes
  <2>3. Rising(<<>>, 0, displaySerial)
    BY <2>2 DEF Rising
  <2>4. SerialTypes'
    BY <2>1, <2>2 DEF SerialInv, SerialTypes
  <2>5. ASSUME NEW m \in Layer PROVE Rising(layerSerials'[m], acked'[m], displaySerial')
    <3>1. /\ layerSerials'[m] = IF m = l THEN <<>> ELSE layerSerials[m]
          /\ acked'[m] = IF m = l THEN 0 ELSE acked[m]
      BY <2>1 DEF SerialInv, SerialTypes
    <3> QED
      BY <2>1, <2>3, <3>1 DEF SerialInv
  <2> QED
    BY <2>4, <2>5 DEF SerialInv
<1> QED
  BY <1>2, <1>3, <1>4, <1>5, <1>6, AckRising, ConfigureRising DEF Layers!Next

LEMMA SerialForward == LinkInv /\ SerialInv => Layers!AcksForward
<1> SUFFICES ASSUME LinkInv, SerialInv, NEW l \in layers, NEW n \in Layers!Range(layerSerials[l])
             PROVE  n > acked[l]
  BY DEF Layers!AcksForward
<1>1. /\ layerSerials[l] \in Seq(Nat) /\ acked[l] \in Nat
      /\ Rising(layerSerials[l], acked[l], displaySerial)
  BY DEF LinkInv, LinkTypes, SerialInv, SerialTypes
<1>2. DOMAIN layerSerials[l] = 1 .. Len(layerSerials[l])
  BY <1>1, LenProperties
<1>3. PICK i \in 1 .. Len(layerSerials[l]) : layerSerials[l][i] = n
  BY <1>2 DEF Layers!Range
<1>4. layerSerials[l][i] \in Nat
  BY <1>1, ElementOfSeq
<1> QED
  BY <1>1, <1>3, <1>4 DEF Rising

-----------------------------------------------------------------------------
(* Configurations of outputs: answered once, and fresh when used.          *)

(* What waits is in the list once, has not been used or cancelled, and was *)
(* made for the heads announced last.                                      *)
Waits == Listed(configurationWaiting)
Open(c) ==
  /\ c \notin cancelled
  /\ c \in configurationResources \ configurationUsed \/ c \in fronts \cap configurationUsed
ConfigurationTypes ==
  /\ configurationWaiting \in Seq(Config) /\ Distinct(configurationWaiting)
  /\ fronts \subseteq Config /\ configurationResources \subseteq Config
  /\ configurationUsed \cap cancelled = {} /\ serial \in Nat
  /\ answers \in [Config -> Nat] /\ serialOf \in [Config -> Nat]
WaitsFresh ==
  /\ Waits \subseteq (fronts \cap configurationResources) \ (configurationUsed \cup cancelled)
  /\ \A c \in Waits : serialOf[c] = serial
Answered == \A c \in Config : answers[c] =< 1 /\ (Open(c) => answers[c] = 0)
ConfigurationInv ==
  configurationFault = "none" => ConfigurationTypes /\ WaitsFresh /\ Answered

LEMMA ConfigurationInit == Configurations!Init => ConfigurationInv
<1> SUFFICES ASSUME Configurations!Init PROVE ConfigurationInv
  OBVIOUS
<1>1. /\ configurationWaiting \in Seq(Config) /\ Distinct(configurationWaiting)
      /\ Waits = {}
  BY EmptyListed DEF Configurations!Init, Waits
<1> QED
  BY <1>1 DEF Configurations!Init, ConfigurationInv, ConfigurationTypes, WaitsFresh, Answered

LEMMA ConfigurationRemoved ==
  ASSUME NEW S, NEW q \in Seq(S), NEW e, Distinct(q)
  PROVE  /\ Configurations!RemoveOne(q, e) \in Seq(S) /\ Distinct(Configurations!RemoveOne(q, e))
         /\ Listed(Configurations!RemoveOne(q, e)) = Listed(q) \ {e}
<1> DEFINE I == {i \in 1 .. Len(q) : q[i] = e}
<1>1. Len(q) \in Nat
  BY LenProperties
<1>2. CASE I = {}
  <2>1. Configurations!RemoveOne(q, e) = q
    BY <1>2 DEF Configurations!RemoveOne, Configurations!EraseFirst
  <2>2. e \notin Listed(q)
    BY <1>2 DEF Listed
  <2> QED
    BY <2>1, <2>2
<1>3. CASE I # {}
  <2> DEFINE k == Least(I)
  <2>1. k \in I
    <3>1. \A S1 \in SUBSET (1 .. Len(q)) : S1 # {} => Least(S1) \in S1
      BY <1>1, LeastPlace
    <3> QED
      BY <1>3, <3>1
  <2>2. Configurations!RemoveOne(q, e) = Rest(q, k)
    BY <1>3 DEF Configurations!RemoveOne, Configurations!EraseFirst, Rest, Least
  <2> HIDE DEF k
  <2>3. k \in 1 .. Len(q) /\ q[k] = e
    BY <2>1
  <2> QED
    BY <2>2, <2>3, RestPlaces, RestListed
<1> QED
  BY <1>2, <1>3


LEMMA ListOfWaits == ConfigurationTypes => Configurations!Range(configurationWaiting) = Waits
<1> SUFFICES ASSUME ConfigurationTypes
             PROVE  Configurations!Range(configurationWaiting) = Waits
  OBVIOUS
<1>1. DOMAIN configurationWaiting = 1 .. Len(configurationWaiting)
  BY LenProperties DEF ConfigurationTypes
<1> QED
  BY <1>1 DEF Configurations!Range, Waits, Listed

(* The loop visits one or two that wait once each.                         *)
LEMMA AllVisited ==
  ASSUME ConfigurationTypes, Len(configurationWaiting) <= 2
  PROVE  Configurations!Visited = Waits /\ Configurations!Missed = <<>>
<1>1. Len(configurationWaiting) \in 0 .. 2
  <2>1. PICK n \in Nat : n = Len(configurationWaiting)
    BY LenProperties DEF ConfigurationTypes
  <2>2. n <= 2
    BY <2>1
  <2> QED
    BY <2>1, <2>2
<1>2. DOMAIN configurationWaiting = 1 .. Len(configurationWaiting)
  BY LenProperties DEF ConfigurationTypes
<1>3. \A k \in 1 .. Len(configurationWaiting) : k % 2 = 1 \/ k = Len(configurationWaiting)
  BY <1>1
<1>4. Configurations!Visited = Waits
  BY <1>2, <1>3 DEF Configurations!Visited, Waits, Listed
<1>5. 1 .. (Len(configurationWaiting) - 1) \div 2 = {}
  BY <1>1
<1>6. Configurations!Missed = <<>>
  BY <1>5 DEF Configurations!Missed
<1> QED
  BY <1>4, <1>6

(* With three that wait an assertion fails; otherwise all are cancelled.   *)
LEMMA DoneAnswered ==
  ASSUME ConfigurationInv, configurationFault = "none", Configurations!Done
  PROVE  ConfigurationInv'
<1>0. Len(configurationWaiting) \in Nat
  BY LenProperties DEF ConfigurationInv, ConfigurationTypes
<1>1. CASE Len(configurationWaiting) > 2
  <2>1. configurationFault' = "cancelled_twice"
    BY <1>1 DEF Configurations!Done
  <2> QED
    BY <2>1 DEF ConfigurationInv
<1>2. CASE Len(configurationWaiting) <= 2
  <2>1. /\ configurationWaiting' = <<>> /\ serial' = serial + 1
        /\ cancelled' = cancelled \cup Waits
        /\ answers' = [c \in Config |-> IF c \in Waits THEN answers[c] + 1 ELSE answers[c]]
        /\ UNCHANGED <<fronts, configurationResources, serialOf, configurationUsed>>
    BY <1>2, AllVisited DEF Configurations!Done, Configurations!objectVars,
       Configurations!requestVars, ConfigurationInv
  <2>2. Waits' = {} /\ configurationWaiting' \in Seq(Config) /\ Distinct(configurationWaiting')
    BY <2>1, EmptyListed DEF Waits
  <2>3. WaitsFresh'
    BY <2>2 DEF WaitsFresh
  <2>4. ConfigurationTypes'
    BY <2>1, <2>2 DEF ConfigurationInv, ConfigurationTypes, WaitsFresh
  <2>5. ASSUME NEW c \in Config PROVE answers'[c] =< 1 /\ (Open(c)' => answers'[c] = 0)
    <3>1. /\ answers[c] \in Nat /\ answers[c] =< 1 /\ (Open(c) => answers[c] = 0)
          /\ c \in Waits => Open(c)
      BY DEF ConfigurationInv, ConfigurationTypes, Answered, WaitsFresh, Open
    <3>2. Open(c)' => Open(c) /\ c \notin Waits
      BY <2>1 DEF Open
    <3>3. answers'[c] = IF c \in Waits THEN answers[c] + 1 ELSE answers[c]
      BY <2>1
    <3> QED
      BY <3>1, <3>2, <3>3
  <2> QED
    BY <2>3, <2>4, <2>5 DEF ConfigurationInv, Answered
<1> QED
  BY <1>0, <1>1, <1>2

LEMMA CreateAnswered ==
  ASSUME ConfigurationInv, configurationFault = "none", NEW c \in Config,
         NEW n \in 0 .. serial, Configurations!Create(c, n)
  PROVE  ConfigurationInv'
<1> DEFINE fresh == n = serial
<1>1. /\ c \notin fronts \cup configurationResources \cup configurationUsed \cup cancelled
      /\ fronts' = fronts \cup {c}
      /\ configurationResources' = configurationResources \cup {c}
      /\ serialOf' = [serialOf EXCEPT ![c] = n]
      /\ configurationWaiting' = IF fresh THEN Append(configurationWaiting, c)
                                 ELSE configurationWaiting
      /\ cancelled' = IF fresh THEN cancelled ELSE cancelled \cup {c}
      /\ answers' = [answers EXCEPT ![c] = IF fresh THEN 0 ELSE 1]
      /\ UNCHANGED <<serial, configurationUsed>>
  BY DEF Configurations!Create, Configurations!Fresh
<1>2. /\ ConfigurationTypes /\ WaitsFresh /\ Answered /\ n \in Nat /\ c \notin Waits
  BY <1>1 DEF ConfigurationInv, ConfigurationTypes, WaitsFresh
<1>3. /\ configurationWaiting' \in Seq(Config) /\ Distinct(configurationWaiting')
      /\ Waits' = IF fresh THEN Waits \cup {c} ELSE Waits
  BY ZenonT(40), <1>1, <1>2, AppendListed DEF ConfigurationTypes, Waits
<1>4. \A d \in Config : /\ answers'[d] = IF d = c THEN (IF fresh THEN 0 ELSE 1) ELSE answers[d]
                        /\ serialOf'[d] = IF d = c THEN n ELSE serialOf[d]
  BY <1>1, <1>2 DEF ConfigurationTypes
<1> HIDE DEF fresh
<1>5. ConfigurationTypes'
  BY <1>1, <1>2, <1>3 DEF ConfigurationTypes
<1>6. WaitsFresh'
  <2>1. Waits \subseteq Config /\ fresh => n = serial
    BY <1>2 DEF WaitsFresh, ConfigurationTypes, fresh
  <2> QED
    BY <1>1, <1>2, <1>3, <1>4, <2>1 DEF WaitsFresh, ConfigurationTypes, fresh
<1>7. Answered'
  <2>1. ASSUME NEW d \in Config PROVE answers'[d] =< 1 /\ (Open(d)' => answers'[d] = 0)
    <3>1. CASE d = c
      BY <1>1, <1>4, <3>1 DEF Open
    <3>2. CASE d # c
      <4>1. Open(d)' => Open(d)
        BY <1>1, <3>2 DEF Open
      <4> QED
        BY <1>2, <1>4, <3>2, <4>1 DEF Answered
    <3> QED
      BY <3>1, <3>2
  <2> QED
    BY <2>1 DEF Answered
<1> QED
  BY <1>5, <1>6, <1>7 DEF ConfigurationInv

(* A configuration is taken from the list, or the list is left alone.      *)
LEMMA WaitsWithout ==
  ASSUME ConfigurationTypes, NEW c \in Config,
         configurationWaiting' = Configurations!WaitingWithout(c)
  PROVE  /\ configurationWaiting' \in Seq(Config) /\ Distinct(configurationWaiting')
         /\ Waits' = Waits \ {c}
BY ConfigurationRemoved DEF ConfigurationTypes, Configurations!WaitingWithout, Waits

LEMMA UseAnswered ==
  ASSUME ConfigurationInv, configurationFault = "none", NEW c \in Config,
         Configurations!Use(c)
  PROVE  ConfigurationInv'
<1>1. /\ c \in configurationResources \ (configurationUsed \cup cancelled)
      /\ configurationUsed' = configurationUsed \cup {c}
      /\ configurationWaiting' = Configurations!WaitingWithout(c)
      /\ UNCHANGED <<serial, fronts, configurationResources, serialOf, cancelled, answers>>
  BY DEF Configurations!Use, Configurations!objectVars
<1>2. ConfigurationTypes /\ WaitsFresh /\ Answered
  BY DEF ConfigurationInv
<1>3. /\ configurationWaiting' \in Seq(Config) /\ Distinct(configurationWaiting')
      /\ Waits' = Waits \ {c}
  BY <1>1, <1>2, WaitsWithout
<1>4. ConfigurationTypes'
  BY <1>1, <1>2, <1>3 DEF ConfigurationTypes
<1>5. WaitsFresh'
  BY <1>1, <1>2, <1>3 DEF WaitsFresh
<1>6. \A d \in Config : Open(d)' => Open(d)
  BY <1>1 DEF Open
<1> QED
  BY <1>1, <1>2, <1>4, <1>5, <1>6 DEF ConfigurationInv, Answered

LEMMA DestroyConfigAnswered ==
  ASSUME ConfigurationInv, configurationFault = "none", NEW c \in Config,
         Configurations!DestroyConfig(c)
  PROVE  ConfigurationInv'
<1>1. /\ configurationResources' = configurationResources \ {c}
      /\ UNCHANGED <<serial, serialOf, configurationUsed, cancelled, answers>>
  BY DEF Configurations!DestroyConfig, Configurations!requestVars
<1>2. ConfigurationTypes /\ WaitsFresh /\ Answered
  BY DEF ConfigurationInv
<1>3. /\ configurationWaiting' \in Seq(Config) /\ Distinct(configurationWaiting')
      /\ Waits' = Waits \ {c}
      /\ fronts' = fronts \/ (fronts' = fronts \ {c})
  <2>1. CASE c \in configurationUsed \/ c \notin fronts
    <3>1. UNCHANGED <<fronts, configurationWaiting>>
      BY <2>1 DEF Configurations!DestroyConfig
    <3>2. c \notin Waits
      BY <1>2, <2>1 DEF WaitsFresh
    <3> QED
      BY <1>2, <3>1, <3>2 DEF ConfigurationTypes, Waits
  <2>2. CASE ~(c \in configurationUsed \/ c \notin fronts)
    <3>1. /\ fronts' = fronts \ {c}
          /\ configurationWaiting' = Configurations!WaitingWithout(c)
      BY <2>2 DEF Configurations!DestroyConfig, Configurations!FrontGone
    <3> QED
      BY <1>2, <3>1, WaitsWithout
  <2> QED
    BY <2>1, <2>2
<1>4. ConfigurationTypes'
  BY <1>1, <1>2, <1>3 DEF ConfigurationTypes
<1>5. WaitsFresh'
  BY <1>1, <1>2, <1>3 DEF WaitsFresh
<1>6. \A d \in Config : Open(d)' => Open(d)
  BY <1>1, <1>3 DEF Open
<1> QED
  BY <1>1, <1>2, <1>4, <1>5, <1>6 DEF ConfigurationInv, Answered

LEMMA AnswerAnswered ==
  ASSUME ConfigurationInv, configurationFault = "none", NEW c \in Config,
         Configurations!Answer(c)
  PROVE  ConfigurationInv'
<1>1. /\ c \in fronts \cap configurationUsed
      /\ answers' = [answers EXCEPT ![c] = IF c \in configurationResources THEN @ + 1 ELSE @]
      /\ fronts' = fronts \ {c}
      /\ configurationWaiting' = Configurations!WaitingWithout(c)
      /\ UNCHANGED <<serial, configurationResources, serialOf, configurationUsed, cancelled>>
  BY DEF Configurations!Answer, Configurations!FrontGone, Configurations!requestVars
<1>2. ConfigurationTypes /\ WaitsFresh /\ Answered
  BY DEF ConfigurationInv
<1>3. /\ configurationWaiting' \in Seq(Config) /\ Distinct(configurationWaiting')
      /\ Waits' = Waits \ {c}
  BY <1>1, <1>2, WaitsWithout
<1>4. /\ answers[c] = 0
      /\ answers'[c] = IF c \in configurationResources THEN answers[c] + 1 ELSE answers[c]
      /\ \A d \in Config \ {c} : answers'[d] = answers[d]
  <2>1. Open(c)
    BY <1>1, <1>2 DEF ConfigurationTypes, Open
  <2> QED
    BY <1>1, <1>2, <2>1 DEF ConfigurationTypes, Answered
<1>5. ConfigurationTypes'
  <2>1. answers' \in [Config -> Nat]
    BY <1>1, <1>2, <1>4 DEF ConfigurationTypes
  <2> QED
    BY <1>1, <1>2, <1>3, <2>1 DEF ConfigurationTypes
<1>6. WaitsFresh'
  BY <1>1, <1>2, <1>3 DEF WaitsFresh
<1>7. Answered'
  <2>1. \A d \in Config : Open(d)' => Open(d) /\ d # c
    BY <1>1 DEF Open
  <2> QED
    BY <1>2, <1>4, <2>1 DEF Answered
<1> QED
  BY <1>5, <1>6, <1>7 DEF ConfigurationInv

LEMMA ConfigurationNext ==
  ConfigurationInv /\ [Configurations!Next]_(Configurations!vars) => ConfigurationInv'
<1> SUFFICES ASSUME ConfigurationInv, [Configurations!Next]_(Configurations!vars)
             PROVE  ConfigurationInv'
  OBVIOUS
<1> USE DEF Configurations!objectVars, Configurations!requestVars
<1> DEFINE rest == <<configurationWaiting, fronts, configurationResources, configurationUsed,
                     cancelled, serial, answers, serialOf>>
<1>1. ASSUME UNCHANGED rest, configurationFault = "none" \/ UNCHANGED configurationFault
      PROVE  ConfigurationInv'
  BY <1>1 DEF ConfigurationInv, ConfigurationTypes, WaitsFresh, Answered, Waits, Open
<1>2. CASE UNCHANGED Configurations!vars
  BY <1>1, <1>2 DEF Configurations!vars
<1>3. CASE Configurations!Next
  <2>1. configurationFault = "none"
    BY <1>3 DEF Configurations!Next
  <2>2. ASSUME NEW h \in Output,
               \/ Configurations!AddHead(h) \/ Configurations!RemoveHead(h)
               \/ Configurations!ReleaseHead(h)
        PROVE  ConfigurationInv'
    BY <1>1, <2>1, <2>2 DEF Configurations!AddHead, Configurations!RemoveHead,
                            Configurations!ReleaseHead
  <2>3. CASE Configurations!ChangeHead \/ Configurations!Stop
    BY <1>1, <2>1, <2>3 DEF Configurations!ChangeHead, Configurations!Stop
  <2>4. ASSUME NEW c \in Config, NEW h \in Output,
               Configurations!EnableHead(c, h) \/ Configurations!DisableHead(c, h)
        PROVE  ConfigurationInv'
    BY <1>1, <2>1, <2>4 DEF Configurations!EnableHead, Configurations!DisableHead
  <2>5. CASE Configurations!DestroyManager
    <3>1. /\ configurationWaiting' = <<>>
          /\ UNCHANGED <<fronts, configurationResources, configurationUsed, cancelled,
                         serial, answers, serialOf>>
      BY <2>5 DEF Configurations!DestroyManager
    <3>2. /\ configurationWaiting' \in Seq(Config) /\ Distinct(configurationWaiting')
          /\ Waits' = {}
      BY <3>1, EmptyListed DEF Waits
    <3> QED
      BY <2>1, <3>1, <3>2 DEF ConfigurationInv, ConfigurationTypes, WaitsFresh, Answered,
                              Open
  <2> QED
    BY <1>3, <2>1, <2>2, <2>3, <2>4, <2>5, DoneAnswered, CreateAnswered, UseAnswered,
       DestroyConfigAnswered, AnswerAnswered DEF Configurations!Next
<1> QED
  BY <1>2, <1>3

(* A configuration is answered once and is fresh when the compositor gets  *)
(* it, and acknowledged serials go forward, for any number of heads,       *)
(* configurations, announcements, layer surfaces and configures, until an  *)
(* announcement finds more than two that wait, whose loop fails an         *)
(* assertion (wlr_output_manager_v1.cpp:65-128, wlr_output_configuration_v1.cpp:     *)
(* 35-90, layer_shell_v1.cpp:238-264).                                     *)
THEOREM AnswersInOrderCorrect ==
  ASSUME Layers!Assumptions
  PROVE  Configurations!Spec /\ Layers!Spec => []AnswersInOrder
<1>1. ConfigurationInv => Configurations!UsedFresh /\ Configurations!AnsweredOnce
  BY ListOfWaits DEF ConfigurationInv, WaitsFresh, Answered, Configurations!UsedFresh,
     Configurations!AnsweredOnce
<1>2. ConfigurationInv /\ LinkInv /\ SerialInv => AnswersInOrder
  BY <1>1, SerialForward DEF AnswersInOrder
<1>3. /\ Layers!Init => LinkInv /\ SerialInv
      /\ LinkInv /\ [Layers!Next]_(Layers!vars) => LinkInv'
  BY LayersInit, LinkNext
<1> QED
  BY <1>2, <1>3, SerialNext, ConfigurationInit, ConfigurationNext, PTL
  DEF Configurations!Spec, Layers!Spec

-----------------------------------------------------------------------------
(* Memory pools: buffers apart, and none drawn while it is read.           *)

BufferPlaces == 1 .. Len(buffers)
PoolRequest == [resize : Nat] \cup [create : Nat] \cup [attach : Nat]
PoolTypes ==
  /\ {size, offset, serverSize} \subseteq Nat /\ valid \in BOOLEAN
  /\ buffers \in Seq(Pool!Buffer)
  /\ poolRequests \in Seq(PoolRequest)
  /\ releases \in Seq(Nat)
  /\ drawn \cup held \cup Listed(releases) \subseteq BufferPlaces
EmptyUnlessValid ==
  /\ valid => shm
  /\ ~valid => /\ buffers = <<>> /\ poolRequests = <<>> /\ releases = <<>>
               /\ offset = 0

(* The buffers are in their order, and before what is not used yet.        *)
InOrder ==
  /\ offset =< size
  /\ \A i \in BufferPlaces : Pool!End(i) =< offset
  /\ \A i, j \in BufferPlaces : i < j => Pool!End(i) =< buffers[j].offset

(* Resizes make the pool of the server larger, up to the size of the       *)
(* client, and come before the buffers that need them.                     *)
Resizes == {k \in 1 .. Len(poolRequests) : "resize" \in DOMAIN poolRequests[k]}
Creates == {k \in 1 .. Len(poolRequests) : "create" \in DOMAIN poolRequests[k]}
Growing ==
  /\ \A k \in Resizes : serverSize =< poolRequests[k].resize /\ poolRequests[k].resize =< size
  /\ \A k, m \in Resizes : k < m => poolRequests[k].resize =< poolRequests[m].resize
  /\ valid => serverSize = size \/ \E k \in Resizes : poolRequests[k].resize = size
Covered ==
  \A k \in Creates :
    /\ poolRequests[k].create \in BufferPlaces
    /\ \/ Pool!End(poolRequests[k].create) =< serverSize
       \/ \E m \in Resizes : /\ m < k
                             /\ Pool!End(poolRequests[k].create) =< poolRequests[m].resize
SlotInv ==
  PoolTypes /\ EmptyUnlessValid /\ InOrder /\ Growing /\ Covered /\ poolFault # "outside"

(* A buffer is drawn, on its way to the server, read there, on its way     *)
(* back or free.                                                           *)
Attaches == {k \in 1 .. Len(poolRequests) : "attach" \in DOMAIN poolRequests[k]}
Attaching == {poolRequests[k].attach : k \in Attaches}
FreeBuffers == {i \in BufferPlaces : buffers[i].released}
InOnePlace ==
  /\ drawn \cap (held \cup Attaching \cup Listed(releases) \cup FreeBuffers) = {}
  /\ held \cap (Attaching \cup Listed(releases) \cup FreeBuffers) = {}
  /\ Attaching \cap (Listed(releases) \cup FreeBuffers) = {}
  /\ Listed(releases) \cap FreeBuffers = {}
AttachedOnce ==
  /\ \A k, m \in Attaches : poolRequests[k].attach = poolRequests[m].attach => k = m
  /\ Attaching \subseteq BufferPlaces
  /\ Distinct(releases)
PlaceInv == InOnePlace /\ AttachedOnce

LEMMA PoolInit == Pool!Assumptions /\ Pool!Init => SlotInv /\ PlaceInv
<1> SUFFICES ASSUME Pool!Assumptions, Pool!Init PROVE SlotInv /\ PlaceInv
  OBVIOUS
<1>1. /\ buffers = <<>> /\ poolRequests = <<>> /\ releases = <<>> /\ drawn = {} /\ held = {}
      /\ offset = 0 /\ serverSize = 0 /\ size \in Nat /\ valid = FALSE /\ shm = FALSE
      /\ poolFault = "none"
  BY DEF Pool!Init, Pool!Assumptions
<1>2. /\ \A S : buffers \in Seq(S) /\ poolRequests \in Seq(S) /\ releases \in Seq(S)
      /\ Listed(releases) = {} /\ Distinct(releases)
  BY <1>1, EmptyListed
<1>3. BufferPlaces = {} /\ Resizes = {} /\ Creates = {} /\ Attaches = {}
  <2>1. Len(<<>>) = 0 /\ 1 .. 0 = {}
    BY EmptySeq
  <2> QED
    BY <1>1, <2>1 DEF BufferPlaces, Resizes, Creates, Attaches
<1>4. PlaceInv
  BY <1>1, <1>2, <1>3 DEF PlaceInv, InOnePlace, AttachedOnce, Attaching, FreeBuffers
<1>5. PoolTypes /\ EmptyUnlessValid /\ InOrder
  <2>1. buffers \in Seq(Pool!Buffer) /\ releases \in Seq(Nat)
    BY <1>2
  <2>2. poolRequests \in Seq(PoolRequest)
    BY <1>2
  <2>3. Listed(releases) = {}
    BY <1>2
  <2>4. PoolTypes
    <3>1. {size, offset, serverSize} \subseteq Nat
      BY <1>1
    <3>3. valid \in BOOLEAN
      BY DEF Pool!Init
    <3>2. drawn \cup held \cup Listed(releases) \subseteq BufferPlaces
      BY <1>1, <2>3
    <3> QED
      BY <2>1, <2>2, <3>1, <3>2, <3>3 DEF PoolTypes
  <2>5. EmptyUnlessValid /\ InOrder
    BY <1>1, <1>3 DEF EmptyUnlessValid, InOrder
  <2> QED
    BY <2>4, <2>5
<1>6. Growing /\ Covered
  BY <1>1, <1>3 DEF Growing, Covered
<1> QED
  BY <1>1, <1>4, <1>5, <1>6 DEF SlotInv

(* The flags of a buffer move nothing.                                     *)
LEMMA Flagged ==
  ASSUME buffers \in Seq(Pool!Buffer), NEW i \in BufferPlaces, NEW v \in BOOLEAN,
         \/ buffers' = [buffers EXCEPT ![i].released = v]
         \/ buffers' = [buffers EXCEPT ![i].used = v]
  PROVE  /\ buffers' \in Seq(Pool!Buffer) /\ BufferPlaces' = BufferPlaces
         /\ \A j \in BufferPlaces : /\ buffers'[j].offset = buffers[j].offset
                                    /\ buffers'[j].bytes = buffers[j].bytes
         /\ \A j \in BufferPlaces \ {i} : buffers'[j].released = buffers[j].released
         /\ buffers' = [buffers EXCEPT ![i].released = v] => buffers'[i].released = v
         /\ buffers' = [buffers EXCEPT ![i].used = v]
              => buffers'[i].released = buffers[i].released
<1>1. buffers[i] \in Pool!Buffer
  BY ElementOfSeq DEF BufferPlaces
<1>2. PICK b \in Pool!Buffer :
        /\ buffers' = [buffers EXCEPT ![i] = b]
        /\ b.offset = buffers[i].offset /\ b.bytes = buffers[i].bytes
        /\ buffers' = [buffers EXCEPT ![i].released = v] => b.released = v
        /\ buffers' = [buffers EXCEPT ![i].used = v] => b.released = buffers[i].released
  <2>1. CASE buffers' = [buffers EXCEPT ![i].released = v]
    <3> DEFINE b == [buffers[i] EXCEPT !.released = v]
    <3>1. b \in Pool!Buffer /\ b.offset = buffers[i].offset /\ b.bytes = buffers[i].bytes
          /\ b.released = v
      BY <1>1 DEF Pool!Buffer
    <3>2. buffers' = [buffers EXCEPT ![i] = b]
      BY <2>1
    <3>3. buffers'[i] = b
      BY <3>2, LenProperties DEF BufferPlaces
    <3>4. ASSUME buffers' = [buffers EXCEPT ![i].used = v]
          PROVE  b.released = buffers[i].released
      <4>1. buffers'[i] = [buffers[i] EXCEPT !.used = v]
        BY <3>4, LenProperties DEF BufferPlaces
      <4> QED
        BY <1>1, <3>3, <4>1 DEF Pool!Buffer
    <3> QED
      BY <3>1, <3>2, <3>4
  <2>2. CASE buffers' # [buffers EXCEPT ![i].released = v]
    <3> DEFINE b == [buffers[i] EXCEPT !.used = v]
    <3>1. b \in Pool!Buffer /\ b.offset = buffers[i].offset /\ b.bytes = buffers[i].bytes
          /\ b.released = buffers[i].released
      BY <1>1 DEF Pool!Buffer
    <3>2. buffers' = [buffers EXCEPT ![i] = b]
      BY <2>2
    <3> QED
      BY <2>2, <3>1, <3>2
  <2> QED
    BY <2>1, <2>2
<1>3. /\ buffers' \in Seq(Pool!Buffer) /\ Len(buffers') = Len(buffers)
      /\ \A j \in 1 .. Len(buffers) : buffers'[j] = IF j = i THEN b ELSE buffers[j]
  BY <1>2, ExceptSeq DEF BufferPlaces
<1> QED
  BY <1>2, <1>3 DEF BufferPlaces

(* What keeps the places of buffers and the requests keeps their order.    *)
LEMMA SameSlots ==
  ASSUME SlotInv, poolFault' # "outside",
         UNCHANGED <<shm, valid, size, offset, serverSize, poolRequests, BufferPlaces>>,
         \A j \in BufferPlaces : /\ buffers'[j].offset = buffers[j].offset
                                 /\ buffers'[j].bytes = buffers[j].bytes,
         buffers' \in Seq(Pool!Buffer), releases' \in Seq(Nat),
         ~valid => buffers' = <<>> /\ releases' = <<>>,
         drawn' \cup held' \cup Listed(releases)' \subseteq BufferPlaces
  PROVE  SlotInv'
<1>1. \A j \in BufferPlaces : Pool!End(j)' = Pool!End(j)
  BY DEF Pool!End
<1>2. PoolTypes' /\ EmptyUnlessValid'
  BY DEF SlotInv, PoolTypes, EmptyUnlessValid
<1>3. InOrder'
  BY <1>1 DEF SlotInv, InOrder
<1>4. Growing' /\ Covered'
  BY <1>1 DEF SlotInv, Growing, Covered, Resizes, Creates
<1> QED
  BY <1>2, <1>3, <1>4 DEF SlotInv

(* A pool that is set up, or released, starts without anything.            *)
LEMMA EmptyPool ==
  ASSUME buffers' = <<>>, poolRequests' = <<>>, releases' = <<>>, offset' = 0,
         drawn' = {}, held' = {}, {size', serverSize'} \subseteq Nat, valid' \in BOOLEAN,
         valid' => shm' /\ serverSize' = size', poolFault' # "outside"
  PROVE  SlotInv' /\ PlaceInv'
<1>1. /\ buffers' \in Seq(Pool!Buffer) /\ poolRequests' \in Seq(PoolRequest)
      /\ releases' \in Seq(Nat)
  BY EmptyListed
<1>2. Listed(releases)' = {} /\ Distinct(releases)'
  BY EmptyListed
<1>3. BufferPlaces' = {} /\ Resizes' = {} /\ Creates' = {} /\ Attaches' = {}
  <2>1. Len(<<>>) = 0 /\ 1 .. 0 = {}
    BY EmptySeq
  <2> QED
    BY <2>1 DEF BufferPlaces, Resizes, Creates, Attaches
<1>4. PlaceInv'
  BY <1>2, <1>3 DEF PlaceInv, InOnePlace, AttachedOnce, Attaching, FreeBuffers
<1>5. PoolTypes' /\ EmptyUnlessValid' /\ InOrder'
  BY <1>1, <1>2, <1>3 DEF PoolTypes, EmptyUnlessValid, InOrder
<1>6. Growing' /\ Covered'
  BY <1>3 DEF Growing, Covered
<1> QED
  BY <1>4, <1>5, <1>6 DEF SlotInv

LEMMA NothingUnlessValid ==
  ASSUME SlotInv, ~valid
  PROVE  drawn = {} /\ held = {}
<1>1. buffers = <<>> /\ Len(<<>>) = 0 /\ 1 .. 0 = {}
  BY EmptySeq DEF SlotInv, EmptyUnlessValid
<1> QED
  BY <1>1 DEF SlotInv, PoolTypes, BufferPlaces

LEMMA PoolSetup ==
  ASSUME SlotInv, PlaceInv, poolFault = "none", Pool!Setup \/ Pool!Release
  PROVE  SlotInv' /\ PlaceInv'
<1>1. CASE Pool!Setup
  <2>1. /\ ~valid /\ valid = FALSE /\ shm' = TRUE
        /\ (valid' = TRUE /\ serverSize' = size) \/ (valid' = valid /\ serverSize' = serverSize)
        /\ UNCHANGED <<size, offset, buffers, drawn, poolRequests, held, releases, poolFault>>
    BY <1>1 DEF Pool!Setup, SlotInv, PoolTypes, EmptyUnlessValid
  <2>2. /\ buffers = <<>> /\ poolRequests = <<>> /\ releases = <<>> /\ offset = 0
        /\ drawn = {} /\ held = {} /\ {size, serverSize} \subseteq Nat
    BY <2>1, NothingUnlessValid DEF SlotInv, PoolTypes, EmptyUnlessValid
  <2>3. valid' => shm' /\ serverSize' = size'
    <3>1. CASE valid' = valid /\ serverSize' = serverSize
      <4>1. ~valid'
        BY <2>1, <3>1
      <4> QED
        BY <4>1
    <3>2. CASE valid' = TRUE /\ serverSize' = size
      <4>1. serverSize' = size'
        BY <2>1, <3>2
      <4>2. shm'
        BY <2>1
      <4> QED
        BY <4>1, <4>2
    <3> QED
      BY <2>1, <3>1, <3>2
  <2>4. {size', serverSize'} \subseteq Nat /\ valid' \in BOOLEAN /\ poolFault' # "outside"
    BY <2>1, <2>2
  <2>5. /\ buffers' = <<>> /\ poolRequests' = <<>> /\ releases' = <<>> /\ offset' = 0
        /\ drawn' = {} /\ held' = {}
    BY <2>1, <2>2
  <2> QED
    BY <2>3, <2>4, <2>5, EmptyPool
<1>2. CASE Pool!Release
  BY <1>2, EmptyPool DEF Pool!Release, SlotInv, PoolTypes
<1> QED
  BY <1>1, <1>2

LEMMA TakeInv ==
  ASSUME SlotInv, PlaceInv, poolFault = "none", NEW n, NEW f, Pool!TakeReleased(n, f)
  PROVE  SlotInv' /\ PlaceInv'
<1> DEFINE I == Pool!Free(n, f)
           i == Pool!Min(I)
<1>1. /\ I # {} /\ buffers' = [buffers EXCEPT ![i].released = FALSE]
      /\ drawn' = drawn \cup {i}
      /\ UNCHANGED <<shm, valid, size, offset, poolRequests, serverSize, held, releases,
                     poolFault>>
      /\ valid
  BY DEF Pool!TakeReleased, Pool!Taken
<1>2. I \subseteq BufferPlaces /\ I \subseteq FreeBuffers /\ Len(buffers) \in Nat
      /\ buffers \in Seq(Pool!Buffer)
  BY LenProperties DEF Pool!Free, BufferPlaces, FreeBuffers, SlotInv, PoolTypes
<1>3. i \in I
  <2>1. i = Least(I)
    BY DEF Pool!Min, Least
  <2>2. I \in SUBSET (1 .. Len(buffers))
    BY <1>2 DEF BufferPlaces
  <2> QED
    BY <1>1, <1>2, <2>1, <2>2, LeastPlace
<1> HIDE DEF i, I
<1>4. i \in FreeBuffers /\ i \in BufferPlaces
  BY <1>2, <1>3
<1>5. /\ buffers' \in Seq(Pool!Buffer) /\ BufferPlaces' = BufferPlaces
      /\ \A j \in BufferPlaces : /\ buffers'[j].offset = buffers[j].offset
                                 /\ buffers'[j].bytes = buffers[j].bytes
      /\ \A j \in BufferPlaces \ {i} : buffers'[j].released = buffers[j].released
      /\ buffers'[i].released = FALSE
  BY <1>1, <1>2, <1>4, Flagged
<1>6. SlotInv'
  <2>1. drawn' \cup held' \cup Listed(releases)' \subseteq BufferPlaces
    BY <1>1, <1>4 DEF SlotInv, PoolTypes
  <2>2. releases' \in Seq(Nat) /\ poolFault' # "outside"
    BY <1>1 DEF SlotInv, PoolTypes
  <2> QED
    BY <1>1, <1>5, <2>1, <2>2, SameSlots
<1>7. FreeBuffers' = FreeBuffers \ {i}
  BY <1>4, <1>5 DEF FreeBuffers
<1>8. Attaching' = Attaching /\ Listed(releases)' = Listed(releases) /\ Attaches' = Attaches
  BY <1>1 DEF Attaching, Attaches
<1>9. PlaceInv'
  BY <1>1, <1>4, <1>5, <1>7, <1>8 DEF PlaceInv, InOnePlace, AttachedOnce
<1> QED
  BY <1>6, <1>9

LEMMA ReadReleaseInv ==
  ASSUME SlotInv, PlaceInv, poolFault = "none", Pool!ReadRelease
  PROVE  SlotInv' /\ PlaceInv'
<1> DEFINE i == Head(releases)
<1>1. /\ releases # <<>> /\ buffers' = [buffers EXCEPT ![i].released = TRUE]
      /\ releases' = Tail(releases)
      /\ UNCHANGED <<shm, valid, size, offset, poolRequests, serverSize, held, drawn, poolFault>>
  BY DEF Pool!ReadRelease
<1>2. buffers \in Seq(Pool!Buffer) /\ releases \in Seq(Nat)
      /\ Listed(releases) \subseteq BufferPlaces
  BY DEF SlotInv, PoolTypes
<1>3. /\ i \in Listed(releases) /\ releases' \in Seq(Nat) /\ Distinct(releases)'
      /\ Listed(releases)' = Listed(releases) \ {i}
  <2>1. Distinct(releases)
    BY DEF PlaceInv, AttachedOnce
  <2>2. /\ i \in Listed(releases) /\ Tail(releases) \in Seq(Nat)
        /\ Listed(Tail(releases)) \subseteq Listed(releases)
        /\ Listed(releases) \subseteq Listed(Tail(releases)) \cup {i}
        /\ Distinct(Tail(releases)) /\ i \notin Listed(Tail(releases))
    BY <1>1, <1>2, <2>1, TailListed
  <2> QED
    BY <1>1, <2>2
<1> HIDE DEF i
<1>4. i \in BufferPlaces
  BY <1>2, <1>3
<1>5. /\ buffers' \in Seq(Pool!Buffer) /\ BufferPlaces' = BufferPlaces
      /\ \A j \in BufferPlaces : /\ buffers'[j].offset = buffers[j].offset
                                 /\ buffers'[j].bytes = buffers[j].bytes
      /\ \A j \in BufferPlaces \ {i} : buffers'[j].released = buffers[j].released
      /\ buffers'[i].released = TRUE
  BY <1>1, <1>2, <1>4, Flagged
<1>6. SlotInv'
  <2>1. drawn' \cup held' \cup Listed(releases)' \subseteq BufferPlaces
    BY <1>1, <1>3 DEF SlotInv, PoolTypes
  <2>2. poolFault' # "outside" /\ valid
    BY <1>1 DEF SlotInv, EmptyUnlessValid
  <2> QED
    BY <1>1, <1>3, <1>5, <2>1, <2>2, SameSlots
<1>7. FreeBuffers' = FreeBuffers \cup {i}
  BY <1>4, <1>5 DEF FreeBuffers
<1>8. Attaching' = Attaching /\ Attaches' = Attaches
  BY <1>1 DEF Attaching, Attaches
<1>9. PlaceInv'
  BY <1>1, <1>3, <1>5, <1>7, <1>8 DEF PlaceInv, InOnePlace, AttachedOnce
<1> QED
  BY <1>6, <1>9

LEMMA SetUsedInv ==
  ASSUME SlotInv, PlaceInv, poolFault = "none", NEW i, NEW used \in BOOLEAN,
         Pool!SetUsed(i, used)
  PROVE  SlotInv' /\ PlaceInv'
<1>1. /\ i \in DOMAIN buffers /\ buffers' = [buffers EXCEPT ![i].used = used]
      /\ UNCHANGED <<shm, valid, size, offset, poolRequests, serverSize, held, drawn, releases,
                     poolFault>>
  BY DEF Pool!SetUsed
<1>2. buffers \in Seq(Pool!Buffer) /\ i \in BufferPlaces
  BY <1>1, LenProperties DEF SlotInv, PoolTypes, BufferPlaces
<1>3. /\ buffers' \in Seq(Pool!Buffer) /\ BufferPlaces' = BufferPlaces
      /\ \A j \in BufferPlaces : /\ buffers'[j].offset = buffers[j].offset
                                 /\ buffers'[j].bytes = buffers[j].bytes
      /\ \A j \in BufferPlaces : buffers'[j].released = buffers[j].released
  BY <1>1, <1>2, Flagged
<1>4. SlotInv'
  <2>1. drawn' \cup held' \cup Listed(releases)' \subseteq BufferPlaces /\ releases' \in Seq(Nat)
    BY <1>1 DEF SlotInv, PoolTypes
  <2>2. poolFault' # "outside"
    BY <1>1 DEF SlotInv
  <2>3. valid
    <3>1. ~valid => buffers = <<>>
      BY DEF SlotInv, EmptyUnlessValid
    <3>2. Len(<<>>) = 0 /\ 1 .. 0 = {}
      BY EmptySeq
    <3> QED
      BY <1>2, <3>1, <3>2 DEF BufferPlaces
  <2> QED
    BY <1>1, <1>3, <2>1, <2>2, <2>3, SameSlots
<1>5. FreeBuffers' = FreeBuffers /\ Attaching' = Attaching /\ Attaches' = Attaches
  BY <1>1, <1>3 DEF FreeBuffers, Attaching, Attaches
<1> QED
  BY <1>1, <1>3, <1>4, <1>5 DEF PlaceInv, InOnePlace, AttachedOnce

LEMMA ServerReleasesInv ==
  ASSUME SlotInv, PlaceInv, poolFault = "none", NEW i, Pool!ServerReleases(i)
  PROVE  SlotInv' /\ PlaceInv'
<1>1. /\ i \in held /\ held' = held \ {i} /\ releases' = Append(releases, i)
      /\ UNCHANGED <<shm, valid, size, offset, buffers, drawn, poolRequests, serverSize,
                     poolFault>>
  BY DEF Pool!ServerReleases
<1>2. i \in BufferPlaces /\ i \in Nat /\ releases \in Seq(Nat) /\ buffers \in Seq(Pool!Buffer)
  BY <1>1 DEF SlotInv, PoolTypes, BufferPlaces
<1>3. /\ releases' \in Seq(Nat) /\ Listed(releases)' = Listed(releases) \cup {i}
      /\ Distinct(releases)'
  <2>1. Distinct(releases) /\ i \notin Listed(releases)
    BY <1>1 DEF PlaceInv, InOnePlace, AttachedOnce
  <2> QED
    BY <1>1, <1>2, <2>1, AppendListed
<1>4. BufferPlaces' = BufferPlaces
  BY <1>1 DEF BufferPlaces
<1>5. SlotInv'
  <2>1. drawn' \cup held' \cup Listed(releases)' \subseteq BufferPlaces
    BY <1>1, <1>2, <1>3 DEF SlotInv, PoolTypes
  <2>2. poolFault' # "outside" /\ (~valid => held = {})
    BY <1>1, NothingUnlessValid DEF SlotInv
  <2> QED
    BY <1>1, <1>2, <1>3, <1>4, <2>1, <2>2, SameSlots
<1>6. FreeBuffers' = FreeBuffers /\ Attaching' = Attaching /\ Attaches' = Attaches
  BY <1>1, <1>4 DEF FreeBuffers, Attaching, Attaches
<1> QED
  BY <1>1, <1>3, <1>4, <1>5, <1>6 DEF PlaceInv, InOnePlace, AttachedOnce

(* Requests are handled from the first: the others move up by one.         *)
LEMMA Handled ==
  ASSUME SlotInv, poolRequests # <<>>, poolRequests' = Tail(poolRequests)
  PROVE  LET n == Len(poolRequests)
         IN  /\ n \in Nat /\ 1 \in 1 .. n /\ Head(poolRequests) = poolRequests[1]
             /\ poolRequests[1] \in PoolRequest
             /\ poolRequests' \in Seq(PoolRequest) /\ Len(poolRequests') = n - 1
             /\ \A k \in 1 .. n - 1 : k + 1 \in 1 .. n /\ poolRequests'[k] = poolRequests[k + 1]
             /\ \A k \in 1 .. n : k = 1 \/ (k - 1 \in 1 .. n - 1 /\ k - 1 + 1 = k)
<1> DEFINE n == Len(poolRequests)
           tail == Tail(poolRequests)
<1>1. poolRequests \in Seq(PoolRequest)
  BY DEF SlotInv, PoolTypes
<1>2. /\ tail \in Seq(PoolRequest) /\ Len(tail) = n - 1 /\ Head(poolRequests) \in PoolRequest
      /\ \A k \in 1 .. Len(tail) : tail[k] = poolRequests[k + 1]
  BY <1>1, HeadTailProperties
<1>3. n \in Nat /\ n # 0 /\ Head(poolRequests) = poolRequests[1]
  BY <1>1, EmptySeq, LenProperties
<1> HIDE DEF n, tail
<1>4. 1 \in 1 .. n /\ \A k \in 1 .. n - 1 : k + 1 \in 1 .. n
  BY <1>3
<1>5. \A k \in 1 .. n : k = 1 \/ (k - 1 \in 1 .. n - 1 /\ k - 1 + 1 = k)
  BY <1>3
<1> QED
  BY <1>2, <1>3, <1>4, <1>5 DEF n, tail

LEMMA EndNat ==
  ASSUME Pool!Assumptions, SlotInv, NEW i \in BufferPlaces
  PROVE  Pool!End(i) \in Nat /\ buffers[i].offset \in Nat
<1>1. buffers[i] \in Pool!Buffer
  BY ElementOfSeq DEF SlotInv, PoolTypes, BufferPlaces
<1> QED
  <2>1. buffers[i].offset \in Nat /\ buffers[i].bytes \in Bytes
    BY <1>1 DEF Pool!Buffer
  <2>2. buffers[i].bytes \in Nat
    BY <2>1 DEF Pool!Assumptions
  <2> QED
    BY <2>1, <2>2 DEF Pool!End

LEMMA HandleSlots ==
  ASSUME Pool!Assumptions, SlotInv, PlaceInv, poolFault = "none", Pool!HandleRequest
  PROVE  SlotInv'
<1> DEFINE n == Len(poolRequests)
           r == poolRequests[1]
<1>1. /\ poolRequests # <<>> /\ poolRequests' = Tail(poolRequests)
      /\ UNCHANGED <<shm, valid, size, offset, buffers, drawn, releases>>
  BY DEF Pool!HandleRequest
<1>2. /\ n \in Nat /\ 1 \in 1 .. n /\ Head(poolRequests) = r /\ r \in PoolRequest
      /\ poolRequests' \in Seq(PoolRequest) /\ Len(poolRequests') = n - 1
      /\ \A k \in 1 .. n - 1 : k + 1 \in 1 .. n /\ poolRequests'[k] = poolRequests[k + 1]
      /\ \A k \in 1 .. n : k = 1 \/ (k - 1 \in 1 .. n - 1 /\ k - 1 + 1 = k)
  BY <1>1, Handled
<1>3. \/ /\ "resize" \in DOMAIN r /\ serverSize' = r.resize /\ UNCHANGED <<held, poolFault>>
      \/ /\ "create" \in DOMAIN r /\ UNCHANGED <<serverSize, held>>
         /\ poolFault' = IF Pool!End(r.create) > serverSize THEN "outside" ELSE poolFault
      \/ /\ "attach" \in DOMAIN r /\ held' = held \cup {r.attach}
         /\ UNCHANGED <<serverSize, poolFault>>
  BY <1>1, <1>2 DEF Pool!HandleRequest
<1>4. /\ "resize" \in DOMAIN r => 1 \in Resizes /\ r.resize \in Nat
      /\ "create" \in DOMAIN r => 1 \in Creates
      /\ "resize" \notin DOMAIN r => 1 \notin Resizes
  BY <1>2 DEF Resizes, Creates, PoolRequest
<1>5. /\ \A k \in Resizes' : k + 1 \in Resizes /\ k \in 1 .. n - 1
                             /\ poolRequests'[k] = poolRequests[k + 1]
      /\ \A k \in Creates' : k + 1 \in Creates /\ k \in 1 .. n - 1
                             /\ poolRequests'[k] = poolRequests[k + 1]
      /\ \A k \in Resizes : k = 1 \/ (k - 1 \in Resizes' /\ k - 1 + 1 = k)
  BY <1>2 DEF Resizes, Creates
<1>6. \A i : Pool!End(i)' = Pool!End(i)
  BY <1>1 DEF Pool!End
<1>7. BufferPlaces' = BufferPlaces
  BY <1>1 DEF BufferPlaces
<1>8. \A i \in BufferPlaces : Pool!End(i) \in Nat
  BY EndNat
<1>9. {size, serverSize} \subseteq Nat /\ \A k \in Resizes : poolRequests[k].resize \in Nat
  <2>1. ASSUME NEW k \in Resizes PROVE poolRequests[k].resize \in Nat
    <3>1. poolRequests[k] \in PoolRequest /\ "resize" \in DOMAIN poolRequests[k]
      BY ElementOfSeq DEF Resizes, SlotInv, PoolTypes
    <3> QED
      BY <3>1 DEF PoolRequest
  <2> QED
    BY <2>1 DEF SlotInv, PoolTypes
<1> HIDE DEF n, r
<1>10. 1 \in Nat /\ \A k \in Resizes : k # 1 => 1 < k
  BY <1>2 DEF Resizes, n
<1>11. /\ serverSize' \in Nat /\ serverSize =< serverSize' /\ serverSize' =< size
       /\ \A k \in Resizes : k # 1 => serverSize' =< poolRequests[k].resize
       /\ 1 \in Resizes => serverSize' = poolRequests[1].resize
       /\ 1 \notin Resizes => serverSize' = serverSize
  <2>1. CASE "resize" \in DOMAIN r
    <3>1. serverSize' = r.resize /\ 1 \in Resizes /\ r.resize \in Nat
      BY <1>2, <1>3, <1>4, <2>1 DEF PoolRequest
    <3>2. serverSize =< r.resize /\ r.resize =< size
      BY <3>1 DEF SlotInv, Growing, r
    <3>3. \A k \in Resizes : k # 1 => r.resize =< poolRequests[k].resize
      BY <1>10, <3>1 DEF SlotInv, Growing, r
    <3> QED
      BY <3>1, <3>2, <3>3 DEF r
  <2>2. CASE "resize" \notin DOMAIN r
    <3>1. serverSize' = serverSize /\ 1 \notin Resizes
      BY <1>3, <1>4, <2>2
    <3>2. \A k \in Resizes : serverSize =< poolRequests[k].resize /\ poolRequests[k].resize =< size
      BY DEF SlotInv, Growing
    <3>3. valid
      BY <1>1 DEF SlotInv, EmptyUnlessValid
    <3>4. serverSize =< size
      BY <1>9, <3>2, <3>3 DEF SlotInv, Growing
    <3> QED
      BY <1>9, <3>1, <3>2, <3>4
  <2> QED
    BY <2>1, <2>2
<1>12. Growing'
  <2>1. ASSUME NEW k \in Resizes'
        PROVE  serverSize' =< poolRequests'[k].resize /\ poolRequests'[k].resize =< size
    <3>1. k + 1 \in Resizes /\ k + 1 # 1 /\ poolRequests'[k] = poolRequests[k + 1]
      BY <1>2, <1>5 DEF n
    <3> QED
      BY <1>11, <3>1 DEF SlotInv, Growing
  <2>2. ASSUME NEW k \in Resizes', NEW m \in Resizes', k < m
        PROVE  poolRequests'[k].resize =< poolRequests'[m].resize
    <3>1. /\ k + 1 \in Resizes /\ poolRequests'[k] = poolRequests[k + 1]
          /\ m + 1 \in Resizes /\ poolRequests'[m] = poolRequests[m + 1]
          /\ k + 1 < m + 1
      BY <1>5, <2>2 DEF n
    <3> QED
      BY <3>1 DEF SlotInv, Growing
  <2>3. serverSize' = size \/ \E k \in Resizes' : poolRequests'[k].resize = size
    <3>1. valid
      BY <1>1 DEF SlotInv, EmptyUnlessValid
    <3>2. CASE serverSize = size
      BY <1>9, <1>11, <3>2
    <3>3. ASSUME NEW k \in Resizes, poolRequests[k].resize = size PROVE <2>3!1 \/ <2>3!2
      <4>1. CASE k = 1
        BY <1>11, <3>3, <4>1
      <4>2. CASE k # 1
        <5>1. k - 1 \in Resizes' /\ poolRequests'[k - 1] = poolRequests[k]
          BY <1>5, <4>2
        <5> QED
          BY <3>3, <5>1
      <4> QED
        BY <4>1, <4>2
    <3> QED
      BY <3>1, <3>2, <3>3 DEF SlotInv, Growing
  <2> QED
    BY <1>1, <2>1, <2>2, <2>3 DEF Growing
<1>13. Covered'
  <2> SUFFICES ASSUME NEW k \in Creates'
               PROVE  /\ poolRequests'[k].create \in BufferPlaces
                      /\ \/ Pool!End(poolRequests'[k].create) =< serverSize'
                         \/ \E m \in Resizes' :
                              /\ m < k
                              /\ Pool!End(poolRequests'[k].create) =< poolRequests'[m].resize
    BY <1>6, <1>7 DEF Covered
  <2> DEFINE e == Pool!End(poolRequests[k + 1].create)
  <2>1. k + 1 \in Creates /\ poolRequests'[k] = poolRequests[k + 1] /\ k \in Nat
    BY <1>5 DEF n
  <2>2. poolRequests[k + 1].create \in BufferPlaces /\ e \in Nat
    BY <1>8, <2>1 DEF SlotInv, Covered
  <2>3. e =< serverSize \/ \E m \in Resizes : m < k + 1 /\ e =< poolRequests[m].resize
    BY <2>1 DEF SlotInv, Covered
  <2> HIDE DEF e
  <2>4. CASE e =< serverSize
    <3>1. e =< serverSize'
      BY <1>9, <1>11, <2>2, <2>4
    <3> QED
      BY <2>1, <2>2, <3>1 DEF e
  <2>5. ASSUME NEW m \in Resizes, m < k + 1, e =< poolRequests[m].resize
        PROVE  e =< serverSize' \/ \E j \in Resizes' : j < k /\ e =< poolRequests'[j].resize
    <3>1. CASE m = 1
      BY <1>11, <2>5, <3>1
    <3>2. CASE m # 1
      <4>1. /\ m - 1 \in Resizes' /\ poolRequests'[m - 1] = poolRequests[m]
            /\ m \in Nat
        <5>1. m \in 1 .. n /\ m \in Nat /\ m - 1 \in Nat
          BY <1>2, <2>5 DEF Resizes, n
        <5> QED
          BY <1>5, <2>5, <3>2, <5>1
      <4>2. m - 1 < k
        BY <2>1, <2>5, <4>1
      <4> QED
        BY <2>5, <4>1, <4>2
    <3> QED
      BY <3>1, <3>2
  <2> QED
    BY <2>1, <2>2, <2>3, <2>4, <2>5 DEF e
<1>14. poolFault' # "outside"
  <2>1. ASSUME "create" \in DOMAIN r PROVE ~(Pool!End(r.create) > serverSize)
    <3>1. 1 \in Creates /\ \A m \in Resizes : ~(m < 1)
      BY <1>2, <1>4, <2>1 DEF Resizes, n
    <3>2. r.create \in BufferPlaces /\ Pool!End(r.create) =< serverSize
      BY <3>1 DEF SlotInv, Covered, r
    <3> QED
      BY <1>8, <1>9, <3>2
  <2> QED
    BY <1>3, <2>1
<1>15. PoolTypes'
  <2>1. held' \subseteq BufferPlaces
    <3>1. ASSUME "attach" \in DOMAIN r PROVE r.attach \in BufferPlaces
      <4>1. 1 \in Attaches
        BY <1>2, <3>1 DEF Attaches, r, n
      <4> QED
        BY <4>1 DEF PlaceInv, AttachedOnce, Attaching, r
    <3> QED
      BY <1>3, <3>1 DEF SlotInv, PoolTypes
  <2>2. {size, offset, serverSize}' \subseteq Nat /\ valid' \in BOOLEAN
    <3>1. valid \in BOOLEAN /\ {size, offset} \subseteq Nat
      BY DEF SlotInv, PoolTypes
    <3> QED
      BY <1>1, <1>11, <3>1
  <2>3. buffers' \in Seq(Pool!Buffer) /\ releases' \in Seq(Nat)
        /\ drawn' \cup Listed(releases)' \subseteq BufferPlaces
    BY <1>1 DEF SlotInv, PoolTypes
  <2> QED
    BY <1>2, <1>7, <2>1, <2>2, <2>3 DEF PoolTypes
<1>16. EmptyUnlessValid' /\ InOrder'
  <2>1. valid'
    BY <1>1 DEF SlotInv, EmptyUnlessValid
  <2> QED
    BY <1>1, <1>6, <1>7, <2>1 DEF SlotInv, EmptyUnlessValid, InOrder
<1> QED
  BY <1>12, <1>13, <1>14, <1>15, <1>16 DEF SlotInv

LEMMA AttachedStays ==
  ASSUME AttachedOnce,
         \A k \in Attaches' : k + 1 \in Attaches /\ k \in Nat
                              /\ poolRequests'[k] = poolRequests[k + 1]
  PROVE  \A k, m \in Attaches' : poolRequests'[k].attach = poolRequests'[m].attach => k = m
<1> SUFFICES ASSUME NEW k \in Attaches', NEW m \in Attaches',
                    poolRequests'[k].attach = poolRequests'[m].attach
             PROVE  k = m
  OBVIOUS
<1>1. k + 1 = m + 1 /\ k \in Nat /\ m \in Nat
  BY DEF AttachedOnce
<1> QED
  BY <1>1

LEMMA HandlePlaces ==
  ASSUME SlotInv, PlaceInv, poolFault = "none", Pool!HandleRequest
  PROVE  PlaceInv'
<1> DEFINE n == Len(poolRequests)
           r == poolRequests[1]
<1>1. /\ poolRequests # <<>> /\ poolRequests' = Tail(poolRequests)
      /\ UNCHANGED <<buffers, drawn, releases>>
  BY DEF Pool!HandleRequest
<1>2. /\ n \in Nat /\ 1 \in 1 .. n /\ Head(poolRequests) = r /\ r \in PoolRequest
      /\ Len(poolRequests') = n - 1
      /\ \A k \in 1 .. n - 1 : k + 1 \in 1 .. n /\ poolRequests'[k] = poolRequests[k + 1]
      /\ \A k \in 1 .. n : k = 1 \/ (k - 1 \in 1 .. n - 1 /\ k - 1 + 1 = k)
  BY <1>1, Handled
<1>3. /\ "attach" \in DOMAIN r => held' = held \cup {r.attach}
      /\ "attach" \notin DOMAIN r => held' = held
  BY <1>1, <1>2 DEF Pool!HandleRequest, PoolRequest
<1>4. \A k \in Attaches' : k + 1 \in Attaches /\ k \in Nat
                            /\ poolRequests'[k] = poolRequests[k + 1]
  BY <1>2 DEF Attaches
<1>5. \A k \in Attaches : k = 1 \/ (k - 1 \in Attaches' /\ poolRequests'[k - 1] = poolRequests[k])
  BY <1>2 DEF Attaches
<1>6. 1 \in Attaches <=> "attach" \in DOMAIN r
  BY <1>2 DEF Attaches
<1>7. FreeBuffers' = FreeBuffers /\ BufferPlaces' = BufferPlaces
      /\ Listed(releases)' = Listed(releases)
  BY <1>1 DEF FreeBuffers, BufferPlaces
<1> HIDE DEF n
<1>8. CASE "attach" \in DOMAIN r
  <2>1. r.attach \in Attaching
    BY <1>6, <1>8 DEF Attaching
  <2>2. Attaching' \subseteq Attaching \ {r.attach}
    <3>1. ASSUME NEW k \in Attaches' PROVE poolRequests'[k].attach \in Attaching \ {r.attach}
      <4>1. k + 1 \in Attaches /\ k + 1 # 1 /\ poolRequests'[k] = poolRequests[k + 1]
        <5>1. k \in 1 .. Len(poolRequests')
          BY DEF Attaches
        <5> QED
          BY <1>2, <1>4, <5>1
      <4> QED
        BY <1>6, <1>8, <4>1 DEF PlaceInv, AttachedOnce, Attaching
    <3> QED
      BY <3>1 DEF Attaching
  <2>3. InOnePlace'
    BY <1>1, <1>3, <1>7, <1>8, <2>1, <2>2 DEF PlaceInv, InOnePlace
  <2> QED
    BY <1>1, <1>4, <1>7, <2>2, <2>3, AttachedStays DEF PlaceInv, AttachedOnce
<1>9. CASE "attach" \notin DOMAIN r
  <2>1. Attaching' \subseteq Attaching
    BY <1>4 DEF Attaching
  <2>2. InOnePlace'
    BY <1>1, <1>3, <1>7, <1>9, <2>1 DEF PlaceInv, InOnePlace
  <2> QED
    BY <1>1, <1>4, <1>7, <2>1, <2>2, AttachedStays DEF PlaceInv, AttachedOnce
<1> QED
  BY <1>8, <1>9

(* A new buffer is asked for after the resize that it needs.               *)
LEMMA Asked ==
  ASSUME SlotInv, NEW n \in Nat, NEW f, Pool!Create(n, f)
  PROVE  LET last == Len(poolRequests')
             b == Len(buffers) + 1
         IN  /\ poolRequests' \in Seq(PoolRequest) /\ last \in Nat
             /\ \A k \in 1 .. Len(poolRequests) : /\ k \in 1 .. last /\ k < last
                                                  /\ poolRequests'[k] = poolRequests[k]
             /\ last \in 1 .. last /\ poolRequests'[last] = [create |-> b]
             /\ \A k \in 1 .. last : \/ k \in 1 .. Len(poolRequests) \/ k = last
                                     \/ Pool!Grows(n) /\ k = last - 1
             /\ Pool!Grows(n) => /\ last - 1 \in 1 .. last /\ last - 1 < last
                                 /\ poolRequests'[last - 1] = [resize |-> size + n]
                                 /\ \A k \in 1 .. Len(poolRequests) : k < last - 1
<1> DEFINE l == Len(poolRequests)
           b == Len(buffers) + 1
           grown == [resize |-> size + n]
           created == [create |-> b]
           middle == poolRequests \o Pool!Growth(n)
           long == Append(middle, created)
<1>1. /\ poolRequests \in Seq(PoolRequest) /\ l \in Nat /\ Len(buffers) \in Nat /\ size \in Nat
  BY LenProperties DEF SlotInv, PoolTypes
<1>2. grown \in PoolRequest /\ created \in PoolRequest
  BY <1>1 DEF PoolRequest
<1>3. CASE Pool!Grows(n)
  <2>1. middle = Append(poolRequests, grown)
    <3>1. Append(poolRequests, grown) = poolRequests \o <<grown>>
      BY <1>1, <1>2, AppendIsConcat
    <3> QED
      BY <1>3, <3>1 DEF Pool!Growth
  <2> HIDE DEF middle, grown, created
  <2>2. /\ middle \in Seq(PoolRequest) /\ Len(middle) = l + 1 /\ middle[l + 1] = grown
        /\ \A k \in 1 .. l : middle[k] = poolRequests[k]
    BY <1>1, <1>2, <2>1, AppendProperties
  <2>3. /\ long \in Seq(PoolRequest) /\ Len(long) = l + 1 + 1 /\ long[l + 1 + 1] = created
        /\ \A k \in 1 .. l + 1 : long[k] = middle[k]
    BY <1>2, <2>2, AppendProperties
  <2>4. poolRequests' = long
    <3>1. long = middle \o <<created>>
      BY <1>2, <2>2, AppendIsConcat
    <3> QED
      BY <3>1 DEF Pool!Create, middle, created
  <2> HIDE DEF long, l
  <2>5. /\ Len(long) \in Nat /\ Len(long) - 1 = l + 1
        /\ \A k \in 1 .. l : k \in 1 .. l + 1 /\ k \in 1 .. Len(long) /\ k < Len(long)
                             /\ k < Len(long) - 1
        /\ Len(long) \in 1 .. Len(long) /\ l + 1 \in 1 .. Len(long) /\ l + 1 \in 1 .. l + 1
        /\ Len(long) - 1 < Len(long)
        /\ \A k \in 1 .. Len(long) : k \in 1 .. l \/ k = Len(long) \/ k = Len(long) - 1
    BY SMTT(30), <1>1, <2>3
  <2>6. long[Len(long) - 1] = grown /\ \A k \in 1 .. l : long[k] = poolRequests[k]
    BY <2>2, <2>3, <2>5
  <2> QED
    BY <1>3, <2>3, <2>4, <2>5, <2>6 DEF l, grown, created
<1>4. CASE ~Pool!Grows(n)
  <2>1. middle = poolRequests
    <3>1. poolRequests \o <<>> = poolRequests
      BY <1>1, ConcatEmptySeq
    <3> QED
      BY <1>4, <3>1 DEF Pool!Growth
  <2> HIDE DEF middle, grown, created
  <2>2. /\ long \in Seq(PoolRequest) /\ Len(long) = l + 1 /\ long[l + 1] = created
        /\ \A k \in 1 .. l : long[k] = poolRequests[k]
    BY <1>1, <1>2, <2>1, AppendProperties
  <2>3. poolRequests' = long
    <3>1. long = middle \o <<created>>
      BY <1>1, <1>2, <2>1, AppendIsConcat
    <3> QED
      BY <3>1 DEF Pool!Create, middle, created
  <2> HIDE DEF long, l
  <2>4. /\ Len(long) \in Nat
        /\ \A k \in 1 .. l : k \in 1 .. Len(long) /\ k < Len(long)
        /\ Len(long) \in 1 .. Len(long)
        /\ \A k \in 1 .. Len(long) : k \in 1 .. l \/ k = Len(long)
    BY <1>1, <2>2
  <2> QED
    BY <1>4, <2>2, <2>3, <2>4 DEF l, created
<1> QED
  BY <1>3, <1>4

LEMMA CreateSlots ==
  ASSUME Pool!Assumptions, SlotInv, PlaceInv, poolFault = "none",
         NEW n \in Bytes, NEW f \in Format, Pool!Create(n, f)
  PROVE  SlotInv' /\ PlaceInv'
<1> PICK b \in Nat : b = Len(buffers) + 1
  BY LenProperties DEF SlotInv, PoolTypes
<1> DEFINE last == Len(poolRequests')
           new == [offset |-> offset, bytes |-> n, format |-> f, released |-> FALSE,
                   used |-> FALSE]
<1>1. /\ valid /\ buffers' = Append(buffers, new) /\ offset' = offset + n
      /\ size' = (IF Pool!Grows(n) THEN size + n ELSE size)
      /\ drawn' = drawn \cup {b}
      /\ UNCHANGED <<shm, valid, serverSize, held, releases, poolFault>>
  BY DEF Pool!Create
<1>2. /\ n \in Nat /\ Len(buffers) \in Nat /\ buffers \in Seq(Pool!Buffer)
      /\ {offset, size, serverSize} \subseteq Nat /\ new \in Pool!Buffer
  <2>1. n \in Nat
    BY DEF Pool!Assumptions
  <2>2. buffers \in Seq(Pool!Buffer) /\ {offset, size, serverSize} \subseteq Nat
    BY DEF SlotInv, PoolTypes
  <2>3. new \in Pool!Buffer
    BY <2>2 DEF Pool!Buffer
  <2> QED
    BY <2>1, <2>2, <2>3, LenProperties
<1>3. /\ buffers' \in Seq(Pool!Buffer) /\ Len(buffers') = b /\ buffers'[b] = new
      /\ \A i \in 1 .. Len(buffers) : buffers'[i] = buffers[i]
  BY <1>1, <1>2, AppendProperties
<1>4. /\ poolRequests' \in Seq(PoolRequest) /\ last \in Nat
      /\ \A k \in 1 .. Len(poolRequests) : /\ k \in 1 .. last /\ k < last
                                           /\ poolRequests'[k] = poolRequests[k]
      /\ last \in 1 .. last /\ poolRequests'[last] = [create |-> b]
      /\ \A k \in 1 .. last : \/ k \in 1 .. Len(poolRequests) \/ k = last
                              \/ Pool!Grows(n) /\ k = last - 1
      /\ Pool!Grows(n) => /\ last - 1 \in 1 .. last /\ last - 1 < last
                          /\ poolRequests'[last - 1] = [resize |-> size + n]
                          /\ \A k \in 1 .. Len(poolRequests) : k < last - 1
  BY <1>2, Asked
<1>5. /\ BufferPlaces' = BufferPlaces \cup {b} /\ b \notin BufferPlaces /\ b \in Nat
      /\ \A i \in BufferPlaces : i < b
  BY <1>2, <1>3 DEF BufferPlaces
<1>6. /\ \A i \in BufferPlaces : buffers'[i] = buffers[i] /\ Pool!End(i)' = Pool!End(i)
      /\ buffers'[b].offset = offset /\ Pool!End(b)' = offset + n
      /\ buffers'[b].released = FALSE
  <2>1. /\ new.offset = offset /\ new.bytes = n /\ new.released = FALSE
    OBVIOUS
  <2> HIDE DEF new
  <2> QED
    BY <1>3, <2>1 DEF BufferPlaces, Pool!End
<1> HIDE DEF last, new
<1>7. \A i \in BufferPlaces : Pool!End(i) \in Nat
  BY EndNat
<1>8. offset' =< size' /\ size =< size' /\ {size', offset'} \subseteq Nat /\ offset =< offset'
  BY SMTT(30), <1>1, <1>2 DEF Pool!Grows, SlotInv, InOrder
<1>9. InOrder'
  <2>1. ASSUME NEW i \in BufferPlaces' PROVE Pool!End(i)' =< offset'
    <3>1. CASE i = b
      BY <1>1, <1>2, <1>6, <3>1
    <3>2. CASE i # b
      <4>1. i \in BufferPlaces /\ Pool!End(i) =< offset
        BY <1>5, <3>2 DEF SlotInv, InOrder
      <4> QED
        BY <1>2, <1>6, <1>7, <1>8, <4>1
    <3> QED
      BY <3>1, <3>2
  <2>2. ASSUME NEW i \in BufferPlaces', NEW j \in BufferPlaces', i < j
        PROVE  Pool!End(i)' =< buffers'[j].offset
    <3>1. i \in BufferPlaces
      BY <1>5, <2>2 DEF BufferPlaces
    <3>2. CASE j = b
      BY <1>6, <3>1, <3>2 DEF SlotInv, InOrder
    <3>3. CASE j # b
      BY <1>5, <1>6, <2>2, <3>1, <3>3 DEF SlotInv, InOrder
    <3> QED
      BY <3>2, <3>3
  <2> QED
    BY <1>8, <2>1, <2>2 DEF InOrder
<1>10. /\ \A k \in Resizes : /\ k \in Resizes' /\ poolRequests'[k] = poolRequests[k]
                             /\ k < last
                             /\ Pool!Grows(n) => k < last - 1
       /\ \A k \in Resizes' : k \in Resizes \/ (Pool!Grows(n) /\ k = last - 1)
       /\ Pool!Grows(n) => /\ last - 1 \in Resizes' /\ last - 1 < last
                           /\ poolRequests'[last - 1].resize = size'
  <2>1. "resize" \notin DOMAIN [create |-> b] /\ "resize" \in DOMAIN [resize |-> size + n]
    OBVIOUS
  <2>2. \A k \in Resizes : k \in 1 .. Len(poolRequests) /\ k \in Resizes'
    BY <1>4 DEF Resizes, last
  <2>3. ASSUME NEW k \in Resizes' PROVE k \in Resizes \/ (Pool!Grows(n) /\ k = last - 1)
    BY <1>4, <2>1 DEF Resizes, last
  <2>4. ASSUME Pool!Grows(n)
        PROVE  last - 1 \in Resizes' /\ poolRequests'[last - 1].resize = size'
    BY <1>1, <1>4, <2>1, <2>4 DEF Resizes, last
  <2> QED
    BY <1>4, <2>2, <2>3, <2>4
<1>11. /\ \A k \in Creates' : \/ k \in Creates /\ poolRequests'[k] = poolRequests[k]
                              \/ k = last /\ poolRequests'[k].create = b
  <2>1. "create" \notin DOMAIN [resize |-> size + n]
    OBVIOUS
  <2> QED
    BY <1>4, <2>1 DEF Creates, last
<1>12. Attaches' = Attaches /\ Attaching' = Attaching
       /\ \A k \in Attaches : poolRequests'[k] = poolRequests[k]
  <2>1. "attach" \notin DOMAIN [resize |-> size + n] /\ "attach" \notin DOMAIN [create |-> b]
    OBVIOUS
  <2>2. Attaches' = Attaches
    BY <1>4, <2>1 DEF Attaches, last
  <2> QED
    BY SMTT(30), <1>4, <2>2 DEF Attaches, Attaching
<1>13. \A k \in Resizes : poolRequests[k].resize \in Nat
  <2>1. ASSUME NEW k \in Resizes PROVE poolRequests[k].resize \in Nat
    <3>1. poolRequests[k] \in PoolRequest /\ "resize" \in DOMAIN poolRequests[k]
      BY ElementOfSeq DEF Resizes, SlotInv, PoolTypes
    <3> QED
      BY <3>1 DEF PoolRequest
  <2> QED
    BY <2>1
<1>14. serverSize =< size
  <2>1. \/ serverSize = size
        \/ \E k \in Resizes : serverSize =< poolRequests[k].resize /\ poolRequests[k].resize = size
    BY <1>1 DEF SlotInv, Growing
  <2> QED
    BY <1>2, <2>1
<1>15. Growing'
  <2>1. ASSUME NEW k \in Resizes'
        PROVE  serverSize =< poolRequests'[k].resize /\ poolRequests'[k].resize =< size'
    <3>1. CASE k \in Resizes
      <4>1. serverSize =< poolRequests[k].resize /\ poolRequests[k].resize =< size
        BY <3>1 DEF SlotInv, Growing
      <4> QED
        BY <1>2, <1>8, <1>10, <1>13, <3>1, <4>1
    <3>2. CASE Pool!Grows(n) /\ k = last - 1
      BY <1>2, <1>8, <1>10, <1>14, <3>2
    <3> QED
      BY <1>10, <3>1, <3>2
  <2>2. ASSUME NEW k \in Resizes', NEW m \in Resizes', k < m
        PROVE  poolRequests'[k].resize =< poolRequests'[m].resize
    <3>1. CASE m \in Resizes
      <4>1. k \in Resizes
        <5>1. Pool!Grows(n) => ~(last - 1 < m)
          BY <1>4, <1>10, <3>1 DEF Resizes
        <5> QED
          BY <1>10, <2>2, <5>1
      <4> QED
        BY <1>10, <2>2, <3>1, <4>1 DEF SlotInv, Growing
    <3>2. CASE m \notin Resizes
      <4>1. poolRequests'[m].resize = size'
        BY <1>10, <3>2
      <4> QED
        BY <2>1, <4>1
    <3> QED
      BY <3>1, <3>2
  <2>3. serverSize = size' \/ \E k \in Resizes' : poolRequests'[k].resize = size'
    <3>1. CASE Pool!Grows(n)
      BY <1>10, <3>1
    <3>2. CASE ~Pool!Grows(n)
      BY <1>1, <1>10, <3>2 DEF SlotInv, Growing
    <3> QED
      BY <3>1, <3>2
  <2> QED
    BY <1>1, <2>1, <2>2, <2>3 DEF Growing
<1>16. Covered'
  <2> SUFFICES ASSUME NEW k \in Creates'
               PROVE  /\ poolRequests'[k].create \in BufferPlaces'
                      /\ \/ Pool!End(poolRequests[k].create)' =< serverSize
                         \/ \E m \in Resizes' :
                              /\ m < k
                              /\ Pool!End(poolRequests[k].create)' =< poolRequests'[m].resize
    BY <1>1 DEF Covered, Pool!End
  <2>1. CASE k \in Creates /\ poolRequests'[k] = poolRequests[k]
    <3>1. /\ poolRequests[k].create \in BufferPlaces
          /\ \/ Pool!End(poolRequests[k].create) =< serverSize
             \/ \E m \in Resizes : /\ m < k
                                   /\ Pool!End(poolRequests[k].create) =< poolRequests[m].resize
      BY <2>1 DEF SlotInv, Covered
    <3>2. Pool!End(poolRequests[k].create)' = Pool!End(poolRequests[k].create)
      <4>1. buffers'[poolRequests'[k].create] = buffers[poolRequests[k].create]
        BY <1>6, <2>1, <3>1
      <4> QED
        BY <2>1, <4>1 DEF Pool!End
    <3> QED
      BY <1>5, <1>10, <2>1, <3>1, <3>2
  <2>2. CASE k = last /\ poolRequests'[k].create = b
    <3>1. Pool!End(poolRequests[k].create)' = offset'
      BY <1>1, <1>6, <2>2 DEF Pool!End
    <3>2. CASE Pool!Grows(n)
      BY <1>5, <1>8, <1>10, <2>2, <3>1, <3>2
    <3>3. CASE ~Pool!Grows(n)
      <4>1. size' = size
        BY <1>1, <3>3
      <4>2. serverSize = size \/ \E m \in Resizes : poolRequests[m].resize = size
        BY <1>1 DEF SlotInv, Growing
      <4> QED
        BY <1>5, <1>8, <1>10, <2>2, <3>1, <4>1, <4>2
    <3> QED
      BY <3>2, <3>3
  <2> QED
    BY <1>11, <2>1, <2>2
<1>17. PoolTypes' /\ EmptyUnlessValid'
  <2>1. drawn' \cup held' \cup Listed(releases)' \subseteq BufferPlaces' /\ releases' \in Seq(Nat)
    BY <1>1, <1>5 DEF SlotInv, PoolTypes
  <2>2. {size, offset, serverSize}' \subseteq Nat
    BY <1>1, <1>2, <1>8
  <2>3. valid' \in BOOLEAN /\ valid' /\ shm'
    BY <1>1 DEF SlotInv, PoolTypes, EmptyUnlessValid
  <2> QED
    BY <1>3, <1>4, <2>1, <2>2, <2>3 DEF PoolTypes, EmptyUnlessValid
<1>18. FreeBuffers' = FreeBuffers /\ FreeBuffers \subseteq BufferPlaces
  BY <1>5, <1>6 DEF FreeBuffers
<1>19. PlaceInv'
  <2>1. b \notin held \cup Attaching \cup Listed(releases) \cup FreeBuffers
    BY <1>5, <1>18 DEF SlotInv, PoolTypes, PlaceInv, AttachedOnce
  <2>2. InOnePlace'
    BY <1>1, <1>12, <1>18, <2>1 DEF PlaceInv, InOnePlace
  <2> QED
    BY <1>1, <1>5, <1>12, <2>2 DEF PlaceInv, AttachedOnce
<1> QED
  BY <1>1, <1>9, <1>15, <1>16, <1>17, <1>19 DEF SlotInv

(* A buffer that is attached is drawn no more.                             *)
LEMMA AttachInv ==
  ASSUME SlotInv, PlaceInv, poolFault = "none", NEW i, Pool!Attach(i)
  PROVE  SlotInv' /\ PlaceInv'
<1> DEFINE l == Len(poolRequests)
           r == [attach |-> i]
<1>1. /\ i \in drawn /\ drawn' = drawn \ {i} /\ poolRequests' = Append(poolRequests, r)
      /\ UNCHANGED <<shm, valid, size, offset, buffers, serverSize, held, releases, poolFault>>
  BY DEF Pool!Attach
<1>2. /\ i \in BufferPlaces /\ i \in Nat /\ poolRequests \in Seq(PoolRequest) /\ l \in Nat
      /\ r \in PoolRequest /\ valid
  <2>1. i \in BufferPlaces /\ i \in Nat /\ poolRequests \in Seq(PoolRequest)
    BY <1>1 DEF SlotInv, PoolTypes, BufferPlaces
  <2> QED
    BY <1>1, <2>1, LenProperties, NothingUnlessValid DEF PoolRequest
<1>3. /\ poolRequests' \in Seq(PoolRequest) /\ Len(poolRequests') = l + 1
      /\ poolRequests'[l + 1] = r /\ \A k \in 1 .. l : poolRequests'[k] = poolRequests[k]
  BY <1>1, <1>2, AppendProperties
<1>4. /\ "attach" \in DOMAIN r /\ "create" \notin DOMAIN r /\ "resize" \notin DOMAIN r
      /\ r.attach = i
  OBVIOUS
<1> HIDE DEF r, l
<1>5. /\ \A k \in 1 .. l : k \in 1 .. l + 1 /\ k # l + 1
      /\ \A k \in 1 .. l + 1 : k \in 1 .. l \/ k = l + 1
      /\ l + 1 \in 1 .. l + 1
  BY <1>2
<1>6. /\ Resizes' = Resizes /\ Creates' = Creates
      /\ Attaches' = Attaches \cup {l + 1} /\ l + 1 \notin Attaches
      /\ \A k \in Resizes \cup Creates \cup Attaches : poolRequests'[k] = poolRequests[k]
  BY <1>3, <1>4, <1>5 DEF Resizes, Creates, Attaches, l
<1>7. BufferPlaces' = BufferPlaces /\ FreeBuffers' = FreeBuffers
      /\ \A j : Pool!End(j)' = Pool!End(j)
  BY <1>1 DEF BufferPlaces, FreeBuffers, Pool!End
<1>8. Growing' /\ Covered'
  BY <1>1, <1>6, <1>7 DEF SlotInv, Growing, Covered
<1>9. PoolTypes'
  BY <1>1, <1>3, <1>7 DEF SlotInv, PoolTypes
<1>10. EmptyUnlessValid' /\ InOrder' /\ poolFault' # "outside"
  BY <1>1, <1>2, <1>7 DEF SlotInv, EmptyUnlessValid, InOrder
<1>11. Attaching' = Attaching \cup {i}
  BY <1>3, <1>4, <1>6 DEF Attaching
<1>12. InOnePlace'
  BY <1>1, <1>7, <1>11 DEF PlaceInv, InOnePlace
<1>13. AttachedOnce'
  <2>1. i \notin Attaching
    BY <1>1 DEF PlaceInv, InOnePlace
  <2>2. ASSUME NEW k \in Attaches', NEW m \in Attaches',
               poolRequests'[k].attach = poolRequests'[m].attach
        PROVE  k = m
    BY <1>3, <1>4, <1>6, <2>1, <2>2 DEF PlaceInv, AttachedOnce, Attaching
  <2> QED
    BY <1>1, <1>2, <1>7, <1>11, <2>2 DEF PlaceInv, AttachedOnce
<1> QED
  BY <1>8, <1>9, <1>10, <1>12, <1>13 DEF SlotInv, PlaceInv

(* A pool that has grown for a buffer that could not be made is only larger. *)
LEMMA GrownInv ==
  ASSUME Pool!Assumptions, SlotInv, PlaceInv, poolFault = "none",
         NEW n \in Bytes, NEW f \in Format, Pool!CreateFails(n, f)
  PROVE  SlotInv' /\ PlaceInv'
<1> DEFINE l == Len(poolRequests)
           r == [resize |-> size + n]
<1>1. /\ valid /\ size' = size + n /\ poolRequests' = poolRequests \o <<r>>
      /\ UNCHANGED <<shm, valid, offset, buffers, drawn, serverSize, held, releases, poolFault>>
  BY DEF Pool!CreateFails, Pool!Growth
<1>2. /\ {n, size, size + n, offset, serverSize} \subseteq Nat /\ size =< size + n
      /\ poolRequests \in Seq(PoolRequest) /\ l \in Nat /\ r \in PoolRequest
  <2>1. {n, size, offset, serverSize} \subseteq Nat /\ poolRequests \in Seq(PoolRequest)
    BY DEF Pool!Assumptions, SlotInv, PoolTypes
  <2>2. size + n \in Nat /\ size =< size + n
    BY <2>1
  <2> QED
    BY <2>1, <2>2, LenProperties DEF PoolRequest
<1>3. /\ poolRequests' \in Seq(PoolRequest) /\ Len(poolRequests') = l + 1
      /\ poolRequests'[l + 1] = r /\ \A k \in 1 .. l : poolRequests'[k] = poolRequests[k]
  <2>1. poolRequests' = Append(poolRequests, r)
    BY <1>1, <1>2, AppendIsConcat
  <2> QED
    BY <1>2, <2>1, AppendProperties
<1>4. /\ "resize" \in DOMAIN r /\ "create" \notin DOMAIN r /\ "attach" \notin DOMAIN r
      /\ r.resize = size + n
  OBVIOUS
<1> HIDE DEF r, l
<1>5. /\ \A k \in 1 .. l : k \in 1 .. l + 1 /\ k < l + 1 /\ ~(l + 1 < k)
      /\ \A k \in 1 .. l + 1 : k \in 1 .. l \/ k = l + 1
      /\ l + 1 \in 1 .. l + 1 /\ ~(l + 1 < l + 1)
  BY <1>2
<1>6. /\ Creates' = Creates /\ Attaches' = Attaches
      /\ Resizes' = Resizes \cup {l + 1}
      /\ \A k \in Resizes \cup Creates \cup Attaches : poolRequests'[k] = poolRequests[k]
      /\ \A k \in Resizes : k < l + 1 /\ ~(l + 1 < k)
  BY <1>3, <1>4, <1>5 DEF Resizes, Creates, Attaches, l
<1>7. /\ BufferPlaces' = BufferPlaces /\ FreeBuffers' = FreeBuffers
      /\ \A j : Pool!End(j)' = Pool!End(j)
  BY <1>1 DEF BufferPlaces, FreeBuffers, Pool!End
<1>8. /\ \A k \in Resizes : /\ poolRequests[k].resize \in Nat
                             /\ serverSize =< poolRequests[k].resize
                             /\ poolRequests[k].resize =< size
      /\ \A k, m \in Resizes : k < m => poolRequests[k].resize =< poolRequests[m].resize
      /\ serverSize =< size
  <2>1. ASSUME NEW k \in Resizes PROVE poolRequests[k].resize \in Nat
    <3>1. poolRequests[k] \in PoolRequest /\ "resize" \in DOMAIN poolRequests[k]
      BY <1>2, ElementOfSeq DEF Resizes
    <3> QED
      BY <3>1 DEF PoolRequest
  <2>2. \/ serverSize = size
        \/ \E k \in Resizes : serverSize =< poolRequests[k].resize /\ poolRequests[k].resize = size
    BY <1>1 DEF SlotInv, Growing
  <2>3. serverSize =< size
    BY <1>2, <2>2
  <2> QED
    BY <2>1, <2>3 DEF SlotInv, Growing
<1>9. Growing'
  <2>1. ASSUME NEW k \in Resizes'
        PROVE  serverSize =< poolRequests'[k].resize /\ poolRequests'[k].resize =< size + n
    <3>1. CASE k \in Resizes
      <4>1. PICK v \in Nat : /\ v = poolRequests'[k].resize /\ serverSize =< v
                             /\ v =< size
        BY <1>6, <1>8, <3>1
      <4> QED
        BY <1>2, <4>1
    <3>2. CASE k = l + 1
      BY <1>2, <1>3, <1>4, <1>8, <3>2
    <3> QED
      BY <1>6, <3>1, <3>2
  <2>2. ASSUME NEW k \in Resizes', NEW m \in Resizes', k < m
        PROVE  poolRequests'[k].resize =< poolRequests'[m].resize
    <3>1. CASE m = l + 1
      BY <1>3, <1>4, <2>1, <3>1
    <3>2. CASE m \in Resizes
      <4>1. k \in Resizes
        BY <1>5, <1>6, <2>2, <3>2
      <4> QED
        BY <1>6, <1>8, <2>2, <3>2, <4>1
    <3> QED
      BY <1>6, <3>1, <3>2
  <2>3. \E k \in Resizes' : poolRequests'[k].resize = size'
    BY <1>1, <1>3, <1>4, <1>6
  <2> QED
    BY <1>1, <2>1, <2>2, <2>3 DEF Growing
<1>10. Covered'
  BY <1>1, <1>6, <1>7 DEF SlotInv, Covered
<1>11. PoolTypes'
  BY <1>1, <1>2, <1>3, <1>7 DEF SlotInv, PoolTypes
<1>12. EmptyUnlessValid' /\ poolFault' # "outside"
  BY <1>1 DEF SlotInv, EmptyUnlessValid
<1>13. InOrder'
  <2>1. offset =< size + n
    <3>1. offset =< size
      BY DEF SlotInv, InOrder
    <3> QED
      BY <1>2, <3>1
  <2> QED
    BY <1>1, <1>7, <2>1 DEF SlotInv, InOrder
<1>14. Attaching' = Attaching
  BY <1>6 DEF Attaching
<1>15. PlaceInv'
  <2>1. InOnePlace'
    BY <1>1, <1>7, <1>14 DEF PlaceInv, InOnePlace
  <2>2. ASSUME NEW k \in Attaches', NEW m \in Attaches',
               poolRequests'[k].attach = poolRequests'[m].attach
        PROVE  k = m
    BY <1>6, <2>2 DEF PlaceInv, AttachedOnce
  <2> QED
    BY <1>1, <1>7, <1>14, <2>1, <2>2 DEF PlaceInv, AttachedOnce
<1> QED
  BY <1>9, <1>10, <1>11, <1>12, <1>13, <1>15 DEF SlotInv

LEMMA PoolNext ==
  Pool!Assumptions /\ ~Redraws /\ SlotInv /\ PlaceInv /\ [Pool!Next]_(Pool!vars)
    => SlotInv' /\ PlaceInv'
<1> SUFFICES ASSUME Pool!Assumptions, ~Redraws, SlotInv, PlaceInv, [Pool!Next]_(Pool!vars)
             PROVE  SlotInv' /\ PlaceInv'
  OBVIOUS
<1>1. CASE /\ UNCHANGED <<shm, valid, size, offset, buffers, drawn, poolRequests, serverSize,
                          held, releases>>
           /\ poolFault' = poolFault \/ poolFault' \in {"overflow", "unmapped"}
  BY <1>1 DEF SlotInv, PoolTypes, EmptyUnlessValid, InOrder, Growing, Covered, Resizes,
              Creates, BufferPlaces, Pool!End, PlaceInv, InOnePlace, AttachedOnce,
              Attaching, Attaches, FreeBuffers
<1>2. CASE UNCHANGED Pool!vars
  BY <1>1, <1>2 DEF Pool!vars
<1>3. CASE Pool!Next
  <2>1. poolFault = "none"
    BY <1>3 DEF Pool!Next
  <2>2. ASSUME NEW n, NEW f, Pool!Overflow(n, f) PROVE SlotInv' /\ PlaceInv'
    BY <1>1, <2>2 DEF Pool!Overflow
  <2>3. ASSUME NEW i, Pool!Redraw(i) PROVE SlotInv' /\ PlaceInv'
    BY <2>3 DEF Pool!Redraw
  <2>4. CASE Pool!MappingFails
    BY <1>1, <2>4 DEF Pool!MappingFails
  <2> QED
    BY <1>3, <2>1, <2>2, <2>3, <2>4, GrownInv, PoolSetup, TakeInv, ReadReleaseInv, SetUsedInv,
       ServerReleasesInv, HandleSlots, HandlePlaces, CreateSlots, AttachInv DEF Pool!Next
<1> QED
  BY <1>2, <1>3

LEMMA SlotsApartAndUnread ==
  ASSUME Pool!Assumptions, SlotInv, PlaceInv
  PROVE  Pool!SlotsApart /\ Pool!NotReadWhileDrawn
<1>1. DOMAIN buffers = BufferPlaces /\ DOMAIN poolRequests = 1 .. Len(poolRequests)
  BY LenProperties DEF SlotInv, PoolTypes, BufferPlaces
<1>2. ASSUME NEW i \in BufferPlaces PROVE Pool!End(i) =< size
  <2>1. Pool!End(i) =< offset /\ offset =< size
    BY DEF SlotInv, InOrder
  <2>2. Pool!End(i) \in Nat /\ offset \in Nat /\ size \in Nat
    BY EndNat DEF SlotInv, PoolTypes
  <2> QED
    BY <2>1, <2>2
<1>3. Pool!SlotsApart
  BY <1>1, <1>2 DEF SlotInv, InOrder, Pool!SlotsApart
<1>4. ASSUME NEW i, [attach |-> i] \in Pool!Range(poolRequests) PROVE i \in Attaching
  <2>1. PICK k \in 1 .. Len(poolRequests) : poolRequests[k] = [attach |-> i]
    BY <1>1, <1>4 DEF Pool!Range
  <2>2. k \in Attaches /\ poolRequests[k].attach = i
    BY <2>1 DEF Attaches
  <2> QED
    BY <2>2 DEF Attaching
<1>5. Pool!NotReadWhileDrawn
  BY <1>4 DEF PlaceInv, InOnePlace, Pool!NotReadWhileDrawn, Pool!AtServer
<1> QED
  BY <1>3, <1>5

(* A descriptor of a dma-buf has one owner until it is closed, no byte of  *)
(* a pool belongs to two buffers, none is drawn while the server reads it  *)
(* and no layer surface is a window, for any numbers of descriptors,       *)
(* planes, buffers and surfaces and any sizes, if what setUsed keeps is    *)
(* not drawn again (linux_dmabuf_v1.cpp:164-172, 221-271, 363-410,         *)
(* src/client/shm_pool.cpp:231-270, layer_shell_v1.cpp:53-61).             *)
THEOREM OneOwnerCorrect ==
  ASSUME Params!Assumptions, Pool!Assumptions, Layers!Assumptions, ~Redraws
  PROVE  Params!Spec /\ Pool!Spec /\ Layers!Spec => []OneOwner
<1>1. ParamsInv /\ SlotInv /\ PlaceInv /\ LinkInv => OneOwner
  BY ParamsOwned, SlotsApartAndUnread DEF LinkInv, OneOwner
<1>2. /\ Params!Init => ParamsInv
      /\ ParamsInv /\ [Params!Next]_(Params!vars) => ParamsInv'
  BY ParamsInit, ParamsNext
<1>3. /\ Pool!Init => SlotInv /\ PlaceInv
      /\ SlotInv /\ PlaceInv /\ [Pool!Next]_(Pool!vars) => SlotInv' /\ PlaceInv'
  BY PoolInit, PoolNext
<1>4. /\ Layers!Init => LinkInv
      /\ LinkInv /\ [Layers!Next]_(Layers!vars) => LinkInv'
  BY LayersInit, LinkNext
<1> QED
  BY <1>1, <1>2, <1>3, <1>4, PTL DEF Params!Spec, Pool!Spec, Layers!Spec

-----------------------------------------------------------------------------
(***************************************************************************)
(* Activation tokens (xdg_activation_v1.cpp): a token listens to the seat  *)
(* it points to, and to no other.                                          *)
(***************************************************************************)
TokenTypes ==
  /\ tokens \subseteq Token /\ seats \subseteq Seat /\ deviceSet \subseteq tokens
  /\ seat \in [Token -> Seat \cup {None}] /\ seatAsked \in [Token -> Seat \cup {None}]

ListensToSeat ==
  \A t \in Token, s \in Seat : <<t, s>> \in tokenListens <=> t \in tokens /\ seat[t] = s

TokenInv == TokenTypes /\ activation \in BOOLEAN /\ ListensToSeat /\ Tokens!TokensCurrent

LEMMA TokenInit == Tokens!Assumptions /\ Tokens!Init => TokenInv
<1> SUFFICES ASSUME Tokens!Assumptions, Tokens!Init PROVE TokenInv
  OBVIOUS
<1>1. TokenTypes /\ activation \in BOOLEAN
  BY DEF Tokens!Init, TokenTypes
<1>2. ListensToSeat /\ Tokens!TokensCurrent
  BY DEF Tokens!Init, ListensToSeat, Tokens!TokensCurrent
<1> QED
  BY <1>1, <1>2 DEF TokenInv

(* Whatever seat a token named before, it now listens to the new one only. *)
LEMMA TokenSerial ==
  ASSUME Tokens!Assumptions, TokenInv, NEW t \in Token, NEW s \in Seat, Tokens!SetSerial(t, s)
  PROVE  TokenInv'
<1> USE DEF TokenInv, TokenTypes, Tokens!SetSerial, Tokens!Handle
<1>1. TokenTypes' /\ activation' \in BOOLEAN
  OBVIOUS
<1>2. ListensToSeat'
  <2> SUFFICES ASSUME NEW u \in Token, NEW r \in Seat
               PROVE  <<u, r>> \in tokenListens' <=> u \in tokens' /\ seat'[u] = r
    BY ZenonT(40) DEF ListensToSeat
  <2>1. tokenListens' = (tokenListens \ {<<t, seat[t]>>}) \cup ({<<t, s>>} \cap (tokens \X seats))
    BY DEF Tokens!Relistened
  <2>2. CASE u = t
    BY <2>1, <2>2 DEF ListensToSeat, Tokens!Assumptions
  <2>3. CASE u # t
    BY <2>1, <2>3 DEF ListensToSeat
  <2> QED
    BY <2>2, <2>3
<1>3. Tokens!TokensCurrent'
  BY DEF Tokens!TokensCurrent
<1> QED
  BY <1>1, <1>2, <1>3

(* A seat that goes is taken from the tokens that point to it.             *)
LEMMA TokenSeat ==
  ASSUME Tokens!Assumptions, TokenInv, NEW s \in Seat, Tokens!DestroySeat(s)
  PROVE  TokenInv'
<1> USE DEF TokenInv, TokenTypes, Tokens!DestroySeat
<1>1. TokenTypes' /\ activation' \in BOOLEAN
  OBVIOUS
<1>2. \A t \in tokens : seat'[t] = IF seat[t] = s THEN None ELSE seat[t]
  BY DEF ListensToSeat
<1>3. ListensToSeat'
  BY ZenonT(40), <1>2 DEF ListensToSeat, Tokens!Assumptions
<1>4. Tokens!TokensCurrent'
  BY <1>2 DEF Tokens!TokensCurrent
<1> QED
  BY <1>1, <1>3, <1>4

LEMMA TokenNext == Tokens!Assumptions /\ TokenInv /\ [Tokens!Next]_(Tokens!vars) => TokenInv'
<1> SUFFICES ASSUME Tokens!Assumptions, TokenInv, [Tokens!Next]_(Tokens!vars) PROVE TokenInv'
  OBVIOUS
<1> USE DEF TokenInv, TokenTypes, ListensToSeat, Tokens!TokensCurrent
<1>1. CASE UNCHANGED Tokens!vars
  BY <1>1 DEF Tokens!vars
<1>2. CASE Tokens!DestroyDevice
  BY <1>2 DEF Tokens!DestroyDevice
<1>3. ASSUME NEW t \in Token, Tokens!GetToken(t)
      PROVE  TokenInv'
  BY <1>3 DEF Tokens!GetToken, Tokens!Assumptions
<1>4. ASSUME NEW t \in Token, Tokens!Commit(t)
      PROVE  TokenInv'
  BY <1>4 DEF Tokens!Commit
<1>5. ASSUME NEW t \in Token, Tokens!DestroyToken(t)
      PROVE  TokenInv'
  BY <1>5 DEF Tokens!DestroyToken
<1>6. ASSUME NEW t \in Token, NEW s \in RoleSurface, Tokens!SetSurface(t, s)
      PROVE  TokenInv'
  BY <1>6 DEF Tokens!SetSurface
<1>7. ASSUME NEW s \in RoleSurface, Tokens!DestroySurface(s)
      PROVE  TokenInv'
  BY <1>7 DEF Tokens!DestroySurface
<1> QED
  BY <1>1, <1>2, <1>3, <1>4, <1>5, <1>6, <1>7, TokenSerial, TokenSeat DEF Tokens!Next

(* The sequence of the members of a finite set is one.                     *)
LEMMA ConnectionsOfSet ==
  ASSUME NEW S, Connections!IsFiniteSet(S)
  PROVE  Connections!Listing(S) \in Seq(S)
<1>1. IsFiniteSet(S)
  BY DEF Connections!IsFiniteSet, IsFiniteSet
<1>2. PICK n \in Nat : n = Cardinality(S) /\ ExistsBijection(1 .. n, S)
  BY <1>1, FS_CardinalityType
<1>3. Connections!Cardinality(S) = n
  BY <1>2 DEF Connections!Cardinality, Cardinality
<1>4. PICK f \in Bijection(1 .. n, S) : TRUE
  BY <1>2 DEF ExistsBijection
<1>5. f \in Connections!Bijection(1 .. n, S)
  BY <1>4 DEF Bijection, Injection, Surjection, IsInjective, Connections!Bijection, Connections!Injection,
     Connections!Surjection, Connections!IsInjective
<1>6. Connections!Listing(S) \in [1 .. n -> S]
  <2>1. Connections!Listing(S) \in Connections!Bijection(1 .. n, S)
    BY <1>3, <1>5 DEF Connections!Listing
  <2> QED
    BY <2>1 DEF Connections!Bijection, Connections!Injection
<1> QED
  BY <1>6

-----------------------------------------------------------------------------
(***************************************************************************)
(* The connection (connection_thread.cpp, registry.cpp).  A registry that  *)
(* was told of globals, or made objects, is of the display there is and    *)
(* hears of the loss before the application connects again.                *)
(***************************************************************************)
Slot == [kind : {"global", "global_removed", "lost", "established"},
         name : Name \cup {None}, interface : Interface \cup {None}, display : Nat]

ConnectionTypes ==
  /\ signals \in Seq(Slot) /\ registry \in Nat /\ display \in Nat /\ connects \in Nat
  /\ established \in BOOLEAN /\ known \in BOOLEAN /\ call \in BOOLEAN /\ listens \in BOOLEAN
  /\ globals \in [Name -> Interface \cup {None}]
  /\ objects \subseteq [display : Nat, name : Name, removed : BOOLEAN]

Queued(kind) == \E i \in 1 .. Len(signals) : signals[i].kind = kind

(* The loss is the last that the thread has to say.                        *)
LossLast ==
  /\ established => ~Queued("lost")
  /\ \A i \in 1 .. Len(signals) : signals[i].kind = "lost" => i = Len(signals)

(* The application connects again when it heard all of that.               *)
HeardAll ==
  /\ established => known \/ Queued("established")
  /\ call => /\ ~established /\ ~known
             /\ \A i \in 1 .. Len(signals) : signals[i].kind = "global_removed"

Fed == registry # 0 /\ (interfaces # <<>> \/ objects # {} \/ Queued("global"))

HearsLoss ==
  /\ registry # 0 => listens
  /\ Queued("global") => registry # 0
  /\ \A o \in objects : o.display = registry /\ registry # 0
  /\ Fed => /\ registry = display
            /\ \/ established
               \/ \E i \in 1 .. Len(signals) : signals[i].kind = "lost" /\ signals[i].display = registry

ConnectionInv == ConnectionTypes /\ LossLast /\ HeardAll /\ HearsLoss

LEMMA ConnectionInit == Connections!Init => ConnectionInv
<1> SUFFICES ASSUME Connections!Init PROVE ConnectionInv
  OBVIOUS
<1> USE DEF Connections!Init
<1>1. ConnectionTypes
  <2>1. /\ established \in BOOLEAN /\ known \in BOOLEAN /\ call \in BOOLEAN
        /\ listens \in BOOLEAN
    OBVIOUS
  <2>2. globals \in [Name -> Interface \cup {None}]
    OBVIOUS
  <2>3. signals \in Seq(Slot)
    OBVIOUS
  <2>4. objects = {} /\ registry = 0 /\ display = 0 /\ connects = 0
    OBVIOUS
  <2> QED
    BY <2>1, <2>2, <2>3, <2>4 DEF ConnectionTypes
<1>2. LossLast /\ HeardAll /\ HearsLoss
  BY DEF LossLast, HeardAll, HearsLoss, Fed, Queued
<1> QED
  BY <1>1, <1>2 DEF ConnectionInv

(* What the thread sends to a registry that is fed is one more signal.     *)
LEMMA SignalSent ==
  ASSUME ConnectionInv, NEW s \in Slot, s.kind \in {"global", "global_removed"},
         Connections!Send(s),
         globals' \in [Name -> Interface \cup {None}],
         UNCHANGED <<display, connects, established, call, known, registry, listens, interfaces,
                     objects>>
  PROVE  ConnectionInv'
<1> USE DEF ConnectionInv
<1>1. CASE signals' = signals
  BY <1>1 DEF ConnectionTypes, LossLast, HeardAll, HearsLoss, Fed, Queued
<1>2. CASE /\ registry = display /\ registry # 0 /\ established
           /\ signals' = Append(signals, s)
  <2>1. ConnectionTypes'
    BY <1>2 DEF ConnectionTypes
  <2>2. /\ Len(signals') = Len(signals) + 1 /\ Len(signals) \in Nat
        /\ \A i \in 1 .. Len(signals) : signals'[i] = signals[i]
        /\ signals'[Len(signals) + 1] = s
    BY <1>2 DEF ConnectionTypes
  <2>3. \A k : Queued(k)' <=> Queued(k) \/ s.kind = k
    BY <2>2 DEF Queued
  <2>4. LossLast'
    BY <1>2, <2>2, <2>3 DEF LossLast, Queued
  <2>5. HeardAll'
    BY <1>2, <2>3 DEF HeardAll
  <2>6. HearsLoss'
    BY <1>2, <2>3 DEF HearsLoss
  <2> QED
    BY <2>1, <2>4, <2>5, <2>6
<1> QED
  BY <1>1, <1>2 DEF Connections!Send

(* The server announces and withdraws a global.                            *)
LEMMA ConnectionGlobals ==
  ASSUME Connections!Assumptions, ConnectionInv, NEW n \in Name,
         \/ \E i \in Interface : Connections!AddGlobal(n, i)
         \/ Connections!RemoveGlobal(n)
  PROVE  ConnectionInv'
<1>1. display \in Nat /\ globals \in [Name -> Interface \cup {None}]
  BY DEF ConnectionInv, ConnectionTypes
<1>2. ASSUME NEW i \in Interface, Connections!AddGlobal(n, i)
      PROVE  ConnectionInv'
  <2>1. PICK s \in Slot : s = Connections!Signal("global", n, i, display)
    BY <1>1 DEF Connections!Signal, Slot
  <2> QED
    BY <1>1, <1>2, <2>1, SignalSent
    DEF Connections!AddGlobal, Connections!threadVars, Connections!mainVars, Connections!Signal
<1>3. CASE Connections!RemoveGlobal(n)
  <2>1. PICK s \in Slot : s = Connections!Signal("global_removed", n, None, display)
    BY <1>1 DEF Connections!Signal, Slot
  <2> QED
    BY <1>1, <1>3, <2>1, SignalSent
    DEF Connections!RemoveGlobal, Connections!threadVars, Connections!mainVars, Connections!Signal
<1> QED
  BY <1>2, <1>3

(* The loss is told to the registry that listens.                          *)
LEMMA ConnectionLost ==
  ASSUME ConnectionInv, NEW b \in BOOLEAN, Connections!Lose(b)
  PROVE  ConnectionInv'
<1> USE DEF ConnectionInv
<1>1. PICK s \in Slot : /\ s.kind = "lost" /\ s.display = IF listens THEN registry ELSE 0
                        /\ signals' = Append(signals, s)
  <2>1. PICK s : s = Connections!Signal("lost", None, None, IF listens THEN registry ELSE 0)
    OBVIOUS
  <2>2. s \in Slot
    BY <2>1 DEF Connections!Signal, Slot, ConnectionTypes
  <2> QED
    BY <2>1, <2>2 DEF Connections!Lose, Connections!Signal
<1>2. /\ established /\ established' = FALSE
      /\ globals' \in [Name -> Interface \cup {None}]
      /\ UNCHANGED <<display, connects, call, known, registry, listens, interfaces, objects>>
  BY DEF Connections!Lose, Connections!mainVars, ConnectionTypes
<1>3. ConnectionTypes'
  <2>1. signals' \in Seq(Slot)
    BY <1>1 DEF ConnectionTypes
  <2> QED
    BY <1>2, <2>1 DEF ConnectionTypes
<1>4. /\ Len(signals') = Len(signals) + 1 /\ Len(signals) \in Nat
      /\ \A i \in 1 .. Len(signals) : signals'[i] = signals[i]
      /\ signals'[Len(signals) + 1] = s
  BY <1>1 DEF ConnectionTypes
<1>5. \A k : Queued(k)' <=> Queued(k) \/ s.kind = k
  BY <1>4 DEF Queued
<1>6. LossLast'
  BY <1>1, <1>2, <1>4 DEF LossLast, Queued
<1>7. HeardAll'
  BY <1>2 DEF HeardAll
<1>8. Fed' <=> Fed
  BY <1>1, <1>2, <1>5 DEF Fed
<1>9. HearsLoss'
  BY <1>1, <1>2, <1>4, <1>5, <1>8 DEF HearsLoss
<1> QED
  BY <1>3, <1>6, <1>7, <1>9

(* Nothing is fed when the thread connects.                                *)
LEMMA ConnectionMade ==
  ASSUME ConnectionInv, NEW b \in BOOLEAN, Connections!DoEstablish(b)
  PROVE  ConnectionInv'
<1> USE DEF ConnectionInv
<1>1. PICK s \in Slot : /\ s.kind = "established"
                        /\ signals' = IF b THEN Append(signals, s) ELSE signals
  <2>1. PICK s : s = Connections!Signal("established", None, None, 0)
    OBVIOUS
  <2>2. s \in Slot
    BY <2>1 DEF Connections!Signal, Slot
  <2> QED
    BY <2>1, <2>2 DEF Connections!DoEstablish, Connections!Signal
<1>2. /\ call /\ call' = FALSE /\ connects' = connects + 1
      /\ display' = IF b THEN connects + 1 ELSE 0
      /\ established' = (b \/ established)
      /\ UNCHANGED <<globals, known, registry, listens, interfaces, objects>>
  BY DEF Connections!DoEstablish, Connections!mainVars, Connections!serverVars
<1>3. ConnectionTypes'
  <2>1. signals' \in Seq(Slot)
    BY <1>1 DEF ConnectionTypes
  <2>2. established' \in BOOLEAN
    BY <1>2
  <2>3. connects' \in Nat /\ display' \in Nat
    BY <1>2 DEF ConnectionTypes
  <2> QED
    BY <1>2, <2>1, <2>2, <2>3 DEF ConnectionTypes
<1>4. ~established /\ \A i \in 1 .. Len(signals) : signals[i].kind = "global_removed"
  BY <1>2 DEF HeardAll
<1>5. /\ Len(signals) \in Nat
      /\ b => /\ Len(signals') = Len(signals) + 1
              /\ \A i \in 1 .. Len(signals) : signals'[i] = signals[i]
              /\ signals'[Len(signals) + 1] = s
  BY <1>1 DEF ConnectionTypes
<1>6. ~Queued("lost")' /\ ~Queued("global")' /\ (b => Queued("established")')
  BY <1>1, <1>4, <1>5 DEF Queued
<1>7. ~Fed
  BY <1>4 DEF HearsLoss
<1>8. ~Fed'
  BY <1>2, <1>6, <1>7 DEF Fed
<1>9. LossLast'
  BY <1>6 DEF LossLast, Queued
<1>10. HeardAll'
  BY <1>2, <1>4, <1>6 DEF HeardAll
<1>11. HearsLoss'
  BY <1>2, <1>6, <1>8 DEF HearsLoss
<1> QED
  BY <1>3, <1>9, <1>10, <1>11

(* A careful application heard of the loss.                                *)
LEMMA ConnectionAsked ==
  ASSUME ConnectionInv, Careful, Connections!Establish
  PROVE  ConnectionInv'
<1> USE DEF ConnectionInv
<1>1. ~known /\ \A i \in 1 .. Len(signals) : signals[i].kind = "global_removed"
  <2>1. \A i \in 1 .. Len(signals) : signals[i] \in Connections!Range(signals)
    BY DEF Connections!Range, ConnectionTypes
  <2> QED
    BY <2>1 DEF Connections!Establish
<1>2. /\ call' = TRUE
      /\ UNCHANGED <<globals, display, connects, established, signals, known, registry, listens,
                     interfaces, objects>>
  BY DEF Connections!Establish, Connections!mainVars, Connections!serverVars
<1>3. ~established
  BY <1>1 DEF HeardAll, Queued
<1>4. ConnectionTypes' /\ LossLast' /\ HearsLoss'
  BY <1>2 DEF ConnectionTypes, LossLast, HearsLoss, Fed, Queued
<1>5. HeardAll'
  BY <1>1, <1>2, <1>3 DEF HeardAll
<1> QED
  BY <1>4, <1>5

(* The slots of the main thread take one signal after the other.           *)
LEMMA ConnectionHeard ==
  ASSUME ConnectionInv, Connections!Handle
  PROVE  ConnectionInv'
<1> USE DEF ConnectionInv
<1>1. PICK s \in Slot : s = Head(signals)
  BY DEF Connections!Handle, ConnectionTypes
<1>2. /\ Len(signals) \in Nat \ {0} /\ signals[1] = s
      /\ signals' = Tail(signals) /\ Len(signals') = Len(signals) - 1
      /\ \A i \in 1 .. Len(signals) - 1 : signals'[i] = signals[i + 1]
      /\ signals' \in Seq(Slot)
  BY <1>1 DEF Connections!Handle, ConnectionTypes
<1>3. /\ Connections!HandleEstablished(s) \/ Connections!HandleLost(s) \/ Connections!HandleGlobal(s)
      /\ UNCHANGED <<globals, display, connects, established, call>>
  BY <1>1 DEF Connections!Handle, Connections!threadVars, Connections!serverVars
<1>4. \A k : /\ Queued(k)' => Queued(k)
             /\ Queued(k) /\ s.kind # k => Queued(k)'
  <2> SUFFICES ASSUME NEW k
               PROVE  /\ Queued(k)' => Queued(k)
                      /\ Queued(k) /\ s.kind # k => Queued(k)'
    OBVIOUS
  <2>1. ASSUME NEW i \in 1 .. Len(signals), signals[i].kind = k, s.kind # k
        PROVE  i - 1 \in 1 .. Len(signals') /\ signals'[i - 1].kind = k
    BY <1>2, <2>1
  <2>2. ASSUME NEW i \in 1 .. Len(signals'), signals'[i].kind = k
        PROVE  i + 1 \in 1 .. Len(signals) /\ signals[i + 1].kind = k
    BY <1>2, <2>2
  <2> QED
    BY <2>1, <2>2 DEF Queued
<1>5. /\ s.kind # "lost" =>
           \A i \in 1 .. Len(signals) : signals[i].kind = "lost" =>
             i - 1 \in 1 .. Len(signals') /\ signals'[i - 1] = signals[i]
      /\ s.kind = "lost" => Len(signals') = 0 /\ ~established
  <2>1. ASSUME s.kind # "lost", NEW i \in 1 .. Len(signals), signals[i].kind = "lost"
        PROVE  i - 1 \in 1 .. Len(signals') /\ signals'[i - 1] = signals[i]
    <3>1. i # 1 /\ i - 1 \in 1 .. Len(signals) - 1 /\ (i - 1) + 1 = i
      BY <1>2, <2>1
    <3> QED
      BY <1>2, <3>1
  <2>2. ASSUME s.kind = "lost"
        PROVE  Len(signals') = 0 /\ ~established
    <3>1. 1 \in 1 .. Len(signals)
      BY <1>2
    <3>3. signals[1].kind = "lost"
      BY <1>2, <2>2
    <3>4. Queued("lost")
      BY <3>1, <3>3 DEF Queued
    <3>6. LossLast
      OBVIOUS
    <3>2. 1 = Len(signals) /\ ~established
      BY <3>1, <3>3, <3>4, <3>6 DEF LossLast
    <3> QED
      BY <1>2, <3>2
  <2> QED
    BY <2>1, <2>2
<1>6. LossLast'
  <2>1. \A i \in 1 .. Len(signals') : signals'[i].kind = "lost" => i = Len(signals')
    <3> SUFFICES ASSUME NEW i \in 1 .. Len(signals'), signals'[i].kind = "lost"
                 PROVE  i = Len(signals')
      OBVIOUS
    <3>1. i + 1 \in 1 .. Len(signals) /\ signals[i + 1].kind = "lost"
      BY <1>2
    <3>2. i + 1 = Len(signals)
      BY <3>1 DEF LossLast
    <3>3. Len(signals') = Len(signals) - 1 /\ i \in Nat
      BY <1>2
    <3> QED
      BY <3>2, <3>3
  <2> QED
    BY <1>3, <1>4, <2>1 DEF LossLast
<1>7. ASSUME NEW i \in 1 .. Len(signals')
      PROVE  i + 1 \in 1 .. Len(signals) /\ signals'[i] = signals[i + 1]
  BY <1>2, <1>7
<1>8. CASE Connections!HandleEstablished(s)
  <2>1. /\ s.kind = "established" /\ known' = TRUE
        /\ UNCHANGED <<registry, listens, interfaces, objects>>
    BY <1>8 DEF Connections!HandleEstablished
  <2>2. ConnectionTypes'
    BY <1>2, <1>3, <2>1 DEF ConnectionTypes
  <2>3. HeardAll'
    BY <1>2, <1>3, <2>1 DEF HeardAll
  <2>4. Fed' => Fed
    BY <1>4, <2>1 DEF Fed
  <2>5. HearsLoss'
    BY <1>3, <1>4, <1>5, <2>1, <2>4 DEF HearsLoss
  <2> QED
    BY <1>6, <2>2, <2>3, <2>5
<1>9. CASE Connections!HandleLost(s)
  <2>1. /\ s.kind = "lost" /\ known' = FALSE
        /\ UNCHANGED <<listens, interfaces>>
        /\ IF s.display # 0 /\ registry = s.display THEN registry' = 0 /\ objects' = {}
                                                    ELSE UNCHANGED <<registry, objects>>
    BY <1>9 DEF Connections!HandleLost, Connections!Surviving
  <2>2. Len(signals') = 0 /\ ~established /\ ~established'
    BY <1>3, <1>5, <2>1
  <2>3. ConnectionTypes'
    <3>1. registry' \in Nat /\ objects' \subseteq objects
      BY <2>1 DEF ConnectionTypes
    <3>2. known' \in BOOLEAN
      BY <2>1
    <3> QED
      BY <1>2, <1>3, <2>1, <3>1, <3>2 DEF ConnectionTypes
  <2>4. HeardAll'
    BY <1>2, <1>3, <2>1, <2>2 DEF HeardAll
  <2>5. ASSUME Fed
        PROVE  s.display # 0 /\ registry = s.display
    BY <1>2, <2>2, <2>5 DEF HearsLoss, Fed
  <2>6. ~Fed'
    BY <1>4, <2>1, <2>5 DEF Fed
  <2>7. HearsLoss'
    BY <2>1, <2>2, <2>6 DEF HearsLoss, Queued
  <2> QED
    BY <1>6, <2>3, <2>4, <2>7
<1>10. CASE Connections!HandleGlobal(s)
  <2>1. /\ s.kind \in {"global", "global_removed"}
        /\ UNCHANGED <<known, registry, listens>>
        /\ \/ UNCHANGED <<interfaces, objects>>
           \/ s.kind = "global" /\ UNCHANGED objects
           \/ /\ interfaces' = Connections!Without(s.name)
              /\ objects' = {[o EXCEPT !.removed = @ \/ o.name = s.name] : o \in objects}
    BY <1>10 DEF Connections!HandleGlobal
  <2>2. \A n : interfaces = <<>> => Connections!Without(n) = <<>>
    BY DEF Connections!Without, Connections!EraseFirst
  <2>3. /\ objects' \subseteq [display : Nat, name : Name, removed : BOOLEAN]
        /\ \A o \in objects' : \E p \in objects : o.display = p.display
    BY <2>1 DEF ConnectionTypes
  <2>4. ConnectionTypes'
    BY <1>2, <1>3, <2>1, <2>3 DEF ConnectionTypes
  <2>5. HeardAll'
    BY <1>2, <1>3, <1>4, <1>7, <2>1 DEF HeardAll
  <2>6. s.kind = "global" => Fed
    BY <1>2 DEF HearsLoss, Fed, Queued
  <2>7. Fed' => Fed
    BY <1>4, <2>1, <2>2, <2>3, <2>6 DEF Fed
  <2>8. HearsLoss'
    BY <1>3, <1>4, <1>5, <2>1, <2>3, <2>7 DEF HearsLoss
  <2> QED
    BY <1>6, <2>4, <2>5, <2>8
<1> QED
  BY <1>3, <1>8, <1>9, <1>10

(* A new registry is of the display there is.                              *)
LEMMA ConnectionSetup ==
  ASSUME Connections!Assumptions, ~Reuse, ConnectionInv, NEW b \in BOOLEAN, Connections!Setup(b)
  PROVE  ConnectionInv'
<1> USE DEF ConnectionInv
<1> DEFINE es == Connections!Announcements
<1>1. /\ known /\ display # 0 /\ b
      /\ UNCHANGED <<globals, display, connects, established, call, known, objects>>
  BY DEF Connections!Setup, Connections!threadVars, Connections!serverVars
<1>2. CASE UNCHANGED <<registry, listens, interfaces, signals>>
  BY <1>1, <1>2 DEF ConnectionTypes, LossLast, HeardAll, HearsLoss, Fed, Queued
<1>3. CASE /\ registry \in {0, display} /\ registry' = display /\ listens' = TRUE
           /\ interfaces' = <<>>
           /\ signals' = IF established THEN signals \o es ELSE signals
  <2>1. es \in Seq(Slot) /\ \A i \in 1 .. Len(es) : es[i].kind = "global"
    <3> DEFINE ns == Connections!Listing({n \in Name : globals[n] # None})
    <3>1. Connections!IsFiniteSet({n \in Name : globals[n] # None})
      <4>1. \A S : Connections!IsFiniteSet(S) <=> IsFiniteSet(S)
        BY DEF Connections!IsFiniteSet, IsFiniteSet
      <4> QED
        BY <4>1, FS_Subset DEF Connections!Assumptions
    <3>2. ns \in Seq({n \in Name : globals[n] # None})
      BY <3>1, ConnectionsOfSet
    <3>3. ns \in Seq(Name) /\ \A i \in DOMAIN ns : ns[i] \in Name /\ globals[ns[i]] \in Interface
      <4>1. \A i \in 1 .. Len(ns) : ns[i] \in {n \in Name : globals[n] # None}
        BY <3>2
      <4>2. DOMAIN ns = 1 .. Len(ns)
        BY <3>2
      <4>3. \A n \in {m \in Name : globals[m] # None} : n \in Name /\ globals[n] \in Interface
        BY DEF ConnectionTypes
      <4>4. ns \in Seq(Name)
        BY <3>2, <4>1, <4>2
      <4> QED
        BY <4>1, <4>2, <4>3, <4>4
    <3> HIDE DEF ns
    <3>4. es = [i \in DOMAIN ns |-> Connections!Signal("global", ns[i], globals[ns[i]], display)]
      BY DEF Connections!Announcements, ns
    <3>5. \A i \in DOMAIN ns : /\ Connections!Signal("global", ns[i], globals[ns[i]], display) \in Slot
                               /\ Connections!Signal("global", ns[i], globals[ns[i]], display).kind
                                    = "global"
      BY <3>3 DEF Connections!Signal, Slot, ConnectionTypes
    <3>6. DOMAIN ns = 1 .. Len(ns) /\ Len(ns) \in Nat
      BY <3>3
    <3> HIDE DEF es
    <3>7. es \in [1 .. Len(ns) -> Slot]
      BY <3>4, <3>5, <3>6
    <3>8. es \in Seq(Slot) /\ Len(es) = Len(ns)
      BY <3>6, <3>7
    <3> QED
      BY <3>4, <3>5, <3>6, <3>8
  <2> HIDE DEF es
  <2>2. signals' \in Seq(Slot)
    BY <1>3, <2>1 DEF ConnectionTypes
  <2>3. ConnectionTypes'
    BY <1>1, <1>3, <2>2 DEF ConnectionTypes
  <2>4. CASE ~established
    <3>1. signals' = signals /\ ~established'
      BY <1>1, <1>3, <2>4
    <3>2. LossLast' /\ HeardAll'
      BY <1>1, <3>1 DEF LossLast, HeardAll, Queued
    <3>3. Fed' => Fed
      BY <1>1, <1>3, <3>1 DEF Fed, Queued, HearsLoss
    <3>4. objects # {} => registry = display
      BY <1>3 DEF HearsLoss
    <3>5. Fed' => registry = display
      BY <1>3, <3>3 DEF HearsLoss
    <3>6. Queued("global")' <=> Queued("global")
      BY <3>1 DEF Queued
    <3>7. HearsLoss'
      BY <1>1, <1>3, <3>1, <3>3, <3>4, <3>5, <3>6 DEF HearsLoss
    <3> QED
      BY <2>3, <3>2, <3>7
  <2>5. CASE established
    <3>1. /\ Len(signals) \in Nat /\ Len(es) \in Nat /\ Len(signals') = Len(signals) + Len(es)
          /\ \A i \in 1 .. Len(signals) : signals'[i] = signals[i]
          /\ \A i \in Len(signals) + 1 .. Len(signals') : signals'[i] = es[i - Len(signals)]
      BY <1>3, <2>1, <2>5 DEF ConnectionTypes
    <3>2. \A i \in 1 .. Len(signals') : i \in 1 .. Len(signals) \/ signals'[i].kind = "global"
      BY <2>1, <3>1
    <3>3. ~Queued("lost")'
      BY <2>5, <3>1, <3>2 DEF Queued, LossLast
    <3>4. LossLast'
      BY <3>3 DEF LossLast, Queued
    <3>5. HeardAll'
      BY <1>1, <2>5 DEF HeardAll
    <3>6. HearsLoss'
      BY <1>1, <1>3, <2>5 DEF HearsLoss
    <3> QED
      BY <2>3, <3>4, <3>5, <3>6
  <2> QED
    BY <2>4, <2>5
<1> QED
  BY <1>1, <1>2, <1>3 DEF Connections!Setup, Connections!Freed

(* Objects are of the display of a registry that is fed.                   *)
LEMMA ConnectionObjects ==
  ASSUME ConnectionInv,
         \/ \E n \in Name : Connections!Create(n)
         \/ \E o \in objects : Connections!Release(o)
  PROVE  ConnectionInv'
<1> USE DEF ConnectionInv
<1>1. UNCHANGED <<globals, display, connects, established, call, signals, known, registry,
                  listens, interfaces>>
  BY DEF Connections!Create, Connections!Release, Connections!threadVars, Connections!serverVars
<1>2. ASSUME NEW n \in Name, Connections!Create(n)
      PROVE  /\ Fed /\ objects' \subseteq [display : Nat, name : Name, removed : BOOLEAN]
             /\ \A o \in objects' : o.display = registry
  <2>1. registry # 0 /\ interfaces # <<>>
    BY <1>2 DEF Connections!Create, Connections!Range
  <2>2. objects' = objects \cup {[display |-> registry, name |-> n, removed |-> FALSE]}
    BY <1>2 DEF Connections!Create
  <2>3. [display |-> registry, name |-> n, removed |-> FALSE]
          \in [display : Nat, name : Name, removed : BOOLEAN]
    BY DEF ConnectionTypes
  <2>4. objects \subseteq [display : Nat, name : Name, removed : BOOLEAN]
    BY DEF ConnectionTypes
  <2>5. objects' \subseteq [display : Nat, name : Name, removed : BOOLEAN]
    BY <2>2, <2>3, <2>4
  <2>6. \A o \in objects' : o.display = registry
    BY <2>2 DEF HearsLoss
  <2> QED
    BY <2>1, <2>5, <2>6 DEF Fed
<1>3. ASSUME NEW o \in objects, Connections!Release(o)
      PROVE  objects' \subseteq objects
  BY <1>3 DEF Connections!Release
<1>4. ConnectionTypes'
  BY <1>1, <1>2, <1>3 DEF ConnectionTypes
<1>5. LossLast' /\ HeardAll'
  BY <1>1 DEF LossLast, HeardAll, Queued
<1>6. Fed' => Fed
  BY <1>1, <1>2, <1>3 DEF Fed, Queued
<1>7. HearsLoss'
  BY <1>1, <1>2, <1>3, <1>6 DEF HearsLoss, Queued, Fed
<1> QED
  BY <1>4, <1>5, <1>7

LEMMA ConnectionNext ==
  Connections!Assumptions /\ Careful /\ ~Reuse /\ ConnectionInv
    /\ [Connections!Next]_(Connections!vars) => ConnectionInv'
<1> SUFFICES ASSUME Connections!Assumptions, Careful, ~Reuse, ConnectionInv,
                    [Connections!Next]_(Connections!vars)
             PROVE  ConnectionInv'
  OBVIOUS
<1>1. CASE UNCHANGED Connections!vars
  BY <1>1 DEF Connections!vars, Connections!serverVars, Connections!threadVars,
              Connections!mainVars, ConnectionInv, ConnectionTypes, LossLast, HeardAll, HearsLoss,
              Fed, Queued
<1>2. CASE Connections!HasProtocolError
  BY <1>2 DEF Connections!HasProtocolError, Connections!serverVars, Connections!threadVars,
              Connections!mainVars, ConnectionInv, ConnectionTypes, LossLast, HeardAll, HearsLoss,
              Fed, Queued
<1> QED
  BY <1>1, <1>2, ConnectionGlobals, ConnectionLost, ConnectionMade, ConnectionAsked,
     ConnectionHeard, ConnectionSetup, ConnectionObjects
  DEF Connections!Next

LEMMA WindowsOfSet ==
  ASSUME NEW S, IsFiniteSet(S)
  PROVE  /\ Windows!Listing(S) \in Seq(S)
         /\ DOMAIN Windows!Listing(S) = 1 .. Len(Windows!Listing(S))
<1>2. PICK n \in Nat : n = Cardinality(S) /\ ExistsBijection(1 .. n, S)
  BY FS_CardinalityType
<1>3. Windows!Cardinality(S) = n
  BY <1>2 DEF Windows!Cardinality, Cardinality
<1>4. PICK f \in Bijection(1 .. n, S) : TRUE
  BY <1>2 DEF ExistsBijection
<1>5. f \in Windows!Bijection(1 .. n, S)
  BY <1>4 DEF Bijection, Injection, Surjection, IsInjective, Windows!Bijection, Windows!Injection,
     Windows!Surjection, Windows!IsInjective
<1>6. Windows!Listing(S) \in [1 .. n -> S]
  <2>1. Windows!Listing(S) \in Windows!Bijection(1 .. n, S)
    BY <1>3, <1>5 DEF Windows!Listing
  <2> QED
    BY <2>1 DEF Windows!Bijection, Windows!Injection
<1> QED
  BY <1>6

-----------------------------------------------------------------------------
(***************************************************************************)
(* Plasma windows (plasma_window.cpp, plasmawindowmanagement.cpp).  What   *)
(* is unmapped is gone for good, so that no window becomes active after it *)
(* was unmapped, in the order the client reads.                            *)
(***************************************************************************)
Message == [kind : {"window", "unmapped", "parent", "state", "entered", "left", "initial"},
            window : Window, value : Window \cup Desktop \cup BOOLEAN \cup {None}]

WindowTypes ==
  /\ windows \subseteq Window /\ windowBound \subseteq windows /\ desks \subseteq Desktop
  /\ windowOn \in [Window -> SUBSET Desktop] /\ parent \in [Window -> Window \cup {None}]
  /\ windowEvents \in Seq(Message) /\ windowRequests \in Seq(Window)

(* What the client is told of and asks for was there.                      *)
WindowsKnown ==
  /\ windows \cap windowGone = {}
  /\ \A i \in 1 .. Len(windowRequests) : windowRequests[i] \in windows \cup windowGone
  /\ \A i \in 1 .. Len(windowEvents) :
       windowEvents[i].kind = "window" => windowEvents[i].window \in windows \cup windowGone

Activates(e) == e.kind = "state" /\ e.value = TRUE

NotRevived ==
  /\ unmapped \subseteq windowGone
  /\ \A i \in 1 .. Len(windowEvents) :
       /\ windowEvents[i].kind = "unmapped" => windowEvents[i].window \in windowGone
       /\ Activates(windowEvents[i]) => windowEvents[i].window \notin unmapped
       /\ \A j \in 1 .. Len(windowEvents) :
            i < j /\ windowEvents[i].kind = "unmapped" /\ Activates(windowEvents[j])
              => windowEvents[i].window # windowEvents[j].window

WindowInv == WindowTypes /\ WindowsKnown /\ NotRevived /\ Windows!ActiveWindowLives

LEMMA WindowInit == Windows!Init => WindowInv
<1> SUFFICES ASSUME Windows!Init PROVE WindowInv
  OBVIOUS
<1> USE DEF Windows!Init
<1>1. WindowTypes
  <2>1. windowEvents \in Seq(Message) /\ windowRequests \in Seq(Window)
    OBVIOUS
  <2> QED
    BY <2>1 DEF WindowTypes
<1>2. WindowsKnown /\ NotRevived /\ Windows!ActiveWindowLives
  BY DEF WindowsKnown, NotRevived, Windows!ActiveWindowLives
<1> QED
  BY <1>1, <1>2 DEF WindowInv

(* Events that unmap what is gone and activate what is there may follow.   *)
LEMMA WindowsTold ==
  ASSUME WindowInv, NEW es \in Seq(Message), windowEvents' = windowEvents \o es,
         windows' \subseteq Window, windowBound' \subseteq windows', desks' \subseteq Desktop,
         windowOn' \in [Window -> SUBSET Desktop], parent' \in [Window -> Window \cup {None}],
         windowRequests' \in Seq(Window),
         \A i \in 1 .. Len(windowRequests') : windowRequests'[i] \in windows \cup windowGone,
         windows \cup windowGone \subseteq windows' \cup windowGone', windowGone \subseteq windowGone',
         windows' \cap windowGone' = {},
         \A i \in 1 .. Len(es) :
           /\ es[i].kind = "window" => es[i].window \in windows' \cup windowGone'
           /\ es[i].kind = "unmapped" => es[i].window \in windowGone'
           /\ Activates(es[i]) => es[i].window \in windows',
         UNCHANGED Windows!clientVars
  PROVE  WindowInv'
<1> USE DEF WindowInv
<1>1. windowEvents' \in Seq(Message)
  BY DEF WindowTypes
<1>2. WindowTypes'
  BY <1>1 DEF WindowTypes
<1>3. /\ Len(windowEvents) \in Nat /\ Len(es) \in Nat
      /\ Len(windowEvents') = Len(windowEvents) + Len(es)
      /\ \A i \in 1 .. Len(windowEvents) : windowEvents'[i] = windowEvents[i]
      /\ \A i \in 1 .. Len(windowEvents') : i \notin 1 .. Len(windowEvents)
           => i - Len(windowEvents) \in 1 .. Len(es)
              /\ windowEvents'[i] = es[i - Len(windowEvents)]
  BY DEF WindowTypes
<1>4. UNCHANGED <<unmapped, activeWindow, proxies, windowIsActive>>
  BY DEF Windows!clientVars
<1>5. ASSUME NEW i \in 1 .. Len(windowEvents')
      PROVE  /\ windowEvents'[i].kind = "window" => windowEvents'[i].window \in windows' \cup windowGone'
             /\ windowEvents'[i].kind = "unmapped" => windowEvents'[i].window \in windowGone'
             /\ Activates(windowEvents'[i]) => \/ i \in 1 .. Len(windowEvents)
                                               \/ windowEvents'[i].window \notin windowGone'
  <2>1. CASE i \in 1 .. Len(windowEvents)
    BY <1>3, <2>1 DEF WindowsKnown, NotRevived
  <2>2. CASE i \notin 1 .. Len(windowEvents)
    BY <1>3, <2>2
  <2> QED
    BY <2>1, <2>2
<1>6. WindowsKnown'
  BY <1>5 DEF WindowsKnown
<1>7. unmapped' \subseteq windowGone'
  BY <1>4 DEF NotRevived
<1>8. ASSUME NEW i \in 1 .. Len(windowEvents'), Activates(windowEvents'[i])
      PROVE  windowEvents'[i].window \notin unmapped'
  BY <1>3, <1>4, <1>5, <1>7, <1>8 DEF NotRevived
<1>9. ASSUME NEW i \in 1 .. Len(windowEvents'), NEW j \in 1 .. Len(windowEvents'),
             i < j, windowEvents'[i].kind = "unmapped", Activates(windowEvents'[j])
      PROVE  windowEvents'[i].window # windowEvents'[j].window
  <2>1. CASE j \in 1 .. Len(windowEvents)
    <3>1. i \in 1 .. Len(windowEvents)
      BY <1>3, <1>9, <2>1
    <3> QED
      BY <1>3, <1>9, <2>1, <3>1 DEF NotRevived
  <2>2. CASE j \notin 1 .. Len(windowEvents)
    BY <1>5, <1>9, <2>2
  <2> QED
    BY <2>1, <2>2
<1>10. NotRevived'
  BY SMTT(30), <1>5, <1>7, <1>8, <1>9 DEF NotRevived
<1>11. Windows!ActiveWindowLives'
  BY <1>4 DEF Windows!ActiveWindowLives
<1> QED
  BY <1>2, <1>6, <1>10, <1>11

(* The same of one window after the other, or of one desktop after the     *)
(* other.                                                                  *)
LEMMA ToldOfWindows ==
  ASSUME NEW S, IsFiniteSet(S), S \subseteq Window, NEW kind \in {"parent", "left"},
         NEW v \in Window \cup Desktop \cup BOOLEAN \cup {None}, NEW es,
         es = [i \in DOMAIN Windows!Listing(S) |->
                 Windows!Event(kind, Windows!Listing(S)[i], v)]
  PROVE  es \in Seq(Message) /\ \A i \in 1 .. Len(es) : es[i].kind = kind
<1>1. PICK q : q = Windows!Listing(S)
  OBVIOUS
<1>2. q \in Seq(S) /\ DOMAIN q = 1 .. Len(q)
  BY <1>1, WindowsOfSet
<1>3. Len(q) \in Nat /\ \A i \in 1 .. Len(q) : q[i] \in Window
  BY <1>2
<1>4. es = [i \in 1 .. Len(q) |-> Windows!Event(kind, q[i], v)]
  BY <1>1, <1>2
<1>5. \A i \in 1 .. Len(q) : /\ Windows!Event(kind, q[i], v) \in Message
                             /\ Windows!Event(kind, q[i], v).kind = kind
  BY <1>3 DEF Windows!Event, Message
<1>6. es \in [1 .. Len(q) -> Message] /\ \A i \in 1 .. Len(q) : es[i].kind = kind
  BY <1>4, <1>5
<1>7. es \in Seq(Message) /\ Len(es) = Len(q)
  BY <1>3, <1>6
<1> QED
  BY <1>6, <1>7

LEMMA ToldOfDesktops ==
  ASSUME NEW S, IsFiniteSet(S), S \subseteq Desktop, NEW kind \in {"entered", "left"},
         NEW w \in Window, NEW es,
         es = [i \in DOMAIN Windows!Listing(S) |->
                 Windows!Event(kind, w, Windows!Listing(S)[i])]
  PROVE  es \in Seq(Message) /\ \A i \in 1 .. Len(es) : es[i].kind = kind
<1>1. PICK q : q = Windows!Listing(S)
  OBVIOUS
<1>2. q \in Seq(S) /\ DOMAIN q = 1 .. Len(q)
  BY <1>1, WindowsOfSet
<1>3. Len(q) \in Nat /\ \A i \in 1 .. Len(q) : q[i] \in Desktop
  BY <1>2
<1>4. es = [i \in 1 .. Len(q) |-> Windows!Event(kind, w, q[i])]
  BY <1>1, <1>2
<1>5. \A i \in 1 .. Len(q) : /\ Windows!Event(kind, w, q[i]) \in Message
                             /\ Windows!Event(kind, w, q[i]).kind = kind
  BY <1>3 DEF Windows!Event, Message
<1>6. es \in [1 .. Len(q) -> Message] /\ \A i \in 1 .. Len(q) : es[i].kind = kind
  BY <1>4, <1>5
<1>7. es \in Seq(Message) /\ Len(es) = Len(q)
  BY <1>3, <1>6
<1> QED
  BY <1>6, <1>7

LEMMA FiniteParts ==
  ASSUME Windows!Assumptions
  PROVE  /\ \A S \in SUBSET Window : IsFiniteSet(S)
         /\ \A S \in SUBSET Desktop : IsFiniteSet(S)
<1>1. \A S : Windows!IsFiniteSet(S) <=> IsFiniteSet(S)
  BY DEF Windows!IsFiniteSet, IsFiniteSet
<1>2. IsFiniteSet(Window) /\ IsFiniteSet(Desktop)
  BY <1>1 DEF Windows!Assumptions
<1> QED
  BY <1>2, FS_Subset

(* Events that neither activate nor unmap.                                 *)
LEMMA HarmlessTold ==
  ASSUME WindowInv, NEW es \in Seq(Message), windowEvents' = windowEvents \o es,
         \A i \in 1 .. Len(es) : es[i].kind \in {"parent", "entered", "left", "initial"},
         windowOn' \in [Window -> SUBSET Desktop], desks' \subseteq Desktop,
         parent' \in [Window -> Window \cup {None}],
         UNCHANGED <<windows, windowGone, windowBound, windowRequests>>,
         UNCHANGED Windows!clientVars
  PROVE  WindowInv'
<1>1. /\ windows \subseteq Window /\ windowBound \subseteq windows /\ windowRequests \in Seq(Window)
      /\ windows \cap windowGone = {}
      /\ \A i \in 1 .. Len(windowRequests) : windowRequests[i] \in windows \cup windowGone
  BY DEF WindowInv, WindowTypes, WindowsKnown
<1>2. \A i \in 1 .. Len(es) : ~Activates(es[i]) /\ es[i].kind \notin {"window", "unmapped"}
  BY DEF Activates
<1> QED
  BY <1>1, <1>2, WindowsTold

-----------------------------------------------------------------------------
(* A window is made.                                                       *)
LEMMA WindowCreated ==
  ASSUME Windows!Assumptions, WindowInv, NEW w \in Window, Windows!CreateWindow(w)
  PROVE  WindowInv'
<1>1. PICK e : e = Windows!Event("window", w, None)
  OBVIOUS
<1>2. e \in Message /\ e.kind = "window" /\ e.window = w /\ ~Activates(e)
  BY <1>1 DEF Windows!Event, Message, Activates
<1>3. /\ windows' = windows \cup {w} /\ w \notin windowGone
      /\ windowEvents' = Append(windowEvents, e)
      /\ UNCHANGED <<windowGone, windowActive, parent, desks, windowOn, windowBound,
                     windowRequests>>
      /\ UNCHANGED Windows!clientVars
  BY <1>1 DEF Windows!CreateWindow, Windows!Changed
<1>4. WindowTypes /\ WindowsKnown
  BY DEF WindowInv
<1>5. <<e>> \in Seq(Message) /\ Len(<<e>>) = 1 /\ <<e>>[1] = e
  BY <1>2
<1>6. windowEvents' = windowEvents \o <<e>>
  BY <1>2, <1>3, <1>4 DEF WindowTypes
<1>7. \A i \in 1 .. Len(<<e>>) :
           /\ <<e>>[i].kind = "window" => <<e>>[i].window \in windows' \cup windowGone'
           /\ <<e>>[i].kind = "unmapped" => <<e>>[i].window \in windowGone'
           /\ Activates(<<e>>[i]) => <<e>>[i].window \in windows'
  BY <1>2, <1>3, <1>5
<1>8. windows' \cap windowGone' = {} /\ windows' \subseteq Window /\ windowBound' \subseteq windows'
  BY <1>3, <1>4 DEF WindowTypes, WindowsKnown
<1> QED
  BY <1>3, <1>4, <1>5, <1>6, <1>7, <1>8, WindowsTold DEF WindowTypes, WindowsKnown

(* A window that is destroyed is gone when its client hears of it.         *)
LEMMA WindowDestroyed ==
  ASSUME Windows!Assumptions, WindowInv, NEW w \in Window, Windows!DestroyWindow(w)
  PROVE  WindowInv'
<1> DEFINE ending == IF w \in windowBound THEN <<Windows!Event("unmapped", w, None)>> ELSE <<>>
<1>1. WindowTypes /\ WindowsKnown
  BY DEF WindowInv
<1>2. PICK children : children = {c \in windowBound \ {w} : parent[c] = w}
  OBVIOUS
<1>12. PICK others : others = [i \in DOMAIN Windows!Listing(children) |->
                                Windows!Event("parent", Windows!Listing(children)[i], None)]
  OBVIOUS
<1>3. others \in Seq(Message) /\ \A i \in 1 .. Len(others) : others[i].kind = "parent"
  <2>1. IsFiniteSet(children) /\ children \subseteq Window
    BY <1>1, <1>2, FiniteParts DEF WindowTypes
  <2> QED
    BY <1>12, <2>1, ToldOfWindows
<1>4. /\ windows' = windows \ {w} /\ windowGone' = windowGone \cup {w} /\ w \in windows
      /\ windowBound' = windowBound \ {w}
      /\ parent' = [c \in Window |-> IF parent[c] = w \/ c = w THEN None ELSE parent[c]]
      /\ windowOn' = [windowOn EXCEPT ![w] = {}]
      /\ UNCHANGED <<desks, windowRequests>>
      /\ UNCHANGED Windows!clientVars
  BY DEF Windows!DestroyWindow, Windows!Changed
<1>5. windowEvents' = (IF w \in windowBound
                         THEN Append(windowEvents, Windows!Event("unmapped", w, None))
                         ELSE windowEvents) \o others
  BY <1>2, <1>12 DEF Windows!DestroyWindow
<1>6. /\ Windows!Event("unmapped", w, None) \in Message
      /\ Windows!Event("unmapped", w, None).kind = "unmapped"
      /\ Windows!Event("unmapped", w, None).window = w
  BY DEF Windows!Event, Message
<1>7. /\ ending \in Seq(Message)
      /\ \A i \in 1 .. Len(ending) : ending[i].kind = "unmapped" /\ ending[i].window = w
      /\ windowEvents' = windowEvents \o ending \o others
  BY <1>1, <1>3, <1>5, <1>6 DEF WindowTypes
<1> HIDE DEF ending
<1>8. /\ ending \o others \in Seq(Message)
      /\ windowEvents' = windowEvents \o (ending \o others)
  BY SMTT(30), <1>1, <1>3, <1>7 DEF WindowTypes
<1>9. ASSUME NEW i \in 1 .. Len(ending \o others)
      PROVE  \/ (ending \o others)[i].kind = "parent"
             \/ (ending \o others)[i].kind = "unmapped" /\ (ending \o others)[i].window = w
  <2>1. /\ Len(ending) \in Nat /\ Len(others) \in Nat
        /\ Len(ending \o others) = Len(ending) + Len(others)
        /\ (ending \o others)[i] = IF i <= Len(ending) THEN ending[i] ELSE others[i - Len(ending)]
    BY <1>3, <1>7, <1>9, ConcatProperties, LenProperties
  <2>2. CASE i <= Len(ending)
    BY <1>7, <2>1, <2>2
  <2>3. CASE ~(i <= Len(ending))
    <3>1. i - Len(ending) \in 1 .. Len(others)
      BY <2>1, <2>3
    <3> QED
      BY <1>3, <2>1, <2>3, <3>1
  <2> QED
    BY <2>2, <2>3
<1>10. \A i \in 1 .. Len(ending \o others) :
           /\ (ending \o others)[i].kind # "window" /\ ~Activates((ending \o others)[i])
           /\ (ending \o others)[i].kind = "unmapped" => (ending \o others)[i].window \in windowGone'
  BY <1>4, <1>9 DEF Activates
<1>11. /\ windows' \subseteq Window /\ windowBound' \subseteq windows' /\ desks' \subseteq Desktop
       /\ windowOn' \in [Window -> SUBSET Desktop] /\ parent' \in [Window -> Window \cup {None}]
       /\ windowRequests' \in Seq(Window)
       /\ \A i \in 1 .. Len(windowRequests') : windowRequests'[i] \in windows \cup windowGone
       /\ windows \cup windowGone \subseteq windows' \cup windowGone'
       /\ windowGone \subseteq windowGone' /\ windows' \cap windowGone' = {}
  BY <1>1, <1>4 DEF WindowTypes, WindowsKnown
<1> QED
  BY <1>4, <1>8, <1>10, <1>11, WindowsTold

(* An event to the client of one window, if it has it.                     *)
LEMMA OneTold ==
  ASSUME WindowInv, NEW e \in Message, Windows!Send(e.window, <<e>>),
         e.kind \in {"parent", "entered"} \/ (e.kind = "state" /\ e.window \in windows),
         windowOn' \in [Window -> SUBSET Desktop], desks' \subseteq Desktop,
         parent' \in [Window -> Window \cup {None}],
         UNCHANGED <<windows, windowGone, windowBound, windowRequests>>,
         UNCHANGED Windows!clientVars
  PROVE  WindowInv'
<1>1. PICK es \in Seq(Message) : /\ windowEvents' = windowEvents \o es
                                 /\ \A i \in 1 .. Len(es) : es[i] = e
  <2>1. CASE e.window \in windowBound
    <3>1. <<e>> \in Seq(Message) /\ \A i \in 1 .. Len(<<e>>) : <<e>>[i] = e
      OBVIOUS
    <3> QED
      BY <2>1, <3>1 DEF Windows!Send
  <2>2. CASE e.window \notin windowBound
    <3>1. <<>> \in Seq(Message) /\ \A i \in 1 .. Len(<<>>) : <<>>[i] = e
      OBVIOUS
    <3>2. windowEvents \o <<>> = windowEvents
      BY DEF WindowInv, WindowTypes
    <3>3. windowEvents' = windowEvents \o <<>>
      BY <2>2, <3>2 DEF Windows!Send
    <3> QED
      BY <3>1, <3>3
  <2> QED
    BY <2>1, <2>2
<1>2. /\ windows \subseteq Window /\ windowBound \subseteq windows /\ windowRequests \in Seq(Window)
      /\ windows \cap windowGone = {}
      /\ \A i \in 1 .. Len(windowRequests) : windowRequests[i] \in windows \cup windowGone
  BY DEF WindowInv, WindowTypes, WindowsKnown
<1>3. \A i \in 1 .. Len(es) : /\ es[i].kind \notin {"window", "unmapped"}
                              /\ Activates(es[i]) => es[i].window \in windows
  BY <1>1 DEF Activates
<1> QED
  BY <1>1, <1>2, <1>3, WindowsTold

LEMMA WindowChanged ==
  ASSUME Windows!Assumptions, WindowInv, NEW w \in Window,
         \/ \E b \in BOOLEAN : Windows!SetActive(w, b)
         \/ \E p \in Window \cup {None} : Windows!SetParentWindow(w, p)
         \/ \E d \in Desktop : Windows!AddDesktop(w, d)
  PROVE  WindowInv'
<1>1. WindowTypes
  BY DEF WindowInv
<1>2. ASSUME NEW b \in BOOLEAN, Windows!SetActive(w, b)
      PROVE  WindowInv'
  <2>1. PICK e : e = Windows!Event("state", w, b)
    OBVIOUS
  <2>2. e \in Message /\ e.kind = "state" /\ e.window = w
    BY <2>1 DEF Windows!Event, Message
  <2> QED
    BY <1>1, <1>2, <2>1, <2>2, OneTold DEF Windows!SetActive, Windows!Changed, WindowTypes
<1>3. ASSUME NEW p \in Window \cup {None}, Windows!SetParentWindow(w, p)
      PROVE  WindowInv'
  <2>1. PICK e : e = Windows!Event("parent", w, Windows!ResourceOf(p))
    OBVIOUS
  <2>2. e \in Message /\ e.kind = "parent" /\ e.window = w
    BY <2>1 DEF Windows!Event, Message, Windows!ResourceOf
  <2>3. parent' \in [Window -> Window \cup {None}]
    BY <1>1, <1>3 DEF Windows!SetParentWindow, WindowTypes
  <2> QED
    BY <1>1, <1>3, <2>1, <2>2, <2>3, OneTold DEF Windows!SetParentWindow, Windows!Changed, WindowTypes
<1>4. ASSUME NEW d \in Desktop, Windows!AddDesktop(w, d)
      PROVE  WindowInv'
  <2>1. PICK e : e = Windows!Event("entered", w, d)
    OBVIOUS
  <2>2. e \in Message /\ e.kind = "entered" /\ e.window = w
    BY <2>1 DEF Windows!Event, Message
  <2>3. windowOn' \in [Window -> SUBSET Desktop]
    BY <1>1, <1>4 DEF Windows!AddDesktop, WindowTypes
  <2> QED
    BY <1>1, <1>4, <2>1, <2>2, <2>3, OneTold DEF Windows!AddDesktop, Windows!Changed, WindowTypes
<1> QED
  BY <1>2, <1>3, <1>4

(* Windows leave a desktop.                                                *)
LEMMA WindowsLeft ==
  ASSUME Windows!Assumptions, WindowInv, NEW ws \in SUBSET Window, NEW d \in Desktop,
         Windows!LeaveIn(ws, d), desks' \subseteq desks,
         UNCHANGED <<windows, windowGone, windowActive, parent, windowBound, windowRequests>>,
         UNCHANGED Windows!clientVars
  PROVE  WindowInv'
<1>1. WindowTypes
  BY DEF WindowInv
<1>2. PICK left : left = {w \in ws \cap windowBound : d \in windowOn[w]}
  OBVIOUS
<1>3. PICK es : es = [i \in DOMAIN Windows!Listing(left) |->
                        Windows!Event("left", Windows!Listing(left)[i], d)]
  OBVIOUS
<1>4. IsFiniteSet(left) /\ left \subseteq Window
  BY <1>2, FiniteParts
<1>5. es \in Seq(Message) /\ \A i \in 1 .. Len(es) : es[i].kind = "left"
  BY <1>3, <1>4, ToldOfWindows
<1>6. windowEvents' = windowEvents \o es
  BY <1>2, <1>3 DEF Windows!LeaveIn
<1>7. windowOn' \in [Window -> SUBSET Desktop]
  BY <1>1 DEF Windows!LeaveIn, WindowTypes
<1>8. desks' \subseteq Desktop /\ parent' \in [Window -> Window \cup {None}]
  BY <1>1 DEF WindowTypes
<1> QED
  BY <1>5, <1>6, <1>7, <1>8, HarmlessTold

LEMMA WindowDesktops ==
  ASSUME Windows!Assumptions, WindowInv,
         \/ \E w \in Window, d \in Desktop : Windows!RemoveDesktop(w, d)
         \/ \E d \in Desktop : Windows!DestroyDesktop(d)
         \/ \E w \in Window, ds \in SUBSET desks : Windows!SetOnAllDesktops(w, ds)
  PROVE  WindowInv'
<1>1. WindowTypes
  BY DEF WindowInv
<1>2. ASSUME NEW w \in Window, NEW d \in Desktop, Windows!RemoveDesktop(w, d)
      PROVE  WindowInv'
  BY <1>2, WindowsLeft DEF Windows!RemoveDesktop, Windows!Changed
<1>3. ASSUME NEW d \in Desktop, Windows!DestroyDesktop(d)
      PROVE  WindowInv'
  <2>1. PICK ws \in SUBSET Window : ws = windows
    BY <1>1 DEF WindowTypes
  <2> QED
    BY <1>3, <2>1, WindowsLeft DEF Windows!DestroyDesktop, Windows!Changed
<1>4. ASSUME NEW w \in Window, NEW ds \in SUBSET desks, Windows!SetOnAllDesktops(w, ds)
      PROVE  WindowInv'
  <2>1. PICK changedDesks : changedDesks = IF windowOn[w] = {} THEN ds ELSE windowOn[w]
    OBVIOUS
  <2>2. PICK kind \in {"entered", "left"} : kind = IF windowOn[w] = {} THEN "entered" ELSE "left"
    OBVIOUS
  <2>3. PICK es : es = [i \in DOMAIN Windows!Listing(changedDesks) |->
                          Windows!Event(kind, w, Windows!Listing(changedDesks)[i])]
    OBVIOUS
  <2>4. IsFiniteSet(changedDesks) /\ changedDesks \subseteq Desktop
    BY <1>1, <1>4, <2>1, FiniteParts DEF WindowTypes
  <2>5. es \in Seq(Message) /\ \A i \in 1 .. Len(es) : es[i].kind = kind
    BY <2>3, <2>4, ToldOfDesktops
  <2>6. Windows!Send(w, es)
    BY <1>4, <2>1, <2>2, <2>3 DEF Windows!SetOnAllDesktops
  <2>7. windowOn' \in [Window -> SUBSET Desktop]
    BY <1>1, <1>4 DEF Windows!SetOnAllDesktops, WindowTypes
  <2>8. /\ desks' \subseteq Desktop /\ parent' \in [Window -> Window \cup {None}]
        /\ UNCHANGED <<windows, windowGone, windowBound, windowRequests>>
        /\ UNCHANGED Windows!clientVars
    BY <1>1, <1>4 DEF Windows!SetOnAllDesktops, Windows!Changed, WindowTypes
  <2>9. CASE w \in windowBound
    BY <2>5, <2>6, <2>7, <2>8, <2>9, HarmlessTold DEF Windows!Send
  <2>10. CASE w \notin windowBound
    <3>1. <<>> \in Seq(Message) /\ \A i \in 1 .. Len(<<>>) : <<>>[i].kind = "parent"
      OBVIOUS
    <3>2. windowEvents' = windowEvents \o <<>>
      BY <1>1, <2>6, <2>10 DEF Windows!Send, WindowTypes
    <3> QED
      BY <2>7, <2>8, <3>1, <3>2, HarmlessTold
  <2> QED
    BY <2>9, <2>10
<1> QED
  BY <1>2, <1>3, <1>4

(* A resource is made for a window that is there, or for one that is gone. *)
LEMMA WindowBoundTo ==
  ASSUME Windows!Assumptions, WindowInv, Windows!GetWindow
  PROVE  WindowInv'
<1>1. WindowTypes /\ WindowsKnown
  BY DEF WindowInv
<1>2. PICK w : w = Head(windowRequests)
  OBVIOUS
<1>3. /\ w \in Window /\ w \in windows \cup windowGone /\ windowRequests' \in Seq(Window)
      /\ \A i \in 1 .. Len(windowRequests') : windowRequests'[i] \in windows \cup windowGone
  <2>1. /\ Len(windowRequests) \in Nat \ {0} /\ w = windowRequests[1]
        /\ windowRequests' \in Seq(Window) /\ Len(windowRequests') = Len(windowRequests) - 1
        /\ \A i \in 1 .. Len(windowRequests) - 1 : windowRequests'[i] = windowRequests[i + 1]
    BY <1>1, <1>2 DEF Windows!GetWindow, WindowTypes
  <2>2. w \in Window /\ w \in windows \cup windowGone
    BY <1>1, <2>1 DEF WindowTypes, WindowsKnown
  <2>3. ASSUME NEW i \in 1 .. Len(windowRequests')
        PROVE  windowRequests'[i] \in windows \cup windowGone
    <3>1. i + 1 \in 1 .. Len(windowRequests) /\ windowRequests'[i] = windowRequests[i + 1]
      BY <2>1
    <3> QED
      BY <1>1, <3>1 DEF WindowsKnown
  <2> QED
    BY <2>1, <2>2, <2>3
<1>4. /\ UNCHANGED <<windows, windowGone, windowActive, parent, desks, windowOn>>
      /\ UNCHANGED Windows!clientVars
      /\ IF w \in windows
           THEN /\ windowBound' = windowBound \cup {w}
                /\ windowEvents' = windowEvents \o Windows!Initially(w)
           ELSE /\ UNCHANGED windowBound
                /\ windowEvents' = windowEvents \o Windows!Temporary(w)
  BY <1>2 DEF Windows!GetWindow
<1>5. PICK es \in Seq(Message) :
        /\ windowEvents' = windowEvents \o es
        /\ \A i \in 1 .. Len(es) :
             /\ es[i].kind # "window"
             /\ es[i].kind = "unmapped" => es[i].window \in windowGone
             /\ Activates(es[i]) => es[i].window \in windows
  <2>1. CASE w \in windows
    <3>1. PICK on : on = windowOn[w]
      OBVIOUS
    <3>2. PICK ds : ds = [i \in DOMAIN Windows!Listing(on) |->
                            Windows!Event("entered", w, Windows!Listing(on)[i])]
      OBVIOUS
    <3>3. IsFiniteSet(on) /\ on \subseteq Desktop
      BY <1>1, <1>3, <3>1, FiniteParts DEF WindowTypes
    <3>4. ds \in Seq(Message) /\ \A i \in 1 .. Len(ds) : ds[i].kind = "entered"
      BY <1>3, <3>2, <3>3, ToldOfDesktops
    <3>5. PICK a : a = Windows!Event("state", w, w \in windowActive)
      OBVIOUS
    <3>6. PICK b : b = Windows!Event("parent", w, Windows!ResourceOf(parent[w]))
      OBVIOUS
    <3>7. PICK c : c = Windows!Event("initial", w, None)
      OBVIOUS
    <3>8. a \in Message /\ a.kind = "state" /\ a.window = w
      BY <1>3, <3>5 DEF Windows!Event, Message
    <3>9. b \in Message /\ b.kind = "parent"
      BY <1>1, <1>3, <3>6 DEF Windows!Event, Message, Windows!ResourceOf, WindowTypes
    <3>10. c \in Message /\ c.kind = "initial"
      BY <1>3, <3>7 DEF Windows!Event, Message
    <3>11. windowEvents' = windowEvents \o (ds \o <<a, b, c>>)
      BY <1>4, <2>1, <3>1, <3>2, <3>5, <3>6, <3>7 DEF Windows!Initially
    <3>12. <<a, b, c>> \in Seq(Message) /\ Len(<<a, b, c>>) = 3
           /\ <<a, b, c>>[1] = a /\ <<a, b, c>>[2] = b /\ <<a, b, c>>[3] = c
      BY <3>8, <3>9, <3>10
    <3>13. PICK abc \in Seq(Message) : /\ windowEvents' = windowEvents \o (ds \o abc)
                                       /\ Len(abc) = 3 /\ abc[1] = a /\ abc[2] = b /\ abc[3] = c
      BY <3>11, <3>12
    <3>14. \A i \in 1 .. 3 : /\ abc[i].kind \notin {"window", "unmapped"}
                             /\ abc[i].kind = "state" => abc[i].window = w
      <4>1. \A i \in 1 .. 3 : i = 1 \/ i = 2 \/ i = 3
        OBVIOUS
      <4> QED
        BY <3>8, <3>9, <3>10, <3>13, <4>1
    <3>15. PICK es \in Seq(Message) :
             /\ es = ds \o abc /\ Len(es) = Len(ds) + Len(abc)
             /\ \A i \in 1 .. Len(ds) + Len(abc) :
                  es[i] = IF i <= Len(ds) THEN ds[i] ELSE abc[i - Len(ds)]
      <4>1. PICK cat : cat = ds \o abc
        OBVIOUS
      <4>2. ds \in Seq(Message) /\ abc \in Seq(Message)
        BY <3>4, <3>13
      <4>3. /\ cat \in Seq(Message) /\ Len(cat) = Len(ds) + Len(abc)
            /\ \A i \in 1 .. Len(ds) + Len(abc) :
                 cat[i] = IF i <= Len(ds) THEN ds[i] ELSE abc[i - Len(ds)]
        BY <4>1, <4>2, ConcatProperties
      <4> QED
        BY <4>1, <4>3
    <3>16. ASSUME NEW i \in 1 .. Len(es)
           PROVE  /\ es[i].kind \notin {"window", "unmapped"}
                  /\ es[i].kind = "state" => es[i].window = w
      <4>1. /\ Len(ds) \in Nat /\ Len(es) = Len(ds) + 3
            /\ es[i] = IF i <= Len(ds) THEN ds[i] ELSE abc[i - Len(ds)]
        BY <3>4, <3>13, <3>15, <3>16
      <4>2. CASE i <= Len(ds)
        BY <3>4, <4>1, <4>2
      <4>3. CASE ~(i <= Len(ds))
        <5>1. i - Len(ds) \in 1 .. 3
          BY <4>1, <4>3
        <5> QED
          BY <3>14, <4>1, <4>3, <5>1
      <4> QED
        BY <4>2, <4>3
    <3> QED
      BY <2>1, <3>13, <3>15, <3>16 DEF Activates
  <2>2. CASE w \notin windows
    <3>1. PICK a : a = Windows!Event("state", w, FALSE)
      BY ZenonT(40)
    <3>2. PICK b : b = Windows!Event("parent", w, None)
      OBVIOUS
    <3>3. PICK c : c = Windows!Event("unmapped", w, None)
      OBVIOUS
    <3>4. PICK d : d = Windows!Event("initial", w, None)
      OBVIOUS
    <3>5. /\ a \in Message /\ b \in Message /\ c \in Message /\ d \in Message
          /\ a.kind = "state" /\ a.value = FALSE /\ b.kind = "parent" /\ d.kind = "initial"
          /\ c.kind = "unmapped" /\ c.window = w
      BY <1>3, <3>1, <3>2, <3>3, <3>4 DEF Windows!Event, Message
    <3>6. windowEvents' = windowEvents \o <<a, b, c, d, c>>
      BY <1>4, <2>2, <3>1, <3>2, <3>3, <3>4 DEF Windows!Temporary
    <3>7. <<a, b, c, d, c>> \in Seq(Message)
      BY <3>5
    <3>8. \A i \in 1 .. Len(<<a, b, c, d, c>>) : <<a, b, c, d, c>>[i] \in {a, b, c, d}
      OBVIOUS
    <3> QED
      BY <1>3, <2>2, <3>5, <3>6, <3>7, <3>8 DEF Activates
  <2> QED
    BY <2>1, <2>2
<1>6. /\ windows' \subseteq Window /\ windowBound' \subseteq windows' /\ desks' \subseteq Desktop
      /\ windowOn' \in [Window -> SUBSET Desktop] /\ parent' \in [Window -> Window \cup {None}]
      /\ windows' \cap windowGone' = {}
      /\ windows \cup windowGone \subseteq windows' \cup windowGone' /\ windowGone \subseteq windowGone'
  BY <1>1, <1>4 DEF WindowTypes, WindowsKnown
<1> QED
  BY <1>3, <1>4, <1>5, <1>6, WindowsTold

-----------------------------------------------------------------------------
(* The client reads one event after the other.                             *)
LEMMA WindowRead ==
  ASSUME WindowInv, Windows!ReadEvent
  PROVE  WindowInv'
<1>1. WindowTypes /\ WindowsKnown /\ NotRevived /\ Windows!ActiveWindowLives
  BY DEF WindowInv
<1>2. PICK e : e = Head(windowEvents)
  OBVIOUS
<1>3. /\ Len(windowEvents) \in Nat \ {0} /\ e = windowEvents[1] /\ e \in Message
      /\ windowEvents' \in Seq(Message) /\ Len(windowEvents') = Len(windowEvents) - 1
      /\ \A i \in 1 .. Len(windowEvents) - 1 : windowEvents'[i] = windowEvents[i + 1]
  BY <1>1, <1>2 DEF Windows!ReadEvent, WindowTypes
<1>4. \A i \in 1 .. Len(windowEvents') :
        /\ i \in Nat /\ 1 < i + 1 /\ i + 1 \in 1 .. Len(windowEvents)
        /\ windowEvents'[i] = windowEvents[i + 1]
  BY <1>3
<1>5. /\ \/ Windows!ReadWindow(e) \/ Windows!ReadDropped(e)
         \/ /\ e.window \in proxies
            /\ \/ Windows!ReadState(e) \/ Windows!ReadParent(e) \/ Windows!ReadDesktop(e)
               \/ Windows!ReadInitial(e) \/ Windows!ReadUnmapped(e)
      /\ UNCHANGED <<windows, windowGone, parent, desks, windowOn, windowBound>>
  BY <1>2 DEF Windows!ReadEvent, Windows!serverVars
<1>6. 1 \in 1 .. Len(windowEvents)
  BY <1>3
<1>7. /\ e.kind = "window" => e.window \in windows \cup windowGone
      /\ e.kind = "unmapped" => e.window \in windowGone
      /\ Activates(e) => e.window \notin unmapped
  BY <1>1, <1>3, <1>6 DEF WindowsKnown, NotRevived
<1>8. ASSUME NEW i \in 1 .. Len(windowEvents'), e.kind = "unmapped", Activates(windowEvents'[i])
      PROVE  e.window # windowEvents'[i].window
  BY <1>1, <1>3, <1>4, <1>6, <1>8 DEF NotRevived
<1>9. /\ unmapped' = IF e.kind = "unmapped" /\ e.window \in proxies
                       THEN unmapped \cup {e.window} ELSE unmapped
      /\ proxies \subseteq proxies'
      /\ windowRequests' = IF e.kind = "window" THEN Append(windowRequests, e.window)
                                                ELSE windowRequests
  BY <1>5 DEF Windows!ReadWindow, Windows!ReadDropped, Windows!ReadState, Windows!ReadParent,
              Windows!ReadDesktop, Windows!ReadInitial, Windows!ReadUnmapped, Windows!clientVars
<1>10. WindowTypes'
  <2>1. windowRequests' \in Seq(Window)
    BY <1>1, <1>3, <1>9 DEF WindowTypes, Message
  <2> QED
    BY <1>1, <1>3, <1>5, <2>1 DEF WindowTypes
<1>11. WindowsKnown'
  <2>1. \A i \in 1 .. Len(windowRequests') : windowRequests'[i] \in windows \cup windowGone
    <3>1. CASE e.kind = "window"
      <4>1. e.window \in Window
        BY <1>3 DEF Message
      <4>2. /\ Len(windowRequests) \in Nat /\ Len(windowRequests') = Len(windowRequests) + 1
            /\ \A i \in 1 .. Len(windowRequests) : windowRequests'[i] = windowRequests[i]
            /\ windowRequests'[Len(windowRequests) + 1] = e.window
        BY <1>1, <1>9, <3>1, <4>1 DEF WindowTypes
      <4> QED
        BY <1>1, <1>7, <3>1, <4>2 DEF WindowsKnown
    <3>2. CASE e.kind # "window"
      BY <1>1, <1>9, <3>2 DEF WindowsKnown
    <3> QED
      BY <3>1, <3>2
  <2>2. \A i \in 1 .. Len(windowEvents') :
          windowEvents'[i].kind = "window" => windowEvents'[i].window \in windows \cup windowGone
    BY <1>1, <1>4 DEF WindowsKnown
  <2> QED
    BY <1>1, <1>5, <2>1, <2>2 DEF WindowsKnown
<1>12. NotRevived'
  <2>1. unmapped' \subseteq windowGone'
    BY <1>1, <1>5, <1>7, <1>9 DEF NotRevived
  <2>2. ASSUME NEW i \in 1 .. Len(windowEvents')
        PROVE  /\ windowEvents'[i].kind = "unmapped" => windowEvents'[i].window \in windowGone'
               /\ Activates(windowEvents'[i]) => windowEvents'[i].window \notin unmapped'
    BY <1>1, <1>4, <1>5, <1>8, <1>9 DEF NotRevived
  <2>3. ASSUME NEW i \in 1 .. Len(windowEvents'), NEW j \in 1 .. Len(windowEvents'),
               i < j, windowEvents'[i].kind = "unmapped", Activates(windowEvents'[j])
        PROVE  windowEvents'[i].window # windowEvents'[j].window
    <3>1. i + 1 < j + 1
      BY <1>4, <2>3
    <3> QED
      BY <1>1, <1>4, <2>3, <3>1 DEF NotRevived
  <2> QED
    BY <2>1, <2>2, <2>3 DEF NotRevived
<1>13. Windows!ActiveWindowLives'
  <2> USE DEF Windows!ActiveWindowLives
  <2>1. CASE Windows!ReadState(e) /\ e.window \in proxies
    <3>1. PICK w : w = e.window
      OBVIOUS
    <3>2. e.kind = "state" /\ UNCHANGED <<proxies, unmapped>>
      BY <2>1 DEF Windows!ReadState
    <3>3. CASE e.value = TRUE
      <4>1. /\ windowIsActive' = windowIsActive \cup {w}
            /\ \/ activeWindow' = w
               \/ w \in windowIsActive /\ activeWindow' = activeWindow
        BY <2>1, <3>1, <3>3 DEF Windows!ReadState
      <4>2. w \notin unmapped
        BY <1>7, <3>1, <3>2, <3>3 DEF Activates
      <4> QED
        BY <1>1, <2>1, <3>1, <3>2, <4>1, <4>2
    <3>4. CASE e.value # TRUE
      <4>1. PICK v : v = e.value
        OBVIOUS
      <4> QED
        BY <1>1, <2>1, <3>1, <3>2, <3>4 DEF Windows!ReadState
    <3> QED
      BY <3>3, <3>4
  <2>2. CASE Windows!ReadUnmapped(e)
    BY <1>1, <2>2 DEF Windows!ReadUnmapped, Windows!ActiveWithout
  <2>3. CASE Windows!ReadWindow(e) \/ Windows!ReadDropped(e) \/ Windows!ReadParent(e)
             \/ Windows!ReadDesktop(e) \/ Windows!ReadInitial(e)
    BY <1>1, <2>3 DEF Windows!ReadWindow, Windows!ReadDropped, Windows!ReadParent,
              Windows!ReadDesktop, Windows!ReadInitial, Windows!clientVars
  <2> QED
    BY <1>5, <2>1, <2>2, <2>3
<1> QED
  BY <1>10, <1>11, <1>12, <1>13 DEF WindowInv

(* A window that was unmapped is deleted.                                  *)
LEMMA WindowDeleted ==
  ASSUME WindowInv, NEW w \in Window, Windows!DeleteWindow(w)
  PROVE  WindowInv'
<1>1. /\ UNCHANGED <<windows, windowGone, parent, desks, windowOn, windowBound, windowEvents,
                     windowRequests>>
      /\ unmapped' \subseteq unmapped
  BY DEF Windows!DeleteWindow, Windows!serverVars
<1>2. WindowTypes' /\ WindowsKnown' /\ NotRevived'
  BY <1>1 DEF WindowInv, WindowTypes, WindowsKnown, NotRevived
<1>3. Windows!ActiveWindowLives'
  BY DEF WindowInv, Windows!DeleteWindow, Windows!ActiveWindowLives, Windows!ActiveWithout
<1> QED
  BY <1>2, <1>3 DEF WindowInv

LEMMA WindowNext ==
  Windows!Assumptions /\ WindowInv /\ [Windows!Next]_(Windows!vars) => WindowInv'
<1> SUFFICES ASSUME Windows!Assumptions, WindowInv, [Windows!Next]_(Windows!vars)
             PROVE  WindowInv'
  OBVIOUS
<1>1. CASE UNCHANGED Windows!vars
  BY <1>1 DEF Windows!vars, Windows!serverVars, Windows!clientVars, WindowInv, WindowTypes,
              WindowsKnown, NotRevived, Windows!ActiveWindowLives
<1> QED
  BY <1>1, WindowCreated, WindowDestroyed, WindowDeleted, WindowChanged, WindowDesktops,
     WindowBoundTo, WindowRead DEF Windows!Next

-----------------------------------------------------------------------------
(* What is pointed to is there, for any number of windows, connections,    *)
(* layer surfaces and tokens, if the application connects only without     *)
(* connection and makes a new registry for each one: the active window,    *)
(* the display of objects, the surfaces and outputs of layer surfaces and  *)
(* the seats of tokens (src/client/plasmawindowmanagement.cpp:340-366,     *)
(* src/client/registry.cpp:711-716, layer_shell_v1.cpp:127-141, 274-283,   *)
(* xdg_activation_v1.cpp:80-101).                                          *)
THEOREM PointedToLivesCorrect ==
  ASSUME Windows!Assumptions, Connections!Assumptions, Layers!Assumptions, Tokens!Assumptions,
         Careful, ~Reuse
  PROVE  Windows!Spec /\ Connections!Spec /\ Layers!Spec /\ Tokens!Spec => []PointedToLives
<1>1. /\ Windows!Init => WindowInv
      /\ WindowInv /\ [Windows!Next]_(Windows!vars) => WindowInv'
  BY WindowInit, WindowNext
<1>2. /\ Connections!Init => ConnectionInv
      /\ ConnectionInv /\ [Connections!Next]_(Connections!vars) => ConnectionInv'
  BY ConnectionInit, ConnectionNext
<1>3. /\ Layers!Init => LinkInv
      /\ LinkInv /\ [Layers!Next]_(Layers!vars) => LinkInv'
  BY LayersInit, LinkNext
<1>4. /\ Tokens!Init => TokenInv
      /\ TokenInv /\ [Tokens!Next]_(Tokens!vars) => TokenInv'
  BY TokenInit, TokenNext
<1>5. ConnectionInv => Connections!ObjectsAlive
  BY DEF ConnectionInv, HearsLoss, Fed, Connections!ObjectsAlive
<1>6. WindowInv /\ ConnectionInv /\ LinkInv /\ TokenInv => PointedToLives
  BY <1>5 DEF WindowInv, LinkInv, TokenInv, PointedToLives
<1> QED
  BY <1>1, <1>2, <1>3, <1>4, <1>6, PTL
     DEF Windows!Spec, Connections!Spec, Layers!Spec, Tokens!Spec

-----------------------------------------------------------------------------
(* Outputs: the events under way lead a client from what it has to what is *)
(* published, and end an update only when it is whole.                     *)
(* What a client has read so far, and what one more event makes of it: the *)
(* handlers of src/client/output.cpp and src/client/xdgoutput.cpp.         *)
ClientView ==
  [version |-> version, number |-> output.number, position |-> output.position,
   scale |-> output.scale, current |-> output.current,
   logical |-> xdgPending, shown |-> xdgCurrent]

Gone(e) == e.kind = "global_removed"
Reset(e) == e.kind \in {"global", "global_removed"}
OfLogical(e) == e.kind \in {"logical_position", "logical_size", "description"}
Completes(g, e) == e.kind = "logical_done" \/ (e.kind = "done" /\ g.version >= 3)

AfterLogical(l, e) ==
  [position |-> IF e.kind = "logical_position" THEN e.value ELSE l.position,
   size |-> IF e.kind = "logical_size" THEN e.value ELSE l.size,
   description |-> IF e.kind = "description" THEN e.value ELSE l.description]

AfterEvent(g, e) ==
  [version |-> g.version,
   number |-> IF e.kind = "global" THEN e.value ELSE IF Gone(e) THEN 0 ELSE g.number,
   position |-> IF e.kind = "geometry" THEN e.value ELSE IF Reset(e) THEN None ELSE g.position,
   scale |-> IF e.kind = "scale" THEN e.value ELSE IF Reset(e) THEN None ELSE g.scale,
   current |-> IF e.kind = "mode" /\ e.value.current THEN e.value.mode
               ELSE IF Reset(e) THEN None ELSE g.current,
   logical |-> IF Gone(e) THEN Outs!Unknown
               ELSE IF OfLogical(e) THEN AfterLogical(g.logical, e) ELSE g.logical,
   shown |-> IF Completes(g, e) THEN g.logical ELSE IF Gone(e) THEN Outs!Unknown ELSE g.shown]

Showing(g, state) ==
  g.position = state.position /\ g.scale = state.scale /\ g.current = state.mode
LogicalOf(g, l, state) ==
  /\ l.position = state.position /\ l.size = state.size
  /\ g.version >= 3 => l.description = state.description
Whole(g, state) ==
  Showing(g, state) /\ (g.logical # Outs!Unknown => LogicalOf(g, g.logical, state))

OutputKinds == {"global", "global_removed", "geometry", "scale", "mode", "logical_position",
          "logical_size", "description", "done", "logical_done"}
Scales == {Outs!Scale(m, s) : m \in Mode, s \in LogicalSize}
ModeValue == [mode : Mode, current : BOOLEAN]
OutputMessages == [kind : OutputKinds, value : Nat \cup Position \cup LogicalSize \cup Description
                                   \cup Scales \cup ModeValue \cup Outs!State]

(* An event that may come next: no output starts while there is one, and   *)
(* what ends an update says what the client has then.                      *)
Fits(g, e, m) ==
  /\ e.kind = "global" => g.number = 0 /\ e.value \in 1 .. m
  /\ e.kind = "mode" => e.value \in ModeValue
  /\ e.kind \in {"done", "logical_done"} => Whole(g, e.value)

Replays(view, q, c, g, m) ==
  /\ view[0] = c /\ view[Len(q)] = g
  /\ \A n \in 1 .. Len(q) : view[n] = AfterEvent(view[n - 1], q[n]) /\ Fits(view[n - 1], q[n], m)

(* A client that has read what makes c of it and reads the events of q has *)
(* read what makes g of it then, and at no event on the way a mixture of   *)
(* two states was said to be complete.                                     *)
Told(q, c, g, m) == \E view : Replays(view, q, c, g, m)

(* Lists of events that are read one after the other                       *)
LEMMA ToldNothing == \A c, m : Told(<<>>, c, c, m)
<1> TAKE c, m
<1> DEFINE view == [n \in {0} |-> c]
<1>1. Replays(view, <<>>, c, c, m)
  BY DEF Replays
<1> QED
  BY <1>1 DEF Told

LEMMA ToldOne ==
  ASSUME NEW e \in OutputMessages, NEW c, NEW m, Fits(c, e, m)
  PROVE  Told(<<e>>, c, AfterEvent(c, e), m)
<1> DEFINE view == [n \in 0 .. 1 |-> IF n = 0 THEN c ELSE AfterEvent(c, e)]
<1> HIDE DEF OutputMessages
<1>1. /\ Len(<<e>>) = 1 /\ <<e>>[1] = e
      /\ view[0] = c /\ view[1] = AfterEvent(c, e)
  <2> HIDE DEF AfterEvent
  <2>1. Len(<<e>>) = 1 /\ <<e>>[1] = e
    OBVIOUS
  <2>2. view[0] = c /\ view[1] = AfterEvent(c, e)
    OBVIOUS
  <2> QED
    BY <2>1, <2>2
<1> HIDE DEF view
<1>2. \A n \in 1 .. 1 : view[n] = AfterEvent(view[n - 1], <<e>>[n]) /\ Fits(view[n - 1],
                                                                            <<e>>[n], m)
  <2> SUFFICES ASSUME NEW n \in 1 .. 1
               PROVE  view[n] = AfterEvent(view[n - 1], <<e>>[n])
                      /\ Fits(view[n - 1], <<e>>[n], m)
    OBVIOUS
  <2>1. n = 1 /\ n - 1 = 0
    OBVIOUS
  <2> QED
    BY <1>1, <2>1
<1>3. Replays(view, <<e>>, c, AfterEvent(c, e), m)
  BY <1>1, <1>2 DEF Replays
<1> QED
  BY <1>3 DEF Told

LEMMA ToldBoth ==
  ASSUME NEW q \in Seq(OutputMessages), NEW r \in Seq(OutputMessages), NEW c, NEW g, NEW h, NEW m,
         Told(q, c, g, m), Told(r, g, h, m)
  PROVE  Told(q \o r, c, h, m)
<1>1. PICK v : Replays(v, q, c, g, m)
  BY DEF Told
<1>2. PICK w : Replays(w, r, g, h, m)
  BY DEF Told
<1> DEFINE view == [n \in 0 .. Len(q) + Len(r) |-> IF n <= Len(q) THEN v[n] ELSE w[n - Len(q)]]
<1>3. /\ Len(q) \in Nat /\ Len(r) \in Nat /\ Len(q \o r) = Len(q) + Len(r)
      /\ \A n \in 1 .. Len(q) + Len(r) : (q \o r)[n] = IF n <= Len(q) THEN q[n] ELSE r[n - Len(q)]
  BY ConcatProperties, LenProperties
<1>4. /\ \A n \in 0 .. Len(q) : view[n] = v[n]
      /\ \A n \in 0 .. Len(r) : view[n + Len(q)] = w[n]
  <2>1. v[Len(q)] = w[0]
    BY <1>1, <1>2 DEF Replays
  <2>2. ASSUME NEW n \in 0 .. Len(q) PROVE view[n] = v[n]
    BY <1>3
  <2>3. ASSUME NEW n \in 0 .. Len(r) PROVE view[n + Len(q)] = w[n]
    <3>1. n + Len(q) \in 0 .. Len(q) + Len(r) /\ (n + Len(q)) - Len(q) = n
      BY <1>3
    <3>2. n + Len(q) <= Len(q) => n = 0 /\ n + Len(q) = Len(q)
      BY <1>3
    <3> QED
      BY <2>1, <3>1, <3>2
  <2> QED
    BY <2>2, <2>3
<1> HIDE DEF view
<1>5. ASSUME NEW n \in 1 .. Len(q) + Len(r)
      PROVE  view[n] = AfterEvent(view[n - 1], (q \o r)[n]) /\ Fits(view[n - 1], (q \o r)[n], m)
  <2>1. CASE n <= Len(q)
    <3>1. n \in 1 .. Len(q) /\ n \in 0 .. Len(q) /\ n - 1 \in 0 .. Len(q) /\ (q \o r)[n] = q[n]
      BY <2>1, <1>3
    <3>2. view[n] = v[n] /\ view[n - 1] = v[n - 1]
      BY <3>1, <1>4
    <3> QED
      BY <3>1, <3>2, <1>1 DEF Replays
  <2>2. CASE ~(n <= Len(q))
    <3>1. PICK k \in 1 .. Len(r) : n = k + Len(q)
      <4>1. n - Len(q) \in 1 .. Len(r) /\ n = (n - Len(q)) + Len(q)
        BY <2>2, <1>3
      <4> QED
        BY <4>1
    <3>2. k \in 0 .. Len(r) /\ k - 1 \in 0 .. Len(r) /\ n - 1 = (k - 1) + Len(q)
          /\ (q \o r)[n] = r[k]
      BY <3>1, <2>2, <1>3
    <3>3. view[n] = w[k] /\ view[n - 1] = w[k - 1]
      BY <3>1, <3>2, <1>4
    <3> QED
      BY <3>1, <3>2, <3>3, <1>2 DEF Replays
  <2> QED
    BY <2>1, <2>2
<1>6. view[0] = c /\ view[Len(q \o r)] = h
  <2>1. 0 \in 0 .. Len(q) /\ Len(r) \in 0 .. Len(r) /\ Len(r) + Len(q) = Len(q \o r)
    BY <1>3
  <2>2. view[0] = v[0] /\ view[Len(r) + Len(q)] = w[Len(r)]
    BY <2>1, <1>4
  <2> QED
    BY <2>1, <2>2, <1>1, <1>2 DEF Replays
<1>7. Replays(view, q \o r, c, h, m)
  BY <1>3, <1>5, <1>6 DEF Replays
<1> QED
  BY <1>7 DEF Told

LEMMA ToldRest ==
  ASSUME NEW q \in Seq(OutputMessages), q # <<>>, NEW c, NEW g, NEW m, Told(q, c, g, m)
  PROVE  Fits(c, Head(q), m) /\ Told(Tail(q), AfterEvent(c, Head(q)), g, m)
<1>1. PICK v : Replays(v, q, c, g, m)
  BY DEF Told
<1> DEFINE view == [n \in 0 .. Len(q) - 1 |-> v[n + 1]]
<1>2. /\ Len(q) \in Nat \ {0} /\ Head(q) = q[1] /\ Len(Tail(q)) = Len(q) - 1
      /\ \A n \in 1 .. Len(q) - 1 : Tail(q)[n] = q[n + 1]
  BY HeadTailProperties, LenProperties, EmptySeq
<1>3. \A n \in 0 .. Len(q) - 1 : view[n] = v[n + 1]
  OBVIOUS
<1> HIDE DEF view
<1>4. v[1] = AfterEvent(c, Head(q)) /\ Fits(c, Head(q), m)
  <2>1. 1 \in 1 .. Len(q) /\ 1 - 1 = 0
    BY <1>2
  <2>2. v[1] = AfterEvent(v[1 - 1], q[1]) /\ Fits(v[1 - 1], q[1], m)
    BY <2>1, <1>1 DEF Replays
  <2> QED
    BY <2>1, <2>2, <1>1, <1>2 DEF Replays
<1>5. ASSUME NEW n \in 1 .. Len(q) - 1
      PROVE  view[n] = AfterEvent(view[n - 1], Tail(q)[n]) /\ Fits(view[n - 1], Tail(q)[n], m)
  <2>1. n \in 0 .. Len(q) - 1 /\ n - 1 \in 0 .. Len(q) - 1 /\ n + 1 \in 1 .. Len(q)
        /\ (n + 1) - 1 = n /\ (n - 1) + 1 = n
    BY <1>2
  <2>2. view[n] = v[n + 1] /\ view[n - 1] = v[(n + 1) - 1]
    BY <2>1, <1>3
  <2>3. v[n + 1] = AfterEvent(v[(n + 1) - 1], q[n + 1]) /\ Fits(v[(n + 1) - 1], q[n + 1], m)
    BY <2>1, <1>1 DEF Replays
  <2> QED
    BY <2>2, <2>3, <1>2
<1>6. view[0] = v[1] /\ view[Len(q) - 1] = g
  <2>1. 0 \in 0 .. Len(q) - 1 /\ Len(q) - 1 \in 0 .. Len(q) - 1 /\ (Len(q) - 1) + 1 = Len(q)
        /\ 0 + 1 = 1
    BY <1>2
  <2>2. view[0] = v[0 + 1] /\ view[Len(q) - 1] = v[(Len(q) - 1) + 1]
    BY <2>1, <1>3
  <2> QED
    BY <2>1, <2>2, <1>1 DEF Replays
<1>7. Replays(view, Tail(q), AfterEvent(c, Head(q)), g, m)
  BY <1>2, <1>4, <1>5, <1>6 DEF Replays
<1> QED
  BY <1>4, <1>7 DEF Told

(* More outputs may have been made since.                                  *)
LEMMA ToldMore ==
  ASSUME NEW q \in Seq(OutputMessages), NEW c, NEW g, NEW m \in Nat, NEW k \in Nat, m <= k,
         Told(q, c, g, m)
  PROVE  Told(q, c, g, k)
<1>1. PICK v : Replays(v, q, c, g, m)
  BY DEF Told
<1>2. \A h, e : Fits(h, e, m) => Fits(h, e, k)
  BY DEF Fits
<1>3. Replays(v, q, c, g, k)
  BY <1>1, <1>2 DEF Replays
<1> QED
  BY <1>3 DEF Told

-----
OutputRequest == [kind : {"bind", "get"}, value : Nat]
OutputTypes ==
  /\ outputEvents \in Seq(OutputMessages) /\ outputRequests \in Seq(OutputRequest)
  /\ pending \in Outs!State /\ published \in Outs!State
  /\ modes \subseteq Mode /\ IsFiniteSet(modes)
  /\ made \in Nat /\ live \in 0 .. made /\ version \in Nat
  /\ output = [number |-> output.number, position |-> output.position, scale |-> output.scale,
               modes |-> output.modes, current |-> output.current]
  /\ xdgPending = [position |-> xdgPending.position, size |-> xdgPending.size,
                   description |-> xdgPending.description]

(* Binds belong to the output that is there.                               *)
OutputLives ==
  /\ live # 0 <=> published.enabled
  /\ outputBound => live # 0
  /\ xdgBound => outputBound /\ xdgOutput
  /\ output.number \in 0 .. made
  /\ outputAsked => output.number # 0

(* The request for a logical output comes after the one for the output.    *)
BindFirst ==
  \A i \in 1 .. Len(outputRequests) :
    /\ outputRequests[i].value \in 1 .. made
    /\ outputRequests[i] = [kind |-> "get", value |-> live] =>
         outputBound \/ \E j \in 1 .. i - 1 : outputRequests[j] = [kind |-> "bind",
                                                                   value |-> live]
BindAsked ==
  output.number = live /\ live # 0 =>
    outputBound \/ \E j \in 1 .. Len(outputRequests) : outputRequests[j] = [kind |-> "bind",
                                                                            value |-> live]
LogicalAsked ==
  output.number = live /\ outputAsked =>
    xdgBound \/ outputFault \/ \E j \in 1 .. Len(outputRequests) :
                                   outputRequests[j] = [kind |-> "get", value |-> live]

OneCurrent ==
  /\ output.modes \subseteq ModeValue
  /\ {k \in output.modes : k.current}
       = IF output.current = None THEN {} ELSE {[mode |-> output.current, current |-> TRUE]}

(* A client that has read everything under way has what is published.      *)
Ready(g) ==
  /\ g.version = version /\ g.number = live
  /\ outputBound => Showing(g, published)
  /\ IF xdgBound THEN LogicalOf(g, g.logical, published) /\ LogicalOf(g, g.shown, published)
     ELSE g.logical = Outs!Unknown

EventsTold == \E g : Told(outputEvents, ClientView, g, made) /\ Ready(g)

OutputInv ==
  OutputTypes /\ OutputLives /\ BindFirst /\ BindAsked /\ LogicalAsked /\ OneCurrent /\ EventsTold

(* Events that change nothing the client has                               *)
LEMMA ToldQuiet ==
  ASSUME NEW r \in Seq(OutputMessages), NEW g, NEW m,
         \A i \in 1 .. Len(r) : Fits(g, r[i], m) /\ AfterEvent(g, r[i]) = g
  PROVE  Told(r, g, g, m)
<1> DEFINE view == [n \in 0 .. Len(r) |-> g]
<1>1. Len(r) \in Nat
  BY LenProperties
<1>2. \A n \in 0 .. Len(r) : view[n] = g
  OBVIOUS
<1> HIDE DEF view
<1>3. ASSUME NEW n \in 1 .. Len(r)
      PROVE  view[n] = AfterEvent(view[n - 1], r[n]) /\ Fits(view[n - 1], r[n], m)
  <2>1. n \in 0 .. Len(r) /\ n - 1 \in 0 .. Len(r)
    BY <1>1
  <2>2. view[n] = g /\ view[n - 1] = g
    BY <1>2, <2>1
  <2> QED
    BY <2>2
<1>4. view[0] = g /\ view[Len(r)] = g
  <2>1. 0 \in 0 .. Len(r) /\ Len(r) \in 0 .. Len(r)
    BY <1>1
  <2> QED
    BY <1>2, <2>1
<1>5. Replays(view, r, g, g, m)
  BY <1>3, <1>4 DEF Replays
<1> QED
  BY <1>5 DEF Told

LEMMA ToldIf ==
  ASSUME NEW condition \in BOOLEAN, NEW e \in OutputMessages, NEW g, NEW m, Fits(g, e, m)
  PROVE  /\ Outs!If(condition, <<e>>) \in Seq(OutputMessages)
         /\ Told(Outs!If(condition, <<e>>), g, IF condition THEN AfterEvent(g, e) ELSE g, m)
<1>1. CASE condition
  <2>1. Outs!If(condition, <<e>>) = <<e>>
    BY <1>1 DEF Outs!If
  <2>2. <<e>> \in Seq(OutputMessages)
    OBVIOUS
  <2>3. Told(<<e>>, g, AfterEvent(g, e), m)
    BY ToldOne
  <2> QED
    BY <1>1, <2>1, <2>2, <2>3
<1>2. CASE ~condition
  <2>1. Outs!If(condition, <<e>>) = <<>>
    BY <1>2 DEF Outs!If
  <2>2. <<>> \in Seq(OutputMessages)
    OBVIOUS
  <2> QED
    BY <1>2, <2>1, <2>2, ToldNothing
<1> QED
  BY <1>1, <1>2

LEMMA ToldThree ==
  ASSUME NEW a \in OutputMessages, NEW b \in OutputMessages, NEW c \in OutputMessages, NEW g,
         NEW h, NEW k, NEW l, NEW m,
         Fits(g, a, m), h = AfterEvent(g, a), Fits(h, b, m), k = AfterEvent(h, b),
         Fits(k, c, m), l = AfterEvent(k, c)
  PROVE  <<a, b, c>> \in Seq(OutputMessages) /\ Told(<<a, b, c>>, g, l, m)
<1> DEFINE view ==
  [n \in 0 .. 3 |-> IF n = 0 THEN g ELSE IF n = 1 THEN h ELSE IF n = 2 THEN k ELSE l]
<1>1. view[0] = g /\ view[1] = h /\ view[2] = k /\ view[3] = l
  OBVIOUS
<1> HIDE DEF view
<1>2. PICK q : q = <<a, b, c>>
  OBVIOUS
<1>3. q \in Seq(OutputMessages) /\ Len(q) = 3 /\ q[1] = a /\ q[2] = b /\ q[3] = c
  BY <1>2
<1>4. ASSUME NEW n \in 1 .. 3
      PROVE  view[n] = AfterEvent(view[n - 1], q[n]) /\ Fits(view[n - 1], q[n], m)
  <2>1. (n = 1 /\ n - 1 = 0) \/ (n = 2 /\ n - 1 = 1) \/ (n = 3 /\ n - 1 = 2)
    OBVIOUS
  <2> QED
    BY <1>1, <1>3, <2>1
<1>5. Replays(view, q, g, l, m)
  BY <1>1, <1>3, <1>4 DEF Replays
<1> QED
  BY <1>2, <1>3, <1>5 DEF Told

(* What an event leaves alone                                              *)
SameLogical(g, h) == h.version = g.version /\ h.number = g.number /\ h.logical = g.logical
SameOutput(g, h) ==
  /\ h.version = g.version /\ h.number = g.number
  /\ h.position = g.position /\ h.scale = g.scale /\ h.current = g.current

(* What broadcast of a wl_output and of an xdg_output tells                *)
LEMMA OutputTold ==
  ASSUME pending \in Outs!State, published \in Outs!State, NEW g, NEW m, Showing(g, published)
  PROVE  /\ Outs!OutputEvents \in Seq(OutputMessages)
         /\ \E h : /\ Told(Outs!OutputEvents, g, h, m)
                   /\ SameLogical(g, h) /\ h.shown = g.shown /\ Showing(h, pending)
<1>1. PICK e1 : e1 = Outs!Event("geometry", pending.position)
  OBVIOUS
<1>2. PICK e2 : e2 = Outs!Event("scale", pending.scale)
  OBVIOUS
<1>3. PICK e3 : e3 = Outs!Event("mode", [mode |-> pending.mode, current |-> TRUE])
  OBVIOUS
<1>4. e1 \in OutputMessages /\ e2 \in OutputMessages /\ e3 \in OutputMessages
  <2>1. pending.position \in Position /\ pending.scale \in Scales /\ pending.mode \in Mode
    BY DEF Outs!State, Scales
  <2>2. [mode |-> pending.mode, current |-> TRUE] \in ModeValue
    BY <2>1 DEF ModeValue
  <2>3. e1 \in OutputMessages
    BY <1>1, <2>1 DEF OutputMessages, OutputKinds, Outs!Event
  <2>4. e2 \in OutputMessages
    BY <1>2, <2>1 DEF OutputMessages, OutputKinds, Outs!Event
  <2>5. e3 \in OutputMessages
    BY <1>3, <2>2 DEF OutputMessages, OutputKinds, Outs!Event
  <2> QED
    BY <2>3, <2>4, <2>5
<1>5. \A k : Fits(k, e1, m) /\ Fits(k, e2, m)
  BY <1>1, <1>2 DEF Fits, Outs!Event
<1>6. \A k : Fits(k, e3, m)
  <2>1. [mode |-> pending.mode, current |-> TRUE] \in ModeValue
    BY DEF ModeValue, Outs!State
  <2> QED
    BY <1>3, <2>1 DEF Fits, Outs!Event
<1>7. PICK d1, d2, d3 : /\ d1 \in BOOLEAN /\ d2 \in BOOLEAN /\ d3 \in BOOLEAN
                        /\ d1 = Outs!Differs("position") /\ d2 = Outs!Differs("scale")
                        /\ d3 = Outs!Differs("mode")
  BY DEF Outs!Differs
<1>8. PICK h1 : h1 = IF d1 THEN AfterEvent(g, e1) ELSE g
  OBVIOUS
<1>9. PICK h2 : h2 = IF d2 THEN AfterEvent(h1, e2) ELSE h1
  OBVIOUS
<1>10. PICK h3 : h3 = IF d3 THEN AfterEvent(h2, e3) ELSE h2
  OBVIOUS
<1>11. PICK q1, q2, q3 : q1 = Outs!If(d1, <<e1>>) /\ q2 = Outs!If(d2, <<e2>>)
                         /\ q3 = Outs!If(d3, <<e3>>)
  OBVIOUS
<1>12. /\ q1 \in Seq(OutputMessages) /\ Told(q1, g, h1, m)
       /\ q2 \in Seq(OutputMessages) /\ Told(q2, h1, h2, m)
       /\ q3 \in Seq(OutputMessages) /\ Told(q3, h2, h3, m)
  BY <1>4, <1>5, <1>6, <1>7, <1>8, <1>9, <1>10, <1>11, ToldIf
<1>13. Outs!OutputEvents = q1 \o q2 \o q3
  BY <1>1, <1>2, <1>3, <1>7, <1>11 DEF Outs!OutputEvents
<1>14. /\ q1 \o q2 \in Seq(OutputMessages) /\ Told(q1 \o q2, g, h2, m)
  BY <1>12, ToldBoth
<1>15. /\ (q1 \o q2) \o q3 \in Seq(OutputMessages) /\ Told((q1 \o q2) \o q3, g, h3, m)
  <2>1. PICK q : q = q1 \o q2
    OBVIOUS
  <2>2. q \in Seq(OutputMessages) /\ Told(q, g, h2, m)
    BY <1>14, <2>1
  <2>3. q \o q3 \in Seq(OutputMessages) /\ Told(q \o q3, g, h3, m)
    BY <1>12, <2>2, ToldBoth
  <2> QED
    BY <2>1, <2>3
<1>16. /\ SameLogical(g, h1) /\ h1.shown = g.shown
       /\ h1.position = pending.position /\ h1.scale = g.scale /\ h1.current = g.current
  BY <1>1, <1>7, <1>8 DEF AfterEvent, Outs!Event, Outs!Differs, Showing, SameLogical, Gone,
     Reset, OfLogical, Completes
<1>17. /\ SameLogical(h1, h2) /\ h2.shown = h1.shown
       /\ h2.position = h1.position /\ h2.scale = pending.scale /\ h2.current = h1.current
  BY <1>2, <1>7, <1>9, <1>16 DEF AfterEvent, Outs!Event, Outs!Differs, Showing, SameLogical,
     Gone, Reset, OfLogical, Completes
<1>18. /\ SameLogical(h2, h3) /\ h3.shown = h2.shown
       /\ h3.position = h2.position /\ h3.scale = h2.scale /\ h3.current = pending.mode
  BY <1>3, <1>7, <1>10, <1>16, <1>17 DEF AfterEvent, Outs!Event, Outs!Differs, Showing,
     SameLogical, Gone, Reset, OfLogical, Completes
<1>19. SameLogical(g, h3) /\ h3.shown = g.shown /\ Showing(h3, pending)
  BY <1>16, <1>17, <1>18 DEF SameLogical, Showing
<1> QED
  BY <1>13, <1>15, <1>19

LEMMA LogicalTold ==
  ASSUME pending \in Outs!State, published \in Outs!State, NEW g, NEW m,
         g.version = version, version \in Nat, LogicalOf(g, g.logical, published)
  PROVE  /\ Outs!LogicalEvents \in Seq(OutputMessages)
         /\ \E h : /\ Told(Outs!LogicalEvents, g, h, m)
                   /\ SameOutput(g, h) /\ LogicalOf(h, h.logical, pending)
<1>1. PICK e1 : e1 = Outs!Event("logical_position", pending.position)
  OBVIOUS
<1>2. PICK e2 : e2 = Outs!Event("logical_size", pending.size)
  OBVIOUS
<1>3. PICK e3 : e3 = Outs!Event("description", pending.description)
  OBVIOUS
<1>4. e1 \in OutputMessages /\ e2 \in OutputMessages /\ e3 \in OutputMessages
  <2>1. pending.position \in Position /\ pending.size \in LogicalSize
        /\ pending.description \in Description
    BY DEF Outs!State
  <2>2. e1 \in OutputMessages
    BY <1>1, <2>1 DEF OutputMessages, OutputKinds, Outs!Event
  <2>3. e2 \in OutputMessages
    BY <1>2, <2>1 DEF OutputMessages, OutputKinds, Outs!Event
  <2>4. e3 \in OutputMessages
    BY <1>3, <2>1 DEF OutputMessages, OutputKinds, Outs!Event
  <2> QED
    BY <2>2, <2>3, <2>4
<1>5. \A k : Fits(k, e1, m) /\ Fits(k, e2, m) /\ Fits(k, e3, m)
  BY <1>1, <1>2, <1>3 DEF Fits, Outs!Event
<1>7. PICK d1, d2, d3 : /\ d1 \in BOOLEAN /\ d2 \in BOOLEAN /\ d3 \in BOOLEAN
                        /\ d1 = Outs!Differs("position") /\ d2 = Outs!Differs("size")
                        /\ d3 = (Outs!Differs("description") /\ version >= 3)
  BY DEF Outs!Differs
<1>8. PICK h1 : h1 = IF d1 THEN AfterEvent(g, e1) ELSE g
  OBVIOUS
<1>9. PICK h2 : h2 = IF d2 THEN AfterEvent(h1, e2) ELSE h1
  OBVIOUS
<1>10. PICK h3 : h3 = IF d3 THEN AfterEvent(h2, e3) ELSE h2
  OBVIOUS
<1>11. PICK q1, q2, q3 : q1 = Outs!If(d1, <<e1>>) /\ q2 = Outs!If(d2, <<e2>>)
                         /\ q3 = Outs!If(d3, <<e3>>)
  OBVIOUS
<1>12. /\ q1 \in Seq(OutputMessages) /\ Told(q1, g, h1, m)
       /\ q2 \in Seq(OutputMessages) /\ Told(q2, h1, h2, m)
       /\ q3 \in Seq(OutputMessages) /\ Told(q3, h2, h3, m)
  BY <1>4, <1>5, <1>7, <1>8, <1>9, <1>10, <1>11, ToldIf
<1>13. Outs!LogicalEvents = q1 \o q2 \o q3
  BY <1>1, <1>2, <1>3, <1>7, <1>11 DEF Outs!LogicalEvents
<1>14. /\ q1 \o q2 \in Seq(OutputMessages) /\ Told(q1 \o q2, g, h2, m)
  BY <1>12, ToldBoth
<1>15. /\ (q1 \o q2) \o q3 \in Seq(OutputMessages) /\ Told((q1 \o q2) \o q3, g, h3, m)
  <2>1. PICK q : q = q1 \o q2
    OBVIOUS
  <2>2. q \in Seq(OutputMessages) /\ Told(q, g, h2, m)
    BY <1>14, <2>1
  <2>3. q \o q3 \in Seq(OutputMessages) /\ Told(q \o q3, g, h3, m)
    BY <1>12, <2>2, ToldBoth
  <2> QED
    BY <2>1, <2>3
<1>16. /\ SameOutput(g, h1)
       /\ h1.logical.position = pending.position /\ h1.logical.size = g.logical.size
       /\ h1.logical.description = g.logical.description
  BY <1>1, <1>7, <1>8
  DEF AfterEvent, AfterLogical, Outs!Event, Outs!Differs, LogicalOf, SameOutput, Gone, Reset,
  OfLogical, Completes
<1>17. /\ SameOutput(h1, h2)
       /\ h2.logical.position = h1.logical.position /\ h2.logical.size = pending.size
       /\ h2.logical.description = h1.logical.description
  BY <1>2, <1>7, <1>9, <1>16
  DEF AfterEvent, AfterLogical, Outs!Event, Outs!Differs, LogicalOf, SameOutput, Gone, Reset,
  OfLogical, Completes
<1>18. /\ SameOutput(h2, h3)
       /\ h3.logical.position = h2.logical.position /\ h3.logical.size = h2.logical.size
       /\ version >= 3 => h3.logical.description = pending.description
  BY <1>3, <1>7, <1>10, <1>16, <1>17
  DEF AfterEvent, AfterLogical, Outs!Event, Outs!Differs, LogicalOf, SameOutput, Gone, Reset,
  OfLogical, Completes
<1>19. SameOutput(g, h3) /\ LogicalOf(h3, h3.logical, pending)
  BY <1>16, <1>17, <1>18 DEF SameOutput, LogicalOf
<1> QED
  BY <1>13, <1>15, <1>19

(* An update of an output without, and with, a logical output.             *)
LEMMA UpdateTold ==
  ASSUME OutputTypes, NEW g, Ready(g), outputBound
  PROVE  LET es == Outs!OutputEvents \o Outs!Updates(pending)
                   \o Outs!If(xdgBound /\ version < 3, <<Outs!Event("logical_done", pending)>>)
         IN  /\ es \in Seq(OutputMessages)
             /\ \E h : /\ Told(es, g, h, made)
                       /\ h.version = version /\ h.number = live
                       /\ Showing(h, pending)
                       /\ IF xdgBound
                            THEN LogicalOf(h, h.logical, pending) /\ LogicalOf(h, h.shown, pending)
                            ELSE h.logical = Outs!Unknown
<1>1. /\ pending \in Outs!State /\ published \in Outs!State /\ version \in Nat
      /\ g.version = version /\ g.number = live /\ Showing(g, published)
  BY DEF OutputTypes, Ready
<1>2. PICK q1, h1 : /\ q1 = Outs!OutputEvents /\ q1 \in Seq(OutputMessages)
                    /\ Told(q1, g, h1, made)
                    /\ SameLogical(g, h1) /\ h1.shown = g.shown /\ Showing(h1, pending)
  BY <1>1, OutputTold
<1>3. h1.version = version /\ h1.number = live /\ h1.logical = g.logical
  BY <1>1, <1>2 DEF SameLogical
<1>4. PICK q2, h2 : /\ q2 = Outs!If(xdgBound, Outs!LogicalEvents)
                    /\ q2 \in Seq(OutputMessages) /\ Told(q2, h1, h2, made)
                    /\ SameOutput(h1, h2)
                    /\ IF xdgBound THEN LogicalOf(h2, h2.logical, pending)
                         ELSE h2.logical = Outs!Unknown
  <2>1. CASE xdgBound
    <3>1. LogicalOf(h1, h1.logical, published)
      BY <1>1, <1>3, <2>1 DEF Ready, LogicalOf
    <3>2. Outs!If(xdgBound, Outs!LogicalEvents) = Outs!LogicalEvents
      BY <2>1 DEF Outs!If
    <3> QED
      BY <1>1, <1>3, <2>1, <3>1, <3>2, LogicalTold
  <2>2. CASE ~xdgBound
    <3>1. Outs!If(xdgBound, Outs!LogicalEvents) = <<>> /\ <<>> \in Seq(OutputMessages)
      BY <2>2 DEF Outs!If
    <3>2. Told(<<>>, h1, h1, made) /\ SameOutput(h1, h1)
      BY ToldNothing DEF SameOutput
    <3>3. h1.logical = Outs!Unknown
      BY <1>3, <2>2 DEF Ready
    <3> QED
      BY <2>2, <3>1, <3>2, <3>3
  <2> QED
    BY <2>1, <2>2
<1>5. PICK e3 : e3 = Outs!Event("done", pending)
  OBVIOUS
<1>6. PICK e4 : e4 = Outs!Event("logical_done", pending)
  OBVIOUS
<1>7. e3 \in OutputMessages /\ e4 \in OutputMessages
  BY <1>1, <1>5, <1>6 DEF OutputMessages, OutputKinds, Outs!Event
<1>8. h2.version = version /\ h2.number = live /\ Showing(h2, pending)
  BY <1>2, <1>3, <1>4 DEF SameOutput, Showing
<1>9. Fits(h2, e3, made)
  BY <1>4, <1>5, <1>8 DEF Fits, Outs!Event, Whole
<1>10. PICK h3 : h3 = AfterEvent(h2, e3)
  OBVIOUS
<1>11. /\ h3.version = version /\ h3.number = live /\ Showing(h3, pending)
       /\ h3.logical = h2.logical
       /\ version >= 3 => h3.shown = h2.logical
  BY <1>5, <1>8, <1>10 DEF AfterEvent, Outs!Event, Showing, Gone, Reset, OfLogical, Completes
<1>12. Fits(h3, e4, made)
  BY <1>4, <1>6, <1>8, <1>11 DEF Fits, Outs!Event, Whole, LogicalOf
<1>13. PICK d : d \in BOOLEAN /\ d = (xdgBound /\ version < 3)
  BY <1>1
<1>14. PICK h4 : h4 = IF d THEN AfterEvent(h3, e4) ELSE h3
  OBVIOUS
<1>15. PICK q4 : q4 = Outs!If(d, <<e4>>)
  OBVIOUS
<1>16. q4 \in Seq(OutputMessages) /\ Told(q4, h3, h4, made)
  BY <1>7, <1>12, <1>13, <1>14, <1>15, ToldIf
<1>17. PICK done : done = <<e3>> /\ done \in Seq(OutputMessages) /\ Told(done, h2, h3, made)
  <2>1. <<e3>> \in Seq(OutputMessages) /\ Told(<<e3>>, h2, h3, made)
    BY <1>7, <1>9, <1>10, ToldOne
  <2> QED
    BY <2>1
<1>18. PICK q3 : q3 = q2 \o done
  OBVIOUS
<1>19. q3 \in Seq(OutputMessages) /\ Told(q3, h1, h3, made)
  <2>1. /\ q2 \in Seq(OutputMessages) /\ Told(q2, h1, h2, made)
        /\ done \in Seq(OutputMessages) /\ Told(done, h2, h3, made)
    BY <1>4, <1>17
  <2>2. q2 \o done \in Seq(OutputMessages) /\ Told(q2 \o done, h1, h3, made)
    BY <2>1, ToldBoth
  <2> QED
    BY <1>18, <2>2
<1>20. PICK q : q = q1 \o q3
  OBVIOUS
<1>21. q \in Seq(OutputMessages) /\ Told(q, g, h3, made)
  BY <1>2, <1>19, <1>20, ToldBoth
<1>22. q \o q4 \in Seq(OutputMessages) /\ Told(q \o q4, g, h4, made)
  BY <1>16, <1>21, ToldBoth
<1>23. Outs!OutputEvents \o Outs!Updates(pending) \o Outs!If(xdgBound /\ version < 3,
                                                             <<Outs!Event("logical_done",
                                                                          pending)>>)
         = q \o q4
  BY <1>2, <1>4, <1>5, <1>6, <1>13, <1>15, <1>17, <1>18, <1>20 DEF Outs!Updates
<1>24. /\ h4.version = version /\ h4.number = live /\ Showing(h4, pending)
       /\ IF xdgBound THEN LogicalOf(h4, h4.logical, pending) /\ LogicalOf(h4, h4.shown, pending)
          ELSE h4.logical = Outs!Unknown
  <2>1. CASE d
    <3>1. /\ h4.version = version /\ h4.number = live /\ Showing(h4, pending)
          /\ h4.logical = h3.logical /\ h4.shown = h3.logical
      BY <1>6, <1>11, <1>14, <2>1 DEF AfterEvent, Outs!Event, Showing, Gone, Reset, OfLogical,
         Completes
    <3> QED
      BY <1>4, <1>8, <1>11, <1>13, <2>1, <3>1 DEF LogicalOf
  <2>2. CASE ~d
    <3>1. h4 = h3
      BY <1>14, <2>2
    <3>2. CASE xdgBound
      <4>3. ~(xdgBound /\ version < 3)
        BY <1>13, <2>2
      <4>1. version >= 3
        BY <1>1, <3>2, <4>3
      <4>2. h4.logical = h2.logical /\ h4.shown = h2.logical
        BY <1>11, <3>1, <4>1
      <4> QED
        BY <1>4, <1>8, <1>11, <3>1, <3>2, <4>2 DEF LogicalOf
    <3>3. CASE ~xdgBound
      BY <1>4, <1>11, <3>1, <3>3
    <3> QED
      BY <3>2, <3>3
  <2> QED
    BY <2>1, <2>2
<1> QED
  BY <1>22, <1>23, <1>24

(* What a bind is told.                                                    *)
LEMMA BindTold ==
  ASSUME OutputTypes, NEW g, Ready(g)
  PROVE  /\ Outs!BindEvents \in Seq(OutputMessages)
         /\ \E h : /\ Told(Outs!BindEvents, g, h, made)
                   /\ h.version = version /\ h.number = live
                   /\ Showing(h, published)
                   /\ IF xdgBound
                        THEN LogicalOf(h, h.logical, published) /\ LogicalOf(h, h.shown, published)
                        ELSE h.logical = Outs!Unknown
<1> DEFINE more == modes \ {published.mode}
           times == Outs!Cardinality(more)
<1>1. PICK others : /\ others = CHOOSE q \in Outs!Bijection(1 .. times, more) : TRUE
                    /\ DOMAIN others = 1 .. times
                    /\ times \in Nat
                    /\ \A i \in 1 .. times : others[i] \in Mode
  <2>1. IsFiniteSet(more)
    BY FS_Difference DEF OutputTypes
  <2>2. times \in Nat /\ Outs!Bijection(1 .. times, more) # {}
    <3>1. times = Cardinality(more)
      BY DEF Outs!Cardinality, Cardinality
    <3>2. times \in Nat /\ Bijection(1 .. times, more) # {}
      BY <2>1, <3>1, FS_CardinalityType DEF ExistsBijection
    <3>3. Outs!Bijection(1 .. times, more) = Bijection(1 .. times, more)
      BY DEF Outs!Bijection, Outs!Injection, Outs!Surjection, Outs!IsInjective, Bijection,
         Injection, Surjection, IsInjective
    <3> QED
      BY <3>2, <3>3
  <2>3. PICK others : /\ others = CHOOSE q \in Outs!Bijection(1 .. times, more) : TRUE
                      /\ others \in Outs!Bijection(1 .. times, more)
    BY <2>2
  <2>4. others \in [1 .. times -> more]
    BY <2>3 DEF Outs!Bijection, Outs!Injection
  <2>5. more \subseteq Mode
    BY DEF OutputTypes
  <2> QED
    BY <2>2, <2>3, <2>4, <2>5
<1> HIDE DEF more, times
<1>2. PICK e1 : e1 = Outs!Event("geometry", published.position)
  OBVIOUS
<1>3. PICK q2 : q2 = [i \in DOMAIN others |-> Outs!Event("mode", [mode |-> others[i],
                                                                  current |-> FALSE])]
  OBVIOUS
<1>4. PICK e3 : e3 = Outs!Event("mode", [mode |-> published.mode, current |-> TRUE])
  OBVIOUS
<1>5. PICK e4 : e4 = Outs!Event("scale", published.scale)
  OBVIOUS
<1>6. PICK e5 : e5 = Outs!Event("done", published)
  OBVIOUS
<1>7. Outs!BindEvents = <<e1>> \o q2 \o <<e3, e4, e5>>
  <2>1. Outs!BindEvents = <<Outs!Event("geometry", published.position)>>
          \o [i \in DOMAIN others |-> Outs!Event("mode", [mode |-> others[i], current |-> FALSE])]
          \o <<Outs!Event("mode", [mode |-> published.mode, current |-> TRUE]),
               Outs!Event("scale", published.scale), Outs!Event("done", published)>>
    BY <1>1 DEF Outs!BindEvents, more, times
  <2> QED
    BY <1>2, <1>3, <1>4, <1>5, <1>6, <2>1, Zenon
<1>8. /\ published \in Outs!State /\ published.position \in Position /\ published.scale \in Scales
      /\ [mode |-> published.mode, current |-> TRUE] \in ModeValue
      /\ version \in Nat
  BY DEF OutputTypes, Outs!State, Scales, ModeValue
<1>9. e1 \in OutputMessages /\ e3 \in OutputMessages /\ e4 \in OutputMessages
      /\ e5 \in OutputMessages
  <2>1. e1 \in OutputMessages
    BY <1>2, <1>8 DEF OutputMessages, OutputKinds, Outs!Event
  <2>2. e3 \in OutputMessages
    BY <1>4, <1>8 DEF OutputMessages, OutputKinds, Outs!Event
  <2>3. e4 \in OutputMessages
    BY <1>5, <1>8 DEF OutputMessages, OutputKinds, Outs!Event
  <2>4. e5 \in OutputMessages
    BY <1>6, <1>8 DEF OutputMessages, OutputKinds, Outs!Event
  <2> QED
    BY <2>1, <2>2, <2>3, <2>4
<1>10. PICK h1 : h1 = AfterEvent(g, e1)
  OBVIOUS
<1>11. PICK h3 : h3 = AfterEvent(h1, e3)
  OBVIOUS
<1>12. PICK h4 : h4 = AfterEvent(h3, e4)
  OBVIOUS
<1>13. PICK h5 : h5 = AfterEvent(h4, e5)
  OBVIOUS
<1>14. /\ SameLogical(g, h1) /\ h1.shown = g.shown /\ h1.position = published.position
  BY <1>2, <1>10 DEF AfterEvent, Outs!Event, SameLogical, Gone, Reset, OfLogical, Completes
<1>15. /\ SameLogical(h1, h3) /\ h3.shown = h1.shown /\ h3.position = h1.position
       /\ h3.current = published.mode
  BY <1>4, <1>11 DEF AfterEvent, Outs!Event, SameLogical, Gone, Reset, OfLogical, Completes
<1>16. /\ SameLogical(h3, h4) /\ h4.shown = h3.shown /\ h4.position = h3.position
       /\ h4.current = h3.current /\ h4.scale = published.scale
  BY <1>5, <1>12 DEF AfterEvent, Outs!Event, SameLogical, Gone, Reset, OfLogical, Completes
<1>17. SameLogical(g, h4) /\ h4.shown = g.shown /\ Showing(h4, published)
  BY <1>14, <1>15, <1>16 DEF SameLogical, Showing
<1>18. h4.version = version /\ h4.number = live /\ h4.logical = g.logical
  BY <1>17 DEF SameLogical, Ready
<1>19. Fits(h4, e5, made)
  <2>1. h4.logical # Outs!Unknown => LogicalOf(h4, h4.logical, published)
    BY <1>18 DEF Ready, LogicalOf
  <2> QED
    BY <1>6, <1>17, <2>1 DEF Fits, Outs!Event, Whole
<1>20. /\ h5.version = version /\ h5.number = live /\ Showing(h5, published)
       /\ IF xdgBound
            THEN LogicalOf(h5, h5.logical, published) /\ LogicalOf(h5, h5.shown, published)
            ELSE h5.logical = Outs!Unknown
  <2>1. /\ h5.version = version /\ h5.number = live /\ Showing(h5, published)
        /\ h5.logical = g.logical /\ h5.shown \in {g.logical, g.shown}
    BY <1>6, <1>13, <1>17, <1>18 DEF AfterEvent, Outs!Event, Showing, Gone, Reset, OfLogical,
       Completes
  <2> QED
    BY <2>1 DEF Ready, LogicalOf
<1>21. Fits(g, e1, made) /\ Fits(h1, e3, made) /\ Fits(h3, e4, made)
  BY <1>2, <1>4, <1>5, <1>8 DEF Fits, Outs!Event
<1>22. q2 \in Seq(OutputMessages) /\ Told(q2, h1, h1, made)
  <2>1. \A i \in 1 .. times : /\ q2[i] = Outs!Event("mode", [mode |-> others[i],
                                                             current |-> FALSE])
                              /\ [mode |-> others[i], current |-> FALSE] \in ModeValue
    BY <1>1, <1>3 DEF ModeValue
  <2>2. ASSUME NEW i \in 1 .. times PROVE q2[i] \in OutputMessages
    <3>1. PICK v \in ModeValue : q2[i] = Outs!Event("mode", v)
      BY <2>1
    <3> QED
      BY <3>1 DEF OutputMessages, OutputKinds, Outs!Event
  <2>3. q2 \in [1 .. times -> OutputMessages]
    BY <1>1, <1>3, <2>2
  <2>4. q2 \in Seq(OutputMessages) /\ Len(q2) = times
    BY <1>1, <2>3
  <2>5. ASSUME NEW i \in 1 .. Len(q2)
        PROVE  Fits(h1, q2[i], made) /\ AfterEvent(h1, q2[i]) = h1
    <3>1. PICK v \in ModeValue : q2[i] = Outs!Event("mode", v) /\ ~v.current
      BY <2>1, <2>4
    <3>2. Fits(h1, q2[i], made)
      BY <3>1 DEF Fits, Outs!Event
    <3>3. h1 = [version |-> h1.version, number |-> h1.number, position |-> h1.position,
                scale |-> h1.scale, current |-> h1.current, logical |-> h1.logical,
                shown |-> h1.shown]
      BY <1>10 DEF AfterEvent
    <3>4. AfterEvent(h1, q2[i]) = h1
      BY <3>1, <3>3 DEF AfterEvent, Outs!Event, Gone, Reset, OfLogical, Completes
    <3> QED
      BY <3>2, <3>4
  <2> QED
    BY <2>4, <2>5, ToldQuiet
<1>23. PICK q1 : q1 = <<e1>> /\ q1 \in Seq(OutputMessages) /\ Told(q1, g, h1, made)
  <2>1. <<e1>> \in Seq(OutputMessages) /\ Told(<<e1>>, g, h1, made)
    BY <1>9, <1>10, <1>21, ToldOne
  <2> QED
    BY <2>1
<1>24. PICK q3 : q3 = <<e3, e4, e5>> /\ q3 \in Seq(OutputMessages) /\ Told(q3, h1, h5, made)
  BY <1>9, <1>11, <1>12, <1>13, <1>19, <1>21, ToldThree
<1>25. PICK q12 : q12 = q1 \o q2 /\ q12 \in Seq(OutputMessages) /\ Told(q12, g, h1, made)
  <2>1. /\ q1 \in Seq(OutputMessages) /\ Told(q1, g, h1, made)
        /\ q2 \in Seq(OutputMessages) /\ Told(q2, h1, h1, made)
    BY <1>22, <1>23
  <2>2. q1 \o q2 \in Seq(OutputMessages) /\ Told(q1 \o q2, g, h1, made)
    BY <2>1, ToldBoth
  <2> QED
    BY <2>2
<1>26. q12 \o q3 \in Seq(OutputMessages) /\ Told(q12 \o q3, g, h5, made)
  <2>1. /\ q12 \in Seq(OutputMessages) /\ Told(q12, g, h1, made)
        /\ q3 \in Seq(OutputMessages) /\ Told(q3, h1, h5, made)
    BY <1>24, <1>25
  <2> QED
    BY <2>1, ToldBoth
<1>27. Outs!BindEvents = q12 \o q3
  BY <1>7, <1>23, <1>24, <1>25
<1> QED
  BY <1>20, <1>26, <1>27

(* What a logical output is told at first.                                 *)
LEMMA ConnectTold ==
  ASSUME OutputTypes, NEW g, Ready(g), outputBound
  PROVE  /\ Outs!ConnectEvents \in Seq(OutputMessages)
         /\ \E h : /\ Told(Outs!ConnectEvents, g, h, made)
                   /\ h.version = version /\ h.number = live /\ Showing(h, published)
                   /\ LogicalOf(h, h.logical, published) /\ LogicalOf(h, h.shown, published)
<1>1. PICK e1 : e1 = Outs!Event("logical_position", published.position)
  OBVIOUS
<1>2. PICK e2 : e2 = Outs!Event("logical_size", published.size)
  OBVIOUS
<1>3. PICK e3 : e3 = Outs!Event("description", published.description)
  OBVIOUS
<1>4. PICK e4 : e4 = IF version < 3 THEN Outs!Event("logical_done",
                                                    published) ELSE Outs!Event("done", published)
  OBVIOUS
<1>5. Outs!ConnectEvents = <<e1, e2, e3>> \o <<e4>>
  BY <1>1, <1>2, <1>3, <1>4 DEF Outs!ConnectEvents, Outs!If
<1>6. /\ published \in Outs!State /\ published.position \in Position
      /\ published.size \in LogicalSize
      /\ published.description \in Description /\ version \in Nat
  BY DEF OutputTypes, Outs!State
<1>7. e1 \in OutputMessages /\ e2 \in OutputMessages /\ e3 \in OutputMessages
      /\ e4 \in OutputMessages
  <2>1. e1 \in OutputMessages
    BY <1>1, <1>6 DEF OutputMessages, OutputKinds, Outs!Event
  <2>2. e2 \in OutputMessages
    BY <1>2, <1>6 DEF OutputMessages, OutputKinds, Outs!Event
  <2>3. e3 \in OutputMessages
    BY <1>3, <1>6 DEF OutputMessages, OutputKinds, Outs!Event
  <2>4. e4 \in OutputMessages
    BY <1>4, <1>6 DEF OutputMessages, OutputKinds, Outs!Event
  <2> QED
    BY <2>1, <2>2, <2>3, <2>4
<1>8. PICK h1 : h1 = AfterEvent(g, e1)
  OBVIOUS
<1>9. PICK h2 : h2 = AfterEvent(h1, e2)
  OBVIOUS
<1>10. PICK h3 : h3 = AfterEvent(h2, e3)
  OBVIOUS
<1>11. PICK h4 : h4 = AfterEvent(h3, e4)
  OBVIOUS
<1>12. SameOutput(g, h1) /\ h1.logical.position = published.position
  BY <1>1, <1>8 DEF AfterEvent, AfterLogical, Outs!Event, SameOutput, Gone, Reset, OfLogical,
     Completes
<1>13. /\ SameOutput(h1, h2) /\ h2.logical.position = h1.logical.position
       /\ h2.logical.size = published.size
  BY <1>2, <1>9 DEF AfterEvent, AfterLogical, Outs!Event, SameOutput, Gone, Reset, OfLogical,
     Completes
<1>14. /\ SameOutput(h2, h3) /\ h3.logical.position = h2.logical.position
       /\ h3.logical.size = h2.logical.size /\ h3.logical.description = published.description
  BY <1>3, <1>10 DEF AfterEvent, AfterLogical, Outs!Event, SameOutput, Gone, Reset, OfLogical,
     Completes
<1>15. /\ h3.version = version /\ h3.number = live /\ Showing(h3, published)
       /\ LogicalOf(h3, h3.logical, published)
  BY <1>12, <1>13, <1>14 DEF SameOutput, Ready, Showing, LogicalOf
<1>16. Fits(h3, e4, made)
  BY <1>4, <1>15 DEF Fits, Outs!Event, Whole
<1>17. /\ h4.version = version /\ h4.number = live /\ Showing(h4, published)
       /\ h4.logical = h3.logical /\ h4.shown = h3.logical
  BY <1>4, <1>6, <1>11, <1>15 DEF AfterEvent, Outs!Event, Showing, Gone, Reset, OfLogical,
     Completes
<1>18. LogicalOf(h4, h4.logical, published) /\ LogicalOf(h4, h4.shown, published)
  BY <1>15, <1>17 DEF LogicalOf
<1>19. Fits(g, e1, made) /\ Fits(h1, e2, made) /\ Fits(h2, e3, made)
  BY <1>1, <1>2, <1>3 DEF Fits, Outs!Event
<1>20. PICK q : q = <<e1, e2, e3>> /\ q \in Seq(OutputMessages) /\ Told(q, g, h3, made)
  BY <1>7, <1>8, <1>9, <1>10, <1>19, ToldThree
<1>21. PICK r : r = <<e4>> /\ r \in Seq(OutputMessages) /\ Told(r, h3, h4, made)
  <2>1. <<e4>> \in Seq(OutputMessages) /\ Told(<<e4>>, h3, h4, made)
    BY <1>7, <1>11, <1>16, ToldOne
  <2> QED
    BY <2>1
<1>22. q \o r \in Seq(OutputMessages) /\ Told(q \o r, g, h4, made)
  <2>1. /\ q \in Seq(OutputMessages) /\ Told(q, g, h3, made)
        /\ r \in Seq(OutputMessages) /\ Told(r, h3, h4, made)
    BY <1>20, <1>21
  <2> QED
    BY <2>1, ToldBoth
<1>23. Outs!ConnectEvents = q \o r
  BY <1>5, <1>20, <1>21
<1> QED
  BY <1>17, <1>18, <1>22, <1>23

(* The invariant holds from the start and through every step.              *)
LEMMA OutputInit == Outs!Assumptions /\ Outs!Init => OutputInv
<1> SUFFICES ASSUME Outs!Assumptions, Outs!Init PROVE OutputInv
  OBVIOUS
<1>1. OutputTypes
  <2>1. outputEvents \in Seq(OutputMessages) /\ outputRequests \in Seq(OutputRequest)
    BY DEF Outs!Init
  <2>2. pending \in Outs!State /\ published \in Outs!State
    BY DEF Outs!Init
  <2>3. modes \subseteq Mode /\ IsFiniteSet(modes)
    BY FS_Singleton DEF Outs!Init
  <2>4. made \in Nat /\ live \in 0 .. made /\ version \in Nat
    BY DEF Outs!Init, Outs!Assumptions
  <2>5. /\ output = [number |-> output.number, position |-> output.position,
                     scale |-> output.scale,
                     modes |-> output.modes, current |-> output.current]
        /\ xdgPending = [position |-> xdgPending.position, size |-> xdgPending.size,
                         description |-> xdgPending.description]
    BY DEF Outs!Init, Outs!NoOutput, Outs!Unknown
  <2> QED
    BY <2>1, <2>2, <2>3, <2>4, <2>5 DEF OutputTypes
<1>2. OutputLives
  BY DEF Outs!Init, OutputLives, Outs!NoOutput, Outs!State
<1>3. BindFirst /\ BindAsked /\ LogicalAsked
  BY DEF Outs!Init, BindFirst, BindAsked, LogicalAsked
<1>4. OneCurrent
  BY DEF Outs!Init, OneCurrent, Outs!NoOutput
<1>5. EventsTold
  <2>1. Told(outputEvents, ClientView, ClientView, made)
    BY ToldNothing DEF Outs!Init
  <2>2. Ready(ClientView)
    BY DEF Outs!Init, Ready, ClientView, Outs!NoOutput
  <2> QED
    BY <2>1, <2>2 DEF EventsTold
<1> QED
  BY <1>1, <1>2, <1>3, <1>4, <1>5 DEF OutputInv

(* Steps that neither publish nor send.                                    *)
LEMMA OutputPrepared ==
  ASSUME Outs!Assumptions, OutputInv,
         \/ \E b \in BOOLEAN, p \in Position, s \in LogicalSize, m \in Mode :
                Outs!SetState(b, p, s, m)
         \/ \E d \in Description : Outs!SetMetadata(d)
         \/ \E m \in Mode : Outs!AddMode(m)
         \/ Outs!CreateXdgManager
         \/ UNCHANGED Outs!vars
  PROVE  OutputInv'
<1>1. /\ UNCHANGED <<published, live, made, xdgOutput, outputBound, xdgBound, outputEvents,
                     outputRequests, version, output,
                     outputAsked, xdgPending, xdgCurrent, outputFault>>
  BY ZenonT(40) DEF Outs!SetState, Outs!SetMetadata, Outs!AddMode, Outs!CreateXdgManager, Outs!Changed,
     Outs!clientVars, Outs!globalVars, Outs!stateVars, Outs!vars
<1>2. pending' \in Outs!State
  <2>1. pending \in Outs!State
    BY DEF OutputInv, OutputTypes
  <2>2. ASSUME NEW b \in BOOLEAN, NEW p \in Position, NEW s \in LogicalSize, NEW m \in Mode,
               Outs!SetState(b, p, s, m)
        PROVE  pending' \in Outs!State
    <3>1. PICK sc : sc = Outs!Scale(m, s) /\ sc \in Scales
      BY DEF Scales
    <3>2. pending' = [pending EXCEPT !.enabled = b, !.position = p, !.size = s, !.mode = m,
                      !.scale = sc]
      BY ZenonT(40), <2>2, <3>1 DEF Outs!SetState
    <3>3. Outs!State = [enabled : BOOLEAN, position : Position, size : LogicalSize, mode : Mode,
                   scale : Scales, description : Description]
      BY DEF Outs!State, Scales
    <3> QED
      BY <2>1, <3>1, <3>2, <3>3
  <2>3. ASSUME NEW d \in Description, Outs!SetMetadata(d) PROVE pending' \in Outs!State
    BY <2>1, <2>3 DEF Outs!SetMetadata, Outs!State
  <2>4. ASSUME NEW m \in Mode, Outs!AddMode(m) PROVE pending' \in Outs!State
    BY <2>1, <2>4 DEF Outs!AddMode, Outs!State
  <2>5. CASE Outs!CreateXdgManager \/ UNCHANGED Outs!vars
    BY <2>1, <2>5 DEF Outs!CreateXdgManager, Outs!stateVars, Outs!vars
  <2> QED
    BY <2>2, <2>3, <2>4, <2>5
<1>3. modes' \subseteq Mode /\ IsFiniteSet(modes')
  <2>1. modes \subseteq Mode /\ IsFiniteSet(modes)
    BY DEF OutputInv, OutputTypes
  <2>2. ASSUME NEW m \in Mode, Outs!AddMode(m) PROVE modes' \subseteq Mode /\ IsFiniteSet(modes')
    BY <2>1, <2>2, FS_AddElement DEF Outs!AddMode
  <2>3. (\A m \in Mode : ~Outs!AddMode(m)) => modes' = modes
    BY ZenonT(40) DEF Outs!SetState, Outs!SetMetadata, Outs!CreateXdgManager, Outs!stateVars, Outs!vars
  <2> QED
    BY <2>1, <2>2, <2>3
<1>4. OutputTypes'
  BY <1>1, <1>2, <1>3 DEF OutputInv, OutputTypes
<1>5. OutputLives' /\ BindFirst' /\ BindAsked' /\ LogicalAsked' /\ OneCurrent'
  BY <1>1 DEF OutputInv, OutputLives, BindFirst, BindAsked, LogicalAsked, OneCurrent
<1>6. EventsTold'
  <2>1. PICK g : Told(outputEvents, ClientView, g, made) /\ Ready(g)
    BY DEF OutputInv, EventsTold
  <2>2. ClientView' = ClientView
    BY <1>1 DEF ClientView
  <2>3. Ready(g)'
    BY <1>1, <2>1 DEF Ready
  <2> QED
    BY <1>1, <2>1, <2>2, <2>3 DEF EventsTold
<1> QED
  BY <1>4, <1>5, <1>6 DEF OutputInv

LEMMA ConcatEmpty == \A q \in Seq(OutputMessages) : q \o <<>> = q
BY ConcatEmptySeq

LEMMA OutputDone ==
  ASSUME OutputInv, Outs!Done
  PROVE  OutputInv'
<1> DEFINE starts == pending.enabled /\ ~published.enabled
           stops == published.enabled /\ ~pending.enabled
           es == Outs!OutputEvents \o Outs!Updates(pending)
                 \o Outs!If(xdgBound /\ version < 3, <<Outs!Event("logical_done", pending)>>)
<1>1. /\ outputEvents \in Seq(OutputMessages) /\ pending \in Outs!State
      /\ published \in Outs!State
      /\ made \in Nat /\ live \in 0 .. made
      /\ live # 0 <=> published.enabled
      /\ outputBound => live # 0
      /\ xdgBound => outputBound /\ xdgOutput
      /\ pending.enabled \in BOOLEAN /\ published.enabled \in BOOLEAN
  BY DEF OutputInv, OutputTypes, OutputLives, Outs!State
<1>2. /\ published' = pending /\ pending' = pending /\ modes' = modes
      /\ made' = IF starts THEN made + 1 ELSE made
      /\ live' = IF starts THEN made + 1 ELSE IF stops THEN 0 ELSE live
      /\ xdgOutput' = IF starts THEN xdgManager ELSE xdgOutput /\ ~stops
      /\ outputBound' = (outputBound /\ ~stops) /\ xdgBound' = (xdgBound /\ ~stops)
      /\ UNCHANGED <<outputRequests, version, output, outputAsked, xdgPending, xdgCurrent,
                     outputFault>>
  BY DEF Outs!Done, Outs!Changed, Outs!clientVars
<1>3. outputEvents' = outputEvents \o Outs!If(starts, <<Outs!Event("global", made + 1)>>)
                       \o Outs!If(stops, <<Outs!Event("global_removed", live)>>)
                       \o Outs!If(outputBound /\ pending.enabled /\ Outs!AnyDiffers, es)
  BY DEF Outs!Done
<1>4. /\ made' \in Nat /\ live' \in 0 .. made' /\ made <= made'
      /\ live' # 0 <=> published'.enabled
      /\ outputBound' => live' # 0
      /\ xdgBound' => outputBound' /\ xdgOutput'
  BY <1>1, <1>2
<1>5. PICK g : Told(outputEvents, ClientView, g, made) /\ Ready(g)
  BY DEF OutputInv, EventsTold
<1>6. Told(outputEvents, ClientView, g, made') /\ ClientView' = ClientView
  <2>1. ClientView' = ClientView
    BY <1>2 DEF ClientView
  <2> QED
    BY <1>1, <1>4, <1>5, <2>1, ToldMore
<1>7. g.version = version /\ g.number = live
  BY <1>5 DEF Ready
<1> HIDE DEF es
<1>8. outputEvents' \in Seq(OutputMessages) /\ EventsTold'
  <2>1. CASE starts
    <3>1. live = 0 /\ ~outputBound /\ ~xdgBound /\ ~stops
      BY <1>1, <2>1
    <3>2. PICK e : e = Outs!Event("global", made + 1)
      OBVIOUS
    <3>3. e \in OutputMessages
      BY <1>1, <3>2 DEF Outs!Event, OutputMessages, OutputKinds
    <3>4. Fits(g, e, made')
      BY <1>1, <1>2, <1>7, <2>1, <3>1, <3>2 DEF Outs!Event, Fits
    <3>5. PICK q : q = <<e>> /\ q \in Seq(OutputMessages) /\ Told(q, g, AfterEvent(g, e), made')
      <4>1. <<e>> \in Seq(OutputMessages) /\ Told(<<e>>, g, AfterEvent(g, e), made')
        BY <3>3, <3>4, ToldOne
      <4> QED
        BY <4>1
    <3>6. outputEvents' = outputEvents \o q \o <<>> \o <<>>
      BY <1>3, <2>1, <3>1, <3>2, <3>5 DEF Outs!If
    <3>7. outputEvents \o q \in Seq(OutputMessages)
          /\ Told(outputEvents \o q, ClientView, AfterEvent(g, e), made')
      <4>1. q \in Seq(OutputMessages) /\ Told(q, g, AfterEvent(g, e), made')
        BY <3>5
      <4> QED
        BY <1>1, <1>6, <4>1, ToldBoth
    <3>8. outputEvents' = outputEvents \o q
      BY <3>6, <3>7, ConcatEmpty
    <3>9. AfterEvent(g, e).version = version' /\ AfterEvent(g, e).number = live'
          /\ AfterEvent(g, e).logical = Outs!Unknown
      <4>1. g.logical = Outs!Unknown
        BY <1>5, <3>1 DEF Ready
      <4> QED
        BY <1>2, <1>7, <2>1, <3>2, <4>1 DEF AfterEvent, Outs!Event, Gone, Reset, OfLogical
    <3>10. Ready(AfterEvent(g, e))'
      BY <1>2, <3>1, <3>9 DEF Ready
    <3> QED
      BY <1>6, <3>7, <3>8, <3>10 DEF EventsTold
  <2>2. CASE stops
    <3>1. ~starts /\ ~(outputBound /\ pending.enabled /\ Outs!AnyDiffers)
      BY <1>1, <2>2
    <3>2. PICK e : e = Outs!Event("global_removed", live)
      OBVIOUS
    <3>3. e \in OutputMessages
      BY <1>1, <3>2 DEF Outs!Event, OutputMessages, OutputKinds
    <3>4. Fits(g, e, made')
      BY <3>2 DEF Outs!Event, Fits
    <3>5. PICK q : q = <<e>> /\ q \in Seq(OutputMessages) /\ Told(q, g, AfterEvent(g, e), made')
      <4>1. <<e>> \in Seq(OutputMessages) /\ Told(<<e>>, g, AfterEvent(g, e), made')
        BY <3>3, <3>4, ToldOne
      <4> QED
        BY <4>1
    <3>6. outputEvents' = outputEvents \o <<>> \o q \o <<>>
      BY <1>3, <2>2, <3>1, <3>2, <3>5 DEF Outs!If
    <3>7. outputEvents \o q \in Seq(OutputMessages)
          /\ Told(outputEvents \o q, ClientView, AfterEvent(g, e), made')
      <4>1. q \in Seq(OutputMessages) /\ Told(q, g, AfterEvent(g, e), made')
        BY <3>5
      <4> QED
        BY <1>1, <1>6, <4>1, ToldBoth
    <3>8. outputEvents' = outputEvents \o q
      BY <1>1, <3>6, <3>7, ConcatEmpty
    <3>9. AfterEvent(g, e).version = version' /\ AfterEvent(g, e).number = live'
          /\ AfterEvent(g, e).logical = Outs!Unknown
      BY <1>2, <1>7, <2>2, <3>1, <3>2 DEF AfterEvent, Outs!Event, Gone, Reset, OfLogical
    <3>10. Ready(AfterEvent(g, e))'
      BY <1>2, <2>2, <3>9 DEF Ready
    <3> QED
      BY <1>6, <3>7, <3>8, <3>10 DEF EventsTold
  <2>3. CASE ~starts /\ ~stops /\ outputBound /\ pending.enabled /\ Outs!AnyDiffers
    <3>1. outputEvents' = outputEvents \o <<>> \o <<>> \o es
      BY <1>3, <2>3 DEF Outs!If
    <3>2. outputEvents' = outputEvents \o es
      BY <1>1, <3>1, ConcatEmpty
    <3>4. PICK q, h :
             /\ q = es /\ q \in Seq(OutputMessages) /\ Told(q, g, h, made)
             /\ h.version = version /\ h.number = live /\ Showing(h, pending)
             /\ IF xdgBound
                  THEN LogicalOf(h, h.logical, pending) /\ LogicalOf(h, h.shown, pending)
                  ELSE h.logical = Outs!Unknown
      <4>1. OutputTypes /\ outputBound
        BY <2>3 DEF OutputInv
      <4> QED
        BY <1>5, <4>1, UpdateTold DEF es
    <3>5. outputEvents \o q \in Seq(OutputMessages)
          /\ Told(outputEvents \o q, ClientView, h, made)
      <4>1. q \in Seq(OutputMessages) /\ Told(q, g, h, made)
        BY <3>4
      <4> QED
        BY <1>1, <1>5, <4>1, ToldBoth
    <3>6. made' = made /\ live' = live /\ (outputBound' <=> outputBound) /\ (xdgBound' <=> xdgBound)
      BY <1>2, <2>3
    <3>7. Ready(h)'
      BY <1>2, <3>4, <3>6 DEF Ready, Showing, LogicalOf
    <3> QED
      BY <1>6, <3>2, <3>4, <3>5, <3>6, <3>7 DEF EventsTold
  <2>4. CASE ~starts /\ ~stops /\ ~(outputBound /\ pending.enabled /\ Outs!AnyDiffers)
    <3>1. outputEvents' = outputEvents \o <<>> \o <<>> \o <<>>
      BY <1>3, <2>4 DEF Outs!If
    <3>2. outputEvents' = outputEvents
      BY <1>1, <3>1, ConcatEmpty
    <3>3. made' = made /\ live' = live /\ (outputBound' <=> outputBound) /\ (xdgBound' <=> xdgBound)
      BY <1>2, <2>4
    <3>4. outputBound => ~Outs!AnyDiffers
      BY <1>1, <2>4
    <3>5. outputBound => Showing(g, pending)
      BY <1>5, <3>4 DEF Ready, Outs!AnyDiffers, Outs!Differs, Showing
    <3>6. xdgBound => LogicalOf(g, g.logical, pending) /\ LogicalOf(g, g.shown, pending)
      BY <1>1, <1>5, <3>4 DEF Ready, Outs!AnyDiffers, Outs!Differs, LogicalOf
    <3>7. Ready(g)'
      BY <1>2, <1>5, <3>3, <3>5, <3>6 DEF Ready
    <3> QED
      BY <1>1, <1>6, <3>2, <3>7 DEF EventsTold
  <2> QED
    BY <2>1, <2>2, <2>3, <2>4
<1>9. OutputTypes'
  BY <1>1, <1>2, <1>4, <1>8 DEF OutputInv, OutputTypes
<1>10. OutputLives'
  <2>1. output.number \in 0 .. made /\ (outputAsked => output.number # 0)
    BY DEF OutputInv, OutputLives
  <2>2. output'.number \in 0 .. made' /\ (outputAsked' => output'.number # 0)
    BY <1>1, <1>2, <1>4, <2>1
  <2> QED
    BY <1>4, <2>2 DEF OutputLives
<1>11. BindFirst'
  <2> SUFFICES ASSUME NEW i \in 1 .. Len(outputRequests)
               PROVE  /\ outputRequests[i].value \in 1 .. made'
                      /\ outputRequests[i] = [kind |-> "get", value |-> live'] =>
                           outputBound' \/ \E j \in 1 .. i - 1 :
                                               outputRequests[j] = [kind |-> "bind",
                                                                    value |-> live']
    BY <1>2 DEF BindFirst
  <2>1. /\ outputRequests[i].value \in 1 .. made
        /\ outputRequests[i] = [kind |-> "get", value |-> live] =>
             outputBound \/ \E j \in 1 .. i - 1 : outputRequests[j] = [kind |-> "bind",
                                                                       value |-> live]
    BY DEF OutputInv, BindFirst
  <2>2. outputRequests[i].value \in 1 .. made'
    BY SMTT(30), <1>1, <1>4, <2>1
  <2>3. ASSUME outputRequests[i] = [kind |-> "get", value |-> live']
        PROVE  outputBound' \/ \E j \in 1 .. i - 1 : outputRequests[j] = [kind |-> "bind",
                                                                          value |-> live']
    <3>1. live' \in 1 .. made
      BY <2>1, <2>3
    <3>2. ~starts /\ ~stops
      BY <1>1, <1>2, <3>1
    <3>3. live' = live /\ (outputBound' <=> outputBound)
      BY <1>2, <3>2
    <3> QED
      BY <2>1, <2>3, <3>3
  <2> QED
    BY <2>2, <2>3
<1>12. BindAsked' /\ LogicalAsked'
  <2>1. output.number \in 0 .. made /\ (outputAsked => output.number # 0)
    BY DEF OutputInv, OutputLives
  <2>2. live' # 0 /\ output.number = live'
      => live' = live /\ (outputBound' <=> outputBound) /\ (xdgBound' <=> xdgBound)
    <3> SUFFICES ASSUME live' # 0, output.number = live'
                 PROVE  live' = live /\ (outputBound' <=> outputBound) /\ (xdgBound' <=> xdgBound)
      OBVIOUS
    <3>1. ~starts /\ ~stops
      BY <1>1, <1>2, <2>1
    <3> QED
      BY <1>2, <3>1
  <2>3. BindAsked'
    BY <1>2, <2>2 DEF OutputInv, BindAsked
  <2>4. LogicalAsked'
    BY <1>2, <2>1, <2>2 DEF OutputInv, LogicalAsked
  <2> QED
    BY <2>3, <2>4
<1>13. OneCurrent'
  BY <1>2 DEF OutputInv, OneCurrent
<1> QED
  BY <1>8, <1>9, <1>10, <1>11, <1>12, <1>13 DEF OutputInv

(* The head of the requests is handled.                                    *)
LEMMA RequestTaken ==
  ASSUME OutputInv, outputRequests # <<>>, outputRequests' = Tail(outputRequests), NEW r,
         r = Head(outputRequests),
         UNCHANGED <<live, made>>,
         outputBound => outputBound', r = [kind |-> "bind", value |-> live] => outputBound'
  PROVE  /\ outputRequests' \in Seq(OutputRequest) /\ BindFirst'
         /\ r \in OutputRequest /\ r.value \in 1 .. made
         /\ r = [kind |-> "get", value |-> live] => outputBound
         /\ (\E j \in 1 .. Len(outputRequests) : outputRequests[j] = [kind |-> "bind",
                                                                      value |-> live])
              => outputBound' \/ \E j \in 1 .. Len(outputRequests') :
                                     outputRequests'[j] = [kind |-> "bind", value |-> live]
         /\ (\E j \in 1 .. Len(outputRequests) : outputRequests[j] = [kind |-> "get",
                                                                      value |-> live])
              => r = [kind |-> "get", value |-> live]
                 \/ \E j \in 1 .. Len(outputRequests') : outputRequests'[j] = [kind |-> "get",
                                                                               value |-> live]
<1>1. /\ outputRequests \in Seq(OutputRequest) /\ Len(outputRequests) \in Nat \ {0}
      /\ r = outputRequests[1]
      /\ outputRequests' \in Seq(OutputRequest) /\ Len(outputRequests') = Len(outputRequests) - 1
      /\ \A i \in 1 .. Len(outputRequests) - 1 : outputRequests'[i] = outputRequests[i + 1]
      /\ r \in OutputRequest
  <2>1. outputRequests \in Seq(OutputRequest)
    BY DEF OutputInv, OutputTypes
  <2> QED
    BY <2>1, HeadTailProperties, LenProperties, EmptySeq
<1>2. \A i \in 1 .. Len(outputRequests) :
        /\ outputRequests[i].value \in 1 .. made
        /\ outputRequests[i] = [kind |-> "get", value |-> live] =>
             outputBound \/ \E j \in 1 .. i - 1 : outputRequests[j] = [kind |-> "bind",
                                                                       value |-> live]
  BY DEF OutputInv, BindFirst
<1>3. 1 \in 1 .. Len(outputRequests) /\ ~\E j \in 1 .. 1 - 1 : TRUE
  BY <1>1
<1>4. r.value \in 1 .. made /\ (r = [kind |-> "get", value |-> live] => outputBound)
  BY <1>1, <1>2, <1>3
<1>5. ASSUME NEW v, NEW j \in 1 .. Len(outputRequests), outputRequests[j] = v
      PROVE  r = v \/ (j - 1 \in 1 .. Len(outputRequests') /\ outputRequests'[j - 1] = v)
  <2>1. CASE j = 1
    BY <1>1, <1>5, <2>1
  <2>2. CASE j # 1
    <3>1. j - 1 \in 1 .. Len(outputRequests) - 1 /\ (j - 1) + 1 = j
      BY <1>1, <2>2
    <3> QED
      BY <1>1, <1>5, <3>1
  <2> QED
    BY <2>1, <2>2
<1>6. BindFirst'
  <2> SUFFICES ASSUME NEW i \in 1 .. Len(outputRequests')
               PROVE  /\ outputRequests'[i].value \in 1 .. made
                      /\ outputRequests'[i] = [kind |-> "get", value |-> live] =>
                           outputBound' \/ \E j \in 1 .. i - 1 :
                                               outputRequests'[j] = [kind |-> "bind",
                                                                     value |-> live]
    BY DEF BindFirst
  <2>1. i + 1 \in 1 .. Len(outputRequests) /\ outputRequests'[i] = outputRequests[i + 1]
    BY <1>1
  <2>2. outputRequests'[i].value \in 1 .. made
    BY <1>2, <2>1
  <2>3. ASSUME outputRequests'[i] = [kind |-> "get", value |-> live], ~outputBound'
        PROVE  \E j \in 1 .. i - 1 : outputRequests'[j] = [kind |-> "bind", value |-> live]
    <3>1. PICK j \in 1 .. (i + 1) - 1 : outputRequests[j] = [kind |-> "bind", value |-> live]
      BY <1>2, <2>1, <2>3
    <3>2. j \in 1 .. Len(outputRequests) /\ j - 1 \in Int
      BY <1>1
    <3>3. j - 1 \in 1 .. Len(outputRequests')
          /\ outputRequests'[j - 1] = [kind |-> "bind", value |-> live]
      BY <1>5, <2>3, <3>1, <3>2
    <3>4. j - 1 \in 1 .. i - 1
      BY <1>1, <3>3
    <3> QED
      BY <3>3, <3>4
  <2> QED
    BY <2>2, <2>3
<1> QED
  BY <1>1, <1>4, <1>5, <1>6

LEMMA OutputHandles ==
  ASSUME OutputInv, Outs!HandleRequest
  PROVE  OutputInv'
<1>1. /\ outputRequests # <<>> /\ outputRequests' = Tail(outputRequests) /\ ~outputFault
      /\ UNCHANGED <<modes, pending, published, live, made, xdgManager, xdgOutput, version,
                     output, outputAsked,
                     xdgPending, xdgCurrent>>
      /\ OutputTypes /\ OutputLives
  BY DEF Outs!HandleRequest, Outs!stateVars, Outs!clientVars, OutputInv
<1>2. PICK r : r = Head(outputRequests) /\ (Outs!HandleBind(r) \/ Outs!HandleGetXdgOutput(r))
  BY DEF Outs!HandleRequest
<1>3. /\ outputBound => outputBound'
      /\ r = [kind |-> "bind", value |-> live] => outputBound'
      /\ outputBound' => outputBound \/ r.value = live
  <2>1. CASE Outs!HandleBind(r)
    <3>1. outputBound' <=> outputBound \/ r.value = live
      BY <2>1 DEF Outs!HandleBind
    <3> QED
      BY <3>1
  <2>2. CASE Outs!HandleGetXdgOutput(r)
    <3>1. outputBound' = outputBound /\ r.kind = "get"
      BY <2>2 DEF Outs!HandleGetXdgOutput
    <3> QED
      BY <3>1
  <2> QED
    BY <1>2, <2>1, <2>2
<1>4. /\ outputRequests' \in Seq(OutputRequest) /\ BindFirst'
      /\ r \in OutputRequest /\ r.value \in 1 .. made
      /\ r = [kind |-> "get", value |-> live] => outputBound
      /\ (\E j \in 1 .. Len(outputRequests) : outputRequests[j] = [kind |-> "bind",
                                                                   value |-> live])
           => outputBound' \/ \E j \in 1 .. Len(outputRequests') :
                                  outputRequests'[j] = [kind |-> "bind", value |-> live]
      /\ (\E j \in 1 .. Len(outputRequests) : outputRequests[j] = [kind |-> "get",
                                                                   value |-> live])
           => r = [kind |-> "get", value |-> live]
              \/ \E j \in 1 .. Len(outputRequests') : outputRequests'[j] = [kind |-> "get",
                                                                            value |-> live]
  BY <1>1, <1>2, <1>3, RequestTaken
<1>5. PICK g : Told(outputEvents, ClientView, g, made) /\ Ready(g)
  BY DEF OutputInv, EventsTold
<1>6. ClientView' = ClientView
  BY <1>1 DEF ClientView
<1>7. outputEvents \in Seq(OutputMessages) /\ g.version = version /\ g.number = live
  BY <1>1, <1>5 DEF OutputTypes, Ready
<1>8. /\ outputEvents' \in Seq(OutputMessages) /\ EventsTold'
      /\ xdgBound => xdgBound'
      /\ xdgBound' => outputBound' /\ xdgOutput'
      /\ r = [kind |-> "get", value |-> live] => xdgBound' \/ outputFault'
  <2>1. CASE Outs!HandleBind(r) /\ r.value # live
    <3>1. outputEvents' = outputEvents \o <<>> /\ UNCHANGED xdgBound
          /\ (outputBound' <=> outputBound) /\ r.kind # "get"
      BY <2>1 DEF Outs!HandleBind, Outs!If
    <3>2. outputEvents' = outputEvents
      BY <1>7, <3>1, ConcatEmpty
    <3>3. Ready(g)'
      BY <1>1, <1>5, <3>1 DEF Ready
    <3> QED
      BY <1>1, <1>5, <1>6, <1>7, <3>1, <3>2, <3>3 DEF EventsTold, OutputLives
  <2>2. CASE Outs!HandleBind(r) /\ r.value = live
    <3>1. PICK q, h :
            /\ q = Outs!BindEvents /\ q \in Seq(OutputMessages) /\ Told(q, g, h, made)
            /\ h.version = version /\ h.number = live /\ Showing(h, published)
            /\ IF xdgBound
                 THEN LogicalOf(h, h.logical, published) /\ LogicalOf(h, h.shown, published)
                 ELSE h.logical = Outs!Unknown
      BY <1>1, <1>5, BindTold
    <3>2. outputEvents' = outputEvents \o q /\ UNCHANGED xdgBound /\ outputBound'
          /\ r.kind # "get"
      BY <2>2, <3>1 DEF Outs!HandleBind, Outs!If
    <3>3. outputEvents \o q \in Seq(OutputMessages)
          /\ Told(outputEvents \o q, ClientView, h, made)
      <4>1. q \in Seq(OutputMessages) /\ Told(q, g, h, made)
        BY <3>1
      <4> QED
        BY <1>5, <1>7, <4>1, ToldBoth
    <3>4. Ready(h)'
      BY <1>1, <3>1, <3>2 DEF Ready, Showing, LogicalOf
    <3> QED
      BY <1>1, <1>6, <3>2, <3>3, <3>4 DEF EventsTold, OutputLives
  <2>3. CASE Outs!HandleGetXdgOutput(r) /\ (r.value # live \/ ~xdgOutput)
    <3>1. UNCHANGED <<outputEvents, xdgBound, outputBound>> /\ (r.value = live => outputFault')
      BY <2>3 DEF Outs!HandleGetXdgOutput
    <3>2. Ready(g)'
      BY <1>1, <1>5, <3>1 DEF Ready
    <3> QED
      BY <1>1, <1>5, <1>6, <1>7, <3>1, <3>2 DEF EventsTold, OutputLives
  <2>4. CASE Outs!HandleGetXdgOutput(r) /\ r.value = live /\ xdgOutput
    <3>1. r = [kind |-> "get", value |-> live]
      BY <1>4, <2>4 DEF Outs!HandleGetXdgOutput, OutputRequest
    <3>2. outputBound
      BY <1>4, <3>1
    <3>3. PICK q, h :
            /\ q = Outs!ConnectEvents /\ q \in Seq(OutputMessages) /\ Told(q, g, h, made)
            /\ h.version = version /\ h.number = live /\ Showing(h, published)
            /\ LogicalOf(h, h.logical, published) /\ LogicalOf(h, h.shown, published)
      BY <1>1, <1>5, <3>2, ConnectTold
    <3>4. outputEvents' = outputEvents \o q /\ xdgBound' /\ outputBound' = outputBound
      BY <2>4, <3>3 DEF Outs!HandleGetXdgOutput
    <3>5. outputEvents \o q \in Seq(OutputMessages)
          /\ Told(outputEvents \o q, ClientView, h, made)
      <4>1. q \in Seq(OutputMessages) /\ Told(q, g, h, made)
        BY <3>3
      <4> QED
        BY <1>5, <1>7, <4>1, ToldBoth
    <3>6. Ready(h)'
      BY <1>1, <3>3, <3>4 DEF Ready, Showing, LogicalOf
    <3> QED
      BY <1>1, <1>6, <2>4, <3>2, <3>4, <3>5, <3>6 DEF EventsTold
  <2> QED
    BY <1>2, <2>1, <2>2, <2>3, <2>4
<1>9. OutputTypes'
  BY <1>1, <1>4, <1>8 DEF OutputTypes
<1>10. OutputLives'
  <2>1. outputBound' => live # 0
    BY <1>1, <1>3, <1>4 DEF OutputLives
  <2> QED
    BY <1>1, <1>8, <2>1 DEF OutputLives
<1>11. BindAsked'
  BY <1>1, <1>3, <1>4 DEF OutputInv, BindAsked
<1>12. LogicalAsked'
  BY <1>1, <1>4, <1>8 DEF OutputInv, LogicalAsked
<1>13. OneCurrent'
  BY <1>1 DEF OutputInv, OneCurrent
<1> QED
  BY <1>4, <1>8, <1>9, <1>10, <1>11, <1>12, <1>13 DEF OutputInv

(* A request is sent.                                                      *)
LEMMA RequestSent ==
  ASSUME OutputInv, NEW r \in OutputRequest, r.value \in 1 .. made,
         outputRequests' = Append(outputRequests, r),
         UNCHANGED <<live, made, outputBound>>,
         r = [kind |-> "get", value |-> live] =>
           outputBound \/ \E j \in 1 .. Len(outputRequests) :
                              outputRequests[j] = [kind |-> "bind", value |-> live]
  PROVE  /\ outputRequests' \in Seq(OutputRequest) /\ BindFirst'
         /\ \A v : (\E j \in 1 .. Len(outputRequests) : outputRequests[j] = v) \/ v = r
                     => \E j \in 1 .. Len(outputRequests') : outputRequests'[j] = v
<1>1. /\ outputRequests \in Seq(OutputRequest) /\ Len(outputRequests) \in Nat
      /\ outputRequests' \in Seq(OutputRequest) /\ Len(outputRequests') = Len(outputRequests) + 1
      /\ \A i \in 1 .. Len(outputRequests) : outputRequests'[i] = outputRequests[i]
      /\ outputRequests'[Len(outputRequests) + 1] = r
  <2>1. outputRequests \in Seq(OutputRequest)
    BY DEF OutputInv, OutputTypes
  <2> QED
    BY <2>1, AppendProperties, LenProperties
<1>2. BindFirst'
  <2> SUFFICES ASSUME NEW i \in 1 .. Len(outputRequests) + 1
               PROVE  /\ outputRequests'[i].value \in 1 .. made
                      /\ outputRequests'[i] = [kind |-> "get", value |-> live] =>
                           outputBound \/ \E j \in 1 .. i - 1 :
                                              outputRequests'[j] = [kind |-> "bind",
                                                                    value |-> live]
    BY <1>1 DEF BindFirst
  <2>1. CASE i \in 1 .. Len(outputRequests)
    <3>1. /\ outputRequests[i].value \in 1 .. made
          /\ outputRequests[i] = [kind |-> "get", value |-> live] =>
               outputBound \/ \E j \in 1 .. i - 1 : outputRequests[j] = [kind |-> "bind",
                                                                         value |-> live]
      BY <2>1 DEF OutputInv, BindFirst
    <3>2. \A j \in 1 .. i - 1 : outputRequests'[j] = outputRequests[j]
      BY <1>1, <2>1
    <3> QED
      BY <1>1, <2>1, <3>1, <3>2
  <2>2. CASE i = Len(outputRequests) + 1
    <3>1. outputRequests'[i] = r /\ i - 1 = Len(outputRequests)
      BY <1>1, <2>2
    <3> QED
      BY <1>1, <3>1
  <2> QED
    BY <1>1, <2>1, <2>2
<1>3. ASSUME NEW v, (\E j \in 1 .. Len(outputRequests) : outputRequests[j] = v) \/ v = r
      PROVE  \E j \in 1 .. Len(outputRequests') : outputRequests'[j] = v
  <2>1. ASSUME NEW j \in 1 .. Len(outputRequests), outputRequests[j] = v
        PROVE  j \in 1 .. Len(outputRequests') /\ outputRequests'[j] = v
    BY <1>1, <2>1
  <2>2. Len(outputRequests) + 1 \in 1 .. Len(outputRequests')
    BY <1>1
  <2> QED
    BY <1>1, <1>3, <2>1, <2>2
<1> QED
  BY <1>1, <1>2, <1>3

LEMMA OutputAsks ==
  ASSUME OutputInv, Outs!GetXdgOutput
  PROVE  OutputInv'
<1> DEFINE r == [kind |-> "get", value |-> output.number]
<1>1. /\ output.number # 0 /\ outputAsked' = TRUE /\ outputRequests' = Append(outputRequests, r)
      /\ UNCHANGED <<modes, pending, published, live, made, xdgManager, xdgOutput, outputBound,
                     xdgBound, outputEvents,
                     version, output, xdgPending, xdgCurrent, outputFault>>
  BY DEF Outs!GetXdgOutput, Outs!stateVars, Outs!globalVars
<1>2. OutputTypes /\ OutputLives /\ BindAsked
  BY DEF OutputInv
<1>3. output.number \in 1 .. made /\ r \in OutputRequest /\ r.value \in 1 .. made
  BY <1>1, <1>2 DEF OutputLives, OutputTypes, OutputRequest
<1>4. r = [kind |-> "get", value |-> live] =>
        outputBound \/ \E j \in 1 .. Len(outputRequests) : outputRequests[j] = [kind |-> "bind",
                                                                                value |-> live]
  BY <1>1, <1>2 DEF BindAsked
<1>5. PICK q : q = r
  OBVIOUS
<1> HIDE DEF r
<1>6. /\ outputRequests' \in Seq(OutputRequest) /\ BindFirst'
      /\ \A v : (\E j \in 1 .. Len(outputRequests) : outputRequests[j] = v) \/ v = r
                  => \E j \in 1 .. Len(outputRequests') : outputRequests'[j] = v
  BY <1>1, <1>3, <1>4, RequestSent
<1>7. OutputTypes'
  BY <1>1, <1>2, <1>6 DEF OutputTypes
<1>8. OutputLives'
  BY <1>1, <1>2 DEF OutputLives
<1>9. BindAsked'
  BY <1>1, <1>2, <1>6 DEF BindAsked
<1>10. LogicalAsked'
  BY <1>1, <1>6 DEF LogicalAsked, r
<1>11. OneCurrent'
  BY <1>1 DEF OutputInv, OneCurrent
<1>12. EventsTold'
  <2>1. PICK g : Told(outputEvents, ClientView, g, made) /\ Ready(g)
    BY DEF OutputInv, EventsTold
  <2>2. ClientView' = ClientView
    BY <1>1 DEF ClientView
  <2>3. Ready(g)'
    BY <1>1, <2>1 DEF Ready
  <2> QED
    BY <1>1, <2>1, <2>2, <2>3 DEF EventsTold
<1> QED
  BY <1>6, <1>7, <1>8, <1>9, <1>10, <1>11, <1>12 DEF OutputInv

LEMMA OutputReads ==
  ASSUME Outs!Assumptions, OutputInv, Outs!ReadEvent
  PROVE  OutputInv'
<1>1. PICK e : /\ e = Head(outputEvents)
               /\ \/ Outs!ReadGlobal(e) \/ Outs!ReadGlobalRemoved(e) \/ Outs!ReadOutput(e)
                    \/ Outs!ReadMode(e)
                  \/ Outs!ReadLogical(e) \/ Outs!ReadDone(e)
  BY DEF Outs!ReadEvent
<1>2. /\ outputEvents # <<>> /\ outputEvents' = Tail(outputEvents)
      /\ UNCHANGED <<modes, pending, published, live, made, xdgManager, xdgOutput, outputBound,
                     xdgBound, outputFault>>
      /\ OutputTypes /\ OutputLives /\ OneCurrent
  BY DEF Outs!ReadEvent, Outs!stateVars, Outs!globalVars, OutputInv
<1>3. PICK g : Told(outputEvents, ClientView, g, made) /\ Ready(g)
  BY DEF OutputInv, EventsTold
<1>4. outputEvents \in Seq(OutputMessages) /\ e \in OutputMessages
      /\ outputEvents' \in Seq(OutputMessages)
  <2>1. outputEvents \in Seq(OutputMessages)
    BY <1>2 DEF OutputTypes
  <2> QED
    BY <1>1, <1>2, <2>1, HeadTailProperties
<1>5. Fits(ClientView, e, made) /\ Told(outputEvents', AfterEvent(ClientView, e), g, made)
  BY <1>1, <1>2, <1>3, <1>4, ToldRest
<1>6. /\ version' = version /\ version \in Nat
      /\ output = [number |-> output.number, position |-> output.position, scale |-> output.scale,
                   modes |-> output.modes, current |-> output.current]
      /\ xdgPending = [position |-> xdgPending.position, size |-> xdgPending.size,
                       description |-> xdgPending.description]
  BY <1>1, <1>2 DEF OutputTypes, Outs!ReadGlobal, Outs!ReadGlobalRemoved, Outs!ReadOutput,
     Outs!ReadMode, Outs!ReadLogical, Outs!ReadDone
<1>7. /\ output' = [number |-> output'.number, position |-> output'.position,
                    scale |-> output'.scale,
                    modes |-> output'.modes, current |-> output'.current]
      /\ xdgPending' = [position |-> xdgPending'.position, size |-> xdgPending'.size,
                        description |-> xdgPending'.description]
      /\ ClientView' = AfterEvent(ClientView, e)
  <2>1. CASE Outs!ReadGlobal(e)
    <3>1. /\ output' = [number |-> e.value, position |-> None, scale |-> None, modes |-> {},
                        current |-> None]
          /\ xdgPending' = xdgPending /\ xdgCurrent' = xdgCurrent /\ e.kind = "global"
      BY <2>1 DEF Outs!ReadGlobal, Outs!NoOutput
    <3> QED
      BY <1>6, <3>1 DEF ClientView, AfterEvent, Gone, Reset, OfLogical, Completes
  <2>2. CASE Outs!ReadGlobalRemoved(e)
    <3>1. /\ output' = [number |-> 0, position |-> None, scale |-> None, modes |-> {},
                        current |-> None]
          /\ xdgPending' = Outs!Unknown /\ xdgCurrent' = Outs!Unknown /\ e.kind = "global_removed"
      BY <2>2 DEF Outs!ReadGlobalRemoved, Outs!NoOutput
    <3> QED
      BY <1>6, <3>1 DEF ClientView, AfterEvent, Gone, Reset, OfLogical, Completes, Outs!Unknown
  <2>3. CASE Outs!ReadOutput(e)
    <3>1. CASE e.kind = "geometry"
      <4>1. /\ output' = [number |-> output.number, position |-> e.value, scale |-> output.scale,
                          modes |-> output.modes, current |-> output.current]
            /\ xdgPending' = xdgPending /\ xdgCurrent' = xdgCurrent
        BY <1>6, <2>3, <3>1 DEF Outs!ReadOutput
      <4> QED
        BY <1>6, <3>1, <4>1 DEF ClientView, AfterEvent, Gone, Reset, OfLogical, Completes
    <3>2. CASE e.kind = "scale"
      <4>1. /\ output' = [number |-> output.number, position |-> output.position,
                          scale |-> e.value,
                          modes |-> output.modes, current |-> output.current]
            /\ xdgPending' = xdgPending /\ xdgCurrent' = xdgCurrent
        BY <1>6, <2>3, <3>2 DEF Outs!ReadOutput
      <4> QED
        BY <1>6, <3>2, <4>1 DEF ClientView, AfterEvent, Gone, Reset, OfLogical, Completes
    <3> QED
      BY <2>3, <3>1, <3>2 DEF Outs!ReadOutput
  <2>4. CASE Outs!ReadMode(e)
    <3>1. /\ output' = [number |-> output.number, position |-> output.position,
                        scale |-> output.scale,
                        modes |-> output'.modes,
                        current |-> IF e.value.current THEN e.value.mode ELSE output.current]
          /\ xdgPending' = xdgPending /\ xdgCurrent' = xdgCurrent /\ e.kind = "mode"
      BY <1>6, <2>4 DEF Outs!ReadMode
    <3> QED
      BY <1>6, <3>1 DEF ClientView, AfterEvent, Gone, Reset, OfLogical, Completes
  <2>5. CASE Outs!ReadLogical(e)
    <3>1. /\ output' = output /\ xdgCurrent' = xdgCurrent
          /\ e.kind \in {"logical_position", "logical_size", "description"}
          /\ xdgPending' = AfterLogical(xdgPending, e)
      BY <1>6, <2>5 DEF Outs!ReadLogical, AfterLogical
    <3>2. xdgPending' = [position |-> xdgPending'.position, size |-> xdgPending'.size,
                         description |-> xdgPending'.description]
      BY <3>1 DEF AfterLogical
    <3> QED
      BY <1>6, <3>1, <3>2 DEF ClientView, AfterEvent, Gone, Reset, OfLogical, Completes
  <2>6. CASE Outs!ReadDone(e)
    <3>1. /\ output' = output /\ xdgPending' = xdgPending /\ e.kind \in {"done", "logical_done"}
          /\ xdgCurrent'
               = IF e.kind = "logical_done" \/ version >= 3 THEN xdgPending ELSE xdgCurrent
      BY <1>6, <2>6 DEF Outs!ReadDone
    <3> QED
      BY <1>6, <3>1 DEF ClientView, AfterEvent, Gone, Reset, OfLogical, Completes
  <2> QED
    BY <1>1, <2>1, <2>2, <2>3, <2>4, <2>5, <2>6
<1>8. EventsTold'
  <2>1. Ready(g)'
    BY <1>2, <1>3, <1>6 DEF Ready
  <2> QED
    BY <1>2, <1>5, <1>7, <2>1 DEF EventsTold
<1>9. OneCurrent'
  <2>1. CASE Outs!ReadMode(e)
    <3>1. e.value \in ModeValue
      BY <1>5, <2>1 DEF Outs!ReadMode, Fits
    <3>2. None \notin Mode
      BY DEF Outs!Assumptions
    <3>3. CASE e.value.current
      <4>1. output'.modes = Outs!Others(e.value) \cup {e.value} /\ output'.current = e.value.mode
        BY <1>6, <2>1, <3>3 DEF Outs!ReadMode
      <4>2. e.value = [mode |-> e.value.mode, current |-> TRUE] /\ e.value.mode \in Mode
        BY <3>1, <3>3 DEF ModeValue
      <4>3. Outs!Others(e.value) \subseteq ModeValue /\ \A k \in Outs!Others(e.value) : ~k.current
        <5> SUFFICES ASSUME NEW k \in Outs!Others(e.value) PROVE k \in ModeValue /\ ~k.current
          OBVIOUS
        <5>1. PICK l \in output.modes : k = [mode |-> l.mode, current |-> FALSE]
          BY DEF Outs!Others
        <5>2. l.mode \in Mode
          BY <1>2, <5>1 DEF OneCurrent, ModeValue
        <5> QED
          BY <5>1, <5>2 DEF ModeValue
      <4>4. {k \in output'.modes : k.current} = {e.value}
        BY <3>3, <4>1, <4>3
      <4>5. output'.modes \subseteq ModeValue
        BY <3>1, <4>1, <4>3
      <4> QED
        BY <3>2, <4>1, <4>2, <4>4, <4>5 DEF OneCurrent
    <3>4. CASE ~e.value.current
      <4>1. output'.modes = output.modes \cup {e.value} /\ output'.current = output.current
        BY <1>6, <2>1, <3>4 DEF Outs!ReadMode
      <4>2. {k \in output'.modes : k.current} = {k \in output.modes : k.current}
        BY <3>4, <4>1
      <4>3. output'.modes \subseteq ModeValue
        BY <1>2, <3>1, <4>1 DEF OneCurrent
      <4> QED
        BY <1>2, <4>1, <4>2, <4>3 DEF OneCurrent
    <3> QED
      BY <3>3, <3>4
  <2>2. CASE Outs!ReadGlobal(e) \/ Outs!ReadGlobalRemoved(e)
    <3>1. output'.modes = {} /\ output'.current = None
      BY <2>2 DEF Outs!ReadGlobal, Outs!ReadGlobalRemoved, Outs!NoOutput
    <3> QED
      BY <3>1 DEF OneCurrent
  <2>3. CASE Outs!ReadOutput(e) \/ Outs!ReadLogical(e) \/ Outs!ReadDone(e)
    <3>1. output'.modes = output.modes /\ output'.current = output.current
      BY <1>6, <2>3 DEF Outs!ReadOutput, Outs!ReadLogical, Outs!ReadDone
    <3> QED
      BY <1>2, <3>1 DEF OneCurrent
  <2> QED
    BY <1>1, <2>1, <2>2, <2>3
<1>10. CASE Outs!ReadGlobal(e)
  <2> DEFINE r == [kind |-> "bind", value |-> e.value]
  <2>1. /\ e.kind = "global" /\ output'.number = e.value
        /\ outputRequests' = Append(outputRequests, r)
        /\ UNCHANGED outputAsked
    BY <1>10 DEF Outs!ReadGlobal, Outs!NoOutput
  <2>2. output.number = 0 /\ e.value \in 1 .. made /\ ~outputAsked
    BY <1>2, <1>5, <2>1 DEF Fits, ClientView, OutputLives
  <2>3. r \in OutputRequest /\ r.value \in 1 .. made /\ r # [kind |-> "get", value |-> live]
    BY <1>2, <2>2 DEF OutputRequest, OutputTypes
  <2> HIDE DEF r
  <2>4. /\ outputRequests' \in Seq(OutputRequest) /\ BindFirst'
        /\ \A v : (\E j \in 1 .. Len(outputRequests) : outputRequests[j] = v) \/ v = r
                    => \E j \in 1 .. Len(outputRequests') : outputRequests'[j] = v
    BY <1>2, <2>1, <2>3, RequestSent
  <2>5. OutputTypes'
    BY <1>2, <1>4, <1>6, <1>7, <2>4 DEF OutputTypes
  <2>6. OutputLives'
    BY <1>2, <2>1, <2>2 DEF OutputLives, OutputTypes
  <2>7. BindAsked'
    BY <1>2, <2>1, <2>4 DEF BindAsked, r
  <2>8. LogicalAsked'
    BY <2>1, <2>2 DEF LogicalAsked
  <2> QED
    BY <1>8, <1>9, <2>4, <2>5, <2>6, <2>7, <2>8 DEF OutputInv
<1>11. CASE Outs!ReadGlobalRemoved(e)
  <2>1. output'.number = 0 /\ outputAsked' = FALSE /\ UNCHANGED outputRequests
    BY <1>11 DEF Outs!ReadGlobalRemoved, Outs!NoOutput
  <2>2. OutputTypes'
    BY <1>2, <1>4, <1>6, <1>7, <2>1 DEF OutputTypes
  <2>3. OutputLives'
    BY <1>2, <2>1 DEF OutputLives, OutputTypes
  <2>4. BindFirst'
    BY <1>2, <2>1 DEF OutputInv, BindFirst
  <2>5. BindAsked' /\ LogicalAsked'
    BY <1>2, <2>1 DEF BindAsked, LogicalAsked
  <2> QED
    BY <1>8, <1>9, <2>2, <2>3, <2>4, <2>5 DEF OutputInv
<1>12. CASE Outs!ReadOutput(e) \/ Outs!ReadMode(e) \/ Outs!ReadLogical(e) \/ Outs!ReadDone(e)
  <2>1. output'.number = output.number /\ UNCHANGED <<outputAsked, outputRequests>>
    <3>1. CASE Outs!ReadOutput(e)
      BY <1>6, <3>1 DEF Outs!ReadOutput
    <3>2. CASE Outs!ReadMode(e)
      BY <1>6, <3>2 DEF Outs!ReadMode
    <3>3. CASE Outs!ReadLogical(e) \/ Outs!ReadDone(e)
      BY <3>3 DEF Outs!ReadLogical, Outs!ReadDone
    <3> QED
      BY <1>12, <3>1, <3>2, <3>3
  <2>2. OutputTypes'
    BY <1>2, <1>4, <1>6, <1>7, <2>1 DEF OutputTypes
  <2>3. OutputLives'
    BY <1>2, <2>1 DEF OutputLives
  <2>4. BindFirst' /\ BindAsked' /\ LogicalAsked'
    BY <1>2, <2>1 DEF OutputInv, BindFirst, BindAsked, LogicalAsked
  <2> QED
    BY <1>8, <1>9, <2>2, <2>3, <2>4 DEF OutputInv
<1> QED
  BY <1>1, <1>10, <1>11, <1>12

LEMMA OutputNext == Outs!Assumptions /\ OutputInv /\ [Outs!Next]_(Outs!vars) => OutputInv'
<1> SUFFICES ASSUME Outs!Assumptions, OutputInv, [Outs!Next]_(Outs!vars) PROVE OutputInv'
  OBVIOUS
<1>1. CASE \/ \E b \in BOOLEAN, p \in Position, s \in LogicalSize, m \in Mode :
                  Outs!SetState(b, p, s, m)
           \/ \E d \in Description : Outs!SetMetadata(d)
           \/ \E m \in Mode : Outs!AddMode(m)
           \/ Outs!CreateXdgManager
           \/ UNCHANGED Outs!vars
  BY <1>1, OutputPrepared
<1>2. CASE Outs!Done
  BY <1>2, OutputDone
<1>3. CASE Outs!HandleRequest
  BY <1>3, OutputHandles
<1>4. CASE Outs!ReadEvent
  BY <1>4, OutputReads
<1>5. CASE Outs!GetXdgOutput
  BY <1>5, OutputAsks
<1> QED
  BY <1>1, <1>2, <1>3, <1>4, <1>5 DEF Outs!Next

(* The events that end an update come when the client has its state whole; *)
(* with nothing under way it has what is published.                        *)
LEMMA OutputWhole == OutputInv => Outs!DoneIsWhole
<1> SUFFICES ASSUME OutputInv, outputEvents # <<>>, Head(outputEvents).kind \in {"done",
                    "logical_done"}
             PROVE  /\ Outs!OutputShows(Head(outputEvents).value)
                    /\ xdgPending # Outs!Unknown => Outs!LogicalShows(xdgPending,
                                                                      Head(outputEvents).value)
  BY DEF Outs!DoneIsWhole
<1>1. PICK g : Told(outputEvents, ClientView, g, made)
  BY DEF OutputInv, EventsTold
<1>2. outputEvents \in Seq(OutputMessages)
  BY DEF OutputInv, OutputTypes
<1>3. Whole(ClientView, Head(outputEvents).value)
  <2>1. Fits(ClientView, Head(outputEvents), made)
    BY <1>1, <1>2, ToldRest
  <2> QED
    BY <2>1 DEF Fits
<1> QED
  BY <1>3 DEF Whole, ClientView, Showing, LogicalOf, Outs!OutputShows, Outs!LogicalShows

LEMMA OutputAgrees == Outs!Assumptions /\ OutputInv => Outs!OutputMirrored
<1> SUFFICES ASSUME Outs!Assumptions, OutputInv, outputEvents = <<>>, outputRequests = <<>>,
                    ~outputFault
             PROVE  /\ output.number = live
                    /\ live # 0 => /\ Outs!OutputShows(published)
                                   /\ {k \in output.modes : k.current}
                                        = {[mode |-> output.current, current |-> TRUE]}
                    /\ live # 0 /\ outputAsked => Outs!LogicalShows(xdgCurrent, published)
  BY DEF Outs!OutputMirrored
<1>1. PICK g : Told(outputEvents, ClientView, g, made) /\ Ready(g)
  BY DEF OutputInv, EventsTold
<1>2. g = ClientView
  BY <1>1 DEF Told, Replays
<1>3. output.number = live
  BY <1>1, <1>2 DEF Ready, ClientView
<1>4. ASSUME live # 0 PROVE outputBound
  BY <1>3, <1>4 DEF OutputInv, BindAsked
<1>5. ASSUME live # 0 PROVE Outs!OutputShows(published)
  BY <1>1, <1>2, <1>4, <1>5 DEF Ready, ClientView, Showing, Outs!OutputShows
<1>6. ASSUME live # 0
      PROVE  {k \in output.modes : k.current} = {[mode |-> output.current, current |-> TRUE]}
  <2>1. published.mode \in Mode /\ None \notin Mode
    BY DEF OutputInv, OutputTypes, Outs!State, Outs!Assumptions
  <2>2. output.current # None
    BY <1>5, <1>6, <2>1 DEF Outs!OutputShows
  <2> QED
    BY <2>2 DEF OutputInv, OneCurrent
<1>7. ASSUME live # 0, outputAsked PROVE Outs!LogicalShows(xdgCurrent, published)
  <2>1. xdgBound
    BY <1>3, <1>7 DEF OutputInv, LogicalAsked
  <2> QED
    BY <1>1, <1>2, <2>1 DEF Ready, ClientView, LogicalOf, Outs!LogicalShows
<1> QED
  BY <1>3, <1>5, <1>6, <1>7

(* A client is told that an update is complete only when it has exactly    *)
(* what was published, for any number of modes, changes and clients'       *)
(* requests between them (output.cpp:104-137, wl_output.cpp:66-140,        *)
(* xdg_output.cpp:93-160).                                                 *)
THEOREM DoneIsWholeCorrect ==
  ASSUME Outs!Assumptions
  PROVE  Outs!Spec => []DoneIsWhole
<1>1. Outs!Init => OutputInv
  BY OutputInit
<1>2. OutputInv /\ [Outs!Next]_(Outs!vars) => OutputInv'
  BY OutputNext
<1>3. OutputInv => DoneIsWhole
  BY OutputWhole DEF DoneIsWhole
<1> QED
  BY <1>1, <1>2, <1>3, PTL DEF Outs!Spec
=============================================================================
