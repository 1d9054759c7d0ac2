----------------------------- MODULE SjfsProofs ------------------------------
(***************************************************************************)
(* What the operations of the file system return and leave behind, for     *)
(* every size of the table and of its files, and how the end of a file     *)
(* behaves when more is written than fits.                                 *)
(***************************************************************************)
EXTENDS Sjfs, SequenceTheorems, WellFoundedInduction, TLAPS

(* A store whose paths are in P and whose files hold units of U.           *)
Entry(P, U) == [used : BOOLEAN, path : P, data : Seq(U)]
Store(P, U) == [valid : BOOLEAN, entries : [FileId -> Entry(P, U)]]

(* FileId is not empty and holds no negative number.                       *)
LEMMA FileIds == /\ 0 \in FileId
                 /\ \A f \in FileId : f \in Nat
                 /\ NoFile \notin FileId
<1> SJFS_MAX_FILES \in Nat /\ SJFS_MAX_FILES >= 1
  BY SjfsAssumption
<1> QED
  BY DEF FileId, NoFile

(* The loops of sjfs_open and sjfs_create find the first index there is,   *)
(* and -1 only if there is none.                                           *)
LEMMA LowestIsFirst ==
    ASSUME NEW S \in SUBSET FileId
    PROVE  /\ S = {} => Lowest(S) = NoFile
           /\ S # {} => Lowest(S) \in S /\ \A g \in S : Lowest(S) <= g
<1>1. CASE S = {}
  BY <1>1 DEF Lowest
<1>2. CASE S # {}
  <2> \A f \in S : f \in Nat
    BY FileIds
  <2>1. PICK x \in S : \A y \in S : ~ (<<y, x>> \in OpToRel(<, Nat))
    <3> S \subseteq Nat
      OBVIOUS
    <3> HIDE DEF FileId
    <3> QED
      BY <1>2, WFMin, NatLessThanWellFounded
  <2>2. \A y \in S : x <= y
    <3> SUFFICES ASSUME NEW y \in S, ~ (x <= y) PROVE FALSE
      OBVIOUS
    <3>1. y \in Nat /\ x \in Nat /\ y < x
      OBVIOUS
    <3>2. <<y, x>> \in OpToRel(<, Nat)
      BY <3>1 DEF OpToRel
    <3> QED
      BY <2>1, <3>2
  <2>3. \E f \in S : \A g \in S : f <= g
    BY <2>2
  <2> QED
    BY <1>2, <2>3 DEF Lowest
<1> QED
  BY <1>1, <1>2

(* sjfs_open: -1 exactly when no entry in use has that path, else one.     *)
LEMMA OpenFinds ==
    ASSUME NEW fs, NEW path
    PROVE  \/ /\ SjfsOpen(fs, path) = NoFile
              /\ \A f \in FileId : ~ (fs.entries[f].used /\ fs.entries[f].path = path)
           \/ /\ SjfsOpen(fs, path) \in FileId
              /\ fs.entries[SjfsOpen(fs, path)].used
              /\ fs.entries[SjfsOpen(fs, path)].path = path
<1> DEFINE S == {f \in FileId : fs.entries[f].used /\ fs.entries[f].path = path}
<1>1. SjfsOpen(fs, path) = Lowest(S) /\ S \in SUBSET FileId
  BY DEF SjfsOpen
<1>2. \A f \in FileId : f \in S <=> fs.entries[f].used /\ fs.entries[f].path = path
  OBVIOUS
<1> HIDE DEF S
<1> QED
  BY <1>1, <1>2, LowestIsFirst

(* sjfs_create's search: -1 exactly when every entry is in use, else the   *)
(* first that is not.                                                      *)
LEMMA FreeFinds ==
    ASSUME NEW fs
    PROVE  \/ /\ SjfsFree(fs) = NoFile
              /\ \A f \in FileId : fs.entries[f].used
           \/ /\ SjfsFree(fs) \in FileId
              /\ ~ fs.entries[SjfsFree(fs)].used
              /\ \A g \in FileId : ~ fs.entries[g].used => SjfsFree(fs) <= g
<1> DEFINE S == {f \in FileId : ~ fs.entries[f].used}
<1>1. SjfsFree(fs) = Lowest(S) /\ S \in SUBSET FileId
  BY DEF SjfsFree
<1>2. \A f \in FileId : f \in S <=> ~ fs.entries[f].used
  OBVIOUS
<1> HIDE DEF S
<1> QED
  BY <1>1, <1>2, LowestIsFirst

(* sjfs_create fills the free entry it found and leaves the others alone.  *)
LEMMA CreateEffect ==
    ASSUME NEW P, NEW U, NEW fs \in Store(P, U), NEW path \in P,
           SjfsFree(fs) \in FileId
    PROVE  /\ SjfsCreate(fs, path) \in Store(P, U)
           /\ SjfsCreate(fs, path).valid = fs.valid
           /\ \A f \in FileId : SjfsCreate(fs, path).entries[f] =
                 IF f = SjfsFree(fs) THEN [used |-> TRUE, path |-> path, data |-> <<>>]
                 ELSE fs.entries[f]
<1> DEFINE i == SjfsFree(fs)
           e == [used |-> TRUE, path |-> path, data |-> <<>>]
<1>1. SjfsCreate(fs, path) = [fs EXCEPT !.entries[i] = e]
  BY FileIds DEF SjfsCreate
<1>2. e \in Entry(P, U)
  BY DEF Entry
<1> HIDE DEF i, e
<1>3. i \in FileId
  BY DEF i
<1> QED
  BY <1>1, <1>2, <1>3 DEF Store, e, i

(* sjfs_write changes the content of one file.                             *)
LEMMA WriteEffect ==
    ASSUME NEW P, NEW U, NEW fs \in Store(P, U), NEW i \in FileId, NEW units
    PROVE  /\ SjfsWrite(fs, i, units).valid = fs.valid
           /\ \A f \in FileId : SjfsWrite(fs, i, units).entries[f] =
                 IF f = i
                 THEN [used |-> fs.entries[i].used, path |-> fs.entries[i].path,
                       data |-> fs.entries[i].data \o
                          Take(units, SJFS_FILE_UNITS - Len(fs.entries[i].data))]
                 ELSE fs.entries[f]
           /\ fs.entries[i].data \o Take(units, SJFS_FILE_UNITS - Len(fs.entries[i].data))
                 \in Seq(U) => SjfsWrite(fs, i, units) \in Store(P, U)
<1> DEFINE d == fs.entries[i].data \o Take(units, SJFS_FILE_UNITS - Len(fs.entries[i].data))
<1>1. SjfsWrite(fs, i, units) = [fs EXCEPT !.entries[i].data = d]
  BY DEF SjfsWrite
<1> HIDE DEF d
<1>2. fs \in [valid : BOOLEAN, entries : [FileId -> [used : BOOLEAN, path : P, data : Seq(U)]]]
  BY DEF Store, Entry
<1>3. SjfsWrite(fs, i, units).entries = [fs.entries EXCEPT ![i].data = d]
  BY <1>1, <1>2
<1>4. \A f \in FileId : SjfsWrite(fs, i, units).entries[f] =
         IF f = i THEN [used |-> fs.entries[i].used, path |-> fs.entries[i].path, data |-> d]
         ELSE fs.entries[f]
  BY <1>2, <1>3
<1>5. ASSUME d \in Seq(U) PROVE SjfsWrite(fs, i, units) \in Store(P, U)
  <2>1. SjfsWrite(fs, i, units) =
           [valid |-> fs.valid, entries |-> [fs.entries EXCEPT ![i].data = d]]
    BY <1>1, <1>2
  <2>2. [fs.entries EXCEPT ![i].data = d] \in [FileId -> [used : BOOLEAN, path : P, data : Seq(U)]]
    BY <1>2, <1>5
  <2> QED
    BY <1>2, <2>1, <2>2 DEF Store, Entry
<1> QED
  BY <1>1, <1>2, <1>4, <1>5 DEF d

(* sjfs_rename changes the path of one file.                               *)
LEMMA RenameEffect ==
    ASSUME NEW P, NEW U, NEW fs \in Store(P, U), NEW old, NEW new \in P,
           SjfsOpen(fs, old) \in FileId
    PROVE  /\ SjfsRename(fs, old, new) \in Store(P, U)
           /\ SjfsRename(fs, old, new).valid = fs.valid
           /\ \A f \in FileId : SjfsRename(fs, old, new).entries[f] =
                 IF f = SjfsOpen(fs, old)
                 THEN [used |-> fs.entries[f].used, path |-> new,
                       data |-> fs.entries[f].data]
                 ELSE fs.entries[f]
<1> DEFINE i == SjfsOpen(fs, old)
<1>1. SjfsRename(fs, old, new) = [fs EXCEPT !.entries[i].path = new]
  BY FileIds DEF SjfsRename
<1> HIDE DEF i
<1>2. fs \in [valid : BOOLEAN, entries : [FileId -> [used : BOOLEAN, path : P, data : Seq(U)]]]
  BY DEF Store, Entry
<1>3. i \in FileId
  BY DEF i
<1>4. SjfsRename(fs, old, new).entries = [fs.entries EXCEPT ![i].path = new]
  BY <1>1, <1>2
<1>5. \A f \in FileId : SjfsRename(fs, old, new).entries[f] =
         IF f = i THEN [used |-> fs.entries[f].used, path |-> new, data |-> fs.entries[f].data]
         ELSE fs.entries[f]
  BY <1>2, <1>3, <1>4
<1>6. SjfsRename(fs, old, new) \in Store(P, U)
  <2>1. [fs.entries EXCEPT ![i].path = new]
          \in [FileId -> [used : BOOLEAN, path : P, data : Seq(U)]]
    BY <1>2, <1>3
  <2>2. SjfsRename(fs, old, new)
          = [valid |-> fs.valid, entries |-> [fs.entries EXCEPT ![i].path = new]]
    BY <1>1, <1>2
  <2> QED
    BY <1>2, <2>1, <2>2 DEF Store, Entry
<1> QED
  BY <1>1, <1>2, <1>5, <1>6 DEF i

-----------------------------------------------------------------------------
(* Take(s, n) is the beginning of s, of the length asked for if s has it.  *)
LEMMA TakeIsPrefix ==
    ASSUME NEW U, NEW s \in Seq(U), NEW n \in Nat
    PROVE  /\ Take(s, n) \in Seq(U)
           /\ Len(Take(s, n)) = IF Len(s) <= n THEN Len(s) ELSE n
           /\ \A k \in 1 .. Len(Take(s, n)) : Take(s, n)[k] = s[k]
<1> DEFINE m == IF Len(s) <= n THEN Len(s) ELSE n
<1>1. m \in Nat /\ m <= Len(s) /\ Len(s) \in Nat
  OBVIOUS
<1>2. Take(s, n) = SubSeq(s, 1, m)
  BY DEF Take
<1> HIDE DEF m
<1>3. \A k \in 1 .. m : s[k] \in U
  BY <1>1, ElementOfSeq
<1>4. /\ SubSeq(s, 1, m) \in Seq(U)
      /\ Len(SubSeq(s, 1, m)) = IF 1 <= m THEN m - 1 + 1 ELSE 0
      /\ \A k \in 1 .. m - 1 + 1 : SubSeq(s, 1, m)[k] = s[1 + k - 1]
  <2> 1 \in Int /\ m \in Int
    BY <1>1
  <2> QED
    BY <1>3, SubSeqProperties
<1>5. Len(Take(s, n)) = m
  BY <1>1, <1>2, <1>4
<1>6. \A k \in 1 .. m : Take(s, n)[k] = s[k]
  <2> SUFFICES ASSUME NEW k \in 1 .. m PROVE SubSeq(s, 1, m)[k] = s[k]
    BY <1>2
  <2> k \in 1 .. m - 1 + 1 /\ 1 + k - 1 = k
    BY <1>1
  <2> QED
    BY <1>4
<1> QED
  BY <1>2, <1>4, <1>5, <1>6 DEF m
(* Writing to a file that holds what fits of h leaves what fits of h and   *)
(* the new units together.                                                 *)
LEMMA TakeOfAppend ==
    ASSUME NEW U, NEW h \in Seq(U), NEW u \in Seq(U), NEW n \in Nat
    PROVE  Take(h, n) \o Take(u, n - Len(Take(h, n))) = Take(h \o u, n)
<1> DEFINE d == Take(h, n)
           e == Take(u, n - Len(d))
           t == Take(h \o u, n)
<1>1. /\ d \in Seq(U) /\ Len(d) = (IF Len(h) <= n THEN Len(h) ELSE n)
      /\ \A k \in 1 .. Len(d) : d[k] = h[k]
  BY TakeIsPrefix
<1>2. Len(h) \in Nat /\ Len(u) \in Nat /\ n - Len(d) \in Nat
  BY <1>1
<1>3. /\ e \in Seq(U)
      /\ Len(e) = (IF Len(u) <= n - Len(d) THEN Len(u) ELSE n - Len(d))
      /\ \A k \in 1 .. Len(e) : e[k] = u[k]
  <2> DEFINE m == n - Len(d)
  <2> m \in Nat
    BY <1>2
  <2> HIDE DEF m
  <2>1. /\ Take(u, m) \in Seq(U)
        /\ Len(Take(u, m)) = (IF Len(u) <= m THEN Len(u) ELSE m)
        /\ \A k \in 1 .. Len(Take(u, m)) : Take(u, m)[k] = u[k]
    BY TakeIsPrefix
  <2> QED
    BY <2>1 DEF m
<1>4. /\ h \o u \in Seq(U) /\ Len(h \o u) = Len(h) + Len(u)
      /\ \A k \in 1 .. Len(h) + Len(u) :
            (h \o u)[k] = IF k <= Len(h) THEN h[k] ELSE u[k - Len(h)]
  BY ConcatProperties
<1>5. /\ t \in Seq(U)
      /\ Len(t) = (IF Len(h \o u) <= n THEN Len(h \o u) ELSE n)
      /\ \A k \in 1 .. Len(t) : t[k] = (h \o u)[k]
  BY <1>4, TakeIsPrefix
<1> HIDE DEF d, e, t
<1>6. /\ d \o e \in Seq(U) /\ Len(d \o e) = Len(d) + Len(e)
      /\ \A k \in 1 .. Len(d) + Len(e) :
            (d \o e)[k] = IF k <= Len(d) THEN d[k] ELSE e[k - Len(d)]
  BY <1>1, <1>3, ConcatProperties
<1>7. Len(d \o e) = Len(t)
  <2>1. /\ Len(d) = (IF Len(h) <= n THEN Len(h) ELSE n)
        /\ Len(e) = (IF Len(u) <= n - Len(d) THEN Len(u) ELSE n - Len(d))
        /\ Len(t) = (IF Len(h) + Len(u) <= n THEN Len(h) + Len(u) ELSE n)
    BY <1>1, <1>3, <1>4, <1>5
  <2>2. Len(d) \in Nat /\ Len(e) \in Nat
    BY <1>1, <1>3
  <2>3. Len(d) + Len(e) = Len(t)
    <3> DEFINE a == Len(h)
               b == Len(u)
    <3>1. a \in Nat /\ b \in Nat
      BY <1>2
    <3> HIDE DEF a, b
    <3>2. \A i, j, m \in Nat :
             i = (IF a <= n THEN a ELSE n) /\ j = (IF b <= n - i THEN b ELSE n - i)
                => i + j = (IF a + b <= n THEN a + b ELSE n)
      BY <3>1
    <3> QED
      BY <2>1, <2>2, <3>2 DEF a, b
  <2> QED
    BY <1>6, <2>3
<1>8. ASSUME NEW k \in 1 .. Len(t) PROVE (d \o e)[k] = t[k]
  <2>1. t[k] = IF k <= Len(h) THEN h[k] ELSE u[k - Len(h)]
    BY <1>2, <1>4, <1>5
  <2>2. (d \o e)[k] = IF k <= Len(d) THEN d[k] ELSE e[k - Len(d)]
    BY <1>6, <1>7
  <2>3. CASE k <= Len(d)
    BY <1>1, <1>2, <2>1, <2>2, <2>3
  <2>4. CASE ~ (k <= Len(d))
    <3>1. k - Len(d) \in 1 .. Len(e)
      BY <1>1, <1>2, <1>3, <1>6, <1>7, <2>4
    <3>2. Len(d) = Len(h)
      BY <1>1, <1>2, <1>4, <1>5, <2>4
    <3> QED
      BY <1>1, <1>2, <1>3, <2>1, <2>2, <2>4, <3>1, <3>2
  <2> QED
    BY <2>3, <2>4
<1>9. d \o e = t
  BY <1>5, <1>6, <1>7, <1>8, SeqEqual
<1> QED
  BY <1>9 DEF d, e, t

(* Two units written one after the other.                                  *)
LEMMA TwoUnits ==
    ASSUME NEW x, NEW y
    PROVE  <<x>> \o <<y>> = <<x, y>>
<1> DEFINE S == {x, y}
<1>1. /\ <<x>> \in Seq(S) /\ <<y>> \in Seq(S) /\ <<x, y>> \in Seq(S)
      /\ Len(<<x>>) = 1 /\ Len(<<y>>) = 1 /\ Len(<<x, y>>) = 2
      /\ <<x>>[1] = x /\ <<y>>[1] = y /\ <<x, y>>[1] = x /\ <<x, y>>[2] = y
  OBVIOUS
<1> HIDE DEF S
<1>2. /\ <<x>> \o <<y>> \in Seq(S) /\ Len(<<x>> \o <<y>>) = 2
      /\ (<<x>> \o <<y>>)[1] = x /\ (<<x>> \o <<y>>)[2] = y
  BY <1>1, ConcatProperties
<1>3. \A k \in 1 .. 2 : <<x, y>>[k] = (<<x>> \o <<y>>)[k]
  <2> \A k \in 1 .. 2 : k = 1 \/ k = 2
    OBVIOUS
  <2> QED
    BY <1>1, <1>2
<1> QED
  BY <1>1, <1>2, <1>3, SeqEqual

(* The beginning of a sequence that is long enough is not changed by what  *)
(* is appended.                                                            *)
LEMMA TakeKeepsPrefix ==
    ASSUME NEW U, NEW s \in Seq(U), NEW t \in Seq(U), NEW n \in Nat, n <= Len(s),
           Len(s) <= Len(t), \A k \in 1 .. Len(s) : t[k] = s[k]
    PROVE  Take(t, n) = Take(s, n)
<1>1. Len(s) \in Nat /\ Len(t) \in Nat
  OBVIOUS
<1>2. Len(Take(t, n)) = n /\ Len(Take(s, n)) = n
  BY <1>1, TakeIsPrefix
<1>3. ASSUME NEW k \in 1 .. n PROVE Take(t, n)[k] = Take(s, n)[k]
  BY <1>1, <1>2, TakeIsPrefix
<1> QED
  BY <1>2, <1>3, TakeIsPrefix, SeqEqual
=============================================================================
