---------------------------- MODULE SongDbProofs ----------------------------
(***************************************************************************)
(* Proofs about the files that frontends share, for any number of          *)
(* processes, songs, playtimes and options, and however often a process    *)
(* dies: no playtime is put together from two, what was saved can be read, *)
(* what a process has determined is found, an option that was set stays.   *)
(***************************************************************************)
EXTENDS SongDb, SequenceTheorems, FiniteSetTheorems, WellFoundedInduction, TLAPS

\* Types, and what a process is at each place of a call.
Cell == {Newline} \cup ({"md5"} \X Songs) \cup ({"digit"} \X (0..9))
ConfLine == [song : Songs, option : Options]
Process ==
    [pc : {"idle", "lock", "locked", "rest", "truncate", "write"}, op : {"none", "read", "save", "update"},
     file : {"db", "conf"}, loaded : BOOLEAN, mem : Seq(DbEntry), modified : BOOLEAN,
     buf : Seq(Cell) \cup Seq(ConfLine), own : SUBSET DbEntry, calls : Nat]
History ==
    [torn : SUBSET {"db", "conf"}, clash : BOOLEAN, saved : SUBSET DbEntry,
     wanted : [Songs -> Options \cup {None}]]
Typed ==
    /\ db \in Seq(Cell) /\ conf \in Seq(ConfLine)
    /\ lock \in [{"db", "conf"} -> Processes \cup {None}]
    /\ proc \in [Processes -> Process] /\ hist \in History

Shape(r) ==
    /\ r.calls <= Calls[r.file] /\ Sorted(r.mem)
    /\ ~r.loaded => r.mem = <<>> /\ r.modified = FALSE /\ r.own = {}
    /\ r.file = "db" => r.op # "update" /\ r.pc \notin {"truncate", "write"}
    /\ r.file = "conf" => r.op \in {"none", "update"} /\ r.pc # "rest" /\ r.loaded = FALSE
    /\ r.pc = "rest" => r.op = "save" /\ r.buf \in Seq(Cell)
    /\ r.pc \in {"truncate", "write"} => r.op = "update" /\ r.buf \in Seq(ConfLine) /\ r.buf # <<>>
Shaped == \A p \in Processes : Shape(proc[p])

\* The lock of the content db lasts from lockf() to the end of the call.
InDb(r) == r.file = "db" /\ r.pc \in {"locked", "rest"}
Locked == \A p \in Processes : InDb(proc[p]) => lock["db"] = p

\* The place a save has reached, and the file it will leave.
Reached(r) == Len(Text(r.mem)) - Len(r.buf)
Completed(r) == Overwritten(db, Reached(r), r.buf)
Saving == \A p \in Processes : proc[p].pc = "rest" => Reached(proc[p]) \in 0..Len(db)

\* Every md5 of a file begins a whole line, with a playtime of its song.
Real(e) == e.time \in Times[e.song]
LineIsAt(cells, k, e) ==
    /\ k + Len(Line(e)) - 1 <= Len(cells)
    /\ \A c \in 1..Len(Line(e)) : cells[k + c - 1] = Line(e)[c]
RealLines(cells) ==
    \A k \in 1..Len(cells) : cells[k][1] = "md5" =>
        LET song == cells[k][2]
        IN  \E time \in Times[song] : LineIsAt(cells, k, [song |-> song, time |-> time])
RealFile == (\A p \in Processes : proc[p].pc # "rest") => RealLines(db)
RealProcess(r) == (\A e \in ToSet(r.mem) : Real(e)) /\ (r.pc = "rest" => RealLines(Completed(r)))
AllReal == "db" \notin hist.torn => RealFile /\ \A p \in Processes : RealProcess(proc[p])

\* What was saved last is in the file, and what is being saved will be.
Kept ==
    "db" \notin hist.torn =>
        /\ (\A p \in Processes : proc[p].pc # "rest") => hist.saved \subseteq ToSet(Entries(db))
        /\ \A p \in Processes : proc[p].pc = "rest" => ToSet(proc[p].mem) \subseteq ToSet(Entries(Completed(proc[p])))

\* The playtimes that a process has determined are in its memory.
OwnThere == \A p \in Processes : proc[p].own \subseteq ToSet(proc[p].mem)

\* song.conf: each song has its one line, or none.  One update at a time is between
\* its reading and its writing.
OneLine(lines, wanted) ==
    \A s \in Songs :
        IF wanted[s] = None
        THEN Matches(lines, s) = {}
        ELSE \E i \in DOMAIN lines : Matches(lines, s) = {i} /\ lines[i].option = wanted[s]
Updating(r) == r.pc \in {"truncate", "write"}
WantedNext(r) == [hist.wanted EXCEPT ![Last(r.buf).song] = Last(r.buf).option]
OneUpdate ==
    ~hist.clash /\ "conf" \notin hist.torn =>
        /\ \A p, q \in Processes : Updating(proc[p]) /\ Updating(proc[q]) => p = q
        /\ (\A p \in Processes : proc[p].pc # "write") => OneLine(conf, hist.wanted)
        /\ \A p \in Processes : Updating(proc[p]) => OneLine(proc[p].buf, WantedNext(proc[p]))
        /\ \A p \in Processes : proc[p].pc = "write" => conf = <<>>

DbInv == Typed /\ Shaped /\ Locked /\ Saving /\ AllReal /\ Kept /\ OwnThere /\ OneUpdate

-----------------------------------------------------------------------------
(***************************************************************************)
(* Numbers and sets.                                                       *)
(***************************************************************************)

LEMMA Least == ASSUME NEW T \in SUBSET Nat, T # {} PROVE \E x \in T : \A y \in T : x <= y
<1>1. PICK x \in T : \A y \in T : ~(<<y, x>> \in OpToRel(<, Nat))
  BY NatLessThanWellFounded, WFMin
<1>2. \A y \in T : ~(y < x)
  BY <1>1 DEF OpToRel
<1>3. QED
  BY <1>2

\* The order in which SetToSeq() lists a set reaches each of its elements.
LEMMA Listed ==
    ASSUME NEW S, IsFiniteSet(S)
    PROVE  /\ SetToSeq(S) \in [1..Cardinality(S) -> S]
           /\ \A x \in S : \E n \in 1..Cardinality(S) : SetToSeq(S)[n] = x
           /\ Cardinality(S) \in Nat
<1> DEFINE D == 1..Cardinality(S)
<1>1. Cardinality(S) \in Nat /\ ExistsBijection(D, S)
  BY FS_CardinalityType
<1>2. \E f \in [D -> S] : IsInjective(f)
  BY <1>1 DEF ExistsBijection, Bijection, Injection
<1>3. SetToSeq(S) \in [D -> S] /\ IsInjective(SetToSeq(S))
  BY <1>2 DEF SetToSeq
<1>4. IsFiniteSet(D) /\ Cardinality(D) = Cardinality(S)
  BY <1>1, FS_Interval
<1>5. SetToSeq(S) \in Injection(D, S)
  BY <1>3 DEF Injection
<1>6. SetToSeq(S) \in Surjection(D, S)
  BY <1>4, <1>5, FS_Injection
<1> QED BY <1>1, <1>3, <1>6 DEF Surjection

(***************************************************************************)
(* The text of a save.                                                     *)
(***************************************************************************)

LEMMA LineIs ==
    ASSUME NEW e \in DbEntry
    PROVE  /\ Line(e) \in Seq(Cell) /\ Len(e.time) \in Nat /\ Len(Line(e)) = Len(e.time) + 2
           /\ DOMAIN Line(e) = 1..Len(e.time) + 2
           /\ Line(e)[1] = <<"md5", e.song>>
           /\ \A i \in 1..Len(e.time) : Line(e)[i+1] = <<"digit", e.time[i]>>
           /\ Line(e)[Len(e.time) + 2] = Newline
<1> DEFINE first == <<<<"md5", e.song>>>>
           digits == [i \in DOMAIN e.time |-> <<"digit", e.time[i]>>]
           n == Len(e.time)
<1>1. e.song \in Songs /\ e.time \in Seq(0..9) /\ n \in Nat /\ DOMAIN e.time = 1..n
  BY DEF DbEntry
<1>2. first \in Seq(Cell) /\ Len(first) = 1 /\ first[1] = <<"md5", e.song>>
  BY <1>1 DEF Cell
<1>3. digits \in Seq(Cell) /\ Len(digits) = n /\ \A i \in 1..n : digits[i] = <<"digit", e.time[i]>>
  <2>1. \A i \in 1..n : <<"digit", e.time[i]>> \in Cell
    BY <1>1 DEF Cell
  <2> QED BY <1>1, <2>1
<1>4. <<Newline>> \in Seq(Cell) /\ Len(<<Newline>>) = 1 /\ <<Newline>>[1] = Newline
  BY DEF Cell
<1> HIDE DEF first, digits, n
<1>5. Line(e) = first \o digits \o <<Newline>>
  BY DEF Line, first, digits
<1>6. first \o digits \in Seq(Cell) /\ Len(first \o digits) = n + 1
  BY <1>1, <1>2, <1>3, ConcatProperties
<1>7. \A i \in 1..n + 1 : (first \o digits)[i] = IF i <= 1 THEN first[i] ELSE digits[i - 1]
  <2>1. \A i \in 1..Len(first) + Len(digits) :
            (first \o digits)[i] = IF i <= Len(first) THEN first[i] ELSE digits[i - Len(first)]
    BY <1>2, <1>3, ConcatProperties
  <2>2. 1..n + 1 = 1..Len(first) + Len(digits)
    BY <1>1, <1>2, <1>3
  <2> QED BY <1>2, <2>1, <2>2
<1>8. Line(e) \in Seq(Cell) /\ Len(Line(e)) = n + 2
  BY <1>1, <1>4, <1>5, <1>6, ConcatProperties
<1>9. \A i \in 1..n + 2 : Line(e)[i] = IF i <= n + 1 THEN (first \o digits)[i] ELSE <<Newline>>[i - (n + 1)]
  BY <1>1, <1>4, <1>5, <1>6, ConcatProperties
<1>10. Line(e)[1] = <<"md5", e.song>>
  BY <1>1, <1>2, <1>7, <1>9
<1>11. ASSUME NEW i \in 1..n PROVE Line(e)[i+1] = <<"digit", e.time[i]>>
  <2>1. i + 1 \in 1..n + 1 /\ i + 1 \in 1..n + 2 /\ i + 1 <= n + 1 /\ ~(i + 1 <= 1) /\ (i + 1) - 1 = i
    BY <1>1
  <2>2. Line(e)[i+1] = (first \o digits)[i+1]
    BY <1>9, <2>1
  <2>3. (first \o digits)[i+1] = digits[i]
    BY <1>7, <2>1
  <2> QED BY <1>3, <2>2, <2>3
<1>12. Line(e)[n + 2] = Newline
  BY <1>1, <1>4, <1>9
<1>13. DOMAIN Line(e) = 1..n + 2
  BY <1>8, LenProperties
<1> QED BY <1>1, <1>8, <1>10, <1>11, <1>12, <1>13 DEF n

Places(mem, i) == UNION {{j} \X DOMAIN Line(mem[j]) : j \in 1..i-1}

LEMMA OneMoreLine ==
    ASSUME NEW mem \in Seq(DbEntry), NEW i \in 1..Len(mem), IsFiniteSet(Places(mem, i))
    PROVE  /\ IsFiniteSet(Places(mem, i+1))
           /\ Cardinality(Places(mem, i+1)) = Cardinality(Places(mem, i)) + Len(mem[i].time) + 2
<1> DEFINE new == {i} \X DOMAIN Line(mem[i])
           n == Len(mem[i].time) + 2
           f == [c \in 1..n |-> <<i, c>>]
<1>1. mem[i] \in DbEntry /\ i \in Nat
  BY ElementOfSeq, LenProperties
<1>2. n \in Nat /\ DOMAIN Line(mem[i]) = 1..n
  BY <1>1, LineIs
<1>3. f \in Bijection(1..n, new)
  <2>1. f \in [1..n -> new]
    BY <1>2
  <2>2. \A a, b \in 1..n : f[a] = f[b] => a = b
    OBVIOUS
  <2>3. \A x \in new : \E c \in 1..n : f[c] = x
    BY <1>2
  <2>4. DOMAIN f = 1..n
    OBVIOUS
  <2> HIDE DEF f, new
  <2> QED BY <2>1, <2>2, <2>3, <2>4 DEF Bijection, Injection, Surjection, IsInjective
<1> HIDE DEF n
<1>4. IsFiniteSet(1..n) /\ Cardinality(1..n) = n
  BY <1>2, FS_Interval
<1>5. IsFiniteSet(new) /\ Cardinality(new) = n
  <2>1. ExistsBijection(1..n, new)
    BY <1>3 DEF ExistsBijection
  <2> QED BY <1>4, <2>1, FS_Bijection
<1>6. Places(mem, i+1) = Places(mem, i) \cup new
  <2>1. 1..(i+1)-1 = 1..i-1 \cup {i}
    BY <1>1
  <2> QED BY <2>1 DEF Places
<1>7. Places(mem, i) \cap new = {}
  BY <1>1 DEF Places
<1> HIDE DEF new, f
<1>8. Cardinality(Places(mem, i)) \in Nat
  BY FS_CardinalityType
<1>9. /\ IsFiniteSet(Places(mem, i+1))
      /\ Cardinality(Places(mem, i+1)) = Cardinality(Places(mem, i)) + Cardinality(new) - Cardinality({})
  BY <1>5, <1>6, <1>7, FS_Union
<1>10. Cardinality({}) = 0
  BY FS_EmptySet
<1>11. Cardinality(Places(mem, i+1)) = Cardinality(Places(mem, i)) + n
  BY <1>2, <1>5, <1>8, <1>9, <1>10 DEF n
<1>12. Len(mem[i].time) \in Nat
  BY <1>1, LineIs
<1> QED BY <1>8, <1>9, <1>11, <1>12 DEF n

\* By the least number of lines for which it would not hold.
LEMMA PlacesFinite ==
    ASSUME NEW mem \in Seq(DbEntry), NEW i \in 1..Len(mem)+1
    PROVE  IsFiniteSet(Places(mem, i))
<1>1. Len(mem) \in Nat
  BY LenProperties
<1> SUFFICES ASSUME ~IsFiniteSet(Places(mem, i)) PROVE FALSE
  OBVIOUS
<1> DEFINE Bad == {n \in 1..Len(mem)+1 : ~IsFiniteSet(Places(mem, n))}
<1>2. PICK n \in Bad : \A l \in Bad : n <= l
  <2>1. Bad \in SUBSET Nat /\ Bad # {}
    BY <1>1
  <2> QED BY <2>1, Least
<1>3. n # 1
  <2>1. 1..1-1 = {}
    OBVIOUS
  <2>2. Places(mem, 1) = {}
    BY <2>1 DEF Places
  <2> QED BY <1>2, <2>2, FS_EmptySet
<1>4. n - 1 \in 1..Len(mem) /\ (n - 1) + 1 = n /\ n - 1 \notin Bad
  BY <1>1, <1>2, <1>3
<1>5. IsFiniteSet(Places(mem, n - 1))
  BY <1>1, <1>4
<1> QED BY <1>2, <1>4, <1>5, OneMoreLine

LEMMA OffsetIs ==
    ASSUME NEW mem \in Seq(DbEntry)
    PROVE  /\ Len(mem) \in Nat /\ Offset(mem, 1) = 0
           /\ \A i \in 1..Len(mem)+1 : Offset(mem, i) \in Nat
           /\ \A i \in 1..Len(mem) : Offset(mem, i+1) = Offset(mem, i) + Len(mem[i].time) + 2
           /\ \A i, j \in 1..Len(mem)+1 : i <= j => Offset(mem, i) <= Offset(mem, j)
<1>1. Len(mem) \in Nat
  BY LenProperties
<1>2. \A i : Offset(mem, i) = Cardinality(Places(mem, i))
  BY DEF Offset, Places
<1>3. \A i \in 1..Len(mem)+1 : IsFiniteSet(Places(mem, i))
  BY PlacesFinite
<1>4. \A i \in 1..Len(mem)+1 : Offset(mem, i) \in Nat
  BY <1>2, <1>3, FS_CardinalityType
<1>5. Offset(mem, 1) = 0
  <2>1. 1..1-1 = {}
    OBVIOUS
  <2>2. Places(mem, 1) = {}
    BY <2>1 DEF Places
  <2> QED BY <1>2, <2>2, FS_EmptySet
<1>6. ASSUME NEW i \in 1..Len(mem)
      PROVE  Offset(mem, i+1) = Offset(mem, i) + Len(mem[i].time) + 2
  <2>1. i \in 1..Len(mem)+1
    BY <1>1
  <2> QED BY <1>2, <1>3, <2>1, OneMoreLine
<1>7. ASSUME NEW i \in 1..Len(mem)+1, NEW j \in 1..Len(mem)+1, i <= j
      PROVE  Offset(mem, i) <= Offset(mem, j)
  <2>1. 1..i-1 \subseteq 1..j-1
    BY <1>1, <1>7
  <2>2. Places(mem, i) \subseteq Places(mem, j)
    BY <2>1 DEF Places
  <2> QED BY <1>2, <1>3, <2>2, FS_Subset
<1> QED BY <1>1, <1>4, <1>5, <1>6, <1>7

\* Every place of the text belongs to the line it is in: the first one that ends
\* behind it.
LEMMA LineOfIs ==
    ASSUME NEW mem \in Seq(DbEntry), NEW k \in 1..Offset(mem, Len(mem)+1)
    PROVE  /\ LineOf(mem, k) \in 1..Len(mem)
           /\ Offset(mem, LineOf(mem, k)) < k
           /\ k <= Offset(mem, LineOf(mem, k) + 1)
<1> DEFINE n == Len(mem)
           Behind == {i \in 1..n : k <= Offset(mem, i+1)}
<1>1. n \in Nat /\ DOMAIN mem = 1..n /\ Offset(mem, n+1) \in Nat /\ k \in Nat /\ k >= 1
  <2>1. n \in Nat /\ DOMAIN mem = 1..n
    BY LenProperties
  <2> QED BY <2>1, OffsetIs
<1>2. Offset(mem, 1) = 0 /\ \A i \in 1..n+1 : Offset(mem, i) \in Nat
  BY OffsetIs
<1>3. n # 0
  BY <1>1, <1>2
<1>4. n \in Behind
  BY <1>1, <1>3
<1>5. PICK i \in Behind : \A j \in Behind : i <= j
  <2>1. Behind \in SUBSET Nat /\ Behind # {}
    BY <1>1, <1>4
  <2> QED BY <2>1, Least
<1>6. Offset(mem, i) < k
  <2>1. CASE i = 1
    BY <1>1, <1>2, <2>1
  <2>2. CASE i # 1
    <3>1. i - 1 \in 1..n /\ (i - 1) + 1 = i /\ i \in 1..n+1 /\ ~(i <= i - 1)
      BY <1>1, <1>5, <2>2
    <3>2. i - 1 \notin Behind
      BY <1>5, <3>1
    <3>3. ~(k <= Offset(mem, i)) /\ Offset(mem, i) \in Nat
      BY <1>2, <3>1, <3>2
    <3> QED BY <1>1, <3>3
  <2> QED BY <2>1, <2>2
<1>7. \E j \in DOMAIN mem : Offset(mem, j) < k /\ k <= Offset(mem, j+1)
  BY <1>1, <1>5, <1>6
<1>8. LineOf(mem, k) \in DOMAIN mem /\ Offset(mem, LineOf(mem, k)) < k /\ k <= Offset(mem, LineOf(mem, k) + 1)
  BY <1>7 DEF LineOf
<1> QED BY <1>1, <1>8

LEMMA LineOfPlace ==
    ASSUME NEW mem \in Seq(DbEntry), NEW i \in 1..Len(mem), NEW c \in 1..Len(Line(mem[i]))
    PROVE  /\ Offset(mem, i) + c \in 1..Offset(mem, Len(mem)+1)
           /\ LineOf(mem, Offset(mem, i) + c) = i
<1> DEFINE n == Len(mem)
           k == Offset(mem, i) + c
<1>1. /\ n \in Nat /\ i \in 1..n+1 /\ i + 1 \in 1..n+1 /\ n + 1 \in 1..n+1 /\ i \in Nat
  BY LenProperties
<1>2. \A j \in 1..n+1 : Offset(mem, j) \in Nat
  BY OffsetIs
<1>3. \A j, l \in 1..n+1 : j <= l => Offset(mem, j) <= Offset(mem, l)
  BY OffsetIs
<1>4. c \in Nat /\ c >= 1 /\ Offset(mem, i+1) = Offset(mem, i) + Len(Line(mem[i])) /\ Len(Line(mem[i])) \in Nat
  <2>1. mem[i] \in DbEntry
    BY ElementOfSeq
  <2>2. Len(mem[i].time) \in Nat /\ Len(Line(mem[i])) = Len(mem[i].time) + 2
    BY <2>1, LineIs
  <2>3. Offset(mem, i+1) = Offset(mem, i) + Len(mem[i].time) + 2
    BY OffsetIs
  <2>4. Offset(mem, i) \in Nat
    BY <1>1, <1>2
  <2> QED BY <2>2, <2>3, <2>4
<1>5. c <= Len(Line(mem[i]))
  BY <1>4
<1>6. Offset(mem, i) < k /\ k <= Offset(mem, i+1) /\ k \in Nat
  BY <1>1, <1>2, <1>4, <1>5
<1>7. Offset(mem, i+1) <= Offset(mem, n+1) /\ Offset(mem, n+1) \in Nat /\ Offset(mem, i) \in Nat /\ Offset(mem, i+1) \in Nat
  BY <1>1, <1>2, <1>3
<1>8. k \in 1..Offset(mem, n+1)
  BY <1>4, <1>6, <1>7
<1> HIDE DEF k
<1> DEFINE l == LineOf(mem, k)
<1>9. l \in 1..n /\ Offset(mem, l) < k /\ k <= Offset(mem, l+1)
  BY <1>8, LineOfIs
<1> HIDE DEF l
<1>10. l \in Nat /\ l \in 1..n+1 /\ l + 1 \in 1..n+1
  BY <1>1, <1>9
<1>11. Offset(mem, l) \in Nat /\ Offset(mem, l+1) \in Nat
  BY <1>2, <1>10
<1>12. ~(l + 1 <= i)
  <2> SUFFICES ASSUME l + 1 <= i PROVE FALSE
    OBVIOUS
  <2>1. Offset(mem, l+1) <= Offset(mem, i)
    BY <1>1, <1>3, <1>10
  <2> QED BY <1>6, <1>7, <1>9, <1>11, <2>1
<1>13. ~(i + 1 <= l)
  <2> SUFFICES ASSUME i + 1 <= l PROVE FALSE
    OBVIOUS
  <2>1. Offset(mem, i+1) <= Offset(mem, l)
    BY <1>1, <1>3, <1>10
  <2> QED BY <1>6, <1>7, <1>9, <1>11, <2>1
<1>14. l = i
  BY <1>1, <1>10, <1>12, <1>13
<1> QED BY <1>8, <1>14 DEF k, l

LEMMA TextIs ==
    ASSUME NEW mem \in Seq(DbEntry)
    PROVE  /\ Text(mem) \in Seq(Cell) /\ Len(Text(mem)) = Offset(mem, Len(mem)+1)
           /\ Len(Text(mem)) \in Nat
           /\ \A k \in 1..Len(Text(mem)) :
                 /\ LineOf(mem, k) \in 1..Len(mem)
                 /\ k - Offset(mem, LineOf(mem, k)) \in 1..Len(Line(mem[LineOf(mem, k)]))
           /\ \A i \in 1..Len(mem) : \A c \in 1..Len(Line(mem[i])) :
                 /\ Offset(mem, i) + c \in 1..Len(Text(mem))
                 /\ Text(mem)[Offset(mem, i) + c] = Line(mem[i])[c]
<1> DEFINE size == Offset(mem, Len(mem)+1)
           cells == [k \in 1..size |-> CellOf(mem, k)]
<1>1. size \in Nat /\ Len(mem) \in Nat
  <2>1. Len(mem) \in Nat
    BY LenProperties
  <2> QED BY <2>1, OffsetIs
<1>2. ASSUME NEW k \in 1..size
      PROVE  /\ LineOf(mem, k) \in 1..Len(mem)
             /\ k - Offset(mem, LineOf(mem, k)) \in 1..Len(Line(mem[LineOf(mem, k)]))
             /\ CellOf(mem, k) \in Cell
  <2> DEFINE i == LineOf(mem, k)
  <2>1. i \in 1..Len(mem) /\ Offset(mem, i) < k /\ k <= Offset(mem, i+1)
    BY <1>2, LineOfIs
  <2> HIDE DEF i
  <2>2. mem[i] \in DbEntry
    BY <2>1, ElementOfSeq
  <2>3. /\ Len(mem[i].time) \in Nat /\ Len(Line(mem[i])) = Len(mem[i].time) + 2 /\ Line(mem[i]) \in Seq(Cell)
    BY <2>2, LineIs
  <2>4. Offset(mem, i+1) = Offset(mem, i) + Len(mem[i].time) + 2
    BY <2>1, OffsetIs
  <2>5. Offset(mem, i) \in Nat
    <3>1. i \in 1..Len(mem)+1
      BY <1>1, <2>1
    <3> QED BY <3>1, OffsetIs
  <2>6. k - Offset(mem, i) \in 1..Len(Line(mem[i]))
    BY <1>1, <2>1, <2>3, <2>4, <2>5
  <2>7. CellOf(mem, k) = Line(mem[i])[k - Offset(mem, i)]
    BY DEF CellOf, i
  <2>8. CellOf(mem, k) \in Cell
    BY <2>3, <2>6, <2>7, ElementOfSeq
  <2> QED BY <2>1, <2>6, <2>8 DEF i
<1>3. cells \in Seq(Cell) /\ Len(cells) = size
  BY <1>1, <1>2
<1>4. Text(mem) = cells
  <2>1. Text(mem) = SubSeq(cells, 1, size)
    BY DEF Text
  <2> HIDE DEF cells, size
  <2> QED BY <1>3, <2>1, SubSeqFull
<1>5. ASSUME NEW i \in 1..Len(mem), NEW c \in 1..Len(Line(mem[i]))
      PROVE  /\ Offset(mem, i) + c \in 1..size
             /\ cells[Offset(mem, i) + c] = Line(mem[i])[c]
  <2> DEFINE k == Offset(mem, i) + c
  <2>1. k \in 1..size /\ LineOf(mem, k) = i
    BY LineOfPlace
  <2>2. k - Offset(mem, i) = c
    <3>1. i \in 1..Len(mem)+1 /\ mem[i] \in DbEntry
      BY <1>1, ElementOfSeq
    <3>2. Offset(mem, i) \in Nat
      BY <3>1, OffsetIs
    <3>3. c \in Nat
      BY <3>1, LineIs
    <3> QED BY <3>2, <3>3
  <2> HIDE DEF k
  <2>3. cells[k] = CellOf(mem, k)
    BY <2>1
  <2>4. CellOf(mem, k) = Line(mem[i])[c]
    BY <2>1, <2>2 DEF CellOf
  <2> QED BY <2>1, <2>3, <2>4 DEF k
<1> HIDE DEF cells
<1> QED BY <1>1, <1>2, <1>3, <1>4, <1>5

(***************************************************************************)
(* Files that are written over.                                            *)
(***************************************************************************)

LEMMA OverwrittenIs ==
    ASSUME NEW S, NEW file \in Seq(S), NEW new \in Seq(S), NEW offset \in 0..Len(file)
    PROVE  LET all == Overwritten(file, offset, new)
           IN  /\ all \in Seq(S) /\ Len(all) \in Nat
               /\ Len(all) = IF Len(file) > offset + Len(new) THEN Len(file) ELSE offset + Len(new)
               /\ \A i \in 1..Len(all) :
                     all[i] = IF i > offset /\ i <= offset + Len(new) THEN new[i - offset] ELSE file[i]
<1> DEFINE size == IF Len(file) > offset + Len(new) THEN Len(file) ELSE offset + Len(new)
           cell(i) == IF i > offset /\ i <= offset + Len(new) THEN new[i - offset] ELSE file[i]
<1>1. Len(file) \in Nat /\ Len(new) \in Nat /\ offset \in Nat
  BY LenProperties
<1>2. size \in Nat
  BY <1>1
<1>3. ASSUME NEW i \in 1..size PROVE cell(i) \in S
  <2>1. CASE i > offset /\ i <= offset + Len(new)
    <3>1. i - offset \in 1..Len(new)
      BY <1>1, <1>2, <2>1
    <3> QED BY <2>1, <3>1, ElementOfSeq
  <2>2. CASE ~(i > offset /\ i <= offset + Len(new))
    <3>1. i \in 1..Len(file)
      BY <1>1, <1>2, <2>2
    <3> QED BY <2>2, <3>1, ElementOfSeq
  <2> QED BY <2>1, <2>2
<1>4. Overwritten(file, offset, new) = [i \in 1..size |-> cell(i)]
  BY DEF Overwritten
<1>5. [i \in 1..size |-> cell(i)] \in Seq(S) /\ Len([i \in 1..size |-> cell(i)]) = size
  <2> HIDE DEF size, cell
  <2> QED BY <1>2, <1>3
<1>6. \A i \in 1..size : [j \in 1..size |-> cell(j)][i] = cell(i)
  OBVIOUS
<1> QED BY <1>2, <1>4, <1>5, <1>6

LEMMA SamePlaces ==
    ASSUME NEW S, NEW file \in Seq(S), NEW new \in Seq(S), NEW offset \in 0..Len(file)
    PROVE  LET all == Overwritten(file, offset, new)
           IN  /\ all \in Seq(S) /\ Len(all) \in Nat /\ Len(file) \in Nat /\ Len(new) \in Nat
               /\ Len(all) >= Len(file) /\ Len(all) >= offset + Len(new)
               /\ \A j \in 1..Len(new) : offset + j \in 1..Len(all) /\ all[offset + j] = new[j]
               /\ \A i \in 1..Len(all) :
                     i <= offset \/ i > offset + Len(new) => i \in 1..Len(file) /\ all[i] = file[i]
<1> DEFINE all == Overwritten(file, offset, new)
<1>1. Len(file) \in Nat /\ Len(new) \in Nat /\ offset \in Nat
  BY LenProperties
<1>2. /\ all \in Seq(S) /\ Len(all) \in Nat
      /\ Len(all) = IF Len(file) > offset + Len(new) THEN Len(file) ELSE offset + Len(new)
      /\ \A i \in 1..Len(all) :
            all[i] = IF i > offset /\ i <= offset + Len(new) THEN new[i - offset] ELSE file[i]
  BY OverwrittenIs
<1> HIDE DEF all
<1>3. ASSUME NEW j \in 1..Len(new) PROVE offset + j \in 1..Len(all) /\ all[offset + j] = new[j]
  <2>1. offset + j \in 1..Len(all) /\ offset + j > offset /\ offset + j <= offset + Len(new) /\ (offset + j) - offset = j
    BY <1>1, <1>2
  <2> QED BY <1>2, <2>1
<1>4. ASSUME NEW i \in 1..Len(all), i <= offset \/ i > offset + Len(new)
      PROVE  i \in 1..Len(file) /\ all[i] = file[i]
  <2>1. i \in 1..Len(file)
    BY <1>1, <1>2, <1>4
  <2>2. ~(i > offset /\ i <= offset + Len(new))
    BY <1>1, <1>2, <1>4
  <2> QED BY <1>2, <2>1, <2>2
<1>5. Len(all) >= Len(file) /\ Len(all) >= offset + Len(new)
  BY <1>1, <1>2
<1> QED BY <1>1, <1>2, <1>3, <1>4, <1>5 DEF all

LEMMA WrittenIntoEmpty ==
    ASSUME NEW S, NEW file \in Seq(S), Len(file) = 0, NEW new \in Seq(S)
    PROVE  Overwritten(file, 0, new) = new
<1> DEFINE all == Overwritten(file, 0, new)
<1>1. Len(new) \in Nat /\ 0 \in 0..Len(file)
  BY LenProperties
<1>2. /\ all \in Seq(S) /\ Len(all) \in Nat
      /\ Len(all) = IF Len(file) > 0 + Len(new) THEN Len(file) ELSE 0 + Len(new)
      /\ \A i \in 1..Len(all) :
            all[i] = IF i > 0 /\ i <= 0 + Len(new) THEN new[i - 0] ELSE file[i]
  BY <1>1, OverwrittenIs
<1> HIDE DEF all
<1>3. Len(all) = Len(new)
  BY <1>1, <1>2
<1>4. \A i \in 1..Len(all) : i > 0 /\ i <= 0 + Len(new) /\ i - 0 = i
  BY <1>1, <1>3
<1>5. \A i \in 1..Len(all) : all[i] = new[i]
  BY <1>2, <1>4
<1>6. all = new
  BY <1>2, <1>3, <1>5, SeqEqual
<1> QED BY <1>6 DEF all

\* A text that is written in two pieces.
LEMMA TwoPieces ==
    ASSUME NEW S, NEW file \in Seq(S), NEW text \in Seq(S), NEW n \in 1..Len(text)-1
    PROVE  LET first == SubSeq(text, 1, n)
               rest == SubSeq(text, n+1, Len(text))
               some == Overwritten(file, 0, first)
           IN  /\ first \in Seq(S) /\ rest \in Seq(S) /\ some \in Seq(S)
               /\ Len(text) - Len(rest) \in 0..Len(some)
               /\ Overwritten(some, Len(text) - Len(rest), rest) = Overwritten(file, 0, text)
<1> DEFINE first == SubSeq(text, 1, n)
           rest == SubSeq(text, n+1, Len(text))
           some == Overwritten(file, 0, first)
           all == Overwritten(some, n, rest)
           whole == Overwritten(file, 0, text)
<1>1. Len(file) \in Nat /\ Len(text) \in Nat /\ n \in Nat /\ n >= 1 /\ n <= Len(text)
  BY LenProperties
<1>2. first \in Seq(S) /\ Len(first) = n /\ \A i \in 1..n : first[i] = text[i]
  <2>1. \A i \in 1..n : text[i] \in S
    BY <1>1, ElementOfSeq
  <2>2. /\ first \in Seq(S) /\ Len(first) = (IF 1 <= n THEN n-1+1 ELSE 0)
        /\ \A i \in 1..n-1+1 : first[i] = text[1+i-1]
    BY <1>1, <2>1, SubSeqProperties
  <2> HIDE DEF first
  <2>3. n - 1 + 1 = n /\ \A i \in 1..n : 1 + i - 1 = i
    BY <1>1
  <2> QED BY <1>1, <2>2, <2>3
<1>3. rest \in Seq(S) /\ Len(rest) = Len(text) - n /\ \A i \in 1..Len(text) - n : rest[i] = text[n+i]
  <2>1. \A i \in n+1..Len(text) : text[i] \in S
    BY <1>1, ElementOfSeq
  <2>2. /\ rest \in Seq(S) /\ Len(rest) = (IF n+1 <= Len(text) THEN Len(text)-(n+1)+1 ELSE 0)
        /\ \A i \in 1..Len(text)-(n+1)+1 : rest[i] = text[(n+1)+i-1]
    BY <1>1, <2>1, SubSeqProperties
  <2> HIDE DEF rest
  <2>3. Len(text)-(n+1)+1 = Len(text) - n /\ \A i \in 1..Len(text) - n : (n+1)+i-1 = n + i
    BY <1>1
  <2>4. n + 1 <= Len(text)
    BY <1>1
  <2> QED BY <2>2, <2>3, <2>4
<1> HIDE DEF first, rest
<1>4. 0 \in 0..Len(file)
  BY <1>1
<1>5. /\ some \in Seq(S) /\ Len(some) \in Nat
      /\ Len(some) = IF Len(file) > 0 + Len(first) THEN Len(file) ELSE 0 + Len(first)
      /\ \A i \in 1..Len(some) : some[i] = IF i > 0 /\ i <= 0 + Len(first) THEN first[i - 0] ELSE file[i]
  BY <1>2, <1>4, OverwrittenIs
<1>6. /\ whole \in Seq(S) /\ Len(whole) \in Nat
      /\ Len(whole) = IF Len(file) > 0 + Len(text) THEN Len(file) ELSE 0 + Len(text)
      /\ \A i \in 1..Len(whole) : whole[i] = IF i > 0 /\ i <= 0 + Len(text) THEN text[i - 0] ELSE file[i]
  BY <1>4, OverwrittenIs
<1> HIDE DEF some, whole
<1>7. n \in 0..Len(some) /\ Len(text) - Len(rest) = n
  BY <1>1, <1>2, <1>3, <1>5
<1>8. /\ all \in Seq(S) /\ Len(all) \in Nat
      /\ Len(all) = IF Len(some) > n + Len(rest) THEN Len(some) ELSE n + Len(rest)
      /\ \A i \in 1..Len(all) : all[i] = IF i > n /\ i <= n + Len(rest) THEN rest[i - n] ELSE some[i]
  <2>1. n \in 0..Len(some)
    BY <1>7
  <2>2. some \in Seq(S) /\ rest \in Seq(S)
    BY <1>3, <1>5
  <2> QED BY <2>1, <2>2, OverwrittenIs
<1> HIDE DEF all
<1>9. Len(all) = Len(whole)
  BY <1>1, <1>2, <1>3, <1>5, <1>6, <1>8
<1>10. ASSUME NEW i \in 1..Len(all) PROVE all[i] = whole[i]
  <2>1. i \in Nat /\ i > 0 /\ i \in 1..Len(whole) /\ i - 0 = i
    BY <1>8, <1>9
  <2>2. CASE i <= n
    <3>1. i \in 1..Len(some) /\ i \in 1..n /\ i <= 0 + Len(first) /\ i <= 0 + Len(text) /\ ~(i > n)
      BY <1>1, <1>2, <1>5, <2>1, <2>2
    <3>2. all[i] = some[i]
      BY <1>8, <3>1
    <3>3. some[i] = first[i]
      BY <1>5, <2>1, <3>1
    <3>4. whole[i] = text[i]
      BY <1>6, <2>1, <3>1
    <3> QED BY <1>2, <3>1, <3>2, <3>3, <3>4
  <2>3. CASE i > n /\ i <= Len(text)
    <3>1. i <= n + Len(rest) /\ i - n \in 1..Len(text) - n /\ i <= 0 + Len(text) /\ n + (i - n) = i
      BY <1>1, <1>3, <2>1, <2>3
    <3>2. all[i] = rest[i - n]
      BY <1>8, <2>3, <3>1
    <3>3. rest[i - n] = text[n + (i - n)]
      BY <1>3, <3>1
    <3>4. whole[i] = text[i]
      BY <1>6, <2>1, <3>1
    <3> QED BY <3>1, <3>2, <3>3, <3>4
  <2>4. CASE i > Len(text)
    <3>1. ~(i <= n + Len(rest)) /\ ~(i <= 0 + Len(text)) /\ ~(i <= 0 + Len(first)) /\ i \in 1..Len(some)
      BY <1>1, <1>2, <1>3, <1>5, <1>8, <2>1, <2>4
    <3>2. all[i] = some[i]
      BY <1>8, <3>1
    <3>3. some[i] = file[i]
      BY <1>5, <3>1
    <3>4. whole[i] = file[i]
      BY <1>6, <2>1, <3>1
    <3> QED BY <3>2, <3>3, <3>4
  <2> QED BY <1>1, <2>1, <2>2, <2>3, <2>4
<1>11. all = whole
  BY <1>6, <1>8, <1>9, <1>10, SeqEqual
<1> QED BY <1>2, <1>3, <1>5, <1>7, <1>11 DEF first, rest, some, all, whole

(***************************************************************************)
(* Reading a file.                                                         *)
(***************************************************************************)

LEMMA EndOfIs ==
    ASSUME NEW cells \in Seq(Cell), NEW k \in 1..Len(cells)
    PROVE  /\ EndOf(cells, k) \in k..Len(cells)+1
           /\ EndOf(cells, k) > Len(cells) \/ cells[EndOf(cells, k)] = Newline
           /\ \A i \in k..EndOf(cells, k)-1 : cells[i] # Newline
<1> DEFINE Ends == {j \in k..Len(cells)+1 : j > Len(cells) \/ cells[j] = Newline}
<1>1. Len(cells) \in Nat /\ k \in Nat
  BY LenProperties
<1>2. PICK j \in Ends : \A i \in Ends : j <= i
  <2>1. Ends \in SUBSET Nat
    BY <1>1
  <2>2. Len(cells) + 1 \in Ends
    BY <1>1
  <2>3. Ends # {}
    BY <2>2
  <2> HIDE DEF Ends
  <2> QED BY <2>1, <2>3, Least
<1>3. ASSUME NEW i \in k..j-1 PROVE cells[i] # Newline
  <2>1. i \in k..Len(cells)+1 /\ ~(j <= i)
    BY <1>1, <1>2, <1>3
  <2> QED BY <1>2, <2>1
<1>4. \E e \in k..Len(cells)+1 :
          /\ e > Len(cells) \/ cells[e] = Newline
          /\ \A i \in k..e-1 : cells[i] # Newline
  BY <1>2, <1>3
<1> QED BY <1>4 DEF EndOf

LEMMA OneEnd ==
    ASSUME NEW cells \in Seq(Cell), NEW k \in 1..Len(cells), NEW j \in k..Len(cells)+1,
           j > Len(cells) \/ cells[j] = Newline,
           \A i \in k..j-1 : cells[i] # Newline
    PROVE  EndOf(cells, k) = j
<1> DEFINE e == EndOf(cells, k)
<1>1. Len(cells) \in Nat /\ k \in Nat /\ j \in Nat
  BY LenProperties
<1>2. e \in k..Len(cells)+1 /\ (e > Len(cells) \/ cells[e] = Newline) /\ \A i \in k..e-1 : cells[i] # Newline
  BY EndOfIs
<1> HIDE DEF e
<1>3. ~(e < j)
  <2> SUFFICES ASSUME e < j PROVE FALSE
    OBVIOUS
  <2>1. e \in k..j-1 /\ ~(e > Len(cells))
    BY <1>1, <1>2
  <2> QED BY <1>2, <2>1
<1>4. ~(j < e)
  <2> SUFFICES ASSUME j < e PROVE FALSE
    OBVIOUS
  <2>1. j \in k..e-1 /\ ~(j > Len(cells))
    BY <1>1, <1>2
  <2> QED BY <1>2, <2>1
<1> QED BY <1>1, <1>2, <1>3, <1>4 DEF e

LEMMA LineAtIs ==
    ASSUME NEW cells \in Seq(Cell), NEW k \in 1..Len(cells)
    PROVE  /\ LineAt(cells, k) \in Seq(Cell) /\ Len(LineAt(cells, k)) = EndOf(cells, k) - k
           /\ \A i \in 1..EndOf(cells, k) - k : LineAt(cells, k)[i] = cells[k + i - 1]
<1> DEFINE e == EndOf(cells, k)
<1>1. Len(cells) \in Nat /\ k \in Nat /\ k >= 1 /\ e \in k..Len(cells)+1 /\ e \in Nat
  BY LenProperties, EndOfIs
<1> HIDE DEF e
<1>2. \A i \in k..e-1 : cells[i] \in Cell
  <2>1. \A i \in k..e-1 : i \in 1..Len(cells)
    BY <1>1
  <2> QED BY <2>1, ElementOfSeq
<1>3. /\ SubSeq(cells, k, e-1) \in Seq(Cell)
      /\ Len(SubSeq(cells, k, e-1)) = IF k <= e-1 THEN (e-1)-k+1 ELSE 0
      /\ \A i \in 1..(e-1)-k+1 : SubSeq(cells, k, e-1)[i] = cells[k+i-1]
  <2>1. k \in Int /\ e - 1 \in Int
    BY <1>1
  <2> QED BY <1>2, <2>1, SubSeqProperties
<1>4. (e-1)-k+1 = e - k /\ (IF k <= e-1 THEN (e-1)-k+1 ELSE 0) = e - k
  BY <1>1
<1> QED BY <1>3, <1>4 DEF LineAt, e

LEMMA Cells ==
    ASSUME NEW cell \in Cell
    PROVE  /\ cell[1] = "md5" => cell[2] \in Songs /\ cell = <<"md5", cell[2]>>
           /\ cell[1] = "digit" => cell[2] \in 0..9 /\ cell # Newline
           /\ Newline[1] = "newline"
<1>1. CASE cell = Newline
  BY <1>1 DEF Newline
<1>2. CASE cell \in {"md5"} \X Songs
  BY <1>2 DEF Newline
<1>3. CASE cell \in {"digit"} \X (0..9)
  BY <1>3 DEF Newline
<1> QED BY <1>1, <1>2, <1>3 DEF Cell

LEMMA EntryTyped ==
    ASSUME NEW line \in Seq(Cell), Accepted(line)
    PROVE  Entry(line) \in DbEntry
<1>1. Len(line) \in Nat /\ Len(line) >= 2 /\ line[1][1] = "md5" /\ \A i \in 2..Len(line) : line[i][1] = "digit"
  BY LenProperties DEF Accepted
<1>2. line[1][2] \in Songs
  <2>1. line[1] \in Cell
    BY <1>1, ElementOfSeq
  <2> QED BY <1>1, <2>1, Cells
<1>3. ASSUME NEW i \in 1..Len(line)-1 PROVE line[i+1][2] \in 0..9
  <2>1. i + 1 \in 2..Len(line) /\ i + 1 \in 1..Len(line)
    BY <1>1
  <2>2. line[i+1] \in Cell
    BY <2>1, ElementOfSeq
  <2> QED BY <1>1, <2>1, <2>2, Cells
<1>4. [i \in 1..Len(line)-1 |-> line[i+1][2]] \in Seq(0..9)
  <2> DEFINE n == Len(line) - 1
             d(i) == line[i+1][2]
  <2>1. n \in Nat /\ \A i \in 1..n : d(i) \in 0..9
    BY <1>1, <1>3
  <2> HIDE DEF n, d
  <2>2. [i \in 1..n |-> d(i)] \in Seq(0..9)
    BY <2>1
  <2> QED BY <2>2 DEF n, d
<1> QED BY <1>2, <1>4 DEF Entry, DbEntry

\* A whole line that begins at a place is what is read there.
LEMMA WholeLine ==
    ASSUME NEW cells \in Seq(Cell), NEW k \in 1..Len(cells), NEW e \in DbEntry, Len(e.time) # 0,
           LineIsAt(cells, k, e)
    PROVE  Accepted(LineAt(cells, k)) /\ Entry(LineAt(cells, k)) = e
<1> DEFINE n == Len(e.time)
           line == LineAt(cells, k)
<1>1. Len(cells) \in Nat /\ k \in Nat /\ k >= 1
  BY LenProperties
<1>2. /\ n \in Nat /\ n # 0 /\ Len(Line(e)) = n + 2 /\ Line(e)[1] = <<"md5", e.song>>
      /\ \A i \in 1..n : Line(e)[i+1] = <<"digit", e.time[i]>>
      /\ Line(e)[n + 2] = Newline
  BY LineIs
<1>3. k + (n + 2) - 1 <= Len(cells) /\ \A c \in 1..n + 2 : cells[k + c - 1] = Line(e)[c]
  BY <1>2 DEF LineIsAt
<1> HIDE DEF n
<1>4. cells[k] = <<"md5", e.song>>
  <2>1. 1 \in 1..n + 2 /\ k + 1 - 1 = k
    BY <1>1, <1>2
  <2> QED BY <1>2, <1>3, <2>1
<1>5. ASSUME NEW i \in 1..n PROVE cells[k + i] = <<"digit", e.time[i]>>
  <2>1. i + 1 \in 1..n + 2 /\ k + (i + 1) - 1 = k + i
    BY <1>1, <1>2
  <2> QED BY <1>2, <1>3, <2>1
<1>6. cells[k + n + 1] = Newline
  <2>1. n + 2 \in 1..n + 2 /\ k + (n + 2) - 1 = k + n + 1
    BY <1>1, <1>2
  <2> QED BY <1>2, <1>3, <2>1
<1>7. EndOf(cells, k) = k + n + 1
  <2>1. k + n + 1 \in k..Len(cells)+1
    BY <1>1, <1>2, <1>3
  <2>2. ASSUME NEW i \in k..(k + n + 1)-1 PROVE cells[i] # Newline
    <3>1. CASE i = k
      BY <1>4, <3>1 DEF Newline
    <3>2. CASE i # k
      <4>1. i - k \in 1..n /\ k + (i - k) = i
        BY <1>1, <1>2, <2>2, <3>2
      <4> QED BY <1>5, <4>1 DEF Newline
    <3> QED BY <3>1, <3>2
  <2> QED BY <1>6, <2>1, <2>2, OneEnd
<1>8. Len(line) = n + 1 /\ \A i \in 1..n + 1 : line[i] = cells[k + i - 1]
  <2>1. EndOf(cells, k) - k = n + 1
    BY <1>1, <1>2, <1>7
  <2> QED BY <2>1, LineAtIs
<1> HIDE DEF line
<1>9. line[1] = <<"md5", e.song>>
  <2>1. 1 \in 1..n + 1 /\ k + 1 - 1 = k
    BY <1>1, <1>2
  <2> QED BY <1>4, <1>8, <2>1
<1>10. ASSUME NEW i \in 1..n PROVE line[i+1] = <<"digit", e.time[i]>>
  <2>1. i + 1 \in 1..n + 1 /\ k + (i + 1) - 1 = k + i
    BY <1>1, <1>2
  <2> QED BY <1>5, <1>8, <2>1
<1>11. Accepted(line)
  <2>1. Len(line) >= 2
    BY <1>2, <1>8
  <2>2. ASSUME NEW i \in 2..Len(line) PROVE line[i][1] = "digit"
    <3>1. i - 1 \in 1..n /\ (i - 1) + 1 = i
      BY <1>2, <1>8, <2>2
    <3>2. line[i] = <<"digit", e.time[i-1]>>
      BY <1>10, <3>1
    <3> QED BY <3>2
  <2> QED BY <1>9, <2>1, <2>2 DEF Accepted
<1>12. Entry(line) = e
  <2>1. e.time \in Seq(0..9) /\ e = [song |-> e.song, time |-> e.time]
    BY DEF DbEntry
  <2>2. Len(line) - 1 = n
    BY <1>2, <1>8
  <2>3. \A i \in 1..n : line[i+1][2] = e.time[i]
    BY <1>10
  <2>4. e.time = [i \in 1..n |-> e.time[i]]
    BY <2>1, LenProperties DEF n
  <2>5. [i \in 1..n |-> line[i+1][2]] = [i \in 1..n |-> e.time[i]]
    BY <2>3
  <2>6. line[1][2] = e.song
    BY <1>9
  <2> QED BY <2>1, <2>2, <2>4, <2>5, <2>6 DEF Entry
<1> QED BY <1>11, <1>12 DEF line

\* The entries of a file are those of its accepted lines, in some order.
LEMMA EntriesAre ==
    ASSUME NEW cells \in Seq(Cell)
    PROVE  /\ Entries(cells) \in Seq(DbEntry)
           /\ ToSet(Entries(cells)) = {Entry(LineAt(cells, k)) : k \in Starts(cells)}
<1> DEFINE S == Starts(cells)
           at == SetToSeq(S)
           n == Cardinality(S)
           e(i) == Entry(LineAt(cells, at[i]))
<1>1. Len(cells) \in Nat /\ DOMAIN cells = 1..Len(cells)
  BY LenProperties
<1>2. S \subseteq 1..Len(cells)
  BY <1>1 DEF Starts
<1>3. IsFiniteSet(S)
  <2> HIDE DEF S
  <2>1. IsFiniteSet(1..Len(cells)) /\ S \in SUBSET (1..Len(cells))
    BY <1>1, <1>2, FS_Interval
  <2> QED BY <2>1, FS_Subset
<1>4. n \in Nat /\ at \in [1..n -> S] /\ \A k \in S : \E i \in 1..n : at[i] = k
  BY <1>3, Listed
<1>5. \A k \in S : Entry(LineAt(cells, k)) \in DbEntry
  <2>1. ASSUME NEW k \in S PROVE Entry(LineAt(cells, k)) \in DbEntry
    <3>1. k \in 1..Len(cells) /\ Accepted(LineAt(cells, k))
      BY <1>2 DEF Starts
    <3> QED BY <3>1, LineAtIs, EntryTyped
  <2> QED BY <2>1
<1>6. DOMAIN at = 1..n
  BY <1>4
<1>7. Entries(cells) = [i \in 1..n |-> e(i)]
  BY <1>6 DEF Entries
<1> HIDE DEF S, n
<1>8. \A i \in 1..n : at[i] \in S
  BY <1>4
<1>9. \A i \in 1..n : e(i) \in DbEntry
  BY <1>5, <1>8
<1>10. [i \in 1..n |-> e(i)] \in Seq(DbEntry)
  <2> HIDE DEF e, at
  <2> QED BY <1>4, <1>9
<1>11. ToSet([i \in 1..n |-> e(i)]) = {Entry(LineAt(cells, k)) : k \in S}
  <2>1. ToSet([i \in 1..n |-> e(i)]) = {e(i) : i \in 1..n}
    BY DEF ToSet
  <2> HIDE DEF at
  <2> QED BY <1>4, <1>8, <2>1
<1> QED BY <1>7, <1>10, <1>11 DEF S

\* What a file gives that has only whole lines is real.
LEMMA RealEntries ==
    ASSUME NEW cells \in Seq(Cell), RealLines(cells), NEW x \in ToSet(Entries(cells))
    PROVE  Real(x)
<1>1. PICK k \in Starts(cells) : x = Entry(LineAt(cells, k))
  BY EntriesAre
<1>2. k \in 1..Len(cells) /\ Len(cells) \in Nat /\ Accepted(LineAt(cells, k))
  BY LenProperties DEF Starts
<1>3. cells[k][1] = "md5" /\ cells[k] \in Cell
  <2>1. Len(LineAt(cells, k)) >= 2 /\ LineAt(cells, k)[1][1] = "md5"
    BY <1>2 DEF Accepted
  <2>2. LineAt(cells, k)[1] = cells[k]
    <3>1. EndOf(cells, k) \in k..Len(cells)+1 /\ k + 1 - 1 = k
      BY <1>2, EndOfIs
    <3>2. Len(LineAt(cells, k)) = EndOf(cells, k) - k
      BY <1>2, LineAtIs
    <3>3. 1 \in 1..EndOf(cells, k) - k
      BY <1>2, <2>1, <3>1, <3>2
    <3>4. \A i \in 1..EndOf(cells, k) - k : LineAt(cells, k)[i] = cells[k + i - 1]
      BY <1>2, LineAtIs
    <3>5. LineAt(cells, k)[1] = cells[k + 1 - 1]
      BY <3>3, <3>4
    <3> QED BY <3>1, <3>5
  <2> QED BY <1>2, <2>1, <2>2, ElementOfSeq
<1> DEFINE song == cells[k][2]
<1>4. song \in Songs
  BY <1>3, Cells
<1>5. PICK time \in Times[song] : LineIsAt(cells, k, [song |-> song, time |-> time])
  BY <1>2, <1>3 DEF RealLines
<1>6. time \in Seq(0..9) \ {<<>>}
  BY <1>4, <1>5, SongDbAssumption
<1> DEFINE e == [song |-> song, time |-> time]
<1>7. e \in DbEntry /\ Len(e.time) # 0 /\ e.time \in Times[e.song]
  BY <1>4, <1>5, <1>6, EmptySeq DEF DbEntry
<1>8. Entry(LineAt(cells, k)) = e
  BY <1>2, <1>5, <1>7, WholeLine
<1> QED BY <1>1, <1>7, <1>8 DEF Real

\* A save leaves only whole lines, whatever it writes over.
LEMMA SaveKeepsReal ==
    ASSUME NEW old \in Seq(Cell), RealLines(old),
           NEW mem \in Seq(DbEntry), \A x \in ToSet(mem) : Real(x)
    PROVE  RealLines(Overwritten(old, 0, Text(mem)))
<1> DEFINE text == Text(mem)
           all == Overwritten(old, 0, text)
<1>1. /\ text \in Seq(Cell) /\ Len(text) \in Nat /\ Len(text) = Offset(mem, Len(mem)+1)
      /\ \A k \in 1..Len(text) :
             /\ LineOf(mem, k) \in 1..Len(mem)
             /\ k - Offset(mem, LineOf(mem, k)) \in 1..Len(Line(mem[LineOf(mem, k)]))
      /\ \A i \in 1..Len(mem) : \A c \in 1..Len(Line(mem[i])) :
             /\ Offset(mem, i) + c \in 1..Len(text)
             /\ text[Offset(mem, i) + c] = Line(mem[i])[c]
  BY TextIs
<1> HIDE DEF text
<1>2. /\ all \in Seq(Cell) /\ Len(all) \in Nat /\ Len(old) \in Nat /\ Len(all) >= Len(old) /\ Len(all) >= 0 + Len(text)
      /\ \A j \in 1..Len(text) : 0 + j \in 1..Len(all) /\ all[0 + j] = text[j]
      /\ \A i \in 1..Len(all) : i <= 0 \/ i > 0 + Len(text) => i \in 1..Len(old) /\ all[i] = old[i]
  <2>1. 0 \in 0..Len(old)
    BY LenProperties
  <2> QED BY <1>1, <2>1, SamePlaces
<1>3. \A j \in 1..Len(text) : j \in 1..Len(all) /\ all[j] = text[j]
  <2>1. \A j \in 1..Len(text) : 0 + j = j
    BY <1>1
  <2> QED BY <1>2, <2>1
<1> HIDE DEF all
<1>4. ASSUME NEW k \in 1..Len(all), all[k][1] = "md5"
      PROVE  \E time \in Times[all[k][2]] : LineIsAt(all, k, [song |-> all[k][2], time |-> time])
  <2>1. CASE k <= Len(text)
    <3> DEFINE i == LineOf(mem, k)
               c == k - Offset(mem, i)
               e == mem[i]
    <3>1. k \in 1..Len(text)
      BY <1>1, <1>2, <2>1
    <3>2. i \in 1..Len(mem) /\ c \in 1..Len(Line(e))
      BY <1>1, <3>1
    <3>3. e \in DbEntry /\ e \in ToSet(mem)
      BY <3>2, ElementOfSeq, LenProperties DEF ToSet
    <3>4. Offset(mem, i) \in Nat
      <4>1. i \in 1..Len(mem)+1
        BY <3>2, LenProperties
      <4> QED BY <4>1, OffsetIs
    <3>5. Offset(mem, i) + c = k
      BY <1>2, <3>4
    <3> HIDE DEF c, i
    <3>6. text[k] = Line(e)[c] /\ all[k] = text[k]
      BY <1>1, <1>3, <3>1, <3>2, <3>5
    <3>7. /\ Len(e.time) \in Nat /\ Len(Line(e)) = Len(e.time) + 2 /\ Line(e)[1] = <<"md5", e.song>>
          /\ \A j \in 1..Len(e.time) : Line(e)[j+1] = <<"digit", e.time[j]>>
          /\ Line(e)[Len(e.time) + 2] = Newline
      BY <3>3, LineIs
    <3>8. c = 1
      <4>1. CASE c = Len(e.time) + 2
        <5>1. all[k] = Newline
          BY <3>6, <3>7, <4>1
        <5> QED BY <1>4, <5>1 DEF Newline
      <4>2. CASE c # Len(e.time) + 2 /\ c # 1
        <5>1. c - 1 \in 1..Len(e.time) /\ (c - 1) + 1 = c
          BY <3>2, <3>7, <4>2
        <5>2. Line(e)[c] = <<"digit", e.time[c-1]>>
          BY <3>7, <5>1
        <5> QED BY <1>4, <3>6, <5>2
      <4> QED BY <4>1, <4>2
    <3>9. all[k] = <<"md5", e.song>>
      BY <3>6, <3>7, <3>8
    <3>10. e = [song |-> all[k][2], time |-> e.time] /\ e.time \in Times[all[k][2]]
      <4>1. Real(e)
        BY <3>3
      <4> QED BY <3>3, <3>9, <4>1 DEF Real, DbEntry
    <3>11. LineIsAt(all, k, e)
      <4> HIDE DEF e
      <4>1. ASSUME NEW d \in 1..Len(Line(e)) PROVE k + d - 1 \in 1..Len(all) /\ all[k + d - 1] = Line(e)[d]
        <5>1. k + d - 1 = Offset(mem, i) + d
          <6>1. d \in Nat /\ k = Offset(mem, i) + 1
            BY <3>5, <3>7, <3>8
          <6> QED BY <3>4, <6>1
        <5>2. Offset(mem, i) + d \in 1..Len(text) /\ text[Offset(mem, i) + d] = Line(e)[d]
          BY <1>1, <3>2 DEF e
        <5> QED BY <1>3, <5>1, <5>2
      <4>2. Len(Line(e)) \in 1..Len(Line(e)) /\ Len(Line(e)) \in Nat
        BY <3>7
      <4>3. k + Len(Line(e)) - 1 <= Len(all)
        <5>1. k + Len(Line(e)) - 1 \in 1..Len(all)
          BY <4>1, <4>2
        <5> QED BY <1>2, <5>1
      <4> QED BY <4>1, <4>3 DEF LineIsAt
    <3> HIDE DEF e
    <3> QED BY <3>10, <3>11
  <2>2. CASE k > Len(text)
    <3>1. k \in 1..Len(old) /\ all[k] = old[k]
      <4>1. k > 0 + Len(text)
        BY <1>1, <1>2, <2>2
      <4> QED BY <1>2, <4>1
    <3>2. PICK time \in Times[old[k][2]] : LineIsAt(old, k, [song |-> old[k][2], time |-> time])
      BY <1>4, <3>1 DEF RealLines
    <3> DEFINE e == [song |-> old[k][2], time |-> time]
    <3>3. old[k][2] \in Songs
      <4>1. old[k] \in Cell
        BY <3>1, ElementOfSeq
      <4> QED BY <1>4, <3>1, <4>1, Cells
    <3>4. e \in DbEntry
      <4>1. time \in Seq(0..9)
        BY <3>2, <3>3, SongDbAssumption
      <4> QED BY <3>3, <4>1 DEF DbEntry
    <3>5. Len(Line(e)) \in Nat
      BY <3>4, LineIs
    <3>6. LineIsAt(old, k, e)
      BY <3>2
    <3> HIDE DEF e
    <3>7. LineIsAt(all, k, e)
      <4>1. k + Len(Line(e)) - 1 <= Len(old) /\ \A c \in 1..Len(Line(e)) : old[k + c - 1] = Line(e)[c]
        BY <3>6 DEF LineIsAt
      <4>2. ASSUME NEW c \in 1..Len(Line(e)) PROVE all[k + c - 1] = old[k + c - 1]
        <5>1. k + c - 1 \in 1..Len(all) /\ k + c - 1 > 0 + Len(text)
          BY <1>1, <1>2, <2>2, <3>5, <4>1
        <5> QED BY <1>2, <5>1
      <4>3. k + Len(Line(e)) - 1 <= Len(all)
        BY <1>2, <3>5, <4>1
      <4> QED BY <4>1, <4>2, <4>3 DEF LineIsAt
    <3>8. e = [song |-> all[k][2], time |-> time] /\ time \in Times[all[k][2]]
      BY <3>1, <3>2 DEF e
    <3> QED BY <3>7, <3>8
  <2>3. k <= Len(text) \/ k > Len(text)
    BY <1>1, <1>2
  <2> QED BY <2>1, <2>2, <2>3
<1>5. RealLines(all)
  BY <1>4 DEF RealLines
<1> QED BY <1>5 DEF all, text

\* What is saved can be read, whatever is written over.
LEMMA SavedIsRead ==
    ASSUME NEW old \in Seq(Cell),
           NEW mem \in Seq(DbEntry), \A x \in ToSet(mem) : Len(x.time) # 0
    PROVE  ToSet(mem) \subseteq ToSet(Entries(Overwritten(old, 0, Text(mem))))
<1> DEFINE text == Text(mem)
           all == Overwritten(old, 0, text)
<1>1. /\ text \in Seq(Cell) /\ Len(text) \in Nat
      /\ \A i \in 1..Len(mem) : \A c \in 1..Len(Line(mem[i])) :
             /\ Offset(mem, i) + c \in 1..Len(text)
             /\ text[Offset(mem, i) + c] = Line(mem[i])[c]
  BY TextIs
<1> HIDE DEF text
<1>2. /\ all \in Seq(Cell) /\ Len(all) \in Nat
      /\ \A j \in 1..Len(text) : j \in 1..Len(all) /\ all[j] = text[j]
  <2>1. 0 \in 0..Len(old)
    BY LenProperties
  <2>2. /\ all \in Seq(Cell) /\ Len(all) \in Nat /\ Len(old) \in Nat /\ Len(text) \in Nat
        /\ Len(all) >= Len(old) /\ Len(all) >= 0 + Len(text)
        /\ \A j \in 1..Len(text) : 0 + j \in 1..Len(all) /\ all[0 + j] = text[j]
        /\ \A i \in 1..Len(all) : i <= 0 \/ i > 0 + Len(text) => i \in 1..Len(old) /\ all[i] = old[i]
    BY <1>1, <2>1, SamePlaces
  <2>3. \A j \in 1..Len(text) : 0 + j = j
    BY <1>1
  <2> QED BY <2>2, <2>3
<1> HIDE DEF all
<1>3. \A i \in 1..Len(mem) : \A c \in 1..Len(Line(mem[i])) :
          /\ Offset(mem, i) + c \in 1..Len(all)
          /\ all[Offset(mem, i) + c] = Line(mem[i])[c]
  BY <1>1, <1>2
<1>4. ASSUME NEW i \in 1..Len(mem) PROVE mem[i] \in ToSet(Entries(all))
  <2> DEFINE e == mem[i]
             k == Offset(mem, i) + 1
  <2>1. e \in DbEntry /\ e \in ToSet(mem) /\ Len(mem) \in Nat
    BY ElementOfSeq, LenProperties DEF ToSet
  <2>2. Len(e.time) \in Nat /\ Len(e.time) # 0 /\ Len(Line(e)) = Len(e.time) + 2
    BY <2>1, LineIs
  <2>3. Offset(mem, i) \in Nat
    <3>1. i \in 1..Len(mem)+1
      BY <2>1
    <3> QED BY <3>1, OffsetIs
  <2>4. k \in 1..Len(all)
    <3>1. 1 \in 1..Len(Line(e))
      BY <2>2
    <3> QED BY <1>3, <3>1
  <2>5. LineIsAt(all, k, e)
    <3>1. ASSUME NEW c \in 1..Len(Line(e)) PROVE k + c - 1 \in 1..Len(all) /\ all[k + c - 1] = Line(e)[c]
      <4>1. c \in Nat
        BY <2>2
      <4>2. k + c - 1 = Offset(mem, i) + c
        BY <2>3, <4>1
      <4> HIDE DEF k
      <4> QED BY <1>3, <4>2
    <3>2. Len(Line(e)) \in 1..Len(Line(e))
      BY <2>2
    <3>3. k + Len(Line(e)) - 1 \in 1..Len(all)
      BY <3>1, <3>2
    <3> HIDE DEF k, e
    <3>4. k + Len(Line(e)) - 1 <= Len(all)
      BY <1>2, <3>3
    <3> QED BY <3>1, <3>4 DEF LineIsAt
  <2>6. k = 1 \/ all[k-1] = Newline
    <3>1. CASE i = 1
      <4>1. Offset(mem, 1) = 0
        BY OffsetIs
      <4> QED BY <3>1, <4>1
    <3>2. CASE i # 1
      <4> DEFINE j == i - 1
      <4>1. j \in 1..Len(mem) /\ j \in 1..Len(mem)+1 /\ j + 1 = i
        BY <2>1, <3>2
      <4> HIDE DEF j
      <4>2. mem[j] \in DbEntry
        BY <4>1, ElementOfSeq
      <4>3. /\ Len(mem[j].time) \in Nat /\ Len(Line(mem[j])) = Len(mem[j].time) + 2
            /\ Line(mem[j])[Len(mem[j].time) + 2] = Newline
        BY <4>2, LineIs
      <4>4. Offset(mem, i) = Offset(mem, j) + Len(mem[j].time) + 2 /\ Offset(mem, j) \in Nat
        BY <4>1, OffsetIs
      <4>5. Len(mem[j].time) + 2 \in 1..Len(Line(mem[j]))
        BY <4>3
      <4>6. all[Offset(mem, j) + (Len(mem[j].time) + 2)] = Newline
        BY <1>3, <4>1, <4>3, <4>5
      <4>7. k - 1 = Offset(mem, j) + (Len(mem[j].time) + 2)
        <5>1. k - 1 = Offset(mem, i)
          BY <2>3
        <5> HIDE DEF k
        <5> QED BY <4>3, <4>4, <5>1
      <4> QED BY <4>6, <4>7
    <3> QED BY <3>1, <3>2
  <2> HIDE DEF e, k
  <2>7. Accepted(LineAt(all, k)) /\ Entry(LineAt(all, k)) = e
    BY <1>2, <2>1, <2>2, <2>4, <2>5, WholeLine
  <2>8. k \in Starts(all)
    <3>1. k \in DOMAIN all
      BY <1>2, <2>4, LenProperties
    <3> QED BY <2>6, <2>7, <3>1 DEF Starts
  <2>9. e \in ToSet(Entries(all))
    BY <1>2, <2>7, <2>8, EntriesAre
  <2> QED BY <2>9 DEF e
<1>5. \A x \in ToSet(mem) : \E i \in 1..Len(mem) : x = mem[i]
  BY LenProperties DEF ToSet
<1> QED BY <1>4, <1>5 DEF all, text

(***************************************************************************)
(* Entries in memory.                                                      *)
(***************************************************************************)

LEMMA SortedIs ==
    ASSUME NEW mem \in Seq(DbEntry), NEW m \in Sortings(mem)
    PROVE  m \in Seq(DbEntry) /\ Sorted(m) /\ ToSet(m) = ToSet(mem)
<1> DEFINE n == Len(mem)
<1>1. n \in Nat /\ DOMAIN mem = 1..n /\ \A i \in 1..n : mem[i] \in DbEntry
  BY LenProperties, ElementOfSeq
<1>2. PICK f \in Bijection(1..n, 1..n) : m = [i \in 1..n |-> mem[f[i]]]
  BY <1>1 DEF Sortings
<1>3. f \in [1..n -> 1..n] /\ \A j \in 1..n : \E i \in 1..n : f[i] = j
  BY <1>2 DEF Bijection, Injection, Surjection
<1>4. Sorted(m)
  BY DEF Sortings
<1> HIDE DEF n
<1>5. m \in Seq(DbEntry)
  <2>1. \A i \in 1..n : mem[f[i]] \in DbEntry
    BY <1>1, <1>3
  <2> QED BY <1>1, <1>2, <2>1
<1>6. ToSet(m) = {mem[f[i]] : i \in 1..n}
  BY <1>2 DEF ToSet
<1>7. ToSet(mem) = {mem[i] : i \in 1..n}
  BY <1>1 DEF ToSet
<1>8. {mem[f[i]] : i \in 1..n} = {mem[i] : i \in 1..n}
  BY <1>3
<1> QED BY <1>4, <1>5, <1>6, <1>7, <1>8

LEMMA StoredIs ==
    ASSUME NEW mem \in Seq(DbEntry), NEW read \in Seq(DbEntry)
    PROVE  /\ store_playtimes(mem, read) \in Seq(DbEntry)
           /\ ToSet(mem) \subseteq ToSet(store_playtimes(mem, read))
           /\ ToSet(store_playtimes(mem, read)) \subseteq ToSet(mem) \cup ToSet(read)
<1> DEFINE S == {i \in DOMAIN read : Matches(mem, read[i].song) = {}}
           at == SetToSeq(S)
           n == Cardinality(S)
           new == [i \in 1..n |-> read[at[i]]]
<1>1. Len(read) \in Nat /\ DOMAIN read = 1..Len(read)
  BY LenProperties
<1>2. IsFiniteSet(S)
  <2>1. IsFiniteSet(1..Len(read)) /\ S \in SUBSET (1..Len(read))
    BY <1>1, FS_Interval
  <2> HIDE DEF S
  <2> QED BY <2>1, FS_Subset
<1>3. n \in Nat /\ at \in [1..n -> S]
  BY <1>2, Listed
<1>4. store_playtimes(mem, read) = mem \o new
  <2>1. DOMAIN at = 1..n
    BY <1>3
  <2> QED BY <2>1 DEF store_playtimes
<1>5. \A i \in 1..n : at[i] \in 1..Len(read)
  <2>1. S \subseteq 1..Len(read)
    BY <1>1
  <2> HIDE DEF S
  <2> QED BY <1>3, <2>1
<1>6. \A i \in 1..n : read[at[i]] \in DbEntry /\ read[at[i]] \in ToSet(read)
  <2>1. \A j \in 1..Len(read) : read[j] \in DbEntry /\ read[j] \in ToSet(read)
    BY <1>1, ElementOfSeq DEF ToSet
  <2> HIDE DEF at, n
  <2> QED BY <1>5, <2>1
<1> HIDE DEF S, at, n
<1>7. new \in Seq(DbEntry) /\ Len(new) = n /\ \A i \in 1..n : new[i] \in ToSet(read)
  BY <1>3, <1>6
<1> HIDE DEF new
<1> DEFINE both == mem \o new
<1>8. /\ both \in Seq(DbEntry) /\ Len(both) = Len(mem) + Len(new)
      /\ \A i \in 1..Len(mem) + Len(new) : both[i] = IF i <= Len(mem) THEN mem[i] ELSE new[i - Len(mem)]
  BY <1>7, ConcatProperties
<1> HIDE DEF both
<1>9. Len(mem) \in Nat /\ DOMAIN mem = 1..Len(mem) /\ DOMAIN both = 1..Len(both)
  BY <1>8, LenProperties
<1>10. ASSUME NEW x \in ToSet(mem) PROVE x \in ToSet(both)
  <2>1. PICK i \in 1..Len(mem) : x = mem[i]
    BY <1>9 DEF ToSet
  <2>2. i \in DOMAIN both /\ both[i] = mem[i]
    BY <1>3, <1>7, <1>8, <1>9
  <2> QED BY <2>1, <2>2 DEF ToSet
<1>11. ASSUME NEW x \in ToSet(both) PROVE x \in ToSet(mem) \cup ToSet(read)
  <2>1. PICK i \in 1..Len(both) : x = both[i]
    BY <1>9 DEF ToSet
  <2>2. CASE i <= Len(mem)
    <3>1. i \in DOMAIN mem /\ both[i] = mem[i]
      BY <1>3, <1>7, <1>8, <1>9, <2>2
    <3> QED BY <2>1, <3>1 DEF ToSet
  <2>3. CASE ~(i <= Len(mem))
    <3>1. i - Len(mem) \in 1..n /\ both[i] = new[i - Len(mem)]
      BY <1>3, <1>7, <1>8, <1>9, <2>3
    <3> QED BY <1>7, <2>1, <3>1
  <2> QED BY <2>2, <2>3
<1> QED BY <1>4, <1>8, <1>10, <1>11 DEF both

\* A playtime that has been determined is in memory, with what was there of other songs.
LEMMA AddedIs ==
    ASSUME NEW mem \in Seq(DbEntry), Sorted(mem), NEW song \in Songs, NEW time \in Seq(0..9),
           NEW m \in Added(mem, song, time)
    PROVE  /\ m \in Seq(DbEntry) /\ Sorted(m) /\ [song |-> song, time |-> time] \in ToSet(m)
           /\ \A x \in ToSet(mem) : x.song # song => x \in ToSet(m)
           /\ ToSet(m) \subseteq ToSet(mem) \cup {[song |-> song, time |-> time]}
<1> DEFINE n == Len(mem)
           e == [song |-> song, time |-> time]
<1>1. n \in Nat /\ DOMAIN mem = 1..n /\ (\A i \in 1..n : mem[i] \in DbEntry) /\ e \in DbEntry
  BY LenProperties, ElementOfSeq DEF DbEntry
<1>2. CASE Matches(mem, song) # {}
  <2>1. PICK i \in Matches(mem, song) : m = [mem EXCEPT ![i].time = time]
    BY <1>2 DEF Added
  <2>2. i \in 1..n /\ mem[i].song = song
    BY <1>1, <2>1 DEF Matches
  <2>3. [mem[i] EXCEPT !.time = time] = e
    BY <1>1, <2>2 DEF DbEntry
  <2>4. m = [j \in 1..n |-> IF j = i THEN e ELSE mem[j]]
    BY <1>1, <2>1, <2>2, <2>3
  <2> HIDE DEF e, n
  <2>5. \A j \in 1..n : (IF j = i THEN e ELSE mem[j]) \in DbEntry
    BY <1>1
  <2>6. m \in Seq(DbEntry)
    BY <1>1, <2>4, <2>5
  <2>7. DOMAIN m = 1..n /\ \A j \in 1..n : m[j].song = mem[j].song
    BY <2>2, <2>4 DEF e
  <2>8. Sorted(m)
    BY <1>1, <2>7 DEF Sorted
  <2>9. e \in ToSet(m)
    BY <2>2, <2>4, <2>7 DEF ToSet
  <2>10. ASSUME NEW x \in ToSet(mem), x.song # song PROVE x \in ToSet(m)
    <3>1. PICK j \in 1..n : x = mem[j]
      BY <1>1 DEF ToSet
    <3>2. m[j] = x
      BY <2>2, <2>4, <2>10, <3>1
    <3> QED BY <2>7, <3>2 DEF ToSet
  <2>11. ASSUME NEW x \in ToSet(m) PROVE x \in ToSet(mem) \cup {e}
    <3>1. PICK j \in 1..n : x = m[j]
      BY <2>7 DEF ToSet
    <3>2. x = e \/ x = mem[j]
      BY <2>4, <3>1
    <3> QED BY <1>1, <3>2 DEF ToSet
  <2> QED BY <2>6, <2>8, <2>9, <2>10, <2>11 DEF e
<1>3. CASE Matches(mem, song) = {}
  <2> DEFINE more == Append(mem, e)
  <2>1. m \in Sortings(more)
    BY <1>3 DEF Added
  <2>2. /\ more \in Seq(DbEntry) /\ Len(more) = n + 1
        /\ (\A i \in 1..n : more[i] = mem[i]) /\ more[n+1] = e
    BY <1>1, AppendProperties
  <2>3. DOMAIN more = 1..n+1
    BY <2>2, LenProperties
  <2> HIDE DEF more, e, n
  <2>4. ToSet(more) = ToSet(mem) \cup {e}
    BY <1>1, <2>2, <2>3 DEF ToSet
  <2>5. m \in Seq(DbEntry) /\ Sorted(m) /\ ToSet(m) = ToSet(more)
    BY <2>1, <2>2, SortedIs
  <2> QED BY <2>4, <2>5 DEF e
<1> QED BY <1>2, <1>3

(***************************************************************************)
(* song.conf.                                                              *)
(***************************************************************************)

LEMMA RemovedIs ==
    ASSUME NEW lines \in Seq(ConfLine), NEW i \in 1..Len(lines)
    PROVE  /\ RemoveAt(lines, i) \in Seq(ConfLine) /\ Len(RemoveAt(lines, i)) = Len(lines) - 1
           /\ \A k \in 1..Len(lines) - 1 : RemoveAt(lines, i)[k] = IF k < i THEN lines[k] ELSE lines[k+1]
<1> DEFINE n == Len(lines)
           before == SubSeq(lines, 1, i-1)
           after == SubSeq(lines, i+1, n)
<1>1. n \in Nat /\ i \in Nat /\ i >= 1 /\ i <= n /\ \A k \in 1..n : lines[k] \in ConfLine
  BY LenProperties, ElementOfSeq
<1>2. before \in Seq(ConfLine) /\ Len(before) = i - 1 /\ \A k \in 1..i-1 : before[k] = lines[k]
  <2>1. \A k \in 1..i-1 : lines[k] \in ConfLine
    BY <1>1
  <2>2. 1 \in Int /\ i - 1 \in Int
    BY <1>1
  <2>3. /\ before \in Seq(ConfLine) /\ Len(before) = (IF 1 <= i-1 THEN (i-1)-1+1 ELSE 0)
        /\ \A k \in 1..(i-1)-1+1 : before[k] = lines[1+k-1]
    BY <2>1, <2>2, SubSeqProperties
  <2> HIDE DEF before
  <2>4. (i-1)-1+1 = i-1 /\ \A k \in 1..i-1 : 1+k-1 = k
    BY <1>1
  <2> QED BY <1>1, <2>3, <2>4
<1>3. after \in Seq(ConfLine) /\ Len(after) = n - i /\ \A k \in 1..n-i : after[k] = lines[i+k]
  <2>1. \A k \in i+1..n : lines[k] \in ConfLine
    BY <1>1
  <2>2. i + 1 \in Int /\ n \in Int
    BY <1>1
  <2>3. /\ after \in Seq(ConfLine) /\ Len(after) = (IF i+1 <= n THEN n-(i+1)+1 ELSE 0)
        /\ \A k \in 1..n-(i+1)+1 : after[k] = lines[(i+1)+k-1]
    BY <2>1, <2>2, SubSeqProperties
  <2> HIDE DEF after, n
  <2>4. n-(i+1)+1 = n-i /\ \A k \in 1..n-i : (i+1)+k-1 = i+k
    BY <1>1
  <2> QED BY <1>1, <2>3, <2>4
<1>4. RemoveAt(lines, i) = before \o after
  BY DEF RemoveAt
<1> HIDE DEF before, after
<1> DEFINE all == before \o after
<1>5. /\ all \in Seq(ConfLine) /\ Len(all) = Len(before) + Len(after)
      /\ \A k \in 1..Len(before) + Len(after) : all[k] = IF k <= Len(before) THEN before[k] ELSE after[k - Len(before)]
  BY <1>2, <1>3, ConcatProperties
<1> HIDE DEF all, n
<1>6. Len(before) + Len(after) = n - 1
  BY <1>1, <1>2, <1>3
<1>7. ASSUME NEW k \in 1..n-1 PROVE all[k] = IF k < i THEN lines[k] ELSE lines[k+1]
  <2>1. CASE k < i
    <3>1. k \in 1..i-1 /\ k <= Len(before) /\ k \in 1..Len(before) + Len(after)
      BY <1>1, <1>2, <1>6, <2>1
    <3> QED BY <1>2, <1>5, <2>1, <3>1
  <2>2. CASE ~(k < i)
    <3>1. k - Len(before) \in 1..n-i /\ ~(k <= Len(before)) /\ k \in 1..Len(before) + Len(after)
      BY <1>1, <1>2, <1>6, <2>2
    <3>2. i + (k - Len(before)) = k + 1
      BY <1>1, <1>2
    <3>3. all[k] = after[k - Len(before)]
      BY <1>5, <3>1
    <3>4. after[k - Len(before)] = lines[i + (k - Len(before))]
      BY <1>3, <3>1
    <3> QED BY <2>2, <3>2, <3>3, <3>4
  <2> QED BY <2>1, <2>2
<1> QED BY <1>4, <1>5, <1>6, <1>7 DEF all, n

\* What is kept of the old lines: all of them but the first of the song.
Remaining(lines, s) ==
    LET old == {i \in DOMAIN lines : lines[i].song = s}
    IN  IF old = {} THEN lines ELSE RemoveAt(lines, CHOOSE i \in old : \A j \in old : i <= j)

LEMMA KeptIs ==
    ASSUME NEW lines \in Seq(ConfLine), NEW s \in Songs
    PROVE  Remaining(lines, s) \in Seq(ConfLine)
<1> DEFINE old == {i \in DOMAIN lines : lines[i].song = s}
<1>1. CASE old = {}
  BY <1>1 DEF Remaining
<1>2. CASE old # {}
  <2>1. DOMAIN lines = 1..Len(lines) /\ Len(lines) \in Nat
    BY LenProperties
  <2>2. \E i \in old : \A j \in old : i <= j
    <3>1. old \in SUBSET Nat
      BY <2>1
    <3> HIDE DEF old
    <3> QED BY <1>2, <3>1, Least
  <2> DEFINE i == CHOOSE i \in old : \A j \in old : i <= j
  <2>3. i \in old
    BY <2>2
  <2>4. i \in 1..Len(lines)
    BY <2>1, <2>3
  <2>5. Remaining(lines, s) = RemoveAt(lines, i)
    BY <1>2 DEF Remaining
  <2> HIDE DEF i
  <2> QED BY <2>4, <2>5, RemovedIs
<1> QED BY <1>1, <1>2

LEMMA KeptHasOneLine ==
    ASSUME NEW lines \in Seq(ConfLine), NEW s \in Songs, NEW w \in [Songs -> Options \cup {None}],
           OneLine(lines, w)
    PROVE  OneLine(Remaining(lines, s), [w EXCEPT ![s] = None])
<1> DEFINE n == Len(lines)
           old == {i \in DOMAIN lines : lines[i].song = s}
           v == [w EXCEPT ![s] = None]
           kept == Remaining(lines, s)
<1>1. n \in Nat /\ DOMAIN lines = 1..n
  BY LenProperties
<1>2. old = Matches(lines, s)
  BY DEF Matches
<1>3. v[s] = None /\ \A r \in Songs : r # s => v[r] = w[r]
  OBVIOUS
<1>4. CASE old = {}
  <2>1. kept = lines
    BY <1>4 DEF Remaining
  <2> HIDE DEF v, kept, old
  <2> QED BY <1>2, <1>3, <1>4, <2>1 DEF OneLine, v, kept
<1>5. CASE old # {}
  <2>1. PICK i \in DOMAIN lines : old = {i}
    BY <1>2, <1>5 DEF OneLine
  <2>2. (CHOOSE j \in old : \A l \in old : j <= l) = i
    <3>1. \E j \in old : \A l \in old : j <= l
      BY <1>1, <2>1
    <3>2. (CHOOSE j \in old : \A l \in old : j <= l) \in old
      BY <3>1
    <3> QED BY <2>1, <3>2
  <2>3. kept = RemoveAt(lines, i)
    BY <1>5, <2>2 DEF Remaining
  <2>4. i \in 1..n /\ lines[i].song = s /\ \A j \in 1..n : lines[j].song = s => j = i
    <3>1. i \in old /\ \A j \in DOMAIN lines : lines[j].song = s => j \in old
      BY <2>1
    <3> HIDE DEF old
    <3>2. lines[i].song = s
      BY <1>2, <3>1 DEF Matches
    <3> QED BY <1>1, <2>1, <3>1, <3>2
  <2>5. /\ kept \in Seq(ConfLine) /\ Len(kept) = n - 1
        /\ \A k \in 1..n-1 : kept[k] = IF k < i THEN lines[k] ELSE lines[k+1]
    BY <2>3, <2>4, RemovedIs
  <2> HIDE DEF kept, old, v, n
  <2>6. DOMAIN kept = 1..n-1
    BY <2>5, LenProperties
  <2>7. Matches(kept, s) = {}
    <3> SUFFICES ASSUME NEW k \in 1..n-1, kept[k].song = s PROVE FALSE
      BY <2>6 DEF Matches
    <3>1. CASE k < i
      <4>1. k \in 1..n /\ k # i
        BY <1>1, <2>4, <3>1
      <4> QED BY <2>4, <2>5, <3>1, <4>1
    <3>2. CASE ~(k < i)
      <4>1. k + 1 \in 1..n /\ k + 1 # i
        BY <1>1, <2>4, <3>2
      <4> QED BY <2>4, <2>5, <3>2, <4>1
    <3> QED BY <3>1, <3>2
  <2>8. ASSUME NEW r \in Songs, r # s, w[r] = None PROVE Matches(kept, r) = {}
    <3>1. \A j \in 1..n : lines[j].song # r
      BY <1>1, <2>8 DEF OneLine, Matches
    <3> SUFFICES ASSUME NEW k \in 1..n-1, kept[k].song = r PROVE FALSE
      BY <2>6 DEF Matches
    <3>2. k \in 1..n /\ k + 1 \in 1..n
      BY <1>1
    <3> QED BY <2>5, <3>1, <3>2
  <2>9. ASSUME NEW r \in Songs, r # s, w[r] # None
        PROVE  \E k \in DOMAIN kept : Matches(kept, r) = {k} /\ kept[k].option = w[r]
    <3>1. PICK j \in DOMAIN lines : Matches(lines, r) = {j} /\ lines[j].option = w[r]
      BY <2>9 DEF OneLine
    <3>2. j \in 1..n /\ lines[j].song = r /\ \A l \in 1..n : lines[l].song = r => l = j
      BY <1>1, <3>1 DEF Matches
    <3>3. j # i
      BY <2>4, <2>9, <3>2
    <3> DEFINE k == IF j < i THEN j ELSE j - 1
    <3>4. k \in 1..n-1 /\ (IF k < i THEN k ELSE k + 1) = j
      BY <1>1, <2>4, <3>2, <3>3
    <3>5. kept[k] = lines[j]
      BY <2>5, <3>4
    <3>6. ASSUME NEW l \in 1..n-1, kept[l].song = r PROVE l = k
      <4> DEFINE m == IF l < i THEN l ELSE l + 1
      <4>1. m \in 1..n /\ kept[l] = lines[m]
        BY <1>1, <2>4, <2>5
      <4>2. m = j
        BY <3>2, <3>6, <4>1
      <4> QED BY <1>1, <2>4, <3>2, <3>3, <4>2
    <3> HIDE DEF k
    <3>7. Matches(kept, r) = {k}
      BY <2>6, <3>2, <3>4, <3>5, <3>6 DEF Matches
    <3> QED BY <2>6, <3>1, <3>4, <3>5, <3>7
  <2>10. OneLine(kept, v)
    BY <1>3, <2>7, <2>8, <2>9 DEF OneLine
  <2> QED BY <2>10 DEF kept, v
<1> QED BY <1>4, <1>5

LEMMA UpdatedIs ==
    ASSUME NEW lines \in Seq(ConfLine), NEW s \in Songs, NEW o \in Options
    PROVE  /\ Updated(lines, s, o) \in Seq(ConfLine) /\ Updated(lines, s, o) # <<>>
           /\ Last(Updated(lines, s, o)) = [song |-> s, option |-> o]
           /\ \A w \in [Songs -> Options \cup {None}] :
                  OneLine(lines, w) => OneLine(Updated(lines, s, o), [w EXCEPT ![s] = o])
<1> DEFINE kept == Remaining(lines, s)
           new == [song |-> s, option |-> o]
           all == Append(kept, new)
           n == Len(kept)
<1>1. Updated(lines, s, o) = all
  BY DEF Updated, Remaining
<1>2. kept \in Seq(ConfLine) /\ n \in Nat /\ DOMAIN kept = 1..n
  <2>1. kept \in Seq(ConfLine)
    BY KeptIs
  <2> QED BY <2>1, LenProperties
<1>3. new \in ConfLine /\ new.song = s /\ new.option = o
  BY DEF ConfLine
<1> HIDE DEF kept, new
<1>4. /\ all \in Seq(ConfLine) /\ all # <<>> /\ Len(all) = n + 1
      /\ (\A i \in 1..n : all[i] = kept[i]) /\ all[n+1] = new
  BY <1>2, <1>3, AppendProperties
<1>5. DOMAIN all = 1..n+1
  BY <1>4, LenProperties
<1> HIDE DEF all, n
<1>6. Last(all) = new
  BY <1>4 DEF Last
<1>7. ASSUME NEW w \in [Songs -> Options \cup {None}], OneLine(lines, w)
      PROVE  OneLine(all, [w EXCEPT ![s] = o])
  <2> DEFINE v == [w EXCEPT ![s] = None]
             u == [w EXCEPT ![s] = o]
  <2>1. OneLine(kept, v)
    BY <1>7, KeptHasOneLine DEF kept
  <2>2. v[s] = None /\ u[s] = o /\ (\A r \in Songs : r # s => u[r] = v[r]) /\ o # None
    BY SongDbAssumption
  <2> HIDE DEF u, v
  <2>3. \A i \in 1..n : kept[i].song # s
    BY <1>2, <2>1, <2>2 DEF OneLine, Matches
  <2>4. Matches(all, s) = {n+1} /\ all[n+1].option = o /\ n+1 \in DOMAIN all
    BY <1>2, <1>3, <1>4, <1>5, <2>3 DEF Matches
  <2>5. ASSUME NEW r \in Songs, r # s PROVE Matches(all, r) = Matches(kept, r)
    BY <1>2, <1>3, <1>4, <1>5, <2>5 DEF Matches
  <2>6. ASSUME NEW r \in Songs, r # s, u[r] # None
        PROVE  \E i \in DOMAIN all : Matches(all, r) = {i} /\ all[i].option = u[r]
    <3>1. PICK i \in DOMAIN kept : Matches(kept, r) = {i} /\ kept[i].option = v[r]
      BY <2>1, <2>2, <2>6 DEF OneLine
    <3>2. i \in DOMAIN all /\ all[i] = kept[i]
      BY <1>2, <1>4, <1>5, <3>1
    <3> QED BY <2>2, <2>5, <2>6, <3>1, <3>2
  <2>7. ASSUME NEW r \in Songs, r # s, u[r] = None PROVE Matches(all, r) = {}
    BY <2>1, <2>2, <2>5, <2>7 DEF OneLine
  <2>8. OneLine(all, u)
    BY <2>2, <2>4, <2>6, <2>7 DEF OneLine
  <2> QED BY <2>8 DEF u
<1> QED BY <1>1, <1>3, <1>4, <1>6, <1>7 DEF new

-----------------------------------------------------------------------------
(***************************************************************************)
(* What a step leaves alone.                                               *)
(***************************************************************************)

\* One process at a time is in the content db.
LEMMA Alone ==
    ASSUME Typed, Shaped, Locked, NEW p \in Processes, InDb(proc[p]),
           NEW q \in Processes, proc[q].pc = "rest"
    PROVE  q = p
<1>1. proc[q] \in Process /\ Shape(proc[q])
  BY DEF Typed, Shaped
<1>2. proc[q].file = "db"
  BY <1>1 DEF Shape, Process
<1>3. InDb(proc[q])
  BY <1>2 DEF InDb
<1> QED BY <1>3 DEF Locked

LEMMA DbQuiet ==
    ASSUME Saving, AllReal, Kept, NEW p \in Processes,
           \A q \in Processes : q # p => proc'[q] = proc[q],
           db' = db, hist'.saved = hist.saved, "db" \in hist'.torn <=> "db" \in hist.torn,
           proc[p].pc # "rest", proc'[p].pc # "rest",
           "db" \notin hist.torn => \A e \in ToSet(proc'[p].mem) : Real(e)
    PROVE  Saving' /\ AllReal' /\ Kept'
<1>1. Saving'
  BY DEF Saving, Reached
<1>2. AllReal'
  BY DEF AllReal, RealFile, RealProcess, Completed, Reached
<1>3. Kept'
  BY DEF Kept, Completed, Reached
<1> QED BY <1>1, <1>2, <1>3

LEMMA ConfQuiet ==
    ASSUME OneUpdate, NEW p \in Processes,
           \A q \in Processes : q # p => proc'[q] = proc[q],
           conf' = conf, hist'.wanted = hist.wanted, hist'.clash = hist.clash,
           "conf" \in hist'.torn <=> "conf" \in hist.torn,
           proc[p].pc # "write", ~Updating(proc'[p])
    PROVE  OneUpdate'
<1> SUFFICES ASSUME ~hist'.clash /\ "conf" \notin hist'.torn
             PROVE  /\ \A q, r \in Processes : Updating(proc'[q]) /\ Updating(proc'[r]) => q = r
                    /\ (\A q \in Processes : proc'[q].pc # "write") => OneLine(conf', hist'.wanted)
                    /\ \A q \in Processes : Updating(proc'[q]) => OneLine(proc'[q].buf, WantedNext(proc[q])')
                    /\ \A q \in Processes : proc'[q].pc = "write" => conf' = <<>>
  BY DEF OneUpdate
<1>1. /\ \A q, r \in Processes : Updating(proc[q]) /\ Updating(proc[r]) => q = r
      /\ (\A q \in Processes : proc[q].pc # "write") => OneLine(conf, hist.wanted)
      /\ \A q \in Processes : Updating(proc[q]) => OneLine(proc[q].buf, WantedNext(proc[q]))
      /\ \A q \in Processes : proc[q].pc = "write" => conf = <<>>
  BY DEF OneUpdate
<1>2. \A q \in Processes : Updating(proc'[q]) => q # p /\ proc'[q] = proc[q]
  OBVIOUS
<1>3. \A q, r \in Processes : Updating(proc'[q]) /\ Updating(proc'[r]) => q = r
  BY <1>1, <1>2
<1>4. (\A q \in Processes : proc'[q].pc # "write") => OneLine(conf', hist'.wanted)
  BY <1>1
<1>5. \A q \in Processes : Updating(proc'[q]) => OneLine(proc'[q].buf, WantedNext(proc[q])')
  BY <1>1, <1>2 DEF WantedNext
<1>6. \A q \in Processes : proc'[q].pc = "write" => conf' = <<>>
  BY <1>1, <1>2 DEF Updating
<1> QED BY <1>3, <1>4, <1>5, <1>6

LEMMA Unlocking ==
    ASSUME lock \in [{"db", "conf"} -> Processes \cup {None}], Locked, NEW p \in Processes,
           NEW f \in {"db", "conf"},
           \A q \in Processes : q # p => proc'[q] = proc[q],
           lock' = Unlocked(p, f), ~InDb(proc'[p])
    PROVE  lock' \in [{"db", "conf"} -> Processes \cup {None}] /\ Locked'
<1>1. lock' = [lock EXCEPT ![f] = IF @ = p THEN None ELSE @]
  BY DEF Unlocked
<1>2. lock' \in [{"db", "conf"} -> Processes \cup {None}]
  BY <1>1
<1>3. ASSUME NEW q \in Processes, InDb(proc'[q]) PROVE lock'["db"] = q
  <2>1. q # p /\ InDb(proc[q])
    BY <1>3
  <2>2. lock["db"] = q
    BY <2>1 DEF Locked
  <2> QED BY <1>1, <2>1, <2>2
<1>4. Locked'
  BY <1>3 DEF Locked
<1> QED BY <1>2, <1>4

LEMMA Others ==
    ASSUME Shaped, OwnThere, NEW p \in Processes,
           \A q \in Processes : q # p => proc'[q] = proc[q],
           Shape(proc'[p]), proc'[p].own \subseteq ToSet(proc'[p].mem)
    PROVE  Shaped' /\ OwnThere'
BY DEF Shaped, OwnThere

-----------------------------------------------------------------------------
(***************************************************************************)
(* The steps.                                                              *)
(***************************************************************************)

LEMMA InitDb == Init => DbInv
<1> SUFFICES ASSUME Init PROVE DbInv
  OBVIOUS
<1>1. PICK file \in {"db", "conf"} : proc = [p \in Processes |-> Fresh(file, Calls[file])]
  BY DEF Init
<1>2. Calls[file] \in Nat
  BY SongDbAssumption
<1>3. \A p \in Processes : proc[p] = Fresh(file, Calls[file])
  BY <1>1
<1>4. /\ db = <<>> /\ conf = <<>> /\ lock = [db |-> None, conf |-> None]
      /\ hist = [torn |-> {}, clash |-> FALSE, saved |-> {}, wanted |-> [s \in Songs |-> None]]
  BY DEF Init
<1>5. Typed
  <2>1. Fresh(file, Calls[file]) \in Process
    <3>1. <<>> \in Seq(DbEntry) /\ <<>> \in Seq(Cell)
      BY EmptySeq
    <3> QED BY <1>2, <3>1 DEF Fresh, Process
  <2>2. proc \in [Processes -> Process]
    BY <1>1, <2>1
  <2>3. db \in Seq(Cell) /\ conf \in Seq(ConfLine)
    BY <1>4, EmptySeq
  <2>4. hist \in History /\ lock \in [{"db", "conf"} -> Processes \cup {None}]
    BY <1>4 DEF History
  <2> QED BY <2>2, <2>3, <2>4 DEF Typed
<1>6. Shaped
  <2>1. Sorted(<<>>)
    BY DEF Sorted
  <2> QED BY <1>2, <1>3, <2>1 DEF Shaped, Shape, Fresh
<1>7. Locked /\ Saving /\ OwnThere
  BY <1>3 DEF Locked, InDb, Saving, OwnThere, Fresh
<1>8. AllReal
  <2>1. RealLines(db)
    <3>1. Len(db) = 0
      BY <1>4, EmptySeq
    <3> QED BY <3>1 DEF RealLines
  <2>2. ToSet(<<>>) = {}
    BY DEF ToSet
  <2> QED BY <1>3, <2>1, <2>2 DEF AllReal, RealFile, RealProcess, Fresh
<1>9. Kept
  BY <1>3, <1>4 DEF Kept, Fresh
<1>10. OneUpdate
  <2>1. OneLine(conf, hist.wanted)
    BY <1>4 DEF OneLine, Matches
  <2> QED BY <1>3, <2>1 DEF OneUpdate, Updating, Fresh
<1> QED BY <1>5, <1>6, <1>7, <1>8, <1>9, <1>10 DEF DbInv

LEMMA OpenDb ==
    ASSUME DbInv, NEW p \in Processes, NEW op \in {"read", "save", "update"}, Open(p, op),
           IF op = "update" THEN proc[p].file = "conf"
           ELSE IF op = "save" THEN proc[p].modified
           ELSE proc[p].file = "db"
    PROVE  DbInv'
<1> DEFINE r == proc[p]
           n == [r EXCEPT !.pc = "lock", !.op = op, !.calls = @ - 1]
<1> USE DEF DbInv
<1>1. r \in Process /\ Shape(r) /\ r.calls > 0 /\ r.pc = "idle"
  BY DEF Typed, Shaped, Open
<1>2. proc' = [proc EXCEPT ![p] = n] /\ db' = db /\ conf' = conf /\ lock' = lock /\ hist' = hist
  BY DEF Open, Typed
<1>3. /\ n \in Process /\ n.pc = "lock" /\ n.op = op /\ n.calls = r.calls - 1 /\ n.file = r.file
      /\ n.loaded = r.loaded /\ n.mem = r.mem /\ n.modified = r.modified /\ n.buf = r.buf /\ n.own = r.own
  <2>1. r.calls - 1 \in Nat
    BY <1>1 DEF Process
  <2> QED BY <1>1, <2>1 DEF Process
<1> HIDE DEF n
<1>4. proc'[p] = n /\ \A q \in Processes : q # p => proc'[q] = proc[q]
  BY <1>2 DEF Typed
<1>5. Typed'
  BY <1>2, <1>3 DEF Typed
<1>6. Shape(n)
  <2>1. n.calls <= Calls[n.file]
    <3>1. Calls[r.file] \in Nat /\ r.calls \in Nat
      BY <1>1, SongDbAssumption DEF Process
    <3> QED BY <1>1, <1>3, <3>1 DEF Shape
  <2> QED BY <1>1, <1>3, <2>1 DEF Shape, Process
<1>7. Shaped' /\ OwnThere'
  <2>1. n.own \subseteq ToSet(n.mem)
    BY <1>3 DEF OwnThere
  <2> QED BY <1>4, <1>6, <2>1, Others
<1>8. Locked'
  BY <1>2, <1>3, <1>4 DEF Locked, InDb
<1>9. Saving' /\ AllReal' /\ Kept'
  <2>1. "db" \notin hist.torn => \A e \in ToSet(n.mem) : Real(e)
    BY <1>3 DEF AllReal, RealProcess
  <2> QED BY <1>1, <1>2, <1>3, <1>4, <2>1, DbQuiet
<1>10. OneUpdate'
  <2>1. ~Updating(n)
    BY <1>3 DEF Updating
  <2> QED BY <1>1, <1>2, <1>4, <2>1, ConfQuiet
<1> QED BY <1>5, <1>7, <1>8, <1>9, <1>10

LEMMA LockDb == ASSUME DbInv, NEW p \in Processes, Lock(p) PROVE DbInv'
<1> DEFINE r == proc[p]
           n == [r EXCEPT !.pc = "locked"]
<1> USE DEF DbInv
<1>1. r \in Process /\ Shape(r) /\ r.pc = "lock" /\ lock[r.file] \in {None, p}
  BY DEF Typed, Shaped, Lock
<1>2. proc' = [proc EXCEPT ![p] = n] /\ db' = db /\ conf' = conf /\ hist' = hist /\ lock' = [lock EXCEPT ![r.file] = p]
  BY DEF Lock, Typed
<1>3. /\ n \in Process /\ n.pc = "locked" /\ n.op = r.op /\ n.calls = r.calls /\ n.file = r.file
      /\ n.loaded = r.loaded /\ n.mem = r.mem /\ n.modified = r.modified /\ n.buf = r.buf /\ n.own = r.own
  BY <1>1 DEF Process
<1> HIDE DEF n
<1>4. proc'[p] = n /\ \A q \in Processes : q # p => proc'[q] = proc[q]
  BY <1>2 DEF Typed
<1>5. r.file \in {"db", "conf"} /\ None \notin Processes
  BY <1>1, SongDbAssumption DEF Process
<1>6. Typed'
  <2>1. lock' \in [{"db", "conf"} -> Processes \cup {None}]
    BY <1>2, <1>5 DEF Typed
  <2> QED BY <1>2, <1>3, <2>1 DEF Typed
<1>7. Shaped' /\ OwnThere'
  <2>1. Shape(n)
    BY <1>1, <1>3 DEF Shape
  <2>2. n.own \subseteq ToSet(n.mem)
    BY <1>3 DEF OwnThere
  <2> QED BY <1>4, <2>1, <2>2, Others
<1>8. Locked'
  <2> SUFFICES ASSUME NEW q \in Processes, InDb(proc'[q]) PROVE lock'["db"] = q
    BY DEF Locked
  <2>1. CASE q = p
    BY <1>2, <1>3, <1>4, <2>1 DEF InDb, Typed
  <2>2. CASE q # p
    <3>1. lock["db"] = q
      BY <1>4, <2>2 DEF Locked
    <3>2. r.file # "db"
      BY <1>1, <1>5, <2>2, <3>1
    <3> QED BY <1>2, <3>1, <3>2 DEF Typed
  <2> QED BY <2>1, <2>2
<1>9. Saving' /\ AllReal' /\ Kept'
  <2>1. "db" \notin hist.torn => \A e \in ToSet(n.mem) : Real(e)
    BY <1>3 DEF AllReal, RealProcess
  <2> QED BY <1>1, <1>2, <1>3, <1>4, <2>1, DbQuiet
<1>10. OneUpdate'
  <2>1. ~Updating(n)
    BY <1>3 DEF Updating
  <2> QED BY <1>1, <1>2, <1>4, <2>1, ConfQuiet
<1> QED BY <1>6, <1>7, <1>8, <1>9, <1>10

LEMMA OpenFailsDb == ASSUME DbInv, NEW p \in Processes, OpenFails(p) PROVE DbInv'
<1> DEFINE r == proc[p]
           n == [r EXCEPT !.pc = "idle", !.op = "none", !.loaded = @ \/ r.op = "read"]
<1> USE DEF DbInv
<1>1. r \in Process /\ Shape(r) /\ r.pc = "lock"
  BY DEF Typed, Shaped, OpenFails
<1>2. proc' = [proc EXCEPT ![p] = n] /\ db' = db /\ conf' = conf /\ hist' = hist /\ lock' = lock
  BY DEF OpenFails, Typed
<1>3. /\ n \in Process /\ n.pc = "idle" /\ n.op = "none" /\ n.calls = r.calls /\ n.file = r.file
      /\ n.loaded = (r.loaded \/ r.op = "read") /\ n.mem = r.mem /\ n.modified = r.modified /\ n.own = r.own
  BY <1>1 DEF Process
<1> HIDE DEF n
<1>4. proc'[p] = n /\ \A q \in Processes : q # p => proc'[q] = proc[q]
  BY <1>2 DEF Typed
<1>5. Locked'
  BY <1>2, <1>3, <1>4 DEF Locked, InDb
<1>6. Typed'
  BY <1>2, <1>3 DEF Typed
<1>7. Shaped' /\ OwnThere'
  <2>1. r.file = "conf" => n.loaded = r.loaded
    BY <1>1, <1>3 DEF Shape, Process
  <2>2. Shape(n)
    BY <1>1, <1>3, <2>1 DEF Shape, Process
  <2>3. n.own \subseteq ToSet(n.mem)
    BY <1>3 DEF OwnThere
  <2> QED BY <1>4, <2>2, <2>3, Others
<1>8. Saving' /\ AllReal' /\ Kept'
  <2>1. "db" \notin hist.torn => \A e \in ToSet(n.mem) : Real(e)
    BY <1>3 DEF AllReal, RealProcess
  <2> QED BY <1>1, <1>2, <1>3, <1>4, <2>1, DbQuiet
<1>9. OneUpdate'
  <2>1. ~Updating(n)
    BY <1>3 DEF Updating
  <2> QED BY <1>1, <1>2, <1>4, <2>1, ConfQuiet
<1> QED BY <1>5, <1>6, <1>7, <1>8, <1>9

LEMMA ReadDb == ASSUME DbInv, NEW p \in Processes, uade_read_content_db(p) PROVE DbInv'
<1> DEFINE r == proc[p]
           merged == store_playtimes(r.mem, Entries(db))
<1> USE DEF DbInv
<1>1. r \in Process /\ Shape(r) /\ r.pc = "locked" /\ r.op = "read"
  BY DEF Typed, Shaped, uade_read_content_db, Holds
<1>2. PICK m \in Sortings(merged) :
          proc' = [proc EXCEPT ![p].pc = "idle", ![p].op = "none", ![p].loaded = TRUE, ![p].mem = m,
                               ![p].modified = @ \/ (r.mem # <<>> /\ Len(m) > Len(r.mem))]
  BY DEF uade_read_content_db
<1> DEFINE changed == r.modified \/ (r.mem # <<>> /\ Len(m) > Len(r.mem))
           n == [r EXCEPT !.pc = "idle", !.op = "none", !.loaded = TRUE, !.mem = m, !.modified = changed]
<1>3. proc' = [proc EXCEPT ![p] = n] /\ db' = db /\ conf' = conf /\ hist' = hist /\ lock' = Unlocked(p, "db")
  BY <1>2 DEF uade_read_content_db, Typed
<1>4. Entries(db) \in Seq(DbEntry) /\ r.mem \in Seq(DbEntry)
  BY <1>1, EntriesAre DEF Typed, Process
<1>5. /\ merged \in Seq(DbEntry) /\ ToSet(r.mem) \subseteq ToSet(merged)
      /\ ToSet(merged) \subseteq ToSet(r.mem) \cup ToSet(Entries(db))
  BY <1>4, StoredIs
<1> HIDE DEF merged
<1>6. m \in Seq(DbEntry) /\ Sorted(m) /\ ToSet(m) = ToSet(merged)
  BY <1>5, SortedIs
<1>7. /\ n \in Process /\ n.pc = "idle" /\ n.op = "none" /\ n.calls = r.calls /\ n.file = r.file
      /\ n.loaded = TRUE /\ n.mem = m /\ n.own = r.own
  <2>1. changed \in BOOLEAN
    OBVIOUS
  <2> HIDE DEF changed
  <2> QED BY <1>1, <1>6, <2>1 DEF Process
<1> HIDE DEF n
<1>8. proc'[p] = n /\ \A q \in Processes : q # p => proc'[q] = proc[q]
  BY <1>3 DEF Typed
<1>9. r.file = "db"
  BY <1>1 DEF Shape, Process
<1>10. lock' \in [{"db", "conf"} -> Processes \cup {None}] /\ Locked'
  <2>1. ~InDb(n)
    BY <1>7 DEF InDb
  <2> QED BY <1>3, <1>8, <2>1, Unlocking DEF Typed
<1>11. Typed'
  BY <1>3, <1>7, <1>10 DEF Typed
<1>12. Shaped' /\ OwnThere'
  <2>1. Shape(n)
    BY <1>1, <1>6, <1>7, <1>9 DEF Shape
  <2>2. n.own \subseteq ToSet(n.mem)
    BY <1>5, <1>6, <1>7 DEF OwnThere
  <2> QED BY <1>8, <2>1, <2>2, Others
<1>13. Saving' /\ AllReal' /\ Kept'
  <2>1. ASSUME "db" \notin hist.torn, NEW e \in ToSet(n.mem) PROVE Real(e)
    <3>1. CASE e \in ToSet(r.mem)
      BY <2>1, <3>1 DEF AllReal, RealProcess
    <3>2. CASE e \in ToSet(Entries(db))
      <4>1. InDb(proc[p])
        BY <1>1, <1>9 DEF InDb
      <4>2. \A q \in Processes : proc[q].pc # "rest"
        <5> SUFFICES ASSUME NEW q \in Processes, proc[q].pc = "rest" PROVE FALSE
          OBVIOUS
        <5>1. q = p
          BY <4>1, Alone
        <5> QED BY <1>1, <5>1
      <4>3. RealLines(db)
        BY <2>1, <4>2 DEF AllReal, RealFile
      <4> QED BY <3>2, <4>3, RealEntries DEF Typed
    <3> QED BY <1>5, <1>6, <1>7, <2>1, <3>1, <3>2
  <2> QED BY <1>1, <1>3, <1>7, <1>8, <2>1, DbQuiet
<1>14. OneUpdate'
  <2>1. ~Updating(n)
    BY <1>7 DEF Updating
  <2> QED BY <1>1, <1>3, <1>8, <2>1, ConfQuiet
<1> QED BY <1>10, <1>11, <1>12, <1>13, <1>14

LEMMA AddDb ==
    ASSUME DbInv, NEW p \in Processes, NEW s \in Songs, NEW t \in Times[s], uade_add_playtime(p, s, t)
    PROVE  DbInv'
<1> DEFINE r == proc[p]
           e == [song |-> s, time |-> t]
<1> USE DEF DbInv
<1>1. r \in Process /\ Shape(r) /\ r.pc = "idle" /\ r.calls > 0 /\ r.loaded
  BY DEF Typed, Shaped, uade_add_playtime
<1>2. PICK m \in Added(r.mem, s, t) :
          proc' = [proc EXCEPT ![p].calls = @ - 1, ![p].own = Determined(p, s, t), ![p].mem = m,
                               ![p].modified = @ \/ m # r.mem]
  BY DEF uade_add_playtime
<1> DEFINE changed == r.modified \/ m # r.mem
           n == [r EXCEPT !.calls = @ - 1, !.own = Determined(p, s, t), !.mem = m, !.modified = changed]
<1>3. proc' = [proc EXCEPT ![p] = n] /\ db' = db /\ conf' = conf /\ hist' = hist /\ lock' = lock
  BY <1>2 DEF uade_add_playtime, Typed
<1>4. t \in Seq(0..9) /\ e \in DbEntry
  BY SongDbAssumption DEF DbEntry
<1>5. r.mem \in Seq(DbEntry) /\ Sorted(r.mem)
  BY <1>1 DEF Process, Shape
<1>6. /\ m \in Seq(DbEntry) /\ Sorted(m) /\ e \in ToSet(m)
      /\ \A x \in ToSet(r.mem) : x.song # s => x \in ToSet(m)
      /\ ToSet(m) \subseteq ToSet(r.mem) \cup {e}
  BY <1>4, <1>5, AddedIs
<1>7. Determined(p, s, t) = {x \in r.own : x.song # s} \cup {e}
  BY DEF Determined
<1>8. Determined(p, s, t) \subseteq DbEntry
  BY <1>1, <1>4, <1>7 DEF Process
<1>9. /\ n \in Process /\ n.pc = "idle" /\ n.op = r.op /\ n.calls = r.calls - 1 /\ n.file = r.file
      /\ n.loaded = r.loaded /\ n.mem = m /\ n.own = Determined(p, s, t)
  <2>1. changed \in BOOLEAN /\ r.calls - 1 \in Nat
    BY <1>1 DEF Process
  <2> HIDE DEF changed
  <2> QED BY <1>1, <1>6, <1>8, <2>1 DEF Process
<1> HIDE DEF n
<1>10. proc'[p] = n /\ \A q \in Processes : q # p => proc'[q] = proc[q]
  BY <1>3 DEF Typed
<1>11. r.file = "db"
  BY <1>1 DEF Shape, Process
<1>12. Typed'
  BY <1>3, <1>9 DEF Typed
<1>13. Shaped' /\ OwnThere'
  <2>1. n.calls <= Calls[n.file]
    <3>1. Calls[r.file] \in Nat /\ r.calls \in Nat
      BY <1>1, SongDbAssumption DEF Process
    <3> QED BY <1>1, <1>9, <3>1 DEF Shape
  <2>2. Shape(n)
    BY <1>1, <1>6, <1>9, <1>11, <2>1 DEF Shape
  <2>3. n.own \subseteq ToSet(n.mem)
    <3>1. r.own \subseteq ToSet(r.mem)
      BY DEF OwnThere
    <3> QED BY <1>6, <1>7, <1>9, <3>1
  <2> QED BY <1>10, <2>2, <2>3, Others
<1>14. Locked'
  BY <1>3, <1>9, <1>10 DEF Locked, InDb
<1>15. Saving' /\ AllReal' /\ Kept'
  <2>1. ASSUME "db" \notin hist.torn, NEW x \in ToSet(n.mem) PROVE Real(x)
    <3>1. CASE x \in ToSet(r.mem)
      BY <2>1, <3>1 DEF AllReal, RealProcess
    <3>2. CASE x = e
      BY <3>2 DEF Real
    <3> QED BY <1>6, <1>9, <2>1, <3>1, <3>2
  <2> QED BY <1>1, <1>3, <1>9, <1>10, <2>1, DbQuiet
<1>16. OneUpdate'
  <2>1. ~Updating(n)
    BY <1>9 DEF Updating
  <2> QED BY <1>1, <1>3, <1>10, <2>1, ConfQuiet
<1> QED BY <1>12, <1>13, <1>14, <1>15, <1>16

\* The first piece: what the file will be is known from here on.
LEMMA SaveSomeDb == ASSUME DbInv, NEW p \in Processes, SaveSome(p) PROVE DbInv'
<1> DEFINE r == proc[p]
           text == Text(r.mem)
<1> USE DEF DbInv
<1>1. r \in Process /\ Shape(r) /\ r.pc = "locked" /\ r.op = "save"
  BY DEF Typed, Shaped, SaveSome, Holds
<1>2. PICK k \in 1..Len(text)-1 :
          /\ db' = Overwritten(db, 0, SubSeq(text, 1, k))
          /\ proc' = [proc EXCEPT ![p].pc = "rest", ![p].buf = SubSeq(text, k+1, Len(text))]
  BY DEF SaveSome
<1> DEFINE rest == SubSeq(text, k+1, Len(text))
           n == [r EXCEPT !.pc = "rest", !.buf = rest]
<1>3. proc' = [proc EXCEPT ![p] = n] /\ conf' = conf /\ hist' = hist /\ lock' = lock
  BY <1>2 DEF SaveSome, Typed
<1>4. r.mem \in Seq(DbEntry) /\ db \in Seq(Cell)
  BY <1>1 DEF Process, Typed
<1>5. text \in Seq(Cell)
  BY <1>4, TextIs
<1>6. /\ rest \in Seq(Cell) /\ db' \in Seq(Cell)
      /\ Len(text) - Len(rest) \in 0..Len(db')
      /\ Overwritten(db', Len(text) - Len(rest), rest) = Overwritten(db, 0, text)
  <2> HIDE DEF text
  <2> QED BY <1>2, <1>4, <1>5, TwoPieces
<1> HIDE DEF rest
<1>7. /\ n \in Process /\ n.pc = "rest" /\ n.op = r.op /\ n.calls = r.calls /\ n.file = r.file
      /\ n.loaded = r.loaded /\ n.mem = r.mem /\ n.modified = r.modified /\ n.buf = rest /\ n.own = r.own
  BY <1>1, <1>6 DEF Process
<1> HIDE DEF n
<1>8. proc'[p] = n /\ \A q \in Processes : q # p => proc'[q] = proc[q]
  BY <1>3 DEF Typed
<1>9. r.file = "db"
  BY <1>1 DEF Shape, Process
<1>10. Typed'
  BY <1>3, <1>6, <1>7 DEF Typed
<1>11. Shaped' /\ OwnThere'
  <2>1. Shape(n)
    BY <1>1, <1>6, <1>7, <1>9 DEF Shape
  <2>2. n.own \subseteq ToSet(n.mem)
    BY <1>7 DEF OwnThere
  <2> QED BY <1>8, <2>1, <2>2, Others
<1>12. Locked'
  BY <1>1, <1>3, <1>7, <1>8, <1>9 DEF Locked, InDb
<1>13. \A q \in Processes : proc[q].pc # "rest"
  <2> SUFFICES ASSUME NEW q \in Processes, proc[q].pc = "rest" PROVE FALSE
    OBVIOUS
  <2>1. InDb(proc[p])
    BY <1>1, <1>9 DEF InDb
  <2>2. q = p
    BY <2>1, Alone
  <2> QED BY <1>1, <2>2
<1>14. \A q \in Processes : proc'[q].pc = "rest" => q = p
  BY <1>8, <1>13
<1>15. Saving'
  BY <1>6, <1>7, <1>8, <1>14 DEF Saving, Reached
<1>16. Completed(proc[p])' = Overwritten(db, 0, text)
  BY <1>6, <1>7, <1>8 DEF Completed, Reached
<1>17. ASSUME "db" \notin hist.torn
       PROVE  RealLines(Overwritten(db, 0, text)) /\ ToSet(r.mem) \subseteq ToSet(Entries(Overwritten(db, 0, text)))
  <2>1. RealLines(db) /\ \A x \in ToSet(r.mem) : Real(x)
    BY <1>13, <1>17 DEF AllReal, RealFile, RealProcess
  <2>2. ASSUME NEW x \in ToSet(r.mem) PROVE Len(x.time) # 0
    <3>1. x \in DbEntry
      BY <1>4, ElementOfSeq, LenProperties DEF ToSet
    <3>2. x.time \in Seq(0..9) \ {<<>>}
      BY <2>1, <3>1, SongDbAssumption DEF Real, DbEntry
    <3> QED BY <3>2, EmptySeq
  <2>3. RealLines(Overwritten(db, 0, text))
    BY <1>4, <2>1, SaveKeepsReal
  <2>4. ToSet(r.mem) \subseteq ToSet(Entries(Overwritten(db, 0, text)))
    BY <1>4, <2>2, SavedIsRead
  <2> QED BY <2>3, <2>4
<1>18. AllReal'
  <2> SUFFICES ASSUME "db" \notin hist.torn PROVE RealFile' /\ \A q \in Processes : RealProcess(proc[q])'
    BY <1>3 DEF AllReal
  <2>1. RealFile'
    BY <1>7, <1>8 DEF RealFile
  <2>2. RealProcess(proc[p])'
    <3>1. \A x \in ToSet(proc'[p].mem) : Real(x)
      BY <1>7, <1>8 DEF AllReal, RealProcess
    <3>2. RealLines(Completed(proc[p])')
      BY <1>16, <1>17
    <3> QED BY <3>1, <3>2 DEF RealProcess
  <2>3. ASSUME NEW q \in Processes, q # p PROVE RealProcess(proc[q])'
    <3>1. proc'[q].pc # "rest"
      BY <1>14, <2>3
    <3>2. \A x \in ToSet(proc'[q].mem) : Real(x)
      BY <1>8, <2>3 DEF AllReal, RealProcess
    <3> QED BY <3>1, <3>2 DEF RealProcess
  <2> QED BY <2>1, <2>2, <2>3
<1>19. Kept'
  <2> SUFFICES ASSUME "db" \notin hist.torn
               PROVE  \A q \in Processes :
                          proc'[q].pc = "rest" => ToSet(proc'[q].mem) \subseteq ToSet(Entries(Completed(proc[q])'))
    BY <1>3, <1>7, <1>8 DEF Kept
  <2>1. ToSet(proc'[p].mem) \subseteq ToSet(Entries(Completed(proc[p])'))
    BY <1>7, <1>8, <1>16, <1>17
  <2> QED BY <1>14, <2>1
<1>20. OneUpdate'
  <2>1. ~Updating(n)
    BY <1>7 DEF Updating
  <2> QED BY <1>1, <1>3, <1>8, <2>1, ConfQuiet
<1> QED BY <1>10, <1>11, <1>12, <1>15, <1>18, <1>19, <1>20

\* The second piece.
LEMMA SaveRestDb == ASSUME DbInv, NEW p \in Processes, SaveRest(p) PROVE DbInv'
<1> DEFINE r == proc[p]
           n == [r EXCEPT !.pc = "idle", !.op = "none", !.buf = <<>>, !.modified = FALSE]
<1> USE DEF DbInv
<1>1. r \in Process /\ Shape(r) /\ r.pc = "rest"
  BY DEF Typed, Shaped, SaveRest
<1>2. proc' = [proc EXCEPT ![p] = n] /\ conf' = conf /\ lock' = Unlocked(p, "db")
  BY DEF SaveRest, Typed
<1>3. db' = Completed(r)
  BY DEF SaveRest, Completed, Reached
<1>4. hist' = [hist EXCEPT !.saved = ToSet(r.mem)]
  BY DEF SaveRest
<1>5. /\ n \in Process /\ n.pc = "idle" /\ n.op = "none" /\ n.calls = r.calls /\ n.file = r.file
      /\ n.loaded = r.loaded /\ n.mem = r.mem /\ n.modified = FALSE /\ n.own = r.own
  BY <1>1, EmptySeq DEF Process
<1> HIDE DEF n
<1>6. proc'[p] = n /\ \A q \in Processes : q # p => proc'[q] = proc[q]
  BY <1>2 DEF Typed
<1>7. r.file = "db"
  BY <1>1 DEF Shape, Process
<1>8. db' \in Seq(Cell)
  <2>1. Reached(r) \in 0..Len(db) /\ r.buf \in Seq(Cell) /\ db \in Seq(Cell)
    BY <1>1 DEF Saving, Shape, Typed
  <2> QED BY <1>3, <2>1, OverwrittenIs DEF Completed
<1>9. /\ hist'.torn = hist.torn /\ hist'.clash = hist.clash /\ hist'.wanted = hist.wanted
      /\ hist'.saved = ToSet(r.mem) /\ hist' \in History
  <2>1. ToSet(r.mem) \subseteq DbEntry
    BY <1>1, ElementOfSeq, LenProperties DEF ToSet, Process
  <2> QED BY <1>4, <2>1 DEF Typed, History
<1>10. lock' \in [{"db", "conf"} -> Processes \cup {None}] /\ Locked'
  <2>1. ~InDb(n)
    BY <1>5 DEF InDb
  <2> QED BY <1>2, <1>6, <2>1, Unlocking DEF Typed
<1>11. Typed'
  BY <1>2, <1>5, <1>8, <1>9, <1>10 DEF Typed
<1>12. Shaped' /\ OwnThere'
  <2>1. Shape(n)
    BY <1>1, <1>5, <1>7 DEF Shape
  <2>2. n.own \subseteq ToSet(n.mem)
    BY <1>5 DEF OwnThere
  <2> QED BY <1>6, <2>1, <2>2, Others
<1>13. \A q \in Processes : proc'[q].pc # "rest"
  <2> SUFFICES ASSUME NEW q \in Processes, proc'[q].pc = "rest" PROVE FALSE
    OBVIOUS
  <2>1. q # p /\ proc[q].pc = "rest"
    BY <1>5, <1>6
  <2>2. InDb(proc[p])
    BY <1>1, <1>7 DEF InDb
  <2> QED BY <2>1, <2>2, Alone
<1>14. Saving'
  BY <1>13 DEF Saving
<1>15. AllReal'
  <2> SUFFICES ASSUME "db" \notin hist.torn
               PROVE  RealLines(db') /\ \A q \in Processes : \A x \in ToSet(proc'[q].mem) : Real(x)
    BY <1>9, <1>13 DEF AllReal, RealFile, RealProcess
  <2>1. RealLines(db')
    BY <1>1, <1>3 DEF AllReal, RealProcess
  <2>2. \A q \in Processes : proc'[q].mem = proc[q].mem
    BY <1>5, <1>6
  <2> QED BY <2>1, <2>2 DEF AllReal, RealProcess
<1>16. Kept'
  <2> SUFFICES ASSUME "db" \notin hist.torn PROVE ToSet(r.mem) \subseteq ToSet(Entries(db'))
    BY <1>9, <1>13 DEF Kept
  <2> QED BY <1>1, <1>3 DEF Kept
<1>17. OneUpdate'
  <2>1. ~Updating(n)
    BY <1>5 DEF Updating
  <2> QED BY <1>1, <1>2, <1>6, <1>9, <2>1, ConfQuiet
<1> QED BY <1>10, <1>11, <1>12, <1>14, <1>15, <1>16, <1>17

\* An update that reads the file before another has written it is a clash.
LEMMA ReadConfDb == ASSUME DbInv, NEW p \in Processes, ReadConf(p) PROVE DbInv'
<1> DEFINE r == proc[p]
<1> USE DEF DbInv
<1>1. r \in Process /\ Shape(r) /\ r.pc = "locked" /\ r.op = "update"
  BY DEF Typed, Shaped, ReadConf, Holds
<1>2. PICK s \in Songs, o \in Options :
          proc' = [proc EXCEPT ![p].pc = "truncate", ![p].buf = Updated(conf, s, o)]
  BY DEF ReadConf
<1> DEFINE lines == Updated(conf, s, o)
           n == [r EXCEPT !.pc = "truncate", !.buf = lines]
<1>3. /\ lines \in Seq(ConfLine) /\ lines # <<>> /\ Last(lines) = [song |-> s, option |-> o]
      /\ \A w \in [Songs -> Options \cup {None}] : OneLine(conf, w) => OneLine(lines, [w EXCEPT ![s] = o])
  BY UpdatedIs DEF Typed
<1> HIDE DEF lines
<1>4. proc' = [proc EXCEPT ![p] = n] /\ db' = db /\ conf' = conf /\ lock' = Unlocked(p, "conf")
  BY <1>2 DEF ReadConf, Typed, lines
<1>5. hist' = [hist EXCEPT !.clash = @ \/ \E q \in Processes : proc[q].pc \in {"truncate", "write"}]
  BY DEF ReadConf
<1>6. /\ n \in Process /\ n.pc = "truncate" /\ n.op = "update" /\ n.calls = r.calls /\ n.file = r.file
      /\ n.loaded = r.loaded /\ n.mem = r.mem /\ n.modified = r.modified /\ n.buf = lines /\ n.own = r.own
  BY <1>1, <1>3 DEF Process
<1> HIDE DEF n
<1>7. proc'[p] = n /\ \A q \in Processes : q # p => proc'[q] = proc[q]
  BY <1>4 DEF Typed
<1>8. r.file = "conf"
  BY <1>1 DEF Shape, Process
<1> DEFINE clash == hist.clash \/ \E q \in Processes : proc[q].pc \in {"truncate", "write"}
<1>9. /\ hist'.torn = hist.torn /\ hist'.saved = hist.saved /\ hist'.wanted = hist.wanted
      /\ hist'.clash = clash /\ hist' \in History
  <2>1. clash \in BOOLEAN
    BY DEF Typed, History
  <2>2. hist' = [hist EXCEPT !.clash = clash]
    BY <1>5
  <2> HIDE DEF clash
  <2> QED BY <2>1, <2>2 DEF Typed, History
<1>10. lock' \in [{"db", "conf"} -> Processes \cup {None}] /\ Locked'
  <2>1. ~InDb(n)
    BY <1>6 DEF InDb
  <2> QED BY <1>4, <1>7, <2>1, Unlocking DEF Typed
<1>11. Typed'
  BY <1>4, <1>6, <1>9, <1>10 DEF Typed
<1>12. Shaped' /\ OwnThere'
  <2>1. Shape(n)
    BY <1>1, <1>3, <1>6, <1>8 DEF Shape
  <2>2. n.own \subseteq ToSet(n.mem)
    BY <1>6 DEF OwnThere
  <2> QED BY <1>7, <2>1, <2>2, Others
<1>13. Saving' /\ AllReal' /\ Kept'
  <2>1. "db" \notin hist.torn => \A e \in ToSet(n.mem) : Real(e)
    BY <1>6 DEF AllReal, RealProcess
  <2> QED BY <1>1, <1>4, <1>6, <1>7, <1>9, <2>1, DbQuiet
<1>14. OneUpdate'
  <2> SUFFICES ASSUME ~hist'.clash /\ "conf" \notin hist'.torn
               PROVE  /\ \A q, t \in Processes : Updating(proc'[q]) /\ Updating(proc'[t]) => q = t
                      /\ (\A q \in Processes : proc'[q].pc # "write") => OneLine(conf', hist'.wanted)
                      /\ \A q \in Processes : Updating(proc'[q]) => OneLine(proc'[q].buf, WantedNext(proc[q])')
                      /\ \A q \in Processes : proc'[q].pc = "write" => conf' = <<>>
    BY DEF OneUpdate
  <2>1. ~hist.clash /\ "conf" \notin hist.torn /\ \A q \in Processes : ~Updating(proc[q])
    BY <1>9 DEF Updating
  <2>2. OneLine(conf, hist.wanted)
    BY <2>1 DEF OneUpdate, Updating
  <2>3. \A q \in Processes : Updating(proc'[q]) => q = p
    BY <1>7, <2>1
  <2>4. \A q \in Processes : proc'[q].pc # "write"
    BY <1>6, <1>7, <2>1 DEF Updating
  <2>5. WantedNext(proc[p])' = [hist.wanted EXCEPT ![s] = o]
    BY <1>3, <1>6, <1>7, <1>9 DEF WantedNext
  <2>6. OneLine(proc'[p].buf, WantedNext(proc[p])')
    <3>1. hist.wanted \in [Songs -> Options \cup {None}]
      BY DEF Typed, History
    <3>2. OneLine(lines, [hist.wanted EXCEPT ![s] = o])
      BY <1>3, <2>2, <3>1
    <3> QED BY <1>6, <1>7, <2>5, <3>2
  <2> QED BY <1>4, <1>9, <2>2, <2>3, <2>4, <2>6
<1> QED BY <1>10, <1>11, <1>12, <1>13, <1>14

LEMMA TruncateDb == ASSUME DbInv, NEW p \in Processes, Truncate(p) PROVE DbInv'
<1> DEFINE r == proc[p]
           n == [r EXCEPT !.pc = "write"]
<1> USE DEF DbInv
<1>1. r \in Process /\ Shape(r) /\ r.pc = "truncate"
  BY DEF Typed, Shaped, Truncate
<1>2. proc' = [proc EXCEPT ![p] = n] /\ db' = db /\ conf' = <<>> /\ lock' = lock /\ hist' = hist
  BY DEF Truncate, Typed
<1>3. /\ n \in Process /\ n.pc = "write" /\ n.op = r.op /\ n.calls = r.calls /\ n.file = r.file
      /\ n.loaded = r.loaded /\ n.mem = r.mem /\ n.modified = r.modified /\ n.buf = r.buf /\ n.own = r.own
  BY <1>1 DEF Process
<1> HIDE DEF n
<1>4. proc'[p] = n /\ \A q \in Processes : q # p => proc'[q] = proc[q]
  BY <1>2 DEF Typed
<1>5. Typed'
  BY <1>2, <1>3, EmptySeq DEF Typed
<1>6. Shaped' /\ OwnThere'
  <2>1. Shape(n)
    BY <1>1, <1>3 DEF Shape, Process
  <2>2. n.own \subseteq ToSet(n.mem)
    BY <1>3 DEF OwnThere
  <2> QED BY <1>4, <2>1, <2>2, Others
<1>7. Locked'
  BY <1>2, <1>3, <1>4 DEF Locked, InDb
<1>8. Saving' /\ AllReal' /\ Kept'
  <2>1. "db" \notin hist.torn => \A e \in ToSet(n.mem) : Real(e)
    BY <1>3 DEF AllReal, RealProcess
  <2> QED BY <1>1, <1>2, <1>3, <1>4, <2>1, DbQuiet
<1>9. OneUpdate'
  <2>1. \A q \in Processes : Updating(proc'[q]) <=> Updating(proc[q])
    BY <1>1, <1>3, <1>4 DEF Updating
  <2>2. \A q \in Processes : proc'[q].buf = proc[q].buf
    BY <1>3, <1>4
  <2>3. proc'[p].pc = "write"
    BY <1>3, <1>4
  <2> QED BY <1>2, <2>1, <2>2, <2>3 DEF OneUpdate, WantedNext
<1> QED BY <1>5, <1>6, <1>7, <1>8, <1>9

LEMMA WriteConfDb == ASSUME DbInv, NEW p \in Processes, WriteConf(p) PROVE DbInv'
<1> DEFINE r == proc[p]
           n == [r EXCEPT !.pc = "idle", !.op = "none", !.buf = <<>>]
<1> USE DEF DbInv
<1>1. r \in Process /\ Shape(r) /\ r.pc = "write"
  BY DEF Typed, Shaped, WriteConf
<1>2. /\ proc' = [proc EXCEPT ![p] = n] /\ db' = db /\ conf' = Overwritten(conf, 0, r.buf)
      /\ lock' = Unlocked(p, "conf")
      /\ hist' = [hist EXCEPT !.wanted[Last(r.buf).song] = Last(r.buf).option]
  BY DEF WriteConf, Typed
<1>3. /\ n \in Process /\ n.pc = "idle" /\ n.op = "none" /\ n.calls = r.calls /\ n.file = r.file
      /\ n.loaded = r.loaded /\ n.mem = r.mem /\ n.modified = r.modified /\ n.own = r.own
  BY <1>1, EmptySeq DEF Process
<1> HIDE DEF n
<1>4. proc'[p] = n /\ \A q \in Processes : q # p => proc'[q] = proc[q]
  BY <1>2 DEF Typed
<1>5. r.buf \in Seq(ConfLine) /\ r.buf # <<>> /\ r.file = "conf" /\ conf \in Seq(ConfLine)
  BY <1>1 DEF Shape, Process, Typed
<1>6. Last(r.buf) \in ConfLine
  <2>1. Len(r.buf) \in 1..Len(r.buf)
    BY <1>5, EmptySeq
  <2> QED BY <1>5, <2>1, ElementOfSeq DEF Last
<1>7. /\ hist'.torn = hist.torn /\ hist'.saved = hist.saved /\ hist'.clash = hist.clash
      /\ hist'.wanted = WantedNext(r) /\ hist' \in History
  <2>1. WantedNext(r) \in [Songs -> Options \cup {None}]
    BY <1>6 DEF WantedNext, ConfLine, Typed, History
  <2>2. hist' = [hist EXCEPT !.wanted = WantedNext(r)]
    BY <1>2 DEF WantedNext
  <2> QED BY <2>1, <2>2 DEF Typed, History
<1>8. 0 \in 0..Len(conf)
  BY <1>5, LenProperties
<1>9. conf' \in Seq(ConfLine)
  BY <1>2, <1>5, <1>8, OverwrittenIs
<1>10. lock' \in [{"db", "conf"} -> Processes \cup {None}] /\ Locked'
  <2>1. ~InDb(n)
    BY <1>3 DEF InDb
  <2> QED BY <1>2, <1>4, <2>1, Unlocking DEF Typed
<1>11. Typed'
  BY <1>2, <1>3, <1>7, <1>9, <1>10 DEF Typed
<1>12. Shaped' /\ OwnThere'
  <2>1. Shape(n)
    BY <1>1, <1>3, <1>5 DEF Shape
  <2>2. n.own \subseteq ToSet(n.mem)
    BY <1>3 DEF OwnThere
  <2> QED BY <1>4, <2>1, <2>2, Others
<1>13. Saving' /\ AllReal' /\ Kept'
  <2>1. "db" \notin hist.torn => \A e \in ToSet(n.mem) : Real(e)
    BY <1>3 DEF AllReal, RealProcess
  <2> QED BY <1>1, <1>2, <1>3, <1>4, <1>7, <2>1, DbQuiet
<1>14. OneUpdate'
  <2> SUFFICES ASSUME ~hist.clash /\ "conf" \notin hist.torn
               PROVE  /\ \A q \in Processes : ~Updating(proc'[q])
                      /\ OneLine(conf', hist'.wanted)
    BY <1>7 DEF OneUpdate, Updating
  <2>1. Updating(r) /\ conf = <<>>
    BY <1>1 DEF OneUpdate, Updating
  <2>2. \A q \in Processes : ~Updating(proc'[q])
    BY <1>3, <1>4, <2>1 DEF OneUpdate, Updating
  <2>3. OneLine(r.buf, WantedNext(r))
    BY <2>1 DEF OneUpdate
  <2>4. conf' = r.buf
    <3>1. Len(conf) = 0
      BY <2>1, EmptySeq
    <3> QED BY <1>2, <1>5, <3>1, WrittenIntoEmpty
  <2> QED BY <1>7, <2>2, <2>3, <2>4
<1> QED BY <1>10, <1>11, <1>12, <1>13, <1>14

LEMMA UpdateFailsDb == ASSUME DbInv, NEW p \in Processes, UpdateFails(p) PROVE DbInv'
<1> DEFINE r == proc[p]
           n == [r EXCEPT !.pc = "idle", !.op = "none", !.buf = <<>>]
<1> USE DEF DbInv
<1>1. r \in Process /\ Shape(r) /\ r.pc \in {"locked", "truncate"} /\ (r.pc = "locked" => r.op = "update")
  BY DEF Typed, Shaped, UpdateFails, Holds
<1>2. proc' = [proc EXCEPT ![p] = n] /\ db' = db /\ conf' = conf /\ hist' = hist /\ lock' = Unlocked(p, "conf")
  BY DEF UpdateFails, Typed
<1>3. /\ n \in Process /\ n.pc = "idle" /\ n.op = "none" /\ n.calls = r.calls /\ n.file = r.file
      /\ n.loaded = r.loaded /\ n.mem = r.mem /\ n.modified = r.modified /\ n.own = r.own
  BY <1>1, EmptySeq DEF Process
<1> HIDE DEF n
<1>4. proc'[p] = n /\ \A q \in Processes : q # p => proc'[q] = proc[q]
  BY <1>2 DEF Typed
<1>5. lock' \in [{"db", "conf"} -> Processes \cup {None}] /\ Locked'
  <2>1. ~InDb(n)
    BY <1>3 DEF InDb
  <2> QED BY <1>2, <1>4, <2>1, Unlocking DEF Typed
<1>6. Typed'
  BY <1>2, <1>3, <1>5 DEF Typed
<1>7. Shaped' /\ OwnThere'
  <2>1. r.file = "conf"
    BY <1>1 DEF Shape, Process
  <2>2. Shape(n)
    BY <1>1, <1>3, <2>1 DEF Shape
  <2>3. n.own \subseteq ToSet(n.mem)
    BY <1>3 DEF OwnThere
  <2> QED BY <1>4, <2>2, <2>3, Others
<1>8. Saving' /\ AllReal' /\ Kept'
  <2>1. "db" \notin hist.torn => \A e \in ToSet(n.mem) : Real(e)
    BY <1>3 DEF AllReal, RealProcess
  <2> QED BY <1>1, <1>2, <1>3, <1>4, <2>1, DbQuiet
<1>9. OneUpdate'
  <2>1. ~Updating(n)
    BY <1>3 DEF Updating
  <2> QED BY <1>1, <1>2, <1>4, <2>1, ConfQuiet
<1> QED BY <1>5, <1>6, <1>7, <1>8, <1>9

\* The end of a process tears the file it is writing, and no other.
LEMMA ExitDb == ASSUME DbInv, NEW p \in Processes, Exit(p) PROVE DbInv'
<1> DEFINE r == proc[p]
           n == Fresh(r.file, r.calls)
           torn == hist.torn \cup (IF r.pc \in {"rest", "write"} THEN {r.file} ELSE {})
<1> USE DEF DbInv
<1>1. r \in Process /\ Shape(r)
  BY DEF Typed, Shaped
<1>2. /\ proc' = [proc EXCEPT ![p] = n] /\ db' = db /\ conf' = conf
      /\ hist' = [hist EXCEPT !.torn = torn]
      /\ lock' = [f \in DOMAIN lock |-> Unlocked(p, f)[f]]
  BY DEF Exit, Typed
<1>3. /\ n \in Process /\ n.pc = "idle" /\ n.op = "none" /\ n.calls = r.calls /\ n.file = r.file
      /\ n.loaded = FALSE /\ n.mem = <<>> /\ n.modified = FALSE /\ n.own = {}
  <2>1. <<>> \in Seq(DbEntry) /\ <<>> \in Seq(Cell)
    BY EmptySeq
  <2> QED BY <1>1, <2>1 DEF Process, Fresh
<1> HIDE DEF n
<1>4. proc'[p] = n /\ \A q \in Processes : q # p => proc'[q] = proc[q]
  BY <1>2 DEF Typed
<1>5. /\ hist'.torn = torn /\ hist'.saved = hist.saved /\ hist'.wanted = hist.wanted
      /\ hist'.clash = hist.clash /\ hist' \in History
  <2>1. torn \subseteq {"db", "conf"}
    BY <1>1 DEF Typed, History, Process
  <2> HIDE DEF torn
  <2> QED BY <1>2, <2>1 DEF Typed, History
<1>6. r.pc = "rest" => r.file = "db" /\ "db" \in torn
  BY <1>1 DEF Shape, Process
<1>7. r.pc = "write" => r.file = "conf" /\ "conf" \in torn
  BY <1>1 DEF Shape, Process
<1>8. /\ r.pc # "rest" => ("db" \in torn <=> "db" \in hist.torn)
      /\ r.pc # "write" => ("conf" \in torn <=> "conf" \in hist.torn)
      /\ hist.torn \subseteq torn
  BY <1>6, <1>7
<1> HIDE DEF torn
<1>9. /\ lock' \in [{"db", "conf"} -> Processes \cup {None}]
      /\ lock'["db"] = IF lock["db"] = p THEN None ELSE lock["db"]
  BY <1>2 DEF Typed, Unlocked
<1>10. Typed'
  BY <1>2, <1>3, <1>5, <1>9 DEF Typed
<1>11. Shaped' /\ OwnThere'
  <2>1. Sorted(n.mem)
    BY <1>3 DEF Sorted
  <2>2. Shape(n)
    BY <1>1, <1>3, <2>1 DEF Shape
  <2> QED BY <1>3, <1>4, <2>2, Others
<1>12. Locked'
  <2> SUFFICES ASSUME NEW q \in Processes, InDb(proc'[q]) PROVE lock'["db"] = q
    BY DEF Locked
  <2>1. q # p
    BY <1>3, <1>4 DEF InDb
  <2>2. lock["db"] = q
    BY <1>4, <2>1 DEF Locked
  <2> QED BY <1>9, <2>1, <2>2
<1>13. Saving' /\ AllReal' /\ Kept'
  <2>1. CASE r.pc # "rest"
    <3>1. "db" \notin hist.torn => \A e \in ToSet(n.mem) : Real(e)
      BY <1>3 DEF ToSet
    <3> QED BY <1>2, <1>3, <1>4, <1>5, <1>8, <2>1, <3>1, DbQuiet
  <2>2. CASE r.pc = "rest"
    <3>1. "db" \in hist'.torn
      BY <1>5, <1>6, <2>2
    <3>2. Saving'
      BY <1>2, <1>3, <1>4 DEF Saving, Reached
    <3> QED BY <3>1, <3>2 DEF AllReal, Kept
  <2> QED BY <2>1, <2>2
<1>14. OneUpdate'
  <2>1. CASE r.pc # "write"
    <3>1. ~Updating(n)
      BY <1>3 DEF Updating
    <3> QED BY <1>2, <1>4, <1>5, <1>8, <2>1, <3>1, ConfQuiet
  <2>2. CASE r.pc = "write"
    <3>1. "conf" \in hist'.torn
      BY <1>5, <1>7, <2>2
    <3> QED BY <3>1 DEF OneUpdate
  <2> QED BY <2>1, <2>2
<1> QED BY <1>10, <1>11, <1>12, <1>13, <1>14

LEMMA StutterDb == ASSUME DbInv, UNCHANGED vars PROVE DbInv'
<1> USE DEF DbInv, vars
<1>1. Typed' /\ Shaped' /\ Locked'
  BY DEF Typed, Shaped, Locked
<1>2. Saving' /\ OwnThere'
  BY DEF Saving, Reached, OwnThere
<1>3. AllReal' /\ Kept'
  BY DEF AllReal, RealFile, RealProcess, Kept, Completed, Reached
<1>4. OneUpdate'
  BY DEF OneUpdate, WantedNext
<1> QED BY <1>1, <1>2, <1>3, <1>4

LEMMA NextDb == DbInv /\ [Next]_vars => DbInv'
<1> SUFFICES ASSUME DbInv, [Next]_vars PROVE DbInv'
  OBVIOUS
<1>1. CASE UNCHANGED vars
  BY <1>1, StutterDb
<1>2. ASSUME NEW p \in Processes, Call(p) PROVE DbInv'
  <2>1. CASE proc[p].file = "db" /\ Open(p, "read")
    BY <2>1, OpenDb
  <2>2. CASE proc[p].modified /\ Open(p, "save")
    BY <2>2, OpenDb
  <2>3. CASE proc[p].file = "conf" /\ Open(p, "update")
    BY <2>3, OpenDb
  <2>4. CASE \E s \in Songs : \E t \in Times[s] : uade_add_playtime(p, s, t)
    BY <2>4, AddDb
  <2> QED BY <1>2, <2>1, <2>2, <2>3, <2>4 DEF Call
<1>3. ASSUME NEW p \in Processes, Return(p) PROVE DbInv'
  BY <1>3, LockDb, ReadDb, SaveSomeDb, SaveRestDb, ReadConfDb, TruncateDb, WriteConfDb, UpdateFailsDb DEF Return
<1>4. ASSUME NEW p \in Processes, OpenFails(p) PROVE DbInv'
  BY <1>4, OpenFailsDb
<1>5. ASSUME NEW p \in Processes, Exit(p) PROVE DbInv'
  BY <1>5, ExitDb
<1> QED BY <1>1, <1>2, <1>3, <1>4, <1>5 DEF Next

-----------------------------------------------------------------------------
(***************************************************************************)
(* Theorems.                                                               *)
(***************************************************************************)

\* Whatever frontends do with the shared files of songdb.c, and wherever they die,
\* the files, the locks and what the frontends hold in memory fit together.
THEOREM DbInvariant == Spec => []DbInv
BY InitDb, NextDb, PTL DEF Spec

\* Types; and the entries that get_content() searches by bisection are in order,
\* after every store_playtime(), create_content_checksum() and update_playtime().
THEOREM SongDbTypes == Spec => []TypeOK
<1>1. DbInv => TypeOK
  <2> SUFFICES ASSUME DbInv PROVE TypeOK
    OBVIOUS
  <2>1. ASSUME NEW p \in Processes PROVE proc[p].calls \in 0..Calls[proc[p].file]
    BY SongDbAssumption DEF DbInv, Typed, Shaped, Shape, Process
  <2>2. ASSUME NEW p \in Processes
        PROVE  /\ proc[p].pc \in {"idle", "lock", "locked", "rest", "truncate", "write"}
               /\ proc[p].op \in {"none", "read", "save", "update"}
               /\ proc[p].mem \in Seq(DbEntry) /\ Sorted(proc[p].mem) /\ (proc[p].loaded \/ proc[p].mem = <<>>)
               /\ proc[p].modified \in BOOLEAN /\ proc[p].own \subseteq DbEntry
    BY DEF DbInv, Typed, Shaped, Shape, Process
  <2>3. /\ db \in Seq({Newline} \cup ({"md5"} \X Songs) \cup ({"digit"} \X (0..9)))
        /\ conf \in Seq([song : Songs, option : Options])
        /\ lock \in [{"db", "conf"} -> Processes \cup {None}]
    BY DEF DbInv, Typed, Cell, ConfLine
  <2> QED BY <2>1, <2>2, <2>3 DEF TypeOK
<1> QED BY <1>1, DbInvariant, PTL

\* A playtime in memory was determined for its song: no line is put together from
\* two though uade_save_content_db() writes over a file of another length.
THEOREM RealPlaytimes == Spec => []EntriesAreReal
<1>1. DbInv => EntriesAreReal
  <2> SUFFICES ASSUME DbInv, "db" \notin hist.torn, NEW p \in Processes, NEW i \in DOMAIN proc[p].mem
               PROVE  proc[p].mem[i].time \in Times[proc[p].mem[i].song]
    BY DEF EntriesAreReal
  <2>1. proc[p].mem[i] \in ToSet(proc[p].mem)
    BY DEF ToSet
  <2> QED BY <2>1 DEF DbInv, AllReal, RealProcess, Real
<1> QED BY <1>1, DbInvariant, PTL

\* While nobody has locked the content db, uade_read_content_db() finds in it every
\* entry of the last uade_save_content_db() that came to its end.
THEOREM SavedStays == Spec => []SavedIsThere
<1>1. DbInv => SavedIsThere
  <2> SUFFICES ASSUME DbInv, lock.db = None, "db" \notin hist.torn PROVE hist.saved \subseteq ToSet(Entries(db))
    BY DEF SavedIsThere
  <2>1. \A p \in Processes : proc[p].pc # "rest"
    BY SongDbAssumption DEF DbInv, Typed, Process, Shaped, Shape, Locked, InDb
  <2> QED BY <2>1 DEF DbInv, Kept
<1> QED BY <1>1, DbInvariant, PTL

\* A playtime that uade_add_playtime() has stored is found by get_content() however
\* often store_playtime() merges a file into the memory, if the song has one entry.
THEOREM OwnTimeWins == Spec => []OwnTimeIsFound
<1>1. DbInv => OwnTimeIsFound
  <2> SUFFICES ASSUME DbInv, NEW p \in Processes, NEW e \in proc[p].own, NEW i \in DOMAIN proc[p].mem,
                      Matches(proc[p].mem, e.song) = {i}
               PROVE  proc[p].mem[i] = e
    BY DEF OwnTimeIsFound
  <2>1. PICK j \in DOMAIN proc[p].mem : proc[p].mem[j] = e
    BY DEF DbInv, OwnThere, ToSet
  <2>2. j \in Matches(proc[p].mem, e.song)
    BY <2>1 DEF Matches
  <2> QED BY <2>1, <2>2
<1> QED BY <1>1, DbInvariant, PTL

\* An option that uade_update_song_conf() has set has its one line in song.conf from
\* then on, unless two updates were under way at once or a process died in one.
THEOREM OptionsStay == Spec => []OptionIsKept
<1>1. DbInv => OptionIsKept
  <2> SUFFICES ASSUME DbInv, ~hist.clash, "conf" \notin hist.torn, \A p \in Processes : proc[p].pc # "write"
               PROVE  OneLine(conf, hist.wanted)
    BY DEF OptionIsKept, OneLine
  <2> QED BY DEF DbInv, OneUpdate
<1> QED BY <1>1, DbInvariant, PTL

(***************************************************************************)
(* A lock ends when its file is closed, which every way out of a call has  *)
(* to do: only a process in the middle of a call that reads or writes has  *)
(* a lock, and only that of the file it uses.                              *)
(***************************************************************************)
LockIsInUse ==
    \A f \in {"db", "conf"}, p \in Processes :
        lock[f] = p => proc[p].file = f /\ proc[p].pc \in {"locked", "rest"}

\* A step of p that leaves the lock of its file, takes it or gives it back.
LEMMA LockMoves ==
    ASSUME LockIsInUse, lock \in [{"db", "conf"} -> Processes \cup {None}], None \notin Processes,
           NEW p \in Processes, proc[p].file \in {"db", "conf"},
           \A q \in Processes : q # p => proc'[q] = proc[q],
           proc'[p].file = proc[p].file,
           \/ lock' = lock /\ (proc[p].pc \notin {"locked", "rest"} \/ proc'[p].pc \in {"locked", "rest"})
           \/ lock' = [lock EXCEPT ![proc[p].file] = p] /\ proc'[p].pc = "locked"
           \/ lock' = Unlocked(p, proc[p].file)
    PROVE  LockIsInUse'
<1> SUFFICES ASSUME NEW f \in {"db", "conf"}, NEW q \in Processes, lock'[f] = q
             PROVE  proc'[q].file = f /\ proc'[q].pc \in {"locked", "rest"}
  BY DEF LockIsInUse
<1>1. lock[f] = q => proc[q].file = f /\ proc[q].pc \in {"locked", "rest"}
  BY DEF LockIsInUse
<1>2. CASE lock' = lock /\ (proc[p].pc \notin {"locked", "rest"} \/ proc'[p].pc \in {"locked", "rest"})
  BY <1>1, <1>2
<1>3. CASE lock' = [lock EXCEPT ![proc[p].file] = p] /\ proc'[p].pc = "locked"
  BY <1>1, <1>3
<1>4. CASE lock' = Unlocked(p, proc[p].file)
  <2>1. lock' = [lock EXCEPT ![proc[p].file] = IF @ = p THEN None ELSE @]
    BY <1>4 DEF Unlocked
  <2>2. lock[f] = q /\ ~(f = proc[p].file /\ q = p)
    BY <2>1
  <2>3. q # p
    BY <1>1, <2>2
  <2> QED BY <1>1, <2>2, <2>3
<1> QED BY <1>2, <1>3, <1>4

LEMMA StepLock == DbInv /\ LockIsInUse /\ [Next]_vars => LockIsInUse'
<1> SUFFICES ASSUME DbInv, LockIsInUse, [Next]_vars PROVE LockIsInUse'
  OBVIOUS
<1>1. CASE UNCHANGED vars
  BY <1>1 DEF vars, LockIsInUse
<1>2. /\ lock \in [{"db", "conf"} -> Processes \cup {None}] /\ None \notin Processes
      /\ proc \in [Processes -> Process]
  BY SongDbAssumption DEF DbInv, Typed
<1>3. ASSUME NEW p \in Processes, Call(p) \/ Return(p) \/ OpenFails(p) \/ Exit(p) PROVE LockIsInUse'
  <2>1. proc[p] \in Process /\ Shape(proc[p]) /\ proc[p].file \in {"db", "conf"}
    BY <1>2 DEF DbInv, Shaped, Process
  <2>2. ASSUME NEW op \in {"read", "save", "update"}, Open(p, op) PROVE LockIsInUse'
    <3>1. /\ proc[p].pc = "idle" /\ lock' = lock /\ proc'[p].file = proc[p].file
          /\ \A q \in Processes : q # p => proc'[q] = proc[q]
      BY <1>2, <2>1, <2>2 DEF Open, Process
    <3> QED BY <1>2, <2>1, <3>1, LockMoves
  <2>3. ASSUME NEW s \in Songs, NEW t \in Times[s], uade_add_playtime(p, s, t) PROVE LockIsInUse'
    <3>1. /\ proc[p].pc = "idle" /\ lock' = lock /\ proc'[p].file = proc[p].file
          /\ \A q \in Processes : q # p => proc'[q] = proc[q]
      BY <1>2, <2>1, <2>3 DEF uade_add_playtime, Process
    <3> QED BY <1>2, <2>1, <3>1, LockMoves
  <2>4. CASE Lock(p)
    <3>1. /\ lock' = [lock EXCEPT ![proc[p].file] = p]
          /\ proc'[p].pc = "locked" /\ proc'[p].file = proc[p].file
          /\ \A q \in Processes : q # p => proc'[q] = proc[q]
      BY <1>2, <2>1, <2>4 DEF Lock, Process
    <3> QED BY <1>2, <2>1, <3>1, LockMoves
  <2>5. CASE uade_read_content_db(p)
    <3>1. /\ lock' = Unlocked(p, "db") /\ proc[p].op = "read" /\ proc'[p].file = proc[p].file
          /\ \A q \in Processes : q # p => proc'[q] = proc[q]
      BY <1>2, <2>1, <2>5 DEF uade_read_content_db, Holds, Process
    <3>2. proc[p].file = "db"
      BY <2>1, <3>1 DEF Shape
    <3> QED BY <1>2, <2>1, <3>1, <3>2, LockMoves
  <2>6. CASE SaveSome(p)
    <3>1. /\ lock' = lock /\ proc'[p].pc = "rest" /\ proc'[p].file = proc[p].file
          /\ \A q \in Processes : q # p => proc'[q] = proc[q]
      BY <1>2, <2>1, <2>6 DEF SaveSome, Process
    <3> QED BY <1>2, <2>1, <3>1, LockMoves
  <2>7. CASE SaveRest(p)
    <3>1. /\ lock' = Unlocked(p, "db") /\ proc[p].pc = "rest" /\ proc'[p].file = proc[p].file
          /\ \A q \in Processes : q # p => proc'[q] = proc[q]
      BY <1>2, <2>1, <2>7 DEF SaveRest, Process
    <3>2. proc[p].file = "db"
      BY <2>1, <3>1 DEF Shape
    <3> QED BY <1>2, <2>1, <3>1, <3>2, LockMoves
  <2>8. CASE ReadConf(p) \/ WriteConf(p) \/ UpdateFails(p)
    <3>1. /\ lock' = Unlocked(p, "conf") /\ (proc[p].op = "update" \/ proc[p].pc \in {"truncate", "write"})
          /\ proc'[p].file = proc[p].file /\ \A q \in Processes : q # p => proc'[q] = proc[q]
      BY <1>2, <2>1, <2>8 DEF ReadConf, WriteConf, UpdateFails, Holds, Process
    <3>2. proc[p].file = "conf"
      BY <2>1, <3>1 DEF Shape
    <3> QED BY <1>2, <2>1, <3>1, <3>2, LockMoves
  <2>9. CASE Truncate(p)
    <3>1. /\ lock' = lock /\ proc[p].pc = "truncate" /\ proc'[p].file = proc[p].file
          /\ \A q \in Processes : q # p => proc'[q] = proc[q]
      BY <1>2, <2>1, <2>9 DEF Truncate, Process
    <3> QED BY <1>2, <2>1, <3>1, LockMoves
  <2>10. CASE Exit(p)
    <3>1. \A f \in {"db", "conf"} : lock'[f] = IF lock[f] = p THEN None ELSE lock[f]
      BY <1>2, <2>10 DEF Exit, Unlocked
    <3>2. \A q \in Processes : q # p => proc'[q] = proc[q]
      BY <1>2, <2>10 DEF Exit
    <3> QED BY <1>2, <3>1, <3>2 DEF LockIsInUse
  <2>11. CASE OpenFails(p)
    <3>1. /\ lock' = lock /\ proc[p].pc = "lock" /\ proc'[p].file = proc[p].file
          /\ \A q \in Processes : q # p => proc'[q] = proc[q]
      BY <1>2, <2>1, <2>11 DEF OpenFails, Process
    <3> QED BY <1>2, <2>1, <3>1, LockMoves
  <2> QED BY <1>3, <2>2, <2>3, <2>4, <2>5, <2>6, <2>7, <2>8, <2>9, <2>10, <2>11 DEF Call, Return
<1> QED BY <1>1, <1>3 DEF Next

\* No way out of a call keeps the lock: whoever waits in lockf() waits for a process
\* that reads or writes, never for one that is done, has failed or has died.
THEOREM NoLockIsKept == Spec => []LockIsInUse
<1>1. Init => LockIsInUse
  BY SongDbAssumption DEF Init, LockIsInUse
<1>2. LockIsInUse /\ DbInv /\ [Next]_vars => LockIsInUse'
  BY StepLock
<1> QED BY <1>1, <1>2, DbInvariant, PTL DEF Spec
=============================================================================
