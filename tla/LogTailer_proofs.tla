-------------------------- MODULE LogTailer_proofs --------------------------
(***************************************************************************)
(* What following a log guarantees, for every number of lines, files and   *)
(* truncations and every capacity of the channel.                          *)
(*                                                                         *)
(* The order rests on what the tailer has yet to read: all of it was       *)
(* written after what it holds, and that after what it has handed on.      *)
(* Whole lines rest on an offset that belongs to the file as it is.        *)
(***************************************************************************)
EXTENDS LogTailer, SequenceTheorems, WellFoundedInduction, TLAPS

\* p was written before q; all of P before all of Q.
Before(p, q) == p[1] < q[1] \/ (p[1] = q[1] /\ p[2] < q[2])
Precedes(P, Q) == \A p \in P, q \in Q : Before(p, q)
Ascending(s) == \A i, j \in 1..Len(s) : i < j => Before(s[i], s[j])

\* Not after the last piece the writer has written.
WasWritten(p) == p[1] <= written /\ (half => p # <<written, 2>>)
Written(P) == \A p \in P : WasWritten(p)

-----------------------------------------------------------------------------
(* The log's writer, and what is known of a file.                          *)

FilesAscend ==
    /\ \A g \in Files : Ascending(files[g]) /\ Written(Range(files[g]))
    /\ \A g, h \in Files : g < h => Precedes(Range(files[g]), Range(files[h]))

LastIsOpen ==
    /\ path \in {None, created}
    /\ \A g \in Files : g > writer => files[g] = <<>>

\* A FileInfo is that of a file that has since grown or been truncated.
OfFile(i) ==
    /\ i.file <= created
    /\ i.file # None =>
          /\ i.age <= age[i.file]
          /\ i.age = age[i.file] => i.size <= Len(files[i.file])

HalfIsBegun == half => written # 0

Environment ==
    /\ FilesAscend
    /\ LastIsOpen
    /\ OfFile(stat) /\ OfFile(info)
    /\ HalfIsBegun

-----------------------------------------------------------------------------
(* The order of lines.                                                     *)

\* The open file is about to be replaced by the one os.Stat has found.
Leaving == f # None /\ (pc \in {"drain", "reopen"} \/ (pc = "emit" /\ info.file # stat.file))

\* What is still to be read, of the open file and of the next.
Rest ==
    IF f = None \/ (Leaving /\ pc # "drain") THEN {}
    ELSE IF age[f] = info.age THEN Range(From(files[f], off))
    ELSE Range(files[f])
Coming == IF path \in {None, f} \/ ~opened \/ pc = "done" THEN {} ELSE Range(files[path])

\* Ends of lines handed on, or in the file when it was first opened.
End(l) == <<l, 2>>
Over == {End(l) : l \in skipped \cup {LineOf(lines[i]) : i \in DOMAIN lines}}

LinesAscend ==
    /\ \A i, j \in DOMAIN lines : i < j => LineOf(lines[i]) < LineOf(lines[j])
    /\ \A i \in DOMAIN lines : lines[i] # <<>> /\ LineOf(lines[i]) \notin skipped

\* What the tailer holds and will read continues what it has handed on.
Continues ==
    /\ LinesAscend
    /\ Ascending(pending)
    /\ Written(Over \cup Range(pending))
    /\ Precedes(Over, Range(pending))
    /\ Precedes(Over \cup Range(pending), Rest \cup Coming)

\* Tailer.info is that of the open file; a new one is a later one.
InfoIsOfFile ==
    /\ f # None =>
        /\ info.file = f
        /\ pc = "stated" =>
              /\ stat.file = f
              /\ info.age <= stat.age
              /\ stat.age = info.age => info.size <= stat.size
    /\ Leaving => f < stat.file

\* Nothing is held before the first open; only an open file is switched.
Fresh == ~opened => f = None /\ lines = <<>> /\ pending = <<>> /\ skipped = {}
Switching == pc \in {"drain", "reopen"} => f # None

InOrder == ~slipped => Continues /\ InfoIsOfFile

-----------------------------------------------------------------------------
(* Whole lines.                                                            *)

\* The beginning of a line is followed by its rest.
Contiguous(s) == \A i \in 1..(Len(s) - 1) : s[i][2] = 1 => s[i + 1] = <<s[i][1], 2>>

\* It ends in the middle of a line.
EndsBegun(s) == s # <<>> /\ s[Len(s)][2] = 1

FilesContiguous ==
    \A g \in Files :
        /\ Contiguous(files[g])
        /\ EndsBegun(files[g]) =>
               /\ g = writer /\ half
               /\ files[g][Len(files[g])] = <<written, 1>>

\* The beginning of a line that pending ends with is what the file has just
\* before the offset.
OffsetAfterPending ==
    f # None /\ age[f] = startAge /\ EndsBegun(pending) =>
        /\ off \in 1..Len(files[f])
        /\ files[f][off] = pending[Len(pending)]

Whole(text) == \A k \in DOMAIN text : text[k][1] = LineOf(text)

WholeLines ==
    ~carried /\ ~refilled =>
        /\ Contiguous(pending)
        /\ OffsetAfterPending
        /\ \A i \in DOMAIN lines : Whole(lines[i])

StartedBefore == f # None => startAge <= age[f]

-----------------------------------------------------------------------------
NoLineWaits == pc # "emit" => Ended(pending) = {}

Inv ==
    /\ TypeOK
    /\ Environment
    /\ Fresh /\ Switching
    /\ InOrder
    /\ FilesContiguous
    /\ StartedBefore
    /\ WholeLines
    /\ NoLineWaits

-----------------------------------------------------------------------------
(* Sequences of pieces.                                                    *)

LEMMA FromProps ==
    ASSUME NEW S, NEW s \in Seq(S), NEW n \in Nat
    PROVE  /\ From(s, n) \in Seq(S)
           /\ Len(From(s, n)) = IF n < Len(s) THEN Len(s) - n ELSE 0
           /\ \A i \in 1..Len(From(s, n)) : n + i \in 1..Len(s) /\ From(s, n)[i] = s[n + i]
<1>1. Len(s) \in Nat /\ n + 1 \in Int /\ \A i \in (n + 1)..Len(s) : s[i] \in S
    BY LenProperties, ElementOfSeq
<1>2. /\ From(s, n) \in Seq(S)
      /\ Len(From(s, n)) = IF n + 1 <= Len(s) THEN Len(s) - (n + 1) + 1 ELSE 0
      /\ \A i \in 1..(Len(s) - (n + 1) + 1) : From(s, n)[i] = s[n + 1 + i - 1]
    BY <1>1, SubSeqProperties DEF From
<1>3. Len(From(s, n)) = IF n < Len(s) THEN Len(s) - n ELSE 0
    BY <1>1, <1>2
<1>4. ASSUME NEW i \in 1..Len(From(s, n))
      PROVE  n + i \in 1..Len(s) /\ From(s, n)[i] = s[n + i]
    <2>1. n < Len(s) /\ i \in 1..(Len(s) - n)
        BY <1>1, <1>3
    <2>2. i \in 1..(Len(s) - (n + 1) + 1) /\ n + 1 + i - 1 = n + i
        BY <1>1, <2>1
    <2> QED
        BY <1>1, <1>2, <2>1, <2>2
<1> QED
    BY <1>2, <1>3, <1>4

LEMMA FromStart ==
    ASSUME NEW S, NEW s \in Seq(S)
    PROVE  From(s, 0) = s
BY SubSeqFull DEF From

LEMMA FromBehind ==
    ASSUME NEW S, NEW s \in Seq(S), NEW n \in Nat, n >= Len(s)
    PROVE  From(s, n) = <<>>
<1>1. Len(s) \in Nat /\ n + 1 \in Int /\ Len(s) < n + 1
    BY LenProperties
<1> QED
    BY <1>1, SubSeqEmpty DEF From

LEMMA RangeFrom ==
    ASSUME NEW S, NEW s \in Seq(S), NEW n \in Nat
    PROVE  Range(From(s, n)) \subseteq Range(s)
<1>1. Range(From(s, n)) = {From(s, n)[i] : i \in 1..Len(From(s, n))}
    BY FromProps, RangeEquality
<1>2. Range(s) = {s[i] : i \in 1..Len(s)}
    BY RangeEquality
<1> QED
    BY <1>1, <1>2, FromProps

LEMMA RangeEmpty == Range(<<>>) = {}
BY DEF Range

LEMMA FromConcat ==
    ASSUME NEW S, NEW s \in Seq(S), NEW t \in Seq(S), NEW n \in Nat
    PROVE  Range(From(s \o t, n)) \subseteq Range(From(s, n)) \cup Range(t)
<1>1. /\ s \o t \in Seq(S) /\ Len(s \o t) = Len(s) + Len(t)
      /\ Len(s) \in Nat /\ Len(t) \in Nat
    BY ConcatProperties, LenProperties
<1>2. /\ From(s \o t, n) \in Seq(S)
      /\ From(s, n) \in Seq(S)
    BY <1>1, FromProps
<1> SUFFICES ASSUME NEW i \in 1..Len(From(s \o t, n))
             PROVE  From(s \o t, n)[i] \in Range(From(s, n)) \cup Range(t)
    BY <1>2, RangeEquality
<1>3. n + i \in 1..(Len(s) + Len(t)) /\ From(s \o t, n)[i] = (s \o t)[n + i]
    BY <1>1, FromProps
<1>4. Len(From(s \o t, n)) \in Nat /\ i \in Nat
    BY <1>2, LenProperties
<1>5. CASE n + i <= Len(s)
    <2>1. (s \o t)[n + i] = s[n + i]
        BY <1>3, <1>5, ConcatProperties
    <2>2. i \in 1..Len(From(s, n))
        <3>1. n < Len(s) /\ Len(From(s, n)) = Len(s) - n
            BY <1>1, <1>4, <1>5, FromProps
        <3> QED
            BY <1>1, <1>4, <1>5, <3>1
    <2>3. From(s, n)[i] = s[n + i]
        BY <2>2, FromProps
    <2> QED
        BY <1>2, <1>3, <2>1, <2>2, <2>3, RangeEquality
<1>6. CASE ~(n + i <= Len(s))
    <2>1. (s \o t)[n + i] = t[n + i - Len(s)] /\ n + i - Len(s) \in 1..Len(t)
        BY <1>1, <1>3, <1>4, <1>6, ConcatProperties
    <2> QED
        BY <1>3, <2>1, RangeEquality
<1> QED
    BY <1>5, <1>6

LEMMA AscendingFrom ==
    ASSUME NEW S, NEW s \in Seq(S), NEW n \in Nat, Ascending(s)
    PROVE  Ascending(From(s, n))
<1> SUFFICES ASSUME NEW i \in 1..Len(From(s, n)), NEW j \in 1..Len(From(s, n)), i < j
             PROVE  Before(From(s, n)[i], From(s, n)[j])
    BY DEF Ascending
<1>1. n + i \in 1..Len(s) /\ n + j \in 1..Len(s) /\ n + i < n + j
    BY FromProps
<1>2. From(s, n)[i] = s[n + i] /\ From(s, n)[j] = s[n + j]
    BY FromProps
<1> QED
    BY <1>1, <1>2 DEF Ascending

LEMMA AscendingConcat ==
    ASSUME NEW S, NEW s \in Seq(S), NEW t \in Seq(S),
           Ascending(s), Ascending(t), Precedes(Range(s), Range(t))
    PROVE  Ascending(s \o t)
<1> SUFFICES ASSUME NEW i \in 1..Len(s \o t), NEW j \in 1..Len(s \o t), i < j
             PROVE  Before((s \o t)[i], (s \o t)[j])
    BY DEF Ascending
<1>1. Len(s) \in Nat /\ Len(t) \in Nat /\ Len(s \o t) = Len(s) + Len(t)
    BY ConcatProperties, LenProperties
<1>2. \A k \in 1..Len(s \o t) : (s \o t)[k] = IF k <= Len(s) THEN s[k] ELSE t[k - Len(s)]
    BY <1>1, ConcatProperties
<1>3. CASE j <= Len(s)
    BY <1>1, <1>2, <1>3 DEF Ascending
<1>4. CASE i > Len(s)
    BY <1>1, <1>2, <1>4 DEF Ascending
<1>5. CASE i <= Len(s) /\ j > Len(s)
    <2>1. i \in 1..Len(s) /\ j - Len(s) \in 1..Len(t)
        BY <1>1, <1>5
    <2>2. s[i] \in Range(s) /\ t[j - Len(s)] \in Range(t)
        BY <2>1, RangeEquality
    <2> QED
        BY <1>1, <1>2, <1>5, <2>2 DEF Precedes
<1> QED
    BY <1>1, <1>3, <1>4, <1>5

LEMMA EndedOfRange ==
    ASSUME NEW S, NEW s \in Seq(S)
    PROVE  Ended(s) = {p[1] : p \in {q \in Range(s) : q[2] = 2}}
BY DEF Ended, Range

LEMMA EndedConcat ==
    ASSUME NEW S, NEW s \in Seq(S), NEW t \in Seq(S)
    PROVE  Ended(s \o t) = Ended(s) \cup Ended(t)
<1>1. s \o t \in Seq(S) /\ Range(s \o t) = Range(s) \cup Range(t)
    BY ConcatProperties, RangeConcatenation
<1>2. Ended(s \o t) = {p[1] : p \in {q \in Range(s) \cup Range(t) : q[2] = 2}}
    BY <1>1, EndedOfRange
<1> QED
    BY <1>2, EndedOfRange

-----------------------------------------------------------------------------
(* Types.                                                                  *)

\* What a write appends to the writer's file comes after all that was written.
Appends(t) ==
    /\ t \in Seq(Pieces)
    /\ files' = [files EXCEPT ![writer] = @ \o t]
    /\ Ascending(t)
    /\ \A p \in Pieces : WasWritten(p) => WasWritten(p)'
    /\ \A q \in Range(t) : WasWritten(q)'
    /\ \A p \in Pieces, q \in Range(t) : WasWritten(p) => Before(p, q)
    /\ UNCHANGED <<path, age, created, writer, tailer>>

LEMMA OnePiece ==
    ASSUME NEW S, NEW a \in S
    PROVE  <<a>> \in Seq(S) /\ Range(<<a>>) = {a} /\ Ascending(<<a>>)
<1>1. <<a>> \in Seq(S) /\ Len(<<a>>) = 1
    OBVIOUS
<1>2. Range(<<a>>) = {a}
    BY DEF Range
<1>3. Ascending(<<a>>)
    BY <1>1 DEF Ascending
<1> QED
    BY <1>1, <1>2, <1>3

LEMMA TwoPieces ==
    ASSUME NEW S, NEW a \in S, NEW b \in S, Before(a, b)
    PROVE  <<a, b>> \in Seq(S) /\ Range(<<a, b>>) = {a, b} /\ Ascending(<<a, b>>)
<1>1. <<a, b>> \in Seq(S) /\ Len(<<a, b>>) = 2 /\ <<a, b>>[1] = a /\ <<a, b>>[2] = b
    OBVIOUS
<1>2. Range(<<a, b>>) = {a, b}
    BY DEF Range
<1>3. Ascending(<<a, b>>)
    BY <1>1 DEF Ascending
<1> QED
    BY <1>1, <1>2, <1>3

LEMMA WriteAppends ==
    ASSUME TypeOK, HalfIsBegun, Write
    PROVE  (\E t : Appends(t)) /\ HalfIsBegun' /\ written' \in 0..MaxLines /\ half' \in BOOLEAN
<1> DEFINE w == written + 1
<1>0. /\ \A p \in Pieces : p = <<p[1], p[2]>> /\ p[1] \in 1..MaxLines /\ p[2] \in {1, 2}
      /\ written \in 0..MaxLines /\ half \in BOOLEAN /\ MaxLines \in Nat
    BY TailAssumption DEF Pieces, TypeOK
<1>1. ASSUME WriteLine \/ WriteHalf
      PROVE  /\ ~half /\ w \in 1..MaxLines /\ written' = w /\ w \in Nat
             /\ written' \in 0..MaxLines
             /\ <<w, 1>> \in Pieces /\ <<w, 2>> \in Pieces
             /\ \A p \in Pieces : WasWritten(p) => WasWritten(p)'
             /\ \A p \in Pieces, k \in {1, 2} : WasWritten(p) => Before(p, <<w, k>>)
             /\ HalfIsBegun'
             /\ UNCHANGED <<path, age, created, writer, tailer>>
    <2>1. ~half /\ w \in 1..MaxLines /\ written' = w /\ w \in Nat
        BY <1>0, <1>1 DEF WriteLine, WriteHalf
    <2>2. <<w, 1>> \in Pieces /\ <<w, 2>> \in Pieces
        BY <2>1 DEF Pieces
    <2>3. ASSUME NEW p \in Pieces, WasWritten(p) PROVE WasWritten(p)' /\ p[1] < w
        BY <1>0, <2>1, <2>3 DEF WasWritten
    <2>4. \A p \in Pieces, k \in {1, 2} : WasWritten(p) => Before(p, <<w, k>>)
        BY <2>3 DEF Before
    <2>5. UNCHANGED <<path, age, created, writer, tailer>> /\ HalfIsBegun'
        BY <1>1, <2>1 DEF WriteLine, WriteHalf, HalfIsBegun
    <2> QED
        BY <1>0, <2>1, <2>2, <2>3, <2>4, <2>5
<1>2. CASE WriteLine
    <2> DEFINE t == <<<<w, 1>>, <<w, 2>>>>
    <2>1. Before(<<w, 1>>, <<w, 2>>)
        BY DEF Before
    <2>2. t \in Seq(Pieces) /\ Range(t) = {<<w, 1>>, <<w, 2>>} /\ Ascending(t)
        BY <1>1, <1>2, <2>1, TwoPieces
    <2>3. files' = [files EXCEPT ![writer] = @ \o t] /\ half' = FALSE
        BY <1>0, <1>1, <1>2 DEF WriteLine, Append1
    <2>4. \A q \in Range(t) : WasWritten(q)'
        <3>1. ~half' /\ written' = w /\ w <= w
            BY <1>1, <1>2, <2>3
        <3>2. \A q \in Range(t) : q[1] = w
            BY <2>2
        <3> QED
            BY <3>1, <3>2 DEF WasWritten
    <2>5. \A p \in Pieces, q \in Range(t) : WasWritten(p) => Before(p, q)
        BY <1>1, <1>2, <2>2
    <2> HIDE DEF t
    <2>6. Appends(t)
        BY <1>1, <1>2, <2>2, <2>3, <2>4, <2>5 DEF Appends
    <2> QED
        BY <1>1, <1>2, <2>3, <2>6
<1>3. CASE WriteHalf
    <2> DEFINE t == <<<<w, 1>>>>
    <2>1. t \in Seq(Pieces) /\ Range(t) = {<<w, 1>>} /\ Ascending(t)
        BY <1>1, <1>3, OnePiece
    <2>2. files' = [files EXCEPT ![writer] = @ \o t] /\ half' = TRUE
        BY <1>3 DEF WriteHalf, Append1
    <2>3. \A q \in Range(t) : WasWritten(q)'
        <3>1. written' = w /\ w <= w
            BY <1>1, <1>3
        <3>2. \A q \in Range(t) : q[1] = w /\ q[2] = 1
            BY <2>1
        <3> QED
            BY <3>1, <3>2 DEF WasWritten
    <2>4. \A p \in Pieces, q \in Range(t) : WasWritten(p) => Before(p, q)
        BY <1>1, <1>3, <2>1
    <2> HIDE DEF t
    <2>5. Appends(t)
        BY <1>1, <1>3, <2>1, <2>2, <2>3, <2>4 DEF Appends
    <2> QED
        BY <1>1, <1>3, <2>2, <2>5
<1>4. CASE WriteRest
    <2> DEFINE q == <<written, 2>>
               t == <<q>>
    <2>1. /\ half /\ half' = FALSE /\ written' = written /\ written \in 1..MaxLines /\ written \in Nat
          /\ files' = [files EXCEPT ![writer] = @ \o t]
          /\ UNCHANGED <<path, age, created, writer, tailer>>
        BY <1>0, <1>4 DEF WriteRest, Append1, HalfIsBegun
    <2>2. q \in Pieces
        BY <2>1 DEF Pieces
    <2>3. t \in Seq(Pieces) /\ Range(t) = {q} /\ Ascending(t)
        BY <2>2, OnePiece
    <2>4. \A p \in Pieces : WasWritten(p) => WasWritten(p)' /\ Before(p, q)
        BY <1>0, <2>1 DEF WasWritten, Before
    <2>5. ASSUME NEW CONSTANT r, r = q PROVE WasWritten(r)'
        BY <2>1, <2>5 DEF WasWritten
    <2>6. HalfIsBegun'
        BY <2>1 DEF HalfIsBegun
    <2> HIDE DEF q
    <2>7. \A r \in Range(t) : WasWritten(r)'
        BY <2>3, <2>5
    <2>8. \A p \in Pieces, r \in Range(t) : WasWritten(p) => Before(p, r)
        BY <2>3, <2>4
    <2>9. \A p \in Pieces : WasWritten(p) => WasWritten(p)'
        BY <2>4
    <2> HIDE DEF t
    <2>10. Appends(t)
        BY <2>1, <2>3, <2>7, <2>8, <2>9 DEF Appends
    <2> QED
        BY <1>0, <2>1, <2>6, <2>10
<1> QED
    BY <1>2, <1>3, <1>4 DEF Write

LEMMA TypeFacts ==
    ASSUME TypeOK
    PROVE  /\ MaxLines \in Nat /\ MaxFiles \in Nat /\ MaxCuts \in Nat /\ Capacity \in Nat
           /\ created \in Nat /\ created \in Files /\ writer \in Files
           /\ path # None => path \in Files
           /\ f # None => f \in Files
           /\ Files \subseteq Nat \ {None}
           /\ \A g \in Files :
                 /\ files[g] \in Seq(Pieces) /\ Len(files[g]) \in Nat
                 /\ age[g] \in Nat /\ age[g] \in 0..MaxCuts
           /\ pending \in Seq(Pieces) /\ Len(pending) \in Nat
           /\ off \in Nat
<1>1. /\ MaxLines \in Nat /\ MaxFiles \in Nat /\ MaxCuts \in Nat /\ Capacity \in Nat
      /\ created \in 1..MaxFiles /\ writer \in 1..created
      /\ path \in {None} \cup 1..created /\ f \in {None} \cup 1..created
      /\ files \in [Files -> Seq(Pieces)] /\ age \in [Files -> 0..MaxCuts]
      /\ pending \in Seq(Pieces) /\ off \in Nat
    BY TailAssumption DEF TypeOK
<1>2. /\ created \in Nat /\ created \in Files /\ writer \in Files
      /\ path # None => path \in Files
      /\ f # None => f \in Files
      /\ Files \subseteq Nat \ {None}
    BY <1>1 DEF Files, None
<1>3. ASSUME NEW g \in Files
      PROVE  /\ files[g] \in Seq(Pieces) /\ Len(files[g]) \in Nat
             /\ age[g] \in Nat /\ age[g] \in 0..MaxCuts
    BY <1>1, <1>3, LenProperties
<1>4. Len(pending) \in Nat
    BY <1>1, LenProperties
<1> QED
    BY <1>1, <1>2, <1>3, <1>4

LEMMA ReadTypes ==
    ASSUME TypeOK, NEW g \in Files, NEW n \in Nat, NEW b \in Seq(Pieces), Read(g, n, b)
    PROVE  pending' \in Seq(Pieces) /\ off' \in Nat
<1>1. files[g] \in Seq(Pieces)
    BY DEF TypeOK
<1>2. From(files[g], n) \in Seq(Pieces) /\ Len(files[g]) \in Nat
    BY <1>1, FromProps, LenProperties
<1> QED
    BY <1>2, ConcatProperties DEF Read

\* The first complete line of pending.
FirstEnd ==
    CHOOSE i \in DOMAIN pending :
        /\ pending[i][2] = 2
        /\ \A j \in 1..(i - 1) : pending[j][2] # 2
FirstLine == SubSeq(pending, 1, FirstEnd)

LEMMA FirstEndProps ==
    ASSUME TypeOK, Ended(pending) # {}
    PROVE  /\ FirstEnd \in 1..Len(pending)
           /\ pending[FirstEnd][2] = 2
           /\ \A j \in 1..(FirstEnd - 1) : pending[j][2] # 2
<1> DEFINE T == {i \in DOMAIN pending : pending[i][2] = 2}
<1>1. pending \in Seq(Pieces) /\ DOMAIN pending = 1..Len(pending) /\ Len(pending) \in Nat
    BY LenProperties DEF TypeOK
<1>2. T # {} /\ T \subseteq Nat
    BY <1>1 DEF Ended
<1> HIDE DEF T
<1>3. PICK e \in T : \A y \in T : ~(<<y, e>> \in OpToRel(<, Nat))
    BY <1>2, NatLessThanWellFounded, WFMin
<1>4. \A y \in T : ~(y < e)
    BY <1>2, <1>3 DEF OpToRel
<1>5. e \in DOMAIN pending /\ pending[e][2] = 2 /\ \A j \in 1..(e - 1) : pending[j][2] # 2
    BY <1>1, <1>4 DEF T
<1>6. /\ FirstEnd \in DOMAIN pending
      /\ pending[FirstEnd][2] = 2
      /\ \A j \in 1..(FirstEnd - 1) : pending[j][2] # 2
    BY <1>5 DEF FirstEnd
<1> QED
    BY <1>1, <1>6

LEMMA EmitsFirst ==
    ASSUME TypeOK, Emit
    PROVE  /\ pc = "emit" /\ Ended(pending) # {}
           /\ lines' = Append(lines, FirstLine)
           /\ pending' = From(pending, FirstEnd)
           /\ queued' \in 0..Capacity
           /\ UNCHANGED <<env, pc, stat, f, off, info, opened, cancelled, history>>
           /\ FirstLine \in Seq(Pieces)
           /\ Len(FirstLine) = FirstEnd
           /\ \A i \in 1..FirstEnd : FirstLine[i] = pending[i]
           /\ lines' \in Seq(Seq(Pieces))
           /\ pending' \in Seq(Pieces)
<1>1. /\ pc = "emit" /\ Ended(pending) # {}
      /\ lines' = Append(lines, FirstLine)
      /\ pending' = From(pending, FirstEnd)
      /\ UNCHANGED <<env, pc, stat, f, off, info, opened, cancelled, history>>
    BY DEF Emit, FirstLine, FirstEnd
<1>2. queued' = queued \/ Send
    BY DEF Emit
<1>3. queued' \in 0..Capacity
    BY <1>2, TailAssumption DEF Send, TypeOK
<1>4. FirstEnd \in 1..Len(pending) /\ pending \in Seq(Pieces) /\ lines \in Seq(Seq(Pieces))
    BY <1>1, FirstEndProps DEF TypeOK
<1>5. /\ Len(pending) \in Nat /\ FirstEnd \in Nat /\ FirstEnd \in Int
      /\ \A i \in 1..FirstEnd : i \in 1..Len(pending)
    BY <1>4, LenProperties
<1>6. \A i \in 1..FirstEnd : pending[i] \in Pieces
    BY <1>4, <1>5, ElementOfSeq
<1>7. /\ FirstLine \in Seq(Pieces)
      /\ Len(FirstLine) = IF 1 <= FirstEnd THEN FirstEnd - 1 + 1 ELSE 0
      /\ \A i \in 1..(FirstEnd - 1 + 1) : FirstLine[i] = pending[1 + i - 1]
    BY <1>5, <1>6, SubSeqProperties DEF FirstLine
<1>8. Len(FirstLine) = FirstEnd /\ \A i \in 1..FirstEnd : FirstLine[i] = pending[i]
    BY <1>4, <1>5, <1>7
<1>9. lines' \in Seq(Seq(Pieces))
    BY <1>1, <1>4, <1>7, AppendProperties
<1>10. pending' \in Seq(Pieces)
    BY <1>1, <1>4, <1>5, FromProps
<1> QED
    BY <1>1, <1>3, <1>7, <1>8, <1>9, <1>10

LEMMA TypeStep ==
    ASSUME TypeOK, HalfIsBegun, Switching, [Next]_vars
    PROVE  TypeOK'
<1> USE TypeFacts DEF TypeOK, env, history
<1>1. CASE Write
    <2>1. PICK t : Appends(t)
        BY <1>1, WriteAppends
    <2>2. files[writer] \o t \in Seq(Pieces)
        BY <2>1, ConcatProperties DEF Appends
    <2>3. files' \in [Files -> Seq(Pieces)]
        BY <2>1, <2>2 DEF Appends
    <2> QED
        BY <1>1, <2>1, <2>3, WriteAppends DEF Appends, tailer
<1>2. CASE MoveAway
    BY <1>2 DEF MoveAway, tailer
<1>3. CASE WriterReopens
    BY <1>3 DEF WriterReopens, tailer
<1>4. CASE Create
    <2>1. created' \in 1..MaxFiles /\ created' = created + 1
        BY <1>4 DEF Create
    <2>2. /\ path' \in {None} \cup 1..created' /\ writer' \in 1..created'
          /\ f' \in {None} \cup 1..created'
        BY <1>4, <2>1 DEF Create, tailer
    <2> QED
        BY <1>4, <2>1, <2>2 DEF Create, tailer
<1>5. CASE Truncate
    <2>1. <<>> \in Seq(Pieces)
        OBVIOUS
    <2>2. files' \in [Files -> Seq(Pieces)]
        BY <1>5, <2>1 DEF Truncate
    <2>3. age[path] + 1 \in 0..MaxCuts
        <3>1. path \in Files /\ age[path] < MaxCuts
            BY <1>5 DEF Truncate
        <3>2. age[path] \in Nat /\ MaxCuts \in Nat
            BY <3>1
        <3> QED
            BY <3>1, <3>2
    <2>4. age' \in [Files -> 0..MaxCuts]
        BY <1>5, <2>3 DEF Truncate
    <2> QED
        BY <1>5, <2>2, <2>4 DEF Truncate, tailer
<1>6. CASE StatFails \/ OpenFails \/ EmitDone \/ Return \/ Cancel
    BY <1>6 DEF StatFails, OpenFails, EmitDone, Return, Cancel
<1>7. CASE Consume
    BY <1>7 DEF Consume
<1>8. CASE StatFinds
    <2>1. stat' \in FileInfo
        <3>1. path \in Files /\ path \in 0..MaxFiles
            BY <1>8 DEF StatFinds, Files
        <3> QED
            BY <1>8, <3>1 DEF StatFinds, FileInfo
    <2> QED
        BY <1>8, <2>1 DEF StatFinds
<1>9. CASE Open
    <2>1. PICK n \in Nat : Read(path, n, pending)
        BY <1>9 DEF Open
    <2>2. pending' \in Seq(Pieces) /\ off' \in Nat
        BY <1>9, <2>1, ReadTypes DEF Open
    <2>3. skipped' \subseteq 1..MaxLines
        <3>1. Ended(files[path]) \subseteq 1..MaxLines
            <4>1. path \in Files /\ Range(files[path]) \in SUBSET Pieces
                BY <1>9, RangeOfSeq DEF Open
            <4> QED
                BY <4>1, EndedOfRange DEF Pieces
        <3> QED
            BY <1>9, <3>1 DEF Open
    <2>4. startAge' \in 0..MaxCuts /\ f' \in {None} \cup 1..created
        BY <1>9 DEF Open
    <2> QED
        BY <1>9, <2>2, <2>3, <2>4 DEF Open
<1>10. CASE Drain
    <2>1. f \in Files /\ Read(f, off, pending)
        BY <1>10 DEF Drain, Switching
    <2>2. pending' \in Seq(Pieces) /\ off' \in Nat
        BY <2>1, ReadTypes
    <2> QED
        BY <1>10, <2>2 DEF Drain, ReadsOn
<1>11. CASE Reopen
    <2>1. path \in Files /\ Read(path, 0, <<>>)
        BY <1>11 DEF Reopen
    <2>2. pending' \in Seq(Pieces) /\ off' \in Nat
        <3>1. <<>> \in Seq(Pieces) /\ 0 \in Nat
            OBVIOUS
        <3> QED
            BY <2>1, <3>1, ReadTypes
    <2>3. startAge' \in 0..MaxCuts /\ f' \in {None} \cup 1..created
        BY <1>11 DEF Reopen
    <2> QED
        BY <1>11, <2>2, <2>3 DEF Reopen
<1>12. CASE Follow
    <2>1. f \in Files /\ (Read(f, 0, <<>>) \/ Read(f, off, pending))
        BY <1>12 DEF Follow
    <2>2. pending' \in Seq(Pieces) /\ off' \in Nat
        <3>1. <<>> \in Seq(Pieces) /\ 0 \in Nat
            OBVIOUS
        <3> QED
            BY <2>1, <3>1, ReadTypes
    <2>3. startAge' \in 0..MaxCuts
        BY <1>12, <2>1 DEF Follow
    <2> QED
        BY <1>12, <2>2, <2>3 DEF Follow, Unnoticed, ReadsOn
<1>13. CASE Emit
    BY <1>13, EmitsFirst
<1>14. CASE UNCHANGED vars
    BY <1>14 DEF vars
<1> QED
    BY <1>1, <1>2, <1>3, <1>4, <1>5, <1>6, <1>7, <1>8, <1>9, <1>10, <1>11, <1>12, <1>13,
       <1>14 DEF Next, Tick, Rotate

-----------------------------------------------------------------------------
(* Where the tailer stands.                                                *)

LEMMA EndedEmpty == Ended(<<>>) = {}
BY DEF Ended

LEMMA ControlStep ==
    ASSUME TypeOK, Fresh, Switching, NoLineWaits, [Next]_vars
    PROVE  Fresh' /\ Switching' /\ NoLineWaits'
<1> USE DEF Fresh, Switching, NoLineWaits, env, history
<1>1. CASE Write \/ Rotate
    <2>1. UNCHANGED tailer
        BY <1>1 DEF Write, WriteLine, WriteHalf, WriteRest, Rotate, MoveAway, Create,
                    WriterReopens, Truncate
    <2> QED
        BY <2>1 DEF tailer
<1>2. CASE StatFails \/ StatFinds \/ OpenFails \/ EmitDone \/ Return \/ Consume \/ Cancel
    BY <1>2 DEF StatFails, StatFinds, OpenFails, EmitDone, Return, Consume, Cancel
<1>3. CASE Open
    BY <1>3 DEF Open
<1>4. CASE Drain
    BY <1>4 DEF Drain
<1>5. CASE Reopen
    BY <1>5 DEF Reopen
<1>6. CASE Follow
    BY <1>6 DEF Follow
<1>7. CASE Emit
    BY <1>7, EmitsFirst, EndedEmpty
<1>8. CASE UNCHANGED vars
    BY <1>8 DEF vars
<1> QED
    BY <1>1, <1>2, <1>3, <1>4, <1>5, <1>6, <1>7, <1>8 DEF Next, Tick

-----------------------------------------------------------------------------
(* The files.                                                              *)

\* A write: the file it goes to, and those it does not touch.
LEMMA AppendedFiles ==
    ASSUME TypeOK, NEW t, Appends(t)
    PROVE  /\ files'[writer] = files[writer] \o t
           /\ files'[writer] \in Seq(Pieces)
           /\ Range(files'[writer]) = Range(files[writer]) \cup Range(t)
           /\ Len(files'[writer]) >= Len(files[writer])
           /\ Range(t) \subseteq Pieces
           /\ \A g \in Files : g # writer => files'[g] = files[g]
<1>1. /\ writer \in Files /\ files[writer] \in Seq(Pieces) /\ t \in Seq(Pieces)
      /\ files' = [files EXCEPT ![writer] = files[writer] \o t]
      /\ DOMAIN files = Files
    BY TypeFacts DEF Appends, TypeOK
<1>2. /\ files[writer] \o t \in Seq(Pieces)
      /\ Range(files[writer] \o t) = Range(files[writer]) \cup Range(t)
      /\ Len(files[writer] \o t) = Len(files[writer]) + Len(t)
      /\ Len(files[writer]) \in Nat /\ Len(t) \in Nat
    BY <1>1, ConcatProperties, RangeConcatenation, LenProperties
<1>3. Range(t) \subseteq Pieces
    BY <1>1, RangeOfSeq
<1> QED
    BY <1>1, <1>2, <1>3

LEMMA FilesAscendWrite ==
    ASSUME TypeOK, FilesAscend, LastIsOpen, NEW t, Appends(t)
    PROVE  FilesAscend'
<1>0. \A g \in Files : Range(files[g]) \subseteq Pieces
    BY TypeFacts, RangeOfSeq
<1>1. \A g \in Files : Precedes(Range(files[g]), Range(t))
    BY <1>0 DEF FilesAscend, Written, Precedes, Appends
<1>2. ASSUME NEW g \in Files PROVE Ascending(files'[g])
    <2>1. CASE g = writer
        <3>1. Ascending(files[writer] \o t)
            BY <1>1, TypeFacts, AscendingConcat DEF FilesAscend, Appends
        <3> QED
            BY <2>1, <3>1, AppendedFiles
    <2>2. CASE g # writer
        BY <2>2, AppendedFiles DEF FilesAscend
    <2> QED
        BY <2>1, <2>2
<1>3. ASSUME NEW g \in Files, NEW p \in Range(files'[g]) PROVE WasWritten(p)'
    <2>1. p \in Range(files[g]) \/ p \in Range(t)
        BY AppendedFiles
    <2> QED
        BY <1>0, <2>1 DEF FilesAscend, Written, Appends
<1>4. ASSUME NEW g \in Files, NEW h \in Files, g < h
      PROVE  Precedes(Range(files'[g]), Range(files'[h]))
    <2>1. Precedes(Range(files[g]), Range(files[h]))
        BY <1>4 DEF FilesAscend
    <2>2. CASE g = writer
        <3>1. files'[h] = <<>>
            BY <1>4, <2>2, AppendedFiles, TypeFacts DEF LastIsOpen
        <3> QED
            BY <3>1, RangeEmpty DEF Precedes
    <2>3. CASE h = writer
        <3>1. /\ Range(files'[h]) = Range(files[h]) \cup Range(t)
              /\ Range(files'[g]) = Range(files[g])
            BY <1>4, <2>3, AppendedFiles, TypeFacts
        <3> QED
            BY <1>1, <2>1, <3>1 DEF Precedes
    <2>4. CASE g # writer /\ h # writer
        BY <2>1, <2>4, AppendedFiles
    <2> QED
        BY <2>2, <2>3, <2>4
<1> QED
    BY <1>2, <1>3, <1>4 DEF FilesAscend, Written

LEMMA SnapshotsStay ==
    ASSUME TypeOK, OfFile(stat), OfFile(info), UNCHANGED <<stat, info>>,
           created' \in Nat, created' >= created,
           \A g \in Files :
               \/ age'[g] = age[g] /\ Len(files'[g]) \in Nat /\ Len(files'[g]) >= Len(files[g])
               \/ age'[g] = age[g] + 1
    PROVE  OfFile(stat)' /\ OfFile(info)'
<1>1. ASSUME NEW i \in FileInfo, OfFile(i)
      PROVE  /\ i.file <= created'
             /\ i.file # None =>
                   /\ i.age <= age'[i.file]
                   /\ i.age = age'[i.file] => i.size <= Len(files'[i.file])
    <2>1. /\ i.file \in 0..MaxFiles /\ i.age \in Nat /\ i.size \in Nat
          /\ i.file # None => i.file \in Files
        BY <1>1, TypeFacts DEF FileInfo, Files, None
    <2>2. i.file <= created'
        BY <1>1, <2>1, TypeFacts DEF OfFile
    <2>3. ASSUME i.file # None
          PROVE  /\ i.age <= age'[i.file]
                 /\ i.age = age'[i.file] => i.size <= Len(files'[i.file])
        <3>1. PICK g \in Files : g = i.file
            BY <2>1, <2>3
        <3>2. age[g] \in Nat /\ Len(files[g]) \in Nat
            BY TypeFacts
        <3>3. i.age <= age[g] /\ (i.age = age[g] => i.size <= Len(files[g]))
            BY <1>1, <2>3, <3>1 DEF OfFile
        <3>4. CASE age'[g] = age[g] /\ Len(files'[g]) \in Nat /\ Len(files'[g]) >= Len(files[g])
            BY <2>1, <3>1, <3>2, <3>3, <3>4
        <3>5. CASE age'[g] = age[g] + 1
            BY <2>1, <3>1, <3>2, <3>3, <3>5
        <3> QED
            BY <3>4, <3>5
    <2> QED
        BY <2>2, <2>3
<1>2. stat \in FileInfo /\ info \in FileInfo
    BY DEF TypeOK
<1> QED
    BY <1>1, <1>2 DEF OfFile

LEMMA EnvironmentStep ==
    ASSUME TypeOK, Environment, [Next]_vars
    PROVE  Environment'
<1> USE TypeFacts DEF Environment
<1>1. CASE Write
    <2>1. PICK t : Appends(t)
        BY <1>1, WriteAppends
    <2>2. FilesAscend'
        BY <2>1, FilesAscendWrite
    <2>3. LastIsOpen'
        BY <2>1, AppendedFiles DEF LastIsOpen, Appends
    <2>4. ASSUME NEW g \in Files
          PROVE  age'[g] = age[g] /\ Len(files'[g]) \in Nat /\ Len(files'[g]) >= Len(files[g])
        <3>1. age' = age
            BY <2>1 DEF Appends
        <3>2. CASE g = writer
            BY <2>1, <3>1, <3>2, AppendedFiles, LenProperties
        <3>3. CASE g # writer
            <4>1. files'[g] = files[g] /\ Len(files[g]) \in Nat
                BY <2>1, <3>3, AppendedFiles
            <4> QED
                BY <3>1, <4>1
        <3> QED
            BY <3>2, <3>3
    <2>5. OfFile(stat)' /\ OfFile(info)'
        <3>1. created' = created /\ created \in Nat /\ UNCHANGED <<stat, info>>
            BY <2>1 DEF Appends, tailer
        <3> QED
            BY <2>4, <3>1, SnapshotsStay
    <2> QED
        BY <1>1, <2>2, <2>3, <2>5, WriteAppends
<1>2. CASE MoveAway
    BY <1>2 DEF MoveAway, tailer, FilesAscend, LastIsOpen, OfFile, HalfIsBegun, Written,
                WasWritten
<1>3. CASE WriterReopens
    <2>1. LastIsOpen'
        <3>1. path = created /\ writer' = path /\ UNCHANGED <<path, files, created>>
            BY <1>3 DEF WriterReopens, LastIsOpen
        <3>2. writer \in Nat /\ writer <= created
            BY DEF TypeOK
        <3>3. ASSUME NEW g \in Files, g > created PROVE files[g] = <<>>
            BY <3>2, <3>3 DEF LastIsOpen
        <3> QED
            BY <3>1, <3>3 DEF LastIsOpen
    <2> QED
        BY <1>3, <2>1 DEF WriterReopens, tailer, FilesAscend, OfFile, HalfIsBegun, Written,
                WasWritten
<1>4. CASE Create
    <2>1. /\ created' = created + 1 /\ path' = created'
          /\ UNCHANGED <<files, age, writer, stat, info, written, half>>
        BY <1>4 DEF Create, tailer
    <2>2. LastIsOpen'
        BY <2>1 DEF LastIsOpen
    <2>3. OfFile(stat)' /\ OfFile(info)'
        <3>1. created' \in Nat /\ created' >= created
            BY <2>1
        <3> QED
            BY <2>1, <3>1, SnapshotsStay
    <2> QED
        BY <2>1, <2>2, <2>3 DEF FilesAscend, HalfIsBegun, Written, WasWritten
<1>5. CASE Truncate
    <2>1. /\ path \in Files
          /\ \A g \in Files : files'[g] = IF g = path THEN <<>> ELSE files[g]
          /\ \A g \in Files : age'[g] = IF g = path THEN age[g] + 1 ELSE age[g]
          /\ UNCHANGED <<path, created, writer, written, half, stat, info>>
        BY <1>5 DEF Truncate, tailer, TypeOK
    <2>2. Len(<<>>) = 0 /\ Range(<<>>) = {} /\ Ascending(<<>>)
        BY RangeEmpty DEF Ascending
    <2>3. FilesAscend'
        BY <2>1, <2>2 DEF FilesAscend, Precedes, Written, WasWritten
    <2>4. LastIsOpen' /\ HalfIsBegun'
        BY <2>1 DEF LastIsOpen, HalfIsBegun
    <2>5. OfFile(stat)' /\ OfFile(info)'
        <3>1. ASSUME NEW g \in Files
              PROVE  \/ /\ age'[g] = age[g]
                        /\ Len(files'[g]) \in Nat /\ Len(files'[g]) >= Len(files[g])
                     \/ age'[g] = age[g] + 1
            BY <2>1
        <3>2. created' = created /\ created \in Nat /\ UNCHANGED <<stat, info>>
            BY <2>1
        <3> QED
            BY <3>1, <3>2, SnapshotsStay
    <2> QED
        BY <2>3, <2>4, <2>5
<1>6. CASE Tick \/ Return \/ Consume \/ Cancel \/ UNCHANGED vars
    <2>1. UNCHANGED env
        BY <1>6, EmitsFirst DEF Tick, StatFails, StatFinds, OpenFails, Open, Drain, Reopen, Follow,
                                EmitDone, Return, Consume, Cancel, vars
    <2>2. /\ stat' = stat \/ StatFinds
          /\ info' \in {info, stat}
        BY <1>6, EmitsFirst DEF Tick, StatFails, StatFinds, OpenFails, Open, Drain, Reopen, Follow,
                                EmitDone, Return, Consume, Cancel, vars
    <2>3. OfFile(stat')
        BY <2>2 DEF StatFinds, OfFile, LastIsOpen
    <2>4. OfFile(info')
        BY <2>2
    <2> QED
        BY <2>1, <2>3, <2>4 DEF env, FilesAscend, LastIsOpen, OfFile, HalfIsBegun, Written, WasWritten
<1> QED
    BY <1>1, <1>2, <1>3, <1>4, <1>5, <1>6 DEF Next, Rotate

-----------------------------------------------------------------------------
(* The order of lines is kept.                                             *)

LEMMA OverPieces ==
    ASSUME TypeOK, LinesAscend
    PROVE  /\ Over \subseteq Pieces
           /\ Range(pending) \subseteq Pieces
           /\ \A i \in DOMAIN lines : LineOf(lines[i]) \in 1..MaxLines
<1>1. ASSUME NEW i \in DOMAIN lines PROVE LineOf(lines[i]) \in 1..MaxLines
    <2>1. lines[i] \in Seq(Pieces) /\ lines[i] # <<>>
        BY <1>1, LenProperties, ElementOfSeq DEF TypeOK, LinesAscend
    <2>2. Len(lines[i]) \in 1..Len(lines[i])
        BY <2>1, EmptySeq
    <2>3. lines[i][Len(lines[i])] \in Pieces
        BY <2>1, <2>2, ElementOfSeq
    <2> QED
        BY <2>3 DEF LineOf, Pieces
<1>2. Over \subseteq Pieces
    <2>1. skipped \cup {LineOf(lines[i]) : i \in DOMAIN lines} \subseteq 1..MaxLines
        BY <1>1 DEF TypeOK
    <2>2. ASSUME NEW l \in 1..MaxLines PROVE End(l) \in Pieces
        BY DEF End, Pieces
    <2> QED
        BY <2>1, <2>2 DEF Over
<1>3. Range(pending) \subseteq Pieces
    BY TypeFacts, RangeOfSeq
<1> QED
    BY <1>1, <1>2, <1>3

LEMMA OverSame == UNCHANGED <<lines, skipped>> => Over' = Over
BY DEF Over, End, LineOf

LEMMA LinesSame == UNCHANGED <<lines, skipped>> /\ LinesAscend => LinesAscend'
BY DEF LinesAscend, LineOf

\* What is held stays, and no more is to come.
LEMMA HeldStays ==
    ASSUME Continues, UNCHANGED <<lines, pending, skipped, written, half>>,
           Rest' \cup Coming' \subseteq Rest \cup Coming
    PROVE  Continues'
<1>1. Over' = Over /\ LinesAscend' /\ pending' = pending
    BY OverSame, LinesSame DEF Continues
<1>2. Written(Over \cup Range(pending))'
    BY <1>1 DEF Continues, Written, WasWritten
<1>3. Precedes(Over \cup Range(pending), Rest \cup Coming)'
    BY <1>1 DEF Continues, Precedes
<1> QED
    BY <1>1, <1>2, <1>3 DEF Continues

\* A write adds only what comes after all that is held.
LEMMA OrderWrite ==
    ASSUME TypeOK, Continues, NEW t, Appends(t)
    PROVE  Continues'
<1> USE TypeFacts
<1>0. /\ UNCHANGED <<lines, pending, skipped, path, age, f, off, info, opened, pc, stat>>
      /\ Over' = Over /\ LinesAscend'
      /\ Over \cup Range(pending) \subseteq Pieces
    BY OverSame, LinesSame, OverPieces DEF Appends, tailer, history, Continues
<1>1. ASSUME NEW g \in Files PROVE Range(files'[g]) \subseteq Range(files[g]) \cup Range(t)
    BY AppendedFiles
<1>2. ASSUME NEW g \in Files
      PROVE  Range(From(files'[g], off)) \subseteq Range(From(files[g], off)) \cup Range(t)
    BY AppendedFiles, FromConcat DEF Appends
<1>3. Rest' \subseteq Rest \cup Range(t)
    <2>1. Leaving' = Leaving
        BY <1>0 DEF Leaving
    <2> QED
        BY <1>0, <1>1, <1>2, <2>1 DEF Rest
<1>4. Coming' \subseteq Coming \cup Range(t)
    BY <1>0, <1>1 DEF Coming
<1>5. Precedes(Over \cup Range(pending), Range(t))
    BY <1>0 DEF Appends, Continues, Written, Precedes
<1>6. Written(Over \cup Range(pending))'
    BY <1>0 DEF Appends, Continues, Written
<1>7. Precedes(Over \cup Range(pending), Rest \cup Coming)'
    BY <1>0, <1>3, <1>4, <1>5 DEF Continues, Precedes
<1> QED
    BY <1>0, <1>6, <1>7 DEF Continues, Ascending, Precedes

\* What is read from a file continues what is kept of pending.
LEMMA ReadContinues ==
    ASSUME TypeOK, Continues, FilesAscend,
           NEW g \in Files, NEW n \in Nat, NEW b \in Seq(Pieces), Read(g, n, b),
           Ascending(b), Range(b) \subseteq Range(pending),
           Precedes(Over \cup Range(b), Range(From(files[g], n)))
    PROVE  /\ Ascending(pending')
           /\ Range(pending') = Range(b) \cup Range(From(files[g], n))
           /\ Written(Range(pending'))
           /\ Precedes(Over, Range(pending'))
           /\ Range(From(files[g], off')) = {}
<1> DEFINE r == From(files[g], n)
<1>1. /\ files[g] \in Seq(Pieces) /\ r \in Seq(Pieces) /\ Range(r) \subseteq Range(files[g])
      /\ Ascending(r) /\ pending' = b \o r
    BY TypeFacts, FromProps, RangeFrom, AscendingFrom DEF FilesAscend, Read
<1>2. /\ Range(pending') = Range(b) \cup Range(r)
    BY <1>1, RangeConcatenation
<1>3. Ascending(pending')
    BY <1>1, AscendingConcat DEF Precedes
<1>4. Written(Range(pending'))
    BY <1>1, <1>2 DEF FilesAscend, Written, Continues
<1>5. Precedes(Over, Range(pending'))
    BY <1>2 DEF Continues, Precedes
<1>6. Range(From(files[g], off')) = {}
    <2>1. off' \in Nat /\ off' >= Len(files[g])
        BY TypeFacts DEF Read
    <2> QED
        BY <1>1, <2>1, FromBehind, RangeEmpty
<1> QED
    BY <1>2, <1>3, <1>4, <1>5, <1>6

LEMMA LaterFile ==
    ASSUME TypeOK, FilesAscend, LastIsOpen, f # None
    PROVE  Precedes(Range(files[f]), Coming)
<1>1. CASE path \in {None, f}
    BY <1>1 DEF Coming, Precedes
<1>2. CASE path \notin {None, f}
    <2>1. f < path /\ f \in Files /\ path \in Files
        BY <1>2, TypeFacts DEF LastIsOpen, TypeOK
    <2> QED
        BY <2>1 DEF Coming, Precedes, FilesAscend
<1> QED
    BY <1>1, <1>2

LEMMA OrderOpen ==
    ASSUME TypeOK, Environment, Fresh, Open, Continues, ~slipped'
    PROVE  Continues' /\ InfoIsOfFile'
<1> USE TypeFacts DEF Environment
<1>1. /\ pc = "stated" /\ f = None /\ path # None /\ path \in Files
      /\ f' = path /\ opened' = TRUE /\ info' = stat /\ pc' = "emit"
      /\ path = stat.file /\ age[path] = stat.age
      /\ UNCHANGED <<path, files, age, written, half, lines, stat>>
    BY DEF Open, Changed, env
<1>2. Coming' = {} /\ ~Leaving' /\ Rest' = Range(From(files[path], off'))
    BY <1>1 DEF Coming, Leaving, Rest
<1>3. InfoIsOfFile'
    BY <1>1, <1>2 DEF InfoIsOfFile
<1>4. CASE opened
    <2>1. skipped' = skipped /\ Read(path, 0, pending) /\ From(files[path], 0) = files[path]
        BY <1>1, <1>4, FromStart DEF Open
    <2>2. Coming = Range(files[path])
        BY <1>1, <1>4 DEF Coming
    <2>3. Precedes(Over \cup Range(pending), Range(files[path])) /\ Ascending(pending)
        BY <2>2 DEF Continues, Precedes
    <2>4. /\ Ascending(pending') /\ Written(Range(pending'))
          /\ Precedes(Over, Range(pending')) /\ Range(From(files[path], off')) = {}
        BY <1>1, <2>1, <2>3, ReadContinues
    <2>5. Over' = Over /\ LinesAscend'
        BY <1>1, <2>1, OverSame, LinesSame DEF Continues
    <2>6. Written(Over \cup Range(pending'))
        BY <2>4 DEF Continues, Written
    <2> QED
        BY <1>1, <1>2, <1>3, <2>4, <2>5, <2>6 DEF Continues, Written, WasWritten, Precedes, Ascending
<1>5. CASE ~opened
    <2>1. lines = <<>> /\ pending = <<>> /\ skipped' = Ended(files[path])
        BY <1>5 DEF Fresh, Open
    <2>2. /\ Read(path, Len(files[path]), pending)
          /\ From(files[path], Len(files[path])) = <<>>
        BY <1>1, <1>5, FromBehind DEF Open
    <2>3. pending' = <<>> /\ off' = Len(files[path])
        BY <2>1, <2>2 DEF Read
    <2>4. Rest' = {} /\ Range(pending') = {} /\ Ascending(pending')
        BY <1>2, <2>2, <2>3, RangeEmpty DEF Ascending
    <2>5. LinesAscend' /\ Over' = {End(l) : l \in Ended(files[path])}
        BY <1>1, <2>1 DEF LinesAscend, Over
    <2>6. Over' \subseteq Range(files[path])
        <3>1. files[path] \in Seq(Pieces) /\ Range(files[path]) \subseteq Pieces
            BY <1>1, RangeOfSeq
        <3>2. ASSUME NEW p \in Pieces, p[2] = 2 PROVE End(p[1]) = p
            BY <3>2 DEF End, Pieces
        <3> QED
            BY <2>5, <3>1, <3>2, EndedOfRange
    <2>7. Written(Over' \cup Range(pending'))
        BY <1>1, <2>4, <2>6 DEF FilesAscend, Written
    <2> QED
        BY <1>1, <1>2, <1>3, <2>4, <2>5, <2>7 DEF Continues, Written, WasWritten, Precedes
<1> QED
    BY <1>4, <1>5

LEMMA OrderDrain ==
    ASSUME TypeOK, Environment, Switching, Drain, Continues, InfoIsOfFile
    PROVE  Continues' /\ InfoIsOfFile'
<1> USE TypeFacts DEF Environment
<1>1. /\ pc = "drain" /\ f # None /\ f \in Files /\ Read(f, off, pending) /\ pc' = "emit"
      /\ Leaving /\ info.file = f /\ f < stat.file
      /\ UNCHANGED <<f, info, stat, opened, path, files, age, written, half, lines, skipped>>
    BY DEF Drain, Switching, Leaving, InfoIsOfFile, env
<1>2. Leaving' /\ Rest' = {} /\ Coming' = Coming
    BY <1>1 DEF Leaving, Rest, Coming, TypeOK, FileInfo
<1>3. InfoIsOfFile'
    BY <1>1, <1>2 DEF InfoIsOfFile
<1>4. Range(From(files[f], off)) \subseteq Rest
    BY <1>1, RangeFrom DEF Rest
<1>5. Precedes(Over \cup Range(pending), Range(From(files[f], off))) /\ Ascending(pending)
    BY <1>4 DEF Continues, Precedes
<1>6. /\ Ascending(pending') /\ Written(Range(pending'))
      /\ Precedes(Over, Range(pending'))
      /\ Range(pending') = Range(pending) \cup Range(From(files[f], off))
    BY <1>1, <1>5, ReadContinues
<1>7. Precedes(Over \cup Range(pending'), Coming)
    BY <1>1, <1>6, LaterFile, RangeFrom DEF Precedes, Continues
<1>8. Over' = Over /\ LinesAscend'
    BY <1>1, OverSame, LinesSame DEF Continues
<1>9. Written(Over \cup Range(pending'))
    BY <1>6 DEF Continues, Written
<1> QED
    BY <1>1, <1>2, <1>3, <1>6, <1>7, <1>8, <1>9
    DEF Continues, Written, WasWritten, Precedes, Ascending

LEMMA OrderReopen ==
    ASSUME TypeOK, Environment, Switching, Fresh, Reopen, Continues, InfoIsOfFile, ~slipped'
    PROVE  Continues' /\ InfoIsOfFile'
<1> USE TypeFacts DEF Environment
<1>1. /\ pc = "reopen" /\ f # None /\ opened /\ path # None /\ path \in Files
      /\ Leaving /\ f < stat.file /\ path = stat.file /\ age[path] = stat.age
      /\ f' = path /\ info' = stat /\ pc' = "emit" /\ Read(path, 0, <<>>)
      /\ UNCHANGED <<stat, opened, path, files, age, written, half, lines, skipped>>
    BY DEF Reopen, Switching, Fresh, Leaving, InfoIsOfFile, Changed, env
<1>2. Coming' = {} /\ ~Leaving' /\ Rest' = Range(From(files[path], off'))
    BY <1>1 DEF Coming, Leaving, Rest
<1>3. InfoIsOfFile'
    BY <1>1, <1>2 DEF InfoIsOfFile
<1>4. Coming = Range(files[path]) /\ From(files[path], 0) = files[path]
    BY <1>1, FromStart DEF Coming, TypeOK, FileInfo
<1>5. PICK b \in Seq(Pieces), n \in Nat :
          /\ Read(path, n, b) /\ Ascending(b) /\ Range(b) \subseteq Range(pending)
          /\ Precedes(Over \cup Range(b), Range(From(files[path], n)))
    <2>1. /\ Ascending(<<>>) /\ Range(<<>>) = {} /\ <<>> \in Seq(Pieces)
          /\ Precedes(Over, Range(files[path]))
        BY <1>4, RangeEmpty DEF Continues, Precedes, Ascending
    <2> QED
        BY <1>1, <1>4, <2>1
<1>6. /\ Ascending(pending') /\ Written(Range(pending'))
      /\ Precedes(Over, Range(pending')) /\ Range(From(files[path], off')) = {}
    BY <1>1, <1>5, ReadContinues
<1>7. Over' = Over /\ LinesAscend'
    BY <1>1, OverSame, LinesSame DEF Continues
<1>8. Written(Over \cup Range(pending'))
    BY <1>6 DEF Continues, Written
<1> QED
    BY <1>1, <1>2, <1>3, <1>6, <1>7, <1>8 DEF Continues, Written, WasWritten, Precedes, Ascending

LEMMA OrderFollow ==
    ASSUME TypeOK, Environment, Follow, Continues, InfoIsOfFile, ~slipped'
    PROVE  Continues' /\ InfoIsOfFile'
<1> USE TypeFacts DEF Environment
<1>1. /\ pc = "stated" /\ f # None /\ f \in Files
      /\ stat.file = f /\ info.file = f /\ age[f] = stat.age
      /\ stat.age = info.age => info.size <= stat.size
      /\ info' = stat /\ pc' = "emit"
      /\ UNCHANGED <<f, stat, opened, path, files, age, written, half, lines, skipped>>
    BY DEF Follow, InfoIsOfFile, env
<1>2. Coming' = Coming /\ ~Leaving' /\ Rest' = Range(From(files[f], off'))
    BY <1>1 DEF Coming, Leaving, Rest
<1>3. InfoIsOfFile'
    BY <1>1, <1>2 DEF InfoIsOfFile
<1>4. Range(From(files[f], off)) \subseteq Rest
    BY <1>1, RangeFrom DEF Rest, Leaving
<1>5. Truncated => Rest = Range(files[f])
    <2>1. stat.size \in Nat /\ info.size \in Nat
        BY DEF TypeOK, FileInfo
    <2> QED
        BY <1>1, <2>1 DEF Rest, Leaving, Truncated
<1>6. PICK n \in Nat, b \in Seq(Pieces) :
          /\ Read(f, n, b) /\ Ascending(b) /\ Range(b) \subseteq Range(pending)
          /\ Range(From(files[f], n)) \subseteq Rest
    <2>1. CASE Truncated
        <3>1. Read(f, 0, <<>>) /\ From(files[f], 0) = files[f]
            BY <1>1, <2>1, FromStart DEF Follow
        <3>2. /\ Ascending(<<>>) /\ Range(<<>>) = {} /\ <<>> \in Seq(Pieces)
            BY RangeEmpty DEF Ascending
        <3> QED
            BY <1>5, <2>1, <3>1, <3>2
    <2>2. CASE ~Truncated
        BY <1>4, <2>2 DEF Follow, Continues
    <2> QED
        BY <2>1, <2>2
<1>7. Precedes(Over \cup Range(b), Range(From(files[f], n)))
    BY <1>6 DEF Continues, Precedes
<1>8. /\ Ascending(pending') /\ Written(Range(pending'))
      /\ Precedes(Over, Range(pending')) /\ Range(From(files[f], off')) = {}
      /\ Range(pending') = Range(b) \cup Range(From(files[f], n))
    BY <1>1, <1>6, <1>7, ReadContinues
<1>9. Precedes(Over \cup Range(pending'), Coming)
    BY <1>1, <1>6, <1>8, LaterFile, RangeFrom DEF Precedes, Continues
<1>10. Over' = Over /\ LinesAscend'
    BY <1>1, OverSame, LinesSame DEF Continues
<1>11. Written(Over \cup Range(pending'))
    BY <1>8 DEF Continues, Written
<1> QED
    BY <1>1, <1>2, <1>3, <1>8, <1>9, <1>10, <1>11
    DEF Continues, Written, WasWritten, Precedes, Ascending

LEMMA OrderEmit ==
    ASSUME TypeOK, Emit, Continues, InfoIsOfFile
    PROVE  Continues' /\ InfoIsOfFile'
<1> DEFINE e == FirstEnd
           m == LineOf(FirstLine)
           after == From(pending, e)
<1>0. /\ e \in 1..Len(pending) /\ pending[e][2] = 2
      /\ pending \in Seq(Pieces) /\ Len(pending) \in Nat /\ lines \in Seq(Seq(Pieces))
      /\ e \in Nat /\ e \in 1..e
    <2>1. e \in 1..Len(pending) /\ pending[e][2] = 2
        BY EmitsFirst, FirstEndProps
    <2>2. Len(pending) \in Nat /\ pending \in Seq(Pieces) /\ lines \in Seq(Seq(Pieces))
        BY TypeFacts DEF TypeOK
    <2> QED
        BY <2>1, <2>2
<1>1. /\ lines' = Append(lines, FirstLine) /\ pending' = after
      /\ UNCHANGED <<env, pc, stat, f, off, info, opened, skipped>>
      /\ FirstLine \in Seq(Pieces) /\ Len(FirstLine) = e /\ FirstLine[e] = pending[e]
      /\ e \in 1..Len(pending) /\ pending[e][2] = 2 /\ pending[e] \in Pieces
      /\ pending \in Seq(Pieces) /\ Len(pending) \in Nat /\ lines \in Seq(Seq(Pieces))
      /\ e \in Nat
    <2>1. pending[e] \in Pieces
        BY <1>0, ElementOfSeq
    <2>2. UNCHANGED skipped
        BY EmitsFirst DEF history
    <2>3. FirstLine[e] = pending[e] /\ Len(FirstLine) = e /\ FirstLine \in Seq(Pieces)
        BY <1>0, EmitsFirst
    <2>4. /\ lines' = Append(lines, FirstLine) /\ pending' = after
          /\ UNCHANGED <<env, pc, stat, f, off, info, opened>>
        BY EmitsFirst
    <2> QED
        BY <1>0, <2>1, <2>2, <2>3, <2>4
<1>2. m \in 1..MaxLines /\ pending[e] = End(m)
    BY <1>1 DEF LineOf, End, Pieces
<1>3. /\ Len(lines) \in Nat /\ DOMAIN lines = 1..Len(lines)
      /\ DOMAIN lines' = 1..(Len(lines) + 1)
      /\ \A i \in 1..Len(lines) : lines'[i] = lines[i]
      /\ lines'[Len(lines) + 1] = FirstLine
    BY <1>1, AppendProperties, LenProperties
<1>4. Over' = Over \cup {pending[e]}
    <2>1. {LineOf(lines'[i]) : i \in DOMAIN lines'} =
              {LineOf(lines[i]) : i \in DOMAIN lines} \cup {m}
        BY <1>3
    <2> QED
        BY <1>1, <1>2, <2>1 DEF Over, LineOf
<1>5. pending[e] \in Range(pending)
    BY <1>1, RangeEquality
<1>6. after \in Seq(Pieces) /\ Ascending(after) /\ Range(after) \subseteq Range(pending)
    BY <1>1, FromProps, AscendingFrom, RangeFrom DEF Continues
<1>7. ASSUME NEW q \in Range(after) PROVE Before(pending[e], q)
    <2>1. PICK i \in 1..Len(after) : q = after[i]
        BY <1>6, RangeEquality
    <2>2. q = pending[e + i] /\ e + i \in 1..Len(pending)
        BY <1>1, <2>1, FromProps
    <2>3. e < e + i
        <3>1. Len(after) \in Nat
            BY <1>6, LenProperties
        <3> QED
            BY <1>1, <3>1
    <2> QED
        BY <1>1, <2>2, <2>3 DEF Continues, Ascending
<1>8. ASSUME NEW l \in Nat, End(l) \in Over PROVE l < m
    <2>1. Before(End(l), End(m))
        BY <1>2, <1>5, <1>8 DEF Continues, Precedes
    <2> QED
        BY <1>2, <2>1 DEF Before, End
<1>9. LinesAscend'
    <2>1. ASSUME NEW i \in DOMAIN lines PROVE LineOf(lines[i]) < m /\ End(LineOf(lines[i])) \in Over
        BY <1>8, OverPieces DEF Continues, Over
    <2>2. m \notin skipped
        <3>1. m \in Nat /\ ~(m < m)
            BY <1>2, TypeFacts
        <3>2. m \in skipped => End(m) \in Over
            BY DEF Over
        <3> QED
            BY <1>8, <3>1, <3>2
    <2>3. FirstLine # <<>>
        BY <1>1, EmptySeq
    <2>4. ASSUME NEW i \in DOMAIN lines', NEW j \in DOMAIN lines', i < j
          PROVE  LineOf(lines'[i]) < LineOf(lines'[j])
        BY <1>3, <2>1, <2>4 DEF Continues, LinesAscend
    <2>5. ASSUME NEW i \in DOMAIN lines'
          PROVE  lines'[i] # <<>> /\ LineOf(lines'[i]) \notin skipped
        BY <1>3, <2>2, <2>3 DEF Continues, LinesAscend
    <2> QED
        BY <1>1, <2>4, <2>5 DEF LinesAscend, LineOf
<1>10. Rest' = Rest /\ Coming' = Coming /\ InfoIsOfFile'
    BY <1>1 DEF env, Rest, Coming, Leaving, InfoIsOfFile
<1>11. Over' \cup Range(pending') \subseteq Over \cup Range(pending)
    BY <1>1, <1>4, <1>5, <1>6
<1>12. Written(Over \cup Range(pending))'
    <2>1. written' = written /\ half' = half
        BY <1>1 DEF env
    <2> QED
        BY <1>11, <2>1 DEF Continues, Written, WasWritten
<1>13. Precedes(Over', Range(after))
    BY <1>4, <1>6, <1>7 DEF Continues, Precedes
<1> HIDE DEF after
<1> QED
    BY <1>1, <1>6, <1>9, <1>10, <1>11, <1>12, <1>13 DEF Continues, Precedes, Ascending

LEMMA InOrderStep ==
    ASSUME TypeOK, Environment, Fresh, Switching, InOrder, [Next]_vars
    PROVE  InOrder'
<1> SUFFICES ASSUME ~slipped' PROVE Continues' /\ InfoIsOfFile'
    BY DEF InOrder
<1> USE TypeFacts DEF Environment
<1>0. ~slipped /\ Continues /\ InfoIsOfFile
    <2>1. slipped' = slipped \/ Open \/ Reopen \/ Follow
        BY EmitsFirst DEF Next, Tick, Write, Rotate, WriteLine, WriteHalf, WriteRest, MoveAway,
               Create, WriterReopens, Truncate, tailer, history, vars, StatFails, StatFinds,
               OpenFails, Drain, EmitDone, Return, Consume, Cancel
    <2>2. ~slipped
        BY <2>1 DEF Open, Reopen, Follow
    <2> QED
        BY <2>2 DEF InOrder
<1>1. CASE Write
    <2>1. PICK t : Appends(t)
        BY <1>1, WriteAppends
    <2>2. InfoIsOfFile'
        BY <1>0, <2>1 DEF Appends, tailer, InfoIsOfFile, Leaving
    <2> QED
        BY <1>0, <2>1, <2>2, OrderWrite
<1>2. CASE Rotate
    <2>1. UNCHANGED <<lines, pending, skipped, written, half, f, off, info, opened, pc, stat>>
        BY <1>2 DEF Rotate, MoveAway, Create, WriterReopens, Truncate, tailer, history
    <2>2. InfoIsOfFile' /\ Leaving' = Leaving
        BY <1>0, <2>1 DEF InfoIsOfFile, Leaving
    <2>3. CASE MoveAway \/ WriterReopens
        <3>1. Rest' = Rest /\ Coming' \subseteq Coming
            BY <2>1, <2>2, <2>3 DEF MoveAway, WriterReopens, Rest, Coming
        <3> QED
            BY <1>0, <2>1, <2>2, <3>1, HeldStays
    <2>4. CASE Create
        <3>1. /\ files[created + 1] = <<>> /\ path' = created + 1
              /\ UNCHANGED <<files, age>>
            <4>1. created + 1 \in Files /\ created + 1 > writer
                BY <2>4 DEF Create, Files, TypeOK
            <4> QED
                BY <2>4, <4>1 DEF Create, LastIsOpen
        <3>2. Rest' = Rest /\ Coming' = {}
            BY <2>1, <2>2, <3>1, RangeEmpty DEF Rest, Coming
        <3> QED
            BY <1>0, <2>1, <2>2, <3>2, HeldStays
    <2>5. CASE Truncate
        <3>1. /\ path \in Files /\ path' = path
              /\ \A g \in Files : files'[g] = IF g = path THEN <<>> ELSE files[g]
              /\ \A g \in Files : age'[g] = IF g = path THEN age[g] + 1 ELSE age[g]
            BY <2>5 DEF Truncate, TypeOK
        <3>2. Rest' \subseteq Rest
            <4>1. CASE f = None \/ f # path
                BY <2>1, <2>2, <3>1, <4>1 DEF Rest
            <4>2. CASE f = path
                <5>1. files'[f] = <<>> /\ age'[f] = age[f] + 1
                    BY <3>1, <4>2
                <5>2. info.age <= age[f] /\ info.age \in Nat /\ age[f] \in Nat
                    BY <1>0, <3>1, <4>2 DEF InfoIsOfFile, OfFile, TypeOK, FileInfo
                <5>3. age'[f] # info.age
                    BY <5>1, <5>2
                <5> QED
                    BY <2>1, <5>1, <5>3, RangeEmpty DEF Rest
            <4> QED
                BY <4>1, <4>2
        <3>3. Coming' \subseteq Coming
            BY <2>1, <3>1, RangeEmpty DEF Coming
        <3> QED
            BY <1>0, <2>1, <2>2, <3>2, <3>3, HeldStays
    <2> QED
        BY <1>2, <2>3, <2>4, <2>5 DEF Rotate
<1>3. CASE StatFails \/ StatFinds \/ OpenFails \/ EmitDone \/ Return
    <2>1. UNCHANGED <<lines, pending, skipped, written, half, path, files, age, off, info, opened>>
        BY <1>3 DEF StatFails, StatFinds, OpenFails, EmitDone, Return, env, history
    <2>2. CASE StatFails
        <3>1. Rest' = {} /\ Coming' = {} /\ InfoIsOfFile'
            BY <2>1, <2>2 DEF StatFails, Rest, Coming, InfoIsOfFile, Leaving
        <3> QED
            BY <1>0, <2>1, <3>1, HeldStays
    <2>3. CASE StatFinds
        <3>1. /\ pc = "idle" /\ path \in Files /\ path = created /\ f' = f
              /\ stat' = [file |-> path, size |-> Len(files[path]), age |-> age[path]]
              /\ pc' = IF f # None /\ info.file # path THEN "drain" ELSE "stated"
            BY <2>3 DEF StatFinds, LastIsOpen
        <3>2. Rest' = Rest /\ Coming' = Coming
            BY <2>1, <3>1 DEF Rest, Coming, Leaving
        <3>3. InfoIsOfFile'
            <4>1. f # None => f <= path
                BY <3>1 DEF TypeOK
            <4>2. f # None /\ f = path =>
                      info.age <= age[f] /\ (info.age = age[f] => info.size <= Len(files[f]))
                BY <1>0, <3>1 DEF InfoIsOfFile, OfFile
            <4> QED
                BY <1>0, <2>1, <3>1, <4>1, <4>2 DEF InfoIsOfFile, Leaving
        <3> QED
            BY <1>0, <2>1, <3>2, <3>3, HeldStays
    <2>4. CASE OpenFails
        <3>1. f' = None /\ pc' = "idle" /\ stat' = stat
            BY <2>4 DEF OpenFails
        <3>2. Coming' = Coming
            <4>1. CASE f = None
                BY <2>1, <2>4, <3>1, <4>1 DEF Coming, OpenFails
            <4>2. CASE f # None
                <5>1. pc = "reopen" /\ f < stat.file /\ stat.file <= created
                    BY <1>0, <2>4, <4>2 DEF OpenFails, InfoIsOfFile, Leaving, OfFile
                <5>2. path # f
                    BY <4>2, <5>1 DEF LastIsOpen, TypeOK, FileInfo
                <5> QED
                    BY <2>1, <3>1, <5>1, <5>2 DEF Coming
            <4> QED
                BY <4>1, <4>2
        <3>3. Rest' = {} /\ InfoIsOfFile'
            BY <2>1, <3>1 DEF Rest, InfoIsOfFile, Leaving
        <3> QED
            BY <1>0, <2>1, <3>2, <3>3, HeldStays
    <2>5. CASE EmitDone
        <3>1. /\ pc = "emit" /\ f' = f /\ stat' = stat
              /\ pc' = IF f # None /\ info.file # stat.file THEN "reopen" ELSE "idle"
            BY <2>5 DEF EmitDone
        <3>2. Rest' = Rest /\ Coming' = Coming /\ InfoIsOfFile'
            BY <1>0, <2>1, <3>1 DEF Rest, Coming, InfoIsOfFile, Leaving
        <3> QED
            BY <1>0, <2>1, <3>2, HeldStays
    <2>6. CASE Return
        <3>1. Rest' = {} /\ Coming' = {} /\ InfoIsOfFile'
            BY <2>1, <2>6 DEF Return, Rest, Coming, InfoIsOfFile, Leaving
        <3> QED
            BY <1>0, <2>1, <3>1, HeldStays
    <2> QED
        BY <1>3, <2>2, <2>3, <2>4, <2>5, <2>6
<1>4. CASE Consume \/ Cancel \/ UNCHANGED vars
    <2>1. UNCHANGED <<env, history, lines, pending, f, off, info, opened, pc, stat>>
        BY <1>4 DEF Consume, Cancel, vars
    <2>2. Rest' = Rest /\ Coming' = Coming /\ InfoIsOfFile'
        BY <1>0, <2>1 DEF env, Rest, Coming, InfoIsOfFile, Leaving
    <2> QED
        BY <1>0, <2>1, <2>2, HeldStays DEF env, history
<1>5. CASE Open
    BY <1>0, <1>5, OrderOpen
<1>6. CASE Drain
    BY <1>0, <1>6, OrderDrain
<1>7. CASE Reopen
    BY <1>0, <1>7, OrderReopen
<1>8. CASE Follow
    BY <1>0, <1>8, OrderFollow
<1>9. CASE Emit
    BY <1>0, <1>9, OrderEmit
<1> QED
    BY <1>1, <1>2, <1>3, <1>4, <1>5, <1>6, <1>7, <1>8, <1>9 DEF Next, Tick

-----------------------------------------------------------------------------
(* Lines stay whole.                                                       *)

LEMMA LastOfConcat ==
    ASSUME NEW S, NEW s \in Seq(S), NEW t \in Seq(S), t # <<>>
    PROVE  /\ s \o t # <<>>
           /\ (s \o t)[Len(s \o t)] = t[Len(t)]
<1>1. /\ Len(s) \in Nat /\ Len(t) \in Nat /\ Len(t) # 0
      /\ s \o t \in Seq(S) /\ Len(s \o t) = Len(s) + Len(t)
    BY EmptySeq, ConcatProperties, LenProperties
<1>2. /\ Len(s \o t) \in 1..(Len(s) + Len(t)) /\ ~(Len(s \o t) <= Len(s))
      /\ Len(s \o t) - Len(s) = Len(t)
    BY <1>1
<1>3. (s \o t)[Len(s \o t)] = t[Len(s \o t) - Len(s)]
    BY <1>2, ConcatProperties
<1>4. s \o t # <<>>
    BY <1>1, EmptySeq
<1> QED
    BY <1>2, <1>3, <1>4

LEMMA ContiguousConcat ==
    ASSUME NEW S, NEW s \in Seq(S), NEW t \in Seq(S), Contiguous(s), Contiguous(t),
           EndsBegun(s) /\ t # <<>> => t[1] = <<s[Len(s)][1], 2>>
    PROVE  Contiguous(s \o t)
<1>1. /\ Len(s) \in Nat /\ Len(t) \in Nat /\ Len(s \o t) = Len(s) + Len(t)
      /\ \A i \in 1..(Len(s) + Len(t)) :
             (s \o t)[i] = IF i <= Len(s) THEN s[i] ELSE t[i - Len(s)]
    BY ConcatProperties, LenProperties
<1> SUFFICES ASSUME NEW i \in 1..(Len(s \o t) - 1), (s \o t)[i][2] = 1
             PROVE  (s \o t)[i + 1] = <<(s \o t)[i][1], 2>>
    BY DEF Contiguous
<1>2. i \in Nat /\ i \in 1..(Len(s) + Len(t)) /\ i + 1 \in 1..(Len(s) + Len(t))
    BY <1>1
<1>3. CASE i < Len(s)
    <2>1. (s \o t)[i] = s[i] /\ (s \o t)[i + 1] = s[i + 1] /\ i \in 1..(Len(s) - 1)
        BY <1>1, <1>2, <1>3
    <2> QED
        BY <2>1 DEF Contiguous
<1>4. CASE i = Len(s)
    <2>1. (s \o t)[i] = s[Len(s)] /\ (s \o t)[i + 1] = t[1] /\ Len(s) # 0 /\ Len(t) # 0
        BY <1>1, <1>2, <1>4
    <2>2. EndsBegun(s) /\ t # <<>>
        BY <2>1, EmptySeq DEF EndsBegun
    <2> QED
        BY <2>1, <2>2
<1>5. CASE i > Len(s)
    <2>1. /\ (s \o t)[i] = t[i - Len(s)] /\ (s \o t)[i + 1] = t[(i - Len(s)) + 1]
          /\ i - Len(s) \in 1..(Len(t) - 1)
        <3>1. i + 1 - Len(s) = (i - Len(s)) + 1 /\ ~(i <= Len(s)) /\ ~(i + 1 <= Len(s))
            BY <1>1, <1>2, <1>5
        <3>2. i - Len(s) \in 1..(Len(t) - 1)
            BY <1>1, <1>2, <1>5
        <3> QED
            BY <1>1, <1>2, <3>1, <3>2
    <2> QED
        BY <2>1 DEF Contiguous
<1> QED
    BY <1>1, <1>2, <1>3, <1>4, <1>5

LEMMA ContiguousFrom ==
    ASSUME NEW S, NEW s \in Seq(S), NEW n \in Nat, Contiguous(s)
    PROVE  /\ Contiguous(From(s, n))
           /\ From(s, n) # <<>> =>
                  /\ n < Len(s)
                  /\ From(s, n)[1] = s[n + 1]
                  /\ From(s, n)[Len(From(s, n))] = s[Len(s)]
<1>1. /\ Len(s) \in Nat /\ From(s, n) \in Seq(S)
      /\ Len(From(s, n)) = IF n < Len(s) THEN Len(s) - n ELSE 0
      /\ \A i \in 1..Len(From(s, n)) : From(s, n)[i] = s[n + i]
    BY FromProps, LenProperties
<1>2. ASSUME NEW i \in 1..(Len(From(s, n)) - 1), From(s, n)[i][2] = 1
      PROVE  From(s, n)[i + 1] = <<From(s, n)[i][1], 2>>
    <2>1. n < Len(s) /\ i \in 1..(Len(s) - n - 1)
        BY <1>1
    <2>2. /\ i \in 1..Len(From(s, n)) /\ i + 1 \in 1..Len(From(s, n))
          /\ n + i \in 1..(Len(s) - 1) /\ n + (i + 1) = (n + i) + 1
        BY <1>1, <2>1
    <2>3. From(s, n)[i] = s[n + i] /\ From(s, n)[i + 1] = s[(n + i) + 1]
        BY <1>1, <2>2
    <2> QED
        BY <1>2, <2>2, <2>3 DEF Contiguous
<1>3. ASSUME From(s, n) # <<>>
      PROVE  /\ n < Len(s)
             /\ From(s, n)[1] = s[n + 1]
             /\ From(s, n)[Len(From(s, n))] = s[Len(s)]
    <2>1. n < Len(s)
        BY <1>1, <1>3, EmptySeq
    <2>2. /\ 1 \in 1..Len(From(s, n)) /\ Len(From(s, n)) \in 1..Len(From(s, n))
          /\ n + Len(From(s, n)) = Len(s)
        BY <1>1, <2>1
    <2> QED
        BY <1>1, <2>1, <2>2
<1> QED
    BY <1>2, <1>3 DEF Contiguous

\* Of a write: the line it begins or ends.
LEMMA ContiguousWrite ==
    ASSUME TypeOK, HalfIsBegun, FilesContiguous, Write
    PROVE  FilesContiguous'
<1> USE TypeFacts
<1>1. PICK t \in Seq(Pieces) :
          /\ t # <<>> /\ Contiguous(t)
          /\ files' = [files EXCEPT ![writer] = @ \o t]
          /\ half => t[1] = <<written, 2>>
          /\ EndsBegun(t) => half' /\ t[Len(t)] = <<written', 1>>
    <2> DEFINE w == written + 1
    <2>0. MaxLines \in Nat /\ written \in 0..MaxLines /\ half \in BOOLEAN
        BY DEF TypeOK
    <2>1. CASE WriteLine
        <3> DEFINE t == <<<<w, 1>>, <<w, 2>>>>
        <3>1. w \in 1..MaxLines /\ ~half /\ files' = [files EXCEPT ![writer] = @ \o t]
            BY <2>0, <2>1 DEF WriteLine, Append1
        <3>2. <<w, 1>> \in Pieces /\ <<w, 2>> \in Pieces
            BY <3>1 DEF Pieces
        <3>3. t \in Seq(Pieces) /\ Len(t) = 2 /\ t[1] = <<w, 1>> /\ t[2] = <<w, 2>>
            BY <3>2
        <3>4. Contiguous(t) /\ t # <<>> /\ ~EndsBegun(t)
            BY <3>3 DEF Contiguous, EndsBegun
        <3> QED
            BY <3>1, <3>3, <3>4
    <2>2. CASE WriteHalf
        <3> DEFINE t == <<<<w, 1>>>>
        <3>1. /\ w \in 1..MaxLines /\ ~half /\ files' = [files EXCEPT ![writer] = @ \o t]
              /\ half' /\ written' = w
            BY <2>0, <2>2 DEF WriteHalf, Append1
        <3>2. <<w, 1>> \in Pieces
            BY <3>1 DEF Pieces
        <3>3. t \in Seq(Pieces) /\ Len(t) = 1 /\ t[1] = <<w, 1>>
            BY <3>2
        <3>4. Contiguous(t) /\ t # <<>>
            BY <3>3 DEF Contiguous
        <3> QED
            BY <3>1, <3>3, <3>4
    <2>3. CASE WriteRest
        <3> DEFINE t == <<<<written, 2>>>>
        <3>1. half /\ files' = [files EXCEPT ![writer] = @ \o t]
            BY <2>3 DEF WriteRest, Append1
        <3>2. <<written, 2>> \in Pieces
            BY <2>0, <3>1 DEF Pieces, HalfIsBegun
        <3>3. t \in Seq(Pieces) /\ Len(t) = 1 /\ t[1] = <<written, 2>>
            BY <3>2
        <3>4. Contiguous(t) /\ t # <<>> /\ ~EndsBegun(t)
            BY <3>3 DEF Contiguous, EndsBegun
        <3> QED
            BY <3>1, <3>3, <3>4
    <2> QED
        BY <2>1, <2>2, <2>3 DEF Write
<1>2. /\ writer' = writer /\ (half => written' = written)
      /\ files'[writer] = files[writer] \o t
      /\ \A g \in Files : g # writer => files'[g] = files[g]
    BY <1>1 DEF Write, WriteLine, WriteHalf, WriteRest, TypeOK
<1>3. Contiguous(files'[writer])
    <2>1. files[writer] \in Seq(Pieces) /\ Contiguous(files[writer])
        BY DEF FilesContiguous
    <2>2. EndsBegun(files[writer]) => t[1] = <<files[writer][Len(files[writer])][1], 2>>
        BY <1>1 DEF FilesContiguous
    <2> QED
        BY <1>1, <1>2, <2>1, <2>2, ContiguousConcat
<1>4. EndsBegun(files'[writer]) => half' /\ files'[writer][Len(files'[writer])] = <<written', 1>>
    <2>1. files'[writer][Len(files'[writer])] = t[Len(t)]
        BY <1>1, <1>2, LastOfConcat
    <2> QED
        BY <1>1, <2>1 DEF EndsBegun
<1>5. ASSUME NEW g \in Files, g # writer
      PROVE  Contiguous(files'[g]) /\ ~EndsBegun(files'[g])
    BY <1>2, <1>5 DEF FilesContiguous
<1> QED
    BY <1>2, <1>3, <1>4, <1>5 DEF FilesContiguous

LEMMA FilesContiguousStep ==
    ASSUME TypeOK, HalfIsBegun, FilesContiguous, [Next]_vars
    PROVE  FilesContiguous'
<1>1. CASE Write
    BY <1>1, ContiguousWrite
<1>2. CASE WriterReopens
    BY <1>2 DEF WriterReopens, FilesContiguous
<1>3. CASE Truncate
    <2>1. /\ \A g \in Files : files'[g] = IF g = path THEN <<>> ELSE files[g]
          /\ UNCHANGED <<writer, written, half>>
        BY <1>3 DEF Truncate, TypeOK
    <2>2. Contiguous(<<>>) /\ ~EndsBegun(<<>>)
        BY DEF Contiguous, EndsBegun
    <2> QED
        BY <2>1, <2>2 DEF FilesContiguous
<1>4. CASE MoveAway \/ Create \/ Tick \/ Return \/ Consume \/ Cancel \/ UNCHANGED vars
    <2>1. UNCHANGED <<files, writer, written, half>>
        BY <1>4, EmitsFirst DEF MoveAway, Create, Tick, StatFails, StatFinds, OpenFails, Open, Drain,
               Reopen, Follow, EmitDone, Return, Consume, Cancel, env, vars
    <2> QED
        BY <2>1 DEF FilesContiguous
<1> QED
    BY <1>1, <1>2, <1>3, <1>4 DEF Next, Rotate

LEMMA StartedBeforeStep ==
    ASSUME TypeOK, Switching, StartedBefore, [Next]_vars
    PROVE  StartedBefore'
<1> USE TypeFacts DEF StartedBefore
<1>1. CASE Write \/ MoveAway \/ Create \/ WriterReopens
    BY <1>1 DEF Write, WriteLine, WriteHalf, WriteRest, MoveAway, Create, WriterReopens, tailer,
                history
<1>2. CASE Truncate
    <2>1. /\ \A g \in Files : age'[g] = IF g = path THEN age[g] + 1 ELSE age[g]
          /\ UNCHANGED <<f, startAge>> /\ startAge \in Nat
        BY <1>2 DEF Truncate, tailer, history, TypeOK
    <2>2. f # None => startAge <= age[f] /\ age[f] \in Nat /\ f \in Files
        OBVIOUS
    <2> QED
        BY <2>1, <2>2
<1>3. CASE StatFails \/ StatFinds \/ OpenFails \/ Drain \/ Emit \/ EmitDone \/ Return \/ Consume
           \/ Cancel \/ UNCHANGED vars
    <2>1. UNCHANGED <<age, startAge>> /\ f' \in {None, f}
        BY <1>3, EmitsFirst DEF StatFails, StatFinds, OpenFails, Drain, EmitDone, Return, Consume,
               Cancel, env, history, vars
    <2> QED
        BY <2>1
<1>4. CASE Open \/ Reopen
    <2>1. path \in Files /\ f' = path /\ startAge' = age[path] /\ age' = age
        BY <1>4 DEF Open, Reopen, env
    <2> QED
        BY <2>1
<1>5. CASE Follow
    <2>1. f \in Files /\ f' = f /\ startAge' \in {startAge, age[f]} /\ age' = age
        BY <1>5 DEF Follow, env
    <2> QED
        BY <2>1
<1> QED
    BY <1>1, <1>2, <1>3, <1>4, <1>5 DEF Next, Tick, Rotate

\* What a read adds continues what was held, if the offset does.
LEMMA WholeRead ==
    ASSUME TypeOK, FilesContiguous, NEW g \in Files, NEW n \in Nat, NEW b \in Seq(Pieces),
           Read(g, n, b), Contiguous(b),
           n < Len(files[g]) /\ EndsBegun(b) =>
               n \in 1..Len(files[g]) /\ files[g][n] = b[Len(b)]
    PROVE  /\ Contiguous(pending')
           /\ n >= Len(files[g]) => pending' = b /\ off' = n
           /\ n < Len(files[g]) =>
                  /\ off' \in 1..Len(files[g])
                  /\ files[g][off'] = pending'[Len(pending')]
<1> DEFINE r == From(files[g], n)
<1>1. /\ files[g] \in Seq(Pieces) /\ Len(files[g]) \in Nat
      /\ Contiguous(files[g]) /\ r \in Seq(Pieces) /\ Contiguous(r)
      /\ pending' = b \o r
      /\ off' = IF Len(files[g]) > n THEN Len(files[g]) ELSE n
    BY TypeFacts, FromProps, ContiguousFrom DEF FilesContiguous, Read
<1>2. CASE n >= Len(files[g])
    <2>1. r = <<>> /\ ~(n < Len(files[g]))
        BY <1>1, <1>2, FromBehind
    <2>2. pending' = b
        BY <1>1, <2>1, ConcatEmptySeq
    <2> QED
        BY <1>1, <2>1, <2>2
<1>3. CASE n < Len(files[g])
    <2>1. /\ ~(n >= Len(files[g])) /\ Len(files[g]) \in 1..Len(files[g])
          /\ off' = Len(files[g])
        BY <1>1, <1>3
    <2>2. r # <<>>
        <3>1. Len(r) # 0
            BY <1>1, <1>3, FromProps
        <3> QED
            BY <3>1
    <2>3. r[1] = files[g][n + 1] /\ r[Len(r)] = files[g][Len(files[g])]
        BY <1>1, <2>2, ContiguousFrom
    <2>4. EndsBegun(b) => r[1] = <<b[Len(b)][1], 2>>
        <3> SUFFICES ASSUME EndsBegun(b) PROVE r[1] = <<b[Len(b)][1], 2>>
            OBVIOUS
        <3>1. n \in 1..(Len(files[g]) - 1) /\ files[g][n] = b[Len(b)] /\ files[g][n][2] = 1
            BY <1>1, <1>3 DEF EndsBegun
        <3> QED
            BY <1>1, <2>3, <3>1 DEF Contiguous
    <2>5. Contiguous(b \o r)
        BY <1>1, <2>4, ContiguousConcat
    <2>6. (b \o r)[Len(b \o r)] = r[Len(r)]
        BY <1>1, <2>2, LastOfConcat
    <2> QED
        BY <1>1, <2>1, <2>3, <2>5, <2>6
<1>4. n >= Len(files[g]) \/ n < Len(files[g])
    BY <1>1
<1> QED
    BY <1>2, <1>3, <1>4

\* A file that is read from its start.
LEMMA WholeFromStart ==
    ASSUME TypeOK, FilesContiguous, NEW g \in Files, Read(g, 0, <<>>),
           UNCHANGED <<files, age>>, f' = g
    PROVE  Contiguous(pending)' /\ OffsetAfterPending'
<1>1. /\ <<>> \in Seq(Pieces) /\ 0 \in Nat /\ Contiguous(<<>>) /\ ~EndsBegun(<<>>)
      /\ Len(files[g]) \in Nat
    BY TypeFacts DEF Contiguous, EndsBegun
<1>2. /\ Contiguous(pending')
      /\ 0 >= Len(files[g]) => pending' = <<>> /\ off' = 0
      /\ 0 < Len(files[g]) =>
             off' \in 1..Len(files[g]) /\ files[g][off'] = pending'[Len(pending')]
    BY <1>1, WholeRead
<1>3. 0 < Len(files[g]) \/ 0 >= Len(files[g])
    BY <1>1
<1> QED
    BY <1>1, <1>2, <1>3 DEF OffsetAfterPending, Contiguous, EndsBegun

\* The open file read on, unless its offset is from before a truncation.
LEMMA WholeReadOn ==
    ASSUME TypeOK, FilesContiguous, f \in Files, Read(f, off, pending), ~ReadsOn,
           Contiguous(pending), OffsetAfterPending,
           UNCHANGED <<files, age, f, startAge>>
    PROVE  Contiguous(pending)' /\ OffsetAfterPending'
<1>1. pending \in Seq(Pieces) /\ off \in Nat /\ Len(files[f]) \in Nat /\ f # None
    BY TypeFacts
<1>2. off < Len(files[f]) => age[f] = startAge
    BY <1>1 DEF ReadsOn
<1>3. off < Len(files[f]) /\ EndsBegun(pending) =>
          off \in 1..Len(files[f]) /\ files[f][off] = pending[Len(pending)]
    BY <1>1, <1>2 DEF OffsetAfterPending
<1>4. /\ Contiguous(pending')
      /\ off >= Len(files[f]) => pending' = pending /\ off' = off
      /\ off < Len(files[f]) =>
             off' \in 1..Len(files[f]) /\ files[f][off'] = pending'[Len(pending')]
    BY <1>1, <1>3, WholeRead
<1>5. CASE off >= Len(files[f])
    BY <1>4, <1>5 DEF OffsetAfterPending, Contiguous, EndsBegun
<1>6. CASE off < Len(files[f])
    BY <1>4, <1>6 DEF OffsetAfterPending, Contiguous, EndsBegun
<1> QED
    BY <1>1, <1>4, <1>5, <1>6

\* The first line of what is held is one line, and the rest is as before.
LEMMA WholeEmit ==
    ASSUME TypeOK, Emit, Contiguous(pending), OffsetAfterPending,
           \A i \in DOMAIN lines : Whole(lines[i])
    PROVE  /\ Contiguous(pending)' /\ OffsetAfterPending'
           /\ (\A i \in DOMAIN lines : Whole(lines[i]))'
<1> DEFINE e == FirstEnd
<1>0. /\ e \in 1..Len(pending) /\ pending[e][2] = 2 /\ \A j \in 1..(e - 1) : pending[j][2] # 2
      /\ pending \in Seq(Pieces) /\ Len(pending) \in Nat /\ lines \in Seq(Seq(Pieces))
      /\ e \in Nat
    <2>1. Len(pending) \in Nat /\ pending \in Seq(Pieces) /\ lines \in Seq(Seq(Pieces))
        BY TypeFacts DEF TypeOK
    <2>2. e \in 1..Len(pending) /\ pending[e][2] = 2 /\ \A j \in 1..(e - 1) : pending[j][2] # 2
        BY EmitsFirst, FirstEndProps
    <2> QED
        BY <2>1, <2>2
<1>1. /\ lines' = Append(lines, FirstLine) /\ pending' = From(pending, e)
      /\ UNCHANGED <<files, age, f, off, startAge>>
      /\ FirstLine \in Seq(Pieces) /\ Len(FirstLine) = e
      /\ \A i \in 1..e : FirstLine[i] = pending[i]
    BY EmitsFirst DEF env, history
<1>2. /\ Contiguous(pending')
      /\ pending' # <<>> => pending # <<>> /\ pending'[Len(pending')] = pending[Len(pending)]
    BY <1>0, <1>1, ContiguousFrom
<1>3. OffsetAfterPending'
    BY <1>1, <1>2 DEF OffsetAfterPending, EndsBegun
<1>4. Whole(FirstLine)
    <2>1. DOMAIN FirstLine = 1..e /\ LineOf(FirstLine) = pending[e][1]
        BY <1>0, <1>1, LenProperties DEF LineOf
    <2>2. ASSUME NEW k \in 1..e, k # e PROVE pending[k][1] = pending[e][1]
        <3>1. k \in 1..(e - 1) /\ k \in 1..(Len(pending) - 1) /\ k \in 1..Len(pending)
            BY <1>0, <2>2
        <3>2. pending[k] \in Pieces
            BY <1>0, <3>1, ElementOfSeq
        <3>3. pending[k][2] = 1
            BY <1>0, <3>1, <3>2 DEF Pieces
        <3>4. pending[k + 1] = <<pending[k][1], 2>>
            BY <3>1, <3>3 DEF Contiguous
        <3>5. k + 1 = e
            <4>1. pending[k + 1][2] = 2
                BY <3>4
            <4>2. k + 1 \notin 1..(e - 1)
                BY <1>0, <4>1
            <4> QED
                BY <1>0, <3>1, <4>2
        <3> QED
            BY <3>4, <3>5
    <2>3. ASSUME NEW k \in 1..e PROVE FirstLine[k][1] = pending[e][1]
        BY <1>1, <2>2
    <2> QED
        BY <2>1, <2>3 DEF Whole
<1>5. (\A i \in DOMAIN lines : Whole(lines[i]))'
    <2>1. /\ Len(lines) \in Nat /\ DOMAIN lines = 1..Len(lines)
          /\ DOMAIN lines' = 1..(Len(lines) + 1)
          /\ \A i \in 1..Len(lines) : lines'[i] = lines[i]
          /\ lines'[Len(lines) + 1] = FirstLine
        BY <1>0, <1>1, AppendProperties, LenProperties
    <2>2. ASSUME NEW i \in DOMAIN lines' PROVE Whole(lines'[i])
        BY <1>4, <2>1
    <2> QED
        BY <2>2 DEF Whole, LineOf
<1> QED
    BY <1>2, <1>3, <1>5 DEF Contiguous

LEMMA WholeLinesStep ==
    ASSUME TypeOK, HalfIsBegun, Switching, FilesContiguous, StartedBefore, WholeLines,
           [Next]_vars
    PROVE  WholeLines'
<1> SUFFICES ASSUME ~carried', ~refilled'
             PROVE  /\ Contiguous(pending)' /\ OffsetAfterPending'
                    /\ (\A i \in DOMAIN lines : Whole(lines[i]))'
    BY DEF WholeLines
<1> USE TypeFacts
<1>0. /\ Contiguous(pending) /\ OffsetAfterPending
      /\ \A i \in DOMAIN lines : Whole(lines[i])
    <2>1. /\ carried' = carried \/ Open
          /\ refilled' = refilled \/ Drain \/ Follow
        BY EmitsFirst DEF Next, Tick, Write, Rotate, WriteLine, WriteHalf, WriteRest, MoveAway,
               Create, WriterReopens, Truncate, tailer, history, vars, StatFails, StatFinds,
               OpenFails, Open, Drain, Reopen, Follow, EmitDone, Return, Consume, Cancel
    <2>2. ~carried
        BY <2>1 DEF Open
    <2>3. ~refilled
        <3>1. Drain => ~refilled
            BY DEF Drain
        <3>2. Follow => ~refilled
            BY DEF Follow
        <3> QED
            BY <2>1, <3>1, <3>2
    <2> QED
        BY <2>2, <2>3 DEF WholeLines
<1>1. ASSUME UNCHANGED lines PROVE (\A i \in DOMAIN lines : Whole(lines[i]))'
    BY <1>0, <1>1 DEF Whole, LineOf
<1>2. CASE Write
    <2>1. PICK t : Appends(t)
        BY <1>2, WriteAppends
    <2>2. UNCHANGED <<age, f, off, pending, lines, startAge>>
        BY <2>1 DEF Appends, tailer, history
    <2>3. ASSUME NEW g \in Files, NEW i \in 1..Len(files[g])
          PROVE  i \in 1..Len(files'[g]) /\ files'[g][i] = files[g][i]
        <3>1. CASE g = writer
            <4>1. files'[g] = files[g] \o t /\ t \in Seq(Pieces) /\ files[g] \in Seq(Pieces)
                BY <2>1, <3>1, AppendedFiles DEF Appends
            <4>2. /\ Len(files[g] \o t) = Len(files[g]) + Len(t)
                  /\ Len(files[g]) \in Nat /\ Len(t) \in Nat
                BY <4>1, ConcatProperties, LenProperties
            <4>3. i \in 1..Len(files[g] \o t) /\ i <= Len(files[g])
                BY <4>2
            <4> QED
                BY <4>1, <4>2, <4>3, ConcatProperties
        <3>2. CASE g # writer
            BY <2>1, <3>2, AppendedFiles
        <3> QED
            BY <3>1, <3>2
    <2>4. OffsetAfterPending'
        BY <1>0, <2>2, <2>3 DEF OffsetAfterPending
    <2> QED
        BY <1>0, <1>1, <2>2, <2>4
<1>3. CASE Truncate
    <2>1. /\ \A g \in Files : files'[g] = IF g = path THEN <<>> ELSE files[g]
          /\ \A g \in Files : age'[g] = IF g = path THEN age[g] + 1 ELSE age[g]
          /\ UNCHANGED <<f, off, pending, lines, startAge>> /\ startAge \in Nat
        BY <1>3 DEF Truncate, tailer, history, TypeOK
    <2>2. f # None => f \in Files /\ age[f] \in Nat /\ startAge <= age[f]
        BY DEF StartedBefore
    <2>3. f # None /\ f = path => age'[f] # startAge
        BY <2>1, <2>2
    <2>4. OffsetAfterPending'
        BY <1>0, <2>1, <2>2, <2>3 DEF OffsetAfterPending
    <2> QED
        BY <1>0, <1>1, <2>1, <2>4
<1>4. CASE \/ MoveAway \/ Create \/ WriterReopens \/ StatFails \/ StatFinds \/ OpenFails
           \/ EmitDone \/ Return \/ Consume \/ Cancel \/ UNCHANGED vars
    <2>1. UNCHANGED <<files, age, off, pending, lines, startAge>> /\ f' \in {None, f}
        BY <1>4 DEF MoveAway, Create, WriterReopens, tailer, StatFails, StatFinds, OpenFails,
               EmitDone, Return, Consume, Cancel, env, history, vars
    <2>2. OffsetAfterPending'
        BY <1>0, <2>1 DEF OffsetAfterPending
    <2> QED
        BY <1>0, <1>1, <2>1, <2>2
<1>5. CASE Open
    <2>1. /\ path \in Files /\ f' = path /\ startAge' = age[path] /\ pending = <<>>
          /\ UNCHANGED <<files, age, lines>>
        BY <1>5 DEF Open, env
    <2>2. CASE opened
        <3>1. Read(path, 0, <<>>)
            BY <1>5, <2>1, <2>2 DEF Open
        <3> QED
            BY <1>1, <2>1, <3>1, WholeFromStart
    <2>3. CASE ~opened
        <3>1. pending' = <<>> \o From(files[path], Len(files[path]))
            BY <1>5, <2>1, <2>3 DEF Open, Read
        <3>2. From(files[path], Len(files[path])) = <<>>
            BY <2>1, FromBehind
        <3>3. pending' = <<>>
            BY <3>1, <3>2
        <3>4. Contiguous(pending)' /\ OffsetAfterPending'
            BY <3>3 DEF Contiguous, OffsetAfterPending, EndsBegun
        <3> QED
            BY <1>1, <2>1, <3>4
    <2> QED
        BY <2>2, <2>3
<1>6. CASE Drain
    <2>1. /\ f \in Files /\ Read(f, off, pending) /\ ~ReadsOn
          /\ UNCHANGED <<files, age, f, startAge, lines>>
        BY <1>6 DEF Drain, Switching, env
    <2> QED
        BY <1>0, <1>1, <2>1, WholeReadOn
<1>7. CASE Reopen
    <2>1. /\ path \in Files /\ Read(path, 0, <<>>) /\ f' = path
          /\ UNCHANGED <<files, age, lines>>
        BY <1>7 DEF Reopen, env
    <2> QED
        BY <1>1, <2>1, WholeFromStart
<1>8. CASE Follow
    <2>1. f \in Files /\ UNCHANGED <<files, age, f, lines>>
        BY <1>8 DEF Follow, env
    <2>2. CASE Truncated
        <3>1. Read(f, 0, <<>>)
            BY <1>8, <2>2 DEF Follow
        <3> QED
            BY <1>1, <2>1, <3>1, WholeFromStart
    <2>3. CASE ~Truncated
        <3>1. Read(f, off, pending) /\ ~ReadsOn /\ startAge' = startAge
            BY <1>8, <2>3 DEF Follow, Unnoticed
        <3> QED
            BY <1>0, <1>1, <2>1, <3>1, WholeReadOn
    <2> QED
        BY <2>2, <2>3
<1>9. CASE Emit
    BY <1>0, <1>9, WholeEmit
<1> QED
    BY <1>2, <1>3, <1>4, <1>5, <1>6, <1>7, <1>8, <1>9 DEF Next, Tick, Rotate

-----------------------------------------------------------------------------
(* The theorems.                                                           *)

LEMMA InitInv == Init => Inv
<1> SUFFICES ASSUME Init PROVE Inv
    OBVIOUS
<1> USE DEF Init
<1> DEFINE first == <<<<1, 1>>, <<1, 2>>>>
<1>0. /\ MaxLines \in Nat /\ 1 \in 1..MaxLines /\ MaxFiles \in Nat /\ 1 \in 1..MaxFiles
      /\ MaxCuts \in Nat /\ Capacity \in Nat
    BY TailAssumption
<1>1. <<1, 1>> \in Pieces /\ <<1, 2>> \in Pieces /\ Before(<<1, 1>>, <<1, 2>>)
    BY <1>0 DEF Pieces, Before
<1>2. first \in Seq(Pieces) /\ Range(first) = {<<1, 1>>, <<1, 2>>} /\ Ascending(first)
    BY <1>1, TwoPieces
<1>3. /\ Len(first) = 2 /\ first[1] = <<1, 1>> /\ first[2] = <<1, 2>>
      /\ Contiguous(first) /\ ~EndsBegun(first)
    BY DEF Contiguous, EndsBegun
<1>4. /\ <<>> \in Seq(Pieces) /\ Range(<<>>) = {} /\ Ascending(<<>>)
      /\ Contiguous(<<>>) /\ ~EndsBegun(<<>>)
    BY RangeEmpty DEF Ascending, Contiguous, EndsBegun
<1> HIDE DEF first
<1>5. \A g \in Files : files[g] = IF g = 1 THEN first ELSE <<>>
    BY DEF first
<1>6. TypeOK
    <2>1. files \in [Files -> Seq(Pieces)]
        BY <1>2, <1>4 DEF first
    <2>2. age \in [Files -> 0..MaxCuts]
        BY <1>0
    <2>3. stat \in FileInfo /\ info \in FileInfo
        BY <1>0 DEF NoInfo, FileInfo, None
    <2>4. pending \in Seq(Pieces) /\ lines \in Seq(Seq(Pieces))
        OBVIOUS
    <2>5. /\ created \in 1..MaxFiles /\ writer \in 1..created
          /\ path \in {None} \cup 1..created /\ f \in {None} \cup 1..created
          /\ written \in 0..MaxLines /\ queued \in 0..Capacity /\ startAge \in 0..MaxCuts
          /\ off \in Nat
        BY <1>0 DEF None
    <2>6. /\ half \in BOOLEAN /\ opened \in BOOLEAN /\ cancelled \in BOOLEAN
          /\ slipped \in BOOLEAN /\ carried \in BOOLEAN /\ refilled \in BOOLEAN
          /\ pc \in {"idle", "stated", "drain", "reopen", "emit", "done"}
          /\ skipped \subseteq 1..MaxLines
        OBVIOUS
    <2> QED
        BY <2>1, <2>2, <2>3, <2>4, <2>5, <2>6 DEF TypeOK
<1>7. Environment
    <2>1. FilesAscend
        <3>1. \A g \in Files : Ascending(files[g]) /\ Written(Range(files[g]))
            BY <1>2, <1>4, <1>5 DEF Written, WasWritten
        <3>2. \A g, h \in Files : g < h => Precedes(Range(files[g]), Range(files[h]))
            <4>1. \A g, h \in Files : g < h => h # 1
                BY <1>0 DEF Files
            <4> QED
                BY <1>4, <1>5, <4>1 DEF Precedes
        <3> QED
            BY <3>1, <3>2 DEF FilesAscend
    <2>2. LastIsOpen /\ HalfIsBegun
        BY <1>5 DEF LastIsOpen, HalfIsBegun, Files
    <2>3. OfFile(stat) /\ OfFile(info)
        BY DEF OfFile, NoInfo, None
    <2> QED
        BY <2>1, <2>2, <2>3 DEF Environment
<1>8. Fresh /\ Switching /\ StartedBefore /\ NoLineWaits
    BY EndedEmpty DEF Fresh, Switching, StartedBefore, NoLineWaits
<1>9. InOrder
    <2>1. Over = {} /\ Range(pending) = {} /\ LinesAscend
        BY <1>4 DEF Over, LinesAscend
    <2>2. Continues
        BY <1>4, <2>1 DEF Continues, Written, Precedes, Rest, Coming
    <2>3. InfoIsOfFile
        BY DEF InfoIsOfFile, Leaving
    <2> QED
        BY <2>2, <2>3 DEF InOrder
<1>10. FilesContiguous
    BY <1>3, <1>4, <1>5 DEF FilesContiguous
<1>11. WholeLines
    BY <1>4 DEF WholeLines, OffsetAfterPending
<1> QED
    BY <1>6, <1>7, <1>8, <1>9, <1>10, <1>11 DEF Inv

LEMMA StepInv == Inv /\ [Next]_vars => Inv'
<1> SUFFICES ASSUME Inv, [Next]_vars PROVE Inv'
    OBVIOUS
<1>1. /\ TypeOK /\ Environment /\ Fresh /\ Switching /\ InOrder /\ FilesContiguous
      /\ StartedBefore /\ WholeLines /\ NoLineWaits
    BY DEF Inv
<1>2. HalfIsBegun
    BY <1>1 DEF Environment
<1>3. TypeOK'
    BY <1>1, <1>2, TypeStep
<1>4. Environment'
    BY <1>1, EnvironmentStep
<1>5. Fresh' /\ Switching' /\ NoLineWaits'
    BY <1>1, ControlStep
<1>6. InOrder'
    BY <1>1, InOrderStep
<1>7. FilesContiguous'
    BY <1>1, <1>2, FilesContiguousStep
<1>8. StartedBefore'
    BY <1>1, StartedBeforeStep
<1>9. WholeLines'
    BY <1>1, <1>2, WholeLinesStep
<1> QED
    BY <1>3, <1>4, <1>5, <1>6, <1>7, <1>8, <1>9 DEF Inv

LEMMA Invariance == Spec => []Inv
<1>1. Init => Inv
    BY InitInv
<1>2. Inv /\ [Next]_vars => Inv'
    BY StepInv
<1> QED
    BY <1>1, <1>2, PTL DEF Spec

\* Every variable has its type: the offset is one, each text handed on is a
\* sequence of pieces, the channel never holds more than its capacity, and the
\* open file is one that was created.
THEOREM TypeCorrect == Spec => []TypeOK
<1>1. Inv => TypeOK
    BY DEF Inv
<1> QED
    BY <1>1, Invariance, PTL

\* Tailer hands lines on in the order they were written, none twice and none
\* that was there before the first open, however the log is rotated and
\* truncated, as long as the file that is read is the one os.Stat has seen.
THEOREM LinesInOrder == Spec => []InOrderOnce
<1>1. Inv => InOrderOnce
    BY DEF Inv, InOrder, Continues, LinesAscend, InOrderOnce
<1> QED
    BY <1>1, Invariance, PTL

\* Tailer.readAvailable never glues two lines together, unless the file
\* vanished in the middle of a line, or a truncation went unnoticed because the
\* file had grown again.
THEOREM NothingGlued == Spec => []NeverGlued
<1>1. Inv => NeverGlued
    BY DEF Inv, WholeLines, Whole, NeverGlued
<1> QED
    BY <1>1, Invariance, PTL

-----------------------------------------------------------------------------
(* No line is given up.                                                    *)

LEMMA EndedFrom ==
    ASSUME NEW S, NEW s \in Seq(S), NEW n \in Nat
    PROVE  Ended(From(s, n)) \subseteq Ended(s)
<1>1. From(s, n) \in Seq(S) /\ Range(From(s, n)) \subseteq Range(s)
    BY FromProps, RangeFrom
<1> QED
    BY <1>1, EndedOfRange

\* The lines that a text ends are those of what was kept, and of what is read.
LEMMA EndedRead ==
    ASSUME TypeOK, NEW g \in Files, NEW n \in Nat, NEW b \in Seq(Pieces), Read(g, n, b)
    PROVE  Ended(pending') = Ended(b) \cup Ended(From(files[g], n))
<1>1. From(files[g], n) \in Seq(Pieces) /\ pending' = b \o From(files[g], n)
    BY TypeFacts, FromProps DEF Read
<1> QED
    BY <1>1, EndedConcat

LEMMA EndedReadFromStart ==
    ASSUME TypeOK, NEW g \in Files, Read(g, 0, <<>>)
    PROVE  Ended(pending') = Ended(files[g])
<1>1. <<>> \in Seq(Pieces) /\ 0 \in Nat
    OBVIOUS
<1>2. Ended(pending') = Ended(<<>>) \cup Ended(From(files[g], 0))
    BY <1>1, EndedRead
<1>3. From(files[g], 0) = files[g]
    BY TypeFacts, FromStart
<1> QED
    BY <1>2, <1>3, EndedEmpty

HandedOn == {LineOf(lines[i]) : i \in DOMAIN lines}
ToCome == IF path # None /\ path # f /\ opened THEN Ended(files[path]) ELSE {}

Parts ==
    Reachable = HandedOn \cup Ended(pending) \cup ToCome
                    \cup (IF f = None THEN {} ELSE Ended(From(files[f], off)))

LEMMA ReachableParts == TypeOK => Parts
<1> SUFFICES ASSUME TypeOK PROVE Parts
    OBVIOUS
<1>1. CASE f = None
    BY <1>1 DEF Parts, Reachable, HandedOn, ToCome
<1>2. CASE f # None
    <2>1. pending \in Seq(Pieces) /\ From(files[f], off) \in Seq(Pieces)
        BY <1>2, TypeFacts, FromProps
    <2>2. Ended(pending \o From(files[f], off)) = Ended(pending) \cup Ended(From(files[f], off))
        BY <2>1, EndedConcat
    <2> QED
        BY <1>2, <2>2 DEF Parts, Reachable, HandedOn, ToCome
<1> QED
    BY <1>1, <1>2

LEMMA ReachablePartsNext == TypeOK' => Parts'
BY ReachableParts, PTL

LEMMA HandedOnSame == UNCHANGED lines => HandedOn' = HandedOn
BY DEF HandedOn, LineOf

\* Emit moves a line from what is held to what is handed on.
LEMMA EmitKeeps ==
    ASSUME TypeOK, Emit
    PROVE  HandedOn \cup Ended(pending) \subseteq HandedOn' \cup Ended(pending')
<1> DEFINE e == FirstEnd
           after == From(pending, e)
<1>0. /\ e \in 1..Len(pending) /\ pending[e][2] = 2 /\ \A j \in 1..(e - 1) : pending[j][2] # 2
      /\ pending \in Seq(Pieces) /\ Len(pending) \in Nat /\ lines \in Seq(Seq(Pieces))
      /\ e \in Nat /\ e \in 1..e
    <2>1. Len(pending) \in Nat /\ pending \in Seq(Pieces) /\ lines \in Seq(Seq(Pieces))
        BY TypeFacts DEF TypeOK
    <2>2. e \in 1..Len(pending) /\ pending[e][2] = 2 /\ \A j \in 1..(e - 1) : pending[j][2] # 2
        BY EmitsFirst, FirstEndProps
    <2> QED
        BY <2>1, <2>2
<1>1. /\ lines' = Append(lines, FirstLine) /\ pending' = after
      /\ FirstLine \in Seq(Pieces) /\ LineOf(FirstLine) = pending[e][1]
    BY <1>0, EmitsFirst DEF LineOf
<1>2. HandedOn' = HandedOn \cup {pending[e][1]}
    <2>1. /\ Len(lines) \in Nat /\ DOMAIN lines = 1..Len(lines)
          /\ DOMAIN lines' = 1..(Len(lines) + 1)
          /\ \A i \in 1..Len(lines) : lines'[i] = lines[i]
          /\ lines'[Len(lines) + 1] = FirstLine
        BY <1>0, <1>1, AppendProperties, LenProperties
    <2>2. {LineOf(lines'[i]) : i \in DOMAIN lines'} = HandedOn \cup {LineOf(FirstLine)}
        BY <2>1 DEF HandedOn
    <2> QED
        BY <1>1, <2>2 DEF HandedOn, LineOf
<1>3. /\ after \in Seq(Pieces) /\ Len(after) \in Nat
      /\ Len(after) = IF e < Len(pending) THEN Len(pending) - e ELSE 0
      /\ \A i \in 1..Len(after) : after[i] = pending[e + i]
    BY <1>0, FromProps, LenProperties
<1>4. ASSUME NEW l \in Ended(pending), l # pending[e][1] PROVE l \in Ended(after)
    <2>1. PICK k \in 1..Len(pending) : pending[k][2] = 2 /\ l = pending[k][1]
        BY <1>0, LenProperties DEF Ended
    <2>2. k # e /\ k \notin 1..(e - 1)
        BY <1>0, <1>4, <2>1
    <2>3. k - e \in 1..Len(after) /\ e + (k - e) = k
        BY <1>0, <1>3, <2>2
    <2>4. after[k - e] = pending[k] /\ k - e \in DOMAIN after
        BY <1>3, <2>3, LenProperties
    <2> HIDE DEF after
    <2> QED
        BY <2>1, <2>4 DEF Ended
<1> HIDE DEF after
<1> QED
    BY <1>1, <1>2, <1>4

\* While there is a file at the path, a tick gives up no line: what it reads it
\* holds, what it holds it hands on or keeps, and only the end of a rotated file
\* that is written after Tailer has drained it is left.
THEOREM NoLineGivenUp == Spec => NoStepLoses
<1>1. ASSUME Inv, Tick, path # None
      PROVE  Reachable \ Reachable' \subseteq
                 (IF pc = "reopen" THEN Ended(From(files[f], off)) ELSE {})
    <2>0. TypeOK /\ TypeOK' /\ Fresh /\ Switching /\ NoLineWaits
        <3>1. Inv'
            BY <1>1, StepInv DEF Next
        <3> QED
            BY <1>1, <3>1 DEF Inv
    <2> USE TypeFacts, <2>0
    <2>1. path \in Files /\ Parts /\ Parts'
        BY <1>1, ReachableParts, ReachablePartsNext
    <2>2. CASE StatFinds \/ EmitDone
        <3>1. UNCHANGED <<path, files, f, off, pending, opened, lines>>
            BY <2>2 DEF StatFinds, EmitDone, env
        <3>2. Reachable' = Reachable
            BY <3>1 DEF Reachable, LineOf
        <3> QED
            BY <3>2
    <2>3. CASE OpenFails
        <3>1. /\ UNCHANGED <<path, files, off, pending, opened, lines>> /\ f' = None
              /\ f # None => pc = "reopen"
            BY <2>3 DEF OpenFails, env
        <3>2. HandedOn' = HandedOn /\ ToCome \subseteq ToCome'
            BY <1>1, <3>1, HandedOnSame DEF ToCome
        <3> QED
            BY <2>1, <3>1, <3>2 DEF Parts
    <2>4. CASE Open
        <3>1. f = None /\ f' = path /\ UNCHANGED <<path, files, lines>>
            BY <2>4 DEF Open, env
        <3>2. HandedOn' = HandedOn
            BY <3>1, HandedOnSame
        <3>3. CASE opened
            <4>1. Read(path, 0, pending) /\ From(files[path], 0) = files[path]
                BY <2>1, <2>4, <3>3, FromStart DEF Open
            <4>2. Ended(pending') = Ended(pending) \cup Ended(files[path])
                BY <2>1, <4>1, EndedRead
            <4> QED
                BY <2>1, <3>1, <3>2, <4>2 DEF Parts, ToCome
        <3>4. CASE ~opened
            <4>1. pending = <<>>
                BY <3>4 DEF Fresh
            <4> QED
                BY <2>1, <3>1, <3>2, <3>4, <4>1, EndedEmpty DEF Parts, ToCome
        <3> QED
            BY <3>3, <3>4
    <2>5. CASE Drain \/ (Follow /\ ~Truncated)
        <3>1. f \in Files /\ Read(f, off, pending) /\ UNCHANGED <<path, files, f, opened, lines>>
            BY <2>5 DEF Drain, Follow, Switching, env
        <3>2. HandedOn' = HandedOn /\ ToCome' = ToCome
            BY <3>1, HandedOnSame DEF ToCome
        <3>3. Ended(pending') = Ended(pending) \cup Ended(From(files[f], off))
            BY <3>1, EndedRead
        <3> QED
            BY <2>1, <3>1, <3>2, <3>3 DEF Parts
    <2>6. CASE Reopen
        <3>1. /\ pc = "reopen" /\ f # None /\ Read(path, 0, <<>>) /\ f' = path
              /\ UNCHANGED <<path, files, lines>>
            BY <2>6 DEF Reopen, Switching, env
        <3>2. HandedOn' = HandedOn /\ Ended(pending) = {}
            BY <3>1, HandedOnSame DEF NoLineWaits
        <3>3. Ended(pending') = Ended(files[path])
            BY <2>1, <3>1, EndedReadFromStart
        <3> QED
            BY <2>1, <3>1, <3>2, <3>3 DEF Parts, ToCome
    <2>7. CASE Follow /\ Truncated
        <3>1. /\ pc = "stated" /\ f \in Files /\ Read(f, 0, <<>>)
              /\ UNCHANGED <<path, files, f, opened, lines>>
            BY <2>7 DEF Follow, env
        <3>2. HandedOn' = HandedOn /\ ToCome' = ToCome /\ Ended(pending) = {}
            BY <3>1, HandedOnSame DEF NoLineWaits, ToCome
        <3>3. Ended(pending') = Ended(files[f])
            BY <3>1, EndedReadFromStart
        <3>4. Ended(From(files[f], off)) \subseteq Ended(files[f])
            BY <3>1, EndedFrom
        <3> QED
            BY <2>1, <3>1, <3>2, <3>3, <3>4 DEF Parts
    <2>8. CASE Emit
        <3>1. UNCHANGED <<path, files, f, off, opened>>
            BY <2>8, EmitsFirst DEF env
        <3>2. ToCome' = ToCome
            BY <3>1 DEF ToCome
        <3>3. HandedOn \cup Ended(pending) \subseteq HandedOn' \cup Ended(pending')
            BY <2>8, EmitKeeps
        <3> QED
            BY <2>1, <3>1, <3>2, <3>3 DEF Parts
    <2> QED
        BY <1>1, <2>2, <2>3, <2>4, <2>5, <2>6, <2>7, <2>8 DEF Tick, StatFails
<1>2. Inv /\ [Next]_vars => [Tick /\ path # None =>
          Reachable \ Reachable' \subseteq (IF pc = "reopen" THEN Ended(From(files[f], off)) ELSE {})]_vars
    BY <1>1
<1> QED
    BY <1>2, Invariance, PTL DEF Spec, NoStepLoses
=============================================================================
